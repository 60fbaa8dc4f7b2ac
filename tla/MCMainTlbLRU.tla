---------------------------- MODULE MCMainTlbLRU ----------------------------
EXTENDS MainTlbLRU, Bitwise

\* (addr >> 12) & tlb_set_mask, with tlb_set_mask = tlb_set_step - 1.
MCSetIndex(page, step) == page & (step - 1)

\* 3/2 = 1 and 3/3 = 1: both are one set of three ways.
MCConfigs == {<<3, 2>>, <<3, 3>>}

MCGarbage == {[va |-> 1, asid |-> 1, ts |-> 1]}
=============================================================================

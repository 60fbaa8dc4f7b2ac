----------------------------- MODULE MCMainTlb ------------------------------
EXTENDS MainTlb, Bitwise

\* (addr >> 12) & tlb_set_mask, with tlb_set_mask = tlb_set_step - 1.
MCSetIndex(page, step) == page & (step - 1)

\* One size; direct mapped, two-way, fully associative (4/3 = 1 is one set).
MCConfigs == {<<4, 1>>, <<4, 2>>, <<4, 3>>}

\* A block that an earlier table left behind.
MCGarbage == {[va |-> 1, asid |-> 1, ts |-> 1]}

\* Two sets of one entry; one set of two; a second table smaller than the first.
MCTwoSets == {<<2, 1>>}
MCOneSet  == {<<2, 2>>}
MCShrink  == {<<2, 2>>, <<1, 1>>}
=============================================================================

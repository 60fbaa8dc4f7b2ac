------------------------------ MODULE MCTracer ------------------------------
EXTENDS Tracer, Bitwise

\* (addr >> 12) & tlb_set_mask, with tlb_set_mask = tlb_set_step - 1.
MCSetIndex(page, step) == page & (step - 1)

\* Two direct-mapped entries.
MCConfigs == {<<2, 1>>}

MCGarbage == {[va |-> 1, asid |-> 1, ts |-> 1]}

\* trace_$MM$dd_$hh$mm_$size.$set: the minute and the configuration tell two
\* names apart, and nothing else does.
MCNameOf(m, c) == <<m, c>>
MCFile == Minutes \X (Configs \cup {NoConfig})

\* A completed walk.
MCWalks == {<<3, 4, 8, 12288>>}
=============================================================================

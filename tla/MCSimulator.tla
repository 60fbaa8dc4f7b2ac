---------------------------- MODULE MCSimulator -----------------------------
EXTENDS Driver, Bitwise

\* (addr >> 12) & mask and (addr >> 2) & mask, with mask = step - 1.
MCSetIndex(n, step) == n & (step - 1)

\* Guest tables in two frames of one megabyte and one of another; a page fault
\* at each level, completed walks, and final frames that share an EPT table
\* with the guest's own.
MCTuples ==
    {[level |-> 1, l1 |-> 16384, l2 |-> 0, gpa |-> 0],
     [level |-> 2, l1 |-> 16384, l2 |-> 20484, gpa |-> 0],
     [level |-> 3, l1 |-> 16388, l2 |-> 20484, gpa |-> 1052672],
     [level |-> 3, l1 |-> 16384, l2 |-> 20488, gpa |-> 16384],
     [level |-> 3, l1 |-> 1048580, l2 |-> 1052672, gpa |-> 24576]}

\* Direct mapped, two-way, fully associative; smaller than the static tables.
MCNtlbGeometry == {<<2, 1>>, <<2, 2>>}
MCPwcGeometry  == {<<4, 1>>, <<4, 2>>, <<3, 3>>}

MCDigits(n) == <<n>>

\* Listed out of order: traces of other main TLBs, one whose associativity only
\* begins with the one asked for, a file that is no trace, and more one-way
\* traces than trace_files holds; no more than it holds; and no trace at all.
MCDirectories ==
    LET trace(when, size, way) ==
            [trace |-> TRUE, when |-> when, size |-> size, way |-> way]
    IN  {<<>>,
         <<trace(2, 64, <<1>>), trace(1, 64, <<1, 6>>)>>,
         <<trace(2, 64, <<1>>), [trace(1, 64, <<1>>) EXCEPT !.trace = FALSE],
           trace(1, 64, <<1, 6>>), trace(1, 128, <<1>>), trace(1, 64, <<2>>),
           trace(1, 64, <<1>>)>>}
=============================================================================

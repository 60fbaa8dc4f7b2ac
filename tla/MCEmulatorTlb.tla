--------------------------- MODULE MCEmulatorTlb ---------------------------
EXTENDS EmulatorTlb, TLC

\* A level-1 or level-2 descriptor.
D(type, ap, base) ==
    [type |-> type, super |-> FALSE, domain |-> 1, ap |-> ap, xn |-> FALSE,
     base |-> base]
None == D(0, 0, 0)

\* The parts of the pages of 4 KB: 0 and 1 of page 0, 2 and 3 of page 1, 8 and 9
\* of page 4.
MCTargetPage == {p \in 0..9 : p \div SubPages \in Page}

\* Pages 0 and 1 have coarse tables "ca" and "cb" in the two spaces; page 4 is
\* mapped by the second table.  A large page has two frames and a section four.
MCTables ==
    (<<"A", 0>> :> {D(1, 0, "ca"), D(3, 0, 0)}) @@
    (<<"B", 0>> :> {D(1, 0, "cb")}) @@
    (<<"K", 1>> :> {[D(2, 3, 9) EXCEPT !.xn = TRUE],
                    [D(2, 3, 70) EXCEPT !.super = TRUE]}) @@
    (<<"ca", 0>> :> {None, D(2, 2, 5), D(2, 3, 6), D(2, 1, 6)}) @@
    (<<"ca", 1>> :> {D(1, 3, 20), None}) @@
    (<<"cb", 0>> :> {D(3, 3, 7)}) @@
    (<<"cb", 1>> :> {D(2, 1, 8)})

\* Page 0 read-only or not yet mapped; page 1 large.
MCBoot == {
    [a \in DOMAIN MCTables |->
        CASE a = <<"A", 0>>  -> D(1, 0, "ca")
          [] a = <<"K", 1>>  -> [D(2, 3, 9) EXCEPT !.xn = TRUE]
          [] a = <<"ca", 0>> -> d
          [] a = <<"ca", 1>> -> D(1, 3, 20)
          [] OTHER -> CHOOSE e \in MCTables[a] : TRUE] : d \in {None, D(2, 2, 5)}}

MCRights == {[d \in 0..15 |-> 1], [d \in 0..15 |-> IF d = 1 THEN 3 ELSE 0]}

G(ops, pages, writes) ==
    [ops |-> ops, pages |-> pages, writes |-> writes,
     spaces |-> IF "switch" \in ops THEN Space ELSE {"A"}, boot |-> "A"]

MCGuests == {
    G({"data", "unaligned", "remap"}, {1, 2}, {<<"ca", 0>>, <<"ca", 1>>}),
    G({"data", "kernel", "ldrt", "remap"}, {0, 8}, {<<"ca", 0>>, <<"K", 1>>}),
    G({"data", "exec", "remap"}, {1, 2}, {<<"ca", 0>>, <<"ca", 1>>}),
    G({"data", "exec", "unaligned", "remap"}, {0, 1}, {<<"ca", 0>>}),
    G({"data", "exec", "unaligned", "ldrt"}, {1, 2}, {}),
    G({"kernel", "exec", "switch"}, {1, 2}, {}),
    G({"data", "kernel", "exec", "domain", "mmu"}, {0, 8}, {}),
    G({"data", "remap", "switch", "mva"}, {1, 2}, {<<"A", 0>>, <<"ca", 1>>})}
=============================================================================

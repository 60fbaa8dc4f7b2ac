------------------------------ MODULE PageWalk ------------------------------
(***************************************************************************)
(* The two walks of the guest's page table.  get_phys_addr (helper.c) is   *)
(* the emulator's own: it decides what an access does.  get_ptes           *)
(* (tlb_trace.c) is the tracer's: it decides what the trace says of the    *)
(* access.  Both read the same descriptors, through two copies of          *)
(* get_level1_table_address.                                               *)
(*                                                                         *)
(* Pages and frames are numbers (addresses without their low 12 bits).  A  *)
(* descriptor is a record of the fields the walks take from it, and the    *)
(* memory m a function from descriptor addresses <<table, index>>.         *)
(***************************************************************************)
EXTENDS Integers, FiniteSets

CONSTANTS
    Page,          \* virtual pages
    High,          \* those the second translation table maps (c2_mask)
    Base1,         \* that table (c2_base1)
    SectionPages,  \* pages of a section: 256
    LargePages,    \* pages of a "64k page": 16
    SystemProt,    \* the S and R bits of c1_sys
    AccessFlag,    \* bit 29 of c1_sys: AP[0] is an access flag
    V7             \* the CPU has ARM_FEATURE_V7

ASSUME PageAssumption == Page \subseteq Nat /\ High \subseteq Page
ASSUME SizesAssumption == SectionPages \in Nat \ {0} /\ LargePages \in Nat \ {0}
ASSUME CpuAssumption ==
    SystemProt \in 0..3 /\ AccessFlag \in BOOLEAN /\ V7 \in BOOLEAN

\* The kinds of access, 0, 1 and 2 in helper.c, and the protection bits.
Access     == {"read", "write", "exec"}

\* Descriptors of either level: the two low bits, bit 18 of a section, domain,
\* permissions, never-execute, and the base of a coarse table or the top 20
\* bits (a frame number), of which a section or a large page uses fewer.
IsDescriptor(d) ==
    /\ d.type \in 0..3 /\ d.super \in BOOLEAN /\ d.domain \in 0..15
    /\ d.ap \in 0..7 /\ d.xn \in BOOLEAN

-----------------------------------------------------------------------------
(* Reading the tables.  c is [base0, c3, mmu]: the registers that change.   *)

get_level1_table_address(c, page) ==
    <<IF page \in High THEN Base1 ELSE c.base0, page \div SectionPages>>

get_level2_table_address(desc, page) == <<desc.base, page % SectionPages>>

\* The access rights of the descriptor's domain; a supersection is in domain 0.
DomainRights(c, desc) ==
    c.c3[IF desc.type = 2 /\ desc.super THEN 0 ELSE desc.domain]

-----------------------------------------------------------------------------
(* The emulator: check_ap, get_phys_addr_v6, get_phys_addr. *)

check_ap(ap, access, user) ==
    LET prot_ro == IF access = "write" THEN {} ELSE {"read"} IN
    CASE ap = 0 -> IF SystemProt = 2 \/ (SystemProt = 1 /\ ~ user)
                   THEN prot_ro ELSE {}
      [] ap = 1 -> IF user THEN {} ELSE {"read", "write"}
      [] ap = 2 -> IF user THEN prot_ro ELSE {"read", "write"}
      [] ap = 3 -> {"read", "write"}
      [] ap = 4 -> {}
      [] ap = 5 -> IF user THEN {} ELSE prot_ro
      [] ap = 6 -> prot_ro
      [] ap = 7 -> IF V7 THEN prot_ro ELSE {}

Fault == [ok |-> FALSE]

\* The end of the walk: the permissions of the last descriptor.
Permit(rights, desc, frame, access, user) ==
    LET prot == check_ap(desc.ap, access, user) IN
    IF rights = 3 THEN [ok |-> TRUE, frame |-> frame, prot |-> Access]
    ELSE IF \/ desc.xn /\ access = "exec"
            \/ AccessFlag /\ desc.ap % 2 = 0
            \/ prot = {}
    THEN Fault
    ELSE [ok |-> TRUE, frame |-> frame,
          prot |-> IF desc.xn THEN prot ELSE prot \cup {"exec"}]

\* The frame of a page in a naturally aligned block of n frames.
FrameIn(base, n, page) == (base \div n) * n + (page % n)

get_phys_addr_v6(c, m, page, access, user) ==
    LET l1     == m[get_level1_table_address(c, page)]
        rights == DomainRights(c, l1)
        l2     == m[get_level2_table_address(l1, page)]
    IN  IF l1.type \in {0, 3} THEN Fault
        ELSE IF rights \in {0, 2} THEN Fault
        ELSE IF l1.type = 2
        THEN Permit(rights, l1,
                    FrameIn(l1.base, IF l1.super THEN 16 * SectionPages
                                                 ELSE SectionPages, page),
                    access, user)
        ELSE IF l2.type = 0 THEN Fault
        ELSE Permit(rights, l2,
                    IF l2.type = 1 THEN FrameIn(l2.base, LargePages, page)
                                   ELSE l2.base,
                    access, user)

\* With the MMU off, addresses are physical.
get_phys_addr(c, m, page, access, user) ==
    IF ~ c.mmu THEN [ok |-> TRUE, frame |-> page, prot |-> Access]
               ELSE get_phys_addr_v6(c, m, page, access, user)

-----------------------------------------------------------------------------
(* The tracer: get_ptes.  What it does not set is 0, as its caller            *)
(* initialises it.                                                            *)

\* Mutant: only a small page ends the walk.
get_ptes_SmallOnly(c, m, page) ==
    LET l1_ppa == get_level1_table_address(c, page)
        l1     == m[l1_ppa]
        l2_ppa == get_level2_table_address(l1, page)
        l2     == m[l2_ppa]
    IN  IF l1.type \in {0, 3} \/ DomainRights(c, l1) \in {0, 2} \/ l1.type = 2
        THEN [ret |-> 1, l1 |-> l1_ppa, l2 |-> 0, gpa |-> 0]
        ELSE IF l2.type < 2
        THEN [ret |-> 2, l1 |-> l1_ppa, l2 |-> l2_ppa, gpa |-> 0]
        ELSE [ret |-> 3, l1 |-> l1_ppa, l2 |-> l2_ppa, gpa |-> l2.base]

get_ptes(c, m, page) ==
    LET l1_ppa == get_level1_table_address(c, page)
        l1     == m[l1_ppa]
        l2_ppa == get_level2_table_address(l1, page)
        l2     == m[l2_ppa]
    IN  IF l1.type \in {0, 3} \/ DomainRights(c, l1) \in {0, 2} \/ l1.type = 2
        THEN [ret |-> 1, l1 |-> l1_ppa, l2 |-> 0, gpa |-> 0]
        ELSE IF l2.type = 0
        THEN [ret |-> 2, l1 |-> l1_ppa, l2 |-> l2_ppa, gpa |-> 0]
        ELSE [ret |-> 3, l1 |-> l1_ppa, l2 |-> l2_ppa, gpa |-> l2.base]
=============================================================================

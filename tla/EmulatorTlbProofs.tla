------------------------- MODULE EmulatorTlbProofs -------------------------
(***************************************************************************)
(* Proofs about the software TLB, for every page table, set of guests and  *)
(* size of the TLB: what user code reaches without a hook was reported,    *)
(* a store across two pages is not done in part, what can be used without  *)
(* a walk is what a walk would find, and so is what get_ptes reports.  The *)
(* first two need nothing of the walk (EmuInv); the others need what it    *)
(* reads and what makes it change (CurrentInv).                            *)
(***************************************************************************)
EXTENDS EmulatorTlb, SequenceTheorems, TLAPS

Request(idx, access, todo, stored, tb) ==
    [at |-> "redo", idx |-> idx, access |-> access, todo |-> todo,
     stored |-> stored, tb |-> tb]

\* The tables: an entry sits where its page is looked up.
TableOK ==
    /\ tlb = [i \in 0..1 |-> [x \in 0..TlbSize - 1 |-> tlb[i][x]]]
    /\ \A i \in 0..1, x \in 0..TlbSize - 1 :
        tlb[i][x] # NoEntry =>
            tlb[i][x].page \in TargetPage /\ tlb[i][x].page % TlbSize = x

\* A block lies on one page or on two adjacent ones.
BlocksOK ==
    \A tb \in jmp_cache : \E p \in TargetPage :
        tb.pages = <<p>> \/ (p + 1 \in TargetPage /\ tb.pages = <<p, p + 1>>)

\* A load or store on its way: nothing done, or the first page of a crossing
\* store found and still there.
DataOK(idx, p, access) ==
    \/ \E w \in BOOLEAN :
        pc = Request(idx, access, <<Step(p, "always", w)>>, FALSE, <<>>)
    \/ /\ p + 1 \in TargetPage
       /\ \/ pc = Request(idx, access,
                          <<Step(p, "always", FALSE), Step(p + 1, "never", FALSE)>>,
                          FALSE, <<>>)
          \/ pc = Request(idx, access, <<Step(p + 1, "never", FALSE)>>, FALSE, <<>>)
          \/ pc = Request(idx, access,
                          <<Step(p, "always", FALSE), Step(p + 1, "never", TRUE),
                            Step(p, "never", TRUE)>>, FALSE, <<>>)
          \/ /\ pc = Request(idx, access,
                             <<Step(p + 1, "never", TRUE), Step(p, "never", TRUE)>>,
                             FALSE, <<>>)
             /\ Match(idx, p, access)
          \/ /\ pc = Request(idx, access, <<Step(p, "never", TRUE)>>, TRUE, <<>>)
             /\ Match(idx, p, access)

\* A block being looked up: on the second page, the first is in the TLB, and
\* was reported if the block is being translated.
CodeOK(idx, p, report) ==
    /\ idx = cpu_mmu_index
    /\ \/ pc = Request(idx, "exec", <<Step(p, report, FALSE)>>, FALSE, <<p>>)
       \/ /\ p + 1 \in TargetPage
          /\ pc = Request(idx, "exec",
                          <<Step(p, report, FALSE), Step(p + 1, report, FALSE)>>,
                          FALSE, <<p, p + 1>>)
       \/ /\ p + 1 \in TargetPage
          /\ pc = Request(idx, "exec", <<Step(p + 1, report, FALSE)>>,
                          FALSE, <<p, p + 1>>)
          /\ Match(idx, p, "exec")
          /\ report = "always" /\ started /\ user => Told(p)

RequestOK ==
    \/ pc = Idle
    \/ \E idx \in 0..1, p \in TargetPage :
        \/ \E access \in {"read", "write"} : DataOK(idx, p, access)
        \/ \E report \in {"miss", "always"} : CodeOK(idx, p, report)

EmuInv ==
    /\ user \in BOOLEAN /\ started \in BOOLEAN /\ guest \in Guests
    /\ TableOK
    /\ BlocksOK
    /\ RequestOK
    /\ UnhookedIsReported

-----------------------------------------------------------------------------
(* Helpers. *)

\* Adjacent pages have different slots, because there are at least two
\* (page % TlbSize in EntryOf and tlb_set_page).
LEMMA NextIndex ==
  ASSUME NEW p \in Nat
  PROVE  (p + 1) % TlbSize # p % TlbSize
<1> USE EmulatorAssumption
<1> SUFFICES ASSUME (p + 1) % TlbSize = p % TlbSize PROVE FALSE
  OBVIOUS
<1> DEFINE n  == TlbSize
           q0 == p \div n
           q1 == (p + 1) \div n
           r  == p % n
<1>0. n \in Nat /\ n > 1
  OBVIOUS
<1>1. p = n * q0 + r /\ q0 \in Int /\ r \in 0..(n - 1)
  BY <1>0
<1>2. p + 1 = n * q1 + r /\ q1 \in Int
  BY <1>0
<1> HIDE DEF n, q0, q1, r
<1>3. n * q1 = n * q0 + 1
  BY <1>0, <1>1, <1>2
<1>4. CASE q1 = q0
  BY <1>0, <1>1, <1>3, <1>4
<1>5. CASE q1 >= q0 + 1
  <2>1. n * q1 >= n * (q0 + 1)
    BY <1>0, <1>1, <1>2, <1>5
  <2>2. n * (q0 + 1) = n * q0 + n
    BY <1>0, <1>1
  <2> QED BY <1>0, <1>1, <1>2, <1>3, <2>1, <2>2
<1>6. CASE q1 + 1 <= q0
  <2>1. n * (q1 + 1) <= n * q0
    BY <1>0, <1>1, <1>2, <1>6
  <2>2. n * (q1 + 1) = n * q1 + n
    BY <1>0, <1>2
  <2> QED BY <1>0, <1>1, <1>2, <1>3, <2>1, <2>2
<1> QED BY <1>1, <1>2, <1>4, <1>5, <1>6

\* A page has a slot.
LEMMA SlotOfPage ==
  ASSUME NEW p \in TargetPage
  PROVE  p \in Nat /\ p % TlbSize \in 0..TlbSize - 1
BY EmulatorAssumption, TargetPageAssumption

\* tlb_flush leaves nothing that could be used without a walk.
LEMMA FlushFacts ==
  ASSUME tlb_flush
  PROVE  TableOK' /\ BlocksOK' /\ UnhookedIsReported'
<1>1. \A i \in 0..1, x \in 0..TlbSize - 1 : tlb'[i][x] = NoEntry
  BY DEF tlb_flush
<1>2. TableOK'
  <2>1. tlb' = [i \in 0..1 |-> [x \in 0..TlbSize - 1 |-> tlb'[i][x]]]
    BY <1>1 DEF tlb_flush
  <2> QED BY <1>1, <2>1 DEF TableOK
<1>3. BlocksOK'
  BY DEF tlb_flush, BlocksOK
<1>4. UnhookedIsReported'
  <2>1. Entries(MMU_USER_IDX)' = {}
    BY <1>1 DEF Entries, MMU_USER_IDX
  <2>2. Blocks(TRUE)' = {}
    BY DEF Blocks, tlb_flush
  <2> QED BY <2>1, <2>2, Zenon DEF UnhookedIsReported
<1> QED BY <1>2, <1>3, <1>4

\* The invariant does not depend on the page tables, c2, c3, c1 or the guest's
\* promises, and nothing is in progress when the guest's kernel acts.
LEMMA IdleFacts ==
  ASSUME pc = Idle, pc' = pc
  PROVE  RequestOK'
BY DEF RequestOK, Idle

\* Reports only add to what the tracer has seen.
LEMMA ReportFacts ==
  ASSUME NEW page, tlbtrace_refmem_qemu(page)
  PROVE  /\ reported \subseteq reported'
         /\ started /\ user => <<MmuPage(page), asid>> \in reported'
BY DEF tlbtrace_refmem_qemu

\* What the tracer was told of, it stays told of.
LEMMA ToldStays ==
  ASSUME UNCHANGED <<asid, forgotten>>, reported \subseteq reported'
  PROVE  \A page : Told(page) => Told(page)'
BY DEF Told

\* Steps that leave the tables, the ASID and the tracer alone.
LEMMA SoftUnchanged ==
  ASSUME TableOK, BlocksOK, UnhookedIsReported,
         UNCHANGED <<soft, asid, started, forgotten>>, reported \subseteq reported'
  PROVE  TableOK' /\ BlocksOK' /\ UnhookedIsReported'
<1>1. UNCHANGED <<tlb, jmp_cache>>
  BY DEF soft
<1>2. TableOK' /\ BlocksOK'
  BY <1>1 DEF TableOK, BlocksOK
<1>3. UnhookedIsReported'
  BY <1>1, ToldStays DEF UnhookedIsReported, Entries, Blocks
<1> QED BY <1>2, <1>3

-----------------------------------------------------------------------------
(* What the emulator's walk finds. *)

\* check_ap: an access that has any permission has those of a read, which tell
\* whether a load and whether a store is allowed.
LEMMA CheckApFacts ==
  ASSUME NEW ap \in 0..7, NEW access \in Access, NEW u \in BOOLEAN
  PROVE  /\ check_ap(ap, "read", u) \subseteq {"read", "write"}
         /\ check_ap(ap, access, u) # {} =>
                check_ap(ap, access, u) = check_ap(ap, "read", u)
         /\ check_ap(ap, "read", u) # {} => "read" \in check_ap(ap, "read", u)
         /\ "write" \in check_ap(ap, "read", u) <=> check_ap(ap, "write", u) # {}
<1> USE CpuAssumption DEF check_ap, Access
<1>1. CASE ap = 0
  BY <1>1
<1>2. CASE ap = 1
  BY <1>2
<1>3. CASE ap = 2
  BY <1>3
<1>4. CASE ap = 3
  BY <1>4
<1>5. CASE ap = 4
  BY <1>5
<1>6. CASE ap = 5
  BY <1>6
<1>7. CASE ap = 6
  BY <1>7
<1>8. CASE ap = 7
  BY <1>8
<1> HIDE CpuAssumption DEF check_ap, Access
<1>9. ap \in {0, 1, 2, 3, 4, 5, 6, 7}
  OBVIOUS
<1> QED
  BY <1>1, <1>2, <1>3, <1>4, <1>5, <1>6, <1>7, <1>8, <1>9, Zenon

\* The end of the walk: where one access succeeds, a read finds the same, and
\* its permissions tell how loads and stores fare.
LEMMA PermitFacts ==
  ASSUME NEW rights, NEW desc, IsDescriptor(desc), NEW frame, NEW u \in BOOLEAN
  PROVE  /\ \A k \in Access : Permit(rights, desc, frame, k, u).ok \in BOOLEAN
         /\ \A k \in Access : Permit(rights, desc, frame, k, u).ok =>
                Permit(rights, desc, frame, k, u) = Permit(rights, desc, frame, "read", u)
         /\ LET w == Permit(rights, desc, frame, "read", u) IN
            w.ok => /\ w.frame = frame
                    /\ w.prot \in SUBSET Access /\ "read" \in w.prot
                    /\ "write" \in w.prot <=> Permit(rights, desc, frame, "write", u).ok
<1> DEFINE P(k) == Permit(rights, desc, frame, k, u)
           C(k) == check_ap(desc.ap, k, u)
           Refused(k) == \/ desc.xn /\ k = "exec"
                         \/ AccessFlag /\ desc.ap % 2 = 0
                         \/ C(k) = {}
           Granted(c) == [ok |-> TRUE, frame |-> frame,
                          prot |-> IF desc.xn THEN c ELSE c \cup {"exec"}]
<1>1. /\ C("read") \subseteq {"read", "write"}
      /\ \A k \in Access : C(k) # {} => C(k) = C("read")
      /\ C("read") # {} => "read" \in C("read")
      /\ "write" \in C("read") <=> C("write") # {}
  BY CheckApFacts DEF IsDescriptor, Access
<1>2. \A k \in Access :
        P(k) = IF rights = 3 THEN [ok |-> TRUE, frame |-> frame, prot |-> Access]
               ELSE IF Refused(k) THEN Fault ELSE Granted(C(k))
  BY Zenon DEF Permit
<1> HIDE DEF P, C
<1>3. \A k \in Access : ~ Refused(k) => ~ Refused("read") /\ C(k) = C("read")
  BY <1>1
<1>4. ~ Refused("read") /\ "write" \in C("read") <=> ~ Refused("write")
  BY <1>1 DEF Access
<1> HIDE DEF Refused
<1>0. "read" \in Access /\ "write" \in Access
  BY DEF Access
<1>5. CASE rights = 3
  <2> DEFINE all == [ok |-> TRUE, frame |-> frame, prot |-> Access]
  <2>1. all.ok = TRUE /\ all.frame = frame /\ all.prot = Access
    OBVIOUS
  <2>2. \A k \in Access : P(k) = all
    BY <1>2, <1>5, Zenon
  <2> HIDE DEF all
  <2> QED
    BY <1>0, <2>1, <2>2, Zenon DEF P
<1>6. CASE rights # 3
  <2>1. \A k \in Access : P(k).ok = ~ Refused(k)
    <3>1. Fault.ok = FALSE /\ \A c : Granted(c).ok = TRUE
      BY DEF Fault
    <3> HIDE DEF Granted
    <3>2. \A k \in Access : P(k) = IF Refused(k) THEN Fault ELSE Granted(C(k))
      BY <1>2, <1>6, Zenon
    <3>3. \A k \in Access : Refused(k) \in BOOLEAN
      BY DEF Refused
    <3> QED
      BY <3>1, <3>2, <3>3, Zenon
  <2>2. \A k \in Access : ~ Refused(k) => P(k) = Granted(C("read")) /\ P("read") = Granted(C("read"))
    BY <1>2, <1>3, <1>6 DEF Access
  <2>3. /\ Granted(C("read")).frame = frame
        /\ Granted(C("read")).prot \in SUBSET Access
        /\ "write" \in Granted(C("read")).prot <=> "write" \in C("read")
        /\ C("read") # {} => "read" \in Granted(C("read")).prot
    BY <1>1 DEF Access
  <2>4. ~ Refused("read") => C("read") # {}
    BY DEF Refused
  <2> HIDE DEF Granted
  <2> QED
    BY <1>0, <1>4, <2>1, <2>2, <2>3, <2>4, Zenon DEF P
<1> QED
  BY <1>5, <1>6

\* The memory of a guest whose walks read nothing but its tables.
MemOK(m) == \A a \in DOMAIN Tables : m[a] \in Tables[a]

\* The descriptors of a walk.
LEMMA DescriptorFacts ==
  ASSUME NEW m, MemOK(m), NEW c, c.base0 \in Space, NEW page \in Page
  PROVE  LET l1 == m[get_level1_table_address(c, page)]
             l2 == m[get_level2_table_address(l1, page)]
         IN  /\ IsDescriptor(l1)
             /\ l1.type \notin {0, 2, 3} => IsDescriptor(l2) /\ l2.base \in Nat
<1> DEFINE a  == get_level1_table_address(c, page)
           l1 == m[a]
           b  == get_level2_table_address(l1, page)
           l2 == m[b]
<1>1. a = get_level1_table_address([base0 |-> c.base0], page)
  BY DEF get_level1_table_address
<1>2. a \in DOMAIN Tables
  BY <1>1, TablesAssumption, Zenon
<1>3. l1 \in Tables[a] /\ IsDescriptor(l1)
  BY <1>2, TablesAssumption, Zenon DEF MemOK
<1>4. ASSUME l1.type \notin {0, 2, 3}
      PROVE  IsDescriptor(l2) /\ l2.base \in Nat
  <2>1. l1.type = 1
    BY <1>3, <1>4 DEF IsDescriptor
  <2>2. b \in DOMAIN Tables /\ \A e \in Tables[b] : e.base \in Nat
    BY <1>1, <1>3, <2>1, TablesAssumption, Zenon
  <2> QED
    BY <2>2, TablesAssumption, Zenon DEF MemOK
<1> QED
  BY <1>3, <1>4

\* A walk finds the page itself, a fault, or what the last descriptor permits,
\* whatever the access.
LEMMA WalkCases ==
  ASSUME NEW m, MemOK(m), NEW c, c.base0 \in Space, NEW page \in Page, NEW u \in BOOLEAN
  PROVE  \/ \A k \in Access : get_phys_addr(c, m, page, k, u) =
                                [ok |-> TRUE, frame |-> page, prot |-> Access]
         \/ \A k \in Access : get_phys_addr(c, m, page, k, u) = Fault
         \/ \E rights, desc, frame :
                /\ IsDescriptor(desc)
                /\ \A k \in Access : get_phys_addr(c, m, page, k, u) =
                                        Permit(rights, desc, frame, k, u)
<1> DEFINE l1 == m[get_level1_table_address(c, page)]
           l2 == m[get_level2_table_address(l1, page)]
           rights == DomainRights(c, l1)
           f1 == FrameIn(l1.base, IF l1.super THEN 16 * SectionPages
                                              ELSE SectionPages, page)
           f2 == IF l2.type = 1 THEN FrameIn(l2.base, LargePages, page) ELSE l2.base
           W(k) == get_phys_addr(c, m, page, k, u)
<1>1. /\ IsDescriptor(l1)
      /\ l1.type \notin {0, 2, 3} => IsDescriptor(l2)
  BY DescriptorFacts, Zenon
<1>2. \A k \in Access :
        W(k) = IF ~ c.mmu THEN [ok |-> TRUE, frame |-> page, prot |-> Access]
               ELSE IF l1.type \in {0, 3} THEN Fault
               ELSE IF rights \in {0, 2} THEN Fault
               ELSE IF l1.type = 2 THEN Permit(rights, l1, f1, k, u)
               ELSE IF l2.type = 0 THEN Fault
               ELSE Permit(rights, l2, f2, k, u)
  BY Zenon DEF get_phys_addr, get_phys_addr_v6
<1> HIDE DEF l1, l2, rights, f1, f2, W
<1>3. \/ \A k \in Access : W(k) = [ok |-> TRUE, frame |-> page, prot |-> Access]
      \/ \A k \in Access : W(k) = Fault
      \/ l1.type = 2 /\ \A k \in Access : W(k) = Permit(rights, l1, f1, k, u)
      \/ l1.type \notin {0, 2, 3} /\ \A k \in Access : W(k) = Permit(rights, l2, f2, k, u)
  BY <1>2, Zenon
<1> QED
  BY <1>1, <1>3, Zenon DEF W

\* Where the walk of one access succeeds, that of a read finds the same, and its
\* permissions tell how loads and stores fare: an entry filled for one kind of
\* access is right for the others (get_phys_addr, check_ap).
LEMMA WalkFacts ==
  ASSUME NEW m, MemOK(m), NEW c, c.base0 \in Space, NEW page \in Page, NEW u \in BOOLEAN
  PROVE  LET W(k) == get_phys_addr(c, m, page, k, u) IN
         /\ \A k \in Access : W(k).ok \in BOOLEAN
         /\ \A k \in Access : W(k).ok => W(k) = W("read")
         /\ W("read").ok =>
                /\ W("read").prot \in SUBSET Access /\ "read" \in W("read").prot
                /\ "write" \in W("read").prot <=> W("write").ok
<1> DEFINE W(k) == get_phys_addr(c, m, page, k, u)
           all == [ok |-> TRUE, frame |-> page, prot |-> Access]
<1>0. /\ "read" \in Access /\ "write" \in Access
      /\ all.ok = TRUE /\ all.prot = Access /\ Fault.ok = FALSE
  BY DEF Access, Fault
<1>1. CASE \A k \in Access : W(k) = all
  <2> HIDE DEF W, all
  <2> QED BY <1>0, <1>1, Zenon DEF W
<1>2. CASE \A k \in Access : W(k) = Fault
  <2> HIDE DEF W
  <2> QED BY <1>0, <1>2, Zenon DEF W
<1>3. ASSUME NEW rights, NEW desc, NEW frame, IsDescriptor(desc),
             \A k \in Access : W(k) = Permit(rights, desc, frame, k, u)
      PROVE  /\ \A k \in Access : W(k).ok \in BOOLEAN
             /\ \A k \in Access : W(k).ok => W(k) = W("read")
             /\ W("read").ok =>
                    /\ W("read").prot \in SUBSET Access /\ "read" \in W("read").prot
                    /\ "write" \in W("read").prot <=> W("write").ok
  <2> DEFINE P(k) == Permit(rights, desc, frame, k, u)
  <2>1. /\ \A k \in Access : P(k).ok \in BOOLEAN
        /\ \A k \in Access : P(k).ok => P(k) = P("read")
        /\ P("read").ok =>
              /\ P("read").prot \in SUBSET Access /\ "read" \in P("read").prot
              /\ "write" \in P("read").prot <=> P("write").ok
    BY <1>3, PermitFacts, Zenon
  <2>2. \A k \in Access : W(k) = P(k)
    BY <1>3, Zenon
  <2> HIDE DEF W, P
  <2>3. W("read") = P("read") /\ W("write") = P("write")
    BY <1>0, <2>2, Zenon
  <2> QED BY <2>1, <2>2, <2>3, Zenon
<1>4. \/ \A k \in Access : W(k) = all
      \/ \A k \in Access : W(k) = Fault
      \/ \E rights, desc, frame :
            /\ IsDescriptor(desc)
            /\ \A k \in Access : W(k) = Permit(rights, desc, frame, k, u)
  BY WalkCases
<1>5. CASE \E rights, desc, frame :
            /\ IsDescriptor(desc)
            /\ \A k \in Access : W(k) = Permit(rights, desc, frame, k, u)
  <2> HIDE DEF W
  <2> QED BY <1>3, <1>5, Zenon DEF W
<1> HIDE DEF W
<1> QED
  BY <1>1, <1>2, <1>4, <1>5, Zenon

\* A walk reads c2_base0 only for pages that the second table does not map.
LEMMA SameWalk ==
  ASSUME NEW m, NEW c, NEW d, NEW page, NEW k, NEW u,
         c.c3 = d.c3, c.mmu = d.mmu, page \in High \/ c.base0 = d.base0
  PROVE  get_phys_addr(c, m, page, k, u) = get_phys_addr(d, m, page, k, u)
<1>1. get_level1_table_address(c, page) = get_level1_table_address(d, page)
  BY DEF get_level1_table_address
<1>2. \A desc : DomainRights(c, desc) = DomainRights(d, desc)
  BY Zenon DEF DomainRights
<1> QED
  BY <1>1, <1>2, Zenon DEF get_phys_addr, get_phys_addr_v6

\* Division with remainder.
LEMMA DivMod ==
  ASSUME NEW f \in Nat, NEW n \in Nat \ {0}
  PROVE  \E g \in Int, s \in 0..(n - 1) : g = f \div n /\ f = n * g + s
<1>1. f \div n \in Int /\ f % n \in 0..(n - 1) /\ f = n * (f \div n) + (f % n)
  OBVIOUS
<1> QED
  BY <1>1

\* The frames of a large page agree up to the low bits of their number.
LEMMA FrameOfBlock ==
  ASSUME NEW base \in Nat, NEW n \in Nat \ {0}, NEW page \in Nat
  PROVE  FrameIn(base, n, page) \div n = base \div n
<1>1. PICK q \in Nat : q = base \div n
  OBVIOUS
<1>2. PICK r \in 0..(n - 1) : r = page % n
  OBVIOUS
<1>3. PICK f \in Nat : f = q * n + r
  BY <1>1, <1>2
<1>4. PICK g \in Int, s \in 0..(n - 1) : g = f \div n /\ f = n * g + s
  BY DivMod
<1>5. n * g + s = n * q + r
  BY <1>3, <1>4
<1>6. CASE g >= q + 1
  <2>1. n * g >= n * (q + 1) /\ n * (q + 1) = n * q + n
    BY <1>6
  <2> QED
    BY <1>5, <2>1
<1>7. CASE g + 1 <= q
  <2>1. n * q >= n * (g + 1) /\ n * (g + 1) = n * g + n
    BY <1>7
  <2> QED
    BY <1>5, <2>1
<1>8. CASE g = q
  <2>1. FrameIn(base, n, page) = f
    BY <1>1, <1>2, <1>3, Zenon DEF FrameIn
  <2> QED
    BY <1>1, <1>4, <1>8, <2>1, Zenon
<1> QED
  BY <1>6, <1>7, <1>8

\* Where the emulator's walk succeeds, the tracer's ends at a section, or at a
\* page and then with the frame that is used (get_ptes, get_phys_addr_v6).
LEMMA TraceFacts ==
  ASSUME NEW m, MemOK(m), NEW c, c.base0 \in Space, c.mmu, NEW page \in Page,
         NEW u \in BOOLEAN, get_phys_addr(c, m, page, "read", u).ok
  PROVE  LET t == get_ptes(c, m, page)
             w == get_phys_addr(c, m, page, "read", u)
         IN  \/ t.ret = 1 /\ m[t.l1].type = 2
             \/ t.ret = 3 /\ IF m[t.l2].type = 1
                             THEN t.gpa \div LargePages = w.frame \div LargePages
                             ELSE t.gpa = w.frame
<1> DEFINE a  == get_level1_table_address(c, page)
           l1 == m[a]
           b  == get_level2_table_address(l1, page)
           l2 == m[b]
           rights == DomainRights(c, l1)
           f1 == FrameIn(l1.base, IF l1.super THEN 16 * SectionPages
                                              ELSE SectionPages, page)
           f2 == IF l2.type = 1 THEN FrameIn(l2.base, LargePages, page) ELSE l2.base
           w  == get_phys_addr(c, m, page, "read", u)
           t  == get_ptes(c, m, page)
           t1 == [ret |-> 1, l1 |-> a, l2 |-> 0, gpa |-> 0]
           t2 == [ret |-> 2, l1 |-> a, l2 |-> b, gpa |-> 0]
           t3 == [ret |-> 3, l1 |-> a, l2 |-> b, gpa |-> l2.base]
<1>1. /\ IsDescriptor(l1)
      /\ l1.type \notin {0, 2, 3} => IsDescriptor(l2) /\ l2.base \in Nat
  BY DescriptorFacts, Zenon
<1>2. w = IF l1.type \in {0, 3} THEN Fault
          ELSE IF rights \in {0, 2} THEN Fault
          ELSE IF l1.type = 2 THEN Permit(rights, l1, f1, "read", u)
          ELSE IF l2.type = 0 THEN Fault
          ELSE Permit(rights, l2, f2, "read", u)
  BY Zenon DEF get_phys_addr, get_phys_addr_v6
<1>3. t = IF l1.type \in {0, 3} \/ rights \in {0, 2} \/ l1.type = 2 THEN t1
          ELSE IF l2.type = 0 THEN t2 ELSE t3
  BY Zenon DEF get_ptes
<1>4. /\ t1.ret = 1 /\ m[t1.l1] = l1
      /\ t3.ret = 3 /\ m[t3.l2] = l2 /\ t3.gpa = l2.base
      /\ Fault.ok = FALSE
  BY DEF Fault
<1>5. w.ok
  OBVIOUS
<1> HIDE DEF l1, l2, rights, w, t, t1, t2, t3, f1
<1>6. CASE l1.type = 2
  <2>1. t = t1
    BY <1>3, <1>6, Zenon
  <2> QED
    BY <1>4, <1>6, <2>1, Zenon DEF t, w
<1>7. CASE l1.type # 2
  <2>1. /\ l1.type \notin {0, 2, 3} /\ rights \notin {0, 2} /\ l2.type # 0
        /\ w = Permit(rights, l2, f2, "read", u)
    BY <1>2, <1>4, <1>5, <1>7, Zenon
  <2>2. t = t3
    BY <1>3, <1>7, <2>1, Zenon
  <2>3. IsDescriptor(l2) /\ l2.base \in Nat
    BY <1>1, <2>1, Zenon
  <2> HIDE DEF f2
  <2>4. w.frame = f2
    BY <1>5, <2>1, <2>3, PermitFacts, ZenonT(30)
  <2>5. f2 = IF l2.type = 1 THEN FrameIn(l2.base, LargePages, page) ELSE l2.base
    BY Zenon DEF f2
  <2>6. FrameIn(l2.base, LargePages, page) \div LargePages = l2.base \div LargePages
    BY <2>3, FrameOfBlock, SizesAssumption, PageAssumption
  <2> QED
    BY <1>4, <2>2, <2>4, <2>5, <2>6, Zenon DEF t, w
<1> QED
  BY <1>6, <1>7, Zenon

-----------------------------------------------------------------------------
(* The beginning of an access. *)

\* Pages of an access belong to the guest (Begin), hence to Page.
LEMMA GuestPages ==
  ASSUME guest \in Guests, NEW p \in guest.pages
  PROVE  p \in TargetPage
BY EmulatorAssumption DEF Guest

\* Begin changes nothing but pc (the entry of __ld, __st and tb_find_slow).
LEMMA BeginFacts ==
  ASSUME EmuInv, NEW idx, NEW access, NEW todo, NEW tb,
         Begin(idx, access, todo, tb)
  PROVE  /\ user' \in BOOLEAN /\ started' \in BOOLEAN /\ guest' \in Guests
         /\ TableOK' /\ BlocksOK' /\ UnhookedIsReported'
         /\ pc' = Request(idx, access, todo, FALSE, tb)
         /\ user' = user
         /\ \A i \in DOMAIN todo : todo[i].page \in TargetPage
<1>1. UNCHANGED <<soft, asid, started, user, guest, reported, forgotten>>
  BY DEF Begin, regs, hist
<1>2. TableOK' /\ BlocksOK' /\ UnhookedIsReported'
  BY <1>1, SoftUnchanged DEF EmuInv
<1>3. \A i \in DOMAIN todo : todo[i].page \in TargetPage
  BY GuestPages DEF Begin, EmuInv
<1>4. pc' = Request(idx, access, todo, FALSE, tb)
  BY DEF Begin, Request
<1> QED BY <1>1, <1>2, <1>3, <1>4 DEF EmuInv

\* __ld, __st with an aligned address.
LEMMA AlignedAccessStep ==
  ASSUME EmuInv, NEW idx \in 0..1, NEW page \in TargetPage,
         NEW access \in {"read", "write"}, AlignedAccess(idx, page, access)
  PROVE  EmuInv'
<1> DEFINE w == access = "write"
           todo == <<Step(page, "always", w)>>
<1>1. Begin(idx, access, todo, <<>>)
  BY DEF AlignedAccess
<1> HIDE DEF todo
<1>2. pc' = Request(idx, access, todo, FALSE, <<>>)
  BY <1>1, BeginFacts, Zenon
<1> USE DEF todo
<1>3. w \in BOOLEAN
  OBVIOUS
<1> HIDE DEF w
<1>4. RequestOK'
  BY <1>2, <1>3, Zenon DEF RequestOK, DataOK
<1> HIDE DEF todo
<1> QED BY <1>1, <1>4, BeginFacts, Zenon DEF EmuInv

\* __ld, __st with an address whose access crosses into the next page.
LEMMA CrossingAccessStep ==
  ASSUME EmuInv, NEW idx \in 0..1, NEW page \in TargetPage,
         NEW access \in {"read", "write"}, CrossingAccess(idx, page, access)
  PROVE  EmuInv'
<1> DEFINE todo == CrossingSteps(page, access)
<1>1. Begin(idx, access, todo, <<>>)
  BY DEF CrossingAccess
<1> HIDE DEF todo
<1>2. /\ pc' = Request(idx, access, todo, FALSE, <<>>)
      /\ \A i \in DOMAIN todo : todo[i].page \in TargetPage
  BY <1>1, BeginFacts, Zenon
<1> USE DEF todo
<1>3. page + 1 \in TargetPage
  <2>1. 2 \in DOMAIN todo /\ todo[2].page = page + 1
    BY DEF CrossingSteps, Step
  <2> QED BY <1>2, <2>1
<1>4. RequestOK'
  <2>1. CASE access = "write"
    BY <1>2, <1>3, <2>1, Zenon DEF RequestOK, DataOK, CrossingSteps
  <2>2. CASE access # "write"
    BY <1>2, <1>3, <2>2, Zenon DEF RequestOK, DataOK, CrossingSteps
  <2> QED BY <2>1, <2>2
<1> HIDE DEF todo
<1> QED BY <1>1, <1>4, BeginFacts, Zenon DEF EmuInv

\* The steps of FindBlock, written out.
LEMMA OnePage ==
  ASSUME NEW p, NEW report
  PROVE  [i \in DOMAIN <<p>> |-> Step(<<p>>[i], report, FALSE)] =
            <<Step(p, report, FALSE)>>
<1> DEFINE S(x) == Step(x, report, FALSE)
<1> HIDE DEF S
<1>1. DOMAIN <<p>> = {1} /\ <<p>>[1] = p
  OBVIOUS
<1>2. <<S(p)>> = [i \in {1} |-> S(p)]
  OBVIOUS
<1>3. [i \in DOMAIN <<p>> |-> S(<<p>>[i])] = <<S(p)>>
  BY <1>1, <1>2
<1> QED BY <1>3, Zenon DEF S

\* The same for a block on two pages.
LEMMA TwoPages ==
  ASSUME NEW p, NEW q, NEW report
  PROVE  [i \in DOMAIN <<p, q>> |-> Step(<<p, q>>[i], report, FALSE)] =
            <<Step(p, report, FALSE), Step(q, report, FALSE)>>
<1> DEFINE S(x) == Step(x, report, FALSE)
           f == [i \in DOMAIN <<p, q>> |-> S(<<p, q>>[i])]
           g == <<S(p), S(q)>>
<1> HIDE DEF S
<1>1. DOMAIN <<p, q>> = 1..2
  OBVIOUS
<1>2. f \in Seq({S(p), S(q)}) /\ Len(f) = 2
  BY <1>1
<1>3. g \in Seq({S(p), S(q)}) /\ Len(g) = 2
  OBVIOUS
<1>4. f[1] = g[1] /\ f[2] = g[2]
  OBVIOUS
<1> HIDE DEF f, g
<1>5. f = g
  BY <1>2, <1>3, <1>4, SeqEqual
<1> QED BY <1>5, Zenon DEF f, g, S

\* tb_find_slow, for a block on one page or on two.
LEMMA FindBlockStep ==
  ASSUME EmuInv, NEW page \in TargetPage, NEW exists \in BOOLEAN,
         \/ FindBlock(<<page>>, exists)
         \/ page + 1 \in TargetPage /\ FindBlock(<<page, page + 1>>, exists)
  PROVE  EmuInv'
<1> DEFINE report == IF exists THEN "miss" ELSE "always"
           todo(pages) == [i \in DOMAIN pages |-> Step(pages[i], report, FALSE)]
<1>0. report \in {"miss", "always"}
  OBVIOUS
<1>1. cpu_mmu_index \in 0..1
  BY DEF cpu_mmu_index, MMU_USER_IDX
<1>2. ASSUME FindBlock(<<page>>, exists)
      PROVE  EmuInv'
  <2>1. Begin(cpu_mmu_index, "exec", todo(<<page>>), <<page>>)
    BY <1>2 DEF FindBlock
  <2>2. todo(<<page>>) = <<Step(page, report, FALSE)>>
    BY OnePage, Zenon
  <2> HIDE DEF report, todo
  <2>3. /\ pc' = Request(cpu_mmu_index, "exec", todo(<<page>>), FALSE, <<page>>)
        /\ user' = user
    BY <2>1, BeginFacts, Zenon
  <2>4. cpu_mmu_index' = cpu_mmu_index
    BY <2>3 DEF cpu_mmu_index
  <2>5. RequestOK'
    BY <1>0, <1>1, <2>2, <2>3, <2>4, Zenon DEF RequestOK, CodeOK
  <2> QED BY <2>1, <2>5, BeginFacts, Zenon DEF EmuInv
<1>3. ASSUME page + 1 \in TargetPage, FindBlock(<<page, page + 1>>, exists)
      PROVE  EmuInv'
  <2> DEFINE pages == <<page, page + 1>>
  <2>1. Begin(cpu_mmu_index, "exec", todo(pages), pages)
    BY <1>3 DEF FindBlock
  <2>2. todo(pages) = <<Step(page, report, FALSE), Step(page + 1, report, FALSE)>>
    BY TwoPages, ZenonT(30)
  <2> HIDE DEF report, todo
  <2>3. /\ pc' = Request(cpu_mmu_index, "exec", todo(pages), FALSE, pages)
        /\ user' = user
    BY <2>1, BeginFacts, Zenon
  <2>4. cpu_mmu_index' = cpu_mmu_index
    BY <2>3, SMTT(30) DEF cpu_mmu_index
  <2>5. RequestOK'
    BY <1>0, <1>1, <1>3, <2>2, <2>3, <2>4, Zenon DEF RequestOK, CodeOK
  <2> QED BY <2>1, <2>5, BeginFacts, Zenon DEF EmuInv
<1> QED BY <1>2, <1>3

-----------------------------------------------------------------------------
(* The steps of an access. *)

\* Lists of one, two and three steps.
LEMMA Lists ==
  ASSUME NEW a, NEW b, NEW c
  PROVE  /\ Len(<<a>>) = 1 /\ Head(<<a>>) = a
         /\ Len(<<a, b>>) = 2 /\ Head(<<a, b>>) = a /\ Tail(<<a, b>>) = <<b>>
         /\ Len(<<a, b, c>>) = 3 /\ Head(<<a, b, c>>) = a
         /\ Tail(<<a, b, c>>) = <<b, c>>
OBVIOUS

\* What Found does to pc: the next page, or the end of the access.
LEMMA FoundFacts ==
  ASSUME NEW idx, NEW access, NEW todo, NEW stored \in BOOLEAN, NEW tb,
         pc = Request(idx, access, todo, stored, tb),
         Head(todo).stores \in BOOLEAN, Found
  PROVE  /\ UNCHANGED <<tlb, user, asid, started, forgotten, guest>>
         /\ Match(idx, Head(todo).page, access)
         /\ reported \subseteq reported'
         /\ Head(todo).report = "always" /\ started /\ user =>
                <<MmuPage(Head(todo).page), asid>> \in reported'
         /\ Len(todo) > 1 =>
                /\ pc' = Request(idx, access, Tail(todo),
                                 stored \/ Head(todo).stores, tb)
                /\ UNCHANGED jmp_cache
         /\ ~ (Len(todo) > 1) =>
                /\ pc' = Idle
                /\ tb = <<>> => UNCHANGED jmp_cache
<1>1. /\ pc.idx = idx /\ pc.access = access /\ pc.todo = todo
      /\ pc.stored = stored /\ pc.tb = tb
  BY DEF Request
<1>2. UNCHANGED <<tlb, user, asid, started, forgotten, guest>>
  BY DEF Found, regs, hist
<1>3. Match(idx, Head(todo).page, access)
  BY <1>1 DEF Found, Todo
<1>4. /\ reported \subseteq reported'
      /\ Head(todo).report = "always" /\ started /\ user =>
            <<MmuPage(Head(todo).page), asid>> \in reported'
  <2>1. CASE Head(todo).report = "always"
    BY <1>1, <2>1, ReportFacts DEF Found, Todo
  <2>2. CASE Head(todo).report # "always"
    BY <1>1, <2>2 DEF Found, Todo
  <2> QED BY <2>1, <2>2
<1>5. ASSUME Len(todo) > 1
      PROVE  /\ pc' = Request(idx, access, Tail(todo),
                              stored \/ Head(todo).stores, tb)
             /\ UNCHANGED jmp_cache
  <2>1. /\ pc' = [pc EXCEPT !.todo = Tail(@), !.stored = @ \/ Todo.stores]
        /\ UNCHANGED jmp_cache
    BY <1>1, <1>5 DEF Found
  <2> DEFINE w == stored \/ Head(todo).stores
  <2>3. pc' = [[pc EXCEPT !.todo = Tail(todo)] EXCEPT !.stored = w]
    BY <1>1, <2>1 DEF Todo, Request
  <2> HIDE DEF w
  <2>4. pc' = Request(idx, access, Tail(todo), w, tb)
    BY <2>3, Zenon DEF Request
  <2> QED BY <2>1, <2>4 DEF w
<1>6. ASSUME ~ (Len(todo) > 1)
      PROVE  /\ pc' = Idle
             /\ tb = <<>> => UNCHANGED jmp_cache
  BY <1>1, <1>6 DEF Found
<1> QED BY <1>2, <1>3, <1>4, <1>5, <1>6

\* A load or store finds a page in the TLB.
LEMMA DataFound ==
  ASSUME EmuInv, NEW idx \in 0..1, NEW p \in TargetPage,
         NEW access \in {"read", "write"}, DataOK(idx, p, access), Found
  PROVE  EmuInv'
<1>1. ASSUME NEW todo, NEW stored \in BOOLEAN, Head(todo).stores \in BOOLEAN,
             pc = Request(idx, access, todo, stored, <<>>)
      PROVE  /\ UNCHANGED <<tlb, user, asid, started, forgotten, guest, jmp_cache>>
             /\ reported \subseteq reported'
             /\ Match(idx, Head(todo).page, access)
             /\ Len(todo) > 1 => pc' = Request(idx, access, Tail(todo),
                                               stored \/ Head(todo).stores, <<>>)
             /\ ~ (Len(todo) > 1) => pc' = Idle
  BY <1>1, FoundFacts, ZenonT(30)
<1>2. ASSUME UNCHANGED <<tlb, user, asid, started, forgotten, guest, jmp_cache>>,
             reported \subseteq reported',
             pc' = Idle \/ DataOK(idx, p, access)'
      PROVE  EmuInv'
  <2>1. TableOK' /\ BlocksOK' /\ UnhookedIsReported'
    BY <1>2, SoftUnchanged DEF EmuInv, soft
  <2>2. RequestOK'
    BY <1>2 DEF RequestOK
  <2> QED BY <1>2, <2>1, <2>2 DEF EmuInv
<1>3. ASSUME UNCHANGED tlb, NEW q, NEW k
      PROVE  Match(idx, q, k)' <=> Match(idx, q, k)
  BY <1>3 DEF Match, EntryOf
<1>4. CASE \E w \in BOOLEAN :
            pc = Request(idx, access, <<Step(p, "always", w)>>, FALSE, <<>>)
  <2>1. PICK w \in BOOLEAN :
            pc = Request(idx, access, <<Step(p, "always", w)>>, FALSE, <<>>)
    BY <1>4, Zenon
  <2> DEFINE todo == <<Step(p, "always", w)>>
  <2>2. Head(todo).stores \in BOOLEAN /\ ~ (Len(todo) > 1)
    BY Lists DEF Step
  <2> HIDE DEF todo
  <2> QED BY <1>1, <1>2, <2>1, <2>2, Zenon DEF todo
<1>5. CASE /\ p + 1 \in TargetPage
           /\ pc = Request(idx, access,
                      <<Step(p, "always", FALSE), Step(p + 1, "never", FALSE)>>,
                      FALSE, <<>>)
  <2> DEFINE a == Step(p, "always", FALSE)
             b == Step(p + 1, "never", FALSE)
             todo == <<a, b>>
  <2>0. a.stores = FALSE
    BY DEF Step
  <2> HIDE DEF a, b
  <2>1. Head(todo).stores = FALSE /\ Len(todo) > 1 /\ Tail(todo) = <<b>>
    BY <2>0, Lists
  <2>2. pc = Request(idx, access, todo, FALSE, <<>>)
    BY <1>5 DEF a, b
  <2> HIDE DEF todo
  <2>3. pc' = Request(idx, access, Tail(todo), FALSE \/ Head(todo).stores, <<>>)
    BY <1>1, <2>1, <2>2, Zenon
  <2>4. pc' = Request(idx, access, <<b>>, FALSE, <<>>)
    BY <2>1, <2>3, Zenon
  <2>5. DataOK(idx, p, access)'
    BY <1>5, <2>4, Zenon DEF DataOK, b
  <2> QED BY <1>1, <1>2, <2>1, <2>2, <2>5, Zenon
<1>6. CASE pc = Request(idx, access, <<Step(p + 1, "never", FALSE)>>, FALSE, <<>>)
  <2> DEFINE a == Step(p + 1, "never", FALSE)
             todo == <<a>>
  <2>0. a.stores \in BOOLEAN
    BY DEF Step
  <2> HIDE DEF a
  <2>1. Head(todo).stores \in BOOLEAN /\ ~ (Len(todo) > 1)
    BY <2>0, Lists
  <2>2. pc = Request(idx, access, todo, FALSE, <<>>)
    BY <1>6 DEF a
  <2> HIDE DEF todo
  <2> QED BY <1>1, <1>2, <2>1, <2>2, Zenon
<1>7. CASE /\ p + 1 \in TargetPage
           /\ pc = Request(idx, access,
                      <<Step(p, "always", FALSE), Step(p + 1, "never", TRUE),
                        Step(p, "never", TRUE)>>, FALSE, <<>>)
  <2> DEFINE a == Step(p, "always", FALSE)
             b == Step(p + 1, "never", TRUE)
             c == Step(p, "never", TRUE)
             todo == <<a, b, c>>
  <2>0. a.stores = FALSE /\ a.page = p
    BY DEF Step
  <2> HIDE DEF a, b, c
  <2>1. /\ Head(todo).stores = FALSE /\ Head(todo).page = p
        /\ Len(todo) > 1 /\ Tail(todo) = <<b, c>>
    BY <2>0, Lists
  <2>2. pc = Request(idx, access, todo, FALSE, <<>>)
    BY <1>7 DEF a, b, c
  <2> HIDE DEF todo
  <2>3. pc' = Request(idx, access, Tail(todo), FALSE \/ Head(todo).stores, <<>>)
    BY <1>1, <2>1, <2>2, Zenon
  <2>4. pc' = Request(idx, access, <<b, c>>, FALSE, <<>>)
    BY <2>1, <2>3, Zenon
  <2>5. UNCHANGED tlb /\ Match(idx, p, access)
    BY <1>1, <2>1, <2>2, Zenon
  <2>6. Match(idx, p, access)'
    BY <1>3, <2>5
  <2>7. DataOK(idx, p, access)'
    BY <1>7, <2>4, <2>6, Zenon DEF DataOK, b, c
  <2> QED BY <1>1, <1>2, <2>1, <2>2, <2>7, Zenon
<1>8. CASE /\ p + 1 \in TargetPage
           /\ pc = Request(idx, access,
                      <<Step(p + 1, "never", TRUE), Step(p, "never", TRUE)>>,
                      FALSE, <<>>)
           /\ Match(idx, p, access)
  <2> DEFINE b == Step(p + 1, "never", TRUE)
             c == Step(p, "never", TRUE)
             todo == <<b, c>>
  <2>0. b.stores = TRUE
    BY DEF Step
  <2> HIDE DEF b, c
  <2>1. Head(todo).stores = TRUE /\ Len(todo) > 1 /\ Tail(todo) = <<c>>
    BY <2>0, Lists
  <2>2. pc = Request(idx, access, todo, FALSE, <<>>)
    BY <1>8 DEF b, c
  <2> HIDE DEF todo
  <2>3. pc' = Request(idx, access, Tail(todo), FALSE \/ Head(todo).stores, <<>>)
    BY <1>1, <2>1, <2>2, Zenon
  <2>4. pc' = Request(idx, access, <<c>>, TRUE, <<>>)
    BY <2>1, <2>3, Zenon
  <2>5. Match(idx, p, access)'
    BY <1>1, <1>3, <1>8, <2>1, <2>2, Zenon
  <2>6. DataOK(idx, p, access)'
    BY <1>8, <2>4, <2>5, Zenon DEF DataOK, c
  <2> QED BY <1>1, <1>2, <2>1, <2>2, <2>6, Zenon
<1>9. CASE pc = Request(idx, access, <<Step(p, "never", TRUE)>>, TRUE, <<>>)
  <2> DEFINE a == Step(p, "never", TRUE)
             todo == <<a>>
  <2>0. a.stores \in BOOLEAN
    BY DEF Step
  <2> HIDE DEF a
  <2>1. Head(todo).stores \in BOOLEAN /\ ~ (Len(todo) > 1)
    BY <2>0, Lists
  <2>2. pc = Request(idx, access, todo, TRUE, <<>>)
    BY <1>9 DEF a
  <2> HIDE DEF todo
  <2> QED BY <1>1, <1>2, <2>1, <2>2, Zenon
<1> QED BY <1>4, <1>5, <1>6, <1>7, <1>8, <1>9, Zenon DEF DataOK

\* An entry that matches is in the table.
LEMMA MatchIsEntry ==
  ASSUME NEW idx \in 0..1, NEW p \in TargetPage, NEW access, Match(idx, p, access)
  PROVE  EntryOf(idx, p) \in Entries(idx) /\ EntryOf(idx, p).page = p
<1>1. EntryOf(idx, p).page = p
  BY DEF Match
<1>2. NoEntry.page \notin TargetPage
  BY TargetPageAssumption DEF NoEntry
<1>3. EntryOf(idx, p) # NoEntry
  BY <1>1, <1>2
<1>4. EntryOf(idx, p) = tlb[idx][p % TlbSize] /\ p % TlbSize \in 0..TlbSize - 1
  BY SlotOfPage DEF EntryOf
<1> QED BY <1>1, <1>3, <1>4 DEF Entries

\* The block that tb_find_slow enters in the jump cache: each of its pages was
\* reported now, or its entry in the TLB tells whether it was before.
LEMMA NewBlock ==
  ASSUME EmuInv, NEW idx \in 0..1, NEW report \in {"miss", "always"}, NEW tb,
         NEW todo, idx = cpu_mmu_index,
         pc = Request(idx, "exec", todo, FALSE, tb), Head(todo).report = report,
         \E p \in TargetPage : tb = <<p>> \/ (p + 1 \in TargetPage /\ tb = <<p, p + 1>>),
         CacheBlock, UNCHANGED <<tlb, asid, started, forgotten>>,
         reported \subseteq reported',
         \A i \in DOMAIN tb :
            /\ tb[i] \in TargetPage
            /\ Match(idx, tb[i], "exec")
            /\ report = "always" /\ started /\ user => Told(tb[i])'
  PROVE  BlocksOK' /\ UnhookedIsReported'
<1> DEFINE block ==
        [pages  |-> pc.tb, user |-> user,
         frames |-> [i \in DOMAIN pc.tb |-> EntryOf(pc.idx, pc.tb[i]).frame],
         silent |-> \E i \in DOMAIN pc.tb :
                        Todo.report = "miss" /\ EntryOf(pc.idx, pc.tb[i]).silent]
<1>1. jmp_cache' = jmp_cache \cup {block}
  BY DEF CacheBlock
<1>2. pc.idx = idx /\ pc.todo = todo /\ pc.tb = tb /\ Todo.report = report
  BY DEF Request, Todo
<1>3. /\ block.pages = tb /\ block.user = user
      /\ block.silent = (\E i \in DOMAIN tb :
                            report = "miss" /\ EntryOf(idx, tb[i]).silent)
  BY <1>2, ZenonT(30)
<1> HIDE DEF block
<1>4. BlocksOK'
  BY <1>1, <1>3 DEF EmuInv, BlocksOK
<1>0. \A page : Told(page) => Told(page)'
  BY ToldStays
<1>5. ASSUME started
      PROVE  \A e \in Entries(MMU_USER_IDX)' : ~ e.silent => Told(e.page)'
  BY <1>0, <1>5 DEF EmuInv, UnhookedIsReported, Entries
<1>6. ASSUME started, NEW b \in Blocks(TRUE)', NEW i \in DOMAIN b.pages, ~ b.silent
      PROVE  Told(b.pages[i])'
  <2>1. CASE b \in jmp_cache
    BY <1>0, <1>6, <2>1 DEF EmuInv, UnhookedIsReported, Blocks
  <2>2. CASE b = block
    <3>1. user = TRUE /\ idx = MMU_USER_IDX
      BY <1>3, <1>6, <2>2 DEF Blocks, cpu_mmu_index
    <3>2. CASE report = "always"
      BY <1>3, <1>6, <2>2, <3>1, <3>2
    <3>3. CASE report = "miss"
      <4>1. ~ EntryOf(idx, tb[i]).silent
        BY <1>3, <1>6, <2>2, <3>3, Zenon
      <4>2. EntryOf(idx, tb[i]) \in Entries(idx) /\ EntryOf(idx, tb[i]).page = tb[i]
        BY <1>3, <1>6, <2>2, MatchIsEntry, Zenon
      <4>3. Told(tb[i])
        BY <1>6, <3>1, <4>1, <4>2, Zenon DEF EmuInv, UnhookedIsReported
      <4> QED BY <1>0, <1>3, <2>2, <4>3, Zenon
    <3> QED BY <3>2, <3>3
  <2> QED BY <1>1, <1>6, <2>1, <2>2 DEF Blocks
<1>7. UnhookedIsReported'
  BY <1>5, <1>6, Zenon DEF UnhookedIsReported
<1> QED BY <1>4, <1>7

\* A block's page is found in the TLB.
LEMMA CodeFound ==
  ASSUME EmuInv, NEW idx \in 0..1, NEW p \in TargetPage,
         NEW report \in {"miss", "always"}, CodeOK(idx, p, report), Found
  PROVE  EmuInv'
<1> DEFINE a == Step(p, report, FALSE)
           b == Step(p + 1, report, FALSE)
<1>1. /\ a.page = p /\ a.report = report /\ a.stores = FALSE
      /\ b.page = p + 1 /\ b.report = report /\ b.stores = FALSE
  BY DEF Step
<1> HIDE DEF a, b
<1>2. ASSUME UNCHANGED <<tlb, user, started, guest>>,
             BlocksOK', UnhookedIsReported', pc' = Idle \/ CodeOK(idx, p, report)'
      PROVE  EmuInv'
  <2>1. TableOK'
    BY <1>2 DEF EmuInv, TableOK
  <2>2. RequestOK'
    BY <1>2 DEF RequestOK
  <2> QED BY <1>2, <2>1, <2>2 DEF EmuInv
<1>3. idx = cpu_mmu_index
  BY DEF CodeOK
<1>4. CASE pc = Request(idx, "exec", <<a>>, FALSE, <<p>>)
  <2> DEFINE todo == <<a>>
             tb == <<p>>
  <2>1. ~ (Len(todo) > 1) /\ tb # <<>>
    BY Lists
  <2>2. /\ Head(todo).page = p /\ Head(todo).report = report
        /\ Head(todo).stores \in BOOLEAN
    BY <1>1, Lists, Zenon
  <2>3. DOMAIN tb = {1} /\ tb[1] = p
    OBVIOUS
  <2>4. \E q \in TargetPage : tb = <<q>> \/ (q + 1 \in TargetPage /\ tb = <<q, q + 1>>)
    OBVIOUS
  <2>5. pc = Request(idx, "exec", todo, FALSE, tb)
    BY <1>4
  <2> HIDE DEF todo, tb
  <2>6. /\ UNCHANGED <<tlb, user, asid, started, forgotten, guest>>
        /\ Match(idx, p, "exec")
        /\ reported \subseteq reported'
        /\ report = "always" /\ started /\ user => <<MmuPage(p), asid>> \in reported'
    BY <2>2, <2>5, FoundFacts, Zenon
  <2>7. pc' = Idle /\ CacheBlock
    <3>1. pc.todo = todo /\ pc.tb = tb
      BY <2>5 DEF Request
    <3> QED BY <2>1, <3>1 DEF Found
  <2>8. \A i \in DOMAIN tb :
            /\ tb[i] \in TargetPage
            /\ Match(idx, tb[i], "exec")
            /\ report = "always" /\ started /\ user => Told(tb[i])'
    BY <2>3, <2>6 DEF Told
  <2>9. BlocksOK' /\ UnhookedIsReported'
    BY <1>3, <2>2, <2>4, <2>5, <2>6, <2>8, <2>7, NewBlock, Zenon
  <2> QED BY <1>2, <2>6, <2>9, <2>7
<1>5. CASE /\ p + 1 \in TargetPage
           /\ pc = Request(idx, "exec", <<a, b>>, FALSE, <<p, p + 1>>)
  <2> DEFINE todo == <<a, b>>
             tb == <<p, p + 1>>
  <2>1. Head(todo) = a /\ Len(todo) > 1 /\ Tail(todo) = <<b>>
    BY Lists
  <2>2. pc = Request(idx, "exec", todo, FALSE, tb)
    BY <1>5
  <2> HIDE DEF todo, tb
  <2>3. /\ UNCHANGED <<tlb, user, asid, started, forgotten, guest, jmp_cache>>
        /\ Match(idx, p, "exec")
        /\ reported \subseteq reported'
        /\ report = "always" /\ started /\ user => <<MmuPage(p), asid>> \in reported'
        /\ pc' = Request(idx, "exec", Tail(todo), FALSE \/ Head(todo).stores, tb)
    BY <1>1, <2>1, <2>2, FoundFacts, Zenon
  <2>4. pc' = Request(idx, "exec", <<b>>, FALSE, <<p, p + 1>>)
    BY <1>1, <2>1, <2>3, Zenon DEF tb
  <2>5. Match(idx, p, "exec")'
    BY <2>3 DEF Match, EntryOf
  <2>6. cpu_mmu_index' = cpu_mmu_index
    BY <2>3 DEF cpu_mmu_index
  <2>9. report = "always" /\ started /\ user => Told(p)'
    BY <2>3, Zenon DEF Told
  <2>7. CodeOK(idx, p, report)'
    BY <1>3, <1>5, <2>3, <2>4, <2>5, <2>6, <2>9, Zenon DEF CodeOK, b
  <2>8. BlocksOK' /\ UnhookedIsReported'
    BY <2>3, SoftUnchanged DEF EmuInv, soft
  <2> QED BY <1>2, <2>3, <2>7, <2>8
<1>6. CASE /\ p + 1 \in TargetPage
           /\ pc = Request(idx, "exec", <<b>>, FALSE, <<p, p + 1>>)
           /\ Match(idx, p, "exec")
           /\ report = "always" /\ started /\ user => Told(p)
  <2> DEFINE todo == <<b>>
             tb == <<p, p + 1>>
  <2>1. ~ (Len(todo) > 1) /\ tb # <<>>
    BY Lists
  <2>2. /\ Head(todo).page = p + 1 /\ Head(todo).report = report
        /\ Head(todo).stores \in BOOLEAN
    BY <1>1, Lists, Zenon
  <2>3. DOMAIN tb = {1, 2} /\ tb[1] = p /\ tb[2] = p + 1
    OBVIOUS
  <2>4. \E q \in TargetPage : tb = <<q>> \/ (q + 1 \in TargetPage /\ tb = <<q, q + 1>>)
    BY <1>6
  <2>5. pc = Request(idx, "exec", todo, FALSE, tb)
    BY <1>6
  <2> HIDE DEF todo, tb
  <2>6. /\ UNCHANGED <<tlb, user, asid, started, forgotten, guest>>
        /\ Match(idx, p + 1, "exec")
        /\ reported \subseteq reported'
        /\ report = "always" /\ started /\ user => <<MmuPage(p + 1), asid>> \in reported'
    BY <2>2, <2>5, FoundFacts, Zenon
  <2>7. pc' = Idle /\ CacheBlock
    <3>1. pc.todo = todo /\ pc.tb = tb
      BY <2>5 DEF Request
    <3> QED BY <2>1, <3>1 DEF Found
  <2>8. \A i \in DOMAIN tb :
            /\ tb[i] \in TargetPage
            /\ Match(idx, tb[i], "exec")
            /\ report = "always" /\ started /\ user => Told(tb[i])'
    <3>1. report = "always" /\ started /\ user => Told(p)' /\ Told(p + 1)'
      BY <1>6, <2>6, ToldStays DEF Told
    <3> QED BY <1>6, <2>3, <2>6, <3>1
  <2>9. BlocksOK' /\ UnhookedIsReported'
    BY <1>3, <2>2, <2>4, <2>5, <2>6, <2>8, <2>7, NewBlock, Zenon
  <2> QED BY <1>2, <2>6, <2>9, <2>7
<1> QED BY <1>4, <1>5, <1>6, ZenonT(30) DEF CodeOK, a, b

\* The page a load or store looks for next is a page of the access.
LEMMA DataLooking ==
  ASSUME NEW idx \in 0..1, NEW p \in TargetPage, NEW access, DataOK(idx, p, access)
  PROVE  /\ pc.idx = idx /\ pc.access = access
         /\ Todo.page = p \/ (Todo.page = p + 1 /\ p + 1 \in TargetPage)
<1> DEFINE a(w) == Step(p, "always", w)
           a0 == Step(p, "always", FALSE)
           b0 == Step(p + 1, "never", FALSE)
           b1 == Step(p + 1, "never", TRUE)
           c  == Step(p, "never", TRUE)
<1>1. /\ \A w : a(w).page = p
      /\ a0.page = p /\ b0.page = p + 1 /\ b1.page = p + 1 /\ c.page = p
  BY DEF Step
<1> HIDE DEF a, a0, b0, b1, c
<1>2. CASE \E w \in BOOLEAN : pc = Request(idx, access, <<a(w)>>, FALSE, <<>>)
  BY <1>1, <1>2 DEF Request, Todo
<1>3. CASE pc = Request(idx, access, <<a0, b0>>, FALSE, <<>>)
  BY <1>1, <1>3 DEF Request, Todo
<1>4. CASE p + 1 \in TargetPage /\ pc = Request(idx, access, <<b0>>, FALSE, <<>>)
  BY <1>1, <1>4 DEF Request, Todo
<1>5. CASE pc = Request(idx, access, <<a0, b1, c>>, FALSE, <<>>)
  BY <1>1, <1>5 DEF Request, Todo
<1>6. CASE p + 1 \in TargetPage /\ pc = Request(idx, access, <<b1, c>>, FALSE, <<>>)
  BY <1>1, <1>6 DEF Request, Todo
<1>7. CASE pc = Request(idx, access, <<c>>, TRUE, <<>>)
  BY <1>1, <1>7 DEF Request, Todo
<1> QED BY <1>2, <1>3, <1>4, <1>5, <1>6, <1>7, ZenonT(30) DEF DataOK, a, a0, b0, b1, c

\* So is the page a block is looked up on.
LEMMA CodeLooking ==
  ASSUME NEW idx \in 0..1, NEW p \in TargetPage, NEW report, CodeOK(idx, p, report)
  PROVE  /\ pc.idx = idx /\ pc.access = "exec"
         /\ Todo.page = p \/ (Todo.page = p + 1 /\ p + 1 \in TargetPage)
<1> DEFINE a == Step(p, report, FALSE)
           b == Step(p + 1, report, FALSE)
<1>1. a.page = p /\ b.page = p + 1
  BY DEF Step
<1> HIDE DEF a, b
<1>2. CASE pc = Request(idx, "exec", <<a>>, FALSE, <<p>>)
  BY <1>1, <1>2 DEF Request, Todo
<1>3. CASE pc = Request(idx, "exec", <<a, b>>, FALSE, <<p, p + 1>>)
  BY <1>1, <1>3 DEF Request, Todo
<1>4. CASE p + 1 \in TargetPage /\ pc = Request(idx, "exec", <<b>>, FALSE, <<p, p + 1>>)
  BY <1>1, <1>4 DEF Request, Todo
<1> QED BY <1>2, <1>3, <1>4, ZenonT(30) DEF CodeOK, a, b

\* tlb_set_page: one slot changes, and only that of the page.
LEMMA FillFacts ==
  ASSUME TableOK, NEW idx \in 0..1, NEW q \in TargetPage, NEW walk, NEW silent,
         tlb_set_page(idx, q, walk, silent)
  PROVE  /\ TableOK'
         /\ tlb'[idx][q % TlbSize].page = q
         /\ tlb'[idx][q % TlbSize].silent = silent
         /\ \A i \in 0..1, x \in 0..TlbSize - 1 :
                i # idx \/ x # q % TlbSize => tlb'[i][x] = tlb[i][x]
<1> DEFINE e == [page |-> q, frame |-> walk.frame,
                 prot |-> IF "read" \in walk.prot THEN walk.prot \cup {"exec"}
                                                  ELSE walk.prot,
                 silent |-> silent]
           x0 == q % TlbSize
<1>1. tlb' = [tlb EXCEPT ![idx][x0] = e]
  BY DEF tlb_set_page
<1>2. e.page = q /\ e.silent = silent
  OBVIOUS
<1>3. x0 \in 0..TlbSize - 1
  BY SlotOfPage
<1> HIDE DEF e
<1>4. /\ tlb' = [i \in 0..1 |-> [x \in 0..TlbSize - 1 |-> tlb'[i][x]]]
      /\ tlb'[idx][x0] = e
      /\ \A i \in 0..1, x \in 0..TlbSize - 1 :
            i # idx \/ x # x0 => tlb'[i][x] = tlb[i][x]
  BY <1>1, <1>3, ZenonT(30) DEF TableOK
<1>5. TableOK'
  BY <1>2, <1>4 DEF TableOK
<1> QED BY <1>2, <1>4, <1>5

\* What a fill leaves of the first page of an access: a fill for the second page
\* does not remove it, and there is no fill for a page that matches.
LEMMA FillKeeps ==
  ASSUME TableOK, NEW idx \in 0..1, NEW p \in TargetPage, NEW q \in {p, p + 1}, q \in TargetPage,
         NEW access, Match(idx, p, access), ~ Match(idx, q, access),
         NEW walk, NEW silent, tlb_set_page(idx, q, walk, silent)
  PROVE  Match(idx, p, access)'
<1>1. q = p + 1
  OBVIOUS
<1>2. p % TlbSize \in 0..TlbSize - 1 /\ p % TlbSize # q % TlbSize
  BY <1>1, SlotOfPage, NextIndex
<1>3. tlb'[idx][p % TlbSize] = tlb[idx][p % TlbSize]
  BY <1>2, FillFacts, SMTT(30)
<1> QED BY <1>3 DEF Match, EntryOf

\* tlb_fill finds the page in the guest's tables.
LEMMA FillsStep ==
  ASSUME EmuInv, Fills
  PROVE  EmuInv'
<1> DEFINE q == Todo.page
           silent == /\ started /\ pc.idx = MMU_USER_IDX
                     /\ Todo.report = "never" \/ ~ user
<1>1. /\ Redo /\ ~ Match(pc.idx, q, pc.access)
      /\ tlb_set_page(pc.idx, q, Walk, silent)
      /\ UNCHANGED <<asid, user, jmp_cache, pc, started, forgotten, guest>>
  BY ZenonT(30) DEF Fills, Missing, regs, hist
<1>2. /\ reported \subseteq reported'
      /\ Todo.report # "never" /\ started /\ user => <<MmuPage(q), asid>> \in reported'
  <2>1. CASE Todo.report = "never"
    BY <2>1 DEF Fills, Missing
  <2>2. CASE Todo.report # "never"
    BY <2>2, ReportFacts DEF Fills, Missing
  <2> QED BY <2>1, <2>2
<1>3. PICK idx \in 0..1, p \in TargetPage :
        \/ \E access \in {"read", "write"} : DataOK(idx, p, access)
        \/ \E report \in {"miss", "always"} : CodeOK(idx, p, report)
  BY <1>1 DEF EmuInv, RequestOK, Redo
<1>4. pc.idx = idx /\ q \in {p, p + 1} /\ q \in TargetPage
  BY <1>3, DataLooking, CodeLooking
<1> HIDE DEF q, silent
<1>5. /\ TableOK'
      /\ tlb'[idx][q % TlbSize].page = q
      /\ tlb'[idx][q % TlbSize].silent = silent
      /\ \A i \in 0..1, x \in 0..TlbSize - 1 :
            i # idx \/ x # q % TlbSize => tlb'[i][x] = tlb[i][x]
  BY <1>1, <1>4, FillFacts, SMTT(30) DEF EmuInv
<1>6. ASSUME NEW access, pc.access = access, Match(idx, p, access)
      PROVE  Match(idx, p, access)'
  BY <1>1, <1>4, <1>6, FillKeeps DEF EmuInv
<1>7. cpu_mmu_index' = cpu_mmu_index
  BY <1>1 DEF cpu_mmu_index
<1>8. RequestOK'
  <2>1. ASSUME NEW access \in {"read", "write"}, DataOK(idx, p, access)
        PROVE  DataOK(idx, p, access)'
    <3>1. Match(idx, p, access) => Match(idx, p, access)'
      BY <1>6, <2>1, DataLooking
    <3> QED BY <1>1, <2>1, <3>1, Zenon DEF DataOK
  <2>2. ASSUME NEW report \in {"miss", "always"}, CodeOK(idx, p, report)
        PROVE  CodeOK(idx, p, report)'
    <3>1. Match(idx, p, "exec") => Match(idx, p, "exec")'
      BY <1>6, <2>2, CodeLooking
    <3>2. Told(p) => Told(p)'
      BY <1>1, <1>2, ToldStays
    <3> QED BY <1>1, <1>7, <2>2, <3>1, <3>2, Zenon DEF CodeOK
  <2> QED BY <1>3, <2>1, <2>2, SMTT(30) DEF RequestOK
<1>9. UnhookedIsReported'
  <2>1. ASSUME started, NEW e \in Entries(MMU_USER_IDX)', ~ e.silent
        PROVE  Told(e.page)'
    <3>1. PICK x \in 0..TlbSize - 1 : e = tlb'[MMU_USER_IDX][x] /\ e # NoEntry
      BY <2>1 DEF Entries
    <3>2. CASE idx = MMU_USER_IDX /\ x = q % TlbSize
      <4>1. e.page = q /\ <<MmuPage(q), asid>> \in reported'
        BY <1>2, <1>4, <1>5, <2>1, <3>1, <3>2, ZenonT(30) DEF silent, EmuInv
      <4> QED BY <1>1, <4>1, Zenon DEF Told
    <3>3. CASE ~ (idx = MMU_USER_IDX /\ x = q % TlbSize)
      <4>1. e = tlb[MMU_USER_IDX][x]
        BY <1>5, <3>1, <3>3 DEF MMU_USER_IDX
      <4>2. e \in Entries(MMU_USER_IDX)
        BY <3>1, <4>1, SMTT(30) DEF Entries
      <4> QED BY <1>1, <1>2, <2>1, <4>2, ToldStays DEF EmuInv, UnhookedIsReported
    <3> QED BY <3>2, <3>3
  <2>2. ASSUME started, NEW tb \in Blocks(TRUE)', NEW i \in DOMAIN tb.pages, ~ tb.silent
        PROVE  Told(tb.pages[i])'
    BY <1>1, <1>2, <2>2, ToldStays, SMTT(30) DEF EmuInv, UnhookedIsReported, Blocks
  <2> QED BY <1>1, <2>1, <2>2, Zenon DEF UnhookedIsReported
<1>10. BlocksOK'
  BY <1>1 DEF EmuInv, BlocksOK
<1> QED BY <1>1, <1>5, <1>8, <1>9, <1>10 DEF EmuInv

\* tlb_fill raises an abort: the access is dropped, and its report stays.
LEMMA AbortsStep ==
  ASSUME EmuInv, Aborts
  PROVE  EmuInv'
<1>1. /\ user' = FALSE /\ pc' = Idle
      /\ UNCHANGED <<soft, asid, started, forgotten, guest>>
  BY DEF Aborts, hist
<1>2. reported \subseteq reported'
  BY ReportFacts, Zenon DEF Aborts, Missing
<1>3. TableOK' /\ BlocksOK' /\ UnhookedIsReported'
  BY <1>1, <1>2, SoftUnchanged DEF EmuInv
<1>4. RequestOK'
  BY <1>1 DEF RequestOK
<1> QED BY <1>1, <1>3, <1>4, Zenon DEF EmuInv

\* A page is found in the TLB.
LEMMA FoundStep ==
  ASSUME EmuInv, Found
  PROVE  EmuInv'
<1>1. \E idx \in 0..1, p \in TargetPage :
        \/ \E access \in {"read", "write"} : DataOK(idx, p, access)
        \/ \E report \in {"miss", "always"} : CodeOK(idx, p, report)
  BY DEF EmuInv, RequestOK, Found, Redo
<1> QED BY <1>1, DataFound, CodeFound

-----------------------------------------------------------------------------
(* The guest's kernel, and the key. *)

\* Whatever flushes everything.
LEMMA FlushStep ==
  ASSUME EmuInv, tlb_flush, pc = Idle, pc' = pc,
         user' = user, started' \in BOOLEAN, guest' = guest
  PROVE  EmuInv'
BY FlushFacts, IdleFacts DEF EmuInv

\* Whatever leaves the software TLB alone while no access is in progress.
LEMMA IdleStep ==
  ASSUME EmuInv, UNCHANGED <<soft, asid, started, forgotten, guest>>, pc = Idle, pc' = pc,
         user' \in BOOLEAN, reported \subseteq reported'
  PROVE  EmuInv'
BY SoftUnchanged, IdleFacts DEF EmuInv

\* A step of the guest's kernel, the key F10, or a block that runs.
LEMMA OtherStep ==
  ASSUME EmuInv,
         \/ RunArmBlock \/ SwitchMode \/ InvalidateAll \/ SetMmu \/ F10
         \/ \E page \in TargetPage : InvalidateMva(page)
         \/ \E s \in Space : InvalidateAsid(s) \/ SetBase(s) \/ SetContext(s)
         \/ \E r \in Rights : SetRights(r)
         \/ \E a, desc : WriteDescriptor(a, desc)
  PROVE  EmuInv'
<1> USE DEF Kernel, regs, hist
<1>0. user \in BOOLEAN /\ started \in BOOLEAN
  BY DEF EmuInv
<1>1. CASE RunArmBlock
  <2>1. reported \subseteq reported'
    BY <1>1, ReportFacts, ZenonT(30) DEF RunArmBlock
  <2> QED BY <1>0, <1>1, <2>1, IdleStep DEF RunArmBlock
<1>2. CASE SwitchMode
  BY <1>0, <1>2, IdleStep DEF SwitchMode
<1>3. CASE InvalidateAll
  BY <1>0, <1>3, FlushStep DEF InvalidateAll
<1>4. CASE SetMmu
  BY <1>0, <1>4, FlushStep DEF SetMmu
<1>5. CASE F10
  BY <1>0, <1>5, FlushStep DEF F10
<1>6. CASE \E page \in TargetPage : InvalidateMva(page)
  BY <1>0, <1>6, FlushStep DEF InvalidateMva
<1>7. ASSUME NEW s \in Space, InvalidateAsid(s) PROVE EmuInv'
  BY <1>0, <1>7, FlushStep DEF InvalidateAsid
<1>8. ASSUME NEW s \in Space, SetBase(s) PROVE EmuInv'
  BY <1>0, <1>8, IdleStep DEF SetBase
<1>9. ASSUME NEW s \in Space, SetContext(s) PROVE EmuInv'
  <2>1. CASE asid # s
    BY <1>0, <1>9, <2>1, FlushStep DEF SetContext
  <2>2. CASE asid = s
    BY <1>0, <1>9, <2>2, IdleStep DEF SetContext
  <2> QED BY <2>1, <2>2
<1>10. CASE \E r \in Rights : SetRights(r)
  BY <1>0, <1>10, FlushStep, SMTT(30) DEF SetRights
<1>11. CASE \E a, desc : WriteDescriptor(a, desc)
  BY <1>0, <1>11, IdleStep, SMTT(30) DEF WriteDescriptor
<1> QED
  BY <1>1, <1>2, <1>3, <1>4, <1>5, <1>6, <1>7, <1>8, <1>9, <1>10, <1>11

-----------------------------------------------------------------------------
(* What is current. *)

\* The registers, the page tables and the sets of the history.
RegsOK ==
    /\ DOMAIN mem = DOMAIN Tables /\ MemOK(mem)
    /\ cpu \in [base0 : Space, c3 : Rights, mmu : BOOLEAN]
    /\ asid \in Space
    /\ reported \subseteq Page \X Space
    /\ stale \subseteq Page \X Space
    /\ changed \subseteq TargetPage \X Space
    /\ forgotten \subseteq TargetPage \X Space

\* The registers when the address space is not being switched, and what a load
\* then finds.
Here == [base0 |-> asid, c3 |-> cpu.c3, mmu |-> cpu.mmu]
ReadWalk(page, u) == get_phys_addr(Here, mem, MmuPage(page), "read", u)

\* The guest invalidated the page after it last changed it.
Fresh(page) == cpu.mmu => <<page, asid>> \notin changed

\* An entry has what a load would find now, and so has each page of a block.
EntryOK(idx, e) ==
    /\ e.page \in guest.pages
    /\ e.prot \in (SUBSET Access) \ {{}}
    /\ Fresh(e.page) =>
        LET w == ReadWalk(e.page, idx = MMU_USER_IDX)
        IN  w.ok /\ e.frame = w.frame /\ e.prot = w.prot \cup {"exec"}

BlockOK(tb) ==
    /\ tb.user \in BOOLEAN
    /\ \A i \in DOMAIN tb.pages :
        /\ tb.pages[i] \in guest.pages
        /\ Fresh(tb.pages[i]) =>
            LET w == ReadWalk(tb.pages[i], tb.user)
            IN  w.ok /\ tb.frames[i] = w.frame

EntriesCurrent ==
    \A idx \in 0..1, x \in 0..TlbSize - 1 :
        tlb[idx][x] # NoEntry => EntryOK(idx, tlb[idx][x])

BlocksCurrent == \A tb \in jmp_cache : BlockOK(tb)

\* An access in progress has something left to do, on pages the guest may use.
Steps == [page : TargetPage, report : {"always", "miss", "never"}, stores : BOOLEAN]

UsableSteps == {s \in Steps : s.page \in guest.pages /\ Usable(s.page)}

TodoOK == Redo => pc.todo # <<>> /\ pc.todo \in Seq(UsableSteps)

CurrentInv == RegsOK /\ EntriesCurrent /\ BlocksCurrent /\ TodoOK

\* What is current depends on these alone, not on c2_base0.
LEMMA SameView ==
  ASSUME UNCHANGED <<guest, mem, asid, changed>>, cpu'.c3 = cpu.c3, cpu'.mmu = cpu.mmu
  PROVE  /\ \A idx, e : EntryOK(idx, e) => EntryOK(idx, e)'
         /\ \A tb : BlockOK(tb) => BlockOK(tb)'
<1>1. Here' = Here
  BY Zenon DEF Here
<1>2. \A page, u : ReadWalk(page, u)' = ReadWalk(page, u)
  BY <1>1, Zenon DEF ReadWalk
<1>3. \A page : Fresh(page)' <=> Fresh(page)
  BY DEF Fresh
<1> QED
  BY <1>2, <1>3, Zenon DEF EntryOK, BlockOK

\* What was current stays so if the page is found as before, or not fresh.
LEMMA StaysCurrent ==
  ASSUME NEW page, guest' = guest, Fresh(page)' => Fresh(page),
         \A u \in BOOLEAN : Fresh(page)' /\ ReadWalk(page, u).ok =>
                                ReadWalk(page, u)' = ReadWalk(page, u)
  PROVE  \A idx, e : e.page = page /\ EntryOK(idx, e) => EntryOK(idx, e)'
<1> SUFFICES ASSUME NEW idx, NEW e, e.page = page, EntryOK(idx, e)
             PROVE  EntryOK(idx, e)'
  OBVIOUS
<1> DEFINE u == idx = MMU_USER_IDX
<1>1. u \in BOOLEAN
  OBVIOUS
<1> HIDE DEF u
<1>2. Fresh(page)' => ReadWalk(page, u)' = ReadWalk(page, u)
  BY <1>1, Zenon DEF EntryOK, u
<1> QED
  BY <1>2, Zenon DEF EntryOK, u

\* The walk of an access the guest may make is the one that Here names.
LEMMA UsableWalk ==
  ASSUME NEW page, Usable(page) \/ Settled(page), NEW k, NEW u
  PROVE  get_phys_addr(cpu, mem, MmuPage(page), k, u) =
            get_phys_addr(Here, mem, MmuPage(page), k, u)
<1>1. Here.base0 = asid /\ Here.c3 = cpu.c3 /\ Here.mmu = cpu.mmu
  BY DEF Here
<1>2. PICK q : q = MmuPage(page)
  OBVIOUS
<1>3. CASE ~ cpu.mmu
  BY <1>1, <1>3, Zenon DEF get_phys_addr
<1>4. CASE q \in High \/ cpu.base0 = asid
  <2>1. q \in High \/ cpu.base0 = Here.base0
    BY <1>1, <1>4, Zenon
  <2>2. cpu.c3 = Here.c3 /\ cpu.mmu = Here.mmu
    BY <1>1, Zenon
  <2>3. get_phys_addr(cpu, mem, q, k, u) = get_phys_addr(Here, mem, q, k, u)
    BY <2>1, <2>2, SameWalk, SMTT(30)
  <2> QED
    BY <1>2, <2>3, Zenon
<1> QED
  BY <1>2, <1>3, <1>4, Zenon DEF Usable, Settled

\* What the guest invalidated 1 KB by 1 KB is fresh.
LEMMA SettledFresh ==
  ASSUME NEW page, Settled(page)
  PROVE  Fresh(page)
BY Zenon DEF Settled, Fresh

\* Reports are of pages under address spaces.
LEMMA ReportType ==
  ASSUME RegsOK, NEW page \in TargetPage, tlbtrace_refmem_qemu(page)
  PROVE  reported' \subseteq Page \X Space
<1>1. asid \in Space /\ reported \subseteq Page \X Space
  BY DEF RegsOK
<1>2. \/ reported' = reported
      \/ reported' = reported \cup {<<MmuPage(page), asid>>}
  BY Zenon DEF tlbtrace_refmem_qemu
<1>3. MmuPage(page) \in Page
  BY TargetPageAssumption, Zenon
<1> QED
  BY <1>1, <1>2, <1>3

\* A step of a request.
LEMMA StepType ==
  ASSUME NEW p \in TargetPage, NEW report \in {"always", "miss", "never"}, NEW w \in BOOLEAN
  PROVE  Step(p, report, w) \in Steps
BY DEF Step, Steps

\* Lists of steps.
LEMMA ListType ==
  ASSUME NEW S, NEW a \in S, NEW b \in S, NEW c \in S
  PROVE  /\ <<a, b>> \in Seq(S) /\ <<a, b>> # <<>>
         /\ <<a, b, c>> \in Seq(S) /\ <<a, b, c>> # <<>>
<1>1. <<a, b>> \in Seq(S) /\ <<a, b, c>> \in Seq(S)
  OBVIOUS
<1>2. <<a, b>> # <<>> /\ <<a, b, c>> # <<>>
  OBVIOUS
<1> QED
  BY <1>1, <1>2

\* Begin: the pages are usable (its guard), and nothing else changes.
LEMMA BeginCurrent ==
  ASSUME CurrentInv, NEW idx, NEW access, NEW todo, NEW tb,
         Begin(idx, access, todo, tb), todo \in Seq(Steps), todo # <<>>
  PROVE  CurrentInv'
<1>1. /\ UNCHANGED <<mem, cpu, asid, tlb, jmp_cache, reported, hist, guest>>
      /\ pc'.todo = todo
      /\ \A i \in DOMAIN todo : todo[i].page \in guest.pages /\ Usable(todo[i].page)
  BY SMTT(30) DEF Begin, regs, soft
<1>2. RegsOK'
  BY <1>1 DEF CurrentInv, RegsOK, hist
<1>3. EntriesCurrent' /\ BlocksCurrent'
  BY <1>1, SameView, Zenon DEF CurrentInv, EntriesCurrent, BlocksCurrent, hist
<1>4. \A page : Usable(page)' <=> Usable(page)
  BY <1>1 DEF Usable, hist
<1>5. UsableSteps' = UsableSteps
  BY <1>1, <1>4 DEF UsableSteps
<1>6. \A i \in 1..Len(todo) : todo[i] \in UsableSteps
  <2>1. DOMAIN todo = 1..Len(todo) /\ \A i \in 1..Len(todo) : todo[i] \in Steps
    OBVIOUS
  <2> QED
    BY <1>1, <2>1, ZenonT(30) DEF UsableSteps
<1> HIDE DEF Steps
<1>7. todo \in Seq(UsableSteps)
  BY <1>6
<1> QED
  BY <1>1, <1>2, <1>3, <1>5, <1>7, Zenon DEF CurrentInv, TodoOK

\* __ld and __st, aligned or not.
LEMMA AccessCurrent ==
  ASSUME EmuInv, CurrentInv, NEW idx \in 0..1, NEW page \in TargetPage,
         NEW access \in {"read", "write"},
         AlignedAccess(idx, page, access) \/ CrossingAccess(idx, page, access)
  PROVE  CurrentInv'
<1>1. CASE AlignedAccess(idx, page, access)
  <2> DEFINE w == access = "write"
             a == Step(page, "always", w)
  <2>1. Begin(idx, access, <<a>>, <<>>)
    BY <1>1 DEF AlignedAccess
  <2>2. a \in Steps
    BY StepType, w \in BOOLEAN, Zenon
  <2> HIDE DEF a
  <2>3. <<a>> \in Seq(Steps) /\ <<a>> # <<>>
    BY <2>2
  <2> QED
    BY <2>1, <2>3, BeginCurrent, Zenon
<1>2. CASE CrossingAccess(idx, page, access)
  <2> DEFINE todo == CrossingSteps(page, access)
             a == Step(page, "always", FALSE)
             b(w) == Step(page + 1, "never", w)
             c == Step(page, "never", TRUE)
  <2>1. Begin(idx, access, todo, <<>>)
    BY <1>2 DEF CrossingAccess
  <2>2. todo = IF access = "write" THEN <<a, b(TRUE), c>> ELSE <<a, b(FALSE)>>
    BY DEF CrossingSteps
  <2> HIDE DEF todo
  <2>3. \A i \in DOMAIN todo : todo[i].page \in TargetPage
    BY <2>1, BeginFacts, Zenon
  <2>4. page + 1 \in TargetPage
    <3>1. \A w : b(w).page = page + 1
      BY DEF Step
    <3> HIDE DEF a, b, c
    <3>2. 2 \in DOMAIN todo /\ todo[2] \in {b(TRUE), b(FALSE)}
      BY <2>2
    <3> QED
      BY <2>3, <3>1, <3>2, Zenon
  <2>5. a \in Steps /\ c \in Steps /\ b(TRUE) \in Steps /\ b(FALSE) \in Steps
    BY <2>4, StepType, Zenon
  <2> HIDE DEF a, b, c
  <2>6. /\ <<a, b(TRUE), c>> \in Seq(Steps) /\ <<a, b(TRUE), c>> # <<>>
        /\ <<a, b(FALSE)>> \in Seq(Steps) /\ <<a, b(FALSE)>> # <<>>
    BY <2>5, ListType, Zenon
  <2>7. todo \in Seq(Steps) /\ todo # <<>>
    BY <2>2, <2>6, Zenon
  <2> QED
    BY <2>1, <2>7, BeginCurrent, Zenon
<1> QED
  BY <1>1, <1>2

\* tb_find_slow.
LEMMA FindBlockCurrent ==
  ASSUME CurrentInv, NEW page \in TargetPage, NEW exists \in BOOLEAN,
         \/ FindBlock(<<page>>, exists)
         \/ page + 1 \in TargetPage /\ FindBlock(<<page, page + 1>>, exists)
  PROVE  CurrentInv'
<1> DEFINE report == IF exists THEN "miss" ELSE "always"
           todo(pages) == [i \in DOMAIN pages |-> Step(pages[i], report, FALSE)]
           a == Step(page, report, FALSE)
           b == Step(page + 1, report, FALSE)
<1>0. report \in {"always", "miss", "never"}
  OBVIOUS
<1>1. ASSUME FindBlock(<<page>>, exists)
      PROVE  CurrentInv'
  <2>1. Begin(cpu_mmu_index, "exec", todo(<<page>>), <<page>>)
    BY <1>1 DEF FindBlock
  <2>2. todo(<<page>>) = <<a>>
    BY OnePage, Zenon
  <2> HIDE DEF report, todo
  <2>3. a \in Steps
    BY <1>0, StepType, Zenon
  <2> HIDE DEF a
  <2>4. <<a>> \in Seq(Steps) /\ <<a>> # <<>>
    BY <2>3
  <2> QED
    BY <2>1, <2>2, <2>4, BeginCurrent, Zenon
<1>2. ASSUME page + 1 \in TargetPage, FindBlock(<<page, page + 1>>, exists)
      PROVE  CurrentInv'
  <2> DEFINE pages == <<page, page + 1>>
  <2>1. Begin(cpu_mmu_index, "exec", todo(pages), pages)
    BY <1>2 DEF FindBlock
  <2>2. todo(pages) = <<a, b>>
    BY TwoPages, ZenonT(30)
  <2> HIDE DEF report, todo
  <2>3. a \in Steps /\ b \in Steps
    BY <1>0, <1>2, StepType, Zenon
  <2> HIDE DEF a, b, pages
  <2>4. <<a, b>> \in Seq(Steps) /\ <<a, b>> # <<>>
    BY <2>3
  <2> QED
    BY <2>1, <2>2, <2>4, BeginCurrent, Zenon
<1> QED
  BY <1>1, <1>2

\* What is left of a list of two or more.
LEMMA LongTail ==
  ASSUME NEW S, NEW s \in Seq(S), s # <<>>, Len(s) > 1
  PROVE  Tail(s) # <<>> /\ Tail(s) \in Seq(S)
<1>1. Tail(s) \in Seq(S) /\ Len(Tail(s)) = Len(s) - 1 /\ Len(s) \in Nat
  BY HeadTailProperties, LenProperties
<1>2. Len(Tail(s)) # 0
  BY <1>1
<1> QED
  BY <1>1, <1>2, EmptySeq, Zenon

\* The page looked for is one the guest may use.
LEMMA TodoFacts ==
  ASSUME CurrentInv, Redo
  PROVE  /\ Todo \in Steps /\ Todo.page \in TargetPage /\ Todo.page \in guest.pages
         /\ Usable(Todo.page)
         /\ Len(pc.todo) > 1 => Tail(pc.todo) # <<>> /\ Tail(pc.todo) \in Seq(UsableSteps)
<1>1. pc.todo # <<>> /\ pc.todo \in Seq(UsableSteps)
  BY DEF CurrentInv, TodoOK
<1>2. Todo \in UsableSteps
  BY <1>1 DEF Todo
<1>3. Len(pc.todo) > 1 => Tail(pc.todo) # <<>> /\ Tail(pc.todo) \in Seq(UsableSteps)
  BY <1>1, LongTail, Zenon
<1>4. Todo \in Steps /\ Todo.page \in guest.pages /\ Usable(Todo.page)
  BY <1>2, Zenon DEF UsableSteps
<1>5. Todo.page \in TargetPage
  BY <1>4 DEF Steps
<1> QED
  BY <1>3, <1>4, <1>5

\* What a step of an access keeps: the registers and what was current.
LEMMA AccessStepKeeps ==
  ASSUME CurrentInv, UNCHANGED <<mem, cpu, asid, hist, guest>>,
         reported' \subseteq Page \X Space
  PROVE  /\ RegsOK'
         /\ \A idx, e : EntryOK(idx, e) => EntryOK(idx, e)'
         /\ \A tb : BlockOK(tb) => BlockOK(tb)'
         /\ UsableSteps' = UsableSteps
<1>1. RegsOK'
  BY DEF CurrentInv, RegsOK, hist
<1>2. \A page : Usable(page)' <=> Usable(page)
  BY DEF Usable, hist
<1>3. UsableSteps' = UsableSteps
  BY <1>2 DEF UsableSteps
<1> QED
  BY <1>1, <1>3, SameView, Zenon DEF hist

\* When the last page of a block is found, all of them are in the TLB.
LEMMA BlockFound ==
  ASSUME EmuInv, Found, ~ (Len(pc.todo) > 1), pc.tb # <<>>
  PROVE  /\ pc.idx \in 0..1 /\ pc.idx = cpu_mmu_index
         /\ \A i \in DOMAIN pc.tb : pc.tb[i] \in TargetPage /\ Match(pc.idx, pc.tb[i], "exec")
<1>1. PICK idx \in 0..1, p \in TargetPage :
        \/ \E access \in {"read", "write"} : DataOK(idx, p, access)
        \/ \E report \in {"miss", "always"} : CodeOK(idx, p, report)
  BY DEF EmuInv, RequestOK, Found, Redo
<1>2. ASSUME NEW access, DataOK(idx, p, access)
      PROVE  FALSE
  <2>1. ASSUME NEW todo, NEW stored, pc = Request(idx, access, todo, stored, <<>>)
        PROVE  pc.tb = <<>>
    BY <2>1 DEF Request
  <2> QED
    BY <1>2, <2>1, Zenon DEF DataOK
<1>3. PICK report \in {"miss", "always"} : CodeOK(idx, p, report)
  BY <1>1, <1>2
<1>4. idx = cpu_mmu_index /\ pc.idx = idx /\ pc.access = "exec"
  BY <1>3, CodeLooking, Zenon DEF CodeOK
<1>5. Match(idx, Todo.page, "exec")
  BY <1>4, Zenon DEF Found
<1> DEFINE a == Step(p, report, FALSE)
           b == Step(p + 1, report, FALSE)
<1>6. a.page = p /\ b.page = p + 1
  BY DEF Step
<1> HIDE DEF a, b
<1>7. CASE pc = Request(idx, "exec", <<a>>, FALSE, <<p>>)
  <2>1. pc.tb = <<p>> /\ Todo = a
    BY <1>7 DEF Request, Todo
  <2> QED
    BY <1>4, <1>5, <1>6, <2>1
<1>8. CASE pc = Request(idx, "exec", <<a, b>>, FALSE, <<p, p + 1>>)
  BY <1>8 DEF Request
<1>9. CASE /\ p + 1 \in TargetPage
           /\ pc = Request(idx, "exec", <<b>>, FALSE, <<p, p + 1>>)
           /\ Match(idx, p, "exec")
  <2>1. pc.tb = <<p, p + 1>> /\ Todo = b
    BY <1>9 DEF Request, Todo
  <2>2. DOMAIN pc.tb = {1, 2} /\ pc.tb[1] = p /\ pc.tb[2] = p + 1
    BY <2>1
  <2> QED
    BY <1>4, <1>5, <1>6, <1>9, <2>1, <2>2, Zenon
<1> QED
  BY <1>3, <1>7, <1>8, <1>9, ZenonT(30) DEF CodeOK, a, b

\* The block entered in the jump cache has the frames its code was read from.
LEMMA NewBlockCurrent ==
  ASSUME EmuInv, CurrentInv, Found, ~ (Len(pc.todo) > 1), pc.tb # <<>>
  PROVE  BlockOK([pages  |-> pc.tb, user |-> user,
                  frames |-> [i \in DOMAIN pc.tb |-> EntryOf(pc.idx, pc.tb[i]).frame],
                  silent |-> \E i \in DOMAIN pc.tb :
                        Todo.report = "miss" /\ EntryOf(pc.idx, pc.tb[i]).silent])
<1> DEFINE s == \E i \in DOMAIN pc.tb :
                    Todo.report = "miss" /\ EntryOf(pc.idx, pc.tb[i]).silent
           f == [i \in DOMAIN pc.tb |-> EntryOf(pc.idx, pc.tb[i]).frame]
           block == [pages |-> pc.tb, user |-> user, frames |-> f, silent |-> s]
<1>1. \A i \in DOMAIN pc.tb : f[i] = EntryOf(pc.idx, pc.tb[i]).frame
  BY Zenon
<1> HIDE DEF s, f
<1>2. block.pages = pc.tb /\ block.user = user /\ block.frames = f
  OBVIOUS
<1> HIDE DEF block
<1>3. /\ pc.idx \in 0..1 /\ pc.idx = cpu_mmu_index
      /\ \A i \in DOMAIN pc.tb : pc.tb[i] \in TargetPage /\ Match(pc.idx, pc.tb[i], "exec")
  BY BlockFound
<1>4. user \in BOOLEAN
  BY DEF EmuInv
<1>5. (pc.idx = MMU_USER_IDX) = user
  BY <1>3, <1>4 DEF cpu_mmu_index, MMU_USER_IDX
<1>6. ASSUME NEW i \in DOMAIN pc.tb
      PROVE  /\ EntryOK(pc.idx, EntryOf(pc.idx, pc.tb[i]))
             /\ EntryOf(pc.idx, pc.tb[i]).page = pc.tb[i]
  <2>1. PICK p \in TargetPage : p = pc.tb[i] /\ Match(pc.idx, p, "exec")
    BY <1>3
  <2>2. EntryOf(pc.idx, p) \in Entries(pc.idx) /\ EntryOf(pc.idx, p).page = p
    BY <1>3, <2>1, MatchIsEntry, Zenon
  <2>3. EntryOf(pc.idx, p) # NoEntry
    BY <2>2 DEF Entries
  <2>4. EntryOf(pc.idx, p) = tlb[pc.idx][p % TlbSize] /\ p % TlbSize \in 0..TlbSize - 1
    BY SlotOfPage DEF EntryOf
  <2>5. EntryOK(pc.idx, EntryOf(pc.idx, p))
    BY <1>3, <2>3, <2>4, Zenon DEF CurrentInv, EntriesCurrent
  <2> QED
    BY <2>1, <2>2, <2>5, Zenon
<1>7. ASSUME NEW i \in DOMAIN pc.tb
      PROVE  /\ pc.tb[i] \in guest.pages
             /\ Fresh(pc.tb[i]) => LET w == ReadWalk(pc.tb[i], user)
                                   IN  w.ok /\ f[i] = w.frame
  BY <1>1, <1>5, <1>6, Zenon DEF EntryOK
<1> QED
  BY <1>2, <1>4, <1>7, Zenon DEF BlockOK, block, s, f

\* A page is found in the TLB.
LEMMA FoundCurrent ==
  ASSUME EmuInv, CurrentInv, Found
  PROVE  CurrentInv'
<1>1. /\ Redo /\ UNCHANGED <<mem, cpu, asid, tlb, hist, guest>>
  BY DEF Found, regs
<1>2. reported' \subseteq Page \X Space
  <2>1. CASE Todo.report = "always"
    BY <1>1, <2>1, TodoFacts, ReportType DEF Found, CurrentInv
  <2>2. CASE Todo.report # "always"
    BY <2>2 DEF Found, CurrentInv, RegsOK
  <2> QED BY <2>1, <2>2
<1>3. /\ RegsOK'
      /\ \A idx, e : EntryOK(idx, e) => EntryOK(idx, e)'
      /\ \A tb : BlockOK(tb) => BlockOK(tb)'
      /\ UsableSteps' = UsableSteps
  BY <1>1, <1>2, AccessStepKeeps
<1>4. EntriesCurrent'
  BY <1>1, <1>3, Zenon DEF CurrentInv, EntriesCurrent
<1>5. CASE Len(pc.todo) > 1
  <2>1. /\ pc' = [pc EXCEPT !.todo = Tail(@), !.stored = @ \/ Todo.stores]
        /\ UNCHANGED jmp_cache
    BY <1>5, Zenon DEF Found
  <2>2. PICK idx, access, todo, stored, tb : pc = Request(idx, access, todo, stored, tb)
    <3>1. PICK i \in 0..1, p \in TargetPage :
            \/ \E access \in {"read", "write"} : DataOK(i, p, access)
            \/ \E report \in {"miss", "always"} : CodeOK(i, p, report)
      BY <1>1, Zenon DEF EmuInv, RequestOK, Redo
    <3>2. CASE \E access \in {"read", "write"} : DataOK(i, p, access)
      BY <3>2, Zenon DEF DataOK
    <3>3. CASE \E report \in {"miss", "always"} : CodeOK(i, p, report)
      BY <3>3, Zenon DEF CodeOK
    <3> QED
      BY <3>1, <3>2, <3>3, Zenon
  <2>3. pc'.todo = Tail(pc.todo)
    BY <2>1, <2>2 DEF Request
  <2>4. TodoOK'
    BY <1>1, <1>3, <1>5, <2>3, TodoFacts, Zenon DEF TodoOK
  <2>5. BlocksCurrent'
    BY <1>3, <2>1, Zenon DEF CurrentInv, BlocksCurrent
  <2> QED
    BY <1>3, <1>4, <2>4, <2>5 DEF CurrentInv
<1>6. CASE ~ (Len(pc.todo) > 1)
  <2>1. pc' = Idle
    BY <1>6, Zenon DEF Found
  <2>2. TodoOK'
    BY <2>1 DEF TodoOK, Redo
  <2>3. BlocksCurrent'
    <3>1. CASE pc.tb = <<>>
      <4>1. UNCHANGED jmp_cache
        BY <1>6, <3>1, Zenon DEF Found
      <4> QED
        BY <1>3, <4>1, Zenon DEF CurrentInv, BlocksCurrent
    <3>2. CASE pc.tb # <<>>
      <4> DEFINE block ==
            [pages  |-> pc.tb, user |-> user,
             frames |-> [i \in DOMAIN pc.tb |-> EntryOf(pc.idx, pc.tb[i]).frame],
             silent |-> \E i \in DOMAIN pc.tb :
                            Todo.report = "miss" /\ EntryOf(pc.idx, pc.tb[i]).silent]
      <4>1. jmp_cache' = jmp_cache \cup {block}
        BY <1>6, <3>2, Zenon DEF Found, CacheBlock
      <4>2. BlockOK(block)
        BY <1>6, <3>2, NewBlockCurrent, Zenon
      <4>3. PICK b : b = block
        BY Zenon
      <4> HIDE DEF block
      <4>4. jmp_cache' = jmp_cache \cup {b} /\ BlockOK(b)
        BY <4>1, <4>2, <4>3, Zenon
      <4>5. \A tb \in jmp_cache' : BlockOK(tb)
        BY <4>4 DEF CurrentInv, BlocksCurrent
      <4> QED
        BY <1>3, <4>5, Zenon DEF BlocksCurrent
    <3> QED
      BY <3>1, <3>2
  <2> QED
    BY <1>3, <1>4, <2>2, <2>3 DEF CurrentInv
<1> QED
  BY <1>5, <1>6

\* The protection tlb_set_page gives an entry.
LEMMA WithExec ==
  ASSUME NEW prot \in SUBSET Access
  PROVE  prot \cup {"exec"} \in (SUBSET Access) \ {{}}
BY DEF Access

\* tlb_fill maps what the walk found, which is what any access would find.
LEMMA FillsCurrent ==
  ASSUME EmuInv, CurrentInv, Fills
  PROVE  CurrentInv'
<1> DEFINE silent == /\ started /\ pc.idx = MMU_USER_IDX
                     /\ Todo.report = "never" \/ ~ user
<1>1. /\ Redo /\ Walk.ok /\ tlb_set_page(pc.idx, Todo.page, Walk, silent)
      /\ UNCHANGED <<mem, cpu, asid, jmp_cache, pc, hist, guest>>
  BY ZenonT(30) DEF Fills, Missing, regs
<1> HIDE DEF silent
<1>2. reported' \subseteq Page \X Space
  <2>1. CASE Todo.report # "never"
    BY <1>1, <2>1, TodoFacts, ReportType, SMTT(30) DEF Fills, Missing, CurrentInv
  <2>2. CASE Todo.report = "never"
    BY <2>2 DEF Fills, Missing, CurrentInv, RegsOK
  <2> QED BY <2>1, <2>2, Zenon
<1>3. /\ RegsOK'
      /\ \A idx, e : EntryOK(idx, e) => EntryOK(idx, e)'
      /\ \A tb : BlockOK(tb) => BlockOK(tb)'
      /\ UsableSteps' = UsableSteps
  BY <1>1, <1>2, AccessStepKeeps
<1>4. TodoOK' /\ BlocksCurrent'
  BY <1>1, <1>3, Zenon DEF CurrentInv, TodoOK, Redo, BlocksCurrent
<1>5. PICK idx \in 0..1, access \in Access : pc.idx = idx /\ pc.access = access
  <2>1. PICK i \in 0..1, p \in TargetPage :
            \/ \E access \in {"read", "write"} : DataOK(i, p, access)
            \/ \E report \in {"miss", "always"} : CodeOK(i, p, report)
    BY <1>1 DEF EmuInv, RequestOK, Redo
  <2> QED
    BY <2>1, DataLooking, CodeLooking DEF Access
<1>6. PICK q \in TargetPage : q = Todo.page /\ q \in guest.pages /\ Usable(q)
  BY <1>1, TodoFacts
<1>7. PICK u \in BOOLEAN : u = (idx = MMU_USER_IDX)
  BY Zenon
<1>8. Walk = get_phys_addr(Here, mem, MmuPage(q), access, u)
  <2>1. Walk = get_phys_addr(cpu, mem, MmuPage(q), access, u)
    BY <1>5, <1>6, <1>7, Zenon DEF Walk
  <2> QED
    BY <1>6, <2>1, UsableWalk, Zenon
<1>9. MemOK(mem) /\ Here.base0 \in Space
  BY DEF CurrentInv, RegsOK, Here
<1>10. /\ Walk = ReadWalk(q, u)
       /\ Walk.prot \in SUBSET Access /\ "read" \in Walk.prot
  <2> DEFINE W(k) == get_phys_addr(Here, mem, MmuPage(q), k, u)
  <2>0. PICK p \in Page : p = MmuPage(q)
    BY TargetPageAssumption
  <2>1. /\ \A k \in Access : W(k).ok => W(k) = W("read")
        /\ W("read").ok => W("read").prot \in SUBSET Access /\ "read" \in W("read").prot
    BY <1>9, <2>0, WalkFacts
  <2>2. Walk = W(access) /\ ReadWalk(q, u) = W("read")
    BY <1>8, Zenon DEF ReadWalk
  <2> HIDE DEF W
  <2> QED
    BY <1>1, <2>1, <2>2, Zenon
<1> DEFINE x0 == q % TlbSize
           e == [page |-> q, frame |-> Walk.frame,
                 prot |-> IF "read" \in Walk.prot THEN Walk.prot \cup {"exec"}
                                                  ELSE Walk.prot,
                 silent |-> silent]
<1>11. tlb' = [tlb EXCEPT ![idx][x0] = e]
  BY <1>1, <1>5, <1>6, ZenonT(30) DEF tlb_set_page
<1>12. /\ e.page = q /\ e.frame = Walk.frame
       /\ e.prot = Walk.prot \cup {"exec"}
  BY <1>10
<1> HIDE DEF e
<1>13. e.prot \in (SUBSET Access) \ {{}}
  BY <1>10, <1>12, WithExec, Zenon
<1>14. EntryOK(idx, e)
  BY <1>1, <1>6, <1>7, <1>10, <1>12, <1>13, ZenonT(30) DEF EntryOK
<1>15. x0 \in 0..TlbSize - 1
  BY SlotOfPage
<1>16. \A i \in 0..1, x \in 0..TlbSize - 1 :
            tlb'[i][x] = tlb[i][x] \/ (i = idx /\ tlb'[i][x] = e)
  BY <1>11, <1>15, ZenonT(30) DEF EmuInv, TableOK
<1>17. ASSUME NEW i \in 0..1, NEW x \in 0..TlbSize - 1, tlb'[i][x] # NoEntry
       PROVE  EntryOK(i, tlb'[i][x])
  <2>1. tlb[i][x] # NoEntry => EntryOK(i, tlb[i][x])
    BY DEF CurrentInv, EntriesCurrent
  <2> QED
    BY <1>14, <1>16, <1>17, <2>1, Zenon
<1>18. EntriesCurrent'
  BY <1>3, <1>17, Zenon DEF EntriesCurrent
<1> QED
  BY <1>3, <1>4, <1>18 DEF CurrentInv

\* tlb_fill raises an abort.
LEMMA AbortsCurrent ==
  ASSUME CurrentInv, Aborts
  PROVE  CurrentInv'
<1>1. /\ Redo /\ pc' = Idle
      /\ UNCHANGED <<mem, cpu, asid, tlb, jmp_cache, hist, guest>>
  BY DEF Aborts, Missing, soft
<1>2. reported' \subseteq Page \X Space
  <2>1. CASE Todo.report # "never"
    BY <1>1, <2>1, TodoFacts, ReportType DEF Aborts, Missing, CurrentInv
  <2>2. CASE Todo.report = "never"
    BY <2>2 DEF Aborts, Missing, CurrentInv, RegsOK
  <2> QED BY <2>1, <2>2
<1>3. /\ RegsOK'
      /\ \A idx, e : EntryOK(idx, e) => EntryOK(idx, e)'
      /\ \A tb : BlockOK(tb) => BlockOK(tb)'
  BY <1>1, <1>2, AccessStepKeeps
<1>4. TodoOK'
  BY <1>1 DEF TodoOK, Redo
<1> QED
  BY <1>1, <1>3, <1>4, Zenon DEF CurrentInv, EntriesCurrent, BlocksCurrent

\* Whatever flushes everything leaves nothing to be out of date.
LEMMA FlushCurrent ==
  ASSUME RegsOK', tlb_flush, pc = Idle, pc' = pc
  PROVE  CurrentInv'
<1>1. EntriesCurrent' /\ BlocksCurrent'
  BY DEF tlb_flush, EntriesCurrent, BlocksCurrent
<1>2. TodoOK'
  BY DEF TodoOK, Redo
<1> QED
  BY <1>1, <1>2 DEF CurrentInv

\* Whatever leaves the software TLB and what it is compared with alone.
LEMMA IdleCurrent ==
  ASSUME CurrentInv, RegsOK', pc = Idle, pc' = pc,
         UNCHANGED <<soft, guest, mem, asid, hist>>,
         cpu'.c3 = cpu.c3, cpu'.mmu = cpu.mmu
  PROVE  CurrentInv'
<1>1. UNCHANGED <<tlb, jmp_cache>>
  BY DEF soft
<1>2. EntriesCurrent' /\ BlocksCurrent'
  BY <1>1, SameView, Zenon DEF CurrentInv, EntriesCurrent, BlocksCurrent, hist
<1>3. TodoOK'
  BY DEF TodoOK, Redo
<1> QED
  BY <1>2, <1>3 DEF CurrentInv

\* One page is invalidated: nothing is left of it, in either table or among the
\* blocks, and other pages are as fresh as before (CP15 c8, operation 1).
LEMMA InvalidateEntryCurrent ==
  ASSUME EmuInv, CurrentInv, NEW page \in TargetPage, NEW s \in Space,
         InvalidateEntry(page, s)
  PROVE  CurrentInv'
<1>1. /\ pc = Idle /\ UNCHANGED <<mem, cpu, asid, pc, guest>>
      /\ reported' \subseteq reported /\ stale' \subseteq stale
      /\ changed' = changed \ {<<page, s>>}
      /\ forgotten' \subseteq forgotten \cup (guest.pages \X {s})
      /\ tlb' = [i \in 0..1 |-> [x \in 0..TlbSize - 1 |->
                  IF x = page % TlbSize /\ tlb[i][x].page = page THEN NoEntry
                                                                  ELSE tlb[i][x]]]
      /\ jmp_cache' = {tb \in jmp_cache : tb.pages[1] \notin {page - 1, page}}
  BY SMTT(30) DEF InvalidateEntry, Kernel, tlb_flush_page, tlb_flush_jmp_cache, regs, Parts
<1>2. RegsOK'
  <2>1. guest.pages \subseteq TargetPage
    BY GuestPages, Zenon DEF EmuInv
  <2>2. forgotten' \subseteq TargetPage \X Space
    BY <1>1, <2>1 DEF CurrentInv, RegsOK
  <2> QED
    BY <1>1, <2>2 DEF CurrentInv, RegsOK
<1>3. TodoOK'
  BY <1>1 DEF TodoOK, Redo
<1>4. ASSUME NEW q, q # page
      PROVE  /\ Fresh(q)' <=> Fresh(q)
             /\ \A u : ReadWalk(q, u)' = ReadWalk(q, u)
  <2>1. <<q, asid>> \in changed' <=> <<q, asid>> \in changed
    BY <1>1, <1>4
  <2>2. Fresh(q)' <=> Fresh(q)
    BY <1>1, <2>1, Zenon DEF Fresh
  <2> QED
    BY <1>1, <2>2, Zenon DEF ReadWalk, Here
<1>5. ASSUME NEW i \in 0..1, NEW x \in 0..TlbSize - 1, NEW e, e = tlb'[i][x], e # NoEntry
      PROVE  EntryOK(i, e)'
  <2>1. tlb'[i][x] = tlb[i][x] /\ tlb[i][x].page # page
    BY <1>1, <1>5, Zenon DEF EmuInv, TableOK
  <2>2. EntryOK(i, e) /\ e.page # page
    BY <1>5, <2>1, Zenon DEF CurrentInv, EntriesCurrent
  <2> QED
    BY <1>1, <1>4, <2>2, StaysCurrent, Zenon
<1>6. ASSUME NEW tb \in jmp_cache'
      PROVE  BlockOK(tb)'
  <2>1. tb \in jmp_cache /\ tb.pages[1] \notin {page - 1, page}
    BY <1>1
  <2>2. \A i \in DOMAIN tb.pages : tb.pages[i] # page
    <3>1. PICK p \in TargetPage :
            tb.pages = <<p>> \/ (p + 1 \in TargetPage /\ tb.pages = <<p, p + 1>>)
      BY <2>1 DEF EmuInv, BlocksOK
    <3>2. p \in Nat /\ page \in Nat
      BY TargetPageAssumption
    <3>3. CASE tb.pages = <<p>>
      BY <2>1, <3>3
    <3>4. CASE tb.pages = <<p, p + 1>>
      BY <2>1, <3>2, <3>4
    <3> QED BY <3>1, <3>3, <3>4
  <2>3. BlockOK(tb)
    BY <2>1 DEF CurrentInv, BlocksCurrent
  <2> QED
    BY <1>1, <1>4, <2>2, <2>3, ZenonT(30) DEF BlockOK
<1>7. EntriesCurrent' /\ BlocksCurrent'
  BY <1>5, <1>6, Zenon DEF EntriesCurrent, BlocksCurrent
<1> QED
  BY <1>2, <1>3, <1>7 DEF CurrentInv

\* The guest writes a descriptor: what is not what a walk finds any more, the
\* guest may not use before it invalidates it.
LEMMA WriteCurrent ==
  ASSUME CurrentInv, guest \in Guests, NEW a \in guest.writes, NEW desc \in Tables[a],
         WriteDescriptor(a, desc)
  PROVE  CurrentInv'
<1>1. /\ pc = Idle /\ UNCHANGED <<cpu, asid, tlb, jmp_cache, pc, reported, forgotten, guest>>
      /\ mem' = [mem EXCEPT ![a] = desc]
      /\ stale' \subseteq stale \cup ({MmuPage(page) : page \in guest.pages} \X Space)
      /\ changed' = changed \cup
            {ps \in guest.pages \X Space : Outdated(mem, mem', ps[2], MmuPage(ps[1]))}
  BY SMTT(30) DEF WriteDescriptor, Kernel, soft
<1>2. guest.pages \subseteq TargetPage /\ guest.writes \subseteq DOMAIN Tables
  BY EmulatorAssumption DEF Guest
<1>3. RegsOK'
  <2>1. DOMAIN mem' = DOMAIN Tables /\ MemOK(mem')
    BY <1>1, <1>2 DEF CurrentInv, RegsOK, MemOK
  <2>2. {MmuPage(page) : page \in guest.pages} \subseteq Page
    BY <1>2, TargetPageAssumption, Zenon
  <2>3. stale' \subseteq Page \X Space
    BY <1>1, <2>2 DEF CurrentInv, RegsOK
  <2>4. changed' \subseteq TargetPage \X Space
    BY <1>1, <1>2 DEF CurrentInv, RegsOK
  <2> QED
    BY <1>1, <2>1, <2>3, <2>4, Zenon DEF CurrentInv, RegsOK
<1>4. TodoOK'
  BY <1>1 DEF TodoOK, Redo
<1>5. ASSUME NEW q \in guest.pages
      PROVE  /\ Fresh(q)' => Fresh(q)
             /\ \A u \in BOOLEAN : Fresh(q)' /\ ReadWalk(q, u).ok =>
                                        ReadWalk(q, u)' = ReadWalk(q, u)
  <2>1. Fresh(q)' => Fresh(q)
    BY <1>1 DEF Fresh
  <2>2. ASSUME NEW u \in BOOLEAN, Fresh(q)', ReadWalk(q, u).ok
        PROVE  ReadWalk(q, u)' = ReadWalk(q, u)
    <3>0. Here' = Here /\ Here.mmu = cpu.mmu
      BY <1>1 DEF Here
    <3>1. CASE ~ cpu.mmu
      BY <3>0, <3>1, Zenon DEF ReadWalk, get_phys_addr
    <3>2. CASE cpu.mmu
      <4>1. asid \in Space /\ cpu.c3 \in Rights /\ cpu.mmu \in BOOLEAN
        BY DEF CurrentInv, RegsOK
      <4>2. <<q, asid>> \notin changed'
        BY <1>1, <2>2, <3>2, Zenon DEF Fresh
      <4>3. ~ Outdated(mem, mem', asid, MmuPage(q))
        BY <1>1, <4>1, <4>2
      <4>4. Here = [base0 |-> asid, c3 |-> cpu.c3, mmu |-> TRUE]
        BY <3>2, <4>1 DEF Here
      <4>5. "read" \in Access
        BY DEF Access
      <4> QED
        BY <2>2, <3>0, <4>1, <4>3, <4>4, <4>5, Zenon DEF Outdated, ReadWalk
    <3> QED
      BY <3>1, <3>2
  <2> QED
    BY <2>1, <2>2
<1>6. ASSUME NEW i \in 0..1, NEW x \in 0..TlbSize - 1, NEW e, e = tlb'[i][x], e # NoEntry
      PROVE  EntryOK(i, e)'
  <2>1. EntryOK(i, e)
    BY <1>1, <1>6, Zenon DEF CurrentInv, EntriesCurrent
  <2>2. e.page \in guest.pages
    BY <2>1, Zenon DEF EntryOK
  <2> QED
    BY <1>1, <1>5, <2>1, <2>2, StaysCurrent, Zenon
<1>7. ASSUME NEW tb \in jmp_cache
      PROVE  BlockOK(tb)'
  <2>1. BlockOK(tb)
    BY DEF CurrentInv, BlocksCurrent
  <2> QED
    BY <1>1, <1>5, <2>1, Zenon DEF BlockOK
<1>8. EntriesCurrent' /\ BlocksCurrent'
  BY <1>1, <1>6, <1>7, Zenon DEF EntriesCurrent, BlocksCurrent
<1> QED
  BY <1>3, <1>4, <1>8 DEF CurrentInv

\* The tracer forgets 4 KB, and the software TLB only the part of it the guest
\* named: the other parts are "forgotten" (CP15 c8, operation 1).
LEMMA InvalidateEntryStep ==
  ASSUME EmuInv, CurrentInv, NEW page \in TargetPage, NEW s, InvalidateEntry(page, s)
  PROVE  EmuInv'
<1>1. /\ pc = Idle /\ UNCHANGED <<asid, user, pc, started, guest>>
      /\ tlb' = [i \in 0..1 |-> [x \in 0..TlbSize - 1 |->
                  IF x = page % TlbSize /\ tlb[i][x].page = page THEN NoEntry
                                                                  ELSE tlb[i][x]]]
      /\ jmp_cache' = {tb \in jmp_cache : tb.pages[1] \notin {page - 1, page}}
  BY SMTT(30) DEF InvalidateEntry, Kernel, tlb_flush_page, tlb_flush_jmp_cache, regs
<1>2. \A i \in 0..1, x \in 0..TlbSize - 1 :
        tlb'[i][x] = NoEntry \/
            (tlb'[i][x] = tlb[i][x] /\ (tlb[i][x] # NoEntry => tlb[i][x].page # page))
  BY <1>1 DEF EmuInv, TableOK
<1>3. TableOK'
  <2>1. tlb' = [i \in 0..1 |-> [x \in 0..TlbSize - 1 |-> tlb'[i][x]]]
    BY <1>1
  <2> QED BY <1>2, <2>1, SMTT(30) DEF EmuInv, TableOK
<1>4. BlocksOK'
  BY <1>1 DEF EmuInv, BlocksOK
<1>5. RequestOK'
  BY <1>1, IdleFacts
<1>9. ASSUME NEW q \in guest.pages, q # page, Told(q)
      PROVE  Told(q)'
  <2>1. /\ reported' = reported \ {<<MmuPage(page), s>>}
        /\ forgotten \ {<<page, s>>} \subseteq forgotten'
        /\ <<MmuPage(page), s>> \in reported =>
                (Parts(page) \X {s}) \ {<<page, s>>} \subseteq forgotten'
    BY DEF InvalidateEntry
  <2>2. CASE <<q, asid>> \in forgotten
    BY <1>1, <1>9, <2>1, <2>2 DEF Told
  <2>3. CASE <<MmuPage(q), asid>> \in reported
    <3>1. CASE MmuPage(q) = MmuPage(page) /\ asid = s
      <4>1. q \in Parts(page)
        BY <3>1 DEF Parts
      <4>2. <<q, s>> \in forgotten'
        BY <1>9, <2>1, <2>3, <3>1, <4>1
      <4> QED
        BY <1>1, <3>1, <4>2, Zenon DEF Told
    <3>2. CASE ~ (MmuPage(q) = MmuPage(page) /\ asid = s)
      <4>1. PICK m, n : m = MmuPage(q) /\ n = MmuPage(page)
        OBVIOUS
      <4>2. <<m, asid>> \in reported'
        BY <2>1, <2>3, <3>2, <4>1
      <4> QED
        BY <1>1, <4>1, <4>2, Zenon DEF Told
    <3> QED
      BY <3>1, <3>2
  <2> QED
    BY <1>9, <2>2, <2>3, Zenon DEF Told
<1>6. ASSUME started, NEW e \in Entries(MMU_USER_IDX)', ~ e.silent
      PROVE  Told(e.page)'
  <2>1. PICK x \in 0..TlbSize - 1 : e = tlb'[MMU_USER_IDX][x] /\ e # NoEntry
    BY <1>6 DEF Entries
  <2>2. e = tlb[MMU_USER_IDX][x] /\ e.page # page
    BY <1>2, <2>1 DEF MMU_USER_IDX
  <2>3. e \in Entries(MMU_USER_IDX)
    BY <2>1, <2>2, SMTT(30) DEF Entries
  <2>4. MMU_USER_IDX \in 0..1
    BY DEF MMU_USER_IDX
  <2>5. e.page \in guest.pages
    BY <2>1, <2>2, <2>4, Zenon DEF CurrentInv, EntriesCurrent, EntryOK
  <2>6. Told(e.page)
    BY <1>6, <2>3, Zenon DEF EmuInv, UnhookedIsReported
  <2> QED BY <1>9, <2>2, <2>5, <2>6, ZenonT(30)
<1>7. ASSUME started, NEW tb \in Blocks(TRUE)', NEW i \in DOMAIN tb.pages, ~ tb.silent
      PROVE  Told(tb.pages[i])'
  <2>1. tb \in Blocks(TRUE) /\ tb \in jmp_cache /\ tb.pages[1] \notin {page - 1, page}
    BY <1>1, <1>7 DEF Blocks
  <2>2. tb.pages[i] # page
    <3>1. PICK p \in TargetPage :
            tb.pages = <<p>> \/ (p + 1 \in TargetPage /\ tb.pages = <<p, p + 1>>)
      BY <2>1 DEF EmuInv, BlocksOK
    <3>2. p \in Nat /\ page \in Nat
      BY TargetPageAssumption
    <3>3. CASE tb.pages = <<p>>
      BY <1>7, <2>1, <3>3
    <3>4. CASE tb.pages = <<p, p + 1>>
      BY <1>7, <2>1, <3>2, <3>4
    <3> QED BY <3>1, <3>3, <3>4
  <2>3. tb.pages[i] \in guest.pages
    BY <2>1, Zenon DEF CurrentInv, BlocksCurrent, BlockOK
  <2>4. Told(tb.pages[i])
    BY <1>7, <2>1, Zenon DEF EmuInv, UnhookedIsReported
  <2> QED BY <1>9, <2>2, <2>3, <2>4, Zenon
<1>8. UnhookedIsReported'
  BY <1>1, <1>6, <1>7, ZenonT(30) DEF UnhookedIsReported
<1> QED BY <1>1, <1>3, <1>4, <1>5, <1>8, SMTT(30) DEF EmuInv

\* A step of the guest's kernel, the key F10, or a block that runs.
LEMMA OtherCurrent ==
  ASSUME EmuInv, CurrentInv,
         \/ RunArmBlock \/ SwitchMode \/ InvalidateAll \/ SetMmu \/ F10
         \/ \E page \in TargetPage : InvalidateMva(page)
         \/ \E s \in Space : InvalidateAsid(s) \/ SetBase(s) \/ SetContext(s)
         \/ \E r \in Rights : SetRights(r)
  PROVE  CurrentInv'
<1> USE DEF Kernel, regs, hist
<1>0. /\ RegsOK /\ cpu \in [base0 : Space, c3 : Rights, mmu : BOOLEAN]
  BY DEF CurrentInv, RegsOK
<1>1. CASE RunArmBlock
  <2>0. PICK tb \in jmp_cache :
          \E i \in DOMAIN tb.pages : tlbtrace_refmem_qemu(tb.pages[i])
    BY <1>1, Zenon DEF RunArmBlock
  <2>1. PICK i \in DOMAIN tb.pages : tlbtrace_refmem_qemu(tb.pages[i])
    BY <2>0, Zenon
  <2>2. tb.pages[i] \in guest.pages
    BY Zenon DEF CurrentInv, BlocksCurrent, BlockOK
  <2>3. tb.pages[i] \in TargetPage
    BY <2>2, GuestPages, Zenon DEF EmuInv
  <2>4. reported' \subseteq Page \X Space
    BY <1>0, <2>1, <2>3, ReportType, Zenon
  <2>5. UNCHANGED <<mem, cpu, asid, soft, pc, hist, guest>> /\ pc = Idle
    BY <1>1, Zenon DEF RunArmBlock
  <2>6. RegsOK'
    BY <1>0, <2>4, <2>5, Zenon DEF RegsOK
  <2> QED
    BY <2>5, <2>6, IdleCurrent, Zenon
<1>2. CASE SwitchMode
  <2>1. UNCHANGED <<mem, cpu, asid, soft, pc, hist, guest, reported>> /\ pc = Idle
    BY <1>2, Zenon DEF SwitchMode
  <2>2. RegsOK'
    BY <1>0, <2>1, Zenon DEF RegsOK
  <2> QED
    BY <2>1, <2>2, IdleCurrent, Zenon
<1>3. CASE InvalidateAll
  <2>1. RegsOK'
    BY <1>0, <1>3 DEF RegsOK, InvalidateAll
  <2> QED
    BY <1>3, <2>1, FlushCurrent, ZenonT(30) DEF InvalidateAll
<1>4. CASE SetMmu
  <2>1. cpu' \in [base0 : Space, c3 : Rights, mmu : BOOLEAN]
    BY <1>0, <1>4, Zenon DEF SetMmu
  <2>2. RegsOK'
    BY <1>0, <1>4, <2>1, Zenon DEF RegsOK, SetMmu
  <2> QED
    BY <1>4, <2>2, FlushCurrent, Zenon DEF SetMmu
<1>5. CASE F10
  <2>1. RegsOK'
    BY <1>0, <1>5 DEF RegsOK, F10
  <2> QED
    BY <1>5, <2>1, FlushCurrent, ZenonT(30) DEF F10
<1>6. CASE \E page \in TargetPage : InvalidateMva(page)
  <2>1. RegsOK'
    BY <1>0, <1>6 DEF RegsOK, InvalidateMva
  <2> QED
    BY <1>6, <2>1, FlushCurrent, ZenonT(30) DEF InvalidateMva
<1>7. ASSUME NEW s \in Space, InvalidateAsid(s)
      PROVE  CurrentInv'
  <2>1. RegsOK'
    BY <1>0, <1>7 DEF RegsOK, InvalidateAsid
  <2> QED
    BY <1>7, <2>1, FlushCurrent, ZenonT(30) DEF InvalidateAsid
<1>8. ASSUME NEW s \in Space, SetBase(s)
      PROVE  CurrentInv'
  <2>1. /\ cpu' \in [base0 : Space, c3 : Rights, mmu : BOOLEAN]
        /\ cpu'.c3 = cpu.c3 /\ cpu'.mmu = cpu.mmu
    BY <1>0, <1>8 DEF SetBase
  <2>2. UNCHANGED <<mem, asid, soft, pc, reported, hist, guest>> /\ pc = Idle
    BY <1>8, Zenon DEF SetBase
  <2>3. RegsOK'
    BY <1>0, <2>1, <2>2, Zenon DEF RegsOK
  <2> QED
    BY <2>1, <2>2, <2>3, IdleCurrent, Zenon
<1>9. ASSUME NEW s \in Space, SetContext(s)
      PROVE  CurrentInv'
  <2>1. UNCHANGED <<mem, cpu, pc, reported, hist, guest>> /\ pc = Idle /\ asid' = s
    BY <1>9, Zenon DEF SetContext
  <2>2. RegsOK'
    BY <1>0, <2>1, Zenon DEF RegsOK
  <2>3. CASE asid # s
    BY <1>9, <2>1, <2>2, <2>3, FlushCurrent, Zenon DEF SetContext
  <2>4. CASE asid = s
    BY <1>9, <2>1, <2>2, <2>4, IdleCurrent, Zenon DEF SetContext
  <2> QED
    BY <2>3, <2>4
<1>10. ASSUME NEW r \in Rights, SetRights(r)
       PROVE  CurrentInv'
  <2>1. cpu' \in [base0 : Space, c3 : Rights, mmu : BOOLEAN]
    BY <1>0, <1>10 DEF SetRights
  <2>2. RegsOK'
    BY <1>0, <1>10, <2>1, Zenon DEF RegsOK, SetRights
  <2> QED
    BY <1>10, <2>2, FlushCurrent, Zenon DEF SetRights
<1> QED
  BY <1>1, <1>2, <1>3, <1>4, <1>5, <1>6, <1>7, <1>8, <1>9, <1>10, ZenonT(30)

-----------------------------------------------------------------------------
(* The invariant and the theorems. *)

\* The emulator starts with an empty TLB and no tracer.
LEMMA EmuInvInit == Init => EmuInv
<1> SUFFICES ASSUME Init PROVE EmuInv
  OBVIOUS
<1>1. TableOK
  <2>1. \A i \in 0..1, x \in 0..TlbSize - 1 : tlb[i][x] = NoEntry
    BY DEF Init
  <2>2. tlb = [i \in 0..1 |-> [x \in 0..TlbSize - 1 |-> tlb[i][x]]]
    BY SMTT(30) DEF Init
  <2> QED BY <2>1, <2>2 DEF TableOK
<1> QED BY <1>1, Zenon DEF Init, EmuInv, BlocksOK, RequestOK, UnhookedIsReported

\* Every step keeps it.
LEMMA EmuInvStep == EmuInv /\ CurrentInv /\ [Next]_vars => EmuInv'
<1> SUFFICES ASSUME EmuInv, CurrentInv, [Next]_vars PROVE EmuInv'
  OBVIOUS
<1>1. CASE AccessStep
  BY <1>1, FoundStep, FillsStep, AbortsStep DEF AccessStep
<1>2. CASE \/ RunArmBlock \/ SwitchMode \/ InvalidateAll \/ SetMmu \/ F10
           \/ \E page \in TargetPage : InvalidateMva(page)
           \/ \E s \in Space : InvalidateAsid(s) \/ SetBase(s) \/ SetContext(s)
           \/ \E r \in Rights : SetRights(r)
           \/ \E a, desc : WriteDescriptor(a, desc)
  BY <1>2, OtherStep
<1>3. CASE \E page \in TargetPage, idx \in 0..1, access \in {"read", "write"} :
            AlignedAccess(idx, page, access) \/ CrossingAccess(idx, page, access)
  BY <1>3, AlignedAccessStep, CrossingAccessStep
<1>4. CASE \E page \in TargetPage, exists \in BOOLEAN :
            \/ FindBlock(<<page>>, exists)
            \/ page + 1 \in TargetPage /\ FindBlock(<<page, page + 1>>, exists)
  BY <1>4, FindBlockStep
<1>5. CASE \E page \in TargetPage, s \in Space : InvalidateEntry(page, s)
  BY <1>5, InvalidateEntryStep
<1>6. CASE UNCHANGED vars
  <2>1. UNCHANGED <<asid, user, tlb, jmp_cache, pc, started, reported, forgotten, guest>>
    BY <1>6 DEF vars
  <2>2. TableOK' /\ BlocksOK' /\ UnhookedIsReported'
    BY <2>1, SoftUnchanged, SMTT(30) DEF EmuInv, soft
  <2>3. ASSUME NEW idx, NEW p, NEW access
        PROVE  DataOK(idx, p, access)' <=> DataOK(idx, p, access)
    BY <2>1, ZenonT(30) DEF DataOK, Match, EntryOf
  <2>4. ASSUME NEW idx, NEW p, NEW report
        PROVE  CodeOK(idx, p, report)' <=> CodeOK(idx, p, report)
    BY <2>1 DEF CodeOK, Match, EntryOf, cpu_mmu_index, Told
  <2>5. RequestOK'
    BY <2>1, <2>3, <2>4 DEF EmuInv, RequestOK
  <2> QED BY <2>1, <2>2, <2>5 DEF EmuInv
<1> QED BY <1>1, <1>2, <1>3, <1>4, <1>5, <1>6 DEF Next

\* The emulator starts with an empty TLB, and the guest with its own tables.
LEMMA CurrentInvInit == Init => CurrentInv
<1> SUFFICES ASSUME Init PROVE CurrentInv
  OBVIOUS
<1>1. DOMAIN mem = DOMAIN Tables /\ MemOK(mem)
  BY EmulatorAssumption DEF Init, MemOK
<1>2. guest.boot \in Space
  BY EmulatorAssumption DEF Init, Guest
<1>3. cpu \in [base0 : Space, c3 : Rights, mmu : BOOLEAN] /\ asid \in Space
  BY <1>2 DEF Init
<1>4. RegsOK
  BY <1>1, <1>3 DEF Init, RegsOK
<1>5. EntriesCurrent /\ BlocksCurrent
  BY DEF Init, EntriesCurrent, BlocksCurrent
<1>6. TodoOK
  BY DEF Init, TodoOK, Redo
<1> QED
  BY <1>4, <1>5, <1>6, SMTT(30) DEF CurrentInv

\* Every step keeps what is current current.
LEMMA CurrentInvStep == EmuInv /\ CurrentInv /\ [Next]_vars => CurrentInv'
<1> SUFFICES ASSUME EmuInv, CurrentInv, [Next]_vars PROVE CurrentInv'
  OBVIOUS
<1>1. CASE AccessStep
  BY <1>1, FoundCurrent, FillsCurrent, AbortsCurrent, Zenon DEF AccessStep
<1>2. CASE \/ RunArmBlock \/ SwitchMode \/ InvalidateAll \/ SetMmu \/ F10
           \/ \E page \in TargetPage : InvalidateMva(page)
           \/ \E s \in Space : InvalidateAsid(s) \/ SetBase(s) \/ SetContext(s)
           \/ \E r \in Rights : SetRights(r)
  BY <1>2, OtherCurrent, Zenon
<1>3. CASE \E page \in TargetPage, idx \in 0..1, access \in {"read", "write"} :
            AlignedAccess(idx, page, access) \/ CrossingAccess(idx, page, access)
  BY <1>3, AccessCurrent, Zenon
<1>4. CASE \E page \in TargetPage, exists \in BOOLEAN :
            \/ FindBlock(<<page>>, exists)
            \/ page + 1 \in TargetPage /\ FindBlock(<<page, page + 1>>, exists)
  BY <1>4, FindBlockCurrent, Zenon
<1>5. CASE \E page \in TargetPage, s \in Space : InvalidateEntry(page, s)
  BY <1>5, InvalidateEntryCurrent, Zenon
<1>6. CASE \E a \in guest.writes : \E desc \in Tables[a] : WriteDescriptor(a, desc)
  BY <1>6, WriteCurrent, Zenon DEF EmuInv
<1>7. CASE UNCHANGED vars
  <2>1. UNCHANGED <<mem, cpu, asid, tlb, jmp_cache, pc, reported, hist, guest>>
    BY <1>7 DEF vars, hist
  <2>2. /\ RegsOK'
        /\ \A idx, e : EntryOK(idx, e) => EntryOK(idx, e)'
        /\ \A tb : BlockOK(tb) => BlockOK(tb)'
        /\ UsableSteps' = UsableSteps
    <3>1. reported' \subseteq Page \X Space
      BY <2>1, Zenon DEF CurrentInv, RegsOK
    <3> QED
      BY <2>1, <3>1, AccessStepKeeps, Zenon
  <2>3. TodoOK'
    BY <2>1, <2>2, Zenon DEF CurrentInv, TodoOK, Redo
  <2> QED
    BY <2>1, <2>2, <2>3, Zenon DEF CurrentInv, EntriesCurrent, BlocksCurrent
<1> QED
  BY <1>1, <1>2, <1>3, <1>4, <1>5, <1>6, <1>7, Zenon DEF Next

\* It holds in every reachable state.
LEMMA CurrentInvariant == Spec => [](EmuInv /\ CurrentInv)
<1>1. EmuInv /\ CurrentInv /\ [Next]_vars => EmuInv' /\ CurrentInv'
  BY EmuInvStep, CurrentInvStep
<1> QED
  BY <1>1, EmuInvInit, CurrentInvInit, PTL DEF Spec

\* Whatever user code reaches in the TLB or in the jump cache without passing a
\* hook was reported to the tracer before, the silent fills and the
\* rest of 4 KB of which the guest invalidated an entry excepted.
THEOREM UnhookedIsReportedHolds == Spec => []UnhookedIsReported
<1>1. EmuInv /\ CurrentInv => UnhookedIsReported
  BY SMTT(30) DEF EmuInv
<1> QED BY <1>1, CurrentInvariant, PTL

\* Once slow_st has stored a byte, the pages of the others are in the TLB.
THEOREM NoPartialStoreHolds == Spec => []NoPartialStore
<1>1. EmuInv /\ CurrentInv => NoPartialStore
  <2> SUFFICES ASSUME EmuInv, Redo, pc.stored, NEW i \in DOMAIN pc.todo
               PROVE  Match(pc.idx, pc.todo[i].page, pc.access)
    BY DEF NoPartialStore
  <2>1. PICK idx \in 0..1, p \in TargetPage :
            \/ \E access \in {"read", "write"} : DataOK(idx, p, access)
            \/ \E report \in {"miss", "always"} : CodeOK(idx, p, report)
    BY DEF EmuInv, RequestOK, Redo
  <2>2. ASSUME NEW k, NEW todo, NEW tb, pc = Request(idx, k, todo, FALSE, tb)
        PROVE  FALSE
    BY <2>2 DEF Request
  <2>3. PICK access \in {"read", "write"} :
            /\ pc = Request(idx, access, <<Step(p, "never", TRUE)>>, TRUE, <<>>)
            /\ Match(idx, p, access)
    BY <2>1, <2>2, Zenon DEF DataOK, CodeOK
  <2>4. pc.idx = idx /\ pc.access = access /\ pc.todo = <<Step(p, "never", TRUE)>>
    BY <2>3, Zenon DEF Request
  <2>5. pc.todo[i].page = p
    <3> DEFINE a == Step(p, "never", TRUE)
    <3>1. a.page = p
      BY DEF Step
    <3> HIDE DEF a
    <3>2. pc.todo = <<a>>
      BY <2>4 DEF a
    <3>3. i = 1
      BY <3>2
    <3> QED BY <3>1, <3>2, <3>3
  <2> QED BY <2>3, <2>4, <2>5, Zenon
<1> QED BY <1>1, CurrentInvariant, PTL

\* Type correctness of the registers, the two tables, the history and the
\* access in progress.
THEOREM EmuTypeCorrect == Spec => []EmuTypeOK
<1>1. EmuInv /\ CurrentInv => EmuTypeOK
  <2> SUFFICES ASSUME EmuInv, CurrentInv PROVE EmuTypeOK
    OBVIOUS
  <2>1. /\ \A a \in DOMAIN Tables : mem[a] \in Tables[a]
        /\ cpu \in [base0 : Space, c3 : Rights, mmu : BOOLEAN]
        /\ asid \in Space
        /\ reported \subseteq Page \X Space /\ stale \subseteq Page \X Space
    BY Zenon DEF CurrentInv, RegsOK, MemOK
  <2>5. changed \cup forgotten \subseteq TargetPage \X Space
    BY DEF CurrentInv, RegsOK
  <2>2. {user, started} \subseteq BOOLEAN
    BY DEF EmuInv
  <2>3. \A idx \in 0..1, x \in 0..TlbSize - 1 :
            tlb[idx][x] = NoEntry \/
                /\ tlb[idx][x].page \in TargetPage
                /\ tlb[idx][x].page % TlbSize = x
                /\ tlb[idx][x].prot \in (SUBSET Access) \ {{}}
    BY Zenon DEF EmuInv, TableOK, CurrentInv, EntriesCurrent, EntryOK
  <2>4. ASSUME Redo
        PROVE  pc.todo # <<>> /\ pc.access \in Access
    <3>1. PICK idx \in 0..1, p \in TargetPage :
            \/ \E access \in {"read", "write"} : DataOK(idx, p, access)
            \/ \E report \in {"miss", "always"} : CodeOK(idx, p, report)
      BY <2>4, Zenon DEF EmuInv, RequestOK, Redo
    <3>2. pc.access \in Access
      BY <3>1, DataLooking, CodeLooking DEF Access
    <3> QED
      BY <2>4, <3>2, Zenon DEF CurrentInv, TodoOK
  <2> QED
    BY <2>1, <2>2, <2>3, <2>4, <2>5, Zenon DEF EmuTypeOK
<1> QED
  BY <1>1, CurrentInvariant, PTL

\* Nothing that can be used without a walk is out of date, once the guest has
\* invalidated all it changed: the entries have the frame and the permissions, and
\* the cached blocks the frames, that a walk finds now (tlb_flush in cp15_write,
\* tlb_flush_page and tlb_flush_jmp_cache).
THEOREM TranslationsCurrentHolds == Spec => []TranslationsCurrent
<1>1. EmuInv /\ CurrentInv => TranslationsCurrent
  <2> SUFFICES ASSUME EmuInv, CurrentInv PROVE TranslationsCurrent
    OBVIOUS
  <2>0. MemOK(mem) /\ Here.base0 \in Space
    BY DEF CurrentInv, RegsOK, Here
  <2>1. ASSUME NEW idx \in 0..1, NEW e \in Entries(idx), Settled(e.page),
               NEW k \in {"read", "write"}
        PROVE  LET w == get_phys_addr(cpu, mem, MmuPage(e.page), k, idx = MMU_USER_IDX)
               IN  /\ k \in e.prot <=> w.ok
                   /\ w.ok => w.frame = e.frame
    <3> DEFINE u == idx = MMU_USER_IDX
               W(a) == get_phys_addr(Here, mem, MmuPage(e.page), a, u)
    <3>1. u \in BOOLEAN
      BY Zenon
    <3>2. EntryOK(idx, e)
      BY DEF Entries, CurrentInv, EntriesCurrent
    <3>3. e.page \in TargetPage
      BY <3>2, GuestPages, Zenon DEF EntryOK, EmuInv
    <3>4. /\ Fresh(e.page)
          /\ get_phys_addr(cpu, mem, MmuPage(e.page), k, u) = W(k)
      <4>1. PICK p : p = e.page
        OBVIOUS
      <4>2. Settled(p)
        BY <2>1, <4>1
      <4> HIDE DEF u
      <4>3. /\ Fresh(p)
            /\ get_phys_addr(cpu, mem, MmuPage(p), k, u) =
                    get_phys_addr(Here, mem, MmuPage(p), k, u)
        BY <4>2, UsableWalk, SettledFresh, Zenon
      <4> QED
        BY <4>1, <4>3
    <3>5. /\ W("read").ok /\ e.frame = W("read").frame
          /\ e.prot = W("read").prot \cup {"exec"}
      BY <3>2, <3>4, Zenon DEF EntryOK, ReadWalk
    <3>6. PICK p \in Page : p = MmuPage(e.page)
      BY <3>3, TargetPageAssumption, ZenonT(30)
    <3> HIDE DEF u
    <3>7. /\ \A a \in Access : W(a).ok => W(a) = W("read")
          /\ "read" \in W("read").prot
          /\ "write" \in W("read").prot <=> W("write").ok
      BY <2>0, <3>1, <3>5, <3>6, WalkFacts, ZenonT(40)
    <3> HIDE DEF W
    <3>8. "read" \in Access /\ "write" \in Access /\ "read" # "exec" /\ "write" # "exec"
      BY DEF Access
    <3>9. /\ k \in e.prot <=> W(k).ok
          /\ W(k).ok => W(k).frame = e.frame
      BY <3>5, <3>7, <3>8, Zenon
    <3> QED
      BY <3>4, <3>9, Zenon DEF u
  <2>2. ASSUME NEW tb \in jmp_cache, NEW i \in DOMAIN tb.pages, Settled(tb.pages[i])
        PROVE  LET w == get_phys_addr(cpu, mem, MmuPage(tb.pages[i]), "read", tb.user)
               IN  w.ok /\ w.frame = tb.frames[i]
    <3>1. BlockOK(tb)
      BY DEF CurrentInv, BlocksCurrent
    <3>2. /\ Fresh(tb.pages[i])
          /\ get_phys_addr(cpu, mem, MmuPage(tb.pages[i]), "read", tb.user) =
                ReadWalk(tb.pages[i], tb.user)
      BY <2>2, UsableWalk, SettledFresh, ZenonT(30) DEF ReadWalk
    <3> QED
      BY <3>1, <3>2, Zenon DEF BlockOK
  <2> QED
    BY <2>1, <2>2, Zenon DEF TranslationsCurrent, EntryCurrent
<1> QED
  BY <1>1, CurrentInvariant, PTL

\* For a page the emulator has a translation of, what get_ptes reports to the
\* tracer agrees with it.
THEOREM TraceMatchesTranslationHolds == Spec => []TraceMatchesTranslation
<1>1. EmuInv /\ CurrentInv => TraceMatchesTranslation
  <2> SUFFICES ASSUME EmuInv, CurrentInv, cpu.mmu, NEW idx \in 0..1,
                      NEW e \in Entries(idx), Settled(e.page)
               PROVE  LET t == get_ptes(cpu, mem, MmuPage(e.page)) IN
                      \/ t.ret = 1 /\ mem[t.l1].type = 2
                      \/ t.ret = 3 /\ IF mem[t.l2].type = 1
                                      THEN t.gpa \div LargePages = e.frame \div LargePages
                                      ELSE t.gpa = e.frame
    BY Zenon DEF TraceMatchesTranslation
  <2> DEFINE u == idx = MMU_USER_IDX
  <2>1. u \in BOOLEAN
    BY Zenon
  <2>2. EntryOK(idx, e)
    BY DEF Entries, CurrentInv, EntriesCurrent
  <2>3. e.page \in TargetPage
    BY <2>2, GuestPages, Zenon DEF EntryOK, EmuInv
  <2>4. PICK p \in Page : p = MmuPage(e.page)
    BY <2>3, TargetPageAssumption, Zenon
  <2>5. Fresh(e.page)
    BY SettledFresh, Zenon
  <2>6. /\ get_phys_addr(Here, mem, p, "read", u).ok
        /\ e.frame = get_phys_addr(Here, mem, p, "read", u).frame
    BY <2>2, <2>4, <2>5, Zenon DEF EntryOK, ReadWalk
  <2>7. MemOK(mem) /\ cpu.base0 \in Space
    BY DEF CurrentInv, RegsOK
  <2> HIDE DEF u
  <2>8. get_phys_addr(cpu, mem, p, "read", u) = get_phys_addr(Here, mem, p, "read", u)
    BY <2>4, UsableWalk, Zenon
  <2>9. /\ get_phys_addr(cpu, mem, p, "read", u).ok
        /\ get_phys_addr(cpu, mem, p, "read", u).frame = e.frame
    BY <2>6, <2>8, ZenonT(30)
  <2>10. LET t == get_ptes(cpu, mem, p)
             w == get_phys_addr(cpu, mem, p, "read", u)
         IN  \/ t.ret = 1 /\ mem[t.l1].type = 2
             \/ t.ret = 3 /\ IF mem[t.l2].type = 1
                             THEN t.gpa \div LargePages = w.frame \div LargePages
                             ELSE t.gpa = w.frame
    BY <2>1, <2>7, <2>9, TraceFacts
  <2> QED
    BY <2>4, <2>9, <2>10
<1> QED
  BY <1>1, CurrentInvariant, PTL
=============================================================================

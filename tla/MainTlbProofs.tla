--------------------------- MODULE MainTlbProofs ----------------------------
(***************************************************************************)
(* Proofs about the main TLB (module MainTlb), and about the tracer that   *)
(* records its misses (module Tracer): for every set of pages and address  *)
(* spaces, every geometry and every bound, buffer size, set of file names, *)
(* result of the page walk and behaviour of the guest.                     *)
(***************************************************************************)
EXTENDS Tracer, WellFoundedInduction, TLAPS

-----------------------------------------------------------------------------
(* What the search and the choice of a victim return. *)

\* A set of naturals that is not empty has a least element.
LEMMA NatMin ==
  ASSUME NEW S \in SUBSET Nat, S # {}
  PROVE  \E m \in S : \A n \in S : m <= n
<1>1. IsWellFoundedOn(OpToRel(<, Nat), Nat)
  BY NatLessThanWellFounded, Zenon
<1>2. PICK m \in S : \A n \in S : ~(<<n, m>> \in OpToRel(<, Nat))
  BY <1>1, WFMin, Zenon
<1>3. \A n \in S : ~(n < m)
  BY <1>2, Zenon DEF OpToRel
<1>4. QED
  BY <1>3

\* The search of a set that holds a match returns a match.
LEMMA FirstIsMember ==
  ASSUME NEW S \in SUBSET Nat, S # {}
  PROVE  First(S) \in S
BY NatMin, Zenon DEF First

\* Among finitely or infinitely many slots with natural time stamps one is the
\* oldest, and among equally old ones the first is well defined.
LEMMA OldestExists ==
  ASSUME NEW t, NEW S \in SUBSET Nat, S # {}, \A i \in S : t[i].ts \in Nat
  PROVE  \E i \in S : Oldest(t, S, i)
<1> DEFINE V == {t[i].ts : i \in S}
<1>1. PICK v \in V : \A w \in V : v <= w
  <2>1. V \in SUBSET Nat /\ V # {}
    BY Zenon
  <2>2. QED
    BY <2>1, NatMin, Zenon
<1> DEFINE T == {i \in S : t[i].ts = v}
<1>2. PICK i \in T : \A j \in T : i <= j
  <2>1. T \in SUBSET Nat /\ T # {}
    BY Zenon
  <2>2. QED
    BY <2>1, NatMin, Zenon
<1>3. ASSUME NEW j \in S
      PROVE  t[i].ts < t[j].ts \/ (t[i].ts = t[j].ts /\ i <= j)
  <2>1. t[i].ts = v /\ v <= t[j].ts
    BY <1>1, <1>2, Zenon
  <2>2. t[j].ts = v => i <= j
    BY <1>2, Zenon
  <2>3. t[i].ts \in Nat /\ t[j].ts \in Nat
    BY <1>2
  <2>4. QED
    BY <2>1, <2>2, <2>3
<1>4. QED
  BY <1>2, <1>3 DEF Oldest

\* The refill goes to a visited slot or to slot 0; to a slot other than 0 only
\* if that slot is older than slot 0; and no visited slot is older than it.
LEMMA VictimFacts ==
  ASSUME NEW t, NEW n \in Nat \ {0}, NEW W \in SUBSET (0..(n - 1)),
         \A i \in 0..(n - 1) : t[i].ts \in Nat
  PROVE  /\ Victim(t, W) \in 0..(n - 1)
         /\ Victim(t, W) # 0 => Victim(t, W) \in W
         /\ Victim(t, W) # 0 => t[Victim(t, W)].ts < t[0].ts
         /\ \A j \in W : t[Victim(t, W)].ts <= t[j].ts
<1> DEFINE S == Older(t, W)
<1>1. S \in SUBSET W
  BY DEF Older
<1>2. CASE S = {}
  <2>1. Victim(t, W) = 0
    BY <1>2 DEF Victim
  <2>2. \A j \in W : t[0].ts <= t[j].ts
    BY <1>2 DEF Older
  <2>3. QED
    BY <2>1, <2>2
<1>3. CASE S # {}
  <2>1. \E i \in S : Oldest(t, S, i)
    <3>1. \A i \in S : i \in 0..(n - 1)
      BY <1>1, Zenon
    <3>2. S \in SUBSET Nat
      BY <3>1
    <3>3. \A i \in S : t[i].ts \in Nat
      BY <3>1
    <3>4. QED
      BY <3>2, <3>3, <1>3, OldestExists
  <2>2. Victim(t, W) \in S /\ Oldest(t, S, Victim(t, W))
    BY <1>3, <2>1 DEF Victim
  <2> DEFINE v == Victim(t, W)
  <2>3. v \in W /\ v \in 0..(n - 1) /\ t[v].ts < t[0].ts
    BY <2>2, Zenon DEF Older
  <2>4. ASSUME NEW j \in W
        PROVE  t[v].ts <= t[j].ts
    <3>0. t[j].ts \in Nat /\ t[v].ts \in Nat /\ t[0].ts \in Nat
      BY <2>3
    <3>1. CASE j \in S
      BY <2>2, <3>0, <3>1 DEF Oldest
    <3>2. CASE j \notin S
      BY <2>3, <3>0, <3>2 DEF Older
    <3>3. QED
      BY <3>1, <3>2
  <2>5. QED
    BY <2>3, <2>4
<1>4. QED
  BY <1>2, <1>3

-----------------------------------------------------------------------------
(* The main TLB. *)

\* Facts about a geometry: a table is not empty and the ways of a page are
\* slots of it.
LEMMA GeometryFacts ==
  ASSUME NEW c \in Configs
  PROVE  /\ c[1] \in Nat \ {0}
         /\ \A p : WaysIn(c, p) \in SUBSET (0..(c[1] - 1))
BY ConfigAssumption DEF WaysIn, Ways

\* A time stamp fits its field.
LEMMA StampType ==
  ASSUME NEW n \in Nat
  PROVE  Stamp(n) \in 0..(TsMod - 1)
BY TsModAssumption DEF Stamp

\* Flushing, touching and refilling keep a table a table.
LEMMA FlushedType ==
  ASSUME NEW n \in Nat
  PROVE  FLUSH_TLB(n) \in [0..(n - 1) -> Entry]
BY TsModAssumption DEF FLUSH_TLB, FlushedEntry, Entry

\* Touching a slot keeps a table a table.
LEMMA TouchType ==
  ASSUME NEW n \in Nat, NEW t \in [0..(n - 1) -> Entry], NEW i, NEW now \in Nat
  PROVE  Touch(t, i, now) \in [0..(n - 1) -> Entry]
BY StampType, Zenon DEF Touch, Entry

\* Refilling a slot keeps a table a table.
LEMMA RefillType ==
  ASSUME NEW n \in Nat, NEW t \in [0..(n - 1) -> Entry], NEW i, NEW now \in Nat,
         NEW page \in Page, NEW asid \in Asid
  PROVE  Refill(t, i, page, asid, now) \in [0..(n - 1) -> Entry]
BY StampType, Zenon DEF Refill, Entry

\* The time stamps of a table are naturals.
LEMMA TsNat ==
  ASSUME NEW n \in Nat, NEW t \in [0..(n - 1) -> Entry]
  PROVE  \A i \in 0..(n - 1) : t[i].ts \in Nat
BY TsModAssumption DEF Entry

\* Touching a slot changes its time stamp only; refilling it changes no other.
LEMMA TouchEffect ==
  ASSUME NEW D, NEW t \in [D -> Entry], NEW slot \in D, NEW now \in Nat,
         NEW u, u = Touch(t, slot, now)
  PROVE  /\ \A i \in D : u[i].va = t[i].va /\ u[i].asid = t[i].asid
         /\ \A i \in D : i # slot => u[i] = t[i]
         /\ u[slot].ts = Stamp(now)
BY DEF Touch, Entry

\* Refilling a slot sets its key and time stamp and changes no other slot.
LEMMA RefillEffect ==
  ASSUME NEW D, NEW t \in [D -> Entry], NEW slot \in D, NEW now \in Nat,
         NEW page, NEW asid, NEW u, u = Refill(t, slot, page, asid, now)
  PROVE  /\ \A i \in D : i # slot => u[i] = t[i]
         /\ u[slot] = [va |-> page, asid |-> asid, ts |-> Stamp(now)]
BY DEF Refill

\* The victim of a miss in a well-typed table.
LEMMA VictimOfMiss ==
  ASSUME TypeOK, Ready, NEW page \in Page
  PROVE  LET mi == Victim(sl_tlb, WaysOf(page))
         IN  mi \in Slots /\ (mi # 0 => mi \in WaysOf(page))
<1>1. config \in Configs /\ sl_tlb \in [0..(config[1] - 1) -> Entry]
  BY DEF TypeOK, Ready, Slots, tlb_size
<1>2. config[1] \in Nat \ {0} /\ WaysOf(page) \in SUBSET (0..(config[1] - 1))
  BY <1>1, GeometryFacts DEF WaysOf
<1>3. \A i \in 0..(config[1] - 1) : sl_tlb[i].ts \in Nat
  BY <1>1, <1>2, TsNat
<1>4. QED
  BY <1>2, <1>3, VictimFacts DEF Slots, tlb_size

-----------------------------------------------------------------------------
(* Type correctness. *)

\* The statics of tlb_trace.c before the first tlbtrace_init have their types.
LEMMA TypeInit == Init => TypeOK
<1> SUFFICES ASSUME Init PROVE TypeOK
  OBVIOUS
<1>1. systs \in 0..MaxRefs /\ last_ins_idx \in Nat /\ streak \in Nat
  BY BoundAssumption DEF Init
<1>2. last \in [key : Key \cup {NoRef.key}, hit : BOOLEAN, slot : Nat \cup {Invalid}]
  BY DEF Init, NoRef
<1>3. halted \in BOOLEAN /\ sl_cnt \in [hit : Nat, miss : Nat]
  BY Zenon DEF Init
<1>4. QED
  BY <1>1, <1>2, <1>3 DEF Init, TypeOK

\* Every operation on the table keeps the types.
LEMMA TypeStep == TypeOK /\ [Next]_vars => TypeOK'
<1> SUFFICES ASSUME TypeOK, [Next]_vars PROVE TypeOK'
  OBVIOUS
<1> USE DEF Slots, tlb_size
<1>1. ASSUME NEW c \in Configs, tlbtrace_init(c) PROVE TypeOK'
  <2>1. c[1] \in Nat /\ sl_tlb' \in [0..(c[1] - 1) -> Entry]
    BY <1>1, GeometryFacts, GarbageAssumption DEF tlbtrace_init
  <2>2. QED
    BY <1>1, <2>1 DEF tlbtrace_init, TypeOK, Forget, NoRef
<1>2. CASE tlbtrace_start
  <2>1. config \in Configs /\ config[1] \in Nat
    BY <1>2, GeometryFacts DEF tlbtrace_start, TypeOK
  <2>2. FLUSH_TLB(config[1]) \in [0..(config[1] - 1) -> Entry]
    BY <2>1, FlushedType
  <2>3. 0 \in 0..MaxRefs
    BY BoundAssumption
  <2>4. QED
    BY <1>2, <2>1, <2>2, <2>3 DEF tlbtrace_start, TypeOK, Forget, NoRef
<1>3. CASE tlbtrace_destroy
  BY <1>3 DEF tlbtrace_destroy, TypeOK, Forget, NoRef
<1>4. ASSUME NEW page \in Page, NEW asid \in Asid, NEW ins \in BOOLEAN,
             tlbtrace_refmem_sl(page, asid, ins)
      PROVE  TypeOK'
  <2> DEFINE size == config[1]
  <2>1. Ready /\ systs \in Nat /\ systs + 1 \in 0..MaxRefs
    <3>1. Referable
      BY <1>4, Zenon DEF tlbtrace_refmem_sl, FastPath, SearchHit, Miss, Missed
    <3>2. QED
      BY <3>1, BoundAssumption DEF Referable, TypeOK
  <2>2. config \in Configs /\ size \in Nat \ {0} /\ sl_tlb \in [0..(size - 1) -> Entry]
    BY <2>1, GeometryFacts DEF TypeOK, Ready
  <2>3. <<page, asid>> \in Key
    BY DEF Key
  <2>4. ASSUME NEW slot \in Nat, Hit(page, asid, slot), last_ins_idx' \in Nat
        PROVE  TypeOK'
    <3>1. Touch(sl_tlb, slot, systs + 1) \in [0..(size - 1) -> Entry]
      BY <2>1, <2>2, TouchType
    <3>2. sl_tlb' \in [0..(size - 1) -> Entry] /\ systs' \in 0..MaxRefs
      BY <2>1, <2>4, <3>1 DEF Hit
    <3>3. sl_cnt' \in [hit : Nat, miss : Nat]
      BY <2>4 DEF Hit, TypeOK
    <3>4. /\ last' \in [key : Key \cup {NoRef.key}, hit : BOOLEAN, slot : Nat \cup {Invalid}]
          /\ streak' \in Nat
      BY <2>3, <2>4 DEF Hit, Record
    <3>5. UNCHANGED <<config, table, halted, live>>
      BY <2>4, Zenon DEF Hit
    <3>6. QED
      BY <2>2, <2>4, <3>2, <3>3, <3>4, <3>5 DEF TypeOK
  <2>5. CASE FastPath(page, asid, ins)
    BY <2>4, <2>5 DEF FastPath, TypeOK
  <2>6. CASE SearchHit(page, asid, ins)
    <3> DEFINE M == Matches(sl_tlb, WaysOf(page), page, asid)
    <3>1. M \in SUBSET (0..(size - 1))
      BY <2>2, GeometryFacts DEF Matches, WaysOf
    <3>2. First(M) \in Nat
      <4>1. M \in SUBSET Nat /\ M # {}
        BY <2>6, <3>1 DEF SearchHit
      <4>2. First(M) \in M
        BY <4>1, FirstIsMember
      <4>3. QED
        BY <4>1, <4>2
    <3>3. QED
      BY <2>4, <2>6, <3>2 DEF SearchHit, TypeOK
  <2>7. CASE Miss(page, asid, ins)
    <3> DEFINE mi == Victim(sl_tlb, WaysOf(page))
    <3>1. mi \in Nat
      BY <2>1, VictimOfMiss, <2>2
    <3>2. Refill(sl_tlb, mi, page, asid, systs + 1) \in [0..(size - 1) -> Entry]
      BY <2>1, <2>2, RefillType
    <3> HIDE DEF mi
    <3>3. halted' \in BOOLEAN
      <4>1. halted' = (systs' >= StopAt)
        BY <2>7 DEF Miss
      <4>2. CASE systs' >= StopAt
        BY <4>1, <4>2
      <4>3. CASE ~(systs' >= StopAt)
        BY <4>1, <4>3
      <4>4. QED
        BY <4>2, <4>3
    <3>4. /\ UNCHANGED <<config, table>> /\ last_ins_idx' \in Nat
          /\ systs' = systs + 1 /\ sl_cnt' \in [hit : Nat, miss : Nat]
          /\ sl_tlb' = Refill(sl_tlb, mi, page, asid, systs + 1)
          /\ live' \subseteq Key
      BY <2>3, <2>7, <3>1 DEF Miss, TypeOK, mi
    <3>5. /\ last' \in [key : Key \cup {NoRef.key}, hit : BOOLEAN, slot : Nat \cup {Invalid}]
          /\ streak' \in Nat
      BY <2>3, <2>7, <3>1 DEF Miss, Record, TypeOK, mi
    <3>6. QED
      BY <2>1, <2>2, <3>2, <3>3, <3>4, <3>5 DEF TypeOK, Ready
  <2>8. QED
    BY <1>4, <2>5, <2>6, <2>7 DEF tlbtrace_refmem_sl
<1>5. ASSUME NEW S, FlushSlots(S), live' \subseteq live PROVE TypeOK'
  <2>1. FlushedEntry \in Entry
    BY TsModAssumption DEF FlushedEntry, Entry
  <2>2. QED
    BY <1>5, <2>1 DEF FlushSlots, TypeOK, Ready, Forget, NoRef
<1>6. CASE tlbtrace_flush_all
  BY <1>5, <1>6 DEF tlbtrace_flush_all
<1>7. ASSUME NEW page \in Page, NEW asid \in Asid, tlbtrace_flush_entry(page, asid)
      PROVE  TypeOK'
  BY <1>5, <1>7 DEF tlbtrace_flush_entry
<1>8. ASSUME NEW asid \in Asid, tlbtrace_flush_asid(asid) PROVE TypeOK'
  BY <1>5, <1>8 DEF tlbtrace_flush_asid
<1>9. CASE UNCHANGED vars
  BY <1>9 DEF vars, TypeOK
<1>10. QED
  BY <1>1, <1>2, <1>3, <1>4, <1>6, <1>7, <1>8, <1>9 DEF Next

\* The main TLB never leaves its types: time stamps fit 32 bits, the table has
\* tlb_size entries, and references stay within the bound.
THEOREM TypeCorrect == Spec => []TypeOK
BY TypeInit, TypeStep, PTL DEF Spec

-----------------------------------------------------------------------------
(* Placement, uniqueness, freshness of hits and the counters. *)

\* What a reference does to the table, whichever path it takes: it keeps the
\* geometry, and it either touches a slot that holds its key or, when no slot
\* of its set does, refills a slot that is slot 0 or in its set.
LEMMA ReferenceStep ==
  ASSUME TypeOK, LastInsInBounds,
         NEW page \in Page, NEW asid \in Asid, NEW ins \in BOOLEAN,
         tlbtrace_refmem_sl(page, asid, ins)
  PROVE  /\ Ready /\ Ready' /\ config' = config /\ config \in Configs
         /\ config[1] \in Nat \ {0} /\ sl_tlb \in [0..(config[1] - 1) -> Entry]
         /\ systs \in Nat /\ systs < MaxRefs /\ systs' = systs + 1
         /\ \E slot \in 0..(config[1] - 1) :
               /\ last_ins_idx' \in {last_ins_idx, slot}
               /\ \/ /\ Holds(sl_tlb, slot, page, asid)
                     /\ Hit(page, asid, slot)
                  \/ /\ Matches(sl_tlb, WaysIn(config, page), page, asid) = {}
                     /\ slot = Victim(sl_tlb, WaysIn(config, page))
                     /\ slot # 0 => slot \in WaysIn(config, page)
                     /\ sl_tlb' = Refill(sl_tlb, slot, page, asid, systs + 1)
                     /\ sl_cnt' = [sl_cnt EXCEPT !.miss = @ + 1]
                     /\ live' = live \cup {<<page, asid>>}
                     /\ Record(page, asid, FALSE, slot)
<1>1. Referable
  BY Zenon DEF tlbtrace_refmem_sl, FastPath, SearchHit, Miss, Missed
<1>2. Ready /\ systs \in Nat /\ systs < MaxRefs
  BY <1>1 DEF Referable, TypeOK
<1>3. config \in Configs /\ sl_tlb \in [0..(config[1] - 1) -> Entry]
  BY <1>2 DEF TypeOK, Ready, Slots, tlb_size
<1>4. config[1] \in Nat \ {0} /\ WaysIn(config, page) \in SUBSET (0..(config[1] - 1))
  BY <1>3, GeometryFacts
<1>5. config' = config /\ table' = table /\ systs' = systs + 1
  BY Zenon DEF tlbtrace_refmem_sl, FastPath, SearchHit, Hit, Miss
<1>6. Ready'
  BY <1>2, <1>5 DEF Ready
<1>7. CASE FastPath(page, asid, ins)
  <2>1. last_ins_idx \in 0..(config[1] - 1)
    BY <1>3 DEF LastInsInBounds
  <2>2. Holds(sl_tlb, last_ins_idx, page, asid)
    BY <1>7, <2>1, Zenon DEF FastPath, FastMatch, Slots, tlb_size
  <2>3. Hit(page, asid, last_ins_idx) /\ last_ins_idx' = last_ins_idx
    BY <1>7 DEF FastPath
  <2>4. QED
    BY <1>2, <1>3, <1>4, <1>5, <1>6, <2>1, <2>2, <2>3, Zenon
<1>8. CASE SearchHit(page, asid, ins)
  <2> DEFINE M == Matches(sl_tlb, WaysIn(config, page), page, asid)
  <2>1. M # {} /\ Hit(page, asid, First(M)) /\ last_ins_idx' \in {last_ins_idx, First(M)}
    BY <1>8 DEF SearchHit, WaysOf
  <2>2. M \in SUBSET Nat
    BY <1>4 DEF Matches
  <2>3. First(M) \in M
    BY <2>1, <2>2, FirstIsMember
  <2>4. First(M) \in 0..(config[1] - 1) /\ Holds(sl_tlb, First(M), page, asid)
    BY <1>4, <2>3 DEF Matches
  <2> HIDE DEF M
  <2>5. QED
    BY <1>2, <1>3, <1>4, <1>5, <1>6, <2>1, <2>4, Zenon
<1>9. CASE Miss(page, asid, ins)
  <2> DEFINE mi == Victim(sl_tlb, WaysIn(config, page))
  <2>1. mi \in 0..(config[1] - 1) /\ (mi # 0 => mi \in WaysIn(config, page))
    BY <1>2, VictimOfMiss DEF WaysOf, Slots, tlb_size
  <2>2. /\ Matches(sl_tlb, WaysIn(config, page), page, asid) = {}
        /\ last_ins_idx' \in {last_ins_idx, mi}
        /\ sl_tlb' = Refill(sl_tlb, mi, page, asid, systs + 1)
        /\ sl_cnt' = [sl_cnt EXCEPT !.miss = @ + 1]
        /\ live' = live \cup {<<page, asid>>}
        /\ Record(page, asid, FALSE, mi)
    BY <1>5, <1>9, Zenon DEF Miss, Missed, WaysOf
  <2>3. \E slot \in 0..(config[1] - 1) :
            /\ last_ins_idx' \in {last_ins_idx, slot}
            /\ Matches(sl_tlb, WaysIn(config, page), page, asid) = {}
            /\ slot = Victim(sl_tlb, WaysIn(config, page))
            /\ slot # 0 => slot \in WaysIn(config, page)
            /\ sl_tlb' = Refill(sl_tlb, slot, page, asid, systs + 1)
            /\ sl_cnt' = [sl_cnt EXCEPT !.miss = @ + 1]
            /\ live' = live \cup {<<page, asid>>}
            /\ Record(page, asid, FALSE, slot)
    <3> USE <2>1
    <3> WITNESS mi \in 0..(config[1] - 1)
    <3> QED
      BY <2>2, Zenon
  <2>4. QED
    BY <1>2, <1>3, <1>4, <1>5, <1>6, <2>3, Zenon
<1>10. QED
  BY <1>7, <1>8, <1>9, Zenon DEF tlbtrace_refmem_sl

\* The invariants that speak of the table hold vacuously while it is not ready.
LEMMA NotReady ==
  ASSUME ~Ready', TypeOK', LastInsInBounds', ~last'.hit
  PROVE  SafetyInv'
BY DEF SafetyInv, Placement, NoDuplicate, ResidentIsLive, HitIsLive, CountersAddUp

\* The safety invariant holds of the statics before the first tlbtrace_init.
LEMMA SafetyInit == Init => SafetyInv
<1> SUFFICES ASSUME Init PROVE SafetyInv
  OBVIOUS
<1>1. TypeOK
  BY TypeInit
<1>2. ~Ready /\ ~last.hit
  BY DEF Init, Ready, NoRef
<1>3. LastInsInBounds
  BY GeometryFacts DEF Init, LastInsInBounds
<1>4. QED
  BY <1>1, <1>2, <1>3
     DEF SafetyInv, Placement, NoDuplicate, ResidentIsLive, HitIsLive, CountersAddUp

\* Every operation on the table keeps the safety invariant: a reference refills
\* slot 0 or a slot of its set, a flush only empties slots, a start empties all.
LEMMA SafetyStep ==
  ASSUME OneSize
  PROVE  SafetyInv /\ [Next]_vars => SafetyInv'
<1> SUFFICES ASSUME SafetyInv, [Next]_vars PROVE SafetyInv'
  OBVIOUS
<1>0. TypeOK /\ TypeOK' /\ LastInsInBounds
  BY TypeStep DEF SafetyInv
<1>1. ASSUME NEW c \in Configs, tlbtrace_init(c) PROVE SafetyInv'
  <2>1. ~Ready' /\ ~last'.hit /\ LastInsInBounds'
    BY <1>0, <1>1 DEF tlbtrace_init, Forget, NoRef, Ready, LastInsInBounds
  <2>2. QED
    BY <1>0, <2>1, NotReady
<1>2. CASE tlbtrace_start
  <2>1. /\ config' = config /\ config \in Configs
        /\ sl_tlb' = FLUSH_TLB(config[1])
        /\ ~last'.hit /\ LastInsInBounds'
        /\ systs' = 0 /\ sl_cnt' = [hit |-> 0, miss |-> 0]
    BY <1>0, <1>2 DEF tlbtrace_start, Forget, NoRef, LastInsInBounds, TypeOK, tlb_size
  <2>2. \A i \in 0..(config[1] - 1) : sl_tlb'[i].va = Invalid
    BY <2>1 DEF FLUSH_TLB, FlushedEntry
  <2>3. \A k \in Key : Matches(sl_tlb', WaysIn(config, k[1]), k[1], k[2]) = {}
    <3> SUFFICES ASSUME NEW k \in Key,
                        NEW i \in Matches(sl_tlb', WaysIn(config, k[1]), k[1], k[2])
                 PROVE  FALSE
      OBVIOUS
    <3>1. i \in 0..(config[1] - 1) /\ sl_tlb'[i].va = k[1]
      BY <2>1, GeometryFacts DEF Matches, Holds
    <3>2. k[1] \in Nat
      BY PageAssumption, Zenon DEF Key
    <3>3. QED
      BY <2>2, <3>1, <3>2 DEF Invalid
  <2>4. Placement' /\ ResidentIsLive'
    BY <2>1, <2>2 DEF Placement, ResidentIsLive, Slots, tlb_size
  <2>5. NoDuplicate'
    BY <2>1, <2>3 DEF NoDuplicate, WaysOf
  <2>6. HitIsLive' /\ CountersAddUp'
    BY <2>1 DEF HitIsLive, CountersAddUp
  <2>7. QED
    BY <1>0, <2>1, <2>4, <2>5, <2>6 DEF SafetyInv
<1>3. CASE tlbtrace_destroy
  <2>1. ~Ready' /\ ~last'.hit /\ LastInsInBounds'
    BY <1>0, <1>3 DEF tlbtrace_destroy, Forget, NoRef, Ready, LastInsInBounds
  <2>2. QED
    BY <1>0, <2>1, NotReady
<1>4. ASSUME NEW page \in Page, NEW asid \in Asid, NEW ins \in BOOLEAN,
             tlbtrace_refmem_sl(page, asid, ins)
      PROVE  SafetyInv'
  <2> DEFINE dom == 0..(config[1] - 1)
  <2>1. /\ Ready /\ config' = config /\ config \in Configs
        /\ sl_tlb \in [dom -> Entry]
        /\ systs \in Nat /\ systs' = systs + 1
    BY <1>0, <1>4, ReferenceStep, Zenon
  <2>2. PICK slot \in dom :
               /\ last_ins_idx' \in {last_ins_idx, slot}
               /\ \/ /\ Holds(sl_tlb, slot, page, asid)
                     /\ Hit(page, asid, slot)
                  \/ /\ Matches(sl_tlb, WaysIn(config, page), page, asid) = {}
                     /\ slot # 0 => slot \in WaysIn(config, page)
                     /\ sl_tlb' = Refill(sl_tlb, slot, page, asid, systs + 1)
                     /\ sl_cnt' = [sl_cnt EXCEPT !.miss = @ + 1]
                     /\ live' = live \cup {<<page, asid>>}
                     /\ Record(page, asid, FALSE, slot)
    BY <1>0, <1>4, ReferenceStep, Zenon
  <2>3. page # Invalid
    BY PageAssumption DEF Invalid
  <2>4. /\ \A i \in dom : i # slot => sl_tlb'[i] = sl_tlb[i]
        /\ Holds(sl_tlb', slot, page, asid)
    <3>0. slot \in dom
      BY <2>2
    <3> HIDE DEF dom
    <3>1. CASE Holds(sl_tlb, slot, page, asid) /\ Hit(page, asid, slot)
      <4>1. sl_tlb' = Touch(sl_tlb, slot, systs + 1) /\ systs + 1 \in Nat
        BY <2>1, <3>1 DEF Hit
      <4>2. /\ \A i \in dom : i # slot => sl_tlb'[i] = sl_tlb[i]
            /\ sl_tlb'[slot].va = sl_tlb[slot].va /\ sl_tlb'[slot].asid = sl_tlb[slot].asid
        BY <2>1, <3>0, <4>1, TouchEffect
      <4>3. QED
        BY <3>1, <4>2 DEF Holds
    <3>2. CASE sl_tlb' = Refill(sl_tlb, slot, page, asid, systs + 1)
      <4>1. systs + 1 \in Nat
        BY <2>1
      <4>2. /\ \A i \in dom : i # slot => sl_tlb'[i] = sl_tlb[i]
            /\ sl_tlb'[slot] = [va |-> page, asid |-> asid, ts |-> Stamp(systs + 1)]
        BY <2>1, <3>0, <3>2, <4>1, RefillEffect
      <4>3. QED
        BY <4>2 DEF Holds
    <3>3. QED
      BY <2>2, <3>1, <3>2, Zenon
  <2>5. live \subseteq live' /\ <<page, asid>> \in live'
    BY <2>1, <2>2, <2>3, Zenon DEF SafetyInv, ResidentIsLive, Hit, Holds, Slots, tlb_size
  <2>6. slot # 0 => slot \in WaysIn(config, page)
    BY <2>1, <2>2, <2>3, Zenon DEF SafetyInv, Placement, Holds, Slots, tlb_size, WaysOf
  <2>7. LastInsInBounds'
    BY <1>0, <2>1, <2>2 DEF LastInsInBounds, OneSize
  <2>8. Placement'
    BY <2>1, <2>4, <2>6 DEF SafetyInv, Placement, Holds, Slots, tlb_size, WaysOf
  <2>9. ResidentIsLive'
    BY <2>1, <2>4, <2>5 DEF SafetyInv, ResidentIsLive, Holds, Slots, tlb_size
  <2>10. HitIsLive'
    BY <2>2, <2>5 DEF HitIsLive, Hit, Record
  <2>11. CountersAddUp'
    <3>1. sl_cnt \in [hit : Nat, miss : Nat] /\ sl_cnt.hit + sl_cnt.miss = systs
      BY <1>0, <2>1 DEF SafetyInv, CountersAddUp, TypeOK
    <3>2. sl_cnt' = [sl_cnt EXCEPT !.hit = @ + 1] \/ sl_cnt' = [sl_cnt EXCEPT !.miss = @ + 1]
      BY <2>2, Zenon DEF Hit
    <3>3. sl_cnt'.hit + sl_cnt'.miss = systs + 1
      BY <3>1, <3>2, <2>1
    <3>4. QED
      BY <2>1, <3>3 DEF CountersAddUp
  <2>12. NoDuplicate'
    <3> SUFFICES ASSUME NEW k \in Key,
                        NEW i \in Matches(sl_tlb', WaysIn(config, k[1]), k[1], k[2]),
                        NEW j \in Matches(sl_tlb', WaysIn(config, k[1]), k[1], k[2])
                 PROVE  i = j
      BY <2>1, Zenon DEF NoDuplicate, WaysOf
    <3>1. i \in dom /\ j \in dom
      BY <2>1, GeometryFacts DEF Matches
    <3>2. \A m, n \in Matches(sl_tlb, WaysIn(config, k[1]), k[1], k[2]) : m = n
      BY <2>1, Zenon DEF SafetyInv, NoDuplicate, WaysOf
    <3>3. CASE Holds(sl_tlb, slot, page, asid)
      <4>1. \A va, as : \A n \in dom : Holds(sl_tlb', n, va, as) <=> Holds(sl_tlb, n, va, as)
        BY <2>4, <3>3, Zenon DEF Holds
      <4>2. QED
        BY <3>1, <3>2, <4>1 DEF Matches
    <3>4. CASE Matches(sl_tlb, WaysIn(config, page), page, asid) = {}
      <4>1. CASE k = <<page, asid>>
        <5>1. \A n \in WaysIn(config, page) : ~Holds(sl_tlb, n, page, asid)
          BY <3>4 DEF Matches
        <5>2. i = slot /\ j = slot
          BY <2>4, <3>1, <4>1, <5>1 DEF Matches, Holds
        <5>3. QED
          BY <5>2
      <4>2. CASE k # <<page, asid>>
        <5>1. i # slot /\ j # slot
          BY <2>4, <4>2 DEF Matches, Holds, Key
        <5>2. QED
          BY <2>4, <3>1, <3>2, <5>1 DEF Matches, Holds
      <4>3. QED
        BY <4>1, <4>2
    <3>5. QED
      BY <2>2, <3>3, <3>4, Zenon
  <2>13. QED
    BY <1>0, <2>7, <2>8, <2>9, <2>10, <2>11, <2>12 DEF SafetyInv
<1>5. ASSUME NEW S \in SUBSET Slots, FlushSlots(S),
             \A i \in Slots \ S : <<sl_tlb[i].va, sl_tlb[i].asid>> \in live
                                     => <<sl_tlb[i].va, sl_tlb[i].asid>> \in live'
      PROVE  SafetyInv'
  <2> DEFINE dom == 0..(config[1] - 1)
  <2>1. /\ Ready /\ config' = config /\ config \in Configs
        /\ ~last'.hit /\ last_ins_idx' = last_ins_idx
        /\ systs' = systs /\ sl_cnt' = sl_cnt
        /\ sl_tlb' = [i \in dom |-> IF i \in S THEN FlushedEntry ELSE sl_tlb[i]]
    BY <1>0, <1>5 DEF FlushSlots, Forget, NoRef, Slots, tlb_size, TypeOK, Ready
  <2>2. \A i \in dom : sl_tlb'[i].va # Invalid => sl_tlb'[i] = sl_tlb[i] /\ i \notin S
    BY <2>1 DEF FlushedEntry
  <2>3. LastInsInBounds' /\ HitIsLive' /\ CountersAddUp'
    BY <1>0, <2>1 DEF LastInsInBounds, HitIsLive, CountersAddUp, SafetyInv
  <2>4. Placement'
    BY <2>1, <2>2 DEF SafetyInv, Placement, Slots, tlb_size, WaysOf
  <2>5. ResidentIsLive'
    BY <1>5, <2>1, <2>2 DEF SafetyInv, ResidentIsLive, Slots, tlb_size
  <2>6. NoDuplicate'
    <3> SUFFICES ASSUME NEW k \in Key,
                        NEW i \in Matches(sl_tlb', WaysIn(config, k[1]), k[1], k[2]),
                        NEW j \in Matches(sl_tlb', WaysIn(config, k[1]), k[1], k[2])
                 PROVE  i = j
      BY <2>1, Zenon DEF NoDuplicate, WaysOf
    <3>1. i \in dom /\ j \in dom /\ k[1] # Invalid
      BY <2>1, GeometryFacts, PageAssumption DEF Matches, Key, Invalid
    <3>2. \A m, n \in Matches(sl_tlb, WaysIn(config, k[1]), k[1], k[2]) : m = n
      BY <2>1, Zenon DEF SafetyInv, NoDuplicate, WaysOf
    <3>3. QED
      BY <2>2, <3>1, <3>2 DEF Matches, Holds
  <2>7. QED
    BY <1>0, <2>3, <2>4, <2>5, <2>6 DEF SafetyInv
<1>6. CASE tlbtrace_flush_all
  BY <1>5, <1>6 DEF tlbtrace_flush_all
<1>7. ASSUME NEW page \in Page, NEW asid \in Asid, tlbtrace_flush_entry(page, asid)
      PROVE  SafetyInv'
  <2> DEFINE S == {i \in Slots : Holds(sl_tlb, i, page, asid)}
  <2>1. FlushSlots(S) /\ live' = live \ {<<page, asid>>}
    BY <1>7 DEF tlbtrace_flush_entry
  <2>2. \A i \in Slots \ S : <<sl_tlb[i].va, sl_tlb[i].asid>> # <<page, asid>>
    BY DEF Holds
  <2>3. QED
    BY <1>5, <2>1, <2>2
<1>8. ASSUME NEW asid \in Asid, tlbtrace_flush_asid(asid) PROVE SafetyInv'
  <2> DEFINE S == {i \in Slots : sl_tlb[i].asid = asid}
  <2>1. FlushSlots(S) /\ live' = {k \in live : k[2] # asid}
    BY <1>8 DEF tlbtrace_flush_asid
  <2>2. \A i \in Slots \ S : <<sl_tlb[i].va, sl_tlb[i].asid>>[2] # asid
    BY SMTT(30)
  <2>3. QED
    BY <1>5, <2>1, <2>2
<1>9. CASE UNCHANGED vars
  BY <1>0, <1>9 DEF vars, SafetyInv, LastInsInBounds, Placement, NoDuplicate,
     ResidentIsLive, HitIsLive, CountersAddUp, Ready, Slots, tlb_size, WaysOf
<1>10. QED
  BY <1>1, <1>2, <1>3, <1>4, <1>6, <1>7, <1>8, <1>9 DEF Next

\* The safety invariant holds throughout, for geometries of one size.
LEMMA SafetyInvariant ==
  ASSUME OneSize
  PROVE  Spec => []SafetyInv
BY SafetyInit, SafetyStep, PTL DEF Spec

-----------------------------------------------------------------------------
(* Recency, as long as no time stamp is truncated. *)

\* Every page has a slot to go to.
LEMMA WaysNonEmpty ==
  ASSUME NEW c \in Configs, NEW page \in Page
  PROVE  WaysIn(c, page) # {}
<1> DEFINE s == StepOf(c)
           x == SetIndex(page, s)
<1>1. s \in Nat \ {0} /\ s <= c[1] /\ c[1] \in Nat
  BY ConfigAssumption
<1>2. x \in 0..(s - 1)
  BY SetIndexAssumption
<1> HIDE DEF s, x
<1>3. x % s = x
  BY <1>1, <1>2
<1>4. x \in 0..(c[1] - 1)
  BY <1>1, <1>2
<1>5. x \in Ways(c[1], s, x)
  BY <1>3, <1>4 DEF Ways
<1>6. QED
  BY <1>5 DEF WaysIn, s, x

\* No slot is used and no reference remembered before the first tlbtrace_init.
LEMMA RecencyInit == Init => Recency
BY DEF Init, Recency, Ready, NoRef, Invalid

\* What forgets the last reference keeps recency if it only empties slots.
LEMMA RecencyForget ==
  ASSUME TypeOK', Forget,
         Ready' => /\ \A i \in Slots' : sl_tlb'[i].ts <= systs'
                   /\ \A i, j \in Slots' : sl_tlb'[i].ts = sl_tlb'[j].ts
                                               => i = j \/ sl_tlb'[i].ts = 0
  PROVE  Recency'
BY DEF Recency, Forget, NoRef, Invalid

\* Every operation on the table keeps the order of the time stamps, as long as
\* none is truncated.
LEMMA RecencyStep ==
  ASSUME OneSize, NoWrap
  PROVE  SafetyInv /\ Recency /\ [Next]_vars => Recency'
<1> SUFFICES ASSUME SafetyInv, Recency, [Next]_vars PROVE Recency'
  OBVIOUS
<1>0. TypeOK /\ TypeOK' /\ LastInsInBounds
  BY TypeStep DEF SafetyInv
<1>1. ASSUME NEW c \in Configs, tlbtrace_init(c) PROVE Recency'
  <2>1. ~Ready' /\ Forget
    BY <1>1 DEF tlbtrace_init, Ready
  <2>2. QED
    BY <1>0, <2>1, RecencyForget
<1>2. CASE tlbtrace_start
  <2>1. \A i \in Slots' : sl_tlb'[i].ts = 0
    BY <1>2 DEF tlbtrace_start, FLUSH_TLB, FlushedEntry, Slots, tlb_size
  <2>2. Forget /\ systs' = 0
    BY <1>2 DEF tlbtrace_start
  <2>3. QED
    BY <1>0, <2>1, <2>2, RecencyForget
<1>3. CASE tlbtrace_destroy
  <2>1. ~Ready' /\ Forget
    BY <1>3 DEF tlbtrace_destroy, Ready
  <2>2. QED
    BY <1>0, <2>1, RecencyForget
<1>4. ASSUME NEW page \in Page, NEW asid \in Asid, NEW ins \in BOOLEAN,
             tlbtrace_refmem_sl(page, asid, ins)
      PROVE  Recency'
  <2> DEFINE dom == 0..(config[1] - 1)
             W   == WaysIn(config, page)
             Missing(slot) ==
                     /\ Matches(sl_tlb, WaysIn(config, page), page, asid) = {}
                     /\ slot = Victim(sl_tlb, WaysIn(config, page))
                     /\ slot # 0 => slot \in WaysIn(config, page)
                     /\ sl_tlb' = Refill(sl_tlb, slot, page, asid, systs + 1)
                     /\ sl_cnt' = [sl_cnt EXCEPT !.miss = @ + 1]
                     /\ live' = live \cup {<<page, asid>>}
                     /\ Record(page, asid, FALSE, slot)
  <2>1. /\ Ready /\ Ready' /\ config' = config /\ config \in Configs
        /\ config[1] \in Nat \ {0} /\ sl_tlb \in [dom -> Entry]
        /\ systs \in Nat /\ systs < MaxRefs /\ systs' = systs + 1
    BY <1>0, <1>4, ReferenceStep, Zenon
  <2>2. PICK slot \in dom :
          (Holds(sl_tlb, slot, page, asid) /\ Hit(page, asid, slot)) \/ Missing(slot)
    BY <1>0, <1>4, ReferenceStep, Zenon
  <2>3. Stamp(systs + 1) = systs + 1 /\ systs + 1 \in Nat
    BY <2>1, BoundAssumption, TsModAssumption DEF NoWrap, Stamp
  <2>4. slot \in dom
    BY <2>2
  <2>5. W \in SUBSET dom /\ W # {}
    BY <2>1, GeometryFacts, WaysNonEmpty
  <2>6. \A i \in dom : sl_tlb[i].ts \in Nat /\ sl_tlb[i].ts <= systs
    BY <2>1, TsNat, Zenon DEF Recency, Slots, tlb_size
  <2>7. \A i, j \in dom : sl_tlb[i].ts = sl_tlb[j].ts => i = j \/ sl_tlb[i].ts = 0
    BY <2>1 DEF Recency, Slots, tlb_size
  <2> HIDE DEF dom, W
  <2>8. /\ \A i \in dom : i # slot => sl_tlb'[i] = sl_tlb[i]
        /\ Holds(sl_tlb', slot, page, asid)
        /\ sl_tlb'[slot].ts = systs + 1
    <3>1. CASE Holds(sl_tlb, slot, page, asid) /\ Hit(page, asid, slot)
      <4>1. sl_tlb' = Touch(sl_tlb, slot, systs + 1)
        BY <2>1, <3>1 DEF Hit
      <4>2. /\ \A i \in dom : i # slot => sl_tlb'[i] = sl_tlb[i]
            /\ sl_tlb'[slot].va = sl_tlb[slot].va /\ sl_tlb'[slot].asid = sl_tlb[slot].asid
            /\ sl_tlb'[slot].ts = Stamp(systs + 1)
        BY <2>1, <2>3, <2>4, <4>1, TouchEffect
      <4>3. QED
        BY <2>3, <3>1, <4>2 DEF Holds
    <3>2. CASE Missing(slot)
      <4>1. /\ \A i \in dom : i # slot => sl_tlb'[i] = sl_tlb[i]
            /\ sl_tlb'[slot] = [va |-> page, asid |-> asid, ts |-> Stamp(systs + 1)]
        BY <2>1, <2>3, <2>4, <3>2, RefillEffect
      <4>2. QED
        BY <2>3, <4>1 DEF Holds
    <3>3. QED
      BY <2>2, <3>1, <3>2, ZenonT(30)
  <2>9. /\ \A i \in dom : sl_tlb'[i].ts <= systs'
        /\ \A i, j \in dom : sl_tlb'[i].ts = sl_tlb'[j].ts => i = j \/ sl_tlb'[i].ts = 0
    <3>1. \A i \in dom : i # slot => sl_tlb'[i].ts <= systs /\ sl_tlb'[i].ts \in Nat
      BY <2>6, <2>8
    <3>2. \A i \in dom : sl_tlb'[i].ts <= systs'
      BY <2>1, <2>8, <3>1
    <3>3. \A i \in dom : i # slot => sl_tlb'[i].ts # sl_tlb'[slot].ts
      BY <2>1, <2>8, <3>1
    <3>4. QED
      BY <2>7, <2>8, <3>2, <3>3
  <2>10. last'.key = <<page, asid>> /\ last'.slot = slot /\ last'.slot # Invalid
    BY <2>2, <2>4 DEF Hit, Record, Invalid, dom
  <2>11. /\ streak' > 1 => slot \in W
         /\ streak' <= 2
    <3>1. CASE Hit(page, asid, slot)
      BY <3>1 DEF Hit, Record
    <3>2. CASE Missing(slot) /\ last.key # <<page, asid>>
      BY <3>2 DEF Record
    <3>3. CASE Missing(slot) /\ last.key = <<page, asid>>
      <4>1. streak' = streak + 1 /\ streak \in Nat
        BY <1>0, <3>3 DEF Record, TypeOK
      <4>2. CASE streak = 0
        BY <4>1, <4>2
      <4>3. CASE streak > 0
        <5>1. /\ last.slot \in dom /\ Holds(sl_tlb, last.slot, page, asid)
              /\ sl_tlb[last.slot].ts = systs /\ systs > 0
          BY <3>3, <4>3 DEF Recency, Slots, tlb_size, dom
        <5>2. last.slot \notin W
          BY <3>3, <5>1 DEF Matches, W
        <5>3. streak = 1
          BY <2>1, <3>3, <4>1, <4>3, <5>2 DEF Recency, WaysOf, W
        <5>4. \A j \in W : sl_tlb[j].ts < systs
          BY <2>1, <2>5, <2>6, <2>7, <5>1, <5>2
        <5>5. slot = Victim(sl_tlb, W) /\ (slot # 0 => slot \in W)
          BY <3>3 DEF W
        <5>6. \A j \in W : sl_tlb[slot].ts <= sl_tlb[j].ts
          BY <2>1, <2>5, <2>6, <5>5, VictimFacts, Zenon DEF dom
        <5>7. slot # last.slot
          BY <2>1, <2>4, <2>5, <2>6, <5>1, <5>4, <5>6
        <5>8. last.slot = 0
          <6>1. page # Invalid
            BY PageAssumption DEF Invalid
          <6>2. QED
            BY <2>1, <5>1, <5>2, <6>1
               DEF SafetyInv, Placement, Holds, Slots, tlb_size, WaysOf, W, dom
        <5>9. QED
          BY <4>1, <5>3, <5>5, <5>7, <5>8
      <4>4. QED
        BY <4>1, <4>2, <4>3
    <3>4. QED
      BY <2>2, <3>1, <3>2, <3>3, Zenon
  <2>12. QED
    BY <2>1, <2>4, <2>8, <2>9, <2>10, <2>11 DEF Recency, Slots, tlb_size, WaysOf, dom, W, Key
<1>5. ASSUME NEW S, FlushSlots(S) PROVE Recency'
  <2>1. /\ Ready /\ Slots' = Slots /\ systs' = systs /\ Forget
        /\ sl_tlb' = [i \in Slots |-> IF i \in S THEN FlushedEntry ELSE sl_tlb[i]]
    BY <1>5 DEF FlushSlots, Slots, tlb_size
  <2>2. \A i \in Slots : sl_tlb'[i].ts = 0 \/ sl_tlb'[i] = sl_tlb[i]
    BY <2>1 DEF FlushedEntry
  <2>3. systs >= 0
    BY <1>0 DEF TypeOK
  <2>4. /\ \A i \in Slots : sl_tlb'[i].ts <= systs
        /\ \A i, j \in Slots : sl_tlb'[i].ts = sl_tlb'[j].ts => i = j \/ sl_tlb'[i].ts = 0
    BY <2>1, <2>2, <2>3 DEF Recency
  <2>5. QED
    BY <1>0, <2>1, <2>4, RecencyForget
<1>6. CASE tlbtrace_flush_all
  BY <1>5, <1>6 DEF tlbtrace_flush_all
<1>7. ASSUME NEW page \in Page, NEW asid \in Asid, tlbtrace_flush_entry(page, asid)
      PROVE  Recency'
  BY <1>5, <1>7 DEF tlbtrace_flush_entry
<1>8. ASSUME NEW asid \in Asid, tlbtrace_flush_asid(asid) PROVE Recency'
  BY <1>5, <1>8, SMTT(30) DEF tlbtrace_flush_asid
<1>9. CASE UNCHANGED vars
  BY <1>9 DEF vars, Recency, Ready, Slots, tlb_size, WaysOf
<1>10. QED
  BY <1>1, <1>2, <1>3, <1>4, <1>6, <1>7, <1>8, <1>9 DEF Next

\* The order of the time stamps holds throughout.
LEMMA RecencyInvariant ==
  ASSUME OneSize, NoWrap
  PROVE  Spec => [](SafetyInv /\ Recency)
BY SafetyInit, SafetyStep, RecencyInit, RecencyStep, PTL DEF Spec

\* A miss that refills the slot of the last reference had no other slot.
LEMMA MRUStep ==
  ASSUME OneSize, NoWrap, SafetyInv, Recency, [Next]_vars,
         systs' = systs + 1, ~last'.hit, last'.slot = last.slot
  PROVE  last.slot = 0 /\ WaysOf(last'.key[1]) = {0}
<1>0. TypeOK /\ LastInsInBounds /\ systs \in Nat
  BY DEF SafetyInv, TypeOK
<1>1. PICK page \in Page, asid \in Asid, ins \in BOOLEAN :
        tlbtrace_refmem_sl(page, asid, ins)
  <2>1. systs' # systs /\ systs' # 0
    BY <1>0
  <2>2. \A S : ~FlushSlots(S)
    BY <2>1 DEF FlushSlots
  <2>3. ~tlbtrace_flush_all /\ ~tlbtrace_start /\ ~tlbtrace_destroy
    BY <2>1, <2>2 DEF tlbtrace_flush_all, tlbtrace_start, tlbtrace_destroy
  <2>4. \A c \in Configs : ~tlbtrace_init(c)
    BY <2>1 DEF tlbtrace_init
  <2>5. \A page \in Page, asid \in Asid : ~tlbtrace_flush_entry(page, asid)
    BY <2>2 DEF tlbtrace_flush_entry
  <2>6. \A asid \in Asid : ~tlbtrace_flush_asid(asid)
    BY <2>2 DEF tlbtrace_flush_asid
  <2>7. ~UNCHANGED vars
    BY <2>1 DEF vars
  <2>8. QED
    BY <2>3, <2>4, <2>5, <2>6, <2>7 DEF Next
<1> DEFINE dom == 0..(config[1] - 1)
           W   == WaysIn(config, page)
<1>2. /\ Ready /\ config \in Configs
      /\ config[1] \in Nat \ {0} /\ sl_tlb \in [dom -> Entry]
  BY <1>0, <1>1, ReferenceStep, Zenon
<1>3. PICK slot \in dom :
        /\ slot = Victim(sl_tlb, WaysIn(config, page))
        /\ Record(page, asid, FALSE, slot)
  <2>1. \A slot \in dom : ~Hit(page, asid, slot)
    BY DEF Hit, Record
  <2>2. QED
    BY <1>0, <1>1, <2>1, ReferenceStep, ZenonT(30)
<1>4. slot \in dom /\ last.slot = slot /\ last'.key[1] = page /\ slot # Invalid
  BY <1>3 DEF Record, Invalid
<1>5. W \in SUBSET dom /\ W # {}
  BY <1>2, GeometryFacts, WaysNonEmpty
<1>6. \A i \in dom : sl_tlb[i].ts \in Nat /\ sl_tlb[i].ts <= systs
  BY <1>2, TsNat, Zenon DEF Recency, Slots, tlb_size
<1>7. \A i, j \in dom : sl_tlb[i].ts = sl_tlb[j].ts => i = j \/ sl_tlb[i].ts = 0
  BY <1>2 DEF Recency, Slots, tlb_size
<1>8. sl_tlb[slot].ts = systs /\ systs > 0
  BY <1>4 DEF Recency
<1>9. /\ slot # 0 => sl_tlb[slot].ts < sl_tlb[0].ts
      /\ \A j \in W : sl_tlb[slot].ts <= sl_tlb[j].ts
  BY <1>2, <1>3, <1>5, <1>6, VictimFacts, ZenonT(30)
<1> HIDE DEF dom, W
<1>10. \A j \in W : j = slot
  BY <1>0, <1>4, <1>5, <1>6, <1>7, <1>8, <1>9
<1>11. slot = 0
  <2>1. 0 \in dom
    BY <1>2 DEF dom
  <2>2. QED
    BY <1>0, <1>6, <1>8, <1>9, <2>1
<1>12. QED
  BY <1>4, <1>5, <1>10, <1>11 DEF WaysOf, W

-----------------------------------------------------------------------------
(* The theorems. *)

\* No refill puts a page into a slot of another set, except into slot 0, for
\* every geometry of one size.
THEOREM PlacementHolds == ASSUME OneSize PROVE Spec => []Placement
BY SafetyInvariant, PTL DEF SafetyInv

\* No set ever holds the same translation twice.
THEOREM NoDuplicateHolds == ASSUME OneSize PROVE Spec => []NoDuplicate
BY SafetyInvariant, PTL DEF SafetyInv

\* A hit is never on a translation that a flush has covered since it was
\* recorded, whatever the interleaving of references, flushes and restarts.
THEOREM HitIsLiveHolds == ASSUME OneSize PROVE Spec => []HitIsLive
BY SafetyInvariant, PTL DEF SafetyInv

\* Every reference is counted once.
THEOREM CountersAddUpHolds == ASSUME OneSize PROVE Spec => []CountersAddUp
BY SafetyInvariant, PTL DEF SafetyInv

\* A repeated reference misses at most twice in a row, for every geometry of
\* one size and as long as no time stamp is truncated.
THEOREM ThirdTimeHitsHolds == ASSUME OneSize, NoWrap PROVE Spec => []ThirdTimeHits
<1>1. SafetyInv /\ Recency => ThirdTimeHits
  BY DEF Recency, ThirdTimeHits
<1>2. QED
  BY <1>1, RecencyInvariant, PTL

\* The slot of the last reference is never the victim of the next miss unless
\* that miss has no other slot.
THEOREM MRUSurvivesHolds == ASSUME OneSize, NoWrap PROVE Spec => MRUSurvives
<1> DEFINE A == (systs' = systs + 1 /\ ~last'.hit /\ last'.slot = last.slot)
                  => (last.slot = 0 /\ WaysOf(last'.key[1]) = {0})
<1>1. SafetyInv /\ Recency /\ [Next]_vars => [A]_vars
  BY MRUStep
<1>2. QED
  BY <1>1, RecencyInvariant, PTL DEF Spec, MRUSurvives

-----------------------------------------------------------------------------
(* Sequences. *)

\* The length of a sequence.
LEMMA LenProperties ==
  ASSUME NEW S, NEW s \in Seq(S)
  PROVE  Len(s) \in Nat /\ DOMAIN s = 1..Len(s)
OBVIOUS

\* The empty sequence.
LEMMA EmptySeq ==
  ASSUME NEW S
  PROVE  /\ <<>> \in Seq(S) /\ Len(<<>>) = 0
         /\ \A s \in Seq(S) : s # <<>> => Len(s) \in Nat \ {0}
OBVIOUS

\* A sequence is known by its elements.
LEMMA SeqEqual ==
  ASSUME NEW S, NEW s \in Seq(S), NEW t \in Seq(S), Len(s) = Len(t),
         \A i \in 1..Len(s) : s[i] = t[i]
  PROVE  s = t
OBVIOUS

\* A prefix of a sequence.
LEMMA SubSeqProperties ==
  ASSUME NEW S, NEW s \in Seq(S), NEW n \in 0..Len(s)
  PROVE  SubSeq(s, 1, n) \in Seq(S) /\ Len(SubSeq(s, 1, n)) = n
OBVIOUS

\* Two sequences, one after the other.
LEMMA ConcatProperties ==
  ASSUME NEW S, NEW s \in Seq(S), NEW t \in Seq(S)
  PROVE  /\ s \o t \in Seq(S) /\ Len(s \o t) = Len(s) + Len(t)
         /\ \A i \in 1..(Len(s) + Len(t)) :
               (s \o t)[i] = IF i <= Len(s) THEN s[i] ELSE t[i - Len(s)]
OBVIOUS

LEMMA ConcatEmptySeq ==
  ASSUME NEW S, NEW s \in Seq(S)
  PROVE  s \o <<>> = s /\ <<>> \o s = s
OBVIOUS

LEMMA ConcatAssociative ==
  ASSUME NEW S, NEW s \in Seq(S), NEW t \in Seq(S), NEW u \in Seq(S)
  PROVE  (s \o t) \o u = s \o (t \o u)
<1> DEFINE a == s \o t
           b == t \o u
<1>1. /\ Len(s) \in Nat /\ Len(t) \in Nat /\ Len(u) \in Nat
      /\ a \in Seq(S) /\ Len(a) = Len(s) + Len(t)
      /\ b \in Seq(S) /\ Len(b) = Len(t) + Len(u)
  BY LenProperties, ConcatProperties
<1>2. /\ \A i \in 1..(Len(s) + Len(t)) : a[i] = IF i <= Len(s) THEN s[i] ELSE t[i - Len(s)]
      /\ \A i \in 1..(Len(t) + Len(u)) : b[i] = IF i <= Len(t) THEN t[i] ELSE u[i - Len(t)]
  BY ConcatProperties
<1> HIDE DEF a, b
<1>3. /\ a \o u \in Seq(S) /\ Len(a \o u) = Len(s) + Len(t) + Len(u)
      /\ s \o b \in Seq(S) /\ Len(s \o b) = Len(s) + Len(t) + Len(u)
  <2>1. a \o u \in Seq(S) /\ Len(a \o u) = Len(a) + Len(u)
    BY <1>1, ConcatProperties, Zenon
  <2>2. s \o b \in Seq(S) /\ Len(s \o b) = Len(s) + Len(b)
    BY <1>1, ConcatProperties, Zenon
  <2> QED
    BY <1>1, <2>1, <2>2
<1>4. ASSUME NEW i \in 1..(Len(s) + Len(t) + Len(u))
      PROVE  (a \o u)[i] = (s \o b)[i]
  <2>1. (a \o u)[i] = IF i <= Len(s) + Len(t) THEN a[i] ELSE u[i - (Len(s) + Len(t))]
    BY <1>1, ConcatProperties
  <2>2. (s \o b)[i] = IF i <= Len(s) THEN s[i] ELSE b[i - Len(s)]
    BY <1>1, ConcatProperties
  <2>3. CASE i <= Len(s)
    <3>1. (a \o u)[i] = a[i] /\ (s \o b)[i] = s[i] /\ a[i] = s[i]
      BY <1>1, <1>2, <2>1, <2>2, <2>3
    <3> QED
      BY <3>1
  <2>4. CASE i > Len(s) /\ i <= Len(s) + Len(t)
    <3>1. i - Len(s) \in 1..Len(t)
      BY <1>1, <2>4
    <3>2. /\ i \in 1..(Len(s) + Len(t)) /\ ~(i <= Len(s))
          /\ i - Len(s) \in 1..(Len(t) + Len(u)) /\ i - Len(s) <= Len(t)
      BY <1>1, <2>4
    <3>3. a[i] = t[i - Len(s)]
      BY <1>2, <3>2, Zenon
    <3>4. b[i - Len(s)] = t[i - Len(s)]
      BY <1>2, <3>2, Zenon
    <3> QED
      BY <2>1, <2>2, <2>4, <3>2, <3>3, <3>4
  <2>5. CASE i > Len(s) + Len(t)
    <3>1. /\ i - Len(s) \in 1..(Len(t) + Len(u)) /\ ~(i - Len(s) <= Len(t))
          /\ (i - Len(s)) - Len(t) = i - (Len(s) + Len(t))
      BY <1>1, <2>5
    <3>2. b[i - Len(s)] = u[(i - Len(s)) - Len(t)]
      BY <1>2, <3>1, Zenon
    <3>3. b[i - Len(s)] = u[i - (Len(s) + Len(t))]
      BY <3>1, <3>2, Zenon
    <3> QED
      BY <1>1, <2>1, <2>2, <2>5, <3>3
  <2> QED
    BY <1>1, <2>3, <2>4, <2>5
<1>5. a \o u = s \o b
  <2> DEFINE c == a \o u
             d == s \o b
  <2>1. /\ c \in Seq(S) /\ d \in Seq(S) /\ Len(c) = Len(d)
        /\ \A i \in 1..Len(c) : c[i] = d[i]
    BY <1>3, <1>4, Zenon
  <2> HIDE DEF c, d
  <2>2. c = d
    BY <2>1, SeqEqual, Zenon
  <2> QED
    BY <2>2 DEF c, d
<1> QED
  BY <1>5 DEF a, b

-----------------------------------------------------------------------------
(* The tracer. *)

\* What start, stop, toggle, init and destroy keep true of the session, for
\* either client.
ControlInv ==
    /\ HooksAreSafe
    /\ open => ~halted
    /\ client = "boot" => ~open /\ ~started /\ table = "null" /\ config = NoConfig
    /\ Emulator => /\ table = "null" => config = NoConfig
                   /\ open => started

\* The buffer holds whole tuples and is never full between two calls.
BufferInv == Len(fbuf) % 4 = 0 /\ Len(fbuf) < BufWords

\* The four things a step may do to the session's file, and what the main TLB
\* does with it.
Untouched ==
    /\ UNCHANGED bufvars
    /\ Ready' => Ready /\ sl_cnt'.miss = sl_cnt.miss

Opened ==
    /\ ~open
    /\ tlbtrace_start \/ (StartWithoutTable /\ config = NoConfig)
    /\ OpenTrace(NameOf(minute, config))

Closed == open /\ CloseTrace

Extended ==
    /\ open
    /\ Ready /\ Ready' /\ sl_cnt'.miss = sl_cnt.miss + 1
    /\ \E page \in Page : tlbtrace_refmem_pwc(page)

\* What every step does.
StepKind ==
    /\ [Next]_vars
    /\ client' \in {"boot", "emulator", "library"}
    /\ started' \in BOOLEAN /\ usermode' \in BOOLEAN
    /\ minute' \in Minutes /\ context' \in Asid
    /\ Untouched \/ Opened \/ Closed \/ Extended
    /\ ControlInv'

-----------------------------------------------------------------------------
(* The steps of the two clients. *)

\* A reference to an open session leaves the file alone, extends it by a tuple
\* or, at the limit, closes it.
LEMMA RefmemKind ==
  ASSUME TracerTypeOK, ControlInv, open, NEW page \in Page, NEW asid \in Asid,
         NEW ins \in BOOLEAN, tlbtrace_refmem(page, asid, ins),
         UNCHANGED <<client, minute, guest>>
  PROVE  StepKind
<1>1. /\ [Next]_vars /\ Ready /\ ~halted /\ table' = table /\ started' = started
      /\ client' = client /\ minute' = minute /\ usermode' = usermode
      /\ context' = context /\ config' = config
  BY Zenon DEF tlbtrace_refmem, Next, tlbtrace_refmem_sl, FastPath, SearchHit, Miss,
         Missed, Referable, Hit, guest
<1>2. ASSUME FastPath(page, asid, ins) \/ SearchHit(page, asid, ins),
             UNCHANGED bufvars
      PROVE  StepKind
  <2>1. sl_cnt'.miss = sl_cnt.miss /\ halted' = halted
    BY <1>2, ZenonT(30) DEF FastPath, SearchHit, Hit, TracerTypeOK, TypeOK
  <2> QED
    BY <1>1, <1>2, <2>1 DEF StepKind, Untouched, ControlInv, HooksAreSafe, Ready,
       bufvars, TracerTypeOK, Emulator, NoGeometry
<1>3. ASSUME Miss(page, asid, ins), halted', CloseTrace
      PROVE  StepKind
  BY <1>1, <1>3 DEF StepKind, Closed, CloseTrace, ControlInv, HooksAreSafe,
     Ready, TracerTypeOK, Emulator, NoGeometry
<1>4. ASSUME Miss(page, asid, ins), ~halted', tlbtrace_refmem_pwc(page)
      PROVE  StepKind
  <2>1. sl_cnt'.miss = sl_cnt.miss + 1
    BY <1>4 DEF Miss, TracerTypeOK, TypeOK
  <2>2. open' = open
    BY <1>4 DEF tlbtrace_refmem_pwc, Put
  <2> QED
    BY <1>1, <1>4, <2>1, <2>2, SMTT(30) DEF StepKind, Extended, ControlInv, HooksAreSafe,
       Ready, TracerTypeOK, Emulator, NoGeometry
<1> QED
  BY <1>2, <1>3, <1>4 DEF tlbtrace_refmem

\* Each call of either client is of one of the kinds.
LEMMA Kinds ==
  ASSUME TracerTypeOK, ControlInv, TracerNext
  PROVE  StepKind
<1> USE DEF Emulator, Library, guest, NoGeometry
<1>1. CASE EmulatorInit
  <2>1. ASSUME NEW c \in Configs, Initialize(c) PROVE StepKind
    <3>1. [Next]_vars
      BY <2>1 DEF Initialize, Next
    <3>2. table' = "raw" /\ halted' = halted /\ started' = FALSE /\ UNCHANGED bufvars
      BY <2>1 DEF Initialize, tlbtrace_init
    <3> QED
      BY <1>1, <3>1, <3>2, Zenon DEF EmulatorInit, StepKind, Untouched, ControlInv,
         HooksAreSafe, Ready, bufvars, TracerTypeOK
  <2>2. ASSUME started' = FALSE, UNCHANGED <<vars, bufvars>> PROVE StepKind
    BY <1>1, <2>2, Zenon DEF EmulatorInit, StepKind, Untouched, ControlInv,
       HooksAreSafe, Ready, vars, bufvars, TracerTypeOK
  <2> QED
    BY <1>1, <2>1, <2>2 DEF EmulatorInit
<1>2. CASE F10
  <2>1. CASE started
    BY <1>2, <2>1, Zenon DEF F10, tlbtrace_toggle, Stop, CloseTrace, StepKind, Closed,
       ControlInv, HooksAreSafe, Ready, vars, TracerTypeOK
  <2>2. CASE ~started /\ tlbtrace_start
    BY <1>2, <2>2, Zenon DEF F10, tlbtrace_toggle, Start, tlbtrace_start, OpenTrace,
       StepKind, Opened, Next, ControlInv, HooksAreSafe, Ready, TracerTypeOK
  <2>3. CASE ~started /\ StartWithoutTable
    BY <1>2, <2>3, Zenon DEF F10, tlbtrace_toggle, Start, StartWithoutTable, OpenTrace,
       StepKind, Opened, ControlInv, HooksAreSafe, Ready, vars, TracerTypeOK
  <2> QED
    BY <1>2, <2>1, <2>2, <2>3, Zenon DEF F10, tlbtrace_toggle, Start
<1>3. CASE GuestFlush
  <2>1. /\ [Next]_vars /\ table' = table /\ sl_cnt' = sl_cnt /\ halted' = halted
        /\ config' = config
    <3>1. CASE tlbtrace_flush_all
      BY <3>1, Zenon DEF Next, tlbtrace_flush_all, FlushSlots
    <3>2. CASE \E page \in Page, asid \in Asid : tlbtrace_flush_entry(page, asid)
      BY <3>2, Zenon DEF Next, tlbtrace_flush_entry, FlushSlots
    <3>3. CASE \E asid \in Asid : tlbtrace_flush_asid(asid)
      BY <3>3, Zenon DEF Next, tlbtrace_flush_asid, FlushSlots
    <3> QED
      BY <1>3, <3>1, <3>2, <3>3, Zenon DEF GuestFlush
  <2> QED
    BY <1>3, <2>1 DEF GuestFlush, StepKind, Untouched, ControlInv, HooksAreSafe,
       Ready, bufvars, TracerTypeOK
<1>4. CASE GuestSwitch
  BY <1>4, Zenon DEF GuestSwitch, StepKind, Untouched, ControlInv, HooksAreSafe, Ready,
     bufvars, vars, TracerTypeOK
<1>5. ASSUME NEW page \in Page, NEW ins \in BOOLEAN, tlbtrace_refmem_qemu(page, ins)
      PROVE  StepKind
  <2>1. context \in Asid /\ started /\ tlbtrace_refmem(page, context, ins)
        /\ UNCHANGED <<client, minute, guest>>
    BY <1>5 DEF tlbtrace_refmem_qemu, TracerTypeOK
  <2>2. ~halted
    BY <2>1, Zenon DEF tlbtrace_refmem, FastPath, SearchHit, Miss, Missed, Referable
  <2>3. open
    BY <2>1, <2>2 DEF ControlInv, HooksAreSafe
  <2> QED
    BY <2>1, <2>3, RefmemKind
<1>6. CASE LibraryInit
  <2>1. PICK c \in Configs : Initialize(c)
    BY <1>6 DEF LibraryInit
  <2>2. [Next]_vars
    BY <2>1 DEF Initialize, Next
  <2>3. table' = "raw" /\ halted' = halted /\ started' = FALSE /\ UNCHANGED bufvars
    BY <2>1 DEF Initialize, tlbtrace_init
  <2> QED
    BY <1>6, <2>2, <2>3, Zenon DEF LibraryInit, StepKind, Untouched, ControlInv,
       HooksAreSafe, Ready, bufvars, TracerTypeOK
<1>7. CASE LibraryDestroy
  BY <1>7, Zenon DEF LibraryDestroy, Destroy, tlbtrace_destroy, StepKind, Next, Untouched,
     ControlInv, HooksAreSafe, Ready, bufvars, TracerTypeOK
<1>8. CASE LibraryStart
  BY <1>8 DEF LibraryStart, Start, tlbtrace_start, StartWithoutTable, OpenTrace,
     StepKind, Opened, Next, ControlInv, HooksAreSafe, Ready, TracerTypeOK
<1>9. CASE LibraryStop
  BY <1>9 DEF LibraryStop, Stop, CloseTrace, StepKind, Closed, ControlInv,
     HooksAreSafe, Ready, vars, TracerTypeOK
<1>10. CASE LibraryToggle
  <2>1. CASE started
    BY <1>10, <2>1, Zenon DEF LibraryToggle, tlbtrace_toggle, Stop, CloseTrace, StepKind,
       Closed, ControlInv, HooksAreSafe, Ready, vars, TracerTypeOK
  <2>2. CASE ~started
    BY <1>10, <2>2, Zenon DEF LibraryToggle, tlbtrace_toggle, Start, tlbtrace_start,
       StartWithoutTable, OpenTrace, StepKind, Opened, Next, ControlInv, HooksAreSafe, Ready,
       TracerTypeOK
  <2> QED
    BY <2>1, <2>2
<1>11. CASE LibraryRefmem
  BY <1>11, RefmemKind DEF LibraryRefmem
<1>12. CASE Tick
  BY <1>12 DEF Tick, StepKind, Untouched, ControlInv, HooksAreSafe, Ready, bufvars,
     vars, TracerTypeOK
<1> QED
  BY <1>1, <1>2, <1>3, <1>4, <1>5, <1>6, <1>7, <1>8, <1>9, <1>10, <1>11, <1>12, SMTT(30)
     DEF TracerNext

-----------------------------------------------------------------------------
(* The buffer and the file. *)

\* A tuple is four words.
LEMMA TupleType ==
  ASSUME Extended
  PROVE  \E tuple \in Seq(Nat) : Len(tuple) = 4 /\ Put(tuple)
<1>1. PICK page \in Page, w \in Walks : Put(<<page * 4096 + w[1], w[2], w[3], w[4]>>)
  BY DEF Extended, tlbtrace_refmem_pwc
<1>2. page \in Nat /\ w[1] \in Nat /\ w[2] \in Nat /\ w[3] \in Nat /\ w[4] \in Nat
  BY <1>1, PageAssumption, WalksAssumption
<1>3. page * 4096 + w[1] \in Nat
  BY <1>2
<1> DEFINE tuple == <<page * 4096 + w[1], w[2], w[3], w[4]>>
<1>4. tuple \in Seq(Nat) /\ Len(tuple) = 4
  BY <1>2, <1>3
<1>5. Put(tuple)
  BY <1>1
<1> HIDE DEF tuple
<1> QED
  BY <1>4, <1>5

\* Whatever write(2) stores is a sequence of words.
LEMMA StoredType ==
  ASSUME NEW words \in Seq(Nat), NEW w \in Stored(words)
  PROVE  w \in Seq(Nat) /\ (~ShortWrites => w = words)
<1>1. CASE ShortWrites
  <2>1. PICK n \in 0..Len(words) : w = SubSeq(words, 1, n)
    BY <1>1 DEF Stored
  <2>2. \A i \in 1..n : words[i] \in Nat
    BY LenProperties
  <2> QED
    BY <1>1, <2>1, <2>2, SubSeqProperties
<1>2. CASE ~ShortWrites
  BY <1>2 DEF Stored
<1> QED
  BY <1>1, <1>2, ShortWritesAssumption

\* The file after a write, and the other files.
LEMMA WriteEffect ==
  ASSUME NEW words \in Seq(Nat), disk \in [File -> Seq(Nat)], fout \in File,
         Write(words)
  PROVE  /\ disk' \in [File -> Seq(Nat)]
         /\ \A f \in File \ {fout} : disk'[f] = disk[f]
         /\ ~ShortWrites => disk'[fout] = disk[fout] \o words
<1>1. PICK w \in Stored(words) : disk' = [disk EXCEPT ![fout] = @ \o w]
  BY Zenon DEF Write
<1>2. w \in Seq(Nat) /\ (~ShortWrites => w = words)
  BY StoredType
<1>3. disk[fout] \o w \in Seq(Nat)
  BY <1>2, ConcatProperties
<1> QED
  BY <1>1, <1>2, <1>3, Zenon

\* Appending four words.
LEMMA Concat4 ==
  ASSUME NEW s \in Seq(Nat), NEW t \in Seq(Nat), Len(t) = 4
  PROVE  s \o t \in Seq(Nat) /\ Len(s \o t) = Len(s) + 4
<1>1. s \o t \in Seq(Nat) /\ Len(s \o t) = Len(s) + Len(t)
  BY ConcatProperties, Zenon
<1> QED
  BY <1>1

\* Room for one tuple is room for a whole number of them.
LEMMA RoomFor4 ==
  ASSUME NEW n \in Nat, NEW b \in Nat, n % 4 = 0, b % 4 = 0, n < b, n + 4 # b
  PROVE  (n + 4) % 4 = 0 /\ n + 4 < b
OBVIOUS

\* What appending a tuple does: the session's words grow by four, the buffer has
\* room for another tuple, and nothing is lost unless a write is short.
LEMMA PutEffect ==
  ASSUME TracerTypeOK, BufferInv, open,
         NEW tuple \in Seq(Nat), Len(tuple) = 4, Put(tuple)
  PROVE  /\ open' = open /\ fout' = fout
         /\ fbuf' \in Seq(Nat) /\ BufferInv'
         /\ disk' \in [File -> Seq(Nat)] /\ expect' \in [File -> Seq(Nat)]
         /\ \A f \in File \ {fout} : disk'[f] = disk[f] /\ expect'[f] = expect[f]
         /\ expect'[fout] = expect[fout] \o tuple
         /\ Len(expect'[fout]) = Len(expect[fout]) + 4
         /\ ~ShortWrites => disk'[fout] \o fbuf' = (disk[fout] \o fbuf) \o tuple
<1> DEFINE filled == fbuf \o tuple
<1>0. /\ fbuf \in Seq(Nat) /\ fout \in File /\ disk \in [File -> Seq(Nat)]
      /\ expect \in [File -> Seq(Nat)] /\ Len(fbuf) \in Nat
  BY LenProperties DEF TracerTypeOK
<1>1. filled \in Seq(Nat) /\ Len(filled) = Len(fbuf) + 4
  BY <1>0, Concat4
<1>2. /\ open' = open /\ fout' = fout
      /\ expect' = [expect EXCEPT ![fout] = @ \o tuple]
  BY DEF Put
<1>3. /\ expect[fout] \o tuple \in Seq(Nat)
      /\ Len(expect[fout] \o tuple) = Len(expect[fout]) + 4
  BY <1>0, Concat4
<1>4. /\ expect' \in [File -> Seq(Nat)]
      /\ \A f \in File \ {fout} : expect'[f] = expect[f]
      /\ expect'[fout] = expect[fout] \o tuple
      /\ Len(expect'[fout]) = Len(expect[fout]) + 4
  BY <1>0, <1>2, <1>3
<1>5. (disk[fout] \o fbuf) \o tuple = disk[fout] \o filled
  BY <1>0, ConcatAssociative, SMTT(30)
<1> HIDE DEF filled
<1>6. CASE Len(filled) = BufWords
  <2>1. Write(filled) /\ fbuf' = << >>
    BY <1>6 DEF Put, filled
  <2>2. /\ disk' \in [File -> Seq(Nat)]
        /\ \A f \in File \ {fout} : disk'[f] = disk[f]
        /\ ~ShortWrites => disk'[fout] = disk[fout] \o filled
    BY <1>0, <1>1, <2>1, WriteEffect, SMTT(30)
  <2>3. fbuf' \in Seq(Nat) /\ Len(fbuf') = 0
    BY <2>1, EmptySeq
  <2>4. disk'[fout] \o fbuf' = disk'[fout]
    BY <1>0, <2>1, <2>2, ConcatEmptySeq
  <2>5. BufferInv'
    BY <2>3, BufAssumption DEF BufferInv
  <2> QED
    BY <1>2, <1>4, <1>5, <2>2, <2>3, <2>4, <2>5, ZenonT(30)
<1>7. CASE Len(filled) # BufWords
  <2>1. fbuf' = filled /\ disk' = disk
    BY <1>7 DEF Put, filled
  <2>2. BufferInv'
    BY <1>0, <1>1, <1>7, <2>1, BufAssumption, RoomFor4, Zenon DEF BufferInv
  <2> QED
    BY <1>0, <1>1, <1>2, <1>4, <1>5, <2>1, <2>2, SMTT(30)
<1> QED
  BY <1>6, <1>7, Zenon

\* What closing does: nothing stays behind in the buffer.
LEMMA CloseEffect ==
  ASSUME TracerTypeOK, open, CloseTrace
  PROVE  /\ ~open' /\ fout' = fout /\ fbuf' = << >> /\ expect' = expect
         /\ disk' \in [File -> Seq(Nat)]
         /\ \A f \in File \ {fout} : disk'[f] = disk[f]
         /\ ~ShortWrites => disk'[fout] = disk[fout] \o fbuf
<1>0. /\ fbuf \in Seq(Nat) /\ fout \in File /\ disk \in [File -> Seq(Nat)]
  BY DEF TracerTypeOK
<1>1. ~open' /\ fout' = fout /\ fbuf' = << >> /\ expect' = expect
  BY DEF CloseTrace
<1>2. CASE fbuf # << >>
  BY <1>0, <1>1, <1>2, WriteEffect DEF CloseTrace
<1>3. CASE fbuf = << >>
  <2>1. disk' = disk /\ disk[fout] \o fbuf = disk[fout]
    BY <1>0, <1>3, ConcatEmptySeq DEF CloseTrace
  <2> QED
    BY <1>0, <1>1, <2>1
<1> QED
  BY <1>2, <1>3

-----------------------------------------------------------------------------
(* The inductive invariant of the tracer. *)

TracerInv ==
    /\ TracerTypeOK
    /\ ControlInv
    /\ BufferInv
    /\ EveryMissRecorded

\* The invariant holds before the first tlbtrace_init.
LEMMA TracerInvInit == TracerInit => TracerInv
<1> SUFFICES ASSUME TracerInit PROVE TracerInv
  OBVIOUS
<1>1. TypeOK
  BY TypeInit DEF TracerInit
<1>2. fbuf \in Seq(Nat) /\ Len(fbuf) = 0
  BY EmptySeq DEF TracerInit, BufInit
<1>3. disk \in [File -> Seq(Nat)] /\ expect \in [File -> Seq(Nat)]
  BY EmptySeq DEF TracerInit, BufInit
<1>4. TracerTypeOK
  BY <1>1, <1>2, <1>3, MinutesAssumption, ZenonT(30) DEF TracerTypeOK, TracerInit, BufInit
<1>5. BufferInv
  BY <1>2, BufAssumption DEF BufferInv
<1> QED
  BY <1>4, <1>5 DEF TracerInv, ControlInv, HooksAreSafe, EveryMissRecorded,
     TracerInit, Init, BufInit, Emulator

\* Every call preserves it.
LEMMA TracerInvStep == TracerInv /\ [TracerNext]_tvars => TracerInv'
<1> SUFFICES ASSUME TracerInv, [TracerNext]_tvars PROVE TracerInv'
  OBVIOUS
<1>1. CASE UNCHANGED tvars
  BY <1>1 DEF TracerInv, TracerTypeOK, TypeOK, Slots, tlb_size, ControlInv,
     HooksAreSafe, NoGeometry, BufferInv, EveryMissRecorded, Ready, Emulator, tvars, vars, bufvars
<1>2. CASE TracerNext
  <2>0. TracerTypeOK /\ TypeOK /\ ControlInv /\ BufferInv /\ EveryMissRecorded
    BY DEF TracerInv, TracerTypeOK
  <2>1. StepKind
    BY <1>2, <2>0, Kinds
  <2>2. /\ TypeOK' /\ ControlInv' /\ started' \in BOOLEAN
        /\ client' \in {"boot", "emulator", "library"}
        /\ usermode' \in BOOLEAN /\ minute' \in Minutes /\ context' \in Asid
    BY <2>0, <2>1, TypeStep DEF StepKind
  <2> DEFINE FileType == /\ open' \in BOOLEAN /\ fout' \in File \cup {NoFile}
                         /\ open' => fout' \in File
                         /\ fbuf' \in Seq(Nat)
                         /\ disk' \in [File -> Seq(Nat)]
                         /\ expect' \in [File -> Seq(Nat)]
  <2>3. SUFFICES FileType /\ BufferInv' /\ EveryMissRecorded'
    BY <2>0, <2>2 DEF TracerInv, TracerTypeOK
  <2>4. CASE Untouched
    BY <2>0, <2>4 DEF Untouched, bufvars, TracerTypeOK, BufferInv,
       EveryMissRecorded, Ready
  <2>5. CASE Opened
    <3>1. config \in Configs \cup {NoConfig} /\ minute \in Minutes
      BY <2>0 DEF TypeOK, TracerTypeOK
    <3>2. NameOf(minute, config) \in File
      BY <3>1, NameAssumption
    <3>3. fbuf' \in Seq(Nat) /\ Len(fbuf') = 0
      BY <2>5, EmptySeq DEF Opened, OpenTrace
    <3>4. /\ open' = TRUE /\ fout' = NameOf(minute, config)
          /\ disk' \in [File -> Seq(Nat)] /\ expect' \in [File -> Seq(Nat)]
          /\ Len(expect'[fout']) = 0 /\ (Ready' => sl_cnt'.miss = 0)
      BY <2>0, <2>5, <3>2, EmptySeq
         DEF Opened, OpenTrace, tlbtrace_start, StartWithoutTable, Ready, vars,
             TracerTypeOK
    <3>5. BufferInv'
      BY <3>3, BufAssumption DEF BufferInv
    <3> QED
      BY <3>2, <3>3, <3>4, <3>5 DEF EveryMissRecorded
  <2>6. CASE Closed
    <3>1. /\ ~open' /\ fout' = fout /\ fbuf' = << >> /\ expect' = expect
          /\ disk' \in [File -> Seq(Nat)] /\ open' \in BOOLEAN
      BY <2>0, <2>6, CloseEffect, Zenon DEF Closed, CloseTrace
    <3>2. fbuf' \in Seq(Nat) /\ Len(fbuf') = 0
      BY <3>1, EmptySeq
    <3>3. BufferInv'
      BY <3>2, BufAssumption DEF BufferInv
    <3> QED
      BY <2>0, <3>1, <3>2, <3>3 DEF TracerTypeOK, EveryMissRecorded
  <2>7. CASE Extended
    <3>1. PICK tuple \in Seq(Nat) : Len(tuple) = 4 /\ Put(tuple)
      BY <2>7, TupleType
    <3>3. /\ open' = open /\ fout' = fout
          /\ fbuf' \in Seq(Nat) /\ BufferInv'
          /\ disk' \in [File -> Seq(Nat)] /\ expect' \in [File -> Seq(Nat)]
          /\ Len(expect'[fout]) = Len(expect[fout]) + 4
      BY <2>0, <2>7, <3>1, PutEffect, Zenon DEF Extended
    <3>4. EveryMissRecorded'
      <4>1. sl_cnt.miss \in Nat /\ sl_cnt'.miss = sl_cnt.miss + 1
        BY <2>0, <2>7 DEF Extended, TypeOK
      <4>2. Len(expect[fout]) = 4 * sl_cnt.miss
        BY <2>0, <2>7 DEF Extended, EveryMissRecorded
      <4> QED
        BY <3>3, <4>1, <4>2 DEF EveryMissRecorded
    <3> QED
      BY <2>0, <2>7, <3>3, <3>4 DEF Extended, TracerTypeOK
  <2> QED
    BY <2>1, <2>4, <2>5, <2>6, <2>7 DEF StepKind
<1> QED
  BY <1>1, <1>2

\* The invariant of the tracer, of which the theorems below are parts.
LEMMA TracerInvariant == TracerSpec => []TracerInv
BY TracerInvInit, TracerInvStep, PTL DEF TracerSpec

\* The tracer keeps its types, whatever its clients do.
THEOREM TracerTypeCorrect == TracerSpec => []TracerTypeOK
<1>1. TracerInv => TracerTypeOK
  BY DEF TracerInv
<1> QED
  BY <1>1, TracerInvariant, PTL

\* The buffer always has room for one more tuple (tlbtrace_refmem_pwc), for every
\* buffer whose size is a multiple of four words.
THEOREM BufferHasRoomHolds == TracerSpec => []BufferHasRoom
<1>1. ASSUME NEW n \in Nat, NEW b \in Nat, n % 4 = 0, b % 4 = 0, n < b
      PROVE  n + 4 <= b
  BY <1>1
<1>2. TracerInv => BufferHasRoom
  BY <1>1, BufAssumption, LenProperties, Zenon
     DEF TracerInv, BufferInv, BufferHasRoom, TracerTypeOK
<1> QED
  BY <1>2, TracerInvariant, PTL

\* A set "started" means an open session and a flushed table, so that the hooks
\* of the emulator never use a table or a file that is not there.
THEOREM HooksAreSafeHolds == TracerSpec => []HooksAreSafe
<1>1. TracerInv => HooksAreSafe
  BY DEF TracerInv, ControlInv
<1> QED
  BY <1>1, TracerInvariant, PTL

\* The trace of a session has one tuple for each miss that is counted.
THEOREM EveryMissRecordedHolds == TracerSpec => []EveryMissRecorded
<1>1. TracerInv => EveryMissRecorded
  BY DEF TracerInv
<1> QED
  BY <1>1, TracerInvariant, PTL

-----------------------------------------------------------------------------
(* Completeness of the trace, as long as no write is short. *)

\* A step preserves TraceComplete.
LEMMA TraceCompleteStep ==
  ASSUME ~ShortWrites
  PROVE  TracerInv /\ TraceComplete /\ [TracerNext]_tvars => TraceComplete'
<1> SUFFICES ASSUME TracerInv, TraceComplete, [TracerNext]_tvars
             PROVE  TraceComplete'
  OBVIOUS
<1>1. CASE UNCHANGED tvars
  BY <1>1, Zenon DEF TraceComplete, tvars, bufvars
<1>2. CASE TracerNext
  <2>0. /\ TracerTypeOK /\ TypeOK /\ ControlInv /\ BufferInv
        /\ disk \in [File -> Seq(Nat)] /\ expect \in [File -> Seq(Nat)]
    BY DEF TracerInv, TracerTypeOK
  <2>1. StepKind
    BY <1>2, <2>0, Kinds
  <2>2. CASE Untouched
    BY <2>2, ZenonT(30) DEF Untouched, bufvars, TraceComplete
  <2>3. CASE Opened
    <3>1. /\ open' = TRUE /\ fbuf' = << >> /\ ~open
          /\ disk' = [disk EXCEPT ![fout'] = << >>]
          /\ expect' = [expect EXCEPT ![fout'] = << >>]
      BY <2>3 DEF Opened, OpenTrace
    <3>2. \A f \in File : disk'[f] \o << >> = expect'[f]
      <4> SUFFICES ASSUME NEW f \in File PROVE disk'[f] \o << >> = expect'[f]
        OBVIOUS
      <4>1. disk[f] \o << >> = expect[f] /\ disk[f] \in Seq(Nat)
        BY <2>0, <3>1 DEF TraceComplete
      <4>2. << >> \in Seq(Nat) /\ << >> \o << >> = << >>
        BY EmptySeq, ConcatEmptySeq
      <4> QED
        BY <2>0, <3>1, <4>1, <4>2
    <3> QED
      BY <3>1, <3>2 DEF TraceComplete
  <2>4. CASE Closed
    <3>1. /\ ~open' /\ fout' = fout /\ fbuf' = << >> /\ expect' = expect
          /\ disk' \in [File -> Seq(Nat)]
          /\ \A f \in File \ {fout} : disk'[f] = disk[f]
          /\ disk'[fout] = disk[fout] \o fbuf /\ open /\ fout \in File
      BY <2>0, <2>4, CloseEffect DEF Closed, TracerTypeOK
    <3>2. \A f \in File : disk'[f] = expect[f]
      <4> SUFFICES ASSUME NEW f \in File PROVE disk'[f] = expect[f]
        OBVIOUS
      <4>1. CASE f = fout
        BY <3>1, <4>1, Zenon DEF TraceComplete
      <4>2. CASE f # fout
        BY <2>0, <3>1, <4>2, ConcatEmptySeq, Zenon DEF TraceComplete
      <4> QED
        BY <4>1, <4>2
    <3> QED
      BY <3>1, <3>2, ConcatEmptySeq DEF TraceComplete
  <2>5. CASE Extended
    <3>1. PICK tuple \in Seq(Nat) : Len(tuple) = 4 /\ Put(tuple)
      BY <2>5, TupleType
    <3>4. /\ open' /\ open /\ fout' = fout /\ fout \in File
          /\ \A f \in File \ {fout} : disk'[f] = disk[f] /\ expect'[f] = expect[f]
          /\ expect'[fout] = expect[fout] \o tuple
          /\ disk'[fout] \o fbuf' = (disk[fout] \o fbuf) \o tuple
      BY <2>0, <2>5, <3>1, PutEffect, Zenon DEF Extended, TracerTypeOK
    <3>5. disk[fout] \o fbuf = expect[fout]
      BY <3>4, Zenon DEF TraceComplete
    <3> QED
      BY <3>4, <3>5, Zenon DEF TraceComplete
  <2> QED
    BY <2>1, <2>2, <2>3, <2>4, <2>5 DEF StepKind
<1> QED
  BY <1>1, <1>2

\* Each file, with what is still buffered for it, holds exactly the tuples its
\* session produced, in order, for every size of the buffer, if write(2) stores
\* all it is given.
THEOREM TraceCompleteHolds ==
  ASSUME ~ShortWrites
  PROVE  TracerSpec => []TraceComplete
<1>1. TracerInit => TraceComplete
  BY ConcatEmptySeq, EmptySeq DEF TracerInit, BufInit, TraceComplete
<1> QED
  BY <1>1, TracerInvariant, TraceCompleteStep, PTL DEF TracerSpec
=============================================================================

-------------------------- MODULE MainTlbLRUProofs --------------------------
(***************************************************************************)
(* The table of one set implements the LRU cache, for every size, every    *)
(* set of pages and address spaces, and every bound.                       *)
(***************************************************************************)
EXTENDS MainTlbLRU, MainTlbProofs, FiniteSetTheorems

\* The assumptions of MainTlbProofs follow from those of MainTlbLRU.
LEMMA OneSetFacts ==
  /\ OneSize /\ NoWrap
  /\ \A c \in Configs : c[1] = Size /\ Size \in Nat \ {0}
  /\ \A c \in Configs, p \in Page : WaysIn(c, p) = 0..(Size - 1)
<1>1. OneSize /\ NoWrap
  BY OneSetAssumption, NoWrapAssumption DEF OneSize, NoWrap
<1>2. \A c \in Configs : c[1] = Size /\ Size \in Nat \ {0}
  BY OneSetAssumption, GeometryFacts
<1>3. ASSUME NEW c \in Configs, NEW p \in Page
      PROVE  WaysIn(c, p) = 0..(Size - 1)
  <2>1. StepOf(c) = 1 /\ c[1] = Size /\ SetIndex(p, 1) \in 0..(1 - 1)
    BY OneSetAssumption, SetIndexAssumption
  <2>2. SetIndex(p, 1) = 0
    BY <2>1
  <2>3. WaysIn(c, p) = {i \in 0..(Size - 1) : i % 1 = 0}
    BY <2>1, <2>2 DEF WaysIn, Ways
  <2>4. \A i \in 0..(Size - 1) : i % 1 = 0
    BY <1>2
  <2> QED
    BY <2>3, <2>4
<1> QED
  BY <1>1, <1>2, <1>3

\* A slot is unused just when its time stamp is 0.
Stamped == Ready => \A i \in Slots : sl_tlb[i].va # Invalid <=> sl_tlb[i].ts > 0

TableInv == SafetyInv /\ Recency /\ Stamped

Dom == 0..(Size - 1)

KeyOf(i) == <<sl_tlb[i].va, sl_tlb[i].asid>>
UsedSlots == {i \in Dom : sl_tlb[i].va # Invalid}

\* The table of a started tracer.
LEMMA TableFacts ==
  ASSUME TableInv, Ready
  PROVE  /\ Size \in Nat \ {0} /\ config \in Configs /\ Slots = Dom
         /\ sl_tlb \in [Dom -> Entry] /\ systs \in Nat
         /\ \A i \in Dom : sl_tlb[i].ts \in Nat /\ sl_tlb[i].ts <= systs
         /\ \A i \in Dom : sl_tlb[i].va # Invalid <=> sl_tlb[i].ts > 0
         /\ \A i \in Dom : sl_tlb[i].va # Invalid => KeyOf(i) \in Key
         /\ \A i, j \in Dom : i # j /\ sl_tlb[i].va # Invalid => KeyOf(i) # KeyOf(j)
<1>1. config \in Configs /\ sl_tlb \in [Slots -> Entry] /\ systs \in Nat /\ live \subseteq Key
  BY BoundAssumption DEF TableInv, SafetyInv, TypeOK, Ready
<1>2. Size \in Nat \ {0} /\ Slots = Dom /\ \A p \in Page : WaysOf(p) = Dom
  BY <1>1, OneSetFacts DEF Slots, tlb_size, Dom, WaysOf
<1>3. \A i \in Dom : sl_tlb[i].ts \in Nat /\ sl_tlb[i].ts <= systs
  BY <1>1, <1>2, TsNat DEF TableInv, Recency, Dom
<1>4. \A i \in Dom : sl_tlb[i].va # Invalid <=> sl_tlb[i].ts > 0
  BY <1>2 DEF TableInv, Stamped
<1>5. \A i \in Dom : sl_tlb[i].va # Invalid => KeyOf(i) \in Key
  BY <1>1, <1>2 DEF TableInv, SafetyInv, ResidentIsLive, KeyOf
<1>6. ASSUME NEW i \in Dom, NEW j \in Dom, sl_tlb[i].va # Invalid, KeyOf(i) = KeyOf(j)
      PROVE  i = j
  <2> DEFINE k == KeyOf(i)
  <2>1. k \in Key /\ k[1] \in Page /\ k[1] = sl_tlb[i].va /\ k[2] = sl_tlb[i].asid
    BY <1>5, <1>6 DEF KeyOf, Key
  <2>2. sl_tlb[j].va = k[1] /\ sl_tlb[j].asid = k[2]
    BY <1>6, <2>1 DEF KeyOf
  <2>3. {i, j} \subseteq Matches(sl_tlb, WaysOf(k[1]), k[1], k[2])
    BY <1>2, <2>1, <2>2 DEF Matches, Holds
  <2> QED
    BY <2>1, <2>3 DEF TableInv, SafetyInv, NoDuplicate
<1> QED
  BY <1>1, <1>2, <1>3, <1>4, <1>5, <1>6

\* What the mapping says of a key in the table, and of one that is not.
LEMMA UsedFacts ==
  ASSUME TableInv, Ready
  PROVE  /\ \A i \in UsedSlots : UsedAt(KeyOf(i)) = sl_tlb[i].ts /\ sl_tlb[i].ts > 0
         /\ \A k \in Key : (\A i \in Dom : ~Holds(sl_tlb, i, k[1], k[2])) => UsedAt(k) = 0
         /\ \A k \in Key : UsedAt(k) > 0 => \E i \in UsedSlots : k = KeyOf(i)
         /\ \A k \in Key : \A i \in Dom :
               Holds(sl_tlb, i, k[1], k[2]) <=> i \in UsedSlots /\ k = KeyOf(i)
<1> USE TableFacts
<1>1. ASSUME NEW k \in Key, NEW i \in Dom
      PROVE  Holds(sl_tlb, i, k[1], k[2]) <=> i \in UsedSlots /\ k = KeyOf(i)
  <2>1. k = <<k[1], k[2]>> /\ k[1] # Invalid
    BY PageAssumption DEF Key, Invalid
  <2> QED
    BY <2>1 DEF Holds, UsedSlots, KeyOf
<1>2. ASSUME NEW i \in UsedSlots
      PROVE  UsedAt(KeyOf(i)) = sl_tlb[i].ts /\ sl_tlb[i].ts > 0
  <2> DEFINE k == KeyOf(i)
  <2>1. k \in Key /\ i \in Dom
    BY DEF UsedSlots
  <2>2. Holds(sl_tlb, i, k[1], k[2])
    BY <1>1, <2>1
  <2>3. \A j \in Slots : Holds(sl_tlb, j, k[1], k[2]) => j = i
    BY <1>1, <2>1 DEF UsedSlots
  <2> DEFINE c == CHOOSE j \in Slots : Holds(sl_tlb, j, k[1], k[2])
  <2>4. c = i
    BY <2>1, <2>2, <2>3
  <2>5. UsedAt(k) = sl_tlb[c].ts
    BY <2>1, <2>2 DEF UsedAt
  <2> QED
    BY <2>4, <2>5, Zenon DEF UsedSlots
<1>3. ASSUME NEW k \in Key, \A i \in Dom : ~Holds(sl_tlb, i, k[1], k[2])
      PROVE  UsedAt(k) = 0
  BY <1>3 DEF UsedAt
<1>4. ASSUME NEW k \in Key, UsedAt(k) > 0
      PROVE  \E i \in UsedSlots : k = KeyOf(i)
  <2>1. PICK i \in Dom : Holds(sl_tlb, i, k[1], k[2])
    BY <1>3, <1>4
  <2> QED
    BY <1>1, <2>1
<1> QED
  BY <1>1, <1>2, <1>3, <1>4

-----------------------------------------------------------------------------
(* What a reference does to the table of one set. *)

HitAt(slot, page, asid) ==
    /\ Holds(sl_tlb, slot, page, asid)
    /\ Holds(sl_tlb', slot, page, asid)
    /\ sl_cnt' = [sl_cnt EXCEPT !.hit = @ + 1]

MissAt(slot, page, asid) ==
    /\ \A i \in Dom : ~Holds(sl_tlb, i, page, asid)
    /\ \A i \in Dom : sl_tlb[slot].ts <= sl_tlb[i].ts
    /\ Holds(sl_tlb', slot, page, asid)
    /\ sl_cnt' = [sl_cnt EXCEPT !.miss = @ + 1]

\* It hits the slot that holds its key, or refills the oldest slot.
LEMMA ReferenceEffect ==
  ASSUME TableInv, NEW page \in Page, NEW asid \in Asid, NEW ins \in BOOLEAN,
         tlbtrace_refmem_sl(page, asid, ins)
  PROVE  /\ Ready /\ Ready' /\ config' = config /\ systs' = systs + 1
         /\ \E slot \in Dom :
               /\ \A i \in Dom : i # slot => sl_tlb'[i] = sl_tlb[i]
               /\ sl_tlb'[slot].ts = systs + 1
               /\ HitAt(slot, page, asid) \/ MissAt(slot, page, asid)
<1>0. TypeOK /\ LastInsInBounds
  BY DEF TableInv, SafetyInv
<1>1. /\ Ready /\ Ready' /\ config' = config /\ config \in Configs
      /\ config[1] \in Nat \ {0} /\ sl_tlb \in [0..(config[1] - 1) -> Entry]
      /\ systs \in Nat /\ systs < MaxRefs /\ systs' = systs + 1
  BY <1>0, ReferenceStep, Zenon
<1> DEFINE W == WaysIn(config, page)
           Missing(slot) ==
               /\ Matches(sl_tlb, W, page, asid) = {}
               /\ slot = Victim(sl_tlb, W)
               /\ sl_tlb' = Refill(sl_tlb, slot, page, asid, systs + 1)
               /\ sl_cnt' = [sl_cnt EXCEPT !.miss = @ + 1]
<1>2. PICK slot \in 0..(config[1] - 1) :
        (Holds(sl_tlb, slot, page, asid) /\ Hit(page, asid, slot)) \/ Missing(slot)
  BY <1>0, ReferenceStep, ZenonT(30)
<1>3. config[1] = Size /\ W = Dom /\ Size \in Nat \ {0} /\ slot \in Dom /\ sl_tlb \in [Dom -> Entry]
  BY <1>1, <1>2, OneSetFacts DEF Dom
<1> HIDE DEF W
<1>4. Stamp(systs + 1) = systs + 1 /\ systs + 1 \in Nat
  BY <1>1, OneSetFacts, BoundAssumption, TsModAssumption DEF NoWrap, Stamp
<1>5. CASE Holds(sl_tlb, slot, page, asid) /\ Hit(page, asid, slot)
  <2>1. sl_tlb' = Touch(sl_tlb, slot, systs + 1) /\ sl_cnt' = [sl_cnt EXCEPT !.hit = @ + 1]
    BY <1>1, <1>5 DEF Hit
  <2>2. /\ \A i \in Dom : i # slot => sl_tlb'[i] = sl_tlb[i]
        /\ sl_tlb'[slot].va = sl_tlb[slot].va /\ sl_tlb'[slot].asid = sl_tlb[slot].asid
        /\ sl_tlb'[slot].ts = Stamp(systs + 1)
    BY <1>3, <1>4, <2>1, TouchEffect
  <2>3. HitAt(slot, page, asid)
    BY <1>5, <2>1, <2>2 DEF HitAt, Holds
  <2> QED
    BY <1>1, <1>3, <1>4, <2>2, <2>3
<1>6. CASE Missing(slot)
  <2>1. /\ \A i \in Dom : i # slot => sl_tlb'[i] = sl_tlb[i]
        /\ sl_tlb'[slot] = [va |-> page, asid |-> asid, ts |-> Stamp(systs + 1)]
    BY <1>3, <1>4, <1>6, RefillEffect
  <2>2. \A i \in Dom : ~Holds(sl_tlb, i, page, asid)
    BY <1>3, <1>6 DEF Matches
  <2>3. \A i \in Dom : sl_tlb[i].ts \in Nat
    BY <1>1, TableFacts
  <2>4. \A i \in W : sl_tlb[slot].ts <= sl_tlb[i].ts
    BY <1>3, <1>6, <2>3, VictimFacts, Zenon DEF Dom
  <2>5. MissAt(slot, page, asid)
    BY <1>3, <1>6, <2>1, <2>2, <2>4 DEF MissAt, Holds
  <2> QED
    BY <1>1, <1>3, <1>4, <2>1, <2>5
<1> QED
  BY <1>2, <1>5, <1>6

\* A flush empties slots.
LEMMA FlushEffect ==
  ASSUME TableInv, NEW S, FlushSlots(S)
  PROVE  /\ Ready /\ Ready' /\ config' = config /\ systs' = systs /\ sl_cnt' = sl_cnt
         /\ \A i \in Dom : sl_tlb'[i] = FlushedEntry \/ sl_tlb'[i] = sl_tlb[i]
<1>1. /\ Ready /\ Ready' /\ config' = config /\ systs' = systs /\ sl_cnt' = sl_cnt
      /\ sl_tlb' = [i \in Slots |-> IF i \in S THEN FlushedEntry ELSE sl_tlb[i]]
  BY DEF FlushSlots, Ready
<1> QED
  BY <1>1, TableFacts

\* The kinds of steps.
LEMMA Steps ==
  ASSUME [Next]_vars
  PROVE  \/ \E c \in Configs : tlbtrace_init(c)
         \/ tlbtrace_start
         \/ tlbtrace_destroy
         \/ \E page \in Page, asid \in Asid, ins \in BOOLEAN :
               tlbtrace_refmem_sl(page, asid, ins)
         \/ \E S : FlushSlots(S)
         \/ UNCHANGED vars
BY Zenon DEF Next, tlbtrace_flush_all, tlbtrace_flush_entry, tlbtrace_flush_asid

\* Used slots keep a time stamp, unused ones have none.
LEMMA StampedStep ==
  ASSUME TableInv, [Next]_vars
  PROVE  Stamped'
<1>1. ASSUME NEW page \in Page, NEW asid \in Asid, NEW ins \in BOOLEAN,
             tlbtrace_refmem_sl(page, asid, ins)
      PROVE  Stamped'
  <2>1. PICK slot \in Dom :
           /\ \A i \in Dom : i # slot => sl_tlb'[i] = sl_tlb[i]
           /\ sl_tlb'[slot].ts = systs + 1
           /\ Holds(sl_tlb', slot, page, asid)
    BY <1>1, ReferenceEffect DEF HitAt, MissAt
  <2>2. Ready /\ config' = config
    BY <1>1, ReferenceEffect
  <2>3. /\ Slots' = Dom /\ systs \in Nat
        /\ \A i \in Dom : sl_tlb[i].va # Invalid <=> sl_tlb[i].ts > 0
    BY <2>2, TableFacts DEF Slots, tlb_size
  <2>4. page # Invalid
    BY PageAssumption DEF Invalid
  <2> QED
    BY <2>1, <2>3, <2>4 DEF Stamped, Holds
<1>2. ASSUME NEW S, FlushSlots(S)
      PROVE  Stamped'
  <2>1. Ready /\ config' = config
        /\ \A i \in Dom : sl_tlb'[i] = FlushedEntry \/ sl_tlb'[i] = sl_tlb[i]
    BY <1>2, FlushEffect
  <2>2. Slots' = Dom /\ \A i \in Dom : sl_tlb[i].va # Invalid <=> sl_tlb[i].ts > 0
    BY <2>1, TableFacts DEF Slots, tlb_size
  <2> QED
    BY <2>1, <2>2 DEF Stamped, FlushedEntry
<1>3. CASE tlbtrace_start
  <2>1. \A i \in Slots' : sl_tlb'[i] = FlushedEntry
    BY <1>3 DEF tlbtrace_start, FLUSH_TLB, Slots, tlb_size
  <2> QED
    BY <2>1 DEF Stamped, FlushedEntry
<1>4. CASE tlbtrace_destroy \/ \E c \in Configs : tlbtrace_init(c)
  BY <1>4 DEF Stamped, Ready, tlbtrace_destroy, tlbtrace_init
<1>5. CASE UNCHANGED vars
  BY <1>5 DEF TableInv, Stamped, Ready, Slots, tlb_size, vars
<1> QED
  BY <1>1, <1>2, <1>3, <1>4, <1>5, Steps

\* The invariant of the table of one set.
LEMMA TableInvariant == Spec => []TableInv
<1>1. Init => TableInv
  BY SafetyInit, RecencyInit DEF TableInv, Stamped, Init, Ready
<1>2. TableInv /\ [Next]_vars => TableInv'
  BY SafetyStep, RecencyStep, StampedStep, OneSetFacts DEF TableInv
<1> QED
  BY <1>1, <1>2, PTL DEF Spec

-----------------------------------------------------------------------------
(* The refinement. *)

\* The mapping in terms of the slots that hold a key.
Mapped ==
    /\ \A k \in Key : \A i \in Dom :
          Holds(sl_tlb, i, k[1], k[2]) => UsedAt(k) = sl_tlb[i].ts
    /\ \A k \in Key : (\A i \in Dom : ~Holds(sl_tlb, i, k[1], k[2])) => UsedAt(k) = 0

\* The mapping of a table, now or in the next state.
LEMMA MappedHolds == TableInv /\ Ready => Mapped
BY UsedFacts DEF Mapped

\* Without a table nothing is cached.
LEMMA NotMapped == ~Ready => \A k \in Key : UsedAt(k) = 0
BY DEF UsedAt

\* The instance counts as this module does.
LEMMA SameCardinality == \A S : LRU!Cardinality(S) = Cardinality(S)
BY DEF LRU!Cardinality, Cardinality, LRU!IsFiniteSet, IsFiniteSet

\* As many keys are cached as slots are used.
LEMMA CachedCount ==
  ASSUME TableInv, Ready
  PROVE  /\ LRU!Cached = {KeyOf(i) : i \in UsedSlots}
         /\ Cardinality(LRU!Cached) = Cardinality(UsedSlots)
         /\ IsFiniteSet(UsedSlots)
<1>1. /\ Size \in Nat \ {0}
      /\ \A i \in Dom : sl_tlb[i].va # Invalid => KeyOf(i) \in Key
      /\ \A i, j \in Dom : i # j /\ sl_tlb[i].va # Invalid => KeyOf(i) # KeyOf(j)
  BY TableFacts
<1>2. LRU!Cached = {k \in Key : UsedAt(k) > 0}
  BY DEF LRU!Cached
<1>3. /\ \A i \in UsedSlots : KeyOf(i) \in Key /\ UsedAt(KeyOf(i)) > 0
      /\ \A k \in Key : UsedAt(k) > 0 => \E i \in UsedSlots : k = KeyOf(i)
  <2>1. \A i \in UsedSlots : i \in Dom /\ sl_tlb[i].va # Invalid
    BY DEF UsedSlots
  <2> QED
    BY <1>1, <2>1, UsedFacts
<1> DEFINE K == {KeyOf(i) : i \in UsedSlots}
           f == [i \in UsedSlots |-> KeyOf(i)]
<1>4. LRU!Cached = K
  BY <1>2, <1>3
<1>5. IsFiniteSet(UsedSlots)
  <2>1. IsFiniteSet(Dom) /\ UsedSlots \subseteq Dom
    BY <1>1, FS_Interval DEF Dom, UsedSlots
  <2> QED
    BY <2>1, FS_Subset
<1>6. f \in Bijection(UsedSlots, K)
  <2>1. \A i, j \in UsedSlots : KeyOf(i) = KeyOf(j) => i = j
    BY <1>1 DEF UsedSlots
  <2> HIDE DEF KeyOf
  <2> QED
    BY <2>1 DEF Bijection, Injection, Surjection, IsInjective
<1>7. Cardinality(K) = Cardinality(UsedSlots)
  BY <1>5, <1>6, FS_Bijection DEF ExistsBijection
<1> QED
  BY <1>4, <1>5, <1>7

\* A step that only throws keys out.
LEMMA FlushMaps ==
  ASSUME \A k \in Key : UsedAt(k)' \in {0, UsedAt(k)}, systs' = systs, sl_cnt' = sl_cnt
  PROVE  LRU!Flush
BY DEF LRU!Flush

\* What a reference does to the times of use.
LEMMA UsedAfter ==
  ASSUME TableInv, TableInv', Ready, Ready', NEW page \in Page, NEW asid \in Asid,
         NEW slot \in Dom, \A i \in Dom : i # slot => sl_tlb'[i] = sl_tlb[i],
         sl_tlb'[slot].ts = systs + 1, Holds(sl_tlb', slot, page, asid)
  PROVE  /\ UsedAt(<<page, asid>>)' = systs + 1
         /\ \A k \in Key : k # <<page, asid>> =>
               UsedAt(k)' = IF Holds(sl_tlb, slot, k[1], k[2]) THEN 0 ELSE UsedAt(k)
<1>1. Mapped
  BY MappedHolds
<1>2. Mapped'
  BY MappedHolds, PTL
<1>3. <<page, asid>> \in Key
  BY DEF Key
<1>4. UsedAt(<<page, asid>>)' = systs + 1
  BY <1>2, <1>3 DEF Mapped
<1>5. ASSUME NEW k \in Key, k # <<page, asid>>
      PROVE  UsedAt(k)' = IF Holds(sl_tlb, slot, k[1], k[2]) THEN 0 ELSE UsedAt(k)
  <2>1. ~Holds(sl_tlb', slot, k[1], k[2])
    BY <1>5 DEF Holds, Key
  <2>2. \A i \in Dom : i # slot => (Holds(sl_tlb', i, k[1], k[2]) <=> Holds(sl_tlb, i, k[1], k[2]))
    BY DEF Holds
  <2>3. CASE \E i \in Dom : i # slot /\ Holds(sl_tlb, i, k[1], k[2])
    <3>1. PICK i \in Dom : i # slot /\ Holds(sl_tlb, i, k[1], k[2])
      BY <2>3
    <3>2. UsedAt(k)' = sl_tlb'[i].ts /\ UsedAt(k) = sl_tlb[i].ts
      BY <1>1, <1>2, <2>2, <3>1 DEF Mapped
    <3>3. ~Holds(sl_tlb, slot, k[1], k[2])
      BY <3>1, UsedFacts, TableFacts DEF UsedSlots
    <3> QED
      BY <3>1, <3>2, <3>3
  <2>4. CASE ~ \E i \in Dom : i # slot /\ Holds(sl_tlb, i, k[1], k[2])
    <3>1. UsedAt(k)' = 0
      BY <1>2, <2>1, <2>2, <2>4 DEF Mapped
    <3>2. ~Holds(sl_tlb, slot, k[1], k[2]) => UsedAt(k) = 0
      BY <1>1, <2>4 DEF Mapped
    <3> QED
      BY <3>1, <3>2
  <2> QED
    BY <2>3, <2>4
<1> QED
  BY <1>4, <1>5

\* A reference is a hit, a fill or a replacement of the LRU cache.
LEMMA ReferenceMaps ==
  ASSUME TableInv, TableInv', NEW page \in Page, NEW asid \in Asid, NEW ins \in BOOLEAN,
         tlbtrace_refmem_sl(page, asid, ins)
  PROVE  LRU!Next
<1> DEFINE key == <<page, asid>>
           Used == [k \in Key |-> UsedAt(k)]
           After == [k \in Key |-> UsedAt(k)']
<1>1. Ready /\ Ready' /\ systs' = systs + 1
  BY ReferenceEffect
<1>2. PICK slot \in Dom :
        /\ \A i \in Dom : i # slot => sl_tlb'[i] = sl_tlb[i]
        /\ sl_tlb'[slot].ts = systs + 1
        /\ HitAt(slot, page, asid) \/ MissAt(slot, page, asid)
  BY ReferenceEffect
<1>3. key \in Key /\ key[1] = page /\ key[2] = asid
  BY DEF Key
<1>4. slot \in Dom /\ Holds(sl_tlb', slot, page, asid)
  BY <1>2 DEF HitAt, MissAt
<1>5. /\ After[key] = systs + 1
      /\ \A k \in Key : k # key =>
            After[k] = IF Holds(sl_tlb, slot, k[1], k[2]) THEN 0 ELSE UsedAt(k)
  BY <1>1, <1>2, <1>3, <1>4, UsedAfter
<1> HIDE DEF key
<1>6. /\ Size \in Nat \ {0} /\ systs \in Nat
      /\ \A i \in Dom : sl_tlb[i].ts \in Nat
      /\ \A i \in Dom : sl_tlb[i].va # Invalid <=> sl_tlb[i].ts > 0
      /\ \A i \in Dom : sl_tlb[i].va # Invalid => KeyOf(i) \in Key
      /\ \A i, j \in Dom : i # j /\ sl_tlb[i].va # Invalid => KeyOf(i) # KeyOf(j)
  BY <1>1, TableFacts
<1>7. \A k \in Key : \A i \in Dom :
         Holds(sl_tlb, i, k[1], k[2]) <=> i \in UsedSlots /\ k = KeyOf(i)
  BY <1>1, UsedFacts
<1>8. /\ LRU!Cached = {KeyOf(i) : i \in UsedSlots}
      /\ Cardinality(LRU!Cached) = Cardinality(UsedSlots)
      /\ IsFiniteSet(UsedSlots)
  BY <1>1, CachedCount
<1>9. CASE HitAt(slot, page, asid)
  <2>1. slot \in UsedSlots /\ key = KeyOf(slot)
    BY <1>3, <1>4, <1>7, <1>9 DEF HitAt
  <2>2. key \in LRU!Cached
    BY <1>8, <2>1
  <2>3. \A k \in Key : k # key => After[k] = UsedAt(k)
    BY <1>4, <1>5, <1>7, <2>1
  <2>4. After = [Used EXCEPT ![key] = systs + 1]
    BY <1>3, <1>5, <2>3, Zenon
  <2>5. LRU!Hit(key)
    BY <1>1, <1>9, <2>2, <2>4 DEF LRU!Hit, HitAt
  <2> QED
    BY <1>3, <2>5 DEF LRU!Next
<1>10. CASE MissAt(slot, page, asid)
  <2>1. key \notin LRU!Cached
    <3>1. ASSUME NEW i \in UsedSlots PROVE key # KeyOf(i)
      <4>1. i \in Dom
        BY DEF UsedSlots
      <4> QED
        BY <1>3, <1>7, <1>10, <4>1 DEF MissAt
    <3> QED
      BY <1>8, <3>1
  <2>2. sl_cnt' = [sl_cnt EXCEPT !.miss = @ + 1]
    BY <1>10 DEF MissAt
  <2>3. IsFiniteSet(Dom) /\ Cardinality(Dom) = Size /\ UsedSlots \subseteq Dom
    BY <1>6, FS_Interval DEF Dom, UsedSlots
  <2>4. CASE slot \notin UsedSlots
    <3>1. Cardinality(UsedSlots) < Cardinality(Dom)
      <4>1. UsedSlots # Dom
        BY <1>4, <2>4
      <4>2. Cardinality(UsedSlots) <= Cardinality(Dom)
            /\ (Cardinality(UsedSlots) = Cardinality(Dom) => UsedSlots = Dom)
        BY <2>3, FS_Subset
      <4>3. Cardinality(UsedSlots) \in Nat /\ Cardinality(Dom) \in Nat
        BY <1>8, <2>3, FS_CardinalityType
      <4> QED
        BY <4>1, <4>2, <4>3
    <3>2. \A k \in Key : k # key => After[k] = UsedAt(k)
      BY <1>4, <1>5, <1>7, <2>4
    <3>3. After = [Used EXCEPT ![key] = systs + 1]
      BY <1>3, <1>5, <3>2, Zenon
    <3>4. Cardinality(LRU!Cached) < Size
      BY <1>8, <2>3, <3>1
    <3>5. LRU!Fill(key)
      BY <1>1, <2>1, <2>2, <3>3, <3>4, SameCardinality DEF LRU!Fill
    <3> QED
      BY <1>3, <3>5 DEF LRU!Next
  <2>5. CASE slot \in UsedSlots
    <3> DEFINE victim == KeyOf(slot)
    <3>1. victim \in Key /\ victim # key /\ victim \in LRU!Cached
      BY <1>4, <1>6, <1>8, <2>1, <2>5 DEF UsedSlots
    <3>2. UsedSlots = Dom
      <4>1. sl_tlb[slot].ts > 0
        BY <1>4, <1>6, <2>5 DEF UsedSlots
      <4>2. \A i \in Dom : sl_tlb[i].ts > 0
        BY <1>4, <1>6, <1>10, <4>1 DEF MissAt
      <4> QED
        BY <1>6, <4>2 DEF UsedSlots
    <3>3. LRU!LeastRecent(victim)
      <4>1. \A i \in UsedSlots : UsedAt(KeyOf(i)) = sl_tlb[i].ts /\ KeyOf(i) \in Key
        BY <1>1, <1>6, UsedFacts DEF UsedSlots
      <4>2. \A i \in UsedSlots : sl_tlb[slot].ts <= sl_tlb[i].ts
        BY <1>10, <2>3 DEF MissAt
      <4>3. \A i \in UsedSlots : Used[victim] <= Used[KeyOf(i)]
        BY <2>5, <4>1, <4>2
      <4>4. \A j \in LRU!Cached : Used[victim] <= Used[j]
        BY <1>8, <4>3
      <4> QED
        BY <3>1, <4>4 DEF LRU!LeastRecent
    <3>4. \A k \in Key : Holds(sl_tlb, slot, k[1], k[2]) <=> k = victim
      BY <1>4, <1>7, <2>5
    <3> HIDE DEF victim
    <3>5. \A k \in Key : k # key => After[k] = IF k = victim THEN 0 ELSE UsedAt(k)
      BY <1>5, <3>4
    <3>6. After = [Used EXCEPT ![key] = systs + 1, ![victim] = 0]
      <4>1. \A k \in Key : After[k] = [Used EXCEPT ![key] = systs + 1, ![victim] = 0][k]
        BY <1>3, <1>5, <3>1, <3>5, Zenon
      <4> QED
        BY <4>1, Zenon
    <3>7. Cardinality(LRU!Cached) = Size
      BY <1>8, <2>3, <3>2
    <3>8. LRU!Replace(key, victim)
      BY <1>1, <2>1, <2>2, <3>3, <3>6, <3>7, SameCardinality, SMTT(30) DEF LRU!Replace
    <3> QED
      BY <1>3, <3>1, <3>8 DEF LRU!Next
  <2> QED
    BY <2>4, <2>5
<1> QED
  BY <1>2, <1>9, <1>10

\* The other operations reset the cache or throw keys out.
LEMMA StepMaps ==
  ASSUME TableInv, TableInv', [Next]_vars
  PROVE  [LRU!Next]_(LRU!vars)
<1>1. ASSUME NEW S, FlushSlots(S)
      PROVE  LRU!Next
  <2>1. /\ Ready /\ Ready' /\ systs' = systs /\ sl_cnt' = sl_cnt
        /\ \A i \in Dom : sl_tlb'[i] = FlushedEntry \/ sl_tlb'[i] = sl_tlb[i]
    BY <1>1, FlushEffect
  <2>2. Mapped /\ Mapped'
    BY <2>1, MappedHolds, PTL
  <2>3. ASSUME NEW k \in Key
        PROVE  UsedAt(k)' \in {0, UsedAt(k)}
    <3>1. k[1] # Invalid
      BY PageAssumption DEF Key, Invalid
    <3>2. CASE \E i \in Dom : Holds(sl_tlb', i, k[1], k[2])
      <4>1. PICK i \in Dom : Holds(sl_tlb', i, k[1], k[2])
        BY <3>2
      <4>2. sl_tlb'[i] = sl_tlb[i]
        BY <2>1, <3>1, <4>1 DEF Holds, FlushedEntry
      <4>3. Holds(sl_tlb, i, k[1], k[2])
        BY <4>1, <4>2 DEF Holds
      <4> QED
        BY <2>2, <4>1, <4>2, <4>3 DEF Mapped
    <3>3. CASE ~ \E i \in Dom : Holds(sl_tlb', i, k[1], k[2])
      BY <2>2, <3>3 DEF Mapped
    <3> QED
      BY <3>2, <3>3
  <2> QED
    BY <2>1, <2>3, FlushMaps DEF LRU!Next
<1>2. CASE tlbtrace_start
  <2>1. Ready' /\ systs' = 0 /\ sl_cnt' = [hit |-> 0, miss |-> 0]
    BY <1>2 DEF tlbtrace_start, Ready
  <2>2. Slots' = Dom
    <3>1. config' = config /\ config \in Configs
      BY <1>2 DEF tlbtrace_start, TableInv, SafetyInv, TypeOK
    <3> QED
      BY <3>1, OneSetFacts DEF Slots, tlb_size, Dom
  <2>3. \A i \in Dom : sl_tlb'[i] = FlushedEntry
    BY <1>2, <2>2, Zenon DEF tlbtrace_start, FLUSH_TLB, Slots, tlb_size
  <2>4. \A k \in Key : \A i \in Dom : ~Holds(sl_tlb', i, k[1], k[2])
    BY <2>3, PageAssumption DEF Holds, FlushedEntry, Key, Invalid
  <2>5. Mapped'
    BY <2>1, MappedHolds, PTL
  <2>6. \A k \in Key : UsedAt(k)' = 0
    BY <2>4, <2>5 DEF Mapped
  <2>7. LRU!Reset
    BY <2>1, <2>6 DEF LRU!Reset
  <2> QED
    BY <2>7 DEF LRU!Next
<1>3. CASE tlbtrace_destroy \/ \E c \in Configs : tlbtrace_init(c)
  <2>1. ~Ready' /\ systs' = systs /\ sl_cnt' = sl_cnt
    BY <1>3 DEF tlbtrace_destroy, tlbtrace_init, Ready
  <2>2. \A k \in Key : UsedAt(k)' = 0
    BY <2>1 DEF UsedAt
  <2> QED
    BY <2>1, <2>2, FlushMaps DEF LRU!Next
<1>4. CASE UNCHANGED vars
  <2>1. \A k \in Key : UsedAt(k)' = UsedAt(k)
    BY <1>4 DEF vars, UsedAt, Ready, Slots, tlb_size
  <2> QED
    BY <1>4, <2>1 DEF vars, LRU!vars
<1> QED
  BY <1>1, <1>2, <1>3, <1>4, ReferenceMaps, Steps

\* A main TLB of one set is an LRU cache: with the time of use of each key as
\* refinement mapping, every hit, refill, eviction, flush and restart of the
\* table is a step of the cache, for every size and as long as no time stamp is
\* truncated.
THEOREM ImplementsLRUHolds == Spec => ImplementsLRU
<1>1. Init => LRU!Init
  <2> SUFFICES ASSUME Init PROVE LRU!Init
    OBVIOUS
  <2>1. \A k \in Key : UsedAt(k) = 0
    BY NotMapped DEF Init, Ready
  <2> QED
    BY <2>1 DEF Init, LRU!Init
<1>2. TableInv /\ TableInv' /\ [Next]_vars => [LRU!Next]_(LRU!vars)
  BY StepMaps
<1> QED
  BY <1>1, <1>2, TableInvariant, PTL DEF Spec, ImplementsLRU, LRU!Spec
=============================================================================

-------------------------- MODULE SimulatorProofs ---------------------------
(***************************************************************************)
(* The counters, costs and caches of the simulator, for every trace, every *)
(* geometry of the caches and every set index.                             *)
(*                                                                         *)
(* Each emulate_* function is a chain of look-ups and accesses.  A look-up *)
(* keeps the caches sound (Good), and its effect on the counters is a line *)
(* of a Ledger; the lines of a chain add up.  The driver (module Driver)   *)
(* calls the simulator only as module Simulator allows.                    *)
(***************************************************************************)
EXTENDS Driver, WellFoundedInduction, TLAPS

Slots == 0..(CACHE_MAX_ENTRIES - 1)

Keys == {"ntlb", "pwc"} \X Nat \X {0, 1}

\* The type of the statics.
Sim == [systs : Nat, accs : Nat, hit : BOOLEAN,
        ntlb : Table, ntlb_cnt : Counter, pwc : Table, pwc_cnt : Counter,
        desc_miss : Nat, seen : SUBSET Keys, stale : BOOLEAN]

\* Whatever a table holds was looked up in this simulation.
Known(name, tlb, seen) ==
    \A i \in Slots : tlb[i].va # Invalid => <<name, tlb[i].va, tlb[i].asid>> \in seen

\* The NTLB never stores an asid.
NoAsid(tlb) == \A i \in Slots : tlb[i].asid = 0

\* Each entry but the one in slot 0 is where a look-up finds it, and only there.
\* ways[addr] is the set of slots visited for addr.
Findable(tlb, ways) ==
    \A i \in Slots \ {0} :
        tlb[i].va # Invalid => Matches(tlb, ways[tlb[i].va], tlb[i].va, tlb[i].asid) = {i}

AllNtlbWays == [addr \in Nat |-> NtlbWays(addr)]
AllPwcWays  == [addr \in Nat |-> PwcWays(addr)]

Good(s) ==
    /\ s \in Sim
    /\ ~s.stale
    /\ Known("ntlb", s.ntlb, s.seen) /\ Known("pwc", s.pwc, s.seen)
    /\ NoAsid(s.ntlb)
    /\ Findable(s.ntlb, AllNtlbWays) /\ Findable(s.pwc, AllPwcWays)

\* From s to u: n more NTLB look-ups, nm of them misses, p more PWC look-ups, pm
\* of them misses and d of these of guest descriptors, and a more memory accesses.
Ledger(s, u, n, nm, p, pm, d, a) ==
    /\ u.systs = s.systs + n + p
    /\ LookUps(u.ntlb_cnt) = LookUps(s.ntlb_cnt) + n
    /\ u.ntlb_cnt.miss = s.ntlb_cnt.miss + nm
    /\ LookUps(u.pwc_cnt) = LookUps(s.pwc_cnt) + p
    /\ u.pwc_cnt.miss = s.pwc_cnt.miss + pm
    /\ u.desc_miss = s.desc_miss + d
    /\ u.accs = s.accs + a

\* A look-up changes one slot: a match is touched, or the new entry displaces
\* that of slot 0 or of a visited slot.
OneSlot(tlb, tlb2, W, addr, asid) ==
    /\ Matches(tlb, W, addr, asid) # {} =>
          \A i \in Slots : tlb2[i].va = tlb[i].va /\ tlb2[i].asid = tlb[i].asid
    /\ Matches(tlb, W, addr, asid) = {} =>
          \E v \in W \cup {0} :
             /\ tlb2[v].va = addr /\ tlb2[v].asid = asid
             /\ \A i \in Slots \ {v} : tlb2[i] = tlb[i]

GeometryOK ==
    /\ ntlb_geo \in NtlbGeometry \cup {NoGeometry}
    /\ pwc_geo \in PwcGeometry \cup {NoGeometry}

-----------------------------------------------------------------------------
(* What the search and the choice of a victim return. *)

\* A set of naturals that is not empty has a least element.
LEMMA NatMin ==
  ASSUME NEW S \in SUBSET Nat, S # {}
  PROVE  \E m \in S : \A n \in S : m <= n
<1>1. IsWellFoundedOn(OpToRel(<, Nat), Nat)
  BY NatLessThanWellFounded, Zenon
<1>2. PICK m \in S : \A n \in S : ~(<<n, m>> \in OpToRel(<, Nat))
  BY <1>1, WFMin, Zenon
<1>3. \A n \in S : ~(n < m)
  BY <1>2, Zenon DEF OpToRel
<1>4. QED
  BY <1>3

\* The search of a set that holds a match returns a match.
LEMMA FirstIsMember ==
  ASSUME NEW S \in SUBSET Nat, S # {}
  PROVE  First(S) \in S
BY NatMin, Zenon DEF First

\* Among finitely or infinitely many slots with natural time stamps one is the
\* oldest, and among equally old ones the first is well defined.
LEMMA OldestExists ==
  ASSUME NEW tlb, NEW S \in SUBSET Nat, S # {}, \A i \in S : tlb[i].ts \in Nat
  PROVE  \E i \in S : Oldest(tlb, S, i)
<1> DEFINE V == {tlb[i].ts : i \in S}
<1>1. PICK v \in V : \A w \in V : v <= w
  <2>1. V \in SUBSET Nat /\ V # {}
    BY Zenon
  <2>2. QED
    BY <2>1, NatMin, Zenon
<1> DEFINE T == {i \in S : tlb[i].ts = v}
<1>2. PICK i \in T : \A j \in T : i <= j
  <2>1. T \in SUBSET Nat /\ T # {}
    BY Zenon
  <2>2. QED
    BY <2>1, NatMin, Zenon
<1>3. ASSUME NEW j \in S
      PROVE  tlb[i].ts < tlb[j].ts \/ (tlb[i].ts = tlb[j].ts /\ i <= j)
  <2>1. tlb[i].ts = v /\ v <= tlb[j].ts
    BY <1>1, <1>2, Zenon
  <2>2. tlb[j].ts = v => i <= j
    BY <1>2, Zenon
  <2>3. tlb[i].ts \in Nat /\ tlb[j].ts \in Nat
    BY <1>2
  <2>4. QED
    BY <2>1, <2>2, <2>3
<1>4. QED
  BY <1>2, <1>3 DEF Oldest

\* The refill goes to a visited slot or to slot 0.
LEMMA VictimIsSlot ==
  ASSUME NEW tlb \in Table, NEW W \in SUBSET Slots
  PROVE  Victim(tlb, W) \in W \cup {0}
<1> DEFINE S == Older(tlb, W)
<1>1. S \in SUBSET W
  BY DEF Older
<1>2. CASE S = {}
  BY <1>2 DEF Victim
<1>3. CASE S # {}
  <2>1. S \in SUBSET Nat /\ \A i \in S : tlb[i].ts \in Nat
    <3>1. S \in SUBSET Slots
      BY <1>1, Zenon
    <3>2. S \in SUBSET Nat
      BY <3>1 DEF Slots
    <3>3. \A i \in Slots : tlb[i].ts \in Nat
      BY TsModAssumption DEF Slots, Table
    <3> QED
      BY <3>1, <3>2, <3>3, Zenon
  <2>2. \E i \in S : Oldest(tlb, S, i)
    BY <1>3, <2>1, OldestExists
  <2> QED
    BY <1>1, <1>3, <2>2 DEF Victim
<1> QED
  BY <1>2, <1>3

-----------------------------------------------------------------------------
(* One look-up. *)

\* The visited slots lie in the static table.
LEMMA WaysInTable ==
  ASSUME GeometryOK, NEW addr
  PROVE  NtlbWays(addr) \in SUBSET Slots /\ PwcWays(addr) \in SUBSET Slots
<1>1. /\ ntlb_geo[1] \in Nat /\ ntlb_geo[1] <= CACHE_MAX_ENTRIES
      /\ pwc_geo[1] \in Nat /\ pwc_geo[1] <= CACHE_MAX_ENTRIES
  BY GeometryAssumption, BoundsAssumption DEF GeometryOK, NoGeometry
<1> QED
  BY <1>1, BoundsAssumption DEF NtlbWays, PwcWays, Ways, Slots

\* What a look-up does to a table.
LEMMA LookUpEffect ==
  ASSUME NEW tlb \in Table, NEW W \in SUBSET Slots, NEW addr \in Nat,
         NEW asid \in {0, 1}, NEW systs \in Nat
  PROVE  /\ LookUp(tlb, W, addr, asid, systs) \in Table
         /\ OneSlot(tlb, LookUp(tlb, W, addr, asid, systs), W, addr, asid)
<1> DEFINE tlb2 == LookUp(tlb, W, addr, asid, systs)
<1> DEFINE M == Matches(tlb, W, addr, asid)
<1>1. Stamp(systs) \in 0..(TsMod - 1)
  BY TsModAssumption DEF Stamp
<1>2. CASE M # {}
  <2>1. M \in SUBSET Slots
    BY DEF Matches
  <2>2. M \in SUBSET Nat
    BY <2>1 DEF Slots
  <2>3. First(M) \in Slots
    BY <1>2, <2>1, <2>2, FirstIsMember
  <2>4. tlb2 = Touch(tlb, First(M), systs)
    BY <1>2 DEF LookUp
  <2> HIDE DEF tlb2
  <2>5. /\ tlb2 \in Table
        /\ \A i \in Slots : tlb2[i].va = tlb[i].va /\ tlb2[i].asid = tlb[i].asid
    BY <1>1, <2>3, <2>4 DEF Touch, Table, Slots
  <2>6. tlb2 \in Table /\ OneSlot(tlb, tlb2, W, addr, asid)
    BY <1>2, <2>5 DEF OneSlot
  <2> QED
    BY <2>6 DEF tlb2
<1>3. CASE M = {}
  <2> DEFINE v == Victim(tlb, W)
  <2>1. v \in Slots /\ (v # 0 => v \in W)
    <3>1. v \in W \cup {0}
      BY VictimIsSlot
    <3>2. W \in SUBSET Slots /\ 0 \in Slots
      BY BoundsAssumption DEF Slots
    <3> HIDE DEF v
    <3> QED
      BY <3>1, <3>2, Zenon
  <2>2. tlb2 = Refill(tlb, v, addr, asid, systs)
    BY <1>3 DEF LookUp
  <2> HIDE DEF v, tlb2
  <2>3. /\ tlb2 \in Table
        /\ v \in W \cup {0}
        /\ tlb2[v].va = addr /\ tlb2[v].asid = asid
        /\ \A i \in Slots \ {v} : tlb2[i] = tlb[i]
    BY <1>1, <2>1, <2>2 DEF Refill, Table, Slots
  <2>4. tlb2 \in Table /\ OneSlot(tlb, tlb2, W, addr, asid)
    BY <1>3, <2>3 DEF OneSlot
  <2> QED
    BY <2>4 DEF tlb2
<1> QED
  BY <1>2, <1>3

\* After a look-up the table holds what it held before and the address that was
\* looked up, and a match proves that the address was known.
LEMMA LookUpKnown ==
  ASSUME NEW tlb \in Table, NEW W \in SUBSET Slots, NEW addr \in Nat,
         NEW asid \in {0, 1}, NEW tlb2, OneSlot(tlb, tlb2, W, addr, asid),
         NEW name, NEW seen, Known(name, tlb, seen)
  PROVE  /\ Known(name, tlb2, seen \cup {<<name, addr, asid>>})
         /\ Matches(tlb, W, addr, asid) # {} => <<name, addr, asid>> \in seen
<1>1. CASE Matches(tlb, W, addr, asid) # {}
  <2>1. \A i \in Slots : tlb2[i].va = tlb[i].va /\ tlb2[i].asid = tlb[i].asid
    BY <1>1 DEF OneSlot
  <2>2. PICK i \in W : tlb[i].va = addr /\ tlb[i].asid = asid
    BY <1>1 DEF Matches, Holds
  <2>3. <<name, addr, asid>> \in seen
    <3>1. i \in Slots /\ tlb[i].va # Invalid
      BY <2>2 DEF Invalid
    <3>2. <<name, tlb[i].va, tlb[i].asid>> \in seen
      BY <3>1 DEF Known
    <3> QED
      BY <2>2, <3>2
  <2> QED
    BY <2>1, <2>3 DEF Known
<1>2. CASE Matches(tlb, W, addr, asid) = {}
  <2>1. PICK v \in W \cup {0} :
            /\ tlb2[v].va = addr /\ tlb2[v].asid = asid
            /\ \A i \in Slots \ {v} : tlb2[i] = tlb[i]
    BY <1>2 DEF OneSlot
  <2> QED
    BY <1>2, <2>1 DEF Known
<1> QED
  BY <1>1, <1>2

\* A look-up leaves every entry but that of slot 0 findable.
LEMMA LookUpFindable ==
  ASSUME NEW tlb \in Table, NEW ways \in [Nat -> SUBSET Slots], NEW addr \in Nat,
         NEW asid \in {0, 1}, NEW tlb2, OneSlot(tlb, tlb2, ways[addr], addr, asid),
         Findable(tlb, ways)
  PROVE  Findable(tlb2, ways)
<1>0. ways[addr] \in SUBSET Slots
  OBVIOUS
<1>1. CASE Matches(tlb, ways[addr], addr, asid) # {}
  <2>1. \A i \in Slots : tlb2[i].va = tlb[i].va /\ tlb2[i].asid = tlb[i].asid
    BY <1>1 DEF OneSlot
  <2> SUFFICES ASSUME NEW i \in Slots \ {0}, tlb2[i].va # Invalid
               PROVE  Matches(tlb2, ways[tlb2[i].va], tlb2[i].va, tlb2[i].asid) = {i}
    BY DEF Findable
  <2>2. Matches(tlb, ways[tlb[i].va], tlb[i].va, tlb[i].asid) = {i}
    BY <2>1 DEF Findable
  <2>3. tlb[i].va \in Nat
    BY <2>1 DEF Table, Slots
  <2>4. ways[tlb[i].va] \in SUBSET Slots
    BY <2>3
  <2> QED
    BY <2>1, <2>2, <2>4 DEF Matches, Holds
<1>2. CASE Matches(tlb, ways[addr], addr, asid) = {}
  <2>1. PICK v \in ways[addr] \cup {0} :
            /\ tlb2[v].va = addr /\ tlb2[v].asid = asid
            /\ \A i \in Slots \ {v} : tlb2[i] = tlb[i]
    BY <1>2 DEF OneSlot
  <2> SUFFICES ASSUME NEW i \in Slots \ {0}, tlb2[i].va # Invalid
               PROVE  Matches(tlb2, ways[tlb2[i].va], tlb2[i].va, tlb2[i].asid) = {i}
    BY DEF Findable
  <2>2. CASE i = v
    <3>1. i \in ways[addr]
      BY <2>1, <2>2
    <3> QED
      BY <1>0, <1>2, <2>1, <2>2, <3>1 DEF Matches, Holds
  <2>3. CASE i # v
    <3>1. tlb2[i] = tlb[i]
      BY <2>1, <2>3
    <3>2. Matches(tlb, ways[tlb[i].va], tlb[i].va, tlb[i].asid) = {i}
      BY <3>1 DEF Findable
    <3>3. tlb[i].va \in Nat
      BY <3>1 DEF Table, Slots
    <3>4. ways[tlb[i].va] \in SUBSET Slots
      BY <3>3
    <3>5. ~(tlb[i].va = addr /\ tlb[i].asid = asid)
      BY <1>2, <3>2
    <3> QED
      BY <2>1, <3>1, <3>2, <3>4, <3>5 DEF Matches, Holds
  <2> QED
    BY <2>2, <2>3
<1> QED
  BY <1>1, <1>2

\* Counting a look-up.
LEMMA CountEffect ==
  ASSUME NEW cnt \in Counter, NEW hit \in BOOLEAN
  PROVE  /\ Count(cnt, hit) \in Counter
         /\ LookUps(Count(cnt, hit)) = LookUps(cnt) + 1
         /\ Count(cnt, hit).miss = cnt.miss + (IF hit THEN 0 ELSE 1)
BY DEF Count, Counter, LookUps

\* Noting a look-up changes the history only.
LEMMA WitnessEffect ==
  ASSUME NEW s \in Sim, NEW hit \in BOOLEAN, NEW key \in Keys,
         ~s.stale, hit => key \in s.seen
  PROVE  LET w == Witness(s, hit, key)
         IN  /\ w \in Sim /\ ~w.stale /\ w.seen = s.seen \cup {key}
             /\ w.systs = s.systs /\ w.accs = s.accs
             /\ w.ntlb = s.ntlb /\ w.ntlb_cnt = s.ntlb_cnt
             /\ w.pwc = s.pwc /\ w.pwc_cnt = s.pwc_cnt /\ w.desc_miss = s.desc_miss
<1> DEFINE w     == Witness(s, hit, key)
           stale == s.stale \/ (hit /\ key \notin s.seen)
           seen  == s.seen \cup {key}
<1>1. stale = FALSE
  OBVIOUS
<1>2. seen \in SUBSET Keys
  BY DEF Sim
<1>3. w = [s EXCEPT !.seen = seen, !.stale = FALSE]
  <2>1. w = [s EXCEPT !.seen = seen, !.stale = stale]
    BY DEF Witness, Sim
  <2> HIDE DEF stale
  <2> QED
    BY <1>1, <2>1, Zenon
<1> HIDE DEF w, seen
<1>4. w \in Sim
  BY <1>2, <1>3, Zenon DEF Sim
<1>5. /\ ~w.stale /\ w.seen = seen
      /\ w.systs = s.systs /\ w.accs = s.accs
      /\ w.ntlb = s.ntlb /\ w.ntlb_cnt = s.ntlb_cnt
      /\ w.pwc = s.pwc /\ w.pwc_cnt = s.pwc_cnt /\ w.desc_miss = s.desc_miss
  BY <1>3 DEF Sim
<1> QED
  BY <1>4, <1>5 DEF w, seen

\* A look-up in the NTLB keeps the caches sound and is one line of the ledger.
LEMMA NtlbFind ==
  ASSUME GeometryOK, NEW s, Good(s), NEW addr \in Nat
  PROVE  LET u == tlbtrace_ntlb_find(s, addr)
         IN  Good(u) /\ Ledger(s, u, 1, IF u.hit THEN 0 ELSE 1, 0, 0, 0, 0)
<1> DEFINE W    == NtlbWays(addr)
           hit  == Matches(s.ntlb, W, addr, 0) # {}
           key  == <<"ntlb", addr, 0>>
           w    == Witness(s, hit, key)
           tlb2 == LookUp(s.ntlb, W, addr, 0, s.systs + 1)
           cnt2 == Count(s.ntlb_cnt, hit)
           u    == tlbtrace_ntlb_find(s, addr)
<1>1. /\ s \in Sim /\ s.ntlb \in Table /\ s.systs \in Nat /\ s.systs + 1 \in Nat
      /\ s.ntlb_cnt \in Counter /\ s.pwc_cnt \in Counter
      /\ s.accs \in Nat /\ s.desc_miss \in Nat
  BY DEF Good, Sim
<1>2. AllNtlbWays \in [Nat -> SUBSET Slots] /\ AllNtlbWays[addr] = W /\ W \in SUBSET Slots
  BY WaysInTable DEF AllNtlbWays
<1>3. tlb2 \in Table /\ OneSlot(s.ntlb, tlb2, W, addr, 0)
  BY <1>1, <1>2, LookUpEffect, Zenon
<1>4. hit \in BOOLEAN /\ key \in Keys
  BY DEF Keys
<1>5. /\ cnt2 \in Counter
      /\ LookUps(cnt2) = LookUps(s.ntlb_cnt) + 1
      /\ cnt2.miss = s.ntlb_cnt.miss + (IF hit THEN 0 ELSE 1)
  BY <1>1, <1>4, CountEffect, Zenon
<1>6. Known("ntlb", tlb2, s.seen \cup {key}) /\ (hit => key \in s.seen)
  BY <1>1, <1>2, <1>3, LookUpKnown, Zenon DEF Good
<1>7. Known("pwc", s.pwc, s.seen \cup {key})
  BY DEF Good, Known
<1>8. NoAsid(tlb2)
  BY <1>3 DEF Good, NoAsid, OneSlot
<1>9. Findable(tlb2, AllNtlbWays)
  BY <1>1, <1>2, <1>3, LookUpFindable DEF Good
<1>10. /\ w \in Sim /\ ~w.stale /\ w.seen = s.seen \cup {key}
       /\ w.systs = s.systs /\ w.accs = s.accs
       /\ w.ntlb = s.ntlb /\ w.ntlb_cnt = s.ntlb_cnt
       /\ w.pwc = s.pwc /\ w.pwc_cnt = s.pwc_cnt /\ w.desc_miss = s.desc_miss
  BY <1>1, <1>4, <1>6, WitnessEffect, ZenonT(30) DEF Good
<1>11. u = [w EXCEPT !.systs = s.systs + 1, !.hit = hit, !.ntlb = tlb2, !.ntlb_cnt = cnt2]
  BY ONLY Zenon DEF tlbtrace_ntlb_find
<1> HIDE DEF W, hit, key, w, u, tlb2, cnt2
<1>12. /\ u.systs = s.systs + 1 /\ u.accs = s.accs /\ u.hit = hit
       /\ u.ntlb = tlb2 /\ u.ntlb_cnt = cnt2
       /\ u.pwc = s.pwc /\ u.pwc_cnt = s.pwc_cnt /\ u.desc_miss = s.desc_miss
       /\ u.seen = s.seen \cup {key} /\ u.stale = w.stale
  BY <1>10, <1>11 DEF Sim
<1>13. u \in Sim
  BY <1>1, <1>3, <1>4, <1>5, <1>10, <1>11, Zenon DEF Sim
<1>14. Good(u)
  BY <1>6, <1>7, <1>8, <1>9, <1>10, <1>12, <1>13 DEF Good
<1>15. Ledger(s, u, 1, IF u.hit THEN 0 ELSE 1, 0, 0, 0, 0)
  BY <1>1, <1>4, <1>5, <1>12 DEF Ledger, LookUps, Counter
<1> QED
  BY <1>14, <1>15 DEF u

\* A look-up in the PWC keeps the caches sound and is one line of the ledger.
LEMMA PwcFind ==
  ASSUME GeometryOK, NEW s, Good(s), NEW addr \in Nat, NEW asid \in {0, 1}
  PROVE  LET u == tlbtrace_refppa_pwc(s, addr, asid)
         IN  /\ Good(u)
             /\ Ledger(s, u, 0, 0, 1, IF u.hit THEN 0 ELSE 1,
                       IF u.hit \/ asid = 0 THEN 0 ELSE 1, 0)
<1> DEFINE W    == PwcWays(addr)
           hit  == Matches(s.pwc, W, addr, asid) # {}
           key  == <<"pwc", addr, asid>>
           w    == Witness(s, hit, key)
           tlb2 == LookUp(s.pwc, W, addr, asid, s.systs + 1)
           cnt2 == Count(s.pwc_cnt, hit)
           miss2 == s.desc_miss + (IF hit \/ asid = 0 THEN 0 ELSE 1)
           u    == tlbtrace_refppa_pwc(s, addr, asid)
<1>1. /\ s \in Sim /\ s.pwc \in Table /\ s.systs \in Nat /\ s.systs + 1 \in Nat
      /\ s.ntlb_cnt \in Counter /\ s.pwc_cnt \in Counter
      /\ s.accs \in Nat /\ s.desc_miss \in Nat
  BY DEF Good, Sim
<1>2. AllPwcWays \in [Nat -> SUBSET Slots] /\ AllPwcWays[addr] = W /\ W \in SUBSET Slots
  BY WaysInTable DEF AllPwcWays
<1>3. tlb2 \in Table /\ OneSlot(s.pwc, tlb2, W, addr, asid)
  BY <1>1, <1>2, LookUpEffect, Zenon
<1>4. hit \in BOOLEAN /\ key \in Keys
  BY DEF Keys
<1>5. /\ cnt2 \in Counter
      /\ LookUps(cnt2) = LookUps(s.pwc_cnt) + 1
      /\ cnt2.miss = s.pwc_cnt.miss + (IF hit THEN 0 ELSE 1)
  BY <1>1, <1>4, CountEffect, Zenon
<1>6. Known("pwc", tlb2, s.seen \cup {key}) /\ (hit => key \in s.seen)
  BY <1>1, <1>2, <1>3, LookUpKnown, ZenonT(30) DEF Good
<1>7. Known("ntlb", s.ntlb, s.seen \cup {key})
  BY DEF Good, Known
<1>8. NoAsid(s.ntlb)
  BY <1>3 DEF Good, NoAsid, OneSlot
<1>9. Findable(tlb2, AllPwcWays)
  BY <1>1, <1>2, <1>3, LookUpFindable DEF Good
<1>10. /\ w \in Sim /\ ~w.stale /\ w.seen = s.seen \cup {key}
       /\ w.systs = s.systs /\ w.accs = s.accs
       /\ w.ntlb = s.ntlb /\ w.ntlb_cnt = s.ntlb_cnt
       /\ w.pwc = s.pwc /\ w.pwc_cnt = s.pwc_cnt /\ w.desc_miss = s.desc_miss
  BY <1>1, <1>4, <1>6, WitnessEffect, ZenonT(30) DEF Good
<1>11. u = [w EXCEPT !.systs = s.systs + 1, !.hit = hit, !.pwc = tlb2,
                      !.pwc_cnt = cnt2, !.desc_miss = miss2]
  BY ONLY Zenon DEF tlbtrace_refppa_pwc
<1> HIDE DEF hit
<1>16. miss2 \in Nat
  BY <1>1
<1> HIDE DEF W, key, w, u, tlb2, cnt2, miss2
<1>12. /\ u.systs = s.systs + 1 /\ u.accs = s.accs /\ u.hit = hit
       /\ u.pwc = tlb2 /\ u.pwc_cnt = cnt2 /\ u.desc_miss = miss2
       /\ u.ntlb = s.ntlb /\ u.ntlb_cnt = s.ntlb_cnt
       /\ u.seen = s.seen \cup {key} /\ u.stale = w.stale
  BY <1>10, <1>11 DEF Sim
<1>13. u \in Sim
  BY <1>1, <1>3, <1>4, <1>5, <1>10, <1>11, <1>16, Zenon DEF Sim
<1>14. Good(u)
  BY <1>6, <1>7, <1>8, <1>9, <1>10, <1>12, <1>13 DEF Good
<1>15. Ledger(s, u, 0, 0, 1, IF u.hit THEN 0 ELSE 1,
              IF u.hit \/ asid = 0 THEN 0 ELSE 1, 0)
  BY <1>1, <1>4, <1>5, <1>12 DEF Ledger, LookUps, Counter, miss2
<1> QED
  BY <1>14, <1>15 DEF u

-----------------------------------------------------------------------------
(* Chains of look-ups. *)

\* Memory accesses change nothing else.
LEMMA AccessEffect ==
  ASSUME NEW s, Good(s), NEW n \in Nat
  PROVE  Good(Access(s, n)) /\ Ledger(s, Access(s, n), 0, 0, 0, 0, 0, n)
<1> DEFINE u == Access(s, n)
<1>1. s \in Sim /\ u = [s EXCEPT !.accs = s.accs + n]
  BY DEF Good, Access, Sim
<1> HIDE DEF u
<1>2. u \in Sim
  BY <1>1 DEF Sim
<1>3. /\ u.systs = s.systs /\ u.accs = s.accs + n
      /\ u.ntlb = s.ntlb /\ u.ntlb_cnt = s.ntlb_cnt
      /\ u.pwc = s.pwc /\ u.pwc_cnt = s.pwc_cnt /\ u.desc_miss = s.desc_miss
      /\ u.seen = s.seen /\ u.stale = s.stale
  BY <1>1 DEF Sim
<1>4. Good(u)
  BY <1>2, <1>3 DEF Good
<1>5. Ledger(s, u, 0, 0, 0, 0, 0, n)
  BY <1>1, <1>3 DEF Ledger, LookUps, Sim, Counter
<1> QED
  BY <1>4, <1>5 DEF u

\* The counters of a sound simulation are naturals.
LEMMA GoodCounts ==
  ASSUME NEW r, Good(r)
  PROVE  /\ r.systs \in Nat /\ r.accs \in Nat
         /\ r.ntlb_cnt.hit \in Nat /\ r.ntlb_cnt.miss \in Nat
         /\ r.pwc_cnt.hit \in Nat /\ r.pwc_cnt.miss \in Nat /\ r.desc_miss \in Nat
BY DEF Good, Sim, Counter

\* The lines of a chain add up.
LEMMA LedgerAdds ==
  ASSUME NEW s, NEW u, NEW v, Good(s), Good(u), Good(v),
         NEW n1 \in Nat, NEW nm1 \in Nat, NEW p1 \in Nat, NEW pm1 \in Nat,
         NEW d1 \in Nat, NEW a1 \in Nat,
         NEW n2 \in Nat, NEW nm2 \in Nat, NEW p2 \in Nat, NEW pm2 \in Nat,
         NEW d2 \in Nat, NEW a2 \in Nat,
         Ledger(s, u, n1, nm1, p1, pm1, d1, a1), Ledger(u, v, n2, nm2, p2, pm2, d2, a2)
  PROVE  Ledger(s, v, n1 + n2, nm1 + nm2, p1 + p2, pm1 + pm2, d1 + d2, a1 + a2)
<1>1. \A r \in {s, u, v} : /\ r.systs \in Nat /\ r.accs \in Nat
                           /\ r.ntlb_cnt.hit \in Nat /\ r.ntlb_cnt.miss \in Nat
                           /\ r.pwc_cnt.hit \in Nat /\ r.pwc_cnt.miss \in Nat /\ r.desc_miss \in Nat
  BY GoodCounts, Zenon
<1> QED
  BY <1>1 DEF Ledger, LookUps

\* Quotients and remainders of naturals.
LEMMA Division ==
  ASSUME NEW a \in Nat, NEW k \in Nat \ {0}
  PROVE  a % k \in Nat /\ a % k <= a /\ a \div k \in Nat
OBVIOUS

\* The addresses that are looked up are naturals.
LEMMA Addresses ==
  ASSUME NEW addr \in Nat
  PROVE  Frame(addr) \in Nat /\ l1_mpa(addr) \in Nat /\ l2_mpa(addr) \in Nat
<1> DEFINE o == addr % 4096
           m == addr \div 1048576
           p == addr \div 4096
           q == p % 256
<1>1. o \in Nat /\ o <= addr
  BY Division, SMT
<1>2. m \in Nat /\ p \in Nat
  BY Division, SMT
<1> HIDE DEF p
<1>3. q \in Nat
  BY <1>2, Division, SMT
<1> HIDE DEF o, m, q
<1>4. Frame(addr) = addr - o /\ l1_mpa(addr) = m * 4
  BY SMT DEF Frame, l1_mpa, o, m
<1>5. l2_mpa(addr) = 16 * 1024 + m * 1024 + q * 4
  BY SMT DEF l2_mpa, m, p, q
<1>6. /\ addr - o \in Nat /\ m * 4 \in Nat
      /\ 16 * 1024 + m * 1024 + q * 4 \in Nat
  BY <1>1, <1>2, <1>3, SMT
<1> QED
  BY <1>4, <1>5, <1>6, SMT

\* A descriptor through the PWC: one look-up, an access for a miss.
LEMMA FetchEffect ==
  ASSUME GeometryOK, NEW s, Good(s), NEW addr \in Nat, NEW asid \in {0, 1}
  PROVE  /\ Good(Fetch(s, addr, asid))
         /\ \E m \in 0..1 :
               Ledger(s, Fetch(s, addr, asid), 0, 0, 1, m, IF asid = 0 THEN 0 ELSE m, m)
<1> DEFINE found == tlbtrace_refppa_pwc(s, addr, asid)
           u     == Fetch(s, addr, asid)
<1>1. /\ Good(found)
      /\ Ledger(s, found, 0, 0, 1, IF found.hit THEN 0 ELSE 1,
                IF found.hit \/ asid = 0 THEN 0 ELSE 1, 0)
  BY PwcFind, Zenon
<1>2. u = IF found.hit THEN found ELSE Access(found, 1)
  BY DEF Fetch
<1> HIDE DEF found, u
<1>3. CASE found.hit
  <2>1. Ledger(s, u, 0, 0, 1, 0, IF asid = 0 THEN 0 ELSE 0, 0)
    BY <1>1, <1>2, <1>3
  <2> QED
    BY <1>1, <1>2, <1>3, <2>1 DEF u
<1>4. CASE ~found.hit
  <2> DEFINE d == IF asid = 0 THEN 0 ELSE 1
  <2>0. d \in Nat /\ 0 \in Nat /\ 1 \in Nat
    OBVIOUS
  <2>1. Good(u) /\ Ledger(found, u, 0, 0, 0, 0, 0, 1)
    BY <1>1, <1>2, <1>4, AccessEffect
  <2>2. Ledger(s, found, 0, 0, 1, 1, d, 0)
    BY <1>1, <1>4
  <2> HIDE DEF d
  <2>3. Ledger(s, u, 0 + 0, 0 + 0, 1 + 0, 1 + 0, d + 0, 0 + 1)
    BY <1>1, <2>0, <2>1, <2>2, LedgerAdds, ZenonT(30)
  <2>4. Ledger(s, u, 0, 0, 1, 1, d, 1)
    BY <2>0, <2>3
  <2> QED
    BY <2>1, <2>4 DEF u, d
<1> QED
  BY <1>3, <1>4

\* An EPT walk: two look-ups, an access for each miss.
LEMMA EptWalkEffect ==
  ASSUME GeometryOK, NEW s, Good(s), NEW addr \in Nat
  PROVE  /\ Good(EptWalk(s, addr))
         /\ \E m \in 0..2 : Ledger(s, EptWalk(s, addr), 0, 0, 2, m, 0, m)
<1> DEFINE s1 == Fetch(s, l1_mpa(addr), 0)
           s2 == Fetch(s1, l2_mpa(addr), 0)
<1>0. ASSUME NEW r, Good(r), NEW a \in Nat
      PROVE  /\ Good(Fetch(r, a, 0))
             /\ \E m \in 0..1 : Ledger(r, Fetch(r, a, 0), 0, 0, 1, m, 0, m)
  <2>1. /\ Good(Fetch(r, a, 0))
        /\ \E m \in 0..1 :
              Ledger(r, Fetch(r, a, 0), 0, 0, 1, m, IF 0 = 0 THEN 0 ELSE m, m)
    BY <1>0, FetchEffect
  <2> QED
    BY <2>1, Zenon
<1>1. Good(s1) /\ \E m \in 0..1 : Ledger(s, s1, 0, 0, 1, m, 0, m)
  BY <1>0, Addresses
<1> HIDE DEF s1
<1>2. Good(s2) /\ \E m \in 0..1 : Ledger(s1, s2, 0, 0, 1, m, 0, m)
  BY <1>0, <1>1, Addresses, Zenon
<1>3. s2 = EptWalk(s, addr)
  BY DEF EptWalk, s1
<1> HIDE DEF s2
<1>4. PICK m1 \in 0..1 : Ledger(s, s1, 0, 0, 1, m1, 0, m1)
  BY <1>1
<1>5. PICK m2 \in 0..1 : Ledger(s1, s2, 0, 0, 1, m2, 0, m2)
  BY <1>2
<1>6. m1 \in Nat /\ m2 \in Nat /\ m1 + m2 \in 0..2
  BY <1>4, <1>5
<1>7. Ledger(s, s2, 0 + 0, 0 + 0, 1 + 1, m1 + m2, 0 + 0, m1 + m2)
  BY <1>1, <1>2, <1>4, <1>5, <1>6, LedgerAdds, ZenonT(30)
<1> QED
  BY <1>2, <1>3, <1>6, <1>7

\* Nothing happened.
LEMMA LedgerZero ==
  ASSUME NEW s, Good(s)
  PROVE  Ledger(s, s, 0, 0, 0, 0, 0, 0)
BY DEF Good, Sim, Counter, Ledger, LookUps

\* One address through the NTLB alone: two accesses for a miss, and one for the
\* descriptor unless the address is the final one.
LEMMA Find2Effect ==
  ASSUME GeometryOK, NEW s, Good(s), NEW addr \in Nat, NEW final \in BOOLEAN
  PROVE  LET u == tlbtrace_ntlb_find2(s, addr, final)
         IN  /\ Good(u)
             /\ \E m \in 0..1 :
                   Ledger(s, u, 1, m, 0, 0, 0, (IF final THEN 0 ELSE 1) + 2 * m)
<1> DEFINE found == tlbtrace_ntlb_find(s, addr)
           m     == IF found.hit THEN 0 ELSE 1
           a     == (IF final THEN 0 ELSE 1) + (IF found.hit THEN 0 ELSE 2)
           u     == tlbtrace_ntlb_find2(s, addr, final)
<1>1. Good(found) /\ Ledger(s, found, 1, m, 0, 0, 0, 0)
  BY NtlbFind
<1>2. u = Access(found, a)
  BY DEF tlbtrace_ntlb_find2
<1>3. m \in 0..1 /\ m \in Nat /\ a \in Nat /\ a = (IF final THEN 0 ELSE 1) + 2 * m
  OBVIOUS
<1> HIDE DEF found, u, m, a
<1>4. Good(u) /\ Ledger(found, u, 0, 0, 0, 0, 0, a)
  BY <1>1, <1>2, <1>3, AccessEffect
<1>5. Ledger(s, u, 1 + 0, m + 0, 0 + 0, 0 + 0, 0 + 0, 0 + a)
  BY <1>1, <1>3, <1>4, LedgerAdds, ZenonT(30)
<1>6. Ledger(s, u, 1, m, 0, 0, 0, a)
  BY <1>3, <1>5
<1> QED
  BY <1>3, <1>4, <1>6 DEF u

\* The look-ups of guest descriptors and of final addresses a tuple asks for.
Guest(t) == IF t.level > 1 THEN 2 ELSE 1
Final(t) == IF t.level > 2 THEN 1 ELSE 0

\* The NTLB alone.
LEMMA Ntlb2Effect ==
  ASSUME GeometryOK, NEW s, Good(s), NEW t \in Tuples
  PROVE  LET u == emulate_ntlb2(s, t)
         IN  /\ Good(u)
             /\ \E m \in 0..(Guest(t) + Final(t)) :
                   Ledger(s, u, Guest(t) + Final(t), m, 0, 0, 0, Guest(t) + 2 * m)
<1> DEFINE s1 == tlbtrace_ntlb_find2(s, Frame(t.l1), FALSE)
           s2 == IF t.level > 1 THEN tlbtrace_ntlb_find2(s1, Frame(t.l2), FALSE) ELSE s1
           s3 == IF t.level > 2 THEN tlbtrace_ntlb_find2(s2, t.gpa, TRUE) ELSE s2
           g  == IF t.level > 1 THEN 1 ELSE 0
<1>0. /\ t.level \in 0..15
      /\ Frame(t.l1) \in Nat /\ Frame(t.l2) \in Nat /\ t.gpa \in Nat
  BY TuplesAssumption, Addresses
<1>1. Good(s1) /\ \E m \in 0..1 : Ledger(s, s1, 1, m, 0, 0, 0, 1 + 2 * m)
  <2>1. Good(s1) /\ \E m \in 0..1 :
            Ledger(s, s1, 1, m, 0, 0, 0, (IF FALSE THEN 0 ELSE 1) + 2 * m)
    BY <1>0, Find2Effect, Zenon
  <2> QED
    BY <2>1, Zenon
<1> HIDE DEF s1
<1>2. Good(s2) /\ \E m \in 0..g : Ledger(s1, s2, g, m, 0, 0, 0, g + 2 * m)
  <2>1. CASE t.level > 1
    <3>1. Good(s2) /\ \E m \in 0..1 :
            Ledger(s1, s2, 1, m, 0, 0, 0, (IF FALSE THEN 0 ELSE 1) + 2 * m)
      BY <1>0, <1>1, <2>1, Find2Effect, Zenon
    <3> QED
      BY <2>1, <3>1, Zenon
  <2>2. CASE ~(t.level > 1)
    <3>1. s2 = s1 /\ g = 0 /\ 0 \in 0..g /\ g + 2 * 0 = 0
      BY <2>2
    <3>2. Ledger(s1, s2, g, 0, 0, 0, 0, g + 2 * 0)
      BY <1>1, <3>1, LedgerZero, Zenon
    <3> QED
      BY <1>1, <3>1, <3>2, Zenon
  <2> QED
    BY <2>1, <2>2, Zenon
<1> HIDE DEF s2
<1>3. Good(s3) /\ \E m \in 0..Final(t) : Ledger(s2, s3, Final(t), m, 0, 0, 0, 2 * m)
  <2>1. CASE t.level > 2
    <3>1. Good(s3) /\ \E m \in 0..1 :
            Ledger(s2, s3, 1, m, 0, 0, 0, (IF TRUE THEN 0 ELSE 1) + 2 * m)
      BY <1>0, <1>2, <2>1, Find2Effect, Zenon
    <3>2. Final(t) = 1
      BY <2>1 DEF Final
    <3>3. PICK m \in 0..1 : Ledger(s2, s3, 1, m, 0, 0, 0, 0 + 2 * m)
      BY <3>1, Zenon
    <3>4. 0 + 2 * m = 2 * m
      BY <3>3
    <3> QED
      BY <3>1, <3>2, <3>3, <3>4, Zenon
  <2>2. CASE ~(t.level > 2)
    <3>1. s3 = s2 /\ Final(t) = 0 /\ 0 \in 0..Final(t) /\ 2 * 0 = 0
      BY <2>2 DEF Final
    <3>2. Ledger(s2, s3, Final(t), 0, 0, 0, 0, 2 * 0)
      BY <1>2, <3>1, LedgerZero, Zenon
    <3> QED
      BY <1>2, <3>1, <3>2, Zenon
  <2> QED
    BY <2>1, <2>2, Zenon
<1>4. s3 = emulate_ntlb2(s, t)
  BY DEF emulate_ntlb2, s1, s2
<1>5. g \in Nat /\ Guest(t) = 1 + g /\ Final(t) \in Nat
  BY <1>0 DEF Guest, Final
<1> HIDE DEF s3, g
<1>6. PICK m1 \in 0..1 : Ledger(s, s1, 1, m1, 0, 0, 0, 1 + 2 * m1)
  BY <1>1
<1>7. PICK m2 \in 0..g : Ledger(s1, s2, g, m2, 0, 0, 0, g + 2 * m2)
  BY <1>2
<1>8. PICK m3 \in 0..Final(t) : Ledger(s2, s3, Final(t), m3, 0, 0, 0, 2 * m3)
  BY <1>3
<1>9. /\ m1 \in Nat /\ m2 \in Nat /\ m3 \in Nat
      /\ 1 + 2 * m1 \in Nat /\ g + 2 * m2 \in Nat /\ 2 * m3 \in Nat
      /\ m1 + m2 + m3 \in 0..(Guest(t) + Final(t))
  BY <1>5, <1>6, <1>7, <1>8
<1>10. Ledger(s, s2, 1 + g, m1 + m2, 0 + 0, 0 + 0, 0 + 0, (1 + 2 * m1) + (g + 2 * m2))
  BY <1>1, <1>2, <1>5, <1>6, <1>7, <1>9, LedgerAdds, ZenonT(30)
<1>11. Ledger(s, s2, 1 + g, m1 + m2, 0, 0, 0, (1 + 2 * m1) + (g + 2 * m2))
  BY <1>10
<1>12. Ledger(s, s3, (1 + g) + Final(t), (m1 + m2) + m3, 0 + 0, 0 + 0, 0 + 0,
              ((1 + 2 * m1) + (g + 2 * m2)) + 2 * m3)
  <2>1. 1 + g \in Nat /\ m1 + m2 \in Nat /\ (1 + 2 * m1) + (g + 2 * m2) \in Nat
    BY <1>5, <1>9
  <2> QED
    BY <1>2, <1>3, <1>5, <1>8, <1>9, <1>11, <2>1, LedgerAdds, ZenonT(30)
<1>13. Ledger(s, s3, Guest(t) + Final(t), m1 + m2 + m3, 0, 0, 0,
              Guest(t) + 2 * (m1 + m2 + m3))
  <2>1. ((1 + 2 * m1) + (g + 2 * m2)) + 2 * m3 = Guest(t) + 2 * (m1 + m2 + m3)
    BY <1>5, <1>9
  <2> QED
    BY <1>5, <1>12, <2>1
<1> QED
  BY <1>3, <1>4, <1>9, <1>13

-----------------------------------------------------------------------------
(* The organisations with a PWC. *)

\* What tells the organisations apart: n look-ups in the NTLB, nm of them
\* misses, and e EPT walks, for d guest descriptors that were not in the PWC and f
\* final addresses.
Kind(c, n, nm, e, d, f) ==
    /\ c # "NTLB_PWC" => n = 0 /\ nm = 0
    /\ c = "NTLB_PWC" => n = d + f /\ e = nm
    /\ c = "PWC_EPT" => e = d + f
    /\ c = "PWC_NOEPT" => e = 0

\* From s to u organisation c looks up g guest descriptors in the PWC, translates f
\* final addresses, looks up two EPT descriptors for each of its EPT walks, and
\* pays for at most max misses.
Cost(c, s, u, g, f, max) ==
    \E n, nm, e, d, m \in Nat :
        /\ Kind(c, n, nm, e, d, f) /\ m <= max
        /\ Ledger(s, u, n, nm, g + 2 * e, m, d, m)

\* Costs add up.
LEMMA CostAdds ==
  ASSUME NEW c, NEW s, NEW u, NEW v, Good(s), Good(u), Good(v),
         NEW g1 \in Nat, NEW g2 \in Nat, NEW f1 \in Nat, NEW f2 \in Nat,
         NEW max1 \in Nat, NEW max2 \in Nat,
         Cost(c, s, u, g1, f1, max1), Cost(c, u, v, g2, f2, max2)
  PROVE  Cost(c, s, v, g1 + g2, f1 + f2, max1 + max2)
<1>1. PICK n1 \in Nat, nm1 \in Nat, e1 \in Nat, d1 \in Nat, m1 \in Nat :
         /\ Kind(c, n1, nm1, e1, d1, f1) /\ m1 <= max1
         /\ Ledger(s, u, n1, nm1, g1 + 2 * e1, m1, d1, m1)
  BY Zenon DEF Cost
<1>2. PICK n2 \in Nat, nm2 \in Nat, e2 \in Nat, d2 \in Nat, m2 \in Nat :
         /\ Kind(c, n2, nm2, e2, d2, f2) /\ m2 <= max2
         /\ Ledger(u, v, n2, nm2, g2 + 2 * e2, m2, d2, m2)
  BY Zenon DEF Cost
<1>3. g1 + 2 * e1 \in Nat /\ g2 + 2 * e2 \in Nat
  BY <1>1, <1>2
<1>4. Ledger(s, v, n1 + n2, nm1 + nm2, (g1 + 2 * e1) + (g2 + 2 * e2), m1 + m2,
             d1 + d2, m1 + m2)
  BY <1>1, <1>2, <1>3, LedgerAdds, ZenonT(30)
<1>5. (g1 + 2 * e1) + (g2 + 2 * e2) = (g1 + g2) + 2 * (e1 + e2)
  BY <1>1, <1>2
<1>6. Kind(c, n1 + n2, nm1 + nm2, e1 + e2, d1 + d2, f1 + f2)
  BY <1>1, <1>2 DEF Kind
<1>7. /\ n1 + n2 \in Nat /\ nm1 + nm2 \in Nat /\ e1 + e2 \in Nat /\ m1 + m2 \in Nat
      /\ d1 + d2 \in Nat /\ m1 + m2 <= max1 + max2
  BY <1>1, <1>2
<1>8. Ledger(s, v, n1 + n2, nm1 + nm2, (g1 + g2) + 2 * (e1 + e2), m1 + m2, d1 + d2,
             m1 + m2)
  BY <1>4, <1>5
<1> HIDE DEF Kind, Ledger
<1> QED
  BY <1>6, <1>7, <1>8, Zenon DEF Cost

\* Doing nothing costs nothing.
LEMMA CostZero ==
  ASSUME NEW c, NEW s, Good(s)
  PROVE  Cost(c, s, s, 0, 0, 0)
<1>1. Ledger(s, s, 0, 0, 0 + 2 * 0, 0, 0, 0)
  BY LedgerZero
<1>2. Kind(c, 0, 0, 0, 0, 0)
  BY DEF Kind
<1> QED
  BY <1>1, <1>2 DEF Cost

\* A guest descriptor through the PWC, in an organisation without EPT.
LEMMA FetchCost ==
  ASSUME GeometryOK, NEW s, Good(s), NEW addr \in Nat
  PROVE  Cost("PWC_NOEPT", s, Fetch(s, addr, 1), 1, 0, 1)
<1>1. PICK m \in 0..1 :
        Ledger(s, Fetch(s, addr, 1), 0, 0, 1, m, IF 1 = 0 THEN 0 ELSE m, m)
  BY FetchEffect
<1>2. m \in Nat /\ m <= 1 /\ 1 + 2 * 0 = 1
  BY <1>1
<1>3. Kind("PWC_NOEPT", 0, 0, 0, m, 0)
  BY DEF Kind
<1>4. Ledger(s, Fetch(s, addr, 1), 0, 0, 1 + 2 * 0, m, m, m)
  BY <1>1, <1>2
<1> QED
  BY <1>2, <1>3, <1>4 DEF Cost

\* An EPT walk of the organisation that has only a PWC.
LEMMA EptWalkCost ==
  ASSUME GeometryOK, NEW s, Good(s), NEW addr \in Nat
  PROVE  Cost("PWC_EPT", s, EptWalk(s, addr), 0, 1, 2)
<1>1. PICK m \in 0..2 : Ledger(s, EptWalk(s, addr), 0, 0, 2, m, 0, m)
  BY EptWalkEffect
<1>2. m \in Nat /\ m <= 2 /\ 0 + 2 * 1 = 2
  BY <1>1
<1>3. Kind("PWC_EPT", 0, 0, 1, 0, 1)
  BY DEF Kind
<1>4. Ledger(s, EptWalk(s, addr), 0, 0, 0 + 2 * 1, m, 0, m)
  BY <1>1, <1>2
<1> QED
  BY <1>2, <1>3, <1>4 DEF Cost

\* Translate of emulate_full: an NTLB look-up, and an EPT walk for a miss.
Translate(u, addr, frame) ==
    LET found == tlbtrace_ntlb_find(u, frame)
    IN  IF found.hit THEN found ELSE EptWalk(found, addr)

\* A translation through the NTLB.
LEMMA TranslateCost ==
  ASSUME GeometryOK, NEW s, Good(s), NEW addr \in Nat, NEW frame \in Nat
  PROVE  /\ Good(Translate(s, addr, frame))
         /\ Cost("NTLB_PWC", s, Translate(s, addr, frame), 0, 1, 2)
<1> DEFINE found == tlbtrace_ntlb_find(s, frame)
           u     == Translate(s, addr, frame)
<1>1. Good(found) /\ Ledger(s, found, 1, IF found.hit THEN 0 ELSE 1, 0, 0, 0, 0)
  BY NtlbFind
<1>2. u = IF found.hit THEN found ELSE EptWalk(found, addr)
  BY DEF Translate
<1> HIDE DEF found, u
<1>3. CASE found.hit
  <2>1. Ledger(s, u, 1, 0, 0 + 2 * 0, 0, 0, 0)
    BY <1>1, <1>2, <1>3
  <2>2. Kind("NTLB_PWC", 1, 0, 0, 0, 1)
    BY DEF Kind
  <2>3. Cost("NTLB_PWC", s, u, 0, 1, 2)
    BY <2>1, <2>2 DEF Cost
  <2> QED
    BY <1>1, <1>2, <1>3, <2>3 DEF u
<1>4. CASE ~found.hit
  <2>1. Good(u) /\ \E m \in 0..2 : Ledger(found, u, 0, 0, 2, m, 0, m)
    BY <1>1, <1>2, <1>4, EptWalkEffect
  <2>2. PICK m \in 0..2 : Ledger(found, u, 0, 0, 2, m, 0, m)
    BY <2>1
  <2>3. m \in Nat /\ m <= 2 /\ 0 + m = m
    BY <2>2
  <2>4. Ledger(s, found, 1, 1, 0, 0, 0, 0)
    BY <1>1, <1>4
  <2>5. Ledger(s, u, 1 + 0, 1 + 0, 0 + 2, 0 + m, 0 + 0, 0 + m)
    BY <1>1, <2>1, <2>2, <2>3, <2>4, LedgerAdds, ZenonT(30)
  <2>6. Ledger(s, u, 1, 1, 0 + 2 * 1, m, 0, m)
    BY <2>3, <2>5
  <2>7. Kind("NTLB_PWC", 1, 1, 1, 0, 1)
    BY DEF Kind
  <2>8. Cost("NTLB_PWC", s, u, 0, 1, 2)
    BY <2>3, <2>6, <2>7 DEF Cost
  <2> QED
    BY <2>1, <2>8 DEF u
<1> QED
  BY <1>3, <1>4

\* A guest descriptor that is in the PWC costs nothing.
LEMMA DescHit ==
  ASSUME NEW c, NEW s, NEW u, Good(s), Good(u), Kind(c, 0, 0, 0, 0, 0),
         Ledger(s, u, 0, 0, 1, 0, 0, 0)
  PROVE  Cost(c, s, u, 1, 0, 3)
<1>1. Ledger(s, u, 0, 0, 1 + 2 * 0, 0, 0, 0)
  OBVIOUS
<1> QED
  BY <1>1 DEF Cost

\* One that is not costs its own access and those of its translation.
LEMMA DescMiss ==
  ASSUME NEW c, NEW s, NEW found, NEW x, Good(s), Good(found), Good(x),
         Ledger(s, found, 0, 0, 1, 1, 1, 0), Cost(c, found, x, 0, 1, 2)
  PROVE  Good(Access(x, 1)) /\ Cost(c, s, Access(x, 1), 1, 0, 3)
<1> DEFINE u == Access(x, 1)
<1>1. Good(u) /\ Ledger(x, u, 0, 0, 0, 0, 0, 1)
  BY AccessEffect
<1> HIDE DEF u
<1>2. PICK n \in Nat, nm \in Nat, e \in Nat, d \in Nat, m \in Nat :
         Kind(c, n, nm, e, d, 1) /\ m <= 2 /\ Ledger(found, x, n, nm, 0 + 2 * e, m, d, m)
  BY SMTT(30) DEF Cost
<1>3. 0 + 2 * e \in Nat
  BY <1>2
<1>4. Ledger(s, x, 0 + n, 0 + nm, 1 + (0 + 2 * e), 1 + m, 1 + d, 0 + m)
  BY <1>2, <1>3, LedgerAdds, ZenonT(30)
<1>5. /\ 0 + n = n /\ 0 + nm = nm /\ 1 + (0 + 2 * e) = 1 + 2 * e /\ 0 + m = m
      /\ 1 + 2 * e \in Nat /\ 1 + m \in Nat /\ 1 + m <= 3 /\ 1 + d \in Nat
  BY <1>2
<1>6. Ledger(s, x, n, nm, 1 + 2 * e, 1 + m, 1 + d, m)
  BY <1>4, <1>5
<1>7. Ledger(s, u, n + 0, nm + 0, (1 + 2 * e) + 0, (1 + m) + 0, (1 + d) + 0, m + 1)
  BY <1>1, <1>2, <1>5, <1>6, LedgerAdds, ZenonT(30)
<1>8. /\ n + 0 = n /\ nm + 0 = nm /\ (1 + 2 * e) + 0 = 1 + 2 * e
      /\ (1 + m) + 0 = 1 + m /\ m + 1 = 1 + m /\ (1 + d) + 0 = 1 + d
  BY <1>2
<1>9. Ledger(s, u, n, nm, 1 + 2 * e, 1 + m, 1 + d, 1 + m)
  BY <1>7, <1>8
<1>10. Kind(c, n, nm, e, 1 + d, 0)
  BY <1>2 DEF Kind
<1>11. Cost(c, s, u, 1, 0, 3)
  BY <1>2, <1>5, <1>9, <1>10, Zenon DEF Cost
<1> QED
  BY <1>1, <1>11 DEF u

\* Desc of emulate_pwc2.
EptDesc(u, addr) ==
    LET found == tlbtrace_refppa_pwc(u, addr, 1)
    IN  IF found.hit THEN found ELSE Access(EptWalk(found, addr), 1)

\* A guest descriptor in that organisation.
LEMMA EptDescCost ==
  ASSUME GeometryOK, NEW s, Good(s), NEW addr \in Nat
  PROVE  Good(EptDesc(s, addr)) /\ Cost("PWC_EPT", s, EptDesc(s, addr), 1, 0, 3)
<1> DEFINE found == tlbtrace_refppa_pwc(s, addr, 1)
           x     == EptWalk(found, addr)
           u     == EptDesc(s, addr)
<1>1. /\ Good(found)
      /\ Ledger(s, found, 0, 0, 1, IF found.hit THEN 0 ELSE 1,
                IF found.hit \/ 1 = 0 THEN 0 ELSE 1, 0)
  BY PwcFind
<1>2. u = IF found.hit THEN found ELSE Access(x, 1)
  BY DEF EptDesc
<1> HIDE DEF found, u
<1>3. CASE found.hit
  <2>1. Ledger(s, found, 0, 0, 1, 0, 0, 0)
    BY <1>1, <1>3
  <2>2. Kind("PWC_EPT", 0, 0, 0, 0, 0)
    BY DEF Kind
  <2>3. Cost("PWC_EPT", s, found, 1, 0, 3)
    BY <1>1, <2>1, <2>2, DescHit
  <2> QED
    BY <1>1, <1>2, <1>3, <2>3 DEF u
<1>4. CASE ~found.hit
  <2>1. Good(x) /\ Cost("PWC_EPT", found, x, 0, 1, 2)
    BY <1>1, EptWalkEffect, EptWalkCost
  <2>2. Ledger(s, found, 0, 0, 1, 1, 1, 0)
    BY <1>1, <1>4
  <2> HIDE DEF x
  <2>3. Good(Access(x, 1)) /\ Cost("PWC_EPT", s, Access(x, 1), 1, 0, 3)
    BY <1>1, <2>1, <2>2, DescMiss
  <2> QED
    BY <1>2, <1>4, <2>3 DEF u
<1> QED
  BY <1>3, <1>4

\* Desc of emulate_full.
FullDesc(u, addr) ==
    LET found == tlbtrace_refppa_pwc(u, addr, 1)
    IN  IF found.hit THEN found
        ELSE Access(Translate(found, addr, Frame(addr)), 1)

\* A guest descriptor in that organisation.
LEMMA FullDescCost ==
  ASSUME GeometryOK, NEW s, Good(s), NEW addr \in Nat
  PROVE  Good(FullDesc(s, addr)) /\ Cost("NTLB_PWC", s, FullDesc(s, addr), 1, 0, 3)
<1> DEFINE found == tlbtrace_refppa_pwc(s, addr, 1)
           x     == Translate(found, addr, Frame(addr))
           u     == FullDesc(s, addr)
<1>1. /\ Good(found)
      /\ Ledger(s, found, 0, 0, 1, IF found.hit THEN 0 ELSE 1,
                IF found.hit \/ 1 = 0 THEN 0 ELSE 1, 0)
  BY PwcFind
<1>2. u = IF found.hit THEN found ELSE Access(x, 1)
  BY DEF FullDesc
<1> HIDE DEF found, u
<1>3. CASE found.hit
  <2>1. Ledger(s, found, 0, 0, 1, 0, 0, 0)
    BY <1>1, <1>3
  <2>2. Kind("NTLB_PWC", 0, 0, 0, 0, 0)
    BY DEF Kind
  <2>3. Cost("NTLB_PWC", s, found, 1, 0, 3)
    BY <1>1, <2>1, <2>2, DescHit
  <2> QED
    BY <1>1, <1>2, <1>3, <2>3 DEF u
<1>4. CASE ~found.hit
  <2>1. Good(x) /\ Cost("NTLB_PWC", found, x, 0, 1, 2)
    BY <1>1, Addresses, TranslateCost, Zenon
  <2>2. Ledger(s, found, 0, 0, 1, 1, 1, 0)
    BY <1>1, <1>4
  <2> HIDE DEF x
  <2>3. Good(Access(x, 1)) /\ Cost("NTLB_PWC", s, Access(x, 1), 1, 0, 3)
    BY <1>1, <2>1, <2>2, DescMiss
  <2> QED
    BY <1>2, <1>4, <2>3 DEF u
<1> QED
  BY <1>3, <1>4

\* A cost may be overestimated.
LEMMA CostWeaken ==
  ASSUME NEW c, NEW s, NEW u, NEW g, NEW f, NEW max1 \in Nat, NEW max2 \in Nat,
         max1 <= max2, Cost(c, s, u, g, f, max1)
  PROVE  Cost(c, s, u, g, f, max2)
BY DEF Cost

\* The cost of a tuple is that of its two descriptors and its final address.
LEMMA TupleCost ==
  ASSUME NEW c, NEW t \in Tuples,
         NEW s, NEW s1, NEW s2, NEW s3, Good(s), Good(s1), Good(s2), Good(s3),
         Cost(c, s, s1, 1, 0, 3),
         IF t.level > 1 THEN Cost(c, s1, s2, 1, 0, 3) ELSE s2 = s1,
         IF t.level > 2 THEN Cost(c, s2, s3, 0, 1, 2) ELSE s3 = s2
  PROVE  Cost(c, s, s3, Guest(t), Final(t), 3 * Guest(t) + 2 * Final(t))
<1> DEFINE g == IF t.level > 1 THEN 1 ELSE 0
           f == IF t.level > 2 THEN 1 ELSE 0
<1>1. Cost(c, s1, s2, g, 0, 3 * g)
  <2>1. CASE t.level > 1
    BY <2>1
  <2>2. CASE ~(t.level > 1)
    BY <2>2, CostZero
  <2> QED
    BY <2>1, <2>2
<1>2. Cost(c, s2, s3, 0, f, 2 * f)
  <2>1. CASE t.level > 2
    BY <2>1
  <2>2. CASE ~(t.level > 2)
    BY <2>2, CostZero
  <2> QED
    BY <2>1, <2>2
<1>3. /\ g \in Nat /\ 3 * g \in Nat /\ f \in Nat /\ 1 + g \in Nat /\ 3 + 3 * g \in Nat
      /\ 2 * f \in Nat /\ 0 + 0 = 0 /\ Final(t) = 0 + f
      /\ Guest(t) = (1 + g) + 0 /\ 3 * Guest(t) + 2 * Final(t) = (3 + 3 * g) + 2 * f
  BY DEF Guest, Final
<1> HIDE DEF g, f
<1>4. Cost(c, s, s2, 1 + g, 0 + 0, 3 + 3 * g)
  BY <1>1, <1>3, CostAdds, Zenon
<1>5. Cost(c, s, s2, 1 + g, 0, 3 + 3 * g)
  BY <1>3, <1>4, Zenon
<1>6. Cost(c, s, s3, (1 + g) + 0, 0 + f, (3 + 3 * g) + 2 * f)
  BY <1>2, <1>3, <1>5, CostAdds, Zenon
<1> QED
  BY <1>3, <1>6, Zenon

\* The PWC with EPT descriptors in it.
LEMMA Pwc2Cost ==
  ASSUME GeometryOK, NEW s, Good(s), NEW t \in Tuples
  PROVE  LET u == emulate_pwc2(s, t)
         IN  Good(u) /\ Cost("PWC_EPT", s, u, Guest(t), Final(t), 3 * Guest(t) + 2 * Final(t))
<1> DEFINE s1 == EptDesc(s, t.l1)
           s2 == IF t.level > 1 THEN EptDesc(s1, t.l2) ELSE s1
           s3 == IF t.level > 2 THEN EptWalk(s2, t.gpa) ELSE s2
<1>0. t.l1 \in Nat /\ t.l2 \in Nat /\ t.gpa \in Nat
  BY TuplesAssumption, SMTT(30)
<1>1. s3 = emulate_pwc2(s, t)
  BY DEF emulate_pwc2, EptDesc
<1>2. Good(s1) /\ Cost("PWC_EPT", s, s1, 1, 0, 3)
  BY <1>0, EptDescCost, Zenon
<1> HIDE DEF s1
<1>3. /\ Good(s2)
      /\ IF t.level > 1 THEN Cost("PWC_EPT", s1, s2, 1, 0, 3) ELSE s2 = s1
  BY <1>0, <1>2, EptDescCost
<1> HIDE DEF s2
<1>4. /\ Good(s3)
      /\ IF t.level > 2 THEN Cost("PWC_EPT", s2, s3, 0, 1, 2) ELSE s3 = s2
  BY <1>0, <1>3, EptWalkEffect, EptWalkCost, SMTT(30)
<1> HIDE DEF s3
<1>5. Cost("PWC_EPT", s, s3, Guest(t), Final(t), 3 * Guest(t) + 2 * Final(t))
  BY <1>2, <1>3, <1>4, TupleCost
<1> QED
  BY <1>1, <1>4, <1>5

\* The PWC without EPT.
LEMMA Pwc3Cost ==
  ASSUME GeometryOK, NEW s, Good(s), NEW t \in Tuples
  PROVE  LET u == emulate_pwc3(s, t)
         IN  Good(u) /\ Cost("PWC_NOEPT", s, u, Guest(t), Final(t), 3 * Guest(t) + 2 * Final(t))
<1> DEFINE s1 == Fetch(s, t.l1, 1)
           s2 == IF t.level > 1 THEN Fetch(s1, t.l2, 1) ELSE s1
<1>0. t.l1 \in Nat /\ t.l2 \in Nat
  BY TuplesAssumption
<1>1. s2 = emulate_pwc3(s, t)
  BY DEF emulate_pwc3
<1>2. Good(s1) /\ Cost("PWC_NOEPT", s, s1, 1, 0, 3)
  <2>1. Good(s1) /\ Cost("PWC_NOEPT", s, s1, 1, 0, 1)
    BY <1>0, FetchEffect, FetchCost, SMTT(30)
  <2> QED
    BY <2>1, CostWeaken
<1> HIDE DEF s1
<1>3. /\ Good(s2)
      /\ IF t.level > 1 THEN Cost("PWC_NOEPT", s1, s2, 1, 0, 3) ELSE s2 = s1
  <2>1. CASE t.level > 1
    <3>1. Good(s2) /\ Cost("PWC_NOEPT", s1, s2, 1, 0, 1)
      BY <1>0, <1>2, <2>1, FetchEffect, FetchCost, Zenon
    <3> QED
      BY <2>1, <3>1, CostWeaken
  <2>2. CASE ~(t.level > 1)
    BY <1>2, <2>2
  <2> QED
    BY <2>1, <2>2
<1> HIDE DEF s2
<1>4. IF t.level > 2 THEN Cost("PWC_NOEPT", s2, s2, 0, 1, 2) ELSE s2 = s2
  <2>1. Ledger(s2, s2, 0, 0, 0 + 2 * 0, 0, 0, 0)
    BY <1>3, LedgerZero
  <2>2. Kind("PWC_NOEPT", 0, 0, 0, 0, 1)
    BY DEF Kind
  <2>3. Cost("PWC_NOEPT", s2, s2, 0, 1, 2)
    BY <2>1, <2>2 DEF Cost
  <2> QED
    BY <2>3
<1>5. Cost("PWC_NOEPT", s, s2, Guest(t), Final(t), 3 * Guest(t) + 2 * Final(t))
  BY <1>2, <1>3, <1>4, TupleCost
<1> QED
  BY <1>1, <1>3, <1>5

\* The NTLB with the PWC.
LEMMA FullCost ==
  ASSUME GeometryOK, NEW s, Good(s), NEW t \in Tuples
  PROVE  LET u == emulate_full(s, t)
         IN  Good(u) /\ Cost("NTLB_PWC", s, u, Guest(t), Final(t), 3 * Guest(t) + 2 * Final(t))
<1> DEFINE s1 == FullDesc(s, t.l1)
           s2 == IF t.level > 1 THEN FullDesc(s1, t.l2) ELSE s1
           s3 == IF t.level > 2 THEN Translate(s2, t.gpa, t.gpa) ELSE s2
<1>0. t.l1 \in Nat /\ t.l2 \in Nat /\ t.gpa \in Nat
  BY TuplesAssumption
<1>1. s3 = emulate_full(s, t)
  BY Zenon DEF emulate_full, FullDesc, Translate
<1>2. Good(s1) /\ Cost("NTLB_PWC", s, s1, 1, 0, 3)
  BY <1>0, FullDescCost, SMTT(30)
<1> HIDE DEF s1
<1>3. /\ Good(s2)
      /\ IF t.level > 1 THEN Cost("NTLB_PWC", s1, s2, 1, 0, 3) ELSE s2 = s1
  BY <1>0, <1>2, FullDescCost, SMTT(30)
<1> HIDE DEF s2
<1>4. /\ Good(s3)
      /\ IF t.level > 2 THEN Cost("NTLB_PWC", s2, s3, 0, 1, 2) ELSE s3 = s2
  BY <1>0, <1>3, TranslateCost, Zenon
<1> HIDE DEF s3
<1>5. Cost("NTLB_PWC", s, s3, Guest(t), Final(t), 3 * Guest(t) + 2 * Final(t))
  BY <1>2, <1>3, <1>4, TupleCost
<1> QED
  BY <1>1, <1>4, <1>5

-----------------------------------------------------------------------------
(* The inductive invariant. *)

SimInv ==
    /\ TypeOK
    /\ Good(sim)
    /\ AccsMatchMisses /\ LookUpsMatchWork /\ NeverDearerThanNoCache

\* An empty table holds nothing a look-up could mistake.
LEMMA EmptyIsSound ==
  ASSUME NEW tlb, \A i \in Slots : tlb[i] = FlushedEntry, NEW name, NEW seen, NEW ways
  PROVE  Known(name, tlb, seen) /\ NoAsid(tlb) /\ Findable(tlb, ways)
<1>1. \A i \in Slots : tlb[i].va = Invalid /\ tlb[i].asid = 0
  BY DEF FlushedEntry
<1> QED
  BY <1>1, Zenon DEF Known, NoAsid, Findable

\* The flushed caches are sound and nothing has been counted.
LEMMA FlushedIsGood ==
  /\ flush_all \in Sim /\ ~flush_all.stale
  /\ \A i \in Slots : flush_all.ntlb[i] = FlushedEntry /\ flush_all.pwc[i] = FlushedEntry
  /\ flush_all.systs = 0 /\ flush_all.accs = 0
  /\ flush_all.ntlb_cnt = Cold /\ flush_all.pwc_cnt = Cold /\ flush_all.desc_miss = 0
  /\ Cold \in Counter /\ Cold.hit = 0 /\ Cold.miss = 0
<1>1. FlushedEntry \in [va : Nat \cup {Invalid}, asid : {0, 1}, ts : 0..(TsMod - 1)]
  BY TsModAssumption DEF FlushedEntry
<1>2. FLUSH_TLB(CACHE_MAX_ENTRIES) \in Table
  BY <1>1 DEF FLUSH_TLB, Table
<1>3. Cold \in Counter /\ Cold.hit = 0 /\ Cold.miss = 0
  BY SMTT(30) DEF Cold, Counter
<1>4. flush_all \in Sim
  BY <1>2, <1>3 DEF flush_all, Sim
<1> QED
  BY <1>3, <1>4, Zenon DEF flush_all, FLUSH_TLB, Slots

\* The statics hold no simulation at first.
LEMMA SimInvInit == Init => SimInv
<1> SUFFICES ASSUME Init
             PROVE  SimInv
  BY SMTT(30)
<1>1. Good(sim)
  <2>1. sim = flush_all
    BY DEF Init
  <2> QED
    BY <2>1, FlushedIsGood, EmptyIsSound, Zenon DEF Good
<1>2. TypeOK
  BY FlushedIsGood, BoundsAssumption, SMTT(30)
  DEF Init, TypeOK, Commands, NoResult, NoWork, Sim
<1>3. AccsMatchMisses /\ LookUpsMatchWork /\ NeverDearerThanNoCache
  BY FlushedIsGood, SMTT(30)
  DEF Init, AccsMatchMisses, LookUpsMatchWork, NeverDearerThanNoCache, LookUps,
      NoWork, UsesPwc
<1> QED
  BY <1>1, <1>2, <1>3 DEF SimInv

\* A simulation begins with cold caches.
LEMMA BeginStep ==
  ASSUME SimInv, NEW c \in Commands, Begin(c),
         ntlb_geo' \in NtlbGeometry \cup {NoGeometry},
         pwc_geo' \in PwcGeometry \cup {NoGeometry}
  PROVE  SimInv'
<1>1. Good(sim)'
  <2>1. sim' = flush_all
    BY DEF Begin
  <2> QED
    BY <2>1, FlushedIsGood, EmptyIsSound, Zenon DEF Good
<1>2. TypeOK'
  BY FlushedIsGood, BoundsAssumption, SMTT(30) DEF SimInv, Begin, TypeOK, NoResult, NoWork, Sim
<1>3. (AccsMatchMisses /\ LookUpsMatchWork /\ NeverDearerThanNoCache)'
  BY FlushedIsGood, SMTT(30)
  DEF Begin, AccsMatchMisses, LookUpsMatchWork, NeverDearerThanNoCache, LookUps,
      NoWork, UsesPwc
<1> QED
  BY <1>1, <1>2, <1>3, SMTT(30) DEF SimInv

\* A tuple keeps the caches sound, and the counters in step with the work.
LEMMA ReadStep ==
  ASSUME SimInv, NEW t \in Tuples, Read(t)
  PROVE  SimInv'
<1> DEFINE g == Guest(t)
           f == Final(t)
<1>0. /\ Good(sim) /\ GeometryOK /\ cmd \in Commands
      /\ sim' = Emulate(sim, t)
      /\ work' = [tuples |-> work.tuples + 1, guest |-> work.guest + g,
                  final |-> work.final + f]
  BY Zenon DEF SimInv, TypeOK, GeometryOK, Read, Guest, Final
<1>u. /\ cmd' = cmd /\ phase' = phase /\ result' = result
      /\ ntlb_geo' = ntlb_geo /\ pwc_geo' = pwc_geo
  BY DEF Read
<1>1. g \in 1..2 /\ f \in 0..1
  BY SMTT(30) DEF Guest, Final
<1> HIDE DEF g, f
<1>2. /\ Good(sim')
      /\ IF cmd = "NTLB"
         THEN \E m \in 0..(g + f) : Ledger(sim, sim', g + f, m, 0, 0, 0, g + 2 * m)
         ELSE Cost(cmd, sim, sim', g, f, 3 * g + 2 * f)
  <2>1. CASE cmd = "NTLB"
    BY <1>0, <2>1, Ntlb2Effect DEF Emulate, g, f
  <2>2. CASE cmd = "PWC_EPT"
    BY <1>0, <2>2, Pwc2Cost DEF Emulate, g, f
  <2>3. CASE cmd = "PWC_NOEPT"
    BY <1>0, <2>3, Pwc3Cost DEF Emulate, g, f
  <2>4. CASE cmd = "NTLB_PWC"
    BY <1>0, <2>4, FullCost, SMTT(30) DEF Emulate, g, f
  <2> QED
    BY <1>0, <2>1, <2>2, <2>3, <2>4 DEF Commands
<1>3. Good(sim)'
  <2>1. AllNtlbWays' = AllNtlbWays /\ AllPwcWays' = AllPwcWays
    BY <1>u DEF AllNtlbWays, AllPwcWays, NtlbWays, PwcWays
  <2> QED
    BY <1>2, <2>1, SMTT(30) DEF Good
<1>4. \A r \in {sim, sim'} :
         /\ r.systs \in Nat /\ r.accs \in Nat
         /\ r.ntlb_cnt.hit \in Nat /\ r.ntlb_cnt.miss \in Nat
         /\ r.pwc_cnt.hit \in Nat /\ r.pwc_cnt.miss \in Nat /\ r.desc_miss \in Nat
  BY <1>0, <1>2, GoodCounts, Zenon
<1>l. \A r \in {sim, sim'} : LookUps(r.ntlb_cnt) \in Nat /\ LookUps(r.pwc_cnt) \in Nat
  BY <1>4 DEF LookUps
<1>5. /\ work.guest \in Nat /\ work.final \in Nat
      /\ work'.guest = work.guest + g /\ work'.final = work.final + f
  BY <1>0, SMTT(30) DEF SimInv, TypeOK
<1>6. TypeOK'
  <2>1. work' \in [tuples : 0..MaxTuples, guest : Nat, final : Nat]
    BY <1>0, <1>1, BoundsAssumption, SMTT(30) DEF SimInv, TypeOK, Read
  <2>2. /\ sim'.systs \in Nat /\ sim'.accs \in Nat
        /\ sim'.ntlb \in Table /\ sim'.pwc \in Table
        /\ sim'.ntlb_cnt \in Counter /\ sim'.pwc_cnt \in Counter /\ sim'.desc_miss \in Nat
    BY <1>2 DEF Good, Sim
  <2> QED
    BY <1>0, <1>u, <2>1, <2>2, SMTT(30) DEF SimInv, TypeOK
<1>7. (AccsMatchMisses /\ LookUpsMatchWork /\ NeverDearerThanNoCache)'
  <2>1. CASE cmd = "NTLB"
    <3>1. PICK m \in 0..(g + f) : Ledger(sim, sim', g + f, m, 0, 0, 0, g + 2 * m)
      BY <1>2, <2>1
    <3>2. AccsMatchMisses /\ LookUpsMatchWork /\ NeverDearerThanNoCache
      BY SMTT(30) DEF SimInv
    <3>3. AccsMatchMisses'
      <4>1. /\ sim'.accs = sim.accs + (g + 2 * m)
            /\ sim'.ntlb_cnt.miss = sim.ntlb_cnt.miss + m
        BY <3>1, SMTT(30) DEF Ledger
      <4>2. sim.accs = work.guest + 2 * sim.ntlb_cnt.miss
        BY <2>1, <3>2 DEF AccsMatchMisses, UsesPwc
      <4>3. sim'.accs = work'.guest + 2 * sim'.ntlb_cnt.miss
        BY <1>1, <1>4, <1>5, <4>1, <4>2, SMTT(30)
      <4> QED
        BY <1>u, <2>1, <4>3, ZenonT(30) DEF AccsMatchMisses, UsesPwc
    <3>4. NeverDearerThanNoCache'
      BY <1>1, <1>4, <1>5, <3>1, <3>2, SMTT(30) DEF NeverDearerThanNoCache, Ledger
    <3>5. LookUpsMatchWork'
      <4>1. /\ sim'.systs = sim.systs + (g + f) + 0
            /\ LookUps(sim'.ntlb_cnt) = LookUps(sim.ntlb_cnt) + (g + f)
            /\ LookUps(sim'.pwc_cnt) = LookUps(sim.pwc_cnt) + 0
        BY <3>1 DEF Ledger
      <4>2. /\ sim.systs = LookUps(sim.ntlb_cnt) + LookUps(sim.pwc_cnt)
            /\ LookUps(sim.ntlb_cnt) = work.guest + work.final
        BY <2>1, <3>2 DEF LookUpsMatchWork
      <4>3. /\ sim'.systs = LookUps(sim'.ntlb_cnt) + LookUps(sim'.pwc_cnt)
            /\ LookUps(sim'.ntlb_cnt) = work'.guest + work'.final
        BY <1>1, <1>4, <1>5, <1>l, <4>1, <4>2
      <4> QED
        BY <1>u, <2>1, <4>3 DEF LookUpsMatchWork, LookUps
    <3> QED
      BY <3>3, <3>4, <3>5
  <2>2. CASE cmd # "NTLB"
    <3>1. PICK n \in Nat, nm \in Nat, e \in Nat, d \in Nat, m \in Nat :
             /\ Kind(cmd, n, nm, e, d, f) /\ m <= 3 * g + 2 * f
             /\ Ledger(sim, sim', n, nm, g + 2 * e, m, d, m)
      BY <1>2, <2>2, SMTT(30) DEF Cost
    <3>2. AccsMatchMisses /\ LookUpsMatchWork /\ NeverDearerThanNoCache
      BY SMTT(30) DEF SimInv
    <3>3. AccsMatchMisses'
      BY <1>u, <1>1, <1>4, <1>5, <2>2, <3>1, <3>2, SMTT(30)
      DEF AccsMatchMisses, UsesPwc, Ledger
    <3>4. NeverDearerThanNoCache'
      BY <1>1, <1>4, <1>5, <3>1, <3>2, SMTT(30) DEF NeverDearerThanNoCache, Ledger
    <3>5. LookUpsMatchWork'
      <4>1. /\ sim'.systs = sim.systs + n + (g + 2 * e)
            /\ LookUps(sim'.ntlb_cnt) = LookUps(sim.ntlb_cnt) + n
            /\ sim'.ntlb_cnt.miss = sim.ntlb_cnt.miss + nm
            /\ LookUps(sim'.pwc_cnt) = LookUps(sim.pwc_cnt) + (g + 2 * e)
            /\ sim'.desc_miss = sim.desc_miss + d
        BY <3>1 DEF Ledger
      <4>2. /\ cmd = "PWC_NOEPT" => e = 0
            /\ cmd = "PWC_EPT" => e = d + f
            /\ cmd = "NTLB_PWC" => e = nm /\ n = d + f
        BY <3>1 DEF Kind
      <4>3. /\ sim.systs = LookUps(sim.ntlb_cnt) + LookUps(sim.pwc_cnt)
            /\ cmd = "PWC_NOEPT" => LookUps(sim.pwc_cnt) = work.guest
            /\ cmd = "PWC_EPT" =>
                  LookUps(sim.pwc_cnt) = work.guest + 2 * (sim.desc_miss + work.final)
            /\ cmd = "NTLB_PWC" =>
                  /\ LookUps(sim.ntlb_cnt) = sim.desc_miss + work.final
                  /\ LookUps(sim.pwc_cnt) = work.guest + 2 * sim.ntlb_cnt.miss
        BY <3>2 DEF LookUpsMatchWork
      <4>4. sim'.systs = LookUps(sim'.ntlb_cnt) + LookUps(sim'.pwc_cnt)
        BY <1>1, <1>4, <1>l, <3>1, <4>1, <4>3, SMTT(30)
      <4>5. cmd = "PWC_NOEPT" => LookUps(sim'.pwc_cnt) = work'.guest
        BY <1>1, <1>4, <1>5, <1>l, <3>1, <4>1, <4>2, <4>3, SMTT(30)
      <4>6. ASSUME cmd = "NTLB_PWC"
            PROVE  /\ LookUps(sim'.ntlb_cnt) = sim'.desc_miss + work'.final
                   /\ LookUps(sim'.pwc_cnt) = work'.guest + 2 * sim'.ntlb_cnt.miss
        <5>1. /\ e = nm /\ LookUps(sim.pwc_cnt) = work.guest + 2 * sim.ntlb_cnt.miss
              /\ n = d + f /\ LookUps(sim.ntlb_cnt) = sim.desc_miss + work.final
          BY <4>2, <4>3, <4>6, Zenon
        <5> QED
          BY <1>1, <1>4, <1>5, <1>l, <3>1, <4>1, <5>1
      <4>7. ASSUME cmd = "PWC_EPT"
            PROVE  LookUps(sim'.pwc_cnt) =
                        work'.guest + 2 * (sim'.desc_miss + work'.final)
        <5>1. /\ e = d + f
              /\ LookUps(sim.pwc_cnt) = work.guest + 2 * (sim.desc_miss + work.final)
          BY <4>2, <4>3, <4>7, Zenon
        <5> QED
          BY <1>1, <1>4, <1>5, <1>l, <3>1, <4>1, <5>1
      <4> QED
        BY <1>u, <2>2, <4>4, <4>5, <4>6, <4>7 DEF LookUpsMatchWork, LookUps
    <3> QED
      BY <3>3, <3>4, <3>5
  <2> QED
    BY <2>1, <2>2
<1> QED
  BY <1>3, <1>6, <1>7, SMTT(30) DEF SimInv

\* Storing the result changes nothing of the simulation.
LEMMA FinishStep ==
  ASSUME SimInv, Finish
  PROVE  SimInv'
<1>1. UNCHANGED <<cmd, ntlb_geo, pwc_geo, sim, work>> /\ phase' = "idle"
  BY SMTT(30) DEF Finish
<1>2. Good(sim)'
  <2>1. AllNtlbWays' = AllNtlbWays /\ AllPwcWays' = AllPwcWays
    BY <1>1, SMTT(30) DEF AllNtlbWays, AllPwcWays, NtlbWays, PwcWays
  <2> QED
    BY <1>1, <2>1, SMTT(30) DEF SimInv, Good
<1>3. TypeOK'
  BY <1>1, SMTT(30) DEF SimInv, TypeOK, Finish
<1>4. (AccsMatchMisses /\ LookUpsMatchWork /\ NeverDearerThanNoCache)'
  BY <1>1, ZenonT(30)
  DEF SimInv, AccsMatchMisses, LookUpsMatchWork, NeverDearerThanNoCache, UsesPwc
<1> QED
  BY <1>2, <1>3, <1>4, SMTT(30) DEF SimInv

\* Every step preserves the invariant.
LEMMA SimInvStep == SimInv /\ [Next]_vars => SimInv'
<1> SUFFICES ASSUME SimInv, [Next]_vars
             PROVE  SimInv'
  BY SMTT(30)
<1>0. GeometryOK
  BY DEF SimInv, TypeOK, GeometryOK
<1>1. CASE \E ng \in NtlbGeometry : tlbsim_sim_ntlb(ng)
  BY <1>0, <1>1, BeginStep DEF tlbsim_sim_ntlb, GeometryOK, Commands
<1>2. CASE \E pg \in PwcGeometry : tlbsim_sim_pwc_ept(pg)
  BY <1>0, <1>2, BeginStep DEF tlbsim_sim_pwc_ept, GeometryOK, Commands
<1>3. CASE \E pg \in PwcGeometry : tlbsim_sim_pwc_noept(pg)
  BY <1>0, <1>3, BeginStep DEF tlbsim_sim_pwc_noept, GeometryOK, Commands
<1>4. CASE \E ng \in NtlbGeometry, pg \in PwcGeometry : tlbsim_sim_ntlb_pwc(ng, pg)
  BY <1>0, <1>4, BeginStep DEF tlbsim_sim_ntlb_pwc, GeometryOK, Commands
<1>5. CASE \E t \in Tuples : Read(t)
  BY <1>5, ReadStep
<1>6. CASE Finish
  BY <1>6, FinishStep, SMTT(30)
<1>7. CASE UNCHANGED vars
  <2>1. UNCHANGED <<cmd, phase, ntlb_geo, pwc_geo, sim, result, work>>
    BY <1>7, SMTT(30) DEF vars
  <2>2. Good(sim)'
    <3>1. AllNtlbWays' = AllNtlbWays /\ AllPwcWays' = AllPwcWays
      BY <2>1 DEF AllNtlbWays, AllPwcWays, NtlbWays, PwcWays
    <3>2. sim' = sim /\ Good(sim)
      BY <2>1 DEF SimInv
    <3> QED
      BY <3>1, <3>2, Zenon DEF Good
  <2> QED
    BY <2>1, <2>2, Zenon
    DEF SimInv, TypeOK, AccsMatchMisses, LookUpsMatchWork, NeverDearerThanNoCache,
        UsesPwc
<1> QED
  BY <1>1, <1>2, <1>3, <1>4, <1>5, <1>6, <1>7 DEF Next

\* The invariant holds in every state of every simulation.
LEMMA SimInvariant == Spec => []SimInv
  BY SimInvInit, SimInvStep, PTL DEF Spec

\* Sound caches are those the properties ask for.
LEMMA GoodIsWellFormed ==
  ASSUME SimInv
  PROVE  ColdStart /\ CachesWellFormed
<1>1. Good(sim)
  BY SMTT(30) DEF SimInv
<1>2. ASSUME NEW i \in 1..(CACHE_MAX_ENTRIES - 1)
      PROVE  /\ sim.ntlb[i].va # Invalid =>
                   Matches(sim.ntlb, NtlbWays(sim.ntlb[i].va), sim.ntlb[i].va, 0) = {i}
             /\ sim.pwc[i].va # Invalid =>
                   Matches(sim.pwc, PwcWays(sim.pwc[i].va), sim.pwc[i].va, sim.pwc[i].asid) = {i}
  <2>1. i \in Slots \ {0} /\ i \in Slots
    BY BoundsAssumption DEF Slots
  <2>2. sim.ntlb \in Table /\ sim.pwc \in Table
    BY <1>1, SMTT(30) DEF Good, Sim
  <2>3. /\ sim.ntlb[i].va # Invalid => sim.ntlb[i].va \in Nat
        /\ sim.pwc[i].va # Invalid => sim.pwc[i].va \in Nat
    BY <2>1, <2>2, ZenonT(30) DEF Table, Slots
  <2>4. sim.ntlb[i].asid = 0
    BY <1>1, <2>1 DEF Good, NoAsid
  <2> QED
    BY <1>1, <2>1, <2>3, <2>4, Zenon DEF Good, Findable, AllNtlbWays, AllPwcWays
<1> QED
  BY <1>1, <1>2, Zenon DEF ColdStart, CachesWellFormed, Good

\* The simulator's state keeps its types, whatever the trace and the geometries.
THEOREM SimulatorTypeCorrect == Spec => []TypeOK
  BY SimInvariant, PTL DEF SimInv

\* The memory accesses that the four emulate_ functions add up one at a time are
\* what the counted misses imply, for every trace.
THEOREM AccsMatchMissesHolds == Spec => []AccsMatchMisses
  BY SimInvariant, PTL DEF SimInv

\* No path through the four emulate_ functions skips or doubles a look-up of a
\* descriptor, a translation or an EPT walk.
THEOREM LookUpsMatchWorkHolds == Spec => []LookUpsMatchWork
  BY SimInvariant, PTL DEF SimInv

\* No trace and no geometry makes an organisation dearer than no cache at all.
THEOREM NeverDearerHolds == Spec => []NeverDearerThanNoCache
  BY SimInvariant, PTL DEF SimInv

\* flush_all leaves nothing of an earlier trace that a later one could hit.
THEOREM ColdStartHolds == Spec => []ColdStart
  BY SimInvariant, GoodIsWellFormed, PTL

\* Although the search for a victim starts from slot 0 for every set, entries in
\* the other slots stay in their own set and are never there twice.
THEOREM CachesWellFormedHolds == Spec => []CachesWellFormed
  BY SimInvariant, GoodIsWellFormed, PTL

-----------------------------------------------------------------------------
(* The driver. *)

\* Each step of the driver is a step of the simulator or leaves it alone.
LEMMA DriverStep == [DriverNext]_dvars => [Next]_vars
<1> SUFFICES ASSUME [DriverNext]_dvars
             PROVE  [Next]_vars
  OBVIOUS
<1>1. CASE caller = "client" /\ Next /\ UNCHANGED listvars
  BY <1>1
<1>2. CASE \E dir \in Directories, size \in TlbSizes,
              way \in {g[2] : g \in NtlbGeometry \cup PwcGeometry} :
                 tlbsim_sim(dir, size, way)
  BY <1>2 DEF tlbsim_sim
<1>3. CASE ReadTrace
  BY <1>3, SMTT(30) DEF ReadTrace, Next
<1>4. CASE RunTrace
  BY <1>4 DEF RunTrace, Next
<1>5. CASE TraceDone
  BY <1>5 DEF TraceDone, Next
<1>6. CASE Return
  BY <1>6 DEF Return
<1>7. CASE PrintResults
  BY <1>7 DEF PrintResults
<1>8. CASE UNCHANGED dvars
  BY <1>8 DEF dvars
<1> QED
  BY <1>1, <1>2, <1>3, <1>4, <1>5, <1>6, <1>7, <1>8 DEF DriverNext, ListStep

\* tlbsim_sim and main use the simulator as its own specification allows.
THEOREM DriverImplementsSimulator == DriverSpec => Spec
  BY DriverStep, PTL DEF DriverSpec, DriverInit, Spec
=============================================================================

----------------------------- MODULE Simulator ------------------------------
(***************************************************************************)
(* The TLB Simulator (tlb_sim.c): one simulation at a time of one of the   *)
(* four organisations of nested paging caches over the tuples of a trace.  *)
(*                                                                         *)
(* Each organisation has static tables and counters of its own in the code *)
(* (ntlb2_tlb, pwc2_tlb, pwc3_tlb, ntlb_tlb with pwc_tlb); only those of   *)
(* the running one are ever used and flush_all resets them all, so one     *)
(* NTLB and one PWC stand for them here.                                   *)
(***************************************************************************)
EXTENDS SetAssoc

CONSTANTS
    Tuples,          \* the trace tuples [level, l1, l2, gpa] that are read
    NtlbGeometry,    \* <<size, way>> pairs for the NTLB
    PwcGeometry,     \* <<size, way>> pairs for the PWC
    SetIndex(_, _),  \* SetIndex(n, step) is n & (step - 1)
    CACHE_MAX_ENTRIES,
    MaxTuples        \* bound on the tuples of one trace

Commands == {"NTLB", "PWC_EPT", "PWC_NOEPT", "NTLB_PWC"}

ASSUME TuplesAssumption ==
    Tuples \subseteq [level : 0..15, l1 : Nat, l2 : Nat, gpa : Nat]
ASSUME BoundsAssumption == CACHE_MAX_ENTRIES \in Nat \ {0} /\ MaxTuples \in Nat
ASSUME GeometryAssumption ==
    \A g \in NtlbGeometry \cup PwcGeometry :
        /\ g \in Nat \X Nat
        /\ 1 <= g[2] /\ g[2] <= g[1] /\ g[1] <= CACHE_MAX_ENTRIES
        /\ g[1] \div g[2] \in 1..g[1]

VARIABLES
    cmd,      \* the organisation being simulated
    phase,    \* "idle" or "reading" (between fopen and fclose)
    ntlb_geo, \* TLB_MAX_ENTRIES_NTLB and the way count its step comes from
    pwc_geo,  \* the same for the PWC
    sim,      \* systs, tables, counters and memory accesses
    result,   \* struct SIM_RESULT of the last simulation
    work      \* history: tuples, first- and second-level and final lookups

vars == <<cmd, phase, ntlb_geo, pwc_geo, sim, result, work>>

Cold == [hit |-> 0, miss |-> 0]

\* The state flush_all leaves.  Every table is flushed up to its static size.
\* History: desc_miss, the guest descriptors that were not in the PWC, and what
\* Witness notes.
flush_all ==
    [systs |-> 0, accs |-> 0, hit |-> FALSE,
     ntlb |-> FLUSH_TLB(CACHE_MAX_ENTRIES), ntlb_cnt |-> Cold,
     pwc |-> FLUSH_TLB(CACHE_MAX_ENTRIES), pwc_cnt |-> Cold,
     desc_miss |-> 0, seen |-> {}, stale |-> FALSE]

-----------------------------------------------------------------------------
(* One look-up: touch the match, or refill the victim.                     *)

Count(cnt, hit) == IF hit THEN [cnt EXCEPT !.hit = @ + 1]
                          ELSE [cnt EXCEPT !.miss = @ + 1]

LookUp(tlb, W, addr, asid, systs) ==
    LET M == Matches(tlb, W, addr, asid)
    IN  IF M # {} THEN Touch(tlb, First(M), systs)
                  ELSE Refill(tlb, Victim(tlb, W), addr, asid, systs)

NtlbWays(addr) ==
    LET step == ntlb_geo[1] \div ntlb_geo[2]
    IN  Ways(ntlb_geo[1], step, SetIndex(addr \div 4096, step))

PwcWays(addr) ==
    LET step == pwc_geo[1] \div pwc_geo[2]
    IN  Ways(pwc_geo[1], step, SetIndex(addr \div 4, step))

\* History: a hit on something that was not looked up in this simulation.
Witness(s, hit, key) ==
    [s EXCEPT !.seen = @ \cup {key}, !.stale = @ \/ (hit /\ key \notin s.seen)]

\* tlbtrace_ntlb_find and the search of tlbtrace_ntlb_find2.  Neither uses the
\* asid of an entry, which stays 0 as flush_all left it.
tlbtrace_ntlb_find(s, addr) ==
    LET W   == NtlbWays(addr)
        hit == Matches(s.ntlb, W, addr, 0) # {}
    IN  [Witness(s, hit, <<"ntlb", addr, 0>>) EXCEPT
            !.systs = s.systs + 1,
            !.hit = hit,
            !.ntlb = LookUp(s.ntlb, W, addr, 0, s.systs + 1),
            !.ntlb_cnt = Count(s.ntlb_cnt, hit)]

\* tlbtrace_refppa_pwc, tlbtrace_refppa_pwc2 and tlbtrace_refppa_pwc3: guest
\* descriptors are looked up with asid 1, EPT descriptors with asid 0.
tlbtrace_refppa_pwc(s, addr, asid) ==
    LET W   == PwcWays(addr)
        hit == Matches(s.pwc, W, addr, asid) # {}
    IN  [Witness(s, hit, <<"pwc", addr, asid>>) EXCEPT
            !.systs = s.systs + 1,
            !.hit = hit,
            !.pwc = LookUp(s.pwc, W, addr, asid, s.systs + 1),
            !.pwc_cnt = Count(s.pwc_cnt, hit),
            !.desc_miss = s.desc_miss + (IF hit \/ asid = 0 THEN 0 ELSE 1)]

Access(s, n) == [s EXCEPT !.accs = @ + n]

Frame(addr) == addr - (addr % 4096)      \* addr & 0xFFFFF000

\* Addresses of the EPT descriptors of a guest physical address: the first
\* level table is at 0, the second level tables follow it.
l1_mpa(addr) == (addr \div 1048576) * 4
l2_mpa(addr) == 16 * 1024 + (addr \div 1048576) * 1024 + ((addr \div 4096) % 256) * 4

-----------------------------------------------------------------------------
(* The four organisations, per tuple. *)

\* Mutant: counts the descriptor access for the final address as well.
tlbtrace_ntlb_find2_CountsFinal(s, addr, final) ==
    LET found == tlbtrace_ntlb_find(s, addr)
    IN  Access(found, 1 + (IF found.hit THEN 0 ELSE 2))

tlbtrace_ntlb_find2(s, addr, final) ==
    LET found == tlbtrace_ntlb_find(s, addr)
    IN  Access(found, (IF final THEN 0 ELSE 1) + (IF found.hit THEN 0 ELSE 2))

emulate_ntlb2(s, t) ==
    LET s1 == tlbtrace_ntlb_find2(s, Frame(t.l1), FALSE)
        s2 == IF t.level > 1 THEN tlbtrace_ntlb_find2(s1, Frame(t.l2), FALSE) ELSE s1
    IN  IF t.level > 2 THEN tlbtrace_ntlb_find2(s2, t.gpa, TRUE) ELSE s2

\* One descriptor through the PWC: an access if it is not there.
Fetch(s, addr, asid) ==
    LET found == tlbtrace_refppa_pwc(s, addr, asid)
    IN  IF found.hit THEN found ELSE Access(found, 1)

\* Mutant: the second level descriptor is not counted.
EptWalk_OneAccess(s, addr) ==
    tlbtrace_refppa_pwc(Fetch(s, l1_mpa(addr), 0), l2_mpa(addr), 0)

\* The two EPT descriptors that translate a guest physical address.
EptWalk(s, addr) == Fetch(Fetch(s, l1_mpa(addr), 0), l2_mpa(addr), 0)

\* A guest descriptor: when the PWC does not have it, its address is
\* translated first.
emulate_pwc2(s, t) ==
    LET Desc(u, addr) ==
            LET found == tlbtrace_refppa_pwc(u, addr, 1)
            IN  IF found.hit THEN found ELSE Access(EptWalk(found, addr), 1)
        s1 == Desc(s, t.l1)
        s2 == IF t.level > 1 THEN Desc(s1, t.l2) ELSE s1
    IN  IF t.level > 2 THEN EptWalk(s2, t.gpa) ELSE s2

emulate_pwc3(s, t) ==
    LET s1 == Fetch(s, t.l1, 1)
    IN  IF t.level > 1 THEN Fetch(s1, t.l2, 1) ELSE s1

\* Mutant: translates without asking the NTLB.
emulate_full_SkipsNtlb(s, t) ==
    LET s1 == emulate_pwc2(s, [t EXCEPT !.level = 1])
        s2 == IF t.level > 1 THEN Fetch(s1, t.l2, 1) ELSE s1
    IN  IF t.level > 2 THEN EptWalk(s2, t.gpa) ELSE s2

emulate_full(s, t) ==
    LET Translate(u, addr, frame) ==
            LET found == tlbtrace_ntlb_find(u, frame)
            IN  IF found.hit THEN found ELSE EptWalk(found, addr)
        Desc(u, addr) ==
            LET found == tlbtrace_refppa_pwc(u, addr, 1)
            IN  IF found.hit THEN found
                ELSE Access(Translate(found, addr, Frame(addr)), 1)
        s1 == Desc(s, t.l1)
        s2 == IF t.level > 1 THEN Desc(s1, t.l2) ELSE s1
    IN  IF t.level > 2 THEN Translate(s2, t.gpa, t.gpa) ELSE s2

Emulate(s, t) ==
    CASE cmd = "NTLB"      -> emulate_ntlb2(s, t)
      [] cmd = "PWC_EPT"   -> emulate_pwc2(s, t)
      [] cmd = "PWC_NOEPT" -> emulate_pwc3(s, t)
      [] cmd = "NTLB_PWC"  -> emulate_full(s, t)

-----------------------------------------------------------------------------

UsesNtlb == cmd \in {"NTLB", "NTLB_PWC"}
UsesPwc  == cmd # "NTLB"

\* The zero-initialised statics.
NoGeometry == <<0, 0>>

NoResult == [accs |-> 0, ntlb |-> Cold, pwc |-> Cold]

NoWork == [tuples |-> 0, guest |-> 0, final |-> 0]

Init ==
    /\ cmd = "NTLB"
    /\ phase = "idle"
    /\ ntlb_geo = NoGeometry
    /\ pwc_geo = NoGeometry
    /\ sim = flush_all
    /\ result = NoResult
    /\ work = NoWork

\* Mutant: the PWC is not flushed between simulations.
Begin_WarmPwc(c) ==
    /\ phase = "idle"
    /\ phase' = "reading"
    /\ cmd' = c
    /\ sim' = [flush_all EXCEPT !.pwc = sim.pwc]
    /\ result' = NoResult
    /\ work' = NoWork

\* An organisation's function sets its geometry, opens the trace and calls
\* flush_all.  It does not read the caller's result, so zeros stand for whatever a
\* client left there; tlbsim_sim really zeroes it.
Begin(c) ==
    /\ phase = "idle"
    /\ phase' = "reading"
    /\ cmd' = c
    /\ sim' = flush_all
    /\ result' = NoResult
    /\ work' = NoWork

tlbsim_sim_ntlb(ng) == Begin("NTLB") /\ ntlb_geo' = ng /\ UNCHANGED pwc_geo

tlbsim_sim_pwc_ept(pg) == Begin("PWC_EPT") /\ pwc_geo' = pg /\ UNCHANGED ntlb_geo

tlbsim_sim_pwc_noept(pg) == Begin("PWC_NOEPT") /\ pwc_geo' = pg /\ UNCHANGED ntlb_geo

tlbsim_sim_ntlb_pwc(ng, pg) == Begin("NTLB_PWC") /\ ntlb_geo' = ng /\ pwc_geo' = pg

Read(t) ==
    /\ phase = "reading"
    /\ work.tuples < MaxTuples
    /\ sim' = Emulate(sim, t)
    /\ work' = [tuples |-> work.tuples + 1,
                guest  |-> work.guest + (IF t.level > 1 THEN 2 ELSE 1),
                final  |-> work.final + (IF t.level > 2 THEN 1 ELSE 0)]
    /\ UNCHANGED <<cmd, phase, ntlb_geo, pwc_geo, result>>

\* fread returns less than a tuple: each organisation stores the counters of
\* the caches it has.
Finish ==
    /\ phase = "reading"
    /\ phase' = "idle"
    /\ result' = [accs |-> sim.accs,
                  ntlb |-> IF UsesNtlb THEN sim.ntlb_cnt ELSE result.ntlb,
                  pwc  |-> IF UsesPwc THEN sim.pwc_cnt ELSE result.pwc]
    /\ UNCHANGED <<cmd, ntlb_geo, pwc_geo, sim, work>>

Next ==
    \/ \E ng \in NtlbGeometry : tlbsim_sim_ntlb(ng)
    \/ \E pg \in PwcGeometry : tlbsim_sim_pwc_ept(pg) \/ tlbsim_sim_pwc_noept(pg)
    \/ \E ng \in NtlbGeometry, pg \in PwcGeometry : tlbsim_sim_ntlb_pwc(ng, pg)
    \/ \E t \in Tuples : Read(t)
    \/ Finish

Spec == Init /\ [][Next]_vars

-----------------------------------------------------------------------------
(* Properties. *)

Counter == [hit : Nat, miss : Nat]
Table   == [0..(CACHE_MAX_ENTRIES - 1) ->
               [va : Nat \cup {Invalid}, asid : {0, 1}, ts : 0..(TsMod - 1)]]

TypeOK ==
    /\ cmd \in Commands
    /\ phase \in {"idle", "reading"}
    /\ ntlb_geo \in NtlbGeometry \cup {NoGeometry}
    /\ pwc_geo \in PwcGeometry \cup {NoGeometry}
    /\ sim.systs \in Nat /\ sim.accs \in Nat
    /\ sim.ntlb \in Table /\ sim.pwc \in Table
    /\ sim.ntlb_cnt \in Counter /\ sim.pwc_cnt \in Counter /\ sim.desc_miss \in Nat
    /\ result \in [accs : Nat, ntlb : Counter, pwc : Counter]
    /\ work \in [tuples : 0..MaxTuples, guest : Nat, final : Nat]

LookUps(cnt) == cnt.hit + cnt.miss

\* The memory accesses that tlb_sim.c adds up one by one in four functions are
\* what the misses imply: with a PWC each missing descriptor costs one access,
\* with an NTLB alone each guest descriptor costs one and each NTLB miss two.
\* (Two comments in emulate_pwc3 say "miss * 3"; the code adds 1, as tlb_sim.h has
\* it.)
AccsMatchMisses ==
    sim.accs = IF UsesPwc THEN sim.pwc_cnt.miss
                          ELSE work.guest + 2 * sim.ntlb_cnt.miss

\* No look-up is skipped or doubled on any hit or miss path of the four
\* functions: each guest descriptor is looked up once; each descriptor the PWC does
\* not have, and each final address, is translated once, by the NTLB first where
\* there is one; and an EPT walk is two look-ups.
LookUpsMatchWork ==
    /\ sim.systs = LookUps(sim.ntlb_cnt) + LookUps(sim.pwc_cnt)
    /\ cmd = "NTLB" => LookUps(sim.ntlb_cnt) = work.guest + work.final
    /\ cmd = "PWC_EPT" =>
          LookUps(sim.pwc_cnt) = work.guest + 2 * (sim.desc_miss + work.final)
    /\ cmd = "PWC_NOEPT" => LookUps(sim.pwc_cnt) = work.guest
    /\ cmd = "NTLB_PWC" =>
          /\ LookUps(sim.ntlb_cnt) = sim.desc_miss + work.final
          /\ LookUps(sim.pwc_cnt) = work.guest + 2 * sim.ntlb_cnt.miss

\* No cache makes a walk dearer than having no cache at all, which costs three
\* accesses for each guest descriptor and two for the final address.
NeverDearerThanNoCache == sim.accs <= 3 * work.guest + 2 * work.final

\* A hit is always on something this simulation looked up before: nothing of an
\* earlier trace, organisation or geometry is left in a cache.
ColdStart == ~sim.stale

\* Each cache keeps to its geometry: a slot beyond its size stays empty, and a
\* slot other than 0 holds addresses of its own set, none of them twice.
CachesWellFormed ==
    \A i \in 1..(CACHE_MAX_ENTRIES - 1) :
        /\ sim.ntlb[i].va # Invalid =>
              Matches(sim.ntlb, NtlbWays(sim.ntlb[i].va), sim.ntlb[i].va, 0) = {i}
        /\ sim.pwc[i].va # Invalid =>
              Matches(sim.pwc, PwcWays(sim.pwc[i].va), sim.pwc[i].va, sim.pwc[i].asid) = {i}
=============================================================================

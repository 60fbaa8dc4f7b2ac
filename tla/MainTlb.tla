------------------------------ MODULE MainTlb -------------------------------
(***************************************************************************)
(* The main TLB of the tracer (tlb_trace.c): the table sl_tlb, its         *)
(* counters and the fast path for instruction fetches, with every          *)
(* operation that reads or changes them.  What the tracer does with a miss *)
(* (the page walk and the trace file) is in module Tracer.                 *)
(*                                                                         *)
(* An address is represented by its page number: tlbtrace_refmem masks the *)
(* offset away before anything else looks at it.                           *)
(***************************************************************************)
EXTENDS SetAssoc

CONSTANTS
    Page,           \* page numbers (addr >> 12) of the references
    Asid,           \* address space identifiers
    Configs,        \* the <<size, set>> pairs tlbtrace_init is called with
    SetIndex(_, _), \* SetIndex(page, step) is page & (step - 1)
    Garbage,        \* what the entries of a fresh malloc block may hold
    StopAt,         \* references after which a miss ends the process
    MaxRefs         \* bound on the references of one session

\* tlb_set_step of a configuration.
StepOf(c) == c[1] \div c[2]

Entry == [va : Page \cup {Invalid}, asid : Asid \cup {0}, ts : 0..(TsMod - 1)]

ASSUME PageAssumption   == Page \subseteq Nat
ASSUME AsidAssumption   == Asid \subseteq Nat
ASSUME BoundAssumption  == MaxRefs \in Nat /\ StopAt \in Nat
ASSUME GarbageAssumption == Garbage \subseteq Entry
ASSUME ConfigAssumption ==
    \A c \in Configs : /\ c \in Nat \X Nat
                       /\ 1 <= c[2] /\ c[2] <= c[1]
                       /\ StepOf(c) \in 1..c[1]
ASSUME SetIndexAssumption ==
    \A c \in Configs, p \in Page : SetIndex(p, StepOf(c)) \in 0..(StepOf(c) - 1)

VARIABLES
    config,        \* <<tlb_size, tlb_set>> as tlbtrace_init stored them
    table,         \* "null", "raw" (allocated, never flushed) or "ready"
    sl_tlb,
    last_ins_idx,
    systs,
    sl_cnt,
    halted,        \* exit(0) was called
    live,          \* history: keys missed on since a flush last covered them
    last,          \* history: the last reference and what became of it
    streak         \* history: misses in a row of the last key

tlb  == <<config, table, sl_tlb, last_ins_idx, systs, sl_cnt, halted>>
vars == <<config, table, sl_tlb, last_ins_idx, systs, sl_cnt, halted,
          live, last, streak>>

tlb_size == config[1]
Slots    == 0..(tlb_size - 1)
Key      == Page \X Asid

\* The slots the search for a page visits.
WaysIn(c, page) == Ways(c[1], StepOf(c), SetIndex(page, StepOf(c)))
WaysOf(page)    == WaysIn(config, page)

\* The zero-initialised statics before the first tlbtrace_init.
NoConfig == <<0, 0>>

\* tlbtrace_start has flushed the table.
Ready == table = "ready"

\* No reference since the last flush or restart.
NoRef == [key |-> <<Invalid, 0>>, hit |-> FALSE, slot |-> Invalid]

Forget == last' = NoRef /\ streak' = 0

Init ==
    /\ config = NoConfig
    /\ table = "null"
    /\ sl_tlb = << >>
    /\ last_ins_idx = 0
    /\ systs = 0
    /\ sl_cnt = [hit |-> 0, miss |-> 0]
    /\ halted = FALSE
    /\ live = {}
    /\ last = NoRef
    /\ streak = 0

-----------------------------------------------------------------------------
(* Set-up and tear-down. *)

\* last_ins_idx, systs and sl_cnt keep what an earlier life left in them, and
\* so does a table that was not destroyed: its block is leaked.
tlbtrace_init(c) ==
    /\ ~halted
    /\ config' = c
    /\ table' = "raw"
    /\ sl_tlb' \in [0..(c[1] - 1) -> Garbage]
    /\ UNCHANGED <<last_ins_idx, systs, sl_cnt, halted>>
    /\ live' = {} /\ Forget

\* Mutant: the counters are not reset.
tlbtrace_start_KeepsCounters ==
    /\ ~halted
    /\ table # "null"
    /\ table' = "ready"
    /\ sl_tlb' = FLUSH_TLB(tlb_size)
    /\ systs' = 0
    /\ UNCHANGED <<config, last_ins_idx, sl_cnt, halted>>
    /\ live' = {} /\ Forget

\* The part of tlbtrace_start that resets the TLB.
tlbtrace_start ==
    /\ ~halted
    /\ table # "null"
    /\ table' = "ready"
    /\ sl_tlb' = FLUSH_TLB(tlb_size)
    /\ systs' = 0
    /\ sl_cnt' = [hit |-> 0, miss |-> 0]
    /\ UNCHANGED <<config, last_ins_idx, halted>>
    /\ live' = {} /\ Forget

tlbtrace_destroy ==
    /\ ~halted
    /\ table # "null"
    /\ table' = "null"
    /\ sl_tlb' = << >>
    /\ UNCHANGED <<config, last_ins_idx, systs, sl_cnt, halted>>
    /\ live' = {} /\ Forget

-----------------------------------------------------------------------------
(* tlbtrace_refmem_sl: look the page up, refill on a miss.                 *)

Referable == ~halted /\ Ready /\ systs < MaxRefs

\* The comparison of the fast path.  An index beyond the table reads memory
\* the tracer does not own: either answer is possible.
FastMatch(page, asid) ==
    IF last_ins_idx \in Slots
    THEN {Holds(sl_tlb, last_ins_idx, page, asid)}
    ELSE BOOLEAN

\* History of a reference that hit or refilled the given slot.
Record(page, asid, hit, slot) ==
    /\ last' = [key |-> <<page, asid>>, hit |-> hit, slot |-> slot]
    /\ streak' = IF hit THEN 0
                 ELSE IF last.key = <<page, asid>> THEN streak + 1 ELSE 1

Hit(page, asid, slot) ==
    /\ systs' = systs + 1
    /\ sl_tlb' = Touch(sl_tlb, slot, systs')
    /\ sl_cnt' = [sl_cnt EXCEPT !.hit = @ + 1]
    /\ UNCHANGED <<config, table, halted, live>>
    /\ Record(page, asid, TRUE, slot)

\* An instruction fetch that finds its page where the last one left it.
FastPath(page, asid, ins) ==
    /\ Referable
    /\ ins
    /\ TRUE \in FastMatch(page, asid)
    /\ Hit(page, asid, last_ins_idx)
    /\ UNCHANGED last_ins_idx

\* Mutant: a fetch that fails the fast path is refilled without a search.
Missed_NoSearch(page, asid, ins) ==
    /\ Referable
    /\ ins => FALSE \in FastMatch(page, asid)
    /\ ~ins => Matches(sl_tlb, WaysOf(page), page, asid) = {}

Missed(page, asid, ins) ==
    /\ Referable
    /\ ins => FALSE \in FastMatch(page, asid)
    /\ Matches(sl_tlb, WaysOf(page), page, asid) = {}

SearchHit(page, asid, ins) ==
    LET M == Matches(sl_tlb, WaysOf(page), page, asid)
    IN  /\ Referable
        /\ ins => FALSE \in FastMatch(page, asid)
        /\ M # {}
        /\ Hit(page, asid, First(M))
        /\ last_ins_idx' = IF ins THEN First(M) ELSE last_ins_idx

Miss(page, asid, ins) ==
    LET mi == Victim(sl_tlb, WaysOf(page))
    IN  /\ Missed(page, asid, ins)
        /\ systs' = systs + 1
        /\ sl_tlb' = Refill(sl_tlb, mi, page, asid, systs')
        /\ last_ins_idx' = IF ins THEN mi ELSE last_ins_idx
        /\ sl_cnt' = [sl_cnt EXCEPT !.miss = @ + 1]
        /\ halted' = (systs' >= StopAt)
        /\ UNCHANGED <<config, table>>
        /\ live' = live \cup {<<page, asid>>}
        /\ Record(page, asid, FALSE, mi)

tlbtrace_refmem_sl(page, asid, ins) ==
    \/ FastPath(page, asid, ins)
    \/ SearchHit(page, asid, ins)
    \/ Miss(page, asid, ins)

-----------------------------------------------------------------------------
(* Invalidation.  The callers return early unless the tracer is started    *)
(* (Tracer adds that guard).  Every slot is scanned, not one set.          *)

FlushSlots(S) ==
    /\ ~halted
    /\ Ready
    /\ sl_tlb' = [i \in Slots |-> IF i \in S THEN FlushedEntry ELSE sl_tlb[i]]
    /\ UNCHANGED <<config, table, last_ins_idx, systs, sl_cnt, halted>>
    /\ Forget

tlbtrace_flush_all ==
    /\ FlushSlots(Slots)
    /\ live' = {}

\* Mutant: scans the set of the page only.
tlbtrace_flush_entry_OneSet(page, asid) ==
    /\ FlushSlots({i \in WaysOf(page) : Holds(sl_tlb, i, page, asid)})
    /\ live' = live \ {<<page, asid>>}

tlbtrace_flush_entry(page, asid) ==
    /\ FlushSlots({i \in Slots : Holds(sl_tlb, i, page, asid)})
    /\ live' = live \ {<<page, asid>>}

tlbtrace_flush_asid(asid) ==
    /\ FlushSlots({i \in Slots : sl_tlb[i].asid = asid})
    /\ live' = {k \in live : k[2] # asid}

Next ==
    \/ \E c \in Configs : tlbtrace_init(c)
    \/ tlbtrace_start
    \/ tlbtrace_destroy
    \/ \E page \in Page, asid \in Asid, ins \in BOOLEAN :
          tlbtrace_refmem_sl(page, asid, ins)
    \/ tlbtrace_flush_all
    \/ \E page \in Page, asid \in Asid : tlbtrace_flush_entry(page, asid)
    \/ \E asid \in Asid : tlbtrace_flush_asid(asid)

Spec == Init /\ [][Next]_vars

-----------------------------------------------------------------------------
(* Properties. *)

TypeOK ==
    /\ config \in Configs \cup {NoConfig}
    /\ table \in {"null", "raw", "ready"}
    /\ table # "null" => config \in Configs /\ sl_tlb \in [Slots -> Entry]
    /\ last_ins_idx \in Nat
    /\ systs \in 0..MaxRefs
    /\ sl_cnt \in [hit : Nat, miss : Nat]
    /\ halted \in BOOLEAN
    /\ live \subseteq Key
    /\ last \in [key : Key \cup {NoRef.key}, hit : BOOLEAN, slot : Nat \cup {Invalid}]
    /\ streak \in Nat

\* A slot other than slot 0 only ever holds pages of its own set: no refill
\* strays into the set of another index.  Slot 0 is the exception the loop's
\* initial choice mi = 0 creates.
Placement ==
    Ready => \A i \in Slots \ {0} :
                sl_tlb[i].va # Invalid => i \in WaysOf(sl_tlb[i].va)

\* No set holds the same translation twice, so that which copy is touched,
\* evicted or hit is never in question; the copy a refill may leave in slot 0
\* for another set is not reachable by that set's search.
NoDuplicate ==
    Ready => \A k \in Key :
                \A i, j \in Matches(sl_tlb, WaysOf(k[1]), k[1], k[2]) : i = j

\* Whatever the table holds was missed on after the last flush that covered it.
ResidentIsLive ==
    Ready => \A i \in Slots :
                sl_tlb[i].va # Invalid => <<sl_tlb[i].va, sl_tlb[i].asid>> \in live

\* A hit, on the fast path or in the search, is on a translation that was
\* missed on (and so recorded) after the last flush that covered it: no
\* invalidation leaves a stale translation behind, in any slot.
HitIsLive == last.hit => last.key \in live

\* The same reference repeated with nothing between misses at most twice: a
\* refill that landed in slot 0 for another set makes slot 0 the newest entry,
\* so that the second refill lands in the page's own set.
ThirdTimeHits == streak <= 2

\* The slot of the last reference is not the victim of the next miss, except
\* when slot 0 is the only slot the missing page may use.
MRUSurvives ==
    [][ (systs' = systs + 1 /\ ~last'.hit /\ last'.slot = last.slot)
            => (last.slot = 0 /\ WaysOf(last'.key[1]) = {0}) ]_vars

\* Every reference since tlbtrace_start is counted once, as a hit or as a miss.
CountersAddUp == Ready => sl_cnt.hit + sl_cnt.miss = systs

-----------------------------------------------------------------------------
(* The inductive invariants behind these properties. *)

\* All configurations have one size, so that the index the fast path keeps from
\* an earlier table is a slot of the present one.
OneSize == \A c, d \in Configs : c[1] = d[1]

\* No time stamp is truncated.
NoWrap == MaxRefs < TsMod

LastInsInBounds == \A c \in Configs : last_ins_idx \in 0..(c[1] - 1)

SafetyInv ==
    /\ TypeOK
    /\ LastInsInBounds
    /\ Placement
    /\ NoDuplicate
    /\ ResidentIsLive
    /\ HitIsLive
    /\ CountersAddUp

\* Used slots have different time stamps, none of them in the future; the slot
\* of the last reference holds its key and has the newest; a second miss in a
\* row has refilled a slot of the page's own set.
Recency ==
    /\ Ready =>
         /\ \A i \in Slots : sl_tlb[i].ts <= systs
         /\ \A i, j \in Slots : sl_tlb[i].ts = sl_tlb[j].ts => i = j \/ sl_tlb[i].ts = 0
    /\ last.slot # Invalid =>
         /\ Ready
         /\ systs > 0
         /\ last.slot \in Slots
         /\ last.key \in Key
         /\ Holds(sl_tlb, last.slot, last.key[1], last.key[2])
         /\ sl_tlb[last.slot].ts = systs
    /\ streak > 0 => last.slot # Invalid
    /\ streak > 1 => last.slot \in WaysOf(last.key[1])
    /\ streak <= 2

-----------------------------------------------------------------------------
(* What the documentation says and the code does not keep. *)

\* tlb_trace.h: tlbtrace_start first resets all states of the tracer, so that
\* the fast path reads a slot of the table.
FastPathInBounds == Ready => last_ins_idx \in Slots

\* "miss and refill with LRU policy": after a reference its page is where the
\* next search for it looks.
RefillIsFindable ==
    last # NoRef =>
        Matches(sl_tlb, WaysOf(last.key[1]), last.key[1], last.key[2]) # {}
=============================================================================

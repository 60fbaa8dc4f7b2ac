------------------------------ MODULE SetAssoc ------------------------------
(***************************************************************************)
(* The set-associative table that every cache of the TLB Analyzer is: the  *)
(* main TLB of the tracer (sl_tlb in tlb_trace.c) and the NTLBs and PWCs   *)
(* of the simulator (tlb_sim.c) are arrays of struct TLB_ENTRY searched    *)
(* and refilled by the same loop.  The operators below are that loop.      *)
(*                                                                         *)
(* A table is a function from 0..size-1 to entries.  The pa field of       *)
(* struct TLB_ENTRY is never read or written and is left out.              *)
(***************************************************************************)
EXTENDS Integers

CONSTANT TsMod   \* Range of the field "unsigned int ts": 2^32 in the build.

ASSUME TsModAssumption == TsMod \in Nat \ {0}

\* 0xFFFFFFFF, the va of an unused entry.  Every address that is looked up
\* is aligned, so it differs from all of them.
Invalid == -1

FlushedEntry == [va |-> Invalid, asid |-> 0, ts |-> 0]

\* Mutant: flushes one entry past the end of the table.
FLUSH_TLB_PastEnd(size) == [i \in 0..size |-> FlushedEntry]

FLUSH_TLB(size) == [i \in 0..(size - 1) |-> FlushedEntry]

\* Storing the 64-bit systs in the 32-bit field ts truncates it.
Stamp(systs) == systs % TsMod

\* The slots the loop visits for a set index below the step.
Ways(size, step, index) == {i \in 0..(size - 1) : i % step = index}

Holds(tlb, i, va, asid) == tlb[i].va = va /\ tlb[i].asid = asid

Matches(tlb, W, va, asid) == {i \in W : Holds(tlb, i, va, asid)}

First(S) == CHOOSE i \in S : \A j \in S : i <= j

\* Mutant: the comparison of time stamps is the wrong way round.
Older_Reversed(tlb, W) == {i \in W : tlb[i].ts > tlb[0].ts}

\* The candidates that displace the initial choice mi = 0, mts = tlb[0].ts.
\* Slot 0 is that initial choice for every set, its own or not.
Older(tlb, W) == {i \in W : tlb[i].ts < tlb[0].ts}

\* i is visited with the smallest ts below the initial one, and is the first
\* such slot (the comparison in the loop is strict).
Oldest(tlb, S, i) ==
    \A j \in S : tlb[i].ts < tlb[j].ts \/ (tlb[i].ts = tlb[j].ts /\ i <= j)

\* Mutant: the oldest entry of the table, whatever its set.
Victim_AnySet(tlb, W) ==
    LET S == Older(tlb, DOMAIN tlb)
    IN  IF S = {} THEN 0 ELSE CHOOSE i \in S : Oldest(tlb, S, i)

Victim(tlb, W) ==
    LET S == Older(tlb, W)
    IN  IF S = {} THEN 0 ELSE CHOOSE i \in S : Oldest(tlb, S, i)

\* Mutant: a hit does not refresh the time stamp.
Touch_FIFO(tlb, i, systs) == tlb

Touch(tlb, i, systs) == [tlb EXCEPT ![i] = [@ EXCEPT !.ts = Stamp(systs)]]

\* Mutant: a refill leaves the time stamp of the evicted entry.
Refill_KeepsTs(tlb, i, va, asid, systs) ==
    [tlb EXCEPT ![i] = [@ EXCEPT !.va = va, !.asid = asid]]

Refill(tlb, i, va, asid, systs) ==
    [tlb EXCEPT ![i] = [va |-> va, asid |-> asid, ts |-> Stamp(systs)]]
=============================================================================

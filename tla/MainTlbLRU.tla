----------------------------- MODULE MainTlbLRU -----------------------------
(***************************************************************************)
(* The main TLB of module MainTlb, configured as one set, implements the   *)
(* LRU cache of module LRUCache as long as no time stamp wraps.            *)
(***************************************************************************)
EXTENDS MainTlb, FiniteSets

CONSTANT Size   \* entries of the one configuration

ASSUME OneSetAssumption ==
    \A c \in Configs : c[1] = Size /\ StepOf(c) = 1
ASSUME NoWrapAssumption == MaxRefs < TsMod

\* When the entry that holds a key was last touched; 0 when none does.
UsedAt(k) ==
    IF Ready /\ \E i \in Slots : Holds(sl_tlb, i, k[1], k[2])
    THEN sl_tlb[CHOOSE i \in Slots : Holds(sl_tlb, i, k[1], k[2])].ts
    ELSE 0

LRU == INSTANCE LRUCache WITH
           Capacity <- Size,
           used     <- [k \in Key |-> UsedAt(k)],
           clock    <- systs,
           cnt      <- sl_cnt

\* Every hit, refill, eviction and flush of the table is one the LRU cache
\* makes: the search order, the fast path, the reuse of flushed slots and the
\* choice of mi by the smallest ts are LRU, and the hit and miss counters are
\* those of an LRU cache.
ImplementsLRU == LRU!Spec
=============================================================================

------------------------------ MODULE LRUCache ------------------------------
(***************************************************************************)
(* What a fully associative cache with the least-recently-used policy      *)
(* promises, without slots: a key is in the cache or not, a miss brings it *)
(* in, and a key leaves only when it is flushed or when the cache is full  *)
(* and no other key has gone unused for longer.                            *)
(***************************************************************************)
EXTENDS Integers, FiniteSets

CONSTANTS Key,       \* what is cached
          Capacity   \* how many keys fit

VARIABLES used,      \* used[k]: when k was last used; 0 if k is not cached
          clock,     \* accesses so far
          cnt        \* hits and misses so far

vars == <<used, clock, cnt>>

Cached == {k \in Key : used[k] > 0}

LeastRecent(k) == k \in Cached /\ \A j \in Cached : used[k] <= used[j]

Init ==
    /\ used = [k \in Key |-> 0]
    /\ clock = 0
    /\ cnt = [hit |-> 0, miss |-> 0]

Reset ==
    /\ used' = [k \in Key |-> 0]
    /\ clock' = 0
    /\ cnt' = [hit |-> 0, miss |-> 0]

Hit(k) ==
    /\ k \in Cached
    /\ clock' = clock + 1
    /\ used' = [used EXCEPT ![k] = clock + 1]
    /\ cnt' = [cnt EXCEPT !.hit = @ + 1]

Fill(k) ==
    /\ k \notin Cached
    /\ Cardinality(Cached) < Capacity
    /\ clock' = clock + 1
    /\ used' = [used EXCEPT ![k] = clock + 1]
    /\ cnt' = [cnt EXCEPT !.miss = @ + 1]

Replace(k, victim) ==
    /\ k \notin Cached
    /\ Cardinality(Cached) = Capacity
    /\ LeastRecent(victim)
    /\ clock' = clock + 1
    /\ used' = [used EXCEPT ![k] = clock + 1, ![victim] = 0]
    /\ cnt' = [cnt EXCEPT !.miss = @ + 1]

\* Any keys may be thrown out.
Flush ==
    /\ DOMAIN used' = Key
    /\ \A k \in Key : used'[k] \in {0, used[k]}
    /\ UNCHANGED <<clock, cnt>>

Next ==
    \/ Reset
    \/ \E k \in Key : Hit(k) \/ Fill(k)
    \/ \E k, victim \in Key : Replace(k, victim)
    \/ Flush

Spec == Init /\ [][Next]_vars
=============================================================================

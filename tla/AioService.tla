----------------------------- MODULE AioService -----------------------------
(***************************************************************************)
(* What asynchronous I/O promises its clients, without threads, signals or *)
(* queues: the callback of a request is called once, unless the request is *)
(* cancelled first; while a synchronous operation is in progress no        *)
(* callback of an outer request begins; and the operation is not over      *)
(* before every request made for it has ended.                             *)
(***************************************************************************)
EXTENDS Naturals

CONSTANTS Block     \* what a client refers to a request by

VARIABLES pending,  \* submitted; the callback has not been called
          running,  \* the callback has been called and has not returned
          level,    \* synchronous operations in progress, each within the last
          lev       \* lev[a]: the level at which a was submitted

vars == <<pending, running, level, lev>>

Idle == Block \ (pending \cup running)

Init ==
    /\ pending = {}
    /\ running = {}
    /\ level = 0
    /\ lev = [a \in Block |-> 0]

SubmitAt(a, n) ==
    /\ a \in Idle
    /\ pending' = pending \cup {a}
    /\ lev' = [lev EXCEPT ![a] = n]
    /\ UNCHANGED running

Submit(a) == SubmitAt(a, level) /\ UNCHANGED level

\* A synchronous operation begins with its first request.
Enter(a) == SubmitAt(a, level + 1) /\ level' = level + 1

Leave ==
    /\ level > 0
    /\ \A a \in pending \cup running : lev[a] < level
    /\ level' = level - 1
    /\ UNCHANGED <<pending, running, lev>>

Begin(a) ==
    /\ a \in pending
    /\ lev[a] = level
    /\ pending' = pending \ {a}
    /\ running' = running \cup {a}
    /\ UNCHANGED <<level, lev>>

End(a) ==
    /\ a \in running
    /\ lev[a] = level
    /\ running' = running \ {a}
    /\ lev' = [lev EXCEPT ![a] = 0]
    /\ UNCHANGED <<pending, level>>

Cancel(a) ==
    /\ a \in pending
    /\ pending' = pending \ {a}
    /\ lev' = [lev EXCEPT ![a] = 0]
    /\ UNCHANGED <<running, level>>

Next ==
    \/ \E a \in Block : Submit(a) \/ Enter(a) \/ Begin(a) \/ End(a) \/ Cancel(a)
    \/ Leave

Safety == Init /\ [][Next]_vars
=============================================================================

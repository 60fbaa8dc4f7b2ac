--------------------------- MODULE AioPoolProofs ----------------------------
(***************************************************************************)
(* The steps of the thread pool and of the main thread keep the pool's     *)
(* invariant: the counters are right and no request is stranded.  They     *)
(* also keep what makes the main thread notice a completion.               *)
(***************************************************************************)
EXTENDS AioServiceProofs

\* What a thread that moves does to the counters: an idle one goes on idle, takes
\* a request or exits; one at its I/O becomes idle; a new one is idle.
LEMMA MoveCounts ==
  ASSUME ThreadCounts, NEW where, NEW cur, NEW idle, Counted(where, cur, idle), NEW t \in Thread
  PROVE  /\ cur \in Nat /\ idle \in Nat /\ max_threads \in Nat
         /\ where[t] \notin {"none", "io"} =>
               /\ \A pc \in WorkerAt \ {"none", "io"} :
                     Counted([where EXCEPT ![t] = pc], cur, idle)
               /\ Counted([where EXCEPT ![t] = "io"], cur, idle - 1)
               /\ Counted([where EXCEPT ![t] = "none"], cur - 1, idle - 1)
         /\ where[t] = "io" =>
               \A pc \in WorkerAt \ {"none", "io"} :
                  Counted([where EXCEPT ![t] = pc], cur, idle + 1)
         /\ where[t] = "none" /\ cur < max_threads =>
               \A pc \in WorkerAt \ {"none", "io"} :
                  Counted([where EXCEPT ![t] = pc], cur + 1, idle + 1)
BY Zenon DEF ThreadCounts

\* A step that takes nothing from the workers strands no request.
LEMMA NotStranded ==
  ASSUME NoRequestStranded, ~In("cond_signal"), at' = at,
         request_list' # <<>> => request_list # <<>>
  PROVE  NoRequestStranded'
BY DEF NoRequestStranded, Alive

\* Nobody was alive only if the submission starts a thread.
LEMMA SubmitStep ==
  ASSUME ListsOK, WorkersOK, free_aiocb # {}, NEW c \in Context,
         NEW cb \in {"device", "bdrv_rw_em_cb"}, paio_submit(qemu_aio_get, c, cb)
  PROVE  ListsOK' /\ WorkersOK' /\ Alive' # {}
<1> DEFINE a == qemu_aio_get
<1>1. a \in free_aiocb /\ a \in Block
  BY DEF qemu_aio_get, ListsOK
<1> HIDE DEF a
<1>2. ListsOK'
  <2>1. /\ free_aiocb' = free_aiocb \ {a}
        /\ aiocb' = [aiocb EXCEPT ![a] = [ret |-> "EINPROGRESS", active |-> FALSE,
                                          context |-> c, cb |-> cb]]
        /\ first_aio' = <<a>> \o first_aio
        /\ request_list' = Append(request_list, a)
    BY DEF paio_submit, a
  <2>2. free_aiocb' \subseteq Block /\ aiocb' \in [Block -> Request]
    BY <1>1, <2>1 DEF ListsOK, Request
  <2>3. first_aio' \in Seq(Block)
    BY <1>1, <2>1, Push DEF ListsOK
  <2>4. request_list' \in Seq(Block)
    BY <1>1, <2>1, AppendProperties DEF ListsOK
  <2> QED
    BY <2>2, <2>3, <2>4 DEF ListsOK
<1>3. /\ cur_threads \in Nat /\ max_threads \in Nat /\ cur_threads <= max_threads
      /\ idle_threads # 0 \/ cur_threads = max_threads => \E t \in Thread : at[t] # "none"
  <2>1. Counted(at, cur_threads, idle_threads) /\ ThreadCounts
    BY DEF WorkersOK
  <2>2. cur_threads <= max_threads
    BY <2>1 DEF Counted
  <2> QED
    BY <2>1, <2>2, Zenon DEF ThreadCounts
<1>4. CASE idle_threads = 0 /\ cur_threads < max_threads
  <2> DEFINE t == CHOOSE t \in Thread \ Alive : TRUE
  <2>1. t \in Thread /\ at[t] = "none"
    BY <1>4, FreeThread
  <2> HIDE DEF t
  <2>2. /\ cur_threads' = cur_threads + 1 /\ idle_threads' = idle_threads + 1
        /\ at' = [at EXCEPT ![t] = "lock"] /\ job' = job
    BY <1>4 DEF paio_submit, spawn_thread, t
  <2>3. "lock" \in WorkerAt \ {"none", "io"} /\ at \in [Thread -> WorkerAt]
    BY DEF WorkerAt, WorkersOK, Counted
  <2>4. Counted(at', cur_threads', idle_threads')
    BY <1>4, <2>1, <2>2, <2>3, MoveCounts, Zenon DEF WorkersOK
  <2>5. WorkersOK'
    BY <2>1, <2>2, <2>3, <2>4 DEF WorkersOK
  <2>6. t \in Alive'
    BY <2>1, <2>2, <2>3 DEF Alive
  <2> QED
    BY <1>2, <2>5, <2>6
<1>5. CASE ~(idle_threads = 0 /\ cur_threads < max_threads)
  <2>1. UNCHANGED <<cur_threads, idle_threads, at, job>>
    BY <1>5 DEF paio_submit, workers
  <2>2. WorkersOK'
    BY <2>1 DEF WorkersOK
  <2>3. idle_threads # 0 \/ cur_threads = max_threads
    BY <1>3, <1>5
  <2>4. Alive' # {}
    BY <1>3, <2>1, <2>3 DEF Alive
  <2> QED
    BY <1>2, <2>2, <2>4
<1> QED
  BY <1>4, <1>5

\* A worker that moves and goes on, or for which there is nothing to do, strands
\* no request.
LEMMA WorkerMoves ==
  ASSUME WorkersOK, NEW t \in Thread, NEW pc \in WorkerAt, at' = [at EXCEPT ![t] = pc],
         pc \notin {"none", "wait"} \/ request_list' = <<>>
  PROVE  NoRequestStranded'
<1>1. at \in [Thread -> WorkerAt]
  BY DEF WorkersOK, Counted
<1>2. at'[t] = pc
  BY <1>1
<1>3. CASE pc \notin {"none", "wait"}
  BY <1>2, <1>3 DEF NoRequestStranded, Alive
<1>4. CASE request_list' = <<>>
  BY <1>4 DEF NoRequestStranded
<1> QED
  BY <1>3, <1>4

\* The steps of a worker.
LEMMA WorkerStep ==
  ASSUME PoolInv, NEW t \in Thread,
         \/ ThreadStep(t)
         \/ ThreadWakes(t) /\ UNCHANGED <<wakeup, async, client, stack>>
  PROVE  PoolInv'
<1> USE DEF PoolInv
<1>1. /\ at \in [Thread -> WorkerAt] /\ job \in [Thread -> Block \cup {NoBlock}]
      /\ Counted(at, cur_threads, idle_threads)
      /\ \A u \in Thread : at[u] = "io" => job[u] \in Block
  BY DEF WorkersOK, Counted
<1>2. UNCHANGED <<async, client, stack>> /\ (UNCHANGED wakeup \/ (sigusr2' = TRUE /\ pipe' = pipe))
  BY DEF ThreadStep, ThreadKills
<1>3. StackOK' /\ AsyncOK'
  BY <1>2, Zenon DEF StackOK, AsyncOK, async, client, wakeup
<1>4. CASE ThreadTakes(t)
  <2> DEFINE a == Head(request_list)
  <2>1. /\ at[t] \in {"lock", "timedout"}
        /\ request_list # <<>>
        /\ request_list' = Tail(request_list)
        /\ aiocb' = [aiocb EXCEPT ![a].active = TRUE]
        /\ idle_threads' = idle_threads - 1 /\ cur_threads' = cur_threads
        /\ at' = [at EXCEPT ![t] = "io"] /\ job' = [job EXCEPT ![t] = a]
        /\ first_aio' = first_aio /\ free_aiocb' = free_aiocb
    BY <1>4 DEF ThreadTakes, TakeRequest
  <2>2. a \in Block /\ request_list' \in Seq(Block)
    BY <2>1, Split DEF ListsOK
  <2> HIDE DEF a
  <2>3. aiocb' \in [Block -> Request]
    BY <2>1, <2>2, ZenonT(30) DEF ListsOK, Request
  <2>4. ListsOK'
    BY <2>1, <2>2, <2>3 DEF ListsOK
  <2>5. Counted(at', cur_threads', idle_threads')
    BY <1>1, <2>1, MoveCounts, Zenon DEF WorkersOK
  <2>6. WorkersOK'
    BY <1>1, <2>1, <2>2, <2>5 DEF WorkersOK
  <2>7. NoRequestStranded'
    BY <2>1, WorkerMoves, Zenon DEF WorkerAt
  <2> QED
    BY <1>3, <2>4, <2>6, <2>7
<1>5. CASE ThreadWaits(t)
  <2>1. /\ at[t] = "lock" /\ request_list = <<>> /\ at' = [at EXCEPT ![t] = "wait"]
        /\ UNCHANGED <<lists, cur_threads, idle_threads, job>>
    BY <1>5 DEF ThreadWaits
  <2>2. ListsOK' /\ request_list' = <<>>
    BY <2>1 DEF ListsOK, lists
  <2>3. "wait" \in WorkerAt \ {"none", "io"}
    BY DEF WorkerAt
  <2>4. Counted(at', cur_threads', idle_threads')
    BY <1>1, <2>1, <2>3, MoveCounts, ZenonT(30) DEF WorkersOK
  <2>5. WorkersOK'
    BY <1>1, <2>1, <2>4 DEF WorkersOK
  <2>6. NoRequestStranded'
    BY <2>2 DEF NoRequestStranded
  <2> QED
    BY <1>3, <2>2, <2>5, <2>6
<1>6. CASE ThreadExits(t)
  <2>1. /\ at[t] = "timedout" /\ request_list = <<>> /\ at' = [at EXCEPT ![t] = "none"]
        /\ cur_threads' = cur_threads - 1 /\ idle_threads' = idle_threads - 1
        /\ UNCHANGED <<lists, job>>
    BY <1>6 DEF ThreadExits
  <2>2. ListsOK' /\ request_list' = <<>>
    BY <2>1 DEF ListsOK, lists
  <2>4. Counted(at', cur_threads', idle_threads')
    BY <1>1, <2>1, MoveCounts, Zenon DEF WorkersOK
  <2>5. WorkersOK'
    BY <1>1, <2>1, <2>4 DEF WorkersOK
  <2>6. NoRequestStranded'
    BY <2>2 DEF NoRequestStranded
  <2> QED
    BY <1>3, <2>2, <2>5, <2>6
<1>7. CASE ThreadCompletes(t)
  <2>1. /\ at[t] = "io" /\ at' = [at EXCEPT ![t] = "kill"]
        /\ aiocb' = [aiocb EXCEPT ![job[t]].ret = "done"]
        /\ idle_threads' = idle_threads + 1 /\ cur_threads' = cur_threads
        /\ job' = [job EXCEPT ![t] = NoBlock]
        /\ UNCHANGED <<request_list, first_aio, free_aiocb>>
    BY <1>7 DEF ThreadCompletes
  <2>2. job[t] \in Block
    BY <1>1, <2>1
  <2>3. aiocb' \in [Block -> Request]
    BY <2>1, <2>2, ZenonT(30) DEF ListsOK, Request
  <2>4. ListsOK'
    BY <2>1, <2>3 DEF ListsOK
  <2>5. "kill" \in WorkerAt \ {"none", "io"}
    BY DEF WorkerAt
  <2>6. Counted(at', cur_threads', idle_threads')
    BY <1>1, <2>1, <2>5, MoveCounts, ZenonT(30) DEF WorkersOK
  <2>7. WorkersOK'
    BY <1>1, <2>1, <2>6 DEF WorkersOK
  <2>8. NoRequestStranded'
    BY <2>1, <2>5, WorkerMoves, Zenon
  <2> QED
    BY <1>3, <2>4, <2>7, <2>8
<1>8. ASSUME NEW pc \in {"lock", "timedout"}, at' = [at EXCEPT ![t] = pc],
             at[t] \in {"kill", "wait"}, UNCHANGED <<lists, cur_threads, idle_threads, job>>
      PROVE  PoolInv'
  <2>1. ListsOK'
    BY <1>8 DEF ListsOK, lists
  <2>2. pc \in WorkerAt \ {"none", "io"}
    BY DEF WorkerAt
  <2>3. Counted(at', cur_threads', idle_threads')
    BY <1>1, <1>8, <2>2, MoveCounts, Zenon DEF WorkersOK
  <2>4. WorkersOK'
    BY <1>1, <1>8, <2>3 DEF WorkersOK
  <2>5. NoRequestStranded'
    BY <1>8, <2>2, WorkerMoves, Zenon
  <2> QED
    BY <1>3, <2>1, <2>4, <2>5
<1>9. CASE ThreadKills(t)
  BY <1>8, <1>9 DEF ThreadKills
<1>10. CASE ThreadWakes(t)
  <2>1. PICK pc \in {"timedout", "lock"} : at' = [at EXCEPT ![t] = pc]
    BY <1>10, Zenon DEF ThreadWakes
  <2> QED
    BY <1>8, <1>10, <2>1, Zenon DEF ThreadWakes
<1> QED
  BY <1>4, <1>5, <1>6, <1>7, <1>9, <1>10 DEF ThreadStep

-----------------------------------------------------------------------------
(* The steps of the main thread. *)

\* A step of the main thread that leaves the queues and the workers alone.
LEMMA QuietStep ==
  ASSUME PoolInv, UNCHANGED <<lists, workers>>, ~In("cond_signal"), StackOK', AsyncOK'
  PROVE  PoolInv'
<1>1. ListsOK' /\ WorkersOK' /\ at' = at /\ request_list' = request_list
  BY DEF PoolInv, ListsOK, WorkersOK, lists, workers
<1>2. NoRequestStranded'
  BY <1>1, NotStranded DEF PoolInv
<1> QED
  BY <1>1, <1>2 DEF PoolInv

\* A stack of the right depth for the context stays so when the queue is to be
\* processed.
LEMMA BottomHalfStep ==
  ASSUME PoolInv, NEW next \in Stacks, Depth(next) = async_context, RunBottomHalf(next),
         ~In("cond_signal"), UNCHANGED <<lists, workers, wakeup>>
  PROVE  PoolInv'
<1>1. Process(1) \in Frame /\ IsRead(Process(1)) = 0
  BY NewFrames DEF IsRead
<1>2. async_context \in Context /\ Depth(next) + 0 = Depth(next)
  BY DEF PoolInv, StackOK, Context
<1>3. /\ bh' = [bh EXCEPT ![async_context] = FALSE] /\ stack' = <<Process(1)>> \o next
      /\ UNCHANGED <<async_context, async_ret, client>>
  BY DEF RunBottomHalf
<1>4. StackOK'
  BY <1>1, <1>2, <1>3, StackPush DEF PoolInv, StackOK
<1>5. AsyncOK'
  BY <1>2, <1>3 DEF PoolInv, AsyncOK, client, wakeup
<1> QED
  BY <1>4, <1>5, QuietStep

\* qemu_aio_wait.
LEMMA WaitStep ==
  ASSUME PoolInv, NEW caller \in Stacks, Depth(caller) = async_context, qemu_aio_wait(caller),
         ~In("cond_signal")
  PROVE  PoolInv'
<1>1. CASE RunBottomHalf(caller)
  BY <1>1, BottomHalfStep DEF qemu_aio_wait
<1>2. CASE /\ stack' = <<Process(1), Wait("queue")>> \o caller
           /\ UNCHANGED <<async, client>>
  <2>1. /\ Process(1) \in Frame /\ IsRead(Process(1)) = 0
        /\ Wait("queue") \in Frame /\ IsRead(Wait("queue")) = 0
    BY NewFrames DEF IsRead
  <2>2. async_context \in Context /\ async_context + 0 = async_context
    BY DEF PoolInv, StackOK, Context
  <2>3. caller \in Seq(Frame)
    BY DEF Stacks
  <2>4. stack' = <<Process(1)>> \o (<<Wait("queue")>> \o caller)
    BY <1>2, <2>1, <2>3, Push2
  <2> DEFINE mid == <<Wait("queue")>> \o caller
  <2>5. mid \in Stacks /\ Depth(mid) = async_context
    BY <2>1, <2>2, StackPush DEF PoolInv, StackOK
  <2> HIDE DEF mid
  <2>6. stack' = <<Process(1)>> \o mid
    BY <2>4 DEF mid
  <2>7. stack' \in Stacks /\ Depth(stack') = async_context
    BY <2>1, <2>2, <2>5, <2>6, StackPush DEF PoolInv, StackOK
  <2>8. StackOK' /\ AsyncOK'
    BY <1>2, <2>2, <2>7
    DEF PoolInv, StackOK, AsyncOK, async, client, wakeup, qemu_aio_wait
  <2> QED
    BY <2>8, QuietStep DEF qemu_aio_wait
<1> QED
  BY <1>1, <1>2 DEF qemu_aio_wait

\* The types of a released block and of the free list.
LEMMA ReleaseFacts ==
  ASSUME ListsOK, NEW a \in Block
  PROVE  Released(a) \in [Block -> Request] /\ free_aiocb \cup {a} \subseteq Block
BY PoolAssumption DEF Released, Unused, ListsOK, Request, Context

\* The unlinking and release of a block.
LEMMA RemoveStep ==
  ASSUME ListsOK, NEW a \in Block, paio_remove(a), request_list' \in Seq(Block)
  PROVE  ListsOK'
<1>1. PICK i \in DOMAIN first_aio : first_aio' = RemoveAt(first_aio, i)
  BY DEF paio_remove
<1>2. i \in 1..Len(first_aio)
  BY <1>1, LenProperties DEF ListsOK
<1>3. first_aio' \in Seq(Block)
  BY <1>1, <1>2, RemoveFacts DEF ListsOK
<1>4. free_aiocb' \subseteq Block /\ aiocb' \in [Block -> Request]
  BY ReleaseFacts DEF paio_remove, qemu_aio_release
<1> QED
  BY <1>3, <1>4 DEF ListsOK

\* The first critical section of paio_cancel.
LEMMA CancelStep ==
  ASSUME PoolInv, NEW a \in Block, NEW caller \in Frame, caller.op = Top.op,
         Top.op \notin {"cond_signal", "bdrv_read_em"},
         paio_cancel(a, caller), UNCHANGED <<workers, wakeup, async, client>>
  PROVE  PoolInv'
<1>1. /\ stack \in Stacks /\ stack # <<>> /\ Top \in Frame
      /\ Depth(stack) = async_context /\ async_context \in Nat
      /\ ~In("cond_signal") /\ IsRead(caller) = 0 /\ IsRead(Top) = 0
  BY TopFacts DEF PoolInv, IsRead
<1>2. AsyncOK' /\ WorkersOK' /\ at' = at /\ async_context' = async_context
  BY DEF PoolInv, AsyncOK, WorkersOK, workers, wakeup, async, client
<1>3. Head(stack) = Top
  BY DEF Top
<1> DEFINE base == <<caller>> \o Tail(stack)
<1>4. base \in Stacks /\ Depth(base) = async_context
  BY <1>1, <1>3, StackGoto DEF PoolInv, StackOK
<1> HIDE DEF base
<1>5. ASSUME request_list' \in Seq(Block), request_list' # <<>> => request_list # <<>>,
             paio_remove(a), Goto(caller)
      PROVE  PoolInv'
  <2>1. stack' = base
    BY <1>5 DEF Goto, base
  <2>2. StackOK'
    BY <1>2, <1>4, <2>1 DEF PoolInv, StackOK
  <2>3. ListsOK'
    BY <1>5, RemoveStep DEF PoolInv
  <2>4. NoRequestStranded'
    BY <1>1, <1>2, <1>5, NotStranded DEF PoolInv
  <2> QED
    BY <1>2, <2>2, <2>3, <2>4 DEF PoolInv
<1>6. ASSUME NEW i \in DOMAIN request_list, request_list' = RemoveAt(request_list, i)
      PROVE  request_list' \in Seq(Block) /\ request_list # <<>>
  <2>1. i \in 1..Len(request_list) /\ request_list \in Seq(Block)
    BY <1>6, LenProperties DEF PoolInv, ListsOK
  <2>2. request_list # <<>>
    BY <2>1
  <2> QED
    BY <1>6, <2>1, <2>2, RemoveFacts
<1>7. CASE /\ stack' = <<Cancel(a), caller>> \o Tail(stack)
           /\ UNCHANGED lists
  <2>1. Cancel(a) \in Frame /\ IsRead(Cancel(a)) = 0
    BY NewFrames DEF IsRead
  <2>2. Tail(stack) \in Seq(Frame)
    BY <1>1, Split DEF Stacks
  <2>3. stack' = <<Cancel(a)>> \o base
    BY <1>7, <2>1, <2>2, Push2, Zenon DEF base
  <2>4. stack' \in Stacks /\ Depth(stack') = Depth(base) + 0
    BY <1>4, <2>1, <2>3, StackPush DEF PoolInv, StackOK
  <2>5. StackOK'
    BY <1>1, <1>2, <1>4, <2>4 DEF PoolInv, StackOK
  <2> QED
    BY <1>1, <1>2, <1>7, <2>5, QuietStep
<1>8. CASE /\ \E i \in DOMAIN request_list :
                 request_list[i] = a /\ request_list' = RemoveAt(request_list, i)
           /\ paio_remove(a) /\ Goto(caller)
  BY <1>5, <1>6, <1>8
<1>9. CASE paio_remove(a) /\ Goto(caller) /\ UNCHANGED request_list
  BY <1>5, <1>9 DEF PoolInv, ListsOK
<1> QED
  BY <1>7, <1>8, <1>9 DEF paio_cancel

\* After a submission the signal is the next step, and a thread is there for it.
LEMMA Signalled ==
  ASSUME ReadCounts, NEW rest \in Stacks, stack' = <<Signal>> \o rest, Alive' # {}
  PROVE  /\ NoRequestStranded' /\ stack' \in Stacks /\ Depth(stack') = Depth(rest)
         /\ Depth(rest) \in Nat
<1>1. Signal \in Frame /\ Signal.op = "cond_signal" /\ IsRead(Signal) = 0
  BY NewFrames DEF IsRead
<1>2. Depth(rest) \in Nat
  BY DepthPush, <1>1 DEF Stacks
<1> DEFINE u == <<Signal>> \o rest
<1>3. u \in Stacks /\ Head(u) = Signal /\ Depth(u) = Depth(rest) + 0
  BY <1>1, StackPush
<1> HIDE DEF u
<1>4. stack' = u
  BY DEF u
<1>5. stack' # <<>> /\ Head(stack').op = "cond_signal"
  BY <1>1, <1>3, <1>4 DEF Stacks
<1>6. NoRequestStranded'
  BY <1>5 DEF NoRequestStranded, In, Top
<1>7. stack' \in Stacks /\ Depth(stack') = Depth(rest)
  BY ONLY <1>2, <1>3, <1>4
<1> QED
  BY <1>2, <1>6, <1>7, ZenonT(30)

\* A request of device code, or of a callback.
LEMMA RequestStep ==
  ASSUME PoolInv, free_aiocb # {}, NEW cb \in {"device", "bdrv_rw_em_cb"},
         paio_submit(qemu_aio_get, async_context, cb), NEW rest \in Stacks,
         Depth(rest) = async_context, stack' = <<Signal>> \o rest,
         UNCHANGED async, AsyncOK'
  PROVE  PoolInv'
<1>1. async_context \in Context /\ async_context' = async_context
  BY DEF PoolInv, StackOK, async
<1>2. ListsOK' /\ WorkersOK' /\ Alive' # {}
  BY <1>1, SubmitStep DEF PoolInv
<1>3. NoRequestStranded' /\ StackOK'
  BY <1>1, <1>2, Signalled DEF PoolInv, StackOK
<1> QED
  BY <1>2, <1>3 DEF PoolInv

\* A synchronous read is submitted one level deeper.
LEMMA SyncStep ==
  ASSUME PoolInv, NEW caller \in Frame, caller.op = Top.op, Top.op # "bdrv_read_em",
         bdrv_read_em(caller)
  PROVE  PoolInv'
<1>1. /\ stack \in Stacks /\ stack # <<>> /\ Top \in Frame /\ Head(stack) = Top
      /\ Depth(stack) = async_context /\ async_context \in Nat /\ MaxContext \in Nat
      /\ IsRead(caller) = 0 /\ IsRead(Top) = 0
  BY TopFacts DEF PoolInv, IsRead, Top
<1>2. /\ async_context < MaxContext /\ free_aiocb # {}
      /\ async_context' = async_context + 1
      /\ async_ret' = [async_ret EXCEPT ![async_context + 1] = FALSE]
      /\ paio_submit(qemu_aio_get, async_context + 1, "bdrv_rw_em_cb")
      /\ stack' = <<Signal, ReadEm, caller>> \o Tail(stack)
      /\ UNCHANGED <<wakeup, bh, client>>
  BY DEF bdrv_read_em, CanSubmit
<1>3. async_context + 1 \in Context
  BY <1>1, <1>2 DEF Context
<1>4. ListsOK' /\ WorkersOK' /\ Alive' # {}
  BY <1>2, <1>3, SubmitStep DEF PoolInv
<1> DEFINE base == <<caller>> \o Tail(stack)
           rest == <<ReadEm>> \o base
<1>5. base \in Stacks /\ Depth(base) = async_context
  BY <1>1, StackGoto DEF PoolInv, StackOK
<1> HIDE DEF base
<1>6. ReadEm \in Frame /\ IsRead(ReadEm) = 1 /\ Signal \in Frame
  BY NewFrames DEF IsRead
<1>7. rest \in Stacks /\ Depth(rest) = async_context + 1
  BY <1>5, <1>6, StackPush DEF PoolInv, StackOK
<1>8. stack' = <<Signal>> \o rest
  BY <1>1, <1>2, SyncStack, Zenon DEF base
<1> HIDE DEF rest
<1>9. NoRequestStranded' /\ StackOK'
  BY <1>2, <1>3, <1>4, <1>7, <1>8, Signalled, Zenon DEF PoolInv, StackOK
<1>10. AsyncOK'
  BY <1>2, <1>3 DEF PoolInv, AsyncOK, wakeup, client
<1> QED
  BY <1>4, <1>9, <1>10 DEF PoolInv

\* Another frame at the top, and nothing else of the pool.
LEMMA GotoStep ==
  ASSUME PoolInv, NEW f \in Frame, f.op # "bdrv_read_em",
         Top.op = "main_loop" => f.op = "main_loop",
         Top.op \notin {"bdrv_read_em", "cond_signal"}, Goto(f),
         async_context' = async_context, AsyncOK', UNCHANGED <<lists, workers>>
  PROVE  PoolInv'
<1>1. /\ stack \in Stacks /\ stack # <<>> /\ Top \in Frame /\ Head(stack) = Top
      /\ Depth(stack) = async_context /\ ~In("cond_signal")
      /\ IsRead(f) = 0 /\ IsRead(Top) = 0
  BY TopFacts DEF PoolInv, IsRead, Top
<1>2. StackOK'
  BY <1>1, StackGoto DEF Goto, StackOK, PoolInv
<1> QED
  BY <1>1, <1>2, QuietStep

\* A frame that is no read returns.
LEMMA ReturnFacts ==
  ASSUME StackOK, Top.op \notin {"main_loop", "bdrv_read_em"}
  PROVE  Tail(stack) \in Stacks /\ Depth(Tail(stack)) = async_context
<1>1. /\ stack \in Stacks /\ Top \in Frame /\ Head(stack) = Top
      /\ Depth(stack) = async_context /\ IsRead(Top) = 0
  BY TopFacts DEF IsRead, Top
<1>2. Tail(stack) \in Stacks /\ Depth(stack) = Depth(Tail(stack)) + 0 /\ Depth(Tail(stack)) \in Nat
  BY <1>1, StackPop DEF StackOK
<1> QED
  BY <1>1, <1>2

\* The signal wakes a waiting thread, or none waits.
LEMMA SignalStep ==
  ASSUME PoolInv, cond_signal
  PROVE  PoolInv'
<1>1. /\ Top.op = "cond_signal" /\ stack' = Tail(stack)
      /\ UNCHANGED <<lists, cur_threads, idle_threads, job, wakeup, async, client>>
  BY DEF cond_signal, In, Return
<1>2. /\ Tail(stack) \in Stacks /\ Depth(Tail(stack)) = async_context
  BY <1>1, ReturnFacts DEF PoolInv
<1>3. StackOK' /\ AsyncOK' /\ ListsOK' /\ request_list' = request_list
  BY <1>1, <1>2 DEF PoolInv, StackOK, AsyncOK, ListsOK, lists, wakeup, async, client
<1>4. CASE \E t \in Thread : at[t] = "wait"
  <2>1. PICK t \in Thread : at[t] = "wait" /\ at' = [at EXCEPT ![t] = "lock"]
    BY <1>4 DEF cond_signal
  <2>2. "lock" \in WorkerAt \ {"none", "io"} /\ at \in [Thread -> WorkerAt]
    BY DEF WorkerAt, PoolInv, WorkersOK, Counted
  <2>3. Counted(at', cur_threads', idle_threads')
    BY <1>1, <2>1, <2>2, MoveCounts, Zenon DEF PoolInv, WorkersOK
  <2>4. WorkersOK'
    BY <1>1, <2>1, <2>2, <2>3 DEF PoolInv, WorkersOK
  <2>5. NoRequestStranded'
    BY <2>1, <2>2, WorkerMoves, ZenonT(30) DEF PoolInv
  <2> QED
    BY <1>3, <2>4, <2>5 DEF PoolInv
<1>5. CASE ~ \E t \in Thread : at[t] = "wait"
  <2>1. at' = at
    BY <1>5 DEF cond_signal
  <2>2. WorkersOK'
    BY <1>1, <2>1 DEF PoolInv, WorkersOK
  <2>3. NoRequestStranded'
    BY <1>3, <1>5, <2>1 DEF PoolInv, NoRequestStranded, Alive
  <2> QED
    BY <1>3, <2>2, <2>3 DEF PoolInv
<1> QED
  BY <1>4, <1>5

\* The busy wait of paio_cancel ends.
LEMMA CancelEndsStep ==
  ASSUME PoolInv, CancelEnds
  PROVE  PoolInv'
<1>1. /\ Top.op = "paio_cancel" /\ stack' = Tail(stack) /\ paio_remove(Top.acb)
      /\ UNCHANGED <<request_list, workers, wakeup, async, client>>
  BY DEF CancelEnds, In, Return
<1>2. Top.acb \in Block /\ ~In("cond_signal")
  BY <1>1, TopFacts, Frames DEF PoolInv
<1>3. Tail(stack) \in Stacks /\ Depth(Tail(stack)) = async_context
  BY <1>1, ReturnFacts DEF PoolInv
<1>4. ListsOK'
  BY <1>1, <1>2, RemoveStep DEF PoolInv, ListsOK
<1>5. StackOK' /\ AsyncOK' /\ WorkersOK' /\ at' = at
  BY <1>1, <1>3 DEF PoolInv, StackOK, AsyncOK, WorkersOK, workers, wakeup, async, client
<1>6. NoRequestStranded'
  BY <1>1, <1>2, <1>5, NotStranded DEF PoolInv
<1> QED
  BY <1>4, <1>5, <1>6 DEF PoolInv

\* posix_aio_process_queue.
LEMMA ScanStep ==
  ASSUME PoolInv, ScanEnds \/ ScanPasses \/ ScanCompletes
  PROVE  PoolInv'
<1>1. /\ Top.op = "process_queue"
      /\ UNCHANGED <<request_list, workers, wakeup, async, client>>
  BY DEF ScanEnds, ScanPasses, ScanCompletes, In, lists
<1>2. /\ Top \in [op : {"process_queue"}, pos : Nat \ {0}, result : BOOLEAN]
      /\ ~In("cond_signal")
  BY <1>1, TopFacts, Frames DEF PoolInv
<1>3. Tail(stack) \in Stacks /\ Depth(Tail(stack)) = async_context
  BY <1>1, ReturnFacts DEF PoolInv
<1>4. AsyncOK' /\ WorkersOK' /\ at' = at /\ async_context' = async_context
  BY <1>1 DEF PoolInv, AsyncOK, WorkersOK, workers, wakeup, async, client
<1>5. CASE ScanEnds
  <2>1. UNCHANGED <<lists, workers>>
    BY <1>5 DEF ScanEnds
  <2> DEFINE rest == Tail(stack)
  <2> HIDE DEF rest
  <2>2. /\ rest \in Stacks /\ Depth(rest) = async_context
        /\ \/ stack' = rest
           \/ Head(rest).op = "aio_wait" /\ stack' = Tail(rest)
           \/ Head(rest).op = "aio_wait" /\ stack' = <<Wait("select")>> \o Tail(rest)
    BY <1>3, <1>5, ZenonT(30) DEF ScanEnds, rest
  <2>3. Wait("select") \in Frame /\ IsRead(Wait("select")) = 0 /\ Wait("select").op = "aio_wait"
    BY NewFrames DEF IsRead
  <2>4. stack' \in Stacks /\ Depth(stack') = async_context
    <3>1. CASE stack' = rest
      BY <2>2, <3>1
    <3>2. CASE Head(rest).op = "aio_wait" /\ stack' = Tail(rest)
      <4>1. IsRead(Head(rest)) = 0 /\ Head(rest).op # "main_loop"
        BY <3>2 DEF IsRead
      <4>2. /\ Tail(rest) \in Stacks /\ Depth(rest) = Depth(Tail(rest)) + 0
            /\ Depth(Tail(rest)) \in Nat
        BY <2>2, <4>1, StackPop DEF PoolInv, StackOK
      <4> QED
        BY <2>2, <3>2, <4>2
    <3>3. CASE Head(rest).op = "aio_wait" /\ stack' = <<Wait("select")>> \o Tail(rest)
      <4>1. IsRead(Head(rest)) = 0 /\ Head(rest).op # "main_loop"
        BY <3>3 DEF IsRead
      <4> QED
        BY <2>2, <2>3, <3>3, <4>1, StackGoto DEF PoolInv, StackOK
    <3> QED
      BY <2>2, <3>1, <3>2, <3>3
  <2>5. StackOK'
    BY <1>4, <2>4 DEF PoolInv, StackOK
  <2> QED
    BY <1>2, <1>4, <2>1, <2>5, QuietStep, SMTT(30)
<1>6. CASE ScanPasses
  <2> DEFINE f == [Top EXCEPT !.pos = @ + 1]
  <2>1. f \in Frame /\ f.op = "process_queue"
    BY <1>2 DEF Frame
  <2>2. Goto(f) /\ UNCHANGED <<lists, workers>>
    BY <1>6 DEF ScanPasses
  <2> HIDE DEF f
  <2> QED
    BY <1>1, <1>4, <2>1, <2>2, GotoStep
<1>7. CASE ScanCompletes
  <2> DEFINE a == first_aio[Top.pos]
  <2>1. Top.pos \in 1..Len(first_aio) /\ Len(first_aio) \in Nat
    BY <1>2, <1>7, LenProperties DEF ScanCompletes, PoolInv, ListsOK
  <2>2. a \in Block /\ first_aio' \in Seq(Block)
    BY <1>7, <2>1, RemoveFacts, ElementOfSeq DEF ScanCompletes, PoolInv, ListsOK
  <2>3. \/ /\ free_aiocb' = free_aiocb \cup {a}
           /\ aiocb' = Released(a)
           /\ Goto([Top EXCEPT !.result = TRUE])
        \/ /\ UNCHANGED <<free_aiocb, aiocb>>
           /\ stack' = <<Callback(a), [Top EXCEPT !.pos = 1, !.result = TRUE]>> \o Tail(stack)
    BY <1>7 DEF ScanCompletes, qemu_aio_release
  <2> HIDE DEF a
  <2>4. free_aiocb' \subseteq Block /\ aiocb' \in [Block -> Request]
    BY <2>2, <2>3, ReleaseFacts DEF PoolInv, ListsOK
  <2>5. ListsOK'
    BY <1>1, <2>2, <2>4 DEF PoolInv, ListsOK
  <2>6. NoRequestStranded'
    BY <1>1, <1>2, <1>4, NotStranded DEF PoolInv
  <2>7. StackOK'
    <3>1. CASE Goto([Top EXCEPT !.result = TRUE])
      <4> DEFINE f == [Top EXCEPT !.result = TRUE]
      <4>1. f \in Frame /\ f.op = "process_queue"
        BY <1>2, Zenon DEF Frame
      <4>2. stack' = <<f>> \o Tail(stack)
        BY <3>1 DEF Goto
      <4> HIDE DEF f
      <4>3. IsRead(f) = 0
        BY <4>1 DEF IsRead
      <4>4. stack' \in Stacks /\ Depth(stack') = Depth(Tail(stack)) + 0
        BY <1>3, <4>1, <4>2, <4>3, StackPush DEF PoolInv, StackOK
      <4> QED
        BY <1>3, <1>4, <4>4 DEF PoolInv, StackOK, Context
    <3>2. CASE stack' = <<Callback(a), [Top EXCEPT !.pos = 1, !.result = TRUE]>> \o Tail(stack)
      <4> DEFINE g == [Top EXCEPT !.pos = 1, !.result = TRUE]
      <4>0. /\ g.op = "process_queue"
            /\ g \in [op : {"process_queue"}, pos : Nat \ {0}, result : BOOLEAN]
        <5> DEFINE h == [Top EXCEPT !.pos = 1]
        <5>1. h \in [op : {"process_queue"}, pos : Nat \ {0}, result : BOOLEAN]
          BY <1>2
        <5>2. g = [h EXCEPT !.result = TRUE]
          OBVIOUS
        <5> HIDE DEF h, g
        <5> QED
          BY <5>1, <5>2, Zenon
      <4>1. g \in Frame /\ g.op = "process_queue"
        BY <4>0 DEF Frame
      <4>2. Callback(a) \in Frame /\ Callback(a).op = "callback"
        BY <2>2, NewFrames
      <4> HIDE DEF g
      <4>3. stack' = <<Callback(a), g>> \o Tail(stack)
        BY <3>2 DEF g
      <4> QED
        BY <1>1, <1>4, <4>1, <4>2, <4>3, GotoCall, Zenon DEF PoolInv
    <3> QED
      BY <2>3, <3>1, <3>2
  <2> QED
    BY <1>4, <2>5, <2>6, <2>7 DEF PoolInv
<1> QED
  BY <1>5, <1>6, <1>7

\* A synchronous read waits, or leaves its context.
LEMMA ReadEmStep ==
  ASSUME PoolInv, ReadWaits \/ async_context_pop
  PROVE  PoolInv'
<1>1. Top.op = "bdrv_read_em" /\ UNCHANGED <<lists, workers, wakeup>>
  BY DEF ReadWaits, async_context_pop, qemu_aio_wait, In
<1>2. /\ stack \in Stacks /\ Top \in Frame /\ Head(stack) = Top /\ ~In("cond_signal")
      /\ Depth(stack) = async_context /\ IsRead(Top) = 1
  BY <1>1, TopFacts DEF PoolInv, IsRead, Top
<1>3. CASE ReadWaits
  BY <1>2, <1>3, WaitStep DEF ReadWaits
<1>4. CASE async_context_pop /\ RunBottomHalf(stack)
  BY <1>1, <1>2, <1>4, BottomHalfStep
<1>5. CASE async_context_pop /\ ~RunBottomHalf(stack)
  <2>1. /\ async_context' = async_context - 1
        /\ bh' = [bh EXCEPT ![async_context - 1] = TRUE]
        /\ async_ret' = [async_ret EXCEPT ![async_context] = FALSE]
        /\ stack' = Tail(stack)
        /\ UNCHANGED client
    BY <1>5 DEF async_context_pop, Return
  <2>2. /\ Tail(stack) \in Stacks /\ Depth(stack) = Depth(Tail(stack)) + 1
        /\ Depth(Tail(stack)) \in Nat
    BY <1>1, <1>2, StackPop DEF PoolInv, StackOK
  <2>3. async_context \in Context /\ async_context - 1 \in Context
        /\ Depth(Tail(stack)) = async_context - 1
    BY <1>2, <2>2, PoolAssumption DEF PoolInv, StackOK, Context
  <2>4. StackOK'
    BY <2>1, <2>2, <2>3 DEF PoolInv, StackOK
  <2>5. AsyncOK'
    BY <1>1, <2>1, <2>3 DEF PoolInv, AsyncOK, client, wakeup
  <2> QED
    BY <1>1, <1>2, <2>4, <2>5, QuietStep
<1> QED
  BY <1>3, <1>4, <1>5

\* A synchronous read that is refused.
LEMMA RefusedStep ==
  ASSUME PoolInv, NEW caller \in Frame, caller.op = Top.op,
         Top.op \notin {"bdrv_read_em", "cond_signal"}, ReadRefused(caller)
  PROVE  PoolInv'
<1>1. async_context \in Context
  BY DEF PoolInv, StackOK
<1>2. AsyncOK' /\ async_context' = async_context /\ UNCHANGED <<lists, workers>>
  BY <1>1 DEF PoolInv, AsyncOK, ReadRefused, client, wakeup
<1> QED
  BY <1>2, GotoStep DEF ReadRefused

\* Callbacks.
LEMMA CallbackStep ==
  ASSUME PoolInv,
         CallbackReads \/ CallbackCancels \/ CallbackFollowsUp \/ CallbackReturns
  PROVE  PoolInv'
<1>1. Top.op = "callback"
  BY Zenon
  DEF CallbackReads, CallbackCancels, CallbackFollowsUp, CallbackReturns, InCallback, In
<1>2. /\ Top \in [op : {"callback"}, acb : Block, pc : {"body", "tail", "ret"}]
      /\ ~In("cond_signal")
  BY <1>1, TopFacts, Frames DEF PoolInv
<1>3. \A pc \in {"tail", "ret"} :
         [Top EXCEPT !.pc = pc] \in Frame /\ [Top EXCEPT !.pc = pc].op = "callback"
  <2> TAKE pc \in {"tail", "ret"}
  <2>1. /\ [Top EXCEPT !.pc = pc] \in [op : {"callback"}, acb : Block, pc : {"body", "tail", "ret"}]
        /\ [Top EXCEPT !.pc = pc].op = "callback"
    BY <1>2
  <2> QED
    BY <2>1 DEF Frame
<1> DEFINE tail == [Top EXCEPT !.pc = "tail"]
           ret  == [Top EXCEPT !.pc = "ret"]
<1>4. tail \in Frame /\ tail.op = Top.op /\ ret \in Frame /\ ret.op = Top.op
  BY <1>1, <1>3
<1> HIDE DEF tail, ret
<1>5. CASE CallbackReads
  <2>1. bdrv_read_em(tail) \/ ReadRefused(tail)
    BY <1>5, Zenon DEF CallbackReads, tail
  <2> QED
    BY <1>1, <1>4, <2>1, SyncStep, RefusedStep
<1>6. CASE CallbackCancels
  <2>1. PICK a \in Cancellable : paio_cancel(a, tail)
    BY <1>6, ZenonT(30) DEF CallbackCancels, tail
  <2>2. a \in Block
    BY <2>1, ElementOfSeq, LenProperties DEF Cancellable, Range, PoolInv, ListsOK
  <2> QED
    BY <1>1, <1>4, <1>6, <2>1, <2>2, CancelStep, ZenonT(30) DEF CallbackCancels
<1>7. CASE CallbackFollowsUp
  <2>1. /\ free_aiocb # {} /\ followups < MaxFollowUps /\ followups' = followups + 1
        /\ paio_submit(qemu_aio_get, async_context, aiocb[Top.acb].cb)
        /\ stack' = <<Signal, ret>> \o Tail(stack)
        /\ UNCHANGED <<wakeup, async, workload>>
    BY <1>7, Zenon DEF CallbackFollowsUp, ret
  <2>2. aiocb[Top.acb].cb \in {"device", "bdrv_rw_em_cb"}
    BY <1>2 DEF PoolInv, ListsOK, Request
  <2>3. AsyncOK' /\ async_context' = async_context
    BY <2>1, PoolAssumption DEF PoolInv, AsyncOK, wakeup, async
  <2>4. Signal \in Frame /\ Signal.op = "cond_signal"
    BY NewFrames, SMTT(30)
  <2>5. /\ <<ret>> \o Tail(stack) \in Stacks
        /\ Depth(<<ret>> \o Tail(stack)) = async_context
        /\ stack' = <<Signal>> \o (<<ret>> \o Tail(stack))
    BY <1>1, <1>4, <2>1, <2>3, <2>4, GotoCall, Zenon DEF PoolInv
  <2> DEFINE rest == <<ret>> \o Tail(stack)
  <2> HIDE DEF rest
  <2>6. rest \in Stacks /\ Depth(rest) = async_context /\ stack' = <<Signal>> \o rest
    BY <2>5 DEF rest
  <2> QED
    BY <2>1, <2>2, <2>3, <2>6, RequestStep, ZenonT(30)
<1>8. CASE CallbackReturns
  <2>1. /\ async_ret' = async_ret \/ async_ret' = [async_ret EXCEPT ![async_context] = TRUE]
        /\ free_aiocb' = free_aiocb \cup {Top.acb}
        /\ aiocb' = Released(Top.acb)
        /\ stack' = Tail(stack)
        /\ UNCHANGED <<request_list, first_aio, workers, wakeup, async_context, bh, client>>
    BY <1>8 DEF CallbackReturns, qemu_aio_release, Return
  <2>2. Top.acb \in Block /\ async_context \in Context
    BY <1>2 DEF PoolInv, StackOK
  <2>3. Tail(stack) \in Stacks /\ Depth(Tail(stack)) = async_context
    BY <1>1, ReturnFacts DEF PoolInv
  <2>4. ListsOK'
    BY <2>1, <2>2, ReleaseFacts DEF PoolInv, ListsOK
  <2>5. StackOK' /\ WorkersOK' /\ at' = at
    BY <2>1, <2>3 DEF PoolInv, StackOK, WorkersOK, workers
  <2>6. AsyncOK'
    BY <2>1, <2>2, Zenon DEF PoolInv, AsyncOK, wakeup, client
  <2>7. NoRequestStranded'
    BY <1>2, <2>1, <2>5, NotStranded DEF PoolInv
  <2> QED
    BY <2>4, <2>5, <2>6, <2>7 DEF PoolInv
<1> QED
  BY <1>5, <1>6, <1>7, <1>8

\* qemu_aio_wait at select(), and qemu_aio_flush.
LEMMA FlushStep ==
  ASSUME PoolInv, WaitSelects \/ FlushWaits \/ FlushTests
  PROVE  PoolInv'
<1>1. Top.op \in {"aio_wait", "aio_flush"} /\ UNCHANGED <<lists, workers>>
  BY DEF WaitSelects, FlushWaits, FlushTests, qemu_aio_wait, In
<1>2. ~In("cond_signal") /\ stack \in Stacks /\ Head(stack) = Top /\ IsRead(Top) = 0
      /\ Depth(stack) = async_context
  BY <1>1, TopFacts DEF PoolInv, Top, IsRead
<1>3. Tail(stack) \in Stacks /\ Depth(Tail(stack)) = async_context
  BY <1>1, ReturnFacts DEF PoolInv
<1>4. \A pc \in {"wait", "test"} :
         <<Flush(pc)>> \o Tail(stack) \in Stacks /\ Depth(<<Flush(pc)>> \o Tail(stack)) = async_context
  <2> TAKE pc \in {"wait", "test"}
  <2>1. Flush(pc) \in Frame /\ Flush(pc).op = "aio_flush" /\ IsRead(Flush(pc)) = 0
    BY NewFrames DEF IsRead
  <2> HIDE DEF Flush
  <2> QED
    BY <1>1, <1>2, <2>1, StackGoto DEF PoolInv, StackOK
<1>5. CASE WaitSelects
  <2>1. async_context' = async_context /\ AsyncOK'
    BY <1>5, ZenonT(30) DEF WaitSelects, PoolInv, AsyncOK, async, client, wakeup
  <2>2. Process(1) \in Frame /\ Process(1).op = "process_queue"
    BY NewFrames
  <2>3. CASE Return
    <3>1. StackOK'
      BY <1>3, <2>1, <2>3 DEF Return, StackOK, PoolInv
    <3> QED
      BY <1>1, <1>2, <2>1, <3>1, QuietStep
  <2>4. CASE Goto(Process(1))
    BY <1>1, <2>1, <2>2, <2>4, GotoStep
  <2> QED
    BY <1>5, <2>3, <2>4 DEF WaitSelects
<1>6. CASE FlushWaits
  <2> DEFINE next == <<Flush("test")>> \o Tail(stack)
  <2>1. next \in Stacks /\ Depth(next) = async_context
    BY <1>4
  <2>2. qemu_aio_wait(next)
    BY <1>6 DEF FlushWaits
  <2> HIDE DEF next
  <2> QED
    BY <1>2, <2>1, <2>2, WaitStep
<1>7. CASE FlushTests /\ RunBottomHalf(<<Flush("wait")>> \o Tail(stack))
  <2> DEFINE next == <<Flush("wait")>> \o Tail(stack)
  <2>1. next \in Stacks /\ Depth(next) = async_context
    BY <1>4
  <2>2. RunBottomHalf(next) /\ UNCHANGED wakeup
    BY <1>7 DEF FlushTests
  <2> HIDE DEF next
  <2> QED
    BY <1>1, <1>2, <2>1, <2>2, BottomHalfStep
<1>8. CASE FlushTests /\ ~RunBottomHalf(<<Flush("wait")>> \o Tail(stack))
  <2>1. UNCHANGED <<async, client, wakeup>> /\ (Goto(Flush("wait")) \/ Return)
    BY <1>8 DEF FlushTests
  <2>2. AsyncOK' /\ async_context' = async_context
    BY <2>1 DEF PoolInv, AsyncOK, async, client, wakeup
  <2>3. stack' \in Stacks /\ Depth(stack') = async_context
    BY <1>3, <1>4, <2>1, Zenon DEF Goto, Return
  <2>4. StackOK'
    BY <2>2, <2>3 DEF PoolInv, StackOK
  <2> QED
    BY <1>1, <1>2, <2>2, <2>4, QuietStep
<1> QED
  BY <1>5, <1>6, <1>7, <1>8

\* main_loop_wait and device code.
LEMMA LoopStep ==
  ASSUME PoolInv, MainPolls \/ MainSelects \/ DeviceStep
  PROVE  PoolInv'
<1>1. Top.op = "main_loop"
  BY Zenon
  DEF MainPolls, MainSelects, DeviceStep, DeviceSubmits, DeviceCancels, DeviceReads,
         DeviceFlushes, Device, DeviceCode, In
<1>2. /\ stack \in Stacks /\ Top \in Frame /\ Head(stack) = Top /\ IsRead(Top) = 0
      /\ Depth(stack) = async_context /\ async_context \in Nat /\ ~In("cond_signal")
      /\ async_context \in Context
  BY <1>1, TopFacts DEF PoolInv, IsRead, Top, StackOK
<1>3. /\ \A pc \in {"run", "bh"} : Loop(pc) \in Frame /\ Loop(pc).op = "main_loop"
      /\ Process(1) \in Frame /\ Process(1).op = "process_queue"
  BY NewFrames
<1>4. ASSUME NEW f \in Frame, f.op = "main_loop", async_context' = async_context, AsyncOK',
             UNCHANGED <<lists, workers>>,
             Goto(f) \/ stack' = <<Process(1), f>> \o Tail(stack)
      PROVE  PoolInv'
  <2>1. CASE Goto(f)
    BY <1>1, <1>4, <2>1, GotoStep
  <2>2. CASE stack' = <<Process(1), f>> \o Tail(stack)
    <3>1. StackOK'
      BY <1>1, <1>3, <1>4, <2>2, GotoCall, ZenonT(30) DEF PoolInv
    <3> QED
      BY <1>2, <1>4, <3>1, QuietStep
  <2> QED
    BY <1>4, <2>1, <2>2
<1>5. CASE MainPolls
  <2>1. async_context' = async_context /\ UNCHANGED <<lists, workers>>
    BY <1>5 DEF MainPolls
  <2>2. AsyncOK'
    BY <1>2, <1>5, PoolAssumption DEF MainPolls, PoolInv, AsyncOK, wakeup
  <2>3. Goto(Loop("run")) \/ stack' = <<Process(1), Loop("run")>> \o Tail(stack)
    BY <1>5 DEF MainPolls
  <2> QED
    BY <1>3, <1>4, <2>1, <2>2, <2>3
<1>6. CASE MainSelects
  <2>1. async_context' = async_context /\ UNCHANGED <<lists, workers>>
    BY <1>6 DEF MainSelects, async
  <2>2. AsyncOK'
    BY <1>6, Zenon DEF MainSelects, PoolInv, AsyncOK, async, client
  <2>3. Goto(Loop("bh")) \/ stack' = <<Process(1), Loop("bh")>> \o Tail(stack)
    BY <1>6 DEF MainSelects
  <2> QED
    BY <1>3, <1>4, <2>1, <2>2, <2>3
<1>7. CASE DeviceSubmits
  <2>1. /\ free_aiocb # {} /\ paio_submit(qemu_aio_get, async_context, "device")
        /\ stack' = <<Signal>> \o stack /\ UNCHANGED <<wakeup, async, client>>
    BY <1>7 DEF DeviceSubmits, CanSubmit, Call
  <2>2. AsyncOK'
    BY <2>1 DEF PoolInv, AsyncOK, wakeup, async, client
  <2> QED
    BY <1>2, <2>1, <2>2, RequestStep, SMTT(30)
<1>8. CASE DeviceCancels
  <2>1. PICK a \in Cancellable : paio_cancel(a, Top)
    BY <1>8 DEF DeviceCancels
  <2>2. a \in Block
    BY <2>1, ElementOfSeq, LenProperties DEF Cancellable, Range, PoolInv, ListsOK
  <2> QED
    BY <1>1, <1>2, <1>8, <2>1, <2>2, CancelStep, SMTT(30) DEF DeviceCancels
<1>9. CASE DeviceReads
  BY <1>1, <1>2, <1>9, SyncStep, RefusedStep, ZenonT(30) DEF DeviceReads
<1>10. CASE DeviceFlushes
  <2>1. /\ stack' = <<Flush("wait")>> \o stack
        /\ UNCHANGED <<lists, workers, wakeup, async, client>>
    BY <1>10 DEF DeviceFlushes, Call
  <2>2. Flush("wait") \in Frame /\ IsRead(Flush("wait")) = 0
    BY NewFrames DEF IsRead
  <2>3. stack' \in Stacks /\ Depth(stack') = Depth(stack) + 0
    BY <1>2, <2>1, <2>2, StackPush DEF PoolInv, StackOK
  <2>4. StackOK' /\ AsyncOK'
    BY <1>2, <2>1, <2>3 DEF PoolInv, StackOK, AsyncOK, wakeup, async, client
  <2> QED
    BY <1>2, <2>1, <2>4, QuietStep
<1> QED
  BY <1>5, <1>6, <1>7, <1>8, <1>9, <1>10 DEF DeviceStep

\* The signal handler.
LEMMA HandlerStep ==
  ASSUME PoolInv, aio_signal_handler
  PROVE  PoolInv'
<1>1. /\ sigusr2' = FALSE /\ pipe' = TRUE
      /\ UNCHANGED <<lists, workers, async, client, stack>>
  BY DEF aio_signal_handler
<1>2. ListsOK' /\ WorkersOK' /\ StackOK' /\ AsyncOK'
  BY <1>1, Zenon
  DEF PoolInv, ListsOK, WorkersOK, StackOK, AsyncOK, lists, workers, async, client
<1>3. NoRequestStranded'
  BY <1>1 DEF PoolInv, NoRequestStranded, Alive, In, Top, lists, workers
<1> QED
  BY <1>2, <1>3 DEF PoolInv

-----------------------------------------------------------------------------
\* Every step of a worker, of the handler and of the main thread keeps it.
LEMMA PoolInvStep ==
  ASSUME PoolInv, [Next]_vars
  PROVE  PoolInv'
<1>1. CASE \E t \in Thread : \/ ThreadStep(t)
                             \/ ThreadWakes(t) /\ UNCHANGED <<wakeup, async, client, stack>>
  BY <1>1, WorkerStep
<1>2. CASE aio_signal_handler
  BY <1>2, HandlerStep
<1>3. CASE MainStep
  BY <1>3, SignalStep, CancelEndsStep, ScanStep, ReadEmStep,
     CallbackStep, FlushStep, LoopStep, SMTT(30)
     DEF MainStep
<1>4. CASE DeviceStep \/ MainSelects
  BY <1>4, LoopStep
<1>5. CASE UNCHANGED vars
  <2>1. UNCHANGED <<lists, workers, wakeup, async, client, stack>>
    BY <1>5, SMTT(30) DEF vars
  <2>2. ListsOK' /\ WorkersOK' /\ StackOK' /\ AsyncOK'
    BY <2>1
    DEF PoolInv, ListsOK, WorkersOK, StackOK, AsyncOK, lists, workers, wakeup, async, client
  <2>3. NoRequestStranded'
    BY <2>1 DEF PoolInv, NoRequestStranded, Alive, In, Top, lists, workers
  <2> QED
    BY <2>2, <2>3 DEF PoolInv
<1> QED
  BY <1>1, <1>2, <1>3, <1>4, <1>5 DEF Next

-----------------------------------------------------------------------------
(* Completions.  Below the top of the stack every scan is at the head of the
   list, so that it will come to whatever is finished when control is back. *)

\* A scan is in progress in the innermost context of a stack.
Scanned(s) ==
    \E k \in 1..Len(s) :
        /\ s[k].op = "process_queue"
        /\ \A j \in 1..k : s[j].op # "bdrv_read_em"

FromHead(s) == \A k \in 1..Len(s) : s[k].op = "process_queue" => s[k].pos = 1

\* Listed requests of the current context whose I/O is done.
Finished ==
    {a \in Listed : aiocb[a].ret # "EINPROGRESS" /\ Ctx(a) = async_context}

Woken == sigusr2 \/ pipe \/ \E t \in Thread : at[t] = "kill"

\* The main thread is on its way to first_aio[i].
Seen(i) ==
    \/ Top.op # "bdrv_read_em" /\ Scanned(Tail(stack))
    \/ Top.op = "process_queue" /\ Top.pos <= i
    \/ Top.op = "paio_cancel" /\ Top.acb = first_aio[i]

Noticing ==
    /\ FromHead(Tail(stack))
    /\ \A i \in DOMAIN first_aio : first_aio[i] \in Finished =>
        Woken \/ bh[async_context] \/ Seen(i)

\* What a new frame does to the scans of a stack.
LEMMA ScanPush ==
  ASSUME NEW s \in Seq(Frame), NEW f \in Frame
  PROVE  LET t == <<f>> \o s IN
         /\ Scanned(t) <=>
                f.op # "bdrv_read_em" /\ (f.op = "process_queue" \/ Scanned(s))
         /\ FromHead(t) <=> (f.op = "process_queue" => f.pos = 1) /\ FromHead(s)
<1> DEFINE t == <<f>> \o s
<1>1. /\ t[1] = f /\ Len(t) = Len(s) + 1 /\ Len(s) \in Nat
      /\ \A i \in 1..Len(s) : t[i + 1] = s[i]
  BY Push, LenProperties
<1> HIDE DEF t
<1>2. ASSUME NEW k \in 1..Len(t), k # 1
      PROVE  k - 1 \in 1..Len(s) /\ t[k] = s[k - 1]
  <2>1. k - 1 \in 1..Len(s) /\ k = (k - 1) + 1
    BY <1>1, <1>2
  <2> QED
    BY <1>1, <2>1
<1>3. 1 \in 1..Len(t) /\ \A k \in 1..Len(s) : k + 1 \in 1..Len(t) /\ t[k + 1] = s[k]
  BY <1>1
<1>4. ASSUME Scanned(t)
      PROVE  f.op # "bdrv_read_em" /\ (f.op = "process_queue" \/ Scanned(s))
  <2>1. PICK k \in 1..Len(t) :
            t[k].op = "process_queue" /\ \A j \in 1..k : t[j].op # "bdrv_read_em"
    BY <1>4 DEF Scanned
  <2>2. f.op # "bdrv_read_em"
    BY <1>1, <2>1
  <2>3. ASSUME k # 1
        PROVE  Scanned(s)
    <3>1. k - 1 \in 1..Len(s) /\ s[k - 1].op = "process_queue"
      BY <1>2, <2>1, <2>3
    <3>2. ASSUME NEW j \in 1..(k - 1)
          PROVE  s[j].op # "bdrv_read_em"
      <4>1. j \in 1..Len(s) /\ j + 1 \in 1..k
        BY <1>1
      <4> QED
        BY <1>3, <2>1, <4>1
    <3> QED
      BY <3>1, <3>2, Zenon DEF Scanned
  <2> QED
    BY <1>1, <2>1, <2>2, <2>3
<1>5. ASSUME f.op # "bdrv_read_em", f.op = "process_queue"
      PROVE  Scanned(t)
  <2>1. \A j \in 1..1 : t[j].op # "bdrv_read_em"
    BY <1>1, <1>5
  <2> QED
    BY <1>1, <1>3, <1>5, <2>1, Zenon DEF Scanned
<1>6. ASSUME f.op # "bdrv_read_em", Scanned(s)
      PROVE  Scanned(t)
  <2>1. PICK k \in 1..Len(s) :
            s[k].op = "process_queue" /\ \A j \in 1..k : s[j].op # "bdrv_read_em"
    BY <1>6 DEF Scanned
  <2>2. ASSUME NEW j \in 1..(k + 1)
        PROVE  t[j].op # "bdrv_read_em"
    <3>1. CASE j = 1
      BY <1>1, <1>6, <3>1
    <3>2. CASE j # 1
      <4>1. j \in 1..Len(t) /\ j - 1 \in 1..k
        BY <1>1, <3>2
      <4> QED
        BY <1>2, <2>1, <3>2, <4>1
    <3> QED
      BY <3>1, <3>2
  <2> QED
    BY <1>3, <2>1, <2>2, Zenon DEF Scanned
<1>7. FromHead(t) => (f.op = "process_queue" => f.pos = 1) /\ FromHead(s)
  BY <1>1, <1>3, Zenon DEF FromHead
<1>8. ASSUME f.op = "process_queue" => f.pos = 1, FromHead(s), NEW k \in 1..Len(t),
             t[k].op = "process_queue"
      PROVE  t[k].pos = 1
  BY <1>1, <1>2, <1>8, Zenon DEF FromHead
<1>9. (f.op = "process_queue" => f.pos = 1) /\ FromHead(s) => FromHead(t)
  BY <1>8, Zenon DEF FromHead
<1> QED
  BY <1>4, <1>5, <1>6, <1>7, <1>9, Zenon DEF t

\* The same of a stack and its top.
LEMMA ScanSplit ==
  ASSUME NEW s \in Seq(Frame), s # <<>>
  PROVE  /\ Scanned(s) <=>
                /\ Head(s).op # "bdrv_read_em"
                /\ Head(s).op = "process_queue" \/ Scanned(Tail(s))
         /\ FromHead(s) <=>
                (Head(s).op = "process_queue" => Head(s).pos = 1) /\ FromHead(Tail(s))
<1>1. PICK f \in Frame, r \in Seq(Frame) : f = Head(s) /\ r = Tail(s) /\ s = <<f>> \o r
  BY Split, Zenon
<1>2. Scanned(<<f>> \o r) <=>
            f.op # "bdrv_read_em" /\ (f.op = "process_queue" \/ Scanned(r))
  BY ScanPush, Zenon
<1>3. FromHead(<<f>> \o r) <=> (f.op = "process_queue" => f.pos = 1) /\ FromHead(r)
  BY ScanPush, Zenon
<1> QED
  BY <1>1, <1>2, <1>3, Zenon

\* A frame that is no scan and no read.
LEMMA PlainPush ==
  ASSUME NEW r \in Seq(Frame), FromHead(r), NEW f \in Frame,
         f.op \notin {"process_queue", "bdrv_read_em"}
  PROVE  /\ <<f>> \o r \in Seq(Frame) /\ <<f>> \o r # <<>> /\ FromHead(<<f>> \o r)
         /\ Scanned(r) => Scanned(<<f>> \o r)
<1>1. <<f>> \o r \in Seq(Frame) /\ <<f>> \o r # <<>>
  BY Push, ZenonT(30)
<1>2. FromHead(<<f>> \o r) <=> (f.op = "process_queue" => f.pos = 1) /\ FromHead(r)
  BY ScanPush, Zenon
<1>3. Scanned(<<f>> \o r) <=>
            f.op # "bdrv_read_em" /\ (f.op = "process_queue" \/ Scanned(r))
  BY ScanPush, Zenon
<1> QED
  BY <1>1, <1>2, <1>3

\* The stack and its parts.
LEMMA Parts ==
  ASSUME ServiceInv
  PROVE  /\ stack \in Stacks /\ stack \in Seq(Frame) /\ stack # <<>> /\ ReadCounts
         /\ Top \in Frame /\ Tail(stack) \in Seq(Frame) /\ stack = <<Top>> \o Tail(stack)
         /\ \A op : In(op) <=> Top.op = op
         /\ first_aio \in Seq(Block) /\ aiocb \in [Block -> Request]
         /\ async_context \in Context /\ bh \in [Context -> BOOLEAN]
         /\ at \in [Thread -> WorkerAt]
<1>1. StackOK /\ ListsOK /\ AsyncOK /\ WorkersOK
  BY DEF ServiceInv, PoolInv
<1>2. stack \in Seq(Frame) /\ stack # <<>>
  BY <1>1 DEF StackOK, Stacks
<1>3. Top \in Frame /\ Tail(stack) \in Seq(Frame) /\ stack = <<Top>> \o Tail(stack)
  BY <1>2, Split DEF Top
<1> QED
  BY <1>1, <1>2, <1>3, Zenon DEF StackOK, ListsOK, AsyncOK, WorkersOK, Counted, In

\* The same of the next state.
LEMMA NextParts ==
  ASSUME stack' \in Seq(Frame), stack' # <<>>, FromHead(stack')
  PROVE  /\ Top' \in Frame /\ Tail(stack') \in Seq(Frame)
         /\ FromHead(Tail(stack')) /\ (Top'.op = "process_queue" => Top'.pos = 1)
         /\ Scanned(stack') <=>
                /\ Top'.op # "bdrv_read_em"
                /\ Top'.op = "process_queue" \/ Scanned(Tail(stack'))
<1>1. PICK s \in Seq(Frame) : s = stack' /\ s # <<>>
  OBVIOUS
<1>2. Head(s) \in Frame /\ Tail(s) \in Seq(Frame)
  BY <1>1, Split
<1> QED
  BY <1>1, <1>2, ScanSplit, Zenon DEF Top

\* A scan in the current context, at the head of the list, sees all of it.
LEMMA ScanSees ==
  ASSUME stack' \in Seq(Frame), stack' # <<>>, FromHead(stack'), Scanned(stack'),
         first_aio' \in Seq(Block), NEW i \in DOMAIN first_aio'
  PROVE  Seen(i)'
<1>1. 1 <= i
  BY LenProperties
<1>2. CASE Top'.op = "process_queue"
  BY <1>1, <1>2, NextParts DEF Seen
<1>3. CASE Top'.op # "process_queue"
  BY <1>3, NextParts, Zenon DEF Seen
<1> QED
  BY <1>2, <1>3

LEMMA ScanNotices ==
  ASSUME stack' \in Seq(Frame), stack' # <<>>, FromHead(stack'), Scanned(stack'),
         first_aio' \in Seq(Block)
  PROVE  Noticing'
BY ScanSees, NextParts, Zenon DEF Noticing

\* A scan that begins at the head of the list.
LEMMA ScanBegins ==
  ASSUME NEW r \in Seq(Frame), FromHead(r), stack' = <<Process(1)>> \o r,
         first_aio' \in Seq(Block)
  PROVE  Noticing'
<1>1. Process(1) \in Frame /\ Process(1).op = "process_queue" /\ Process(1).pos = 1
  BY NewFrames DEF Process
<1>2. stack' \in Seq(Frame) /\ stack' # <<>>
  BY <1>1, Push, Zenon
<1>3. FromHead(stack') /\ Scanned(stack')
  BY <1>1, ScanPush
<1> QED
  BY <1>2, <1>3, ScanNotices

\* Something else will make the main thread look: a signal, the pipe, a bottom
\* half; or there is nothing to look for.
LEMMA Roused ==
  ASSUME FromHead(Tail(stack')), Woken' \/ bh'[async_context'] \/ Finished' = {}
  PROVE  Noticing'
BY Zenon DEF Noticing

\* Whoever was to be seen by a scan below the top still is.
LEMMA LevelKept ==
  ASSUME ServiceInv, Noticing, Woken => Woken', async_context' = async_context,
         bh[async_context] => bh'[async_context], Finished' \subseteq Finished,
         first_aio' \in Seq(Block), stack' \in Seq(Frame), stack' # <<>>, FromHead(stack'),
         Scanned(Tail(stack)) => Scanned(stack'),
         \A i \in DOMAIN first_aio :
            first_aio[i] \in Finished' /\ Seen(i) => Scanned(Tail(stack))
  PROVE  Noticing'
<1>1. ASSUME NEW i \in DOMAIN first_aio', Scanned(stack')
      PROVE  Seen(i)'
  BY <1>1, ScanSees, Zenon
<1>2. ASSUME NEW i \in DOMAIN first_aio', first_aio'[i] \in Finished'
      PROVE  Woken' \/ bh'[async_context'] \/ Seen(i)'
  <2>1. first_aio'[i] \in Finished
    BY <1>2
  <2>2. PICK j \in DOMAIN first_aio : first_aio[j] = first_aio'[i]
    BY <2>1, Zenon DEF Finished, Listed, Range
  <2>3. Woken \/ bh[async_context] \/ Seen(j)
    BY <2>1, <2>2, Zenon DEF Noticing
  <2> QED
    BY <1>1, <1>2, <2>2, <2>3, Zenon
<1>3. FromHead(Tail(stack'))
  BY NextParts, Zenon
<1> QED
  BY <1>2, <1>3, Zenon DEF Noticing

\* The stack and the list stay as they are.
LEMMA StackStays ==
  ASSUME Noticing, Woken => Woken', UNCHANGED <<first_aio, async_context, bh, stack>>,
         Finished' \subseteq Finished
  PROVE  Noticing'
<1>1. \A i : Seen(i)' <=> Seen(i)
  BY DEF Seen, Top
<1> QED
  BY <1>1, Zenon DEF Noticing

\* A worker or the signal handler.
LEMMA WorkerNotices ==
  ASSUME ServiceInv, Noticing, NEW t \in Thread,
         \/ ThreadStep(t)
         \/ ThreadWakes(t) /\ UNCHANGED <<wakeup, async, client, stack>>
  PROVE  Noticing'
<1>0. at \in [Thread -> WorkerAt] /\ aiocb \in [Block -> Request]
  BY Parts, Zenon
<1>1. UNCHANGED <<first_aio, async_context, bh, stack>>
  BY SMTT(30) DEF ThreadStep, ThreadTakes, TakeRequest, ThreadWaits, ThreadExits, ThreadCompletes,
         ThreadKills, ThreadWakes, lists, async
<1>2. FromHead(Tail(stack'))
  BY <1>1, Zenon DEF Noticing
<1>3. CASE ThreadCompletes(t)
  <2>1. at'[t] = "kill"
    BY <1>0, <1>3 DEF ThreadCompletes
  <2> QED
    BY <1>2, <2>1, Roused, Zenon DEF Woken
<1>4. CASE ThreadKills(t)
  BY <1>2, <1>4, Roused, Zenon DEF Woken, ThreadKills
<1>5. CASE /\ ThreadTakes(t) \/ ThreadWaits(t) \/ ThreadExits(t) \/ ThreadWakes(t)
           /\ UNCHANGED wakeup
  <2>1. /\ at[t] # "kill"
        /\ \E pc : at' = [at EXCEPT ![t] = pc]
    BY <1>5, Zenon DEF ThreadTakes, TakeRequest, ThreadWaits, ThreadExits, ThreadWakes
  <2>2. \A u \in Thread : at[u] = "kill" => at'[u] = "kill"
    BY <1>0, <2>1
  <2>3. Woken => Woken'
    BY <1>5, <2>2, Zenon DEF Woken, wakeup
  <2>4. \A a \in Block : aiocb'[a].ret = aiocb[a].ret /\ aiocb'[a].context = aiocb[a].context
    BY <1>0, <1>5 DEF ThreadTakes, TakeRequest, ThreadWaits, ThreadExits, ThreadWakes,
                      lists, Request
  <2>5. Listed \subseteq Block
    BY BlockFacts, Zenon
  <2>6. Finished' \subseteq Finished
    BY <1>1, <2>4, <2>5 DEF Finished, Listed, Ctx
  <2> QED
    BY <1>1, <2>3, <2>6, StackStays, Zenon
<1> QED
  BY <1>3, <1>4, <1>5, Zenon DEF ThreadStep

LEMMA HandlerNotices ==
  ASSUME Noticing, aio_signal_handler
  PROVE  Noticing'
<1>1. stack' = stack /\ pipe'
  BY DEF aio_signal_handler
<1> QED
  BY <1>1, Roused, Zenon DEF Woken, Noticing

\* Requests that are not submitted now.
LEMMA SubmitFinished ==
  ASSUME ServiceInv, free_aiocb # {}, NEW c \in Context,
         NEW cb \in {"device", "bdrv_rw_em_cb"}, paio_submit(qemu_aio_get, c, cb),
         UNCHANGED wakeup
  PROVE  /\ first_aio' \in Seq(Block) /\ (Woken => Woken')
         /\ \A a \in Listed' : aiocb'[a].ret # "EINPROGRESS" =>
                a \in Listed /\ aiocb'[a] = aiocb[a]
<1> DEFINE new == qemu_aio_get
<1>1. new \in free_aiocb
  BY Zenon DEF qemu_aio_get
<1>2. new \in Block
  BY <1>1, Zenon DEF ServiceInv, PoolInv, ListsOK
<1>3. /\ first_aio' = <<new>> \o first_aio
      /\ aiocb' = [aiocb EXCEPT ![new] =
                    [ret |-> "EINPROGRESS", active |-> FALSE, context |-> c, cb |-> cb]]
  BY DEF paio_submit
<1>4. first_aio' \in Seq(Block) /\ Listed' = Listed \cup {new}
  <2>1. first_aio \in Seq(Block)
    BY Parts, Zenon
  <2> HIDE DEF new
  <2>2. <<new>> \o first_aio \in Seq(Block)
    BY <1>2, <2>1, Push, Zenon
  <2>3. Range(<<new>> \o first_aio) = Range(first_aio) \cup {new}
    BY <1>2, <2>1, PushRange
  <2> QED
    BY <1>3, <2>2, <2>3, Zenon DEF Listed
<1>5. \A u \in Thread : at[u] = "kill" => at'[u] = "kill"
  <2>1. CASE idle_threads = 0 /\ cur_threads < max_threads
    <3> DEFINE u == CHOOSE u \in Thread \ Alive : TRUE
    <3>1. at' = [at EXCEPT ![u] = "lock"]
      BY <2>1, Zenon DEF paio_submit, spawn_thread
    <3>2. u \in Thread /\ at[u] = "none"
      BY <2>1, FreeThread, Zenon DEF ServiceInv, PoolInv
    <3> HIDE DEF u
    <3> QED
      BY <3>1, <3>2, Parts
  <2>2. CASE ~(idle_threads = 0 /\ cur_threads < max_threads)
    BY <2>2, Zenon DEF paio_submit, workers
  <2> QED
    BY <2>1, <2>2
<1>6. Woken => Woken'
  BY <1>5, Zenon DEF Woken, wakeup
<1>7. aiocb'[new].ret = "EINPROGRESS"
  BY <1>2, <1>3, Parts, SMTT(30)
<1>8. \A a \in Block : a # new => aiocb'[a] = aiocb[a]
  BY <1>3, Parts
<1>9. Listed' \subseteq Block
  BY <1>2, <1>4, BlockFacts, Zenon
<1> QED
  BY <1>4, <1>6, <1>7, <1>8, <1>9, Zenon

\* A request that leaves the list.
LEMMA RemoveFinished ==
  ASSUME ServiceInv, NEW a \in Block, paio_remove(a), async_context' = async_context
  PROVE  first_aio' \in Seq(Block) /\ Finished' \subseteq Finished \ {a}
<1>1. PICK i \in DOMAIN first_aio : first_aio[i] = a /\ first_aio' = RemoveAt(first_aio, i)
  BY Zenon DEF paio_remove
<1>2. aiocb' = [aiocb EXCEPT ![a] = Unused]
  BY DEF paio_remove, Released
<1>3. i \in 1..Len(first_aio)
  BY LenProperties, Parts
<1>4. first_aio' \in Seq(Block)
  BY <1>1, <1>3, Parts, RemoveFacts, Zenon
<1>5. Listed' = Listed \ {a}
  BY <1>1, <1>3, Parts, RemoveRange, Zenon DEF Listed, ServiceInv, Owned
<1>6. \A b \in Block \ {a} : aiocb'[b] = aiocb[b]
  BY <1>2, Parts
<1>7. Listed \subseteq Block
  BY BlockFacts, Zenon
<1> QED
  BY <1>4, <1>5, <1>6, <1>7 DEF Finished, Ctx

\* A frame other than a scan or a read at the top of the stack is replaced, or
\* another is put on it, or it is taken off.
LEMMA FrameChanges ==
  ASSUME ServiceInv, Noticing, Top.op \notin {"process_queue", "bdrv_read_em"}
  PROVE  /\ \A f \in Frame : f.op \notin {"process_queue", "bdrv_read_em"} =>
             LET s == <<f>> \o Tail(stack) IN
             /\ s \in Seq(Frame) /\ s # <<>> /\ FromHead(s)
             /\ Scanned(Tail(stack)) => Scanned(s)
             /\ \A g \in Frame : g.op \notin {"process_queue", "bdrv_read_em"} =>
                 LET u == <<g>> \o s IN
                 /\ u \in Seq(Frame) /\ u # <<>> /\ FromHead(u)
                 /\ Scanned(Tail(stack)) => Scanned(u)
         /\ FromHead(stack) /\ (Scanned(Tail(stack)) => Scanned(stack))
<1>1. FromHead(Tail(stack)) /\ Tail(stack) \in Seq(Frame)
  BY Parts, Zenon DEF Noticing
<1>2. FromHead(stack) /\ (Scanned(Tail(stack)) => Scanned(stack))
  BY <1>1, Parts, PlainPush, Zenon
<1> QED
  BY <1>1, <1>2, PlainPush, Zenon

\* A return from a function that is no scan.
LEMMA FrameReturns ==
  ASSUME ServiceInv, Noticing, Top.op # "main_loop", Return
  PROVE  stack' \in Seq(Frame) /\ stack' # <<>> /\ FromHead(stack') /\ stack' = Tail(stack)
<1>1. Tail(stack) \in Stacks
  BY Parts, StackPop, Zenon DEF Top
<1> QED
  BY <1>1, Parts, Zenon DEF Return, Stacks, Noticing

\* The top of the stack, which is no scan and no read, sees nothing by itself,
\* except the block paio_cancel waits for.
LEMMA TopIsBlind ==
  ASSUME Top.op \notin {"process_queue", "bdrv_read_em"}, NEW i, Seen(i),
         Top.op = "paio_cancel" => Top.acb # first_aio[i]
  PROVE  Scanned(Tail(stack))
BY Zenon DEF Seen

\* The top frame, no scan and no read, is replaced by f, or f is put on it.
LEMMA QuietNotices ==
  ASSUME ServiceInv, Noticing, Top.op \notin {"process_queue", "bdrv_read_em", "paio_cancel"},
         Woken => Woken', async_context' = async_context,
         bh[async_context] => bh'[async_context], Finished' \subseteq Finished,
         first_aio' \in Seq(Block), stack' \in Seq(Frame), stack' # <<>>, FromHead(stack'),
         Scanned(Tail(stack)) => Scanned(stack')
  PROVE  Noticing'
<1>1. \A i \in DOMAIN first_aio :
        first_aio[i] \in Finished' /\ Seen(i) => Scanned(Tail(stack))
  BY TopIsBlind, Zenon
<1> QED
  BY <1>1, LevelKept, Zenon

\* Nothing happens to the requests, the workers and the contexts.
LEMMA NothingFinishes ==
  ASSUME UNCHANGED <<first_aio, aiocb, async_context, at, wakeup>>
  PROVE  Finished' = Finished /\ (Woken => Woken')
BY DEF Finished, Listed, Ctx, Woken, wakeup

LEMMA SignalNotices ==
  ASSUME ServiceInv, Noticing, cond_signal
  PROVE  Noticing'
<1>1. Top.op = "cond_signal" /\ Return /\ UNCHANGED <<lists, wakeup, async_context, bh>>
  BY Parts DEF cond_signal, async
<1>2. \A u \in Thread : at[u] = "kill" => at'[u] = "kill"
  <2>1. \/ at' = at
        \/ \E t \in Thread : at[t] = "wait" /\ at' = [at EXCEPT ![t] = "lock"]
    BY Zenon DEF cond_signal
  <2> QED
    BY <2>1, Parts
<1>3. Woken => Woken'
  BY <1>1, <1>2, Zenon DEF Woken, wakeup
<1>4. Finished' = Finished /\ first_aio' \in Seq(Block)
  BY <1>1, Parts DEF Finished, Listed, Ctx, lists
<1>5. /\ stack' \in Seq(Frame) /\ stack' # <<>> /\ FromHead(stack')
      /\ stack' = Tail(stack)
  BY <1>1, FrameReturns, Zenon
<1> QED
  BY <1>1, <1>3, <1>4, <1>5, QuietNotices, Zenon

LEMMA CancelEndsNotices ==
  ASSUME ServiceInv, Noticing, CancelEnds
  PROVE  Noticing'
<1>1. /\ Top.op = "paio_cancel" /\ Return /\ paio_remove(Top.acb)
      /\ UNCHANGED <<at, wakeup, async_context, bh>>
  BY Parts DEF CancelEnds, async, workers
<1>2. Top.acb \in Block
  BY <1>1, Parts, Frames
<1>3. first_aio' \in Seq(Block) /\ Finished' \subseteq Finished \ {Top.acb}
  BY <1>1, <1>2, RemoveFinished, Zenon
<1>4. Woken => Woken'
  BY <1>1, Zenon DEF Woken, wakeup
<1>5. /\ stack' \in Seq(Frame) /\ stack' # <<>> /\ FromHead(stack')
      /\ stack' = Tail(stack)
  BY <1>1, FrameReturns, Zenon
<1>6. \A i \in DOMAIN first_aio :
        first_aio[i] \in Finished' /\ Seen(i) => Scanned(Tail(stack))
  BY <1>1, <1>3, TopIsBlind
<1>7. Finished' \subseteq Finished
  BY <1>3, Zenon
<1> QED
  BY <1>1, <1>3, <1>4, <1>5, <1>6, <1>7, LevelKept, Zenon

\* paio_cancel, called from a device or from a callback.
LEMMA CancelNotices ==
  ASSUME ServiceInv, Noticing, NEW a \in Block, NEW caller \in Frame,
         Top.op \in {"main_loop", "callback"}, caller.op = Top.op, paio_cancel(a, caller),
         UNCHANGED <<workers, wakeup, async>>
  PROVE  Noticing'
<1>0. /\ UNCHANGED <<at, wakeup, async_context, bh>>
      /\ Top.op \notin {"process_queue", "bdrv_read_em", "paio_cancel"}
      /\ caller.op \notin {"process_queue", "bdrv_read_em", "paio_cancel"}
  BY DEF workers, async
<1>1. Woken => Woken'
  BY <1>0 DEF Woken, wakeup
<1>2. CASE paio_remove(a) /\ Goto(caller)
  <2>1. first_aio' \in Seq(Block) /\ Finished' \subseteq Finished
    BY <1>0, <1>2, RemoveFinished, Zenon
  <2>2. /\ stack' \in Seq(Frame) /\ stack' # <<>> /\ FromHead(stack')
        /\ Scanned(Tail(stack)) => Scanned(stack')
    BY <1>0, <1>2, FrameChanges, Zenon DEF Goto
  <2> QED
    BY <1>0, <1>1, <2>1, <2>2, QuietNotices, Zenon
<1>3. CASE stack' = <<Cancel(a), caller>> \o Tail(stack) /\ UNCHANGED lists
  <2>1. Cancel(a) \in Frame /\ Cancel(a).op = "paio_cancel"
    BY NewFrames, Zenon
  <2>2. stack' = <<Cancel(a)>> \o (<<caller>> \o Tail(stack))
    BY <1>3, <2>1, Parts, Push2, Zenon
  <2>3. /\ stack' \in Seq(Frame) /\ stack' # <<>> /\ FromHead(stack')
        /\ Scanned(Tail(stack)) => Scanned(stack')
    BY <1>0, <2>1, <2>2, FrameChanges, Zenon
  <2>4. Finished' \subseteq Finished /\ first_aio' \in Seq(Block)
    BY <1>0, <1>3, NothingFinishes, Parts, Zenon DEF lists
  <2> QED
    BY <1>0, <1>1, <2>3, <2>4, QuietNotices, Zenon
<1> QED
  BY <1>2, <1>3, Zenon DEF paio_cancel

\* The end of a scan: what it has not completed is not finished, or is for a scan
\* further down.
LEMMA ScanEndsNotices ==
  ASSUME ServiceInv, Noticing, ScanEnds
  PROVE  Noticing'
<1> DEFINE rest == Tail(stack)
<1>1. /\ Top.op = "process_queue" /\ Top.pos > Len(first_aio)
      /\ UNCHANGED <<lists, at, wakeup, async_context, bh>>
      /\ IF Head(rest).op = "aio_wait"
         THEN stack' = IF Top.result THEN Tail(rest) ELSE <<Wait("select")>> \o Tail(rest)
         ELSE stack' = rest
  BY Parts, Zenon DEF ScanEnds, async, workers
<1>2. Finished' \subseteq Finished /\ (Woken => Woken') /\ first_aio' \in Seq(Block)
  BY <1>1, NothingFinishes, Parts, Zenon DEF lists
<1>3. /\ rest \in Stacks /\ rest \in Seq(Frame) /\ rest # <<>> /\ FromHead(rest)
      /\ Head(rest) \in Frame /\ Tail(rest) \in Seq(Frame)
      /\ rest = <<Head(rest)>> \o Tail(rest)
  <2>1. rest \in Stacks
    BY <1>1, Parts, StackPop, Zenon DEF Top
  <2>2. rest \in Seq(Frame) /\ rest # <<>>
    BY <2>1, Zenon DEF Stacks
  <2> QED
    BY <2>1, <2>2, Split, Zenon DEF Noticing
<1>4. \A i \in DOMAIN first_aio : Seen(i) => Scanned(rest)
  <2>1. \A i \in DOMAIN first_aio : i <= Len(first_aio) /\ i \in Nat
    BY LenProperties, Parts
  <2>2. Top.pos \in Nat /\ Len(first_aio) \in Nat
    BY <1>1, Parts, Frames, LenProperties
  <2>3. \A i \in DOMAIN first_aio : ~(Top.pos <= i)
    BY <1>1, <2>1, <2>2
  <2> QED
    BY <1>1, <2>3, Zenon DEF Seen
<1> HIDE DEF rest
<1>5. CASE Head(rest).op # "aio_wait"
  <2>1. stack' = rest
    BY <1>1, <1>5
  <2> QED
    BY <1>1, <1>2, <1>3, <1>4, <2>1, LevelKept, Zenon DEF rest
<1>6. CASE Head(rest).op = "aio_wait"
  <2>1. /\ FromHead(Tail(rest))
        /\ Scanned(rest) => Scanned(Tail(rest))
    BY <1>3, <1>6, ScanSplit, Zenon
  <2>2. Tail(rest) # <<>>
    <3>1. Tail(rest) \in Stacks
      BY <1>3, <1>6, Parts, StackPop
    <3> QED
      BY <3>1 DEF Stacks
  <2>3. Wait("select") \in Frame /\ Wait("select").op = "aio_wait"
    BY NewFrames
  <2>4. /\ <<Wait("select")>> \o Tail(rest) \in Seq(Frame)
        /\ <<Wait("select")>> \o Tail(rest) # <<>>
        /\ FromHead(<<Wait("select")>> \o Tail(rest))
        /\ Scanned(rest) => Scanned(<<Wait("select")>> \o Tail(rest))
    BY <1>3, <2>1, <2>3, PlainPush, Zenon
  <2>5. /\ stack' \in Seq(Frame) /\ stack' # <<>> /\ FromHead(stack')
        /\ Scanned(rest) => Scanned(stack')
    BY <1>1, <1>3, <1>6, <2>1, <2>2, <2>4, Zenon
  <2> QED
    BY <1>1, <1>2, <1>4, <2>5, LevelKept, Zenon DEF rest
<1> QED
  BY <1>5, <1>6

\* The scan passes over a request.
LEMMA ScanPassesNotices ==
  ASSUME ServiceInv, Noticing, ScanPasses
  PROVE  Noticing'
<1> DEFINE top == [Top EXCEPT !.pos = @ + 1]
<1>1. /\ Top.op = "process_queue" /\ Top.pos <= Len(first_aio) /\ Goto(top)
      /\ LET a == first_aio[Top.pos] IN ~ InContext(a) \/ aiocb[a].ret = "EINPROGRESS"
      /\ UNCHANGED <<lists, at, wakeup, async_context, bh>>
  BY Parts DEF ScanPasses, async, workers
<1>2. Finished' = Finished /\ (Woken => Woken') /\ first_aio' = first_aio
  BY <1>1, NothingFinishes, Zenon DEF lists
<1>3. Top \in [op : {"process_queue"}, pos : Nat \ {0}, result : BOOLEAN]
  BY <1>1, Parts, Frames
<1>4. /\ top \in [op : {"process_queue"}, pos : Nat \ {0}, result : BOOLEAN]
      /\ top.op = "process_queue" /\ top.pos = Top.pos + 1
  BY <1>3
<1>5. top \in Frame
  BY <1>4, SMTT(30) DEF Frame
<1> HIDE DEF top
<1>6. Top' = top /\ Tail(stack') = Tail(stack)
  BY <1>1, <1>5, Parts, Push DEF Goto, Top
<1>7. first_aio[Top.pos] \notin Finished
  BY <1>1, Zenon DEF Finished, InContext, Ctx
<1>8. ASSUME NEW i \in DOMAIN first_aio, first_aio[i] \in Finished, Seen(i)
      PROVE  Seen(i)'
  <2>1. CASE Top.op # "bdrv_read_em" /\ Scanned(Tail(stack))
    BY <1>1, <1>4, <1>6, <2>1, Zenon DEF Seen
  <2>2. CASE Top.pos <= i
    <3>1. i # Top.pos
      BY <1>7, <1>8
    <3>2. i \in Nat
      BY LenProperties, Parts
    <3>3. top.pos <= i
      BY <1>3, <1>4, <2>2, <3>1, <3>2
    <3> QED
      BY <1>4, <1>6, <3>3 DEF Seen
  <2> QED
    BY <1>1, <1>8, <2>1, <2>2, Zenon DEF Seen
<1> QED
  BY <1>1, <1>2, <1>6, <1>8, Zenon DEF Noticing

\* The scan completes a request.
LEMMA ScanCompletesNotices ==
  ASSUME ServiceInv, Noticing, ScanCompletes
  PROVE  Noticing'
<1>1. Top.op = "process_queue" /\ UNCHANGED <<at, wakeup, async_context, bh>>
  BY Parts DEF ScanCompletes, async, workers
<1>2. Top \in [op : {"process_queue"}, pos : Nat \ {0}, result : BOOLEAN]
  BY <1>1, Parts, Frames
<1>3. PICK i \in DOMAIN first_aio : i = Top.pos /\ i \in 1..Len(first_aio)
  BY <1>2, Parts, LenProperties DEF ScanCompletes
<1>4. PICK a \in Block : a = first_aio[i]
  BY <1>3, Parts, ElementOfSeq
<1>5. first_aio' = RemoveAt(first_aio, i)
  BY <1>3 DEF ScanCompletes
<1>6. /\ Len(first_aio) \in Nat /\ first_aio' \in Seq(Block)
      /\ Len(first_aio') = Len(first_aio) - 1
      /\ DOMAIN first_aio' = 1..(Len(first_aio) - 1) /\ DOMAIN first_aio = 1..Len(first_aio)
      /\ \A j \in 1..(Len(first_aio) - 1) :
            first_aio'[j] = IF j < i THEN first_aio[j] ELSE first_aio[j + 1]
  <2>1. first_aio \in Seq(Block)
    BY Parts, Zenon
  <2>2. /\ first_aio' \in Seq(Block) /\ Len(first_aio') = Len(first_aio) - 1
        /\ \A j \in 1..(Len(first_aio) - 1) :
              first_aio'[j] = IF j < i THEN first_aio[j] ELSE first_aio[j + 1]
    BY <1>3, <1>5, <2>1, RemoveFacts, Zenon
  <2> QED
    BY <2>1, <2>2, LenProperties
<1>7. CASE aiocb[a].ret = "ECANCELED"
  <2> DEFINE f == [Top EXCEPT !.result = TRUE]
  <2>1. paio_remove(a) /\ Goto(f)
    BY <1>3, <1>4, <1>5, <1>7 DEF ScanCompletes, paio_remove
  <2>2. /\ f \in [op : {"process_queue"}, pos : Nat \ {0}, result : BOOLEAN]
        /\ f.op = "process_queue" /\ f.pos = i
    BY <1>2, <1>3, Zenon
  <2>3. f \in Frame
    BY <2>2, Zenon DEF Frame
  <2> HIDE DEF f
  <2>4. Top' = f /\ Tail(stack') = Tail(stack)
    BY <2>1, <2>3, Parts, Push DEF Goto, Top
  <2>5. Finished' \subseteq Finished
    BY <1>1, <2>1, RemoveFinished, Zenon
  <2>6. Woken => Woken'
    BY <1>1, SMTT(30) DEF Woken, wakeup
  <2>7. ASSUME NEW j \in DOMAIN first_aio', first_aio'[j] \in Finished'
        PROVE  Woken' \/ bh'[async_context'] \/ Seen(j)'
    <3>1. PICK k \in DOMAIN first_aio :
            first_aio[k] = first_aio'[j] /\ (i <= k => i <= j)
      <4>1. CASE j < i
        BY <1>6, <4>1
      <4>2. CASE ~(j < i)
        BY <1>6, <4>2, SMTT(30)
      <4> QED
        BY <4>1, <4>2
    <3>2. Woken \/ bh[async_context] \/ Seen(k)
      BY <2>5, <2>7, <3>1, Zenon DEF Noticing
    <3>3. ASSUME Seen(k)
          PROVE  Seen(j)'
      <4>1. Scanned(Tail(stack)) \/ i <= k
        BY <1>1, <1>3, <3>3, Zenon DEF Seen
      <4>2. f.op # "bdrv_read_em"
        BY <2>2
      <4> QED
        BY <2>2, <2>4, <3>1, <4>1, <4>2, Zenon DEF Seen
    <3> QED
      BY <1>1, <2>6, <3>2, <3>3, Zenon
  <2> QED
    BY <2>4, <2>7, Zenon DEF Noticing
<1>8. CASE aiocb[a].ret # "ECANCELED"
  <2> DEFINE g == [Top EXCEPT !.pos = 1, !.result = TRUE]
  <2>1. stack' = <<Callback(a), g>> \o Tail(stack)
    <3>1. first_aio[Top.pos] = a
      BY <1>3, <1>4, Zenon
    <3> HIDE DEF g
    <3>2. LET b == first_aio[Top.pos] IN
          aiocb[b].ret # "ECANCELED" => stack' = <<Callback(b), g>> \o Tail(stack)
      BY Zenon DEF ScanCompletes, g
    <3> QED
      BY <1>8, <3>1, <3>2, Zenon
  <2>2. /\ g \in [op : {"process_queue"}, pos : Nat \ {0}, result : BOOLEAN]
        /\ g.op = "process_queue" /\ g.pos = 1
    <3> DEFINE h == [Top EXCEPT !.pos = 1]
    <3>1. h \in [op : {"process_queue"}, pos : Nat \ {0}, result : BOOLEAN] /\ h.pos = 1
      BY <1>2
    <3>2. g = [h EXCEPT !.result = TRUE]
      OBVIOUS
    <3> HIDE DEF h, g
    <3> QED
      BY <3>1, <3>2, Zenon
  <2>3. g \in Frame
    BY <2>2, Zenon DEF Frame
  <2> HIDE DEF g
  <2>4. Callback(a) \in Frame /\ Callback(a).op = "callback"
    BY NewFrames, Zenon
  <2>5. Tail(stack) \in Seq(Frame) /\ FromHead(Tail(stack))
    BY Parts, Zenon DEF Noticing
  <2>6. stack' = <<Callback(a)>> \o (<<g>> \o Tail(stack))
    BY <2>1, <2>3, <2>4, <2>5, Push2, Zenon
  <2>7. <<g>> \o Tail(stack) \in Seq(Frame)
    BY <2>3, <2>5, Push, Zenon
  <2>8. FromHead(<<g>> \o Tail(stack)) /\ Scanned(<<g>> \o Tail(stack))
    BY <2>2, <2>3, <2>5, ScanPush, Zenon
  <2>9. Callback(a).op \notin {"process_queue", "bdrv_read_em"}
    BY <2>4
  <2>10. stack' \in Seq(Frame) /\ stack' # <<>> /\ FromHead(stack') /\ Scanned(stack')
    BY <2>4, <2>6, <2>7, <2>8, <2>9, PlainPush, Zenon
  <2> QED
    BY <1>6, <2>10, ScanNotices, Zenon
<1> QED
  BY <1>7, <1>8

\* A bottom half, or qemu_aio_wait.
LEMMA WaitNotices ==
  ASSUME ServiceInv, NEW next \in Seq(Frame), FromHead(next), first_aio' \in Seq(Block),
         RunBottomHalf(next) \/ qemu_aio_wait(next)
  PROVE  Noticing'
<1>1. CASE stack' = <<Process(1)>> \o next
  BY <1>1, ScanBegins, SMTT(30)
<1>2. CASE stack' = <<Process(1), Wait("queue")>> \o next
  <2>1. /\ Process(1) \in Frame /\ Wait("queue") \in Frame
        /\ Wait("queue").op \notin {"process_queue", "bdrv_read_em"}
    BY NewFrames
  <2>2. stack' = <<Process(1)>> \o (<<Wait("queue")>> \o next)
    BY <1>2, <2>1, Push2, Zenon
  <2>3. <<Wait("queue")>> \o next \in Seq(Frame) /\ FromHead(<<Wait("queue")>> \o next)
    BY <2>1, PlainPush, Zenon
  <2> QED
    BY <2>2, <2>3, ScanBegins, Zenon
<1> QED
  BY <1>1, <1>2, Zenon DEF RunBottomHalf, qemu_aio_wait

\* The steps of a synchronous read.
LEMMA ReadEmNotices ==
  ASSUME ServiceInv, Noticing, ReadWaits \/ async_context_pop
  PROVE  Noticing'
<1>1. /\ Top.op = "bdrv_read_em" /\ first_aio' \in Seq(Block)
      /\ \/ RunBottomHalf(stack) \/ qemu_aio_wait(stack)
         \/ /\ Return /\ async_context' = async_context - 1
            /\ bh' = [bh EXCEPT ![async_context - 1] = TRUE]
            /\ async_ret[async_context]
  BY Parts, Zenon DEF ReadWaits, async_context_pop, qemu_aio_wait, lists
<1>2. FromHead(stack)
  <2>1. FromHead(Tail(stack)) /\ Top.op # "process_queue"
    BY <1>1 DEF Noticing
  <2> QED
    BY <2>1, Parts, ScanSplit, Zenon DEF Top
<1>3. CASE RunBottomHalf(stack) \/ qemu_aio_wait(stack)
  BY <1>1, <1>2, <1>3, Parts, WaitNotices, Zenon
<1>4. CASE Return /\ async_context' = async_context - 1
           /\ bh' = [bh EXCEPT ![async_context - 1] = TRUE]
  <2>1. async_context - 1 \in Context
    <3>1. Depth(Tail(stack)) \in Nat /\ async_context = Depth(Tail(stack)) + IsRead(Top)
      BY <1>1, Parts, StackPop DEF Top, ServiceInv, PoolInv, StackOK
    <3>2. IsRead(Top) = 1
      BY <1>1 DEF IsRead
    <3>3. async_context \in 0..MaxContext /\ MaxContext \in Nat
      BY Parts, PoolAssumption DEF Context
    <3> QED
      BY <3>1, <3>2, <3>3, SMTT(30) DEF Context
  <2>2. bh'[async_context']
    BY <1>4, <2>1, Parts
  <2>3. FromHead(Tail(stack'))
    BY <1>1, <1>4, FrameReturns, NextParts
  <2> QED
    BY <2>2, <2>3, Roused
<1> QED
  BY <1>1, <1>3, <1>4, Zenon

\* A synchronous read begins: nothing of its context is finished.
LEMMA SyncNotices ==
  ASSUME ServiceInv, Noticing, NEW caller \in Frame, caller.op = Top.op,
         Top.op \in {"main_loop", "callback"}, bdrv_read_em(caller)
  PROVE  Noticing'
<1>1. /\ free_aiocb # {} /\ async_context' = async_context + 1
      /\ paio_submit(qemu_aio_get, async_context + 1, "bdrv_rw_em_cb")
      /\ stack' = <<Signal, ReadEm, caller>> \o Tail(stack) /\ UNCHANGED wakeup
  BY DEF bdrv_read_em, CanSubmit
<1>2. async_context \in Nat /\ async_context + 1 \in Context
  BY Parts, PoolAssumption DEF bdrv_read_em, Context
<1>3. \A a \in Listed' : aiocb'[a].ret # "EINPROGRESS" =>
            a \in Listed /\ aiocb'[a] = aiocb[a]
  BY <1>1, <1>2, SubmitFinished
<1>4. Finished' = {}
  <2>1. \A a \in Listed : aiocb[a].context <= async_context
    BY SMTT(30) DEF ServiceInv, Chains, Ctx
  <2>2. \A a \in Listed : aiocb[a].context \in Nat
    BY BlockFacts DEF Ctx
  <2>3. \A a \in Listed : aiocb[a].context # async_context'
    BY <1>1, <1>2, <2>1, <2>2
  <2> QED
    BY <1>3, <2>3, Zenon DEF Finished, Ctx
<1>5. /\ Signal \in Frame /\ ReadEm \in Frame /\ ReadEm.op = "bdrv_read_em"
      /\ caller.op \notin {"process_queue", "bdrv_read_em"}
  BY NewFrames
<1>6. Tail(stack) \in Seq(Frame) /\ FromHead(Tail(stack))
  BY Parts, Zenon DEF Noticing
<1>7. stack' = <<Signal>> \o (<<ReadEm>> \o (<<caller>> \o Tail(stack)))
  BY <1>1, Parts, SyncStack, Zenon
<1>8. /\ <<caller>> \o Tail(stack) \in Seq(Frame)
      /\ FromHead(<<caller>> \o Tail(stack))
  BY <1>5, <1>6, PlainPush, Zenon
<1>9. ASSUME NEW r \in Seq(Frame), FromHead(r)
      PROVE  <<ReadEm>> \o r \in Seq(Frame) /\ FromHead(<<ReadEm>> \o r)
  <2>1. ReadEm.op # "process_queue"
    BY <1>5
  <2> QED
    BY <1>5, <1>9, <2>1, Push, ScanPush, Zenon
<1>10. Tail(stack') = <<ReadEm>> \o (<<caller>> \o Tail(stack))
  <2>1. PICK r \in Seq(Frame) : r = <<ReadEm>> \o (<<caller>> \o Tail(stack))
    BY <1>8, <1>9, Zenon
  <2>2. Tail(<<Signal>> \o r) = r
    BY <1>5, Push
  <2> QED
    BY <1>7, <2>1, <2>2
<1> QED
  BY <1>4, <1>8, <1>9, <1>10, Roused, Zenon

\* A read that is refused leaves a bottom half.
LEMMA RefusedNotices ==
  ASSUME ServiceInv, Noticing, NEW caller \in Frame, ReadRefused(caller)
  PROVE  Noticing'
<1>1. stack' = <<caller>> \o Tail(stack) /\ async_context' = async_context
  BY DEF ReadRefused, Goto
<1>2. bh'[async_context']
  BY <1>1, Parts DEF ReadRefused
<1>3. Tail(stack') = Tail(stack)
  BY <1>1, Parts, Push, Zenon
<1> QED
  BY <1>2, <1>3, Roused, Zenon DEF Noticing

\* A submission from device code or from a callback.
LEMMA SubmitNotices ==
  ASSUME ServiceInv, Noticing, free_aiocb # {}, NEW cb \in {"device", "bdrv_rw_em_cb"},
         paio_submit(qemu_aio_get, async_context, cb), UNCHANGED <<wakeup, async_context, bh>>,
         Top.op \in {"main_loop", "callback"}, NEW caller \in Frame, caller.op = Top.op,
         stack' = <<Signal>> \o (<<caller>> \o Tail(stack))
  PROVE  Noticing'
<1>1. /\ Signal \in Frame /\ Signal.op \notin {"process_queue", "bdrv_read_em"}
      /\ caller.op \notin {"process_queue", "bdrv_read_em"}
      /\ Top.op \notin {"process_queue", "bdrv_read_em", "paio_cancel"}
  BY NewFrames
<1>2. /\ first_aio' \in Seq(Block) /\ (Woken => Woken')
      /\ \A a \in Listed' : aiocb'[a].ret # "EINPROGRESS" =>
            a \in Listed /\ aiocb'[a] = aiocb[a]
  BY Parts, SubmitFinished
<1>3. Finished' \subseteq Finished
  BY <1>2, Zenon DEF Finished, Ctx
<1>4. /\ stack' \in Seq(Frame) /\ stack' # <<>> /\ FromHead(stack')
      /\ Scanned(Tail(stack)) => Scanned(stack')
  BY <1>1, FrameChanges, Zenon
<1> QED
  BY <1>1, <1>2, <1>3, <1>4, QuietNotices, Zenon

\* The callbacks.
LEMMA CallbackNotices ==
  ASSUME ServiceInv, Noticing,
         CallbackReads \/ CallbackCancels \/ CallbackFollowsUp \/ CallbackReturns
  PROVE  Noticing'
<1>1. Top.op = "callback"
  BY Parts, Zenon DEF CallbackReads, InCallback, CallbackCancels, CallbackFollowsUp,
                      CallbackReturns
<1>2. Top \in [op : {"callback"}, acb : Block, pc : {"body", "tail", "ret"}]
  BY <1>1, Parts, Frames
<1> DEFINE to(pc) == [Top EXCEPT !.pc = pc]
<1>3. \A pc \in {"tail", "ret"} : to(pc) \in Frame /\ to(pc).op = Top.op
  BY <1>1, <1>2 DEF Frame
<1> HIDE DEF to
<1>4. CASE CallbackReads
  <2>1. bdrv_read_em(to("tail")) \/ ReadRefused(to("tail"))
    BY <1>4, Zenon DEF CallbackReads, to
  <2> QED
    BY <1>1, <1>3, <2>1, SyncNotices, RefusedNotices
<1>5. CASE CallbackCancels
  <2>1. PICK a \in Cancellable : paio_cancel(a, to("tail"))
    BY <1>5, Zenon DEF CallbackCancels, to
  <2>2. a \in Block
    BY BlockFacts, Zenon DEF Cancellable, Listed
  <2>3. UNCHANGED <<workers, wakeup, async>>
    BY <1>5, Zenon DEF CallbackCancels
  <2> QED
    BY <1>1, <1>3, <2>1, <2>2, <2>3, CancelNotices
<1>6. CASE CallbackFollowsUp
  <2>1. /\ free_aiocb # {} /\ paio_submit(qemu_aio_get, async_context, aiocb[Top.acb].cb)
        /\ stack' = <<Signal, to("ret")>> \o Tail(stack)
        /\ UNCHANGED <<wakeup, async_context, bh>>
    BY <1>6, Zenon DEF CallbackFollowsUp, to, async
  <2>2. aiocb[Top.acb].cb \in {"device", "bdrv_rw_em_cb"}
    BY <1>2, Parts DEF Request
  <2>3. stack' = <<Signal>> \o (<<to("ret")>> \o Tail(stack))
    <3>1. Signal \in Frame /\ to("ret") \in Frame /\ Tail(stack) \in Seq(Frame)
      BY <1>3, Parts, NewFrames, Zenon
    <3> QED
      BY <2>1, <3>1, Push2, Zenon
  <2> QED
    BY <1>1, <1>3, <2>1, <2>2, <2>3, SubmitNotices, Zenon
<1>7. CASE CallbackReturns
  <2>1. /\ Return /\ aiocb' = [aiocb EXCEPT ![Top.acb] = Unused]
        /\ UNCHANGED <<first_aio, at, wakeup, async_context, bh>>
    BY <1>7, SMTT(30) DEF CallbackReturns, Released, workers
  <2>2. Top.acb \notin Listed /\ Listed \subseteq Block
    <3>1. Top \in Calls(stack)
      <4>1. stack[1] = Top /\ 1 \in DOMAIN stack
        BY Parts, Split, LenProperties DEF Top
      <4> QED
        BY <1>1, <4>1, Zenon DEF Calls, Range
    <3> QED
      BY <3>1, BlockFacts DEF ServiceInv, Owned
  <2>3. \A a \in Listed : aiocb'[a] = aiocb[a]
    BY <2>1, <2>2, Parts
  <2>4. Finished' \subseteq Finished
    BY <2>1, <2>3 DEF Finished, Listed, Ctx
  <2>5. Woken => Woken'
    BY <2>1 DEF Woken, wakeup
  <2>6. stack' \in Seq(Frame) /\ stack' # <<>> /\ FromHead(stack') /\ stack' = Tail(stack)
    BY <1>1, <2>1, FrameReturns
  <2>7. Top.op \notin {"process_queue", "bdrv_read_em", "paio_cancel"}
    BY <1>1
  <2>8. first_aio' \in Seq(Block)
    BY <2>1, Parts, Zenon
  <2> QED
    BY <2>1, <2>4, <2>5, <2>6, <2>7, <2>8, QuietNotices, ZenonT(30)
<1> QED
  BY <1>4, <1>5, <1>6, <1>7

\* The waits of qemu_aio_wait and qemu_aio_flush.
LEMMA FlushNotices ==
  ASSUME ServiceInv, Noticing, WaitSelects \/ FlushWaits \/ FlushTests
  PROVE  Noticing'
<1>1. /\ UNCHANGED <<lists, at>>
      /\ Top.op \notin {"process_queue", "bdrv_read_em", "paio_cancel", "main_loop"}
  BY Parts DEF WaitSelects, FlushWaits, FlushTests, qemu_aio_wait, workers
<1>2. first_aio' = first_aio /\ first_aio' \in Seq(Block)
  BY <1>1, Parts, Zenon DEF lists
<1>3. Tail(stack) \in Seq(Frame) /\ FromHead(Tail(stack))
  BY Parts, Zenon DEF Noticing
<1>4. ASSUME NEW pc \in {"wait", "test"}
      PROVE  /\ <<Flush(pc)>> \o Tail(stack) \in Seq(Frame)
             /\ <<Flush(pc)>> \o Tail(stack) # <<>>
             /\ FromHead(<<Flush(pc)>> \o Tail(stack))
             /\ Scanned(Tail(stack)) => Scanned(<<Flush(pc)>> \o Tail(stack))
  <2>1. Flush(pc) \in Frame /\ Flush(pc).op \notin {"process_queue", "bdrv_read_em"}
    BY NewFrames
  <2> QED
    BY <1>3, <2>1, PlainPush, Zenon
<1>5. CASE WaitSelects
  <2>1. CASE first_aio = <<>> /\ Return
    <3>1. FromHead(Tail(stack'))
      BY <1>1, <2>1, FrameReturns, NextParts
    <3>2. Finished' = {}
      BY <1>2, <2>1 DEF Finished, Listed, Range
    <3> QED
      BY <3>1, <3>2, Roused
  <2>2. CASE Goto(Process(1))
    BY <1>2, <1>3, <2>2, ScanBegins, Zenon DEF Goto
  <2> QED
    BY <1>5, <2>1, <2>2, Zenon DEF WaitSelects
<1>6. CASE FlushWaits
  BY <1>2, <1>4, <1>6, WaitNotices, Zenon DEF FlushWaits
<1>7. CASE FlushTests
  <2>1. CASE RunBottomHalf(<<Flush("wait")>> \o Tail(stack))
    BY <1>2, <1>4, <2>1, WaitNotices, Zenon
  <2>2. CASE /\ Goto(Flush("wait")) \/ Return
             /\ UNCHANGED <<async, wakeup>>
    <3>1. /\ stack' \in Seq(Frame) /\ stack' # <<>> /\ FromHead(stack')
          /\ Scanned(Tail(stack)) => Scanned(stack')
      <4>1. CASE Goto(Flush("wait"))
        BY <1>4, <4>1, Zenon DEF Goto
      <4>2. CASE Return
        BY <1>1, <4>2, FrameReturns, Zenon
      <4> QED
        BY <2>2, <4>1, <4>2
    <3>2. UNCHANGED <<async_context, bh, wakeup>>
      BY <2>2 DEF async
    <3>3. Finished' \subseteq Finished /\ (Woken => Woken')
      BY <1>1, <3>2, NothingFinishes, Zenon DEF lists
    <3> QED
      BY <1>1, <1>2, <3>1, <3>2, <3>3, QuietNotices
  <2> QED
    BY <1>7, <2>1, <2>2, Zenon DEF FlushTests
<1> QED
  BY <1>5, <1>6, <1>7

\* The steps of the main loop.
LEMMA LoopNotices ==
  ASSUME ServiceInv, Noticing, MainPolls \/ MainSelects
  PROVE  Noticing'
<1>1. /\ UNCHANGED <<lists, at, async_context>>
      /\ Top.op \notin {"process_queue", "bdrv_read_em", "paio_cancel"}
  BY Parts DEF MainPolls, MainSelects, DeviceCode, workers, async
<1>2. first_aio' = first_aio /\ first_aio' \in Seq(Block)
  BY <1>1, Parts, Zenon DEF lists
<1>3. Tail(stack) \in Seq(Frame) /\ FromHead(Tail(stack))
  BY Parts, Zenon DEF Noticing
<1>4. ASSUME NEW pc \in {"run", "bh"}
      PROVE  /\ Loop(pc) \in Frame
             /\ <<Loop(pc)>> \o Tail(stack) \in Seq(Frame)
             /\ <<Loop(pc)>> \o Tail(stack) # <<>>
             /\ FromHead(<<Loop(pc)>> \o Tail(stack))
             /\ Scanned(Tail(stack)) => Scanned(<<Loop(pc)>> \o Tail(stack))
  <2>1. Loop(pc) \in Frame /\ Loop(pc).op \notin {"process_queue", "bdrv_read_em"}
    BY NewFrames
  <2> QED
    BY <1>3, <2>1, PlainPush, Zenon
<1>5. CASE \E pc \in {"run", "bh"} : stack' = <<Process(1), Loop(pc)>> \o Tail(stack)
  <2>1. PICK pc \in {"run", "bh"} : stack' = <<Process(1), Loop(pc)>> \o Tail(stack)
    BY <1>5
  <2>2. Process(1) \in Frame
    BY NewFrames, Zenon
  <2>3. stack' = <<Process(1)>> \o (<<Loop(pc)>> \o Tail(stack))
    BY <1>3, <1>4, <2>1, <2>2, Push2, ZenonT(30)
  <2> QED
    BY <1>2, <1>4, <2>3, ScanBegins, Zenon
<1>6. CASE /\ \E pc \in {"run", "bh"} : Goto(Loop(pc))
           /\ bh[async_context] => bh'[async_context]
           /\ Woken => Woken'
  <2>1. /\ stack' \in Seq(Frame) /\ stack' # <<>> /\ FromHead(stack')
        /\ Scanned(Tail(stack)) => Scanned(stack')
    BY <1>4, <1>6, Zenon DEF Goto
  <2>2. Finished' \subseteq Finished
    BY <1>1 DEF Finished, Listed, Ctx, lists
  <2> QED
    BY <1>1, <1>2, <1>6, <2>1, <2>2, QuietNotices, Zenon
<1>7. CASE MainPolls
  <2>1. CASE bh[async_context]
    BY <1>5, <1>7, <2>1, Zenon DEF MainPolls
  <2>2. CASE ~ bh[async_context]
    <3>1. Woken => Woken'
      BY <1>1, <1>7 DEF MainPolls, Woken, wakeup
    <3> QED
      BY <1>6, <1>7, <2>2, <3>1, Zenon DEF MainPolls
  <2> QED
    BY <2>1, <2>2
<1>8. CASE MainSelects
  <2>1. CASE pipe
    BY <1>5, <1>8, <2>1, Zenon DEF MainSelects
  <2>2. CASE ~ pipe
    <3>1. Woken => Woken'
      BY <1>1, <1>8, <2>2 DEF MainSelects, Woken
    <3>2. bh' = bh
      BY <1>8 DEF MainSelects, async
    <3> QED
      BY <1>6, <1>8, <2>2, <3>1, <3>2, ZenonT(30) DEF MainSelects
  <2> QED
    BY <2>1, <2>2
<1> QED
  BY <1>7, <1>8

\* The devices.
LEMMA DeviceNotices ==
  ASSUME ServiceInv, Noticing, DeviceStep
  PROVE  Noticing'
<1>1. Top.op = "main_loop"
  BY Parts, Zenon DEF DeviceStep, DeviceSubmits, DeviceCancels, DeviceReads, DeviceFlushes,
                      Device, DeviceCode
<1>2. Top \in Frame /\ Tail(stack) \in Seq(Frame) /\ stack = <<Top>> \o Tail(stack)
  BY Parts, Zenon
<1>3. CASE DeviceSubmits
  <2>1. /\ free_aiocb # {} /\ paio_submit(qemu_aio_get, async_context, "device")
        /\ stack' = <<Signal>> \o (<<Top>> \o Tail(stack))
        /\ UNCHANGED <<wakeup, async_context, bh>>
    BY <1>2, <1>3, Zenon DEF DeviceSubmits, CanSubmit, Call, async
  <2> QED
    BY <1>1, <1>2, <2>1, SubmitNotices, Zenon
<1>4. CASE DeviceCancels
  <2>1. PICK a \in Cancellable : paio_cancel(a, Top)
    BY <1>4, Zenon DEF DeviceCancels
  <2>2. a \in Block
    BY BlockFacts, Zenon DEF Cancellable, Listed
  <2>3. UNCHANGED <<workers, wakeup, async>>
    BY <1>4, Zenon DEF DeviceCancels
  <2> QED
    BY <1>1, <1>2, <2>1, <2>2, <2>3, CancelNotices
<1>5. CASE DeviceReads
  <2>1. bdrv_read_em(Top) \/ ReadRefused(Top)
    BY <1>5, Zenon DEF DeviceReads
  <2> QED
    BY <1>1, <1>2, <2>1, SyncNotices, RefusedNotices
<1>6. CASE DeviceFlushes
  <2>1. /\ stack' = <<Flush("wait")>> \o (<<Top>> \o Tail(stack))
        /\ UNCHANGED <<lists, at, wakeup, async_context, bh>>
    BY <1>2, <1>6, Zenon DEF DeviceFlushes, Call, async, workers
  <2>2. /\ Flush("wait") \in Frame
        /\ Flush("wait").op \notin {"process_queue", "bdrv_read_em"}
        /\ Top.op \notin {"process_queue", "bdrv_read_em", "paio_cancel"}
    BY <1>1, NewFrames
  <2>3. /\ stack' \in Seq(Frame) /\ stack' # <<>> /\ FromHead(stack')
        /\ Scanned(Tail(stack)) => Scanned(stack')
    BY <1>2, <2>1, <2>2, FrameChanges, Zenon
  <2>4. Finished' \subseteq Finished /\ (Woken => Woken') /\ first_aio' \in Seq(Block)
    BY <2>1, NothingFinishes, Parts, Zenon DEF lists
  <2> QED
    BY <2>1, <2>2, <2>3, <2>4, QuietNotices
<1> QED
  BY <1>3, <1>4, <1>5, <1>6 DEF DeviceStep

\* Every step.
LEMMA NoticingStep ==
  ASSUME ServiceInv, Noticing, [Next]_vars
  PROVE  Noticing'
<1>1. CASE MainStep
  BY <1>1, SignalNotices, CancelEndsNotices, ScanEndsNotices, ScanPassesNotices,
     ScanCompletesNotices, ReadEmNotices, CallbackNotices, FlushNotices, LoopNotices, Zenon
     DEF MainStep
<1>2. CASE DeviceStep \/ MainSelects
  BY <1>2, DeviceNotices, LoopNotices, Zenon
<1>3. CASE aio_signal_handler
  BY <1>3, HandlerNotices
<1>4. CASE \E t \in Thread :
            \/ ThreadStep(t)
            \/ ThreadWakes(t) /\ UNCHANGED <<wakeup, async, client, stack>>
  BY <1>4, WorkerNotices, Zenon
<1>5. CASE UNCHANGED vars
  <2>1. UNCHANGED <<first_aio, aiocb, async_context, at, wakeup, bh, stack>>
    BY <1>5 DEF vars, lists, workers, async
  <2> QED
    BY <2>1, NothingFinishes, StackStays
<1> QED
  BY <1>1, <1>2, <1>3, <1>4, <1>5, Zenon DEF Next

\* Nothing is listed at first.
LEMMA NoticingInit ==
  ASSUME Init
  PROVE  Noticing
<1>1. Tail(stack) = <<>> /\ DOMAIN first_aio = {}
  BY DEF Init
<1>2. FromHead(<<>>)
  BY DEF FromHead
<1> QED
  BY <1>1, <1>2, Zenon DEF Noticing

\* A scan with no synchronous read above it is in the current context.
LEMMA ScanInContext ==
  ASSUME ServiceInv, NEW k \in DOMAIN stack,
         \A j \in 1..k : stack[j].op # "bdrv_read_em"
  PROVE  Cardinality(ReadsAround(k)) = async_context
<1>1. DOMAIN stack = 1..Len(stack) /\ Len(stack) \in Nat
  BY Parts, LenProperties
<1>2. ReadsAround(k) = Reads(stack)
  BY <1>1 DEF ReadsAround, Reads
<1>3. Cardinality(Reads(stack)) = async_context
  BY SMTT(30) DEF ServiceInv, PoolInv, StackOK, Depth
<1> QED
  BY <1>2, <1>3

LEMMA NoticingMeans ==
  ASSUME ServiceInv, Noticing
  PROVE  CompletionIsNoticed
<1> SUFFICES ASSUME NEW i \in DOMAIN first_aio, aiocb[first_aio[i]].ret # "EINPROGRESS"
             PROVE  \/ sigusr2 \/ pipe \/ \E t \in Thread : at[t] = "kill"
                    \/ ScanWillReach(i)
                    \/ aiocb[first_aio[i]].context < async_context
                    \/ bh[aiocb[first_aio[i]].context]
                    \/ In("paio_cancel") /\ Top.acb = first_aio[i]
  BY Zenon DEF CompletionIsNoticed
<1>1. PICK a \in Listed : a = first_aio[i]
  BY Zenon DEF Listed, Range
<1>2. /\ aiocb[a].context \in Nat /\ async_context \in Nat
      /\ aiocb[a].context <= async_context
  <2>1. Ctx(a) <= async_context
    BY Zenon DEF ServiceInv, Chains
  <2>2. Ctx(a) \in Nat
    BY BlockFacts, Zenon
  <2>3. async_context \in Context
    BY Parts, Zenon
  <2>4. async_context \in Nat
    BY <2>3, PoolAssumption DEF Context
  <2> QED
    BY <2>1, <2>2, <2>4, Zenon DEF Ctx
<1>3. CASE aiocb[a].context < async_context
  BY <1>1, <1>3, Zenon
<1>4. CASE ~(aiocb[a].context < async_context)
  <2>1. aiocb[a].context = async_context
    BY <1>2, <1>4
  <2>2. a \in Finished
    BY <1>1, <2>1, Zenon DEF Finished, Ctx
  <2>3. Woken \/ bh[async_context] \/ Seen(i)
    BY <1>1, <2>2, Zenon DEF Noticing
  <2>4. DOMAIN stack = 1..Len(stack) /\ i \in Nat \ {0} /\ 1 \in DOMAIN stack /\ stack[1] = Top
    BY Parts, LenProperties, Split DEF Top
  <2>5. ASSUME NEW k \in DOMAIN stack, stack[k].op = "process_queue", stack[k].pos <= i,
               \A j \in 1..k : stack[j].op # "bdrv_read_em"
        PROVE  ScanWillReach(i)
    BY <1>1, <2>1, <2>5, ScanInContext, Zenon DEF ScanWillReach
  <2>6. ASSUME Top.op # "bdrv_read_em", Scanned(Tail(stack))
        PROVE  ScanWillReach(i)
    <3>1. PICK k \in 1..Len(Tail(stack)) :
            /\ Tail(stack)[k].op = "process_queue"
            /\ \A j \in 1..k : Tail(stack)[j].op # "bdrv_read_em"
      BY <2>6, Zenon DEF Scanned
    <3>2. Tail(stack)[k].pos = 1
      BY <3>1, Zenon DEF Noticing, FromHead
    <3>3. /\ Len(Tail(stack)) = Len(stack) - 1 /\ Len(stack) \in Nat
          /\ \A j \in 1..Len(Tail(stack)) : Tail(stack)[j] = stack[j + 1]
      BY Parts, Split
    <3>4. k + 1 \in DOMAIN stack /\ stack[k + 1].op = "process_queue" /\ stack[k + 1].pos = 1
      BY <2>4, <3>1, <3>2, <3>3
    <3>5. ASSUME NEW j \in 1..(k + 1)
          PROVE  stack[j].op # "bdrv_read_em"
      <4>1. CASE j = 1
        BY <2>4, <2>6, <4>1
      <4>2. CASE j # 1
        <5>1. j - 1 \in 1..k /\ j - 1 \in 1..Len(Tail(stack)) /\ (j - 1) + 1 = j
          BY <3>3, <4>2
        <5> QED
          BY <3>1, <3>3, <5>1
      <4> QED
        BY <4>1, <4>2
    <3>6. stack[k + 1].pos <= i
      BY <2>4, <3>4
    <3> QED
      BY <2>5, <3>4, <3>5, <3>6
  <2>7. ASSUME Top.op = "process_queue", Top.pos <= i
        PROVE  ScanWillReach(i)
    <3>1. \A j \in 1..1 : stack[j].op # "bdrv_read_em"
      BY <2>4, <2>7
    <3> QED
      BY <2>4, <2>5, <2>7, <3>1, Zenon
  <2>8. Top.op = "paio_cancel" => In("paio_cancel")
    BY Parts, Zenon
  <2> QED
    BY <1>1, <2>1, <2>3, <2>6, <2>7, <2>8, ZenonT(30) DEF Woken, Seen
<1> QED
  BY <1>3, <1>4
=============================================================================

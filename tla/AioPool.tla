------------------------------ MODULE AioPool ------------------------------
(***************************************************************************)
(* Asynchronous disk I/O of the emulator: the thread pool of               *)
(* posix-aio-compat.c, the wait of aio-android.c, the contexts and bottom  *)
(* halves of async.c, and the synchronous read of block.c built on them.   *)
(*                                                                         *)
(* The main thread queues requests; worker threads take them, do the I/O,  *)
(* and send the process a signal whose handler writes a byte into a pipe.  *)
(* The main thread reads the pipe and calls the callbacks.  A step of the  *)
(* model is a critical section of "lock" together with the accesses of the *)
(* main thread to what no other thread reads.  The control of the main     *)
(* thread is a stack of the functions it is in, the innermost first.       *)
(***************************************************************************)
EXTENDS Sequences, FiniteSets, Functions

CONSTANTS
    Block,         \* control blocks (struct qemu_paiocb) in memory
    Thread,        \* worker threads
    NoBlock,       \* not a block
    max_threads,
    Workloads,     \* what the devices of a machine do: see Workload
    MaxContext,    \* bound: depth of synchronous reads within callbacks
    MaxFollowUps   \* bound: requests callbacks issue in a round of main_loop

\* Device code submits, cancels, reads synchronously or flushes; a callback
\* reads, cancels another request or issues a follow-up request.  A synchronous
\* read may be refused.
Operation == {"submit", "cancel", "read", "flush", "refused read",
              "callback reads", "callback cancels", "callback follows up"}

\* The operations they use together, and a bound on their requests in flight.
Workload == [ops : SUBSET Operation, requests : Nat]

ASSUME PoolAssumption ==
    /\ NoBlock \notin Block
    /\ IsFiniteSet(Block)
    /\ IsFiniteSet(Thread)
    /\ max_threads \in 1..Cardinality(Thread)
    /\ Workloads \subseteq Workload
    /\ \A w \in Workloads : w.requests + MaxFollowUps <= Cardinality(Block)
    /\ MaxContext \in Nat
    /\ MaxFollowUps \in Nat

\* The list s without its i-th element.
RemoveAt(s, i) == SubSeq(s, 1, i - 1) \o SubSeq(s, i + 1, Len(s))

VARIABLES
    request_list,  \* requests no thread has taken, the oldest first
    cur_threads,
    idle_threads,
    at,            \* at[t]: where worker t is
    job,           \* job[t]: the block worker t does the I/O for
    aiocb,         \* the fields of each block
    free_aiocb,    \* blocks of the pool's free list or not yet allocated
    first_aio,     \* the main thread's list, the newest first
    async_context, \* id of the active AsyncContext
    bh,            \* bh[c]: bh_run_aio_completions is scheduled in context c
    followups,     \* requests issued by callbacks in this round of main_loop
    async_ret,     \* async_ret[c]: the read running in context c is done
    sigusr2,       \* SIGUSR2 is pending
    pipe,          \* the pipe holds a byte
    stack,         \* what the main thread is in
    workload       \* what the devices of this machine do

lists   == <<request_list, first_aio, free_aiocb, aiocb>>
workers == <<cur_threads, idle_threads, at, job>>
wakeup  == <<sigusr2, pipe>>
async   == <<async_context, bh, async_ret>>
client  == <<followups, workload>>
vars    == <<lists, workers, wakeup, async, client, stack>>

\* at[t]: not created; before mutex_lock; in cond_timedwait; returned from it
\* with ETIMEDOUT; doing the I/O; before kill.
WorkerAt == {"none", "lock", "wait", "timedout", "io", "kill"}
Alive    == {t \in Thread : at[t] # "none"}

Context  == 0..MaxContext
Request  == [ret : {"EINPROGRESS", "ECANCELED", "done"}, active : BOOLEAN,
             context : Context, cb : {"device", "bdrv_rw_em_cb"}]

\* The contents of a free block are never read.
Unused == [ret |-> "done", active |-> FALSE, context |-> 0, cb |-> "device"]

-----------------------------------------------------------------------------
(* Frames of the main thread's stack. *)

Loop(pc)       == [op |-> "main_loop", pc |-> pc]
Signal         == [op |-> "cond_signal"]
Cancel(a)      == [op |-> "paio_cancel", acb |-> a]
Process(pos)   == [op |-> "process_queue", pos |-> pos, result |-> FALSE]
Callback(a)    == [op |-> "callback", acb |-> a, pc |-> "body"]
Wait(pc)       == [op |-> "aio_wait", pc |-> pc]
ReadEm         == [op |-> "bdrv_read_em"]
Flush(pc)      == [op |-> "aio_flush", pc |-> pc]

Top     == Head(stack)
In(op)  == stack # <<>> /\ Top.op = op

Goto(f) == stack' = <<f>> \o Tail(stack)
Call(f) == stack' = <<f>> \o stack
Return  == stack' = Tail(stack)

\* Blocks whose callback is running.
Called == {f.acb : f \in {g \in Range(stack) : g.op = "callback"}}

Init ==
    /\ request_list = <<>>
    /\ first_aio = <<>>
    /\ free_aiocb = Block
    /\ aiocb = [a \in Block |-> Unused]
    /\ cur_threads = 0
    /\ idle_threads = 0
    /\ at = [t \in Thread |-> "none"]
    /\ job = [t \in Thread |-> NoBlock]
    /\ async_context = 0
    /\ bh = [c \in Context |-> FALSE]
    /\ followups = 0
    /\ workload \in Workloads
    /\ async_ret = [c \in Context |-> FALSE]
    /\ sigusr2 = FALSE
    /\ pipe = FALSE
    /\ stack = <<Loop("run")>>

-----------------------------------------------------------------------------
(* Worker threads: aio_thread. *)

\* The first request leaves the list and becomes active.
TakeRequest(t) ==
    /\ request_list # <<>>
    /\ request_list' = Tail(request_list)
    /\ aiocb' = [aiocb EXCEPT ![Head(request_list)].active = TRUE]
    /\ idle_threads' = idle_threads - 1
    /\ at' = [at EXCEPT ![t] = "io"]
    /\ job' = [job EXCEPT ![t] = Head(request_list)]
    /\ UNCHANGED <<cur_threads, first_aio, free_aiocb>>

\* With the lock, at the top of the loop or back from cond_timedwait.
ThreadTakes(t) == at[t] \in {"lock", "timedout"} /\ TakeRequest(t)

ThreadWaits(t) ==
    /\ at[t] = "lock"
    /\ request_list = <<>>
    /\ at' = [at EXCEPT ![t] = "wait"]
    /\ UNCHANGED <<lists, cur_threads, idle_threads, job>>

\* Ten seconds have passed, or the wait ends for no reason.
ThreadWakes(t) ==
    /\ at[t] = "wait"
    /\ \E pc \in {"timedout", "lock"} : at' = [at EXCEPT ![t] = pc]
    /\ UNCHANGED <<lists, cur_threads, idle_threads, job>>

\* Mutant: the list is not looked at again after the time-out.
ThreadExits_NoRecheck(t) ==
    /\ at[t] = "timedout"
    /\ idle_threads' = idle_threads - 1
    /\ cur_threads' = cur_threads - 1
    /\ at' = [at EXCEPT ![t] = "none"]
    /\ UNCHANGED <<lists, job>>

\* Mutant: an exiting thread still counts as idle.
ThreadExits_StaysIdle(t) ==
    /\ at[t] = "timedout"
    /\ request_list = <<>>
    /\ cur_threads' = cur_threads - 1
    /\ at' = [at EXCEPT ![t] = "none"]
    /\ UNCHANGED <<lists, job, idle_threads>>

ThreadExits(t) ==
    /\ at[t] = "timedout"
    /\ request_list = <<>>
    /\ idle_threads' = idle_threads - 1
    /\ cur_threads' = cur_threads - 1
    /\ at' = [at EXCEPT ![t] = "none"]
    /\ UNCHANGED <<lists, job>>

\* The I/O is done and its result stored.
ThreadCompletes(t) ==
    /\ at[t] = "io"
    /\ aiocb' = [aiocb EXCEPT ![job[t]].ret = "done"]
    /\ idle_threads' = idle_threads + 1
    /\ at' = [at EXCEPT ![t] = "kill"]
    /\ job' = [job EXCEPT ![t] = NoBlock]
    /\ UNCHANGED <<request_list, first_aio, free_aiocb, cur_threads>>

\* After the unlock; ev_signo is SIGUSR2 in every block of the pool.
ThreadKills(t) ==
    /\ at[t] = "kill"
    /\ sigusr2' = TRUE
    /\ at' = [at EXCEPT ![t] = "lock"]
    /\ UNCHANGED <<lists, cur_threads, idle_threads, job, pipe>>

ThreadStep(t) ==
    \/ /\ ThreadTakes(t) \/ ThreadWaits(t) \/ ThreadExits(t) \/ ThreadCompletes(t)
       /\ UNCHANGED <<wakeup, async, client, stack>>
    \/ ThreadKills(t) /\ UNCHANGED <<async, client, stack>>

\* The handler runs in the main thread, between any two of its steps.  A full
\* pipe (EAGAIN) already holds a byte.
aio_signal_handler ==
    /\ sigusr2
    /\ sigusr2' = FALSE
    /\ pipe' = TRUE
    /\ UNCHANGED <<lists, workers, async, client, stack>>

-----------------------------------------------------------------------------
(* Submitting and cancelling. *)

\* Mutant: a new thread does not count as idle.
spawn_thread_NotIdle ==
    /\ cur_threads' = cur_threads + 1
    /\ at' = [at EXCEPT ![CHOOSE t \in Thread \ Alive : TRUE] = "lock"]
    /\ UNCHANGED <<job, idle_threads>>

spawn_thread ==
    /\ cur_threads' = cur_threads + 1
    /\ idle_threads' = idle_threads + 1
    /\ at' = [at EXCEPT ![CHOOSE t \in Thread \ Alive : TRUE] = "lock"]
    /\ UNCHANGED job

\* paio_submit or paio_ioctl up to the unlock in qemu_paio_submit; cond_signal
\* is a frame of its own.
paio_submit(a, c, cb) ==
    /\ free_aiocb' = free_aiocb \ {a}
    /\ aiocb' = [aiocb EXCEPT ![a] =
                    [ret |-> "EINPROGRESS", active |-> FALSE, context |-> c,
                     cb |-> cb]]
    /\ first_aio' = <<a>> \o first_aio
    /\ request_list' = Append(request_list, a)
    /\ IF idle_threads = 0 /\ cur_threads < max_threads
       THEN spawn_thread
       ELSE UNCHANGED workers

\* Mutant: nobody is woken.
cond_signal_Lost ==
    /\ In("cond_signal")
    /\ Return
    /\ UNCHANGED <<lists, workers, wakeup, async, client>>

cond_signal ==
    /\ In("cond_signal")
    /\ Return
    /\ IF \E t \in Thread : at[t] = "wait"
       THEN \E t \in Thread : at[t] = "wait" /\ at' = [at EXCEPT ![t] = "lock"]
       ELSE UNCHANGED at
    /\ UNCHANGED <<lists, cur_threads, idle_threads, job, wakeup, async, client>>

\* qemu_aio_get: which of the free blocks it takes makes no difference.
qemu_aio_get == CHOOSE a \in free_aiocb : TRUE

\* The bound on requests leaves blocks for the follow-ups.
CanSubmit ==
    /\ free_aiocb # {}
    /\ Cardinality(Block \ free_aiocb) < workload.requests

\* qemu_aio_release: back to the free list.
qemu_aio_release(a) == free_aiocb' = free_aiocb \cup {a}
Released(a) == [aiocb EXCEPT ![a] = Unused]

\* Device code runs, called from the main loop.
DeviceCode  == In("main_loop") /\ Top.pc = "run"
Device(op)  == DeviceCode /\ op \in workload.ops

DeviceSubmits ==
    /\ Device("submit")
    /\ CanSubmit
    /\ paio_submit(qemu_aio_get, async_context, "device")
    /\ Call(Signal)
    /\ UNCHANGED <<wakeup, async, client>>

\* The unlinking of the block, and its release.
paio_remove(a) ==
    /\ \E i \in DOMAIN first_aio :
            first_aio[i] = a /\ first_aio' = RemoveAt(first_aio, i)
    /\ qemu_aio_release(a)
    /\ aiocb' = Released(a)

\* Mutant: an active request is not waited for.
paio_cancel_NoWait(a, caller) ==
    /\ \/ /\ ~ aiocb[a].active
          /\ \E i \in DOMAIN request_list :
                request_list[i] = a /\ request_list' = RemoveAt(request_list, i)
       \/ aiocb[a].active /\ UNCHANGED request_list
    /\ paio_remove(a)
    /\ Goto(caller)

\* The first critical section of paio_cancel.  A request that no thread has
\* taken, or whose I/O is done, is removed at once.
paio_cancel(a, caller) ==
    \/ /\ ~ aiocb[a].active
       /\ \E i \in DOMAIN request_list :
            request_list[i] = a /\ request_list' = RemoveAt(request_list, i)
       /\ paio_remove(a)
       /\ Goto(caller)
    \/ /\ aiocb[a].active /\ aiocb[a].ret # "EINPROGRESS"
       /\ paio_remove(a)
       /\ Goto(caller)
       /\ UNCHANGED request_list
    \/ /\ aiocb[a].active /\ aiocb[a].ret = "EINPROGRESS"
       /\ stack' = <<Cancel(a), caller>> \o Tail(stack)
       /\ UNCHANGED lists

\* A device cancels requests of its own whose callback has not been called.
Cancellable == {a \in Range(first_aio) : aiocb[a].cb = "device"}

DeviceCancels ==
    /\ Device("cancel")
    /\ \E a \in Cancellable : paio_cancel(a, Top)
    /\ UNCHANGED <<workers, wakeup, async, client>>

\* The busy wait of paio_cancel ends.
CancelEnds ==
    /\ In("paio_cancel")
    /\ aiocb[Top.acb].ret # "EINPROGRESS"
    /\ paio_remove(Top.acb)
    /\ Return
    /\ UNCHANGED <<request_list, workers, wakeup, async, client>>

-----------------------------------------------------------------------------
(* Completions: posix_aio_process_queue. *)

\* Mutant: the context of a request is not looked at.
InContext_Any(a) == TRUE

InContext(a) == aiocb[a].context = async_context

\* The end of the list.  qemu_aio_wait goes on to select() only if nothing was
\* completed.
ScanEnds ==
    /\ In("process_queue")
    /\ Top.pos > Len(first_aio)
    /\ LET rest == Tail(stack) IN
       IF Head(rest).op = "aio_wait"
       THEN stack' = IF Top.result THEN Tail(rest)
                                   ELSE <<Wait("select")>> \o Tail(rest)
       ELSE stack' = rest
    /\ UNCHANGED <<lists, workers, wakeup, async, client>>

ScanPasses ==
    /\ In("process_queue")
    /\ Top.pos <= Len(first_aio)
    /\ LET a == first_aio[Top.pos] IN ~ InContext(a) \/ aiocb[a].ret = "EINPROGRESS"
    /\ Goto([Top EXCEPT !.pos = @ + 1])
    /\ UNCHANGED <<lists, workers, wakeup, async, client>>

\* A finished request is unlinked and its callback called; the scan then starts
\* from the head again.
ScanCompletes ==
    /\ In("process_queue")
    /\ Top.pos <= Len(first_aio)
    /\ LET a == first_aio[Top.pos] IN
       /\ InContext(a)
       /\ aiocb[a].ret # "EINPROGRESS"
       /\ first_aio' = RemoveAt(first_aio, Top.pos)
       /\ IF aiocb[a].ret = "ECANCELED"
          THEN /\ qemu_aio_release(a)
               /\ aiocb' = Released(a)
               /\ Goto([Top EXCEPT !.result = TRUE])
          ELSE /\ UNCHANGED <<free_aiocb, aiocb>>
               /\ stack' = <<Callback(a), [Top EXCEPT !.pos = 1, !.result = TRUE]>>
                               \o Tail(stack)
    /\ UNCHANGED <<request_list, workers, wakeup, async, client>>

\* bh_run_aio_completions: the bottom half of context c is no longer scheduled
\* and the queue is processed, with "next" the stack to return to.
RunBottomHalf(next) ==
    /\ bh[async_context]
    /\ bh' = [bh EXCEPT ![async_context] = FALSE]
    /\ stack' = <<Process(1)>> \o next
    /\ UNCHANGED <<async_context, async_ret, client>>

\* qemu_aio_wait: bottom halves first; if none ran, the queue.  If that completes
\* nothing, WaitSelects follows.
qemu_aio_wait(caller) ==
    /\ \/ RunBottomHalf(caller)
       \/ /\ ~ bh[async_context]
          /\ stack' = <<Process(1), Wait("queue")>> \o caller
          /\ UNCHANGED <<async, client>>
    /\ UNCHANGED <<lists, workers, wakeup>>

-----------------------------------------------------------------------------
(* Synchronous reads and writes: bdrv_read_em, bdrv_write_em. *)

bdrv_read_em(caller) ==
    /\ async_context < MaxContext
    /\ CanSubmit
    /\ async_context' = async_context + 1
    /\ async_ret' = [async_ret EXCEPT ![async_context + 1] = FALSE]
    /\ paio_submit(qemu_aio_get, async_context + 1, "bdrv_rw_em_cb")
    /\ stack' = <<Signal, ReadEm, caller>> \o Tail(stack)
    /\ UNCHANGED <<wakeup, bh, client>>

\* bdrv_aio_readv refuses (no medium, a bad sector): the context is pushed and
\* popped.
ReadRefused(caller) ==
    /\ bh' = [bh EXCEPT ![async_context] = TRUE]
    /\ Goto(caller)
    /\ UNCHANGED <<lists, workers, wakeup, async_context, async_ret, client>>

DeviceReads ==
    \/ Device("read") /\ bdrv_read_em(Top)
    \/ Device("refused read") /\ ReadRefused(Top)

ReadWaits ==
    /\ In("bdrv_read_em")
    /\ ~ async_ret[async_context]
    /\ qemu_aio_wait(stack)

\* Mutant: no bottom half is left in the parent.
async_context_pop_NoBh ==
    /\ In("bdrv_read_em")
    /\ async_ret[async_context]
    /\ \/ RunBottomHalf(stack)
       \/ /\ ~ bh[async_context]
          /\ async_context' = async_context - 1
          /\ async_ret' = [async_ret EXCEPT ![async_context] = FALSE]
          /\ Return
          /\ UNCHANGED <<bh, client>>
    /\ UNCHANGED <<lists, workers, wakeup>>

\* async_context_pop: first the bottom halves of the old context, then the
\* switch, then a bottom half in the parent.
async_context_pop ==
    /\ In("bdrv_read_em")
    /\ async_ret[async_context]
    /\ \/ RunBottomHalf(stack)
       \/ /\ ~ bh[async_context]
          /\ async_context' = async_context - 1
          /\ bh' = [bh EXCEPT ![async_context - 1] = TRUE]
          /\ async_ret' = [async_ret EXCEPT ![async_context] = FALSE]
          /\ Return
          /\ UNCHANGED client
    /\ UNCHANGED <<lists, workers, wakeup>>

-----------------------------------------------------------------------------
(* Callbacks.  A callback may read synchronously, cancel another request,   *)
(* and issue a follow-up request (dma-helpers.c, qcow2.c).  For a read,     *)
(* bdrv_rw_em_cb is called once there is no follow-up.                      *)

InCallback(op) == In("callback") /\ Top.pc = "body" /\ op \in workload.ops

CallbackReads ==
    LET caller == [Top EXCEPT !.pc = "tail"] IN
    \/ InCallback("callback reads") /\ bdrv_read_em(caller)
    \/ InCallback("refused read") /\ ReadRefused(caller)

CallbackCancels ==
    /\ InCallback("callback cancels")
    /\ aiocb[Top.acb].cb = "device"
    /\ \E a \in Cancellable : paio_cancel(a, [Top EXCEPT !.pc = "tail"])
    /\ UNCHANGED <<workers, wakeup, async, client>>

CallbackFollowsUp ==
    /\ In("callback")
    /\ Top.pc # "ret"
    /\ "callback follows up" \in workload.ops
    /\ free_aiocb # {}
    /\ followups < MaxFollowUps
    /\ followups' = followups + 1
    /\ paio_submit(qemu_aio_get, async_context, aiocb[Top.acb].cb)
    /\ stack' = <<Signal, [Top EXCEPT !.pc = "ret"]>> \o Tail(stack)
    /\ UNCHANGED <<wakeup, async, workload>>

\* Mutant: the read is done though a follow-up request is not.
CallbackReturns_Early ==
    /\ In("callback")
    /\ async_ret' = IF aiocb[Top.acb].cb = "bdrv_rw_em_cb"
                    THEN [async_ret EXCEPT ![async_context] = TRUE]
                    ELSE async_ret
    /\ qemu_aio_release(Top.acb)
    /\ aiocb' = Released(Top.acb)
    /\ Return
    /\ UNCHANGED <<request_list, first_aio, workers, wakeup, async_context, bh,
                   client>>

\* The callback returns and posix_aio_process_queue releases the block.
CallbackReturns ==
    /\ In("callback")
    /\ async_ret' = IF aiocb[Top.acb].cb = "bdrv_rw_em_cb" /\ Top.pc # "ret"
                    THEN [async_ret EXCEPT ![async_context] = TRUE]
                    ELSE async_ret
    /\ qemu_aio_release(Top.acb)
    /\ aiocb' = Released(Top.acb)
    /\ Return
    /\ UNCHANGED <<request_list, first_aio, workers, wakeup, async_context, bh,
                   client>>

-----------------------------------------------------------------------------
(* qemu_aio_wait, qemu_aio_flush and the main loop. *)

\* select() on the pipe, and posix_aio_read; with no request there is no
\* descriptor to wait for.
WaitSelects ==
    /\ In("aio_wait") /\ Top.pc = "select"
    /\ \/ /\ first_aio = <<>>
          /\ Return
          /\ UNCHANGED wakeup
       \/ /\ first_aio # <<>>
          /\ pipe
          /\ pipe' = FALSE
          /\ Goto(Process(1))
          /\ UNCHANGED sigusr2
    /\ UNCHANGED <<lists, workers, async, client>>

DeviceFlushes ==
    /\ Device("flush")
    /\ Call(Flush("wait"))
    /\ UNCHANGED <<lists, workers, wakeup, async, client>>

FlushWaits ==
    /\ In("aio_flush") /\ Top.pc = "wait"
    /\ qemu_aio_wait(<<Flush("test")>> \o Tail(stack))

\* Mutant: the test of posix_aio_flush inverted.
FlushTests_Inverted ==
    /\ In("aio_flush") /\ Top.pc = "test"
    /\ \/ RunBottomHalf(<<Flush("wait")>> \o Tail(stack))
       \/ /\ ~ bh[async_context]
          /\ IF first_aio = <<>> THEN Goto(Flush("wait")) ELSE Return
          /\ UNCHANGED <<async, client>>
    /\ UNCHANGED <<lists, workers, wakeup>>

FlushTests ==
    /\ In("aio_flush") /\ Top.pc = "test"
    /\ \/ RunBottomHalf(<<Flush("wait")>> \o Tail(stack))
       \/ /\ ~ bh[async_context]
          /\ IF first_aio # <<>> THEN Goto(Flush("wait")) ELSE Return
          /\ UNCHANGED <<async, client>>
    /\ UNCHANGED <<lists, workers, wakeup>>

\* main_loop_wait: select(), posix_aio_read if the pipe is readable ...
MainSelects ==
    /\ DeviceCode
    /\ IF pipe
       THEN stack' = <<Process(1), Loop("bh")>> \o Tail(stack)
       ELSE Goto(Loop("bh"))
    /\ pipe' = FALSE
    /\ UNCHANGED <<lists, workers, sigusr2, async, client>>

\* ... and the bottom halves.
MainPolls ==
    /\ In("main_loop") /\ Top.pc = "bh"
    /\ IF bh[async_context]
       THEN stack' = <<Process(1), Loop("run")>> \o Tail(stack)
       ELSE Goto(Loop("run"))
    /\ bh' = [bh EXCEPT ![async_context] = FALSE]
    /\ followups' = 0
    /\ UNCHANGED <<lists, workers, wakeup, async_context, async_ret, workload>>

\* Steps the main thread takes once it has begun an operation.
MainStep ==
    \/ cond_signal \/ CancelEnds
    \/ ScanEnds \/ ScanPasses \/ ScanCompletes
    \/ ReadWaits \/ async_context_pop
    \/ CallbackReads \/ CallbackCancels \/ CallbackFollowsUp \/ CallbackReturns
    \/ WaitSelects \/ FlushWaits \/ FlushTests \/ MainPolls

DeviceStep == DeviceSubmits \/ DeviceCancels \/ DeviceReads \/ DeviceFlushes

Next ==
    \/ \E t \in Thread :
        \/ ThreadStep(t)
        \/ ThreadWakes(t) /\ UNCHANGED <<wakeup, async, client, stack>>
    \/ aio_signal_handler
    \/ MainStep \/ DeviceStep \/ MainSelects

\* Workers and I/O go on, a pending signal is delivered, and the main thread
\* neither stops within an operation nor stays in device code for ever: guest
\* code is left at the next timer (tcg_cpu_exec) and main_loop_wait called.
Fairness ==
    /\ \A t \in Thread : WF_vars(ThreadStep(t))
    /\ WF_vars(aio_signal_handler)
    /\ WF_vars(MainStep)
    /\ SF_vars(MainSelects)

Spec     == Init /\ [][Next]_vars
FairSpec == Spec /\ Fairness

-----------------------------------------------------------------------------
(* Properties. *)

Frame ==
    [op : {"main_loop"}, pc : {"run", "bh"}]
        \cup [op : {"cond_signal", "bdrv_read_em"}]
        \cup [op : {"paio_cancel"}, acb : Block]
        \cup [op : {"process_queue"}, pos : Nat \ {0}, result : BOOLEAN]
        \cup [op : {"callback"}, acb : Block, pc : {"body", "tail", "ret"}]
        \cup [op : {"aio_wait"}, pc : {"queue", "select"}]
        \cup [op : {"aio_flush"}, pc : {"wait", "test"}]

\* Type invariant of the pool.
AioTypeOK ==
    /\ request_list \in Seq(Block)
    /\ first_aio \in Seq(Block)
    /\ free_aiocb \subseteq Block
    /\ aiocb \in [Block -> Request]
    /\ cur_threads \in Nat
    /\ idle_threads \in Nat
    /\ at \in [Thread -> WorkerAt]
    /\ job \in [Thread -> Block \cup {NoBlock}]
    /\ async_context \in Context
    /\ bh \in [Context -> BOOLEAN]
    /\ async_ret \in [Context -> BOOLEAN]
    /\ followups \in 0..MaxFollowUps
    /\ workload \in Workloads
    /\ sigusr2 \in BOOLEAN
    /\ pipe \in BOOLEAN
    /\ stack \in Seq(Frame) /\ stack # <<>>

\* The two counters of the pool, kept by spawn_thread and aio_thread under the
\* lock, are the threads that exist and the threads without a request, however
\* the exits of idle threads interleave with submissions; and the limit holds.
CountersMatch ==
    /\ cur_threads = Cardinality(Alive)
    /\ idle_threads = Cardinality({t \in Alive : at[t] # "io"})
    /\ cur_threads <= max_threads

\* A queued request is never stranded: if the list is not empty, a thread is on
\* its way to look at it, or all sleep and qemu_paio_submit has yet to signal.
\* A thread that times out as a request is queued must look again.
NoRequestStranded ==
    request_list # <<>> =>
        \/ \E t \in Alive : at[t] # "wait"
        \/ In("cond_signal") /\ Alive # {}

NoDuplicates(s) == \A i, j \in DOMAIN s : s[i] = s[j] => i = j

\* Each block has one owner.  It is free, or on the main thread's list, or its
\* callback is running.  A queued block or one a worker does the I/O for is on
\* the list, so that no worker writes to a block that was released, and no
\* block is done by two workers.
OneOwner ==
    /\ NoDuplicates(first_aio)
    /\ NoDuplicates(request_list)
    /\ Block = free_aiocb \cup Range(first_aio) \cup Called
    /\ free_aiocb \cap (Range(first_aio) \cup Called) = {}
    /\ Range(first_aio) \cap Called = {}
    /\ Range(request_list) \subseteq Range(first_aio)
    /\ \A a \in Range(first_aio) :
        /\ a \in Range(request_list) <=> ~ aiocb[a].active
        /\ Cardinality({t \in Thread : job[t] = a})
              = IF aiocb[a].active /\ aiocb[a].ret = "EINPROGRESS" THEN 1 ELSE 0
    /\ \A t \in Thread :
        IF at[t] = "io" THEN job[t] \in Range(first_aio) ELSE job[t] = NoBlock

\* The synchronous operations within which frame i of the stack runs.
ReadsAround(i) == {j \in DOMAIN stack : j > i /\ stack[j].op = "bdrv_read_em"}

\* "Callbacks must only be run if they belong to the current AsyncContext"
\* (async.c): a callback runs within just those synchronous reads within which
\* its request was submitted.
ContextsIsolate ==
    \A i \in DOMAIN stack : stack[i].op = "callback" =>
        aiocb[stack[i].acb].context = Cardinality(ReadsAround(i))

\* A scan in progress will still come to first_aio[i].
ScanWillReach(i) ==
    \E k \in DOMAIN stack :
        /\ stack[k].op = "process_queue"
        /\ stack[k].pos <= i
        /\ Cardinality(ReadsAround(k)) = aiocb[first_aio[i]].context

\* A completion is never lost.  If the I/O of a listed request is done, then a
\* signal for it is about to be sent, is pending or is in the pipe, or a scan is
\* on its way, or the bottom half that async_context_pop leaves for requests
\* seen in the wrong context is scheduled or will be.
CompletionIsNoticed ==
    \A i \in DOMAIN first_aio :
        LET a == first_aio[i] IN
        aiocb[a].ret # "EINPROGRESS" =>
            \/ sigusr2 \/ pipe \/ \E t \in Thread : at[t] = "kill"
            \/ ScanWillReach(i)
            \/ aiocb[a].context < async_context
            \/ bh[aiocb[a].context]
            \/ In("paio_cancel") /\ Top.acb = a

\* The pool implements the service its clients see.
Service == INSTANCE AioService WITH
    pending <- Range(first_aio),
    running <- Called,
    level   <- async_context,
    lev     <- [a \in Block |-> aiocb[a].context]
ServiceSafe == Service!Safety

\* Every request ends: its callback is called or it is cancelled.
RequestsEnd ==
    \A a \in Block : a \in Range(first_aio) ~> a \notin Range(first_aio)

\* The main thread always gets back to device code: the busy wait of
\* paio_cancel, the wait of a synchronous read and qemu_aio_flush all end.
MainReturns == []<>DeviceCode
=============================================================================

----------------------------- MODULE AioProofs ------------------------------
(***************************************************************************)
(* The thread pool for every number of threads, control blocks and nested  *)
(* contexts: its counters are right, no request is stranded, each block    *)
(* has one owner, and its clients see the service of AioService.           *)
(***************************************************************************)
EXTENDS AioPoolProofs, AioMainProofs, FiniteSetTheorems

-----------------------------------------------------------------------------
(* The remaining steps of the main thread. *)

\* The queue is to be processed, over the function that asked for it.
LEMMA ProcessServes ==
  ASSUME ServiceInv, PoolInv', NEW s, GoesOn(s), Head(s).op \notin Leaf \cup {"callback"},
         stack' = <<Process(1)>> \o s,
         UNCHANGED <<lists, workers, async_context, async_ret>>
  PROVE  ServiceInv' /\ ServiceStep
<1>1. Process(1) \in Frame /\ Process(1).op = "process_queue"
  BY NewFrames
<1>2. Fits(Process(1), Head(s))
  BY <1>1 DEF Fits
<1>3. GoesOn(stack') /\ Head(stack') = Process(1)
  BY <1>1, <1>2, CallGoesOn
<1>4. UNCHANGED <<lists, job, at, async_context, async_ret>>
  BY DEF workers
<1> QED
  BY <1>1, <1>3, <1>4, MainStill

\* qemu_aio_wait.
LEMMA WaitServes ==
  ASSUME ServiceInv, PoolInv', NEW caller, GoesOn(caller),
         Head(caller).op \notin Leaf \cup {"callback"}, qemu_aio_wait(caller)
  PROVE  ServiceInv' /\ ServiceStep
<1>1. UNCHANGED <<lists, workers, async_context, async_ret>>
  BY DEF qemu_aio_wait, RunBottomHalf, async
<1>2. CASE stack' = <<Process(1)>> \o caller
  BY <1>1, <1>2, ProcessServes
<1>3. CASE stack' = <<Process(1), Wait("queue")>> \o caller
  <2>1. /\ Process(1) \in Frame
        /\ Wait("queue") \in Frame /\ Wait("queue").op = "aio_wait"
    BY NewFrames
  <2>2. caller \in Seq(Frame)
    BY DEF GoesOn, Stacks
  <2> DEFINE mid == <<Wait("queue")>> \o caller
  <2>3. stack' = <<Process(1)>> \o mid
    BY <1>3, <2>1, <2>2, Push2
  <2>4. Fits(Wait("queue"), Head(caller))
    BY <2>1 DEF Fits
  <2>5. GoesOn(mid) /\ Head(mid) = Wait("queue")
    BY <2>1, <2>4, CallGoesOn
  <2> HIDE DEF mid
  <2>6. Head(mid).op \notin Leaf \cup {"callback"}
    BY <2>1, <2>5 DEF Leaf
  <2> QED
    BY <1>1, <2>3, <2>5, <2>6, ProcessServes
<1> QED
  BY <1>2, <1>3 DEF qemu_aio_wait, RunBottomHalf

\* A synchronous operation that is done is left: every request of it has ended.
LEMMA LeaveServes ==
  ASSUME ServiceInv, PoolInv', Top.op = "bdrv_read_em", async_ret[async_context],
         async_context' = async_context - 1,
         async_ret' = [async_ret EXCEPT ![async_context] = FALSE],
         stack' = Tail(stack), UNCHANGED <<lists, workers>>
  PROVE  ServiceInv' /\ ServiceStep
<1>1. /\ GoesOn(stack) /\ Head(stack) = Top /\ Depth(stack) = async_context
      /\ stack \in Stacks /\ async_context \in Nat
      /\ Top.op \notin Leaf => \A f \in Calls(Tail(stack)) : Ctx(f.acb) < async_context
  BY TopView
<1>2. GoesOn(stack') /\ Head(stack').op # "paio_cancel"
  BY <1>1, ReturnGoesOn, ZenonT(30) DEF Fits, Leaf
<1>3. async_context > 0
  <2>1. IsRead(Head(stack)) = 1
    BY <1>1 DEF IsRead
  <2>2. Depth(stack) = Depth(Tail(stack)) + 1 /\ Depth(Tail(stack)) \in Nat
    BY <1>1, <2>1, StackPop DEF GoesOn
  <2> QED
    BY <1>1, <2>2
<1>4. Calls(stack) = Calls(stack') /\ \A f \in Calls(stack') : Ctx(f.acb) < async_context
  <2>1. Calls(stack) = Calls(Tail(stack)) \cup CallOf(Top)
    BY <1>1, ReturnView DEF GoesOn
  <2>2. CallOf(Top) = {} /\ Top.op \notin Leaf
    BY DEF CallOf, Leaf
  <2> QED
    BY <1>1, <2>1, <2>2
<1>5. /\ Listed \in SUBSET Block
      /\ \A f \in Calls(stack) : f.acb \in Called
      /\ \A a \in Called : \E f \in Calls(stack) : f.acb = a
      /\ \A a \in Block : Ctx(a) \in Nat
  BY BlockFacts
<1>6. \A a \in Listed : Ctx(a) < async_context
  <2>1. \A a \in Listed : Ctx(a) <= async_context /\ Ctx(a) # async_context
    BY <1>1, <1>3 DEF ServiceInv, Chains
  <2> QED
    BY <1>1, <1>5, <2>1
<1>7. /\ UNCHANGED <<request_list, first_aio, free_aiocb, aiocb, at, job>>
      /\ Listed' = Listed /\ Queued' = Queued
  BY DEF lists, workers, Listed, Queued
<1>8. Called' = Called
  <2>1. Called' = {f.acb : f \in Calls(stack')}
    BY DEF Called, Calls
  <2> QED
    BY <1>2, <2>1 DEF GoesOn
<1>9. Nesting' /\ Cancelling'
  BY <1>2, <1>7 DEF GoesOn, Nesting, Cancelling, In, Top
<1>10. Owned' /\ Working'
  BY <1>7, <1>8 DEF ServiceInv, Owned, Working, InProgress
<1>11. Chains'
  <2>1. \A a : Ctx(a)' = Ctx(a)
    BY <1>7 DEF Ctx
  <2>2. \A a \in Listed : Ctx(a) <= async_context'
    BY <1>1, <1>3, <1>5, <1>6
  <2>3. \A c \in 1..async_context' : c \in 1..async_context /\ (async_ret'[c] => async_ret[c])
    <3>1. async_ret \in [Context -> BOOLEAN]
      BY DEF ServiceInv, PoolInv, AsyncOK
    <3>2. async_context \in Context /\ \A c \in 1..async_context' : c \in Context /\ c # async_context
      BY <1>1, <1>3, PoolAssumption DEF ServiceInv, PoolInv, StackOK, Context
    <3> QED
      BY <1>1, <1>3, <3>1, <3>2
  <2> QED
    BY <1>4, <1>7, <2>1, <2>2, <2>3 DEF ServiceInv, Chains, Ctx
<1>12. ServiceInv'
  BY <1>9, <1>10, <1>11 DEF ServiceInv
<1>13. Called \in SUBSET Block /\ \A a \in Called : Ctx(a) < async_context
  BY <1>4, <1>5 DEF ServiceInv, Owned
<1>14. Service!Leave
  <2>1. \A a \in Listed \cup Called : [b \in Block |-> aiocb[b].context][a] < async_context
    BY <1>5, <1>6, <1>13 DEF Ctx
  <2> QED
    BY <1>3, <1>7, <1>8, <2>1 DEF Service!Leave, Listed
<1> QED
  BY <1>12, <1>14 DEF ServiceStep, Service!Next

\* The steps of bdrv_read_em after its submission.
LEMMA ReadEmServes ==
  ASSUME ServiceInv, PoolInv', ReadWaits \/ async_context_pop
  PROVE  ServiceInv' /\ ServiceStep
<1>1. Top.op = "bdrv_read_em" /\ UNCHANGED <<lists, workers>>
  BY DEF ReadWaits, async_context_pop, qemu_aio_wait, In
<1>2. GoesOn(stack) /\ Head(stack) = Top
  BY TopView
<1>3. Head(stack).op \notin Leaf \cup {"callback"}
  BY <1>1, <1>2 DEF Leaf
<1>4. CASE ReadWaits
  BY <1>2, <1>3, <1>4, WaitServes DEF ReadWaits
<1>5. CASE RunBottomHalf(stack)
  BY <1>1, <1>2, <1>3, <1>5, ProcessServes DEF RunBottomHalf
<1>6. CASE async_context_pop /\ ~ RunBottomHalf(stack)
  BY <1>1, <1>6, LeaveServes DEF async_context_pop, Return
<1> QED
  BY <1>4, <1>5, <1>6

\* A function that is no callback returns.
LEMMA ReturnServes ==
  ASSUME ServiceInv, PoolInv', Return, Top.op \notin {"main_loop", "callback"},
         UNCHANGED <<lists, workers, async_context, async_ret>>
  PROVE  ServiceInv' /\ ServiceStep
<1>1. GoesOn(stack) /\ Head(stack) = Top
  BY TopView
<1>2. GoesOn(stack') /\ Head(stack').op # "paio_cancel"
  BY <1>1, ReturnGoesOn, Zenon DEF Return, Fits, Leaf
<1>3. UNCHANGED <<lists, job, at, async_context, async_ret>>
  BY DEF workers
<1> QED
  BY <1>2, <1>3, MainStill

\* The frame at the top goes on and the queue is processed over it.
LEMMA GotoProcessServes ==
  ASSUME ServiceInv, PoolInv', NEW g \in Frame, g.op = Top.op,
         Top.op \in {"main_loop", "aio_flush"},
         \/ stack' = <<Process(1), g>> \o Tail(stack)
         \/ stack' = <<Process(1)>> \o (<<g>> \o Tail(stack)),
         UNCHANGED <<lists, workers, async_context, async_ret>>
  PROVE  ServiceInv' /\ ServiceStep
<1>1. GoesOn(stack) /\ Head(stack) = Top /\ stack \in Stacks
  BY TopView
<1>2. Process(1) \in Frame /\ Tail(stack) \in Seq(Frame)
  BY <1>1, NewFrames, Split DEF Stacks
<1> DEFINE base == <<g>> \o Tail(stack)
<1>3. stack' = <<Process(1)>> \o base
  BY <1>2, Push2
<1>4. Swap(g, Top)
  BY DEF Swap
<1>5. GoesOn(base) /\ Head(base) = g
  BY <1>1, <1>4, GotoGoesOn
<1> HIDE DEF base
<1>6. Head(base).op \notin Leaf \cup {"callback"}
  BY <1>5 DEF Leaf
<1> QED
  BY <1>3, <1>5, <1>6, ProcessServes

\* The steps of qemu_aio_wait and qemu_aio_flush.
LEMMA FlushServes ==
  ASSUME ServiceInv, PoolInv', WaitSelects \/ FlushWaits \/ FlushTests
  PROVE  ServiceInv' /\ ServiceStep
<1>1. UNCHANGED <<lists, workers, async_context, async_ret>>
  BY DEF WaitSelects, FlushWaits, FlushTests, qemu_aio_wait, RunBottomHalf, async
<1>2. GoesOn(stack) /\ Head(stack) = Top
  BY TopView
<1>3. /\ Process(1) \in Frame /\ Process(1).op = "process_queue"
      /\ \A pc \in {"wait", "test"} : Flush(pc) \in Frame /\ Flush(pc).op = "aio_flush"
  BY NewFrames
<1>4. CASE WaitSelects
  <2>1. Top.op = "aio_wait" /\ (Return \/ Goto(Process(1)))
    BY <1>4 DEF WaitSelects, In
  <2>2. Swap(Process(1), Top)
    BY <1>3, <2>1 DEF Swap
  <2>3. CASE Return
    BY <1>1, <2>1, <2>3, ReturnServes
  <2>4. CASE Goto(Process(1))
    BY <1>1, <1>3, <2>2, <2>4, GotoServes
  <2> QED
    BY <2>1, <2>3, <2>4
<1>5. CASE FlushWaits
  <2> DEFINE caller == <<Flush("test")>> \o Tail(stack)
  <2>1. Top.op = "aio_flush" /\ qemu_aio_wait(caller)
    BY <1>5 DEF FlushWaits, In
  <2>2. Swap(Flush("test"), Top)
    BY <1>3, <2>1 DEF Swap
  <2>3. GoesOn(caller) /\ Head(caller) = Flush("test")
    BY <1>2, <1>3, <2>2, GotoGoesOn
  <2> HIDE DEF caller
  <2>4. Head(caller).op \notin Leaf \cup {"callback"}
    BY <1>3, <2>3 DEF Leaf
  <2> QED
    BY <2>1, <2>3, <2>4, WaitServes
<1>6. CASE FlushTests
  <2>1. /\ Top.op = "aio_flush"
        /\ \/ stack' = <<Process(1)>> \o (<<Flush("wait")>> \o Tail(stack))
           \/ Goto(Flush("wait")) \/ Return
    BY <1>6 DEF FlushTests, In, RunBottomHalf
  <2>2. Swap(Flush("wait"), Top)
    BY <1>3, <2>1 DEF Swap
  <2>3. CASE stack' = <<Process(1)>> \o (<<Flush("wait")>> \o Tail(stack))
    BY <1>1, <1>3, <2>1, <2>3, GotoProcessServes, ZenonT(30)
  <2>4. CASE Goto(Flush("wait"))
    BY <1>1, <1>3, <2>2, <2>4, GotoServes
  <2>5. CASE Return
    BY <1>1, <2>1, <2>5, ReturnServes
  <2> QED
    BY <2>1, <2>3, <2>4, <2>5
<1> QED
  BY <1>4, <1>5, <1>6

\* The main loop.
LEMMA LoopServes ==
  ASSUME ServiceInv, PoolInv', MainPolls \/ MainSelects
  PROVE  ServiceInv' /\ ServiceStep
<1>1. Top.op = "main_loop" /\ UNCHANGED <<lists, workers, async_context, async_ret>>
  BY DEF MainPolls, MainSelects, DeviceCode, In, async
<1>2. PICK g \in {Loop("run"), Loop("bh")} :
         stack' = <<Process(1), g>> \o Tail(stack) \/ Goto(g)
  BY ZenonT(30) DEF MainPolls, MainSelects
<1>3. g \in Frame /\ g.op = "main_loop"
  BY <1>2, NewFrames
<1>4. Swap(g, Top)
  BY <1>1, <1>3 DEF Swap
<1>5. CASE stack' = <<Process(1), g>> \o Tail(stack)
  BY <1>1, <1>3, <1>5, GotoProcessServes, ZenonT(30)
<1>6. CASE Goto(g)
  BY <1>1, <1>3, <1>4, <1>6, GotoServes
<1> QED
  BY <1>2, <1>5, <1>6

-----------------------------------------------------------------------------
(* Submissions, and the steps of callbacks. *)

\* What is known of the callback that runs.
LEMMA CallbackTop ==
  ASSUME ServiceInv, Top.op = "callback"
  PROVE  /\ Top \in [op : {"callback"}, acb : Block, pc : {"body", "tail", "ret"}]
         /\ Calls(stack) = Calls(Tail(stack)) \cup {Top} /\ Top \in Calls(stack)
         /\ Ctx(Top.acb) = async_context
         /\ \A f \in Calls(Tail(stack)) : Ctx(f.acb) < async_context
<1>1. /\ GoesOn(stack) /\ Head(stack) = Top /\ Depth(stack) = async_context
      /\ stack \in Stacks /\ Top \in Frame
      /\ Top.op \notin Leaf => \A f \in Calls(Tail(stack)) : Ctx(f.acb) < async_context
  BY TopView
<1>2. Calls(stack) = Calls(Tail(stack)) \cup CallOf(Top) /\ Ctx(Top.acb) = async_context
  BY <1>1, ReturnView DEF GoesOn, Ctx
<1>3. CallOf(Top) = {Top} /\ Top.op \notin Leaf
  BY DEF CallOf, Leaf
<1>4. Top \in [op : {"callback"}, acb : Block, pc : {"body", "tail", "ret"}]
  BY <1>1, Frames
<1> QED
  BY <1>1, <1>2, <1>3, <1>4

\* The frame of a callback that goes on.
LEMMA CallbackGoto ==
  ASSUME ServiceInv, Top.op = "callback", NEW pc \in {"tail", "ret"},
         Top.pc = "ret" => pc = "ret"
  PROVE  LET g == [Top EXCEPT !.pc = pc]
         IN  /\ g \in Frame /\ g.op = "callback" /\ g.acb = Top.acb /\ g.pc = pc
             /\ Swap(g, Top) /\ (Top.pc = "ret" => g.pc = "ret")
<1> DEFINE g == [Top EXCEPT !.pc = pc]
<1>1. Top \in [op : {"callback"}, acb : Block, pc : {"body", "tail", "ret"}]
  BY CallbackTop
<1>2. /\ g \in [op : {"callback"}, acb : Block, pc : {"body", "tail", "ret"}]
      /\ g.acb = Top.acb /\ g.pc = pc /\ g.op = "callback"
  BY <1>1
<1> HIDE DEF g
<1>3. g \in Frame /\ Swap(g, Top)
  BY <1>2 DEF Frame, Swap
<1> QED
  BY <1>2, <1>3 DEF g

\* A submission is signalled.
LEMMA SignalGoesOn ==
  ASSUME NEW s, GoesOn(s), Head(s).op \notin Leaf, stack' = <<Signal>> \o s
  PROVE  /\ GoesOn(stack') /\ Continue /\ Shape(stack') /\ Isolated(stack', aiocb)
         /\ ~ In("paio_cancel")' /\ Calls(stack') = Calls(s)
<1>1. Signal \in Frame /\ Signal.op = "cond_signal"
  BY NewFrames
<1>2. Fits(Signal, Head(s))
  BY <1>1 DEF Fits, Leaf
<1>3. GoesOn(stack') /\ Head(stack') = Signal
  BY <1>1, <1>2, CallGoesOn
<1>4. Called' = {f.acb : f \in Calls(stack')}
  BY DEF Called, Calls
<1>5. Continue
  BY <1>3, <1>4 DEF GoesOn, Continue
<1>6. ~ In("paio_cancel")'
  BY <1>1, <1>3 DEF In, Top
<1>7. Calls(stack') = Calls(s) \cup CallOf(Signal)
  BY <1>1, <1>2, CallView DEF GoesOn
<1>8. CallOf(Signal) = {}
  BY <1>1 DEF CallOf
<1> QED
  BY <1>3, <1>5, <1>6, <1>7, <1>8 DEF GoesOn

\* bdrv_read_em submits in a context of its own.
LEMMA SyncServes ==
  ASSUME ServiceInv, PoolInv', NEW caller \in Frame, Swap(caller, Top),
         caller.op \in {"main_loop", "callback"},
         caller.op = "callback" => (Top.pc = "ret" => caller.pc = "ret"),
         bdrv_read_em(caller)
  PROVE  ServiceInv' /\ ServiceStep
<1>1. /\ GoesOn(stack) /\ Head(stack) = Top /\ stack \in Stacks /\ async_context \in Nat
      /\ \A f \in Calls(stack) : Ctx(f.acb) <= async_context
  BY TopView
<1>2. /\ async_context < MaxContext /\ free_aiocb # {}
      /\ async_context' = async_context + 1
      /\ async_ret' = [async_ret EXCEPT ![async_context + 1] = FALSE]
      /\ paio_submit(qemu_aio_get, async_context + 1, "bdrv_rw_em_cb")
      /\ stack' = <<Signal, ReadEm, caller>> \o Tail(stack)
  BY DEF bdrv_read_em, CanSubmit
<1> DEFINE base == <<caller>> \o Tail(stack)
           read == <<ReadEm>> \o base
<1>3. ReadEm \in Frame /\ ReadEm.op = "bdrv_read_em"
  BY NewFrames
<1>4. stack' = <<Signal>> \o read
  BY <1>1, <1>2, SyncStack, ZenonT(30)
<1>5. GoesOn(base) /\ Head(base) = caller
  BY <1>1, GotoGoesOn
<1> HIDE DEF base
<1>6. Fits(ReadEm, caller)
  BY <1>3 DEF Fits, Leaf
<1>7. GoesOn(read) /\ Head(read) = ReadEm
  BY <1>3, <1>5, <1>6, CallGoesOn
<1> HIDE DEF read
<1>8. Head(read).op \notin Leaf
  BY <1>3, <1>7 DEF Leaf
<1>9. Continue /\ Shape(stack') /\ Isolated(stack', aiocb) /\ ~ In("paio_cancel")'
  BY <1>4, <1>7, <1>8, SignalGoesOn
<1> DEFINE c == async_context + 1
<1>10. c \in Context /\ c = async_context' /\ c # 0
  BY <1>1, <1>2, PoolAssumption, SMTT(30) DEF Context
<1>11. \A b \in Listed : Ctx(b) # c
  BY <1>1, BlockFacts DEF ServiceInv, Chains
<1>12. \A g \in Calls(stack') : Ctx(g.acb) # c
  <2>1. \A f \in Calls(stack) : Ctx(f.acb) # c
    BY <1>1, BlockFacts
  <2> QED
    BY <1>9, <2>1 DEF Continue
<1>13. \A k \in 1..async_context' : async_ret'[k] => k # c /\ k \in 1..async_context /\ async_ret[k]
  <2>1. async_ret \in [Context -> BOOLEAN]
    BY DEF ServiceInv, PoolInv, AsyncOK
  <2>2. 1..async_context' \subseteq Context
    BY <1>1, <1>2, PoolAssumption DEF Context
  <2> QED
    BY <1>1, <1>2, <1>10, <2>1, <2>2
<1> HIDE DEF c
<1>14. paio_submit(qemu_aio_get, c, "bdrv_rw_em_cb")
  BY <1>2 DEF c
<1> QED
  BY <1>2, <1>9, <1>10, <1>11, <1>12, <1>13, <1>14, SubmitServes, ZenonT(30)

\* A callback issues a follow-up, the only request of its context.
LEMMA FollowUpServes ==
  ASSUME ServiceInv, PoolInv', CallbackFollowsUp
  PROVE  ServiceInv' /\ ServiceStep
<1>1. /\ Top.op = "callback" /\ Top.pc # "ret" /\ free_aiocb # {}
      /\ paio_submit(qemu_aio_get, async_context, aiocb[Top.acb].cb)
      /\ stack' = <<Signal, [Top EXCEPT !.pc = "ret"]>> \o Tail(stack)
      /\ UNCHANGED <<async_context, async_ret>>
  BY ZenonT(30) DEF CallbackFollowsUp, In, async
<1>2. /\ GoesOn(stack) /\ Head(stack) = Top /\ stack \in Stacks /\ async_context \in Nat
  BY TopView
<1>3. /\ Top.acb \in Block /\ Top \in Calls(stack) /\ Ctx(Top.acb) = async_context
      /\ \A f \in Calls(Tail(stack)) : Ctx(f.acb) < async_context
  BY <1>1, CallbackTop
<1>4. aiocb[Top.acb].cb \in {"device", "bdrv_rw_em_cb"} /\ async_context \in Context
  BY <1>3 DEF ServiceInv, PoolInv, ListsOK, StackOK, Request
<1> DEFINE g == [Top EXCEPT !.pc = "ret"]
           base == <<g>> \o Tail(stack)
<1>5. g \in Frame /\ g.op = "callback" /\ g.pc = "ret" /\ Swap(g, Top)
  BY <1>1, CallbackGoto
<1>6. stack' = <<Signal, g>> \o Tail(stack)
  BY <1>1
<1> HIDE DEF g
<1>7. stack' = <<Signal>> \o base
  <2>1. Signal \in Frame /\ Tail(stack) \in Seq(Frame)
    BY <1>2, NewFrames, Split DEF Stacks
  <2> QED
    BY <1>5, <1>6, <2>1, Push2
<1>8. GoesOn(base) /\ Head(base) = g /\ Calls(base) = Calls(Tail(stack)) \cup {g}
  <2>1. GoesOn(base) /\ Head(base) = g
    BY <1>2, <1>5, GotoGoesOn
  <2>2. Calls(base) = Calls(Tail(stack)) \cup CallOf(g)
    BY <1>2, <1>5, GotoView DEF GoesOn
  <2>3. CallOf(g) = {g}
    BY <1>5 DEF CallOf
  <2> QED
    BY <2>1, <2>2, <2>3
<1> HIDE DEF base
<1>9. /\ Continue /\ Shape(stack') /\ Isolated(stack', aiocb) /\ ~ In("paio_cancel")'
      /\ Calls(stack') = Calls(base)
  <2>1. Head(base).op \notin Leaf
    BY <1>5, <1>8 DEF Leaf
  <2> QED
    BY <1>7, <1>8, <2>1, SignalGoesOn
<1>10. \A b \in Listed : async_context # 0 => Ctx(b) # async_context
  BY <1>1, <1>3 DEF ServiceInv, Chains
<1>11. \A h \in Calls(stack') : Ctx(h.acb) = async_context => h.pc = "ret"
  <2>1. \A h \in Calls(Tail(stack)) : Ctx(h.acb) # async_context
    BY <1>2, <1>3
  <2> QED
    BY <1>5, <1>8, <1>9, <2>1
<1>12. \A k \in 1..async_context : async_ret[k] => k # async_context
  BY <1>3 DEF ServiceInv, Chains
<1> QED
  BY <1>1, <1>4, <1>9, <1>10, <1>11, <1>12, SubmitServes, ZenonT(30)

\* A callback returns.
LEMMA CallbackReturnsServes ==
  ASSUME ServiceInv, PoolInv', CallbackReturns
  PROVE  ServiceInv' /\ ServiceStep
<1>1. /\ Top.op = "callback" /\ stack' = Tail(stack)
      /\ free_aiocb' = free_aiocb \cup {Top.acb} /\ aiocb' = Released(Top.acb)
      /\ UNCHANGED <<request_list, first_aio, workers, async_context>>
      /\ \/ async_ret' = async_ret
         \/ async_ret' = [async_ret EXCEPT ![async_context] = TRUE] /\ Top.pc # "ret"
  BY DEF CallbackReturns, In, Return, qemu_aio_release
<1>2. GoesOn(stack) /\ Head(stack) = Top /\ stack \in Stacks
  BY TopView
<1>3. PICK top \in Calls(stack) : top = Top
  BY <1>1, CallbackTop
<1>4. /\ Calls(stack) = Calls(stack') \cup {top} /\ Ctx(top.acb) = async_context
      /\ \A f \in Calls(stack') : Ctx(f.acb) < async_context
  BY <1>1, <1>3, CallbackTop
<1>5. Shape(stack') /\ Isolated(stack', aiocb) /\ Fits(Top, Head(stack'))
  BY <1>1, <1>2, ReturnView, ZenonT(30) DEF GoesOn
<1>6. ~ In("paio_cancel")'
  BY <1>5 DEF Fits, Leaf, In, Top
<1> QED
  BY <1>1, <1>3, <1>4, <1>5, <1>6, EndServes

\* The steps of callbacks.
LEMMA CallbackServes ==
  ASSUME ServiceInv, PoolInv',
         CallbackReads \/ CallbackCancels \/ CallbackFollowsUp \/ CallbackReturns
  PROVE  ServiceInv' /\ ServiceStep
<1>1. CASE CallbackFollowsUp
  BY <1>1, FollowUpServes
<1>2. CASE CallbackReturns
  BY <1>2, CallbackReturnsServes
<1> DEFINE g == [Top EXCEPT !.pc = "tail"]
<1>3. CASE CallbackReads
  <2>1. /\ Top.op = "callback" /\ Top.pc = "body"
        /\ bdrv_read_em(g) \/ ReadRefused(g)
    BY <1>3, ZenonT(30) DEF CallbackReads, InCallback, In
  <2>2. g \in Frame /\ g.op = "callback" /\ Swap(g, Top)
    BY <2>1, CallbackGoto
  <2> HIDE DEF g
  <2>3. CASE bdrv_read_em(g)
    BY <2>1, <2>2, <2>3, SyncServes
  <2>4. CASE ReadRefused(g)
    BY <2>1, <2>2, <2>4, GotoServes DEF ReadRefused
  <2> QED
    BY <2>1, <2>3, <2>4
<1>4. CASE CallbackCancels
  <2>1. /\ Top.op = "callback" /\ Top.pc = "body"
        /\ \E a \in Cancellable : paio_cancel(a, g)
        /\ UNCHANGED <<workers, wakeup, async, client>>
    BY <1>4, ZenonT(30) DEF CallbackCancels, InCallback, In
  <2>2. g \in Frame /\ g.op = "callback" /\ Swap(g, Top)
    BY <2>1, CallbackGoto
  <2>3. PICK a \in Listed : paio_cancel(a, g)
    BY <2>1 DEF Cancellable, Listed
  <2> HIDE DEF g
  <2> QED
    BY <2>1, <2>2, <2>3, CancelServes
<1> QED
  BY <1>1, <1>2, <1>3, <1>4

\* The steps of device code.
LEMMA DeviceServes ==
  ASSUME ServiceInv, PoolInv', DeviceStep
  PROVE  ServiceInv' /\ ServiceStep
<1>1. Top.op = "main_loop"
  BY ZenonT(30) DEF DeviceStep, DeviceSubmits, DeviceCancels, DeviceReads, DeviceFlushes,
               Device, DeviceCode, In
<1>2. /\ GoesOn(stack) /\ Head(stack) = Top /\ stack \in Stacks /\ Top \in Frame
      /\ Depth(stack) = async_context
  BY TopView
<1>3. Swap(Top, Top)
  BY DEF Swap
<1>4. CASE DeviceSubmits
  <2>1. async_context = 0 /\ Calls(stack) = {} /\ 0 \in Context
    BY <1>1, <1>2, Bottom, PoolAssumption DEF GoesOn, Context
  <2>2. /\ free_aiocb # {} /\ paio_submit(qemu_aio_get, async_context, "device")
        /\ stack' = <<Signal>> \o stack
        /\ UNCHANGED <<async_context, async_ret>>
    BY <1>4 DEF DeviceSubmits, CanSubmit, Call, async
  <2>3. Head(stack).op \notin Leaf
    BY <1>1, <1>2 DEF Leaf
  <2>4. Continue /\ Shape(stack') /\ Isolated(stack', aiocb) /\ ~ In("paio_cancel")'
    BY <1>2, <2>2, <2>3, SignalGoesOn
  <2>5. \A k \in 1..async_context' : FALSE
    BY <2>1, <2>2
  <2> QED
    BY <2>1, <2>2, <2>4, <2>5, SubmitServes
<1>5. CASE DeviceCancels
  <2>1. PICK a \in Listed : paio_cancel(a, Top)
    BY <1>5 DEF DeviceCancels, Cancellable, Listed
  <2> QED
    BY <1>1, <1>2, <1>3, <1>5, <2>1, CancelServes DEF DeviceCancels
<1>6. CASE DeviceReads
  <2>1. CASE bdrv_read_em(Top)
    BY <1>1, <1>2, <1>3, <2>1, SyncServes
  <2>2. CASE ReadRefused(Top)
    BY <1>1, <1>2, <1>3, <2>2, GotoServes DEF ReadRefused
  <2> QED
    BY <1>6, <2>1, <2>2, ZenonT(30) DEF DeviceReads
<1>7. CASE DeviceFlushes
  <2>1. stack' = <<Flush("wait")>> \o stack /\ UNCHANGED <<lists, job, at, async_context, async_ret>>
    BY <1>7 DEF DeviceFlushes, Call, workers, async
  <2>2. Flush("wait") \in Frame /\ Flush("wait").op = "aio_flush"
    BY NewFrames
  <2>3. Fits(Flush("wait"), Head(stack))
    BY <1>1, <1>2, <2>2 DEF Fits, Leaf
  <2>4. GoesOn(stack') /\ Head(stack').op # "paio_cancel"
    BY <1>2, <2>1, <2>2, <2>3, CallGoesOn
  <2> QED
    BY <2>1, <2>4, MainStill
<1> QED
  BY <1>4, <1>5, <1>6, <1>7 DEF DeviceStep

-----------------------------------------------------------------------------
(* All steps. *)

\* Initially every block is free and nothing runs.
LEMMA ServiceInvInit ==
  ASSUME Init, PoolInv
  PROVE  ServiceInv /\ Service!Init
<1>1. /\ request_list = <<>> /\ first_aio = <<>> /\ free_aiocb = Block
      /\ aiocb = [a \in Block |-> Unused] /\ job = [t \in Thread |-> NoBlock]
      /\ at = [t \in Thread |-> "none"] /\ async_context = 0
      /\ stack = <<Loop("run")>>
  BY DEF Init
<1>2. Listed = {} /\ Queued = {}
  BY <1>1 DEF Listed, Queued, Range
<1>3. /\ Loop("run").op = "main_loop" /\ Len(stack) = 1 /\ DOMAIN stack = {1}
      /\ stack[1] = Loop("run") /\ Top = Loop("run")
  BY <1>1, NewFrames DEF Top
<1>4. Calls(stack) = {} /\ Called = {}
  BY <1>3 DEF Calls, Called, Range
<1>5. Nesting
  BY <1>3 DEF Nesting, Shape, Isolated
<1>6. Owned
  BY <1>1, <1>2, <1>4 DEF Owned, NoDuplicates
<1>7. Working
  BY <1>1, <1>2 DEF Working
<1>8. Cancelling
  BY <1>3 DEF Cancelling, In
<1>9. Chains
  BY <1>1, <1>2, <1>4 DEF Chains
<1>10. Service!Init
  <2>1. [a \in Block |-> aiocb[a].context] = [a \in Block |-> 0]
    BY <1>1 DEF Unused
  <2> QED
    BY <1>1, <1>2, <1>4, <2>1, SMTT(30) DEF Service!Init, Listed
<1> QED
  BY <1>5, <1>6, <1>7, <1>8, <1>9, <1>10 DEF ServiceInv

\* Every step keeps the invariant and is a step of the service, or none.
LEMMA ServiceInvStep ==
  ASSUME ServiceInv, PoolInv', [Next]_vars
  PROVE  ServiceInv' /\ ServiceStep
<1>1. CASE \E t \in Thread : \/ ThreadStep(t)
                             \/ ThreadWakes(t) /\ UNCHANGED <<wakeup, async, client, stack>>
  BY <1>1, ThreadServes, ZenonT(30)
<1>2. CASE aio_signal_handler
  BY <1>2, HandlerServes
<1>3. CASE MainStep
  BY <1>3, SignalServes, CancelEndsServes, ScanEndsServes, ScanPassesServes,
     ScanCompletesServes, ReadEmServes, CallbackServes, FlushServes, LoopServes, ZenonT(30)
     DEF MainStep
<1>4. CASE DeviceStep
  BY <1>4, DeviceServes
<1>5. CASE MainSelects
  BY <1>5, LoopServes
<1>6. CASE UNCHANGED vars
  <2>1. UNCHANGED <<lists, workers, async, stack>>
    BY <1>6, SMTT(30) DEF vars
  <2>2. UNCHANGED <<lists, job, async, stack, at>>
    BY <2>1 DEF workers
  <2> QED
    BY <2>2, OtherStep
<1> QED
  BY <1>1, <1>2, <1>3, <1>4, <1>5, <1>6, ZenonT(30) DEF Next

-----------------------------------------------------------------------------
(* The number of synchronous reads. *)

\* A set of positions keeps its size when a frame is pushed.
LEMMA Shift ==
  ASSUME NEW n \in Nat, NEW A \in SUBSET (1..n)
  PROVE  /\ IsFiniteSet(A) /\ Cardinality(A) \in Nat
         /\ IsFiniteSet({j + 1 : j \in A})
         /\ Cardinality({j + 1 : j \in A}) = Cardinality(A)
<1> DEFINE B     == {j + 1 : j \in A}
           shift == [j \in A |-> j + 1]
<1>1. IsFiniteSet(1..n)
  BY FS_Interval
<1>2. IsFiniteSet(A)
  BY <1>1, FS_Subset, ZenonT(30)
<1>3. shift \in Bijection(A, B)
  BY DEF Bijection, Injection, Surjection, IsInjective
<1> QED
  BY <1>2, <1>3, FS_Bijection, FS_CardinalityType DEF ExistsBijection

\* Pushing a frame adds to the reads.
LEMMA CountReads ==
  ASSUME NEW s \in Seq(Frame), NEW f \in Frame
  PROVE  Depth(<<f>> \o s) = Depth(s) + IsRead(f) /\ Depth(s) \in Nat
<1> DEFINE u     == <<f>> \o s
           A     == Reads(s)
           B     == {j + 1 : j \in A}
<1>1. /\ Len(s) \in Nat /\ Len(u) = Len(s) + 1 /\ u[1] = f
      /\ \A i \in 1..Len(s) : u[i + 1] = s[i]
  BY Push, LenProperties
<1> HIDE DEF u
<1>2. A \in SUBSET (1..Len(s))
  BY DEF Reads
<1>3. Cardinality(B) = Cardinality(A) /\ Cardinality(A) \in Nat
  BY <1>1, <1>2, Shift, ZenonT(30)
<1>4. IsFiniteSet(B)
  BY <1>1, <1>2, Shift, ZenonT(30)
<1>5. 1 \notin B
  BY <1>2
<1>6. Reads(u) = IF f.op = "bdrv_read_em" THEN B \cup {1} ELSE B
  <2>1. ASSUME NEW j
        PROVE  j \in Reads(u) <=> (j = 1 /\ f.op = "bdrv_read_em") \/ j \in B
    <3>1. CASE j = 1
      BY <1>1, <1>5, <3>1 DEF Reads
    <3>2. CASE j # 1 /\ j \in 1..Len(u)
      <4>1. j - 1 \in 1..Len(s) /\ (j - 1) + 1 = j
        BY <1>1, <3>2
      <4>2. u[j] = s[j - 1]
        BY <1>1, <4>1
      <4>3. j \in B <=> j - 1 \in A
        BY <1>2, <4>1
      <4> QED
        BY <3>2, <4>1, <4>2, <4>3, SMTT(30) DEF Reads
    <3>3. CASE j \notin 1..Len(u)
      BY <1>1, <1>2, <3>3 DEF Reads
    <3> QED
      BY <3>1, <3>2, <3>3
  <2> QED
    BY <2>1
<1>7. CASE f.op = "bdrv_read_em"
  <2>1. Cardinality(B \cup {1}) = Cardinality(B) + 1
    BY <1>4, <1>5, FS_AddElement, ZenonT(30)
  <2>2. Depth(u) = Cardinality(B) + 1 /\ IsRead(f) = 1 /\ Depth(s) = Cardinality(A)
    BY <1>6, <1>7, <2>1 DEF Depth, IsRead
  <2> QED
    BY <1>3, <2>2 DEF u
<1>8. CASE f.op # "bdrv_read_em"
  <2>1. Depth(u) = Cardinality(B) /\ IsRead(f) = 0 /\ Depth(s) = Cardinality(A)
    BY <1>6, <1>8 DEF Depth, IsRead
  <2> QED
    BY <1>3, <2>1 DEF u
<1> QED
  BY <1>7, <1>8

\* The reads around a frame stay the same when another is pushed; around the
\* new one are all there are.
LEMMA CountOuter ==
  ASSUME NEW s \in Seq(Frame), NEW f \in Frame
  PROVE  /\ Cardinality(Outer(<<f>> \o s, 1)) = Depth(s)
         /\ \A i \in 1..Len(s) :
               Cardinality(Outer(<<f>> \o s, i + 1)) = Cardinality(Outer(s, i))
<1> DEFINE u == <<f>> \o s
<1>1. /\ Len(s) \in Nat /\ DOMAIN s = 1..Len(s) /\ u \in Seq(Frame)
      /\ Len(u) = Len(s) + 1 /\ DOMAIN u = 1..Len(u)
      /\ \A i \in 1..Len(s) : u[i + 1] = s[i]
  BY Push, LenProperties
<1> HIDE DEF u
<1>2. ASSUME NEW i \in 0..Len(s), NEW j
      PROVE  j \in Outer(u, i + 1) <=>
               \E k \in 1..Len(s) : k > i /\ s[k].op = "bdrv_read_em" /\ j = k + 1
  <2>1. ASSUME j \in Outer(u, i + 1)
        PROVE  \E k \in 1..Len(s) : k > i /\ s[k].op = "bdrv_read_em" /\ j = k + 1
    <3>1. j \in 1..(Len(s) + 1) /\ j > i + 1 /\ u[j].op = "bdrv_read_em"
      BY <1>1, <2>1 DEF Outer
    <3>2. j - 1 \in 1..Len(s) /\ j - 1 > i /\ j = (j - 1) + 1
      BY <1>1, <3>1
    <3>3. u[j] = s[j - 1]
      BY <1>1, <3>2
    <3> QED
      BY <3>1, <3>2, <3>3, SMTT(30)
  <2>2. ASSUME NEW k \in 1..Len(s), k > i, s[k].op = "bdrv_read_em", j = k + 1
        PROVE  j \in Outer(u, i + 1)
    BY <1>1, <2>2 DEF Outer
  <2> QED
    BY <2>1, <2>2
<1>3. Outer(u, 1) = {j + 1 : j \in Reads(s)}
  BY <1>1, <1>2 DEF Reads
<1>4. Cardinality(Outer(u, 1)) = Depth(s)
  <2>1. Reads(s) \in SUBSET (1..Len(s))
    BY DEF Reads
  <2>2. Cardinality({j + 1 : j \in Reads(s)}) = Cardinality(Reads(s))
    BY <1>1, <2>1, Shift, ZenonT(30)
  <2> QED
    BY <1>3, <2>2, ZenonT(30) DEF Depth
<1>5. ASSUME NEW i \in 1..Len(s)
      PROVE  Cardinality(Outer(u, i + 1)) = Cardinality(Outer(s, i))
  <2> DEFINE A == Outer(s, i)
             B == {j + 1 : j \in A}
  <2>1. A \in SUBSET (1..Len(s)) /\ i \in 0..Len(s)
    BY <1>1 DEF Outer
  <2>2. \A k : k \in A <=> k \in 1..Len(s) /\ k > i /\ s[k].op = "bdrv_read_em"
    BY <1>1 DEF Outer
  <2> HIDE DEF A
  <2>3. Outer(u, i + 1) = B
    BY <1>2, <2>1, <2>2
  <2>4. Cardinality(B) = Cardinality(A)
    BY <1>1, <2>1, Shift, ZenonT(30)
  <2> QED
    BY <2>3, <2>4, ZenonT(30) DEF A
<1> QED
  BY <1>4, <1>5 DEF u

\* The reads around a frame are some of the reads; a read above it is another.
LEMMA CountInner ==
  ASSUME NEW s \in Seq(Frame), NEW i \in 1..Len(s)
  PROVE  /\ Cardinality(Outer(s, i)) \in 0..Depth(s)
         /\ \A j \in 1..i : s[j].op = "bdrv_read_em" => Cardinality(Outer(s, i)) < Depth(s)
<1>1. Len(s) \in Nat /\ DOMAIN s = 1..Len(s)
  BY LenProperties
<1> DEFINE A == Outer(s, i)
           B == Reads(s)
<1>2. A \in SUBSET B /\ B \in SUBSET (1..Len(s)) /\ \A j \in A : j > i
  BY <1>1 DEF Outer, Reads
<1>3. \A j \in 1..i : s[j].op = "bdrv_read_em" => j \in B /\ j \notin A
  BY <1>1 DEF Outer, Reads
<1>4. Depth(s) = Cardinality(B)
  BY DEF Depth
<1> HIDE DEF A, B
<1>5. IsFiniteSet(B) /\ Cardinality(B) \in Nat
  BY <1>1, <1>2, Shift, ZenonT(30)
<1>6. IsFiniteSet(A) /\ Cardinality(A) <= Cardinality(B)
  BY <1>2, <1>5, FS_Subset, ZenonT(30)
<1>7. Cardinality(A) \in Nat
  BY <1>6, FS_CardinalityType, ZenonT(30)
<1>8. ASSUME NEW j \in 1..i, s[j].op = "bdrv_read_em"
      PROVE  Cardinality(A) < Cardinality(B)
  <2>1. Cardinality(A \cup {j}) = Cardinality(A) + 1 /\ A \cup {j} \in SUBSET B
    BY <1>2, <1>3, <1>6, <1>8, FS_AddElement, ZenonT(30)
  <2>2. Cardinality(A \cup {j}) <= Cardinality(B)
    BY <1>5, <2>1, FS_Subset, ZenonT(30)
  <2> QED
    BY <1>5, <1>7, <2>1, <2>2
<1> QED
  BY <1>4, <1>5, <1>6, <1>7, <1>8 DEF A

LEMMA ReadCountsHold == ReadCounts
<1>1. Depth(<<>>) = 0
  <2>1. Reads(<<>>) = {}
    BY DEF Reads
  <2> QED
    BY <2>1, FS_EmptySet DEF Depth
<1>2. ASSUME NEW s \in Seq(Frame)
      PROVE  Depth(s) \in Nat
  <2>1. Len(s) \in Nat /\ Reads(s) \in SUBSET (1..Len(s))
    BY LenProperties DEF Reads
  <2> QED
    BY <2>1, Shift, ZenonT(30) DEF Depth
<1> QED
  BY <1>1, <1>2, CountReads, CountOuter, CountInner, ZenonT(30) DEF ReadCounts

-----------------------------------------------------------------------------
(* The number of threads. *)

\* The property, without the variables.
LEMMA CountedIsMatch ==
  at \in [Thread -> WorkerAt] => (CountersMatch <=> Counted(at, cur_threads, idle_threads))
<1>1. Alive = Living(at) /\ {t \in Alive : at[t] # "io"} = Idle(at)
  BY DEF Alive, Living, Idle
<1> QED
  BY <1>1 DEF CountersMatch, Counted

\* The sets that are counted are finite.
LEMMA Finite ==
  ASSUME NEW where
  PROVE  /\ IsFiniteSet(Living(where)) /\ Cardinality(Living(where)) \in Nat
         /\ IsFiniteSet(Idle(where)) /\ Cardinality(Idle(where)) \in Nat
<1>1. Living(where) \in SUBSET Thread /\ Idle(where) \in SUBSET Thread /\ IsFiniteSet(Thread)
  BY PoolAssumption DEF Living, Idle
<1> QED
  BY <1>1, FS_Subset, FS_CardinalityType

\* Adding and removing an element.
LEMMA CardChange ==
  ASSUME NEW S, IsFiniteSet(S), NEW x
  PROVE  /\ Cardinality(S) \in Nat
         /\ x \in S => S \cup {x} = S /\ Cardinality(S \ {x}) = Cardinality(S) - 1
         /\ x \notin S => S \ {x} = S /\ Cardinality(S \cup {x}) = Cardinality(S) + 1
<1>1. Cardinality(S) \in Nat
  BY FS_CardinalityType
<1>2. CASE x \in S
  BY <1>1, <1>2, FS_RemoveElement
<1>3. CASE x \notin S
  BY <1>1, <1>3, FS_AddElement
<1> QED
  BY <1>1, <1>2, <1>3

\* The sets that are counted when a thread moves.
LEMMA MoveSets ==
  ASSUME NEW where \in [Thread -> WorkerAt], NEW t \in Thread, NEW pc \in WorkerAt
  PROVE  LET to == [where EXCEPT ![t] = pc]
         IN  /\ to \in [Thread -> WorkerAt]
             /\ Living(to) = IF pc = "none" THEN Living(where) \ {t} ELSE Living(where) \cup {t}
             /\ Idle(to) = IF pc \in {"none", "io"} THEN Idle(where) \ {t}
                                                    ELSE Idle(where) \cup {t}
BY DEF Living, Idle

\* The counters when a thread moves.
LEMMA CountMoves ==
  ASSUME NEW where, NEW cur, NEW idle, Counted(where, cur, idle), NEW t \in Thread
  PROVE  /\ cur \in Nat /\ idle \in Nat /\ max_threads \in Nat
         /\ where[t] \notin {"none", "io"} =>
               /\ \A pc \in WorkerAt \ {"none", "io"} :
                     Counted([where EXCEPT ![t] = pc], cur, idle)
               /\ Counted([where EXCEPT ![t] = "io"], cur, idle - 1)
               /\ Counted([where EXCEPT ![t] = "none"], cur - 1, idle - 1)
         /\ where[t] = "io" =>
               \A pc \in WorkerAt \ {"none", "io"} :
                  Counted([where EXCEPT ![t] = pc], cur, idle + 1)
         /\ where[t] = "none" /\ cur < max_threads =>
               \A pc \in WorkerAt \ {"none", "io"} :
                  Counted([where EXCEPT ![t] = pc], cur + 1, idle + 1)
<1>1. where \in [Thread -> WorkerAt] /\ where[t] \in WorkerAt
  BY DEF Counted
<1>2. IsFiniteSet(Living(where)) /\ IsFiniteSet(Idle(where))
  BY Finite
<1>3. max_threads \in Nat
  <2>1. Cardinality(Thread) \in Nat
    BY PoolAssumption, FS_CardinalityType
  <2> QED
    BY <2>1, PoolAssumption
<1> DEFINE L == Living(where)
           I == Idle(where)
<1>4. /\ Cardinality(L) \in Nat
      /\ t \in L => L \cup {t} = L /\ Cardinality(L \ {t}) = Cardinality(L) - 1
      /\ t \notin L => L \ {t} = L /\ Cardinality(L \cup {t}) = Cardinality(L) + 1
  BY <1>2, CardChange, ZenonT(30)
<1>5. /\ Cardinality(I) \in Nat
      /\ t \in I => I \cup {t} = I /\ Cardinality(I \ {t}) = Cardinality(I) - 1
      /\ t \notin I => I \ {t} = I /\ Cardinality(I \cup {t}) = Cardinality(I) + 1
  BY <1>2, CardChange, ZenonT(30)
<1>6. cur = Cardinality(L) /\ idle = Cardinality(I) /\ cur <= max_threads
  BY DEF Counted
<1>7. cur \in Nat /\ idle \in Nat
  BY <1>4, <1>5, <1>6
<1>8. /\ t \in L <=> where[t] # "none"
      /\ t \in I <=> where[t] \notin {"none", "io"}
  BY DEF Living, Idle
<1> HIDE DEF L, I
<1>9. ASSUME where[t] \notin {"none", "io"}, NEW pc \in WorkerAt \ {"none", "io"}
      PROVE  Counted([where EXCEPT ![t] = pc], cur, idle)
  BY <1>1, <1>4, <1>5, <1>6, <1>8, <1>9, MoveSets, ZenonT(30) DEF Counted, L, I
<1>10. ASSUME where[t] \notin {"none", "io"}
       PROVE  Counted([where EXCEPT ![t] = "io"], cur, idle - 1)
  <2>1. "io" \in WorkerAt
    BY DEF WorkerAt
  <2> DEFINE to == [where EXCEPT ![t] = "io"]
  <2>2. to \in [Thread -> WorkerAt] /\ Living(to) = L \cup {t} /\ Idle(to) = I \ {t}
    BY <1>1, <2>1, MoveSets, ZenonT(30) DEF L, I
  <2> HIDE DEF to
  <2>3. Counted(to, cur, idle - 1)
    BY <1>4, <1>5, <1>6, <1>8, <1>10, <2>2, ZenonT(30) DEF Counted
  <2> QED
    BY <2>3 DEF to
<1>11. ASSUME where[t] \notin {"none", "io"}
       PROVE  Counted([where EXCEPT ![t] = "none"], cur - 1, idle - 1)
  <2>1. "none" \in WorkerAt
    BY DEF WorkerAt
  <2> DEFINE to == [where EXCEPT ![t] = "none"]
  <2>2. to \in [Thread -> WorkerAt] /\ Living(to) = L \ {t} /\ Idle(to) = I \ {t}
    BY <1>1, <2>1, MoveSets, ZenonT(30) DEF L, I
  <2> HIDE DEF to
  <2>3. Counted(to, cur - 1, idle - 1)
    BY <1>3, <1>4, <1>5, <1>6, <1>8, <1>11, <2>2 DEF Counted
  <2> QED
    BY <2>3 DEF to
<1>12. ASSUME where[t] = "io", NEW pc \in WorkerAt \ {"none", "io"}
       PROVE  Counted([where EXCEPT ![t] = pc], cur, idle + 1)
  <2> DEFINE to == [where EXCEPT ![t] = pc]
  <2>2. to \in [Thread -> WorkerAt] /\ Living(to) = L \cup {t} /\ Idle(to) = I \cup {t}
    BY <1>1, MoveSets, ZenonT(30) DEF L, I
  <2> HIDE DEF to
  <2>3. Counted(to, cur, idle + 1)
    BY <1>4, <1>5, <1>6, <1>8, <1>12, <2>2, ZenonT(30) DEF Counted
  <2> QED
    BY <2>3 DEF to
<1>13. ASSUME where[t] = "none", cur < max_threads, NEW pc \in WorkerAt \ {"none", "io"}
       PROVE  Counted([where EXCEPT ![t] = pc], cur + 1, idle + 1)
  <2> DEFINE to == [where EXCEPT ![t] = pc]
  <2>2. to \in [Thread -> WorkerAt] /\ Living(to) = L \cup {t} /\ Idle(to) = I \cup {t}
    BY <1>1, MoveSets, Zenon DEF L, I
  <2> HIDE DEF to
  <2>3. Counted(to, cur + 1, idle + 1)
    BY <1>3, <1>4, <1>5, <1>6, <1>8, <1>13, <2>2 DEF Counted
  <2> QED
    BY <2>3, SMTT(30) DEF to
<1> QED
  BY <1>3, <1>7, <1>9, <1>10, <1>11, <1>12, <1>13

LEMMA ThreadCountsHold == ThreadCounts
<1> SUFFICES ASSUME NEW where, NEW cur, NEW idle, Counted(where, cur, idle)
             PROVE  /\ cur \in Nat /\ idle \in Nat /\ max_threads \in Nat
                    /\ cur < max_threads => \E t \in Thread : where[t] = "none"
                    /\ idle # 0 \/ cur = max_threads => \E t \in Thread : where[t] # "none"
                    /\ \A t \in Thread :
                          /\ where[t] \notin {"none", "io"} =>
                             /\ \A pc \in WorkerAt \ {"none", "io"} :
                                   Counted([where EXCEPT ![t] = pc], cur, idle)
                             /\ Counted([where EXCEPT ![t] = "io"], cur, idle - 1)
                             /\ Counted([where EXCEPT ![t] = "none"], cur - 1, idle - 1)
                          /\ where[t] = "io" =>
                             \A pc \in WorkerAt \ {"none", "io"} :
                                Counted([where EXCEPT ![t] = pc], cur, idle + 1)
                          /\ where[t] = "none" /\ cur < max_threads =>
                             \A pc \in WorkerAt \ {"none", "io"} :
                                Counted([where EXCEPT ![t] = pc], cur + 1, idle + 1)
  BY ZenonT(30) DEF ThreadCounts
<1>0. ASSUME NEW t \in Thread
      PROVE  /\ where[t] \notin {"none", "io"} =>
                /\ \A pc \in WorkerAt \ {"none", "io"} :
                      Counted([where EXCEPT ![t] = pc], cur, idle)
                /\ Counted([where EXCEPT ![t] = "io"], cur, idle - 1)
                /\ Counted([where EXCEPT ![t] = "none"], cur - 1, idle - 1)
             /\ where[t] = "io" =>
                \A pc \in WorkerAt \ {"none", "io"} :
                   Counted([where EXCEPT ![t] = pc], cur, idle + 1)
             /\ where[t] = "none" /\ cur < max_threads =>
                \A pc \in WorkerAt \ {"none", "io"} :
                   Counted([where EXCEPT ![t] = pc], cur + 1, idle + 1)
  BY CountMoves, ZenonT(30)
<1>1. /\ IsFiniteSet(Living(where)) /\ Cardinality(Living(where)) \in Nat
      /\ IsFiniteSet(Idle(where)) /\ Cardinality(Idle(where)) \in Nat
  BY Finite
<1>2. cur = Cardinality(Living(where)) /\ idle = Cardinality(Idle(where))
  BY DEF Counted
<1>3. max_threads \in Nat \ {0} /\ max_threads <= Cardinality(Thread) /\ Cardinality(Thread) \in Nat
  <2>1. Cardinality(Thread) \in Nat
    BY PoolAssumption, FS_CardinalityType
  <2> QED
    BY <2>1, PoolAssumption
<1>4. Living(where) \in SUBSET Thread /\ Idle(where) \in SUBSET Living(where)
  BY DEF Living, Idle
<1>5. cur < max_threads => Living(where) # Thread
  BY <1>1, <1>2, <1>3
<1>6. idle # 0 \/ cur = max_threads => Living(where) # {}
  <2>1. idle # 0 => Idle(where) # {}
    BY <1>2, FS_EmptySet
  <2>2. cur # 0 => Living(where) # {}
    BY <1>2, FS_EmptySet
  <2> QED
    BY <1>3, <1>4, <2>1, <2>2
<1>7. cur \in Nat /\ idle \in Nat /\ max_threads \in Nat
  BY <1>1, <1>2, <1>3
<1>8. cur < max_threads => \E t \in Thread : where[t] = "none"
  BY <1>4, <1>5 DEF Living
<1>9. idle # 0 \/ cur = max_threads => \E t \in Thread : where[t] # "none"
  BY <1>6 DEF Living
<1> QED
  BY <1>0, <1>7, <1>8, <1>9, ZenonT(30)

-----------------------------------------------------------------------------
(* The theorems. *)

\* At the start there is nothing to count.
LEMMA PoolInvInit ==
  ASSUME Init
  PROVE  PoolInv
<1>1. ListsOK
  BY PoolAssumption, EmptySeq DEF Init, ListsOK, Unused, Request, Context
<1>2. Living(at) = {} /\ Idle(at) = {} /\ at \in [Thread -> WorkerAt]
  BY DEF Init, Living, Idle, WorkerAt
<1>3. max_threads \in Nat
  <2>1. Cardinality(Thread) \in Nat
    BY PoolAssumption, FS_CardinalityType
  <2> QED
    BY <2>1, PoolAssumption
<1>4. WorkersOK
  <2>1. cur_threads = 0 /\ idle_threads = 0 /\ job = [t \in Thread |-> NoBlock]
        /\ at = [t \in Thread |-> "none"]
    BY DEF Init
  <2>2. Cardinality({}) = 0
    BY FS_EmptySet
  <2>3. Counted(at, cur_threads, idle_threads)
    BY <1>2, <1>3, <2>1, <2>2 DEF Counted
  <2>4. job \in [Thread -> Block \cup {NoBlock}] /\ \A t \in Thread : at[t] # "io"
    BY <2>1
  <2> QED
    BY <2>3, <2>4, ThreadCountsHold DEF WorkersOK
<1>5. StackOK
  <2> DEFINE s == <<Loop("run")>>
  <2>1. Loop("run") \in Frame /\ Loop("run").op = "main_loop"
    BY NewFrames
  <2>2. s \in Seq(Frame) /\ s # <<>> /\ Len(s) = 1 /\ s[1].op = "main_loop"
    BY <2>1
  <2>3. s \in Stacks
    BY <2>2 DEF Stacks
  <2>4. Reads(s) = {}
    BY <2>2 DEF Reads
  <2>5. Depth(s) = 0
    BY <2>4, FS_EmptySet DEF Depth
  <2>6. stack = s /\ async_context = 0
    BY DEF Init
  <2> HIDE DEF s
  <2> QED
    BY <2>3, <2>5, <2>6, PoolAssumption, ReadCountsHold DEF StackOK, Context
<1>6. AsyncOK
  <2>1. 0 \in 0..MaxFollowUps
    BY PoolAssumption
  <2>2. /\ bh = [c \in Context |-> FALSE] /\ async_ret = [c \in Context |-> FALSE]
        /\ followups = 0 /\ workload \in Workloads /\ sigusr2 = FALSE /\ pipe = FALSE
    BY DEF Init
  <2>3. bh \in [Context -> BOOLEAN] /\ async_ret \in [Context -> BOOLEAN]
    BY <2>2
  <2> QED
    BY <2>1, <2>2, <2>3, ZenonT(30) DEF AsyncOK
<1>7. NoRequestStranded
  BY DEF Init, NoRequestStranded
<1> QED
  BY <1>1, <1>4, <1>5, <1>6, <1>7 DEF PoolInv

\* The invariant of the pool.
LEMMA PoolInvariant == Spec => []PoolInv
BY PoolInvInit, PoolInvStep, PTL DEF Spec

\* The state of the pool has its type; in particular the id of the active
\* context stays in range and the main thread's stack is never empty.
THEOREM AioTypeCorrect == Spec => []AioTypeOK
<1>1. PoolInv => AioTypeOK
  BY Finite, ZenonT(30)
  DEF PoolInv, ListsOK, WorkersOK, StackOK, AsyncOK, AioTypeOK, Counted, Stacks
<1> QED
  BY <1>1, PoolInvariant, PTL

\* The pool's counters are the threads that exist and the threads without a
\* request, and there are never more than max_threads.
THEOREM CountersMatchHolds == Spec => []CountersMatch
<1>1. PoolInv => CountersMatch
  BY CountedIsMatch DEF PoolInv, WorkersOK, Counted
<1> QED
  BY <1>1, PoolInvariant, PTL

\* A queued request always has a thread on its way, or one that the pending
\* cond_signal will wake.
THEOREM NoRequestStrandedHolds == Spec => []NoRequestStranded
<1>1. PoolInv => NoRequestStranded
  BY DEF PoolInv
<1> QED
  BY <1>1, PoolInvariant, PTL

\* The invariant of the pool and of its clients.
LEMMA ServiceInvariant == Spec => []ServiceInv
<1>1. Init /\ PoolInv => ServiceInv
  BY ServiceInvInit
<1>2. ServiceInv /\ PoolInv' /\ [Next]_vars => ServiceInv'
  BY ServiceInvStep
<1> QED
  BY <1>1, <1>2, PoolInvariant, PTL DEF Spec

\* Each block has one owner: no worker writes to a block that was released, and
\* no block is done by two workers.
THEOREM OneOwnerHolds == Spec => []OneOwner
<1>1. ASSUME ServiceInv, NEW a \in Range(first_aio)
      PROVE  Cardinality({t \in Thread : job[t] = a})
                = IF aiocb[a].active /\ aiocb[a].ret = "EINPROGRESS" THEN 1 ELSE 0
  <2> DEFINE T == {t \in Thread : job[t] = a}
  <2>1. a \in Listed /\ a # NoBlock
    BY <1>1, BlockFacts, PoolAssumption DEF Listed
  <2>2. CASE InProgress(a)
    <3>1. PICK t \in Thread : job[t] = a
      BY <1>1, <2>1, <2>2, SMTT(30) DEF ServiceInv, Working
    <3>2. T = {t}
      BY <1>1, <2>1, <3>1, SMTT(30) DEF ServiceInv, Working
    <3>3. Cardinality(T) = 1
      BY <3>2, FS_Singleton, ZenonT(30)
    <3> QED
      BY <2>2, <3>3 DEF InProgress
  <2>3. CASE ~ InProgress(a)
    <3>1. T = {}
      BY <1>1, <2>1, <2>3 DEF ServiceInv, Working
    <3>2. Cardinality(T) = 0
      BY <3>1, FS_EmptySet
    <3> QED
      BY <2>3, <3>2 DEF InProgress
  <2> QED
    BY <2>2, <2>3
<1>2. ServiceInv => OneOwner
  BY <1>1, ZenonT(30) DEF ServiceInv, Owned, Working, Listed, Queued, OneOwner
<1> QED
  BY <1>2, ServiceInvariant, PTL

\* A callback runs within just the synchronous reads within which its request
\* was submitted.
THEOREM ContextsIsolateHolds == Spec => []ContextsIsolate
<1>1. ServiceInv => ContextsIsolate
  BY DEF ServiceInv, Nesting, Isolated, Outer, ContextsIsolate, ReadsAround
<1> QED
  BY <1>1, ServiceInvariant, PTL

\* A completion is noticed: a signal, the pipe or a scan on the stack leads to
\* every finished request of the current context.
LEMMA NoticingInvariant == Spec => [](ServiceInv /\ Noticing)
<1>1. Init => Noticing
  BY NoticingInit
<1>2. ServiceInv /\ Noticing /\ [Next]_vars => Noticing'
  BY NoticingStep
<1> QED
  BY <1>1, <1>2, ServiceInvariant, PTL DEF Spec

\* No completion is lost: when a listed request has finished, a signal is on its
\* way, the pipe is readable, a scan has yet to reach it, its bottom half is
\* scheduled, it is being cancelled, or its context is suspended by a
\* synchronous read.
THEOREM CompletionIsNoticedHolds == Spec => []CompletionIsNoticed
<1>1. ServiceInv /\ Noticing => CompletionIsNoticed
  BY NoticingMeans
<1> QED
  BY <1>1, NoticingInvariant, PTL

\* The pool implements the service: whatever the workers, the signals and the
\* nested scans do, a callback is called once unless the request is cancelled,
\* no callback of an outer request begins within a synchronous operation, and
\* the operation is not left before its requests have ended.
THEOREM ServiceSafeHolds == Spec => ServiceSafe
<1>1. Init /\ PoolInv => Service!Init
  BY ServiceInvInit
<1>2. ServiceInv /\ PoolInv' /\ [Next]_vars => [Service!Next]_(Service!vars)
  BY ServiceInvStep DEF ServiceStep
<1> QED
  BY <1>1, <1>2, PoolInvariant, ServiceInvariant, PTL DEF Spec, ServiceSafe, Service!Safety
=============================================================================

--------------------------- MODULE AioMainProofs ----------------------------
(***************************************************************************)
(* The steps of the main thread that take a block from one owner to another *)
(* keep the invariant of the service and are steps of it.                  *)
(***************************************************************************)
EXTENDS AioServiceProofs

-----------------------------------------------------------------------------
(* Blocks that change hands. *)

\* A submission, in the current context or in a new one.
LEMMA SubmitServes ==
  ASSUME ServiceInv, PoolInv', free_aiocb # {}, NEW c \in Context,
         NEW cb \in {"device", "bdrv_rw_em_cb"}, paio_submit(qemu_aio_get, c, cb),
         Continue, Shape(stack'), Isolated(stack', aiocb), ~ In("paio_cancel")',
         c = async_context', async_context' \in {async_context, async_context + 1},
         c # 0 => /\ \A b \in Listed : Ctx(b) # c
                  /\ \A g \in Calls(stack') : Ctx(g.acb) = c => g.pc = "ret",
         \A k \in 1..async_context' : async_ret'[k] =>
            k # c /\ k \in 1..async_context /\ async_ret[k]
  PROVE  ServiceInv' /\ ServiceStep
<1>0. ListsOK /\ WorkersOK /\ Owned /\ Working /\ Called' = Called /\ async_context \in Nat
  BY TopFacts DEF ServiceInv, PoolInv, Continue
<1>1. PICK a \in free_aiocb :
            /\ Owned' /\ Working'
            /\ a \in Block /\ a \notin Listed /\ a \notin Called
            /\ Listed' = Listed \cup {a}
            /\ aiocb'[a].context = c
            /\ \A b \in Block : b # a => aiocb'[b] = aiocb[b]
  BY <1>0, SubmitOwned DEF ServiceInv, PoolInv
<1>2. /\ Listed \in SUBSET Block /\ Called \in SUBSET Block
      /\ \A f \in Calls(stack) : f.acb \in Called
      /\ \A b \in Block : Ctx(b) \in Nat
  BY BlockFacts
<1>3. \A g \in Calls(stack') : g.acb \in Called /\ g.acb # a
  BY <1>1, <1>2 DEF Continue
<1>4. Nesting'
  <2>1. \A g \in Calls(stack') : aiocb'[g.acb].context = aiocb[g.acb].context
    BY <1>1, <1>2, <1>3
  <2> QED
    BY <2>1, SameContexts DEF Nesting
<1>5. /\ Ctx(a)' = c /\ \A b \in Block : b # a => Ctx(b)' = Ctx(b)
  BY <1>1 DEF Ctx
<1>6. Chains'
  <2>1. \A b \in Listed' : Ctx(b)' <= async_context'
    BY <1>0, <1>1, <1>2, <1>5 DEF ServiceInv, Chains
  <2>2. \A b, d \in Listed' : Ctx(b)' = Ctx(d)' /\ Ctx(b)' # 0 => b = d
    BY <1>1, <1>2, <1>5 DEF ServiceInv, Chains
  <2>3. \A g \in Calls(stack') : Ctx(g.acb)' = Ctx(g.acb)
    BY <1>2, <1>3, <1>5
  <2>4. \A b \in Listed', g \in Calls(stack') :
           Ctx(b)' = Ctx(g.acb)' /\ Ctx(b)' # 0 => g.pc = "ret"
    <3> TAKE b \in Listed', g \in Calls(stack')
    <3>1. CASE b = a
      BY <1>5, <2>3, <3>1
    <3>2. CASE b # a
      <4>1. PICK f \in Calls(stack) : f.acb = g.acb /\ (f.pc = "ret" => g.pc = "ret")
        BY DEF Continue
      <4>2. b \in Listed /\ Ctx(b)' = Ctx(b)
        BY <1>1, <1>2, <1>5, <3>2
      <4>3. Ctx(b) = Ctx(f.acb) /\ Ctx(b) # 0 => f.pc = "ret"
        BY <4>1, <4>2, SMTT(30) DEF ServiceInv, Chains
      <4> QED
        BY <2>3, <4>1, <4>2, <4>3
    <3> QED
      BY <3>1, <3>2
  <2>5. ASSUME NEW k \in 1..async_context', async_ret'[k]
        PROVE  /\ \A b \in Listed' : Ctx(b)' # k
               /\ \A g \in Calls(stack') : Ctx(g.acb)' # k
    <3>1. k # c /\ k \in 1..async_context /\ async_ret[k]
      BY <2>5
    <3>2. (\A b \in Listed : Ctx(b) # k) /\ (\A f \in Calls(stack) : Ctx(f.acb) # k)
      BY <3>1 DEF ServiceInv, Chains
    <3> QED
      BY <1>1, <1>2, <1>5, <2>3, <3>1, <3>2 DEF Continue
  <2> QED
    BY <2>1, <2>2, <2>4, <2>5 DEF Chains, Ctx
<1>7. ServiceInv'
  BY <1>1, <1>4, <1>6 DEF ServiceInv, Cancelling
<1>8. [b \in Block |-> aiocb'[b].context] = [[b \in Block |-> aiocb[b].context] EXCEPT ![a] = c]
  BY <1>1, Levels, SMTT(30)
<1>9. CASE async_context' = async_context
  <2>1. Service!Submit(a)
    BY <1>0, <1>1, <1>8, <1>9, ZenonT(30) DEF Service!Submit, Service!SubmitAt, Service!Idle, Listed
  <2> QED
    BY <1>1, <1>7, <2>1, SMTT(30) DEF ServiceStep, Service!Next
<1>10. CASE async_context' = async_context + 1
  <2>1. Service!Enter(a)
    BY <1>0, <1>1, <1>8, <1>10 DEF Service!Enter, Service!SubmitAt, Service!Idle, Listed
  <2> QED
    BY <1>1, <1>7, <2>1 DEF ServiceStep, Service!Next
<1> QED
  BY <1>9, <1>10

\* A block that no worker has leaves the lists.
LEMMA RemoveServes ==
  ASSUME ServiceInv, PoolInv', NEW a \in Listed, ~ InProgress(a), paio_remove(a),
         Queued' = Queued \ {a}, NoDuplicates(request_list'),
         Continue, Shape(stack'), Isolated(stack', aiocb), ~ In("paio_cancel")',
         UNCHANGED <<workers, async>>
  PROVE  ServiceInv' /\ ServiceStep
<1>1. /\ Listed \in SUBSET Block /\ Called \in SUBSET Block
      /\ aiocb \in [Block -> Request]
      /\ \A f \in Calls(stack) : f.acb \in Called
  BY BlockFacts
<1>2. a \in Block /\ a \notin Called /\ Called' = Called
  BY <1>1 DEF ServiceInv, Owned, Continue
<1>3. Listed' = Listed \ {a} /\ NoDuplicates(first_aio')
  <2>1. PICK i \in DOMAIN first_aio : first_aio[i] = a /\ first_aio' = RemoveAt(first_aio, i)
    BY DEF paio_remove
  <2>2. first_aio \in Seq(Block) /\ i \in 1..Len(first_aio) /\ NoDuplicates(first_aio)
    BY LenProperties DEF ServiceInv, PoolInv, ListsOK, Owned
  <2> QED
    BY <2>1, <2>2, RemoveRange DEF Listed
<1>4. free_aiocb' = free_aiocb \cup {a} /\ aiocb' = [aiocb EXCEPT ![a] = Unused]
  BY DEF paio_remove, qemu_aio_release, Released
<1>5. aiocb'[a].context = 0 /\ \A b \in Block : b # a => aiocb'[b] = aiocb[b]
  BY <1>1, <1>2, <1>4 DEF Unused
<1>6. Owned'
  <2>1. /\ Block = free_aiocb' \cup Listed' \cup Called'
        /\ free_aiocb' \cap (Listed' \cup Called') = {}
        /\ Listed' \cap Called' = {}
        /\ Queued' \subseteq Listed'
    BY <1>2, <1>3, <1>4 DEF ServiceInv, Owned
  <2>2. \A b \in Listed' : b \in Queued' <=> ~ aiocb'[b].active
    BY <1>1, <1>3, <1>5 DEF ServiceInv, Owned
  <2>3. \A b \in Queued' : aiocb'[b].ret = "EINPROGRESS"
    BY <1>1, <1>5 DEF ServiceInv, Owned
  <2> QED
    BY <1>3, <2>1, <2>2, <2>3 DEF Owned
<1>7. Working'
  <2>1. at' = at /\ job' = job
    BY DEF workers
  <2>2. \A b \in Listed' : b \in Listed /\ (InProgress(b)' <=> InProgress(b))
    BY <1>1, <1>3, <1>5 DEF InProgress
  <2>3. ASSUME NEW t \in Thread
        PROVE  IF at'[t] = "io" THEN job'[t] \in Listed' /\ InProgress(job[t])' ELSE job'[t] = NoBlock
    <3>1. IF at[t] = "io" THEN job[t] \in Listed /\ InProgress(job[t]) ELSE job[t] = NoBlock
      BY DEF ServiceInv, Working
    <3>2. at[t] = "io" => job[t] \in Listed'
      BY <1>3, <3>1, SMTT(30)
    <3> QED
      BY <2>1, <2>2, <3>1, <3>2
  <2>4. \A t, u \in Thread : job'[t] = job'[u] /\ job'[t] # NoBlock => t = u
    BY <2>1 DEF ServiceInv, Working
  <2>5. \A b \in Listed' : InProgress(b)' => \E t \in Thread : job'[t] = b
    BY <2>1, <2>2 DEF ServiceInv, Working
  <2> QED
    BY <2>3, <2>4, <2>5 DEF Working, InProgress
<1>8. \A g \in Calls(stack') : g.acb \in Called /\ g.acb # a
  BY <1>1, <1>2, SMTT(30) DEF Continue
<1>9. Nesting'
  <2>1. \A g \in Calls(stack') : aiocb'[g.acb].context = aiocb[g.acb].context
    BY <1>1, <1>5, <1>8, SMTT(30)
  <2> QED
    BY <2>1, SameContexts, SMTT(30) DEF Nesting
<1>10. Chains'
  <2>1. async_context' = async_context /\ async_ret' = async_ret
    BY SMTT(30) DEF async
  <2>2. \A b \in Listed' : b \in Listed /\ Ctx(b)' = Ctx(b)
    BY <1>1, <1>3, <1>5, SMTT(30) DEF Ctx
  <2>3. \A g \in Calls(stack') : \E f \in Calls(stack) :
           Ctx(g.acb)' = Ctx(f.acb) /\ (f.pc = "ret" => g.pc = "ret")
    BY <1>1, <1>5, <1>8, ZenonT(30) DEF Continue, Ctx
  <2>4. \A b \in Listed', g \in Calls(stack') :
           Ctx(b)' = Ctx(g.acb)' /\ Ctx(b)' # 0 => g.pc = "ret"
    <3> TAKE b \in Listed', g \in Calls(stack')
    <3>1. PICK f \in Calls(stack) : Ctx(g.acb)' = Ctx(f.acb) /\ (f.pc = "ret" => g.pc = "ret")
      BY <2>3
    <3>2. Ctx(b) = Ctx(f.acb) /\ Ctx(b) # 0 => f.pc = "ret"
      BY <2>2, <3>1 DEF ServiceInv, Chains
    <3> QED
      BY <2>2, <3>1, <3>2
  <2> QED
    BY <2>1, <2>2, <2>3, <2>4 DEF ServiceInv, Chains, Ctx
<1>11. ServiceInv'
  BY <1>6, <1>7, <1>9, <1>10 DEF ServiceInv, Cancelling
<1>12. [b \in Block |-> aiocb'[b].context] = [[b \in Block |-> aiocb[b].context] EXCEPT ![a] = 0]
  BY <1>2, <1>5, Levels, SMTT(30)
<1>13. Service!Cancel(a)
  BY <1>2, <1>3, <1>12 DEF Service!Cancel, Listed, async
<1> QED
  BY <1>2, <1>11, <1>13 DEF ServiceStep, Service!Next

\* The callback of a finished request begins.
LEMMA BeginServes ==
  ASSUME ServiceInv, PoolInv', NEW a \in Listed, aiocb[a].ret # "EINPROGRESS",
         Ctx(a) = async_context, Listed' = Listed \ {a}, NoDuplicates(first_aio'),
         UNCHANGED <<request_list, free_aiocb, aiocb, workers, async>>,
         Calls(stack') = Calls(stack) \cup {Callback(a)},
         Shape(stack'), Isolated(stack', aiocb), ~ In("paio_cancel")',
         \A f \in Calls(stack) : Ctx(f.acb) < async_context
  PROVE  ServiceInv' /\ ServiceStep
<1>1. /\ Listed \in SUBSET Block /\ Called \in SUBSET Block /\ a \in Block
      /\ \A f \in Calls(stack) : f.acb \in Called
      /\ \A b \in Block : Ctx(b) \in Nat
  BY BlockFacts
<1>2. Callback(a).acb = a /\ Callback(a).pc = "body"
  BY DEF Callback
<1>3. Called' = Called \cup {a}
  <2>1. Called = {f.acb : f \in Calls(stack)} /\ Called' = {f.acb : f \in Calls(stack')}
    BY DEF Called, Calls
  <2> QED
    BY <1>2, <2>1
<1>4. /\ async_context' = async_context /\ async_ret' = async_ret
      /\ at' = at /\ job' = job /\ aiocb' = aiocb /\ Queued' = Queued
  BY DEF async, workers, Queued
<1>5. Nesting'
  BY <1>4 DEF Nesting
<1>6. Owned'
  <2>1. a \notin Queued
    BY DEF ServiceInv, Owned
  <2>2. /\ Block = free_aiocb' \cup Listed' \cup Called'
        /\ free_aiocb' \cap (Listed' \cup Called') = {}
        /\ Listed' \cap Called' = {}
        /\ Queued' \subseteq Listed'
    BY <1>3, <1>4, <2>1, SMTT(30) DEF ServiceInv, Owned
  <2> QED
    BY <1>4, <2>2 DEF ServiceInv, Owned
<1>7. Working'
  <2>1. \A t \in Thread : at[t] = "io" => job[t] # a
    BY DEF ServiceInv, Working, InProgress
  <2>2. \A b : InProgress(b)' <=> InProgress(b)
    BY <1>4, SMTT(30) DEF InProgress
  <2> QED
    BY <1>4, <2>1, <2>2, ZenonT(30) DEF ServiceInv, Working, InProgress
<1>8. Chains'
  <2>1. \A b : Ctx(b)' = Ctx(b)
    BY <1>4 DEF Ctx
  <2>2. \A b \in Listed' : b \in Listed /\ b # a
    OBVIOUS
  <2>3. \A b \in Listed', f \in Calls(stack') :
           Ctx(b) = Ctx(f.acb) /\ Ctx(b) # 0 => f.pc = "ret"
    <3> TAKE b \in Listed', f \in Calls(stack')
    <3>1. CASE f \in Calls(stack)
      BY <2>2, <3>1 DEF ServiceInv, Chains
    <3>2. CASE f = Callback(a)
      BY <1>2, <2>2, <3>2 DEF ServiceInv, Chains
    <3> QED
      BY <3>1, <3>2
  <2>4. ASSUME NEW c \in 1..async_context, async_ret[c]
        PROVE  (\A b \in Listed' : Ctx(b) # c) /\ (\A f \in Calls(stack') : Ctx(f.acb) # c)
    BY <1>2, <2>2, <2>4, SMTT(30) DEF ServiceInv, Chains
  <2> QED
    BY <1>4, <2>1, <2>2, <2>3, <2>4 DEF ServiceInv, Chains, Ctx
<1>9. ServiceInv'
  BY <1>5, <1>6, <1>7, <1>8, ZenonT(30) DEF ServiceInv, Cancelling
<1>10. Service!Begin(a)
  BY <1>1, <1>3, <1>4 DEF Service!Begin, Listed, Ctx
<1> QED
  BY <1>1, <1>9, <1>10 DEF ServiceStep, Service!Next

\* A callback returns and its block is released.
LEMMA EndServes ==
  ASSUME ServiceInv, PoolInv', NEW top \in Calls(stack), Ctx(top.acb) = async_context,
         free_aiocb' = free_aiocb \cup {top.acb}, aiocb' = Released(top.acb),
         UNCHANGED <<request_list, first_aio, workers, async_context>>,
         \/ async_ret' = async_ret
         \/ async_ret' = [async_ret EXCEPT ![async_context] = TRUE] /\ top.pc # "ret",
         Calls(stack) = Calls(stack') \cup {top},
         Shape(stack'), Isolated(stack', aiocb), ~ In("paio_cancel")',
         \A f \in Calls(stack') : Ctx(f.acb) < async_context
  PROVE  ServiceInv' /\ ServiceStep
<1> DEFINE a == top.acb
<1>1. /\ Listed \in SUBSET Block /\ Called \in SUBSET Block /\ a \in Called
      /\ aiocb \in [Block -> Request]
      /\ \A f \in Calls(stack) : f.acb \in Called
      /\ \A b \in Block : Ctx(b) \in Nat
  BY BlockFacts
<1>2. a \in Block /\ a \notin Listed /\ a \notin Queued /\ a \notin free_aiocb
  BY <1>1 DEF ServiceInv, Owned
<1>3. \A f \in Calls(stack') : f \in Calls(stack) /\ f.acb # a
  BY <1>1
<1>4. Called' = Called \ {a}
  <2>1. Called = {f.acb : f \in Calls(stack)} /\ Called' = {f.acb : f \in Calls(stack')}
    BY DEF Called, Calls
  <2> QED
    BY <1>3, <2>1
<1>5. aiocb'[a].context = 0 /\ \A b \in Block : b # a => aiocb'[b] = aiocb[b]
  BY <1>1, <1>2 DEF Released, Unused
<1>6. Listed' = Listed /\ Queued' = Queued /\ at' = at /\ job' = job
  BY DEF Listed, Queued, workers
<1> HIDE DEF a
<1>7. Nesting'
  <2>1. \A f \in Calls(stack') : aiocb'[f.acb].context = aiocb[f.acb].context
    BY <1>1, <1>3, <1>5
  <2> QED
    BY <2>1, SameContexts DEF Nesting
<1>8. Owned'
  <2>1. /\ Block = free_aiocb' \cup Listed' \cup Called'
        /\ free_aiocb' \cap (Listed' \cup Called') = {}
        /\ Listed' \cap Called' = {}
        /\ Queued' \subseteq Listed'
    BY <1>1, <1>2, <1>4, <1>6, SMTT(30) DEF ServiceInv, Owned, a
  <2>2. \A b \in Listed : aiocb'[b] = aiocb[b]
    BY <1>1, <1>2, <1>5
  <2>3. Queued \subseteq Listed
    BY SMTT(30) DEF ServiceInv, Owned
  <2> QED
    BY <1>6, <2>1, <2>2, <2>3, SMTT(30) DEF ServiceInv, Owned
<1>9. Working'
  <2>1. \A b \in Listed : InProgress(b)' <=> InProgress(b)
    BY <1>1, <1>2, <1>5, SMTT(30) DEF InProgress
  <2>2. ASSUME NEW t \in Thread
        PROVE  IF at'[t] = "io" THEN job'[t] \in Listed' /\ InProgress(job[t])' ELSE job'[t] = NoBlock
    BY <1>6, <2>1, SMTT(30) DEF ServiceInv, Working
  <2> QED
    BY <1>6, <2>1, <2>2 DEF ServiceInv, Working, InProgress
<1>10. Chains'
  <2>1. \A b \in Listed : Ctx(b)' = Ctx(b)
    BY <1>1, <1>2, <1>5, Zenon DEF Ctx
  <2>2. \A f \in Calls(stack') : f \in Calls(stack) /\ Ctx(f.acb)' = Ctx(f.acb)
    BY <1>1, <1>3, <1>5, ZenonT(30) DEF Ctx
  <2>3. ASSUME NEW c \in 1..async_context, async_ret'[c]
        PROVE  (\A b \in Listed : Ctx(b) # c) /\ (\A f \in Calls(stack') : Ctx(f.acb) # c)
    <3>1. CASE async_ret[c]
      BY <2>2, <3>1 DEF ServiceInv, Chains
    <3>2. CASE ~ async_ret[c]
      <4>1. async_ret \in [Context -> BOOLEAN] /\ async_context \in Nat /\ c \in Context
        BY TopFacts DEF ServiceInv, PoolInv, AsyncOK, StackOK, Context
      <4>2. c = async_context /\ top.pc # "ret"
        <5>1. async_ret' = [async_ret EXCEPT ![async_context] = TRUE] /\ top.pc # "ret"
          BY <2>3, <3>2
        <5>2. c # async_context => async_ret'[c] = async_ret[c]
          BY <4>1, <5>1
        <5> QED
          BY <2>3, <3>2, <5>1, <5>2
      <4>3. \A b \in Listed : Ctx(b) # c
        BY <4>1, <4>2 DEF ServiceInv, Chains
      <4>4. \A f \in Calls(stack') : Ctx(f.acb) # c
        BY <1>1, <2>2, <4>1, <4>2, SMTT(30)
      <4> QED
        BY <4>3, <4>4
    <3> QED
      BY <3>1, <3>2
  <2>4. async_context' = async_context
    OBVIOUS
  <2> QED
    BY <1>6, <2>1, <2>2, <2>3, <2>4, SMTT(30) DEF ServiceInv, Chains, Ctx
<1>11. ServiceInv'
  BY <1>7, <1>8, <1>9, <1>10, SMTT(30) DEF ServiceInv, Cancelling
<1>12. [b \in Block |-> aiocb'[b].context] = [[b \in Block |-> aiocb[b].context] EXCEPT ![a] = 0]
  BY <1>2, <1>5, Levels, SMTT(30)
<1>13. Service!End(a)
  BY <1>1, <1>2, <1>4, <1>12 DEF Service!End, Ctx, a
<1> QED
  BY <1>2, <1>11, <1>13 DEF ServiceStep, Service!Next

-----------------------------------------------------------------------------
(* The steps of the main thread. *)

\* Stacks with which the callbacks in progress go on.
GoesOn(s) ==
    /\ ReadCounts
    /\ s \in Stacks /\ Shape(s) /\ Isolated(s, aiocb)
    /\ {f.acb : f \in Calls(s)} = Called
    /\ \A g \in Calls(s) : \E f \in Calls(stack) :
        f.acb = g.acb /\ (f.pc = "ret" => g.pc = "ret")

\* The stack as it is, and its top.
LEMMA TopView ==
  ASSUME ServiceInv
  PROVE  /\ GoesOn(stack) /\ stack \in Stacks /\ Top \in Frame /\ Head(stack) = Top
         /\ Depth(stack) = async_context /\ async_context \in Nat
         /\ \A f \in Calls(stack) : Ctx(f.acb) <= async_context
         /\ Top.op \notin Leaf => \A f \in Calls(Tail(stack)) : Ctx(f.acb) < async_context
<1>1. /\ stack \in Stacks /\ stack # <<>> /\ Top \in Frame /\ Head(stack) = Top
      /\ Depth(stack) = async_context /\ async_context \in Nat
  BY TopFacts DEF ServiceInv, PoolInv, Top
<1>2. Called = {f.acb : f \in Calls(stack)}
  BY DEF Called, Calls
<1>3. GoesOn(stack)
  BY <1>1, <1>2 DEF GoesOn, ServiceInv, PoolInv, StackOK, Nesting
<1>4. stack \in Seq(Frame)
  BY <1>1 DEF Stacks
<1>5. /\ \A f \in Calls(stack) : aiocb[f.acb].context \in 0..Depth(stack)
      /\ Head(stack).op \notin Leaf =>
            \A f \in Calls(Tail(stack)) : aiocb[f.acb].context < Depth(stack)
  BY <1>1, <1>4, Inner DEF ServiceInv, PoolInv, StackOK, Nesting
<1> QED
  BY <1>1, <1>3, <1>5 DEF Ctx

\* A function that is no callback is called.
LEMMA CallGoesOn ==
  ASSUME NEW s, GoesOn(s), NEW f \in Frame, f.op # "callback", Fits(f, Head(s))
  PROVE  GoesOn(<<f>> \o s) /\ Head(<<f>> \o s) = f
<1>1. s \in Stacks /\ Shape(s) /\ Isolated(s, aiocb) /\ ReadCounts
  BY DEF GoesOn
<1> DEFINE u == <<f>> \o s
<1>2. u \in Stacks /\ Head(u) = f
  BY <1>1, StackPush
<1>3. Shape(u) /\ Isolated(u, aiocb) /\ Calls(u) = Calls(s) \cup CallOf(f)
  BY <1>1, CallView
<1> HIDE DEF u
<1>4. Calls(u) = Calls(s)
  BY <1>3, SMTT(30) DEF CallOf
<1>5. GoesOn(u)
  BY <1>1, <1>2, <1>3, <1>4 DEF GoesOn
<1> QED
  BY <1>2, <1>5 DEF u

\* A function that is no callback returns.
LEMMA ReturnGoesOn ==
  ASSUME NEW s, GoesOn(s), Head(s).op \notin {"main_loop", "callback"}
  PROVE  GoesOn(Tail(s)) /\ Fits(Head(s), Head(Tail(s)))
<1>1. s \in Stacks /\ Shape(s) /\ Isolated(s, aiocb) /\ ReadCounts
  BY DEF GoesOn
<1>2. Tail(s) \in Stacks
  BY <1>1, StackPop
<1>3. /\ Shape(Tail(s)) /\ Isolated(Tail(s), aiocb) /\ Fits(Head(s), Head(Tail(s)))
      /\ Calls(s) = Calls(Tail(s)) \cup CallOf(Head(s))
  BY <1>1, ReturnView, ZenonT(30)
<1>4. Calls(s) = Calls(Tail(s))
  BY <1>3, Zenon DEF CallOf
<1> QED
  BY <1>1, <1>2, <1>3, <1>4, ZenonT(30) DEF GoesOn

\* The function at the top goes on.
LEMMA GotoGoesOn ==
  ASSUME NEW s, GoesOn(s), NEW f \in Frame, Swap(f, Head(s)),
         f.op = "callback" => (Head(s).pc = "ret" => f.pc = "ret")
  PROVE  GoesOn(<<f>> \o Tail(s)) /\ Head(<<f>> \o Tail(s)) = f
<1>1. s \in Stacks /\ Shape(s) /\ Isolated(s, aiocb) /\ ReadCounts
  BY DEF GoesOn
<1> DEFINE g == Head(s)
           r == Tail(s)
           u == <<f>> \o r
<1>2. IsRead(f) = IsRead(g) /\ (g.op = "main_loop" => f.op = "main_loop")
  BY DEF Swap, IsRead
<1>3. u \in Stacks /\ Head(u) = f
  BY <1>1, <1>2, StackGoto
<1>4. /\ Shape(u) /\ Isolated(u, aiocb)
      /\ Calls(u) = Calls(r) \cup CallOf(f) /\ Calls(s) = Calls(r) \cup CallOf(g)
  BY <1>1, GotoView, SMTT(30)
<1>5. CASE f.op # "callback"
  <2>1. CallOf(f) = {} /\ CallOf(g) = {}
    BY <1>5 DEF CallOf, Swap
  <2>2. Calls(u) = Calls(s)
    BY <1>4, <2>1
  <2> QED
    BY <1>1, <1>3, <1>4, <2>2 DEF GoesOn
<1>6. CASE f.op = "callback"
  <2>1. /\ CallOf(f) = {f} /\ CallOf(g) = {g} /\ f.acb = g.acb
        /\ g.pc = "ret" => f.pc = "ret"
    BY <1>6 DEF CallOf, Swap
  <2> HIDE DEF g, r, u
  <2>2. {h.acb : h \in Calls(u)} = {h.acb : h \in Calls(s)}
    BY <1>4, <2>1
  <2>3. \A h \in Calls(u) : \E k \in Calls(s) : k.acb = h.acb /\ (k.pc = "ret" => h.pc = "ret")
    BY <1>4, <2>1, SMTT(30)
  <2>4. GoesOn(u)
    BY <1>1, <1>3, <1>4, <2>2, <2>3, ZenonT(30) DEF GoesOn
  <2> QED
    BY <1>3, <2>4 DEF u, r
<1> QED
  BY <1>5, <1>6

\* A step of the main thread that moves no block.
LEMMA MainStill ==
  ASSUME ServiceInv, PoolInv', GoesOn(stack'), Head(stack').op # "paio_cancel",
         UNCHANGED <<lists, job, async_context, async_ret>>,
         \A t \in Thread : at'[t] = "io" <=> at[t] = "io"
  PROVE  ServiceInv' /\ ServiceStep
<1>1. Nesting'
  BY ZenonT(30) DEF GoesOn, Nesting, lists
<1>2. Called' = {f.acb : f \in Calls(stack')}
  BY SMTT(30) DEF Called, Calls
<1>3. Continue
  BY <1>2, ZenonT(30) DEF GoesOn, Continue
<1>4. Cancelling'
  BY DEF Cancelling, In, Top
<1> QED
  BY <1>1, <1>3, <1>4, StillStep, SMTT(30)

\* The signal handler.
LEMMA HandlerServes ==
  ASSUME ServiceInv, PoolInv', aio_signal_handler
  PROVE  ServiceInv' /\ ServiceStep
<1>1. UNCHANGED <<lists, job, async, stack, at>>
  BY DEF aio_signal_handler, workers
<1> QED
  BY <1>1, OtherStep

\* A thread is woken.
LEMMA SignalServes ==
  ASSUME ServiceInv, PoolInv', cond_signal
  PROVE  ServiceInv' /\ ServiceStep
<1>1. /\ Top.op = "cond_signal" /\ stack' = Tail(stack)
      /\ UNCHANGED <<lists, job, async_context, async_ret>>
  BY DEF cond_signal, In, Return, async
<1>2. at \in [Thread -> WorkerAt]
  BY DEF ServiceInv, PoolInv, WorkersOK, Counted
<1>3. \A t \in Thread : at'[t] = "io" <=> at[t] = "io"
  <2>1. CASE \E t \in Thread : at[t] = "wait"
    <3>1. PICK t \in Thread : at[t] = "wait" /\ at' = [at EXCEPT ![t] = "lock"]
      BY <2>1 DEF cond_signal
    <3> QED
      BY <1>2, <3>1
  <2>2. CASE ~ \E t \in Thread : at[t] = "wait"
    BY <2>2 DEF cond_signal
  <2> QED
    BY <2>1, <2>2
<1>4. GoesOn(stack) /\ Head(stack) = Top
  BY TopView
<1>5. GoesOn(stack') /\ Head(stack').op # "paio_cancel"
  BY <1>1, <1>4, ReturnGoesOn, ZenonT(30) DEF Fits, Leaf
<1> QED
  BY <1>1, <1>3, <1>5, MainStill, ZenonT(30)

\* A block that is not in progress is unlinked.
LEMMA UnlinkServes ==
  ASSUME ServiceInv, PoolInv', NEW a \in Listed, ~ InProgress(a), paio_remove(a),
         \/ UNCHANGED request_list /\ aiocb[a].active
         \/ \E i \in DOMAIN request_list :
               request_list[i] = a /\ request_list' = RemoveAt(request_list, i),
         GoesOn(stack'), Head(stack').op # "paio_cancel", UNCHANGED <<workers, async>>
  PROVE  ServiceInv' /\ ServiceStep
<1>1. Queued' = Queued \ {a} /\ NoDuplicates(request_list')
  <2>1. CASE UNCHANGED request_list /\ aiocb[a].active
    BY <2>1 DEF ServiceInv, Owned, Queued
  <2>2. CASE \E i \in DOMAIN request_list :
               request_list[i] = a /\ request_list' = RemoveAt(request_list, i)
    <3>1. PICK i \in DOMAIN request_list :
               request_list[i] = a /\ request_list' = RemoveAt(request_list, i)
      BY <2>2, SMTT(30)
    <3>2. request_list \in Seq(Block) /\ i \in 1..Len(request_list) /\ NoDuplicates(request_list)
      BY LenProperties DEF ServiceInv, PoolInv, ListsOK, Owned
    <3> QED
      BY <3>1, <3>2, RemoveRange DEF Queued
  <2> QED
    BY <2>1, <2>2, SMTT(30)
<1>2. Called' = {f.acb : f \in Calls(stack')}
  BY SMTT(30) DEF Called, Calls
<1>3. Continue /\ Shape(stack') /\ Isolated(stack', aiocb)
  BY <1>2 DEF GoesOn, Continue
<1>4. ~ In("paio_cancel")'
  BY SMTT(30) DEF In, Top
<1> QED
  BY <1>1, <1>3, <1>4, RemoveServes

\* The busy wait of paio_cancel ends.
LEMMA CancelEndsServes ==
  ASSUME ServiceInv, PoolInv', CancelEnds
  PROVE  ServiceInv' /\ ServiceStep
<1>1. PICK a : a = Top.acb
  OBVIOUS
<1>2. /\ Top.op = "paio_cancel" /\ stack' = Tail(stack) /\ paio_remove(a)
      /\ aiocb[a].ret # "EINPROGRESS"
      /\ UNCHANGED <<request_list, workers, async>>
  BY <1>1 DEF CancelEnds, In, Return
<1>3. a \in Listed /\ aiocb[a].active /\ ~ InProgress(a)
  BY <1>1, <1>2 DEF ServiceInv, Cancelling, CancelEnds, InProgress
<1>4. GoesOn(stack) /\ Head(stack) = Top
  BY TopView
<1>5. GoesOn(stack') /\ Head(stack').op # "paio_cancel"
  BY <1>2, <1>4, ReturnGoesOn, ZenonT(30) DEF Fits, Leaf
<1> QED
  BY <1>2, <1>3, <1>5, UnlinkServes, ZenonT(30)

\* The first critical section of paio_cancel.
LEMMA CancelServes ==
  ASSUME ServiceInv, PoolInv', NEW a \in Listed, NEW caller \in Frame,
         Swap(caller, Top), caller.op \in {"main_loop", "callback"},
         caller.op = "callback" => (Top.pc = "ret" => caller.pc = "ret"),
         paio_cancel(a, caller), UNCHANGED <<workers, wakeup, async, client>>
  PROVE  ServiceInv' /\ ServiceStep
<1>1. GoesOn(stack) /\ Head(stack) = Top /\ stack \in Stacks
  BY TopView
<1> DEFINE base == <<caller>> \o Tail(stack)
<1>2. GoesOn(base) /\ Head(base) = caller
  BY <1>1, GotoGoesOn
<1> HIDE DEF base
<1>3. UNCHANGED <<workers, async>> /\ a \in Block
  BY BlockFacts, SMTT(30)
<1>4. ASSUME ~ InProgress(a), paio_remove(a), Goto(caller),
             \/ UNCHANGED request_list /\ aiocb[a].active
             \/ \E i \in DOMAIN request_list :
                   request_list[i] = a /\ request_list' = RemoveAt(request_list, i)
      PROVE  ServiceInv' /\ ServiceStep
  <2>1. stack' = base
    BY <1>4 DEF Goto, base
  <2>2. GoesOn(stack') /\ Head(stack').op # "paio_cancel"
    BY <1>2, <2>1, SMTT(30)
  <2> QED
    BY <1>3, <1>4, <2>2, UnlinkServes, SMTT(30)
<1>5. CASE /\ ~ aiocb[a].active
           /\ \E i \in DOMAIN request_list :
                request_list[i] = a /\ request_list' = RemoveAt(request_list, i)
           /\ paio_remove(a) /\ Goto(caller)
  BY <1>4, <1>5, ZenonT(30) DEF InProgress
<1>6. CASE /\ aiocb[a].active /\ aiocb[a].ret # "EINPROGRESS"
           /\ paio_remove(a) /\ Goto(caller) /\ UNCHANGED request_list
  BY <1>4, <1>6 DEF InProgress
<1>7. CASE /\ aiocb[a].active
           /\ stack' = <<Cancel(a), caller>> \o Tail(stack)
           /\ UNCHANGED lists
  <2>1. Cancel(a) \in Frame /\ Cancel(a).op = "paio_cancel" /\ Cancel(a).acb = a
    BY <1>3, NewFrames, ZenonT(30) DEF Cancel
  <2>2. Tail(stack) \in Seq(Frame)
    BY <1>1, Split DEF Stacks
  <2>3. stack' = <<Cancel(a)>> \o base
    BY <1>7, <2>1, <2>2, Push2, Zenon DEF base
  <2>4. Fits(Cancel(a), caller)
    BY <2>1 DEF Fits, Leaf
  <2>5. GoesOn(stack') /\ Head(stack') = Cancel(a)
    BY <1>2, <2>1, <2>3, <2>4, CallGoesOn, SMTT(30)
  <2>6. Nesting' /\ aiocb' = aiocb /\ Listed' = Listed
    BY <1>7, <2>5, ZenonT(30) DEF GoesOn, Nesting, lists, Listed
  <2>7. Called' = {f.acb : f \in Calls(stack')}
    BY SMTT(30) DEF Called, Calls
  <2>8. Continue
    BY <2>5, <2>7, ZenonT(30) DEF GoesOn, Continue
  <2>9. Cancelling'
    BY <1>7, <2>1, <2>5, <2>6, ZenonT(30) DEF Cancelling, Top
  <2>10. UNCHANGED <<job, at, async_context, async_ret>>
    BY DEF workers, async
  <2> QED
    BY <1>7, <2>6, <2>8, <2>9, <2>10, StillStep, SMTT(30)
<1> QED
  BY <1>5, <1>6, <1>7 DEF paio_cancel

\* The scan comes to the end of the list.
LEMMA ScanEndsServes ==
  ASSUME ServiceInv, PoolInv', ScanEnds
  PROVE  ServiceInv' /\ ServiceStep
<1>1. /\ Top.op = "process_queue"
      /\ UNCHANGED <<lists, job, at, async_context, async_ret>>
  BY DEF ScanEnds, In, workers, async
<1>2. GoesOn(stack) /\ Head(stack) = Top
  BY TopView
<1> DEFINE rest == Tail(stack)
<1>3. GoesOn(rest) /\ Fits(Top, Head(rest))
  BY <1>1, <1>2, ReturnGoesOn, ZenonT(30)
<1> HIDE DEF rest
<1>4. \/ stack' = rest
      \/ Head(rest).op = "aio_wait" /\ stack' = Tail(rest)
      \/ Head(rest).op = "aio_wait" /\ stack' = <<Wait("select")>> \o Tail(rest)
  BY ZenonT(30) DEF ScanEnds, rest
<1>5. GoesOn(stack') /\ Head(stack').op # "paio_cancel"
  <2>1. CASE stack' = rest
    BY <1>3, <2>1 DEF Fits, Leaf
  <2>2. CASE Head(rest).op = "aio_wait" /\ stack' = Tail(rest)
    <3>1. GoesOn(Tail(rest)) /\ Fits(Head(rest), Head(Tail(rest)))
      BY <1>3, <2>2, ReturnGoesOn, ZenonT(30)
    <3> QED
      BY <2>2, <3>1, Zenon DEF Fits, Leaf
  <2>3. CASE Head(rest).op = "aio_wait" /\ stack' = <<Wait("select")>> \o Tail(rest)
    <3>1. Wait("select") \in Frame /\ Wait("select").op = "aio_wait"
      BY NewFrames
    <3>2. Swap(Wait("select"), Head(rest))
      BY <2>3, <3>1 DEF Swap
    <3>3. GoesOn(<<Wait("select")>> \o Tail(rest)) /\ Head(<<Wait("select")>> \o Tail(rest)) = Wait("select")
      BY <1>3, <3>1, <3>2, GotoGoesOn
    <3> QED
      BY <2>3, <3>1, <3>3
  <2> QED
    BY <1>4, <2>1, <2>2, <2>3
<1> QED
  BY <1>1, <1>5, MainStill

\* The top frame is replaced and no block moves.
LEMMA GotoServes ==
  ASSUME ServiceInv, PoolInv', NEW f \in Frame, Goto(f), Swap(f, Top),
         f.op = "callback" => (Top.pc = "ret" => f.pc = "ret"), f.op # "paio_cancel",
         UNCHANGED <<lists, workers, async_context, async_ret>>
  PROVE  ServiceInv' /\ ServiceStep
<1>1. GoesOn(stack) /\ Head(stack) = Top
  BY TopView
<1>2. GoesOn(<<f>> \o Tail(stack)) /\ Head(<<f>> \o Tail(stack)) = f
  BY <1>1, GotoGoesOn
<1>3. GoesOn(stack') /\ Head(stack').op # "paio_cancel"
  BY <1>2 DEF Goto
<1>4. UNCHANGED <<lists, job, at, async_context, async_ret>>
  BY DEF workers
<1> QED
  BY <1>3, <1>4, MainStill

\* The scan passes a request that is in progress, or of another context.
LEMMA ScanPassesServes ==
  ASSUME ServiceInv, PoolInv', ScanPasses
  PROVE  ServiceInv' /\ ServiceStep
<1>1. Top.op = "process_queue" /\ UNCHANGED <<lists, workers, async_context, async_ret>>
  BY DEF ScanPasses, In, async
<1>2. Top \in [op : {"process_queue"}, pos : Nat \ {0}, result : BOOLEAN]
  BY <1>1, TopView, Frames
<1> DEFINE f == [Top EXCEPT !.pos = @ + 1]
<1>3. f \in Frame /\ f.op = "process_queue"
  BY <1>2 DEF Frame
<1>4. Goto(f)
  BY DEF ScanPasses
<1> HIDE DEF f
<1>5. Swap(f, Top)
  BY <1>1, <1>3 DEF Swap
<1> QED
  BY <1>1, <1>3, <1>4, <1>5, GotoServes

\* The scan completes a request: a cancelled one is released, and the callback
\* of a finished one called.
LEMMA ScanCompletesServes ==
  ASSUME ServiceInv, PoolInv', ScanCompletes
  PROVE  ServiceInv' /\ ServiceStep
<1>1. Top.op = "process_queue" /\ UNCHANGED <<request_list, workers, async>>
  BY DEF ScanCompletes, In
<1>2. /\ GoesOn(stack) /\ Head(stack) = Top /\ Depth(stack) = async_context
      /\ stack \in Stacks /\ async_context \in Nat
      /\ Top.op \notin Leaf => \A f \in Calls(Tail(stack)) : Ctx(f.acb) < async_context
  BY TopView
<1>3. Top \in [op : {"process_queue"}, pos : Nat \ {0}, result : BOOLEAN]
  BY <1>1, TopView, Frames
<1>4. PICK i \in DOMAIN first_aio : i = Top.pos /\ i \in 1..Len(first_aio)
  BY <1>3, LenProperties DEF ScanCompletes, ServiceInv, PoolInv, ListsOK
<1>5. PICK a \in Listed : a = first_aio[i]
  BY <1>4 DEF Listed, Range
<1>6. /\ Ctx(a) = async_context /\ aiocb[a].ret # "EINPROGRESS"
      /\ first_aio' = RemoveAt(first_aio, i)
  BY <1>4, <1>5 DEF ScanCompletes, InContext, Ctx
<1>7. aiocb[a].active
  BY <1>6 DEF ServiceInv, Owned
<1>8. CASE aiocb[a].ret = "ECANCELED"
  <2> DEFINE f == [Top EXCEPT !.result = TRUE]
  <2>1. paio_remove(a) /\ Goto(f)
    BY <1>4, <1>5, <1>6, <1>8 DEF ScanCompletes, paio_remove
  <2>2. f \in Frame /\ f.op = "process_queue"
    BY <1>3, ZenonT(30) DEF Frame
  <2> HIDE DEF f
  <2>3. Swap(f, Top)
    BY <1>1, <2>2 DEF Swap
  <2>4. GoesOn(<<f>> \o Tail(stack)) /\ Head(<<f>> \o Tail(stack)) = f
    BY <1>2, <2>2, <2>3, GotoGoesOn
  <2>5. GoesOn(stack') /\ Head(stack').op # "paio_cancel"
    BY <2>1, <2>2, <2>4, SMTT(30) DEF Goto
  <2> QED
    BY <1>1, <1>6, <1>7, <2>1, <2>5, UnlinkServes DEF InProgress
<1>9. CASE aiocb[a].ret # "ECANCELED"
  <2> DEFINE g == [Top EXCEPT !.pos = 1, !.result = TRUE]
  <2>1. g \in Frame /\ g.op = "process_queue"
    <3> DEFINE h == [Top EXCEPT !.pos = 1]
    <3>1. h \in [op : {"process_queue"}, pos : Nat \ {0}, result : BOOLEAN]
      BY <1>3
    <3>2. g = [h EXCEPT !.result = TRUE]
      OBVIOUS
    <3> HIDE DEF h, g
    <3> QED
      BY <3>1, <3>2, ZenonT(30) DEF Frame
  <2>2. UNCHANGED <<free_aiocb, aiocb>> /\ stack' = <<Callback(a), g>> \o Tail(stack)
    BY <1>4, <1>5, <1>9 DEF ScanCompletes
  <2> HIDE DEF g
  <2>3. a \in Block /\ Callback(a) \in Frame /\ Callback(a).op = "callback" /\ Callback(a).acb = a
    BY BlockFacts, NewFrames DEF Callback
  <2> DEFINE base == <<g>> \o Tail(stack)
  <2>4. base \in Stacks /\ Depth(base) = async_context /\ stack' = <<Callback(a)>> \o base
    BY <1>1, <2>1, <2>2, <2>3, GotoCall, ZenonT(30) DEF async, ServiceInv, PoolInv
  <2>5. /\ Shape(base) /\ Isolated(base, aiocb) /\ Head(base) = g
        /\ Calls(base) = Calls(Tail(stack)) /\ Calls(stack) = Calls(Tail(stack))
    <3>1. Swap(g, Top)
      BY <1>1, <2>1 DEF Swap
    <3>2. GoesOn(base) /\ Head(base) = g
      BY <1>2, <2>1, <3>1, GotoGoesOn, SMTT(30)
    <3>3. Calls(base) = Calls(Tail(stack)) \cup CallOf(g) /\ Calls(stack) = Calls(Tail(stack)) \cup CallOf(Top)
      BY <1>2, <2>1, <3>1, GotoView, ZenonT(30) DEF GoesOn
    <3>4. CallOf(g) = {} /\ CallOf(Top) = {}
      BY <1>1, <2>1, SMTT(30) DEF CallOf
    <3> QED
      BY <3>2, <3>3, <3>4 DEF GoesOn
  <2> HIDE DEF base
  <2>6. /\ Shape(stack') /\ Isolated(stack', aiocb)
        /\ Calls(stack') = Calls(base) \cup CallOf(Callback(a))
    <3>1. Fits(Callback(a), Head(base))
      BY <2>1, <2>3, <2>5 DEF Fits, Leaf
    <3> QED
      BY <1>2, <1>6, <2>3, <2>4, <2>5, <3>1, CallView, ZenonT(30) DEF Ctx, GoesOn
  <2>7. Calls(stack') = Calls(stack) \cup {Callback(a)}
    BY <2>3, <2>5, <2>6, SMTT(30) DEF CallOf
  <2>8. ~ In("paio_cancel")'
    BY <1>2, <2>3, <2>4, StackPush, SMTT(30) DEF In, Top, GoesOn
  <2>9. Listed' = Listed \ {a} /\ NoDuplicates(first_aio')
    BY <1>4, <1>5, <1>6, RemoveRange DEF Listed, ServiceInv, PoolInv, ListsOK, Owned
  <2>10. \A f \in Calls(stack) : Ctx(f.acb) < async_context
    BY <1>1, <1>2, <2>5 DEF Leaf
  <2> QED
    BY <1>1, <1>6, <2>2, <2>6, <2>7, <2>8, <2>9, <2>10, BeginServes, ZenonT(30)
<1> QED
  BY <1>8, <1>9
=============================================================================

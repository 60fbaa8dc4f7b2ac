-------------------------- MODULE AioServiceProofs --------------------------
(***************************************************************************)
(* The invariants of the pool and of the service it gives its clients, what *)
(* a frame pushed on the stack of the main thread or taken off it does to  *)
(* them, and the steps of the workers.                                     *)
(***************************************************************************)
EXTENDS AioPool, TLAPS

-----------------------------------------------------------------------------
(* Sequences. *)

\* The length of a sequence.
LEMMA LenProperties ==
  ASSUME NEW S, NEW s \in Seq(S)
  PROVE  Len(s) \in Nat /\ DOMAIN s = 1..Len(s)
OBVIOUS

\* The elements of a sequence.
LEMMA ElementOfSeq ==
  ASSUME NEW S, NEW s \in Seq(S), NEW n \in 1..Len(s)
  PROVE  s[n] \in S
OBVIOUS

\* The empty sequence.
LEMMA EmptySeq ==
  ASSUME NEW S
  PROVE  <<>> \in Seq(S) /\ \A s \in Seq(S) : s = <<>> <=> Len(s) = 0
OBVIOUS

\* A sequence is known by its elements.
LEMMA SeqEqual ==
  ASSUME NEW S, NEW s \in Seq(S), NEW t \in Seq(S), Len(s) = Len(t),
         \A i \in 1..Len(s) : s[i] = t[i]
  PROVE  s = t
OBVIOUS

\* The first element and the others.
LEMMA HeadTailProperties ==
  ASSUME NEW S, NEW s \in Seq(S), s # <<>>
  PROVE  /\ Head(s) \in S /\ Head(s) = s[1]
         /\ Tail(s) \in Seq(S) /\ Len(Tail(s)) = Len(s) - 1
         /\ \A i \in 1..Len(Tail(s)) : Tail(s)[i] = s[i + 1]
OBVIOUS

\* An element at the end.
LEMMA AppendProperties ==
  ASSUME NEW S, NEW s \in Seq(S), NEW e \in S
  PROVE  /\ Append(s, e) \in Seq(S) /\ Len(Append(s, e)) = Len(s) + 1
         /\ \A i \in 1..Len(s) : Append(s, e)[i] = s[i]
         /\ Append(s, e)[Len(s) + 1] = e
OBVIOUS

\* Two sequences, one after the other.
LEMMA ConcatProperties ==
  ASSUME NEW S, NEW s \in Seq(S), NEW t \in Seq(S)
  PROVE  /\ s \o t \in Seq(S) /\ Len(s \o t) = Len(s) + Len(t)
         /\ \A i \in 1..(Len(s) + Len(t)) :
               (s \o t)[i] = IF i <= Len(s) THEN s[i] ELSE t[i - Len(s)]
OBVIOUS

\* Pushing an element.
LEMMA Push ==
  ASSUME NEW S, NEW s \in Seq(S), NEW f \in S
  PROVE  /\ <<f>> \o s \in Seq(S) /\ <<f>> \o s # <<>>
         /\ Head(<<f>> \o s) = f /\ Tail(<<f>> \o s) = s
         /\ Len(<<f>> \o s) = Len(s) + 1
         /\ (<<f>> \o s)[1] = f
         /\ \A i \in 1..Len(s) : (<<f>> \o s)[i + 1] = s[i]
<1> DEFINE u == <<f>> \o s
<1>1. <<f>> \in Seq(S) /\ Len(<<f>>) = 1 /\ <<f>>[1] = f
  OBVIOUS
<1>2. u \in Seq(S) /\ Len(u) = 1 + Len(s) /\ Len(s) \in Nat
  BY <1>1, ConcatProperties, LenProperties
<1>3. u[1] = f /\ \A i \in 1..Len(s) : u[i + 1] = s[i]
  BY <1>1, <1>2
<1>4. u # <<>>
  BY <1>2
<1>5. Head(u) = f
  BY <1>2, <1>3, <1>4, HeadTailProperties
<1>6. Tail(u) \in Seq(S) /\ Len(Tail(u)) = Len(s) /\ \A i \in 1..Len(s) : Tail(u)[i] = u[i + 1]
  BY <1>2, <1>4, HeadTailProperties
<1>7. Tail(u) = s
  BY <1>3, <1>6, SeqEqual
<1> QED
  BY <1>2, <1>3, <1>4, <1>5, <1>7

\* A sequence is its head and its tail.
LEMMA Split ==
  ASSUME NEW S, NEW s \in Seq(S), s # <<>>
  PROVE  /\ Head(s) \in S /\ Tail(s) \in Seq(S) /\ s = <<Head(s)>> \o Tail(s)
         /\ Len(Tail(s)) = Len(s) - 1 /\ Len(s) \in Nat \ {0}
         /\ \A i \in 1..Len(Tail(s)) : Tail(s)[i] = s[i + 1]
         /\ s[1] = Head(s)
<1>1. /\ Head(s) \in S /\ Tail(s) \in Seq(S) /\ Len(Tail(s)) = Len(s) - 1
      /\ Len(s) \in Nat \ {0}
      /\ \A i \in 1..Len(Tail(s)) : Tail(s)[i] = s[i + 1]
      /\ Head(s) = s[1]
  BY HeadTailProperties, LenProperties, EmptySeq
<1> DEFINE u == <<Head(s)>> \o Tail(s)
<1>2. /\ u \in Seq(S) /\ Len(u) = Len(s) /\ u[1] = Head(s)
      /\ \A i \in 1..Len(Tail(s)) : u[i + 1] = Tail(s)[i]
  BY <1>1, Push
<1>3. \A i \in 1..Len(s) : s[i] = u[i]
  <2> TAKE i \in 1..Len(s)
  <2>1. CASE i = 1
    BY <1>1, <1>2, <2>1
  <2>2. CASE i # 1
    <3>1. i - 1 \in 1..Len(Tail(s)) /\ (i - 1) + 1 = i
      BY <1>1, <2>2
    <3> QED
      BY <1>1, <1>2, <3>1
  <2> QED
    BY <2>1, <2>2
<1>4. s = u
  BY <1>2, <1>3, SeqEqual
<1> QED
  BY <1>1, <1>4

\* Pushing two elements.
LEMMA Push2 ==
  ASSUME NEW S, NEW s \in Seq(S), NEW f \in S, NEW g \in S
  PROVE  <<f, g>> \o s = <<f>> \o (<<g>> \o s)
<1>1. <<f>> \in Seq(S) /\ <<g>> \in Seq(S)
  OBVIOUS
<1>2. /\ <<f, g>> \in Seq(S) /\ Len(<<f, g>>) = 2
      /\ <<f, g>>[1] = f /\ <<f, g>>[2] = g
  OBVIOUS
<1> DEFINE u == <<f>> \o (<<g>> \o s)
           v == <<f, g>> \o s
           w == <<g>> \o s
<1>3. /\ w \in Seq(S) /\ Len(w) = Len(s) + 1 /\ w[1] = g /\ Len(s) \in Nat
      /\ \A i \in 1..Len(s) : w[i + 1] = s[i]
  BY Push, LenProperties
<1>4. /\ u \in Seq(S) /\ Len(u) = Len(w) + 1 /\ u[1] = f
      /\ \A i \in 1..Len(w) : u[i + 1] = w[i]
  <2> HIDE DEF w
  <2>1. u = <<f>> \o w
    BY DEF w
  <2> QED
    BY <1>3, <2>1, Push
<1>5. /\ v \in Seq(S) /\ Len(v) = 2 + Len(s)
      /\ \A i \in 1..(2 + Len(s)) : v[i] = IF i <= 2 THEN <<f, g>>[i] ELSE s[i - 2]
  BY <1>2, <1>3, ConcatProperties
<1> HIDE DEF u, v, w
<1>6. ASSUME NEW i \in 1..Len(u)
      PROVE  u[i] = v[i]
  <2>1. CASE i = 1
    BY <1>2, <1>3, <1>4, <1>5, <2>1
  <2>2. CASE i = 2
    <3>1. u[1 + 1] = w[1]
      BY <1>3, <1>4
    <3> QED
      BY <1>2, <1>3, <1>4, <1>5, <2>2, <3>1
  <2>3. CASE i > 2
    <3>1. /\ i - 1 \in 1..Len(w) /\ (i - 1) + 1 = i
          /\ i - 2 \in 1..Len(s) /\ (i - 2) + 1 = i - 1
      BY <1>3, <1>4, <2>3
    <3>2. u[i] = w[i - 1] /\ w[i - 1] = s[i - 2]
      BY <1>3, <1>4, <3>1
    <3> QED
      BY <1>3, <1>4, <1>5, <2>3, <3>2
  <2> QED
    BY <1>3, <1>4, <2>1, <2>2, <2>3
<1>7. u \in Seq(S) /\ v \in Seq(S) /\ Len(u) = Len(v)
  BY <1>3, <1>4, <1>5
<1>8. u = v
  BY <1>6, <1>7, SeqEqual, Zenon
<1> QED
  BY <1>8 DEF u, v

\* Pushing three elements.
LEMMA Push3 ==
  ASSUME NEW S, NEW s \in Seq(S), NEW f \in S, NEW g \in S, NEW h \in S
  PROVE  <<f, g, h>> \o s = <<f>> \o (<<g>> \o (<<h>> \o s))
<1> DEFINE u == <<g, h>> \o s
           v == <<f, g, h>> \o s
<1>1. /\ <<g, h>> \in Seq(S) /\ Len(<<g, h>>) = 2 /\ <<g, h>>[1] = g /\ <<g, h>>[2] = h
      /\ <<f, g, h>> \in Seq(S) /\ Len(<<f, g, h>>) = 3
      /\ <<f, g, h>>[1] = f /\ <<f, g, h>>[2] = g /\ <<f, g, h>>[3] = h
  OBVIOUS
<1>2. /\ u \in Seq(S) /\ Len(u) = 2 + Len(s) /\ Len(s) \in Nat
      /\ \A i \in 1..(2 + Len(s)) : u[i] = IF i <= 2 THEN <<g, h>>[i] ELSE s[i - 2]
  BY <1>1, ConcatProperties, LenProperties
<1>3. /\ v \in Seq(S) /\ Len(v) = 3 + Len(s)
      /\ \A i \in 1..(3 + Len(s)) : v[i] = IF i <= 3 THEN <<f, g, h>>[i] ELSE s[i - 3]
  BY <1>1, ConcatProperties
<1>4. u = <<g>> \o (<<h>> \o s)
  BY Push2
<1> HIDE DEF u, v
<1> DEFINE w == <<f>> \o u
<1>5. /\ w \in Seq(S) /\ Len(w) = Len(u) + 1 /\ w[1] = f
      /\ \A i \in 1..Len(u) : w[i + 1] = u[i]
  BY <1>2, Push
<1> HIDE DEF w
<1>6. ASSUME NEW i \in 1..Len(w)
      PROVE  w[i] = v[i]
  <2>1. CASE i = 1
    BY <1>1, <1>2, <1>3, <1>5, <2>1
  <2>2. CASE i > 1
    <3>1. i - 1 \in 1..Len(u) /\ (i - 1) + 1 = i /\ i \in 1..(3 + Len(s))
      BY <1>2, <1>5, <2>2
    <3>2. w[i] = u[i - 1]
      BY <1>5, <3>1
    <3>3. CASE i = 2
      BY <1>1, <1>2, <1>3, <3>1, <3>2, <3>3
    <3>4. CASE i = 3
      BY <1>1, <1>2, <1>3, <3>1, <3>2, <3>4
    <3>5. CASE i > 3
      <4>1. i - 1 \in 1..(2 + Len(s)) /\ ~(i - 1 <= 2) /\ ~(i <= 3) /\ (i - 1) - 2 = i - 3
        BY <1>2, <3>1, <3>5
      <4>2. u[i - 1] = s[(i - 1) - 2] /\ v[i] = s[i - 3]
        BY <1>2, <1>3, <3>1, <4>1
      <4> QED
        BY <3>2, <4>1, <4>2
    <3> QED
      BY <2>2, <3>1, <3>3, <3>4, <3>5
  <2> QED
    BY <1>2, <1>5, <2>1, <2>2
<1>7. w \in Seq(S) /\ v \in Seq(S) /\ Len(w) = Len(v)
  BY <1>2, <1>3, <1>5
<1>8. w = v
  BY <1>6, <1>7, SeqEqual, Zenon
<1> QED
  BY <1>4, <1>8 DEF v, w

\* Removing an element.
LEMMA RemoveFacts ==
  ASSUME NEW S, NEW s \in Seq(S), NEW i \in 1..Len(s)
  PROVE  /\ RemoveAt(s, i) \in Seq(S) /\ Len(RemoveAt(s, i)) = Len(s) - 1
         /\ \A j \in 1..(Len(s) - 1) :
               RemoveAt(s, i)[j] = IF j < i THEN s[j] ELSE s[j + 1]
<1> DEFINE a == SubSeq(s, 1, i - 1)
           b == SubSeq(s, i + 1, Len(s))
<1>0. Len(s) \in Nat /\ \A j \in 1..Len(s) : s[j] \in S
  BY LenProperties, ElementOfSeq
<1>1. a \in Seq(S) /\ Len(a) = i - 1 /\ \A j \in 1..(i - 1) : a[j] = s[j]
  BY <1>0
<1>2. b \in Seq(S) /\ Len(b) = Len(s) - i /\ \A j \in 1..(Len(s) - i) : b[j] = s[i + j]
  BY <1>0
<1> HIDE DEF a, b
<1>3. /\ a \o b \in Seq(S) /\ Len(a \o b) = Len(a) + Len(b)
      /\ \A j \in 1..(Len(a) + Len(b)) :
            (a \o b)[j] = IF j <= Len(a) THEN a[j] ELSE b[j - Len(a)]
  BY <1>1, <1>2, ConcatProperties, Zenon
<1>4. ASSUME NEW j \in 1..(Len(s) - 1)
      PROVE  (a \o b)[j] = IF j < i THEN s[j] ELSE s[j + 1]
  <2>1. CASE j < i
    BY <1>0, <1>1, <1>2, <1>3, <2>1
  <2>2. CASE ~(j < i)
    <3>1. /\ j - (i - 1) \in 1..(Len(s) - i) /\ i + (j - (i - 1)) = j + 1
          /\ j \in 1..(Len(a) + Len(b)) /\ ~(j <= Len(a))
      BY <1>0, <1>1, <1>2, <2>2
    <3>2. (a \o b)[j] = b[j - (i - 1)]
      BY <1>1, <1>3, <3>1
    <3>3. b[j - (i - 1)] = s[j + 1]
      BY <1>2, <3>1
    <3> QED
      BY <2>2, <3>2, <3>3
  <2> QED
    BY <2>1, <2>2, Zenon
<1> DEFINE c == a \o b
<1>5. RemoveAt(s, i) = c
  BY DEF RemoveAt, a, b
<1>6. /\ c \in Seq(S) /\ Len(c) = Len(s) - 1
      /\ \A j \in 1..(Len(s) - 1) : c[j] = IF j < i THEN s[j] ELSE s[j + 1]
  BY <1>0, <1>1, <1>2, <1>3, <1>4
<1> HIDE DEF c
<1> QED
  BY <1>5, <1>6, Zenon

-----------------------------------------------------------------------------
(* The stack of the main thread. *)

\* The main loop is at the bottom of the stack.
Stacks == {s \in Seq(Frame) : s # <<>> /\ s[Len(s)].op = "main_loop"}

\* Synchronous reads in progress.
Reads(s) == {j \in 1..Len(s) : s[j].op = "bdrv_read_em"}
Depth(s) == Cardinality(Reads(s))

IsRead(f) == IF f.op = "bdrv_read_em" THEN 1 ELSE 0

\* The reads around frame i.
Outer(s, i) == {j \in DOMAIN s : j > i /\ s[j].op = "bdrv_read_em"}

\* How many reads there are around the frames, and how a call changes it.  These
\* facts about cardinalities, and ThreadCounts below, are conjuncts of the
\* invariant, so that the steps need no theory of finite sets; they are proved
\* in AioProofs.
ReadCounts ==
    /\ Depth(<<>>) = 0
    /\ \A s \in Seq(Frame) :
        /\ Depth(s) \in Nat
        /\ \A i \in 1..Len(s) :
            /\ Cardinality(Outer(s, i)) \in 0..Depth(s)
            /\ \A j \in 1..i : s[j].op = "bdrv_read_em" => Cardinality(Outer(s, i)) < Depth(s)
    /\ \A s \in Seq(Frame), f \in Frame :
        /\ Depth(<<f>> \o s) = Depth(s) + IsRead(f)
        /\ Cardinality(Outer(<<f>> \o s, 1)) = Depth(s)
        /\ \A i \in 1..Len(s) :
            Cardinality(Outer(<<f>> \o s, i + 1)) = Cardinality(Outer(s, i))

\* A call adds a frame and, if it is a synchronous read, a level.
LEMMA DepthPush ==
  ASSUME NEW s \in Seq(Frame), NEW f \in Frame, ReadCounts
  PROVE  Depth(<<f>> \o s) = Depth(s) + IsRead(f) /\ Depth(s) \in Nat
BY Zenon DEF ReadCounts

\* A call.
LEMMA StackPush ==
  ASSUME NEW s \in Stacks, NEW f \in Frame, ReadCounts
  PROVE  /\ <<f>> \o s \in Stacks /\ Head(<<f>> \o s) = f
         /\ Depth(<<f>> \o s) = Depth(s) + IsRead(f)
<1>1. s \in Seq(Frame) /\ s # <<>> /\ s[Len(s)].op = "main_loop"
  BY DEF Stacks
<1> DEFINE u == <<f>> \o s
<1>2. /\ u \in Seq(Frame) /\ u # <<>> /\ Head(u) = f /\ Len(u) = Len(s) + 1
      /\ \A i \in 1..Len(s) : u[i + 1] = s[i]
  BY <1>1, Push
<1>3. Len(s) \in Nat \ {0}
  BY <1>1, EmptySeq
<1>4. u[Len(u)].op = "main_loop"
  BY <1>1, <1>2, <1>3
<1> QED
  BY <1>1, <1>2, <1>4, DepthPush, Zenon DEF Stacks

\* A return.
LEMMA StackPop ==
  ASSUME NEW s \in Stacks, Head(s).op # "main_loop", ReadCounts
  PROVE  /\ Tail(s) \in Stacks /\ Head(s) \in Frame
         /\ Depth(s) = Depth(Tail(s)) + IsRead(Head(s)) /\ Depth(Tail(s)) \in Nat
<1>1. s \in Seq(Frame) /\ s # <<>> /\ s[Len(s)].op = "main_loop"
  BY DEF Stacks
<1>2. /\ Head(s) \in Frame /\ Tail(s) \in Seq(Frame) /\ s = <<Head(s)>> \o Tail(s)
      /\ Len(Tail(s)) = Len(s) - 1 /\ Len(s) \in Nat \ {0}
      /\ \A i \in 1..Len(Tail(s)) : Tail(s)[i] = s[i + 1]
      /\ s[1] = Head(s)
  BY <1>1, Split
<1>3. Len(s) # 1
  BY <1>1, <1>2
<1>4. Len(Tail(s)) \in 1..Len(Tail(s)) /\ Len(Tail(s)) + 1 = Len(s)
  BY <1>2, <1>3
<1>5. Tail(s)[Len(Tail(s))].op = "main_loop"
  BY <1>1, <1>2, <1>4
<1>6. Tail(s) # <<>>
  <2>1. Len(Tail(s)) # 0
    BY <1>2, <1>4
  <2> QED
    BY <1>2, <2>1, EmptySeq, Zenon
<1>7. Depth(s) = Depth(Tail(s)) + IsRead(Head(s)) /\ Depth(Tail(s)) \in Nat
  BY <1>2, DepthPush, Zenon
<1> QED
  BY <1>2, <1>5, <1>6, <1>7, Zenon DEF Stacks

\* Another frame at the top.
LEMMA StackGoto ==
  ASSUME NEW s \in Stacks, NEW f \in Frame, Head(s).op = "main_loop" => f.op = "main_loop",
         IsRead(f) = IsRead(Head(s)), ReadCounts
  PROVE  /\ <<f>> \o Tail(s) \in Stacks /\ Head(<<f>> \o Tail(s)) = f
         /\ Depth(<<f>> \o Tail(s)) = Depth(s)
<1>1. CASE Head(s).op # "main_loop"
  <2>1. /\ Tail(s) \in Stacks /\ Head(s) \in Frame
        /\ Depth(s) = Depth(Tail(s)) + IsRead(Head(s)) /\ Depth(Tail(s)) \in Nat
    BY <1>1, StackPop
  <2> QED
    BY <2>1, StackPush
<1>2. CASE Head(s).op = "main_loop"
  <2>1. s \in Seq(Frame) /\ s # <<>> /\ s[Len(s)].op = "main_loop"
    BY DEF Stacks
  <2>2. /\ Head(s) \in Frame /\ Tail(s) \in Seq(Frame) /\ s = <<Head(s)>> \o Tail(s)
        /\ Len(Tail(s)) = Len(s) - 1 /\ Len(s) \in Nat \ {0}
        /\ \A i \in 1..Len(Tail(s)) : Tail(s)[i] = s[i + 1]
    BY <2>1, Split
  <2> DEFINE u == <<f>> \o Tail(s)
  <2>3. /\ u \in Seq(Frame) /\ u # <<>> /\ Head(u) = f /\ Len(u) = Len(Tail(s)) + 1
        /\ u[1] = f /\ \A i \in 1..Len(Tail(s)) : u[i + 1] = Tail(s)[i]
    BY <2>2, Push
  <2>4. Depth(u) = Depth(Tail(s)) + IsRead(f) /\ Depth(s) = Depth(Tail(s)) + IsRead(Head(s))
    BY <2>2, DepthPush, Zenon
  <2> HIDE DEF u
  <2>5. u[Len(u)].op = "main_loop"
    <3>1. CASE Len(s) = 1
      <4>0. Len(Tail(s)) = Len(s) - 1
        BY <2>2, Zenon
      <4>1. Len(u) = 1
        BY <2>3, <3>1, <4>0
      <4> QED
        BY <1>2, <2>3, <4>1
    <3>2. CASE Len(s) # 1
      <4>1. Len(Tail(s)) \in 1..Len(Tail(s)) /\ Len(Tail(s)) + 1 = Len(s) /\ Len(u) = Len(s)
        BY <2>2, <2>3, <3>2
      <4>2. u[Len(Tail(s)) + 1] = Tail(s)[Len(Tail(s))] /\ Tail(s)[Len(Tail(s))] = s[Len(Tail(s)) + 1]
        BY <2>2, <2>3, <4>1
      <4> QED
        BY <2>1, <4>1, <4>2, Zenon
    <3> QED
      BY <3>1, <3>2
  <2> QED
    BY <2>3, <2>4, <2>5, Zenon DEF Stacks, u
<1> QED
  BY <1>1, <1>2

-----------------------------------------------------------------------------
(* The workers. *)

\* Threads that idle_threads counts.
Idle(where) == {t \in Thread : where[t] \notin {"none", "io"}}
Living(where) == {t \in Thread : where[t] # "none"}

Counted(where, cur, idle) ==
    /\ where \in [Thread -> WorkerAt]
    /\ cur = Cardinality(Living(where))
    /\ idle = Cardinality(Idle(where))
    /\ cur <= max_threads

\* What a thread that moves does to the counters: an idle one goes on idle, takes
\* a request or exits; one at its I/O becomes idle; a new one is idle.
ThreadCounts ==
    \A where, cur, idle : Counted(where, cur, idle) =>
        /\ cur \in Nat /\ idle \in Nat /\ max_threads \in Nat
        /\ cur < max_threads => \E t \in Thread : where[t] = "none"
        /\ idle # 0 \/ cur = max_threads => \E t \in Thread : where[t] # "none"
        /\ \A t \in Thread :
            /\ where[t] \notin {"none", "io"} =>
                /\ \A pc \in WorkerAt \ {"none", "io"} :
                    Counted([where EXCEPT ![t] = pc], cur, idle)
                /\ Counted([where EXCEPT ![t] = "io"], cur, idle - 1)
                /\ Counted([where EXCEPT ![t] = "none"], cur - 1, idle - 1)
            /\ where[t] = "io" =>
                \A pc \in WorkerAt \ {"none", "io"} :
                    Counted([where EXCEPT ![t] = pc], cur, idle + 1)
            /\ where[t] = "none" /\ cur < max_threads =>
                \A pc \in WorkerAt \ {"none", "io"} :
                    Counted([where EXCEPT ![t] = pc], cur + 1, idle + 1)

-----------------------------------------------------------------------------
(* The inductive invariant. *)

ListsOK ==
    /\ request_list \in Seq(Block)
    /\ first_aio \in Seq(Block)
    /\ free_aiocb \subseteq Block
    /\ aiocb \in [Block -> Request]

WorkersOK ==
    /\ ThreadCounts
    /\ Counted(at, cur_threads, idle_threads)
    /\ job \in [Thread -> Block \cup {NoBlock}]
    /\ \A t \in Thread : at[t] = "io" => job[t] \in Block

StackOK ==
    /\ ReadCounts
    /\ stack \in Stacks
    /\ async_context \in Context
    /\ Depth(stack) = async_context

AsyncOK ==
    /\ bh \in [Context -> BOOLEAN]
    /\ async_ret \in [Context -> BOOLEAN]
    /\ sigusr2 \in BOOLEAN
    /\ pipe \in BOOLEAN
    /\ followups \in 0..MaxFollowUps
    /\ workload \in Workloads

PoolInv == ListsOK /\ WorkersOK /\ StackOK /\ AsyncOK /\ NoRequestStranded

\* The frames by their operation.
LEMMA Frames ==
  ASSUME NEW f \in Frame
  PROVE  /\ f.op = "main_loop" => f \in [op : {"main_loop"}, pc : {"run", "bh"}]
         /\ f.op = "paio_cancel" => f \in [op : {"paio_cancel"}, acb : Block]
         /\ f.op = "process_queue" =>
               f \in [op : {"process_queue"}, pos : Nat \ {0}, result : BOOLEAN]
         /\ f.op = "callback" =>
               f \in [op : {"callback"}, acb : Block, pc : {"body", "tail", "ret"}]
         /\ f.op = "aio_flush" => f \in [op : {"aio_flush"}, pc : {"wait", "test"}]
BY DEF Frame

\* The frames that are pushed.
LEMMA NewFrames ==
  /\ \A pc \in {"run", "bh"} : Loop(pc) \in Frame /\ Loop(pc).op = "main_loop"
  /\ Signal \in Frame /\ Signal.op = "cond_signal"
  /\ \A a \in Block : Cancel(a) \in Frame /\ Cancel(a).op = "paio_cancel"
  /\ Process(1) \in Frame /\ Process(1).op = "process_queue"
  /\ \A a \in Block : Callback(a) \in Frame /\ Callback(a).op = "callback"
  /\ \A pc \in {"queue", "select"} : Wait(pc) \in Frame /\ Wait(pc).op = "aio_wait"
  /\ ReadEm \in Frame /\ ReadEm.op = "bdrv_read_em"
  /\ \A pc \in {"wait", "test"} : Flush(pc) \in Frame /\ Flush(pc).op = "aio_flush"
BY DEF Frame, Loop, Signal, Cancel, Process, Callback, Wait, ReadEm, Flush

\* There is a thread to start if fewer than max_threads exist.
LEMMA FreeThread ==
  ASSUME WorkersOK, cur_threads < max_threads
  PROVE  LET t == CHOOSE t \in Thread \ Alive : TRUE
         IN  t \in Thread /\ at[t] = "none"
<1>1. \E t \in Thread : at[t] = "none"
  BY Zenon DEF WorkersOK, ThreadCounts
<1>2. Thread \ Alive # {}
  BY <1>1 DEF Alive
<1> QED
  BY <1>2 DEF Alive

-----------------------------------------------------------------------------
(* The top of the stack. *)

\* What is at the top of the stack.
LEMMA TopFacts ==
  ASSUME StackOK
  PROVE  /\ stack \in Stacks /\ stack # <<>> /\ Top \in Frame
         /\ Depth(stack) = async_context /\ async_context \in Nat /\ MaxContext \in Nat
         /\ \A f \in Frame : IsRead(f) = IF f.op = "bdrv_read_em" THEN 1 ELSE 0
         /\ ReadCounts
         /\ \A op : In(op) <=> Top.op = op
<1>1. stack \in Seq(Frame) /\ stack # <<>> /\ MaxContext \in Nat
  BY PoolAssumption DEF StackOK, Stacks
<1> QED
  BY <1>1, Split DEF StackOK, Top, In, IsRead, Context

\* The stack that bdrv_read_em leaves.
LEMMA SyncStack ==
  ASSUME stack \in Stacks, NEW caller \in Frame
  PROVE  <<Signal, ReadEm, caller>> \o Tail(stack)
            = <<Signal>> \o (<<ReadEm>> \o (<<caller>> \o Tail(stack)))
<1> DEFINE f == Signal
           g == ReadEm
           z == Tail(stack)
<1>1. f \in Frame /\ g \in Frame /\ z \in Seq(Frame)
  BY NewFrames, Split DEF Stacks
<1> HIDE DEF f, g, z
<1>2. <<f, g, caller>> \o z = <<f>> \o (<<g>> \o (<<caller>> \o z))
  BY ONLY <1>1, caller \in Frame, Push3
<1> QED
  BY <1>2 DEF f, g, z

\* Two frames in place of the top.
LEMMA GotoCall ==
  ASSUME StackOK, NEW f \in Frame, NEW g \in Frame, f.op # "bdrv_read_em",
         g.op # "bdrv_read_em", Top.op # "bdrv_read_em",
         Top.op = "main_loop" => g.op = "main_loop",
         stack' = <<f, g>> \o Tail(stack), async_context' = async_context
  PROVE  /\ StackOK' /\ <<g>> \o Tail(stack) \in Stacks
         /\ Depth(<<g>> \o Tail(stack)) = async_context
         /\ stack' = <<f>> \o (<<g>> \o Tail(stack))
<1>1. /\ stack \in Stacks /\ stack # <<>> /\ Top \in Frame /\ Head(stack) = Top
      /\ Depth(stack) = async_context /\ async_context \in Nat
      /\ IsRead(f) = 0 /\ IsRead(g) = 0 /\ IsRead(Top) = 0
  BY TopFacts DEF IsRead, Top
<1> DEFINE base == <<g>> \o Tail(stack)
<1>2. base \in Stacks /\ Depth(base) = async_context
  BY <1>1, StackGoto DEF StackOK
<1>3. Tail(stack) \in Seq(Frame)
  BY <1>1, Split DEF Stacks
<1>4. stack' = <<f>> \o base
  BY <1>3, Push2
<1> HIDE DEF base
<1>5. stack' \in Stacks /\ Depth(stack') = Depth(base) + 0
  BY <1>1, <1>2, <1>4, StackPush, Zenon DEF StackOK
<1>6. StackOK'
  BY <1>1, <1>2, <1>5 DEF StackOK
<1> QED
  BY <1>2, <1>4, <1>6 DEF base

-----------------------------------------------------------------------------
(* The elements of a list. *)

\* An element at the front.
LEMMA PushRange ==
  ASSUME NEW S, NEW s \in Seq(S), NEW e \in S
  PROVE  /\ Range(<<e>> \o s) = Range(s) \cup {e}
         /\ NoDuplicates(s) /\ e \notin Range(s) => NoDuplicates(<<e>> \o s)
<1> DEFINE u == <<e>> \o s
<1>1. /\ Len(s) \in Nat /\ DOMAIN s = 1..Len(s) /\ u \in Seq(S)
      /\ Len(u) = Len(s) + 1 /\ DOMAIN u = 1..Len(u) /\ u[1] = e
      /\ \A i \in 1..Len(s) : u[i + 1] = s[i]
  BY Push, LenProperties
<1> HIDE DEF u
<1>2. ASSUME NEW i \in 1..Len(u)
      PROVE  i = 1 \/ (i - 1 \in 1..Len(s) /\ u[i] = s[i - 1])
  <2>1. i = 1 \/ (i - 1 \in 1..Len(s) /\ (i - 1) + 1 = i)
    BY <1>1
  <2> QED
    BY <1>1, <2>1
<1>3. \A i \in 1..Len(s) : s[i] \in Range(u)
  <2> TAKE i \in 1..Len(s)
  <2>1. i + 1 \in DOMAIN u /\ u[i + 1] = s[i]
    BY <1>1
  <2> QED
    BY <2>1 DEF Range
<1>4. e \in Range(u)
  BY <1>1 DEF Range
<1>5. Range(u) = Range(s) \cup {e}
  <2>1. ASSUME NEW x \in Range(u)
        PROVE  x = e \/ x \in Range(s)
    <3>1. PICK i \in 1..Len(u) : x = u[i]
      BY <1>1 DEF Range
    <3> QED
      BY <1>1, <1>2, <3>1, Zenon DEF Range
  <2>2. \A x \in Range(s) : x \in Range(u)
    BY <1>1, <1>3 DEF Range
  <2> QED
    BY <1>4, <2>1, <2>2
<1>6. ASSUME NoDuplicates(s), e \notin Range(s), NEW i \in 1..Len(u), NEW j \in 1..Len(u), u[i] = u[j]
      PROVE  i = j
  <2>1. \A k \in 1..Len(s) : s[k] # e
    BY <1>1, <1>6 DEF Range
  <2>2. CASE i = 1
    BY <1>1, <1>2, <1>6, <2>1, <2>2
  <2>3. CASE j = 1
    BY <1>1, <1>2, <1>6, <2>1, <2>3
  <2>4. CASE i # 1 /\ j # 1
    <3>1. i - 1 \in 1..Len(s) /\ j - 1 \in 1..Len(s) /\ s[i - 1] = s[j - 1]
      BY <1>2, <1>6, <2>4
    <3>2. i - 1 = j - 1
      BY <1>1, <1>6, <3>1 DEF NoDuplicates
    <3> QED
      BY <1>1, <3>2
  <2> QED
    BY <2>2, <2>3, <2>4
<1> QED
  BY <1>1, <1>5, <1>6 DEF NoDuplicates, u

\* An element at the end.
LEMMA AppendRange ==
  ASSUME NEW S, NEW s \in Seq(S), NEW e \in S
  PROVE  /\ Range(Append(s, e)) = Range(s) \cup {e}
         /\ NoDuplicates(s) /\ e \notin Range(s) => NoDuplicates(Append(s, e))
<1> DEFINE u == Append(s, e)
<1>1. /\ Len(s) \in Nat /\ DOMAIN s = 1..Len(s) /\ u \in Seq(S)
      /\ Len(u) = Len(s) + 1 /\ DOMAIN u = 1..Len(u) /\ u[Len(s) + 1] = e
      /\ \A i \in 1..Len(s) : u[i] = s[i]
  BY AppendProperties, LenProperties
<1> HIDE DEF u
<1>2. \A i \in 1..Len(u) : i = Len(s) + 1 \/ i \in 1..Len(s)
  BY <1>1
<1>3. Range(u) = Range(s) \cup {e}
  <2>1. \A i \in 1..Len(s) : i \in 1..Len(u)
    BY <1>1
  <2>2. Len(s) + 1 \in 1..Len(u)
    BY <1>1
  <2> QED
    BY <1>1, <1>2, <2>1, <2>2 DEF Range
<1>4. ASSUME NoDuplicates(s), e \notin Range(s), NEW i \in 1..Len(u), NEW j \in 1..Len(u), u[i] = u[j]
      PROVE  i = j
  <2>1. \A k \in 1..Len(s) : s[k] # e
    BY <1>1, <1>4 DEF Range
  <2> QED
    BY <1>1, <1>2, <1>4, <2>1 DEF NoDuplicates
<1> QED
  BY <1>1, <1>3, <1>4 DEF NoDuplicates, u

\* An element is unlinked.
LEMMA RemoveRange ==
  ASSUME NEW S, NEW s \in Seq(S), NEW i \in 1..Len(s), NoDuplicates(s)
  PROVE  Range(RemoveAt(s, i)) = Range(s) \ {s[i]} /\ NoDuplicates(RemoveAt(s, i))
<1> DEFINE u == RemoveAt(s, i)
<1>1. /\ Len(s) \in Nat /\ DOMAIN s = 1..Len(s) /\ u \in Seq(S) /\ Len(u) = Len(s) - 1
      /\ \A j \in 1..(Len(s) - 1) : u[j] = IF j < i THEN s[j] ELSE s[j + 1]
  BY RemoveFacts, LenProperties, Zenon
<1>2. DOMAIN u = 1..(Len(s) - 1)
  BY <1>1, LenProperties
<1> HIDE DEF u
<1>3. ASSUME NEW j \in DOMAIN u
      PROVE  \E k \in 1..Len(s) : u[j] = s[k] /\ k # i /\ k = IF j < i THEN j ELSE j + 1
  BY <1>1, <1>2
<1>4. ASSUME NEW k \in 1..Len(s), k # i
      PROVE  s[k] \in Range(u)
  <2>1. CASE k < i
    <3>1. k \in DOMAIN u /\ u[k] = s[k]
      BY <1>1, <1>2, <2>1
    <3> QED
      BY <3>1 DEF Range
  <2>2. CASE ~(k < i)
    <3>1. k - 1 \in DOMAIN u /\ ~(k - 1 < i) /\ (k - 1) + 1 = k
      BY <1>1, <1>2, <1>4, <2>2
    <3>2. u[k - 1] = s[k]
      BY <1>1, <1>2, <3>1
    <3> QED
      BY <3>1, <3>2 DEF Range
  <2> QED
    BY <2>1, <2>2
<1>5. \A k \in 1..Len(s) : s[k] = s[i] => k = i
  BY <1>1 DEF NoDuplicates
<1>6. Range(u) = Range(s) \ {s[i]}
  <2>1. \A x \in Range(u) : x \in Range(s) /\ x # s[i]
    BY <1>1, <1>3, <1>5 DEF Range
  <2>2. \A x \in Range(s) : x # s[i] => x \in Range(u)
    BY <1>1, <1>4 DEF Range
  <2> QED
    BY <2>1, <2>2
<1>7. ASSUME NEW j \in DOMAIN u, NEW k \in DOMAIN u, u[j] = u[k]
      PROVE  j = k
  <2>1. PICK p \in 1..Len(s) : u[j] = s[p] /\ p = IF j < i THEN j ELSE j + 1
    BY <1>3
  <2>2. PICK q \in 1..Len(s) : u[k] = s[q] /\ q = IF k < i THEN k ELSE k + 1
    BY <1>3
  <2>3. p = q
    BY <1>1, <1>7, <2>1, <2>2, Zenon DEF NoDuplicates
  <2> QED
    BY <1>1, <1>2, <2>1, <2>2, <2>3
<1> QED
  BY <1>6, <1>7 DEF NoDuplicates, u

\* The first element is taken.
LEMMA TailRange ==
  ASSUME NEW S, NEW s \in Seq(S), s # <<>>, NoDuplicates(s)
  PROVE  /\ Head(s) \in Range(s) /\ Range(Tail(s)) = Range(s) \ {Head(s)}
         /\ NoDuplicates(Tail(s))
<1>1. /\ Len(s) \in Nat \ {0} /\ DOMAIN s = 1..Len(s) /\ Head(s) = s[1]
      /\ Tail(s) \in Seq(S) /\ Len(Tail(s)) = Len(s) - 1
      /\ DOMAIN Tail(s) = 1..Len(Tail(s))
      /\ \A i \in 1..Len(Tail(s)) : Tail(s)[i] = s[i + 1]
  BY HeadTailProperties, LenProperties, EmptySeq
<1>2. \A k \in 1..Len(s) : s[k] = s[1] => k = 1
  BY <1>1 DEF NoDuplicates
<1>3. ASSUME NEW x \in Range(Tail(s))
      PROVE  x \in Range(s) /\ x # Head(s)
  <2>1. PICK i \in 1..Len(Tail(s)) : x = Tail(s)[i]
    BY <1>1 DEF Range
  <2>2. i + 1 \in 1..Len(s) /\ i + 1 # 1 /\ x = s[i + 1]
    BY <1>1, <2>1
  <2> QED
    BY <1>1, <1>2, <2>2 DEF Range
<1>4. ASSUME NEW x \in Range(s), x # Head(s)
      PROVE  x \in Range(Tail(s))
  <2>1. PICK i \in 1..Len(s) : x = s[i]
    BY <1>1 DEF Range
  <2>2. i - 1 \in 1..Len(Tail(s)) /\ (i - 1) + 1 = i
    BY <1>1, <1>4, <2>1
  <2>3. x = Tail(s)[i - 1]
    BY <1>1, <2>1, <2>2
  <2> QED
    BY <1>1, <2>2, <2>3 DEF Range
<1>5. ASSUME NEW i \in 1..Len(Tail(s)), NEW j \in 1..Len(Tail(s)), Tail(s)[i] = Tail(s)[j]
      PROVE  i = j
  <2>1. i + 1 \in DOMAIN s /\ j + 1 \in DOMAIN s /\ s[i + 1] = s[j + 1]
    BY <1>1, <1>5
  <2>2. i + 1 = j + 1
    BY <2>1 DEF NoDuplicates
  <2> QED
    BY <1>1, <2>2
<1>6. Head(s) \in Range(s)
  BY <1>1 DEF Range
<1> QED
  BY <1>1, <1>3, <1>4, <1>5, <1>6 DEF NoDuplicates

-----------------------------------------------------------------------------
(* The nesting of the main thread's calls. *)

\* Functions that call no other.
Leaf == {"cond_signal", "paio_cancel"}

\* Frame f is called from frame g.  A callback reads, submits or cancels.
Fits(f, g) ==
    /\ g.op \notin Leaf
    /\ f.op # "main_loop"
    /\ g.op = "callback" => f.op \in Leaf \cup {"bdrv_read_em"}

Shape(s) == \A i \in 1..(Len(s) - 1) : Fits(s[i], s[i + 1])

\* The callbacks in progress.
Calls(s) == {g \in Range(s) : g.op = "callback"}

\* Callbacks run in the context of their request; m is the contents of aiocb.
Isolated(s, m) ==
    \A i \in DOMAIN s : s[i].op = "callback" =>
        m[s[i].acb].context = Cardinality(Outer(s, i))

\* The reads around a frame stay the same when another is pushed; around the
\* new one are all there are.
LEMMA OuterPush ==
  ASSUME NEW s \in Seq(Frame), NEW f \in Frame, ReadCounts
  PROVE  /\ Cardinality(Outer(<<f>> \o s, 1)) = Depth(s)
         /\ \A i \in 1..Len(s) :
               Cardinality(Outer(<<f>> \o s, i + 1)) = Cardinality(Outer(s, i))
BY Zenon DEF ReadCounts

\* What pushing a frame does to the callbacks in progress, to their contexts and
\* to the nesting.
LEMMA PushView ==
  ASSUME NEW s \in Seq(Frame), NEW f \in Frame, ReadCounts
  PROVE  /\ Calls(<<f>> \o s) = Calls(s) \cup (IF f.op = "callback" THEN {f} ELSE {})
         /\ Shape(<<f>> \o s) <=> Shape(s) /\ (s # <<>> => Fits(f, Head(s)))
         /\ \A m : Isolated(<<f>> \o s, m) <=>
                     /\ Isolated(s, m)
                     /\ f.op = "callback" => m[f.acb].context = Depth(s)
<1> DEFINE u == <<f>> \o s
<1>1. /\ Len(s) \in Nat /\ DOMAIN s = 1..Len(s) /\ u \in Seq(Frame)
      /\ Len(u) = Len(s) + 1 /\ DOMAIN u = 1..Len(u) /\ u[1] = f
      /\ \A i \in 1..Len(s) : u[i + 1] = s[i]
  BY Push, LenProperties
<1>2. /\ Cardinality(Outer(u, 1)) = Depth(s)
      /\ \A i \in 1..Len(s) : Cardinality(Outer(u, i + 1)) = Cardinality(Outer(s, i))
  BY OuterPush
<1>3. s # <<>> => Len(s) # 0 /\ Head(s) = s[1]
  BY HeadTailProperties, EmptySeq
<1>4. s = <<>> => Len(s) = 0
  BY EmptySeq
<1> HIDE DEF u
<1>6. Range(u) = Range(s) \cup {f}
  BY PushRange DEF u
<1>7. Calls(u) = Calls(s) \cup (IF f.op = "callback" THEN {f} ELSE {})
  BY <1>6 DEF Calls
<1>8. Shape(u) <=> Shape(s) /\ (s # <<>> => Fits(f, Head(s)))
  <2>1. ASSUME Shape(u)
        PROVE  Shape(s) /\ (s # <<>> => Fits(f, Head(s)))
    <3>1. ASSUME NEW i \in 1..(Len(s) - 1)
          PROVE  Fits(s[i], s[i + 1])
      <4>1. i + 1 \in 1..(Len(u) - 1) /\ i \in 1..Len(s) /\ i + 1 \in 1..Len(s)
        BY <1>1
      <4>2. Fits(u[i + 1], u[(i + 1) + 1])
        BY <2>1, <4>1 DEF Shape
      <4> QED
        BY <1>1, <4>1, <4>2
    <3>2. ASSUME s # <<>>
          PROVE  Fits(f, Head(s))
      <4>1. 1 \in 1..(Len(u) - 1) /\ 1 \in 1..Len(s)
        BY <1>1, <1>3, <3>2
      <4>2. Fits(u[1], u[1 + 1])
        BY <2>1, <4>1 DEF Shape
      <4> QED
        BY <1>1, <1>3, <3>2, <4>1, <4>2
    <3> QED
      BY <3>1, <3>2 DEF Shape
  <2>2. ASSUME Shape(s), s # <<>> => Fits(f, Head(s)), NEW i \in 1..(Len(u) - 1)
        PROVE  Fits(u[i], u[i + 1])
    <3>1. CASE i = 1
      <4>1. 1 \in 1..Len(s) /\ s # <<>>
        BY <1>1, <1>4, <3>1
      <4> QED
        BY <1>1, <1>3, <2>2, <3>1, <4>1
    <3>2. CASE i # 1
      <4>1. i - 1 \in 1..(Len(s) - 1) /\ i - 1 \in 1..Len(s) /\ (i - 1) + 1 = i /\ i \in 1..Len(s)
        BY <1>1, <3>2
      <4>2. Fits(s[i - 1], s[(i - 1) + 1])
        BY <2>2, <4>1 DEF Shape
      <4>3. u[i] = s[i - 1] /\ u[i + 1] = s[i]
        BY <1>1, <4>1
      <4> QED
        BY <4>1, <4>2, <4>3
    <3> QED
      BY <3>1, <3>2
  <2> QED
    BY <2>1, <2>2 DEF Shape
<1>9. ASSUME NEW m
      PROVE  Isolated(u, m) <=>
                     /\ Isolated(s, m)
                     /\ f.op = "callback" => m[f.acb].context = Depth(s)
  <2>1. ASSUME Isolated(u, m)
        PROVE  Isolated(s, m) /\ (f.op = "callback" => m[f.acb].context = Depth(s))
    <3>1. ASSUME NEW i \in 1..Len(s), s[i].op = "callback"
          PROVE  m[s[i].acb].context = Cardinality(Outer(s, i))
      <4>1. i + 1 \in DOMAIN u /\ u[i + 1] = s[i]
        BY <1>1
      <4> QED
        BY <1>2, <2>1, <3>1, <4>1 DEF Isolated
    <3>2. 1 \in DOMAIN u
      BY <1>1
    <3> QED
      BY <1>1, <1>2, <2>1, <3>1, <3>2 DEF Isolated
  <2>2. ASSUME Isolated(s, m), f.op = "callback" => m[f.acb].context = Depth(s),
               NEW i \in 1..Len(u), u[i].op = "callback"
        PROVE  m[u[i].acb].context = Cardinality(Outer(u, i))
    <3>1. CASE i = 1
      BY <1>1, <1>2, <2>2, <3>1
    <3>2. CASE i # 1
      <4>1. i - 1 \in 1..Len(s) /\ (i - 1) + 1 = i
        BY <1>1, <3>2
      <4>2. u[i] = s[i - 1] /\ Cardinality(Outer(u, i)) = Cardinality(Outer(s, i - 1))
        BY <1>1, <1>2, <4>1
      <4> QED
        BY <1>1, <2>2, <4>1, <4>2 DEF Isolated
    <3> QED
      BY <3>1, <3>2
  <2> QED
    BY <1>1, <2>1, <2>2 DEF Isolated
<1> QED
  BY <1>7, <1>8, <1>9 DEF u

\* The context of a callback in progress is at most the current one, and less
\* if the innermost function is another and one that calls functions: there is
\* a synchronous read in between.
LEMMA Inner ==
  ASSUME NEW s \in Seq(Frame), s # <<>>, NEW m, Isolated(s, m), ReadCounts
  PROVE  /\ Depth(s) \in Nat
         /\ \A f \in Calls(s) : m[f.acb].context \in 0..Depth(s)
         /\ Shape(s) /\ Head(s).op \notin Leaf =>
               \A f \in Calls(Tail(s)) : m[f.acb].context < Depth(s)
<1>1. /\ Len(s) \in Nat /\ DOMAIN s = 1..Len(s) /\ Head(s) = s[1]
      /\ Tail(s) \in Seq(Frame) /\ Len(Tail(s)) = Len(s) - 1
      /\ DOMAIN Tail(s) = 1..Len(Tail(s))
      /\ \A i \in 1..Len(Tail(s)) : Tail(s)[i] = s[i + 1]
  BY HeadTailProperties, LenProperties
<1>2. Depth(s) \in Nat
  BY Zenon DEF ReadCounts
<1>3. ASSUME NEW i \in 1..Len(s)
      PROVE  /\ Cardinality(Outer(s, i)) \in 0..Depth(s)
             /\ \A j \in 1..i : s[j].op = "bdrv_read_em" => Cardinality(Outer(s, i)) < Depth(s)
  BY Zenon DEF ReadCounts
<1>4. ASSUME NEW f \in Calls(s)
      PROVE  m[f.acb].context \in 0..Depth(s)
  <2>1. PICK i \in 1..Len(s) : f = s[i] /\ s[i].op = "callback"
    BY <1>1 DEF Calls, Range
  <2> QED
    BY <1>1, <1>3, <2>1 DEF Isolated
<1>5. ASSUME Shape(s), Head(s).op \notin Leaf, NEW f \in Calls(Tail(s))
      PROVE  m[f.acb].context < Depth(s)
  <2>1. PICK i \in 1..Len(Tail(s)) : f = Tail(s)[i] /\ f.op = "callback"
    BY <1>1 DEF Calls, Range
  <2>2. i \in 1..(Len(s) - 1) /\ i \in 1..Len(s) /\ i + 1 \in 1..Len(s) /\ f = s[i + 1]
    BY <1>1, <2>1
  <2>3. s[i].op \in Leaf \cup {"bdrv_read_em"}
    BY <1>5, <2>1, <2>2 DEF Shape, Fits
  <2>4. s[i].op \notin Leaf
    <3>1. CASE i = 1
      BY <1>1, <1>5, <3>1
    <3>2. CASE i # 1
      <4>1. i - 1 \in 1..(Len(s) - 1) /\ (i - 1) + 1 = i
        BY <1>1, <2>2, <3>2
      <4>2. Fits(s[i - 1], s[(i - 1) + 1])
        BY <1>5, <4>1 DEF Shape
      <4> QED
        BY <4>1, <4>2 DEF Fits
    <3> QED
      BY <3>1, <3>2
  <2>5. m[f.acb].context = Cardinality(Outer(s, i + 1))
    BY <1>1, <2>1, <2>2 DEF Isolated
  <2>6. s[i].op = "bdrv_read_em" /\ i \in 1..(i + 1)
    BY <2>2, <2>3, <2>4
  <2> QED
    BY <1>3, <2>2, <2>5, <2>6, Zenon
<1> QED
  BY <1>2, <1>4, <1>5

\* The contexts of the callbacks in progress are all that matters of aiocb.
LEMMA SameContexts ==
  ASSUME NEW s, NEW m, NEW n, Isolated(s, m),
         \A f \in Calls(s) : n[f.acb].context = m[f.acb].context
  PROVE  Isolated(s, n)
BY DEF Isolated, Calls, Range

\* The callback that frame f is.
CallOf(f) == IF f.op = "callback" THEN {f} ELSE {}

\* A call.
LEMMA CallView ==
  ASSUME NEW s \in Stacks, NEW f \in Frame, NEW m, Shape(s), Isolated(s, m),
         Fits(f, Head(s)), f.op = "callback" => m[f.acb].context = Depth(s), ReadCounts
  PROVE  /\ Shape(<<f>> \o s) /\ Isolated(<<f>> \o s, m)
         /\ Calls(<<f>> \o s) = Calls(s) \cup CallOf(f)
<1>1. s \in Seq(Frame)
  BY DEF Stacks
<1> QED
  BY <1>1, PushView, Zenon DEF CallOf

\* A return.
LEMMA ReturnView ==
  ASSUME NEW s \in Stacks, NEW m, Shape(s), Isolated(s, m), Head(s).op # "main_loop", ReadCounts
  PROVE  /\ Shape(Tail(s)) /\ Isolated(Tail(s), m) /\ Fits(Head(s), Head(Tail(s)))
         /\ Calls(s) = Calls(Tail(s)) \cup CallOf(Head(s))
         /\ Head(s).op = "callback" => m[Head(s).acb].context = Depth(s)
<1>1. s \in Seq(Frame) /\ s # <<>>
  BY DEF Stacks
<1>2. Head(s) \in Frame /\ Tail(s) \in Seq(Frame) /\ s = <<Head(s)>> \o Tail(s)
  BY <1>1, Split
<1>3. /\ Tail(s) \in Stacks /\ Tail(s) # <<>>
      /\ Depth(s) = Depth(Tail(s)) + IsRead(Head(s)) /\ Depth(Tail(s)) \in Nat
  BY StackPop DEF Stacks
<1> DEFINE f == Head(s)
           r == Tail(s)
<1> HIDE DEF f, r
<1>4. /\ f \in Frame /\ r \in Seq(Frame) /\ r # <<>> /\ s = <<f>> \o r
      /\ Depth(s) = Depth(r) + IsRead(f) /\ Depth(r) \in Nat
  BY <1>2, <1>3 DEF f, r
<1>5. /\ Calls(s) = Calls(r) \cup CallOf(f) /\ Shape(r) /\ Fits(f, Head(r))
      /\ Isolated(r, m) /\ (f.op = "callback" => m[f.acb].context = Depth(r))
  BY <1>4, PushView, Zenon DEF CallOf
<1>6. f.op = "callback" => Depth(s) = Depth(r)
  BY <1>4 DEF IsRead
<1> QED
  BY <1>5, <1>6, Zenon DEF f, r

\* Another frame at the top: the same function further on, or posix_aio_read
\* in qemu_aio_wait.
Swap(f, g) ==
    /\ f.op = g.op \/ (g.op = "aio_wait" /\ f.op = "process_queue")
    /\ f.op = "callback" => f.acb = g.acb

\* The function at the top goes on.
LEMMA GotoView ==
  ASSUME NEW s \in Stacks, NEW m, Shape(s), Isolated(s, m), NEW f \in Frame, Swap(f, Head(s)), ReadCounts
  PROVE  /\ Shape(<<f>> \o Tail(s)) /\ Isolated(<<f>> \o Tail(s), m)
         /\ Calls(<<f>> \o Tail(s)) = Calls(Tail(s)) \cup CallOf(f)
         /\ Calls(s) = Calls(Tail(s)) \cup CallOf(Head(s))
<1>1. s \in Seq(Frame) /\ s # <<>>
  BY DEF Stacks
<1> DEFINE g == Head(s)
           r == Tail(s)
<1>2. g \in Frame /\ r \in Seq(Frame) /\ s = <<g>> \o r
  BY <1>1, Split
<1> HIDE DEF g, r
<1>3. /\ Calls(s) = Calls(r) \cup CallOf(g) /\ Shape(r) /\ (r # <<>> => Fits(g, Head(r)))
      /\ Isolated(r, m) /\ (g.op = "callback" => m[g.acb].context = Depth(r))
  BY <1>2, PushView, Zenon DEF CallOf
<1>4. Swap(f, g)
  BY DEF g
<1>5. r # <<>> => Fits(f, Head(r))
  BY <1>3, <1>4 DEF Swap, Fits, Leaf
<1>6. f.op = "callback" => m[f.acb].context = Depth(r)
  BY <1>3, <1>4 DEF Swap
<1>7. /\ Shape(<<f>> \o r) /\ Isolated(<<f>> \o r, m)
      /\ Calls(<<f>> \o r) = Calls(r) \cup CallOf(f)
  BY <1>2, <1>3, <1>5, <1>6, PushView, Zenon DEF CallOf
<1> QED
  BY <1>3, <1>7 DEF g, r

\* main_loop is called from nowhere.
LEMMA Bottom ==
  ASSUME NEW s \in Stacks, Shape(s), Head(s).op = "main_loop", ReadCounts
  PROVE  Tail(s) = <<>> /\ Calls(s) = {} /\ Depth(s) = 0
<1>1. s \in Seq(Frame) /\ s # <<>>
  BY DEF Stacks
<1>2. Head(s) \in Frame /\ Tail(s) \in Seq(Frame) /\ s = <<Head(s)>> \o Tail(s)
  BY <1>1, Split
<1> DEFINE f == Head(s)
           r == Tail(s)
<1> HIDE DEF f, r
<1>3. Tail(s) = <<>>
  <2>1. f \in Frame /\ r \in Seq(Frame) /\ s = <<f>> \o r /\ f.op = "main_loop"
    BY <1>2 DEF f, r
  <2>2. r # <<>> => Fits(f, Head(r))
    BY <2>1, PushView, Zenon
  <2> QED
    BY <2>1, <2>2 DEF Fits, r
<1>4. Calls(<<>>) = {}
  BY DEF Calls, Range
<1>5. Calls(s) = {}
  BY <1>2, <1>3, <1>4, PushView, Zenon
<1>6. Depth(<<>>) = 0
  BY DEF ReadCounts
<1>7. Depth(s) = Depth(Tail(s)) + IsRead(Head(s)) /\ IsRead(Head(s)) = 0
  BY <1>2, DepthPush, Zenon DEF IsRead
<1>8. Depth(s) = 0 + 0
  BY <1>3, <1>6, <1>7, Zenon
<1> QED
  BY <1>3, <1>5, <1>8

-----------------------------------------------------------------------------
(* The inductive invariant of the service: who owns a block, which callbacks are
   in progress and in which contexts. *)

Listed == Range(first_aio)
Queued == Range(request_list)
InProgress(a) == aiocb[a].active /\ aiocb[a].ret = "EINPROGRESS"
Ctx(a) == aiocb[a].context

Nesting == Shape(stack) /\ Isolated(stack, aiocb)

\* A listed block is queued until a worker takes it.
Owned ==
    /\ NoDuplicates(first_aio)
    /\ NoDuplicates(request_list)
    /\ Block = free_aiocb \cup Listed \cup Called
    /\ free_aiocb \cap (Listed \cup Called) = {}
    /\ Listed \cap Called = {}
    /\ Queued \subseteq Listed
    /\ \A a \in Listed : a \in Queued <=> ~ aiocb[a].active
    /\ \A a \in Queued : aiocb[a].ret = "EINPROGRESS"

\* The blocks in progress and the workers at their I/O are paired.
Working ==
    /\ \A t \in Thread :
        IF at[t] = "io" THEN job[t] \in Listed /\ InProgress(job[t]) ELSE job[t] = NoBlock
    /\ \A t, u \in Thread : job[t] = job[u] /\ job[t] # NoBlock => t = u
    /\ \A a \in Listed : InProgress(a) => \E t \in Thread : job[t] = a

\* The block that paio_cancel waits for stays on the list.
Cancelling == In("paio_cancel") => Top.acb \in Listed /\ aiocb[Top.acb].active

\* A synchronous operation has one request at a time, and a follow-up only when
\* the callback of the one before has nothing more to do; once it is done it has
\* none.
Chains ==
    /\ \A a \in Listed : Ctx(a) <= async_context
    /\ \A a, b \in Listed : Ctx(a) = Ctx(b) /\ Ctx(a) # 0 => a = b
    /\ \A a \in Listed, f \in Calls(stack) :
        Ctx(a) = Ctx(f.acb) /\ Ctx(a) # 0 => f.pc = "ret"
    /\ \A c \in 1..async_context : async_ret[c] =>
        /\ \A a \in Listed : Ctx(a) # c
        /\ \A f \in Calls(stack) : Ctx(f.acb) # c

ServiceInv == PoolInv /\ Nesting /\ Owned /\ Working /\ Cancelling /\ Chains

\* A step of the service, or none.
ServiceStep == [Service!Next]_(Service!vars)

\* The callbacks in progress go on.
Continue ==
    /\ Called' = Called
    /\ \A g \in Calls(stack') : \E f \in Calls(stack) :
        f.acb = g.acb /\ (f.pc = "ret" => g.pc = "ret")

\* A step that neither moves a block nor gives one to a worker.
LEMMA StillStep ==
  ASSUME ServiceInv, PoolInv', Nesting', UNCHANGED <<lists, job>>, Continue,
         \A t \in Thread : at'[t] = "io" <=> at[t] = "io",
         UNCHANGED <<async_context, async_ret>>, Cancelling'
  PROVE  ServiceInv' /\ ServiceStep
<1>1. UNCHANGED <<request_list, first_aio, free_aiocb, aiocb>> /\ Called' = Called
  BY DEF lists, Continue
<1>2. Owned'
  BY <1>1 DEF ServiceInv, Owned, Listed, Queued
<1>3. Working'
  BY <1>1 DEF ServiceInv, Working, Listed, InProgress
<1>4. Chains'
  <2>1. \A f \in Calls(stack') : \E g \in Calls(stack) :
           Ctx(f.acb)' = Ctx(g.acb) /\ (g.pc = "ret" => f.pc = "ret")
    BY <1>1 DEF Continue, Ctx
  <2> QED
    BY <1>1, <2>1 DEF ServiceInv, Chains, Listed, Ctx
<1>5. UNCHANGED Service!vars
  BY <1>1 DEF Service!vars
<1> QED
  BY <1>2, <1>3, <1>4, <1>5 DEF ServiceInv, ServiceStep

\* A step of a worker or of the signal handler.
LEMMA OtherStep ==
  ASSUME ServiceInv, PoolInv', UNCHANGED <<lists, job, async, stack>>,
         \A t \in Thread : at'[t] = "io" <=> at[t] = "io"
  PROVE  ServiceInv' /\ ServiceStep
<1>1. UNCHANGED <<first_aio, aiocb, stack, async_context, async_ret>>
  BY DEF lists, async
<1>2. Nesting' /\ Cancelling'
  BY <1>1 DEF ServiceInv, Nesting, Cancelling, In, Top, Listed
<1>3. Continue
  BY <1>1 DEF Continue, Called
<1> QED
  BY <1>1, <1>2, <1>3, StillStep

\* A step in which no block leaves its context, its list or its callback.
LEMMA FieldStep ==
  ASSUME ServiceInv, UNCHANGED <<first_aio, free_aiocb, async, stack>>,
         \A a \in Block : aiocb'[a].context = aiocb[a].context
  PROVE  Nesting' /\ Chains' /\ ServiceStep /\ Called' = Called
<1>1. UNCHANGED <<async_context, async_ret>>
  BY DEF async
<1>2. Called' = Called
  BY DEF Called
<1>3. /\ Listed' = Listed /\ Listed \in SUBSET Block
      /\ \A f \in Calls(stack) : f.acb \in Block
  <2>1. Listed' = Listed /\ Listed \in SUBSET Block
    BY ElementOfSeq, LenProperties DEF Listed, Range, ServiceInv, PoolInv, ListsOK
  <2>2. stack \in Seq(Frame)
    BY DEF ServiceInv, PoolInv, StackOK, Stacks
  <2>3. \A f \in Calls(stack) : f \in Frame /\ f.op = "callback"
    BY <2>2, ElementOfSeq, LenProperties DEF Calls, Range
  <2> QED
    BY <2>1, <2>3, Frames
<1>4. Nesting'
  BY <1>3, SameContexts DEF ServiceInv, Nesting
<1>5. Chains'
  BY <1>1, <1>3 DEF ServiceInv, Chains, Ctx
<1>6. UNCHANGED Service!vars
  <2>1. [a \in Block |-> aiocb'[a].context] = [a \in Block |-> aiocb[a].context]
    OBVIOUS
  <2> QED
    BY <1>1, <1>2, <2>1 DEF Service!vars
<1> QED
  BY <1>2, <1>4, <1>5, <1>6 DEF ServiceStep

\* A worker takes a request: it is the only one that has it.
LEMMA TakesStep ==
  ASSUME ServiceInv, PoolInv', NEW t \in Thread, ThreadTakes(t),
         UNCHANGED <<wakeup, async, client, stack>>
  PROVE  ServiceInv' /\ ServiceStep
<1> DEFINE a == Head(request_list)
<1>1. /\ at[t] # "io"
      /\ request_list # <<>>
      /\ request_list' = Tail(request_list)
      /\ aiocb' = [aiocb EXCEPT ![a].active = TRUE]
      /\ at' = [at EXCEPT ![t] = "io"] /\ job' = [job EXCEPT ![t] = a]
      /\ UNCHANGED <<first_aio, free_aiocb>>
  BY DEF ThreadTakes, TakeRequest
<1>2. /\ request_list \in Seq(Block) /\ first_aio \in Seq(Block)
      /\ aiocb \in [Block -> Request]
      /\ at \in [Thread -> WorkerAt] /\ job \in [Thread -> Block \cup {NoBlock}]
  BY DEF ServiceInv, PoolInv, ListsOK, WorkersOK, Counted
<1>3. /\ a \in Queued /\ Queued' = Queued \ {a} /\ NoDuplicates(request_list')
  BY <1>1, <1>2, TailRange DEF ServiceInv, Owned, Queued
<1>4. a \in Block
  BY <1>1, <1>2, HeadTailProperties
<1> HIDE DEF a
<1>5. /\ a \in Listed /\ ~ aiocb[a].active /\ aiocb[a].ret = "EINPROGRESS"
      /\ Listed' = Listed
  BY <1>1, <1>3 DEF ServiceInv, Owned, Listed
<1>6. /\ aiocb'[a].active = TRUE /\ aiocb'[a].ret = "EINPROGRESS"
      /\ \A b \in Block : b # a => aiocb'[b] = aiocb[b]
      /\ \A b \in Block : aiocb'[b].context = aiocb[b].context
  <2>1. aiocb'[a] = [aiocb[a] EXCEPT !.active = TRUE] /\ \A b \in Block : b # a => aiocb'[b] = aiocb[b]
    BY <1>1, <1>2, <1>4
  <2>2. aiocb[a] \in Request
    BY <1>2, <1>4
  <2>3. aiocb'[a].active = TRUE /\ aiocb'[a].ret = aiocb[a].ret /\ aiocb'[a].context = aiocb[a].context
    BY <2>1, <2>2 DEF Request
  <2> QED
    BY <1>5, <2>1, <2>3, ZenonT(30)
<1>7. Nesting' /\ Chains' /\ ServiceStep /\ Called' = Called
  BY <1>1, <1>6, FieldStep
<1>8. Listed \in SUBSET Block
  BY <1>2, ElementOfSeq, LenProperties DEF Listed, Range
<1>9. Owned'
  <2>1. \A b \in Listed : b \in Queued' <=> ~ aiocb'[b].active
    BY <1>3, <1>5, <1>6, <1>8 DEF ServiceInv, Owned
  <2>2. \A b \in Queued' : aiocb'[b].ret = "EINPROGRESS"
    BY <1>3, <1>6, <1>8 DEF ServiceInv, Owned
  <2>3. Queued' \subseteq Listed' /\ free_aiocb' = free_aiocb /\ first_aio' = first_aio
    BY <1>1, <1>3, <1>5 DEF ServiceInv, Owned
  <2> QED
    BY <1>3, <1>5, <1>7, <2>1, <2>2, <2>3 DEF ServiceInv, Owned
<1>10. Working'
  <2>1. \A u \in Thread : job[u] # a
    BY <1>5, PoolAssumption, <1>4 DEF ServiceInv, Working, InProgress
  <2>2. \A b \in Listed : InProgress(b)' <=> b = a \/ InProgress(b)
    BY <1>6, <1>8 DEF InProgress
  <2>3. /\ at'[t] = "io" /\ job'[t] = a
        /\ \A u \in Thread : u # t => at'[u] = at[u] /\ job'[u] = job[u]
    BY <1>1, <1>2
  <2>4. job[t] = NoBlock
    BY <1>1 DEF ServiceInv, Working
  <2>5. ASSUME NEW u \in Thread
        PROVE  IF at'[u] = "io" THEN job'[u] \in Listed /\ InProgress(job[u])' ELSE job'[u] = NoBlock
    BY <1>5, <2>2, <2>3 DEF ServiceInv, Working
  <2>6. \A u, v \in Thread : job'[u] = job'[v] /\ job'[u] # NoBlock => u = v
    BY <2>1, <2>3 DEF ServiceInv, Working
  <2>7. \A b \in Listed : InProgress(b)' => \E u \in Thread : job'[u] = b
    BY <2>2, <2>3, <2>4, <1>8, PoolAssumption DEF ServiceInv, Working
  <2> QED
    BY <1>5, <2>5, <2>6, <2>7 DEF Working, InProgress
<1>11. Cancelling'
  BY <1>1, <1>5, <1>6, <1>8 DEF ServiceInv, Cancelling, In, Top
<1> QED
  BY <1>7, <1>9, <1>10, <1>11 DEF ServiceInv

\* A worker stores the result of its request.
LEMMA CompletesStep ==
  ASSUME ServiceInv, PoolInv', NEW t \in Thread, ThreadCompletes(t),
         UNCHANGED <<wakeup, async, client, stack>>
  PROVE  ServiceInv' /\ ServiceStep
<1> DEFINE a == job[t]
<1>1. /\ at[t] = "io"
      /\ aiocb' = [aiocb EXCEPT ![a].ret = "done"]
      /\ at' = [at EXCEPT ![t] = "kill"] /\ job' = [job EXCEPT ![t] = NoBlock]
      /\ UNCHANGED <<request_list, first_aio, free_aiocb>>
  BY DEF ThreadCompletes
<1>2. /\ first_aio \in Seq(Block) /\ aiocb \in [Block -> Request]
      /\ at \in [Thread -> WorkerAt] /\ job \in [Thread -> Block \cup {NoBlock}]
  BY DEF ServiceInv, PoolInv, ListsOK, WorkersOK, Counted
<1>3. a \in Listed /\ InProgress(a) /\ Listed' = Listed /\ Queued' = Queued
  BY <1>1 DEF ServiceInv, Working, Listed, Queued
<1>4. Listed \in SUBSET Block /\ a \in Block
  BY <1>2, <1>3, ElementOfSeq, LenProperties DEF Listed, Range
<1> HIDE DEF a
<1>5. /\ aiocb'[a].ret = "done" /\ aiocb'[a].active = aiocb[a].active
      /\ \A b \in Block : b # a => aiocb'[b] = aiocb[b]
      /\ \A b \in Block : aiocb'[b].context = aiocb[b].context
  <2>1. aiocb'[a] = [aiocb[a] EXCEPT !.ret = "done"] /\ \A b \in Block : b # a => aiocb'[b] = aiocb[b]
    BY <1>1, <1>2, <1>4
  <2>2. aiocb[a] \in Request
    BY <1>2, <1>4
  <2>3. aiocb'[a].ret = "done" /\ aiocb'[a].active = aiocb[a].active /\ aiocb'[a].context = aiocb[a].context
    BY <2>1, <2>2 DEF Request
  <2> QED
    BY <2>1, <2>3, ZenonT(30)
<1>6. Nesting' /\ Chains' /\ ServiceStep /\ Called' = Called
  BY <1>1, <1>5, FieldStep
<1>7. Owned'
  <2>1. \A b \in Listed : b \in Queued <=> ~ aiocb'[b].active
    BY <1>4, <1>5 DEF ServiceInv, Owned
  <2>2. a \notin Queued /\ Queued \subseteq Listed
    BY <1>3 DEF ServiceInv, Owned, InProgress
  <2>3. \A b \in Queued : aiocb'[b].ret = "EINPROGRESS"
    BY <1>4, <1>5, <2>2 DEF ServiceInv, Owned
  <2> QED
    BY <1>1, <1>3, <1>6, <2>1, <2>3 DEF ServiceInv, Owned
<1>8. Working'
  <2>1. /\ at'[t] = "kill" /\ job'[t] = NoBlock /\ job[t] = a
        /\ \A u \in Thread : u # t => at'[u] = at[u] /\ job'[u] = job[u]
    BY <1>1, <1>2 DEF a
  <2>2. \A b \in Listed : InProgress(b)' <=> b # a /\ InProgress(b)
    BY <1>4, <1>5 DEF InProgress
  <2>3. a # NoBlock
    BY <1>4, PoolAssumption
  <2>4. \A u \in Thread : u # t => job[u] # a
    BY <2>1, <2>3 DEF ServiceInv, Working
  <2>5. ASSUME NEW u \in Thread
        PROVE  IF at'[u] = "io" THEN job'[u] \in Listed /\ InProgress(job[u])' ELSE job'[u] = NoBlock
    BY <2>1, <2>2, <2>4 DEF ServiceInv, Working
  <2>6. \A u, v \in Thread : job'[u] = job'[v] /\ job'[u] # NoBlock => u = v
    BY <2>1 DEF ServiceInv, Working
  <2>7. \A b \in Listed : InProgress(b)' => \E u \in Thread : job'[u] = b
    BY <2>1, <2>2 DEF ServiceInv, Working
  <2> QED
    BY <1>3, <2>5, <2>6, <2>7 DEF Working, InProgress
<1>9. Cancelling'
  BY <1>3, <1>4, <1>5 DEF ServiceInv, Cancelling, In, Top
<1> QED
  BY <1>6, <1>7, <1>8, <1>9 DEF ServiceInv

\* The steps of a worker.
LEMMA ThreadServes ==
  ASSUME ServiceInv, PoolInv', NEW t \in Thread,
         \/ ThreadStep(t)
         \/ ThreadWakes(t) /\ UNCHANGED <<wakeup, async, client, stack>>
  PROVE  ServiceInv' /\ ServiceStep
<1>1. UNCHANGED <<async, client, stack>>
  BY DEF ThreadStep
<1>2. at \in [Thread -> WorkerAt]
  BY DEF ServiceInv, PoolInv, WorkersOK, Counted
<1>3. CASE ThreadTakes(t) /\ UNCHANGED wakeup
  BY <1>1, <1>3, TakesStep
<1>4. CASE ThreadCompletes(t) /\ UNCHANGED wakeup
  BY <1>1, <1>4, CompletesStep
<1>5. ASSUME NEW pc \in {"lock", "wait", "timedout", "none"}, at[t] # "io",
             at' = [at EXCEPT ![t] = pc], UNCHANGED <<lists, job>>
      PROVE  ServiceInv' /\ ServiceStep
  <2>1. \A u \in Thread : at'[u] = "io" <=> at[u] = "io"
    BY <1>2, <1>5
  <2> QED
    BY <1>1, <1>5, <2>1, OtherStep
<1>6. CASE ThreadWaits(t)
  BY <1>5, <1>6 DEF ThreadWaits
<1>7. CASE ThreadExits(t)
  BY <1>5, <1>7 DEF ThreadExits
<1>8. CASE ThreadKills(t)
  BY <1>5, <1>8 DEF ThreadKills
<1>9. CASE ThreadWakes(t)
  <2>1. PICK pc \in {"timedout", "lock"} : at' = [at EXCEPT ![t] = pc]
    BY <1>9, ZenonT(30) DEF ThreadWakes
  <2> QED
    BY <1>5, <1>9, <2>1, ZenonT(30) DEF ThreadWakes
<1> QED
  BY <1>3, <1>4, <1>6, <1>7, <1>8, <1>9 DEF ThreadStep

-----------------------------------------------------------------------------
(* The blocks. *)

\* A submission takes a free block.
LEMMA SubmitOwned ==
  ASSUME ListsOK, WorkersOK, Owned, Working, free_aiocb # {}, NEW c \in Context,
         NEW cb \in {"device", "bdrv_rw_em_cb"}, paio_submit(qemu_aio_get, c, cb),
         Called' = Called
  PROVE  \E a \in free_aiocb :
            /\ Owned' /\ Working'
            /\ a \in Block /\ a \notin Listed /\ a \notin Called
            /\ Listed' = Listed \cup {a}
            /\ aiocb'[a].context = c
            /\ \A b \in Block : b # a => aiocb'[b] = aiocb[b]
<1>0. PICK a \in free_aiocb : a = qemu_aio_get
  BY DEF qemu_aio_get
<1>1. a \in free_aiocb /\ a \in Block /\ a # NoBlock
  BY <1>0, PoolAssumption DEF ListsOK
<1>2. /\ free_aiocb' = free_aiocb \ {a}
      /\ aiocb' = [aiocb EXCEPT ![a] = [ret |-> "EINPROGRESS", active |-> FALSE,
                                        context |-> c, cb |-> cb]]
      /\ first_aio' = <<a>> \o first_aio
      /\ request_list' = Append(request_list, a)
  BY <1>0 DEF paio_submit
<1>3. job' = job /\ \A t \in Thread : at'[t] = "io" <=> at[t] = "io"
  <2>1. CASE idle_threads = 0 /\ cur_threads < max_threads
    <3> DEFINE t == CHOOSE t \in Thread \ Alive : TRUE
    <3>1. t \in Thread /\ at[t] = "none"
      BY <2>1, FreeThread
    <3> HIDE DEF t
    <3>2. at' = [at EXCEPT ![t] = "lock"] /\ job' = job
      BY <2>1 DEF paio_submit, spawn_thread, t
    <3>3. at \in [Thread -> WorkerAt]
      BY DEF WorkersOK, Counted
    <3> QED
      BY <3>1, <3>2, <3>3
  <2>2. CASE ~(idle_threads = 0 /\ cur_threads < max_threads)
    BY <2>2 DEF paio_submit, workers
  <2> QED
    BY <2>1, <2>2
<1>4. a \notin Listed /\ a \notin Called /\ a \notin Queued
  BY <1>1 DEF Owned
<1>5. /\ first_aio \in Seq(Block) /\ request_list \in Seq(Block)
      /\ aiocb \in [Block -> Request] /\ Listed \in SUBSET Block
  BY ElementOfSeq, LenProperties DEF ListsOK, Listed, Range
<1>6. Listed' = Listed \cup {a} /\ NoDuplicates(first_aio')
  BY <1>1, <1>2, <1>4, <1>5, PushRange DEF Listed, Owned
<1>7. Queued' = Queued \cup {a} /\ NoDuplicates(request_list')
  BY <1>1, <1>2, <1>4, <1>5, AppendRange DEF Queued, Owned
<1>8. /\ aiocb'[a].context = c /\ aiocb'[a].active = FALSE /\ aiocb'[a].ret = "EINPROGRESS"
      /\ \A b \in Block : b # a => aiocb'[b] = aiocb[b]
  BY <1>1, <1>2, <1>5
<1>9. Owned'
  <2>1. /\ Block = free_aiocb' \cup Listed' \cup Called'
        /\ free_aiocb' \cap (Listed' \cup Called') = {}
        /\ Listed' \cap Called' = {}
        /\ Queued' \subseteq Listed'
    BY <1>1, <1>2, <1>4, <1>6, <1>7 DEF Owned
  <2>2. \A b \in Listed' : b \in Queued' <=> ~ aiocb'[b].active
    BY <1>4, <1>5, <1>6, <1>7, <1>8 DEF Owned
  <2>3. \A b \in Queued' : aiocb'[b].ret = "EINPROGRESS"
    BY <1>4, <1>5, <1>7, <1>8 DEF Owned
  <2> QED
    BY <1>6, <1>7, <2>1, <2>2, <2>3 DEF Owned
<1>10. Working'
  <2>1. \A b \in Listed : InProgress(b)' <=> InProgress(b)
    BY <1>4, <1>5, <1>8 DEF InProgress
  <2>2. ~ InProgress(a)'
    BY <1>1, <1>8 DEF InProgress
  <2>3. ASSUME NEW t \in Thread
        PROVE  IF at'[t] = "io" THEN job'[t] \in Listed' /\ InProgress(job[t])' ELSE job'[t] = NoBlock
    BY <1>3, <1>6, <2>1 DEF Working
  <2>4. \A t, u \in Thread : job'[t] = job'[u] /\ job'[t] # NoBlock => t = u
    BY <1>3 DEF Working
  <2>5. \A b \in Listed' : InProgress(b)' => \E t \in Thread : job'[t] = b
    BY <1>3, <1>6, <2>1, <2>2 DEF Working
  <2> QED
    BY <2>3, <2>4, <2>5 DEF Working, InProgress
<1> QED
  BY <1>1, <1>4, <1>6, <1>8, <1>9, <1>10

\* The blocks of lists and of callbacks.
LEMMA BlockFacts ==
  ASSUME ServiceInv
  PROVE  /\ Listed \in SUBSET Block /\ Called \in SUBSET Block
         /\ aiocb \in [Block -> Request]
         /\ \A f \in Calls(stack) : f.acb \in Called
         /\ \A a \in Called : \E f \in Calls(stack) : f.acb = a
         /\ \A a \in Block : Ctx(a) \in Nat
<1>1. Listed \in SUBSET Block /\ Called \in SUBSET Block
  BY DEF ServiceInv, Owned
<1>2. aiocb \in [Block -> Request]
  BY DEF ServiceInv, PoolInv, ListsOK
<1>3. /\ \A f \in Calls(stack) : f.acb \in Called
      /\ \A a \in Called : \E f \in Calls(stack) : f.acb = a
  BY DEF Called, Calls
<1>4. \A a \in Block : Ctx(a) \in Nat
  BY <1>2, PoolAssumption DEF Ctx, Request, Context
<1> QED
  BY <1>1, <1>2, <1>3, <1>4

\* The level of a block that changes hands.
LEMMA Levels ==
  ASSUME NEW a \in Block, NEW c, aiocb'[a].context = c,
         \A b \in Block : b # a => aiocb'[b].context = aiocb[b].context
  PROVE  [b \in Block |-> aiocb'[b].context]
            = [[b \in Block |-> aiocb[b].context] EXCEPT ![a] = c]
BY Zenon
=============================================================================

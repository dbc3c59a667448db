-------------------------- MODULE LocalSyncProofs --------------------------
(***************************************************************************)
(* Proofs about LocalSync, for every set of tasks and every script: the    *)
(* local mutex has one owner, no permit is lost, and nobody waits for what *)
(* is there, however deep the resumes nest.                                *)
(***************************************************************************)
EXTENDS LocalSync, WaiterQueueProofs

Outcomes == {"none", "granted", "cancelled"}
LoopFrames == [op : Loops, task : Tasks, n : 0..2]
Frames == LoopFrames \cup {TaskFrame(t) : t \in Tasks}

TaskTypes ==
    /\ script \in [Tasks -> Seq(Steps)] /\ pos \in [Tasks -> Nat]
    /\ status \in [Tasks -> Statuses] /\ stack \in Seq(Frames)
WaitTypes ==
    /\ queue \in [Queues -> Seq(Tasks)] /\ outcome \in [Queues -> [Tasks -> Outcomes]]
    /\ stopped \subseteq Tasks /\ posted \in Seq(Queues \X Tasks)
DataTypes ==
    /\ locked \in BOOLEAN /\ holders \subseteq Tasks
    /\ permits \in Nat /\ issued \in Nat /\ taken \in Nat
    /\ signaled \in BOOLEAN /\ ready \in BOOLEAN
TypeOK == TaskTypes /\ WaitTypes /\ DataTypes

-----------------------------------------------------------------------------
(* The invariant                                                             *)

\* The tasks of R are on a stack, each once.
Stacked(st, R) ==
    /\ \A t \in Tasks : t \in R <=> InQueue(TaskFrame(t), st)
    /\ \A i, j \in 1..Len(st) : st[i] = st[j] /\ st[i].op = "task" => i = j
Running == {t \in Tasks : status[t] = "running"}
StackInv == Stacked(stack, Running)

\* A task owns the mutex as long as it has still to unlock it.
ScriptAt(t) ==
    /\ Scoped(script[t]) /\ Whole(script[t])
    /\ pos[t] \in 1..(Len(script[t]) + 1)
    /\ t \in holders <=> Owes(script[t], pos[t])
ScriptInv == \A t \in Tasks : ScriptAt(t)

\* A waiter that can be woken is suspended where its queue says; that of the
\* condition variable may still be on the way there.
Active(k, t) == InQueue(t, queue[k]) /\ outcome[k][t] = "none"
StepOf(t) == script[t][pos[t]]
Waits(k, t) ==
    /\ pos[t] <= Len(script[t])
    /\ k = "lock" => status[t] = "suspended" /\ StepOf(t) \in {"lock", "relock"}
    /\ k = "sem" => status[t] = "suspended" /\ StepOf(t) = "acquire"
    /\ k = "event" => status[t] = "suspended" /\ StepOf(t) = "wait"
    /\ k = "cv" =>
          \/ status[t] \in {"running", "suspended"} /\ StepOf(t) = "cv_await"
          \/ /\ status[t] = "running" /\ StepOf(t) = "unlock"
             /\ pos[t] + 1 <= Len(script[t]) /\ script[t][pos[t] + 1] = "cv_await"
WaitInv == \A k \in Queues, t \in Tasks : Active(k, t) => Waits(k, t)

HasSet(st) == \E i \in 1..Len(st) : st[i].op = "set"
\* Nobody waits for what is there, except an event whose set has still to wake them.
OpenInv ==
    /\ ~locked => \A t \in Tasks : ~Active("lock", t)
    /\ permits > 0 => \A t \in Tasks : ~Active("sem", t)
    /\ signaled => \/ \A t \in Tasks : ~Active("event", t)
                   \/ HasSet(stack)

OwnerInv ==
    /\ locked <=> holders # {}
    /\ \A x, y \in holders : x = y
PermitInv == permits + taken + Cardinality(Owed(stack)) = issued

LocalInv == TypeOK /\ StackInv /\ ScriptInv /\ WaitInv /\ OpenInv /\ OwnerInv /\ PermitInv

-----------------------------------------------------------------------------
(* The call stack                                                            *)

\* A frame on top of a stack.
LEMMA PushForm ==
    ASSUME NEW S, NEW s \in Seq(S), NEW f \in S
    PROVE  /\ <<f>> \o s \in Seq(S) /\ <<f>> \o s # <<>>
           /\ Head(<<f>> \o s) = f /\ Tail(<<f>> \o s) = s
<1> DEFINE p == <<f>> \o s
<1>1. /\ p \in Seq(S) /\ Len(p) = Len(s) + 1 /\ Len(s) \in Nat
      /\ \A i \in 1..(Len(s) + 1) : p[i] = IF i = 1 THEN f ELSE s[i - 1]
  <2>1. <<f>> \in Seq(S) /\ Len(<<f>>) = 1 /\ <<f>>[1] = f
      OBVIOUS
  <2> QED  BY <2>1, ConcatProperties, LenProperties
<1> HIDE DEF p
<1>2. p # <<>> /\ p[1] = f
    BY <1>1
<1>3. /\ Tail(p) \in Seq(S) /\ Len(Tail(p)) = Len(s)
      /\ \A i \in 1..Len(s) : Tail(p)[i] = s[i]
    BY <1>1, <1>2, HeadTailProperties
<1>4. Tail(p) = s
    BY <1>3, SeqEqual
<1> QED  BY <1>1, <1>2, <1>4 DEF p

\* The top of a stack and the rest of it.
LEMMA PopForm ==
    ASSUME NEW S, NEW s \in Seq(S), s # <<>>
    PROVE  /\ Head(s) \in S /\ Head(s) = s[1] /\ Tail(s) \in Seq(S)
           /\ Len(s) \in Nat \ {0} /\ Len(Tail(s)) = Len(s) - 1
           /\ \A i \in 1..Len(Tail(s)) : Tail(s)[i] = s[i + 1]
           /\ \A i \in 2..Len(s) : s[i] = Tail(s)[i - 1]
           /\ \A x : InQueue(x, s) <=> x = Head(s) \/ InQueue(x, Tail(s))
<1>1. /\ Head(s) \in S /\ Head(s) = s[1] /\ Tail(s) \in Seq(S)
      /\ Len(s) \in Nat \ {0} /\ Len(Tail(s)) = Len(s) - 1
      /\ \A i \in 1..Len(Tail(s)) : Tail(s)[i] = s[i + 1]
    BY HeadTailProperties, EmptySeq
<1>2. \A i \in 2..Len(s) : s[i] = Tail(s)[i - 1]
  <2>1. TAKE i \in 2..Len(s)
  <2>2. i - 1 \in 1..Len(Tail(s)) /\ (i - 1) + 1 = i
      BY <1>1
  <2> QED  BY <1>1, <2>2
<1>3. ASSUME NEW x PROVE InQueue(x, s) <=> x = Head(s) \/ InQueue(x, Tail(s))
  <2>1. ASSUME InQueue(x, s), x # Head(s) PROVE InQueue(x, Tail(s))
    <3>1. PICK i \in 1..Len(s) : s[i] = x
        BY <2>1 DEF InQueue
    <3>2. i - 1 \in 1..Len(Tail(s)) /\ i \in 2..Len(s)
        BY <1>1, <2>1, <3>1
    <3> QED  BY <1>2, <3>1, <3>2 DEF InQueue
  <2>2. ASSUME InQueue(x, Tail(s)) PROVE InQueue(x, s)
    <3>1. PICK i \in 1..Len(Tail(s)) : Tail(s)[i] = x
        BY <2>2 DEF InQueue
    <3>2. i + 1 \in 1..Len(s) /\ s[i + 1] = x
        BY <1>1, <3>1
    <3> QED  BY <3>2 DEF InQueue
  <2>3. 1 \in 1..Len(s)
      BY <1>1
  <2> QED  BY <1>1, <2>1, <2>2, <2>3 DEF InQueue
<1> QED  BY <1>1, <1>2, <1>3

\* The two kinds of frame.
LEMMA FrameFacts ==
    ASSUME NEW f \in Frames
    PROVE  /\ f \in LoopFrames => f.op # "task"
           /\ f \notin LoopFrames => \E t \in Tasks : f = TaskFrame(t)
           /\ \A t \in Tasks : TaskFrame(t) \in Frames /\ TaskFrame(t).op = "task"
                               /\ TaskFrame(t).task = t
<1>1. f \in LoopFrames => f.op \in Loops
    BY DEF LoopFrames
<1> QED  BY <1>1 DEF Frames, Loops, TaskFrame, Frame

\* Popping a frame.
LEMMA Popped ==
    ASSUME NEW st \in Seq(Frames), st # <<>>, NEW R \in SUBSET Tasks, Stacked(st, R)
    PROVE  /\ Head(st) \in LoopFrames => Stacked(Tail(st), R)
           /\ \A t \in Tasks : Head(st) = TaskFrame(t) => t \in R /\ Stacked(Tail(st), R \ {t})
<1> DEFINE r == Tail(st)
<1>1. /\ Head(st) \in Frames /\ Head(st) = st[1] /\ r \in Seq(Frames)
      /\ Len(st) \in Nat \ {0} /\ Len(r) = Len(st) - 1
      /\ \A i \in 1..Len(r) : r[i] = st[i + 1]
      /\ \A x : InQueue(x, st) <=> x = Head(st) \/ InQueue(x, r)
    BY PopForm
<1> HIDE DEF r
<1>2. ASSUME NEW i \in 1..Len(r), NEW j \in 1..Len(r), r[i] = r[j], r[i].op = "task"
      PROVE  i = j
  <2>1. i + 1 \in 1..Len(st) /\ j + 1 \in 1..Len(st)
      BY <1>1
  <2>2. st[i + 1] = st[j + 1] /\ st[i + 1].op = "task"
      BY <1>1, <1>2
  <2>3. i + 1 = j + 1
      BY <2>1, <2>2 DEF Stacked
  <2> QED  BY <1>1, <2>3
<1>3. CASE Head(st) \in LoopFrames
  <2>1. \A t \in Tasks : TaskFrame(t) # Head(st)
      BY <1>1, <1>3, FrameFacts
  <2> QED  BY <1>1, <1>2, <1>3, <2>1 DEF Stacked, r
<1>4. ASSUME NEW t \in Tasks, Head(st) = TaskFrame(t)
      PROVE  t \in R /\ Stacked(Tail(st), R \ {t})
  <2>1. t \in R
      BY <1>1, <1>4 DEF Stacked
  <2>2. ~InQueue(TaskFrame(t), r)
    <3> SUFFICES ASSUME NEW i \in 1..Len(r), r[i] = TaskFrame(t) PROVE FALSE
        BY DEF InQueue
    <3>1. st[i + 1] = st[1] /\ i + 1 \in 1..Len(st) /\ 1 \in 1..Len(st) /\ i + 1 # 1
        BY <1>1, <1>4
    <3>2. st[1].op = "task"
        BY <1>1, <1>4, FrameFacts
    <3> QED  BY <3>1, <3>2 DEF Stacked
  <2>3. \A x \in Tasks : TaskFrame(x) = TaskFrame(t) => x = t
      BY DEF TaskFrame, Frame
  <2>4. \A x \in Tasks : x \in R \ {t} <=> InQueue(TaskFrame(x), r)
      BY <1>1, <1>4, <2>2, <2>3 DEF Stacked
  <2> QED  BY <1>2, <2>1, <2>4 DEF Stacked, r
<1>5. Head(st) \in LoopFrames => ~\E t \in Tasks : Head(st) = TaskFrame(t)
    BY <1>1, FrameFacts
<1> QED  BY <1>3, <1>4, <1>5

\* Pushing a frame.
LEMMA Pushed ==
    ASSUME NEW st \in Seq(Frames), NEW R \in SUBSET Tasks, Stacked(st, R)
    PROVE  /\ \A f \in LoopFrames : Stacked(<<f>> \o st, R)
           /\ \A t \in Tasks \ R : Stacked(<<TaskFrame(t)>> \o st, R \cup {t})
<1>1. ASSUME NEW f \in Frames, \/ f \in LoopFrames
                               \/ \E t \in Tasks \ R : f = TaskFrame(t)
      PROVE  /\ \A x : InQueue(x, <<f>> \o st) <=> x = f \/ InQueue(x, st)
             /\ \A i, j \in 1..Len(<<f>> \o st) :
                   /\ (<<f>> \o st)[i] = (<<f>> \o st)[j]
                   /\ (<<f>> \o st)[i].op = "task"
                   => i = j
  <2> DEFINE p == <<f>> \o st
  <2>1. p \in Seq(Frames) /\ p # <<>> /\ Head(p) = f /\ Tail(p) = st
      BY PushForm
  <2> HIDE DEF p
  <2>2. /\ p[1] = f /\ Len(p) \in Nat \ {0} /\ Len(st) = Len(p) - 1
        /\ \A i \in 2..Len(p) : p[i] = st[i - 1]
        /\ \A x : InQueue(x, p) <=> x = f \/ InQueue(x, st)
      BY <2>1, PopForm
  <2>3. ASSUME NEW i \in 2..Len(p), p[i] = f PROVE f.op # "task"
    <3>1. InQueue(f, st)
      <4>1. i - 1 \in 1..Len(st) /\ st[i - 1] = f
          BY <2>2, <2>3
      <4> QED  BY <4>1 DEF InQueue
    <3> QED  BY <1>1, <3>1, FrameFacts DEF Stacked
  <2>4. ASSUME NEW i \in 1..Len(p), NEW j \in 1..Len(p), p[i] = p[j], p[i].op = "task"
        PROVE  i = j
    <3>1. CASE i = 1 \/ j = 1
      <4>1. (i = 1 \/ i \in 2..Len(p)) /\ (j = 1 \/ j \in 2..Len(p))
          BY <2>2
      <4> QED  BY <2>2, <2>3, <2>4, <3>1, <4>1
    <3>2. CASE i # 1 /\ j # 1
      <4>1. /\ i \in 2..Len(p) /\ j \in 2..Len(p)
            /\ i - 1 \in 1..Len(st) /\ j - 1 \in 1..Len(st)
          BY <2>2, <3>2
      <4>2. st[i - 1] = st[j - 1] /\ st[i - 1].op = "task"
          BY <2>2, <2>4, <4>1
      <4>3. i - 1 = j - 1
          BY <4>1, <4>2 DEF Stacked
      <4> QED  BY <4>3
    <3> QED  BY <3>1, <3>2
  <2> QED  BY <2>2, <2>4 DEF p
<1>2. ASSUME NEW f \in LoopFrames PROVE Stacked(<<f>> \o st, R)
  <2>1. f \in Frames /\ \A x \in Tasks : TaskFrame(x) # f
      BY FrameFacts DEF Frames
  <2> QED  BY <1>1, <2>1 DEF Stacked
<1>3. ASSUME NEW t \in Tasks \ R PROVE Stacked(<<TaskFrame(t)>> \o st, R \cup {t})
  <2>1. TaskFrame(t) \in Frames
      BY DEF Frames
  <2>2. \A x \in Tasks : TaskFrame(x) = TaskFrame(t) => x = t
      BY DEF TaskFrame, Frame
  <2> QED  BY <1>1, <2>1, <2>2 DEF Stacked
<1> QED  BY <1>2, <1>3


\* What a frame has still to hand out.
Weight(f) == IF f.op = "release" THEN f.n ELSE 0

\* The permits on a stack are those of its top frame and those of the rest.
LEMMA OwedFacts ==
    ASSUME NEW st \in Seq(Frames)
    PROVE  /\ IsFiniteSet(Owed(st)) /\ Cardinality(Owed(st)) \in Nat
           /\ st = <<>> => Cardinality(Owed(st)) = 0
           /\ st # <<>> => Cardinality(Owed(st)) = Cardinality(Owed(Tail(st))) + Weight(Head(st))
<1>1. ASSUME NEW s \in Seq(Frames)
      PROVE  IsFiniteSet(Owed(s)) /\ Cardinality(Owed(s)) \in Nat
  <2>1. Len(s) \in Int /\ 1 \in Int /\ 2 \in Int
      BY LenProperties
  <2>2. IsFiniteSet(1..Len(s)) /\ IsFiniteSet(1..2)
      BY <2>1, FS_Interval, Zenon
  <2>3. IsFiniteSet((1..Len(s)) \X (1..2))
      BY <2>2, FS_Product
  <2>4. Owed(s) \in SUBSET ((1..Len(s)) \X (1..2))
      BY DEF Owed
  <2>5. IsFiniteSet(Owed(s))
      BY <2>3, <2>4, FS_Subset, Zenon
  <2> QED  BY <2>5, FS_CardinalityType
<1>2. ASSUME st = <<>> PROVE Cardinality(Owed(st)) = 0
  <2>1. Owed(st) = {}
      BY <1>2 DEF Owed
  <2> QED  BY <2>1, FS_EmptySet
<1>3. ASSUME st # <<>>
      PROVE  Cardinality(Owed(st)) = Cardinality(Owed(Tail(st))) + Weight(Head(st))
  <2> DEFINE r == Tail(st)
             n == Len(st)
             h == Head(st)
             top == {d \in {n} \X (1..2) : h.op = "release" /\ d[2] <= h.n}
  <2>1. /\ h \in Frames /\ h = st[1] /\ r \in Seq(Frames)
        /\ n \in Nat \ {0} /\ Len(r) = n - 1
        /\ \A i \in 1..Len(r) : r[i] = st[i + 1]
      BY <1>3, PopForm
  <2>2. h.op = "release" => h.n \in 0..2
      BY <2>1 DEF Frames, LoopFrames, TaskFrame, Frame
  <2> HIDE DEF r, n, h
  <2>3. Owed(r) = {d \in (1..(n - 1)) \X (1..2) :
                     LET f == st[n + 1 - d[1]] IN f.op = "release" /\ d[2] <= f.n}
    <3>1. ASSUME NEW d \in (1..(n - 1)) \X (1..2)
          PROVE  r[Len(r) + 1 - d[1]] = st[n + 1 - d[1]]
      <4>1. d[1] \in 1..(n - 1) /\ Len(r) + 1 - d[1] \in 1..Len(r)
          BY <2>1
      <4>2. (Len(r) + 1 - d[1]) + 1 = n + 1 - d[1]
          BY <2>1, <4>1
      <4> QED  BY <2>1, <4>1, <4>2
    <3> QED  BY <2>1, <3>1 DEF Owed
  <2>4. Owed(st) = Owed(r) \cup top /\ Owed(r) \cap top = {}
    <3>1. 1..n = 1..(n - 1) \cup {n} /\ n \notin 1..(n - 1) /\ n + 1 - n = 1
        BY <2>1
    <3>2. (1..n) \X (1..2) = ((1..(n - 1)) \X (1..2)) \cup ({n} \X (1..2))
        BY <3>1
    <3>3. Owed(st) = {d \in (1..n) \X (1..2) :
                        LET f == st[n + 1 - d[1]] IN f.op = "release" /\ d[2] <= f.n}
        BY DEF Owed, n
    <3>4. top = {d \in {n} \X (1..2) :
                   LET f == st[n + 1 - d[1]] IN f.op = "release" /\ d[2] <= f.n}
      <4>1. \A d \in {n} \X (1..2) : st[n + 1 - d[1]] = h
          BY <2>1, <3>1
      <4> QED  BY <4>1
    <3> HIDE DEF top
    <3>5. Owed(st) = Owed(r) \cup top
        BY <2>3, <3>2, <3>3, <3>4, Zenon
    <3>6. \A d \in (1..(n - 1)) \X (1..2) : d \notin {n} \X (1..2)
        BY <3>1
    <3> QED  BY <2>3, <3>4, <3>5, <3>6, Zenon
  <2>5. IsFiniteSet(Owed(r)) /\ Cardinality(Owed(r)) \in Nat
      BY <1>1, <2>1
  <2>6. CASE Weight(h) = 0
    <3>1. top = {}
        BY <2>2, <2>6 DEF Weight
    <3>2. Owed(st) = Owed(r)
        BY <2>4, <3>1
    <3> HIDE DEF top
    <3>3. Cardinality(Owed(st)) = Cardinality(Owed(r)) + Weight(h)
        BY <2>5, <2>6, <3>2
    <3> QED  BY <3>3 DEF r, h
  <2>7. CASE Weight(h) = 1
    <3>1. top = {<<n, 1>>}
        BY <2>2, <2>7 DEF Weight
    <3>2. <<n, 1>> \notin Owed(r)
        BY <2>4, <3>1
    <3>3. Owed(st) = Owed(r) \cup {<<n, 1>>}
        BY <2>4, <3>1
    <3> QED  BY <2>5, <2>7, <3>2, <3>3, FS_AddElement DEF r, h
  <2>8. CASE Weight(h) = 2
    <3>1. top = {<<n, 1>>, <<n, 2>>}
        BY <2>2, <2>8 DEF Weight
    <3>2. <<n, 1>> \notin Owed(r) /\ <<n, 2>> \notin Owed(r) /\ <<n, 1>> # <<n, 2>>
        BY <2>4, <3>1
    <3> DEFINE one == Owed(r) \cup {<<n, 1>>}
    <3>3. Owed(st) = one \cup {<<n, 2>>} /\ <<n, 2>> \notin one
        BY <2>4, <3>1, <3>2
    <3>4. IsFiniteSet(one) /\ Cardinality(one) = Cardinality(Owed(r)) + 1
        BY <2>5, <3>2, FS_AddElement
    <3> HIDE DEF one
    <3>5. Cardinality(Owed(st)) = Cardinality(one) + 1
        BY <3>3, <3>4, FS_AddElement
    <3> QED  BY <2>5, <2>8, <3>4, <3>5 DEF r, h
  <2>9. Weight(h) \in 0..2
      BY <2>2 DEF Weight
  <2> QED  BY <2>6, <2>7, <2>8, <2>9
<1> QED  BY <1>1, <1>2, <1>3

\* The set loops on a stack.
LEMMA SetFacts ==
    ASSUME NEW st \in Seq(Frames)
    PROVE  /\ st # <<>> => (HasSet(st) <=> Head(st).op = "set" \/ HasSet(Tail(st)))
           /\ st = <<>> => ~HasSet(st)
<1>1. ASSUME NEW s \in Seq(Frames)
      PROVE  HasSet(s) <=> \E f : InQueue(f, s) /\ f.op = "set"
    BY DEF HasSet, InQueue
<1>2. st # <<>> => /\ Tail(st) \in Seq(Frames)
                   /\ \A x : InQueue(x, st) <=> x = Head(st) \/ InQueue(x, Tail(st))
    BY PopForm
<1>3. st = <<>> => ~HasSet(st)
    BY DEF HasSet
<1> QED  BY <1>1, <1>2, <1>3


-----------------------------------------------------------------------------
(* Queues                                                                    *)

\* No waiter becomes active.
Fewer == \A k \in Queues, t \in Tasks : Active(k, t)' => Active(k, t)

\* What pruning leaves.
LEMMA PrunedFacts ==
    ASSUME WaitTypes, NEW k \in Queues
    PROVE  /\ queue[k] \in Seq(Tasks) /\ Pruned(k) \in Seq(Tasks)
           /\ Pruned(k) = <<>> <=> \A t \in Tasks : ~Active(k, t)
           /\ \A t : InQueue(t, Pruned(k)) => InQueue(t, queue[k])
           /\ Pruned(k) # <<>> =>
                 /\ Head(Pruned(k)) \in Tasks /\ Active(k, Head(Pruned(k)))
                 /\ Tail(Pruned(k)) \in Seq(Tasks)
                 /\ \A t : InQueue(t, Tail(Pruned(k))) => InQueue(t, queue[k])
<1>1. queue[k] \in Seq(Tasks)
    BY DEF WaitTypes
<1>2. /\ Pruned(k) \in Seq(Tasks)
      /\ Pruned(k) = <<>> <=> ActiveAt(queue[k], outcome[k]) = {}
      /\ \A i \in 1..Len(Pruned(k)) : \E j \in 1..Len(queue[k]) : Pruned(k)[i] = queue[k][j]
      /\ Pruned(k) # <<>> => /\ Head(Pruned(k)) \in Tasks
                             /\ InQueue(Head(Pruned(k)), queue[k])
                             /\ outcome[k][Head(Pruned(k))] = "none"
    BY <1>1, PruneInactiveFacts DEF Pruned
<1>3. \A t : InQueue(t, Pruned(k)) => InQueue(t, queue[k])
    BY <1>2 DEF InQueue
<1>4. ActiveAt(queue[k], outcome[k]) = {} <=> \A t \in Tasks : ~Active(k, t)
  <2>1. \A i \in 1..Len(queue[k]) : queue[k][i] \in Tasks
      BY <1>1, ElementOfSeq
  <2> QED  BY <2>1 DEF ActiveAt, Active, InQueue
<1>5. Pruned(k) # <<>> =>
        Tail(Pruned(k)) \in Seq(Tasks)
        /\ \A t : InQueue(t, Tail(Pruned(k))) => InQueue(t, Pruned(k))
    BY <1>2, PopForm
<1> QED  BY <1>1, <1>2, <1>3, <1>4, <1>5 DEF Active

\* Pruning a queue.
LEMMA TidyFacts ==
    ASSUME WaitTypes, NEW k \in Queues, Tidy(k), UNCHANGED outcome
    PROVE  queue' \in [Queues -> Seq(Tasks)] /\ Fewer
<1>1. /\ queue' = [queue EXCEPT ![k] = Pruned(k)] /\ queue \in [Queues -> Seq(Tasks)]
      /\ Pruned(k) \in Seq(Tasks) /\ \A t : InQueue(t, Pruned(k)) => InQueue(t, queue[k])
    BY PrunedFacts DEF Tidy, WaitTypes
<1>2. /\ queue' \in [Queues -> Seq(Tasks)] /\ queue'[k] = Pruned(k)
      /\ \A j \in Queues \ {k} : queue'[j] = queue[j]
    BY <1>1
<1>3. ASSUME NEW j \in Queues, NEW t \in Tasks, Active(j, t)' PROVE Active(j, t)
    BY <1>1, <1>2, <1>3 DEF Active
<1> QED  BY <1>2, <1>3 DEF Fewer

\* Nothing of the queues changes.
LEMMA SameQueues ==
    ASSUME UNCHANGED <<queue, outcome>>
    PROVE  Fewer
    BY DEF Fewer, Active

\* Waking the first waiter.
LEMMA WakeFacts ==
    ASSUME WaitTypes, NEW k \in Queues, Pruned(k) # <<>>, NEW rest, NEW at, Wake(k, rest, at)
    PROVE  /\ queue' \in [Queues -> Seq(Tasks)]
           /\ outcome' \in [Queues -> [Tasks -> Outcomes]]
           /\ \E w \in Tasks : w = Head(Pruned(k)) /\ Active(k, w) /\ ~Active(k, w)'
           /\ Fewer
<1>0. PICK w \in Tasks : w = Head(Pruned(k))
    BY PrunedFacts
<1>1. /\ w \in Tasks /\ Active(k, w) /\ Tail(Pruned(k)) \in Seq(Tasks)
      /\ \A t : InQueue(t, Tail(Pruned(k))) => InQueue(t, queue[k])
    BY <1>0, PrunedFacts
<1>2. /\ queue' = [queue EXCEPT ![k] = Tail(Pruned(k))]
      /\ outcome' = [outcome EXCEPT ![k][w] = "granted"]
    BY <1>0 DEF Wake
<1>3. /\ queue \in [Queues -> Seq(Tasks)] /\ outcome \in [Queues -> [Tasks -> Outcomes]]
    BY DEF WaitTypes
<1>4. /\ queue' \in [Queues -> Seq(Tasks)] /\ queue'[k] = Tail(Pruned(k))
      /\ \A j \in Queues \ {k} : queue'[j] = queue[j]
    BY <1>1, <1>2, <1>3
<1>5. /\ outcome' \in [Queues -> [Tasks -> Outcomes]] /\ outcome'[k][w] = "granted"
      /\ \A j \in Queues, t \in Tasks : (j # k \/ t # w) => outcome'[j][t] = outcome[j][t]
    BY <1>1, <1>2, <1>3 DEF Outcomes
<1>6. ~Active(k, w)'
    BY <1>5 DEF Active
<1>7. ASSUME NEW j \in Queues, NEW t \in Tasks, Active(j, t)' PROVE Active(j, t)
    BY <1>1, <1>4, <1>5, <1>7 DEF Active
<1> QED  BY <1>0, <1>1, <1>4, <1>5, <1>6, <1>7 DEF Fewer

\* A new waiter.
LEMMA QueueFacts ==
    ASSUME WaitTypes, NEW k \in Queues, NEW t \in Tasks, NEW stop, Queue(k, t, stop)
    PROVE  /\ queue' \in [Queues -> Seq(Tasks)]
           /\ outcome' \in [Queues -> [Tasks -> Outcomes]]
           /\ posted' \in Seq(Queues \X Tasks)
           /\ \A j \in Queues, x \in Tasks : Active(j, x)' => Active(j, x) \/ (j = k /\ x = t)
<1>1. /\ queue' = [queue EXCEPT ![k] = Append(Pruned(k), t)]
      /\ outcome' = [outcome EXCEPT ![k][t] = "none"]
    BY DEF Queue
<1>2. /\ queue \in [Queues -> Seq(Tasks)] /\ outcome \in [Queues -> [Tasks -> Outcomes]]
      /\ posted \in Seq(Queues \X Tasks)
    BY DEF WaitTypes
<1>3. /\ Pruned(k) \in Seq(Tasks) /\ \A x : InQueue(x, Pruned(k)) => InQueue(x, queue[k])
    BY PrunedFacts
<1> DEFINE q == Append(Pruned(k), t)
<1>4. /\ q \in Seq(Tasks) /\ Len(q) = Len(Pruned(k)) + 1 /\ Len(Pruned(k)) \in Nat
      /\ \A i \in 1..Len(Pruned(k)) : q[i] = Pruned(k)[i]
      /\ q[Len(Pruned(k)) + 1] = t
    BY <1>3, AppendProperties, LenProperties
<1> HIDE DEF q
<1>5. \A x : InQueue(x, q) => x = t \/ InQueue(x, queue[k])
  <2>1. ASSUME NEW x, InQueue(x, q), x # t PROVE InQueue(x, Pruned(k))
    <3>1. PICK i \in 1..Len(q) : q[i] = x
        BY <2>1 DEF InQueue
    <3>2. i \in 1..Len(Pruned(k))
        BY <1>4, <2>1, <3>1
    <3> QED  BY <1>4, <3>1, <3>2 DEF InQueue
  <2> QED  BY <1>3, <2>1
<1>6. /\ queue' \in [Queues -> Seq(Tasks)] /\ queue'[k] = q
      /\ \A j \in Queues \ {k} : queue'[j] = queue[j]
    BY <1>1, <1>2, <1>4 DEF q
<1>7. /\ outcome' \in [Queues -> [Tasks -> Outcomes]]
      /\ \A j \in Queues, x \in Tasks : (j # k \/ x # t) => outcome'[j][x] = outcome[j][x]
    BY <1>1, <1>2 DEF Outcomes
<1>8. ASSUME NEW j \in Queues, NEW x \in Tasks, Active(j, x)', j # k \/ x # t
      PROVE  Active(j, x)
    BY <1>5, <1>6, <1>7, <1>8 DEF Active
<1>9. posted' \in Seq(Queues \X Tasks)
  <2> DEFINE out == [c \in Queues \X Tasks |-> IF c = <<k, t>> THEN "over" ELSE "none"]
             nothing == <<>>
             more == IF stop THEN << <<k, t>> >> ELSE nothing
  <2>1. ActiveOf(posted, out) \in Seq(Queues \X Tasks)
      BY <1>2, ActiveOfFacts
  <2>2. posted' = ActiveOf(posted, out) \o more
      BY DEF Queue
  <2>3. nothing \in Seq(Queues \X Tasks) /\ << <<k, t>> >> \in Seq(Queues \X Tasks)
      OBVIOUS
  <2>4. more \in Seq(Queues \X Tasks)
      BY <2>3
  <2> HIDE DEF out, more
  <2> QED  BY <2>1, <2>2, <2>4, ConcatProperties
<1> QED  BY <1>6, <1>7, <1>8, <1>9

-----------------------------------------------------------------------------
(* Scripts                                                                   *)

\* One step more of a script.
LEMMA OwesFacts ==
    ASSUME NEW s \in Seq(Steps)
    PROVE  /\ ~Owes(s, Len(s) + 1)
           /\ \A i \in 1..Len(s) :
                 Owes(s, i) <=> s[i] = "unlock" \/ (s[i] \notin Takes /\ Owes(s, i + 1))
<1>1. Len(s) \in Nat
    BY LenProperties
<1>2. ~Owes(s, Len(s) + 1)
    BY <1>1 DEF Owes
<1>3. ASSUME NEW i \in 1..Len(s), Owes(s, i), s[i] # "unlock"
      PROVE  s[i] \notin Takes /\ Owes(s, i + 1)
  <2>1. PICK j \in i..Len(s) : s[j] = "unlock" /\ \A l \in i..(j - 1) : s[l] \notin Takes
      BY <1>3 DEF Owes
  <2>2. /\ j \in (i + 1)..Len(s) /\ i \in i..(j - 1)
        /\ \A l \in (i + 1)..(j - 1) : l \in i..(j - 1)
      BY <1>1, <1>3, <2>1
  <2> QED  BY <2>1, <2>2 DEF Owes
<1>4. ASSUME NEW i \in 1..Len(s), s[i] = "unlock" PROVE Owes(s, i)
  <2>1. i \in i..Len(s) /\ \A l \in i..(i - 1) : FALSE
      BY <1>1
  <2> QED  BY <1>4, <2>1 DEF Owes
<1>5. ASSUME NEW i \in 1..Len(s), s[i] \notin Takes, Owes(s, i + 1) PROVE Owes(s, i)
  <2>1. PICK j \in (i + 1)..Len(s) :
               s[j] = "unlock" /\ \A l \in (i + 1)..(j - 1) : s[l] \notin Takes
      BY <1>5 DEF Owes
  <2>2. j \in i..Len(s) /\ \A l \in i..(j - 1) : l = i \/ l \in (i + 1)..(j - 1)
      BY <1>1, <2>1
  <2> QED  BY <1>5, <2>1, <2>2 DEF Owes
<1> QED  BY <1>2, <1>3, <1>4, <1>5

\* A step about the mutex changes who has to unlock it.
LEMMA ScopedFacts ==
    ASSUME NEW s \in Seq(Steps), Scoped(s), NEW i \in 1..Len(s)
    PROVE  /\ s[i] \in Takes => ~Owes(s, i) /\ Owes(s, i + 1)
           /\ s[i] = "unlock" => Owes(s, i) /\ ~Owes(s, i + 1)
           /\ s[i] \notin Takes \cup {"unlock"} => (Owes(s, i) <=> Owes(s, i + 1))
<1>1. s[i] \in Takes => s[i] # "unlock"
    BY DEF Takes
<1> QED  BY <1>1, OwesFacts DEF Scoped

\* A wait on the condition variable in a script.
LEMMA WholeFacts ==
    ASSUME NEW s \in Seq(Steps), Scoped(s), Whole(s), NEW i \in 1..Len(s)
    PROVE  /\ s[i] = "while" => i + 6 \in 1..(Len(s) + 1) /\ (Owes(s, i) <=> Owes(s, i + 6))
           /\ s[i] = "cv_push" =>
                 i + 2 <= Len(s) /\ s[i + 1] = "unlock" /\ s[i + 2] = "cv_await"
           /\ s[i] = "cv_rethrow" =>
                 i - 5 \in 1..(Len(s) + 1) /\ (Owes(s, i - 5) <=> Owes(s, i))
<1> USE DEF CvWait
<1>0. Len(s) \in Nat
    BY LenProperties
<1>1. ASSUME NEW j \in 1..Len(s), j + 5 <= Len(s), \A m \in 1..6 : s[j + m - 1] = CvWait[m]
      PROVE  /\ Owes(s, j) /\ Owes(s, j + 5) /\ Owes(s, j + 6)
  <2>1. /\ s[j] = "while" /\ s[j + 1] = "cv_push" /\ s[j + 2] = "unlock"
        /\ s[j + 4] = "relock" /\ s[j + 5] = "cv_rethrow"
    <3>1. /\ s[j + 1 - 1] = CvWait[1] /\ s[j + 2 - 1] = CvWait[2] /\ s[j + 3 - 1] = CvWait[3]
          /\ s[j + 5 - 1] = CvWait[5] /\ s[j + 6 - 1] = CvWait[6]
        BY <1>1
    <3> QED  BY <3>1
  <2>2. /\ j \in 1..Len(s) /\ j + 1 \in 1..Len(s) /\ j + 2 \in 1..Len(s)
        /\ j + 4 \in 1..Len(s) /\ j + 5 \in 1..Len(s)
        /\ (j + 1) + 1 = j + 2 /\ (j + 4) + 1 = j + 5 /\ (j + 5) + 1 = j + 6
      BY <1>0, <1>1
  <2>3. Owes(s, j + 2)
      BY <2>1, <2>2, ScopedFacts
  <2>4. "cv_push" \notin Takes /\ "while" \notin Takes /\ "cv_rethrow" \notin Takes
        /\ "relock" \in Takes
      BY DEF Takes
  <2>5. Owes(s, j + 1)
      BY <2>1, <2>2, <2>3, <2>4, OwesFacts
  <2>6. Owes(s, j)
      BY <2>1, <2>2, <2>4, <2>5, OwesFacts
  <2>7. Owes(s, j + 5)
    <3>1. Owes(s, (j + 4) + 1)
        BY <2>1, <2>2, <2>4, ScopedFacts
    <3> QED  BY <2>2, <3>1
  <2>8. Owes(s, j + 6)
    <3>1. Owes(s, (j + 5) + 1)
        BY <2>1, <2>2, <2>4, <2>7, OwesFacts
    <3> QED  BY <2>2, <3>1
  <2> QED  BY <2>6, <2>7, <2>8
<1>2. ASSUME s[i] = "while"
      PROVE  i + 6 \in 1..(Len(s) + 1) /\ Owes(s, i) /\ Owes(s, i + 6)
  <2>1. i + 6 - 1 <= Len(s) /\ \A m \in 1..6 : s[i + m - 1] = CvWait[m]
    <3>1. s[i] = CvWait[1]
        BY <1>2
    <3> QED  BY <3>1 DEF Whole
  <2> QED  BY <1>0, <1>1, <2>1
<1>3. ASSUME s[i] = "cv_push"
      PROVE  i + 2 <= Len(s) /\ s[i + 1] = "unlock" /\ s[i + 2] = "cv_await"
  <2>1. i + 6 - 2 <= Len(s) /\ \A m \in 1..6 : s[i + m - 2] = CvWait[m]
    <3>1. s[i] = CvWait[2]
        BY <1>3
    <3> QED  BY <3>1 DEF Whole
  <2>2. s[i + 3 - 2] = CvWait[3] /\ s[i + 4 - 2] = CvWait[4]
      BY <2>1
  <2> QED  BY <1>0, <2>1, <2>2
<1>4. ASSUME s[i] = "cv_rethrow"
      PROVE  i - 5 \in 1..(Len(s) + 1) /\ Owes(s, i - 5) /\ Owes(s, i)
  <2>1. 6 <= i /\ \A m \in 1..6 : s[i + m - 6] = CvWait[m]
    <3>1. s[i] = CvWait[6]
        BY <1>4
    <3> QED  BY <3>1 DEF Whole
  <2>2. /\ i - 5 \in 1..Len(s) /\ (i - 5) + 5 = i
        /\ \A m \in 1..6 : (i - 5) + m - 1 = i + m - 6
      BY <1>0, <2>1
  <2>3. \A m \in 1..6 : s[(i - 5) + m - 1] = CvWait[m]
      BY <2>1, <2>2
  <2> QED  BY <1>0, <1>1, <2>2, <2>3
<1> QED  BY <1>2, <1>3, <1>4


-----------------------------------------------------------------------------
(* What a step leaves alone                                                  *)

\* The waiters of tasks that do not move stay where they are.
LEMMA WaitKeeps ==
    ASSUME WaitInv, NEW t \in Tasks, NEW u \in Tasks,
           \A x \in Tasks \ {t, u} :
              script'[x] = script[x] /\ pos'[x] = pos[x] /\ status'[x] = status[x],
           \A k \in Queues, x \in Tasks \ {t, u} : Active(k, x)' => Active(k, x),
           \A k \in Queues : Active(k, t)' => Waits(k, t)',
           \A k \in Queues : Active(k, u)' => Waits(k, u)'
    PROVE  WaitInv'
<1>1. ASSUME NEW k \in Queues, NEW x \in Tasks, Active(k, x)' PROVE Waits(k, x)'
  <2>1. CASE x = t \/ x = u
      BY <1>1, <2>1
  <2>2. CASE x \notin {t, u}
    <3>1. Waits(k, x)
        BY <1>1, <2>2 DEF WaitInv
    <3>2. script'[x] = script[x] /\ pos'[x] = pos[x] /\ status'[x] = status[x]
        BY <2>2
    <3> QED  BY <3>1, <3>2 DEF Waits, StepOf
  <2> QED  BY <2>1, <2>2
<1> QED  BY <1>1 DEF WaitInv

\* The scripts of tasks that do not move stay true.
LEMMA ScriptKeeps ==
    ASSUME ScriptInv, NEW t \in Tasks, NEW u \in Tasks,
           \A x \in Tasks \ {t, u} : /\ script'[x] = script[x] /\ pos'[x] = pos[x]
                                     /\ x \in holders' <=> x \in holders,
           ScriptAt(t)', ScriptAt(u)'
    PROVE  ScriptInv'
<1>1. ASSUME NEW x \in Tasks PROVE ScriptAt(x)'
  <2>1. CASE x = t \/ x = u
      BY <2>1
  <2>2. CASE x \notin {t, u}
      BY <2>2 DEF ScriptInv, ScriptAt
  <2> QED  BY <2>1, <2>2
<1> QED  BY <1>1 DEF ScriptInv

\* A task makes its next step.
LEMMA ScriptGoesOn ==
    ASSUME TaskTypes, NEW t \in Tasks, ScriptAt(t), pos[t] <= Len(script[t]),
           script'[t] = script[t], pos'[t] = pos[t] + 1,
           t \in holders' <=> StepOf(t) \in Takes \/ (t \in holders /\ StepOf(t) # "unlock")
    PROVE  ScriptAt(t)'
<1>1. script[t] \in Seq(Steps) /\ Len(script[t]) \in Nat
    BY LenProperties DEF TaskTypes
<1>2. Scoped(script[t]) /\ Whole(script[t]) /\ (t \in holders <=> Owes(script[t], pos[t]))
    BY DEF ScriptAt
<1>3. pos[t] \in 1..Len(script[t]) /\ pos[t] + 1 \in 1..(Len(script[t]) + 1)
    BY <1>1 DEF ScriptAt
<1>4. /\ StepOf(t) \in Takes => ~Owes(script[t], pos[t]) /\ Owes(script[t], pos[t] + 1)
      /\ StepOf(t) = "unlock" => Owes(script[t], pos[t]) /\ ~Owes(script[t], pos[t] + 1)
      /\ StepOf(t) \notin Takes \cup {"unlock"} =>
            (Owes(script[t], pos[t]) <=> Owes(script[t], pos[t] + 1))
    BY <1>1, <1>2, <1>3, ScopedFacts DEF StepOf
<1>5. StepOf(t) \in Takes => StepOf(t) # "unlock"
    BY DEF Takes
<1>6. t \in holders' <=> Owes(script[t], pos[t] + 1)
    BY <1>2, <1>4, <1>5
<1> QED  BY <1>2, <1>3, <1>6 DEF ScriptAt

\* A task that throws or returns has only its lock to give back.
LEMMA ScriptLeaves ==
    ASSUME TaskTypes, NEW t \in Tasks, Leave(t), t \in holders' <=> t \in holders
    PROVE  /\ ScriptAt(t)' /\ script' \in [Tasks -> Seq(Steps)] /\ pos' \in [Tasks -> Nat]
           /\ \A x \in Tasks \ {t} : script'[x] = script[x] /\ pos'[x] = pos[x]
<1> DEFINE none == <<>>
           s == IF t \in holders THEN <<"unlock">> ELSE none
<1>1. none \in Seq(Steps) /\ <<"unlock">> \in Seq(Steps)
    BY DEF Steps
<1>2. /\ script' = [script EXCEPT ![t] = s] /\ pos' = [pos EXCEPT ![t] = 1]
      /\ script \in [Tasks -> Seq(Steps)] /\ pos \in [Tasks -> Nat]
    BY DEF Leave, TaskTypes
<1>3. /\ s \in Seq(Steps) /\ (t \in holders => s = <<"unlock">>) /\ (t \notin holders => s = <<>>)
    BY <1>1
<1> HIDE DEF s, none
<1>4. /\ script' \in [Tasks -> Seq(Steps)] /\ pos' \in [Tasks -> Nat]
      /\ script'[t] = s /\ pos'[t] = 1
      /\ \A x \in Tasks \ {t} : script'[x] = script[x] /\ pos'[x] = pos[x]
    BY <1>2, <1>3
<1>5. Scoped(s) /\ Whole(s) /\ 1 \in 1..(Len(s) + 1) /\ (t \in holders <=> Owes(s, 1))
  <2>1. CASE t \in holders
    <3>1. Len(s) = 1 /\ s[1] = "unlock"
        BY <1>3, <2>1
    <3>2. Owes(s, 1) /\ ~Owes(s, 2)
        BY <1>3, <3>1, OwesFacts
    <3>3. \A i \in 1..Len(s) : i = 1
        BY <3>1
    <3>4. Scoped(s)
        BY <3>1, <3>2, <3>3 DEF Scoped, Takes
    <3>5. Whole(s)
        BY <3>1, <3>3 DEF Whole, CvWait
    <3> QED  BY <2>1, <3>1, <3>2, <3>4, <3>5
  <2>2. CASE t \notin holders
    <3>1. Len(s) = 0
        BY <1>3, <2>2
    <3> QED  BY <2>2, <3>1 DEF Scoped, Whole, Owes
  <2> QED  BY <2>1, <2>2
<1> QED  BY <1>4, <1>5 DEF ScriptAt

\* Nobody waits for what is there after a step that adds no waiter.
LEMMA OpenKeeps ==
    ASSUME OpenInv, Fewer,
           locked' \/ ~locked \/ \A t \in Tasks : ~Active("lock", t),
           permits' > 0 => permits > 0 \/ \A t \in Tasks : ~Active("sem", t),
           signaled' => \/ HasSet(stack)'
                        \/ signaled /\ ~HasSet(stack)
                        \/ \A t \in Tasks : ~Active("event", t)
    PROVE  OpenInv'
<1>1. \A k \in Queues : (\A t \in Tasks : ~Active(k, t)) => \A t \in Tasks : ~Active(k, t)'
    BY DEF Fewer
<1>2. {"lock", "sem", "event"} \subseteq Queues
    BY DEF Queues
<1> QED  BY <1>1, <1>2 DEF OpenInv

\* Where a task that runs is.
LEMMA TopFacts ==
    ASSUME LocalInv, NEW t \in Tasks, stack # <<>>, Head(stack) = TaskFrame(t)
    PROVE  /\ status[t] = "running" /\ Stacked(Tail(stack), Running \ {t})
           /\ stack \in Seq(Frames) /\ Tail(stack) \in Seq(Frames)
           /\ Cardinality(Owed(Tail(stack))) = Cardinality(Owed(stack))
           /\ HasSet(stack) <=> HasSet(Tail(stack))
           /\ \A k \in Queues : Active(k, t) => k = "cv" /\ StepOf(t) \in {"unlock", "cv_await"}
           /\ ScriptAt(t) /\ script[t] \in Seq(Steps) /\ pos[t] \in Nat
<1>1. /\ stack \in Seq(Frames) /\ Stacked(stack, Running) /\ Running \in SUBSET Tasks
      /\ script[t] \in Seq(Steps) /\ pos[t] \in Nat
    BY DEF LocalInv, TypeOK, TaskTypes, StackInv, Running
<1>2. t \in Running /\ Stacked(Tail(stack), Running \ {t})
    BY <1>1, Popped
<1>3. status[t] = "running"
    BY <1>2 DEF Running
<1>4. Tail(stack) \in Seq(Frames)
    BY <1>1, PopForm
<1>5. TaskFrame(t).op = "task"
    BY DEF TaskFrame, Frame
<1>6. /\ Cardinality(Owed(Tail(stack))) = Cardinality(Owed(stack))
      /\ HasSet(stack) <=> HasSet(Tail(stack))
  <2>1. Weight(Head(stack)) = 0 /\ Head(stack).op # "set"
      BY <1>5 DEF Weight
  <2>2. /\ Cardinality(Owed(stack)) = Cardinality(Owed(Tail(stack))) + Weight(Head(stack))
        /\ HasSet(stack) <=> Head(stack).op = "set" \/ HasSet(Tail(stack))
      BY <1>1, OwedFacts, SetFacts
  <2>3. Cardinality(Owed(Tail(stack))) \in Nat
      BY <1>4, OwedFacts
  <2> QED  BY <2>1, <2>2, <2>3
<1>7. ASSUME NEW k \in Queues, Active(k, t)
      PROVE  k = "cv" /\ StepOf(t) \in {"unlock", "cv_await"}
    BY <1>3, <1>7 DEF LocalInv, WaitInv, Waits, Queues
<1> QED  BY <1>1, <1>2, <1>3, <1>4, <1>6, <1>7 DEF LocalInv, ScriptInv

\* The task at a step.
LEMMA AtFacts ==
    ASSUME LocalInv, NEW t \in Tasks, NEW s, At(t, s)
    PROVE  /\ stack # <<>> /\ Head(stack) = TaskFrame(t) /\ StepOf(t) = s
           /\ pos[t] \in 1..Len(script[t])
           /\ \A k \in Queues : Active(k, t) => k = "cv" /\ s \in {"unlock", "cv_await"}
<1>1. /\ stack # <<>> /\ Head(stack) = TaskFrame(t) /\ StepOf(t) = s
      /\ pos[t] <= Len(script[t])
    BY DEF At, StepOf
<1>2. ScriptAt(t) /\ Len(script[t]) \in Nat
    BY <1>1, TopFacts, LenProperties
<1>3. pos[t] \in 1..Len(script[t])
    BY <1>1, <1>2 DEF ScriptAt
<1> QED  BY <1>1, <1>3, TopFacts


-----------------------------------------------------------------------------
(* What a step does to the tasks                                             *)

TaskPart == TaskTypes /\ StackInv /\ ScriptInv /\ WaitInv

\* A task makes its next step, and may start a loop.
LEMMA GoesOn ==
    ASSUME LocalInv, NEW t \in Tasks, NEW s, At(t, s), s # "unlock",
           \A k \in Queues : ~Active(k, t),
           script' = script, status' = status, pos' = [pos EXCEPT ![t] = @ + 1],
           stack' = stack \/ \E f \in LoopFrames : stack' = <<f>> \o stack,
           \A x \in Tasks : x \in holders' <=> x \in holders \/ (x = t /\ s \in Takes),
           \A k \in Queues, x \in Tasks :
              Active(k, x)' => Active(k, x) \/ (k = "cv" /\ x = t /\ s = "cv_push")
    PROVE  TaskPart'
<1>1. /\ TaskTypes /\ StackInv /\ ScriptInv /\ WaitInv /\ ScriptAt(t)
      /\ StepOf(t) = s /\ pos[t] \in 1..Len(script[t]) /\ status[t] = "running"
      /\ script[t] \in Seq(Steps)
    BY AtFacts, TopFacts DEF LocalInv, TypeOK
<1>2. /\ pos' \in [Tasks -> Nat] /\ pos'[t] = pos[t] + 1
      /\ \A x \in Tasks \ {t} : pos'[x] = pos[x]
    BY <1>1 DEF TaskTypes
<1>3. /\ stack' \in Seq(Frames) /\ Stacked(stack', Running)
  <2>1. stack \in Seq(Frames) /\ Stacked(stack, Running) /\ Running \in SUBSET Tasks
      BY <1>1 DEF TaskTypes, StackInv, Running
  <2>2. ASSUME NEW f \in LoopFrames, stack' = <<f>> \o stack
        PROVE  stack' \in Seq(Frames) /\ Stacked(stack', Running)
    <3>1. f \in Frames
        BY DEF Frames
    <3> QED  BY <2>1, <2>2, <3>1, Pushed, PushForm
  <2> QED  BY <2>1, <2>2
<1>4. TaskTypes' /\ StackInv'
  <2>1. Running' = Running
      BY DEF Running
  <2> QED  BY <1>1, <1>2, <1>3, <2>1 DEF TaskTypes, StackInv
<1>5. ScriptAt(t)'
  <2>1. t \in holders' <=> StepOf(t) \in Takes \/ (t \in holders /\ StepOf(t) # "unlock")
      BY <1>1 DEF Takes
  <2> QED  BY <1>1, <1>2, <2>1, ScriptGoesOn
<1>6. ScriptInv'
    BY <1>1, <1>2, <1>5, ScriptKeeps
<1>7. ASSUME NEW k \in Queues, Active(k, t)' PROVE Waits(k, t)'
  <2>1. k = "cv" /\ s = "cv_push"
      BY <1>7
  <2>2. /\ pos[t] + 2 <= Len(script[t])
        /\ script[t][pos[t] + 1] = "unlock" /\ script[t][pos[t] + 2] = "cv_await"
      BY <1>1, <2>1, WholeFacts DEF ScriptAt, StepOf
  <2>3. (pos[t] + 1) + 1 = pos[t] + 2 /\ pos[t] + 1 <= Len(script[t])
      BY <1>1, <2>2, LenProperties
  <2> QED  BY <1>1, <1>2, <2>1, <2>2, <2>3 DEF Waits, StepOf
<1>8. WaitInv'
    BY <1>1, <1>2, <1>7, WaitKeeps
<1> QED  BY <1>4, <1>6, <1>8 DEF TaskPart

\* A task throws, or returns early.
LEMMA Leaves ==
    ASSUME LocalInv, NEW t \in Tasks, NEW s, At(t, s), Leave(t),
           \A k \in Queues : ~Active(k, t),
           UNCHANGED <<status, stack, holders>>, Fewer
    PROVE  TaskPart'
<1>1. TaskTypes /\ StackInv /\ ScriptInv /\ WaitInv
    BY DEF LocalInv, TypeOK
<1>2. /\ ScriptAt(t)' /\ script' \in [Tasks -> Seq(Steps)] /\ pos' \in [Tasks -> Nat]
      /\ \A x \in Tasks \ {t} : script'[x] = script[x] /\ pos'[x] = pos[x]
    BY <1>1, ScriptLeaves
<1>3. TaskTypes' /\ StackInv'
  <2>1. Running' = Running
      BY DEF Running
  <2> QED  BY <1>1, <1>2, <2>1 DEF TaskTypes, StackInv
<1>4. ScriptInv'
    BY <1>1, <1>2, ScriptKeeps
<1>5. WaitInv'
  <2>1. \A k \in Queues, x \in Tasks : Active(k, x)' => Active(k, x)
      BY DEF Fewer
  <2> QED  BY <1>1, <1>2, <2>1, WaitKeeps
<1> QED  BY <1>3, <1>4, <1>5 DEF TaskPart

\* A task goes back to its resumer.
LEMMA Stops ==
    ASSUME LocalInv, NEW t \in Tasks, stack # <<>>, Head(stack) = TaskFrame(t),
           script' = script, pos' \in [Tasks -> Nat], ScriptAt(t)',
           \A x \in Tasks \ {t} : pos'[x] = pos[x],
           NEW v \in Statuses \ {"running"}, status' = [status EXCEPT ![t] = v],
           stack' = Tail(stack), holders' = holders,
           \A k \in Queues, x \in Tasks \ {t} : Active(k, x)' => Active(k, x),
           \A k \in Queues : Active(k, t)' => Waits(k, t)'
    PROVE  TaskPart'
<1>1. TaskTypes /\ StackInv /\ ScriptInv /\ WaitInv
    BY DEF LocalInv, TypeOK
<1>2. stack' \in Seq(Frames) /\ Stacked(stack', Running \ {t})
    BY TopFacts
<1>3. /\ status' \in [Tasks -> Statuses] /\ status'[t] = v
      /\ \A x \in Tasks \ {t} : status'[x] = status[x]
    BY <1>1 DEF TaskTypes
<1>4. Running' = Running \ {t}
    BY <1>3 DEF Running
<1>5. TaskTypes' /\ StackInv'
    BY <1>1, <1>2, <1>3, <1>4 DEF TaskTypes, StackInv
<1>6. ScriptInv'
    BY <1>1, ScriptKeeps
<1>7. WaitInv'
    BY <1>1, <1>3, WaitKeeps
<1> QED  BY <1>5, <1>6, <1>7 DEF TaskPart

\* A task that is suspended gets what it waits for and runs on top of rest.
LEMMA Resumes ==
    ASSUME LocalInv, NEW w \in Tasks, status[w] # "running",
           NEW rest \in Seq(Frames), Stacked(rest, Running),
           stack' = <<TaskFrame(w)>> \o rest,
           status' = [status EXCEPT ![w] = "running"]
    PROVE  /\ stack' \in Seq(Frames) /\ StackInv' /\ status' \in [Tasks -> Statuses]
           /\ status'[w] = "running" /\ \A x \in Tasks \ {w} : status'[x] = status[x]
           /\ Cardinality(Owed(stack')) = Cardinality(Owed(rest))
           /\ HasSet(stack') <=> HasSet(rest)
<1>1. /\ status' \in [Tasks -> Statuses]
      /\ status'[w] = "running" /\ \A x \in Tasks \ {w} : status'[x] = status[x]
    BY DEF LocalInv, TypeOK, TaskTypes, Statuses
<1>2. Running' = Running \cup {w} /\ w \notin Running /\ Running \in SUBSET Tasks
    BY <1>1 DEF Running
<1>3. TaskFrame(w) \in Frames /\ TaskFrame(w).op = "task"
    BY DEF Frames, TaskFrame, Frame
<1>4. /\ stack' \in Seq(Frames) /\ stack' # <<>> /\ Head(stack') = TaskFrame(w)
      /\ Tail(stack') = rest
    BY <1>3, PushForm
<1>5. Stacked(stack', Running \cup {w})
    BY <1>2, Pushed
<1>6. Weight(Head(stack')) = 0 /\ Head(stack').op # "set"
    BY <1>3, <1>4 DEF Weight
<1>7. /\ Cardinality(Owed(stack')) = Cardinality(Owed(rest)) + Weight(Head(stack'))
      /\ HasSet(stack') <=> Head(stack').op = "set" \/ HasSet(rest)
      /\ Cardinality(Owed(rest)) \in Nat
    BY <1>4, OwedFacts, SetFacts
<1> QED  BY <1>1, <1>2, <1>4, <1>5, <1>6, <1>7 DEF StackInv


\* The first waiter of a queue is woken; t is the task that wakes it, if it makes a
\* step of its own.
LEMMA WakesTask ==
    ASSUME LocalInv, NEW k \in Queues, Pruned(k) # <<>>, NEW w \in Tasks, w = Head(Pruned(k)),
           NEW rest \in Seq(Frames), Stacked(rest, Running),
           NEW at \in [Tasks -> Nat], Wake(k, rest, at), script' = script, at[w] = pos[w],
           NEW t \in Tasks, \A x \in Tasks \ {t, w} : at[x] = pos[x],
           t # w => ScriptAt(t)' /\ \A j \in Queues : Active(j, t)' => Waits(j, t)',
           \A x \in Tasks \ {t, w} : x \in holders' <=> x \in holders,
           w \in holders' <=> (k = "lock" \/ w \in holders)
    PROVE  /\ TaskPart' /\ Fewer /\ ~Active(k, w)'
           /\ queue' \in [Queues -> Seq(Tasks)]
           /\ outcome' \in [Queues -> [Tasks -> Outcomes]]
           /\ Cardinality(Owed(stack')) = Cardinality(Owed(rest))
           /\ HasSet(stack') <=> HasSet(rest)
<1>1. TaskTypes /\ WaitTypes /\ StackInv /\ ScriptInv /\ WaitInv
    BY DEF LocalInv, TypeOK
<1>2. /\ queue' \in [Queues -> Seq(Tasks)] /\ outcome' \in [Queues -> [Tasks -> Outcomes]]
      /\ Active(k, w) /\ ~Active(k, w)' /\ Fewer
    BY <1>1, WakeFacts
<1>3. Waits(k, w) /\ ScriptAt(w)
    BY <1>1, <1>2 DEF WaitInv, ScriptInv
<1>4. \A j \in Queues, x \in Tasks : Active(j, x)' => Active(j, x) /\ Waits(j, x)
    BY <1>1, <1>2 DEF Fewer, WaitInv
<1>5. \A j \in Queues : Active(j, w)' => FALSE
    BY <1>2, <1>3, <1>4 DEF Waits, Queues
<1>6. CASE status[w] = "suspended"
  <2>1. /\ stack' = <<TaskFrame(w)>> \o rest /\ pos' = [at EXCEPT ![w] = @ + 1]
        /\ status' = [status EXCEPT ![w] = "running"]
      BY <1>6 DEF Wake
  <2>2. /\ stack' \in Seq(Frames) /\ StackInv' /\ status' \in [Tasks -> Statuses]
        /\ status'[w] = "running" /\ \A x \in Tasks \ {w} : status'[x] = status[x]
        /\ Cardinality(Owed(stack')) = Cardinality(Owed(rest))
        /\ HasSet(stack') <=> HasSet(rest)
      BY <1>6, <2>1, Resumes
  <2>3. /\ pos' \in [Tasks -> Nat] /\ pos'[w] = pos[w] + 1
        /\ \A x \in Tasks \ {t, w} : pos'[x] = pos[x]
      BY <2>1
  <2>4. ScriptAt(w)'
    <3>1. w \in holders' <=> StepOf(w) \in Takes \/ (w \in holders /\ StepOf(w) # "unlock")
        BY <1>3, <1>6 DEF Waits, Queues, Takes
    <3>2. pos[w] <= Len(script[w]) /\ script'[w] = script[w]
        BY <1>3 DEF Waits
    <3> QED  BY <1>1, <1>3, <2>3, <3>1, <3>2, ScriptGoesOn
  <2>5. ScriptInv'
      BY <1>1, <2>3, <2>4, ScriptKeeps
  <2>6. WaitInv'
    <3>1. \A x \in Tasks \ {t, w} :
             script'[x] = script[x] /\ pos'[x] = pos[x] /\ status'[x] = status[x]
        BY <2>2, <2>3
    <3>2. \A j \in Queues, x \in Tasks \ {t, w} : Active(j, x)' => Active(j, x)
        BY <1>4
    <3>3. \A j \in Queues : Active(j, t)' => Waits(j, t)'
        BY <1>5
    <3>4. \A j \in Queues : Active(j, w)' => Waits(j, w)'
        BY <1>5
    <3> QED  BY <1>1, <3>1, <3>2, <3>3, <3>4, WaitKeeps
  <2>7. TaskTypes'
      BY <1>1, <2>2, <2>3 DEF TaskTypes
  <2> QED  BY <1>2, <2>2, <2>5, <2>6, <2>7 DEF TaskPart
<1>7. CASE status[w] # "suspended"
  <2>1. k = "cv"
      BY <1>3, <1>7 DEF Waits, Queues
  <2>2. stack' = rest /\ pos' = at /\ status' = status
      BY <1>7 DEF Wake
  <2>3. Running' = Running
      BY <2>2 DEF Running
  <2>4. TaskTypes' /\ StackInv'
      BY <1>1, <2>2, <2>3 DEF TaskTypes, StackInv
  <2>5. ScriptAt(w)'
    <3>1. script'[w] = script[w] /\ pos'[w] = pos[w] /\ (w \in holders' <=> w \in holders)
        BY <2>1, <2>2
    <3> QED  BY <1>3, <3>1 DEF ScriptAt
  <2>6. ScriptInv'
      BY <1>1, <2>2, <2>5, ScriptKeeps
  <2>7. WaitInv'
    <3>1. \A x \in Tasks \ {t, w} :
             script'[x] = script[x] /\ pos'[x] = pos[x] /\ status'[x] = status[x]
        BY <2>2
    <3>2. \A j \in Queues, x \in Tasks \ {t, w} : Active(j, x)' => Active(j, x)
        BY <1>4
    <3>3. \A j \in Queues : Active(j, t)' => Waits(j, t)'
        BY <1>5
    <3>4. \A j \in Queues : Active(j, w)' => Waits(j, w)'
        BY <1>5
    <3> QED  BY <1>1, <3>1, <3>2, <3>3, <3>4, WaitKeeps
  <2> QED  BY <1>2, <2>2, <2>4, <2>6, <2>7 DEF TaskPart
<1> QED  BY <1>6, <1>7


-----------------------------------------------------------------------------
(* The mutex                                                                 *)

\* The parts of the invariant together.
LEMMA Parts ==
    ASSUME TaskPart', WaitTypes', DataTypes', OpenInv', OwnerInv', PermitInv'
    PROVE  LocalInv'
    BY DEF LocalInv, TypeOK, TaskPart

\* The mutex and the counts stay.
LEMMA SameData ==
    ASSUME LocalInv, UNCHANGED <<locked, holders, permits, issued, taken>>,
           signaled' \in BOOLEAN, ready' \in BOOLEAN
    PROVE  DataTypes' /\ OwnerInv'
    BY DEF LocalInv, TypeOK, DataTypes, OwnerInv

\* A mutex that is not free is locked.
LEMMA FreeFacts ==
    ASSUME LocalInv
    PROVE  /\ ~Free => locked
           /\ Free => holders = {} /\ \A t \in Tasks : ~Active("lock", t)
<1>1. "lock" \in Queues /\ WaitTypes /\ OpenInv /\ OwnerInv
    BY DEF Queues, LocalInv, TypeOK
<1>2. Pruned("lock") = <<>> <=> \A t \in Tasks : ~Active("lock", t)
    BY <1>1, PrunedFacts
<1> QED  BY <1>1, <1>2 DEF Free, OpenInv, OwnerInv

\* A task takes the mutex (sync.hpp:559-584, 615-624).
LEMMA OwnStep ==
    ASSUME LocalInv, NEW t \in Tasks, NEW s \in Takes, At(t, s), Free, Own(t),
           UNCHANGED stopped
    PROVE  LocalInv'
<1>1. WaitTypes /\ DataTypes /\ OpenInv /\ PermitInv /\ "lock" \in Queues
    BY DEF LocalInv, TypeOK, Queues
<1>2. queue' \in [Queues -> Seq(Tasks)] /\ Fewer
    BY <1>1, TidyFacts DEF Own
<1>3. TaskPart'
  <2>1. s # "unlock" /\ s # "cv_await"
      BY DEF Takes
  <2>2. \A k \in Queues : ~Active(k, t)
      BY <2>1, AtFacts
  <2>3. \A k \in Queues, x \in Tasks : Active(k, x)' => Active(k, x)
      BY <1>2 DEF Fewer
  <2>4. /\ script' = script /\ status' = status /\ pos' = [pos EXCEPT ![t] = @ + 1]
        /\ stack' = stack /\ holders' = holders \cup {t}
      BY DEF Own, GoOn
  <2> QED  BY <2>1, <2>2, <2>3, <2>4, GoesOn
<1>4. WaitTypes'
    BY <1>1, <1>2 DEF WaitTypes, Own
<1>5. DataTypes' /\ OwnerInv' /\ PermitInv'
  <2>1. holders = {}
      BY FreeFacts
  <2> QED  BY <1>1, <2>1 DEF Own, DataTypes, OwnerInv, PermitInv
<1>6. OpenInv'
  <2>1. /\ locked' /\ permits' = permits /\ signaled' = signaled
        /\ HasSet(stack)' <=> HasSet(stack)
      BY DEF Own, HasSet
  <2> QED  BY <1>1, <1>2, <2>1, OpenKeeps
<1> QED  BY <1>3, <1>4, <1>5, <1>6, Parts

\* A task gives up, or comes back without success; queues may be tidied.
LEMMA LeaveStep ==
    ASSUME LocalInv, NEW t \in Tasks, NEW s, At(t, s), s \notin {"unlock", "cv_await"},
           Leave(t), UNCHANGED <<status, stack, outcome, posted, data, stopped>>,
           queue' = queue \/ \E k \in Queues : Tidy(k)
    PROVE  LocalInv'
<1>1. WaitTypes /\ OpenInv /\ PermitInv
    BY DEF LocalInv, TypeOK
<1>2. queue' \in [Queues -> Seq(Tasks)] /\ Fewer
  <2>1. CASE queue' = queue
    <3>1. UNCHANGED <<queue, outcome>>
        BY <2>1
    <3> QED  BY <1>1, <2>1, <3>1, SameQueues DEF WaitTypes
  <2>2. ASSUME NEW k \in Queues, Tidy(k) PROVE queue' \in [Queues -> Seq(Tasks)] /\ Fewer
      BY <1>1, <2>2, TidyFacts
  <2> QED  BY <2>1, <2>2
<1>3. UNCHANGED <<locked, holders, permits, issued, taken, signaled, ready>>
    BY DEF data
<1>4. TaskPart'
    BY <1>2, <1>3, AtFacts, Leaves
<1>5. WaitTypes'
    BY <1>1, <1>2 DEF WaitTypes
<1>6. DataTypes' /\ OwnerInv'
    BY <1>3, SameData DEF LocalInv, TypeOK, DataTypes
<1>7. OpenInv'
  <2>1. HasSet(stack)' <=> HasSet(stack)
      BY DEF HasSet
  <2> QED  BY <1>1, <1>2, <1>3, <2>1, OpenKeeps
<1>8. PermitInv'
    BY <1>1, <1>3 DEF PermitInv
<1> QED  BY <1>4, <1>5, <1>6, <1>7, <1>8, Parts

\* A task is suspended in a queue whose primitive has nothing for it.
LEMMA SuspendStep ==
    ASSUME LocalInv, NEW t \in Tasks, NEW s, At(t, s), NEW k \in Queues,
           \/ k = "lock" /\ s \in {"lock", "relock"} /\ locked
           \/ k = "sem" /\ s = "acquire" /\ permits = 0
           \/ k = "event" /\ s = "wait" /\ ~signaled,
           Queue(k, t, FALSE), status' = [status EXCEPT ![t] = "suspended"],
           stack' = Tail(stack), UNCHANGED <<script, pos, data, stopped>>
    PROVE  LocalInv'
<1>1. TaskTypes /\ WaitTypes /\ OpenInv /\ PermitInv
    BY DEF LocalInv, TypeOK
<1>2. UNCHANGED <<script, pos, locked, holders, permits, issued, taken, signaled, ready>>
    BY DEF data
<1>3. /\ queue' \in [Queues -> Seq(Tasks)] /\ outcome' \in [Queues -> [Tasks -> Outcomes]]
      /\ posted' \in Seq(Queues \X Tasks)
      /\ \A j \in Queues, x \in Tasks : Active(j, x)' => Active(j, x) \/ (j = k /\ x = t)
    BY <1>1, QueueFacts
<1>4. s \notin {"unlock", "cv_await"}
    OBVIOUS
<1>5. /\ stack # <<>> /\ Head(stack) = TaskFrame(t) /\ StepOf(t) = s
      /\ pos[t] \in 1..Len(script[t]) /\ \A j \in Queues : ~Active(j, t)
    BY <1>4, AtFacts
<1>6. TaskPart'
  <2>1. ScriptAt(t)'
    <3>1. ScriptAt(t)
        BY DEF LocalInv, ScriptInv
    <3> QED  BY <1>2, <3>1 DEF ScriptAt
  <2>2. ASSUME NEW j \in Queues, Active(j, t)' PROVE Waits(j, t)'
    <3>1. j = k
        BY <1>3, <1>5, <2>2
    <3>2. status'[t] = "suspended" /\ pos'[t] <= Len(script'[t]) /\ script'[t][pos'[t]] = s
        BY <1>1, <1>2, <1>5, LenProperties DEF TaskTypes, StepOf
    <3> QED  BY <3>1, <3>2 DEF Waits, StepOf
  <2>3. "suspended" \in Statuses \ {"running"}
      BY DEF Statuses
  <2>4. \A j \in Queues, x \in Tasks \ {t} : Active(j, x)' => Active(j, x)
      BY <1>3
  <2>5. pos' \in [Tasks -> Nat] /\ \A x \in Tasks \ {t} : pos'[x] = pos[x]
      BY <1>1, <1>2 DEF TaskTypes
  <2> QED  BY <1>2, <1>5, <2>1, <2>2, <2>3, <2>4, <2>5, Stops
<1>7. WaitTypes'
    BY <1>1, <1>3 DEF WaitTypes
<1>8. DataTypes' /\ OwnerInv'
    BY <1>2, SameData DEF LocalInv, TypeOK, DataTypes
<1>9. PermitInv' /\ (HasSet(stack)' <=> HasSet(stack))
  <2>1. HasSet(stack)' <=> HasSet(stack')
      BY DEF HasSet
  <2>2. Owed(stack)' = Owed(stack')
      BY DEF Owed
  <2> QED  BY <1>1, <1>2, <1>5, <2>1, <2>2, TopFacts DEF PermitInv
<1>10. OpenInv'
  <2>1. {"lock", "sem", "event"} \subseteq Queues
      BY DEF Queues
  <2>2. ~locked' => \A x \in Tasks : ~Active("lock", x)'
      BY <1>1, <1>2, <1>3, <2>1 DEF OpenInv
  <2>3. permits' > 0 => \A x \in Tasks : ~Active("sem", x)'
      BY <1>1, <1>2, <1>3, <2>1 DEF OpenInv
  <2>4. signaled' => HasSet(stack)' \/ \A x \in Tasks : ~Active("event", x)'
      BY <1>1, <1>2, <1>3, <1>9, <2>1 DEF OpenInv
  <2> QED  BY <2>2, <2>3, <2>4 DEF OpenInv
<1> QED  BY <1>6, <1>7, <1>8, <1>9, <1>10, Parts


\* lock and wait's own lock (sync.hpp:553-607, 982).
LEMMA LockStep ==
    ASSUME LocalInv, NEW t \in Tasks, Lock(t) \/ Relock(t)
    PROVE  LocalInv'
<1>1. "lock" \in Queues /\ "lock" \in Takes /\ "relock" \in Takes
    BY DEF Queues, Takes
<1>2. CASE Lock(t)
  <2>1. CASE Free /\ Own(t)
      BY <1>1, <1>2, <2>1, OwnStep DEF Lock
  <2>2. CASE ~Free /\ Await("lock", t) /\ UNCHANGED data
    <3>1. CASE t \in stopped /\ Leave(t) /\ UNCHANGED <<status, stack, queue, outcome, posted>>
        BY <1>2, <2>2, <3>1, LeaveStep DEF Lock
    <3>2. CASE /\ Queue("lock", t, FALSE) /\ status' = [status EXCEPT ![t] = "suspended"]
               /\ stack' = Tail(stack) /\ UNCHANGED <<script, pos>>
        BY <1>1, <1>2, <2>2, <3>2, FreeFacts, SuspendStep DEF Lock
    <3> QED  BY <2>2, <3>1, <3>2 DEF Await
  <2> QED  BY <1>2, <2>1, <2>2 DEF Lock
<1>3. CASE Relock(t)
  <2>1. CASE Free /\ Own(t)
      BY <1>1, <1>3, <2>1, OwnStep DEF Relock
  <2>2. CASE ~Free
      BY <1>1, <1>3, <2>2, FreeFacts, SuspendStep DEF Relock
  <2> QED  BY <1>3, <2>1, <2>2 DEF Relock
<1> QED  BY <1>2, <1>3

\* try_lock (sync.hpp:615-624).
LEMMA TryLockStep ==
    ASSUME LocalInv, NEW t \in Tasks, TryLock(t)
    PROVE  LocalInv'
<1>1. "lock" \in Queues /\ "try_lock" \in Takes
    BY DEF Queues, Takes
<1>2. CASE Free /\ Own(t)
    BY <1>1, <1>2, OwnStep DEF TryLock
<1>3. CASE ~Free /\ Leave(t) /\ Tidy("lock") /\ UNCHANGED <<status, stack, outcome, posted, data>>
    BY <1>1, <1>3, LeaveStep DEF TryLock
<1> QED  BY <1>2, <1>3 DEF TryLock

\* unlock opens the mutex or hands it over (sync.hpp:626-645).
LEMMA UnlockStep ==
    ASSUME LocalInv, NEW t \in Tasks, Unlock(t)
    PROVE  LocalInv'
<1> DEFINE on == [pos EXCEPT ![t] = @ + 1]
<1>1. /\ TaskTypes /\ WaitTypes /\ DataTypes /\ StackInv /\ ScriptInv /\ WaitInv /\ OpenInv
      /\ OwnerInv /\ PermitInv /\ "lock" \in Queues
    BY DEF LocalInv, TypeOK, Queues
<1>2. /\ stack # <<>> /\ Head(stack) = TaskFrame(t) /\ StepOf(t) = "unlock"
      /\ pos[t] \in 1..Len(script[t]) /\ status[t] = "running"
      /\ \A k \in Queues : Active(k, t) => k = "cv"
      /\ script[t] \in Seq(Steps) /\ ScriptAt(t)
    BY AtFacts, TopFacts DEF Unlock
<1>3. holders = {t}
  <2>1. Owes(script[t], pos[t])
      BY <1>2, OwesFacts DEF StepOf
  <2>2. t \in holders
      BY <1>2, <2>1 DEF ScriptAt
  <2> QED  BY <1>1, <2>2 DEF OwnerInv
<1>4. /\ on \in [Tasks -> Nat] /\ on[t] = pos[t] + 1 /\ \A x \in Tasks \ {t} : on[x] = pos[x]
    BY <1>1 DEF TaskTypes
<1>5. /\ UNCHANGED <<script, permits, issued, taken, signaled, ready, stopped, posted>>
    BY DEF Unlock
<1> HIDE DEF on
<1>6. ASSUME pos'[t] = pos[t] + 1, status'[t] = "running", t \notin holders', Fewer
      PROVE  ScriptAt(t)' /\ \A k \in Queues : Active(k, t)' => Waits(k, t)'
  <2>1. ScriptAt(t)'
    <3>1. t \in holders' <=> StepOf(t) \in Takes \/ (t \in holders /\ StepOf(t) # "unlock")
        BY <1>2, <1>6 DEF Takes
    <3> QED  BY <1>1, <1>2, <1>5, <1>6, <3>1, ScriptGoesOn
  <2>2. ASSUME NEW k \in Queues, Active(k, t)' PROVE Waits(k, t)'
    <3>1. k = "cv" /\ Waits(k, t)
        BY <1>1, <1>2, <1>6, <2>2 DEF Fewer, WaitInv
    <3>2. pos[t] + 1 <= Len(script[t]) /\ script[t][pos[t] + 1] = "cv_await"
        BY <1>2, <3>1 DEF Waits
    <3> QED  BY <1>5, <1>6, <3>1, <3>2 DEF Waits, StepOf
  <2> QED  BY <2>1, <2>2
<1>7. CASE Pruned("lock") = <<>>
  <2>1. /\ locked' = FALSE /\ holders' = holders \ {t} /\ Tidy("lock") /\ pos' = on
        /\ UNCHANGED <<status, stack, outcome>>
      BY <1>7 DEF Unlock, on
  <2>2. queue' \in [Queues -> Seq(Tasks)] /\ Fewer
      BY <1>1, <2>1, TidyFacts
  <2>3. \A x \in Tasks : ~Active("lock", x)
      BY <1>1, <1>7, PrunedFacts
  <2>4. ScriptAt(t)' /\ \A k \in Queues : Active(k, t)' => Waits(k, t)'
      BY <1>2, <1>3, <1>4, <1>6, <2>1, <2>2
  <2>5. TaskPart'
    <3>1. Running' = Running
        BY <2>1 DEF Running
    <3>2. TaskTypes' /\ StackInv'
        BY <1>1, <1>4, <1>5, <2>1, <3>1 DEF TaskTypes, StackInv
    <3>3. ScriptInv'
        BY <1>1, <1>3, <1>4, <1>5, <2>1, <2>4, ScriptKeeps
    <3>4. \A k \in Queues, x \in Tasks : Active(k, x)' => Active(k, x)
        BY <2>2 DEF Fewer
    <3>5. WaitInv'
        BY <1>1, <1>4, <1>5, <2>1, <2>4, <3>4, WaitKeeps
    <3> QED  BY <3>2, <3>3, <3>5 DEF TaskPart
  <2>6. WaitTypes' /\ DataTypes' /\ OwnerInv' /\ PermitInv'
      BY <1>1, <1>3, <1>5, <2>1, <2>2 DEF WaitTypes, DataTypes, OwnerInv, PermitInv
  <2>7. OpenInv'
    <3>1. HasSet(stack)' <=> HasSet(stack)
        BY <2>1 DEF HasSet
    <3> QED  BY <1>1, <1>5, <2>2, <2>3, <3>1, OpenKeeps
  <2> QED  BY <2>5, <2>6, <2>7, Parts
<1>8. CASE Pruned("lock") # <<>>
  <2>1. PICK w \in Tasks : w = Head(Pruned("lock")) /\ Active("lock", w)
      BY <1>1, <1>8, PrunedFacts
  <2>2. /\ Wake("lock", stack, on) /\ holders' = (holders \ {t}) \cup {w} /\ UNCHANGED locked
      BY <1>8, <2>1 DEF Unlock, on
  <2>3. w # t /\ holders' = {w}
      BY <1>1, <1>2, <1>3, <2>1, <2>2
  <2>4. queue' \in [Queues -> Seq(Tasks)] /\ Fewer
      BY <1>1, <1>8, <2>2, WakeFacts
  <2>5. pos'[t] = pos[t] + 1 /\ status'[t] = "running"
      BY <1>1, <1>2, <1>4, <2>1, <2>2, <2>3 DEF Wake, TaskTypes
  <2>6. ScriptAt(t)' /\ \A k \in Queues : Active(k, t)' => Waits(k, t)'
      BY <1>6, <2>3, <2>4, <2>5
  <2>7. stack \in Seq(Frames) /\ Stacked(stack, Running)
      BY <1>1 DEF TaskTypes, StackInv
  <2>8. /\ on[w] = pos[w] /\ \A x \in Tasks \ {t, w} : on[x] = pos[x]
        /\ \A x \in Tasks \ {t, w} : x \in holders' <=> x \in holders
        /\ w \in holders' /\ script' = script
      BY <1>3, <1>4, <1>5, <2>3
  <2>9. /\ TaskPart' /\ Fewer
        /\ outcome' \in [Queues -> [Tasks -> Outcomes]]
        /\ Cardinality(Owed(stack')) = Cardinality(Owed(stack))
        /\ HasSet(stack') <=> HasSet(stack)
      BY <1>1, <1>4, <1>8, <2>1, <2>2, <2>6, <2>7, <2>8, WakesTask
  <2>10. WaitTypes'
      BY <1>1, <1>5, <2>4, <2>9 DEF WaitTypes
  <2>11. DataTypes' /\ OwnerInv'
      BY <1>1, <1>3, <1>5, <2>2, <2>3 DEF DataTypes, OwnerInv
  <2>12. PermitInv'
    <3>1. Owed(stack)' = Owed(stack')
        BY DEF Owed
    <3> QED  BY <1>1, <1>5, <2>9, <3>1 DEF PermitInv
  <2>13. OpenInv'
    <3>1. HasSet(stack)' <=> HasSet(stack)
        BY <2>9 DEF HasSet
    <3> QED  BY <1>1, <1>3, <1>5, <2>2, <2>9, <3>1, OpenKeeps DEF OwnerInv
  <2> QED  BY <2>9, <2>10, <2>11, <2>12, <2>13, Parts
<1> QED  BY <1>7, <1>8


-----------------------------------------------------------------------------
(* The semaphore                                                             *)

\* acquire and try_acquire take a permit (sync.hpp:824-833, 874-883).
LEMMA TakeStep ==
    ASSUME LocalInv, NEW t \in Tasks, NEW s \in {"acquire", "try_acquire"}, At(t, s), Take(t),
           UNCHANGED stopped
    PROVE  LocalInv'
<1>1. WaitTypes /\ DataTypes /\ OpenInv /\ OwnerInv /\ PermitInv /\ "sem" \in Queues
    BY DEF LocalInv, TypeOK, Queues
<1>2. /\ permits > 0 /\ permits' = permits - 1 /\ taken' = taken + 1 /\ Tidy("sem")
      /\ script' = script /\ status' = status /\ pos' = [pos EXCEPT ![t] = @ + 1]
      /\ UNCHANGED <<stack, outcome, locked, holders, issued, signaled, ready, posted>>
    BY DEF Take, GoOn
<1>3. queue' \in [Queues -> Seq(Tasks)] /\ Fewer
    BY <1>1, <1>2, TidyFacts
<1>4. TaskPart'
  <2>1. s # "unlock" /\ s \notin Takes /\ \A k \in Queues : ~Active(k, t)
      BY AtFacts DEF Takes
  <2>2. \A k \in Queues, x \in Tasks : Active(k, x)' => Active(k, x)
      BY <1>3 DEF Fewer
  <2> QED  BY <1>2, <2>1, <2>2, GoesOn
<1>5. WaitTypes'
    BY <1>1, <1>2, <1>3 DEF WaitTypes
<1>6. DataTypes' /\ OwnerInv' /\ PermitInv'
  <2>1. Cardinality(Owed(stack)) \in Nat
      BY OwedFacts DEF LocalInv, TypeOK, TaskTypes
  <2> QED  BY <1>1, <1>2, <2>1 DEF DataTypes, OwnerInv, PermitInv
<1>7. OpenInv'
  <2>1. HasSet(stack)' <=> HasSet(stack)
      BY <1>2 DEF HasSet
  <2> QED  BY <1>1, <1>2, <1>3, <2>1, OpenKeeps
<1> QED  BY <1>4, <1>5, <1>6, <1>7, Parts

\* acquire (sync.hpp:818-872) and try_acquire.
LEMMA AcquireStep ==
    ASSUME LocalInv, NEW t \in Tasks, Acquire(t) \/ TryAcquire(t)
    PROVE  LocalInv'
<1>1. "sem" \in Queues
    BY DEF Queues
<1>2. CASE Acquire(t)
  <2>1. CASE Take(t)
      BY <1>2, <2>1, TakeStep DEF Acquire
  <2>2. CASE permits = 0 /\ Await("sem", t) /\ UNCHANGED data
    <3>1. CASE t \in stopped /\ Leave(t) /\ UNCHANGED <<status, stack, queue, outcome, posted>>
        BY <1>2, <2>2, <3>1, LeaveStep DEF Acquire
    <3>2. CASE /\ Queue("sem", t, FALSE) /\ status' = [status EXCEPT ![t] = "suspended"]
               /\ stack' = Tail(stack) /\ UNCHANGED <<script, pos>>
        BY <1>1, <1>2, <2>2, <3>2, SuspendStep DEF Acquire
    <3> QED  BY <2>2, <3>1, <3>2 DEF Await
  <2> QED  BY <1>2, <2>1, <2>2 DEF Acquire
<1>3. CASE TryAcquire(t)
  <2>1. CASE Take(t)
      BY <1>3, <2>1, TakeStep DEF TryAcquire
  <2>2. CASE /\ Leave(t) /\ Tidy("sem") /\ UNCHANGED <<status, stack, outcome, posted, data>>
      BY <1>1, <1>3, <2>2, LeaveStep DEF TryAcquire
  <2> QED  BY <1>3, <2>1, <2>2 DEF TryAcquire
<1> QED  BY <1>2, <1>3

\* A loop is on top of the stack.
LEMMA LoopFacts ==
    ASSUME LocalInv, stack # <<>>, Head(stack).op \in Loops
    PROVE  /\ Head(stack) \in LoopFrames /\ stack \in Seq(Frames) /\ Tail(stack) \in Seq(Frames)
           /\ Stacked(stack, Running) /\ Stacked(Tail(stack), Running)
           /\ Cardinality(Owed(stack)) = Cardinality(Owed(Tail(stack))) + Weight(Head(stack))
           /\ Cardinality(Owed(Tail(stack))) \in Nat
           /\ HasSet(stack) <=> Head(stack).op = "set" \/ HasSet(Tail(stack))
<1>1. stack \in Seq(Frames) /\ Stacked(stack, Running) /\ Running \in SUBSET Tasks
    BY DEF LocalInv, TypeOK, TaskTypes, StackInv, Running
<1>2. Head(stack) \in Frames /\ Tail(stack) \in Seq(Frames)
    BY <1>1, PopForm
<1>3. Head(stack) \in LoopFrames
    BY <1>2 DEF Frames, Loops, TaskFrame, Frame
<1>4. Stacked(Tail(stack), Running)
    BY <1>1, <1>3, Popped
<1> QED  BY <1>1, <1>2, <1>3, <1>4, OwedFacts, SetFacts

\* A loop ends, and its frame goes.
LEMMA LoopEnds ==
    ASSUME LocalInv, stack # <<>>, Head(stack).op \in Loops, stack' = Tail(stack),
           NEW k \in Queues, Tidy(k), UNCHANGED <<script, pos, status, outcome, posted, stopped>>,
           UNCHANGED <<locked, holders, issued, taken, signaled, ready>>,
           permits' = permits + Weight(Head(stack)),
           permits' > permits => \A x \in Tasks : ~Active("sem", x),
           Head(stack).op = "set" => \A x \in Tasks : ~Active("event", x)
    PROVE  LocalInv'
<1>1. /\ TaskTypes /\ WaitTypes /\ DataTypes /\ StackInv /\ ScriptInv /\ WaitInv /\ OpenInv
      /\ OwnerInv /\ PermitInv
    BY DEF LocalInv, TypeOK
<1>2. /\ Head(stack) \in LoopFrames /\ stack' \in Seq(Frames) /\ Stacked(stack', Running)
      /\ Cardinality(Owed(stack)) = Cardinality(Owed(stack')) + Weight(Head(stack))
      /\ Cardinality(Owed(stack')) \in Nat
      /\ HasSet(stack) <=> Head(stack).op = "set" \/ HasSet(stack')
    BY LoopFacts
<1>3. queue' \in [Queues -> Seq(Tasks)] /\ Fewer
    BY <1>1, TidyFacts
<1>4. Weight(Head(stack)) \in Nat
    BY <1>2 DEF Weight, LoopFrames
<1>5. TaskPart'
  <2>1. Running' = Running
      BY DEF Running
  <2>2. TaskTypes' /\ StackInv'
      BY <1>1, <1>2, <2>1 DEF TaskTypes, StackInv
  <2>3. ScriptInv'
      BY <1>1 DEF ScriptInv, ScriptAt
  <2>4. ASSUME NEW j \in Queues, NEW x \in Tasks, Active(j, x)' PROVE Waits(j, x)'
    <3>1. Waits(j, x)
        BY <1>1, <1>3, <2>4 DEF Fewer, WaitInv
    <3> QED  BY <3>1 DEF Waits, StepOf
  <2> QED  BY <2>2, <2>3, <2>4 DEF TaskPart, WaitInv
<1>6. WaitTypes'
    BY <1>1, <1>3 DEF WaitTypes
<1>7. DataTypes' /\ OwnerInv' /\ PermitInv'
  <2>1. Owed(stack)' = Owed(stack')
      BY DEF Owed
  <2> QED  BY <1>1, <1>2, <1>4, <2>1 DEF DataTypes, OwnerInv, PermitInv
<1>8. OpenInv'
  <2>1. HasSet(stack)' <=> HasSet(stack')
      BY DEF HasSet
  <2>2. permits' > 0 => permits > 0 \/ permits' > permits
      BY <1>1, <1>4 DEF DataTypes
  <2> QED  BY <1>1, <1>2, <1>3, <2>1, <2>2, OpenKeeps
<1> QED  BY <1>5, <1>6, <1>7, <1>8, Parts

\* A loop wakes a waiter.
LEMMA LoopWakes ==
    ASSUME LocalInv, stack # <<>>, NEW k \in {"sem", "event", "cv"}, Pruned(k) # <<>>,
           NEW rest \in Seq(Frames), Stacked(rest, Running),
           HasSet(rest) <=> HasSet(stack),
           Wake(k, rest, pos), UNCHANGED <<script, posted, stopped>>,
           UNCHANGED <<locked, holders, permits, issued, signaled, ready>>,
           taken' \in Nat, taken' + Cardinality(Owed(rest)) = taken + Cardinality(Owed(stack))
    PROVE  LocalInv'
<1>1. /\ TaskTypes /\ WaitTypes /\ DataTypes /\ ScriptInv /\ OpenInv
      /\ OwnerInv /\ PermitInv /\ k \in Queues /\ k # "lock"
    BY DEF LocalInv, TypeOK, Queues
<1>2. PICK w \in Tasks : w = Head(Pruned(k))
    BY <1>1, PrunedFacts
<1>3. pos \in [Tasks -> Nat]
    BY <1>1 DEF TaskTypes
<1>4. /\ TaskPart' /\ Fewer
      /\ queue' \in [Queues -> Seq(Tasks)]
      /\ outcome' \in [Queues -> [Tasks -> Outcomes]]
      /\ Cardinality(Owed(stack')) = Cardinality(Owed(rest))
      /\ HasSet(stack') <=> HasSet(rest)
    BY <1>1, <1>2, <1>3, WakesTask
<1>5. WaitTypes'
    BY <1>1, <1>4 DEF WaitTypes
<1>6. DataTypes' /\ OwnerInv' /\ PermitInv'
  <2>1. Owed(stack)' = Owed(stack')
      BY DEF Owed
  <2>2. Cardinality(Owed(rest)) \in Nat /\ Cardinality(Owed(stack)) \in Nat
      BY <1>1, OwedFacts DEF TaskTypes
  <2> QED  BY <1>1, <1>4, <2>1, <2>2 DEF DataTypes, OwnerInv, PermitInv
<1>7. OpenInv'
  <2>1. HasSet(stack)' <=> HasSet(stack')
      BY DEF HasSet
  <2> QED  BY <1>1, <1>4, <2>1, OpenKeeps
<1> QED  BY <1>4, <1>5, <1>6, <1>7, Parts

\* release hands its permits to waiters and adds the rest (sync.hpp:891-904).
LEMMA ReleaseLoopStep == LocalInv /\ ReleaseLoop => LocalInv'
<1> SUFFICES ASSUME LocalInv, ReleaseLoop PROVE LocalInv'
    OBVIOUS
<1> DEFINE f == Head(stack)
           less == [f EXCEPT !.n = @ - 1]
           rest == <<less>> \o Tail(stack)
<1>1. stack # <<>> /\ f.op = "release" /\ f.op \in Loops /\ "sem" \in Queues /\ WaitTypes /\ DataTypes
    BY DEF ReleaseLoop, Loops, Queues, LocalInv, TypeOK
<1>2. /\ f \in LoopFrames /\ Tail(stack) \in Seq(Frames) /\ Stacked(Tail(stack), Running)
      /\ Cardinality(Owed(stack)) = Cardinality(Owed(Tail(stack))) + Weight(f)
      /\ Cardinality(Owed(Tail(stack))) \in Nat
      /\ HasSet(stack) <=> f.op = "set" \/ HasSet(Tail(stack))
    BY <1>1, LoopFacts
<1>3. Weight(f) = f.n /\ f.n \in 0..2
    BY <1>1, <1>2 DEF Weight, LoopFrames
<1>4. CASE /\ f.n > 0 /\ Pruned("sem") # <<>> /\ Wake("sem", rest, pos)
           /\ taken' = taken + 1 /\ UNCHANGED permits
  <2>1. /\ less \in LoopFrames /\ less.op = "release" /\ less.n = f.n - 1
      BY <1>1, <1>2, <1>3, <1>4 DEF LoopFrames
  <2> HIDE DEF f, less
  <2>2. less \in Frames /\ Weight(less) = f.n - 1 /\ less.op # "set"
      BY <2>1 DEF Frames, Weight
  <2>3. /\ rest \in Seq(Frames) /\ rest # <<>> /\ Head(rest) = less /\ Tail(rest) = Tail(stack)
        /\ Stacked(rest, Running)
      BY <1>2, <2>1, <2>2, PushForm, Pushed DEF Running
  <2> HIDE DEF rest
  <2>4. /\ Cardinality(Owed(rest)) = Cardinality(Owed(Tail(stack))) + Weight(less)
        /\ HasSet(rest) <=> HasSet(Tail(stack))
      BY <2>2, <2>3, OwedFacts, SetFacts
  <2>5. taken' + Cardinality(Owed(rest)) = taken + Cardinality(Owed(stack)) /\ taken' \in Nat
      BY <1>1, <1>2, <1>3, <1>4, <2>2, <2>4 DEF DataTypes
  <2>6. HasSet(rest) <=> HasSet(stack)
      BY <1>1, <1>2, <2>4
  <2>7. UNCHANGED <<script, posted, stopped, locked, holders, permits, issued, signaled, ready>>
      BY <1>4 DEF ReleaseLoop
  <2> QED  BY <1>1, <1>4, <2>3, <2>5, <2>6, <2>7, LoopWakes
<1>5. CASE /\ f.n = 0 \/ Pruned("sem") = <<>>
           /\ permits' = permits + f.n /\ stack' = Tail(stack) /\ Tidy("sem")
           /\ UNCHANGED <<pos, status, outcome, taken>>
  <2>1. UNCHANGED <<script, locked, holders, issued, signaled, ready, stopped, posted>>
      BY DEF ReleaseLoop
  <2>2. permits' > permits => \A x \in Tasks : ~Active("sem", x)
      BY <1>1, <1>5, PrunedFacts DEF DataTypes
  <2> QED  BY <1>1, <1>3, <1>5, <2>1, <2>2, LoopEnds
<1> QED  BY <1>4, <1>5 DEF ReleaseLoop


-----------------------------------------------------------------------------
(* Steps that wait for nothing                                               *)

\* A task goes on, and what there is stays, but for a set event.
LEMMA QuietStep ==
    ASSUME LocalInv, NEW t \in Tasks, NEW s, At(t, s), s \notin Takes, s # "unlock",
           \A k \in Queues : ~Active(k, t),
           script' = script, status' = status, pos' = [pos EXCEPT ![t] = @ + 1],
           stack' = stack \/ \E f \in LoopFrames : stack' = <<f>> \o stack,
           queue' \in [Queues -> Seq(Tasks)], outcome' \in [Queues -> [Tasks -> Outcomes]],
           posted' \in Seq(Queues \X Tasks), stopped' = stopped,
           \A k \in Queues, x \in Tasks :
              Active(k, x)' => Active(k, x) \/ (k = "cv" /\ x = t /\ s = "cv_push"),
           UNCHANGED <<locked, holders, permits, taken>>,
           issued' \in Nat, signaled' \in BOOLEAN, ready' \in BOOLEAN,
           issued' + Cardinality(Owed(stack)) = issued + Cardinality(Owed(stack')),
           signaled' => HasSet(stack') \/ (signaled /\ ~HasSet(stack))
    PROVE  LocalInv'
<1>1. /\ TaskTypes /\ WaitTypes /\ DataTypes /\ OpenInv /\ OwnerInv /\ PermitInv
      /\ {"lock", "sem", "event"} \subseteq Queues
    BY DEF LocalInv, TypeOK, Queues
<1>2. TaskPart'
  <2>1. \A x \in Tasks : x \in holders' <=> x \in holders \/ (x = t /\ s \in Takes)
      OBVIOUS
  <2> QED  BY <2>1, GoesOn
<1>3. WaitTypes'
    BY <1>1 DEF WaitTypes
<1>4. DataTypes' /\ OwnerInv' /\ PermitInv'
  <2>1. Owed(stack)' = Owed(stack')
      BY DEF Owed
  <2>2. stack' \in Seq(Frames) /\ stack \in Seq(Frames)
      BY <1>1, <1>2 DEF TaskPart, TaskTypes
  <2>3. Cardinality(Owed(stack')) \in Nat /\ Cardinality(Owed(stack)) \in Nat
      BY <2>2, OwedFacts
  <2>4. permits' + taken' + Cardinality(Owed(stack')) = issued'
    <3>1. PICK a \in Nat, b \in Nat : a = Cardinality(Owed(stack)) /\ b = Cardinality(Owed(stack'))
        BY <2>3
    <3>2. permits + taken + a = issued /\ issued' + a = issued + b
        BY <1>1, <3>1 DEF PermitInv
    <3>3. permits' = permits /\ taken' = taken /\ permits \in Nat /\ taken \in Nat /\ issued \in Nat
        BY <1>1 DEF DataTypes
    <3>4. PICK n \in Nat : n = issued'
        OBVIOUS
    <3>5. permits + taken + b = n
      <4>1. n + a = issued + b /\ permits + taken + a = issued
          BY <3>2, <3>4
      <4>2. \A p, q, i \in Nat : p + q + a = i /\ n + a = i + b => p + q + b = n
          OBVIOUS
      <4> QED  BY <3>3, <4>1, <4>2
    <3> QED  BY <3>1, <3>3, <3>4, <3>5
  <2>5. PermitInv'
      BY <2>1, <2>4 DEF PermitInv
  <2>6. OwnerInv'
      BY <1>1 DEF OwnerInv
  <2>7. DataTypes'
      BY <1>1 DEF DataTypes
  <2> QED  BY <2>5, <2>6, <2>7
<1>5. OpenInv'
  <2>1. HasSet(stack)' <=> HasSet(stack')
      BY DEF HasSet
  <2>2. \A k \in {"lock", "sem", "event"}, x \in Tasks : Active(k, x)' => Active(k, x)
      BY <1>1
  <2>3. ~locked' => \A x \in Tasks : ~Active("lock", x)'
      BY <1>1, <2>2 DEF OpenInv
  <2>5. permits' > 0 => \A x \in Tasks : ~Active("sem", x)'
      BY <1>1, <2>2 DEF OpenInv
  <2>4. signaled' => HasSet(stack)' \/ \A x \in Tasks : ~Active("event", x)'
      BY <1>1, <2>1, <2>2 DEF OpenInv
  <2> QED  BY <2>3, <2>4, <2>5 DEF OpenInv
<1> QED  BY <1>2, <1>3, <1>4, <1>5, Parts

\* A frame of a loop is pushed.
LEMMA PushLoop ==
    ASSUME LocalInv, NEW f \in LoopFrames
    PROVE  /\ Cardinality(Owed(<<f>> \o stack)) = Cardinality(Owed(stack)) + Weight(f)
           /\ Cardinality(Owed(stack)) \in Nat
           /\ HasSet(<<f>> \o stack) <=> f.op = "set" \/ HasSet(stack)
<1>1. stack \in Seq(Frames) /\ f \in Frames
    BY DEF LocalInv, TypeOK, TaskTypes, Frames
<1>2. /\ <<f>> \o stack \in Seq(Frames) /\ <<f>> \o stack # <<>>
      /\ Head(<<f>> \o stack) = f /\ Tail(<<f>> \o stack) = stack
    BY <1>1, PushForm
<1> QED  BY <1>1, <1>2, OwedFacts, SetFacts

\* release starts its loop (sync.hpp:885-892).
LEMMA ReleaseStep ==
    ASSUME LocalInv, NEW t \in Tasks, Release(t)
    PROVE  LocalInv'
<1>1. PICK n \in 1..2 : /\ At(t, IF n = 1 THEN "release" ELSE "release2")
                        /\ stack' = <<Frame("release", t, n)>> \o stack
                        /\ issued' = issued + n
    BY DEF Release
<1> DEFINE f == Frame("release", t, n)
           s == IF n = 1 THEN "release" ELSE "release2"
<1>2. f \in LoopFrames /\ Weight(f) = n /\ f.op = "release"
    BY DEF LoopFrames, Frame, Weight, Loops
<1>3. /\ s \notin Takes /\ s # "unlock" /\ s # "cv_push" /\ s # "cv_await"
    BY DEF Takes
<1>4. /\ script' = script /\ status' = status /\ pos' = [pos EXCEPT ![t] = @ + 1]
      /\ UNCHANGED <<queue, outcome, posted, stopped, locked, holders, permits, taken, signaled, ready>>
    BY DEF Release, GoOn
<1>5. WaitTypes /\ DataTypes /\ OpenInv
    BY DEF LocalInv, TypeOK
<1> HIDE DEF f, s
<1>6. \A k \in Queues : ~Active(k, t)
    BY <1>1, <1>3, AtFacts DEF s
<1>7. /\ Cardinality(Owed(stack')) = Cardinality(Owed(stack)) + n
      /\ Cardinality(Owed(stack)) \in Nat
      /\ HasSet(stack') <=> HasSet(stack)
    BY <1>1, <1>2, PushLoop DEF f
<1>8. \A k \in Queues, x \in Tasks : Active(k, x)' => Active(k, x)
    BY <1>4 DEF Active
<1>9. issued' \in Nat /\ issued' + Cardinality(Owed(stack)) = issued + Cardinality(Owed(stack'))
    BY <1>1, <1>5, <1>7 DEF DataTypes
<1>10. signaled' => HasSet(stack') \/ (signaled /\ ~HasSet(stack))
    BY <1>4, <1>7
<1>11. At(t, s) /\ stack' = <<f>> \o stack
    BY <1>1 DEF f, s
<1>12. /\ queue' \in [Queues -> Seq(Tasks)] /\ outcome' \in [Queues -> [Tasks -> Outcomes]]
       /\ posted' \in Seq(Queues \X Tasks) /\ signaled' \in BOOLEAN /\ ready' \in BOOLEAN
    BY <1>4, <1>5 DEF WaitTypes, DataTypes
<1> QED  BY <1>2, <1>3, <1>4, <1>6, <1>8, <1>9, <1>10, <1>11, <1>12, QuietStep

\* A step that starts a loop of no permits.
LEMMA StartStep ==
    ASSUME LocalInv, NEW t \in Tasks, SetEvent(t) \/ NotifyAll(t)
    PROVE  LocalInv'
<1>1. PICK op \in {"set", "notify_all"} :
         At(t, op) /\ stack' = <<Frame(op, t, 0)>> \o stack
         /\ (op = "set" \/ signaled' = signaled)
    BY DEF SetEvent, NotifyAll, data
<1> DEFINE f == Frame(op, t, 0)
<1>2. f \in LoopFrames /\ Weight(f) = 0 /\ f.op = op
    BY DEF LoopFrames, Frame, Weight, Loops
<1>3. op \notin Takes /\ op # "unlock" /\ op # "cv_push" /\ op # "cv_await"
    BY DEF Takes
<1>4. /\ script' = script /\ status' = status /\ pos' = [pos EXCEPT ![t] = @ + 1]
      /\ UNCHANGED <<queue, outcome, posted, stopped, locked, holders, permits, taken, issued, ready>>
      /\ signaled' = TRUE \/ signaled' = signaled
    BY DEF SetEvent, NotifyAll, GoOn, data
<1>5. WaitTypes /\ DataTypes /\ OpenInv
    BY DEF LocalInv, TypeOK
<1> HIDE DEF f
<1>6. \A k \in Queues : ~Active(k, t)
    BY <1>1, <1>3, AtFacts
<1>7. /\ Cardinality(Owed(stack')) = Cardinality(Owed(stack))
      /\ Cardinality(Owed(stack)) \in Nat
      /\ HasSet(stack') <=> op = "set" \/ HasSet(stack)
    BY <1>1, <1>2, PushLoop DEF f
<1>8. \A k \in Queues, x \in Tasks : Active(k, x)' => Active(k, x)
    BY <1>4 DEF Active
<1>9. issued' \in Nat /\ issued' + Cardinality(Owed(stack)) = issued + Cardinality(Owed(stack'))
    BY <1>4, <1>5, <1>7 DEF DataTypes
<1>10. signaled' => HasSet(stack') \/ (signaled /\ ~HasSet(stack))
    BY <1>1, <1>7
<1>11. stack' = <<f>> \o stack
    BY <1>1 DEF f
<1>12. /\ queue' \in [Queues -> Seq(Tasks)] /\ outcome' \in [Queues -> [Tasks -> Outcomes]]
       /\ posted' \in Seq(Queues \X Tasks) /\ signaled' \in BOOLEAN /\ ready' \in BOOLEAN
    BY <1>4, <1>5 DEF WaitTypes, DataTypes
<1> QED  BY <1>1, <1>2, <1>3, <1>4, <1>6, <1>8, <1>9, <1>10, <1>11, <1>12, QuietStep

\* A step that leaves the stack as it is.
LEMMA PlainStep ==
    ASSUME LocalInv, NEW t \in Tasks, NEW s, At(t, s), s \notin Takes, s # "unlock",
           \A k \in Queues : ~Active(k, t),
           script' = script, status' = status, pos' = [pos EXCEPT ![t] = @ + 1], stack' = stack,
           queue' \in [Queues -> Seq(Tasks)], outcome' \in [Queues -> [Tasks -> Outcomes]],
           posted' \in Seq(Queues \X Tasks), stopped' = stopped,
           \A k \in Queues, x \in Tasks :
              Active(k, x)' => Active(k, x) \/ (k = "cv" /\ x = t /\ s = "cv_push"),
           UNCHANGED <<locked, holders, permits, issued, taken>>,
           signaled' \in BOOLEAN, ready' \in BOOLEAN, signaled' => signaled
    PROVE  LocalInv'
<1>1. /\ issued' \in Nat
      /\ issued' + Cardinality(Owed(stack)) = issued + Cardinality(Owed(stack'))
    BY DEF LocalInv, TypeOK, DataTypes
<1>2. signaled' => HasSet(stack') \/ (signaled /\ ~HasSet(stack))
    OBVIOUS
<1>3. stack' = stack \/ \E f \in LoopFrames : stack' = <<f>> \o stack
    OBVIOUS
<1> QED  BY <1>1, <1>2, <1>3, QuietStep

\* The steps that leave the stack as it is: a wait for a set event, reset, the
\* predicate's write, a push on the condition variable, a notify_one with nobody there
\* and a wait that has been notified already (sync.hpp:947-993, 1175-1183, 1240-1243).
LEMMA PlainSteps ==
    ASSUME LocalInv, NEW t \in Tasks,
           \/ At(t, "wait") /\ signaled /\ WaitEvent(t) /\ Tidy("event") /\ GoOn(t)
                            /\ UNCHANGED <<stack, outcome, posted>>
           \/ ResetEvent(t) \/ MakeReady(t) \/ CvPush(t)
           \/ NotifyOne(t) /\ Pruned("cv") = <<>>
           \/ CvAwait(t) /\ outcome["cv"][t] # "none" /\ GoOn(t)
    PROVE  LocalInv'
<1>0. /\ WaitTypes /\ DataTypes /\ {"event", "cv"} \subseteq Queues
    BY DEF LocalInv, TypeOK, Queues
<1>1. PICK s \in {"wait", "reset", "make_ready", "cv_push", "notify_one", "cv_await"} :
         /\ At(t, s)
         /\ s = "wait" => WaitEvent(t) /\ Tidy("event") /\ UNCHANGED <<stack, outcome, posted>>
                          /\ GoOn(t)
         /\ s = "reset" => ResetEvent(t)
         /\ s = "make_ready" => MakeReady(t)
         /\ s = "cv_push" => CvPush(t)
         /\ s = "notify_one" => NotifyOne(t) /\ Pruned("cv") = <<>>
         /\ s = "cv_await" => CvAwait(t) /\ outcome["cv"][t] # "none" /\ GoOn(t)
    BY DEF ResetEvent, MakeReady, CvPush, NotifyOne, CvAwait
<1>2. s \notin Takes /\ s # "unlock"
    BY DEF Takes
<1>3. \A k \in Queues : ~Active(k, t)
    BY <1>1, <1>2, AtFacts DEF Active
<1>4. /\ script' = script /\ status' = status /\ pos' = [pos EXCEPT ![t] = @ + 1]
      /\ stack' = stack /\ stopped' = stopped
      /\ UNCHANGED <<locked, holders, permits, issued, taken>>
      /\ signaled' \in BOOLEAN /\ ready' \in BOOLEAN /\ (signaled' => signaled)
  <2>0. signaled \in BOOLEAN /\ ready \in BOOLEAN
      BY <1>0 DEF DataTypes
  <2>1. CASE s = "wait"
      BY <1>1, <2>0, <2>1 DEF GoOn, WaitEvent, data
  <2>2. CASE s = "reset"
      BY <1>1, <2>0, <2>2 DEF GoOn, ResetEvent
  <2>3. CASE s = "make_ready"
      BY <1>1, <2>0, <2>3 DEF GoOn, MakeReady
  <2>4. CASE s = "cv_push"
      BY <1>1, <2>0, <2>4 DEF GoOn, CvPush, data
  <2>5. CASE s = "notify_one"
      BY <1>1, <2>0, <2>5 DEF NotifyOne, data
  <2>6. CASE s = "cv_await"
    <3>1. UNCHANGED stack
        BY <1>1, <2>6 DEF CvAwait
    <3> QED  BY <1>1, <2>0, <2>6, <3>1 DEF GoOn, CvAwait, data
  <2> QED  BY <2>1, <2>2, <2>3, <2>4, <2>5, <2>6
<1>5. /\ queue' \in [Queues -> Seq(Tasks)] /\ outcome' \in [Queues -> [Tasks -> Outcomes]]
      /\ posted' \in Seq(Queues \X Tasks)
      /\ \A k \in Queues, x \in Tasks :
            Active(k, x)' => Active(k, x) \/ (k = "cv" /\ x = t /\ s = "cv_push")
  <2>1. CASE s = "cv_push"
    <3>1. Queue("cv", t, t \in stopped)
        BY <1>1, <2>1 DEF CvPush
    <3> QED  BY <1>0, <2>1, <3>1, QueueFacts
  <2>2. CASE s \in {"wait", "notify_one"}
    <3>1. UNCHANGED <<outcome, posted>> /\ (Tidy("event") \/ Tidy("cv"))
        BY <1>1, <2>2 DEF NotifyOne
    <3>2. queue' \in [Queues -> Seq(Tasks)] /\ Fewer
        BY <1>0, <3>1, TidyFacts
    <3> QED  BY <1>0, <3>1, <3>2 DEF WaitTypes, Fewer
  <2>3. CASE s \in {"reset", "make_ready", "cv_await"}
    <3>1. UNCHANGED <<queue, outcome, posted>>
        BY <1>1, <2>3 DEF ResetEvent, MakeReady, CvAwait
    <3> QED  BY <1>0, <3>1 DEF WaitTypes, Active
  <2> QED  BY <2>1, <2>2, <2>3
<1> QED  BY <1>1, <1>2, <1>3, <1>4, <1>5, PlainStep


\* wait on the event (sync.hpp:1169-1221).
LEMMA WaitEventStep ==
    ASSUME LocalInv, NEW t \in Tasks, WaitEvent(t)
    PROVE  LocalInv'
<1>1. At(t, "wait") /\ "event" \in Queues
    BY DEF WaitEvent, Queues
<1>2. CASE signaled /\ Tidy("event") /\ GoOn(t) /\ UNCHANGED <<stack, outcome, posted>>
    BY <1>1, <1>2, PlainSteps
<1>3. CASE ~signaled /\ Await("event", t)
  <2>1. UNCHANGED <<data, stopped>>
      BY DEF WaitEvent
  <2>2. CASE t \in stopped /\ Leave(t) /\ UNCHANGED <<status, stack, queue, outcome, posted>>
      BY <1>1, <2>1, <2>2, LeaveStep
  <2>3. CASE /\ t \notin stopped /\ Queue("event", t, FALSE)
             /\ status' = [status EXCEPT ![t] = "suspended"]
             /\ stack' = Tail(stack) /\ UNCHANGED <<script, pos>>
      BY <1>1, <1>3, <2>1, <2>3, SuspendStep
  <2> QED  BY <1>3, <2>2, <2>3 DEF Await
<1> QED  BY <1>2, <1>3 DEF WaitEvent

-----------------------------------------------------------------------------
(* The condition variable                                                    *)

\* A task goes to another step of its script that leaves it the same lock.
LEMMA JumpStep ==
    ASSUME LocalInv, NEW t \in Tasks, NEW s, At(t, s), s \notin {"unlock", "cv_await"},
           NEW p \in 1..(Len(script[t]) + 1), Owes(script[t], pos[t]) <=> Owes(script[t], p),
           pos' = [pos EXCEPT ![t] = p],
           UNCHANGED <<script, status, stack, queue, outcome, data, stopped, posted>>
    PROVE  LocalInv'
<1>1. /\ TaskTypes /\ WaitTypes /\ DataTypes /\ StackInv /\ ScriptInv /\ WaitInv /\ OpenInv
      /\ OwnerInv /\ PermitInv
    BY DEF LocalInv, TypeOK
<1>2. UNCHANGED <<locked, holders, permits, issued, taken, signaled, ready>>
    BY DEF data
<1>3. \A k \in Queues : ~Active(k, t)
    BY AtFacts
<1>4. Fewer
    BY SameQueues
<1>5. p \in Nat /\ pos' \in [Tasks -> Nat] /\ pos'[t] = p /\ \A x \in Tasks \ {t} : pos'[x] = pos[x]
    BY <1>1, LenProperties DEF TaskTypes
<1>6. TaskPart'
  <2>1. TaskTypes'
      BY <1>1, <1>5 DEF TaskTypes
  <2>2. Running' = Running
      BY DEF Running
  <2>3. StackInv'
      BY <1>1, <2>2 DEF StackInv
  <2>4. ScriptAt(t)'
    <3>1. ScriptAt(t)
        BY <1>1 DEF ScriptInv
    <3> QED  BY <1>2, <1>5, <3>1 DEF ScriptAt
  <2>5. ScriptInv'
      BY <1>1, <1>2, <1>5, <2>4, ScriptKeeps
  <2>6. /\ \A k \in Queues : ~Active(k, t)'
        /\ \A k \in Queues, x \in Tasks : Active(k, x)' => Active(k, x)
      BY <1>3, <1>4 DEF Fewer
  <2>7. WaitInv'
      BY <1>1, <1>5, <2>6, WaitKeeps
  <2> QED  BY <2>1, <2>3, <2>5, <2>7 DEF TaskPart
<1>7. WaitTypes'
    BY <1>1 DEF WaitTypes
<1>8. DataTypes' /\ OwnerInv'
    BY <1>1, <1>2, SameData DEF DataTypes
<1>9. OpenInv'
  <2>1. HasSet(stack)' <=> HasSet(stack)
      BY DEF HasSet
  <2> QED  BY <1>1, <1>2, <1>4, <2>1, OpenKeeps
<1>10. PermitInv'
    BY <1>1, <1>2 DEF PermitInv
<1> QED  BY <1>6, <1>7, <1>8, <1>9, <1>10, Parts

\* The predicate is tested, and the wait is left or begins (sync.hpp:224).
LEMMA WhileStep ==
    ASSUME LocalInv, NEW t \in Tasks, While(t)
    PROVE  LocalInv'
<1>1. /\ At(t, "while") /\ Len(CvWait) = 6
      /\ pos' = [pos EXCEPT ![t] = @ + (IF ready THEN Len(CvWait) ELSE 1)]
      /\ UNCHANGED <<script, status, stack, queue, outcome, data, stopped, posted>>
    BY DEF While, CvWait
<1>2. /\ pos[t] \in 1..Len(script[t]) /\ script[t][pos[t]] = "while" /\ "while" \notin Takes
      /\ script[t] \in Seq(Steps) /\ Scoped(script[t]) /\ Whole(script[t])
    BY <1>1, AtFacts, TopFacts DEF ScriptAt, StepOf, Takes
<1>3. Len(script[t]) \in Nat
    BY <1>2, LenProperties
<1>4. CASE ready
  <2>1. /\ pos[t] + 6 \in 1..(Len(script[t]) + 1)
        /\ Owes(script[t], pos[t]) <=> Owes(script[t], pos[t] + 6)
      BY <1>2, WholeFacts
  <2>2. pos' = [pos EXCEPT ![t] = pos[t] + 6]
      BY <1>1, <1>4
  <2> QED  BY <1>1, <2>1, <2>2, JumpStep
<1>5. CASE ~ready
  <2>1. Owes(script[t], pos[t]) <=> Owes(script[t], pos[t] + 1)
      BY <1>2, ScopedFacts
  <2>2. pos[t] + 1 \in 1..(Len(script[t]) + 1)
      BY <1>2, <1>3
  <2>3. pos' = [pos EXCEPT ![t] = pos[t] + 1]
      BY <1>1, <1>5
  <2> QED  BY <1>1, <2>1, <2>2, <2>3, JumpStep
<1> QED  BY <1>4, <1>5

\* After the mutex is locked again, a cancelled wait throws and another one tests the
\* predicate (sync.hpp:224-226, 982-985).
LEMMA RethrowStep ==
    ASSUME LocalInv, NEW t \in Tasks, CvRethrow(t)
    PROVE  LocalInv'
<1>1. /\ At(t, "cv_rethrow") /\ Len(CvWait) = 6
      /\ UNCHANGED <<status, stack, queue, outcome, data, stopped, posted>>
    BY DEF CvRethrow, CvWait
<1>2. CASE Leave(t)
    BY <1>1, <1>2, LeaveStep
<1>3. CASE pos' = [pos EXCEPT ![t] = @ - (Len(CvWait) - 1)] /\ UNCHANGED script
  <2>1. /\ pos[t] \in 1..Len(script[t]) /\ script[t][pos[t]] = "cv_rethrow"
        /\ script[t] \in Seq(Steps) /\ Scoped(script[t]) /\ Whole(script[t])
      BY <1>1, AtFacts, TopFacts DEF ScriptAt, StepOf
  <2>2. /\ pos[t] - 5 \in 1..(Len(script[t]) + 1)
        /\ Owes(script[t], pos[t]) <=> Owes(script[t], pos[t] - 5)
      BY <2>1, WholeFacts
  <2>3. pos' = [pos EXCEPT ![t] = pos[t] - 5]
      BY <1>1, <1>3
  <2> QED  BY <1>1, <1>3, <2>2, <2>3, JumpStep
<1> QED  BY <1>2, <1>3 DEF CvRethrow

\* The running task leaves the stack, and the primitives stay as they are.
LEMMA StopsStep ==
    ASSUME LocalInv, NEW t \in Tasks, stack # <<>>, Head(stack) = TaskFrame(t),
           pos' \in [Tasks -> Nat], ScriptAt(t)', \A x \in Tasks \ {t} : pos'[x] = pos[x],
           NEW v \in Statuses \ {"running"}, status' = [status EXCEPT ![t] = v],
           stack' = Tail(stack), \A k \in Queues : Active(k, t) => Waits(k, t)',
           UNCHANGED <<script, queue, outcome, data, stopped, posted>>
    PROVE  LocalInv'
<1>1. WaitTypes /\ DataTypes /\ OpenInv /\ OwnerInv /\ PermitInv
    BY DEF LocalInv, TypeOK
<1>2. UNCHANGED <<locked, holders, permits, issued, taken, signaled, ready>>
    BY DEF data
<1>3. Fewer
    BY SameQueues
<1>4. TaskPart'
  <2>1. /\ \A k \in Queues, x \in Tasks \ {t} : Active(k, x)' => Active(k, x)
        /\ \A k \in Queues : Active(k, t)' => Waits(k, t)'
      BY <1>3 DEF Fewer
  <2> QED  BY <1>2, <2>1, Stops
<1>5. WaitTypes'
    BY <1>1 DEF WaitTypes
<1>6. DataTypes' /\ OwnerInv'
    BY <1>1, <1>2, SameData DEF DataTypes
<1>7. PermitInv' /\ (HasSet(stack)' <=> HasSet(stack))
  <2>1. HasSet(stack)' <=> HasSet(stack')
      BY DEF HasSet
  <2>2. Owed(stack)' = Owed(stack')
      BY DEF Owed
  <2> QED  BY <1>1, <1>2, <2>1, <2>2, TopFacts DEF PermitInv
<1>8. OpenInv'
    BY <1>1, <1>2, <1>3, <1>7, OpenKeeps
<1> QED  BY <1>4, <1>5, <1>6, <1>7, <1>8, Parts

\* The wait on the condition variable suspends, unless it has been notified
\* (sync.hpp:961-966).
LEMMA CvAwaitStep ==
    ASSUME LocalInv, NEW t \in Tasks, CvAwait(t)
    PROVE  LocalInv'
<1>1. CASE outcome["cv"][t] # "none" /\ GoOn(t)
    BY <1>1, PlainSteps
<1>2. CASE /\ outcome["cv"][t] = "none" /\ status' = [status EXCEPT ![t] = "suspended"]
           /\ stack' = Tail(stack) /\ UNCHANGED <<script, pos>>
  <2>1. At(t, "cv_await") /\ UNCHANGED <<queue, outcome, data, stopped, posted>>
      BY DEF CvAwait
  <2>2. /\ stack # <<>> /\ Head(stack) = TaskFrame(t) /\ StepOf(t) = "cv_await"
        /\ pos[t] \in 1..Len(script[t]) /\ ScriptAt(t) /\ script[t] \in Seq(Steps)
        /\ \A k \in Queues : Active(k, t) => k = "cv"
      BY <2>1, AtFacts, TopFacts
  <2>3. TaskTypes
      BY DEF LocalInv, TypeOK
  <2>4. pos' \in [Tasks -> Nat] /\ (\A x \in Tasks \ {t} : pos'[x] = pos[x]) /\ holders' = holders
      BY <1>2, <2>1, <2>3 DEF TaskTypes, data
  <2>5. ScriptAt(t)'
      BY <1>2, <2>2, <2>4 DEF ScriptAt
  <2>6. "suspended" \in Statuses \ {"running"} /\ status'[t] = "suspended"
      BY <1>2, <2>3 DEF Statuses, TaskTypes
  <2>7. ASSUME NEW k \in Queues, Active(k, t) PROVE Waits(k, t)'
    <3>1. k = "cv" /\ pos[t] <= Len(script[t])
        BY <2>2, <2>7, LenProperties
    <3> QED  BY <1>2, <2>2, <2>6, <3>1 DEF Waits, StepOf
  <2> QED  BY <1>2, <2>1, <2>2, <2>4, <2>5, <2>6, <2>7, StopsStep
<1> QED  BY <1>1, <1>2 DEF CvAwait


\* notify_one wakes the first waiter (sync.hpp:988-1002).
LEMMA NotifyOneStep ==
    ASSUME LocalInv, NEW t \in Tasks, NotifyOne(t)
    PROVE  LocalInv'
<1> DEFINE on == [pos EXCEPT ![t] = @ + 1]
<1>1. /\ TaskTypes /\ WaitTypes /\ DataTypes /\ StackInv /\ ScriptInv /\ WaitInv /\ OpenInv
      /\ OwnerInv /\ PermitInv /\ "cv" \in Queues
    BY DEF LocalInv, TypeOK, Queues
<1>2. /\ stack # <<>> /\ Head(stack) = TaskFrame(t) /\ StepOf(t) = "notify_one"
      /\ pos[t] \in 1..Len(script[t]) /\ status[t] = "running"
      /\ \A k \in Queues : ~Active(k, t)
      /\ script[t] \in Seq(Steps) /\ ScriptAt(t)
  <2>1. At(t, "notify_one")
      BY DEF NotifyOne
  <2> HIDE DEF on
  <2>2. /\ stack # <<>> /\ Head(stack) = TaskFrame(t) /\ StepOf(t) = "notify_one"
        /\ pos[t] \in 1..Len(script[t])
        /\ \A k \in Queues : Active(k, t) => "notify_one" \in {"unlock", "cv_await"}
      BY <2>1, AtFacts
  <2>3. status[t] = "running" /\ script[t] \in Seq(Steps) /\ ScriptAt(t)
      BY <2>2, TopFacts
  <2>4. "notify_one" \notin {"unlock", "cv_await"}
      OBVIOUS
  <2> QED  BY <2>2, <2>3, <2>4
<1>3. /\ on \in [Tasks -> Nat] /\ on[t] = pos[t] + 1 /\ \A x \in Tasks \ {t} : on[x] = pos[x]
    BY <1>1 DEF TaskTypes
<1>4. UNCHANGED <<script, locked, holders, permits, issued, taken, signaled, ready, stopped, posted>>
    BY DEF NotifyOne, data
<1> HIDE DEF on
<1>5. CASE Pruned("cv") = <<>>
    BY <1>5, PlainSteps
<1>6. CASE Pruned("cv") # <<>>
  <2>1. PICK w \in Tasks : w = Head(Pruned("cv")) /\ Active("cv", w)
      BY <1>1, <1>6, PrunedFacts
  <2>2. Wake("cv", stack, on) /\ w # t
      BY <1>1, <1>2, <1>6, <2>1 DEF NotifyOne, on
  <2>3. queue' \in [Queues -> Seq(Tasks)] /\ Fewer
      BY <1>1, <1>6, <2>2, WakeFacts
  <2>4. pos'[t] = pos[t] + 1
      BY <1>1, <1>3, <2>1, <2>2 DEF Wake
  <2>5. ScriptAt(t)'
    <3>1. t \in holders' <=> StepOf(t) \in Takes \/ (t \in holders /\ StepOf(t) # "unlock")
        BY <1>2, <1>4 DEF Takes
    <3>2. pos[t] <= Len(script[t])
        BY <1>2, LenProperties
    <3> QED  BY <1>1, <1>2, <1>4, <2>4, <3>1, <3>2, ScriptGoesOn
  <2>6. \A k \in Queues : Active(k, t)' => Waits(k, t)'
      BY <1>2, <2>3 DEF Fewer
  <2>7. stack \in Seq(Frames) /\ Stacked(stack, Running)
      BY <1>1 DEF TaskTypes, StackInv
  <2>8. /\ on[w] = pos[w] /\ \A x \in Tasks \ {t, w} : on[x] = pos[x]
        /\ \A x \in Tasks \ {t, w} : x \in holders' <=> x \in holders
        /\ w \in holders' <=> ("cv" = "lock" \/ w \in holders)
        /\ script' = script
      BY <1>3, <1>4, <2>2
  <2>9. /\ TaskPart' /\ Fewer
        /\ outcome' \in [Queues -> [Tasks -> Outcomes]]
        /\ Cardinality(Owed(stack')) = Cardinality(Owed(stack))
        /\ HasSet(stack') <=> HasSet(stack)
      BY <1>1, <1>3, <1>6, <2>1, <2>2, <2>5, <2>6, <2>7, <2>8, WakesTask
  <2>10. WaitTypes'
      BY <1>1, <1>4, <2>3, <2>9 DEF WaitTypes
  <2>11. DataTypes' /\ OwnerInv'
      BY <1>1, <1>4, SameData DEF DataTypes
  <2>12. PermitInv'
    <3>1. Owed(stack)' = Owed(stack')
        BY DEF Owed
    <3> QED  BY <1>1, <1>4, <2>9, <3>1 DEF PermitInv
  <2>13. OpenInv'
    <3>1. HasSet(stack)' <=> HasSet(stack)
        BY <2>9 DEF HasSet
    <3> QED  BY <1>1, <1>4, <2>9, <3>1, OpenKeeps
  <2> QED  BY <2>9, <2>10, <2>11, <2>12, <2>13, Parts
<1> QED  BY <1>5, <1>6

\* One round of the loops of set and notify_all (sync.hpp:1004-1017, 1223-1238).
LEMMA LoopStep ==
    ASSUME LocalInv, SetLoop \/ NotifyLoop
    PROVE  LocalInv'
<1>1. PICK k \in {"event", "cv"} :
         /\ stack # <<>> /\ Head(stack).op = (IF k = "event" THEN "set" ELSE "notify_all")
         /\ \/ Pruned(k) # <<>> /\ Wake(k, stack, pos)
            \/ /\ Pruned(k) = <<>> /\ Tidy(k) /\ stack' = Tail(stack)
               /\ UNCHANGED <<pos, status, outcome>>
         /\ UNCHANGED <<script, data, stopped, posted>>
    BY DEF SetLoop, NotifyLoop
<1>2. UNCHANGED <<locked, holders, permits, issued, taken, signaled, ready>>
    BY <1>1 DEF data
<1>3. /\ Head(stack).op \in Loops /\ k \in Queues /\ Weight(Head(stack)) = 0
      /\ WaitTypes /\ DataTypes
    BY <1>1 DEF Loops, Queues, Weight, LocalInv, TypeOK
<1>4. CASE Pruned(k) # <<>> /\ Wake(k, stack, pos)
  <2>1. stack \in Seq(Frames) /\ Stacked(stack, Running)
      BY <1>1, <1>3, LoopFacts
  <2>2. k \in {"sem", "event", "cv"} /\ taken' \in Nat
        /\ taken' + Cardinality(Owed(stack)) = taken + Cardinality(Owed(stack))
      BY <1>2, <1>3 DEF DataTypes
  <2> QED  BY <1>1, <1>2, <1>4, <2>1, <2>2, LoopWakes
<1>5. CASE /\ Pruned(k) = <<>> /\ Tidy(k) /\ stack' = Tail(stack)
           /\ UNCHANGED <<pos, status, outcome>>
  <2>1. Head(stack).op = "set" => \A x \in Tasks : ~Active("event", x)
      BY <1>1, <1>3, <1>5, PrunedFacts
  <2>2. permits' = permits + Weight(Head(stack)) /\ ~(permits' > permits)
      BY <1>2, <1>3 DEF DataTypes
  <2> QED  BY <1>1, <1>2, <1>3, <1>5, <2>1, <2>2, LoopEnds
<1> QED  BY <1>1, <1>4, <1>5

-----------------------------------------------------------------------------
(* The loop thread and stops                                                 *)

\* The task awaits something else, or it ends.
LEMMA EndsStep ==
    ASSUME LocalInv, NEW t \in Tasks, Sleep(t) \/ Finish(t)
    PROVE  LocalInv'
<1>1. /\ stack # <<>> /\ Head(stack) = TaskFrame(t) /\ stack' = Tail(stack)
      /\ UNCHANGED <<script, queue, outcome, data, stopped, posted>>
    BY DEF Sleep, Finish, At
<1>2. /\ TaskTypes /\ ScriptAt(t) /\ script[t] \in Seq(Steps) /\ pos[t] \in Nat
      /\ \A k \in Queues : Active(k, t) => k = "cv" /\ StepOf(t) \in {"unlock", "cv_await"}
    BY <1>1, TopFacts DEF LocalInv, TypeOK
<1>3. holders' = holders
    BY <1>1 DEF data
<1>4. \A k \in Queues : ~Active(k, t)
  <2>1. CASE Sleep(t)
      BY <1>2, <2>1 DEF Sleep, At, StepOf
  <2>2. CASE Finish(t)
    <3>1. \A k \in Queues : Active(k, t) => Waits(k, t)
        BY DEF LocalInv, WaitInv
    <3>2. ~(pos[t] <= Len(script[t]))
        BY <1>2, <2>2, LenProperties DEF Finish
    <3> QED  BY <3>1, <3>2 DEF Waits
  <2> QED  BY <2>1, <2>2
<1>5. /\ pos' \in [Tasks -> Nat] /\ \A x \in Tasks \ {t} : pos'[x] = pos[x]
      /\ \E v \in Statuses \ {"running"} : status' = [status EXCEPT ![t] = v]
    BY <1>2 DEF Sleep, Finish, TaskTypes, Statuses
<1>6. ScriptAt(t)'
  <2>1. CASE Sleep(t)
    <3>1. pos[t] <= Len(script[t]) /\ StepOf(t) = "sleep" /\ pos'[t] = pos[t] + 1
        BY <1>2, <2>1 DEF Sleep, At, StepOf, TaskTypes
    <3>2. t \in holders' <=> StepOf(t) \in Takes \/ (t \in holders /\ StepOf(t) # "unlock")
        BY <1>3, <3>1 DEF Takes
    <3> QED  BY <1>1, <1>2, <3>1, <3>2, ScriptGoesOn
  <2>2. CASE Finish(t)
      BY <1>1, <1>2, <1>3, <2>2 DEF ScriptAt, Finish
  <2> QED  BY <2>1, <2>2
<1> QED  BY <1>1, <1>4, <1>5, <1>6, StopsStep

\* When the loop thread has returned to libuv, no task runs.
LEMMA NobodyRuns ==
    ASSUME LocalInv, stack = <<>>
    PROVE  /\ \A t \in Tasks : status[t] # "running"
           /\ stack \in Seq(Frames) /\ Stacked(stack, Running) /\ ~HasSet(stack)
<1>1. stack \in Seq(Frames) /\ Stacked(stack, Running)
    BY DEF LocalInv, TypeOK, TaskTypes, StackInv
<1>2. \A t \in Tasks : ~InQueue(TaskFrame(t), stack)
    BY DEF InQueue
<1> QED  BY <1>1, <1>2, SetFacts DEF Stacked, Running

\* The loop thread runs a task from the bottom of its stack.
LEMMA RunsTask ==
    ASSUME LocalInv, stack = <<>>, NEW t \in Tasks, stack' = <<TaskFrame(t)>>,
           status' = [status EXCEPT ![t] = "running"],
           script' \in [Tasks -> Seq(Steps)], pos' \in [Tasks -> Nat], ScriptAt(t)',
           \A x \in Tasks \ {t} : script'[x] = script[x] /\ pos'[x] = pos[x],
           \A k \in Queues : ~Active(k, t)', Fewer,
           outcome' \in [Queues -> [Tasks -> Outcomes]], posted' \in Seq(Queues \X Tasks),
           UNCHANGED <<queue, data, stopped>>
    PROVE  LocalInv'
<1>1. /\ TaskTypes /\ WaitTypes /\ DataTypes /\ StackInv /\ ScriptInv /\ WaitInv /\ OpenInv
      /\ OwnerInv /\ PermitInv
    BY DEF LocalInv, TypeOK
<1>2. UNCHANGED <<locked, holders, permits, issued, taken, signaled, ready>>
    BY DEF data
<1>3. /\ status[t] # "running" /\ stack \in Seq(Frames) /\ Stacked(stack, Running)
      /\ ~HasSet(stack) /\ stack' = <<TaskFrame(t)>> \o stack
    BY NobodyRuns
<1>4. /\ stack' \in Seq(Frames) /\ StackInv' /\ status' \in [Tasks -> Statuses]
      /\ \A x \in Tasks \ {t} : status'[x] = status[x]
      /\ Cardinality(Owed(stack')) = Cardinality(Owed(stack))
    BY <1>3, Resumes
<1>5. TaskPart'
  <2>1. TaskTypes'
      BY <1>4 DEF TaskTypes
  <2>2. ScriptInv'
      BY <1>1, <1>2, ScriptKeeps
  <2>3. \A k \in Queues, x \in Tasks : Active(k, x)' => Active(k, x)
      BY DEF Fewer
  <2>4. WaitInv'
      BY <1>1, <1>4, <2>3, WaitKeeps
  <2> QED  BY <1>4, <2>1, <2>2, <2>4 DEF TaskPart
<1>6. WaitTypes'
    BY <1>1 DEF WaitTypes
<1>7. DataTypes' /\ OwnerInv'
    BY <1>1, <1>2, SameData DEF DataTypes
<1>8. OpenInv'
    BY <1>1, <1>2, <1>3, OpenKeeps
<1>9. PermitInv'
  <2>1. Owed(stack)' = Owed(stack')
      BY DEF Owed
  <2> QED  BY <1>1, <1>2, <1>4, <2>1 DEF PermitInv
<1> QED  BY <1>5, <1>6, <1>7, <1>8, <1>9, Parts

\* A spawned task, or one that has slept, runs.
LEMMA SpawnStep ==
    ASSUME LocalInv, NEW t \in Tasks, Spawn(t)
    PROVE  LocalInv'
<1>1. /\ stack = <<>> /\ status[t] = "new" /\ status' = [status EXCEPT ![t] = "running"]
      /\ stack' = <<TaskFrame(t)>>
      /\ UNCHANGED <<script, pos, queue, outcome, data, stopped, posted>>
    BY DEF Spawn
<1>2. TaskTypes /\ WaitTypes /\ ScriptAt(t) /\ WaitInv
    BY DEF LocalInv, TypeOK, ScriptInv
<1>3. Fewer
    BY <1>1, SameQueues
<1>4. \A k \in Queues : ~Active(k, t)'
  <2> SUFFICES ASSUME NEW k \in Queues, Active(k, t) PROVE FALSE
      BY <1>3 DEF Fewer
  <2>1. Waits(k, t)
      BY <1>2 DEF WaitInv
  <2> QED  BY <1>1, <2>1 DEF Waits, Queues
<1>5. ScriptAt(t)'
    BY <1>1, <1>2 DEF ScriptAt, data
<1>6. /\ script' \in [Tasks -> Seq(Steps)] /\ pos' \in [Tasks -> Nat]
      /\ \A x \in Tasks \ {t} : script'[x] = script[x] /\ pos'[x] = pos[x]
      /\ outcome' \in [Queues -> [Tasks -> Outcomes]] /\ posted' \in Seq(Queues \X Tasks)
    BY <1>1, <1>2 DEF TaskTypes, WaitTypes
<1> QED  BY <1>1, <1>3, <1>4, <1>5, <1>6, RunsTask

\* Only the stops and the closures on their way change.
LEMMA StopsChange ==
    ASSUME LocalInv, UNCHANGED <<script, pos, status, stack, queue, outcome, data>>,
           stopped' \subseteq Tasks, posted' \in Seq(Queues \X Tasks)
    PROVE  LocalInv'
<1>1. UNCHANGED <<locked, holders, permits, issued, taken, signaled, ready>>
    BY DEF data
<1>2. TaskTypes' /\ WaitTypes' /\ DataTypes'
    BY <1>1 DEF LocalInv, TypeOK, TaskTypes, WaitTypes, DataTypes
<1>3. Running' = Running
    BY DEF Running
<1>4. StackInv' /\ ScriptInv'
    BY <1>1, <1>3 DEF LocalInv, StackInv, ScriptInv, ScriptAt
<1>5. \A k, x : (Active(k, x)' <=> Active(k, x)) /\ (Waits(k, x)' <=> Waits(k, x))
    BY DEF Active, Waits, StepOf
<1>6. WaitInv'
    BY <1>5 DEF LocalInv, WaitInv
<1>7. OpenInv'
  <2>1. HasSet(stack)' <=> HasSet(stack)
      BY DEF HasSet
  <2> QED  BY <1>1, <1>5, <2>1 DEF LocalInv, OpenInv
<1>8. OwnerInv' /\ PermitInv'
    BY <1>1 DEF LocalInv, OwnerInv, PermitInv
<1> QED  BY <1>2, <1>4, <1>6, <1>7, <1>8 DEF LocalInv, TypeOK


\* request_stop posts the closure of cancel_waiter from another thread
\* (sync.hpp:574-580).
LEMMA RequestStopStep ==
    ASSUME LocalInv, NEW t \in Tasks, RequestStop(t)
    PROVE  LocalInv'
<1>1. /\ stopped' = stopped \cup {t}
      /\ UNCHANGED <<script, pos, status, stack, queue, outcome, data>>
      /\ posted' = IF CallbackAt(t) = {} THEN posted
                   ELSE Append(posted, <<CHOOSE k \in CallbackAt(t) : TRUE, t>>)
    BY DEF RequestStop
<1>2. posted \in Seq(Queues \X Tasks) /\ stopped \subseteq Tasks
    BY DEF LocalInv, TypeOK, WaitTypes
<1>3. CallbackAt(t) \subseteq Queues
    BY DEF CallbackAt
<1>4. CallbackAt(t) # {} => <<CHOOSE k \in CallbackAt(t) : TRUE, t>> \in Queues \X Tasks
    BY <1>3
<1>5. posted' \in Seq(Queues \X Tasks)
  <2>1. CASE CallbackAt(t) = {}
      BY <1>1, <1>2, <2>1
  <2>2. CASE CallbackAt(t) # {}
      BY <1>1, <1>2, <1>4, <2>2, AppendProperties
  <2> QED  BY <2>1, <2>2
<1> QED  BY <1>1, <1>2, <1>5, StopsChange

\* A posted closure cancels the wait it is for, unless that is over
\* (sync.hpp:538-548).
LEMMA RunPostedStep ==
    ASSUME LocalInv, RunPosted
    PROVE  LocalInv'
<1>1. /\ TaskTypes /\ WaitTypes /\ ScriptInv /\ WaitInv
      /\ stack = <<>> /\ posted # <<>> /\ posted' = Tail(posted)
      /\ UNCHANGED <<queue, data, stopped>>
    BY DEF LocalInv, TypeOK, RunPosted
<1>2. Head(posted) \in Queues \X Tasks /\ posted' \in Seq(Queues \X Tasks)
    BY <1>1, PopForm DEF WaitTypes
<1>3. PICK k \in Queues, t \in Tasks : Head(posted)[1] = k /\ Head(posted)[2] = t
    BY <1>2
<1>4. CancelWaiter(k, t)
    BY <1>3 DEF RunPosted
<1>5. Active(k, t) <=> outcome[k][t] = "none" /\ \E i \in DOMAIN queue[k] : queue[k][i] = t
  <2>1. DOMAIN queue[k] = 1..Len(queue[k])
      BY <1>1, LenProperties DEF WaitTypes
  <2> QED  BY <2>1 DEF Active, InQueue
<1>6. CASE ~Active(k, t)
  <2>1. UNCHANGED <<script, pos, status, stack, outcome>>
      BY <1>4, <1>5, <1>6 DEF CancelWaiter
  <2>2. stopped' \subseteq Tasks
      BY <1>1 DEF WaitTypes
  <2> QED  BY <1>1, <1>2, <2>1, <2>2, StopsChange
<1>7. CASE Active(k, t)
  <2>1. /\ outcome' = [outcome EXCEPT ![k][t] = "cancelled"]
        /\ status' = [status EXCEPT ![t] = "running"] /\ stack' = <<TaskFrame(t)>>
        /\ IF k = "cv" THEN pos' = [pos EXCEPT ![t] = @ + 1] /\ UNCHANGED script ELSE Leave(t)
      BY <1>4, <1>5, <1>7 DEF CancelWaiter
  <2>2. status[t] # "running" /\ ScriptAt(t) /\ script[t] \in Seq(Steps)
      BY <1>1, NobodyRuns DEF ScriptInv, TaskTypes
  <2>3. Waits(k, t) /\ \A j \in Queues : Active(j, t) => Waits(j, t)
      BY <1>1, <1>7 DEF WaitInv
  <2>4. \A j \in Queues : Active(j, t) => j = k
      BY <2>2, <2>3 DEF Waits, Queues
  <2>5. /\ outcome' \in [Queues -> [Tasks -> Outcomes]] /\ outcome'[k][t] = "cancelled"
        /\ \A j \in Queues, x \in Tasks : <<j, x>> # <<k, t>> => outcome'[j][x] = outcome[j][x]
      BY <1>1, <2>1 DEF WaitTypes, Outcomes
  <2>6. /\ Fewer
        /\ \A j \in Queues : ~Active(j, t)'
    <3>1. ASSUME NEW j \in Queues, NEW x \in Tasks, Active(j, x)'
          PROVE  Active(j, x) /\ x # t
      <4>1. <<j, x>> # <<k, t>> /\ queue' = queue
          BY <1>1, <2>5, <3>1 DEF Active
      <4>2. Active(j, x)
          BY <2>5, <3>1, <4>1 DEF Active
      <4> QED  BY <2>4, <4>1, <4>2
    <3> QED  BY <3>1 DEF Fewer
  <2>7. holders' = holders
      BY <1>1 DEF data
  <2>8. CASE k = "cv"
    <3>1. /\ pos' = [pos EXCEPT ![t] = @ + 1] /\ script' = script
          /\ StepOf(t) = "cv_await" /\ pos[t] <= Len(script[t])
        BY <2>1, <2>2, <2>3, <2>8 DEF Waits
    <3>2. /\ pos' \in [Tasks -> Nat] /\ pos'[t] = pos[t] + 1
          /\ \A x \in Tasks \ {t} : pos'[x] = pos[x]
        BY <1>1, <3>1 DEF TaskTypes
    <3>3. t \in holders' <=> StepOf(t) \in Takes \/ (t \in holders /\ StepOf(t) # "unlock")
        BY <2>7, <3>1 DEF Takes
    <3>4. ScriptAt(t)'
        BY <1>1, <2>2, <3>1, <3>2, <3>3, ScriptGoesOn
    <3>5. script' \in [Tasks -> Seq(Steps)] /\ \A x \in Tasks \ {t} : script'[x] = script[x]
        BY <1>1, <3>1 DEF TaskTypes
    <3> QED  BY <1>1, <1>2, <2>1, <2>5, <2>6, <3>2, <3>4, <3>5, RunsTask
  <2>9. CASE k # "cv"
    <3>1. /\ ScriptAt(t)' /\ script' \in [Tasks -> Seq(Steps)] /\ pos' \in [Tasks -> Nat]
          /\ \A x \in Tasks \ {t} : script'[x] = script[x] /\ pos'[x] = pos[x]
        BY <1>1, <2>1, <2>7, <2>9, ScriptLeaves
    <3> QED  BY <1>1, <1>2, <2>1, <2>5, <2>6, <3>1, RunsTask
  <2> QED  BY <2>8, <2>9
<1> QED  BY <1>6, <1>7

-----------------------------------------------------------------------------
(* The theorems                                                              *)

\* At the start no task runs, waits or owns the mutex.
LEMMA LocalInit == Init => LocalInv
<1> SUFFICES ASSUME Init PROVE LocalInv
    OBVIOUS
<1> DEFINE none == <<>>
<1>0. none \in Seq(Frames) /\ none \in Seq(Tasks) /\ none \in Seq(Queues \X Tasks) /\ Len(none) = 0
    OBVIOUS
<1>1. /\ script \in Scenarios /\ pos = [t \in Tasks |-> 1] /\ status = [t \in Tasks |-> "new"]
      /\ stack = none /\ queue = [k \in Queues |-> none]
      /\ outcome = [k \in Queues |-> [t \in Tasks |-> "none"]] /\ stopped = {} /\ posted = none
    BY DEF Init
<1>2. /\ locked = FALSE /\ holders = {} /\ permits = Permits /\ issued = Permits /\ taken = 0
      /\ signaled = FALSE /\ ready = FALSE /\ Permits \in Nat
    BY LocalAssumption DEF Init
<1> HIDE DEF none
<1>3. script \in [Tasks -> Seq(Steps)]
    BY <1>1, LocalAssumption
<1>4. TypeOK
  <2>1. TaskTypes
      BY <1>0, <1>1, <1>3 DEF TaskTypes, Statuses
  <2>2. WaitTypes
      BY <1>0, <1>1 DEF WaitTypes, Outcomes
  <2>3. DataTypes
      BY <1>2 DEF DataTypes
  <2> QED  BY <2>1, <2>2, <2>3 DEF TypeOK
<1>5. \A k \in Queues, t \in Tasks : ~Active(k, t)
    BY <1>0, <1>1 DEF Active, InQueue
<1>6. StackInv
    BY <1>0, <1>1 DEF StackInv, Stacked, Running, InQueue
<1>7. ScriptInv
  <2> SUFFICES ASSUME NEW t \in Tasks PROVE ScriptAt(t)
      BY DEF ScriptInv
  <2>1. Scoped(script[t]) /\ Whole(script[t]) /\ ~Owes(script[t], 1)
      BY <1>1, LocalAssumption
  <2>2. Len(script[t]) \in Nat
      BY <1>3, LenProperties
  <2>3. pos[t] = 1 /\ 1 \in 1..(Len(script[t]) + 1) /\ t \notin holders
      BY <1>1, <1>2, <2>2
  <2> QED  BY <2>1, <2>3 DEF ScriptAt
<1>8. WaitInv /\ OpenInv
    BY <1>2, <1>5 DEF WaitInv, OpenInv, Queues
<1>9. OwnerInv
    BY <1>2 DEF OwnerInv
<1>10. PermitInv
  <2>1. Cardinality(Owed(stack)) = 0
    <3>1. stack \in Seq(Frames) /\ stack = <<>>
        BY <1>0, <1>1 DEF none
    <3> QED  BY <3>1, OwedFacts
  <2> QED  BY <1>2, <2>1 DEF PermitInv
<1> QED  BY <1>4, <1>6, <1>7, <1>8, <1>9, <1>10 DEF LocalInv

\* Every step keeps the invariant.
LEMMA LocalNext == LocalInv /\ [Next]_vars => LocalInv'
<1> SUFFICES ASSUME LocalInv, [Next]_vars PROVE LocalInv'
    OBVIOUS
<1>1. ASSUME NEW t \in Tasks, Step(t) PROVE LocalInv'
  <2>1. CASE Lock(t) \/ Relock(t)
      BY <2>1, LockStep
  <2>2. CASE TryLock(t)
      BY <2>2, TryLockStep
  <2>3. CASE Unlock(t)
      BY <2>3, UnlockStep
  <2>4. CASE Acquire(t) \/ TryAcquire(t)
      BY <2>4, AcquireStep
  <2>5. CASE Release(t)
      BY <2>5, ReleaseStep
  <2>6. CASE WaitEvent(t)
      BY <2>6, WaitEventStep
  <2>7. CASE SetEvent(t) \/ NotifyAll(t)
      BY <2>7, StartStep
  <2>8. CASE ResetEvent(t) \/ MakeReady(t) \/ CvPush(t)
      BY <2>8, PlainSteps
  <2>9. CASE While(t)
      BY <2>9, WhileStep
  <2>10. CASE CvAwait(t)
      BY <2>10, CvAwaitStep
  <2>11. CASE CvRethrow(t)
      BY <2>11, RethrowStep
  <2>12. CASE NotifyOne(t)
      BY <2>12, NotifyOneStep
  <2>13. CASE Sleep(t) \/ Finish(t)
      BY <2>13, EndsStep
  <2> QED  BY <1>1, <2>1, <2>2, <2>3, <2>4, <2>5, <2>6, <2>7, <2>8, <2>9, <2>10, <2>11,
              <2>12, <2>13 DEF Step
<1>2. CASE ReleaseLoop
    BY <1>2, ReleaseLoopStep
<1>3. CASE SetLoop \/ NotifyLoop
    BY <1>3, LoopStep
<1>4. CASE RunPosted
    BY <1>4, RunPostedStep
<1>5. ASSUME NEW t \in Tasks, Spawn(t) PROVE LocalInv'
    BY <1>5, SpawnStep
<1>6. ASSUME NEW t \in Tasks, RequestStop(t) PROVE LocalInv'
    BY <1>6, RequestStopStep
<1>7. CASE UNCHANGED vars
  <2>1. stopped \subseteq Tasks /\ posted \in Seq(Queues \X Tasks)
      BY DEF LocalInv, TypeOK, WaitTypes
  <2>2. UNCHANGED <<script, pos, status, stack, queue, outcome, data, stopped, posted>>
      BY <1>7 DEF vars
  <2> QED  BY <2>1, <2>2, StopsChange
<1> QED  BY <1>1, <1>2, <1>3, <1>4, <1>5, <1>6, <1>7 DEF Next, LoopThread

\* LocalInv holds in every state: the tasks on the call stack, the locks that
\* scripts have still to give back, and where each waiter is (sync.hpp:528-1248).
THEOREM LocalInvariant == Spec => []LocalInv
<1> QED  BY LocalInit, LocalNext, PTL DEF Spec

\* One task owns the local mutex when it is locked and none when it is open, whatever
\* unlock, wait and their resumes do inside each other (sync.hpp:626-645, 982).
THEOREM OneLocalOwner == Spec => []LocalExclusion
<1>1. LocalInv => LocalExclusion
  <2> SUFFICES ASSUME LocalInv PROVE LocalExclusion
      OBVIOUS
  <2>1. (locked <=> holders # {}) /\ \A x, y \in holders : x = y
      BY DEF LocalInv, OwnerInv
  <2>2. Cardinality(holders) <= 1
    <3>1. CASE holders = {}
        BY <3>1, FS_EmptySet
    <3>2. CASE holders # {}
      <4>1. PICK x \in holders : holders = {x}
          BY <2>1, <3>2
      <4>2. Cardinality({x}) = 1
          BY FS_Singleton
      <4> QED  BY <4>1, <4>2
    <3> QED  BY <3>1, <3>2
  <2> QED  BY <2>1, <2>2 DEF LocalExclusion
<1> QED  BY <1>1, LocalInvariant, PTL

\* Every permit of the local semaphore is free, taken, or in the count of a release
\* that has still to hand it out (sync.hpp:891-904).
THEOREM PermitsAreConserved == Spec => []PermitsConserved
<1>1. LocalInv => PermitsConserved
    BY DEF LocalInv, PermitInv, PermitsConserved
<1> QED  BY <1>1, LocalInvariant, PTL

\* When the loop thread is back in libuv nobody waits for an open mutex, a free permit
\* or a set event (sync.hpp:632-644, 891-904, 1225-1237).
THEOREM NobodyIsForgotten == Spec => []NobodyForgotten
<1>1. LocalInv => NobodyForgotten
  <2> SUFFICES ASSUME LocalInv, stack = <<>> PROVE
             /\ ~locked => Pruned("lock") = <<>>
             /\ permits > 0 => Pruned("sem") = <<>>
             /\ signaled => Pruned("event") = <<>>
      BY DEF NobodyForgotten
  <2>1. {"lock", "sem", "event"} \subseteq Queues /\ WaitTypes /\ OpenInv /\ ~HasSet(stack)
      BY NobodyRuns DEF LocalInv, TypeOK, Queues
  <2>2. \A k \in Queues : Pruned(k) = <<>> <=> \A t \in Tasks : ~Active(k, t)
      BY <2>1, PrunedFacts
  <2> QED  BY <2>1, <2>2 DEF OpenInv
<1> QED  BY <1>1, LocalInvariant, PTL
=============================================================================

--------------------------- MODULE ChannelProofs ---------------------------
(***************************************************************************)
(* Proofs about Channel, for every set of operations, every assignment of  *)
(* them to threads and every capacity.  In this order:                     *)
(*   - active waiters and the waiter queues; the types; WaitInv: receivers *)
(*     wait only on an empty channel and senders only on a full one        *)
(*     (WaitInvariant, TypeCorrect, NoIdleReceiver, NoIdleSender);         *)
(*   - the values: what a step can do to the line of values (Sent, Queued, *)
(*     Handed, Taken, Ended, Thrown, Shut, Quiet), that each of them keeps *)
(*     DataInv and is a step of FifoChannel, and which of them each action *)
(*     of Channel has (Step) (FifoInvariant, ImplementsFifo, FirstWins,    *)
(*     DeliveredOnce);                                                     *)
(*   - threads asleep in send() (SendersAreNotified);                      *)
(*   - completed coroutines are resumed (NoResumeIsLost);                  *)
(*   - a channel used on the loop thread only (OneThreadIsSafe).           *)
(***************************************************************************)
EXTENDS Channel, WaiterQueueProofs

-----------------------------------------------------------------------------
(* Active waiters *)

\* The active waiters of a queue are finitely many.
LEMMA ActiveIdxFinite ==
    ASSUME NEW q \in Seq(Ops)
    PROVE  /\ ActiveIdx(q) \subseteq 1..Len(q)
           /\ ActiveIdx(q) \subseteq Nat
           /\ IsFiniteSet(ActiveIdx(q))
           /\ Cardinality(ActiveIdx(q)) \in Nat
<1>1. Len(q) \in Nat
  BY LenProperties
<1>2. ActiveIdx(q) \subseteq 1..Len(q)
  BY DEF ActiveIdx
<1>3. IsFiniteSet(1..Len(q))
  BY <1>1, FS_Interval
<1> QED
  BY <1>1, <1>2, <1>3, FS_Subset, FS_CardinalityType

-----------------------------------------------------------------------------
(* The waiter queues *)

\* Pruning leaves a suffix of the queue that is empty, or starts with an active
\* waiter; it is empty exactly when no waiter is active.
LEMMA PruneFacts ==
    ASSUME NEW q \in Seq(Ops)
    PROVE  /\ Prune(q) \in Seq(Ops)
           /\ Prune(q) = <<>> <=> ActiveIdx(q) = {}
           /\ \A i \in 1..Len(Prune(q)) : \E j \in 1..Len(q) : Prune(q)[i] = q[j]
           /\ Prune(q) # <<>> => outcome[Head(Prune(q))] = "none"
<1>1. CASE ActiveIdx(q) = {}
  BY <1>1 DEF Prune
<1>2. CASE ActiveIdx(q) # {}
  <2> DEFINE n == Least(ActiveIdx(q))
  <2>1. n \in ActiveIdx(q)
    BY <1>2, ActiveIdxFinite, LeastIsLeast
  <2>2. n \in 1..Len(q) /\ outcome[q[n]] = "none" /\ Len(q) \in Nat
    BY <2>1, LenProperties DEF ActiveIdx
  <2>3. Prune(q) = SubSeq(q, n, Len(q))
    BY <1>2 DEF Prune
  <2> HIDE DEF n
  <2>4. \A i \in n..Len(q) : q[i] \in Ops
    BY <2>2, ElementOfSeq
  <2>5. /\ SubSeq(q, n, Len(q)) \in Seq(Ops)
        /\ Len(SubSeq(q, n, Len(q))) = Len(q) - n + 1
        /\ \A i \in 1..(Len(q) - n + 1) : SubSeq(q, n, Len(q))[i] = q[n + i - 1]
    BY <2>2, <2>4, SubSeqProperties
  <2>6. Head(SubSeq(q, n, Len(q))) = q[n]
    BY <2>2, HeadTailOfSubSeq
  <2>7. \A i \in 1..Len(Prune(q)) : \E j \in 1..Len(q) : Prune(q)[i] = q[j]
    BY <2>2, <2>3, <2>5
  <2>8. Prune(q) # <<>>
    <3>1. Len(Prune(q)) >= 1
      BY <2>2, <2>3, <2>5
    <3> QED
      BY <3>1, EmptySeq
  <2>9. outcome[Head(Prune(q))] = "none"
    BY <2>2, <2>3, <2>6
  <2> QED
    BY <1>2, <2>3, <2>5, <2>7, <2>8, <2>9
<1> QED
  BY <1>1, <1>2

\* The active waiters of a queue are waiters of the queue.
LEMMA ActiveWaitersFacts ==
    ASSUME NEW q \in Seq(Ops)
    PROVE  /\ ActiveWaiters(q) \in Seq(Ops)
           /\ Len(ActiveWaiters(q)) = Cardinality(ActiveIdx(q))
           /\ \A i \in 1..Len(ActiveWaiters(q)) :
                 \E j \in 1..Len(q) : ActiveWaiters(q)[i] = q[j] /\ outcome[q[j]] = "none"
<1> DEFINE A == ActiveIdx(q)
           n == Cardinality(A)
<1>1. n \in Nat /\ A \subseteq Nat /\ IsFiniteSet(A)
  BY ActiveIdxFinite
<1>2. \A i \in 1..n : Nth(A, i) \in A
  <2> HIDE DEF A
  <2> QED
    BY <1>1, NthInSet
<1>3. \A i \in 1..n : /\ Nth(A, i) \in 1..Len(q)
                      /\ outcome[q[Nth(A, i)]] = "none"
                      /\ q[Nth(A, i)] \in Ops
  BY <1>2, ElementOfSeq DEF ActiveIdx
<1>4. ActiveWaiters(q) = [i \in 1..n |-> q[Nth(A, i)]]
  BY DEF ActiveWaiters
<1> HIDE DEF n, A
<1>5. ActiveWaiters(q) \in [1..n -> Ops]
  BY <1>3, <1>4
<1>6. ActiveWaiters(q) \in Seq(Ops) /\ Len(ActiveWaiters(q)) = n
  BY <1>1, <1>5
<1> QED
  BY <1>3, <1>4, <1>6 DEF n, A

\* No waiter becomes active again.
OutcomeGrows == \A x \in Ops : outcome'[x] = "none" => outcome[x] = "none"

\* A queue without active waiters, or cut down to its pruned suffix, has none
\* after a step in which no waiter becomes active again.
LEMMA NoNewActive ==
    ASSUME TypeOK, TypeOK', OutcomeGrows, ActiveIdx(receiver_waiters) = {},
           \/ receiver_waiters' = receiver_waiters
           \/ receiver_waiters' = Prune(receiver_waiters)
           \/ receiver_waiters' = <<>>
    PROVE  ActiveIdx(receiver_waiters)' = {}
<1>1. receiver_waiters' = receiver_waiters \/ receiver_waiters' = <<>>
  BY PruneFacts DEF TypeOK
<1>2. CASE receiver_waiters' = receiver_waiters
  <2>1. ASSUME NEW i \in 1..Len(receiver_waiters) 
        PROVE  outcome'[receiver_waiters[i]] # "none"
    BY ElementOfSeq DEF TypeOK, OutcomeGrows, ActiveIdx
  <2> QED
    BY <2>1, <1>2 DEF ActiveIdx
<1>3. CASE receiver_waiters' = <<>>
  BY <1>3 DEF ActiveIdx
<1> QED
  BY <1>1, <1>2, <1>3

-----------------------------------------------------------------------------
(* The inductive invariant: receivers wait only on an empty channel and      *)
(* senders only on a full one.                                               *)

WaitInv == ReceiversWaitOnEmpty /\ SendersWaitOnFull

\* A step that neither moves values nor queues a waiter keeps WaitInv.
LEMMA QuietStep ==
    ASSUME TypeOK, TypeOK', WaitInv, OutcomeGrows,
           UNCHANGED <<messages, sender_waiters, closed>>,
           \/ receiver_waiters' = receiver_waiters
           \/ receiver_waiters' = Prune(receiver_waiters)
           \/ receiver_waiters' = <<>>
    PROVE  WaitInv'
<1>1. CASE ActiveIdx(receiver_waiters) = {}
  BY <1>1, NoNewActive DEF WaitInv, ReceiversWaitOnEmpty, SendersWaitOnFull
<1>2. CASE ActiveIdx(receiver_waiters) # {}
  BY <1>2 DEF WaitInv, ReceiversWaitOnEmpty, SendersWaitOnFull
<1> QED
  BY <1>1, <1>2
-----------------------------------------------------------------------------
(* Type correctness *)

USE DEF vars, chan, loopv

\* Leaving the critical section keeps the types of pc and fin.
LEMMA LeaveTypes ==
    ASSUME TypeOK, NEW o \in Ops, NEW f \in Fins, Leave(o, f)
    PROVE  pc' \in [Ops -> PCs] /\ fin' \in [Ops -> Fins]
<1>1. pc' \in [Ops -> PCs]
  BY DEF TypeOK, Leave, PCs
<1>2. fin' \in [Ops -> Fins]
  BY DEF TypeOK, Leave, Fins
<1> QED
  BY <1>1, <1>2

\* The two constant records of fin have their type.
LEMMA NoFinType == NoFin \in Fins /\ [NoFin EXCEPT !.wake = TRUE] \in Fins
BY DEF NoFin, Fins

\* Leaving with an outcome keeps the types.
LEMMA FailTypes ==
    ASSUME TypeOK, NEW o \in Ops, NEW why \in Outcomes,
           Fail(o, why), receiver_waiters' \in Seq(Ops)
    PROVE  TypeOK'
<1>1. pc' \in [Ops -> PCs] /\ fin' \in [Ops -> Fins]
  BY LeaveTypes, NoFinType DEF Fail
<1> QED
  BY <1>1 DEF TypeOK, Fail

\* Placing a value, with a receiver or in the buffer, keeps the types.
LEMMA PlaceSendTypes ==
    ASSUME TypeOK, NEW o \in Ops, PlaceSend(o)
    PROVE  TypeOK'
<1>1. Prune(receiver_waiters) \in Seq(Ops)
  BY PruneFacts DEF TypeOK
<1>2. CASE Prune(receiver_waiters) # <<>>
  <2> DEFINE r == Head(Prune(receiver_waiters))
             f == [wake |-> TRUE, notify |-> FALSE, timers |-> TimersOf(<<r>>)]
  <2>1. r \in Ops /\ Tail(Prune(receiver_waiters)) \in Seq(Ops)
    BY <1>1, <1>2, HeadTailProperties
  <2>2. f \in Fins /\ Leave(o, f)
    BY <1>2 DEF PlaceSend, TimersOf, Fins
  <2>3. /\ receiver_waiters' = Tail(Prune(receiver_waiters))
        /\ ready_receivers' = Append(ready_receivers, r)
        /\ outcome' = [outcome EXCEPT ![r] = "value", ![o] = "sent"]
        /\ value' = [value EXCEPT ![r] = o]
        /\ messages' = messages
        /\ UNCHANGED <<sender_waiters, ready_senders, closed, timer, loopv>>
    BY <1>2 DEF PlaceSend
  <2> HIDE DEF r, f
  <2>4. pc' \in [Ops -> PCs] /\ fin' \in [Ops -> Fins]
    BY <2>2, LeaveTypes
  <2>5. outcome' \in [Ops -> Outcomes]
    BY <2>1, <2>3 DEF TypeOK, Outcomes
  <2>6. value' \in [Ops -> Ops \cup {NoOp}]
    BY <2>1, <2>3 DEF TypeOK
  <2>7. ready_receivers' \in Seq(Ops) /\ receiver_waiters' \in Seq(Ops)
    BY <2>1, <2>3, AppendProperties DEF TypeOK
  <2> QED
    BY <2>3, <2>4, <2>5, <2>6, <2>7 DEF TypeOK
<1>3. CASE Prune(receiver_waiters) = <<>>
  <2>1. /\ messages' = Append(messages, o)
        /\ receiver_waiters' = <<>>
        /\ outcome' = [outcome EXCEPT ![o] = "sent"]
        /\ Leave(o, NoFin)
        /\ UNCHANGED <<ready_receivers, value, sender_waiters, ready_senders,
                       closed, timer, loopv>>
    BY <1>3 DEF PlaceSend
  <2>2. pc' \in [Ops -> PCs] /\ fin' \in [Ops -> Fins]
    BY <2>1, LeaveTypes, NoFinType
  <2>3. messages' \in Seq(Ops) /\ receiver_waiters' \in Seq(Ops)
    BY <2>1, AppendProperties, EmptySeq DEF TypeOK
  <2>4. outcome' \in [Ops -> Outcomes]
    BY <2>1 DEF TypeOK, Outcomes
  <2> QED
    BY <2>1, <2>2, <2>3, <2>4 DEF TypeOK
<1> QED
  BY <1>2, <1>3
-----------------------------------------------------------------------------
(* Taking a value *)

\* What is on offer once the front message is taken, and how much of it the buffer
\* has room for.
Rest == Tail(messages) \o ActiveWaiters(sender_waiters)
Refill == IF Capacity = 0 \/ Len(Rest) <= Capacity THEN Len(Rest) ELSE Capacity

\* With WaitInv, the first loop of pump_locked finds no receiver, the branch of
\* a suspended sender with an empty buffer is never taken, and what is left is the
\* refill of the buffer.
LEMMA TakeFrontForm ==
    ASSUME TypeOK, WaitInv, Available
    PROVE  /\ messages # <<>> /\ Len(messages) \in Nat \ {0}
           /\ Tail(messages) \in Seq(Ops) /\ Len(Tail(messages)) = Len(messages) - 1
           /\ ActiveWaiters(sender_waiters) \in Seq(Ops)
           /\ Len(ActiveWaiters(sender_waiters)) \in Nat
           /\ Len(ActiveWaiters(sender_waiters)) > 0 => sender_waiters # <<>>
           /\ Rest \in Seq(Ops)
           /\ Len(Rest) = Len(Tail(messages)) + Len(ActiveWaiters(sender_waiters))
           /\ Refill \in 0..Len(Rest) /\ Len(Rest) \in Nat /\ Len(Tail(messages)) <= Refill
           /\ Capacity > 0 => Refill <= Capacity
           /\ Refill < Len(Rest) => Capacity > 0 /\ Refill = Capacity
           /\ TakeFront.messages = SubSeq(Rest, 1, Refill)
           /\ TakeFront.senders = SubSeq(Rest, Refill + 1, Len(Rest))
           /\ TakeFront.freed = SubSeq(ActiveWaiters(sender_waiters), 1,
                                       Refill - Len(Tail(messages)))
           /\ TakeFront.receivers = <<>> /\ TakeFront.served = <<>>
           /\ TakeFront.wake \in BOOLEAN /\ TakeFront.notify \in BOOLEAN
           /\ TakeFront.wake <=> Refill > Len(Tail(messages))
<1> USE ChannelAssumption
<1> DEFINE m == Tail(messages)
           R == receiver_waiters
           S == ActiveWaiters(sender_waiters)
           supply == m \o S
           n == Len(supply)
           b == IF Capacity = 0 \/ n <= Capacity THEN n ELSE Capacity
<1>0. Rest = supply /\ Refill = b
  BY DEF Rest, Refill
<1>1. messages # <<>>
  <2>1. Prune(sender_waiters) # <<>> => sender_waiters # <<>>
    BY DEF Prune, ActiveIdx
  <2>2. sender_waiters # <<>> => Len(messages) > 0
    BY DEF WaitInv, SendersWaitOnFull
  <2>3. Len(messages) > 0 => messages # <<>>
    BY EmptySeq
  <2> QED
    BY <2>1, <2>2, <2>3 DEF Available
<1>2. ActiveIdx(R) = {} /\ Cardinality(ActiveIdx(R)) = 0
  BY <1>1, FS_EmptySet DEF WaitInv, ReceiversWaitOnEmpty
<1>3. m \in Seq(Ops) /\ Len(m) = Len(messages) - 1 /\ Len(messages) \in Nat \ {0}
  BY <1>1, HeadTailProperties, EmptySeq DEF TypeOK
<1>4. S \in Seq(Ops) /\ Len(S) \in Nat
  BY ActiveWaitersFacts, LenProperties DEF TypeOK
<1>5. supply \in Seq(Ops) /\ n = Len(m) + Len(S)
  BY <1>3, <1>4, ConcatProperties
<1>6. Len(S) > 0 => sender_waiters # <<>>
  <2>1. SUFFICES ASSUME sender_waiters = <<>> PROVE Len(S) = 0
    BY <1>4
  <2>2. ActiveIdx(sender_waiters) = {}
    BY <2>1 DEF ActiveIdx
  <2> QED
    BY <2>2, ActiveWaitersFacts, FS_EmptySet DEF TypeOK
<1>7. TakeFront = Pump(m)
  BY <1>1 DEF TakeFront
<1>8. /\ Pump(m).messages = SubSeq(supply, 1, b)
      /\ Pump(m).senders = SubSeq(supply, b + 1, n)
      /\ Pump(m).receivers = <<>>
      /\ Pump(m).served = SubSeq(ActiveWaiters(R), 1, 0)
      /\ Pump(m).freed = SubSeq(S, 1, b - Len(m))
      /\ Pump(m).wake \in BOOLEAN
      /\ Pump(m).notify \in BOOLEAN
      /\ Pump(m).wake <=> b > Len(m)
  <2> DEFINE c == Cardinality(ActiveIdx(R))
             k == IF c <= n THEN c ELSE n
             B == IF Capacity = 0 \/ n <= k + Capacity THEN n ELSE k + Capacity
             p1 == SubSeq(supply, k + 1, B)
             p2 == SubSeq(supply, B + 1, n)
             p3 == IF c <= n THEN <<>> ELSE SubSeq(R, Nth(ActiveIdx(R), k + 1), Len(R))
             p4 == SubSeq(ActiveWaiters(R), 1, k)
             p5 == SubSeq(supply, 1, k)
             p6 == SubSeq(S, 1, B - Len(m))
             p7 == k > 0 \/ B > Len(m)
             p8 == k > 0 /\ m # <<>>
  <2>1. Pump(m) = [messages |-> p1, senders |-> p2, receivers |-> p3, served |-> p4,
                   given |-> p5, freed |-> p6, wake |-> p7, notify |-> p8]
    BY Zenon DEF Pump
  <2>2. n \in Nat /\ c = 0 /\ c <= n
    BY <1>2, <1>3, <1>4, <1>5
  <2>3. k = 0 /\ B = b
    BY <2>2
  <2>4. p1 = SubSeq(supply, 1, b) /\ p2 = SubSeq(supply, b + 1, n)
    <3>1. k + 1 = 1
      BY <2>3
    <3> HIDE DEF k, B, b, n, supply
    <3> QED
      BY <3>1, <2>3
  <2>5. p3 = <<>> /\ p4 = SubSeq(ActiveWaiters(R), 1, 0) /\ p6 = SubSeq(S, 1, b - Len(m))
    <3> HIDE DEF k, B, b, n, supply, c
    <3> QED
      BY <2>2, <2>3
  <2>6. p7 \in BOOLEAN /\ p8 \in BOOLEAN
    BY Zenon
  <2>9. p7 <=> b > Len(m)
    <3> HIDE DEF B, b, n, supply, c, k
    <3> QED
      BY <2>3
  <2> HIDE DEF p1, p2, p3, p4, p5, p6, p7, p8
  <2>7. /\ Pump(m).messages = p1 /\ Pump(m).senders = p2 /\ Pump(m).receivers = p3
        /\ Pump(m).served = p4 /\ Pump(m).freed = p6
        /\ Pump(m).wake = p7 /\ Pump(m).notify = p8
    BY <2>1
  <2> HIDE DEF m, S, supply, R, n, b, k, B, c
  <2> QED
    BY <2>4, <2>5, <2>6, <2>7, <2>9
<1> HIDE DEF m, S, supply, R
<1>9. /\ Capacity \in Nat /\ n \in Nat /\ b \in 0..n /\ Len(m) <= b
      /\ Capacity > 0 => b <= Capacity
      /\ b < n => Capacity > 0 /\ b = Capacity
  BY <1>3, <1>4, <1>5 DEF WaitInv, SendersWaitOnFull
<1> HIDE DEF n, b
<1>10. SubSeq(ActiveWaiters(R), 1, 0) = <<>>
  BY SubSeqEmpty
<1>11. /\ m = Tail(messages) /\ S = ActiveWaiters(sender_waiters) /\ n = Len(Rest)
  BY <1>0 DEF m, S, n
<1> QED
  BY <1>0, <1>1, <1>3, <1>4, <1>5, <1>6, <1>7, <1>8, <1>9, <1>10, <1>11

\* Taking the front keeps the types, and keeps the buffer full while senders remain.
LEMMA TakeFrontFacts ==
    ASSUME TypeOK, WaitInv, Available
    PROVE  /\ messages # <<>>
           /\ TakeFront.messages \in Seq(Ops)
           /\ TakeFront.senders \in Seq(Ops)
           /\ TakeFront.freed \in Seq(Ops)
           /\ TakeFront.receivers = <<>>
           /\ TakeFront.served = <<>>
           /\ TakeFront.wake \in BOOLEAN
           /\ TakeFront.notify \in BOOLEAN
           /\ Capacity > 0 => Len(TakeFront.messages) <= Capacity
           /\ TakeFront.senders # <<>> =>
                 /\ sender_waiters # <<>>
                 /\ Capacity > 0
                 /\ Len(TakeFront.messages) = Capacity
<1> DEFINE m == Tail(messages)
           S == ActiveWaiters(sender_waiters)
           supply == Rest
           n == Len(supply)
           b == Refill
<1>1. /\ messages # <<>> /\ Len(m) \in Nat
      /\ S \in Seq(Ops) /\ Len(S) \in Nat /\ (Len(S) > 0 => sender_waiters # <<>>)
      /\ supply \in Seq(Ops) /\ n = Len(m) + Len(S)
      /\ b \in 0..n /\ n \in Nat /\ Len(m) <= b
      /\ (Capacity > 0 => b <= Capacity)
      /\ (b < n => Capacity > 0 /\ b = Capacity)
  BY TakeFrontForm
<1>2. /\ TakeFront.messages = SubSeq(supply, 1, b)
      /\ TakeFront.senders = SubSeq(supply, b + 1, n)
      /\ TakeFront.freed = SubSeq(S, 1, b - Len(m))
      /\ TakeFront.receivers = <<>> /\ TakeFront.served = <<>>
      /\ TakeFront.wake \in BOOLEAN /\ TakeFront.notify \in BOOLEAN
  BY TakeFrontForm
<1> HIDE DEF m, S, supply, b
<1>3. /\ SubSeq(supply, 1, b) \in Seq(Ops)
      /\ Len(SubSeq(supply, 1, b)) = b
  <2>1. \A i \in 1..b : supply[i] \in Ops
    BY <1>1, ElementOfSeq
  <2> QED
    BY <2>1, <1>1, SubSeqProperties
<1>4. /\ SubSeq(supply, b + 1, n) \in Seq(Ops)
      /\ SubSeq(supply, b + 1, n) # <<>> => b < n
  <2>1. \A i \in (b + 1)..n : supply[i] \in Ops
    BY <1>1, ElementOfSeq
  <2> QED
    BY <2>1, <1>1, SubSeqProperties, SubSeqEmpty
<1>5. SubSeq(S, 1, b - Len(m)) \in Seq(Ops)
  <2>1. \A i \in 1..(b - Len(m)) : S[i] \in Ops
    BY <1>1, ElementOfSeq
  <2> QED
    BY <2>1, <1>1, SubSeqProperties
<1>6. b < n => sender_waiters # <<>>
  BY <1>1
<1> QED
  BY <1>1, <1>2, <1>3, <1>4, <1>5, <1>6

\* Receiving keeps the types and WaitInv.
LEMMA ReceiveStep ==
    ASSUME TypeOK, WaitInv, Available, NEW o \in Ops,
           NEW cont \in BOOLEAN, NEW notify \in BOOLEAN,
           Receive(o, cont, notify)
    PROVE  TypeOK' /\ WaitInv'
<1> DEFINE p == TakeFront
           self == IF cont THEN <<o>> ELSE <<>>
           f == [wake |-> p.wake, notify |-> p.notify \/ notify,
                 timers |-> TimersOf(p.served)]
<1>1. /\ messages # <<>>
      /\ p.messages \in Seq(Ops) /\ p.senders \in Seq(Ops) /\ p.freed \in Seq(Ops)
      /\ p.receivers = <<>> /\ p.served = <<>>
      /\ p.wake \in BOOLEAN /\ p.notify \in BOOLEAN
      /\ Capacity > 0 => Len(p.messages) <= Capacity
      /\ p.senders # <<>> => /\ sender_waiters # <<>> /\ Capacity > 0
                             /\ Len(p.messages) = Capacity
  BY TakeFrontFacts
<1>2. /\ messages' = p.messages
      /\ sender_waiters' = p.senders
      /\ receiver_waiters' = p.receivers
      /\ ready_receivers' = ready_receivers \o self \o p.served
      /\ ready_senders' = ready_senders \o p.freed
      /\ outcome' = [x \in Ops |->
                        IF x = o \/ InSeq(x, p.served) THEN "value"
                        ELSE IF InSeq(x, p.freed) THEN "sent" ELSE outcome[x]]
      /\ Leave(o, f)
      /\ UNCHANGED <<closed, timer, loopv>>
  BY Zenon DEF Receive
<1>3. \A x : ~InSeq(x, p.served)
  BY <1>1, EmptySeq DEF InSeq
<1>4. value' = [x \in Ops |-> IF x = o THEN Front ELSE value[x]]
  <2> HIDE DEF p
  <2>1. value' = [x \in Ops |->
                    IF x = o THEN Front
                    ELSE IF InSeq(x, p.served)
                    THEN p.given[CHOOSE i \in 1..Len(p.served) : p.served[i] = x]
                    ELSE value[x]]
    BY Zenon DEF Receive, p
  <2> QED
    BY <2>1, <1>3
<1>5. Front \in Ops
  <2>1. Prune(sender_waiters) \in Seq(Ops) /\ messages \in Seq(Ops)
    BY PruneFacts DEF TypeOK
  <2>2. /\ messages \o Prune(sender_waiters) \in Seq(Ops)
        /\ messages \o Prune(sender_waiters) # <<>>
    BY <1>1, <2>1, ConcatProperties, ConcatEqualIffEmpty
  <2> QED
    BY <2>2, HeadTailProperties DEF Front
<1>6. f \in Fins
  <2>1. (p.notify \/ notify) \in BOOLEAN
    BY <1>1
  <2> QED
    BY <1>1, <2>1 DEF TimersOf, Fins
<1> HIDE DEF p, f
<1>7. pc' \in [Ops -> PCs] /\ fin' \in [Ops -> Fins]
  BY <1>2, <1>6, LeaveTypes
<1>8. value' \in [Ops -> Ops \cup {NoOp}]
  BY <1>4, <1>5 DEF TypeOK
<1>9. outcome' \in [Ops -> Outcomes]
  BY <1>2 DEF TypeOK, Outcomes
<1>10. ready_receivers' \in Seq(Ops) /\ ready_senders' \in Seq(Ops)
  <2>1. self \in Seq(Ops)
    BY EmptySeq
  <2> HIDE DEF self
  <2> QED
    <3>1. ready_receivers \o self \in Seq(Ops)
      BY <2>1, ConcatProperties DEF TypeOK
    <3>2. (ready_receivers \o self) \o p.served \in Seq(Ops)
      BY <3>1, <1>1, ConcatProperties, EmptySeq
    <3>3. ready_senders \o p.freed \in Seq(Ops)
      BY <1>1, ConcatProperties DEF TypeOK
    <3> QED
      BY <1>2, <3>2, <3>3
<1>11. TypeOK'
  BY <1>1, <1>2, <1>7, <1>8, <1>9, <1>10, EmptySeq DEF TypeOK
<1>12. ActiveIdx(receiver_waiters)' = {}
  BY <1>1, <1>2, EmptySeq DEF ActiveIdx
<1>13. WaitInv'
  BY <1>1, <1>2, <1>12 DEF WaitInv, ReceiversWaitOnEmpty, SendersWaitOnFull
<1> QED
  BY <1>11, <1>13

\* So does try_recv_locked, when it has something to report.
LEMMA TryRecvLockedStep ==
    ASSUME TypeOK, WaitInv, NEW o \in Ops, NEW cont \in BOOLEAN,
           TryRecvLocked(o, cont)
    PROVE  TypeOK' /\ WaitInv'
<1>1. CASE Available /\ Receive(o, cont, messages # <<>>)
  BY <1>1, ReceiveStep
<1>2. CASE ~Available /\ closed
           /\ outcome' = [outcome EXCEPT ![o] = "closed"]
           /\ ready_receivers' = (IF cont THEN Append(ready_receivers, o)
                                  ELSE ready_receivers)
           /\ Leave(o, NoFin)
           /\ UNCHANGED <<messages, receiver_waiters, sender_waiters,
                          ready_senders, closed, value, timer, loopv>>
  <2>1. pc' \in [Ops -> PCs] /\ fin' \in [Ops -> Fins]
    BY <1>2, LeaveTypes, NoFinType
  <2>2. ready_receivers' \in Seq(Ops)
    BY <1>2, AppendProperties DEF TypeOK
  <2>3. outcome' \in [Ops -> Outcomes] /\ OutcomeGrows
    BY <1>2 DEF TypeOK, Outcomes, OutcomeGrows
  <2>4. TypeOK'
    BY <1>2, <2>1, <2>2, <2>3 DEF TypeOK
  <2> QED
    BY <1>2, <2>3, <2>4, QuietStep
<1> QED
  BY <1>1, <1>2 DEF TryRecvLocked

\* Failing keeps them, whatever of the inactive receivers has been pruned.
LEMMA FailStep ==
    ASSUME TypeOK, WaitInv, NEW o \in Ops, NEW why \in Outcomes \ {"none"},
           Fail(o, why), PruneOnRefusal \/ UNCHANGED receiver_waiters
    PROVE  TypeOK' /\ WaitInv'
<1>1. \/ receiver_waiters' = receiver_waiters
      \/ receiver_waiters' = Prune(receiver_waiters)
  BY DEF PruneOnRefusal
<1>2. TypeOK'
  BY <1>1, PruneFacts, FailTypes DEF TypeOK
<1>3. OutcomeGrows
  BY DEF Fail, OutcomeGrows, TypeOK
<1> QED
  BY <1>1, <1>2, <1>3, QuietStep DEF Fail

\* A send that is placed finds a receiver, and then nothing is buffered, or has
\* room, and then no sender is suspended and no receiver waits.
LEMMA SendNowStep ==
    ASSUME TypeOK, WaitInv, NEW o \in Ops, SendNow(o)
    PROVE  TypeOK' /\ WaitInv'
<1>1. TypeOK'
  BY PlaceSendTypes DEF SendNow
<1>2. sender_waiters = <<>> /\ ~closed /\ sender_waiters' = sender_waiters /\ closed' = closed
  <2>1. ASSUME sender_waiters # <<>> PROVE FALSE
    <3>1. ~HasBufferCapacity /\ messages # <<>>
      <4>1. Capacity > 0 /\ Len(messages) = Capacity
        BY <2>1 DEF WaitInv, SendersWaitOnFull
      <4> QED
        BY <4>1, ChannelAssumption, EmptySeq DEF HasBufferCapacity
    <3>2. ActiveIdx(receiver_waiters) # {}
      BY <3>1, PruneFacts DEF SendNow, CanSendNow, TypeOK
    <3> QED
      BY <2>1, <3>2 DEF WaitInv, ReceiversWaitOnEmpty
  <2> QED
    BY <2>1 DEF SendNow, CanSendNow, PlaceSend
<1>3. CASE Prune(receiver_waiters) # <<>>
  <2>1. ActiveIdx(receiver_waiters) # {}
    BY <1>3, PruneFacts DEF TypeOK
  <2>2. messages = <<>> /\ messages' = messages
    BY <1>3, <2>1 DEF WaitInv, ReceiversWaitOnEmpty, SendNow, PlaceSend
  <2> QED
    BY <1>1, <1>2, <2>2 DEF WaitInv, ReceiversWaitOnEmpty, SendersWaitOnFull
<1>4. CASE Prune(receiver_waiters) = <<>>
  <2>1. receiver_waiters' = <<>> /\ messages' = Append(messages, o)
    BY <1>4 DEF SendNow, PlaceSend
  <2>2. ActiveIdx(receiver_waiters)' = {}
    BY <2>1, EmptySeq DEF ActiveIdx
  <2>3. Capacity > 0 => Len(messages') <= Capacity
    <3>1. HasBufferCapacity
      BY <1>4 DEF SendNow, CanSendNow
    <3>2. Len(messages') = Len(messages) + 1 /\ Len(messages) \in Nat
      BY <2>1, AppendProperties, LenProperties DEF TypeOK
    <3> QED
      BY <3>1, <3>2, ChannelAssumption DEF HasBufferCapacity
  <2> QED
    BY <1>1, <1>2, <2>2, <2>3 DEF WaitInv, ReceiversWaitOnEmpty, SendersWaitOnFull
<1> QED
  BY <1>3, <1>4

\* A send that is refused leaves no active receiver behind, and the buffer full.
LEMMA RefusedSend ==
    ASSUME TypeOK, WaitInv, ~closed, ~CanSendNow
    PROVE  /\ ActiveIdx(receiver_waiters) = {}
           /\ Capacity > 0 /\ Len(messages) = Capacity
<1> USE ChannelAssumption
<1>1. CASE Prune(sender_waiters) # <<>>
  <2>1. sender_waiters # <<>>
    BY <1>1 DEF Prune, ActiveIdx
  <2> QED
    BY <2>1 DEF WaitInv, ReceiversWaitOnEmpty, SendersWaitOnFull
<1>2. CASE Prune(sender_waiters) = <<>>
  <2>1. Prune(receiver_waiters) = <<>> /\ ~HasBufferCapacity
    BY <1>2 DEF CanSendNow
  <2>2. Len(messages) \in Nat
    BY LenProperties DEF TypeOK
  <2>3. ActiveIdx(receiver_waiters) = {}
    BY <2>1, PruneFacts DEF TypeOK
  <2>4. Capacity > 0 /\ Len(messages) = Capacity
    BY <2>1, <2>2 DEF HasBufferCapacity, WaitInv, SendersWaitOnFull
  <2> QED
    BY <2>3, <2>4
<1> QED
  BY <1>1, <1>2
-----------------------------------------------------------------------------
(* One lemma per kind of step *)

\* The send operations keep TypeOK and WaitInv.
LEMMA SendActions ==
    ASSUME TypeOK, WaitInv, NEW o \in Ops,
           TrySend(o) \/ BlockingSend(o) \/ AsyncSendReady(o) \/ AsyncSendSuspend(o)
    PROVE  TypeOK' /\ WaitInv'
<1>1. CASE SendClosed(o)
  BY <1>1, FailStep DEF SendClosed, Outcomes
<1>2. CASE SendNow(o)
  BY <1>2, SendNowStep
<1>3. CASE Fail(o, "full") /\ PruneOnRefusal
  BY <1>3, FailStep DEF Outcomes
<1>4. CASE Fail(o, "refused") /\ PruneOnRefusal
  BY <1>4, FailStep DEF Outcomes
<1>5. ASSUME NEW where \in PCs, ~closed, ~CanSendNow,
             pc' = [pc EXCEPT ![o] = where], PruneOnRefusal,
             sender_waiters' = sender_waiters \/ sender_waiters' = Append(Prune(sender_waiters), o),
             UNCHANGED <<messages, ready_receivers, ready_senders, closed,
                         outcome, value, fin, timer, loopv>>
      PROVE  TypeOK' /\ WaitInv'
  <2>1. /\ receiver_waiters' \in {receiver_waiters, Prune(receiver_waiters)}
        /\ receiver_waiters' \in Seq(Ops)
    BY <1>5, PruneFacts DEF PruneOnRefusal, TypeOK
  <2>2. sender_waiters' \in Seq(Ops)
    <3>1. sender_waiters \in Seq(Ops) /\ Prune(sender_waiters) \in Seq(Ops)
      BY PruneFacts DEF TypeOK
    <3> QED
      BY <1>5, <3>1, AppendProperties
  <2>3. pc' \in [Ops -> PCs]
    BY <1>5 DEF TypeOK
  <2>4. TypeOK'
    BY <1>5, <2>1, <2>2, <2>3 DEF TypeOK
  <2>5. /\ ActiveIdx(receiver_waiters) = {}
        /\ Capacity > 0 /\ Len(messages) = Capacity
    BY <1>5, RefusedSend
  <2>6. OutcomeGrows
    BY <1>5 DEF OutcomeGrows
  <2>7. ActiveIdx(receiver_waiters)' = {}
    BY <2>1, <2>4, <2>5, <2>6, NoNewActive
  <2> QED
    BY <1>5, <2>4, <2>5, <2>7 DEF WaitInv, ReceiversWaitOnEmpty, SendersWaitOnFull
<1> QED
  BY <1>1, <1>2, <1>3, <1>4, <1>5
  DEF TrySend, BlockingSend, AsyncSendReady, AsyncSendSuspend, PCs

\* So do the receive operations.
LEMMA ReceiveActions ==
    ASSUME TypeOK, WaitInv, NEW o \in Ops,
           TryRecv(o) \/ BlockingNext(o) \/ RecvReady(o) \/ RecvSuspend(o)
    PROVE  TypeOK' /\ WaitInv'
<1>1. CASE Available /\ Receive(o, FALSE, messages = <<>>)
  BY <1>1, ReceiveStep
<1>2. CASE TryRecvLocked(o, FALSE) \/ TryRecvLocked(o, TRUE)
  BY <1>2, TryRecvLockedStep
<1>3. ASSUME NEW why \in {"empty", "refused", "closed", "timeout"},
             Fail(o, why), UNCHANGED receiver_waiters
      PROVE  TypeOK' /\ WaitInv'
  BY <1>3, FailStep DEF Outcomes
<1>4. ASSUME NEW where \in PCs, pc' = [pc EXCEPT ![o] = where],
             UNCHANGED <<chan, outcome, value, fin, timer, loopv>>
      PROVE  TypeOK' /\ WaitInv'
  <2>1. TypeOK'
    BY <1>4 DEF TypeOK
  <2>2. OutcomeGrows
    BY <1>4 DEF OutcomeGrows
  <2> QED
    BY <1>4, <2>1, <2>2, QuietStep
<1>5. ASSUME ~Available, ~closed,
             receiver_waiters' = Append(receiver_waiters, o),
             timer' \in [Ops -> Timers], pc' \in [Ops -> PCs],
             UNCHANGED <<messages, sender_waiters, ready_receivers,
                         ready_senders, closed, outcome, value, fin, loopv>>
      PROVE  TypeOK' /\ WaitInv'
  <2>1. TypeOK'
    BY <1>5, AppendProperties DEF TypeOK
  <2>2. messages = <<>> /\ sender_waiters = <<>>
    <3>1. Prune(sender_waiters) = <<>> /\ messages = <<>>
      BY <1>5 DEF Available
    <3>2. ASSUME sender_waiters # <<>> PROVE FALSE
      BY <3>1, <3>2, EmptySeq, ChannelAssumption DEF WaitInv, SendersWaitOnFull
    <3> QED
      BY <3>1, <3>2
  <2> QED
    BY <1>5, <2>1, <2>2 DEF WaitInv, ReceiversWaitOnEmpty, SendersWaitOnFull
<1>6. CASE TryRecv(o)
  BY <1>6, <1>1, <1>3 DEF TryRecv
<1>7. CASE BlockingNext(o)
  BY <1>7, <1>1, <1>3, <1>4 DEF BlockingNext, PCs
<1>8. CASE RecvReady(o)
  BY <1>8, <1>2, <1>3, <1>4 DEF RecvReady, PCs
<1>9. CASE RecvSuspend(o)
  <2>1. CASE TryRecvLocked(o, TRUE)
    BY <2>1, <1>2
  <2>2. CASE ~TryRecvLocked(o, TRUE)
    <3>1. timer' \in [Ops -> Timers] /\ pc' \in [Ops -> PCs]
      BY <1>9, <2>2 DEF RecvSuspend, TypeOK, Timers, PCs
    <3> QED
      BY <1>9, <2>2, <3>1, <1>5 DEF RecvSuspend
  <2> QED
    BY <2>1, <2>2
<1> QED
  BY <1>6, <1>7, <1>8, <1>9
\* close() empties both waiter queues.
LEMMA CloseAction ==
    ASSUME TypeOK, WaitInv, NEW o \in Ops, Close(o)
    PROVE  TypeOK' /\ WaitInv'
<1> DEFINE W == ActiveWaiters(receiver_waiters)
           S == ActiveWaiters(sender_waiters)
<1>1. W \in Seq(Ops) /\ S \in Seq(Ops)
  BY ActiveWaitersFacts DEF TypeOK
<1>2. /\ closed' = TRUE
      /\ receiver_waiters' = <<>> /\ sender_waiters' = <<>>
      /\ ready_receivers' = ready_receivers \o W
      /\ ready_senders' = ready_senders \o S
      /\ outcome' = [x \in Ops |-> IF x = o \/ InSeq(x, W) \/ InSeq(x, S)
                                   THEN "closed" ELSE outcome[x]]
      /\ pc' = [pc EXCEPT ![o] = "final"]
      /\ fin' = [fin EXCEPT ![o] = [wake |-> ~closed, notify |-> TRUE,
                                    timers |-> TimersOf(W)]]
      /\ UNCHANGED <<messages, value, timer, loopv>>
  BY Zenon DEF Close
<1>3. [wake |-> ~closed, notify |-> TRUE, timers |-> TimersOf(W)] \in Fins
  BY DEF Fins, TimersOf
<1> HIDE DEF W, S
<1>4. fin' \in [Ops -> Fins]
  BY <1>2, <1>3 DEF TypeOK
<1>5. pc' \in [Ops -> PCs]
  BY <1>2 DEF TypeOK, PCs
<1>6. outcome' \in [Ops -> Outcomes]
  BY <1>2 DEF TypeOK, Outcomes
<1>7. ready_receivers' \in Seq(Ops) /\ ready_senders' \in Seq(Ops)
  BY <1>1, <1>2, ConcatProperties DEF TypeOK
<1>8. TypeOK'
  BY <1>2, <1>4, <1>5, <1>6, <1>7, EmptySeq DEF TypeOK
<1>9. ActiveIdx(receiver_waiters)' = {}
  BY <1>2, EmptySeq DEF ActiveIdx
<1> QED
  BY <1>2, <1>8, <1>9 DEF WaitInv, ReceiversWaitOnEmpty, SendersWaitOnFull

\* A flush moves the ready queues.
LEMMA FlushTypes ==
    ASSUME TypeOK, Flush
    PROVE  /\ resuming' \in Seq(Ops)
           /\ ready_receivers' \in Seq(Ops) /\ ready_senders' \in Seq(Ops)
<1>1. ready_receivers \o ready_senders \in Seq(Ops)
  BY ConcatProperties DEF TypeOK
<1> QED
  BY <1>1, ConcatProperties, EmptySeq DEF TypeOK, Flush

\* Posted closures stay a queue of closures.
LEMMA PostTypes ==
    ASSUME TypeOK
    PROVE  /\ \A what \in {"close", "start", "cancel", "walk"}, T \in SUBSET Ops :
                 /\ <<Closure(what, T)>> \in Seq(Closures)
                 /\ Append(posted, Closure(what, T)) \in Seq(Closures)
           /\ \A o \in Ops : CancelPosts(o) \in Seq(Closures)
           /\ posted # <<>> => /\ Head(posted).timers \in SUBSET Ops
                              /\ Tail(posted) \in Seq(Closures)
<1>1. \A what \in {"close", "start", "cancel", "walk"}, T \in SUBSET Ops :
         Closure(what, T) \in Closures
  BY DEF Closure, Closures
<1>2. \A c \in Closures : <<c>> \in Seq(Closures) /\ Append(posted, c) \in Seq(Closures)
  <2>1. posted \in Seq(Closures)
    BY DEF TypeOK
  <2>2. ASSUME NEW C, NEW q \in Seq(C), NEW c \in C
        PROVE  <<c>> \in Seq(C) /\ Append(q, c) \in Seq(C)
    BY <2>2, AppendProperties
  <2> QED
    BY <2>1, <2>2
<1>3. ASSUME NEW o \in Ops PROVE CancelPosts(o) \in Seq(Closures)
  <2>1. fin[o].timers \in SUBSET Ops
    BY DEF TypeOK, Fins
  <2> QED
    BY <1>1, <1>2, <2>1, EmptySeq DEF CancelPosts
<1>4. posted # <<>> => Head(posted) \in Closures /\ Tail(posted) \in Seq(Closures)
  BY HeadTailProperties DEF TypeOK
<1>5. \A c \in Closures : c.timers \in SUBSET Ops
  BY DEF Closures
<1> QED
  BY <1>1, <1>2, <1>3, <1>4, <1>5

\* What an operation does once it has left its critical section.
LEMMA AfterUnlock ==
    ASSUME TypeOK, WaitInv, NEW o \in Ops,
           \/ RecvForPost(o) \/ RecvForPostThrows(o)
           \/ Finalize(o) \/ FinalizeClose(o)
    PROVE  TypeOK' /\ WaitInv'
<1>1. CASE RecvForPost(o)
  <2>1. posted' \in Seq(Closures)
    BY <1>1, PostTypes DEF RecvForPost
  <2>2. pc' \in [Ops -> PCs]
    BY <1>1 DEF RecvForPost, TypeOK, PCs
  <2>3. TypeOK' /\ OutcomeGrows
    BY <1>1, <2>1, <2>2 DEF RecvForPost, TypeOK, OutcomeGrows
  <2> QED
    BY <1>1, <2>3, QuietStep DEF RecvForPost
<1>2. CASE RecvForPostThrows(o)
  <2>1. /\ pc' \in [Ops -> PCs] /\ fin' \in [Ops -> Fins]
    BY <1>2, LeaveTypes, NoFinType DEF RecvForPostThrows
  <2>2. outcome' \in [Ops -> Outcomes] /\ OutcomeGrows
    BY <1>2 DEF RecvForPostThrows, TypeOK, Outcomes, OutcomeGrows
  <2>3. ready_receivers' \in Seq(Ops)
    <3>1. ready_receivers \in Seq(Ops)
      BY DEF TypeOK
    <3>2. Append(ready_receivers, o) \in Seq(Ops)
      BY <3>1, AppendProperties
    <3> QED
      BY <1>2, <3>1, <3>2 DEF RecvForPostThrows
  <2>4. TypeOK'
    BY <1>2, <2>1, <2>2, <2>3 DEF RecvForPostThrows, TypeOK
  <2> QED
    BY <1>2, <2>2, <2>4, QuietStep DEF RecvForPostThrows
<1>3. NotifyBlockedSenders(o) \in [Ops -> PCs]
  BY DEF NotifyBlockedSenders, TypeOK, PCs
<1>4. CASE Finalize(o)
  <2>1. posted' \in Seq(Closures)
    BY <1>4, PostTypes, ConcatProperties DEF Finalize, TypeOK
  <2>2. outcome' \in [Ops -> Outcomes] /\ OutcomeGrows
    BY <1>4 DEF Finalize, TypeOK, Outcomes, OutcomeGrows
  <2>3. /\ resuming' \in Seq(Ops)
        /\ ready_receivers' \in Seq(Ops) /\ ready_senders' \in Seq(Ops)
    BY <1>4, FlushTypes DEF Finalize, TypeOK
  <2>4. async_pending' \in BOOLEAN
    BY <1>4 DEF Finalize, TypeOK
  <2>5. TypeOK'
    BY <1>3, <1>4, <2>1, <2>2, <2>3, <2>4 DEF Finalize, TypeOK
  <2> QED
    BY <1>4, <2>2, <2>5, QuietStep DEF Finalize
<1>5. CASE FinalizeClose(o)
  <2>1. posted' \in Seq(Closures)
    <3> DEFINE last == IF fin[o].wake /\ ~shutting_down
                       THEN <<Closure("close", {})>> ELSE <<>>
    <3>1. last \in Seq(Closures)
      BY PostTypes, EmptySeq
    <3>2. posted' = posted \o CancelPosts(o) \o last
      BY <1>5 DEF FinalizeClose
    <3> HIDE DEF last
    <3>3. posted \o CancelPosts(o) \in Seq(Closures)
      BY PostTypes, ConcatProperties DEF TypeOK
    <3> QED
      BY <3>1, <3>2, <3>3, ConcatProperties
  <2>2. outcome' \in [Ops -> Outcomes] /\ OutcomeGrows
    BY <1>5 DEF FinalizeClose, TypeOK, Outcomes, OutcomeGrows
  <2>3. TypeOK'
    BY <1>3, <1>5, <2>1, <2>2 DEF FinalizeClose, TypeOK
  <2> QED
    BY <1>5, <2>2, <2>3, QuietStep DEF FinalizeClose
<1> QED
  BY <1>1, <1>2, <1>4, <1>5

\* What the loop thread does.
LEMMA LoopActions ==
    ASSUME TypeOK, WaitInv,
           LoopCallback \/ ShutDown \/ \E o \in Ops : TimerFire(o)
    PROVE  TypeOK' /\ WaitInv'
<1>1. CASE Resume
  <2>1. Head(resuming) \in Ops /\ resuming' \in Seq(Ops)
    BY <1>1, HeadTailProperties DEF Resume, TypeOK
  <2>2. pc' \in [Ops -> PCs]
    BY <1>1, <2>1 DEF Resume, TypeOK, PCs
  <2>3. TypeOK' /\ OutcomeGrows
    BY <1>1, <2>1, <2>2 DEF Resume, TypeOK, OutcomeGrows
  <2> QED
    BY <1>1, <2>3, QuietStep DEF Resume
<1>2. CASE OnAsync
  <2>1. TypeOK' /\ OutcomeGrows
    BY <1>2, FlushTypes DEF OnAsync, TypeOK, OutcomeGrows
  <2> QED
    BY <1>2, <2>1, QuietStep DEF OnAsync
<1>3. CASE RunClose
  <2>1. posted' \in Seq(Closures)
    BY <1>3, PostTypes DEF RunClose, RunPosted
  <2>2. TypeOK' /\ OutcomeGrows
    BY <1>3, <2>1, FlushTypes DEF RunClose, TypeOK, OutcomeGrows
  <2> QED
    BY <1>3, <2>2, QuietStep DEF RunClose
<1>4. CASE RunTimerStart
  <2>1. posted' \in Seq(Closures)
    BY <1>4, PostTypes DEF RunTimerStart, RunPosted
  <2>2. timer' \in [Ops -> Timers]
    BY <1>4 DEF RunTimerStart, TypeOK, Timers
  <2>3. TypeOK' /\ OutcomeGrows
    BY <1>4, <2>1, <2>2 DEF RunTimerStart, TypeOK, OutcomeGrows
  <2> QED
    BY <1>4, <2>3, QuietStep DEF RunTimerStart
<1>5. CASE RunTimerStartFails
  <2>1. posted' \in Seq(Closures) /\ Head(posted).timers \in SUBSET Ops
    BY <1>5, PostTypes DEF RunTimerStartFails, RunPosted
  <2>2. PICK o \in Head(posted).timers :
          /\ timer' = [timer EXCEPT ![o] = "closed"]
          /\ outcome' = [outcome EXCEPT ![o] = "error"]
          /\ resuming' = ready_receivers \o <<o>> \o ready_senders
    BY <1>5 DEF RunTimerStartFails
  <2>3. o \in Ops
    BY <2>1
  <2>4. resuming' \in Seq(Ops)
    <3>1. ready_receivers \in Seq(Ops) /\ ready_senders \in Seq(Ops)
      BY DEF TypeOK
    <3>2. <<o>> \in Seq(Ops)
      BY <2>3
    <3>3. ready_receivers \o <<o>> \in Seq(Ops)
      BY <3>1, <3>2, ConcatProperties
    <3> QED
      BY <2>2, <3>1, <3>3, ConcatProperties
  <2>5. timer' \in [Ops -> Timers]
    BY <2>2, <2>3 DEF TypeOK, Timers
  <2>6. outcome' \in [Ops -> Outcomes] /\ OutcomeGrows
    BY <2>2, <2>3 DEF TypeOK, Outcomes, OutcomeGrows
  <2>7. TypeOK'
    BY <1>5, <2>1, <2>4, <2>5, <2>6, EmptySeq DEF RunTimerStartFails, TypeOK
  <2> QED
    BY <1>5, <2>6, <2>7, QuietStep DEF RunTimerStartFails
<1>6. CASE RunTimerCancel
  <2>1. posted' \in Seq(Closures)
    BY <1>6, PostTypes DEF RunTimerCancel, RunPosted
  <2>2. timer' \in [Ops -> Timers]
    BY <1>6 DEF RunTimerCancel, TypeOK, Timers
  <2>3. TypeOK' /\ OutcomeGrows
    BY <1>6, <2>1, <2>2 DEF RunTimerCancel, TypeOK, OutcomeGrows
  <2> QED
    BY <1>6, <2>3, QuietStep DEF RunTimerCancel
<1>7. CASE RunWalk
  <2>1. posted' \in Seq(Closures)
    BY <1>7, PostTypes DEF RunWalk, RunPosted
  <2>2. timer' \in [Ops -> Timers]
    BY <1>7 DEF RunWalk, TypeOK, Timers
  <2>3. TypeOK' /\ OutcomeGrows
    BY <1>7, <2>1, <2>2 DEF RunWalk, TypeOK, OutcomeGrows
  <2> QED
    BY <1>7, <2>3, QuietStep DEF RunWalk
<1>8. CASE ShutDown
  <2>1. posted' \in Seq(Closures)
    BY <1>8, PostTypes DEF ShutDown
  <2>2. TypeOK' /\ OutcomeGrows
    BY <1>8, <2>1 DEF ShutDown, TypeOK, OutcomeGrows
  <2> QED
    BY <1>8, <2>2, QuietStep DEF ShutDown
<1>9. ASSUME NEW o \in Ops, TimerFire(o) PROVE TypeOK' /\ WaitInv'
  <2> DEFINE mine == IF outcome[o] = "none" THEN <<o>> ELSE <<>>
  <2>1. mine \in Seq(Ops)
    BY EmptySeq
  <2>2. resuming' = ready_receivers \o mine \o ready_senders
    BY <1>9 DEF TimerFire
  <2> HIDE DEF mine
  <2>3. resuming' \in Seq(Ops)
    <3>1. ready_receivers \o mine \in Seq(Ops)
      BY <2>1, ConcatProperties DEF TypeOK
    <3> QED
      BY <2>2, <3>1, ConcatProperties DEF TypeOK
  <2>4. timer' \in [Ops -> Timers]
    BY <1>9 DEF TimerFire, TypeOK, Timers
  <2>5. outcome' \in [Ops -> Outcomes] /\ OutcomeGrows
    BY <1>9 DEF TimerFire, TypeOK, Outcomes, OutcomeGrows
  <2>6. TypeOK'
    BY <1>9, <2>3, <2>4, <2>5, EmptySeq DEF TimerFire, TypeOK
  <2> QED
    BY <1>9, <2>5, <2>6, QuietStep DEF TimerFire
<1> QED
  BY <1>1, <1>2, <1>3, <1>4, <1>5, <1>6, <1>7, <1>8, <1>9 DEF LoopCallback

-----------------------------------------------------------------------------
(* The theorems *)

\* Types and WaitInv hold initially, and every step keeps them.
LEMMA InitInv == Init => TypeOK /\ WaitInv
<1> SUFFICES ASSUME Init PROVE TypeOK /\ WaitInv
  OBVIOUS
<1>1. TypeOK
  BY EmptySeq, NoFinType DEF Init, TypeOK, Outcomes, PCs, Timers
<1>2. ActiveIdx(receiver_waiters) = {}
  BY EmptySeq DEF Init, ActiveIdx
<1> QED
  BY <1>1, <1>2, EmptySeq, ChannelAssumption
  DEF Init, WaitInv, ReceiversWaitOnEmpty, SendersWaitOnFull

\* Every step keeps the types and the waiters.
LEMMA InvStep == TypeOK /\ WaitInv /\ [Next]_vars => (TypeOK /\ WaitInv)'
<1> SUFFICES ASSUME TypeOK, WaitInv, [Next]_vars PROVE TypeOK' /\ WaitInv'
  OBVIOUS
<1>1. ASSUME NEW o \in Ops, Call(o) PROVE TypeOK' /\ WaitInv'
  BY <1>1, SendActions, ReceiveActions, CloseAction DEF Call
<1>2. ASSUME NEW o \in Ops, Continue(o) PROVE TypeOK' /\ WaitInv'
  BY <1>2, SendActions, ReceiveActions, AfterUnlock DEF Continue
<1>3. CASE LoopCallback \/ ShutDown \/ \E o \in Ops : TimerFire(o)
  BY <1>3, LoopActions
<1>4. CASE UNCHANGED vars
  BY <1>4 DEF TypeOK, WaitInv, ReceiversWaitOnEmpty, SendersWaitOnFull, ActiveIdx
<1> QED
  BY <1>1, <1>2, <1>3, <1>4 DEF Next

\* Types and WaitInv together are inductive: TakeFront is only well typed because
\* WaitInv keeps the first loop of pump_locked from running.
THEOREM WaitInvariant == Spec => [](TypeOK /\ WaitInv)
BY InitInv, InvStep, PTL DEF Spec

\* Every variable of the channel keeps its type.
THEOREM TypeCorrect == Spec => []TypeOK
<1>1. TypeOK /\ WaitInv => TypeOK
  OBVIOUS
<1> QED
  BY <1>1, WaitInvariant, PTL

\* No receiver is left waiting while the channel has a value for it.
THEOREM NoIdleReceiver == Spec => []ReceiversWaitOnEmpty
<1>1. TypeOK /\ WaitInv => ReceiversWaitOnEmpty
  BY DEF WaitInv
<1> QED
  BY <1>1, WaitInvariant, PTL

\* The buffer never exceeds its capacity, and no sender is left suspended while
\* it has room.
THEOREM NoIdleSender == Spec => []SendersWaitOnFull
<1>1. TypeOK /\ WaitInv => SendersWaitOnFull
  BY DEF WaitInv
<1> QED
  BY <1>1, WaitInvariant, PTL

-----------------------------------------------------------------------------
(* The values.  Line is the queue that FifoChannel speaks of: the buffer and *)
(* behind it the values of the suspended senders.                            *)

Line == messages \o sender_waiters
Buffered == Len(messages)

\* A send whose value the channel has accepted; a call that has not yet entered
\* a queue or left the channel.
Got == {"sent", "aborted"}
Fresh == {"start", "iter", "ready", "blocked", "woken"}

\* The line holds each value once; those of the buffer are accepted, the others
\* belong to suspended senders that nobody has completed.
LineInv ==
    /\ \A i, j \in 1..Len(Line) : Line[i] = Line[j] => i = j
    /\ \A i \in 1..Len(Line) :
          /\ Line[i] \in SendOps
          /\ i <= Buffered => outcome[Line[i]] \in Got
          /\ i > Buffered => outcome[Line[i]] = "none"

\* A value that was given is in one place, with a receiver that has ended, and an
\* accepted value is in the line or was given.
Given(r) ==
    /\ r \in ReceiveOps /\ outcome[r] \in {"value", "aborted"}
    /\ value[r] \in SendOps /\ outcome[value[r]] \in Got
    /\ ~InSeq(value[r], Line)
    /\ \A p \in Ops : value[p] = value[r] => p = r
GivenInv ==
    /\ \A r \in Ops : value[r] # NoOp => Given(r)
    /\ \A r \in ReceiveOps : outcome[r] = "value" => value[r] # NoOp
    /\ \A s \in SendOps : outcome[s] \in Got =>
          InSeq(s, Line) \/ \E r \in Ops : value[r] = s

\* Where a call is tells what it can have done to the values, and whether it
\* has a timer.
CallInv(o) ==
    /\ pc[o] \in Fresh =>
          /\ outcome[o] = "none" /\ timer[o] = "none"
          /\ ~InSeq(o, Line) /\ ~InSeq(o, receiver_waiters)
    /\ o \in SendOps /\ pc[o] = "final" => outcome[o] = "sent"
    /\ o \in ReceiveOps /\ pc[o] = "final" => outcome[o] \in {"value", "error"}
    /\ pc[o] = "posting" \/ timer[o] # "none" => Kind[o] = "recv_for"
CallsInv == \A o \in Ops : CallInv(o)

\* Only receivers wait to receive, and a timer that somebody is about to start or
\* to cancel exists.
WaitersInv == \A i \in 1..Len(receiver_waiters) : receiver_waiters[i] \in ReceiveOps
HaveTimers(T) == \A x \in T : timer[x] # "none"
TimersInv == /\ \A o \in Ops : HaveTimers(fin[o].timers)
             /\ \A i \in 1..Len(posted) : HaveTimers(posted[i].timers)

DataInv == LineInv /\ GivenInv
CoreInv == CallsInv /\ WaitersInv /\ TimersInv
FifoInv == TypeOK /\ WaitInv /\ DataInv /\ CoreInv

USE DEF Got

\* The line is a sequence of operations.
LEMMA LineType ==
    ASSUME TypeOK
    PROVE  /\ Line \in Seq(Ops) /\ Len(Line) = Buffered + Len(sender_waiters)
           /\ Buffered \in Nat /\ Len(sender_waiters) \in Nat
           /\ \A i \in 1..Buffered : Line[i] = messages[i]
           /\ \A i \in 1..Len(sender_waiters) : Line[Buffered + i] = sender_waiters[i]
           /\ Line = <<>> <=> messages = <<>> /\ sender_waiters = <<>>
<1>1. messages \in Seq(Ops) /\ sender_waiters \in Seq(Ops)
  BY DEF TypeOK
<1>2. Len(messages) \in Nat /\ Len(sender_waiters) \in Nat
  BY <1>1, LenProperties
<1>3. /\ Line \in Seq(Ops) /\ Len(Line) = Len(messages) + Len(sender_waiters)
      /\ \A i \in 1..(Len(messages) + Len(sender_waiters)) :
            Line[i] = IF i <= Len(messages) THEN messages[i]
                      ELSE sender_waiters[i - Len(messages)]
  BY <1>1, ConcatProperties DEF Line
<1>4. Line = <<>> <=> messages = <<>> /\ sender_waiters = <<>>
  BY <1>1, ConcatEqualIffEmpty DEF Line
<1> HIDE DEF Line
<1>5. \A i \in 1..Len(messages) : Line[i] = messages[i]
  BY <1>2, <1>3
<1>6. \A i \in 1..Len(sender_waiters) : Line[Len(messages) + i] = sender_waiters[i]
  <2> SUFFICES ASSUME NEW i \in 1..Len(sender_waiters)
               PROVE  Line[Len(messages) + i] = sender_waiters[i]
    OBVIOUS
  <2>1. /\ Len(messages) + i \in 1..(Len(messages) + Len(sender_waiters))
        /\ ~(Len(messages) + i <= Len(messages)) /\ Len(messages) + i - Len(messages) = i
    BY <1>2
  <2> QED
    BY <1>3, <2>1
<1> QED
  BY <1>2, <1>3, <1>4, <1>5, <1>6 DEF Buffered

\* Nobody else's operation is a send and a receive.
LEMMA KindsApart ==
    /\ SendOps \cap ReceiveOps = {} /\ SendOps \subseteq Ops /\ ReceiveOps \subseteq Ops
    /\ NoOp \notin SendOps
    /\ \A o \in Ops : o \in SendOps \/ o \in ReceiveOps \/ Kind[o] = "close"
BY ChannelAssumption
DEF SendOps, ReceiveOps, SendKinds, AwaitKinds, Kinds

-----------------------------------------------------------------------------
(* What can happen to the values, and what it is for FifoChannel             *)

\* Nothing happens to the values.
Quiet == UNCHANGED <<Line, Buffered, value, outcome, closed>>
Refused == {"closed", "full", "refused"}
Left == {"timeout", "empty", "refused", "error"}

USE DEF Refused, Left

\* A send is accepted into the buffer.
Sent(o) ==
    /\ o \in SendOps /\ outcome[o] = "none" /\ ~InSeq(o, Line) /\ ~closed
    /\ Buffered = Len(Line) /\ Buffered' = Buffered + 1 /\ Line' = Append(Line, o)
    /\ outcome' = [outcome EXCEPT ![o] = "sent"] /\ UNCHANGED <<value, closed>>
\* A sender suspends with its value.
Queued(o) ==
    /\ o \in SendOps /\ outcome[o] = "none" /\ ~InSeq(o, Line) /\ ~closed
    /\ Line' = Append(Line, o) /\ UNCHANGED <<Buffered, outcome, value, closed>>
\* A send meets a waiting receiver.
Handed(o, r) ==
    /\ o \in SendOps /\ outcome[o] = "none" /\ ~InSeq(o, Line) /\ ~closed
    /\ r \in ReceiveOps /\ outcome[r] = "none" /\ Line = <<>>
    /\ outcome' = [outcome EXCEPT ![r] = "value", ![o] = "sent"]
    /\ value' = [value EXCEPT ![r] = o] /\ UNCHANGED <<Line, Buffered, closed>>
\* A call ends without a value.
Ended(o, why) ==
    /\ outcome[o] = "none" /\ ~InSeq(o, Line)
    /\ \/ o \in SendOps /\ why \in Refused
       \/ o \in ReceiveOps /\ why \in Left
       \/ o \in ReceiveOps /\ why = "closed" /\ closed /\ Line = <<>>
    /\ outcome' = [outcome EXCEPT ![o] = why] /\ UNCHANGED <<Line, Buffered, value, closed>>
\* A call that has already had its effect throws.
Thrown(o) ==
    /\ o \in Ops
    /\ o \in SendOps => outcome[o] = "sent"
    /\ o \in ReceiveOps => outcome[o] \in {"value", "error"}
    /\ outcome' = [outcome EXCEPT ![o] = "aborted"] /\ UNCHANGED <<Line, Buffered, value, closed>>
\* A receiver takes the first value, and the buffer is refilled.
Taken(o) ==
    /\ o \in ReceiveOps /\ outcome[o] = "none" /\ Line # <<>>
    /\ Line' = Tail(Line) /\ Buffered > 0 /\ Buffered' \in (Buffered - 1)..(Len(Line) - 1)
    /\ \A x \in Ops :
          /\ outcome'[x] = IF x = o THEN "value"
                           ELSE IF \E i \in 1..Len(Line) :
                                     i > Buffered /\ i <= Buffered' + 1 /\ x = Line[i]
                           THEN "sent" ELSE outcome[x]
          /\ value'[x] = IF x = o THEN Head(Line) ELSE value[x]
    /\ UNCHANGED closed
\* The channel is closed, on those that wait to receive or to send.
Shut(o, W) ==
    /\ Kind[o] = "close" /\ outcome[o] = "none" /\ W \subseteq ReceiveOps
    /\ W # {} => Line = <<>>
    /\ \A r \in W : outcome[r] = "none"
    /\ closed' = TRUE /\ Line' = messages /\ Buffered' = Buffered /\ value' = value
    /\ \A x \in Ops : outcome'[x] = IF x = o \/ x \in W \/ InSeq(x, sender_waiters)
                                    THEN "closed" ELSE outcome[x]

-----------------------------------------------------------------------------
(* Each of them keeps DataInv                                                *)

\* Appending to a sequence and taking its head, as sets of elements.
LEMMA AppendElements ==
    ASSUME NEW q \in Seq(Ops), NEW x \in Ops
    PROVE  /\ Len(Append(q, x)) = Len(q) + 1 /\ Len(q) \in Nat
           /\ \A i \in 1..Len(q) : Append(q, x)[i] = q[i]
           /\ Append(q, x)[Len(q) + 1] = x
           /\ \A y : InSeq(y, Append(q, x)) <=> InSeq(y, q) \/ y = x
<1>1. /\ Len(Append(q, x)) = Len(q) + 1 /\ Len(q) \in Nat
      /\ \A i \in 1..Len(q) : Append(q, x)[i] = q[i]
      /\ Append(q, x)[Len(q) + 1] = x
  BY AppendProperties, LenProperties
<1>2. ASSUME NEW y PROVE InSeq(y, Append(q, x)) <=> InSeq(y, q) \/ y = x
  <2>1. 1..(Len(q) + 1) = 1..Len(q) \cup {Len(q) + 1}
    BY <1>1
  <2> QED
    BY <1>1, <2>1, Zenon DEF InSeq
<1> QED
  BY <1>1, <1>2

\* The rest of a queue without duplicates has all but its head.
LEMMA TailElements ==
    ASSUME NEW q \in Seq(Ops), q # <<>>,
           \A i, j \in 1..Len(q) : q[i] = q[j] => i = j
    PROVE  /\ Len(Tail(q)) = Len(q) - 1 /\ Len(q) \in Nat \ {0} /\ Head(q) = q[1]
           /\ \A i \in 1..(Len(q) - 1) : Tail(q)[i] = q[i + 1]
           /\ \A y : InSeq(y, Tail(q)) <=> InSeq(y, q) /\ y # Head(q)
<1>1. /\ Len(Tail(q)) = Len(q) - 1 /\ Len(q) \in Nat \ {0} /\ Head(q) = q[1]
      /\ \A i \in 1..(Len(q) - 1) : Tail(q)[i] = q[i + 1]
  BY HeadTailProperties, EmptySeq, LenProperties
<1>2. ASSUME NEW y, InSeq(y, Tail(q)) PROVE InSeq(y, q) /\ y # Head(q)
  <2>1. PICK i \in 1..(Len(q) - 1) : Tail(q)[i] = y
    BY <1>1, <1>2 DEF InSeq
  <2>2. i + 1 \in 1..Len(q) /\ 1 \in 1..Len(q) /\ i + 1 # 1
    BY <1>1
  <2> QED
    BY <1>1, <2>1, <2>2 DEF InSeq
<1>3. ASSUME NEW y, InSeq(y, q), y # Head(q) PROVE InSeq(y, Tail(q))
  <2>1. PICK i \in 1..Len(q) : q[i] = y
    BY <1>3 DEF InSeq
  <2>2. i - 1 \in 1..(Len(q) - 1) /\ (i - 1) + 1 = i
    BY <1>1, <1>3, <2>1
  <2>3. Tail(q)[i - 1] = y
    BY <1>1, <2>1, <2>2
  <2> QED
    BY <1>1, <2>2, <2>3 DEF InSeq
<1> QED
  BY <1>1, <1>2, <1>3

\* A message that is put in the buffer keeps its place in the line.
LEMMA SentData ==
    ASSUME TypeOK, DataInv, NEW o \in Ops, Sent(o)
    PROVE  DataInv'
<1> DEFINE n == Len(Line)
<1>1. /\ Line \in Seq(Ops) /\ n \in Nat /\ Len(Line') = n + 1
      /\ \A i \in 1..n : Line'[i] = Line[i]
      /\ Line'[n + 1] = o
      /\ \A y : InSeq(y, Line)' <=> InSeq(y, Line) \/ y = o
  BY LineType, AppendElements DEF Sent, InSeq
<1>2. outcome' = [outcome EXCEPT ![o] = "sent"] /\ outcome \in [Ops -> Outcomes]
  BY DEF Sent, TypeOK
<1>3. LineInv'
  <2>1. ASSUME NEW i \in 1..(n + 1) PROVE Line'[i] \in SendOps /\ outcome'[Line'[i]] \in Got
    BY <1>1, <1>2, <2>1, KindsApart DEF DataInv, LineInv, Sent
  <2>2. ASSUME NEW i \in 1..(n + 1), NEW j \in 1..(n + 1), Line'[i] = Line'[j] PROVE i = j
    BY <1>1, <2>2 DEF DataInv, LineInv, Sent, InSeq
  <2> QED
    BY <1>1, <2>1, <2>2 DEF LineInv, Sent
<1>4. GivenInv'
  <2>1. ASSUME NEW r \in Ops, value'[r] # NoOp PROVE Given(r)'
    <3>1. Given(r) /\ r # o /\ value[r] # o /\ value' = value
      BY <2>1, KindsApart DEF DataInv, GivenInv, Given, Sent
    <3> QED
      BY <1>1, <1>2, <3>1, KindsApart DEF Given
  <2>2. ASSUME NEW r \in ReceiveOps, outcome'[r] = "value" PROVE value'[r] # NoOp
    BY <1>2, <2>2, KindsApart DEF DataInv, GivenInv, Sent
  <2>3. ASSUME NEW s \in SendOps, outcome'[s] \in Got
        PROVE  InSeq(s, Line)' \/ \E r \in Ops : value'[r] = s
    BY <1>1, <1>2, <2>3, KindsApart DEF DataInv, GivenInv, Sent
  <2> QED
    BY <2>1, <2>2, <2>3 DEF GivenInv
<1> QED
  BY <1>3, <1>4 DEF DataInv

\* So does the message of a sender that waits.
LEMMA QueuedData ==
    ASSUME TypeOK, DataInv, NEW o \in Ops, Queued(o)
    PROVE  DataInv'
<1> DEFINE n == Len(Line)
<1>1. /\ Line \in Seq(Ops) /\ n \in Nat /\ Len(Line') = n + 1
      /\ \A i \in 1..n : Line'[i] = Line[i]
      /\ Line'[n + 1] = o
      /\ \A y : InSeq(y, Line)' <=> InSeq(y, Line) \/ y = o
      /\ Buffered \in Nat /\ Buffered <= n
  BY LineType, AppendElements DEF Queued, InSeq
<1>2. LineInv'
  <2>1. ASSUME NEW i \in 1..(n + 1)
        PROVE  /\ Line'[i] \in SendOps
               /\ i <= Buffered => outcome[Line'[i]] \in Got
               /\ i > Buffered => outcome[Line'[i]] = "none"
    BY <1>1, <2>1 DEF DataInv, LineInv, Queued
  <2>2. ASSUME NEW i \in 1..(n + 1), NEW j \in 1..(n + 1), Line'[i] = Line'[j] PROVE i = j
    BY <1>1, <2>2 DEF DataInv, LineInv, Queued, InSeq
  <2> QED
    BY <1>1, <2>1, <2>2 DEF LineInv, Queued
<1>3. GivenInv'
  <2>1. ASSUME NEW r \in Ops, value'[r] # NoOp PROVE Given(r)'
    <3>1. Given(r) /\ value[r] # o /\ value' = value /\ outcome' = outcome
      BY <2>1 DEF DataInv, GivenInv, Given, Queued
    <3> QED
      BY <1>1, <3>1 DEF Given
  <2> QED
    BY <1>1, <2>1 DEF DataInv, GivenInv, Queued
<1> QED
  BY <1>2, <1>3 DEF DataInv

\* So does a message that is handed to a receiver that waits.
LEMMA HandedData ==
    ASSUME TypeOK, DataInv, NEW o \in Ops, NEW r \in Ops, Handed(o, r)
    PROVE  DataInv'
<1>1. /\ outcome' = [outcome EXCEPT ![r] = "value", ![o] = "sent"]
      /\ value' = [value EXCEPT ![r] = o] /\ o # r /\ o # NoOp
      /\ outcome \in [Ops -> Outcomes] /\ value \in [Ops -> Ops \cup {NoOp}]
  BY KindsApart DEF Handed, TypeOK
<1>2. /\ Len(Line) = 0 /\ Len(Line') = 0 /\ ~InSeq(o, Line)
      /\ \A y : ~InSeq(y, Line) /\ ~InSeq(y, Line')
  BY EmptySeq DEF Handed, InSeq
<1>3. LineInv'
  BY <1>2 DEF LineInv
<1>4. \A p \in Ops : value[p] # o
  BY <1>1 DEF DataInv, GivenInv, Given, Handed
<1>5. GivenInv'
  <2>1. ASSUME NEW p \in Ops, value'[p] # NoOp PROVE Given(p)'
    <3>1. CASE p = r
      BY <1>1, <1>2, <1>4, <3>1, KindsApart DEF Given, Handed
    <3>2. CASE p # r
      <4>1. Given(p) /\ p # o /\ value[p] # o /\ value'[p] = value[p]
            /\ outcome'[p] = outcome[p] /\ value[p] # r
        BY <1>1, <1>4, <2>1, <3>2, KindsApart DEF DataInv, GivenInv, Given, Handed
      <4> QED
        BY <1>1, <1>2, <3>2, <4>1, KindsApart DEF Given
    <3> QED
      BY <3>1, <3>2
  <2>2. ASSUME NEW p \in ReceiveOps, outcome'[p] = "value" PROVE value'[p] # NoOp
    BY <1>1, <2>2, KindsApart DEF DataInv, GivenInv, Handed
  <2>3. ASSUME NEW s \in SendOps, outcome'[s] \in Got
        PROVE  \E p \in Ops : value'[p] = s
    <3>1. CASE s = o
      BY <1>1, <3>1
    <3>2. CASE s # o
      <4>1. outcome[s] \in Got
        BY <1>1, <2>3, <3>2, KindsApart DEF Handed
      <4>2. PICK p \in Ops : value[p] = s
        BY <1>2, <4>1 DEF DataInv, GivenInv
      <4>3. value[r] = NoOp
        BY DEF Handed, DataInv, GivenInv, Given
      <4> QED
        BY <1>1, <4>2, <4>3, KindsApart
    <3> QED
      BY <3>1, <3>2
  <2> QED
    BY <2>1, <2>2, <2>3 DEF GivenInv
<1> QED
  BY <1>3, <1>5 DEF DataInv

\* A call ends, or throws after its effect: no value moves.
LEMMA EndedData ==
    ASSUME TypeOK, DataInv, NEW o \in Ops, NEW why, Ended(o, why)
    PROVE  DataInv'
<1>1. /\ outcome' = [outcome EXCEPT ![o] = why] /\ outcome \in [Ops -> Outcomes]
      /\ Line' = Line /\ Buffered' = Buffered /\ value' = value
      /\ outcome[o] = "none" /\ why \notin Got \cup {"none", "value"}
      /\ \A i \in 1..Len(Line) : Line[i] # o
  BY DEF Ended, TypeOK, InSeq
<1>2. LineInv'
  BY <1>1, KindsApart DEF DataInv, LineInv
<1>3. GivenInv'
  <2>1. ASSUME NEW r \in Ops, value'[r] # NoOp PROVE Given(r)'
    <3>1. Given(r) /\ r # o /\ value[r] # o
      BY <1>1, <2>1 DEF DataInv, GivenInv, Given
    <3> QED
      BY <1>1, <3>1, KindsApart DEF Given
  <2> QED
    BY <1>1, <2>1, KindsApart DEF DataInv, GivenInv
<1> QED
  BY <1>2, <1>3 DEF DataInv

\* A send that throws leaves no message behind.
LEMMA ThrownData ==
    ASSUME TypeOK, DataInv, NEW o \in Ops, Thrown(o)
    PROVE  DataInv'
<1>1. /\ outcome' = [outcome EXCEPT ![o] = "aborted"] /\ outcome \in [Ops -> Outcomes]
      /\ Line' = Line /\ Buffered' = Buffered /\ value' = value
      /\ o \in SendOps => outcome[o] = "sent"
      /\ o \in ReceiveOps => outcome[o] \in {"value", "error"}
  BY DEF Thrown, TypeOK
<1>2. LineInv'
  BY <1>1, KindsApart DEF DataInv, LineInv
<1>3. GivenInv'
  <2>1. ASSUME NEW r \in Ops, value'[r] # NoOp PROVE Given(r)'
    <3>1. Given(r)
      BY <1>1, <2>1 DEF DataInv, GivenInv
    <3> QED
      BY <1>1, <3>1, KindsApart DEF Given
  <2>2. ASSUME NEW r \in ReceiveOps, outcome'[r] = "value" PROVE value'[r] # NoOp
    BY <1>1, <2>2, KindsApart DEF DataInv, GivenInv
  <2>3. ASSUME NEW s \in SendOps, outcome'[s] \in Got
        PROVE  InSeq(s, Line)' \/ \E r \in Ops : value'[r] = s
    <3>1. outcome[s] \in Got
      BY <1>1, <2>3, KindsApart
    <3> QED
      BY <1>1, <3>1 DEF DataInv, GivenInv
  <2> QED
    BY <2>1, <2>2, <2>3 DEF GivenInv
<1> QED
  BY <1>2, <1>3 DEF DataInv

\* A value is taken: the next one is in front, and those that the refill has moved
\* into the buffer are accepted.
LEMMA TakenData ==
    ASSUME TypeOK, DataInv, NEW o \in Ops, Taken(o)
    PROVE  DataInv'
<1> DEFINE n == Len(Line)
           f == Head(Line)
           freed(x) == \E i \in 1..n : i > Buffered /\ i <= Buffered' + 1 /\ x = Line[i]
<1>1. /\ Line \in Seq(Ops) /\ n \in Nat \ {0} /\ Len(Line') = n - 1 /\ f = Line[1]
      /\ \A i \in 1..(n - 1) : Line'[i] = Line[i + 1]
      /\ \A y : InSeq(y, Line') <=> InSeq(y, Line) /\ y # f
      /\ \A i, j \in 1..n : Line[i] = Line[j] => i = j
      /\ Buffered \in Nat \ {0} /\ Buffered <= n /\ Buffered' \in (Buffered - 1)..(n - 1)
  <2>1. Line # <<>> /\ Line' = Tail(Line) /\ \A i, j \in 1..n : Line[i] = Line[j] => i = j
    BY DEF Taken, DataInv, LineInv
  <2>2. /\ n \in Nat \ {0} /\ Len(Line') = n - 1 /\ f = Line[1]
        /\ \A i \in 1..(n - 1) : Line'[i] = Line[i + 1]
        /\ \A y : InSeq(y, Line') <=> InSeq(y, Line) /\ y # f
    BY <2>1, LineType, TailElements
  <2>3. Line \in Seq(Ops) /\ Buffered \in Nat /\ Buffered <= n
    BY LineType
  <2>4. Buffered > 0 /\ Buffered' \in (Buffered - 1)..(n - 1)
    BY Zenon DEF Taken
  <2> HIDE DEF n, f
  <2> QED
    BY <2>1, <2>2, <2>3, <2>4
<1>2. \A x \in Ops : /\ outcome'[x] = IF x = o THEN "value"
                                       ELSE IF freed(x) THEN "sent" ELSE outcome[x]
                     /\ value'[x] = IF x = o THEN f ELSE value[x]
  BY DEF Taken
<1>3. /\ \A i \in 1..n : /\ Line[i] \in SendOps /\ Line[i] \in Ops /\ Line[i] # o
                         /\ i <= Buffered => outcome[Line[i]] \in Got
                         /\ i > Buffered => outcome[Line[i]] = "none"
      /\ o \in ReceiveOps /\ outcome[o] = "none" /\ value[o] = NoOp
      /\ \A x \in Ops : x \in ReceiveOps => ~freed(x)
      /\ \A x \in Ops : freed(x) => InSeq(x, Line)
  <2>1. o \in ReceiveOps /\ outcome[o] = "none" /\ value[o] = NoOp
    BY DEF DataInv, GivenInv, Given, Taken
  <2>2. \A i \in 1..n : /\ Line[i] \in SendOps
                        /\ i <= Buffered => outcome[Line[i]] \in Got
                        /\ i > Buffered => outcome[Line[i]] = "none"
    BY DEF DataInv, LineInv
  <2>3. \A i \in 1..n : Line[i] \in SendOps /\ Line[i] \in Ops /\ Line[i] # o
    BY <2>1, <2>2, KindsApart
  <2>4. \A x \in Ops : x \in ReceiveOps => ~freed(x)
    BY <2>2, KindsApart
  <2>5. \A x \in Ops : freed(x) => InSeq(x, Line)
    BY Zenon DEF InSeq
  <2> HIDE DEF freed
  <2> QED
    BY <2>1, <2>2, <2>3, <2>4, <2>5
<1>4. \A i \in 1..n : freed(Line[i]) <=> i > Buffered /\ i <= Buffered' + 1
  BY <1>1
<1> HIDE DEF n, f, freed
<1>5. LineInv'
  <2>1. ASSUME NEW i \in 1..(n - 1)
        PROVE  /\ Line'[i] \in SendOps
               /\ i <= Buffered' => outcome'[Line'[i]] \in Got
               /\ i > Buffered' => outcome'[Line'[i]] = "none"
    <3>1. /\ i + 1 \in 1..n /\ Line'[i] = Line[i + 1]
          /\ i <= Buffered' <=> i + 1 <= Buffered' + 1
          /\ i > Buffered' => i + 1 > Buffered /\ ~(i + 1 <= Buffered' + 1)
      <4>1. n \in Nat /\ Buffered \in Nat \ {0} /\ Buffered' \in (Buffered - 1)..(n - 1)
        BY <1>1
      <4>2. \A b, c, k \in Int :
               /\ k <= c <=> k + 1 <= c + 1
               /\ (c >= b - 1 /\ k > c) => (k + 1 > b /\ ~(k + 1 <= c + 1))
        OBVIOUS
      <4>3. Buffered \in Int /\ Buffered' \in Int /\ i \in Int /\ Buffered' >= Buffered - 1
        BY <4>1
      <4>4. i + 1 \in 1..n /\ Line'[i] = Line[i + 1]
        BY <1>1, <4>1
      <4> QED
        BY <4>2, <4>3, <4>4
    <3>2. outcome'[Line[i + 1]] = IF freed(Line[i + 1]) THEN "sent" ELSE outcome[Line[i + 1]]
      BY <1>2, <1>3, <3>1
    <3>3. freed(Line[i + 1]) <=> i + 1 > Buffered /\ i <= Buffered'
      BY <1>4, <3>1
    <3>4. /\ Line[i + 1] \in SendOps
          /\ i + 1 <= Buffered => outcome[Line[i + 1]] \in Got
          /\ i + 1 > Buffered => outcome[Line[i + 1]] = "none"
      BY <1>3, <3>1
    <3>5. i + 1 <= Buffered \/ i + 1 > Buffered
      BY <1>1
    <3> QED
      BY <3>1, <3>2, <3>3, <3>4, <3>5
  <2>2. ASSUME NEW i \in 1..(n - 1), NEW j \in 1..(n - 1), Line'[i] = Line'[j] PROVE i = j
    <3>1. i + 1 \in 1..n /\ j + 1 \in 1..n /\ Line[i + 1] = Line[j + 1]
      BY <1>1, <2>2
    <3>2. i + 1 = j + 1
      BY <1>1, <3>1
    <3> QED
      BY <3>2
  <2> QED
    BY <1>1, <2>1, <2>2 DEF LineInv
<1>6. f \in SendOps /\ f \in Ops /\ InSeq(f, Line) /\ outcome'[f] \in Got /\ f # o /\ f # NoOp
  <2>1. 1 \in 1..n /\ ~(1 > Buffered) /\ 1 <= Buffered
    BY <1>1
  <2>2. ~freed(f) /\ outcome[f] \in Got /\ f \in SendOps /\ f \in Ops /\ f # o
    BY <1>1, <1>3, <1>4, <2>1
  <2> QED
    BY <1>1, <1>2, <2>1, <2>2, KindsApart DEF InSeq, n
<1>7. GivenInv'
  <2>1. ASSUME NEW r \in Ops, r # o, value[r] # NoOp
        PROVE  /\ Given(r)' /\ value[r] # f
    <3>1. Given(r) /\ value[r] # f /\ ~freed(value[r]) /\ value[r] # o /\ ~freed(r)
          /\ value[r] \in Ops
      BY <1>3, <1>6, <2>1, KindsApart DEF DataInv, GivenInv, Given
    <3>2. /\ outcome'[r] = outcome[r] /\ outcome'[value[r]] = outcome[value[r]]
          /\ value'[r] = value[r]
      BY <1>2, <2>1, <3>1
    <3>3. \A p \in Ops : value'[p] = value[r] => p = r
      BY <1>2, <3>1 DEF Given
    <3>4. ~InSeq(value[r], Line')
      BY <1>1, <3>1 DEF Given
    <3> QED
      BY <3>1, <3>2, <3>3, <3>4 DEF Given, InSeq
  <2>2. Given(o)'
    <3>1. value'[o] = f /\ outcome'[o] = "value" /\ o \in ReceiveOps
      BY <1>2, <1>3
    <3>2. \A p \in Ops : value'[p] = f => p = o
      <4> SUFFICES ASSUME NEW p \in Ops, p # o, value[p] = f PROVE FALSE
        BY <1>2
      <4> QED
        BY <1>6, <2>1
    <3>3. ~InSeq(f, Line')
      BY <1>1
    <3> QED
      BY <1>6, <3>1, <3>2, <3>3 DEF Given, InSeq
  <2>3. ASSUME NEW s \in SendOps, outcome'[s] \in Got
        PROVE  InSeq(s, Line') \/ \E r \in Ops : value'[r] = s
    <3>1. s \in Ops /\ s # o
      BY <1>3, KindsApart
    <3>2. CASE s = f
      BY <1>2, <3>2
    <3>3. CASE s # f /\ freed(s)
      BY <1>1, <1>3, <3>1, <3>3
    <3>4. CASE s # f /\ ~freed(s)
      <4>1. outcome[s] \in Got
        BY <1>2, <2>3, <3>1, <3>4
      <4>2. CASE InSeq(s, Line)
        BY <1>1, <3>4, <4>2
      <4>3. ASSUME NEW r \in Ops, value[r] = s PROVE \E p \in Ops : value'[p] = s
        BY <1>2, <1>3, <4>3, KindsApart
      <4> QED
        BY <4>1, <4>2, <4>3 DEF DataInv, GivenInv
    <3> QED
      BY <3>2, <3>3, <3>4
  <2>4. ASSUME NEW r \in ReceiveOps, outcome'[r] = "value" PROVE value'[r] # NoOp
    <3>1. r \in Ops /\ ~freed(r)
      BY <1>3, KindsApart
    <3> QED
      BY <1>2, <1>6, <2>4, <3>1 DEF DataInv, GivenInv
  <2>5. ASSUME NEW r \in Ops, value'[r] # NoOp PROVE Given(r)'
    BY <1>2, <2>1, <2>2, <2>5
  <2> QED
    BY <2>3, <2>4, <2>5 DEF GivenInv, InSeq
<1> QED
  BY <1>5, <1>7 DEF DataInv

\* close() drops the values of the senders that it wakes.
LEMMA ShutData ==
    ASSUME TypeOK, DataInv, NEW o \in Ops, NEW W, Shut(o, W)
    PROVE  DataInv'
<1> DEFINE shut(x) == x = o \/ x \in W \/ InSeq(x, sender_waiters)
<1>1. /\ Line' = messages /\ Len(messages) = Buffered /\ Buffered \in Nat
      /\ Buffered <= Len(Line) /\ Len(Line) \in Nat
      /\ \A i \in 1..Buffered : messages[i] = Line[i]
      /\ \A i \in 1..Len(sender_waiters) : sender_waiters[i] = Line[Buffered + i]
      /\ Len(Line) = Buffered + Len(sender_waiters) /\ Len(sender_waiters) \in Nat
  BY LineType, LenProperties DEF Shut, Buffered
<1>2. /\ \A x \in Ops : outcome'[x] = IF shut(x) THEN "closed" ELSE outcome[x]
      /\ value' = value /\ Buffered' = Buffered
  BY DEF Shut
<1>3. \A x : InSeq(x, sender_waiters) =>
                x \in SendOps /\ outcome[x] = "none" /\ InSeq(x, Line)
  <2> SUFFICES ASSUME NEW j \in 1..Len(sender_waiters)
               PROVE  /\ sender_waiters[j] \in SendOps
                      /\ outcome[sender_waiters[j]] = "none"
                      /\ InSeq(sender_waiters[j], Line)
    BY Zenon DEF InSeq
  <2>1. Buffered + j \in 1..Len(Line) /\ Buffered + j > Buffered
    BY <1>1
  <2> QED
    BY <1>1, <2>1 DEF DataInv, LineInv, InSeq
<1>4. \A x \in Ops : shut(x) => outcome[x] = "none" \/ Kind[x] = "close"
  BY <1>3 DEF Shut
<1>5. \A x \in SendOps \cup ReceiveOps : Kind[x] # "close"
  BY DEF SendOps, ReceiveOps, SendKinds, AwaitKinds
<1>6. \A y : InSeq(y, Line') => InSeq(y, Line)
  BY <1>1 DEF InSeq
<1> HIDE DEF shut
<1>7. LineInv'
  <2>1. ASSUME NEW i \in 1..Buffered
        PROVE  messages[i] \in SendOps /\ outcome'[messages[i]] \in Got
    <3>1. i \in 1..Len(Line) /\ i <= Buffered
      BY <1>1
    <3>2. messages[i] \in SendOps /\ outcome[messages[i]] \in Got
      BY <1>1, <3>1 DEF DataInv, LineInv
    <3> QED
      BY <1>2, <1>4, <1>5, <3>2, KindsApart
  <2>2. ASSUME NEW i \in 1..Buffered, NEW j \in 1..Buffered, messages[i] = messages[j]
        PROVE  i = j
    <3>1. i \in 1..Len(Line) /\ j \in 1..Len(Line) /\ Line[i] = Line[j]
      BY <1>1, <2>2
    <3> QED
      BY <3>1 DEF DataInv, LineInv
  <2>3. \A i \in 1..Buffered : i <= Buffered /\ ~(i > Buffered)
    BY <1>1
  <2> QED
    BY <1>1, <1>2, <2>1, <2>2, <2>3 DEF LineInv
<1>8. GivenInv'
  <2>1. ASSUME NEW r \in Ops, value'[r] # NoOp PROVE Given(r)'
    <3>1. Given(r) /\ value[r] \in Ops
      BY <1>2, <2>1, KindsApart DEF DataInv, GivenInv, Given
    <3>2. outcome'[r] = outcome[r] /\ outcome'[value[r]] = outcome[value[r]]
      BY <1>2, <1>4, <1>5, <3>1 DEF Given
    <3> QED
      BY <1>2, <1>6, <3>1, <3>2 DEF Given, InSeq
  <2>2. ASSUME NEW r \in ReceiveOps, outcome'[r] = "value" PROVE value'[r] # NoOp
    BY <1>2, <2>2, KindsApart DEF DataInv, GivenInv
  <2>3. ASSUME NEW s \in SendOps, outcome'[s] \in Got
        PROVE  InSeq(s, Line') \/ \E r \in Ops : value'[r] = s
    <3>1. outcome[s] \in Got
      BY <1>2, <2>3, KindsApart
    <3>2. CASE InSeq(s, Line)
      <4>1. PICK i \in 1..Len(Line) : Line[i] = s
        BY <3>2 DEF InSeq
      <4>2. ~(i > Buffered)
        BY <3>1, <4>1 DEF DataInv, LineInv
      <4>3. i \in 1..Buffered
        BY <1>1, <4>2
      <4> QED
        BY <1>1, <4>1, <4>3 DEF InSeq
    <3> QED
      BY <1>2, <3>1, <3>2 DEF DataInv, GivenInv
  <2> QED
    BY <2>1, <2>2, <2>3 DEF GivenInv, InSeq
<1> QED
  BY <1>7, <1>8 DEF DataInv

\* A step on other variables moves no message.
LEMMA QuietData ==
    ASSUME DataInv, Quiet
    PROVE  DataInv'
BY DEF DataInv, LineInv, GivenInv, Given, Quiet, InSeq

-----------------------------------------------------------------------------
(* Each of them is a step of FifoChannel                                     *)

FifoStep == Fifo!Next \/ UNCHANGED Fifo!fvars

USE DEF Fifo!Next, Fifo!fvars

\* Values and outcomes as FifoChannel names them.
Failed == {s \in SendOps : outcome[s] \in Refused}
GaveUp == {r \in ReceiveOps : outcome[r] \in Left \/ (outcome[r] = "aborted" /\ value[r] = NoOp)}
SawClosed == {r \in ReceiveOps : outcome[r] = "closed"}
GotValue == [r \in ReceiveOps |-> value[r]]

\* A send that has no outcome is unsent, a receive that has none waits.
LEMMA NoOutcome ==
    ASSUME TypeOK, DataInv, NEW o \in Ops, outcome[o] = "none"
    PROVE  /\ o \in SendOps /\ ~InSeq(o, Line) => Fifo!Unsent(o)
           /\ o \in ReceiveOps => Fifo!Waiting(o)
<1>1. ASSUME o \in SendOps, ~InSeq(o, Line) PROVE Fifo!Unsent(o)
  <2>1. \A r \in ReceiveOps : value[r] # o
    BY <1>1, KindsApart DEF DataInv, GivenInv, Given
  <2> QED
    BY <1>1, <2>1 DEF Fifo!Unsent, InSeq, Line
<1>2. ASSUME o \in ReceiveOps PROVE Fifo!Waiting(o)
  <2>1. value[o] = NoOp
    BY DEF DataInv, GivenInv, Given
  <2> QED
    BY <1>2, <2>1 DEF Fifo!Waiting
<1> QED
  BY <1>1, <1>2

\* A message that is put in the buffer is put in the abstract queue.
LEMMA SentFifo ==
    ASSUME TypeOK, DataInv, NEW o \in Ops, Sent(o)
    PROVE  FifoStep
<1>1. /\ o \in SendOps /\ Fifo!Unsent(o) /\ ~closed
      /\ Line' = Append(Line, o) /\ closed' = closed
  BY NoOutcome DEF Sent
<1>2. Failed' = Failed /\ GaveUp' = GaveUp /\ SawClosed' = SawClosed /\ GotValue' = GotValue
  BY KindsApart DEF Sent, Failed, GaveUp, SawClosed, GotValue, TypeOK
<1>3. Fifo!Send(o)
  BY <1>1, <1>2 DEF Fifo!Send, Line, Failed, GaveUp, SawClosed, GotValue
<1> QED
  BY <1>1, <1>3 DEF FifoStep

\* So is the message of a sender that waits.
LEMMA QueuedFifo ==
    ASSUME TypeOK, DataInv, NEW o \in Ops, Queued(o)
    PROVE  FifoStep
<1>1. /\ o \in SendOps /\ Fifo!Unsent(o) /\ ~closed
      /\ Line' = Append(Line, o) /\ closed' = closed
  BY NoOutcome DEF Queued
<1>2. Failed' = Failed /\ GaveUp' = GaveUp /\ SawClosed' = SawClosed /\ GotValue' = GotValue
  BY DEF Queued, Failed, GaveUp, SawClosed, GotValue
<1>3. Fifo!Send(o)
  BY <1>1, <1>2 DEF Fifo!Send, Line, Failed, GaveUp, SawClosed, GotValue
<1> QED
  BY <1>1, <1>3 DEF FifoStep

\* A message that is handed over goes through the abstract queue.
LEMMA HandedFifo ==
    ASSUME TypeOK, DataInv, NEW o \in Ops, NEW r \in Ops, Handed(o, r)
    PROVE  FifoStep
<1>1. /\ o \in SendOps /\ Fifo!Unsent(o) /\ r \in ReceiveOps /\ Fifo!Waiting(r) /\ ~closed
      /\ Line' = Line /\ closed' = closed /\ Line = <<>>
  BY NoOutcome DEF Handed
<1>2. Failed' = Failed /\ GaveUp' = GaveUp /\ SawClosed' = SawClosed
  <2>1. /\ outcome' = [outcome EXCEPT ![r] = "value", ![o] = "sent"]
        /\ value' = [value EXCEPT ![r] = o] /\ outcome[o] = "none" /\ outcome[r] = "none"
    BY DEF Handed
  <2>2. Failed' = Failed /\ SawClosed' = SawClosed
    BY <2>1, KindsApart DEF Failed, SawClosed, TypeOK
  <2>3. GaveUp' = GaveUp
    BY <2>1, <1>1, KindsApart DEF GaveUp, TypeOK
  <2> QED
    BY <2>2, <2>3
<1>3. GotValue' = [GotValue EXCEPT ![r] = o]
  BY <1>1, KindsApart DEF Handed, GotValue, TypeOK
<1>4. Fifo!HandOff(o, r)
  BY <1>1, <1>2, <1>3 DEF Fifo!HandOff, Line, Failed, GaveUp, SawClosed, GotValue
<1> QED
  BY <1>1, <1>4 DEF FifoStep

\* A call that ends without a message leaves the abstract queue alone, or takes its
\* own out.
LEMMA EndedFifo ==
    ASSUME TypeOK, DataInv, NEW o \in Ops, NEW why, Ended(o, why)
    PROVE  FifoStep
<1>1. /\ outcome' = [outcome EXCEPT ![o] = why] /\ outcome \in [Ops -> Outcomes]
      /\ Line' = Line /\ value' = value /\ closed' = closed
      /\ outcome[o] = "none"
  BY DEF Ended, TypeOK
<1>2. GotValue' = GotValue
  BY <1>1 DEF GotValue
<1>3. CASE o \in SendOps /\ why \in Refused
  <2>1. Failed' = Failed \cup {o} /\ GaveUp' = GaveUp /\ SawClosed' = SawClosed
    BY <1>1, <1>3, KindsApart DEF Failed, GaveUp, SawClosed
  <2>2. Fifo!Unsent(o)
    BY <1>1, <1>3, NoOutcome DEF Ended
  <2>3. Fifo!Refuse(o)
    BY <1>1, <1>2, <2>1, <2>2 DEF Fifo!Refuse, Line, Failed, GaveUp, SawClosed, GotValue
  <2> QED
    BY <1>3, <2>3 DEF FifoStep
<1>4. CASE o \in ReceiveOps /\ why \in Left
  <2>1. Failed' = Failed /\ GaveUp' = GaveUp \cup {o} /\ SawClosed' = SawClosed
    BY <1>1, <1>4, KindsApart DEF Failed, GaveUp, SawClosed
  <2>2. Fifo!Waiting(o)
    BY <1>1, <1>4, NoOutcome
  <2>3. Fifo!GiveUp(o)
    BY <1>1, <1>2, <2>1, <2>2 DEF Fifo!GiveUp, Line, Failed, GaveUp, SawClosed, GotValue
  <2> QED
    BY <1>4, <2>3 DEF FifoStep
<1>5. CASE o \in ReceiveOps /\ why = "closed" /\ closed /\ Line = <<>>
  <2>1. Failed' = Failed /\ GaveUp' = GaveUp /\ SawClosed' = SawClosed \cup {o}
    BY <1>1, <1>5, KindsApart DEF Failed, GaveUp, SawClosed
  <2>2. Fifo!Waiting(o)
    BY <1>1, <1>5, NoOutcome
  <2>3. Fifo!SeeClosed(o)
    BY <1>1, <1>2, <1>5, <2>1, <2>2 DEF Fifo!SeeClosed, Line, Failed, GaveUp, SawClosed, GotValue
  <2> QED
    BY <1>5, <2>3 DEF FifoStep
<1> QED
  BY <1>3, <1>4, <1>5 DEF Ended

\* So does a call that throws.
LEMMA ThrownFifo ==
    ASSUME TypeOK, DataInv, NEW o \in Ops, Thrown(o)
    PROVE  FifoStep
<1>1. /\ outcome' = [outcome EXCEPT ![o] = "aborted"] /\ outcome \in [Ops -> Outcomes]
      /\ Line' = Line /\ value' = value /\ closed' = closed
      /\ o \in SendOps => outcome[o] = "sent"
      /\ o \in ReceiveOps => outcome[o] \in {"value", "error"}
      /\ o \in ReceiveOps /\ outcome[o] = "value" => value[o] # NoOp
      /\ o \in ReceiveOps /\ outcome[o] = "error" => value[o] = NoOp
  BY DEF Thrown, TypeOK, DataInv, GivenInv, Given
<1>2. Failed' = Failed
  BY <1>1, KindsApart DEF Failed
<1>3. GaveUp' = GaveUp
  BY <1>1, KindsApart DEF GaveUp
<1>4. SawClosed' = SawClosed
  BY <1>1, KindsApart DEF SawClosed
<1>5. GotValue' = GotValue
  BY <1>1 DEF GotValue
<1>6. UNCHANGED Fifo!fvars
  BY <1>1, <1>2, <1>3, <1>4, <1>5 DEF Line, Failed, GaveUp, SawClosed, GotValue
<1> QED
  BY <1>6 DEF FifoStep

\* A message that is received is the first of the abstract queue.
LEMMA TakenFifo ==
    ASSUME TypeOK, TypeOK', DataInv, NEW o \in Ops, Taken(o)
    PROVE  FifoStep
<1> DEFINE freed(x) == \E i \in 1..Len(Line) : i > Buffered /\ i <= Buffered' + 1 /\ x = Line[i]
<1>1. /\ \A x \in Ops : /\ outcome'[x] = IF x = o THEN "value"
                                         ELSE IF freed(x) THEN "sent" ELSE outcome[x]
                       /\ value'[x] = IF x = o THEN Head(Line) ELSE value[x]
      /\ o \in ReceiveOps /\ outcome[o] = "none" /\ Line # <<>> /\ Line' = Tail(Line)
      /\ closed' = closed
  BY DEF Taken
<1>2. \A x \in Ops : freed(x) => x \in SendOps /\ outcome[x] = "none"
  BY DEF DataInv, LineInv
<1> HIDE DEF freed
<1>3. Fifo!Waiting(o)
  BY <1>1, NoOutcome
<1>4. Failed' = Failed
  <2>1. \A s \in SendOps : outcome'[s] \in Refused <=> outcome[s] \in Refused
    BY <1>1, <1>2, KindsApart
  <2> QED
    BY <2>1 DEF Failed
<1>5. GaveUp' = GaveUp /\ SawClosed' = SawClosed
  <2>1. \A r \in ReceiveOps : /\ r # o => outcome'[r] = outcome[r] /\ value'[r] = value[r]
                              /\ outcome'[o] = "value"
    BY <1>1, <1>2, KindsApart
  <2> QED
    BY <1>1, <2>1 DEF GaveUp, SawClosed
<1>6. GotValue' = [GotValue EXCEPT ![o] = Head(Line)]
  BY <1>1, KindsApart DEF GotValue
<1>7. Fifo!Recv(o)
  BY <1>1, <1>3, <1>4, <1>5, <1>6 DEF Fifo!Recv, Line, Failed, GaveUp, SawClosed, GotValue
<1> QED
  BY <1>1, <1>7 DEF FifoStep

\* close() keeps what is buffered and refuses what suspended senders hold.
LEMMA ShutFifo ==
    ASSUME TypeOK, DataInv, NEW o \in Ops, NEW W, Shut(o, W)
    PROVE  FifoStep
<1> DEFINE dropped == {Line[i] : i \in (Buffered + 1)..Len(Line)}
<1>0. /\ Line \in Seq(Ops) /\ Len(Line) = Buffered + Len(sender_waiters)
      /\ Buffered \in Nat /\ Len(sender_waiters) \in Nat
      /\ \A i \in 1..Buffered : messages[i] = Line[i]
      /\ \A i \in 1..Len(sender_waiters) : Line[Buffered + i] = sender_waiters[i]
  BY LineType
<1>1. /\ Line \in Seq(Ops) /\ messages \in Seq(Ops) /\ Line' = messages
      /\ Len(messages) = Buffered /\ Buffered \in 0..Len(Line) /\ Len(Line) \in Nat
      /\ \A i \in 1..Buffered : messages[i] = Line[i]
      /\ Len(Line) = Buffered + Len(sender_waiters) /\ Len(sender_waiters) \in Nat
      /\ \A i \in 1..Len(sender_waiters) : Line[Buffered + i] = sender_waiters[i]
  <2>1. messages \in Seq(Ops) /\ Len(messages) = Buffered /\ Line' = messages
    BY DEF Shut, TypeOK, Buffered
  <2>2. Buffered \in 0..Len(Line) /\ Len(Line) \in Nat
    BY <1>0
  <2> QED
    BY <1>0, <2>1, <2>2
<1>2. messages = SubSeq(Line, 1, Buffered)
  <2>1. \A i \in 1..Buffered : Line[i] \in Ops
    BY <1>1, ElementOfSeq
  <2>2. /\ SubSeq(Line, 1, Buffered) \in Seq(Ops)
        /\ Len(SubSeq(Line, 1, Buffered)) = Buffered
        /\ \A i \in 1..Buffered : SubSeq(Line, 1, Buffered)[i] = Line[i]
    BY <1>1, <2>1, SubSeqProperties
  <2> QED
    BY <1>1, <2>2, SeqEqual
<1>3. \A x : InSeq(x, sender_waiters) <=> x \in dropped
  <2>1. ASSUME NEW i \in 1..Len(sender_waiters) PROVE sender_waiters[i] \in dropped
    <3>1. Buffered + i \in (Buffered + 1)..Len(Line)
      BY <1>1
    <3> QED
      BY <1>1, <3>1
  <2>2. ASSUME NEW i \in (Buffered + 1)..Len(Line) PROVE InSeq(Line[i], sender_waiters)
    <3>1. i - Buffered \in 1..Len(sender_waiters) /\ Buffered + (i - Buffered) = i
      BY <1>1
    <3>2. sender_waiters[i - Buffered] = Line[i]
      BY <1>1, <3>1
    <3> QED
      BY <3>1, <3>2 DEF InSeq
  <2> QED
    BY <2>1, <2>2 DEF InSeq
<1>4. \A x \in dropped : x \in SendOps /\ outcome[x] = "none"
  <2>1. \A i \in (Buffered + 1)..Len(Line) : i \in 1..Len(Line) /\ i > Buffered
    BY <1>1
  <2> QED
    BY <2>1 DEF DataInv, LineInv
<1> HIDE DEF dropped
<1>5. /\ \A x \in Ops : outcome'[x] = IF x = o \/ x \in W \/ x \in dropped
                                       THEN "closed" ELSE outcome[x]
      /\ value' = value /\ closed' = TRUE /\ W \subseteq ReceiveOps
      /\ o \notin SendOps /\ o \notin ReceiveOps
      /\ \A r \in W : outcome[r] = "none"
      /\ W # {} => Line = <<>>
  BY <1>3 DEF Shut, SendOps, ReceiveOps, SendKinds, AwaitKinds
<1>6. Failed' = Failed \cup dropped
  <2>1. \A s \in SendOps : outcome'[s] \in Refused <=> outcome[s] \in Refused \/ s \in dropped
    BY <1>5, KindsApart
  <2> QED
    BY <1>4, <2>1 DEF Failed
<1>7. GaveUp' = GaveUp /\ SawClosed' = SawClosed \cup W
  <2>1. \A r \in ReceiveOps : outcome'[r] = IF r \in W THEN "closed" ELSE outcome[r]
    BY <1>4, <1>5, KindsApart
  <2>2. GaveUp' = GaveUp
    BY <1>5, <2>1 DEF GaveUp
  <2>3. SawClosed' = SawClosed \cup W
    BY <1>5, <2>1 DEF SawClosed
  <2> QED
    BY <2>2, <2>3
<1>8. GotValue' = GotValue
  BY <1>5 DEF GotValue
<1>9. \A r \in W : Fifo!Waiting(r)
  BY <1>5, NoOutcome, KindsApart
<1>10. Fifo!Close(Buffered, W)
  BY <1>1, <1>2, <1>5, <1>6, <1>7, <1>8, <1>9
  DEF Fifo!Close, Line, Failed, GaveUp, SawClosed, GotValue, dropped
<1>11. W \in SUBSET ReceiveOps /\ Buffered \in 0..Len(messages \o sender_waiters)
  BY <1>1, <1>5 DEF Line
<1> QED
  BY <1>10, <1>11 DEF FifoStep

\* A step on other variables leaves the abstract queue alone.
LEMMA QuietFifo ==
    ASSUME Quiet
    PROVE  FifoStep
<1>1. UNCHANGED Fifo!fvars
  BY DEF Quiet, Line
<1> QED
  BY <1>1 DEF FifoStep

\* What a step does to the values, and what follows from it.
Effect == \/ Quiet
          \/ \E o \in Ops : \/ Sent(o) \/ Queued(o) \/ Taken(o) \/ Thrown(o)
                            \/ \E r \in Ops : Handed(o, r)
                            \/ \E why \in Outcomes : Ended(o, why)
                            \/ \E W \in SUBSET Ops : Shut(o, W)

\* Whatever a call does to the messages, the line and the abstract queue agree.
LEMMA EffectStep ==
    ASSUME TypeOK, TypeOK', DataInv, Effect
    PROVE  DataInv' /\ FifoStep
<1>1. CASE Quiet
  BY <1>1, QuietData, QuietFifo
<1>2. ASSUME NEW o \in Ops, Sent(o) PROVE DataInv' /\ FifoStep
  BY <1>2, SentData, SentFifo
<1>3. ASSUME NEW o \in Ops, Queued(o) PROVE DataInv' /\ FifoStep
  BY <1>3, QueuedData, QueuedFifo
<1>4. ASSUME NEW o \in Ops, Taken(o) PROVE DataInv' /\ FifoStep
  BY <1>4, TakenData, TakenFifo
<1>5. ASSUME NEW o \in Ops, Thrown(o) PROVE DataInv' /\ FifoStep
  BY <1>5, ThrownData, ThrownFifo
<1>6. ASSUME NEW o \in Ops, NEW r \in Ops, Handed(o, r) PROVE DataInv' /\ FifoStep
  BY <1>6, HandedData, HandedFifo
<1>7. ASSUME NEW o \in Ops, NEW why \in Outcomes, Ended(o, why) PROVE DataInv' /\ FifoStep
  BY <1>7, EndedData, EndedFifo
<1>8. ASSUME NEW o \in Ops, NEW W \in SUBSET Ops, Shut(o, W) PROVE DataInv' /\ FifoStep
  BY <1>8, ShutData, ShutFifo
<1> QED
  BY <1>1, <1>2, <1>3, <1>4, <1>5, <1>6, <1>7, <1>8, Zenon DEF Effect

-----------------------------------------------------------------------------
(* The steps of Channel and their effects *)

\* A suspended sender is active, for its timer cannot fire and it is not popped
\* before it is completed.
LEMMA SendersActive ==
    ASSUME TypeOK, DataInv
    PROVE  /\ ActiveIdx(sender_waiters) = 1..Len(sender_waiters)
           /\ Prune(sender_waiters) = sender_waiters
           /\ ActiveWaiters(sender_waiters) = sender_waiters
<1> DEFINE q == sender_waiters
           n == Len(q)
<1>1. q \in Seq(Ops) /\ n \in Nat
  BY LenProperties DEF TypeOK
<1>2. ASSUME NEW i \in 1..n PROVE outcome[q[i]] = "none"
  <2>1. /\ Buffered + i \in 1..Len(Line) /\ Buffered + i > Buffered
        /\ Line[Buffered + i] = q[i]
    <3>1. Len(Line) = Buffered + n /\ Buffered \in Nat /\ Line[Buffered + i] = q[i]
      BY LineType
    <3> QED
      BY <1>1, <3>1
  <2> QED
    BY <2>1 DEF DataInv, LineInv
<1>3. ActiveIdx(q) = 1..n
  BY <1>2 DEF ActiveIdx
<1> HIDE DEF q, n
<1>4. CASE n = 0
  <2>1. q = <<>> /\ ActiveIdx(q) = {}
    BY <1>1, <1>3, <1>4, EmptySeq DEF n
  <2>2. Prune(q) = q
    BY <2>1 DEF Prune
  <2>3. Len(ActiveWaiters(q)) = 0 /\ ActiveWaiters(q) \in Seq(Ops)
    BY <1>1, <2>1, ActiveWaitersFacts, FS_EmptySet
  <2>4. ActiveWaiters(q) = q
    BY <2>1, <2>3, EmptySeq
  <2> QED
    BY <1>3, <2>2, <2>4 DEF q, n
<1>5. CASE n # 0
  <2>1. 1 \in ActiveIdx(q) /\ ActiveIdx(q) \subseteq Nat /\ ActiveIdx(q) # {}
    <3>1. 1 \in 1..n
      BY <1>1, <1>5
    <3> QED
      BY <1>1, <1>3, <3>1, ActiveIdxFinite
  <2>2. Least(ActiveIdx(q)) = 1
    <3>1. Least(ActiveIdx(q)) \in 1..n /\ Least(ActiveIdx(q)) <= 1
      BY <1>3, <2>1, LeastIsLeast
    <3> QED
      BY <1>1, <3>1
  <2>3. \A i \in 1..n : q[i] \in Ops
    BY <1>1, ElementOfSeq DEF n
  <2>4. Prune(q) = q
    <3>1. Prune(q) = SubSeq(q, 1, n)
      BY <2>1, <2>2 DEF Prune, n
    <3>2. /\ SubSeq(q, 1, n) \in Seq(Ops) /\ Len(SubSeq(q, 1, n)) = n
          /\ \A i \in 1..n : SubSeq(q, 1, n)[i] = q[i]
      BY <1>1, <2>3, SubSeqProperties
    <3> QED
      BY <1>1, <3>1, <3>2, SeqEqual DEF n
  <2>5. IsFiniteSet(1..n) /\ Cardinality(1..n) = n /\ 1..n \subseteq Nat
    BY <1>1, FS_Interval
  <2>6. ASSUME NEW i \in 1..n PROVE Nth(1..n, i) = i
    <3>1. UpTo(1..n, i) = 1..i
      BY <1>1 DEF UpTo
    <3>2. Cardinality(1..i) = i
      BY <1>1, FS_Interval
    <3>3. Nth(1..n, Cardinality(UpTo(1..n, i))) = i
      BY <2>5, NthOfRank
    <3> QED
      BY <3>1, <3>2, <3>3
  <2>7. ActiveWaiters(q) = [i \in 1..n |-> q[Nth(1..n, i)]]
    BY <1>3, <2>5 DEF ActiveWaiters
  <2>8. ActiveWaiters(q) \in Seq(Ops) /\ Len(ActiveWaiters(q)) = n
    BY <1>1, <1>3, <2>5, ActiveWaitersFacts
  <2>9. \A i \in 1..n : ActiveWaiters(q)[i] = q[i]
    BY <2>6, <2>7
  <2>10. ActiveWaiters(q) = q
    BY <1>1, <2>8, <2>9, SeqEqual DEF n
  <2> QED
    BY <1>3, <2>4, <2>10 DEF q, n
<1> QED
  BY <1>4, <1>5

\* What taking the front does to the line: its first value leaves, and the buffer
\* is refilled with the values next in line.
LEMMA TakeFrontData ==
    ASSUME TypeOK, WaitInv, DataInv, Available
    PROVE  /\ Line # <<>> /\ Front = Head(Line) /\ Buffered > 0
           /\ TakeFront.messages \o TakeFront.senders = Tail(Line)
           /\ Len(TakeFront.messages) \in (Buffered - 1)..(Len(Line) - 1)
           /\ \A x : InSeq(x, TakeFront.freed) <=>
                 \E i \in 1..Len(Line) :
                    i > Buffered /\ i <= Len(TakeFront.messages) + 1 /\ x = Line[i]
<1> DEFINE m == Tail(messages)
           S == sender_waiters
           b == Refill
<1>1. /\ messages # <<>> /\ messages \in Seq(Ops) /\ S \in Seq(Ops)
      /\ ActiveWaiters(S) = S /\ Prune(S) = S
  BY TakeFrontForm, SendersActive DEF TypeOK
<1>2. /\ Line \in Seq(Ops) /\ Line # <<>> /\ Len(Line) = Buffered + Len(S)
      /\ Buffered \in Nat /\ Len(S) \in Nat
      /\ \A i \in 1..Buffered : Line[i] = messages[i]
      /\ \A i \in 1..Len(S) : Line[Buffered + i] = S[i]
  BY <1>1, LineType
<1>3. Front = Head(Line)
  BY <1>1 DEF Front, Line
<1>4. /\ m \in Seq(Ops) /\ Len(m) = Buffered - 1 /\ Buffered \in Nat \ {0}
      /\ Rest = m \o S /\ Rest \in Seq(Ops) /\ Len(Rest) = Len(m) + Len(S)
      /\ b \in 0..Len(Rest) /\ Len(Rest) \in Nat /\ Len(m) <= b
  BY <1>1, TakeFrontForm DEF Buffered, Rest
<1>5. /\ TakeFront.messages = SubSeq(Rest, 1, b)
      /\ TakeFront.senders = SubSeq(Rest, b + 1, Len(Rest))
      /\ TakeFront.freed = SubSeq(S, 1, b - Len(m))
  BY <1>1, TakeFrontForm
<1>6. Rest = Tail(Line)
  <2>1. /\ Len(Tail(Line)) = Len(Line) - 1 /\ Tail(Line) \in Seq(Ops)
        /\ \A i \in 1..(Len(Line) - 1) : Tail(Line)[i] = Line[i + 1]
    BY <1>2, HeadTailProperties
  <2>2. \A i \in 1..Len(m) : m[i] = messages[i + 1]
    BY <1>1, HeadTailProperties
  <2> HIDE DEF m, b
  <2>3. /\ Len(Rest) = Len(Line) - 1
        /\ \A i \in 1..Len(Rest) : Rest[i] = IF i <= Len(m) THEN m[i] ELSE S[i - Len(m)]
    <3>1. \A i \in 1..(Len(m) + Len(S)) :
             (m \o S)[i] = IF i <= Len(m) THEN m[i] ELSE S[i - Len(m)]
      BY <1>1, <1>4, ConcatProperties
    <3>2. Len(Rest) = Len(Line) - 1
      BY <1>2, <1>4
    <3> QED
      BY <1>4, <3>1, <3>2
  <2>4. ASSUME NEW i \in 1..Len(Rest) PROVE Rest[i] = Line[i + 1]
    <3>1. CASE i <= Len(m)
      <4>1. i \in 1..Len(m) /\ i + 1 \in 1..Buffered
        BY <1>4, <3>1
      <4> QED
        BY <1>2, <2>2, <2>3, <3>1, <4>1
    <3>2. CASE ~(i <= Len(m))
      <4>1. /\ i - Len(m) \in 1..Len(S) /\ Buffered + (i - Len(m)) = i + 1
        <5>1. /\ i \in Nat /\ i <= Len(m) + Len(S) /\ Len(m) = Buffered - 1
              /\ Buffered \in Nat /\ Len(S) \in Nat
          BY <1>2, <1>4
        <5> QED
          BY <3>2, <5>1
      <4>2. Line[i + 1] = S[i - Len(m)]
        BY <1>2, <4>1
      <4> QED
        BY <2>3, <3>2, <4>2
    <3> QED
      BY <3>1, <3>2
  <2> QED
    BY <1>4, <2>1, <2>3, <2>4, SeqEqual
<1> HIDE DEF m, b
<1>7. \A i \in 1..Len(Rest) : Rest[i] \in Ops
  BY <1>4, ElementOfSeq
<1>8. /\ SubSeq(Rest, 1, b) \in Seq(Ops) /\ Len(SubSeq(Rest, 1, b)) = b
      /\ \A i \in 1..b : SubSeq(Rest, 1, b)[i] = Rest[i]
  <2>1. \A i \in 1..b : Rest[i] \in Ops
    BY <1>4, <1>7
  <2> QED
    BY <1>4, <2>1, SubSeqProperties
<1>9. SubSeq(Rest, 1, b) \o SubSeq(Rest, b + 1, Len(Rest)) = Rest
  <2> DEFINE A == SubSeq(Rest, 1, b)
             B == SubSeq(Rest, b + 1, Len(Rest))
  <2>1. \A i \in (b + 1)..Len(Rest) : Rest[i] \in Ops
    BY <1>4, <1>7
  <2>2. B \in Seq(Ops) /\ Len(B) = Len(Rest) - b
    <3>1. /\ B \in Seq(Ops)
          /\ Len(B) = IF b + 1 <= Len(Rest) THEN Len(Rest) - (b + 1) + 1 ELSE 0
      BY <1>4, <2>1, SubSeqProperties
    <3> HIDE DEF B
    <3> QED
      BY <1>4, <3>1
  <2>3. \A i \in 1..(Len(Rest) - b) : B[i] = Rest[b + i]
    <3>1. \A i \in 1..(Len(Rest) - (b + 1) + 1) : B[i] = Rest[(b + 1) + i - 1]
      BY <1>4, <2>1, SubSeqProperties
    <3> HIDE DEF B
    <3>2. ASSUME NEW i \in 1..(Len(Rest) - b) PROVE B[i] = Rest[b + i]
      <4>1. i \in 1..(Len(Rest) - (b + 1) + 1) /\ (b + 1) + i - 1 = b + i
        BY <1>4
      <4> QED
        BY <3>1, <4>1
    <3> QED
      BY <3>2
  <2>4. A \in Seq(Ops) /\ Len(A) = b /\ \A i \in 1..b : A[i] = Rest[i]
    BY <1>8
  <2> HIDE DEF A, B
  <2>5. /\ A \o B \in Seq(Ops) /\ Len(A \o B) = Len(Rest)
        /\ \A i \in 1..Len(Rest) : (A \o B)[i] = IF i <= b THEN A[i] ELSE B[i - b]
    BY <1>4, <2>2, <2>4, ConcatProperties
  <2>6. ASSUME NEW i \in 1..Len(Rest) PROVE (A \o B)[i] = Rest[i]
    <3>1. CASE i <= b
      <4>1. i \in 1..b
        BY <3>1
      <4> QED
        BY <2>4, <2>5, <3>1, <4>1
    <3>2. CASE ~(i <= b)
      <4>1. i - b \in 1..(Len(Rest) - b) /\ b + (i - b) = i
        BY <1>4, <3>2
      <4> QED
        BY <2>3, <2>5, <3>2, <4>1
    <3> QED
      BY <3>1, <3>2
  <2>7. A \o B = Rest
    BY <1>4, <2>5, <2>6, SeqEqual
  <2> QED
    BY <2>7 DEF A, B
<1>10. b \in (Buffered - 1)..(Len(Line) - 1)
  BY <1>2, <1>4
<1>11. ASSUME NEW x
       PROVE  InSeq(x, SubSeq(S, 1, b - Len(m))) <=>
              \E i \in 1..Len(Line) : i > Buffered /\ i <= b + 1 /\ x = Line[i]
  <2> DEFINE k == b - Len(m)
  <2>1. k \in 0..Len(S) /\ k = b + 1 - Buffered
    BY <1>2, <1>4
  <2> HIDE DEF k
  <2>2. \A i \in 1..k : S[i] \in Ops
    BY <1>1, <1>2, <2>1, ElementOfSeq
  <2>3. /\ Len(SubSeq(S, 1, k)) = k
        /\ \A i \in 1..k : SubSeq(S, 1, k)[i] = S[i]
    BY <1>2, <2>1, <2>2, SubSeqProperties
  <2>4. ASSUME NEW i \in 1..k
        PROVE  /\ Buffered + i \in 1..Len(Line) /\ Buffered + i > Buffered
               /\ Buffered + i <= b + 1 /\ S[i] = Line[Buffered + i]
    <3>1. i \in 1..Len(S) /\ Buffered + i \in 1..Len(Line) /\ Buffered + i > Buffered
          /\ Buffered + i <= b + 1
      BY <1>2, <1>4, <2>1
    <3> QED
      BY <1>2, <3>1
  <2>5. ASSUME NEW i \in 1..Len(Line), i > Buffered, i <= b + 1
        PROVE  i - Buffered \in 1..k /\ Line[i] = S[i - Buffered]
    <3>1. i - Buffered \in 1..k /\ i - Buffered \in 1..Len(S) /\ Buffered + (i - Buffered) = i
      BY <1>2, <1>4, <2>1, <2>5
    <3> QED
      BY <1>2, <3>1
  <2>6. InSeq(x, SubSeq(S, 1, k)) <=> \E i \in 1..k : S[i] = x
    BY <2>3 DEF InSeq
  <2>7. (\E i \in 1..k : S[i] = x) <=>
              \E i \in 1..Len(Line) : i > Buffered /\ i <= b + 1 /\ x = Line[i]
    BY <2>4, <2>5
  <2> QED
    BY <2>6, <2>7 DEF k
<1>12. Len(TakeFront.messages) = b /\ TakeFront.messages \o TakeFront.senders = Tail(Line)
  BY <1>5, <1>6, <1>8, <1>9
<1>13. Buffered > 0
  BY <1>4
<1> QED
  BY <1>2, <1>3, <1>5, <1>10, <1>11, <1>12, <1>13

\* A call may only be disturbed by others while it waits: what they do to a call
\* outside of A is to complete it when it is queued, to wake it when it is blocked
\* and to stop or close the timer that it has.
Others(A) ==
    \A x \in Ops \ A :
        /\ pc'[x] = pc[x] \/ (pc[x] = "blocked" /\ pc'[x] = "woken")
        /\ outcome'[x] = outcome[x] \/ (outcome[x] = "none" /\ pc[x] \notin Fresh)
        /\ timer'[x] = timer[x] \/ timer[x] # "none"
        /\ InSeq(x, Line') => InSeq(x, Line)
        /\ InSeq(x, receiver_waiters') => InSeq(x, receiver_waiters)

\* A step of the calls A keeps what holds of the others.
LEMMA CallsStep ==
    ASSUME CallsInv, NEW A \in SUBSET Ops, Others(A), \A o \in A : CallInv(o)'
    PROVE  CallsInv'
<1> SUFFICES ASSUME NEW x \in Ops \ A PROVE CallInv(x)'
  BY DEF CallsInv
<1>1. /\ pc'[x] = pc[x] \/ (pc[x] = "blocked" /\ pc'[x] = "woken")
      /\ outcome'[x] = outcome[x] \/ (outcome[x] = "none" /\ pc[x] \notin Fresh)
      /\ timer'[x] = timer[x] \/ timer[x] # "none"
      /\ InSeq(x, Line') => InSeq(x, Line)
      /\ InSeq(x, receiver_waiters') => InSeq(x, receiver_waiters)
  BY DEF Others
<1>2. CallInv(x)
  BY DEF CallsInv
<1>3. pc'[x] \in Fresh => pc[x] \in Fresh
  BY <1>1 DEF Fresh
<1>4. pc'[x] \in Fresh =>
          /\ outcome'[x] = "none" /\ timer'[x] = "none"
          /\ ~InSeq(x, Line') /\ ~InSeq(x, receiver_waiters')
  BY <1>1, <1>2, <1>3 DEF CallInv
<1>5. pc'[x] = "final" => pc[x] = "final"
  BY <1>1
<1>6. x \in SendOps /\ pc'[x] = "final" => outcome'[x] = "sent"
  BY <1>1, <1>2, <1>5 DEF CallInv
<1>7. x \in ReceiveOps /\ pc'[x] = "final" => outcome'[x] \in {"value", "error"}
  BY <1>1, <1>2, <1>5 DEF CallInv
<1>8. pc'[x] = "posting" \/ timer'[x] # "none" => Kind[x] = "recv_for"
  BY <1>1, <1>2 DEF CallInv
<1> QED
  BY <1>4, <1>6, <1>7, <1>8 DEF CallInv, InSeq

\* Timers are not forgotten, and those that a step is to stop or start exist.
LEMMA TimersStep ==
    ASSUME TypeOK, TypeOK', TimersInv,
           \A x \in Ops : timer[x] # "none" => timer'[x] # "none",
           \A o \in Ops : fin'[o] = fin[o] \/ HaveTimers(fin'[o].timers),
           \A i \in 1..Len(posted') :
              HaveTimers(posted'[i].timers) \/ \E j \in 1..Len(posted) : posted'[i] = posted[j]
    PROVE  TimersInv'
<1>1. \A o \in Ops : fin'[o].timers \in SUBSET Ops
  BY DEF TypeOK, Fins
<1>2. \A i \in 1..Len(posted') : posted'[i].timers \in SUBSET Ops
  <2>1. \A i \in 1..Len(posted') : posted'[i] \in Closures
    BY ElementOfSeq DEF TypeOK
  <2> QED
    BY <2>1 DEF Closures
<1>3. \A o \in Ops : HaveTimers(fin'[o].timers)
  BY DEF TimersInv
<1>4. \A i \in 1..Len(posted') : HaveTimers(posted'[i].timers)
  BY DEF TimersInv
<1>5. ASSUME NEW T \in SUBSET Ops, HaveTimers(T) PROVE \A x \in T : timer'[x] # "none"
  BY <1>5 DEF HaveTimers
<1> QED
  BY <1>1, <1>2, <1>3, <1>4, <1>5 DEF TimersInv, HaveTimers

\* A waiter that is in the queue is an operation that waits to receive.
LEMMA WaiterFacts ==
    ASSUME TypeOK, CallsInv, WaitersInv, NEW r, InSeq(r, receiver_waiters)
    PROVE  r \in ReceiveOps /\ r \in Ops /\ pc[r] \notin Fresh
<1>1. PICK i \in 1..Len(receiver_waiters) : receiver_waiters[i] = r
  BY DEF InSeq
<1>2. r \in Ops /\ r \in ReceiveOps
  BY <1>1, KindsApart DEF WaitersInv
<1> QED
  BY <1>2 DEF CallsInv, CallInv

\* So is one in the pruned queue, whose head is active.
LEMMA PrunedWaiters ==
    ASSUME TypeOK
    PROVE  /\ \A x : InSeq(x, Prune(receiver_waiters)) => InSeq(x, receiver_waiters)
           /\ Prune(receiver_waiters) # <<>> =>
                 /\ InSeq(Head(Prune(receiver_waiters)), receiver_waiters)
                 /\ outcome[Head(Prune(receiver_waiters))] = "none"
                 /\ \A x : InSeq(x, Tail(Prune(receiver_waiters))) => InSeq(x, receiver_waiters)
<1> DEFINE q == receiver_waiters
           R == Prune(q)
<1>1. /\ R \in Seq(Ops)
      /\ \A i \in 1..Len(R) : \E j \in 1..Len(q) : R[i] = q[j]
      /\ R # <<>> => outcome[Head(R)] = "none"
  BY PruneFacts DEF TypeOK
<1> HIDE DEF R
<1>2. ASSUME NEW x, InSeq(x, R) PROVE InSeq(x, q)
  BY <1>1, <1>2 DEF InSeq
<1>3. ASSUME R # <<>> PROVE InSeq(Head(R), R)
  <2>1. Len(R) \in Nat \ {0} /\ Head(R) = R[1]
    BY <1>1, <1>3, EmptySeq, LenProperties
  <2> QED
    BY <2>1 DEF InSeq
<1>4. ASSUME R # <<>>, NEW x, InSeq(x, Tail(R)) PROVE InSeq(x, R)
  <2>1. /\ Len(Tail(R)) = Len(R) - 1 /\ Len(R) \in Nat
        /\ \A i \in 1..Len(Tail(R)) : Tail(R)[i] = R[i + 1]
    BY <1>1, <1>4, HeadTailProperties, LenProperties
  <2>2. PICK i \in 1..Len(Tail(R)) : Tail(R)[i] = x
    BY <1>4 DEF InSeq
  <2>3. i + 1 \in 1..Len(R) /\ R[i + 1] = x
    BY <2>1, <2>2
  <2> QED
    BY <2>3 DEF InSeq
<1> QED
  BY <1>1, <1>2, <1>3, <1>4 DEF R

\* Only receivers are queued to receive.
LEMMA WaitersStep ==
    ASSUME WaitersInv, \A x : InSeq(x, receiver_waiters') =>
                                 InSeq(x, receiver_waiters) \/ x \in ReceiveOps
    PROVE  WaitersInv'
<1> SUFFICES ASSUME NEW i \in 1..Len(receiver_waiters')
             PROVE  receiver_waiters'[i] \in ReceiveOps
  BY DEF WaitersInv
<1>1. InSeq(receiver_waiters'[i], receiver_waiters')
  BY DEF InSeq
<1>2. CASE InSeq(receiver_waiters'[i], receiver_waiters)
  BY <1>2 DEF InSeq, WaitersInv
<1> QED
  BY <1>1, <1>2

\* Nothing is posted and no timer is touched, except that call o gives up its own.
LEMMA TimersKept ==
    ASSUME TypeOK, TypeOK', TimersInv, UNCHANGED <<timer, posted>>,
           \A x \in Ops : fin'[x] = fin[x] \/ HaveTimers(fin'[x].timers)
    PROVE  TimersInv'
BY TimersStep

\* A call that leaves is done, or has work left.
LEMMA LeaveFacts ==
    ASSUME TypeOK, NEW o \in Ops, NEW f, Leave(o, f)
    PROVE  /\ pc'[o] = IF f = NoFin THEN "done" ELSE "final"
           /\ fin'[o] = f
           /\ \A x \in Ops \ {o} : pc'[x] = pc[x] /\ fin'[x] = fin[x]
BY DEF Leave, TypeOK

\* A call that leaves nothing behind, and the timers of a queue, have timers only.
LEMMA NoTimers == HaveTimers(NoFin.timers) /\ \A q : HaveTimers(TimersOf(q))
BY DEF HaveTimers, NoFin, TimersOf, HasTimer

\* A call ends without a value.
Step == Effect /\ CoreInv'

\* A call that fails at once touches no message.
LEMMA FailEffect ==
    ASSUME TypeOK, TypeOK', CoreInv, NEW o \in Ops, pc[o] \in Fresh, NEW why \in Outcomes,
           \/ o \in SendOps /\ why \in Refused
           \/ o \in ReceiveOps /\ why \in Left
           \/ o \in ReceiveOps /\ why = "closed" /\ closed /\ Line = <<>>,
           outcome' = [outcome EXCEPT ![o] = why], Leave(o, NoFin),
           UNCHANGED <<messages, sender_waiters, closed, value, timer, posted>>,
           PruneOnRefusal \/ UNCHANGED receiver_waiters
    PROVE  Step
<1>1. outcome[o] = "none" /\ timer[o] = "none" /\ ~InSeq(o, Line)
  BY DEF CoreInv, CallsInv, CallInv
<1>2. Line' = Line /\ Buffered' = Buffered
  BY DEF Line, Buffered
<1>3. Ended(o, why)
  BY <1>1, <1>2 DEF Ended
<1>4. Effect
  BY <1>3 DEF Effect
<1>5. \A x : InSeq(x, receiver_waiters') => InSeq(x, receiver_waiters)
  BY PrunedWaiters DEF PruneOnRefusal
<1>6. /\ pc'[o] = "done" /\ fin'[o] = NoFin
      /\ \A x \in Ops \ {o} : pc'[x] = pc[x] /\ fin'[x] = fin[x]
  BY LeaveFacts
<1>7. \A x \in Ops \ {o} : outcome'[x] = outcome[x]
  BY DEF TypeOK
<1>8. Others({o})
  BY <1>2, <1>5, <1>6, <1>7 DEF Others
<1>9. CallInv(o)'
  BY <1>1, <1>6 DEF CallInv, Fresh
<1>10. CallsInv'
  BY <1>8, <1>9, CallsStep DEF CoreInv
<1>11. WaitersInv'
  BY <1>5, WaitersStep DEF CoreInv
<1>12. TimersInv'
  BY <1>6, NoTimers, TimersKept DEF CoreInv
<1> QED
  BY <1>4, <1>10, <1>11, <1>12 DEF Step, CoreInv

\* A call goes on from one of its running states to another.
LEMMA PassEffect ==
    ASSUME TypeOK, TypeOK', CoreInv, NEW o \in Ops, pc[o] \in Fresh,
           NEW to \in PCs, to \in Fresh, pc' = [pc EXCEPT ![o] = to],
           UNCHANGED <<messages, sender_waiters, closed, outcome, value, fin, timer, posted>>,
           PruneOnRefusal \/ UNCHANGED receiver_waiters
    PROVE  Step
<1>1. Line' = Line /\ Buffered' = Buffered
  BY DEF Line, Buffered
<1>2. Effect
  BY <1>1 DEF Effect, Quiet
<1>3. \A x : InSeq(x, receiver_waiters') => InSeq(x, receiver_waiters)
  BY PrunedWaiters DEF PruneOnRefusal
<1>4. pc'[o] = to /\ \A x \in Ops \ {o} : pc'[x] = pc[x]
  BY DEF TypeOK
<1>5. Others({o})
  BY <1>1, <1>3, <1>4 DEF Others
<1>6. CallInv(o)
  BY DEF CoreInv, CallsInv
<1>7. CallInv(o)'
  <2>1. outcome[o] = "none" /\ timer[o] = "none" /\ ~InSeq(o, Line) /\ ~InSeq(o, receiver_waiters)
    BY <1>6 DEF CallInv
  <2>2. ~InSeq(o, Line') /\ ~InSeq(o, receiver_waiters')
    BY <1>1, <1>3, <2>1
  <2> QED
    BY <1>4, <2>1, <2>2 DEF CallInv, Fresh, InSeq
<1>8. CallsInv'
  BY <1>5, <1>7, CallsStep DEF CoreInv
<1>9. WaitersInv'
  BY <1>3, WaitersStep DEF CoreInv
<1>10. TimersInv'
  BY TimersKept DEF CoreInv
<1> QED
  BY <1>2, <1>8, <1>9, <1>10 DEF Step, CoreInv

\* A send that is placed, with a receiver or in the buffer.
LEMMA SendNowEffect ==
    ASSUME TypeOK, TypeOK', WaitInv, DataInv, CoreInv,
           NEW o \in Ops, o \in SendOps, pc[o] \in Fresh, SendNow(o)
    PROVE  Step
<1> DEFINE R == Prune(receiver_waiters)
           r == Head(R)
<1>1. /\ sender_waiters = <<>> /\ ~closed
      /\ UNCHANGED <<sender_waiters, closed, timer, posted>>
  <2>1. Prune(sender_waiters) = <<>> /\ ~closed
    BY DEF SendNow, CanSendNow
  <2>2. sender_waiters = <<>>
    BY <2>1, SendersActive
  <2>3. UNCHANGED <<sender_waiters, ready_senders, closed, timer, loopv>>
    BY Zenon DEF SendNow, PlaceSend
  <2> QED
    BY <2>1, <2>2, <2>3
<1>2. /\ outcome[o] = "none" /\ timer[o] = "none"
      /\ ~InSeq(o, Line) /\ ~InSeq(o, receiver_waiters)
  BY DEF CoreInv, CallsInv, CallInv
<1>3. Line = messages /\ Line' = messages' /\ Buffered = Len(Line)
  BY <1>1, ConcatEmptySeq DEF TypeOK, Line, Buffered
<1>4. CASE R # <<>>
  <2>1. /\ InSeq(r, receiver_waiters) /\ outcome[r] = "none"
        /\ \A x : InSeq(x, Tail(R)) => InSeq(x, receiver_waiters)
        /\ r \in ReceiveOps /\ r \in Ops /\ pc[r] \notin Fresh
    BY <1>4, PrunedWaiters, WaiterFacts DEF CoreInv
  <2>2. /\ receiver_waiters' = Tail(R)
        /\ outcome' = [outcome EXCEPT ![r] = "value", ![o] = "sent"]
        /\ value' = [value EXCEPT ![r] = o]
        /\ messages' = messages
        /\ Leave(o, [wake |-> TRUE, notify |-> FALSE, timers |-> TimersOf(<<r>>)])
    BY <1>4 DEF SendNow, PlaceSend
  <2>3. Line = <<>>
    <3>1. ActiveIdx(receiver_waiters) # {}
      BY <1>4, PruneFacts DEF TypeOK
    <3> QED
      BY <1>3, <3>1 DEF WaitInv, ReceiversWaitOnEmpty
  <2> HIDE DEF R, r
  <2>4. Handed(o, r)
    BY <1>1, <1>2, <1>3, <2>1, <2>2, <2>3 DEF Handed, Buffered
  <2>5. Effect
    BY <2>1, <2>4 DEF Effect
  <2> DEFINE f == [wake |-> TRUE, notify |-> FALSE, timers |-> TimersOf(<<r>>)]
  <2>6. f # NoFin /\ f.timers = TimersOf(<<r>>)
    BY DEF NoFin
  <2> HIDE DEF f
  <2>7. /\ pc'[o] = "final" /\ fin'[o] = f
        /\ \A x \in Ops \ {o} : pc'[x] = pc[x] /\ fin'[x] = fin[x]
    BY <2>2, <2>6, LeaveFacts DEF f
  <2>8. /\ outcome'[o] = "sent"
        /\ \A x \in Ops \ {o, r} : outcome'[x] = outcome[x]
    BY <2>2 DEF TypeOK
  <2>9. Others({o})
    BY <1>1, <1>3, <2>1, <2>2, <2>7, <2>8 DEF Others
  <2>10. CallInv(o)'
    BY <1>1, <1>2, <2>7, <2>8, KindsApart DEF CallInv, Fresh
  <2>11. CallsInv'
    BY <2>9, <2>10, CallsStep DEF CoreInv
  <2>12. WaitersInv'
    BY <2>1, <2>2, WaitersStep DEF CoreInv
  <2>13. TimersInv'
    BY <1>1, <2>6, <2>7, NoTimers, TimersKept DEF CoreInv
  <2> QED
    BY <2>5, <2>11, <2>12, <2>13 DEF Step, CoreInv
<1>5. CASE R = <<>>
  <2>1. /\ receiver_waiters' = <<>> /\ value' = value /\ messages' = Append(messages, o)
        /\ outcome' = [outcome EXCEPT ![o] = "sent"] /\ Leave(o, NoFin)
    BY <1>5 DEF SendNow, PlaceSend
  <2>2. Buffered' = Buffered + 1
    BY <2>1, AppendProperties DEF TypeOK, Buffered
  <2>3. Sent(o)
    BY <1>1, <1>2, <1>3, <2>1, <2>2 DEF Sent
  <2>4. Effect
    BY <2>3 DEF Effect
  <2>5. /\ pc'[o] = "done" /\ fin'[o] = NoFin
        /\ \A x \in Ops \ {o} : pc'[x] = pc[x] /\ fin'[x] = fin[x]
    BY <2>1, LeaveFacts
  <2>6. \A x \in Ops \ {o} : outcome'[x] = outcome[x]
    BY <2>1 DEF TypeOK
  <2>7. \A x : InSeq(x, Line') => InSeq(x, Line) \/ x = o
    BY <1>3, <2>1, AppendElements DEF TypeOK
  <2>8. \A x : ~InSeq(x, receiver_waiters')
    BY <2>1 DEF InSeq
  <2>9. Others({o})
    BY <1>1, <2>5, <2>6, <2>7, <2>8 DEF Others
  <2>10. CallInv(o)'
    BY <1>1, <1>2, <2>5 DEF CallInv, Fresh
  <2>11. CallsInv'
    BY <2>9, <2>10, CallsStep DEF CoreInv
  <2>12. WaitersInv'
    BY <2>8, WaitersStep DEF CoreInv
  <2>13. TimersInv'
    BY <1>1, <2>5, NoTimers, TimersKept DEF CoreInv
  <2> QED
    BY <2>4, <2>11, <2>12, <2>13 DEF Step, CoreInv
<1> QED
  BY <1>4, <1>5

\* A receive takes the first value of the line.
LEMMA ReceiveEffect ==
    ASSUME TypeOK, TypeOK', WaitInv, DataInv, CoreInv, Available,
           NEW o \in Ops, o \in ReceiveOps, pc[o] \in Fresh,
           NEW cont \in BOOLEAN, NEW notify \in BOOLEAN, Receive(o, cont, notify)
    PROVE  Step
<1> DEFINE p == TakeFront
           f == [wake |-> p.wake, notify |-> p.notify \/ notify,
                 timers |-> TimersOf(p.served)]
<1>1. /\ Line # <<>> /\ Front = Head(Line) /\ Buffered > 0
      /\ p.messages \o p.senders = Tail(Line)
      /\ Len(p.messages) \in (Buffered - 1)..(Len(Line) - 1)
      /\ \A x : InSeq(x, p.freed) <=>
            \E i \in 1..Len(Line) : i > Buffered /\ i <= Len(p.messages) + 1 /\ x = Line[i]
  BY TakeFrontData
<1>2. p.receivers = <<>> /\ p.served = <<>>
  BY TakeFrontFacts
<1>3. /\ messages' = p.messages
      /\ sender_waiters' = p.senders
      /\ receiver_waiters' = p.receivers
      /\ outcome' = [x \in Ops |->
                        IF x = o \/ InSeq(x, p.served) THEN "value"
                        ELSE IF InSeq(x, p.freed) THEN "sent" ELSE outcome[x]]
      /\ value' = [x \in Ops |->
                      IF x = o THEN Front
                      ELSE IF InSeq(x, p.served)
                      THEN p.given[CHOOSE i \in 1..Len(p.served) : p.served[i] = x]
                      ELSE value[x]]
      /\ Leave(o, f)
      /\ UNCHANGED <<closed, timer, loopv>>
  BY Zenon DEF Receive
<1>4. f.timers = TimersOf(p.served)
  BY Zenon
<1> HIDE DEF p, f
<1>5. \A x : ~InSeq(x, p.served) /\ ~InSeq(x, receiver_waiters')
  BY <1>2, <1>3, EmptySeq DEF InSeq
<1>6. \A x \in Ops : /\ outcome'[x] = IF x = o THEN "value"
                                      ELSE IF InSeq(x, p.freed) THEN "sent" ELSE outcome[x]
                     /\ value'[x] = IF x = o THEN Front ELSE value[x]
  BY <1>3, <1>5
<1>7. Line' = Tail(Line) /\ Buffered' = Len(p.messages)
  BY <1>1, <1>3 DEF Line, Buffered
<1>8. /\ outcome[o] = "none" /\ timer[o] = "none"
      /\ ~InSeq(o, Line) /\ ~InSeq(o, receiver_waiters)
  BY DEF CoreInv, CallsInv, CallInv
<1>9. Taken(o)
  <2>1. \A x \in Ops : InSeq(x, p.freed) <=>
           \E i \in 1..Len(Line) : i > Buffered /\ i <= Buffered' + 1 /\ x = Line[i]
    BY <1>1, <1>7
  <2>2. Buffered' \in (Buffered - 1)..(Len(Line) - 1)
    BY <1>1, <1>7
  <2>3. closed' = closed
    BY <1>3
  <2>4. \A x \in Ops :
          /\ outcome'[x] = IF x = o THEN "value"
                           ELSE IF \E i \in 1..Len(Line) :
                                     i > Buffered /\ i <= Buffered' + 1 /\ x = Line[i]
                           THEN "sent" ELSE outcome[x]
          /\ value'[x] = IF x = o THEN Head(Line) ELSE value[x]
    <3> HIDE DEF Line, Buffered
    <3> QED
      BY <1>1, <1>6, <2>1
  <2> QED
    BY <1>1, <1>7, <1>8, <2>2, <2>3, <2>4 DEF Taken
<1>10. Effect
  BY <1>9 DEF Effect
<1>11. /\ pc'[o] \in {"done", "final"} /\ fin'[o] = f
       /\ \A x \in Ops \ {o} : pc'[x] = pc[x] /\ fin'[x] = fin[x]
  BY <1>3, LeaveFacts
<1>12. \A x \in Ops : InSeq(x, Line') => InSeq(x, Line)
  <2>1. \A i, j \in 1..Len(Line) : Line[i] = Line[j] => i = j
    BY DEF DataInv, LineInv
  <2>2. Line \in Seq(Ops)
    BY LineType
  <2> HIDE DEF Line
  <2> QED
    BY <1>1, <1>7, <2>1, <2>2, TailElements
<1>13. \A x \in Ops : InSeq(x, p.freed) => outcome[x] = "none" /\ InSeq(x, Line)
  <2> HIDE DEF Line, Buffered
  <2> QED
    BY <1>1 DEF DataInv, LineInv, InSeq
<1>14. \A x \in Ops : InSeq(x, Line) => pc[x] \notin Fresh
  BY DEF CoreInv, CallsInv, CallInv
<1>15. Others({o})
  BY <1>3, <1>5, <1>6, <1>11, <1>12, <1>13, <1>14 DEF Others
<1>16. CallInv(o)'
  BY <1>3, <1>6, <1>8, <1>11, KindsApart DEF CallInv, Fresh
<1>17. CallsInv'
  BY <1>15, <1>16, CallsStep DEF CoreInv
<1>18. WaitersInv'
  BY <1>5, WaitersStep DEF CoreInv
<1>19. TimersInv'
  <2>1. UNCHANGED <<timer, posted>>
    BY <1>3
  <2>2. HaveTimers(f.timers)
    BY <1>4, NoTimers
  <2> QED
    BY <1>11, <2>1, <2>2, TimersKept DEF CoreInv
<1> QED
  BY <1>10, <1>17, <1>18, <1>19 DEF Step, CoreInv

\* Nothing is available exactly when the line is empty.
LEMMA NothingAvailable ==
    ASSUME TypeOK, DataInv, ~Available
    PROVE  Line = <<>>
<1>1. messages = <<>> /\ sender_waiters = <<>>
  BY SendersActive DEF Available
<1> QED
  BY <1>1, LineType

\* try_recv_locked takes the first message or says why there is none.
LEMMA TryRecvEffect ==
    ASSUME TypeOK, TypeOK', WaitInv, DataInv, CoreInv,
           NEW o \in Ops, o \in ReceiveOps, pc[o] \in Fresh,
           NEW cont \in BOOLEAN, TryRecvLocked(o, cont)
    PROVE  Step
<1>1. CASE Available /\ Receive(o, cont, messages # <<>>)
  BY <1>1, ReceiveEffect
<1>2. CASE /\ ~Available /\ closed
           /\ outcome' = [outcome EXCEPT ![o] = "closed"] /\ Leave(o, NoFin)
           /\ UNCHANGED <<messages, receiver_waiters, sender_waiters,
                          ready_senders, closed, value, timer, loopv>>
  <2>1. Line = <<>>
    BY <1>2, NothingAvailable
  <2> QED
    BY <1>2, <2>1, FailEffect DEF Outcomes
<1> QED
  BY <1>1, <1>2 DEF TryRecvLocked

\* close() completes every waiter.
LEMMA CloseEffect ==
    ASSUME TypeOK, TypeOK', WaitInv, DataInv, CoreInv, NEW o \in Ops, Close(o)
    PROVE  Step
<1> DEFINE A == ActiveWaiters(receiver_waiters)
           W == {x \in Ops : InSeq(x, A)}
           f == [wake |-> ~closed, notify |-> TRUE, timers |-> TimersOf(A)]
<1>1. /\ Kind[o] = "close" /\ pc[o] = "start" /\ closed' = TRUE
      /\ receiver_waiters' = <<>> /\ sender_waiters' = <<>>
      /\ outcome' = [x \in Ops |-> IF x = o \/ InSeq(x, A)
                                      \/ InSeq(x, ActiveWaiters(sender_waiters))
                                   THEN "closed" ELSE outcome[x]]
      /\ pc' = [pc EXCEPT ![o] = "final"]
      /\ fin' = [fin EXCEPT ![o] = f]
      /\ UNCHANGED <<messages, value, timer, loopv>>
  BY Zenon DEF Close
<1>2. f.timers = TimersOf(A)
  BY Zenon
<1> HIDE DEF f
<1>3. ActiveWaiters(sender_waiters) = sender_waiters
  BY SendersActive
<1>4. \A i \in 1..Len(A) : \E j \in 1..Len(receiver_waiters) :
         A[i] = receiver_waiters[j] /\ outcome[receiver_waiters[j]] = "none"
  BY ActiveWaitersFacts DEF TypeOK
<1> HIDE DEF A
<1>5. \A x \in W : InSeq(x, receiver_waiters) /\ outcome[x] = "none"
  BY <1>4 DEF InSeq
<1>6. \A x \in W : x \in ReceiveOps /\ pc[x] \notin Fresh
  BY <1>5, WaiterFacts DEF CoreInv
<1>7. W # {} => Line = <<>>
  <2>1. W # {} => ActiveIdx(receiver_waiters) # {}
    BY <1>4 DEF InSeq, ActiveIdx
  <2> QED
    BY <2>1, LineType DEF WaitInv, ReceiversWaitOnEmpty
<1>8. \A x \in Ops : outcome'[x] = IF x = o \/ x \in W \/ InSeq(x, sender_waiters)
                                   THEN "closed" ELSE outcome[x]
  BY <1>1, <1>3
<1>9. Line' = messages /\ Buffered' = Buffered
  <2>1. Line' = messages \o <<>> /\ messages \in Seq(Ops)
    BY <1>1 DEF Line, TypeOK
  <2> QED
    BY <1>1, <2>1, ConcatEmptySeq DEF Buffered
<1> HIDE DEF W
<1>10. Shut(o, W)
  <2>1. outcome[o] = "none"
    BY <1>1 DEF CoreInv, CallsInv, CallInv, Fresh
  <2> QED
    BY <1>1, <1>5, <1>6, <1>7, <1>8, <1>9, <2>1 DEF Shut
<1>11. Effect
  <2>1. W \in SUBSET Ops
    BY DEF W
  <2> QED
    BY <1>10, <2>1 DEF Effect
<1>12. /\ pc'[o] = "final" /\ fin'[o] = f
       /\ \A x \in Ops \ {o} : pc'[x] = pc[x] /\ fin'[x] = fin[x]
  BY <1>1 DEF TypeOK
<1>13. \A x : InSeq(x, Line') => InSeq(x, Line)
  <2>1. /\ Buffered \in Nat /\ Len(Line) = Buffered + Len(sender_waiters)
        /\ Len(sender_waiters) \in Nat /\ \A i \in 1..Buffered : Line[i] = messages[i]
    BY LineType
  <2>2. Len(messages) = Buffered
    BY DEF Buffered
  <2> HIDE DEF Line, Buffered
  <2>3. \A i \in 1..Len(messages) : i \in 1..Len(Line) /\ Line[i] = messages[i]
    BY <2>1, <2>2
  <2> QED
    BY <1>9, <2>3 DEF InSeq
<1>14. \A x \in Ops : InSeq(x, sender_waiters) => outcome[x] = "none" /\ pc[x] \notin Fresh
  <2>1. ASSUME NEW x \in Ops, InSeq(x, sender_waiters) PROVE outcome[x] = "none" /\ InSeq(x, Line)
    <3>1. PICK i \in 1..Len(sender_waiters) : sender_waiters[i] = x
      BY <2>1 DEF InSeq
    <3>2. /\ Len(Line) = Buffered + Len(sender_waiters) /\ Buffered \in Nat
          /\ Len(sender_waiters) \in Nat /\ Line[Buffered + i] = x
      BY <3>1, LineType
    <3>3. Buffered + i \in 1..Len(Line) /\ Buffered + i > Buffered
      BY <3>2
    <3> QED
      BY <3>2, <3>3 DEF DataInv, LineInv, InSeq
  <2> QED
    BY <2>1 DEF CoreInv, CallsInv, CallInv
<1>15. \A x : ~InSeq(x, receiver_waiters')
  BY <1>1, EmptySeq DEF InSeq
<1>16. \A x \in Ops \ {o} : outcome'[x] = outcome[x] \/ (outcome[x] = "none" /\ pc[x] \notin Fresh)
  BY <1>5, <1>6, <1>8, <1>14
<1>17. Others({o})
  BY <1>1, <1>12, <1>13, <1>15, <1>16 DEF Others
<1>18. CallInv(o)'
  <2>1. CallInv(o)
    BY DEF CoreInv, CallsInv
  <2> QED
    BY <1>1, <1>12, <2>1 DEF CallInv, Fresh, SendOps, ReceiveOps, SendKinds, AwaitKinds
<1>19. CallsInv'
  BY <1>17, <1>18, CallsStep DEF CoreInv
<1>20. WaitersInv'
  BY <1>15, WaitersStep DEF CoreInv
<1>21. TimersInv'
  <2>1. HaveTimers(f.timers)
    BY <1>2, NoTimers
  <2>2. UNCHANGED <<timer, posted>>
    BY <1>1
  <2> QED
    BY <1>12, <2>1, <2>2, TimersKept DEF CoreInv
<1> QED
  BY <1>11, <1>19, <1>20, <1>21 DEF Step, CoreInv

\* A sender that finds no room suspends with its value.
LEMMA SuspendEffect ==
    ASSUME TypeOK, TypeOK', DataInv, CoreInv,
           NEW o \in Ops, o \in SendOps, pc[o] \in Fresh, ~closed,
           sender_waiters' = Append(Prune(sender_waiters), o),
           pc' = [pc EXCEPT ![o] = "suspended"], PruneOnRefusal,
           UNCHANGED <<messages, closed, outcome, value, fin, timer, posted>>
    PROVE  Step
<1>1. /\ outcome[o] = "none" /\ timer[o] = "none" /\ ~InSeq(o, Line)
  BY DEF CoreInv, CallsInv, CallInv
<1>2. Line' = Append(Line, o) /\ Buffered' = Buffered /\ Line \in Seq(Ops)
  <2>1. /\ messages \in Seq(Ops) /\ sender_waiters \in Seq(Ops)
        /\ sender_waiters' = Append(sender_waiters, o) /\ messages' = messages
    BY SendersActive DEF TypeOK
  <2>2. messages \o Append(sender_waiters, o) = Append(messages \o sender_waiters, o)
    BY <2>1
  <2> QED
    BY <2>1, <2>2, LineType DEF Line, Buffered
<1>3. Queued(o)
  BY <1>1, <1>2 DEF Queued
<1>4. Effect
  BY <1>3 DEF Effect
<1>5. \A x : InSeq(x, receiver_waiters') => InSeq(x, receiver_waiters)
  BY PrunedWaiters DEF PruneOnRefusal
<1>6. \A x : InSeq(x, Line') => InSeq(x, Line) \/ x = o
  BY <1>2, AppendElements
<1>7. pc'[o] = "suspended" /\ \A x \in Ops \ {o} : pc'[x] = pc[x]
  BY DEF TypeOK
<1>8. Others({o})
  BY <1>5, <1>6, <1>7 DEF Others
<1>9. CallInv(o)'
  BY <1>1, <1>7 DEF CallInv, Fresh
<1>10. CallsInv'
  BY <1>8, <1>9, CallsStep DEF CoreInv
<1>11. WaitersInv'
  BY <1>5, WaitersStep DEF CoreInv
<1>12. TimersInv'
  BY TimersKept DEF CoreInv
<1> QED
  BY <1>4, <1>10, <1>11, <1>12 DEF Step, CoreInv

\* The send operations.
LEMMA SendEffects ==
    ASSUME FifoInv, TypeOK', NEW o \in Ops,
           TrySend(o) \/ BlockingSend(o) \/ AsyncSendReady(o) \/ AsyncSendSuspend(o)
    PROVE  Step
<1>1. TypeOK /\ WaitInv /\ DataInv /\ CoreInv
  BY DEF FifoInv
<1>2. o \in SendOps /\ pc[o] \in Fresh
  BY DEF TrySend, BlockingSend, AsyncSendReady, AsyncSendSuspend, SendOps, SendKinds, Fresh
<1>3. ASSUME NEW why \in {"full", "refused"}, Fail(o, why), PruneOnRefusal PROVE Step
  BY <1>1, <1>2, <1>3, FailEffect DEF Fail, Outcomes
<1>4. CASE SendClosed(o)
  BY <1>1, <1>2, <1>4, FailEffect DEF SendClosed, Fail, Outcomes
<1>5. CASE SendNow(o)
  BY <1>1, <1>2, <1>5, SendNowEffect
<1>6. ASSUME NEW to \in {"blocked", "ready"}, pc' = [pc EXCEPT ![o] = to], PruneOnRefusal,
             UNCHANGED <<messages, sender_waiters, ready_receivers, ready_senders, closed,
                         outcome, value, fin, timer, loopv>>
      PROVE  Step
  <2>1. to \in PCs /\ to \in Fresh
    BY DEF PCs, Fresh
  <2> QED
    BY <1>1, <1>2, <1>6, <2>1, PassEffect
<1>7. CASE TrySend(o)
  BY <1>3, <1>4, <1>5, <1>7 DEF TrySend
<1>8. CASE BlockingSend(o)
  BY <1>3, <1>4, <1>5, <1>6, <1>8 DEF BlockingSend
<1>9. CASE AsyncSendReady(o)
  BY <1>4, <1>5, <1>6, <1>9 DEF AsyncSendReady
<1>10. CASE AsyncSendSuspend(o)
  <2>1. CASE ~closed /\ ~CanSendNow
    <3>1. /\ sender_waiters' = Append(Prune(sender_waiters), o)
          /\ pc' = [pc EXCEPT ![o] = "suspended"] /\ PruneOnRefusal
          /\ UNCHANGED <<messages, closed, outcome, value, fin, timer, posted>>
      BY <1>10, <2>1 DEF AsyncSendSuspend, SendClosed, SendNow
    <3> QED
      BY <1>1, <1>2, <2>1, <3>1, SuspendEffect
  <2>2. CASE ~(~closed /\ ~CanSendNow)
    BY <1>4, <1>5, <1>10, <2>2 DEF AsyncSendSuspend
  <2> QED
    BY <2>1, <2>2
<1> QED
  BY <1>7, <1>8, <1>9, <1>10

\* A receiver is queued.
LEMMA QueueEffect ==
    ASSUME TypeOK, TypeOK', CoreInv, NEW o \in Ops, o \in ReceiveOps, pc[o] \in Fresh,
           receiver_waiters' = Append(receiver_waiters, o),
           \/ /\ Kind[o] = "recv_for"
              /\ timer' = [timer EXCEPT ![o] = "created"] /\ pc' = [pc EXCEPT ![o] = "posting"]
           \/ pc' = [pc EXCEPT ![o] = "suspended"] /\ timer' = timer,
           UNCHANGED <<messages, sender_waiters, closed, outcome, value, fin, posted>>
    PROVE  Step
<1>1. outcome[o] = "none" /\ timer[o] = "none" /\ ~InSeq(o, Line)
  BY DEF CoreInv, CallsInv, CallInv
<1>2. Line' = Line /\ Buffered' = Buffered
  BY DEF Line, Buffered
<1>3. Effect
  BY <1>2 DEF Effect, Quiet
<1>4. \A x : InSeq(x, receiver_waiters') => InSeq(x, receiver_waiters) \/ x = o
  BY AppendElements DEF TypeOK
<1>5. /\ pc'[o] \in {"posting", "suspended"} /\ \A x \in Ops \ {o} : pc'[x] = pc[x]
      /\ \A x \in Ops \ {o} : timer'[x] = timer[x]
      /\ pc'[o] = "posting" \/ timer'[o] # "none" => Kind[o] = "recv_for"
  BY <1>1 DEF TypeOK
<1>6. Others({o})
  BY <1>2, <1>4, <1>5 DEF Others
<1>7. CallInv(o)'
  BY <1>5 DEF CallInv, Fresh
<1>8. CallsInv'
  BY <1>6, <1>7, CallsStep DEF CoreInv
<1>9. WaitersInv'
  BY <1>4, WaitersStep DEF CoreInv
<1>10. TimersInv'
  <2>1. \A x \in Ops : timer[x] # "none" => timer'[x] # "none"
    BY <1>1, <1>5
  <2> QED
    BY <2>1, TimersStep DEF CoreInv
<1> QED
  BY <1>3, <1>8, <1>9, <1>10 DEF Step, CoreInv

\* The receive operations.
LEMMA ReceiveEffects ==
    ASSUME FifoInv, TypeOK', NEW o \in Ops,
           TryRecv(o) \/ BlockingNext(o) \/ RecvReady(o) \/ RecvSuspend(o)
    PROVE  Step
<1>1. TypeOK /\ WaitInv /\ DataInv /\ CoreInv
  BY DEF FifoInv
<1>2. o \in ReceiveOps /\ pc[o] \in Fresh
  BY DEF TryRecv, BlockingNext, RecvReady, RecvSuspend, ReceiveOps, AwaitKinds, Fresh
<1>3. ASSUME NEW why \in {"empty", "refused", "timeout"}, Fail(o, why), UNCHANGED receiver_waiters
      PROVE  Step
  BY <1>1, <1>2, <1>3, FailEffect DEF Fail, Outcomes
<1>4. CASE ~Available /\ closed /\ Fail(o, "closed") /\ UNCHANGED receiver_waiters
  <2>1. Line = <<>>
    BY <1>1, <1>4, NothingAvailable
  <2> QED
    BY <1>1, <1>2, <1>4, <2>1, FailEffect DEF Fail, Outcomes
<1>5. CASE Available /\ Receive(o, FALSE, messages = <<>>)
  BY <1>1, <1>2, <1>5, ReceiveEffect
<1>6. CASE TryRecvLocked(o, FALSE) \/ TryRecvLocked(o, TRUE)
  BY <1>1, <1>2, <1>6, TryRecvEffect
<1>7. ASSUME NEW to \in {"iter", "ready"}, pc' = [pc EXCEPT ![o] = to],
             UNCHANGED <<chan, outcome, value, fin, timer, loopv>>
      PROVE  Step
  <2>1. to \in PCs /\ to \in Fresh
    BY DEF PCs, Fresh
  <2> QED
    BY <1>1, <1>2, <1>7, <2>1, PassEffect
<1>8. CASE TryRecv(o)
  BY <1>3, <1>5, <1>8 DEF TryRecv
<1>9. CASE BlockingNext(o)
  BY <1>3, <1>4, <1>5, <1>7, <1>9 DEF BlockingNext
<1>10. CASE RecvReady(o)
  BY <1>3, <1>6, <1>7, <1>10 DEF RecvReady
<1>11. CASE RecvSuspend(o)
  <2>1. CASE TryRecvLocked(o, TRUE)
    BY <1>6, <2>1
  <2>2. CASE ~TryRecvLocked(o, TRUE)
    <3>1. /\ receiver_waiters' = Append(receiver_waiters, o)
          /\ \/ /\ Kind[o] = "recv_for"
                /\ timer' = [timer EXCEPT ![o] = "created"] /\ pc' = [pc EXCEPT ![o] = "posting"]
             \/ pc' = [pc EXCEPT ![o] = "suspended"] /\ timer' = timer
          /\ UNCHANGED <<messages, sender_waiters, closed, outcome, value, fin, posted>>
      BY <1>11, <2>2 DEF RecvSuspend
    <3> QED
      BY <1>1, <1>2, <3>1, QueueEffect
  <2> QED
    BY <2>1, <2>2
<1> QED
  BY <1>8, <1>9, <1>10, <1>11

\* What is posted is about timers that exist.
OldOrTimed(p) ==
    \A i \in 1..Len(p) :
       HaveTimers(p[i].timers) \/ \E j \in 1..Len(posted) : p[i] = posted[j]

\* The closures that were posted stay as they are, or are about timers.
LEMMA PostedStep ==
    ASSUME TypeOK, NEW p \in Seq(Closures), OldOrTimed(p)
    PROVE  /\ OldOrTimed(posted)
           /\ posted # <<>> => OldOrTimed(Tail(posted))
           /\ \A c \in Closures : HaveTimers(c.timers) =>
                 OldOrTimed(Append(p, c)) /\ OldOrTimed(p \o <<c>>)
<1>1. OldOrTimed(posted)
  BY DEF OldOrTimed
<1>2. ASSUME posted # <<>> PROVE OldOrTimed(Tail(posted))
  <2>1. /\ Len(Tail(posted)) = Len(posted) - 1 /\ Len(posted) \in Nat
        /\ \A i \in 1..Len(Tail(posted)) : Tail(posted)[i] = posted[i + 1]
    BY <1>2, HeadTailProperties, LenProperties DEF TypeOK
  <2>2. ASSUME NEW i \in 1..Len(Tail(posted))
        PROVE  i + 1 \in 1..Len(posted) /\ Tail(posted)[i] = posted[i + 1]
    BY <2>1
  <2> QED
    BY <2>2 DEF OldOrTimed
<1>3. ASSUME NEW c \in Closures, HaveTimers(c.timers)
      PROVE  OldOrTimed(Append(p, c)) /\ OldOrTimed(p \o <<c>>)
  <2>1. p \o <<c>> = Append(p, c)
    OBVIOUS
  <2>2. /\ Len(Append(p, c)) = Len(p) + 1 /\ Len(p) \in Nat
        /\ \A i \in 1..Len(p) : Append(p, c)[i] = p[i]
        /\ Append(p, c)[Len(p) + 1] = c
    BY AppendProperties, LenProperties
  <2>3. \A i \in 1..(Len(p) + 1) : i \in 1..Len(p) \/ i = Len(p) + 1
    BY <2>2
  <2>4. OldOrTimed(Append(p, c))
    BY <1>3, <2>2, <2>3 DEF OldOrTimed
  <2> QED
    BY <2>1, <2>4
<1> QED
  BY <1>1, <1>2, <1>3

\* What an operation does once it has left its critical section.
LEMMA UnlockEffects ==
    ASSUME FifoInv, TypeOK', NEW o \in Ops,
           RecvForPost(o) \/ RecvForPostThrows(o) \/ Finalize(o) \/ FinalizeClose(o)
    PROVE  Step
<1>1. /\ TypeOK /\ WaitInv /\ DataInv /\ CoreInv /\ CallInv(o)
      /\ posted \in Seq(Closures) /\ OldOrTimed(posted)
  BY PostedStep DEF FifoInv, TypeOK, CoreInv, CallsInv, OldOrTimed
<1>2. /\ Line' = Line /\ Buffered' = Buffered /\ value' = value /\ closed' = closed
      /\ receiver_waiters' = receiver_waiters /\ timer' = timer
  BY DEF RecvForPost, RecvForPostThrows, Finalize, FinalizeClose, Flush, Line, Buffered
<1>3. ASSUME \A x \in Ops \ {o} : /\ outcome'[x] = outcome[x]
                                  /\ pc'[x] = pc[x] \/ (pc[x] = "blocked" /\ pc'[x] = "woken"),
             \/ pc'[o] \in {"done", "suspended"}
             \/ o \in ReceiveOps /\ pc'[o] = "final" /\ outcome'[o] = "error"
      PROVE  CallsInv'
  <2>1. Others({o})
    BY <1>2, <1>3 DEF Others
  <2>2. CallInv(o)'
    BY <1>1, <1>2, <1>3, KindsApart DEF CallInv, Fresh
  <2> QED
    BY <1>1, <2>1, <2>2, CallsStep DEF CoreInv
<1>4. WaitersInv'
  BY <1>1, <1>2, WaitersStep DEF CoreInv
<1>5. ASSUME OldOrTimed(posted'), \A x \in Ops : fin'[x] = fin[x] \/ HaveTimers(fin'[x].timers)
      PROVE  TimersInv'
  BY <1>1, <1>2, <1>5, TimersStep DEF CoreInv, OldOrTimed
<1>6. CASE RecvForPost(o)
  <2> DEFINE c == Closure("start", IF HasTimer(o) THEN {o} ELSE {})
  <2>1. c \in Closures /\ HaveTimers(c.timers)
    BY DEF Closure, Closures, HaveTimers, HasTimer
  <2>2. posted' = Append(posted, c)
    BY <1>6 DEF RecvForPost
  <2> HIDE DEF c
  <2>3. OldOrTimed(posted')
    BY <1>1, <2>1, <2>2, PostedStep
  <2>4. outcome' = outcome /\ fin' = fin /\ pc' = [pc EXCEPT ![o] = "suspended"]
    BY <1>6 DEF RecvForPost
  <2>5. Quiet
    BY <1>2, <2>4 DEF Quiet
  <2>6. CallsInv'
    BY <1>1, <1>3, <2>4 DEF TypeOK
  <2> QED
    BY <1>4, <1>5, <2>3, <2>4, <2>5, <2>6 DEF Step, Effect, CoreInv
<1>7. CASE RecvForPostThrows(o)
  <2>1. posted' = posted
    BY <1>7 DEF RecvForPostThrows
  <2>2. CASE outcome[o] = "none"
    <3> DEFINE f == [NoFin EXCEPT !.wake = TRUE]
    <3>1. /\ outcome' = [outcome EXCEPT ![o] = "error"] /\ Leave(o, f) /\ pc[o] = "posting"
      BY <1>7, <2>2 DEF RecvForPostThrows
    <3>2. f # NoFin /\ HaveTimers(f.timers)
      BY DEF NoFin, HaveTimers
    <3> HIDE DEF f
    <3>3. o \in ReceiveOps
      BY <1>1, <3>1 DEF CallInv, ReceiveOps, AwaitKinds
    <3>4. ~InSeq(o, Line)
      <4>1. \A i \in 1..Len(Line) : Line[i] \in SendOps
        BY <1>1 DEF DataInv, LineInv
      <4>2. o \notin SendOps
        BY <3>3, KindsApart
      <4> QED
        BY <4>1, <4>2 DEF InSeq
    <3>5. Ended(o, "error")
      BY <1>2, <2>2, <3>1, <3>3, <3>4 DEF Ended
    <3>6. Effect
      BY <3>5 DEF Effect, Outcomes
    <3>7. /\ pc'[o] = "final" /\ fin'[o] = f /\ outcome'[o] = "error"
          /\ \A x \in Ops \ {o} : pc'[x] = pc[x] /\ fin'[x] = fin[x] /\ outcome'[x] = outcome[x]
      <4>1. /\ pc'[o] = "final" /\ fin'[o] = f
            /\ \A x \in Ops \ {o} : pc'[x] = pc[x] /\ fin'[x] = fin[x]
        BY <1>1, <3>1, <3>2, LeaveFacts
      <4>2. outcome'[o] = "error" /\ \A x \in Ops \ {o} : outcome'[x] = outcome[x]
        BY <1>1, <3>1 DEF TypeOK
      <4> QED
        BY <4>1, <4>2
    <3>8. CallsInv'
      BY <1>3, <3>3, <3>7
    <3>9. TimersInv'
      BY <1>1, <1>5, <2>1, <3>2, <3>7
    <3> QED
      BY <1>4, <3>6, <3>8, <3>9 DEF Step, CoreInv
  <2>3. CASE outcome[o] # "none"
    <3>1. outcome' = outcome /\ Leave(o, NoFin)
      BY <1>7, <2>3 DEF RecvForPostThrows
    <3>2. Effect
      BY <1>2, <3>1 DEF Effect, Quiet
    <3>3. /\ pc'[o] = "done" /\ fin'[o] = NoFin
          /\ \A x \in Ops \ {o} : pc'[x] = pc[x] /\ fin'[x] = fin[x]
      BY <1>1, <3>1, LeaveFacts
    <3>4. CallsInv'
      BY <1>3, <3>1, <3>3
    <3>5. TimersInv'
      BY <1>1, <1>5, <2>1, <3>3, NoTimers
    <3> QED
      BY <1>4, <3>2, <3>4, <3>5 DEF Step, CoreInv
  <2> QED
    BY <2>2, <2>3
<1>8. CASE Finalize(o) \/ FinalizeClose(o)
  <2>1. /\ pc' = NotifyBlockedSenders(o) /\ pc[o] = "final" /\ fin' = fin
        /\ outcome' = outcome \/ outcome' = [outcome EXCEPT ![o] = "aborted"]
    BY <1>8 DEF Finalize, FinalizeClose
  <2>2. /\ pc'[o] = "done"
        /\ \A x \in Ops \ {o} : /\ outcome'[x] = outcome[x]
                                /\ pc'[x] = pc[x] \/ (pc[x] = "blocked" /\ pc'[x] = "woken")
    BY <1>1, <2>1 DEF NotifyBlockedSenders, TypeOK
  <2>3. CallsInv'
    BY <1>3, <2>2
  <2>4. Effect
    <3>1. CASE outcome' = outcome
      BY <1>2, <3>1 DEF Effect, Quiet
    <3>2. CASE outcome' = [outcome EXCEPT ![o] = "aborted"]
      <4>1. Thrown(o)
        BY <1>1, <1>2, <2>1, <3>2 DEF Thrown, CallInv
      <4> QED
        BY <4>1 DEF Effect
    <3> QED
      BY <2>1, <3>1, <3>2
  <2>5. OldOrTimed(posted')
    <3>1. /\ fin[o].timers \in SUBSET Ops /\ HaveTimers(fin[o].timers)
      BY <1>1 DEF TypeOK, Fins, CoreInv, TimersInv
    <3> DEFINE c == Closure("cancel", fin[o].timers)
               d == Closure("close", {})
    <3>2. c \in Closures /\ HaveTimers(c.timers) /\ d \in Closures /\ HaveTimers(d.timers)
      BY <3>1 DEF Closure, Closures, HaveTimers
    <3>3. CancelPosts(o) \in {<<>>, <<c>>}
      BY DEF CancelPosts
    <3>4. \/ posted' = posted \o CancelPosts(o)
          \/ posted' = posted \o CancelPosts(o) \o <<>>
          \/ posted' = posted \o CancelPosts(o) \o <<d>>
      BY <1>8 DEF Finalize, FinalizeClose
    <3> HIDE DEF c, d
    <3>5. posted \o <<>> = posted
      BY <1>1, ConcatEmptySeq
    <3>6. /\ posted \o CancelPosts(o) \in Seq(Closures)
          /\ OldOrTimed(posted \o CancelPosts(o))
      <4>1. CASE CancelPosts(o) = <<>>
        BY <1>1, <3>5, <4>1
      <4>2. CASE CancelPosts(o) = <<c>>
        <5>1. OldOrTimed(posted \o <<c>>)
          BY <1>1, <3>2, PostedStep
        <5>2. posted \o <<c>> \in Seq(Closures)
          BY <1>1, <3>2
        <5> QED
          BY <4>2, <5>1, <5>2
      <4> QED
        BY <3>3, <4>1, <4>2
    <3>7. OldOrTimed((posted \o CancelPosts(o)) \o <<d>>)
      BY <1>1, <3>2, <3>6, PostedStep
    <3>8. (posted \o CancelPosts(o)) \o <<>> = posted \o CancelPosts(o)
      BY <3>6, ConcatEmptySeq
    <3> QED
      BY <3>4, <3>6, <3>7, <3>8
  <2>6. TimersInv'
    BY <1>5, <2>1, <2>5
  <2> QED
    BY <1>4, <2>3, <2>4, <2>6 DEF Step, CoreInv
<1> QED
  BY <1>6, <1>7, <1>8

\* What the loop thread does to one call: it resumes it, or its timer completes it.
LEMMA LoopStep ==
    ASSUME FifoInv, TypeOK', NEW o \in Ops,
           UNCHANGED <<messages, receiver_waiters, sender_waiters, closed, value, fin>>,
           OldOrTimed(posted'),
           \A x \in Ops : timer'[x] = timer[x] \/ (timer[x] # "none" /\ timer'[x] # "none"),
           \A x \in Ops \ {o} : pc'[x] = pc[x] /\ outcome'[x] = outcome[x],
           \/ outcome' = outcome /\ pc'[o] \in {pc[o], "done"}
           \/ /\ outcome[o] = "none" /\ timer[o] # "none" /\ pc'[o] = pc[o]
              /\ \E why \in {"timeout", "error"} : outcome' = [outcome EXCEPT ![o] = why]
    PROVE  Step
<1>1. /\ TypeOK /\ WaitInv /\ DataInv /\ CoreInv /\ CallInv(o)
  BY DEF FifoInv, CoreInv, CallsInv
<1>2. Line' = Line /\ Buffered' = Buffered
  BY DEF Line, Buffered
<1>3. ASSUME outcome' = outcome, pc'[o] \in {pc[o], "done"}
      PROVE  Effect /\ Others({o}) /\ CallInv(o)'
  <2>1. Effect
    BY <1>2, <1>3 DEF Effect, Quiet
  <2>2. Others({o})
    BY <1>2, <1>3 DEF Others
  <2>3. CallInv(o)'
    <3>1. timer[o] = "none" => timer'[o] = "none"
      OBVIOUS
    <3>2. pc'[o] \in Fresh => pc[o] \in Fresh
      BY <1>3 DEF Fresh
    <3>3. pc'[o] \in {"final", "posting"} => pc'[o] = pc[o]
      BY <1>3
    <3>4. outcome'[o] = outcome[o] /\ receiver_waiters' = receiver_waiters
      BY <1>3
    <3> QED
      BY <1>1, <1>2, <3>1, <3>2, <3>3, <3>4 DEF CallInv, InSeq
  <2> QED
    BY <2>1, <2>2, <2>3
<1>4. ASSUME NEW why \in {"timeout", "error"}, outcome[o] = "none", timer[o] # "none",
             pc'[o] = pc[o], outcome' = [outcome EXCEPT ![o] = why]
      PROVE  Effect /\ Others({o}) /\ CallInv(o)'
  <2>1. Kind[o] = "recv_for" /\ o \in ReceiveOps /\ pc[o] \notin Fresh
    BY <1>1, <1>4 DEF CallInv, ReceiveOps, AwaitKinds
  <2>2. ~InSeq(o, Line)
    <3>1. \A i \in 1..Len(Line) : Line[i] \in SendOps
      BY <1>1 DEF DataInv, LineInv
    <3>2. o \notin SendOps
      BY <2>1, KindsApart
    <3> QED
      BY <3>1, <3>2 DEF InSeq
  <2>3. Ended(o, why)
    BY <1>2, <1>4, <2>1, <2>2 DEF Ended
  <2>4. Effect
    BY <1>4, <2>3 DEF Effect, Outcomes
  <2>5. Others({o})
    BY <1>2 DEF Others
  <2>6. CallInv(o)'
    <3>1. pc[o] # "final"
      BY <1>1, <1>4, <2>1 DEF CallInv
    <3>2. pc'[o] \notin Fresh /\ pc'[o] # "final"
      BY <1>4, <2>1, <3>1
    <3> QED
      BY <2>1, <3>2 DEF CallInv
  <2> QED
    BY <2>4, <2>5, <2>6
<1>5. Effect /\ CallsInv'
  <2>1. CASE outcome' = outcome /\ pc'[o] \in {pc[o], "done"}
    BY <1>1, <1>3, <2>1, CallsStep DEF CoreInv
  <2>2. CASE ~(outcome' = outcome /\ pc'[o] \in {pc[o], "done"})
    BY <1>1, <1>4, <2>2, CallsStep DEF CoreInv
  <2> QED
    BY <2>1, <2>2
<1>6. WaitersInv'
  BY <1>1, WaitersStep DEF CoreInv
<1>7. TimersInv'
  <2>1. \A x \in Ops : timer[x] # "none" => timer'[x] # "none"
    OBVIOUS
  <2> QED
    BY <1>1, <2>1, TimersStep DEF CoreInv, OldOrTimed
<1> QED
  BY <1>5, <1>6, <1>7 DEF Step, CoreInv

\* What it does to no call in particular.
LEMMA IdleStep ==
    ASSUME FifoInv, TypeOK', OldOrTimed(posted'),
           UNCHANGED <<messages, receiver_waiters, sender_waiters, closed, outcome, value, pc, fin>>,
           \A x \in Ops : timer'[x] = timer[x] \/ (timer[x] # "none" /\ timer'[x] # "none")
    PROVE  Step
<1>1. TypeOK /\ WaitInv /\ DataInv /\ CoreInv
  BY DEF FifoInv
<1>2. Line' = Line /\ Buffered' = Buffered
  BY DEF Line, Buffered
<1>3. Effect
  BY <1>2 DEF Effect, Quiet
<1>4. Others({})
  BY <1>2 DEF Others
<1>5. CallsInv'
  BY <1>1, <1>4, CallsStep DEF CoreInv
<1>6. WaitersInv'
  BY <1>1, WaitersStep DEF CoreInv
<1>7. TimersInv'
  <2>1. \A x \in Ops : timer[x] # "none" => timer'[x] # "none"
    OBVIOUS
  <2> QED
    BY <1>1, <2>1, TimersStep DEF CoreInv, OldOrTimed
<1> QED
  BY <1>3, <1>5, <1>6, <1>7 DEF Step, CoreInv

\* The closure that the loop runs is about timers that exist.
LEMMA RunFacts ==
    ASSUME TypeOK, TimersInv, NEW what, RunPosted(what)
    PROVE  /\ OldOrTimed(posted') /\ Head(posted).timers \in SUBSET Ops
           /\ HaveTimers(Head(posted).timers)
<1>1. posted # <<>> /\ posted' = Tail(posted) /\ posted \in Seq(Closures)
  BY DEF RunPosted, TypeOK
<1>2. OldOrTimed(posted')
  <2>1. OldOrTimed(posted)
    BY DEF OldOrTimed
  <2> QED
    BY <1>1, <2>1, PostedStep
<1>3. Head(posted) = posted[1] /\ 1 \in 1..Len(posted)
  <2>1. Len(posted) \in Nat \ {0}
    BY <1>1, EmptySeq, LenProperties
  <2> QED
    BY <1>1, <2>1
<1>4. HaveTimers(Head(posted).timers)
  BY <1>3 DEF TimersInv
<1> QED
  BY <1>1, <1>2, <1>4, PostTypes

\* What the loop thread does.
LEMMA LoopEffects ==
    ASSUME FifoInv, TypeOK',
           LoopCallback \/ ShutDown \/ \E o \in Ops : TimerFire(o)
    PROVE  Step
<1>1. TypeOK /\ TimersInv /\ posted \in Seq(Closures) /\ OldOrTimed(posted)
  BY DEF FifoInv, CoreInv, TypeOK, OldOrTimed
<1>2. CASE Resume
  <2>1. Head(resuming) \in Ops
    BY <1>1, <1>2, HeadTailProperties DEF Resume, TypeOK
  <2>2. /\ UNCHANGED <<messages, receiver_waiters, sender_waiters, closed, value, fin,
                       outcome, timer, posted>>
        /\ pc' = pc \/ pc' = [pc EXCEPT ![Head(resuming)] = "done"]
    BY <1>2 DEF Resume
  <2>3. /\ \A x \in Ops \ {Head(resuming)} : pc'[x] = pc[x]
        /\ pc'[Head(resuming)] \in {pc[Head(resuming)], "done"}
    BY <1>1, <2>1, <2>2 DEF TypeOK
  <2> QED
    BY <1>1, <2>1, <2>2, <2>3, LoopStep
<1>3. CASE OnAsync
  BY <1>1, <1>3, IdleStep DEF OnAsync
<1>4. CASE RunClose
  <2>1. OldOrTimed(posted')
    BY <1>1, <1>4, RunFacts DEF RunClose
  <2> QED
    BY <1>4, <2>1, IdleStep DEF RunClose
<1>5. CASE RunTimerStart
  <2>1. OldOrTimed(posted')
    BY <1>1, <1>5, RunFacts DEF RunTimerStart
  <2>2. \A x \in Ops : timer'[x] = timer[x] \/ (timer[x] # "none" /\ timer'[x] # "none")
    BY <1>5 DEF RunTimerStart
  <2> QED
    BY <1>5, <2>1, <2>2, IdleStep DEF RunTimerStart
<1>6. CASE RunTimerStartFails
  <2>1. OldOrTimed(posted') /\ Head(posted).timers \in SUBSET Ops
    BY <1>1, <1>6, RunFacts DEF RunTimerStartFails
  <2>2. PICK o \in Head(posted).timers :
          /\ timer[o] = "created" /\ outcome[o] = "none"
          /\ timer' = [timer EXCEPT ![o] = "closed"]
          /\ outcome' = [outcome EXCEPT ![o] = "error"]
    BY <1>6 DEF RunTimerStartFails
  <2>3. /\ \A x \in Ops : timer'[x] = timer[x] \/ (timer[x] # "none" /\ timer'[x] # "none")
        /\ \A x \in Ops \ {o} : outcome'[x] = outcome[x]
        /\ o \in Ops /\ timer[o] # "none"
    BY <1>1, <2>1, <2>2 DEF TypeOK
  <2>4. UNCHANGED <<messages, receiver_waiters, sender_waiters, closed, value, fin, pc>>
    BY <1>6 DEF RunTimerStartFails
  <2> QED
    BY <2>1, <2>2, <2>3, <2>4, LoopStep
<1>7. CASE RunTimerCancel
  <2>1. OldOrTimed(posted') /\ HaveTimers(Head(posted).timers)
    BY <1>1, <1>7, RunFacts DEF RunTimerCancel
  <2>2. \A x \in Ops : timer'[x] = timer[x] \/ (timer[x] # "none" /\ timer'[x] # "none")
    BY <1>7, <2>1 DEF RunTimerCancel, HaveTimers
  <2> QED
    BY <1>7, <2>1, <2>2, IdleStep DEF RunTimerCancel
<1>8. CASE RunWalk
  <2>1. OldOrTimed(posted')
    BY <1>1, <1>8, RunFacts DEF RunWalk
  <2>2. \A x \in Ops : timer'[x] = timer[x] \/ (timer[x] # "none" /\ timer'[x] # "none")
    BY <1>8 DEF RunWalk
  <2> QED
    BY <1>8, <2>1, <2>2, IdleStep DEF RunWalk
<1>9. CASE ShutDown
  <2>1. Closure("walk", {}) \in Closures /\ HaveTimers(Closure("walk", {}).timers)
    BY DEF Closure, Closures, HaveTimers
  <2>2. OldOrTimed(posted')
    BY <1>1, <1>9, <2>1, PostedStep DEF ShutDown
  <2> QED
    BY <1>9, <2>2, IdleStep DEF ShutDown
<1>10. ASSUME NEW o \in Ops, TimerFire(o) PROVE Step
  <2>1. /\ UNCHANGED <<messages, receiver_waiters, sender_waiters, closed, value, fin, pc, posted>>
        /\ timer[o] = "armed" /\ timer' = [timer EXCEPT ![o] = "closed"]
        /\ IF outcome[o] = "none" THEN outcome' = [outcome EXCEPT ![o] = "timeout"]
           ELSE outcome' = outcome
    BY <1>10 DEF TimerFire
  <2>2. /\ \A x \in Ops : timer'[x] = timer[x] \/ (timer[x] # "none" /\ timer'[x] # "none")
        /\ \A x \in Ops \ {o} : outcome'[x] = outcome[x]
        /\ timer[o] # "none"
    BY <1>1, <2>1 DEF TypeOK
  <2> QED
    BY <1>1, <2>1, <2>2, LoopStep
<1> QED
  BY <1>2, <1>3, <1>4, <1>5, <1>6, <1>7, <1>8, <1>9, <1>10 DEF LoopCallback

-----------------------------------------------------------------------------
(* The theorems about the values *)

\* FifoInv holds initially.
LEMMA FifoInit == Init => FifoInv /\ Fifo!Init
<1> SUFFICES ASSUME Init PROVE FifoInv /\ Fifo!Init
  OBVIOUS
<1>1. TypeOK /\ WaitInv
  BY InitInv
<1>2. Line = <<>> /\ Len(Line) = 0 /\ Buffered = 0 /\ messages \o sender_waiters = <<>>
  <2>1. messages = <<>> /\ sender_waiters = <<>>
    BY DEF Init
  <2> QED
    BY <1>1, <2>1, LineType, EmptySeq DEF Line, Buffered
<1>3. /\ outcome = [o \in Ops |-> "none"] /\ value = [o \in Ops |-> NoOp]
      /\ pc = [o \in Ops |-> "start"] /\ fin = [o \in Ops |-> NoFin]
      /\ timer = [o \in Ops |-> "none"] /\ posted = <<>> /\ receiver_waiters = <<>>
      /\ closed = FALSE
  BY DEF Init
<1>4. LineInv
  BY <1>2 DEF LineInv
<1>5. GivenInv
  BY <1>3, KindsApart DEF GivenInv
<1>6. CallsInv
  BY <1>2, <1>3, EmptySeq DEF CallsInv, CallInv, InSeq
<1>7. WaitersInv /\ TimersInv
  BY <1>3, EmptySeq, NoTimers DEF WaitersInv, TimersInv
<1>8. Fifo!Init
  BY <1>2, <1>3, KindsApart DEF Fifo!Init
<1> QED
  BY <1>1, <1>4, <1>5, <1>6, <1>7, <1>8 DEF FifoInv, DataInv, CoreInv

\* Every step has one of the effects; so it keeps FifoInv and is a step of
\* FifoChannel.
LEMMA EffectOfStep ==
    ASSUME FifoInv, [Next]_vars
    PROVE  TypeOK' /\ WaitInv' /\ Step
<1>1. TypeOK' /\ WaitInv'
  BY InvStep DEF FifoInv
<1>2. ASSUME NEW o \in Ops, Call(o) PROVE Step
  BY <1>1, <1>2, SendEffects, ReceiveEffects, CloseEffect DEF Call, FifoInv
<1>3. ASSUME NEW o \in Ops, Continue(o) PROVE Step
  BY <1>1, <1>3, SendEffects, ReceiveEffects, UnlockEffects DEF Continue
<1>4. ASSUME LoopCallback \/ ShutDown \/ \E o \in Ops : TimerFire(o) PROVE Step
  BY <1>1, <1>4, LoopEffects
<1>5. ASSUME UNCHANGED vars PROVE Step
  <2>1. Quiet
    BY <1>5 DEF Quiet, Line, Buffered
  <2>2. CoreInv'
    BY <1>5 DEF FifoInv, CoreInv, CallsInv, CallInv, WaitersInv, TimersInv, HaveTimers,
                InSeq, Line
  <2> QED
    BY <2>1, <2>2 DEF Step, Effect
<1> QED
  BY <1>1, <1>2, <1>3, <1>4, <1>5 DEF Next

\* Every step keeps the invariant and is a step of the abstract queue.
LEMMA FifoNext == FifoInv /\ [Next]_vars => FifoInv' /\ [Fifo!Next]_(Fifo!fvars)
<1> SUFFICES ASSUME FifoInv, [Next]_vars PROVE FifoInv' /\ FifoStep
  BY DEF FifoStep
<1>1. TypeOK' /\ WaitInv' /\ Step
  BY EffectOfStep
<1> QED
  BY <1>1, EffectStep DEF Step, FifoInv

\* Values, outcomes and calls agree: FifoInv is inductive.
THEOREM FifoInvariant == Spec => []FifoInv
BY FifoInit, FifoNext, PTL DEF Spec

\* message_channel implements FifoChannel, whatever its threads, timeouts and
\* shutdown: values leave in the order in which they were accepted, each to one
\* receiver, and the closed error comes only after the last of them.
THEOREM ImplementsFifo == Spec => FifoOrder
BY FifoInit, FifoNext, FifoInvariant, PTL DEF Spec, FifoOrder, Fifo!Spec

\* An operation that is completed stays so, with its value.
LEMMA EffectCompletes ==
    ASSUME TypeOK, DataInv, Effect
    PROVE  \A x \in Ops : outcome[x] # "none" =>
              outcome'[x] \in {outcome[x], "aborted"} /\ value'[x] = value[x]
<1> SUFFICES ASSUME NEW x \in Ops, outcome[x] # "none"
             PROVE  outcome'[x] \in {outcome[x], "aborted"} /\ value'[x] = value[x]
  OBVIOUS
<1>1. CASE Quiet
  BY <1>1 DEF Quiet
<1>2. ASSUME NEW o \in Ops, Sent(o) \/ Queued(o) \/ Thrown(o) \/ \E why \in Outcomes : Ended(o, why)
      PROVE  outcome'[x] \in {outcome[x], "aborted"} /\ value'[x] = value[x]
  BY <1>2 DEF Sent, Queued, Thrown, Ended, TypeOK
<1>3. ASSUME NEW o \in Ops, Taken(o)
      PROVE  outcome'[x] \in {outcome[x], "aborted"} /\ value'[x] = value[x]
  BY <1>3 DEF Taken, DataInv, LineInv
<1>4. ASSUME NEW o \in Ops, NEW r \in Ops, Handed(o, r)
      PROVE  outcome'[x] \in {outcome[x], "aborted"} /\ value'[x] = value[x]
  BY <1>4 DEF Handed, TypeOK
<1>5. ASSUME NEW o \in Ops, NEW W, Shut(o, W)
      PROVE  outcome'[x] \in {outcome[x], "aborted"} /\ value'[x] = value[x]
  <2>1. ~InSeq(x, sender_waiters)
    <3>1. ActiveIdx(sender_waiters) = 1..Len(sender_waiters)
      BY SendersActive
    <3> QED
      BY <3>1 DEF ActiveIdx, InSeq
  <2> QED
    BY <1>5, <2>1 DEF Shut
<1> QED
  BY <1>1, <1>2, <1>3, <1>4, <1>5 DEF Effect

\* The first completion of a waiter wins, whichever of a value, a close, a timeout
\* and a failed post come to it.
THEOREM FirstWins == Spec => FirstCompletionWins
<1>1. FifoInv /\ [Next]_vars =>
        [\A o \in Ops : outcome[o] # "none" =>
            outcome'[o] \in {outcome[o], "aborted"} /\ value'[o] = value[o]]_vars
  BY EffectOfStep, EffectCompletes DEF FifoInv, Step
<1> QED
  BY <1>1, FifoInvariant, PTL DEF Spec, FirstCompletionWins

\* How many elements a set with at most one has.
LEMMA AtMostOne ==
    ASSUME NEW S, NEW x, \A y \in S : y = x
    PROVE  Cardinality(S) = IF x \in S THEN 1 ELSE 0
<1>1. CASE x \in S
  <2>1. S = {x}
    BY <1>1
  <2> QED
    BY <1>1, <2>1, FS_Singleton
<1>2. CASE x \notin S
  <2>1. S = {}
    BY <1>2
  <2> QED
    BY <1>2, <2>1, FS_EmptySet
<1> QED
  BY <1>1, <1>2

\* LineInv and GivenInv put a value in one place.
LEMMA OnePlace ==
    ASSUME TypeOK, DataInv, NEW s \in SendOps
    PROVE  Copies(s) = IF Accepted(s) THEN 1 ELSE 0
<1> DEFINE M == {i \in 1..Len(messages) : messages[i] = s}
           Q == {i \in 1..Len(sender_waiters) : sender_waiters[i] = s}
           V == {r \in Ops : value[r] = s}
<1>1. /\ Buffered \in Nat /\ Len(sender_waiters) \in Nat
      /\ Len(Line) = Buffered + Len(sender_waiters)
      /\ \A i \in 1..Buffered : Line[i] = messages[i]
      /\ \A i \in 1..Len(sender_waiters) : Line[Buffered + i] = sender_waiters[i]
      /\ Len(messages) = Buffered
  BY LineType DEF Buffered
<1>2. /\ \A i, j \in 1..Len(Line) : Line[i] = Line[j] => i = j
      /\ \A i \in 1..Len(Line) : /\ i <= Buffered => outcome[Line[i]] \in Got
                                 /\ i > Buffered => outcome[Line[i]] = "none"
  BY DEF DataInv, LineInv
<1> HIDE DEF Line, Buffered
<1>3. \A i \in M : i \in 1..Len(Line) /\ Line[i] = s /\ i <= Buffered
  BY <1>1
<1>4. \A i \in Q : Buffered + i \in 1..Len(Line) /\ Line[Buffered + i] = s /\ Buffered + i > Buffered
  BY <1>1
<1>5. \A r \in V : ~InSeq(s, Line) /\ outcome[s] \in Got /\ \A p \in V : p = r
  BY KindsApart DEF DataInv, GivenInv, Given
<1>6. Copies(s) = Cardinality(M) + Cardinality(Q) + Cardinality(V)
  BY DEF Copies
<1>7. InSeq(s, sender_waiters) <=> Q # {}
  BY DEF InSeq
<1>8. outcome[s] \in Got => M # {} \/ V # {}
  <2> SUFFICES ASSUME outcome[s] \in Got, V = {} PROVE M # {}
    OBVIOUS
  <2>1. PICK i \in 1..Len(Line) : Line[i] = s
    BY DEF DataInv, GivenInv, InSeq
  <2>2. i <= Buffered
    BY <1>1, <1>2, <2>1
  <2>3. i \in 1..Buffered
    BY <1>1, <2>2
  <2> QED
    BY <1>1, <2>1, <2>3
<1> HIDE DEF M, Q, V
<1>9. ASSUME NEW i \in M
      PROVE  Cardinality(M) = 1 /\ Q = {} /\ V = {} /\ Accepted(s)
  <2>1. i \in 1..Len(Line) /\ Line[i] = s /\ i <= Buffered
    BY <1>3
  <2>2. \A j \in M : j = i
    BY <1>2, <1>3, <2>1
  <2>3. Q = {}
    <3>1. ASSUME NEW j \in Q PROVE FALSE
      BY <1>2, <1>4, <2>1
    <3> QED
      BY <3>1
  <2>4. V = {}
    BY <1>5, <2>1 DEF InSeq
  <2>5. Accepted(s)
    BY <1>2, <2>1 DEF Accepted
  <2> QED
    BY <2>2, <2>3, <2>4, <2>5, AtMostOne
<1>10. ASSUME NEW i \in Q
       PROVE  Cardinality(Q) = 1 /\ M = {} /\ V = {} /\ Accepted(s)
  <2>1. Buffered + i \in 1..Len(Line) /\ Line[Buffered + i] = s /\ Buffered + i > Buffered
    BY <1>4
  <2>2. \A j \in Q : j = i
    <3>1. \A j \in Q : j \in Nat
      BY <1>1 DEF Q
    <3>2. ASSUME NEW j \in Q PROVE j = i
      <4>1. Buffered + j \in 1..Len(Line) /\ Line[Buffered + j] = s
        BY <1>4
      <4>2. Buffered + j = Buffered + i
        BY <1>2, <2>1, <4>1
      <4> QED
        BY <1>1, <3>1, <4>2
    <3> QED
      BY <3>2
  <2>3. M = {}
    BY <1>9, <1>10
  <2>4. V = {}
    BY <1>5, <2>1 DEF InSeq
  <2>5. Accepted(s)
    BY <1>7, <1>10 DEF Accepted
  <2> QED
    BY <2>2, <2>3, <2>4, <2>5, AtMostOne
<1>11. ASSUME NEW r \in V
       PROVE  Cardinality(V) = 1 /\ M = {} /\ Q = {} /\ Accepted(s)
  BY <1>5, <1>9, <1>10, <1>11, AtMostOne DEF Accepted
<1>12. CASE M = {} /\ Q = {} /\ V = {}
  BY <1>6, <1>7, <1>8, <1>12, FS_EmptySet DEF Accepted
<1>13. Cardinality({}) = 0
  BY FS_EmptySet
<1> QED
  BY <1>6, <1>9, <1>10, <1>11, <1>12, <1>13

\* Exactly-once delivery: the value of an accepted send is in one place, the
\* buffer, a suspended sender or a receiver, and that of a failed send in none.
THEOREM DeliveredOnce == Spec => []ExactlyOnce
<1>1. FifoInv => ExactlyOnce
  BY OnePlace DEF FifoInv, ExactlyOnce, SendOps
<1> QED
  BY <1>1, FifoInvariant, PTL

-----------------------------------------------------------------------------
(* Threads asleep in send()                                                  *)

\* There is room exactly when the predicate that send_cv is waited for with holds:
\* a receiver that waits finds the buffer empty, and a full buffer has none.
LEMMA RoomToSend ==
    ASSUME TypeOK, WaitInv, DataInv
    PROVE  closed \/ CanSendNow <=> closed \/ HasBufferCapacity
<1> USE ChannelAssumption
<1>1. ASSUME ~closed, CanSendNow PROVE HasBufferCapacity
  <2>1. CASE Prune(receiver_waiters) # <<>>
    <3>1. ActiveIdx(receiver_waiters) # {}
      BY <2>1, PruneFacts DEF TypeOK
    <3>2. Len(messages) = 0
      BY <3>1, EmptySeq DEF WaitInv, ReceiversWaitOnEmpty
    <3> QED
      BY <3>2 DEF HasBufferCapacity
  <2>2. CASE Prune(receiver_waiters) = <<>>
    BY <1>1, <2>2 DEF CanSendNow
  <2> QED
    BY <2>1, <2>2
<1>2. ASSUME ~closed, HasBufferCapacity PROVE CanSendNow
  <2>1. sender_waiters = <<>>
    BY <1>2 DEF HasBufferCapacity, WaitInv, SendersWaitOnFull
  <2>2. Prune(sender_waiters) = <<>>
    BY <2>1, SendersActive
  <2> QED
    BY <1>2, <2>2 DEF CanSendNow
<1> QED
  BY <1>1, <1>2

\* A notification is on its way; a step leaves none unsent.
Notice == \E o \in Ops : pc[o] = "final" /\ fin[o].notify
Room == closed \/ HasBufferCapacity
NoticeKept ==
    \/ Notice'
    \/ /\ Room' => Room
       /\ \A s \in Ops : pc'[s] = "blocked" => pc[s] = "blocked" \/ ~Room
       /\ \/ Notice => Notice'
          \/ \A s \in Ops : pc'[s] # "blocked"

\* An operation that is not in its final step leaves the notices of others.
LEMMA OthersNotice ==
    ASSUME TypeOK, NEW o \in Ops, pc[o] # "final",
           \A x \in Ops \ {o} : pc'[x] = pc[x] /\ fin'[x] = fin[x]
    PROVE  Notice => Notice'
BY DEF Notice

\* A call that leaves the values alone leaves the room as it was.
LEMMA QuietNotice ==
    ASSUME TypeOK, NEW o \in Ops, pc[o] # "final",
           UNCHANGED <<messages, closed>>,
           \A x \in Ops \ {o} : pc'[x] = pc[x] /\ fin'[x] = fin[x],
           pc'[o] = "blocked" => ~Room
    PROVE  NoticeKept
<1>1. Notice => Notice'
  BY OthersNotice
<1> QED
  BY <1>1 DEF NoticeKept, Room, HasBufferCapacity

\* The send operations.
LEMMA SendNotices ==
    ASSUME FifoInv, NEW o \in Ops,
           TrySend(o) \/ BlockingSend(o) \/ AsyncSendReady(o) \/ AsyncSendSuspend(o)
    PROVE  NoticeKept
<1>1. TypeOK /\ WaitInv /\ DataInv
  BY DEF FifoInv
<1>2. pc[o] # "final"
  BY DEF TrySend, BlockingSend, AsyncSendReady, AsyncSendSuspend
<1>3. ASSUME NEW why, Fail(o, why) PROVE NoticeKept
  <2>1. /\ pc'[o] = "done" /\ \A x \in Ops \ {o} : pc'[x] = pc[x] /\ fin'[x] = fin[x]
    BY <1>1, <1>3, LeaveFacts DEF Fail
  <2>2. UNCHANGED <<messages, closed>>
    BY <1>3 DEF Fail
  <2> QED
    BY <1>1, <1>2, <2>1, <2>2, QuietNotice
<1>4. ASSUME SendNow(o) PROVE NoticeKept
  <2>1. /\ closed' = closed
        /\ messages' = messages \/ messages' = Append(messages, o)
        /\ \E f : Leave(o, f)
    BY <1>4 DEF SendNow, PlaceSend
  <2>2. /\ pc'[o] # "blocked" /\ \A x \in Ops \ {o} : pc'[x] = pc[x] /\ fin'[x] = fin[x]
    BY <1>1, <2>1, LeaveFacts
  <2>3. Len(messages) \in Nat /\ Len(messages') \in {Len(messages), Len(messages) + 1}
    <3>1. messages \in Seq(Ops)
      BY <1>1 DEF TypeOK
    <3>2. Len(messages) \in Nat /\ Len(Append(messages, o)) = Len(messages) + 1
      BY <3>1, AppendElements
    <3> QED
      BY <2>1, <3>2
  <2>4. Room' => Room
    BY <2>1, <2>3, ChannelAssumption DEF Room, HasBufferCapacity
  <2>5. Notice => Notice'
    BY <1>1, <1>2, <2>2, OthersNotice
  <2> QED
    BY <2>2, <2>4, <2>5 DEF NoticeKept
<1>5. ASSUME NEW to \in PCs, ~closed, ~CanSendNow, pc' = [pc EXCEPT ![o] = to],
             UNCHANGED <<messages, closed, fin>>
      PROVE  NoticeKept
  <2>1. ~Room
    BY <1>1, <1>5, RoomToSend DEF Room
  <2>2. \A x \in Ops \ {o} : pc'[x] = pc[x] /\ fin'[x] = fin[x]
    BY <1>1, <1>5 DEF TypeOK
  <2> QED
    BY <1>1, <1>2, <1>5, <2>1, <2>2, QuietNotice
<1>6. SendClosed(o) => Fail(o, "closed")
  BY DEF SendClosed
<1>7. CASE TrySend(o)
  BY <1>3, <1>4, <1>6, <1>7 DEF TrySend
<1>8. CASE BlockingSend(o)
  BY <1>3, <1>4, <1>5, <1>6, <1>8 DEF BlockingSend, PCs
<1>9. CASE AsyncSendReady(o)
  BY <1>3, <1>4, <1>5, <1>6, <1>9 DEF AsyncSendReady, PCs
<1>10. CASE AsyncSendSuspend(o)
  BY <1>3, <1>4, <1>5, <1>6, <1>10 DEF AsyncSendSuspend, PCs
<1> QED
  BY <1>7, <1>8, <1>9, <1>10

\* Values are received by recv and recv_for only: try_recv and blocking iteration
\* take a value out of a full buffer without a notification.
AwaitedOnly == \A o \in Ops : Kind[o] \notin {"try_recv", "blocking_next"}

\* The receive operations that are awaited, and close.
LEMMA ReceiveNotices ==
    ASSUME FifoInv, AwaitedOnly, NEW o \in Ops,
           \/ TryRecv(o) \/ BlockingNext(o) \/ RecvReady(o) \/ RecvSuspend(o) \/ Close(o)
    PROVE  NoticeKept
<1>1. TypeOK /\ WaitInv /\ DataInv
  BY DEF FifoInv
<1>2. pc[o] # "final" /\ (RecvReady(o) \/ RecvSuspend(o) \/ Close(o))
  BY DEF AwaitedOnly, TryRecv, BlockingNext, RecvReady, RecvSuspend, Close
<1>3. ASSUME NEW cont \in BOOLEAN, TryRecvLocked(o, cont) PROVE NoticeKept
  <2>1. CASE Available /\ Receive(o, cont, messages # <<>>)
    <3> DEFINE f == [wake |-> TakeFront.wake, notify |-> TakeFront.notify \/ messages # <<>>,
                     timers |-> TimersOf(TakeFront.served)]
    <3>1. Leave(o, f)
      BY <2>1, Zenon DEF Receive
    <3>2. messages # <<>>
      BY <1>1, <2>1, TakeFrontFacts
    <3>3. f.notify
      BY <3>2, Zenon
    <3> HIDE DEF f
    <3>4. f # NoFin
      BY <3>3 DEF NoFin
    <3>5. pc'[o] = "final" /\ fin'[o] = f
      BY <1>1, <3>1, <3>4, LeaveFacts
    <3>6. Notice'
      BY <3>3, <3>5 DEF Notice
    <3> QED
      BY <3>6 DEF NoticeKept
  <2>2. CASE Leave(o, NoFin) /\ UNCHANGED <<messages, closed>>
    <3>1. /\ pc'[o] = "done" /\ \A x \in Ops \ {o} : pc'[x] = pc[x] /\ fin'[x] = fin[x]
      BY <1>1, <2>2, LeaveFacts
    <3> QED
      BY <1>1, <1>2, <2>2, <3>1, QuietNotice
  <2> QED
    BY <1>3, <2>1, <2>2 DEF TryRecvLocked
<1>4. ASSUME Fail(o, "timeout") PROVE NoticeKept
  <2>1. /\ pc'[o] = "done" /\ \A x \in Ops \ {o} : pc'[x] = pc[x] /\ fin'[x] = fin[x]
    BY <1>1, <1>4, LeaveFacts DEF Fail
  <2>2. UNCHANGED <<messages, closed>>
    BY <1>4 DEF Fail
  <2> QED
    BY <1>1, <1>2, <2>1, <2>2, QuietNotice
<1>5. ASSUME NEW to \in {"ready", "posting", "suspended"}, pc' = [pc EXCEPT ![o] = to],
             UNCHANGED <<messages, closed, fin>>
      PROVE  NoticeKept
  <2>1. pc'[o] # "blocked" /\ \A x \in Ops \ {o} : pc'[x] = pc[x] /\ fin'[x] = fin[x]
    BY <1>1, <1>5 DEF TypeOK
  <2> QED
    BY <1>1, <1>2, <1>5, <2>1, QuietNotice
<1>6. CASE RecvReady(o)
  BY <1>3, <1>4, <1>5, <1>6 DEF RecvReady
<1>7. CASE RecvSuspend(o)
  <2>1. CASE TryRecvLocked(o, TRUE)
    BY <1>3, <2>1
  <2>2. CASE ~TryRecvLocked(o, TRUE)
    <3>1. /\ \E to \in {"ready", "posting", "suspended"} : pc' = [pc EXCEPT ![o] = to]
          /\ UNCHANGED <<messages, closed, fin>>
      BY <1>7, <2>2 DEF RecvSuspend
    <3> QED
      BY <1>5, <3>1
  <2> QED
    BY <2>1, <2>2
<1>8. CASE Close(o)
  <2> DEFINE f == [wake |-> ~closed, notify |-> TRUE,
                   timers |-> TimersOf(ActiveWaiters(receiver_waiters))]
  <2>1. pc' = [pc EXCEPT ![o] = "final"] /\ fin' = [fin EXCEPT ![o] = f]
    BY <1>8, Zenon DEF Close
  <2>2. f.notify
    BY Zenon
  <2> HIDE DEF f
  <2>3. pc'[o] = "final" /\ fin'[o].notify
    BY <1>1, <2>1, <2>2 DEF TypeOK
  <2>4. Notice'
    BY <2>3 DEF Notice
  <2> QED
    BY <2>4 DEF NoticeKept
<1> QED
  BY <1>2, <1>6, <1>7, <1>8

\* What follows the unlock, and the loop thread.
LEMMA OtherNotices ==
    ASSUME TypeOK, NEW o \in Ops,
           \/ RecvForPost(o) \/ RecvForPostThrows(o) \/ Finalize(o) \/ FinalizeClose(o)
    PROVE  NoticeKept
<1>1. UNCHANGED <<messages, closed>>
  BY DEF RecvForPost, RecvForPostThrows, Finalize, FinalizeClose
<1>2. CASE RecvForPost(o)
  <2>1. /\ pc[o] # "final" /\ pc'[o] # "blocked"
        /\ \A x \in Ops \ {o} : pc'[x] = pc[x] /\ fin'[x] = fin[x]
    BY <1>2 DEF RecvForPost, TypeOK
  <2> QED
    BY <1>1, <2>1, QuietNotice
<1>3. CASE RecvForPostThrows(o)
  <2>1. pc[o] # "final" /\ \E f : Leave(o, f)
    BY <1>3 DEF RecvForPostThrows
  <2>2. pc'[o] # "blocked" /\ \A x \in Ops \ {o} : pc'[x] = pc[x] /\ fin'[x] = fin[x]
    BY <2>1, LeaveFacts
  <2> QED
    BY <1>1, <2>1, <2>2, QuietNotice
<1>4. CASE Finalize(o) \/ FinalizeClose(o)
  <2>1. pc' = NotifyBlockedSenders(o) /\ fin' = fin
    BY <1>4 DEF Finalize, FinalizeClose
  <2>2. CASE fin[o].notify
    <3>1. \A s \in Ops : pc'[s] # "blocked"
      BY <2>1, <2>2 DEF NotifyBlockedSenders
    <3> QED
      BY <1>1, <3>1 DEF NoticeKept, Room, HasBufferCapacity
  <2>3. CASE ~fin[o].notify
    <3>1. \A x \in Ops : pc'[x] = IF x = o THEN "done" ELSE pc[x]
      BY <2>1, <2>3 DEF NotifyBlockedSenders
    <3>2. Notice => Notice'
      BY <2>1, <2>3, <3>1 DEF Notice
    <3> QED
      BY <1>1, <3>1, <3>2 DEF NoticeKept, Room, HasBufferCapacity
  <2> QED
    BY <2>2, <2>3
<1> QED
  BY <1>2, <1>3, <1>4

\* The loop and the timers do not lose a notice to a sender.
LEMMA LoopNotices ==
    ASSUME TypeOK, LoopCallback \/ ShutDown \/ (\E o \in Ops : TimerFire(o)) \/ UNCHANGED vars
    PROVE  NoticeKept
<1>1. UNCHANGED <<messages, closed, fin>>
  BY DEF LoopCallback, Resume, OnAsync, RunClose, RunTimerStart, RunTimerStartFails,
         RunTimerCancel, RunWalk, ShutDown, TimerFire
<1>2. \A x \in Ops : pc'[x] = pc[x] \/ (pc[x] = "suspended" /\ pc'[x] = "done")
  <2>1. CASE Resume
    BY <2>1 DEF Resume, TypeOK
  <2>2. CASE ~Resume
    BY <2>2 DEF LoopCallback, OnAsync, RunClose, RunTimerStart, RunTimerStartFails,
         RunTimerCancel, RunWalk, ShutDown, TimerFire
  <2> QED
    BY <2>1, <2>2
<1>3. Notice => Notice'
  BY <1>1, <1>2 DEF Notice
<1> QED
  BY <1>1, <1>2, <1>3 DEF NoticeKept, Room, HasBufferCapacity

\* The property in terms of the room there is.
SendersServed == \A s \in Ops : pc[s] = "blocked" /\ Room => Notice

\* A thread asleep in send() that could go on has a notification coming, as long as
\* values are received by recv and recv_for only.
THEOREM SendersAreNotified == AwaitedOnly => (Spec => []NoLostSendWakeup)
<1> SUFFICES ASSUME AwaitedOnly PROVE Spec => []NoLostSendWakeup
  OBVIOUS
<1>1. FifoInv /\ SendersServed => NoLostSendWakeup
  <2> SUFFICES ASSUME FifoInv, SendersServed PROVE NoLostSendWakeup
    OBVIOUS
  <2>1. closed \/ CanSendNow <=> Room
    BY RoomToSend DEF FifoInv, Room
  <2> QED
    BY <2>1 DEF NoLostSendWakeup, SendersServed, Notice
<1>2. Init => SendersServed
  BY DEF Init, SendersServed
<1>3. FifoInv /\ SendersServed /\ [Next]_vars => SendersServed'
  <2> SUFFICES ASSUME FifoInv, SendersServed, [Next]_vars PROVE SendersServed'
    OBVIOUS
  <2>1. TypeOK
    BY DEF FifoInv
  <2>2. ASSUME NEW o \in Ops, Call(o) \/ Continue(o) PROVE NoticeKept
    BY <2>1, <2>2, SendNotices, ReceiveNotices, OtherNotices DEF Call, Continue
  <2>3. NoticeKept
    BY <2>1, <2>2, LoopNotices DEF Next
  <2> QED
    BY <2>3 DEF NoticeKept, SendersServed
<1> QED
  BY <1>1, <1>2, <1>3, FifoInvariant, PTL DEF Spec

-----------------------------------------------------------------------------
(* Completed coroutines are resumed                                          *)

\* A completed coroutine that is to be resumed: it is suspended, or about to be, for
\* recv_for queues its waiter before it posts the start of the timer.
Due(o) == outcome[o] # "none" /\ (pc[o] = "suspended" \/ (pc[o] = "posting" /\ fault = "none"))
InReady(o) == InSeq(o, ready_receivers) \/ InSeq(o, ready_senders)
FlushSure == FlushComing /\ ~async_closing
DueServed ==
    ~shutting_down => \A o \in Ops : Due(o) => InSeq(o, resuming) \/ (InReady(o) /\ FlushSure)

\* What is posted, and what closing has to do with it: before the runtime shuts down,
\* the loop gives up its handle for a closed channel only.
Whats(p) == {p[i].what : i \in 1..Len(p)}
ClosingInv ==
    /\ "close" \in Whats(posted) => closed
    /\ \A o \in Ops : Kind[o] = "close" /\ pc[o] = "final" => closed
    /\ ~shutting_down => "walk" \notin Whats(posted) /\ (async_closing => closed)
ResumeInv == DueServed /\ ClosingInv

\* What two queues have, one after the other.
LEMMA ConcatElements ==
    ASSUME NEW p \in Seq(Ops), NEW q \in Seq(Ops)
    PROVE  \A x : InSeq(x, p \o q) <=> InSeq(x, p) \/ InSeq(x, q)
<1>1. /\ Len(p) \in Nat /\ Len(q) \in Nat /\ Len(p \o q) = Len(p) + Len(q)
      /\ \A i \in 1..(Len(p) + Len(q)) :
            (p \o q)[i] = IF i <= Len(p) THEN p[i] ELSE q[i - Len(p)]
  BY ConcatProperties, LenProperties
<1>2. ASSUME NEW x, InSeq(x, p \o q) PROVE InSeq(x, p) \/ InSeq(x, q)
  <2>1. PICK i \in 1..(Len(p) + Len(q)) : (p \o q)[i] = x
    BY <1>1, <1>2 DEF InSeq
  <2>2. CASE i <= Len(p)
    <3>1. i \in 1..Len(p) /\ p[i] = x
      BY <1>1, <2>1, <2>2
    <3> QED
      BY <3>1 DEF InSeq
  <2>3. CASE ~(i <= Len(p))
    <3>1. i - Len(p) \in 1..Len(q)
      BY <1>1, <2>3
    <3>2. q[i - Len(p)] = x
      BY <1>1, <2>1, <2>3
    <3> QED
      BY <3>1, <3>2 DEF InSeq
  <2> QED
    BY <2>2, <2>3
<1>3. ASSUME NEW x, NEW i \in 1..Len(p), p[i] = x PROVE InSeq(x, p \o q)
  <2>1. i \in 1..(Len(p) + Len(q)) /\ i <= Len(p)
    BY <1>1
  <2> QED
    BY <1>1, <1>3, <2>1 DEF InSeq
<1>4. ASSUME NEW x, NEW i \in 1..Len(q), q[i] = x PROVE InSeq(x, p \o q)
  <2>1. /\ Len(p) + i \in 1..(Len(p) + Len(q)) /\ ~(Len(p) + i <= Len(p))
        /\ Len(p) + i - Len(p) = i
    BY <1>1
  <2>2. (p \o q)[Len(p) + i] = x
    BY <1>1, <1>4, <2>1
  <2> QED
    BY <1>1, <2>1, <2>2 DEF InSeq
<1> QED
  BY <1>2, <1>3, <1>4 DEF InSeq

\* What is posted after closures are added or one is run.
LEMMA WhatsFacts ==
    ASSUME NEW p \in Seq(Closures), NEW q \in Seq(Closures)
    PROVE  /\ Whats(p \o q) = Whats(p) \cup Whats(q)
           /\ Whats(<<>>) = {}
           /\ \A c \in Closures : Whats(<<c>>) = {c.what}
           /\ \A c \in Closures : Whats(Append(p, c)) = Whats(p) \cup {c.what}
           /\ p # <<>> => /\ Whats(p) = Whats(Tail(p)) \cup {Head(p).what}
<1>1. /\ Len(p) \in Nat /\ Len(q) \in Nat /\ Len(p \o q) = Len(p) + Len(q)
      /\ \A i \in 1..(Len(p) + Len(q)) :
            (p \o q)[i] = IF i <= Len(p) THEN p[i] ELSE q[i - Len(p)]
  BY ConcatProperties, LenProperties
<1>2. Whats(p \o q) = Whats(p) \cup Whats(q)
  <2>1. ASSUME NEW i \in 1..Len(p) PROVE p[i].what \in Whats(p \o q)
    <3>1. i \in 1..(Len(p) + Len(q)) /\ i <= Len(p)
      BY <1>1
    <3> QED
      BY <1>1, <3>1 DEF Whats
  <2>2. ASSUME NEW i \in 1..Len(q) PROVE q[i].what \in Whats(p \o q)
    <3>1. /\ Len(p) + i \in 1..(Len(p) + Len(q)) /\ ~(Len(p) + i <= Len(p))
          /\ Len(p) + i - Len(p) = i
      BY <1>1
    <3>2. (p \o q)[Len(p) + i] = q[i]
      BY <1>1, <3>1
    <3> QED
      BY <1>1, <3>1, <3>2 DEF Whats
  <2>3. ASSUME NEW i \in 1..(Len(p) + Len(q)) PROVE (p \o q)[i].what \in Whats(p) \cup Whats(q)
    <3>1. CASE i <= Len(p)
      <4>1. i \in 1..Len(p) /\ (p \o q)[i] = p[i]
        BY <1>1, <3>1
      <4> QED
        BY <4>1 DEF Whats
    <3>2. CASE ~(i <= Len(p))
      <4>1. i - Len(p) \in 1..Len(q)
        BY <1>1, <3>2
      <4>2. (p \o q)[i] = q[i - Len(p)]
        BY <1>1, <3>2
      <4> QED
        BY <4>1, <4>2 DEF Whats
    <3> QED
      BY <3>1, <3>2
  <2>4. Whats(p) \subseteq Whats(p \o q) /\ Whats(q) \subseteq Whats(p \o q)
    BY <2>1, <2>2 DEF Whats
  <2>5. Whats(p \o q) \subseteq Whats(p) \cup Whats(q)
    BY <1>1, <2>3 DEF Whats
  <2> QED
    BY <2>4, <2>5
<1>3. Whats(<<>>) = {}
  BY EmptySeq DEF Whats
<1>4. ASSUME NEW c \in Closures PROVE Whats(<<c>>) = {c.what}
  <2>1. Len(<<c>>) = 1 /\ <<c>>[1] = c /\ 1..1 = {1}
    OBVIOUS
  <2> QED
    BY <2>1 DEF Whats
<1>5. ASSUME NEW c \in Closures PROVE Whats(Append(p, c)) = Whats(p) \cup {c.what}
  <2>1. /\ Len(Append(p, c)) = Len(p) + 1 /\ Append(p, c)[Len(p) + 1] = c
        /\ \A i \in 1..Len(p) : Append(p, c)[i] = p[i]
    BY AppendProperties
  <2>2. 1..(Len(p) + 1) = 1..Len(p) \cup {Len(p) + 1}
    BY <1>1
  <2> QED
    BY <2>1, <2>2 DEF Whats
<1>6. ASSUME p # <<>> PROVE Whats(p) = Whats(Tail(p)) \cup {Head(p).what}
  <2>1. /\ Len(p) \in Nat \ {0} /\ Len(Tail(p)) = Len(p) - 1 /\ Head(p) = p[1]
        /\ \A i \in 1..Len(Tail(p)) : Tail(p)[i] = p[i + 1]
    BY <1>6, HeadTailProperties, EmptySeq
  <2>2. ASSUME NEW i \in 1..Len(Tail(p)) PROVE Tail(p)[i].what \in Whats(p)
    <3>1. i + 1 \in 1..Len(p)
      BY <2>1
    <3> QED
      BY <2>1, <3>1 DEF Whats
  <2>3. ASSUME NEW i \in 1..Len(p) PROVE p[i].what \in Whats(Tail(p)) \cup {Head(p).what}
    <3>1. i = 1 \/ (i - 1 \in 1..Len(Tail(p)) /\ (i - 1) + 1 = i)
      BY <2>1
    <3> QED
      BY <2>1, <3>1 DEF Whats
  <2>4. 1 \in 1..Len(p)
    BY <2>1
  <2> QED
    BY <2>1, <2>2, <2>3, <2>4 DEF Whats
<1> QED
  BY <1>2, <1>3, <1>4, <1>5, <1>6

\* A flush is coming in terms of what is posted.
LEMMA FlushForm ==
    FlushComing <=> \/ async_pending /\ ~async_closing
                    \/ "close" \in Whats(posted)
                    \/ \E o \in Ops : pc[o] = "final" /\ fin[o].wake
BY DEF FlushComing, Whats

\* What close and the destructor have begun stays begun.
LEMMA ClosingStep ==
    ASSUME ClosingInv, closed => closed', shutting_down => shutting_down',
           Whats(posted') \subseteq Whats(posted) \cup {"start", "cancel"}
                                    \cup (IF closed' THEN {"close"} ELSE {})
                                    \cup (IF shutting_down' THEN {"walk"} ELSE {}),
           async_closing' => async_closing \/ closed' \/ shutting_down',
           \A x \in Ops : Kind[x] = "close" /\ pc'[x] = "final" => pc[x] = "final" \/ closed'
    PROVE  ClosingInv'
BY DEF ClosingInv

\* A call under the mutex: those it completes it queues, and it will flush.
LEMMA CallResume ==
    ASSUME TypeOK, ResumeInv, NEW o \in Ops, pc[o] # "final",
           UNCHANGED loopv, closed => closed', Kind[o] = "close" => closed',
           \A x \in Ops \ {o} : pc'[x] = pc[x] /\ fin'[x] = fin[x],
           \A x \in Ops : InReady(x) => InReady(x)',
           \A x \in Ops \ {o} :
              \/ outcome'[x] = outcome[x]
              \/ InReady(x)' /\ ~closed /\ pc'[o] = "final" /\ fin'[o].wake,
           ~Due(o)'
    PROVE  ResumeInv'
<1>1. ClosingInv'
  <2>1. UNCHANGED <<posted, async_closing, shutting_down>>
    OBVIOUS
  <2>2. Whats(posted') = Whats(posted)
    BY <2>1
  <2>3. \A x \in Ops : Kind[x] = "close" /\ pc'[x] = "final" => pc[x] = "final" \/ closed'
    OBVIOUS
  <2> QED
    BY <2>1, <2>2, <2>3, ClosingStep DEF ResumeInv
<1>2. FlushComing => FlushComing'
  BY DEF FlushComing
<1>3. ~shutting_down /\ ~closed => ~async_closing
  BY DEF ResumeInv, ClosingInv
<1>4. pc'[o] = "final" /\ fin'[o].wake => FlushComing'
  BY DEF FlushComing
<1>5. ASSUME ~shutting_down', NEW x \in Ops, Due(x)'
      PROVE  InSeq(x, resuming)' \/ (InReady(x)' /\ FlushSure')
  <2>1. x # o /\ pc'[x] = pc[x] /\ fault' = fault /\ resuming' = resuming
    BY <1>5
  <2>2. CASE outcome'[x] = outcome[x]
    <3>1. Due(x)
      BY <1>5, <2>1, <2>2 DEF Due
    <3>2. InSeq(x, resuming) \/ (InReady(x) /\ FlushSure)
      BY <1>5, <3>1 DEF ResumeInv, DueServed
    <3> QED
      BY <1>2, <2>1, <3>2 DEF FlushSure
  <2>3. CASE outcome'[x] # outcome[x]
    BY <1>3, <1>4, <1>5, <2>1, <2>3 DEF FlushSure
  <2> QED
    BY <2>2, <2>3
<1> QED
  BY <1>1, <1>5 DEF ResumeInv, DueServed

\* The same when only the calling operation changes.
LEMMA OwnResume ==
    ASSUME TypeOK, ResumeInv, NEW o \in Ops, pc[o] # "final", Kind[o] # "close",
           UNCHANGED loopv, closed' = closed,
           \A x \in Ops \ {o} : pc'[x] = pc[x] /\ fin'[x] = fin[x] /\ outcome'[x] = outcome[x],
           \A x \in Ops : InReady(x) => InReady(x)',
           pc'[o] \in {"suspended", "posting"} => outcome'[o] = "none"
    PROVE  ResumeInv'
<1>1. ~Due(o)'
  BY DEF Due
<1> QED
  BY <1>1, CallResume

\* A step of the loop thread that flushes the ready queues.
LEMMA FlushResume ==
    ASSUME DueServed, shutting_down' = shutting_down,
           \A x \in Ops : InReady(x) \/ InSeq(x, resuming) => InSeq(x, resuming'),
           \A x \in Ops : Due(x)' => Due(x) \/ InSeq(x, resuming')
    PROVE  DueServed'
<1>1. ASSUME NEW x \in Ops, Due(x)', ~shutting_down' PROVE InSeq(x, resuming')
  BY <1>1 DEF DueServed
<1> QED
  BY <1>1 DEF DueServed

\* A step that leaves the queues alone.
LEMMA KeepResume ==
    ASSUME DueServed, UNCHANGED <<resuming, ready_receivers, ready_senders>>,
           shutting_down => shutting_down',
           ~shutting_down' /\ FlushSure => FlushSure',
           \A x \in Ops : Due(x)' => Due(x)
    PROVE  DueServed'
<1>1. ASSUME NEW x \in Ops
      PROVE  InReady(x)' = InReady(x) /\ InSeq(x, resuming)' = InSeq(x, resuming)
  BY DEF InReady
<1> QED
  BY <1>1 DEF DueServed

\* Ready waiters stay ready while no flush happens.
LEMMA ReadyKept ==
    ASSUME TypeOK, NEW p \in Seq(Ops), NEW q \in Seq(Ops),
           ready_receivers' = ready_receivers \o p, ready_senders' = ready_senders \o q
    PROVE  \A x \in Ops : InReady(x)' <=> InReady(x) \/ InSeq(x, p) \/ InSeq(x, q)
<1>1. ready_receivers \in Seq(Ops) /\ ready_senders \in Seq(Ops)
  BY DEF TypeOK
<1>2. \A x : /\ InSeq(x, ready_receivers') <=> InSeq(x, ready_receivers) \/ InSeq(x, p)
             /\ InSeq(x, ready_senders') <=> InSeq(x, ready_senders) \/ InSeq(x, q)
  BY <1>1, ConcatElements
<1> QED
  BY <1>2 DEF InReady

\* The ready queues have what they had.
LEMMA ReadySame ==
    ASSUME ready_receivers' = ready_receivers, ready_senders' = ready_senders
    PROVE  \A x \in Ops : InReady(x)' = InReady(x)
BY DEF InReady

\* A receiver is made ready.
LEMMA ReadyOne ==
    ASSUME TypeOK, NEW r \in Ops, ready_receivers' = Append(ready_receivers, r),
           ready_senders' = ready_senders
    PROVE  /\ InReady(r)'
           /\ \A x \in Ops : InReady(x) => InReady(x)'
<1>1. \A x : InSeq(x, ready_receivers') <=> InSeq(x, ready_receivers) \/ x = r
  BY AppendElements DEF TypeOK
<1> QED
  BY <1>1 DEF InReady

\* The send operations.
LEMMA SendResumes ==
    ASSUME FifoInv, ResumeInv, NEW o \in Ops,
           TrySend(o) \/ BlockingSend(o) \/ AsyncSendReady(o) \/ AsyncSendSuspend(o)
    PROVE  ResumeInv'
<1>1. TypeOK /\ WaitInv /\ DataInv /\ CoreInv
  BY DEF FifoInv
<1>2. pc[o] # "final" /\ pc[o] \in Fresh /\ Kind[o] # "close"
  BY DEF TrySend, BlockingSend, AsyncSendReady, AsyncSendSuspend, Fresh
<1>3. outcome[o] = "none" /\ ~InSeq(o, receiver_waiters)
  BY <1>1, <1>2 DEF CoreInv, CallsInv, CallInv
<1>4. ASSUME NEW why, Fail(o, why) PROVE ResumeInv'
  <2>1. /\ pc'[o] = "done" /\ \A x \in Ops \ {o} : pc'[x] = pc[x] /\ fin'[x] = fin[x]
    BY <1>1, <1>4, LeaveFacts DEF Fail
  <2>2. \A x \in Ops \ {o} : outcome'[x] = outcome[x]
    BY <1>1, <1>4 DEF Fail, TypeOK
  <2>3. \A x \in Ops : InReady(x)' = InReady(x)
    BY <1>4, ReadySame DEF Fail
  <2>4. UNCHANGED loopv /\ closed' = closed
    BY <1>4 DEF Fail
  <2> QED
    BY <1>1, <1>2, <2>1, <2>2, <2>3, <2>4, OwnResume
<1>5. ASSUME SendNow(o), Prune(receiver_waiters) # <<>> PROVE ResumeInv'
  <2>1. PICK r \in Ops : /\ r = Head(Prune(receiver_waiters))
                          /\ InSeq(r, receiver_waiters) /\ r # o
    <3> DEFINE h == Head(Prune(receiver_waiters))
    <3>1. InSeq(h, receiver_waiters) /\ h \in Ops /\ h # o
      BY <1>1, <1>3, <1>5, PrunedWaiters, WaiterFacts DEF CoreInv
    <3> QED
      BY <3>1
  <2> DEFINE f == [wake |-> TRUE, notify |-> FALSE, timers |-> TimersOf(<<r>>)]
  <2>2. /\ ready_receivers' = Append(ready_receivers, r)
        /\ outcome' = [outcome EXCEPT ![r] = "value", ![o] = "sent"]
        /\ Leave(o, f) /\ ready_senders' = ready_senders /\ closed' = closed
        /\ UNCHANGED loopv
    BY <1>5, <2>1, Zenon DEF SendNow, PlaceSend, loopv
  <2>3. ~closed
    BY <1>5 DEF SendNow, CanSendNow
  <2>4. f.wake
    BY Zenon
  <2>5. f # NoFin
    BY <2>4 DEF NoFin
  <2> HIDE DEF f
  <2>6. /\ pc'[o] = "final" /\ fin'[o] = f
        /\ \A x \in Ops \ {o} : pc'[x] = pc[x] /\ fin'[x] = fin[x]
    BY <1>1, <2>2, <2>5, LeaveFacts
  <2>7. InReady(r)' /\ \A x \in Ops : InReady(x) => InReady(x)'
    <3>1. TypeOK /\ r \in Ops
      BY <1>1, <2>1
    <3>2. ready_receivers' = Append(ready_receivers, r) /\ ready_senders' = ready_senders
      BY <2>2
    <3> QED
      BY <3>1, <3>2, ReadyOne
  <2>8. \A x \in Ops \ {o, r} : outcome'[x] = outcome[x]
    BY <1>1, <2>1, <2>2 DEF TypeOK
  <2>9. ~Due(o)'
    BY <2>6 DEF Due
  <2>10. \A x \in Ops \ {o} :
            \/ outcome'[x] = outcome[x]
            \/ InReady(x)' /\ ~closed /\ pc'[o] = "final" /\ fin'[o].wake
    <3> SUFFICES ASSUME NEW x \in Ops \ {o}, x = r
                 PROVE  InReady(x)' /\ ~closed /\ pc'[o] = "final" /\ fin'[o].wake
      BY <2>8
    <3>1. InReady(x)'
      BY <2>7
    <3> QED
      BY <2>3, <2>4, <2>6, <3>1
  <2> QED
    BY <1>1, <1>2, <2>2, <2>6, <2>7, <2>9, <2>10, CallResume
<1>6. ASSUME SendNow(o), Prune(receiver_waiters) = <<>> PROVE ResumeInv'
  <2>1. /\ outcome' = [outcome EXCEPT ![o] = "sent"] /\ Leave(o, NoFin)
        /\ UNCHANGED <<ready_receivers, ready_senders, closed>> /\ UNCHANGED loopv
    BY <1>6 DEF SendNow, PlaceSend
  <2>2. /\ pc'[o] = "done" /\ \A x \in Ops \ {o} : pc'[x] = pc[x] /\ fin'[x] = fin[x]
    BY <1>1, <2>1, LeaveFacts
  <2>3. \A x \in Ops \ {o} : outcome'[x] = outcome[x]
    BY <1>1, <2>1 DEF TypeOK
  <2>4. \A x \in Ops : InReady(x)' = InReady(x)
    BY <2>1, ReadySame
  <2>5. pc'[o] \notin {"suspended", "posting"}
    BY <2>2
  <2> QED
    BY <1>1, <1>2, <2>1, <2>2, <2>3, <2>4, <2>5, OwnResume
<1>7. ASSUME NEW to \in PCs, pc' = [pc EXCEPT ![o] = to],
             UNCHANGED <<ready_receivers, ready_senders, closed, outcome, fin, loopv>>
      PROVE  ResumeInv'
  <2>1. \A x \in Ops \ {o} : pc'[x] = pc[x] /\ fin'[x] = fin[x] /\ outcome'[x] = outcome[x]
    BY <1>1, <1>7 DEF TypeOK
  <2>2. \A x \in Ops : InReady(x)' = InReady(x)
    BY <1>7, ReadySame
  <2> QED
    BY <1>1, <1>2, <1>3, <1>7, <2>1, <2>2, OwnResume
<1>8. (SendNow(o) \/ SendClosed(o) \/ \E why : Fail(o, why)) => ResumeInv'
  BY <1>4, <1>5, <1>6 DEF SendClosed
<1>9. CASE TrySend(o)
  BY <1>8, <1>9 DEF TrySend
<1>10. CASE BlockingSend(o)
  BY <1>7, <1>8, <1>10 DEF BlockingSend, PCs
<1>11. CASE AsyncSendReady(o)
  BY <1>7, <1>8, <1>11 DEF AsyncSendReady, PCs
<1>12. CASE AsyncSendSuspend(o)
  BY <1>7, <1>8, <1>12 DEF AsyncSendSuspend, PCs
<1> QED
  BY <1>9, <1>10, <1>11, <1>12

\* A receive that frees suspended senders flushes, and they were suspended on an
\* open channel.
LEMMA FreedWake ==
    ASSUME TypeOK, WaitInv, DataInv, Available, NEW x, InSeq(x, TakeFront.freed)
    PROVE  TakeFront.wake /\ ~closed
<1>1. TakeFront.wake
  <2> DEFINE S == ActiveWaiters(sender_waiters)
             m == Len(Tail(messages))
  <2>1. /\ TakeFront.freed = SubSeq(S, 1, Refill - m)
        /\ TakeFront.wake <=> Refill > m
        /\ Refill \in 0..Len(Rest) /\ Len(Rest) \in Nat /\ m <= Refill
    BY TakeFrontForm
  <2>2. m \in Nat
    BY TakeFrontForm, LenProperties
  <2>3. TakeFront.freed # <<>>
    BY EmptySeq DEF InSeq
  <2> HIDE DEF S, m
  <2>4. Refill = m => Refill - m = 0
    BY <2>1, <2>2
  <2>5. SubSeq(S, 1, 0) = <<>>
    BY SubSeqEmpty
  <2>6. Refill # m
    BY <2>1, <2>3, <2>4, <2>5
  <2> QED
    BY <2>1, <2>2, <2>6
<1>2. Len(Line) > Buffered
  <2> DEFINE n == Len(Line)
  <2>1. \E i \in 1..n : i > Buffered
    BY TakeFrontData
  <2>2. n \in Nat /\ Buffered \in Nat
    BY LineType, LenProperties
  <2> HIDE DEF n
  <2> QED
    BY <2>1, <2>2 DEF n
<1>3. sender_waiters # <<>>
  BY <1>2, LineType, EmptySeq
<1> QED
  BY <1>1, <1>3 DEF WaitInv, SendersWaitOnFull

\* The receive operations.
LEMMA ReceiveResume ==
    ASSUME FifoInv, ResumeInv, Available, NEW o \in Ops, Kind[o] # "close", pc[o] # "final",
           NEW cont \in BOOLEAN, NEW notify \in BOOLEAN, Receive(o, cont, notify)
    PROVE  ResumeInv'
<1> DEFINE p == TakeFront
           self == IF cont THEN <<o>> ELSE <<>>
           f == [wake |-> p.wake, notify |-> p.notify \/ notify,
                 timers |-> TimersOf(p.served)]
<1>1. TypeOK /\ WaitInv /\ DataInv
  BY DEF FifoInv
<1>2. /\ ready_receivers' = ready_receivers \o self \o p.served
      /\ ready_senders' = ready_senders \o p.freed
      /\ outcome' = [x \in Ops |->
                        IF x = o \/ InSeq(x, p.served) THEN "value"
                        ELSE IF InSeq(x, p.freed) THEN "sent" ELSE outcome[x]]
      /\ Leave(o, f)
      /\ closed' = closed /\ UNCHANGED loopv
  BY Zenon DEF Receive, loopv
<1>3. f.wake = p.wake
  BY Zenon
<1>4. self \in Seq(Ops)
  OBVIOUS
<1>5. p.served = <<>> /\ p.freed \in Seq(Ops) /\ p.wake \in BOOLEAN
  BY <1>1, TakeFrontFacts
<1>6. \A x \in Ops : InSeq(x, p.freed) => p.wake /\ ~closed
  BY <1>1, FreedWake
<1> HIDE DEF p, f, self
<1>7. /\ \A x \in Ops : InReady(x) => InReady(x)'
      /\ \A x \in Ops : InSeq(x, p.freed) => InReady(x)'
  <2>1. ready_receivers \in Seq(Ops) /\ ready_senders \in Seq(Ops)
    BY <1>1 DEF TypeOK
  <2>2. ready_receivers \o self \in Seq(Ops) /\ p.served \in Seq(Ops)
    BY <1>4, <1>5, <2>1, ConcatProperties
  <2>3. \A x : InSeq(x, ready_receivers) => InSeq(x, ready_receivers \o self)
    BY <1>4, <2>1, ConcatElements
  <2>4. \A x : InSeq(x, ready_receivers \o self) => InSeq(x, ready_receivers')
    BY <1>2, <2>2, ConcatElements
  <2>5. \A x : InSeq(x, ready_senders') <=> InSeq(x, ready_senders) \/ InSeq(x, p.freed)
    BY <1>2, <1>5, <2>1, ConcatElements
  <2> QED
    BY <2>3, <2>4, <2>5 DEF InReady
<1>8. /\ pc'[o] = IF f = NoFin THEN "done" ELSE "final"
      /\ fin'[o] = f
      /\ \A x \in Ops \ {o} : pc'[x] = pc[x] /\ fin'[x] = fin[x]
  BY <1>1, <1>2, LeaveFacts
<1>9. p.wake => f # NoFin
  <2>1. NoFin.wake = FALSE
    BY DEF NoFin
  <2> QED
    BY <1>3, <1>5, <2>1
<1>10. \A x \in Ops \ {o} :
         \/ outcome'[x] = outcome[x]
         \/ InReady(x)' /\ ~closed /\ pc'[o] = "final" /\ fin'[o].wake
  <2> SUFFICES ASSUME NEW x \in Ops \ {o}, outcome'[x] # outcome[x]
               PROVE  InReady(x)' /\ ~closed /\ pc'[o] = "final" /\ fin'[o].wake
    OBVIOUS
  <2>1. ~InSeq(x, p.served)
    BY <1>5, EmptySeq DEF InSeq
  <2>2. InSeq(x, p.freed)
    BY <1>2, <2>1
  <2>3. p.wake /\ ~closed /\ InReady(x)'
    BY <1>6, <1>7, <2>2
  <2> QED
    BY <1>3, <1>8, <1>9, <2>3
<1>11. ~Due(o)'
  BY <1>8 DEF Due
<1> QED
  BY <1>1, <1>2, <1>7, <1>8, <1>10, <1>11, CallResume

\* Receiving keeps every resumption that is due.
LEMMA ReceiveResumes ==
    ASSUME FifoInv, ResumeInv, NEW o \in Ops,
           TryRecv(o) \/ BlockingNext(o) \/ RecvReady(o) \/ RecvSuspend(o)
    PROVE  ResumeInv'
<1>1. TypeOK /\ CoreInv
  BY DEF FifoInv
<1>2. pc[o] # "final" /\ pc[o] \in Fresh /\ Kind[o] # "close"
  BY DEF TryRecv, BlockingNext, RecvReady, RecvSuspend, Fresh, AwaitKinds
<1>3. outcome[o] = "none"
  BY <1>1, <1>2 DEF CoreInv, CallsInv, CallInv
<1>4. ASSUME Leave(o, NoFin), UNCHANGED <<ready_senders, closed, loopv>>,
             \/ ready_receivers' = ready_receivers
             \/ ready_receivers' = Append(ready_receivers, o),
             \E why : outcome' = [outcome EXCEPT ![o] = why]
      PROVE  ResumeInv'
  <2>1. /\ pc'[o] = "done" /\ \A x \in Ops \ {o} : pc'[x] = pc[x] /\ fin'[x] = fin[x]
    BY <1>1, <1>4, LeaveFacts
  <2>2. \A x \in Ops \ {o} : outcome'[x] = outcome[x]
    BY <1>1, <1>4 DEF TypeOK
  <2>3. \A x \in Ops : InReady(x) => InReady(x)'
    <3>1. CASE ready_receivers' = ready_receivers
      BY <1>4, <3>1, ReadySame
    <3>2. CASE ready_receivers' = Append(ready_receivers, o)
      BY <1>1, <1>4, <3>2, ReadyOne
    <3> QED
      BY <1>4, <3>1, <3>2
  <2>4. pc'[o] \notin {"suspended", "posting"}
    BY <2>1
  <2>5. UNCHANGED loopv /\ closed' = closed
    BY <1>4
  <2> QED
    BY <1>1, <1>2, <2>1, <2>2, <2>3, <2>4, <2>5, OwnResume
<1>5. ASSUME NEW why, Fail(o, why) PROVE ResumeInv'
  BY <1>4, <1>5 DEF Fail
<1>6. ASSUME NEW to \in PCs, pc' = [pc EXCEPT ![o] = to],
             UNCHANGED <<ready_receivers, ready_senders, closed, outcome, fin, loopv>>
      PROVE  ResumeInv'
  <2>1. \A x \in Ops \ {o} : pc'[x] = pc[x] /\ fin'[x] = fin[x] /\ outcome'[x] = outcome[x]
    BY <1>1, <1>6 DEF TypeOK
  <2>2. \A x \in Ops : InReady(x)' = InReady(x)
    BY <1>6, ReadySame
  <2> QED
    BY <1>1, <1>2, <1>3, <1>6, <2>1, <2>2, OwnResume
<1>7. ASSUME NEW cont \in BOOLEAN, TryRecvLocked(o, cont) PROVE ResumeInv'
  <2>1. CASE Available /\ Receive(o, cont, messages # <<>>)
    BY <1>2, <2>1, ReceiveResume
  <2>2. CASE ~(Available /\ Receive(o, cont, messages # <<>>))
    <3>1. /\ Leave(o, NoFin) /\ UNCHANGED <<ready_senders, closed, loopv>>
          /\ outcome' = [outcome EXCEPT ![o] = "closed"]
          /\ ready_receivers' = IF cont THEN Append(ready_receivers, o)
                                ELSE ready_receivers
      BY <1>7, <2>2 DEF TryRecvLocked
    <3> QED
      BY <1>4, <3>1
  <2> QED
    BY <2>1, <2>2
<1>8. CASE TryRecv(o)
  <2>1. CASE Available /\ Receive(o, FALSE, messages = <<>>)
    BY <1>2, <2>1, ReceiveResume
  <2> QED
    BY <1>5, <1>8, <2>1 DEF TryRecv
<1>9. CASE BlockingNext(o)
  <2>1. CASE Available /\ Receive(o, FALSE, messages = <<>>)
    BY <1>2, <2>1, ReceiveResume
  <2> QED
    BY <1>5, <1>6, <1>9, <2>1 DEF BlockingNext, PCs
<1>10. CASE RecvReady(o)
  BY <1>5, <1>6, <1>7, <1>10 DEF RecvReady, PCs
<1>11. CASE RecvSuspend(o)
  <2>1. CASE TryRecvLocked(o, TRUE)
    BY <1>7, <2>1
  <2>2. CASE ~TryRecvLocked(o, TRUE)
    <3>1. /\ \E to \in {"posting", "suspended"} : pc' = [pc EXCEPT ![o] = to]
          /\ UNCHANGED <<ready_receivers, ready_senders, closed, outcome, fin, loopv>>
      BY <1>11, <2>2 DEF RecvSuspend
    <3> QED
      BY <1>6, <3>1 DEF PCs
  <2> QED
    BY <2>1, <2>2
<1> QED
  BY <1>8, <1>9, <1>10, <1>11

\* close: on an open channel it completes everybody who waits, and its flush comes
\* with the closure it posts; on a closed one nobody waits.
LEMMA CloseResumes ==
    ASSUME FifoInv, ResumeInv, NEW o \in Ops, Close(o)
    PROVE  ResumeInv'
<1> DEFINE A == ActiveWaiters(receiver_waiters)
           B == ActiveWaiters(sender_waiters)
           f == [wake |-> ~closed, notify |-> TRUE, timers |-> TimersOf(A)]
<1>1. TypeOK /\ WaitInv /\ DataInv
  BY DEF FifoInv
<1>2. /\ pc[o] = "start" /\ closed' = TRUE
      /\ ready_receivers' = ready_receivers \o A
      /\ ready_senders' = ready_senders \o B
      /\ outcome' = [x \in Ops |-> IF x = o \/ InSeq(x, A) \/ InSeq(x, B)
                                   THEN "closed" ELSE outcome[x]]
      /\ pc' = [pc EXCEPT ![o] = "final"]
      /\ fin' = [fin EXCEPT ![o] = f]
      /\ UNCHANGED loopv
  BY Zenon DEF Close, loopv
<1>3. f.wake = ~closed
  BY Zenon
<1>4. A \in Seq(Ops) /\ B \in Seq(Ops)
  BY <1>1, ActiveWaitersFacts DEF TypeOK
<1>5. ASSUME NEW x, InSeq(x, A) PROVE ~closed
  <2>1. ActiveIdx(receiver_waiters) # {}
    BY <1>1, <1>5, ActiveWaitersFacts DEF InSeq, ActiveIdx, TypeOK
  <2> QED
    BY <1>1, <2>1 DEF WaitInv, ReceiversWaitOnEmpty
<1>6. ASSUME NEW x, InSeq(x, B) PROVE ~closed
  <2>1. B = sender_waiters
    BY <1>1, SendersActive
  <2>2. sender_waiters # <<>>
    BY <1>6, <2>1, EmptySeq DEF InSeq
  <2> QED
    BY <1>1, <2>2 DEF WaitInv, SendersWaitOnFull
<1> HIDE DEF A, B, f
<1>7. \A x \in Ops : InReady(x)' <=> InReady(x) \/ InSeq(x, A) \/ InSeq(x, B)
  BY <1>1, <1>2, <1>4, ReadyKept
<1>8. /\ pc'[o] = "final" /\ fin'[o] = f
      /\ \A x \in Ops \ {o} : pc'[x] = pc[x] /\ fin'[x] = fin[x]
  BY <1>1, <1>2 DEF TypeOK
<1>9. \A x \in Ops \ {o} :
         \/ outcome'[x] = outcome[x]
         \/ InReady(x)' /\ ~closed /\ pc'[o] = "final" /\ fin'[o].wake
  <2> SUFFICES ASSUME NEW x \in Ops \ {o}, outcome'[x] # outcome[x]
               PROVE  InReady(x)' /\ ~closed /\ pc'[o] = "final" /\ fin'[o].wake
    OBVIOUS
  <2>1. InSeq(x, A) \/ InSeq(x, B)
    BY <1>2
  <2>2. ~closed
    BY <1>5, <1>6, <2>1
  <2> QED
    BY <1>3, <1>7, <1>8, <2>1, <2>2
<1>10. ~Due(o)'
  BY <1>8 DEF Due
<1>11. \A x \in Ops : InReady(x) => InReady(x)'
  BY <1>7
<1>12. pc[o] # "final" /\ UNCHANGED loopv /\ closed'
  BY <1>2
<1> QED
  BY <1>1, <1>8, <1>9, <1>10, <1>11, <1>12, CallResume

\* Flush takes every ready waiter to the loop thread's list.
LEMMA FlushAll ==
    ASSUME TypeOK, Flush
    PROVE  \A x \in Ops : InReady(x) \/ InSeq(x, resuming) => InSeq(x, resuming')
<1>1. /\ ready_receivers \in Seq(Ops) /\ ready_senders \in Seq(Ops) /\ resuming \in Seq(Ops)
      /\ ready_receivers \o ready_senders \in Seq(Ops)
  BY ConcatProperties DEF TypeOK
<1>2. \A x : InSeq(x, ready_receivers \o ready_senders)
                <=> InSeq(x, ready_receivers) \/ InSeq(x, ready_senders)
  BY <1>1, ConcatElements
<1>3. \A x : InSeq(x, resuming')
                <=> InSeq(x, ready_receivers \o ready_senders) \/ InSeq(x, resuming)
  BY <1>1, ConcatElements DEF Flush
<1> QED
  BY <1>2, <1>3 DEF InReady

\* What follows the unlock.
LEMMA UnlockResumes ==
    ASSUME TypeOK, CallsInv, ResumeInv, NEW o \in Ops,
           \/ RecvForPost(o) \/ RecvForPostThrows(o) \/ Finalize(o) \/ FinalizeClose(o)
    PROVE  ResumeInv'
<1>0. posted \in Seq(Closures) /\ CancelPosts(o) \in Seq(Closures)
  BY PostTypes DEF TypeOK
<1>1. CASE RecvForPost(o)
  <2>1. Whats(posted') = Whats(posted) \cup {"start"}
    <3> DEFINE T == IF HasTimer(o) THEN {o} ELSE {}
    <3>1. /\ Closure("start", T) \in Closures /\ Closure("start", T).what = "start"
          /\ posted' = Append(posted, Closure("start", T))
      BY <1>1 DEF RecvForPost, Closure, Closures
    <3> HIDE DEF T
    <3> QED
      BY <1>0, <3>1, WhatsFacts
  <2>2. /\ pc[o] = "posting" /\ pc' = [pc EXCEPT ![o] = "suspended"] /\ fault = "none"
        /\ UNCHANGED <<closed, outcome, fin, resuming, ready_receivers, ready_senders,
                       async_pending, async_closing, shutting_down, fault>>
    BY <1>1 DEF RecvForPost, CanRun
  <2>3. \A x \in Ops : pc'[x] = IF x = o THEN "suspended" ELSE pc[x]
    BY <2>2 DEF TypeOK
  <2>4. ClosingInv'
    BY <2>1, <2>2, <2>3, ClosingStep DEF ResumeInv
  <2>5. FlushSure => FlushSure'
    BY <2>1, <2>2, <2>3, FlushForm DEF FlushSure, FlushComing, Whats
  <2>6. \A x \in Ops : Due(x)' => Due(x)
    BY <2>2, <2>3 DEF Due
  <2>7. UNCHANGED <<resuming, ready_receivers, ready_senders>>
    BY <2>2
  <2>8. DueServed'
    BY <2>2, <2>5, <2>6, <2>7, KeepResume DEF ResumeInv
  <2> QED
    BY <2>4, <2>8 DEF ResumeInv
<1>2. CASE RecvForPostThrows(o)
  <2>1. /\ shutting_down /\ pc[o] = "posting" /\ UNCHANGED loopv /\ closed' = closed
        /\ \E f : Leave(o, f)
    BY <1>2 DEF RecvForPostThrows
  <2>2. \A x \in Ops \ {o} : pc'[x] = pc[x]
    BY <2>1, LeaveFacts
  <2>3. posted' = posted /\ shutting_down' = shutting_down /\ async_closing' = async_closing
    BY <2>1
  <2>4. Kind[o] # "close"
    BY <2>1 DEF CallsInv, CallInv
  <2>5. ClosingInv'
    BY <2>1, <2>2, <2>3, <2>4, ClosingStep DEF ResumeInv
  <2> QED
    BY <2>1, <2>3, <2>5 DEF ResumeInv, DueServed
<1>3. Whats(CancelPosts(o)) \subseteq {"cancel"}
  <2>1. Closure("cancel", fin[o].timers) \in Closures /\ Closure("cancel", fin[o].timers).what = "cancel"
    <3>1. fin[o].timers \in SUBSET Ops
      BY DEF TypeOK, Fins
    <3> QED
      BY <3>1 DEF Closure, Closures
  <2> QED
    BY <1>0, <2>1, WhatsFacts DEF CancelPosts
<1>4. ASSUME pc' = NotifyBlockedSenders(o)
      PROVE  /\ pc'[o] = "done"
             /\ \A x \in Ops : pc'[x] = "final" => pc[x] = "final"
             /\ \A x \in Ops \ {o} : pc[x] = "final" => pc'[x] = "final"
             /\ \A x \in Ops : pc'[x] \in {"suspended", "posting"} => pc'[x] = pc[x]
  BY <1>4 DEF NotifyBlockedSenders
<1>5. CASE Finalize(o)
  <2>1. /\ pc' = NotifyBlockedSenders(o) /\ posted' = posted \o CancelPosts(o)
        /\ UNCHANGED <<closed, fin, async_closing, shutting_down, fault>>
    BY <1>5 DEF Finalize
  <2>2. Whats(posted') \subseteq Whats(posted) \cup {"cancel"} /\ Whats(posted) \subseteq Whats(posted')
    BY <1>0, <1>3, <2>1, WhatsFacts
  <2>3. ClosingInv'
    BY <1>4, <2>1, <2>2, ClosingStep DEF ResumeInv
  <2>4. \A x \in Ops : Due(x)' => Due(x)
    <3> SUFFICES ASSUME NEW x \in Ops, Due(x)' PROVE Due(x)
      OBVIOUS
    <3>1. x # o /\ pc'[x] = pc[x] /\ fault' = fault
      BY <1>4, <2>1 DEF Due
    <3>2. outcome'[x] = outcome[x]
      BY <1>5, <3>1 DEF Finalize, TypeOK
    <3> QED
      BY <3>1, <3>2 DEF Due
  <2>5. CASE fin[o].wake /\ o \in OnLoop
    <3>1. Flush
      BY <1>5, <2>5 DEF Finalize
    <3>2. \A x \in Ops : InReady(x) \/ InSeq(x, resuming) => InSeq(x, resuming')
      BY <3>1, FlushAll
    <3>3. DueServed'
      BY <2>1, <2>4, <3>2, FlushResume DEF ResumeInv
    <3> QED
      BY <2>3, <3>3 DEF ResumeInv
  <2>6. CASE ~(fin[o].wake /\ o \in OnLoop)
    <3>1. /\ UNCHANGED <<resuming, ready_receivers, ready_senders>>
          /\ async_pending' = (async_pending \/ (fin[o].wake /\ ~async_closing))
      BY <1>5, <2>6 DEF Finalize
    <3>2. FlushSure => FlushSure'
      <4> SUFFICES ASSUME FlushComing, ~async_closing PROVE FlushComing' /\ ~async_closing'
        BY DEF FlushSure
      <4>1. ~async_closing'
        BY <2>1
      <4>2. CASE async_pending
        BY <3>1, <4>1, <4>2 DEF FlushComing
      <4>3. CASE "close" \in Whats(posted)
        BY <2>2, <4>1, <4>3 DEF FlushComing, Whats
      <4>4. ASSUME NEW x \in Ops, pc[x] = "final", fin[x].wake PROVE FlushComing'
        <5>1. CASE x = o
          <6>1. fin[o].wake /\ ~async_closing
            BY <2>1, <4>1, <4>4, <5>1
          <6>2. async_pending' /\ ~async_closing'
            BY <3>1, <4>1, <6>1, Zenon
          <6> QED
            BY <6>2, Zenon DEF FlushComing
        <5>2. CASE x # o
          BY <1>4, <2>1, <4>4, <5>2 DEF FlushComing
        <5> QED
          BY <5>1, <5>2
      <4> QED
        BY <4>1, <4>2, <4>3, <4>4, FlushForm
    <3>3. DueServed'
      BY <2>1, <2>4, <3>1, <3>2, KeepResume DEF ResumeInv
    <3> QED
      BY <2>3, <3>3 DEF ResumeInv
  <2> QED
    BY <2>5, <2>6
<1>6. CASE FinalizeClose(o)
  <2> DEFINE c == IF fin[o].wake /\ ~shutting_down THEN <<Closure("close", {})>> ELSE <<>>
  <2>1. /\ pc' = NotifyBlockedSenders(o) /\ posted' = posted \o CancelPosts(o) \o c
        /\ Kind[o] = "close" /\ pc[o] = "final"
        /\ UNCHANGED <<closed, fin, resuming, ready_receivers, ready_senders,
                       async_pending, async_closing, shutting_down, fault>>
    BY <1>6 DEF FinalizeClose
  <2>2. c \in Seq(Closures) /\ Whats(c) = IF fin[o].wake /\ ~shutting_down THEN {"close"} ELSE {}
    <3>1. Closure("close", {}) \in Closures /\ Closure("close", {}).what = "close"
      BY DEF Closure, Closures
    <3>2. CASE fin[o].wake /\ ~shutting_down
      <4>1. c = <<Closure("close", {})>>
        BY <3>2, Zenon
      <4> HIDE DEF c
      <4>2. Whats(c) = {"close"}
        BY <1>0, <3>1, <4>1, WhatsFacts
      <4> QED
        BY <3>1, <3>2, <4>1, <4>2
    <3>3. CASE ~(fin[o].wake /\ ~shutting_down)
      <4>1. c = <<>>
        BY <3>3, Zenon
      <4> HIDE DEF c
      <4>2. Whats(c) = {}
        BY <1>0, <4>1, WhatsFacts
      <4> QED
        BY <3>3, <4>1, <4>2
    <3> QED
      BY <3>2, <3>3
  <2>3. Whats(posted') = Whats(posted) \cup Whats(CancelPosts(o)) \cup Whats(c)
    <3> HIDE DEF c
    <3>1. posted \o CancelPosts(o) \in Seq(Closures)
      BY <1>0, ConcatProperties
    <3>2. Whats(posted \o CancelPosts(o)) = Whats(posted) \cup Whats(CancelPosts(o))
      BY <1>0, WhatsFacts
    <3>3. Whats((posted \o CancelPosts(o)) \o c)
             = Whats(posted \o CancelPosts(o)) \cup Whats(c)
      BY <2>2, <3>1, WhatsFacts
    <3>4. posted' = (posted \o CancelPosts(o)) \o c
      BY <2>1
    <3> QED
      BY <3>2, <3>3, <3>4
  <2>4. closed
    BY <2>1 DEF ResumeInv, ClosingInv
  <2>5. ClosingInv'
    <3>1. Whats(posted') \subseteq Whats(posted) \cup {"cancel", "close"}
      BY <1>3, <2>2, <2>3
    <3> HIDE DEF c
    <3> QED
      BY <1>4, <2>1, <2>4, <3>1, ClosingStep DEF ResumeInv
  <2>6. ~shutting_down' /\ FlushSure => FlushSure'
    <3> SUFFICES ASSUME FlushComing, ~async_closing, ~shutting_down
                 PROVE  FlushComing' /\ ~async_closing'
      BY <2>1 DEF FlushSure
    <3>1. ~async_closing' /\ async_pending' = async_pending
      BY <2>1
    <3>2. CASE async_pending
      BY <3>1, <3>2 DEF FlushComing
    <3>3. CASE "close" \in Whats(posted)
      BY <2>3, <3>1, <3>3 DEF FlushComing, Whats
    <3>4. ASSUME NEW x \in Ops, pc[x] = "final", fin[x].wake PROVE FlushComing'
      <4>1. CASE x = o
        <5>1. "close" \in Whats(posted')
          BY <2>2, <2>3, <3>4, <4>1
        <5> QED
          BY <5>1 DEF FlushComing, Whats
      <4>2. CASE x # o
        BY <1>4, <2>1, <3>4, <4>2 DEF FlushComing
      <4> QED
        BY <4>1, <4>2
    <3> QED
      BY <3>1, <3>2, <3>3, <3>4, FlushForm
  <2>7. \A x \in Ops : Due(x)' => Due(x)
    <3> SUFFICES ASSUME NEW x \in Ops, Due(x)' PROVE Due(x)
      OBVIOUS
    <3>1. x # o /\ pc'[x] = pc[x] /\ fault' = fault
      BY <1>4, <2>1 DEF Due
    <3>2. outcome'[x] = outcome[x]
      BY <1>6, <3>1 DEF FinalizeClose, TypeOK
    <3> QED
      BY <3>1, <3>2 DEF Due
  <2>8. DueServed'
    BY <2>1, <2>6, <2>7, KeepResume DEF ResumeInv
  <2> QED
    BY <2>5, <2>8 DEF ResumeInv
<1> QED
  BY <1>1, <1>2, <1>5, <1>6

\* The loop thread.
LEMMA RunWhats ==
    ASSUME TypeOK, NEW what, RunPosted(what)
    PROVE  /\ Whats(posted) = Whats(posted') \cup {what} /\ LoopIdle
           /\ fault = "none" /\ resuming = <<>>
<1>1. posted \in Seq(Closures) /\ posted # <<>> /\ posted' = Tail(posted)
      /\ Head(posted).what = what /\ LoopIdle
  BY DEF TypeOK, RunPosted
<1> QED
  BY <1>1, WhatsFacts DEF LoopIdle

\* The two ready queues, and between them a waiter whose timer ends it.
LEMMA FlushTimed ==
    ASSUME TypeOK, resuming = <<>>, NEW p \in Seq(Ops),
           resuming' = ready_receivers \o p \o ready_senders
    PROVE  /\ \A x \in Ops : InReady(x) \/ InSeq(x, resuming) => InSeq(x, resuming')
           /\ \A x \in Ops : InSeq(x, p) => InSeq(x, resuming')
<1>1. /\ ready_receivers \in Seq(Ops) /\ ready_senders \in Seq(Ops)
      /\ ready_receivers \o p \in Seq(Ops)
  BY ConcatProperties DEF TypeOK
<1>2. \A x : InSeq(x, ready_receivers \o p) <=> InSeq(x, ready_receivers) \/ InSeq(x, p)
  BY <1>1, ConcatElements
<1>3. \A x : InSeq(x, resuming') <=> InSeq(x, ready_receivers \o p) \/ InSeq(x, ready_senders)
  BY <1>1, ConcatElements
<1>4. \A x : ~InSeq(x, resuming)
  BY EmptySeq DEF InSeq
<1> QED
  BY <1>2, <1>3, <1>4 DEF InReady

\* So do the loop and the timers.
LEMMA LoopResumes ==
    ASSUME TypeOK, ResumeInv,
           LoopCallback \/ ShutDown \/ (\E o \in Ops : TimerFire(o)) \/ UNCHANGED vars
    PROVE  ResumeInv'
<1>1. ASSUME pc' = pc, closed' = closed, shutting_down' = shutting_down,
             async_closing' = async_closing, Whats(posted') \subseteq Whats(posted)
      PROVE  ClosingInv'
  BY <1>1, ClosingStep DEF ResumeInv
<1>2. CASE UNCHANGED vars
  <2>1. ClosingInv'
    BY <1>1, <1>2
  <2>2. \A x \in Ops : Due(x)' => Due(x)
    BY <1>2 DEF Due
  <2>3. FlushSure => FlushSure'
    BY <1>2 DEF FlushSure, FlushComing
  <2>4. UNCHANGED <<resuming, ready_receivers, ready_senders>> /\ shutting_down' = shutting_down
    BY <1>2
  <2>5. DueServed'
    BY <2>2, <2>3, <2>4, KeepResume DEF ResumeInv
  <2> QED
    BY <2>1, <2>5 DEF ResumeInv
<1>3. CASE Resume
  <2> DEFINE h == Head(resuming)
  <2>1. /\ resuming # <<>> /\ resuming' = Tail(resuming)
        /\ fault = "none"
        /\ IF pc[h] = "suspended" THEN pc' = [pc EXCEPT ![h] = "done"] /\ fault' = fault
           ELSE fault' = "resumed while not suspended" /\ pc' = pc
        /\ UNCHANGED <<closed, ready_receivers, ready_senders, outcome, fin, async_pending,
                       async_closing, posted, shutting_down>>
    BY <1>3 DEF Resume
  <2>2. \A x : InSeq(x, resuming) => x = h \/ InSeq(x, resuming')
    <3>1. /\ Len(resuming) \in Nat \ {0} /\ Len(resuming') = Len(resuming) - 1
          /\ \A i \in 1..Len(resuming') : resuming'[i] = resuming[i + 1]
          /\ h = resuming[1]
      <4>1. resuming \in Seq(Ops) /\ resuming # <<>> /\ resuming' = Tail(resuming)
        BY <2>1 DEF TypeOK
      <4> HIDE DEF h
      <4>2. Len(resuming) \in Nat \ {0} /\ Head(resuming) = resuming[1]
        BY <4>1, HeadTailProperties, EmptySeq, LenProperties
      <4> QED
        BY <4>1, <4>2, HeadTailProperties DEF h
    <3>2. ASSUME NEW i \in 1..Len(resuming) PROVE resuming[i] = h \/ InSeq(resuming[i], resuming')
      <4>1. CASE i = 1
        BY <3>1, <4>1
      <4>2. CASE i # 1
        <5>1. i - 1 \in 1..Len(resuming') /\ (i - 1) + 1 = i
          BY <3>1, <4>2
        <5>2. resuming'[i - 1] = resuming[i]
          BY <3>1, <5>1
        <5> QED
          BY <5>1, <5>2 DEF InSeq
      <4> QED
        BY <4>1, <4>2
    <3> QED
      BY <3>2 DEF InSeq
  <2>3. /\ \A x \in Ops : pc'[x] = pc[x] \/ pc'[x] = "done"
        /\ pc[h] = "suspended" /\ h \in Ops => pc'[h] = "done"
    BY <2>1 DEF TypeOK
  <2>4. FlushSure => FlushSure'
    <3>1. \A x \in Ops : pc[x] = "final" => pc'[x] = "final"
      BY <2>1 DEF TypeOK
    <3> QED
      BY <2>1, <3>1 DEF FlushSure, FlushComing
  <2>5. ASSUME NEW x \in Ops, Due(x)', ~shutting_down'
        PROVE  InSeq(x, resuming') \/ (InReady(x)' /\ FlushSure')
    <3>1. x # h /\ Due(x)
      BY <2>1, <2>3, <2>5 DEF Due
    <3>2. InSeq(x, resuming) \/ (InReady(x) /\ FlushSure)
      BY <2>1, <2>5, <3>1 DEF ResumeInv, DueServed
    <3>3. InReady(x)' = InReady(x)
      BY <2>1, ReadySame
    <3> QED
      BY <2>2, <2>4, <3>1, <3>2, <3>3
  <2>6. DueServed'
    BY <2>5 DEF DueServed
  <2>7. \A x \in Ops : Kind[x] = "close" /\ pc'[x] = "final" => pc[x] = "final" \/ closed'
    BY <2>3
  <2>8. Whats(posted') = Whats(posted)
    BY <2>1
  <2>9. ClosingInv'
    BY <2>1, <2>7, <2>8, ClosingStep DEF ResumeInv
  <2> QED
    BY <2>6, <2>9 DEF ResumeInv
<1>4. CASE OnAsync
  <2>1. /\ Flush /\ fault' = fault
        /\ UNCHANGED <<closed, outcome, pc, async_closing, posted, shutting_down>>
    BY <1>4 DEF OnAsync
  <2>2. ClosingInv'
    BY <1>1, <2>1
  <2>3. \A x \in Ops : Due(x)' => Due(x)
    BY <2>1 DEF Due
  <2>4. DueServed'
    BY <2>1, <2>3, FlushAll, FlushResume DEF ResumeInv
  <2> QED
    BY <2>2, <2>4 DEF ResumeInv
<1>5. CASE RunClose
  <2>1. /\ RunPosted("close") /\ Flush /\ async_closing' = TRUE
        /\ UNCHANGED <<closed, outcome, pc, shutting_down, fault>>
    BY <1>5 DEF RunClose
  <2>2. Whats(posted) = Whats(posted') \cup {"close"}
    BY <2>1, RunWhats
  <2>3. closed
    BY <2>2 DEF ResumeInv, ClosingInv
  <2>4. ClosingInv'
    BY <2>1, <2>2, <2>3, ClosingStep DEF ResumeInv
  <2>5. \A x \in Ops : Due(x)' => Due(x)
    BY <2>1 DEF Due
  <2>6. DueServed'
    BY <2>1, <2>5, FlushAll, FlushResume DEF ResumeInv
  <2> QED
    BY <2>4, <2>6 DEF ResumeInv
<1>6. ASSUME NEW what \in {"start", "cancel"}, RunPosted(what),
             UNCHANGED <<closed, outcome, pc, fin, resuming, ready_receivers, ready_senders,
                         async_pending, async_closing, shutting_down>>
      PROVE  ResumeInv'
  <2>1. Whats(posted) = Whats(posted') \cup {what} /\ fault = "none"
    BY <1>6, RunWhats
  <2>2. ClosingInv'
    BY <1>1, <1>6, <2>1
  <2>3. \A x \in Ops : Due(x)' => Due(x)
    BY <1>6, <2>1 DEF Due
  <2>4. FlushSure => FlushSure'
    <3>1. "close" \in Whats(posted) => "close" \in Whats(posted')
      BY <1>6, <2>1
    <3> QED
      BY <1>6, <3>1 DEF FlushSure, FlushComing, Whats
  <2>5. UNCHANGED <<resuming, ready_receivers, ready_senders>> /\ shutting_down' = shutting_down
    BY <1>6
  <2>6. DueServed'
    BY <2>3, <2>4, <2>5, KeepResume DEF ResumeInv
  <2> QED
    BY <2>2, <2>6 DEF ResumeInv
<1>7. CASE RunTimerStart
  BY <1>6, <1>7 DEF RunTimerStart
<1>8. CASE RunTimerCancel
  BY <1>6, <1>8 DEF RunTimerCancel
<1>9. CASE RunTimerStartFails
  <2>1. PICK o \in Ops : /\ outcome' = [outcome EXCEPT ![o] = "error"]
                         /\ resuming' = ready_receivers \o <<o>> \o ready_senders
    BY <1>9, PostTypes DEF RunTimerStartFails, RunPosted
  <2>2. RunPosted("start") /\ UNCHANGED <<closed, pc, async_closing, shutting_down, fault>>
    BY <1>9 DEF RunTimerStartFails
  <2>3. Whats(posted) = Whats(posted') \cup {"start"} /\ resuming = <<>>
    BY <2>2, RunWhats
  <2>4. ClosingInv'
    BY <1>1, <2>2, <2>3
  <2>5. /\ <<o>> \in Seq(Ops) /\ InSeq(o, <<o>>)
    BY DEF InSeq
  <2>6. /\ \A x \in Ops : InReady(x) \/ InSeq(x, resuming) => InSeq(x, resuming')
        /\ InSeq(o, resuming')
    BY <2>1, <2>3, <2>5, FlushTimed
  <2>7. \A x \in Ops : Due(x)' => Due(x) \/ InSeq(x, resuming')
    BY <2>1, <2>2, <2>6 DEF Due, TypeOK
  <2>8. DueServed'
    BY <2>2, <2>6, <2>7, FlushResume DEF ResumeInv
  <2> QED
    BY <2>4, <2>8 DEF ResumeInv
<1>10. ASSUME NEW o \in Ops, TimerFire(o) PROVE ResumeInv'
  <2> DEFINE p == IF outcome[o] = "none" THEN <<o>> ELSE <<>>
  <2>1. /\ LoopIdle
        /\ outcome' = IF outcome[o] = "none" THEN [outcome EXCEPT ![o] = "timeout"] ELSE outcome
        /\ resuming' = ready_receivers \o p \o ready_senders
        /\ UNCHANGED <<closed, pc, async_closing, posted, shutting_down, fault>>
    BY <1>10 DEF TimerFire
  <2>2. resuming = <<>>
    BY <2>1 DEF LoopIdle
  <2>3. p \in Seq(Ops) /\ (outcome[o] = "none" => InSeq(o, p))
    BY DEF InSeq
  <2> HIDE DEF p
  <2>4. /\ \A x \in Ops : InReady(x) \/ InSeq(x, resuming) => InSeq(x, resuming')
        /\ \A x \in Ops : InSeq(x, p) => InSeq(x, resuming')
    BY <2>1, <2>2, <2>3, FlushTimed
  <2>5. \A x \in Ops : outcome'[x] = outcome[x] \/ InSeq(x, resuming')
    BY <2>1, <2>3, <2>4 DEF TypeOK
  <2>6. \A x \in Ops : Due(x)' => Due(x) \/ InSeq(x, resuming')
    BY <2>1, <2>5 DEF Due
  <2>7. DueServed'
    BY <2>1, <2>4, <2>6, FlushResume DEF ResumeInv
  <2>8. ClosingInv'
    BY <1>1, <2>1
  <2> QED
    BY <2>7, <2>8 DEF ResumeInv
<1>11. CASE ShutDown
  <2>1. /\ shutting_down' /\ posted' = Append(posted, Closure("walk", {}))
        /\ UNCHANGED <<closed, pc, async_closing>>
    BY <1>11 DEF ShutDown
  <2>2. Whats(posted') = Whats(posted) \cup {"walk"}
    <3>1. Closure("walk", {}) \in Closures /\ Closure("walk", {}).what = "walk"
      BY DEF Closure, Closures
    <3> QED
      <4>1. posted \in Seq(Closures)
        BY DEF TypeOK
      <4> HIDE DEF Closure
      <4>2. Whats(Append(posted, Closure("walk", {}))) = Whats(posted) \cup {"walk"}
        BY <3>1, <4>1, WhatsFacts
      <4> QED
        BY <2>1, <4>2
  <2>3. ClosingInv'
    BY <2>1, <2>2, ClosingStep DEF ResumeInv
  <2> QED
    BY <2>1, <2>3 DEF ResumeInv, DueServed
<1>12. CASE RunWalk
  <2>1. RunPosted("walk") /\ UNCHANGED <<closed, pc, shutting_down>>
    BY <1>12 DEF RunWalk
  <2>2. Whats(posted) = Whats(posted') \cup {"walk"}
    BY <2>1, RunWhats
  <2>3. shutting_down /\ shutting_down'
    BY <2>1, <2>2 DEF ResumeInv, ClosingInv
  <2>4. ClosingInv'
    BY <2>1, <2>2, <2>3, ClosingStep DEF ResumeInv
  <2> QED
    BY <2>3, <2>4 DEF ResumeInv, DueServed
<1> QED
  BY <1>2, <1>3, <1>4, <1>5, <1>7, <1>8, <1>9, <1>10, <1>11, <1>12 DEF LoopCallback

\* No resumption is due at the start.
LEMMA ResumeInit == Init => ResumeInv
<1> SUFFICES ASSUME Init PROVE ResumeInv
  OBVIOUS
<1>1. Whats(posted) = {}
  BY EmptySeq DEF Init, Whats
<1> QED
  BY <1>1 DEF Init, ResumeInv, DueServed, ClosingInv, Due

\* Every step keeps every resumption that is due.
LEMMA ResumeStep == FifoInv /\ ResumeInv /\ [Next]_vars => ResumeInv'
<1> SUFFICES ASSUME FifoInv, ResumeInv, [Next]_vars PROVE ResumeInv'
  OBVIOUS
<1>1. TypeOK /\ CallsInv
  BY DEF FifoInv, CoreInv
<1>2. ASSUME NEW o \in Ops, Call(o) \/ Continue(o) PROVE ResumeInv'
  BY <1>1, <1>2, SendResumes, ReceiveResumes, CloseResumes, UnlockResumes DEF Call, Continue
<1> QED
  BY <1>1, <1>2, LoopResumes DEF Next

\* No wake-up is lost: until the runtime shuts down, a suspended coroutine that a
\* value, a free place, close or its timer has completed is about to be resumed, or
\* waits in a ready queue with a flush on its way, whoever completed it and on
\* whatever thread.
THEOREM NoResumeIsLost == Spec => []NoLostResume
<1>1. ResumeInv => NoLostResume
  BY DEF ResumeInv, DueServed, NoLostResume, Due, InReady, FlushSure
<1> QED
  BY <1>1, ResumeInit, ResumeStep, FifoInvariant, PTL DEF Spec

-----------------------------------------------------------------------------
(* One thread                                                                *)

\* Every operation is made by coroutines of the loop thread, and the runtime is not
\* destroyed meanwhile.
OneThread == OnLoop = Ops /\ ~MayShutDown

\* The queues of completed waiters hold suspended coroutines, each once.
Distinct(q) == \A i, j \in 1..Len(q) : q[i] = q[j] => i = j
InQueues(o) == InReady(o) \/ InSeq(o, resuming)
QueuesInv ==
    /\ Distinct(ready_receivers) /\ Distinct(ready_senders) /\ Distinct(resuming)
    /\ \A o \in Ops : /\ ~(InSeq(o, ready_receivers) /\ InSeq(o, ready_senders))
                      /\ ~(InReady(o) /\ InSeq(o, resuming))
    /\ \A o \in Ops : InQueues(o) => pc[o] = "suspended" /\ outcome[o] # "none"

\* The loop thread is in the middle of one operation at most, so what await_ready saw
\* still holds in await_suspend, and a timer exists when its start is posted.
Starts(p) == \A i \in 1..Len(p) : p[i].what = "start" => p[i].timers # {}
TurnInv ==
    /\ \A p, q \in Ops : pc[p] \in Mid /\ pc[q] \in Mid => p = q
    /\ \A o \in Ops : pc[o] = "ready" /\ Kind[o] # "async_send" => ~Available /\ ~closed
    /\ \A o \in Ops : pc[o] = "posting" => HasTimer(o)
    /\ \A o \in Ops : pc[o] \in {"final", "done"} => outcome[o] # "none"
    /\ \A o \in Ops : pc[o] \notin {"iter", "blocked", "woken"}
    /\ Starts(posted) /\ fault = "none" /\ ~shutting_down
WaitOnce == Distinct(receiver_waiters)
ThreadInv == QueuesInv /\ TurnInv /\ WaitOnce

\* Two queues without duplicates and without a common member have none together.
LEMMA DistinctConcat ==
    ASSUME NEW p \in Seq(Ops), NEW q \in Seq(Ops), Distinct(p), Distinct(q),
           \A x \in Ops : ~(InSeq(x, p) /\ InSeq(x, q))
    PROVE  Distinct(p \o q)
<1>1. /\ Len(p) \in Nat /\ Len(q) \in Nat /\ Len(p \o q) = Len(p) + Len(q)
      /\ \A i \in 1..(Len(p) + Len(q)) :
            (p \o q)[i] = IF i <= Len(p) THEN p[i] ELSE q[i - Len(p)]
  BY ConcatProperties, LenProperties
<1>2. ASSUME NEW i \in 1..(Len(p) + Len(q))
      PROVE  \/ i \in 1..Len(p) /\ (p \o q)[i] = p[i]
             \/ i - Len(p) \in 1..Len(q) /\ (p \o q)[i] = q[i - Len(p)]
  BY <1>1
<1>3. ASSUME NEW i \in 1..Len(p), NEW j \in 1..Len(q) PROVE p[i] # q[j]
  <2>1. p[i] \in Ops /\ InSeq(p[i], p) /\ InSeq(q[j], q)
    BY ElementOfSeq DEF InSeq
  <2> QED
    BY <2>1
<1>4. ASSUME NEW i \in 1..(Len(p) + Len(q)), NEW j \in 1..(Len(p) + Len(q)),
             (p \o q)[i] = (p \o q)[j]
      PROVE  i = j
  <2>1. CASE i \in 1..Len(p) /\ (p \o q)[i] = p[i] /\ j \in 1..Len(p) /\ (p \o q)[j] = p[j]
    BY <1>4, <2>1 DEF Distinct
  <2>2. CASE /\ i - Len(p) \in 1..Len(q) /\ (p \o q)[i] = q[i - Len(p)]
             /\ j - Len(p) \in 1..Len(q) /\ (p \o q)[j] = q[j - Len(p)]
    <3>1. i - Len(p) = j - Len(p)
      BY <1>4, <2>2 DEF Distinct
    <3> QED
      BY <1>1, <3>1
  <2> QED
    BY <1>2, <1>3, <1>4, <2>1, <2>2
<1> QED
  BY <1>1, <1>4 DEF Distinct

\* Waiters that are completed are queued once.
LEMMA QueuesGrow ==
    ASSUME TypeOK, QueuesInv, NEW p \in Seq(Ops), NEW q \in Seq(Ops),
           ready_receivers' = ready_receivers \o p, ready_senders' = ready_senders \o q,
           resuming' = resuming, Distinct(p), Distinct(q),
           \A x \in Ops : ~(InSeq(x, p) /\ InSeq(x, q)),
           \A x \in Ops : InSeq(x, p) \/ InSeq(x, q) =>
              outcome[x] = "none" /\ pc'[x] = "suspended" /\ outcome'[x] # "none",
           \A x \in Ops : InQueues(x) => pc'[x] = pc[x] /\ outcome'[x] # "none"
    PROVE  QueuesInv'
<1>1. /\ ready_receivers \in Seq(Ops) /\ ready_senders \in Seq(Ops)
      /\ Distinct(ready_receivers) /\ Distinct(ready_senders) /\ Distinct(resuming)
  BY DEF TypeOK, QueuesInv
<1>2. \A x : /\ InSeq(x, ready_receivers') <=> InSeq(x, ready_receivers) \/ InSeq(x, p)
             /\ InSeq(x, ready_senders') <=> InSeq(x, ready_senders) \/ InSeq(x, q)
  BY <1>1, ConcatElements
<1>3. \A x \in Ops : InSeq(x, p) \/ InSeq(x, q) => ~InQueues(x)
  BY DEF QueuesInv
<1>4. Distinct(ready_receivers')
  <2>1. \A x \in Ops : ~(InSeq(x, ready_receivers) /\ InSeq(x, p))
    BY <1>3 DEF InQueues, InReady
  <2> QED
    BY <1>1, <2>1, DistinctConcat
<1>5. Distinct(ready_senders')
  <2>1. \A x \in Ops : ~(InSeq(x, ready_senders) /\ InSeq(x, q))
    BY <1>3 DEF InQueues, InReady
  <2> QED
    BY <1>1, <2>1, DistinctConcat
<1>6. ASSUME NEW x \in Ops
      PROVE  /\ ~(InSeq(x, ready_receivers') /\ InSeq(x, ready_senders'))
             /\ ~(InReady(x)' /\ InSeq(x, resuming'))
  BY <1>2, <1>3 DEF QueuesInv, InQueues, InReady
<1>7. ASSUME NEW x \in Ops, InQueues(x)' PROVE pc'[x] = "suspended" /\ outcome'[x] # "none"
  <2>1. InQueues(x) \/ InSeq(x, p) \/ InSeq(x, q)
    BY <1>2, <1>7 DEF InQueues, InReady
  <2> QED
    BY <2>1 DEF QueuesInv
<1> QED
  BY <1>1, <1>4, <1>5, <1>6, <1>7 DEF QueuesInv

\* A step that queues nobody for a resumption keeps the queues.
LEMMA NoQueueGrows ==
    ASSUME QueuesInv, UNCHANGED <<ready_receivers, ready_senders, resuming>>,
           \A x \in Ops : InQueues(x) => pc'[x] = pc[x] /\ outcome'[x] # "none"
    PROVE  QueuesInv'
<1>1. \A x \in Ops : InReady(x)' = InReady(x) /\ InQueues(x)' = InQueues(x)
  BY DEF InReady, InQueues
<1> QED
  BY <1>1 DEF QueuesInv

\* The loop thread takes the ready queues over, in whatever order.
LEMMA FlushQueues ==
    ASSUME TypeOK, QueuesInv, Flush,
           \A x \in Ops : InQueues(x) => pc'[x] = pc[x] /\ outcome'[x] # "none"
    PROVE  QueuesInv'
<1> DEFINE s == ready_receivers \o ready_senders
<1>1. /\ ready_receivers \in Seq(Ops) /\ ready_senders \in Seq(Ops) /\ resuming \in Seq(Ops)
      /\ s \in Seq(Ops)
  BY ConcatProperties DEF TypeOK
<1>2. \A x : InSeq(x, s) <=> InReady(x)
  BY <1>1, ConcatElements DEF InReady
<1>3. Distinct(s)
  BY <1>1, DistinctConcat DEF QueuesInv
<1>4. resuming' = s \o resuming /\ ready_receivers' = <<>> /\ ready_senders' = <<>>
  BY DEF Flush
<1> HIDE DEF s
<1>5. Distinct(resuming')
  BY <1>1, <1>2, <1>3, <1>4, DistinctConcat DEF QueuesInv
<1>6. \A x : InSeq(x, resuming') <=> InReady(x) \/ InSeq(x, resuming)
  BY <1>1, <1>2, <1>4, ConcatElements
<1>7. \A x : ~InSeq(x, <<>>)
  BY EmptySeq DEF InSeq
<1>8. \A x \in Ops : ~InReady(x)' /\ (InQueues(x)' <=> InQueues(x))
  BY <1>4, <1>6, <1>7 DEF InReady, InQueues
<1>9. Distinct(<<>>)
  BY EmptySeq DEF Distinct
<1> QED
  BY <1>4, <1>5, <1>7, <1>8, <1>9 DEF QueuesInv

\* A drain of the loop takes the ready ones and those whose timer has fired once each.
LEMMA TimedQueues ==
    ASSUME TypeOK, QueuesInv, resuming = <<>>, NEW p \in Seq(Ops), Distinct(p),
           resuming' = ready_receivers \o p \o ready_senders, pc' = pc,
           ready_receivers' = <<>>, ready_senders' = <<>>,
           \A x \in Ops : InSeq(x, p) =>
              outcome[x] = "none" /\ pc[x] = "suspended" /\ outcome'[x] # "none",
           \A x \in Ops : InQueues(x) => outcome'[x] # "none"
    PROVE  QueuesInv'
<1> DEFINE s == ready_receivers \o p
<1>1. /\ ready_receivers \in Seq(Ops) /\ ready_senders \in Seq(Ops) /\ s \in Seq(Ops)
  BY ConcatProperties DEF TypeOK
<1>2. \A x : InSeq(x, s) <=> InSeq(x, ready_receivers) \/ InSeq(x, p)
  BY <1>1, ConcatElements
<1>3. \A x \in Ops : InSeq(x, p) => ~InQueues(x)
  BY DEF QueuesInv
<1>4. Distinct(s)
  <2>1. \A x \in Ops : ~(InSeq(x, ready_receivers) /\ InSeq(x, p))
    BY <1>3 DEF InQueues, InReady
  <2> QED
    BY <1>1, <2>1, DistinctConcat DEF QueuesInv
<1>5. \A x \in Ops : ~(InSeq(x, s) /\ InSeq(x, ready_senders))
  BY <1>2, <1>3 DEF QueuesInv, InQueues, InReady
<1>6. resuming' = s \o ready_senders
  OBVIOUS
<1> HIDE DEF s
<1>7. Distinct(resuming')
  BY <1>1, <1>4, <1>5, <1>6, DistinctConcat DEF QueuesInv
<1>8. \A x : InSeq(x, resuming') <=> InReady(x) \/ InSeq(x, p)
  BY <1>1, <1>2, <1>6, ConcatElements DEF InReady
<1>9. (\A x : ~InSeq(x, <<>>)) /\ Distinct(<<>>)
  BY EmptySeq DEF InSeq, Distinct
<1>10. \A x \in Ops : ~InReady(x)' /\ (InQueues(x)' => InQueues(x) \/ InSeq(x, p))
  BY <1>8, <1>9 DEF InReady, InQueues
<1> QED
  BY <1>7, <1>9, <1>10 DEF QueuesInv

\* A call that goes on in its turn leaves the turns of the others.
LEMMA TurnKept ==
    ASSUME TypeOK, OneThread, TurnInv, NEW o \in Ops, CanRun(o),
           \A x \in Ops \ {o} : pc'[x] = pc[x],
           pc'[o] \notin {"iter", "blocked", "woken"},
           pc'[o] = "ready" /\ Kind[o] # "async_send" => ~Available' /\ ~closed',
           pc'[o] = "posting" => HasTimer(o)',
           \A x \in Ops : outcome[x] # "none" => outcome'[x] # "none",
           pc'[o] \in {"final", "done"} => outcome'[o] # "none",
           Starts(posted'), fault' = fault, shutting_down' = shutting_down
    PROVE  TurnInv'
<1>1. \A x \in Ops \ {o} : pc[x] \notin Mid
  BY DEF OneThread, CanRun, LoopThreadFree
<1>2. \A x \in Ops \ {o} : pc[x] \notin {"ready", "posting"}
  BY <1>1 DEF Mid
<1>3. \A p, q \in Ops : pc'[p] \in Mid /\ pc'[q] \in Mid => p = q
  BY <1>1
<1>4. \A x \in Ops : pc'[x] = "ready" /\ Kind[x] # "async_send" => ~Available' /\ ~closed'
  BY <1>2
<1>5. \A x \in Ops : pc'[x] = "posting" => HasTimer(x)'
  BY <1>2
<1>6. /\ \A x \in Ops : pc'[x] \in {"final", "done"} => outcome'[x] # "none"
      /\ \A x \in Ops : pc'[x] \notin {"iter", "blocked", "woken"}
      /\ fault' = "none" /\ ~shutting_down'
  BY DEF TurnInv
<1> QED
  BY <1>3, <1>4, <1>5, <1>6 DEF TurnInv

\* A receiver that is queued once stays queued once.
LEMMA WaitOnceStep ==
    ASSUME TypeOK, WaitOnce,
           \/ receiver_waiters' = receiver_waiters
           \/ receiver_waiters' = Prune(receiver_waiters)
           \/ /\ Prune(receiver_waiters) # <<>>
              /\ receiver_waiters' = Tail(Prune(receiver_waiters))
           \/ receiver_waiters' = <<>>
           \/ \E o \in Ops : /\ ~InSeq(o, receiver_waiters)
                             /\ receiver_waiters' = Append(receiver_waiters, o)
    PROVE  WaitOnce'
<1> DEFINE q == receiver_waiters
           p == Prune(receiver_waiters)
<1>1. q \in Seq(Ops) /\ p \in Seq(Ops) /\ Distinct(q)
  BY PruneFacts DEF TypeOK, WaitOnce
<1>2. Distinct(p)
  <2>1. p = PruneInactive(q, outcome)
    BY DEF Prune, PruneInactive, ActiveIdx, ActiveAt
  <2> QED
    BY <1>1, <2>1, PruneKeepsOnce DEF Distinct
<1>3. ASSUME p # <<>> PROVE Distinct(Tail(p))
  <2>1. /\ Len(p) \in Nat \ {0} /\ Len(Tail(p)) = Len(p) - 1
        /\ \A i \in 1..(Len(p) - 1) : Tail(p)[i] = p[i + 1]
    BY <1>1, <1>2, <1>3, TailElements DEF Distinct
  <2>2. ASSUME NEW i \in 1..(Len(p) - 1), NEW j \in 1..(Len(p) - 1), Tail(p)[i] = Tail(p)[j]
        PROVE  i = j
    <3>1. i + 1 \in 1..Len(p) /\ j + 1 \in 1..Len(p) /\ p[i + 1] = p[j + 1]
      BY <2>1, <2>2
    <3>2. i + 1 = j + 1
      BY <1>2, <3>1 DEF Distinct
    <3> QED
      BY <2>1, <3>2
  <2> QED
    BY <2>1, <2>2 DEF Distinct
<1>4. ASSUME NEW o \in Ops, ~InSeq(o, q) PROVE Distinct(Append(q, o))
  <2>1. /\ Len(Append(q, o)) = Len(q) + 1 /\ Len(q) \in Nat
        /\ \A i \in 1..Len(q) : Append(q, o)[i] = q[i] /\ q[i] # o
        /\ Append(q, o)[Len(q) + 1] = o
    BY <1>1, <1>4, AppendElements DEF InSeq
  <2>2. \A i \in 1..(Len(q) + 1) : i \in 1..Len(q) \/ i = Len(q) + 1
    BY <2>1
  <2> QED
    BY <1>1, <2>1, <2>2 DEF Distinct
<1>5. Distinct(<<>>)
  BY EmptySeq DEF Distinct
<1> QED
  BY <1>1, <1>2, <1>3, <1>4, <1>5 DEF WaitOnce

\* While an operation of the loop thread runs, whoever waits is suspended.
LEMMA WaitersSuspended ==
    ASSUME FifoInv, OneThread, TurnInv, NEW o \in Ops, CanRun(o), pc[o] \in Fresh,
           NEW x, outcome[x] = "none", InSeq(x, receiver_waiters) \/ InSeq(x, sender_waiters)
    PROVE  x \in Ops /\ x # o /\ pc[x] = "suspended"
<1>1. TypeOK /\ CallsInv /\ WaitersInv
  BY DEF FifoInv, CoreInv
<1>2. x \in Ops
  <2>1. ASSUME NEW q \in Seq(Ops), InSeq(x, q) PROVE x \in Ops
    BY <2>1, ElementOfSeq DEF InSeq
  <2> QED
    BY <1>1, <2>1 DEF TypeOK
<1>3. pc[x] \notin Fresh
  <2>1. CASE InSeq(x, receiver_waiters)
    BY <1>1, <2>1, WaiterFacts
  <2>2. CASE InSeq(x, sender_waiters)
    <3>1. PICK i \in 1..Len(sender_waiters) : sender_waiters[i] = x
      BY <2>2 DEF InSeq
    <3>2. /\ Buffered \in Nat /\ Len(sender_waiters) \in Nat
          /\ Len(Line) = Buffered + Len(sender_waiters)
          /\ Line[Buffered + i] = x
      BY <1>1, <3>1, LineType
    <3>3. Buffered + i \in 1..Len(Line)
      BY <3>2
    <3>4. InSeq(x, Line)
      BY <3>2, <3>3 DEF InSeq
    <3> QED
      BY <1>1, <1>2, <3>4 DEF CallsInv, CallInv
  <2> QED
    BY <2>1, <2>2 DEF Starts
<1>4. pc[x] \notin {"final", "done"}
  BY <1>2 DEF TurnInv
<1>5. x # o
  BY <1>3
<1>6. pc[x] # "posting"
  BY <1>2, <1>5 DEF OneThread, CanRun, LoopThreadFree, Mid
<1>7. pc[x] \in PCs
  BY <1>1, <1>2 DEF TypeOK
<1> QED
  BY <1>2, <1>3, <1>4, <1>5, <1>6, <1>7 DEF PCs, Fresh

\* A running operation that has not entered a queue is in none.
LEMMA FreshFacts ==
    ASSUME FifoInv, QueuesInv, NEW o \in Ops, pc[o] \in Fresh
    PROVE  /\ outcome[o] = "none" /\ ~InQueues(o) /\ ~InSeq(o, receiver_waiters)
           /\ \A x \in Ops : InQueues(x) => x # o /\ outcome[x] # "none"
BY DEF FifoInv, CoreInv, CallsInv, CallInv, QueuesInv

\* The step of one operation that completes nobody else.
LEMMA OwnThread ==
    ASSUME FifoInv, OneThread, ThreadInv, NEW o \in Ops, CanRun(o), pc[o] \in Fresh,
           UNCHANGED <<ready_receivers, ready_senders, loopv>>,
           \A x \in Ops \ {o} : pc'[x] = pc[x] /\ outcome'[x] = outcome[x],
           \/ /\ pc'[o] \in {"final", "done"} /\ outcome'[o] # "none"
           \/ /\ pc'[o] \in {"ready", "posting", "suspended"}
              /\ pc'[o] = "ready" /\ Kind[o] # "async_send" => ~Available' /\ ~closed'
              /\ pc'[o] = "posting" => HasTimer(o)',
           \/ receiver_waiters' = receiver_waiters
           \/ receiver_waiters' = Prune(receiver_waiters)
           \/ receiver_waiters' = <<>>
           \/ receiver_waiters' = Append(receiver_waiters, o)
    PROVE  ThreadInv'
<1>1. TypeOK /\ QueuesInv /\ TurnInv /\ WaitOnce
  BY DEF FifoInv, ThreadInv
<1>2. /\ outcome[o] = "none" /\ ~InQueues(o) /\ ~InSeq(o, receiver_waiters)
      /\ \A x \in Ops : InQueues(x) => x # o /\ outcome[x] # "none"
  BY <1>1, FreshFacts
<1>3. UNCHANGED <<resuming, posted, fault, shutting_down>>
  OBVIOUS
<1>4. QueuesInv'
  <2>1. \A x \in Ops : InQueues(x) => pc'[x] = pc[x] /\ outcome'[x] # "none"
    BY <1>2
  <2> QED
    BY <1>1, <1>3, <2>1, NoQueueGrows
<1>5. TurnInv'
  <2>1. Starts(posted')
    BY <1>1, <1>3 DEF TurnInv
  <2>2. \A x \in Ops : outcome[x] # "none" => outcome'[x] # "none"
    BY <1>2
  <2>3. pc'[o] \notin {"iter", "blocked", "woken"}
    OBVIOUS
  <2>4. pc'[o] \in {"final", "done"} => outcome'[o] # "none"
    OBVIOUS
  <2> QED
    BY <1>1, <1>3, <2>1, <2>2, <2>3, <2>4, TurnKept
<1>6. WaitOnce'
  BY <1>1, <1>2, WaitOnceStep
<1> QED
  BY <1>4, <1>5, <1>6 DEF ThreadInv

\* The step of one operation that completes p and q.
LEMMA ServeThread ==
    ASSUME FifoInv, OneThread, ThreadInv, NEW o \in Ops, CanRun(o), pc[o] \in Fresh,
           NEW p \in Seq(Ops), NEW q \in Seq(Ops), Distinct(p), Distinct(q),
           ready_receivers' = ready_receivers \o p, ready_senders' = ready_senders \o q,
           UNCHANGED loopv,
           \A x \in Ops : ~(InSeq(x, p) /\ InSeq(x, q)),
           \A x \in Ops \ {o} : /\ pc'[x] = pc[x]
                                /\ outcome'[x] = outcome[x] \/ InSeq(x, p) \/ InSeq(x, q),
           \A x \in Ops : InSeq(x, p) \/ InSeq(x, q) =>
              /\ outcome[x] = "none" /\ outcome'[x] # "none"
              /\ InSeq(x, receiver_waiters) \/ InSeq(x, sender_waiters),
           pc'[o] \in {"final", "done"}, outcome'[o] # "none",
           \/ receiver_waiters' = receiver_waiters
           \/ receiver_waiters' = <<>>
           \/ /\ Prune(receiver_waiters) # <<>>
              /\ receiver_waiters' = Tail(Prune(receiver_waiters))
    PROVE  ThreadInv'
<1>1. TypeOK /\ QueuesInv /\ TurnInv /\ WaitOnce
  BY DEF FifoInv, ThreadInv
<1>2. /\ outcome[o] = "none" /\ ~InQueues(o) /\ ~InSeq(o, receiver_waiters)
      /\ \A x \in Ops : InQueues(x) => x # o /\ outcome[x] # "none"
  BY <1>1, FreshFacts
<1>3. UNCHANGED <<resuming, posted, fault, shutting_down>>
  OBVIOUS
<1>4. \A x \in Ops : InSeq(x, p) \/ InSeq(x, q) => x # o /\ pc[x] = "suspended"
  BY <1>1, WaitersSuspended
<1>5. \A x \in Ops : outcome[x] # "none" => outcome'[x] # "none"
  BY <1>2
<1>6. QueuesInv'
  <2>1. \A x \in Ops : InQueues(x) => pc'[x] = pc[x] /\ outcome'[x] # "none"
    BY <1>2, <1>5
  <2>2. \A x \in Ops : InSeq(x, p) \/ InSeq(x, q) =>
           outcome[x] = "none" /\ pc'[x] = "suspended" /\ outcome'[x] # "none"
    BY <1>4
  <2> QED
    BY <1>1, <1>3, <2>1, <2>2, QueuesGrow
<1>7. TurnInv'
  <2>1. Starts(posted')
    BY <1>1, <1>3 DEF TurnInv
  <2>2. pc'[o] \notin {"iter", "blocked", "woken", "ready", "posting"}
    OBVIOUS
  <2> QED
    BY <1>1, <1>3, <1>5, <2>1, <2>2, TurnKept
<1>8. WaitOnce'
  BY <1>1, WaitOnceStep
<1> QED
  BY <1>6, <1>7, <1>8 DEF ThreadInv

\* Sending keeps the invariant of the single thread.
LEMMA SendThread ==
    ASSUME FifoInv, OneThread, ThreadInv, NEW o \in Ops,
           TrySend(o) \/ BlockingSend(o) \/ AsyncSendReady(o) \/ AsyncSendSuspend(o)
    PROVE  ThreadInv'
<1>1. TypeOK /\ WaitInv /\ DataInv /\ CoreInv
  BY DEF FifoInv
<1>2. pc[o] \in Fresh /\ CanRun(o) /\ o \in OnLoop
  BY DEF TrySend, BlockingSend, AsyncSendReady, AsyncSendSuspend, Fresh, OneThread
<1>3. outcome[o] = "none" /\ ~InSeq(o, receiver_waiters)
  BY <1>1, <1>2 DEF CoreInv, CallsInv, CallInv
<1>4. ASSUME NEW why \in {"closed", "full", "refused"}, Fail(o, why),
             PruneOnRefusal \/ receiver_waiters' = receiver_waiters
      PROVE  ThreadInv'
  <2>1. /\ pc'[o] = "done" /\ \A x \in Ops \ {o} : pc'[x] = pc[x]
    BY <1>1, <1>4, LeaveFacts DEF Fail
  <2>2. outcome'[o] = why /\ \A x \in Ops \ {o} : outcome'[x] = outcome[x]
    BY <1>1, <1>4 DEF Fail, TypeOK
  <2>3. UNCHANGED <<ready_receivers, ready_senders, loopv>>
    BY <1>4 DEF Fail
  <2>4. \/ receiver_waiters' = receiver_waiters
        \/ receiver_waiters' = Prune(receiver_waiters)
    BY <1>4 DEF PruneOnRefusal
  <2> QED
    BY <1>2, <2>1, <2>2, <2>3, <2>4, OwnThread
<1>5. ASSUME SendNow(o), Prune(receiver_waiters) # <<>> PROVE ThreadInv'
  <2>1. PICK r \in Ops : /\ r = Head(Prune(receiver_waiters)) /\ outcome[r] = "none"
                         /\ InSeq(r, receiver_waiters) /\ r # o
    <3> DEFINE h == Head(Prune(receiver_waiters))
    <3>1. InSeq(h, receiver_waiters) /\ h \in Ops /\ h # o /\ outcome[h] = "none"
      BY <1>1, <1>3, <1>5, PrunedWaiters, WaiterFacts DEF CoreInv
    <3> QED
      BY <3>1
  <2>2. /\ ready_receivers' = Append(ready_receivers, r)
        /\ outcome' = [outcome EXCEPT ![r] = "value", ![o] = "sent"]
        /\ receiver_waiters' = Tail(Prune(receiver_waiters))
        /\ \E f : Leave(o, f)
        /\ ready_senders' = ready_senders /\ UNCHANGED loopv
    BY <1>5, <2>1, Zenon DEF SendNow, PlaceSend, loopv
  <2>3. pc'[o] \in {"final", "done"} /\ \A x \in Ops \ {o} : pc'[x] = pc[x]
    BY <1>1, <2>2, LeaveFacts
  <2>4. /\ outcome'[o] = "sent" /\ outcome'[r] = "value"
        /\ \A x \in Ops \ {o, r} : outcome'[x] = outcome[x]
    BY <1>1, <2>1, <2>2 DEF TypeOK
  <2>5. /\ ready_receivers' = ready_receivers \o <<r>>
        /\ ready_senders' = ready_senders \o <<>>
    <3>1. ready_receivers \in Seq(Ops) /\ ready_senders \in Seq(Ops)
      BY <1>1 DEF TypeOK
    <3>2. ready_senders \o <<>> = ready_senders
      BY <3>1, ConcatEmptySeq
    <3> QED
      BY <2>1, <2>2, <3>1, <3>2, AppendIsConcat
  <2>6. /\ <<r>> \in Seq(Ops) /\ <<>> \in Seq(Ops) /\ Distinct(<<r>>) /\ Distinct(<<>>)
        /\ \A x : (InSeq(x, <<r>>) <=> x = r) /\ ~InSeq(x, <<>>)
    <3>1. Len(<<r>>) = 1 /\ <<r>>[1] = r /\ 1..1 = {1} /\ Len(<<>>) = 0 /\ 1..0 = {}
      OBVIOUS
    <3> QED
      BY <3>1 DEF Distinct, InSeq
  <2>7. /\ \A x \in Ops : ~(InSeq(x, <<r>>) /\ InSeq(x, <<>>))
        /\ \A x \in Ops \ {o} : /\ pc'[x] = pc[x]
                                /\ \/ outcome'[x] = outcome[x]
                                   \/ InSeq(x, <<r>>) \/ InSeq(x, <<>>)
        /\ \A x \in Ops : InSeq(x, <<r>>) \/ InSeq(x, <<>>) =>
              /\ outcome[x] = "none" /\ outcome'[x] # "none"
              /\ InSeq(x, receiver_waiters) \/ InSeq(x, sender_waiters)
    BY <2>1, <2>3, <2>4, <2>6
  <2> QED
    BY <1>2, <1>5, <2>2, <2>3, <2>4, <2>5, <2>6, <2>7, ServeThread
<1>6. ASSUME SendNow(o), Prune(receiver_waiters) = <<>> PROVE ThreadInv'
  <2>1. /\ outcome' = [outcome EXCEPT ![o] = "sent"] /\ Leave(o, NoFin)
        /\ receiver_waiters' = <<>>
        /\ UNCHANGED <<ready_receivers, ready_senders, loopv>>
    BY <1>6 DEF SendNow, PlaceSend
  <2>2. /\ pc'[o] = "done" /\ \A x \in Ops \ {o} : pc'[x] = pc[x]
    BY <1>1, <2>1, LeaveFacts
  <2>3. outcome'[o] = "sent" /\ \A x \in Ops \ {o} : outcome'[x] = outcome[x]
    BY <1>1, <2>1 DEF TypeOK
  <2> QED
    BY <1>2, <2>1, <2>2, <2>3, OwnThread
<1>7. ASSUME NEW to \in {"ready", "suspended"}, pc' = [pc EXCEPT ![o] = to], PruneOnRefusal,
             Kind[o] = "async_send",
             UNCHANGED <<ready_receivers, ready_senders, outcome, loopv>>
      PROVE  ThreadInv'
  <2>1. pc'[o] = to /\ \A x \in Ops \ {o} : pc'[x] = pc[x] /\ outcome'[x] = outcome[x]
    BY <1>1, <1>7 DEF TypeOK
  <2>2. \/ receiver_waiters' = receiver_waiters
        \/ receiver_waiters' = Prune(receiver_waiters)
    BY <1>7 DEF PruneOnRefusal
  <2>3. UNCHANGED <<ready_receivers, ready_senders, loopv>>
    BY <1>7
  <2> QED
    BY <1>2, <1>7, <2>1, <2>2, <2>3, OwnThread
<1>8. SendNow(o) \/ SendClosed(o) => ThreadInv'
  BY <1>4, <1>5, <1>6 DEF SendClosed
<1>9. CASE TrySend(o)
  BY <1>4, <1>8, <1>9 DEF TrySend
<1>10. CASE BlockingSend(o)
  BY <1>2, <1>4, <1>8, <1>10 DEF BlockingSend
<1>11. CASE AsyncSendReady(o)
  BY <1>7, <1>8, <1>11 DEF AsyncSendReady
<1>12. CASE AsyncSendSuspend(o)
  BY <1>7, <1>8, <1>12 DEF AsyncSendSuspend
<1> QED
  BY <1>9, <1>10, <1>11, <1>12

\* The senders that wait are different sends.
LEMMA SendersOnce ==
    ASSUME TypeOK, DataInv
    PROVE  /\ Distinct(sender_waiters)
           /\ \A i \in 1..Len(sender_waiters) : sender_waiters[i] \in SendOps
<1> DEFINE q == sender_waiters
<1>1. Buffered \in Nat /\ Len(q) \in Nat /\ Len(Line) = Buffered + Len(q)
  BY LineType
<1>2. ASSUME NEW i \in 1..Len(q) PROVE Buffered + i \in 1..Len(Line) /\ Line[Buffered + i] = q[i]
  BY <1>1, LineType
<1>3. ASSUME NEW i \in 1..Len(q), NEW j \in 1..Len(q), q[i] = q[j] PROVE i = j
  <2>1. Buffered + i = Buffered + j
    BY <1>2, <1>3 DEF DataInv, LineInv
  <2> QED
    BY <1>1, <2>1
<1> QED
  BY <1>2, <1>3 DEF Distinct, DataInv, LineInv

\* The senders that a receive frees were suspended, each once.
LEMMA FreedSenders ==
    ASSUME TypeOK, WaitInv, DataInv, Available
    PROVE  /\ Distinct(TakeFront.freed)
           /\ \A x : InSeq(x, TakeFront.freed) =>
                 InSeq(x, sender_waiters) /\ outcome[x] = "none"
<1> DEFINE q == sender_waiters
           f == TakeFront.freed
           k == Refill - Len(Tail(messages))
<1>1. q \in Seq(Ops) /\ Len(q) \in Nat /\ ActiveWaiters(q) = q /\ ActiveIdx(q) = 1..Len(q)
  BY SendersActive, LenProperties DEF TypeOK
<1>2. f = SubSeq(q, 1, k) /\ k \in 0..Len(q)
  <2>1. /\ f = SubSeq(ActiveWaiters(q), 1, k)
        /\ Refill \in 0..Len(Rest) /\ Len(Rest) = Len(Tail(messages)) + Len(ActiveWaiters(q))
        /\ Len(Tail(messages)) <= Refill /\ Tail(messages) \in Seq(Ops)
    BY TakeFrontForm
  <2>2. Len(Tail(messages)) \in Nat
    BY <2>1, LenProperties
  <2> QED
    BY <1>1, <2>1, <2>2
<1>3. Len(f) = k /\ \A i \in 1..k : f[i] = q[i] /\ i \in 1..Len(q)
  <2>1. \A i \in 1..k : i \in 1..Len(q) /\ q[i] \in Ops
    BY <1>1, <1>2, ElementOfSeq
  <2> HIDE DEF k, q, f
  <2>2. Len(SubSeq(q, 1, k)) = k /\ \A i \in 1..k : SubSeq(q, 1, k)[i] = q[i]
    BY <1>1, <1>2, <2>1, SubSeqProperties
  <2> QED
    BY <1>2, <2>1, <2>2
<1>4. Distinct(q)
  BY SendersOnce
<1> HIDE DEF q, f, k
<1>5. Distinct(f)
  BY <1>3, <1>4 DEF Distinct
<1>6. \A x : InSeq(x, f) => InSeq(x, q) /\ outcome[x] = "none"
  <2>1. \A i \in 1..Len(q) : outcome[q[i]] = "none"
    BY <1>1 DEF ActiveIdx
  <2> QED
    BY <1>3, <2>1 DEF InSeq
<1> QED
  BY <1>5, <1>6 DEF q, f

\* Receiving a message keeps the invariant of the single thread.
LEMMA ReceiveThread ==
    ASSUME FifoInv, OneThread, ThreadInv, Available, NEW o \in Ops, CanRun(o), pc[o] \in Fresh,
           NEW notify \in BOOLEAN, Receive(o, FALSE, notify)
    PROVE  ThreadInv'
<1> DEFINE p == TakeFront
<1>1. TypeOK /\ WaitInv /\ DataInv
  BY DEF FifoInv
<1>2. /\ ready_receivers' = ready_receivers \o <<>> \o p.served
      /\ ready_senders' = ready_senders \o p.freed
      /\ receiver_waiters' = p.receivers
      /\ outcome' = [x \in Ops |->
                        IF x = o \/ InSeq(x, p.served) THEN "value"
                        ELSE IF InSeq(x, p.freed) THEN "sent" ELSE outcome[x]]
      /\ \E f : Leave(o, f)
      /\ UNCHANGED loopv
  BY Zenon DEF Receive, loopv
<1>3. p.served = <<>> /\ p.receivers = <<>> /\ p.freed \in Seq(Ops)
  BY <1>1, TakeFrontFacts
<1>4. /\ Distinct(p.freed)
      /\ \A x : InSeq(x, p.freed) => InSeq(x, sender_waiters) /\ outcome[x] = "none"
  BY <1>1, FreedSenders
<1> HIDE DEF p
<1>5. <<>> \in Seq(Ops) /\ Distinct(<<>>) /\ \A x : ~InSeq(x, <<>>)
  BY EmptySeq DEF Distinct, InSeq
<1>6. ready_receivers' = ready_receivers \o <<>>
  <2>1. ready_receivers \in Seq(Ops)
    BY <1>1 DEF TypeOK
  <2> QED
    BY <1>2, <1>3, <2>1, ConcatEmptySeq
<1>7. pc'[o] \in {"final", "done"} /\ \A x \in Ops \ {o} : pc'[x] = pc[x]
  BY <1>1, <1>2, LeaveFacts
<1>8. \A x \in Ops : outcome'[x] = IF x = o THEN "value"
                                   ELSE IF InSeq(x, p.freed) THEN "sent" ELSE outcome[x]
  BY <1>2, <1>3, <1>5
<1>9. /\ \A x \in Ops : ~(InSeq(x, <<>>) /\ InSeq(x, p.freed))
      /\ \A x \in Ops \ {o} : /\ pc'[x] = pc[x]
                              /\ \/ outcome'[x] = outcome[x]
                                 \/ InSeq(x, <<>>) \/ InSeq(x, p.freed)
      /\ \A x \in Ops : InSeq(x, <<>>) \/ InSeq(x, p.freed) =>
            /\ outcome[x] = "none" /\ outcome'[x] # "none"
            /\ InSeq(x, receiver_waiters) \/ InSeq(x, sender_waiters)
      /\ outcome'[o] # "none"
  BY <1>4, <1>5, <1>7, <1>8
<1>10. ready_senders' = ready_senders \o p.freed /\ receiver_waiters' = <<>> /\ UNCHANGED loopv
  BY <1>2, <1>3
<1> QED
  BY <1>3, <1>4, <1>5, <1>6, <1>7, <1>9, <1>10, ServeThread

\* So do the receives, whatever they find.
LEMMA ReceivesThread ==
    ASSUME FifoInv, OneThread, ThreadInv, NEW o \in Ops,
           TryRecv(o) \/ BlockingNext(o) \/ RecvReady(o) \/ RecvSuspend(o)
    PROVE  ThreadInv'
<1>1. TypeOK /\ CoreInv /\ TurnInv
  BY DEF FifoInv, ThreadInv
<1>2. pc[o] \in Fresh /\ CanRun(o) /\ o \in OnLoop /\ pc[o] # "iter"
  BY <1>1 DEF TryRecv, BlockingNext, RecvReady, RecvSuspend, Fresh, OneThread, TurnInv
<1>3. outcome[o] = "none" /\ ~InSeq(o, receiver_waiters)
  BY <1>1, <1>2 DEF CoreInv, CallsInv, CallInv
<1>4. ASSUME Leave(o, NoFin), UNCHANGED <<ready_receivers, ready_senders, receiver_waiters, loopv>>,
             NEW why \in {"closed", "empty", "refused", "timeout"},
             outcome' = [outcome EXCEPT ![o] = why]
      PROVE  ThreadInv'
  <2>1. /\ pc'[o] = "done" /\ \A x \in Ops \ {o} : pc'[x] = pc[x]
    BY <1>1, <1>4, LeaveFacts
  <2>2. outcome'[o] # "none" /\ \A x \in Ops \ {o} : outcome'[x] = outcome[x]
    BY <1>1, <1>4 DEF TypeOK
  <2>3. UNCHANGED <<ready_receivers, ready_senders, loopv>> /\ receiver_waiters' = receiver_waiters
    BY <1>4
  <2> QED
    BY <1>2, <2>1, <2>2, <2>3, OwnThread
<1>5. ASSUME NEW why \in {"closed", "empty", "refused", "timeout"}, Fail(o, why),
             UNCHANGED receiver_waiters
      PROVE  ThreadInv'
  BY <1>4, <1>5 DEF Fail
<1>6. ASSUME TryRecvLocked(o, FALSE) PROVE ThreadInv'
  <2>1. CASE Available /\ Receive(o, FALSE, messages # <<>>)
    BY <1>2, <2>1, ReceiveThread
  <2>2. CASE ~(Available /\ Receive(o, FALSE, messages # <<>>))
    <3>1. /\ Leave(o, NoFin) /\ UNCHANGED <<ready_receivers, ready_senders, receiver_waiters, loopv>>
          /\ outcome' = [outcome EXCEPT ![o] = "closed"]
      BY <1>6, <2>2 DEF TryRecvLocked
    <3> QED
      BY <1>4, <3>1
  <2> QED
    BY <2>1, <2>2 DEF Starts
<1>7. CASE TryRecv(o)
  <2>1. CASE Available /\ Receive(o, FALSE, messages = <<>>)
    BY <1>2, <2>1, ReceiveThread
  <2> QED
    BY <1>5, <1>7, <2>1 DEF TryRecv
<1>8. CASE BlockingNext(o)
  BY <1>2, <1>5, <1>8 DEF BlockingNext
<1>9. CASE RecvReady(o)
  <2>1. ASSUME ~Available, ~closed, pc' = [pc EXCEPT ![o] = "ready"],
               UNCHANGED <<chan, outcome, loopv>>
        PROVE  ThreadInv'
    <3>1. pc'[o] = "ready" /\ \A x \in Ops \ {o} : pc'[x] = pc[x] /\ outcome'[x] = outcome[x]
      BY <1>1, <2>1 DEF TypeOK
    <3>2. ~Available' /\ ~closed'
      BY <2>1 DEF Available, Prune, ActiveIdx
    <3>3. UNCHANGED <<ready_receivers, ready_senders, loopv>> /\ receiver_waiters' = receiver_waiters
      BY <2>1
    <3> QED
      BY <1>2, <3>1, <3>2, <3>3, OwnThread
  <2> QED
    BY <1>5, <1>6, <1>9, <2>1 DEF RecvReady
<1>10. CASE RecvSuspend(o)
  <2>1. pc[o] = "ready" /\ Kind[o] # "async_send"
    BY <1>10 DEF RecvSuspend
  <2>2. ~Available /\ ~closed
    BY <1>1, <2>1 DEF TurnInv
  <2>3. /\ receiver_waiters' = Append(receiver_waiters, o)
        /\ UNCHANGED <<ready_receivers, ready_senders, outcome, loopv>>
        /\ \/ pc' = [pc EXCEPT ![o] = "posting"] /\ timer' = [timer EXCEPT ![o] = "created"]
           \/ pc' = [pc EXCEPT ![o] = "suspended"]
    BY <1>10, <2>2 DEF RecvSuspend, TryRecvLocked
  <2>4. /\ pc'[o] \in {"posting", "suspended"} /\ outcome' = outcome
        /\ \A x \in Ops \ {o} : pc'[x] = pc[x]
        /\ pc'[o] = "posting" => timer'[o] = "created"
    BY <1>1, <2>3 DEF TypeOK
  <2>5. pc'[o] = "posting" => HasTimer(o)'
    BY <1>3, <2>4 DEF HasTimer
  <2> QED
    BY <1>2, <2>3, <2>4, <2>5, OwnThread
<1> QED
  BY <1>7, <1>8, <1>9, <1>10

\* So does close.
LEMMA CloseThread ==
    ASSUME FifoInv, OneThread, ThreadInv, NEW o \in Ops, Close(o)
    PROVE  ThreadInv'
<1> DEFINE A == ActiveWaiters(receiver_waiters)
           B == ActiveWaiters(sender_waiters)
<1>1. TypeOK /\ DataInv /\ CoreInv /\ WaitersInv /\ WaitOnce
  BY DEF FifoInv, CoreInv, ThreadInv
<1>2. /\ pc[o] = "start" /\ CanRun(o)
      /\ ready_receivers' = ready_receivers \o A
      /\ ready_senders' = ready_senders \o B
      /\ outcome' = [x \in Ops |-> IF x = o \/ InSeq(x, A) \/ InSeq(x, B)
                                   THEN "closed" ELSE outcome[x]]
      /\ pc' = [pc EXCEPT ![o] = "final"] /\ receiver_waiters' = <<>>
      /\ UNCHANGED loopv
  BY Zenon DEF Close, loopv
<1>3. /\ A \in Seq(Ops) /\ Distinct(A)
      /\ \A x : InSeq(x, A) => InSeq(x, receiver_waiters) /\ outcome[x] = "none"
  <2>1. A = ActiveOf(receiver_waiters, outcome)
    BY DEF ActiveWaiters, ActiveOf, ActiveIdx, ActiveAt
  <2>2. receiver_waiters \in Seq(Ops)
    BY <1>1 DEF TypeOK
  <2> HIDE DEF A
  <2>3. /\ A \in Seq(Ops)
        /\ \A i \in 1..Len(A) : \E j \in ActiveAt(receiver_waiters, outcome) :
              A[i] = receiver_waiters[j]
    BY <2>1, <2>2, ActiveOfFacts
  <2>4. Distinct(A)
    <3>1. \A i, j \in 1..Len(receiver_waiters) :
             receiver_waiters[i] = receiver_waiters[j] => i = j
      BY <1>1 DEF WaitOnce, Distinct
    <3>2. Distinct(ActiveOf(receiver_waiters, outcome))
      BY <2>2, <3>1, ActiveOfFacts, Zenon DEF Distinct
    <3> QED
      BY <2>1, <3>2
  <2>5. ASSUME NEW i \in 1..Len(A)
        PROVE  InSeq(A[i], receiver_waiters) /\ outcome[A[i]] = "none"
    BY <2>3 DEF InSeq, ActiveAt
  <2> QED
    BY <2>3, <2>4, <2>5 DEF InSeq
<1>4. /\ B \in Seq(Ops) /\ Distinct(B)
      /\ \A x : InSeq(x, B) => InSeq(x, sender_waiters) /\ outcome[x] = "none" /\ x \in SendOps
  <2>1. /\ B = sender_waiters /\ B \in Seq(Ops) /\ Distinct(sender_waiters)
        /\ ActiveIdx(sender_waiters) = 1..Len(sender_waiters)
        /\ \A i \in 1..Len(sender_waiters) : sender_waiters[i] \in SendOps
    BY <1>1, SendersActive, SendersOnce DEF TypeOK
  <2> HIDE DEF B
  <2> QED
    BY <2>1 DEF InSeq, ActiveIdx
<1> HIDE DEF A, B
<1>5. \A x \in Ops : ~(InSeq(x, A) /\ InSeq(x, B))
  <2>1. \A x : InSeq(x, A) => x \in ReceiveOps
    BY <1>1, <1>3, WaiterFacts DEF CoreInv
  <2> QED
    BY <1>4, <2>1, KindsApart
<1>6. /\ pc'[o] = "final" /\ outcome'[o] # "none"
      /\ \A x \in Ops \ {o} : /\ pc'[x] = pc[x]
                              /\ outcome'[x] = outcome[x] \/ InSeq(x, A) \/ InSeq(x, B)
  BY <1>1, <1>2 DEF TypeOK
<1>7. \A x \in Ops : InSeq(x, A) \/ InSeq(x, B) =>
         /\ outcome[x] = "none" /\ outcome'[x] # "none"
         /\ InSeq(x, receiver_waiters) \/ InSeq(x, sender_waiters)
  BY <1>2, <1>3, <1>4
<1>8. pc[o] \in Fresh /\ pc'[o] \in {"final", "done"}
  BY <1>2, <1>6 DEF Fresh
<1> QED
  BY <1>2, <1>3, <1>4, <1>5, <1>6, <1>7, <1>8, ServeThread

\* A posted start has a timer, whatever else is posted or run.
LEMMA StartsConcat ==
    ASSUME NEW p \in Seq(Closures), NEW q \in Seq(Closures), Starts(p), Starts(q)
    PROVE  Starts(p \o q)
<1>1. /\ Len(p) \in Nat /\ Len(q) \in Nat /\ Len(p \o q) = Len(p) + Len(q)
      /\ \A i \in 1..(Len(p) + Len(q)) :
            (p \o q)[i] = IF i <= Len(p) THEN p[i] ELSE q[i - Len(p)]
  BY ConcatProperties, LenProperties
<1>2. ASSUME NEW i \in 1..(Len(p) + Len(q)), (p \o q)[i].what = "start"
      PROVE  (p \o q)[i].timers # {}
  <2>1. CASE i <= Len(p)
    <3>1. i \in 1..Len(p) /\ (p \o q)[i] = p[i]
      BY <1>1, <2>1
    <3> QED
      BY <1>2, <3>1 DEF Starts
  <2>2. CASE ~(i <= Len(p))
    <3>1. i - Len(p) \in 1..Len(q) /\ (p \o q)[i] = q[i - Len(p)]
      BY <1>1, <2>2
    <3> QED
      BY <1>2, <3>1 DEF Starts
  <2> QED
    BY <2>1, <2>2 DEF Starts
<1> QED
  BY <1>1, <1>2 DEF Starts

\* A closure that starts timers has timers to start.
LEMMA StartsFacts ==
    ASSUME TypeOK, TurnInv
    PROVE  /\ Starts(posted)
           /\ Starts(<<>>)
           /\ posted # <<>> => /\ Starts(Tail(posted))
                               /\ Head(posted).what = "start" => Head(posted).timers # {}
           /\ \A c \in Closures : c.what # "start" \/ c.timers # {} => Starts(<<c>>)
<1>1. posted \in Seq(Closures) /\ Starts(posted)
  BY DEF TypeOK, TurnInv
<1>2. Starts(<<>>)
  BY EmptySeq DEF Starts
<1>3. ASSUME posted # <<>>
      PROVE  /\ Starts(Tail(posted))
             /\ Head(posted).what = "start" => Head(posted).timers # {}
  <2>1. Len(posted) \in Nat \ {0} /\ Head(posted) = posted[1]
    BY <1>1, <1>3, HeadTailProperties, EmptySeq, LenProperties
  <2>2. Len(Tail(posted)) = Len(posted) - 1
    BY <1>1, <1>3, HeadTailProperties
  <2>3. \A i \in 1..Len(Tail(posted)) : Tail(posted)[i] = posted[i + 1]
    BY <1>1, <1>3, HeadTailProperties
  <2>4. \A i \in 1..Len(Tail(posted)) : i + 1 \in 1..Len(posted)
    BY <2>1, <2>2 DEF Starts
  <2>5. 1 \in 1..Len(posted)
    BY <2>1
  <2> QED
    BY <1>1, <2>1, <2>3, <2>4, <2>5 DEF Starts
<1>4. ASSUME NEW c \in Closures, c.what # "start" \/ c.timers # {} PROVE Starts(<<c>>)
  <2>1. Len(<<c>>) = 1 /\ <<c>>[1] = c /\ 1..1 = {1}
    OBVIOUS
  <2> QED
    BY <1>4, <2>1 DEF Starts
<1> QED
  BY <1>1, <1>2, <1>3, <1>4

\* What follows the unlock keeps the invariant of the single thread.
LEMMA UnlockThread ==
    ASSUME FifoInv, OneThread, ThreadInv, NEW o \in Ops,
           \/ RecvForPost(o) \/ RecvForPostThrows(o) \/ Finalize(o) \/ FinalizeClose(o)
    PROVE  ThreadInv'
<1>1. TypeOK /\ QueuesInv /\ TurnInv /\ WaitOnce
  BY DEF FifoInv, ThreadInv
<1>2. posted \in Seq(Closures) /\ CancelPosts(o) \in Seq(Closures) /\ Starts(posted)
  BY <1>1, PostTypes DEF TypeOK, TurnInv
<1>3. CanRun(o) /\ receiver_waiters' = receiver_waiters
  BY DEF RecvForPost, RecvForPostThrows, Finalize, FinalizeClose
<1>4. WaitOnce'
  BY <1>1, <1>3, WaitOnceStep
<1>5. CASE RecvForPost(o)
  <2>1. /\ pc[o] = "posting" /\ pc' = [pc EXCEPT ![o] = "suspended"]
        /\ UNCHANGED <<outcome, ready_receivers, ready_senders, resuming, fault, shutting_down>>
        /\ posted' = Append(posted, Closure("start", IF HasTimer(o) THEN {o} ELSE {}))
    BY <1>5 DEF RecvForPost
  <2>2. HasTimer(o)
    BY <1>1, <2>1 DEF TurnInv
  <2>3. posted' = posted \o <<Closure("start", {o})>>
    <3>1. Closure("start", {o}) \in Closures
      BY DEF Closure, Closures
    <3> QED
      BY <1>2, <2>1, <2>2, <3>1, AppendIsConcat
  <2>4. Starts(posted')
    <3> DEFINE c == Closure("start", {o})
    <3>1. c \in Closures /\ c.timers # {}
      BY DEF Closure, Closures
    <3>2. posted' = posted \o <<c>>
      BY <2>3
    <3> HIDE DEF c
    <3>3. <<c>> \in Seq(Closures) /\ Starts(<<c>>)
      BY <1>1, <3>1, StartsFacts
    <3> QED
      BY <1>2, <3>2, <3>3, StartsConcat
  <2>5. pc'[o] = "suspended" /\ \A x \in Ops \ {o} : pc'[x] = pc[x]
    BY <1>1, <2>1 DEF TypeOK
  <2>6. \A x \in Ops : InQueues(x) => pc'[x] = pc[x] /\ outcome'[x] # "none"
    BY <1>1, <2>1, <2>5 DEF QueuesInv
  <2>7. QueuesInv'
    BY <1>1, <2>1, <2>6, NoQueueGrows
  <2>8. TurnInv'
    BY <1>1, <1>3, <2>1, <2>4, <2>5, TurnKept
  <2> QED
    BY <1>4, <2>7, <2>8 DEF ThreadInv
<1>6. CASE RecvForPostThrows(o)
  BY <1>1, <1>6 DEF RecvForPostThrows, TurnInv
<1>7. ASSUME pc' = NotifyBlockedSenders(o)
      PROVE  pc'[o] = "done" /\ \A x \in Ops \ {o} : pc'[x] = pc[x]
  BY <1>1, <1>7 DEF NotifyBlockedSenders, TurnInv
<1>8. Starts(CancelPosts(o))
  <2>1. Closure("cancel", fin[o].timers) \in Closures /\ Closure("cancel", fin[o].timers).what # "start"
    <3>1. fin[o].timers \in SUBSET Ops
      BY <1>1 DEF TypeOK, Fins
    <3> QED
      BY <3>1 DEF Closure, Closures
  <2> HIDE DEF Closure
  <2>2. Starts(<<Closure("cancel", fin[o].timers)>>) /\ Starts(<<>>)
    BY <1>1, <2>1, StartsFacts
  <2> QED
    BY <2>2 DEF CancelPosts
<1>9. ASSUME pc[o] = "final", pc' = NotifyBlockedSenders(o),
             outcome' = outcome \/ outcome' = [outcome EXCEPT ![o] = "aborted"]
      PROVE  /\ outcome'[o] # "none"
             /\ \A x \in Ops : outcome[x] # "none" => outcome'[x] # "none"
             /\ \A x \in Ops : InQueues(x) => pc'[x] = pc[x] /\ outcome'[x] # "none"
  <2>1. outcome[o] # "none" /\ ~InQueues(o)
    BY <1>1, <1>9 DEF TurnInv, QueuesInv
  <2>2. outcome'[o] # "none" /\ \A x \in Ops \ {o} : outcome'[x] = outcome[x]
    BY <1>1, <1>9, <2>1 DEF TypeOK
  <2>3. \A x \in Ops : InQueues(x) => x # o /\ outcome[x] # "none"
    BY <1>1, <2>1 DEF QueuesInv
  <2> QED
    BY <1>7, <1>9, <2>2, <2>3
<1>10. CASE Finalize(o)
  <2>1. /\ pc[o] = "final" /\ pc' = NotifyBlockedSenders(o)
        /\ outcome' = outcome \/ outcome' = [outcome EXCEPT ![o] = "aborted"]
        /\ posted' = posted \o CancelPosts(o) /\ UNCHANGED <<fault, shutting_down>>
        /\ Flush \/ UNCHANGED <<ready_receivers, ready_senders, resuming>>
    BY <1>10 DEF Finalize
  <2>2. Starts(posted')
    BY <1>2, <1>8, <2>1, StartsConcat
  <2>3. QueuesInv'
    BY <1>1, <1>9, <2>1, FlushQueues, NoQueueGrows
  <2>4. TurnInv'
    BY <1>1, <1>3, <1>7, <1>9, <2>1, <2>2, TurnKept
  <2> QED
    BY <1>4, <2>3, <2>4 DEF ThreadInv
<1>11. CASE FinalizeClose(o)
  <2> DEFINE c == IF fin[o].wake /\ ~shutting_down THEN <<Closure("close", {})>> ELSE <<>>
  <2>1. /\ pc[o] = "final" /\ pc' = NotifyBlockedSenders(o)
        /\ outcome' = outcome \/ outcome' = [outcome EXCEPT ![o] = "aborted"]
        /\ posted' = posted \o CancelPosts(o) \o c
        /\ UNCHANGED <<fault, shutting_down, ready_receivers, ready_senders, resuming>>
    BY <1>11 DEF FinalizeClose
  <2>2. c \in Seq(Closures) /\ Starts(c)
    <3>1. Closure("close", {}) \in Closures /\ Closure("close", {}).what # "start"
      BY DEF Closure, Closures
    <3> HIDE DEF Closure
    <3>2. Starts(<<Closure("close", {})>>) /\ Starts(<<>>) /\ <<Closure("close", {})>> \in Seq(Closures)
      BY <1>1, <3>1, StartsFacts
    <3> QED
      BY <3>2
  <2> HIDE DEF c
  <2>3. Starts(posted')
    <3>1. posted \o CancelPosts(o) \in Seq(Closures) /\ Starts(posted \o CancelPosts(o))
      BY <1>2, <1>8, StartsConcat, ConcatProperties
    <3> QED
      BY <2>1, <2>2, <3>1, StartsConcat
  <2>4. QueuesInv'
    BY <1>1, <1>9, <2>1, NoQueueGrows
  <2>5. TurnInv'
    BY <1>1, <1>3, <1>7, <1>9, <2>1, <2>3, TurnKept
  <2> QED
    BY <1>4, <2>4, <2>5 DEF ThreadInv
<1> QED
  BY <1>5, <1>6, <1>10, <1>11

\* A step of the idle loop.
LEMMA IdleTurn ==
    ASSUME TypeOK, OneThread, TurnInv, \A p \in OnLoop : pc[p] \notin Mid,
           \A x \in Ops : pc'[x] = pc[x] \/ (pc'[x] = "done" /\ outcome'[x] # "none"),
           \A x \in Ops : outcome[x] # "none" => outcome'[x] # "none",
           Starts(posted'), fault' = fault, shutting_down' = shutting_down
    PROVE  TurnInv'
<1>1. \A x \in Ops : pc'[x] \notin Mid
  BY DEF OneThread, Mid
<1>2. \A x \in Ops : pc'[x] \notin {"ready", "posting", "final"}
  BY <1>1 DEF Mid
<1>3. \A x \in Ops : pc'[x] = "done" => outcome'[x] # "none"
  BY DEF TurnInv
<1>4. \A x \in Ops : pc'[x] \notin {"iter", "blocked", "woken"}
  BY DEF TurnInv
<1> QED
  BY <1>1, <1>2, <1>3, <1>4 DEF TurnInv

\* A waiter whose timer ends it is suspended.
LEMMA TimedSuspended ==
    ASSUME FifoInv, OneThread, TurnInv, LoopIdle, NEW o \in Ops,
           timer[o] # "none", outcome[o] = "none"
    PROVE  pc[o] = "suspended"
<1>1. pc[o] \in PCs /\ CallInv(o)
  BY DEF FifoInv, TypeOK, CoreInv, CallsInv
<1>2. pc[o] \notin Fresh
  BY <1>1 DEF CallInv
<1>3. pc[o] \notin {"posting", "final", "done"}
  BY DEF LoopIdle, OneThread, Mid, TurnInv
<1> QED
  BY <1>1, <1>2, <1>3 DEF PCs, Fresh

\* So do the loop and the timers.
LEMMA LoopThread ==
    ASSUME FifoInv, OneThread, ThreadInv,
           LoopCallback \/ ShutDown \/ (\E o \in Ops : TimerFire(o)) \/ UNCHANGED vars
    PROVE  ThreadInv'
<1>1. TypeOK /\ QueuesInv /\ TurnInv /\ WaitOnce
  BY DEF FifoInv, ThreadInv
<1>2. ~ShutDown
  BY DEF ShutDown, OneThread
<1>3. CASE UNCHANGED vars
  BY <1>1, <1>3 DEF ThreadInv, QueuesInv, TurnInv, WaitOnce, InQueues, InReady,
                    Available, HasTimer, Prune, ActiveIdx
<1>4. receiver_waiters' = receiver_waiters /\ shutting_down' = shutting_down
  BY <1>2 DEF LoopCallback, Resume, OnAsync, RunClose, RunTimerStart, RunTimerStartFails,
              RunTimerCancel, RunWalk, TimerFire
<1>5. WaitOnce'
  BY <1>1, <1>4 DEF WaitOnce
<1>6. ASSUME NEW what, RunPosted(what)
      PROVE  /\ Starts(posted') /\ LoopIdle /\ \A p \in OnLoop : pc[p] \notin Mid
             /\ what = "start" => Head(posted).timers # {}
  <2>1. /\ LoopIdle /\ posted # <<>> /\ Head(posted).what = what
        /\ posted' = Tail(posted)
    BY <1>6 DEF RunPosted
  <2>2. /\ Starts(Tail(posted))
        /\ Head(posted).what = "start" => Head(posted).timers # {}
    BY <1>1, <2>1, StartsFacts
  <2>3. Starts(posted')
    BY <2>1, <2>2 DEF Starts
  <2>4. \A p \in OnLoop : pc[p] \notin Mid
    BY <2>1 DEF LoopIdle
  <2> QED
    BY <2>1, <2>2, <2>3, <2>4
<1>7. CASE Resume
  <2> DEFINE h == Head(resuming)
  <2>1. /\ resuming # <<>> /\ resuming' = Tail(resuming)
        /\ \A p \in OnLoop : pc[p] \notin Mid
        /\ IF pc[h] = "suspended" THEN pc' = [pc EXCEPT ![h] = "done"] /\ fault' = fault
           ELSE fault' = "resumed while not suspended" /\ pc' = pc
        /\ UNCHANGED <<ready_receivers, ready_senders, outcome, posted>>
    BY <1>7 DEF Resume
  <2>2. /\ h \in Ops /\ InSeq(h, resuming)
        /\ \A x : InSeq(x, resuming') <=> InSeq(x, resuming) /\ x # h
        /\ Distinct(resuming')
    <3> HIDE DEF h
    <3>1. /\ resuming \in Seq(Ops) /\ \A i, j \in 1..Len(resuming) : resuming[i] = resuming[j] => i = j
      BY <1>1 DEF TypeOK, QueuesInv, Distinct
    <3>2. /\ Len(Tail(resuming)) = Len(resuming) - 1 /\ Len(resuming) \in Nat \ {0}
          /\ h = resuming[1]
          /\ \A i \in 1..(Len(resuming) - 1) : Tail(resuming)[i] = resuming[i + 1]
          /\ \A x : InSeq(x, Tail(resuming)) <=> InSeq(x, resuming) /\ x # h
      BY <2>1, <3>1, TailElements DEF h
    <3>3. 1 \in 1..Len(resuming)
      BY <3>2
    <3>4. ASSUME NEW i \in 1..(Len(resuming) - 1), NEW j \in 1..(Len(resuming) - 1),
                 Tail(resuming)[i] = Tail(resuming)[j]
          PROVE  i = j
      <4>1. i + 1 \in 1..Len(resuming) /\ j + 1 \in 1..Len(resuming)
        BY <3>2
      <4>2. i + 1 = j + 1
        BY <3>1, <3>2, <3>4, <4>1
      <4> QED
        BY <3>2, <4>2
    <3> QED
      BY <2>1, <3>1, <3>2, <3>3, <3>4, ElementOfSeq DEF InSeq, Distinct
  <2>3. pc[h] = "suspended" /\ outcome[h] # "none" /\ ~InReady(h)
    BY <1>1, <2>2 DEF QueuesInv, InQueues
  <2>4. /\ fault' = fault /\ pc'[h] = "done" /\ \A x \in Ops \ {h} : pc'[x] = pc[x]
    BY <1>1, <2>1, <2>2, <2>3 DEF TypeOK
  <2>5. \A x \in Ops : InReady(x)' = InReady(x)
    BY <2>1, ReadySame
  <2>6. \A x \in Ops : InQueues(x)' => InQueues(x) /\ x # h
    BY <2>2, <2>3, <2>5 DEF InQueues
  <2> HIDE DEF h
  <2>7. QueuesInv'
    BY <1>1, <2>1, <2>2, <2>4, <2>5, <2>6 DEF QueuesInv
  <2>8. TurnInv'
    <3>1. Starts(posted')
      BY <1>1, <2>1 DEF TurnInv
    <3>2. \A x \in Ops : pc'[x] = pc[x] \/ (pc'[x] = "done" /\ outcome'[x] # "none")
      BY <2>1, <2>3, <2>4
    <3> QED
      BY <1>1, <1>4, <2>1, <2>4, <3>1, <3>2, IdleTurn
  <2> QED
    BY <1>5, <2>7, <2>8 DEF ThreadInv
<1>8. ASSUME \A p \in OnLoop : pc[p] \notin Mid, Flush, Starts(posted'),
             UNCHANGED <<outcome, pc, fault>>
      PROVE  ThreadInv'
  <2>1. \A x \in Ops : InQueues(x) => pc'[x] = pc[x] /\ outcome'[x] # "none"
    BY <1>1, <1>8 DEF QueuesInv
  <2>2. QueuesInv'
    BY <1>1, <1>8, <2>1, FlushQueues
  <2>3. TurnInv'
    BY <1>1, <1>4, <1>8, IdleTurn
  <2> QED
    BY <1>5, <2>2, <2>3 DEF ThreadInv
<1>9. CASE OnAsync
  BY <1>1, <1>8, <1>9 DEF OnAsync, LoopIdle, TurnInv
<1>10. CASE RunClose
  BY <1>6, <1>8, <1>10 DEF RunClose
<1>11. ASSUME \A p \in OnLoop : pc[p] \notin Mid, Starts(posted'),
              UNCHANGED <<outcome, pc, fault, ready_receivers, ready_senders, resuming>>
       PROVE  ThreadInv'
  <2>1. \A x \in Ops : InQueues(x) => pc'[x] = pc[x] /\ outcome'[x] # "none"
    BY <1>1, <1>11 DEF QueuesInv
  <2>2. QueuesInv'
    BY <1>1, <1>11, <2>1, NoQueueGrows
  <2>3. TurnInv'
    BY <1>1, <1>4, <1>11, IdleTurn
  <2> QED
    BY <1>5, <2>2, <2>3 DEF ThreadInv
<1>12. CASE RunTimerStart
  <2>1. /\ RunPosted("start") /\ fault' = IF Head(posted).timers = {} THEN "null timer started" ELSE fault
        /\ UNCHANGED <<outcome, pc, ready_receivers, ready_senders, resuming>>
    BY <1>12 DEF RunTimerStart
  <2> QED
    BY <1>6, <1>11, <2>1
<1>13. CASE RunTimerCancel
  BY <1>6, <1>11, <1>13 DEF RunTimerCancel
<1>14. CASE RunWalk
  BY <1>6, <1>11, <1>14 DEF RunWalk
<1>15. ASSUME NEW o \in Ops, timer[o] # "none", LoopIdle, NEW p \in Seq(Ops), NEW why \in Outcomes \ {"none"},
              \/ p = <<o>> /\ outcome[o] = "none" /\ outcome' = [outcome EXCEPT ![o] = why]
              \/ p = <<>> /\ outcome' = outcome,
              resuming' = ready_receivers \o p \o ready_senders,
              ready_receivers' = <<>>, ready_senders' = <<>>, UNCHANGED <<pc, fault>>,
              Starts(posted')
       PROVE  ThreadInv'
  <2>1. /\ Distinct(p) /\ resuming = <<>> /\ \A q \in OnLoop : pc[q] \notin Mid
        /\ \A x : InSeq(x, p) => x = o /\ p = <<o>>
    <3>1. Len(<<o>>) = 1 /\ <<o>>[1] = o /\ 1..1 = {1} /\ Len(<<>>) = 0 /\ 1..0 = {}
      OBVIOUS
    <3> QED
      BY <1>15, <3>1 DEF Distinct, InSeq, LoopIdle
  <2>2. outcome[o] = "none" => pc[o] = "suspended"
    BY <1>1, <1>15, TimedSuspended
  <2>3. \A x \in Ops : outcome[x] # "none" => outcome'[x] # "none"
    BY <1>1, <1>15 DEF TypeOK
  <2>4. p = <<o>> => outcome'[o] # "none" /\ outcome[o] = "none"
    <3>1. <<o>> # <<>>
      OBVIOUS
    <3> QED
      BY <1>1, <1>15, <3>1 DEF TypeOK
  <2>5. \A x \in Ops : InSeq(x, p) =>
           outcome[x] = "none" /\ pc[x] = "suspended" /\ outcome'[x] # "none"
    BY <2>1, <2>2, <2>4
  <2>6. \A x \in Ops : InQueues(x) => outcome'[x] # "none"
    BY <1>1, <2>3 DEF QueuesInv
  <2>7. QueuesInv'
    BY <1>1, <1>15, <2>1, <2>5, <2>6, TimedQueues
  <2>8. TurnInv'
    BY <1>1, <1>4, <1>15, <2>1, <2>3, IdleTurn
  <2> QED
    BY <1>5, <2>7, <2>8 DEF ThreadInv
<1>16. CASE RunTimerStartFails
  <2>1. PICK o \in Ops : /\ timer[o] = "created" /\ outcome[o] = "none"
                         /\ outcome' = [outcome EXCEPT ![o] = "error"]
                         /\ resuming' = ready_receivers \o <<o>> \o ready_senders
    BY <1>1, <1>16, PostTypes DEF RunTimerStartFails, RunPosted
  <2>2. /\ RunPosted("start") /\ ready_receivers' = <<>> /\ ready_senders' = <<>>
        /\ UNCHANGED <<pc, fault>>
    BY <1>16 DEF RunTimerStartFails
  <2>3. Starts(posted') /\ LoopIdle
    BY <1>6, <2>2
  <2>4. <<o>> \in Seq(Ops) /\ "error" \in Outcomes \ {"none"}
    BY DEF Outcomes
  <2> QED
    BY <1>15, <2>1, <2>2, <2>3, <2>4
<1>17. ASSUME NEW o \in Ops, TimerFire(o) PROVE ThreadInv'
  <2> DEFINE p == IF outcome[o] = "none" THEN <<o>> ELSE <<>>
  <2>1. /\ LoopIdle /\ timer[o] = "armed"
        /\ outcome' = IF outcome[o] = "none" THEN [outcome EXCEPT ![o] = "timeout"] ELSE outcome
        /\ resuming' = ready_receivers \o p \o ready_senders
        /\ ready_receivers' = <<>> /\ ready_senders' = <<>>
        /\ UNCHANGED <<pc, fault, posted>>
    BY <1>17 DEF TimerFire
  <2>2. /\ p \in Seq(Ops) /\ "timeout" \in Outcomes \ {"none"}
        /\ (p = <<o>> /\ outcome[o] = "none") \/ (p = <<>> /\ outcome[o] # "none")
    BY DEF Outcomes
  <2>3. Starts(posted')
    BY <1>1, <2>1 DEF TurnInv
  <2> HIDE DEF p
  <2> QED
    BY <1>15, <2>1, <2>2, <2>3
<1> QED
  BY <1>2, <1>3, <1>7, <1>9, <1>10, <1>12, <1>13, <1>14, <1>16, <1>17 DEF LoopCallback

\* The invariant of the single thread holds at the start.
LEMMA ThreadInit == OneThread /\ Init => ThreadInv
<1> SUFFICES ASSUME Init PROVE ThreadInv
  OBVIOUS
<1>1. (\A x : ~InSeq(x, <<>>)) /\ Distinct(<<>>) /\ Starts(<<>>)
  BY EmptySeq DEF InSeq, Distinct, Starts
<1>2. QueuesInv /\ WaitOnce
  BY <1>1 DEF Init, QueuesInv, WaitOnce, InQueues, InReady
<1>3. TurnInv
  BY <1>1 DEF Init, TurnInv, Mid
<1> QED
  BY <1>2, <1>3 DEF ThreadInv

\* Every step keeps it.
LEMMA ThreadStep == OneThread /\ FifoInv /\ ThreadInv /\ [Next]_vars => ThreadInv'
<1> SUFFICES ASSUME OneThread, FifoInv, ThreadInv, [Next]_vars PROVE ThreadInv'
  OBVIOUS
<1>1. ASSUME NEW o \in Ops, Call(o) \/ Continue(o) PROVE ThreadInv'
  BY <1>1, SendThread, ReceivesThread, CloseThread, UnlockThread DEF Call, Continue
<1> QED
  BY <1>1, LoopThread DEF Next

\* A channel that is used on the loop thread only is never asked to resume a coroutine
\* that is not suspended, nor to start a timer that is not there: what await_ready has
\* seen still holds in await_suspend, and nobody completes the waiter in between.
THEOREM OneThreadIsSafe == OneThread => (Spec => []NoFault)
<1> SUFFICES ASSUME OneThread PROVE Spec => []NoFault
  OBVIOUS
<1>1. Init => ThreadInv
  BY ThreadInit
<1>2. FifoInv /\ ThreadInv /\ [Next]_vars => ThreadInv'
  BY ThreadStep
<1>3. ThreadInv => NoFault
  BY DEF ThreadInv, TurnInv, NoFault, ResumedOnlyWhenSuspended, StartedTimerExists
<1> QED
  BY <1>1, <1>2, <1>3, FifoInvariant, PTL DEF Spec
=============================================================================

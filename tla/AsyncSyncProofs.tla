-------------------------- MODULE AsyncSyncProofs --------------------------
(***************************************************************************)
(* Proofs about AsyncMutex, for every set of calls, on every thread: the   *)
(* lock has one owner, nobody waits for a lock that is open, and the lock  *)
(* is granted in the order of the queue.  Then about AsyncSync, for every  *)
(* set of users and every program they run: the mutex keeps its owner and  *)
(* its order while the condition variable releases it and takes it again,  *)
(* no notification is lost, and no permit is lost or given twice.          *)
(***************************************************************************)
EXTENDS AsyncSync, WaiterQueueProofs

(* The mutex alone *)

Queued == {"registering", "deciding", "suspended"}

\* Where a call is agrees with its outcome and with the queues: a call that
\* has not been queued has no outcome, one with the lock or about to get it
\* is not done, and only completed waiters are resumed.
PlaceInv ==
    /\ \A o \in Calls : pc[o] \in {"start", "ready", "queueing"} => outcome[o] = "none"
    /\ \A o \in Calls : pc[o] = "held" => outcome[o] = "acquired"
    /\ \A o \in Calls : pc[o] = "done" => outcome[o] # "none"
    /\ \A i \in 1..Len(waiters) : pc[waiters[i]] \in Queued \/ outcome[waiters[i]] # "none"
    /\ \A i \in 1..Len(posted) : outcome[posted[i]] # "none"

LockInv == TypeOK /\ PlaceInv /\ MutualExclusion /\ NobodyWaitsForOpenLock

\* The pruned queue is a queue of the same waiters, and if it is not empty
\* the lock is taken and its head is an active waiter.
LEMMA PruneHere ==
    ASSUME LockInv
    PROVE  /\ Prune(waiters) \in Seq(Calls)
           /\ \A i \in 1..Len(Prune(waiters)) :
                 \E j \in 1..Len(waiters) : Prune(waiters)[i] = waiters[j]
           /\ Prune(waiters) = <<>> <=> ActiveAt(waiters, outcome) = {}
           /\ Prune(waiters) # <<>> =>
                 /\ locked
                 /\ Head(Prune(waiters)) \in Calls
                 /\ outcome[Head(Prune(waiters))] = "none"
                 /\ pc[Head(Prune(waiters))] \in Queued
                 /\ Tail(Prune(waiters)) \in Seq(Calls)
                 /\ \A i \in 1..Len(Tail(Prune(waiters))) :
                       \E j \in 1..Len(waiters) : Tail(Prune(waiters))[i] = waiters[j]
<1>1. waiters \in Seq(Calls)
  BY DEF LockInv, TypeOK
<1> DEFINE P == PruneInactive(waiters, outcome)
<1>2. /\ P \in Seq(Calls)
      /\ P = <<>> <=> ActiveAt(waiters, outcome) = {}
      /\ \A i \in 1..Len(P) : \E j \in 1..Len(waiters) : P[i] = waiters[j]
      /\ P # <<>> => /\ Head(P) \in Calls
                     /\ InQueue(Head(P), waiters)
                     /\ outcome[Head(P)] = "none"
  BY <1>1, PruneInactiveFacts
<1>3. P # <<>> => locked
  BY <1>2 DEF LockInv, NobodyWaitsForOpenLock
<1> HIDE DEF P
<1>4. P # <<>> => pc[Head(P)] \in Queued
  BY <1>2 DEF LockInv, PlaceInv, InQueue
<1>5. ASSUME P # <<>>
      PROVE  /\ Tail(P) \in Seq(Calls)
             /\ \A i \in 1..Len(Tail(P)) : \E j \in 1..Len(waiters) : Tail(P)[i] = waiters[j]
  <2>1. /\ Tail(P) \in Seq(Calls) /\ Len(Tail(P)) = Len(P) - 1 /\ Len(P) \in Nat
        /\ \A i \in 1..Len(Tail(P)) : Tail(P)[i] = P[i + 1]
    BY <1>2, <1>5, HeadTailProperties, LenProperties
  <2> QED
    BY <1>2, <2>1
<1> QED
  BY <1>2, <1>3, <1>4, <1>5 DEF P, Prune

\* If nobody became active, the waiters of a shorter queue are as placed as
\* before, and an open lock has none that is active.
LEMMA QueueShrinks ==
    ASSUME LockInv, TypeOK',
           \A i \in 1..Len(waiters') : \E j \in 1..Len(waiters) : waiters'[i] = waiters[j],
           \A o \in Calls : outcome'[o] = "none" => outcome[o] = "none",
           locked => locked' \/ ActiveAt(waiters, outcome) = {},
           \A o \in Calls : pc[o] \in Queued => pc'[o] \in Queued \/ outcome'[o] # "none"
    PROVE  /\ NobodyWaitsForOpenLock'
           /\ \A i \in 1..Len(waiters') :
                 pc'[waiters'[i]] \in Queued \/ outcome'[waiters'[i]] # "none"
<1>1. waiters \in Seq(Calls) /\ waiters' \in Seq(Calls)
  BY DEF LockInv, TypeOK
<1>2. \A j \in 1..Len(waiters) : waiters[j] \in Calls
  BY <1>1, ElementOfSeq
<1>3. NobodyWaitsForOpenLock'
  <2>1. ActiveAt(waiters', outcome') # {} => ActiveAt(waiters, outcome) # {}
    BY <1>2 DEF ActiveAt
  <2>2. ~locked' => ActiveAt(waiters, outcome) = {}
    BY DEF LockInv, NobodyWaitsForOpenLock
  <2> QED
    BY <2>1, <2>2 DEF NobodyWaitsForOpenLock
<1>4. ASSUME NEW i \in 1..Len(waiters')
      PROVE  pc'[waiters'[i]] \in Queued \/ outcome'[waiters'[i]] # "none"
  <2>1. PICK j \in 1..Len(waiters) : waiters'[i] = waiters[j]
    OBVIOUS
  <2>2. pc[waiters[j]] \in Queued \/ outcome[waiters[j]] # "none"
    BY DEF LockInv, PlaceInv
  <2> QED
    BY <1>2, <2>1, <2>2
<1> QED
  BY <1>3, <1>4


\* A step that keeps the owners and locked_ keeps mutual exclusion.
LEMMA SameOwners ==
    ASSUME LockInv, locked' = locked,
           \A o \in Calls : (outcome'[o] = "acquired" /\ pc'[o] # "done")
                             <=> (outcome[o] = "acquired" /\ pc[o] # "done")
    PROVE  MutualExclusion'
<1>1. Owners' = Owners
  BY DEF Owners
<1> QED
  BY <1>1 DEF LockInv, MutualExclusion

\* Taking a free lock: there was no owner and no active waiter, and then the
\* caller is the one owner.
LEMMA AcquireStep ==
    ASSUME LockInv, NEW o \in Calls, Free, Acquire(o),
           pc[o] \in {"start", "ready", "queueing"},
           UNCHANGED <<thread, stopped, posted, fault>>
    PROVE  LockInv'
<1>1. /\ Prune(waiters) = <<>> /\ waiters' = <<>>
      /\ ActiveAt(waiters, outcome) = {}
  BY PruneHere DEF Free, Acquire
<1>2. TypeOK'
  BY <1>1, EmptySeq DEF LockInv, TypeOK, Acquire, Outcomes, PCs
<1>3. /\ Len(waiters') = 0
      /\ pc' = [pc EXCEPT ![o] = "held"] /\ outcome' = [outcome EXCEPT ![o] = "acquired"]
      /\ pc \in [Calls -> PCs] /\ outcome \in [Calls -> Outcomes] /\ posted' = posted
      /\ posted \in Seq(Calls)
  BY <1>1, EmptySeq DEF LockInv, TypeOK, Acquire
<1>4. PlaceInv'
  BY <1>3, ElementOfSeq DEF LockInv, PlaceInv
<1>5. MutualExclusion'
  <2>1. Owners = {}
    BY DEF LockInv, MutualExclusion, Free
  <2>2. Owners' = {o}
    BY <1>3, <2>1 DEF Owners
  <2>3. locked' = TRUE
    BY DEF Acquire
  <2> QED
    BY <2>2, <2>3 DEF MutualExclusion
<1>6. NobodyWaitsForOpenLock'
  BY DEF NobodyWaitsForOpenLock, Acquire
<1> QED
  BY <1>2, <1>4, <1>5, <1>6 DEF LockInv

\* What resuming a completed waiter does to the calls and to the loop.
LEMMA ResumeFacts ==
    ASSUME LockInv, NEW w \in Calls, NEW out \in {"acquired", "cancelled"},
           NEW t \in Threads, NEW at \in [Calls -> PCs],
           outcome' = [outcome EXCEPT ![w] = out],
           ResumeWaiter(w, out, t, at)
    PROVE  /\ pc' \in [Calls -> PCs] /\ thread' \in [Calls -> Threads]
           /\ posted' \in Seq(Calls) /\ fault' \in BOOLEAN
           /\ outcome' \in [Calls -> Outcomes]
           /\ \/ pc' = at
              \/ at[w] = "suspended" /\ pc' = [at EXCEPT ![w] = Finished(out)]
           /\ \A i \in 1..Len(posted') : outcome'[posted'[i]] # "none"
<1>1. /\ posted \in Seq(Calls) /\ thread \in [Calls -> Threads] /\ fault \in BOOLEAN
      /\ outcome \in [Calls -> Outcomes]
  BY DEF LockInv, TypeOK
<1>2. outcome' \in [Calls -> Outcomes] /\ outcome'[w] # "none"
  BY <1>1 DEF Outcomes
<1>3. \A i \in 1..Len(posted) : outcome'[posted[i]] # "none"
  BY <1>1, ElementOfSeq DEF LockInv, PlaceInv
<1>4. CASE t = "loop" /\ ResumeHere(w, out, at) /\ UNCHANGED posted
  BY <1>1, <1>2, <1>3, <1>4 DEF ResumeHere, Finished, PCs, Threads
<1>5. CASE t = "other" /\ posted' = Append(posted, w) /\ pc' = at
           /\ UNCHANGED <<thread, fault>>
  <2>1. /\ posted' \in Seq(Calls) /\ Len(posted') = Len(posted) + 1
        /\ \A i \in 1..Len(posted) : posted'[i] = posted[i]
        /\ posted'[Len(posted) + 1] = w /\ Len(posted) \in Nat
    BY <1>1, <1>5, AppendProperties, LenProperties
  <2>2. \A i \in 1..Len(posted') : outcome'[posted'[i]] # "none"
    BY <1>2, <1>3, <2>1
  <2> QED
    BY <1>1, <1>2, <1>5, <2>1, <2>2
<1> QED
  BY <1>4, <1>5 DEF ResumeWaiter


-----------------------------------------------------------------------------
(* The steps *)

\* A step that grants nothing and changes neither the outcomes nor the queues
\* of resumes: pruning, and moving one call within lock().
LEMMA QuietStep ==
    ASSUME LockInv, TypeOK', NEW o \in Calls,
           UNCHANGED <<locked, outcome, posted>>,
           \A i \in 1..Len(waiters') : \E j \in 1..Len(waiters) : waiters'[i] = waiters[j],
           \A p \in Calls \ {o} : pc'[p] = pc[p],
           pc'[o] \in {"ready", "queueing"} => pc[o] \in {"start", "ready"},
           \/ pc'[o] \in {"ready", "queueing"} \cup Queued
           \/ (pc'[o] = "held" /\ outcome[o] = "acquired")
           \/ (pc'[o] = "done" /\ outcome[o] \notin {"none", "acquired"}),
           pc[o] \notin {"held", "done"}
    PROVE  LockInv'
<1>1. NobodyWaitsForOpenLock' /\ \A i \in 1..Len(waiters') :
         pc'[waiters'[i]] \in Queued \/ outcome'[waiters'[i]] # "none"
  <2>1. \A p \in Calls : pc[p] \in Queued => pc'[p] \in Queued \/ outcome'[p] # "none"
    BY DEF Queued, LockInv, PlaceInv
  <2> QED
    BY <2>1, QueueShrinks
<1>2. PlaceInv'
  BY <1>1 DEF LockInv, PlaceInv, Queued
<1>3. MutualExclusion'
  BY SameOwners DEF Queued
<1> QED
  BY <1>1, <1>2, <1>3 DEF LockInv

\* try_lock and await_ready.
LEMMA FirstTry ==
    ASSUME LockInv, NEW o \in Calls, TryLock(o) \/ AwaitReady(o)
    PROVE  LockInv'
<1>1. CASE Free /\ Acquire(o)
  BY <1>1, AcquireStep DEF TryLock, AwaitReady
<1>2. CASE AwaitReady(o) /\ ~(Free /\ Acquire(o))
  <2>1. /\ waiters' = Prune(waiters) /\ pc' = [pc EXCEPT ![o] = "ready"]
        /\ pc[o] = "start"
        /\ UNCHANGED <<locked, outcome, thread, stopped, posted, fault>>
    BY <1>2 DEF AwaitReady
  <2>2. TypeOK'
    BY <2>1, PruneHere DEF LockInv, TypeOK, PCs
  <2>3. \A i \in 1..Len(waiters') : \E j \in 1..Len(waiters) : waiters'[i] = waiters[j]
    BY <2>1, PruneHere
  <2>4. pc'[o] = "ready" /\ \A p \in Calls \ {o} : pc'[p] = pc[p]
    BY <2>1 DEF LockInv, TypeOK
  <2>5. UNCHANGED <<locked, outcome, posted>>
    BY <2>1
  <2> QED
    BY <2>1, <2>2, <2>3, <2>4, <2>5, QuietStep
<1>3. CASE TryLock(o) /\ ~(Free /\ Acquire(o))
  <2>1. /\ waiters' = Prune(waiters) /\ pc' = [pc EXCEPT ![o] = "done"]
        /\ outcome' = [outcome EXCEPT ![o] = "busy"] /\ pc[o] = "start"
        /\ UNCHANGED <<locked, thread, stopped, posted, fault>>
    BY <1>3 DEF TryLock
  <2>2. pc \in [Calls -> PCs] /\ outcome \in [Calls -> Outcomes] /\ posted \in Seq(Calls)
    BY DEF LockInv, TypeOK
  <2>3. TypeOK'
    BY <2>1, PruneHere DEF LockInv, TypeOK, PCs, Outcomes
  <2>4. outcome[o] = "none"
    BY <2>1 DEF LockInv, PlaceInv
  <2>5. NobodyWaitsForOpenLock' /\ \A i \in 1..Len(waiters') :
           pc'[waiters'[i]] \in Queued \/ outcome'[waiters'[i]] # "none"
    BY <2>1, <2>2, <2>3, <2>4, PruneHere, QueueShrinks DEF Queued
  <2>6. PlaceInv'
    BY <2>1, <2>2, <2>5, ElementOfSeq DEF LockInv, PlaceInv
  <2>7. MutualExclusion'
    BY <2>1, <2>2, <2>4, SameOwners
  <2> QED
    BY <2>3, <2>5, <2>6, <2>7 DEF LockInv
<1> QED
  BY <1>1, <1>2, <1>3

\* The stop test of await_suspend.
LEMMA CheckStopStep ==
    ASSUME LockInv, NEW o \in Calls, CheckStop(o)
    PROVE  LockInv'
<1>1. pc \in [Calls -> PCs] /\ outcome \in [Calls -> Outcomes] /\ posted \in Seq(Calls)
  BY DEF LockInv, TypeOK
<1>2. pc[o] = "ready" /\ outcome[o] = "none"
  BY DEF CheckStop, LockInv, PlaceInv
<1>3. CASE o \in stopped
  <2>1. /\ outcome' = [outcome EXCEPT ![o] = "cancelled"]
        /\ pc' = [pc EXCEPT ![o] = "done"]
        /\ UNCHANGED <<locked, waiters, thread, stopped, posted, fault>>
    BY <1>3 DEF CheckStop
  <2>2. TypeOK'
    BY <1>1, <2>1 DEF LockInv, TypeOK, PCs, Outcomes
  <2>3. NobodyWaitsForOpenLock' /\ \A i \in 1..Len(waiters') :
           pc'[waiters'[i]] \in Queued \/ outcome'[waiters'[i]] # "none"
    BY <1>1, <1>2, <2>1, <2>2, QueueShrinks DEF Queued
  <2>4. PlaceInv'
    BY <1>1, <1>2, <2>1, <2>3, ElementOfSeq DEF LockInv, PlaceInv
  <2>5. MutualExclusion'
    BY <1>1, <1>2, <2>1, SameOwners
  <2> QED
    BY <2>2, <2>3, <2>4, <2>5 DEF LockInv
<1>4. CASE o \notin stopped
  <2>1. /\ pc' = [pc EXCEPT ![o] = "queueing"]
        /\ UNCHANGED <<locked, waiters, outcome, thread, stopped, posted, fault>>
    BY <1>4 DEF CheckStop
  <2>2. TypeOK'
    BY <1>1, <2>1 DEF LockInv, TypeOK, PCs
  <2>3. \A i \in 1..Len(waiters') : \E j \in 1..Len(waiters) : waiters'[i] = waiters[j]
    BY <2>1
  <2>4. pc'[o] = "queueing" /\ \A p \in Calls \ {o} : pc'[p] = pc[p]
    BY <1>1, <2>1
  <2>5. UNCHANGED <<locked, outcome, posted>>
    BY <2>1
  <2> QED
    BY <1>2, <2>2, <2>3, <2>4, <2>5, QuietStep
<1> QED
  BY <1>3, <1>4

\* The second try of await_suspend: only a caller that finds the lock taken
\* enters the queue.
LEMMA EnqueueStep ==
    ASSUME LockInv, NEW o \in Calls, Enqueue(o)
    PROVE  LockInv'
<1>1. CASE Free /\ Acquire(o)
  BY <1>1, AcquireStep DEF Enqueue
<1>2. CASE ~(Free /\ Acquire(o))
  <2>1. /\ waiters' = Append(Prune(waiters), o)
        /\ pc' = [pc EXCEPT ![o] = "registering"] /\ pc[o] = "queueing" /\ ~Free
        /\ UNCHANGED <<locked, outcome, thread, stopped, posted, fault>>
    BY <1>2 DEF Enqueue
  <2>2. pc \in [Calls -> PCs] /\ outcome \in [Calls -> Outcomes] /\ posted \in Seq(Calls)
    BY DEF LockInv, TypeOK
  <2>3. locked
    BY <2>1, PruneHere DEF Free
  <2> DEFINE P == Prune(waiters)
  <2>4. P \in Seq(Calls) /\ \A i \in 1..Len(P) : \E j \in 1..Len(waiters) : P[i] = waiters[j]
    BY PruneHere
  <2>5. waiters' = Append(P, o)
    BY <2>1
  <2> HIDE DEF P
  <2>6. /\ waiters' \in Seq(Calls) /\ Len(waiters') = Len(P) + 1 /\ Len(P) \in Nat
        /\ \A i \in 1..Len(P) : waiters'[i] = P[i]
        /\ waiters'[Len(P) + 1] = o
    BY <2>4, <2>5, AppendProperties, LenProperties
  <2>7. TypeOK'
    BY <2>1, <2>2, <2>6 DEF LockInv, TypeOK, PCs
  <2>8. ASSUME NEW i \in 1..Len(waiters')
        PROVE  pc'[waiters'[i]] \in Queued \/ outcome'[waiters'[i]] # "none"
    <3>1. CASE i = Len(P) + 1
      BY <2>1, <2>2, <2>6, <3>1 DEF Queued
    <3>2. CASE i # Len(P) + 1
      <4>1. i \in 1..Len(P)
        BY <2>6, <3>2
      <4>2. PICK j \in 1..Len(waiters) : waiters'[i] = waiters[j]
        BY <2>4, <2>6, <4>1
      <4>3. waiters[j] \in Calls
        BY <4>2, ElementOfSeq DEF LockInv, TypeOK
      <4>4. pc[waiters[j]] \in Queued \/ outcome[waiters[j]] # "none"
        BY DEF LockInv, PlaceInv
      <4> QED
        BY <2>1, <2>2, <4>2, <4>3, <4>4 DEF Queued
    <3> QED
      BY <3>1, <3>2
  <2>9. PlaceInv'
    BY <2>1, <2>2, <2>8 DEF LockInv, PlaceInv
  <2>10. MutualExclusion'
    BY <2>1, <2>2, SameOwners
  <2> QED
    BY <2>1, <2>3, <2>7, <2>9, <2>10 DEF LockInv, NobodyWaitsForOpenLock
<1> QED
  BY <1>1, <1>2

\* Completing a waiter with a cancellation, wherever the callback runs.  at is
\* where the calls are, the one that registers its callback included.
LEMMA CancelStep ==
    ASSUME LockInv, NEW w \in Calls, NEW t \in Threads, NEW at \in [Calls -> PCs],
           CancelWaiter(w, t, at),
           \A p \in Calls \ {w} : at[p] = pc[p],
           pc[w] \in Queued, at[w] \in Queued,
           stopped' \in SUBSET Calls, UNCHANGED <<locked, waiters>>
    PROVE  LockInv'
<1>1. pc \in [Calls -> PCs] /\ outcome \in [Calls -> Outcomes]
  BY DEF LockInv, TypeOK
<1>2. CASE outcome[w] = "none"
  <2>1. /\ outcome' = [outcome EXCEPT ![w] = "cancelled"]
        /\ ResumeWaiter(w, "cancelled", t, at)
    BY <1>2 DEF CancelWaiter
  <2>2. /\ pc' \in [Calls -> PCs] /\ thread' \in [Calls -> Threads]
        /\ posted' \in Seq(Calls) /\ fault' \in BOOLEAN
        /\ outcome' \in [Calls -> Outcomes]
        /\ \/ pc' = at
           \/ at[w] = "suspended" /\ pc' = [at EXCEPT ![w] = Finished("cancelled")]
        /\ \A i \in 1..Len(posted') : outcome'[posted'[i]] # "none"
    BY <2>1, ResumeFacts
  <2>3. /\ \A p \in Calls \ {w} : pc'[p] = pc[p] /\ outcome'[p] = outcome[p]
        /\ outcome'[w] = "cancelled"
        /\ pc'[w] \in Queued \cup {"done"}
    BY <1>1, <2>1, <2>2 DEF Finished
  <2>4. TypeOK'
    BY <2>2 DEF LockInv, TypeOK
  <2>5. NobodyWaitsForOpenLock' /\ \A i \in 1..Len(waiters') :
           pc'[waiters'[i]] \in Queued \/ outcome'[waiters'[i]] # "none"
    BY <1>2, <2>3, <2>4, QueueShrinks
  <2>6. PlaceInv'
    BY <2>2, <2>3, <2>5 DEF LockInv, PlaceInv, Queued
  <2>7. MutualExclusion'
    BY <1>2, <2>3, SameOwners
  <2> QED
    BY <2>4, <2>5, <2>6, <2>7 DEF LockInv
<1>3. CASE outcome[w] # "none"
  <2>1. pc' = at /\ UNCHANGED <<outcome, thread, posted, fault>>
    BY <1>3 DEF CancelWaiter
  <2>2. TypeOK'
    BY <2>1 DEF LockInv, TypeOK
  <2>3. \A i \in 1..Len(waiters') : \E j \in 1..Len(waiters) : waiters'[i] = waiters[j]
    OBVIOUS
  <2>4. pc'[w] \in Queued /\ \A p \in Calls \ {w} : pc'[p] = pc[p]
    BY <2>1
  <2>5. UNCHANGED <<locked, outcome, posted>>
    BY <2>1
  <2>6. pc'[w] \notin {"ready", "queueing"} /\ pc[w] \notin {"held", "done"}
    BY <2>4 DEF Queued
  <2> QED
    BY <2>2, <2>3, <2>4, <2>5, <2>6, QuietStep
<1> QED
  BY <1>2, <1>3

\* Registering the stop callback, and requesting the stop.
LEMMA StopSteps ==
    ASSUME LockInv, NEW o \in Calls,
           Register(o) \/ \E t \in Threads : RequestStop(o, t)
    PROVE  LockInv'
<1>1. pc \in [Calls -> PCs] /\ outcome \in [Calls -> Outcomes]
      /\ thread \in [Calls -> Threads] /\ stopped \in SUBSET Calls
  BY DEF LockInv, TypeOK
<1>2. CASE Register(o)
  <2> DEFINE at == [pc EXCEPT ![o] = "deciding"]
  <2>1. /\ at \in [Calls -> PCs] /\ \A p \in Calls \ {o} : at[p] = pc[p]
        /\ pc[o] \in Queued /\ at[o] \in Queued /\ thread[o] \in Threads
    BY <1>1, <1>2 DEF PCs, Queued, Register
  <2>2. UNCHANGED <<locked, waiters, stopped>>
    BY <1>2 DEF Register
  <2>3. CASE CancelWaiter(o, thread[o], at)
    <3> HIDE DEF at
    <3> QED
      BY <1>1, <2>1, <2>2, <2>3, CancelStep
  <2>4. CASE pc' = at /\ UNCHANGED <<outcome, thread, posted, fault>>
    <3>1. TypeOK'
      BY <2>1, <2>2, <2>4 DEF LockInv, TypeOK
    <3>2. \A i \in 1..Len(waiters') : \E j \in 1..Len(waiters) : waiters'[i] = waiters[j]
      BY <2>2
    <3>3. pc'[o] \in Queued /\ \A p \in Calls \ {o} : pc'[p] = pc[p]
      BY <2>1, <2>4
    <3>4. UNCHANGED <<locked, outcome, posted>>
      BY <2>2, <2>4
    <3>5. pc'[o] \notin {"ready", "queueing"} /\ pc[o] \notin {"held", "done"}
      BY <2>1, <3>3 DEF Queued
    <3> QED
      BY <3>1, <3>2, <3>3, <3>4, <3>5, QuietStep
  <2> QED
    BY <1>2, <2>3, <2>4 DEF Register
<1>3. ASSUME NEW t \in Threads, RequestStop(o, t) PROVE LockInv'
  <2>1. stopped' \in SUBSET Calls /\ UNCHANGED <<locked, waiters>>
    BY <1>1, <1>3 DEF RequestStop
  <2>2. CASE pc[o] \in {"deciding", "suspended"} /\ CancelWaiter(o, t, pc)
    BY <1>1, <2>1, <2>2, CancelStep DEF Queued
  <2>3. CASE UNCHANGED <<outcome, pc, thread, posted, fault>>
    BY <2>1, <2>3
    DEF LockInv, TypeOK, PlaceInv, MutualExclusion, Owners, NobodyWaitsForOpenLock, ActiveAt
  <2> QED
    BY <1>3, <2>2, <2>3 DEF RequestStop
<1> QED
  BY <1>2, <1>3


\* The last critical section of await_suspend.
LEMMA DecideStep ==
    ASSUME LockInv, NEW o \in Calls, Decide(o)
    PROVE  LockInv'
<1>1. pc \in [Calls -> PCs] /\ outcome \in [Calls -> Outcomes]
  BY DEF LockInv, TypeOK
<1>2. /\ pc[o] = "deciding" /\ waiters' = waiters
      /\ UNCHANGED <<locked, outcome, posted>>
      /\ UNCHANGED <<thread, stopped, fault>>
      /\ pc' = [pc EXCEPT ![o] = IF outcome[o] = "none" THEN "suspended"
                                 ELSE Finished(outcome[o])]
  BY DEF Decide
<1>3. TypeOK'
  BY <1>1, <1>2 DEF LockInv, TypeOK, PCs, Finished
<1>4. \A i \in 1..Len(waiters') : \E j \in 1..Len(waiters) : waiters'[i] = waiters[j]
  BY <1>2
<1>5. /\ \A p \in Calls \ {o} : pc'[p] = pc[p]
      /\ \/ pc'[o] = "suspended"
         \/ pc'[o] = "held" /\ outcome[o] = "acquired"
         \/ pc'[o] = "done" /\ outcome[o] \notin {"none", "acquired"}
  BY <1>1, <1>2 DEF Finished
<1>6. /\ \/ pc'[o] \in {"ready", "queueing"} \cup Queued
         \/ (pc'[o] = "held" /\ outcome[o] = "acquired")
         \/ (pc'[o] = "done" /\ outcome[o] \notin {"none", "acquired"})
      /\ pc'[o] \notin {"ready", "queueing"} /\ pc[o] \notin {"held", "done"}
  BY <1>2, <1>5 DEF Queued
<1> QED
  BY <1>2, <1>3, <1>4, <1>5, <1>6, QuietStep

\* unlock opens the lock when nobody waits, and otherwise makes the first
\* active waiter the one owner.
LEMMA UnlockStep ==
    ASSUME LockInv, NEW o \in Calls, Unlock(o)
    PROVE  LockInv'
<1> DEFINE Q == Prune(waiters)
           w == Head(Q)
           at == [pc EXCEPT ![o] = "done"]
<1>1. /\ pc \in [Calls -> PCs] /\ outcome \in [Calls -> Outcomes]
      /\ thread \in [Calls -> Threads] /\ posted \in Seq(Calls)
  BY DEF LockInv, TypeOK
<1>2. pc[o] = "held" /\ outcome[o] = "acquired" /\ stopped' = stopped
  BY DEF Unlock, LockInv, PlaceInv
<1>3. Owners = {o}
  BY <1>2 DEF Owners, LockInv, MutualExclusion
<1>4. at \in [Calls -> PCs] /\ at[o] = "done" /\ \A p \in Calls \ {o} : at[p] = pc[p]
  BY <1>1 DEF PCs
<1>5. CASE /\ Q = <<>> /\ locked' = FALSE /\ waiters' = <<>> /\ pc' = at
           /\ UNCHANGED <<outcome, thread, posted, fault>>
  <2> HIDE DEF Q, w, at
  <2>1. TypeOK'
    BY <1>1, <1>2, <1>4, <1>5, EmptySeq DEF LockInv, TypeOK
  <2>2. Len(waiters') = 0
    BY <1>5, EmptySeq
  <2>3. PlaceInv'
    BY <1>2, <1>4, <1>5, <2>2 DEF LockInv, PlaceInv
  <2>4. Owners' = {}
    BY <1>3, <1>4, <1>5 DEF Owners
  <2>5. MutualExclusion'
    BY <1>5, <2>4 DEF MutualExclusion
  <2>6. NobodyWaitsForOpenLock'
    BY <2>2 DEF NobodyWaitsForOpenLock, ActiveAt
  <2> QED
    BY <2>1, <2>3, <2>5, <2>6 DEF LockInv
<1>6. CASE /\ Q # <<>> /\ locked' = TRUE /\ waiters' = Tail(Q)
           /\ outcome' = [outcome EXCEPT ![w] = "acquired"]
           /\ ResumeWaiter(w, "acquired", thread[o], at)
  <2>1. /\ w \in Calls /\ outcome[w] = "none" /\ pc[w] \in Queued
        /\ Tail(Q) \in Seq(Calls)
        /\ \A i \in 1..Len(Tail(Q)) : \E j \in 1..Len(waiters) : Tail(Q)[i] = waiters[j]
    BY <1>6, PruneHere
  <2> HIDE DEF Q, w, at
  <2>2. w # o /\ at[w] = pc[w] /\ thread[o] \in Threads
    BY <1>1, <1>2, <1>4, <2>1
  <2>3. /\ pc' \in [Calls -> PCs] /\ thread' \in [Calls -> Threads]
        /\ posted' \in Seq(Calls) /\ fault' \in BOOLEAN
        /\ outcome' \in [Calls -> Outcomes]
        /\ \/ pc' = at
           \/ at[w] = "suspended" /\ pc' = [at EXCEPT ![w] = Finished("acquired")]
        /\ \A i \in 1..Len(posted') : outcome'[posted'[i]] # "none"
    BY <1>4, <1>6, <2>1, <2>2, ResumeFacts
  <2>4. /\ \A p \in Calls \ {o, w} : pc'[p] = pc[p] /\ outcome'[p] = outcome[p]
        /\ outcome'[w] = "acquired" /\ pc'[w] \in Queued \cup {"held"}
        /\ outcome'[o] = "acquired" /\ pc'[o] = "done"
    BY <1>1, <1>2, <1>4, <1>6, <2>1, <2>2, <2>3 DEF Finished
  <2>5. TypeOK'
    BY <1>2, <1>6, <2>1, <2>3 DEF LockInv, TypeOK
  <2>6. \A i \in 1..Len(waiters') :
           pc'[waiters'[i]] \in Queued \/ outcome'[waiters'[i]] # "none"
    <3>1. \A i \in 1..Len(waiters') : \E j \in 1..Len(waiters) : waiters'[i] = waiters[j]
      BY <1>6, <2>1
    <3>2. \A p \in Calls : outcome'[p] = "none" => outcome[p] = "none"
      BY <2>4
    <3>3. \A p \in Calls : pc[p] \in Queued => pc'[p] \in Queued \/ outcome'[p] # "none"
      BY <2>4
    <3>4. locked'
      BY <1>6
    <3> QED
      BY <2>5, <3>1, <3>2, <3>3, <3>4, QueueShrinks
  <2>7. PlaceInv'
    BY <2>3, <2>4, <2>6 DEF LockInv, PlaceInv, Queued
  <2>8. Owners' = {w}
    BY <1>3, <2>1, <2>4 DEF Owners, Queued
  <2>9. MutualExclusion' /\ NobodyWaitsForOpenLock'
    BY <1>6, <2>8 DEF MutualExclusion, NobodyWaitsForOpenLock
  <2> QED
    BY <2>5, <2>7, <2>9 DEF LockInv
<1> QED
  BY <1>5, <1>6 DEF Unlock

\* A posted resume: its waiter is completed, so it has the lock or is cancelled.
LEMMA RunPostedStep ==
    ASSUME LockInv, RunPosted
    PROVE  LockInv'
<1> DEFINE w == Head(posted)
<1>1. /\ pc \in [Calls -> PCs] /\ outcome \in [Calls -> Outcomes]
      /\ thread \in [Calls -> Threads] /\ posted \in Seq(Calls) /\ posted # <<>>
  BY DEF LockInv, TypeOK, RunPosted
<1>2. /\ w \in Calls /\ posted' \in Seq(Calls) /\ Len(posted) \in Nat
      /\ Len(posted') = Len(posted) - 1
      /\ \A i \in 1..Len(posted') : posted'[i] = posted[i + 1]
      /\ 1 \in 1..Len(posted) /\ w = posted[1]
  BY <1>1, HeadTailProperties, LenProperties, EmptySeq DEF RunPosted
<1>3. outcome[w] # "none"
  BY <1>2 DEF LockInv, PlaceInv
<1>4. /\ UNCHANGED <<locked, waiters, outcome, stopped>>
      /\ ResumeHere(w, outcome[w], pc)
  BY DEF RunPosted
<1> HIDE DEF w
<1>5. /\ thread' \in [Calls -> Threads] /\ fault' \in BOOLEAN
      /\ \/ pc' = pc
         \/ pc[w] = "suspended" /\ pc' = [pc EXCEPT ![w] = Finished(outcome[w])]
  BY <1>1, <1>2, <1>4 DEF ResumeHere, Threads
<1>6. /\ \A p \in Calls \ {w} : pc'[p] = pc[p]
      /\ \/ pc'[w] = pc[w]
         \/ pc[w] = "suspended" /\ pc'[w] = "held" /\ outcome[w] = "acquired"
         \/ pc[w] = "suspended" /\ pc'[w] = "done" /\ outcome[w] # "acquired"
      /\ pc' \in [Calls -> PCs]
  BY <1>1, <1>2, <1>5 DEF Finished, PCs
<1>7. TypeOK'
  BY <1>2, <1>4, <1>5, <1>6 DEF LockInv, TypeOK
<1>8. NobodyWaitsForOpenLock' /\ \A i \in 1..Len(waiters') :
         pc'[waiters'[i]] \in Queued \/ outcome'[waiters'[i]] # "none"
  BY <1>3, <1>4, <1>6, <1>7, QueueShrinks
<1>9. \A i \in 1..Len(posted') : outcome'[posted'[i]] # "none"
  <2>1. \A i \in 1..Len(posted) : outcome[posted[i]] # "none"
    BY DEF LockInv, PlaceInv
  <2> QED
    BY <1>2, <1>4, <2>1
<1>10. PlaceInv'
  BY <1>2, <1>3, <1>4, <1>6, <1>8, <1>9 DEF LockInv, PlaceInv
<1>11. MutualExclusion'
  BY <1>2, <1>4, <1>6, SameOwners
<1> QED
  BY <1>7, <1>8, <1>10, <1>11 DEF LockInv

-----------------------------------------------------------------------------
(* The theorems *)

\* A new lock has no owner, and nobody waits for it.
LEMMA InitLock == Init => LockInv
<1> SUFFICES ASSUME Init PROVE LockInv
  OBVIOUS
<1>1. TypeOK
  BY EmptySeq DEF Init, TypeOK, Outcomes, PCs, Threads
<1>2. Len(waiters) = 0 /\ Len(posted) = 0
  BY EmptySeq DEF Init
<1>3. PlaceInv
  BY <1>2 DEF Init, PlaceInv
<1>4. Owners = {}
  BY DEF Init, Owners
<1>5. MutualExclusion
  BY <1>4 DEF Init, MutualExclusion
<1>6. NobodyWaitsForOpenLock
  BY <1>2 DEF NobodyWaitsForOpenLock, ActiveAt
<1> QED
  BY <1>1, <1>3, <1>5, <1>6 DEF LockInv

\* Types, places, mutual exclusion and no waiter at an open lock are inductive
\* together.
THEOREM LockInvariant == Spec => []LockInv
<1>1. Init => LockInv
  BY InitLock
<1>2. LockInv /\ [Next]_vars => LockInv'
  <2> SUFFICES ASSUME LockInv, [Next]_vars PROVE LockInv'
    OBVIOUS
  <2>1. ASSUME NEW o \in Calls, Lock(o) \/ TryLock(o) \/ Unlock(o) PROVE LockInv'
    BY <2>1, FirstTry, CheckStopStep, EnqueueStep, StopSteps, DecideStep, UnlockStep
    DEF Lock
  <2>2. ASSUME NEW o \in Calls, NEW t \in Threads, RequestStop(o, t) PROVE LockInv'
    BY <2>2, StopSteps
  <2>3. CASE RunPosted
    BY <2>3, RunPostedStep
  <2>4. CASE UNCHANGED vars
    BY <2>4 DEF vars, LockInv, TypeOK, PlaceInv, MutualExclusion, Owners,
                NobodyWaitsForOpenLock, ActiveAt
  <2> QED
    BY <2>1, <2>2, <2>3, <2>4 DEF Next
<1> QED
  BY <1>1, <1>2, PTL DEF Spec

\* The lock has at most one owner, and locked_ says whether it has one, on
\* every thread and across every hand-over and cancellation.
THEOREM OneOwner == Spec => []MutualExclusion
<1>1. LockInv => MutualExclusion
  BY DEF LockInv
<1> QED
  BY <1>1, LockInvariant, PTL

\* No wake-up is lost: an open lock has no active waiter.
THEOREM NoStrandedWaiter == Spec => []NobodyWaitsForOpenLock
<1>1. LockInv => NobodyWaitsForOpenLock
  BY DEF LockInv
<1> QED
  BY <1>1, LockInvariant, PTL

\* Every variable of the mutex keeps its type.
THEOREM MutexTypes == Spec => []TypeOK
<1>1. LockInv => TypeOK
  BY DEF LockInv
<1> QED
  BY <1>1, LockInvariant, PTL

-----------------------------------------------------------------------------
(* First come, first served *)

\* Before a call is queued.
Early == {"start", "ready", "queueing"}

\* A waiter is queued once, and no call before it is queued.
LineInv ==
    /\ \A i, j \in 1..Len(waiters) : waiters[i] = waiters[j] => i = j
    /\ \A i \in 1..Len(waiters) : pc[waiters[i]] \notin Early

\* The queue loses waiters at its front, and one that was not queued may enter at
\* its end.
InLine ==
    \E n \in 0..Len(waiters), s \in Seq(Calls) :
       /\ Cut(waiters, s, n)
       /\ \/ waiters' = s
          \/ \E c \in Calls : /\ waiters' = Append(s, c)
                              /\ pc[c] \in Early /\ pc'[c] \notin Early

\* Completed waiters stay completed, and calls do not start again.
Onwards ==
    \A o \in Calls : /\ outcome'[o] = "none" => outcome[o] = "none"
                     /\ pc'[o] \in Early => pc[o] \in Early

\* The lock is granted to calls that nobody is ahead of.
InTurn == \A o \in Calls : outcome[o] = "none" /\ outcome'[o] = "acquired" => Ahead(o) = {}

Orderly == InLine /\ Onwards /\ InTurn

\* What GrantedInOrder says of a step.
Ordered ==
    \A o \in Calls :
       /\ outcome[o] = "none" /\ outcome'[o] = "acquired" => Ahead(o) = {}
       /\ InQueue(o, waiters) /\ InQueue(o, waiters') => Ahead(o)' \subseteq Ahead(o)

\* A queue that stays, or is pruned, is in line.
LEMMA LineStays ==
    ASSUME LockInv, waiters' = waiters \/ waiters' = Prune(waiters)
    PROVE  InLine
<1>1. waiters \in Seq(Calls) /\ Len(waiters) \in Nat
  BY LenProperties DEF LockInv, TypeOK
<1>2. CASE waiters' = waiters
  <2>1. Cut(waiters, waiters, 0)
    BY <1>1 DEF Cut
  <2>2. 0 \in 0..Len(waiters)
    BY <1>1
  <2> QED
    BY <1>1, <1>2, <2>1, <2>2 DEF InLine
<1>3. CASE waiters' = Prune(waiters)
  <2>1. Prune(waiters) \in Seq(Calls)
    BY PruneHere
  <2>2. PICK n \in 0..Len(waiters) : Cut(waiters, Prune(waiters), n)
    BY <1>1, PruneCuts DEF Prune
  <2> QED
    BY <1>3, <2>1, <2>2 DEF InLine
<1> QED
  BY <1>2, <1>3

\* Nobody is ahead when nobody is active.
LEMMA NobodyAhead ==
    ASSUME ActiveAt(waiters, outcome) = {}, NEW o
    PROVE  Ahead(o) = {}
BY DEF Ahead

\* A step that leaves the queue alone, or prunes it, and grants nothing.
LEMMA QuietOrder ==
    ASSUME LockInv, waiters' = waiters \/ waiters' = Prune(waiters), Onwards,
           \A o \in Calls : outcome[o] = "none" => outcome'[o] # "acquired"
    PROVE  Orderly
BY LineStays DEF Orderly, InTurn

\* Taking a free lock.
LEMMA AcquireOrder ==
    ASSUME LockInv, NEW o \in Calls, Free, Acquire(o)
    PROVE  Orderly
<1>1. ActiveAt(waiters, outcome) = {}
  BY PruneHere DEF Free
<1>2. InTurn
  BY <1>1, NobodyAhead DEF InTurn
<1>3. Onwards
  BY DEF Onwards, Early, Acquire, LockInv, TypeOK
<1>4. InLine
  BY LineStays DEF Acquire
<1> QED
  BY <1>2, <1>3, <1>4 DEF Orderly

\* lock() and try_lock() up to the queue.
LEMMA TryOrder ==
    ASSUME LockInv, NEW o \in Calls, TryLock(o) \/ AwaitReady(o) \/ CheckStop(o)
    PROVE  Orderly
<1>1. CASE Free /\ Acquire(o)
  BY <1>1, AcquireOrder
<1>2. CASE ~(Free /\ Acquire(o))
  <2>1. waiters' = waiters \/ waiters' = Prune(waiters)
    BY <1>2 DEF TryLock, AwaitReady, CheckStop
  <2>2. /\ pc \in [Calls -> PCs] /\ outcome \in [Calls -> Outcomes]
        /\ pc[o] \in Early
    BY DEF LockInv, TypeOK, TryLock, AwaitReady, CheckStop, Early
  <2>3. /\ \A p \in Calls \ {o} : pc'[p] = pc[p] /\ outcome'[p] = outcome[p]
        /\ outcome'[o] \in {outcome[o], "busy", "cancelled"}
    BY <1>2, <2>2 DEF TryLock, AwaitReady, CheckStop
  <2>4. Onwards
    BY <2>2, <2>3 DEF Onwards
  <2> QED
    BY <2>1, <2>3, <2>4, QuietOrder
<1> QED
  BY <1>1, <1>2

\* A call that finds the lock taken enters at the end.
LEMMA EnqueueOrder ==
    ASSUME LockInv, NEW o \in Calls, Enqueue(o)
    PROVE  Orderly
<1>1. CASE Free /\ Acquire(o)
  BY <1>1, AcquireOrder
<1>2. CASE ~(Free /\ Acquire(o))
  <2>1. /\ waiters' = Append(Prune(waiters), o)
        /\ pc' = [pc EXCEPT ![o] = "registering"] /\ pc[o] = "queueing"
        /\ outcome' = outcome
    BY <1>2 DEF Enqueue
  <2>2. pc \in [Calls -> PCs] /\ waiters \in Seq(Calls) /\ Prune(waiters) \in Seq(Calls)
    BY PruneHere DEF LockInv, TypeOK
  <2>3. PICK n \in 0..Len(waiters) : Cut(waiters, Prune(waiters), n)
    BY <2>2, PruneCuts DEF Prune
  <2>4. pc[o] \in Early /\ pc'[o] \notin Early
    BY <2>1, <2>2 DEF Early
  <2>5. InLine
    BY <2>1, <2>2, <2>3, <2>4 DEF InLine
  <2>6. Onwards /\ InTurn
    BY <2>1, <2>2, <2>4 DEF Onwards, InTurn
  <2> QED
    BY <2>5, <2>6 DEF Orderly
<1> QED
  BY <1>1, <1>2

\* A cancellation completes its waiter where it stands in the queue.
LEMMA CancelOrder ==
    ASSUME LockInv, NEW w \in Calls, NEW t \in Threads, NEW at \in [Calls -> PCs],
           CancelWaiter(w, t, at), \A p \in Calls : at[p] \in Early => pc[p] \in Early,
           waiters' = waiters
    PROVE  Orderly
<1>1. CASE outcome[w] = "none"
  <2>1. /\ outcome' = [outcome EXCEPT ![w] = "cancelled"]
        /\ ResumeWaiter(w, "cancelled", t, at)
    BY <1>1 DEF CancelWaiter
  <2>2. pc' = at \/ pc' = [at EXCEPT ![w] = Finished("cancelled")]
    BY <2>1, ResumeFacts
  <2>3. \A p \in Calls : pc'[p] \in Early => pc[p] \in Early
    BY <2>2 DEF Finished, Early
  <2>4. \A p \in Calls : outcome'[p] \in {outcome[p], "cancelled"}
    BY <2>1 DEF LockInv, TypeOK
  <2>5. Onwards
    BY <2>3, <2>4 DEF Onwards
  <2> QED
    BY <2>4, <2>5, QuietOrder
<1>2. CASE outcome[w] # "none"
  <2>1. pc' = at /\ outcome' = outcome
    BY <1>2 DEF CancelWaiter
  <2>2. Onwards
    BY <2>1 DEF Onwards
  <2> QED
    BY <2>1, <2>2, QuietOrder
<1> QED
  BY <1>1, <1>2

\* The rest of lock(), and its stop.
LEMMA StopOrder ==
    ASSUME LockInv, NEW o \in Calls,
           Register(o) \/ Decide(o) \/ \E t \in Threads : RequestStop(o, t)
    PROVE  Orderly
<1>1. /\ pc \in [Calls -> PCs] /\ outcome \in [Calls -> Outcomes]
      /\ thread \in [Calls -> Threads]
  BY DEF LockInv, TypeOK
<1>2. CASE Register(o)
  <2> DEFINE at == [pc EXCEPT ![o] = "deciding"]
  <2>1. /\ at \in [Calls -> PCs] /\ \A p \in Calls : at[p] \in Early => pc[p] \in Early
        /\ thread[o] \in Threads /\ waiters' = waiters
    BY <1>1, <1>2 DEF PCs, Early, Register
  <2>2. \/ CancelWaiter(o, thread[o], at)
        \/ pc' = at /\ outcome' = outcome
    BY <1>2 DEF Register
  <2> HIDE DEF at
  <2>3. CASE pc' = at /\ outcome' = outcome
    BY <2>1, <2>3, QuietOrder DEF Onwards
  <2> QED
    BY <2>1, <2>2, <2>3, CancelOrder
<1>3. CASE Decide(o)
  <2>1. /\ waiters' = waiters /\ outcome' = outcome
        /\ \A p \in Calls : pc'[p] \in Early => pc[p] \in Early
    BY <1>1, <1>3 DEF Decide, Finished, Early
  <2> QED
    BY <2>1, QuietOrder DEF Onwards
<1>4. ASSUME NEW t \in Threads, RequestStop(o, t) PROVE Orderly
  <2>1. /\ waiters' = waiters
        /\ \/ CancelWaiter(o, t, pc)
           \/ pc' = pc /\ outcome' = outcome
    BY <1>4 DEF RequestStop
  <2>2. CASE pc' = pc /\ outcome' = outcome
    BY <2>1, <2>2, QuietOrder DEF Onwards
  <2> QED
    BY <1>1, <2>1, <2>2, CancelOrder
<1> QED
  BY <1>2, <1>3, <1>4

\* unlock() hands the lock to the first active waiter, which leaves the queue.
LEMMA UnlockOrder ==
    ASSUME LockInv, NEW o \in Calls, Unlock(o)
    PROVE  Orderly
<1> DEFINE Q == Prune(waiters)
           w == Head(Q)
           at == [pc EXCEPT ![o] = "done"]
<1>1. /\ pc \in [Calls -> PCs] /\ outcome \in [Calls -> Outcomes]
      /\ thread \in [Calls -> Threads] /\ waiters \in Seq(Calls) /\ Len(waiters) \in Nat
  BY LenProperties DEF LockInv, TypeOK
<1>2. at \in [Calls -> PCs] /\ \A p \in Calls : at[p] \in Early => pc[p] \in Early
  BY <1>1 DEF PCs, Early
<1>3. CASE Q = <<>> /\ waiters' = <<>> /\ pc' = at /\ UNCHANGED outcome
  BY <1>2, <1>3, QuietOrder DEF Onwards
<1>4. CASE /\ Q # <<>> /\ waiters' = Tail(Q)
           /\ outcome' = [outcome EXCEPT ![w] = "acquired"]
           /\ ResumeWaiter(w, "acquired", thread[o], at)
  <2>1. w \in Calls /\ Tail(Q) \in Seq(Calls) /\ Q \in Seq(Calls)
    BY <1>4, PruneHere
  <2>2. PICK n \in 0..Len(waiters) :
           /\ Cut(waiters, Q, n)
           /\ \A k \in ActiveAt(waiters, outcome) : n < k
           /\ w = waiters[n + 1]
    BY <1>1, <1>4, PruneCuts DEF Prune
  <2> HIDE DEF Q, w, at
  <2>3. InLine
    <3>1. Cut(waiters, Tail(Q), n + 1)
      BY <1>1, <1>4, <2>1, <2>2, CutTail
    <3>2. n + 1 \in 0..Len(waiters)
      BY <3>1 DEF Cut
    <3> QED
      BY <1>4, <2>1, <3>1, <3>2 DEF InLine
  <2>4. pc' = at \/ pc' = [at EXCEPT ![w] = Finished("acquired")]
    <3>1. thread[o] \in Threads
      BY <1>1
    <3> QED
      BY <1>2, <1>4, <2>1, <3>1, ResumeFacts
  <2>5. Onwards
    BY <1>1, <1>2, <1>4, <2>1, <2>4 DEF Onwards, Finished, Early
  <2>6. Ahead(w) = {}
    <3>1. ASSUME NEW k \in ActiveAt(waiters, outcome), \A j \in 1..k : waiters[j] # w
          PROVE  FALSE
      <4>1. k \in Nat /\ n \in Nat /\ n < k
        BY <1>1, <2>2 DEF ActiveAt
      <4>2. n + 1 \in 1..k
        BY <4>1
      <4> QED
        BY <2>2, <3>1, <4>2
    <3> QED
      BY <3>1 DEF Ahead
  <2>7. InTurn
    BY <1>1, <1>4, <2>1, <2>6 DEF InTurn
  <2> QED
    BY <2>3, <2>5, <2>7 DEF Orderly
<1> QED
  BY <1>3, <1>4 DEF Unlock

\* A posted resume moves its waiter only.
LEMMA RunPostedOrder ==
    ASSUME LockInv, RunPosted
    PROVE  Orderly
<1>1. \E w, out : pc' = pc \/ pc' = [pc EXCEPT ![w] = Finished(out)]
  BY DEF RunPosted, ResumeHere
<1>2. pc \in [Calls -> PCs] /\ waiters' = waiters /\ outcome' = outcome
  BY DEF LockInv, TypeOK, RunPosted
<1>3. Onwards
  BY <1>1, <1>2 DEF Onwards, Finished, Early
<1> QED
  BY <1>2, <1>3, QuietOrder

\* Every step of the mutex is orderly, and one that leaves it alone.
LEMMA MutexOrder ==
    ASSUME LockInv, Next \/ UNCHANGED <<waiters, outcome, pc>>
    PROVE  Orderly
<1>1. ASSUME NEW o \in Calls, Lock(o) \/ TryLock(o) \/ Unlock(o) PROVE Orderly
  BY <1>1, TryOrder, EnqueueOrder, StopOrder, UnlockOrder DEF Lock
<1>2. ASSUME NEW o \in Calls, NEW t \in Threads, RequestStop(o, t) PROVE Orderly
  BY <1>2, StopOrder
<1>3. CASE RunPosted
  BY <1>3, RunPostedOrder
<1>4. CASE UNCHANGED <<waiters, outcome, pc>>
  BY <1>4, QuietOrder DEF Onwards
<1> QED
  BY <1>1, <1>2, <1>3, <1>4 DEF Next

\* In a queue that has every waiter once, an orderly step lets nobody pass.
LEMMA OrderKept ==
    ASSUME LockInv, TypeOK', LineInv, Orderly
    PROVE  LineInv' /\ Ordered
<1>1. waiters \in Seq(Calls) /\ waiters' \in Seq(Calls) /\ Len(waiters) \in Nat
  BY LenProperties DEF LockInv, TypeOK
<1>2. PICK n \in 0..Len(waiters), s \in Seq(Calls) :
         /\ Cut(waiters, s, n)
         /\ \/ waiters' = s
            \/ \E c \in Calls : /\ waiters' = Append(s, c)
                                /\ pc[c] \in Early /\ pc'[c] \notin Early
  BY DEF Orderly, InLine
<1>3. /\ n \in Nat /\ Len(s) \in Nat /\ Len(s) = Len(waiters) - n
      /\ \A i \in 1..Len(s) : i + n \in 1..Len(waiters) /\ s[i] = waiters[i + n]
  BY <1>1, <1>2, LenProperties DEF Cut
<1>4. \A i \in 1..Len(s) : waiters'[i] = waiters[i + n]
  BY <1>2, <1>3, AppendProperties
<1>5. \/ Len(waiters') = Len(s)
      \/ /\ Len(waiters') = Len(s) + 1
         /\ pc[waiters'[Len(s) + 1]] \in Early /\ pc'[waiters'[Len(s) + 1]] \notin Early
  BY <1>2, AppendProperties
<1>6. \A i \in 1..Len(waiters') : i \in 1..Len(s) \/ i = Len(s) + 1
  BY <1>3, <1>5
<1>7. \A i \in 1..Len(waiters) : waiters[i] \in Calls
  BY <1>1, ElementOfSeq
<1>8. ASSUME NEW i \in 1..Len(waiters'), NEW j \in 1..Len(waiters'), waiters'[i] = waiters'[j]
      PROVE  i = j
  <2>1. CASE i \in 1..Len(s) /\ j \in 1..Len(s)
    <3>1. waiters[i + n] = waiters[j + n] /\ i + n \in 1..Len(waiters) /\ j + n \in 1..Len(waiters)
      BY <1>3, <1>4, <1>8, <2>1
    <3>2. i + n = j + n
      BY <3>1 DEF LineInv
    <3> QED
      BY <1>3, <2>1, <3>2
  <2>2. ASSUME NEW k \in 1..Len(s), Len(waiters') = Len(s) + 1
        PROVE  waiters'[k] # waiters'[Len(s) + 1]
    <3>1. pc[waiters'[Len(s) + 1]] \in Early
      BY <1>3, <1>5, <2>2
    <3>2. pc[waiters'[k]] \notin Early
      BY <1>3, <1>4 DEF LineInv
    <3> QED
      BY <3>1, <3>2
  <2>3. i = Len(s) + 1 \/ j = Len(s) + 1 => Len(waiters') = Len(s) + 1
    BY <1>3, <1>5
  <2> QED
    BY <1>6, <1>8, <2>1, <2>2, <2>3
<1>9. ASSUME NEW i \in 1..Len(waiters') PROVE pc'[waiters'[i]] \notin Early
  <2>1. CASE i \in 1..Len(s)
    <3>1. pc[waiters[i + n]] \notin Early /\ waiters[i + n] \in Calls
      BY <1>3, <1>7, <2>1 DEF LineInv
    <3> QED
      BY <1>4, <2>1, <3>1 DEF Orderly, Onwards
  <2>2. CASE i = Len(s) + 1
    BY <1>3, <1>5, <2>2
  <2> QED
    BY <1>6, <2>1, <2>2
<1>10. ASSUME NEW o \in Calls, InQueue(o, waiters), InQueue(o, waiters'),
              NEW k \in ActiveAt(waiters', outcome'), \A j \in 1..k : waiters'[j] # o
       PROVE  waiters'[k] \in Ahead(o)
  <2>1. PICK i \in 1..Len(waiters') : waiters'[i] = o
    BY <1>10 DEF InQueue
  <2>2. PICK h \in 1..Len(waiters) : waiters[h] = o
    BY <1>10 DEF InQueue
  <2>3. k \in 1..Len(waiters') /\ outcome'[waiters'[k]] = "none"
    BY <1>10 DEF ActiveAt
  <2>4. i \in 1..Len(s)
    <3>1. pc[o] \notin Early
      BY <2>2 DEF LineInv
    <3>2. i # Len(s) + 1
      BY <1>3, <1>5, <2>1, <3>1
    <3> QED
      BY <1>6, <3>2
  <2>5. h = i + n
    BY <1>3, <1>4, <2>1, <2>2, <2>4 DEF LineInv
  <2>6. k \in Nat /\ i \in Nat /\ k < i
    <3>1. k \in Nat /\ i \in Nat /\ 1 <= i
      BY <2>3, <2>4
    <3>2. ~(i <= k)
      <4>1. i <= k => i \in 1..k
        BY <3>1
      <4> QED
        BY <1>10, <2>1, <4>1
    <3> QED
      BY <3>1, <3>2
  <2>7. k \in 1..Len(s) /\ k + n \in 1..Len(waiters) /\ waiters'[k] = waiters[k + n]
    <3>1. k \in 1..Len(s)
      BY <1>3, <2>3, <2>4, <2>6
    <3> QED
      BY <1>3, <1>4, <3>1
  <2>8. outcome[waiters[k + n]] = "none"
    BY <1>7, <2>3, <2>7 DEF Orderly, Onwards
  <2>9. ASSUME NEW j \in 1..(k + n) PROVE waiters[j] # o
    <3>1. j \in 1..Len(waiters) /\ j # h
      BY <1>1, <1>3, <2>5, <2>6, <2>7
    <3> QED
      BY <2>2, <3>1 DEF LineInv
  <2>10. k + n \in ActiveAt(waiters, outcome)
    BY <2>7, <2>8 DEF ActiveAt
  <2> QED
    BY <2>7, <2>9, <2>10 DEF Ahead
<1>11. LineInv'
  BY <1>8, <1>9 DEF LineInv
<1>12. \A o \in Calls : InQueue(o, waiters) /\ InQueue(o, waiters') => Ahead(o)' \subseteq Ahead(o)
  BY <1>10 DEF Ahead
<1> QED
  BY <1>11, <1>12 DEF Ordered, Orderly, InTurn

\* The queue is empty at first.
LEMMA LineStart == Init => LineInv
<1> SUFFICES ASSUME Init PROVE LineInv
  OBVIOUS
<1>1. Len(waiters) = 0
  BY EmptySeq DEF Init
<1> QED
  BY <1>1 DEF LineInv

\* First come, first served: nobody, a try_lock included, gets the lock past an
\* active waiter, and nobody gets in front of one that is queued
\* (sync.hpp:422-526), whatever is cancelled on the way.
THEOREM InOrder == Spec => GrantedInOrder
<1>1. LockInv /\ LockInv' /\ LineInv /\ [Next]_vars => LineInv' /\ [Ordered]_vars
  <2> SUFFICES ASSUME LockInv, LockInv', LineInv, [Next]_vars PROVE LineInv' /\ Ordered
    OBVIOUS
  <2>1. Next \/ UNCHANGED <<waiters, outcome, pc>>
    BY Zenon DEF vars
  <2>2. Orderly
    BY <2>1, MutexOrder
  <2> QED
    BY <2>2, OrderKept DEF LockInv
<1>2. [Ordered]_vars => [\A o \in Calls :
          /\ outcome[o] = "none" /\ outcome'[o] = "acquired" => Ahead(o) = {}
          /\ InQueue(o, waiters) /\ InQueue(o, waiters') => Ahead(o)' \subseteq Ahead(o)]_vars
  BY DEF Ordered
<1> QED
  BY <1>1, <1>2, LineStart, LockInvariant, PTL DEF Spec, GrantedInOrder

-----------------------------------------------------------------------------
(* With the condition variable and the semaphore *)

CvStages == {"pushed", "registered", "unlocked", "suspending", "arming"}
SemEarly == {"new", "ready", "queueing"}
SemLate == {"registering", "deciding", "suspended"}
Stages == CvStages \cup SemEarly \cup SemLate
            \cup {"locking", "woken", "notifying", "resuming", "ended"}
Dones == {"none", "completed", "cancelled"}
UsrType == [Users -> [stage : Stages, on : Threads, round : 0..MaxWaits,
                      ready : Seq(Calls), call : Calls]]

SyncTypeOK ==
    /\ script \in Scenarios /\ usr \in UsrType
    /\ queue \in [{"cv", "sem"} -> Seq(Calls)] /\ done \in [Calls -> Dones]
    /\ resumes \in Seq(Calls)
    /\ items \in Nat /\ permits \in Nat /\ issued \in Nat
    /\ taken \subseteq Users

\* The parts of the invariant that a resume or a cancellation touches are about
\* the users us and what the waiters were completed with, d: a resume meets
\* users that the critical section before it has already moved.

\* Where user u is fits its program, what it is about to resume is completed,
\* and it has no permit before or beside an acquire that is cancelled or waits.
UserOK(u, us, d) ==
    /\ Kind(u) # "consume" => us[u].round = 0
    /\ us[u].stage \in CvStages \cup {"woken"} => Kind(u) = "consume"
    /\ us[u].stage \in {"ready", "queueing", "registering", "deciding"} => Kind(u) = "acquire"
    /\ us[u].stage = "suspended" => Kind(u) \in {"consume", "acquire"}
    /\ Kind(u) = "consume" /\ us[u].stage \in CvStages \cup {"suspended", "woken"} =>
          us[u].round > 0
    /\ us[u].stage = "notifying" => Kind(u) = "produce"
    /\ us[u].stage = "resuming" => Kind(u) # "consume" /\ us[u].ready # <<>>
    /\ us[u].stage = "new" => u \notin taken /\ d[CallOf(u, 0)] = "none"
    /\ Kind(u) = "acquire" /\ us[u].stage \in SemEarly =>
          u \notin taken /\ d[CallOf(u, 0)] = "none"
    /\ Kind(u) = "acquire" /\ us[u].stage \in SemLate /\ d[CallOf(u, 0)] = "none" =>
          u \notin taken
    /\ u \in taken => d[CallOf(u, 0)] # "cancelled"
    /\ \A i \in 1..Len(us[u].ready) : d[us[u].ready[i]] # "none"

\* A waiter of the condition variable is a wait that its consumer has begun; an
\* active one is its last, and the consumer is in the middle of it.
CvWaiterOK(w, us, d) ==
    /\ Kind(w[1]) = "consume" /\ w[2] \in 1..us[w[1]].round
    /\ d[w] = "none" => /\ w[2] = us[w[1]].round
                        /\ us[w[1]].stage \in CvStages \cup {"suspended"}

\* A waiter of the semaphore is an acquire that has queued it; an active one has
\* no permit.
SemWaiterOK(w, us, d) ==
    /\ Kind(w[1]) = "acquire" /\ w[2] = 0
    /\ us[w[1]].stage \notin SemEarly
    /\ d[w] = "none" => w[1] \notin taken

\* OnTheirWay, ToNotify and NoLostNotification of us and d.
Coming(us, d) == {u \in Users : Kind(u) = "consume" /\ us[u].round > 0
                                  /\ us[u].stage # "ended"
                                  /\ d[CallOf(u, us[u].round)] = "completed"}
Notifiers(us) == {u \in Users : us[u].stage = "notifying"}
Notified(us, d) ==
    (\E i \in 1..Len(queue["cv"]) : d[queue["cv"][i]] = "none") =>
        items <= Cardinality(Coming(us, d)) + Cardinality(Notifiers(us))

Good(us, d) ==
    /\ \A u \in Users : UserOK(u, us, d)
    /\ \A i \in 1..Len(queue["cv"]) : CvWaiterOK(queue["cv"][i], us, d)
    /\ \A i \in 1..Len(queue["sem"]) : SemWaiterOK(queue["sem"][i], us, d)
    /\ permits > 0 => ActiveAt(queue["sem"], d) = {}
    /\ Notified(us, d)

QueuedOnce == \A i, j \in 1..Len(queue["sem"]) : queue["sem"][i] = queue["sem"][j] => i = j
ResumesDone == \A i \in 1..Len(resumes) : done[resumes[i]] # "none"

SyncInv ==
    /\ LockInv /\ SyncTypeOK
    /\ Good(usr, done) /\ QueuedOnce /\ ResumesDone
    /\ permits + Cardinality(taken) = issued

-----------------------------------------------------------------------------
(* Calls and users *)

\* What a call is made of: its user and its round.
LEMMA CallFacts ==
    /\ \A u \in Users, k \in 0..TryCall : CallOf(u, k) \in Calls
    /\ \A u \in Users, k \in 0..MaxWaits : CallOf(u, k) \in Calls
    /\ \A u, k : CallOf(u, k)[1] = u /\ CallOf(u, k)[2] = k
    /\ \A w \in Calls : w[1] \in Users /\ w[2] \in Nat /\ w = CallOf(w[1], w[2])
    /\ TryCall \in 0..TryCall /\ 0 \in 0..TryCall
<1>1. MaxWaits \in Nat /\ TryCall = MaxWaits + 1 /\ Calls = Users \X (0..TryCall)
  BY SyncAssumption DEF TryCall
<1> QED
  BY <1>1 DEF CallOf

\* Another set of users on their way or about to notify, as large, is enough.
LEMMA NotifiedGrows ==
    ASSUME NEW us, NEW d, NEW us2, NEW d2, Notified(us, d), items \in Nat,
           Coming(us, d) \subseteq Coming(us2, d2), Notifiers(us) \subseteq Notifiers(us2),
           \A i \in 1..Len(queue["cv"]) :
              d2[queue["cv"][i]] = "none" => d[queue["cv"][i]] = "none"
    PROVE  Notified(us2, d2)
<1>1. IsFiniteSet(Users)
  BY SyncAssumption
<1>2. Coming(us2, d2) \subseteq Users /\ Notifiers(us2) \subseteq Users
  BY DEF Coming, Notifiers
<1>3. IsFiniteSet(Coming(us2, d2)) /\ IsFiniteSet(Notifiers(us2))
  BY <1>1, <1>2, FS_Subset
<1>4. /\ Cardinality(Coming(us, d)) <= Cardinality(Coming(us2, d2))
      /\ Cardinality(Notifiers(us)) <= Cardinality(Notifiers(us2))
      /\ IsFiniteSet(Coming(us, d)) /\ IsFiniteSet(Notifiers(us))
  BY <1>3, FS_Subset
<1>5. /\ Cardinality(Coming(us, d)) \in Nat /\ Cardinality(Coming(us2, d2)) \in Nat
      /\ Cardinality(Notifiers(us)) \in Nat /\ Cardinality(Notifiers(us2)) \in Nat
  BY <1>3, <1>4, FS_CardinalityType
<1> QED
  BY <1>4, <1>5 DEF Notified

-----------------------------------------------------------------------------
(* A user goes on, a waiter is cancelled, a waiter is resumed *)

\* User u goes to stage st: its waits, what it resumes and the others stay.
Goes(u, us, us2, st) ==
    /\ us2 \in UsrType
    /\ us2[u].stage = st /\ us2[u].round = us[u].round /\ us2[u].ready = us[u].ready
    /\ \A v \in Users \ {u} : us2[v] = us[v]

\* A user that goes to another stage keeps the rest of its state.
LEMMA StageFacts ==
    ASSUME NEW us \in UsrType, NEW u \in Users, NEW st \in Stages,
           NEW th \in Threads, NEW c \in Calls
    PROVE  /\ Goes(u, us, [us EXCEPT ![u].stage = st], st)
           /\ Goes(u, us, [us EXCEPT ![u].stage = st, ![u].on = th], st)
           /\ Goes(u, us, [us EXCEPT ![u].stage = st, ![u].call = c], st)
<1>1. us[u] \in [stage : Stages, on : Threads, round : 0..MaxWaits,
                 ready : Seq(Calls), call : Calls]
  BY DEF UsrType
<1>2. Goes(u, us, [us EXCEPT ![u].stage = st], st)
  BY <1>1 DEF UsrType, Goes
<1>3. Goes(u, us, [us EXCEPT ![u].stage = st, ![u].on = th], st)
  BY <1>1 DEF UsrType, Goes
<1>4. Goes(u, us, [us EXCEPT ![u].stage = st, ![u].call = c], st)
  BY <1>1 DEF UsrType, Goes
<1> QED
  BY <1>2, <1>3, <1>4

\* A step that only moves u to another stage.
LEMMA GoToGoes ==
    ASSUME usr \in UsrType, NEW u \in Users, NEW st \in Stages, usr' = GoTo(u, st)
    PROVE  Goes(u, usr, usr', st)
<1>1. usr[u].on \in Threads /\ usr[u].call \in Calls
  BY DEF UsrType
<1>2. Goes(u, usr, [usr EXCEPT ![u].stage = st], st)
  BY <1>1, StageFacts
<1> QED
  BY <1>2 DEF GoTo

\* User u goes on, to the other stages: neither out of a wait that is active, nor
\* back before its acquire, nor away with a notification.
Onward(u, us, us2, d) ==
    /\ us2[u].round = us[u].round
    /\ \A v \in Users \ {u} : us2[v] = us[v]
    /\ Kind(u) = "consume" /\ us[u].stage \in CvStages \cup {"suspended"}
          /\ d[CallOf(u, us[u].round)] = "none" =>
       us2[u].stage \in CvStages \cup {"suspended"}
    /\ Kind(u) = "acquire" /\ us2[u].stage \in SemEarly => us[u].stage \in SemEarly
    /\ us[u].stage # "notifying"
    /\ us2[u].stage = "ended" /\ Kind(u) = "consume" =>
          d[CallOf(u, us[u].round)] # "completed"

\* A user that goes on by itself keeps what is good of the others.
LEMMA MoveGood ==
    ASSUME SyncTypeOK, NEW us, NEW us2, NEW d, NEW u \in Users,
           Good(us, d), Onward(u, us, us2, d), UserOK(u, us2, d)
    PROVE  Good(us2, d)
<1>1. \A v \in Users : UserOK(v, us2, d)
  BY DEF Good, Onward, UserOK
<1>2. ASSUME NEW i \in 1..Len(queue["cv"]) PROVE CvWaiterOK(queue["cv"][i], us2, d)
  <2> DEFINE w == queue["cv"][i]
  <2>1. w \in Calls /\ CvWaiterOK(w, us, d)
    BY ElementOfSeq DEF SyncTypeOK, Good
  <2> HIDE DEF w
  <2>2. w[1] \in Users /\ w = CallOf(w[1], w[2])
    BY <2>1, CallFacts
  <2>3. Kind(w[1]) = "consume" /\ w[2] \in 1..us[w[1]].round
    BY <2>1 DEF CvWaiterOK
  <2>4. us2[w[1]].round = us[w[1]].round
    BY <2>2 DEF Onward
  <2>5. ASSUME d[w] = "none"
        PROVE  w[2] = us[w[1]].round /\ us2[w[1]].stage \in CvStages \cup {"suspended"}
    <3>1. /\ w[2] = us[w[1]].round /\ us[w[1]].stage \in CvStages \cup {"suspended"}
      BY <2>1, <2>5 DEF CvWaiterOK
    <3>2. d[CallOf(w[1], us[w[1]].round)] = "none"
      BY <2>2, <2>5, <3>1
    <3> QED
      BY <2>2, <2>3, <3>1, <3>2 DEF Onward
  <2> QED
    BY <2>3, <2>4, <2>5 DEF CvWaiterOK, w
<1>3. ASSUME NEW i \in 1..Len(queue["sem"]) PROVE SemWaiterOK(queue["sem"][i], us2, d)
  <2> DEFINE w == queue["sem"][i]
  <2>1. w \in Calls /\ SemWaiterOK(w, us, d)
    BY ElementOfSeq DEF SyncTypeOK, Good
  <2> HIDE DEF w
  <2>2. w[1] \in Users
    BY <2>1, CallFacts
  <2>3. us2[w[1]].stage \notin SemEarly
    BY <2>1, <2>2 DEF SemWaiterOK, Onward
  <2> QED
    BY <2>1, <2>3 DEF SemWaiterOK, w
<1>4. Coming(us, d) \subseteq Coming(us2, d) /\ Notifiers(us) \subseteq Notifiers(us2)
  BY DEF Coming, Notifiers, Onward
<1>5. Notified(us2, d)
  BY <1>4, NotifiedGrows DEF Good, SyncTypeOK
<1> QED
  BY <1>1, <1>2, <1>3, <1>5 DEF Good

\* So does a wait that is cancelled.
LEMMA CancelGood ==
    ASSUME SyncTypeOK, NEW us, NEW d \in [Calls -> Dones], NEW w \in Calls,
           Good(us, d), d[w] = "none",
           w[2] = 0 => w[1] \notin taken /\ us[w[1]].stage \notin SemEarly
    PROVE  Good(us, [d EXCEPT ![w] = "cancelled"])
<1> DEFINE d2 == [d EXCEPT ![w] = "cancelled"]
<1>1. \A x \in Calls : \/ d2[x] = d[x]
                       \/ x = w /\ d[x] = "none" /\ d2[x] = "cancelled"
  OBVIOUS
<1> HIDE DEF d2
<1>2. ASSUME NEW v \in Users PROVE UserOK(v, us, d2)
  <2>1. UserOK(v, us, d) /\ CallOf(v, 0) \in Calls /\ CallOf(v, 0)[1] = v /\ CallOf(v, 0)[2] = 0
    BY CallFacts DEF Good
  <2>2. \/ d2[CallOf(v, 0)] = d[CallOf(v, 0)]
        \/ /\ d[CallOf(v, 0)] = "none" /\ d2[CallOf(v, 0)] = "cancelled"
           /\ v \notin taken /\ us[v].stage \notin SemEarly
    BY <1>1, <2>1
  <2>3. \A i \in 1..Len(us[v].ready) : d2[us[v].ready[i]] # "none"
    BY <2>1, d2 = [d EXCEPT ![w] = "cancelled"] DEF UserOK, d2
  <2> QED
    BY <2>1, <2>2, <2>3 DEF UserOK, SemEarly
<1>3. ASSUME NEW i \in 1..Len(queue["cv"]) PROVE CvWaiterOK(queue["cv"][i], us, d2)
  <2>1. queue["cv"][i] \in Calls
    BY ElementOfSeq DEF SyncTypeOK
  <2> QED
    BY <1>1, <2>1 DEF CvWaiterOK, Good
<1>4. ASSUME NEW i \in 1..Len(queue["sem"]) PROVE SemWaiterOK(queue["sem"][i], us, d2)
  <2>1. queue["sem"][i] \in Calls
    BY ElementOfSeq DEF SyncTypeOK
  <2> QED
    BY <1>1, <2>1 DEF SemWaiterOK, Good
<1>5. permits > 0 => ActiveAt(queue["sem"], d2) = {}
  <2>1. \A i \in 1..Len(queue["sem"]) : queue["sem"][i] \in Calls
    BY ElementOfSeq DEF SyncTypeOK
  <2> QED
    BY <1>1, <2>1 DEF ActiveAt, Good
<1>6. Notified(us, d2)
  <2>1. \A i \in 1..Len(queue["cv"]) : queue["cv"][i] \in Calls
    BY ElementOfSeq DEF SyncTypeOK
  <2>2. Coming(us, d) \subseteq Coming(us, d2)
    BY DEF Coming, d2
  <2> QED
    BY <1>1, <2>1, <2>2, NotifiedGrows DEF Good, SyncTypeOK
<1> QED
  BY <1>2, <1>3, <1>4, <1>5, <1>6 DEF Good, d2

\* The resume of a completed waiter, here or on the thread t.
LEMMA WakeHereGood ==
    ASSUME SyncTypeOK, NEW us \in UsrType, NEW d, Good(us, d),
           NEW w \in Calls, d[w] # "none", WakeHere(w, us)
    PROVE  usr' \in UsrType /\ Good(usr', d) /\ fault' \in BOOLEAN
<1> DEFINE u == UserOf(w)
           suspended == us[u].stage = "suspended" /\ CallOf(u, us[u].round) = w
           next == IF Kind(u) = "consume" THEN "woken" ELSE "ended"
           moved == [us EXCEPT ![u].stage = next, ![u].on = "loop"]
<1>1. u \in Users
  BY CallFacts DEF UserOf
<1>2. /\ usr' = us \/ (suspended /\ usr' = moved)
      /\ fault' = ~suspended
  BY DEF WakeHere
<1>3. fault' \in BOOLEAN
  BY <1>2, Zenon
<1>4. ASSUME suspended PROVE moved \in UsrType /\ Good(moved, d)
  <2>1. next \in Stages /\ "loop" \in Threads
    BY DEF Stages, Threads
  <2>2. Goes(u, us, moved, next)
    BY <1>1, <2>1, StageFacts
  <2> HIDE DEF moved
  <2>3. UserOK(u, us, d)
    BY <1>1 DEF Good
  <2>4. UserOK(u, moved, d)
    BY <1>4, <2>2, <2>3 DEF Goes, UserOK, CvStages, SemEarly, SemLate
  <2>5. Onward(u, us, moved, d)
    BY <1>4, <2>2 DEF Goes, Onward, SemEarly
  <2> QED
    BY <1>1, <2>2, <2>4, <2>5, MoveGood DEF Goes
<1> HIDE DEF moved, suspended
<1> QED
  BY <1>2, <1>3, <1>4

\* So does a wake-up, which posts at most one resumption.
LEMMA WakeGood ==
    ASSUME SyncTypeOK, NEW us \in UsrType, NEW d, Good(us, d),
           NEW w \in Calls, d[w] # "none", NEW t, Wake(w, t, us)
    PROVE  /\ usr' \in UsrType /\ Good(usr', d)
           /\ resumes' = resumes \/ resumes' = Append(resumes, w)
           /\ fault' = fault \/ fault' \in BOOLEAN
<1>1. CASE WakeHere(w, us) /\ UNCHANGED resumes
  BY <1>1, WakeHereGood
<1>2. CASE /\ usr' = us /\ UNCHANGED fault
           /\ resumes' = resumes \/ resumes' = Append(resumes, w)
  BY <1>2
<1> QED
  BY <1>1, <1>2 DEF Wake

\* A resumption is posted only for a wait that is over.
LEMMA ResumesAppend ==
    ASSUME SyncTypeOK, ResumesDone, NEW w \in Calls, done'[w] # "none",
           \A x \in Calls : done[x] # "none" => done'[x] # "none",
           resumes' = resumes \/ resumes' = Append(resumes, w)
    PROVE  resumes' \in Seq(Calls) /\ ResumesDone'
<1>1. resumes \in Seq(Calls) /\ Len(resumes) \in Nat
  BY LenProperties DEF SyncTypeOK
<1>2. \A i \in 1..Len(resumes) : resumes[i] \in Calls
  BY <1>1, ElementOfSeq
<1>3. CASE resumes' = resumes
  BY <1>1, <1>2, <1>3 DEF ResumesDone
<1>4. CASE resumes' = Append(resumes, w)
  <2>1. /\ resumes' \in Seq(Calls) /\ Len(resumes') = Len(resumes) + 1
        /\ \A i \in 1..Len(resumes) : resumes'[i] = resumes[i]
        /\ resumes'[Len(resumes) + 1] = w
    BY <1>1, <1>4, AppendProperties
  <2>2. \A i \in 1..Len(resumes') : done'[resumes'[i]] # "none"
    BY <1>1, <1>2, <2>1 DEF ResumesDone
  <2> QED
    BY <2>1, <2>2 DEF ResumesDone
<1> QED
  BY <1>3, <1>4

\* The cancellation of the wait w of a user: it is resumed if it has suspended.
LEMMA CancelWaitGood ==
    ASSUME SyncTypeOK, ResumesDone, NEW us \in UsrType, Good(us, done),
           NEW w \in Calls, NEW t, CancelWait(w, t, us),
           w[2] = 0 /\ done[w] = "none" =>
              w[1] \notin taken /\ us[w[1]].stage \notin SemEarly
    PROVE  /\ usr' \in UsrType /\ Good(usr', done') /\ done' \in [Calls -> Dones]
           /\ resumes' \in Seq(Calls) /\ ResumesDone'
           /\ fault' = fault \/ fault' \in BOOLEAN
<1>1. CASE done[w] # "none" /\ usr' = us /\ UNCHANGED <<done, resumes, fault>>
  BY <1>1 DEF SyncTypeOK, ResumesDone
<1>2. CASE /\ done[w] = "none" /\ done' = [done EXCEPT ![w] = "cancelled"]
           /\ Wake(w, t, us)
  <2>1. done' \in [Calls -> Dones] /\ done'[w] # "none"
    BY <1>2 DEF SyncTypeOK, Dones
  <2>2. Good(us, done')
    BY <1>2, CancelGood DEF SyncTypeOK
  <2>3. /\ usr' \in UsrType /\ Good(usr', done')
        /\ resumes' = resumes \/ resumes' = Append(resumes, w)
        /\ fault' = fault \/ fault' \in BOOLEAN
    BY <1>2, <2>1, <2>2, WakeGood
  <2>4. resumes' \in Seq(Calls) /\ ResumesDone'
    <3>1. \A x \in Calls : done[x] # "none" => done'[x] # "none"
      BY <1>2 DEF SyncTypeOK
    <3> QED
      BY <2>1, <2>3, <3>1, ResumesAppend DEF SyncTypeOK
  <2> QED
    BY <2>1, <2>3, <2>4
<1> QED
  BY <1>1, <1>2 DEF CancelWait

-----------------------------------------------------------------------------
(* The whole of the invariant *)

\* The mutex does not notice what the other steps change.
LEMMA LockFrame ==
    ASSUME LockInv, UNCHANGED <<locked, waiters, outcome, pc, stopped, posted>>,
           thread' \in [Calls -> Threads], fault' = fault \/ fault' \in BOOLEAN
    PROVE  LockInv'
<1>1. fault' \in BOOLEAN
  BY Zenon DEF LockInv, TypeOK
<1>2. TypeOK'
  BY <1>1, Zenon DEF LockInv, TypeOK
<1>3. PlaceInv' /\ MutualExclusion' /\ NobodyWaitsForOpenLock'
  BY DEF LockInv, PlaceInv, MutualExclusion, Owners, NobodyWaitsForOpenLock, ActiveAt
<1> QED
  BY <1>2, <1>3 DEF LockInv

\* A step that leaves everything alone keeps the lock's invariant.
LEMMA LockStutter == LockInv /\ UNCHANGED vars => LockInv'
<1> SUFFICES ASSUME LockInv, UNCHANGED vars PROVE LockInv'
  OBVIOUS
<1>1. /\ UNCHANGED <<locked, waiters, outcome, pc, stopped, posted>>
      /\ thread' = thread /\ fault' = fault
  BY Zenon DEF vars
<1>2. thread' \in [Calls -> Threads]
  BY <1>1 DEF LockInv, TypeOK
<1> QED
  BY <1>1, <1>2, LockFrame

\* What is good of the new users is good in the next state.
LEMMA GoodNext ==
    ASSUME Good(usr', done'), UNCHANGED <<script, queue, permits, taken>>,
           items' = items \/ Notified(usr, done)'
    PROVE  Good(usr, done)'
<1>1. \A u \in Users : UserOK(u, usr, done)'
  BY DEF Good, UserOK, Kind
<1>2. \A i \in 1..Len(queue["cv"]) : CvWaiterOK(queue["cv"][i], usr, done)'
  BY DEF Good, CvWaiterOK, Kind
<1>3. \A i \in 1..Len(queue["sem"]) : SemWaiterOK(queue["sem"][i], usr, done)'
  BY DEF Good, SemWaiterOK, Kind
<1>4. (permits > 0 => ActiveAt(queue["sem"], done) = {})'
  BY DEF Good, ActiveAt
<1>5. Notified(usr, done)'
  BY DEF Good, Notified, Coming, Notifiers, Kind
<1> QED
  BY <1>1, <1>2, <1>3, <1>4, <1>5 DEF Good

\* A step that leaves the queues and the counts alone.
LEMMA QuietSync ==
    ASSUME SyncInv, LockInv', usr' \in UsrType, Good(usr', done'),
           done' \in [Calls -> Dones], resumes' \in Seq(Calls), ResumesDone',
           UNCHANGED <<script, queue, items, permits, issued, taken>>
    PROVE  SyncInv'
<1>1. Good(usr, done)'
  BY GoodNext
<1>2. SyncTypeOK' /\ QueuedOnce'
  BY DEF SyncInv, SyncTypeOK, QueuedOnce
<1> QED
  BY <1>1, <1>2 DEF SyncInv

\* A user goes on, and nothing that the others see changes.
LEMMA QuietMove ==
    ASSUME SyncInv, LockInv', usr' \in UsrType, NEW u \in Users,
           Onward(u, usr, usr', done), UserOK(u, usr', done),
           UNCHANGED <<script, queue, done, resumes, items, permits, issued, taken>>
    PROVE  SyncInv'
<1>1. Good(usr', done)
  BY MoveGood DEF SyncInv
<1>2. ResumesDone'
  BY DEF SyncInv, ResumesDone
<1> QED
  BY <1>1, <1>2, QuietSync DEF SyncInv, SyncTypeOK

-----------------------------------------------------------------------------
(* The steps of the mutex *)

\* The steps of other lockers of the mutex keep the invariant.
LEMMA MutexSteps ==
    ASSUME SyncInv, Next, UNCHANGED syncVars
    PROVE  SyncInv'
<1>1. LockInv'
  <2>1. ASSUME NEW o \in Calls, Lock(o) \/ TryLock(o) \/ Unlock(o) PROVE LockInv'
    BY <2>1, FirstTry, CheckStopStep, EnqueueStep, StopSteps, DecideStep, UnlockStep
       DEF Lock, SyncInv
  <2> QED
    BY <2>1, StopSteps, RunPostedStep DEF Next, SyncInv
<1>2. Good(usr', done') /\ ResumesDone'
  BY DEF SyncInv, syncVars, shared, program, ResumesDone
<1> QED
  BY <1>1, <1>2, QuietSync DEF SyncInv, SyncTypeOK, syncVars, shared, program

\* lock() or try_lock() is called.
LEMMA BeginsStep ==
    ASSUME SyncInv, NEW u \in Users, usr[u].stage \in {"new", "woken"},
           NEW k \in 0..TryCall, Begins(u, k)
    PROVE  SyncInv'
<1>1. /\ usr \in UsrType /\ UserOK(u, usr, done) /\ CallOf(u, k) \in Calls
      /\ usr[u].on \in Threads /\ "locking" \in Stages
  BY CallFacts DEF SyncInv, SyncTypeOK, Good, UsrType, Stages
<1>2. Goes(u, usr, usr', "locking")
  BY <1>1, StageFacts DEF Begins
<1>3. Onward(u, usr, usr', done) /\ UserOK(u, usr', done)
  BY <1>1, <1>2 DEF Goes, Onward, UserOK, CvStages, SemEarly, SemLate
<1>4. LockInv'
  <2>1. thread' \in [Calls -> Threads]
    BY <1>1 DEF Begins, SyncInv, LockInv, TypeOK
  <2> QED
    BY <2>1, LockFrame DEF Begins, SyncInv
<1> QED
  BY <1>2, <1>3, <1>4, QuietMove DEF Goes, Begins, shared, program

\* unlock() hands the mutex on and moves its caller.
LEMMA UnlockAtFacts ==
    ASSUME SyncInv, NEW u \in Users, NEW st \in Stages, UnlockAt(u, st)
    PROVE  /\ LockInv' /\ Goes(u, usr, usr', st)
           /\ UNCHANGED <<script, queue, done, resumes, permits, issued, taken>>
<1>1. usr \in UsrType /\ usr[u].call \in Calls
  BY DEF SyncInv, SyncTypeOK, UsrType
<1>2. thread[usr[u].call] \in Threads
  BY <1>1 DEF SyncInv, LockInv, TypeOK
<1>3. LockInv'
  BY <1>1, UnlockStep DEF UnlockAt, SyncInv
<1>4. Goes(u, usr, usr', st)
  BY <1>1, <1>2, StageFacts DEF UnlockAt
<1> QED
  BY <1>3, <1>4 DEF UnlockAt, shared

\* wait unlocks the caller's mutex after it has been registered.
LEMMA LetGoStep ==
    ASSUME SyncInv, NEW u \in Users, LetGo(u)
    PROVE  SyncInv'
<1>1. /\ LockInv' /\ Goes(u, usr, usr', "ended")
      /\ UNCHANGED <<script, queue, done, resumes, permits, issued, taken>>
  BY UnlockAtFacts DEF LetGo, Stages
<1>2. UserOK(u, usr, done) /\ Kind(u) # "consume" /\ usr[u].stage = "locking" /\ items' = items
  BY DEF SyncInv, Good, LetGo, Holds, At
<1>3. Onward(u, usr, usr', done) /\ UserOK(u, usr', done)
  BY <1>1, <1>2 DEF Goes, Onward, UserOK, CvStages, SemEarly, SemLate
<1> QED
  BY <1>1, <1>2, <1>3, QuietMove DEF Goes

\* wait releases the mutex that its waiter is registered beside.
LEMMA CvUnlockStep ==
    ASSUME SyncInv, NEW u \in Users, CvUnlock(u)
    PROVE  SyncInv'
<1>1. /\ LockInv' /\ Goes(u, usr, usr', "unlocked")
      /\ UNCHANGED <<script, queue, done, resumes, permits, issued, taken>>
  BY UnlockAtFacts DEF CvUnlock, Stages, CvStages
<1>2. UserOK(u, usr, done) /\ usr[u].stage = "registered" /\ items' = items
  BY DEF SyncInv, Good, CvUnlock, At
<1>3. Onward(u, usr, usr', done) /\ UserOK(u, usr', done)
  BY <1>1, <1>2 DEF Goes, Onward, UserOK, CvStages, SemEarly, SemLate
<1> QED
  BY <1>1, <1>2, <1>3, QuietMove DEF Goes

\* A consumer takes an item: when somebody waits, one consumer less is on its way.
LEMMA ConsumeStep ==
    ASSUME SyncInv, NEW u \in Users, Consume(u)
    PROVE  SyncInv'
<1> DEFINE leaves == usr[u].round > 0 /\ done[Waiter(u)] = "cancelled"
<1>1. /\ LockInv' /\ Goes(u, usr, usr', "ended")
      /\ UNCHANGED <<script, queue, done, resumes, permits, issued, taken>>
  BY UnlockAtFacts DEF Consume, Stages
<1>2. /\ UserOK(u, usr, done) /\ Kind(u) = "consume" /\ usr[u].stage = "locking"
      /\ items \in Nat /\ usr[u].round \in 0..MaxWaits
  BY DEF SyncInv, SyncTypeOK, UsrType, Good, Consume, Holds, At
<1>3. UserOK(u, usr', done)
  BY <1>1, <1>2 DEF Goes, UserOK, CvStages, SemEarly, SemLate
<1>4. CASE leaves /\ items' = items
  <2>1. Onward(u, usr, usr', done)
    BY <1>1, <1>2, <1>4 DEF Goes, Onward, CvStages, SemEarly, Waiter
  <2> QED
    BY <1>1, <1>3, <1>4, <2>1, QuietMove DEF Goes
<1>5. CASE ~leaves /\ items > 0 /\ items' = items - 1
  <2>1. \A v \in Users : UserOK(v, usr', done)
    BY <1>1, <1>3 DEF Goes, SyncInv, Good, UserOK
  <2>2. ASSUME NEW i \in 1..Len(queue["cv"]) PROVE CvWaiterOK(queue["cv"][i], usr', done)
    <3> DEFINE w == queue["cv"][i]
    <3>1. w \in Calls /\ CvWaiterOK(w, usr, done)
      BY ElementOfSeq DEF SyncInv, SyncTypeOK, Good
    <3> HIDE DEF w
    <3>2. w[1] \in Users /\ (w[1] = u => usr'[w[1]].round = usr[w[1]].round)
          /\ (w[1] # u => usr'[w[1]] = usr[w[1]])
      BY <1>1, <3>1, CallFacts DEF Goes
    <3>3. w[1] = u => done[w] # "none"
      BY <1>2, <3>1 DEF CvWaiterOK, CvStages
    <3> QED
      BY <3>1, <3>2, <3>3 DEF CvWaiterOK, w
  <2>3. ASSUME NEW i \in 1..Len(queue["sem"]) PROVE SemWaiterOK(queue["sem"][i], usr', done)
    <3> DEFINE w == queue["sem"][i]
    <3>1. w \in Calls /\ SemWaiterOK(w, usr, done)
      BY ElementOfSeq DEF SyncInv, SyncTypeOK, Good
    <3> HIDE DEF w
    <3>2. w[1] \in Users \ {u} /\ usr'[w[1]] = usr[w[1]]
      BY <1>1, <1>2, <3>1, CallFacts DEF Goes, SemWaiterOK
    <3> QED
      BY <3>1, <3>2 DEF SemWaiterOK, w
  <2>4. /\ IsFiniteSet(Coming(usr, done)) /\ IsFiniteSet(Coming(usr', done))
        /\ Coming(usr, done) \ {u} \subseteq Coming(usr', done)
        /\ Notifiers(usr) = Notifiers(usr')
    <3>1. Coming(usr, done) \subseteq Users /\ Coming(usr', done) \subseteq Users
      BY DEF Coming
    <3>2. Coming(usr, done) \ {u} \subseteq Coming(usr', done)
      BY <1>1 DEF Goes, Coming
    <3>3. Notifiers(usr) = Notifiers(usr')
      BY <1>1, <1>2 DEF Goes, Notifiers
    <3> QED
      BY <3>1, <3>2, <3>3, FS_Subset, SyncAssumption
  <2>5. Cardinality(Coming(usr, done)) <= Cardinality(Coming(usr', done)) + 1
    <3>1. /\ IsFiniteSet(Coming(usr, done) \ {u})
          /\ Cardinality(Coming(usr, done) \ {u}) <= Cardinality(Coming(usr', done))
      BY <2>4, FS_Subset
    <3>2. Cardinality(Coming(usr, done) \ {u}) =
             IF u \in Coming(usr, done) THEN Cardinality(Coming(usr, done)) - 1
                                        ELSE Cardinality(Coming(usr, done))
      BY <2>4, FS_RemoveElement
    <3> QED
      BY <2>4, <3>1, <3>2, FS_CardinalityType
  <2>6. (\E i \in 1..Len(queue["cv"]) : done[queue["cv"][i]] = "none") =>
           items' <= Cardinality(Coming(usr', done)) + Cardinality(Notifiers(usr'))
    <3>1. Cardinality(Coming(usr, done)) \in Nat /\ Cardinality(Coming(usr', done)) \in Nat
      BY <2>4, FS_CardinalityType
    <3>2. IsFiniteSet(Notifiers(usr')) /\ Cardinality(Notifiers(usr')) \in Nat
      BY FS_Subset, FS_CardinalityType, SyncAssumption DEF Notifiers
    <3>3. Notified(usr, done)
      BY DEF SyncInv, Good
    <3> QED
      BY <1>2, <1>5, <2>4, <2>5, <3>1, <3>2, <3>3 DEF Notified
  <2>7. Good(usr, done)'
    <3>1. permits > 0 => ActiveAt(queue["sem"], done) = {}
      BY DEF SyncInv, Good
    <3>2. Notified(usr, done)'
      BY <1>1, <2>6 DEF Notified, Coming, Notifiers, Kind
    <3> QED
      BY <1>1, <2>1, <2>2, <2>3, <3>1, <3>2
         DEF Good, UserOK, CvWaiterOK, SemWaiterOK, Kind, ActiveAt
  <2>8. SyncTypeOK' /\ QueuedOnce' /\ ResumesDone'
    <3>1. items' \in Nat /\ usr' \in UsrType
      BY <1>1, <1>2, <1>5 DEF Goes
    <3>2. SyncTypeOK'
      BY <1>1, <3>1 DEF SyncInv, SyncTypeOK
    <3>3. QueuedOnce' /\ ResumesDone'
      BY <1>1 DEF SyncInv, QueuedOnce, ResumesDone
    <3> QED
      BY <3>2, <3>3
  <2> QED
    BY <1>1, <2>7, <2>8 DEF SyncInv
<1> QED
  BY <1>4, <1>5 DEF Consume

\* A producer adds an item, and is about to notify.
LEMMA ProduceStep ==
    ASSUME SyncInv, NEW u \in Users, Produce(u)
    PROVE  SyncInv'
<1>1. /\ LockInv' /\ Goes(u, usr, usr', "notifying")
      /\ UNCHANGED <<script, queue, done, resumes, permits, issued, taken>>
      /\ items' = items + 1
  BY UnlockAtFacts DEF Produce, Stages
<1>2. UserOK(u, usr, done) /\ Kind(u) = "produce" /\ usr[u].stage = "locking" /\ items \in Nat
  BY DEF SyncInv, SyncTypeOK, Good, Produce, Holds, At
<1>3. Onward(u, usr, usr', done) /\ UserOK(u, usr', done)
  BY <1>1, <1>2 DEF Goes, Onward, UserOK, CvStages, SemEarly, SemLate
<1>4. Good(usr', done)
  BY <1>3, MoveGood DEF SyncInv
<1>5. Cardinality(Coming(usr, done)) = Cardinality(Coming(usr', done))
  <2>1. Coming(usr, done) = Coming(usr', done)
    BY <1>1, <1>2 DEF Goes, Coming
  <2> QED
    BY <2>1
<1>6. Cardinality(Notifiers(usr')) = Cardinality(Notifiers(usr)) + 1
  <2>1. Notifiers(usr') = Notifiers(usr) \cup {u} /\ u \notin Notifiers(usr)
    BY <1>1, <1>2 DEF Goes, Notifiers
  <2>2. IsFiniteSet(Notifiers(usr))
    BY FS_Subset, SyncAssumption DEF Notifiers
  <2> QED
    BY <2>1, <2>2, FS_AddElement
<1>7. Cardinality(Coming(usr, done)) \in Nat /\ Cardinality(Notifiers(usr)) \in Nat
  BY FS_Subset, FS_CardinalityType, SyncAssumption DEF Coming, Notifiers
<1>8. Notified(usr, done)'
  <2>1. Notified(usr, done)
    BY DEF SyncInv, Good
  <2>2. (\E i \in 1..Len(queue["cv"]) : done[queue["cv"][i]] = "none") =>
           items' <= Cardinality(Coming(usr', done)) + Cardinality(Notifiers(usr'))
    BY <1>1, <1>2, <1>5, <1>6, <1>7, <2>1 DEF Notified
  <2> QED
    BY <1>1, <2>2 DEF Notified, Coming, Notifiers, Kind
<1>9. Good(usr, done)'
  BY <1>1, <1>4, <1>8, GoodNext
<1>10. SyncTypeOK' /\ QueuedOnce' /\ ResumesDone'
  <2>1. items' \in Nat /\ usr' \in UsrType
    BY <1>1, <1>2 DEF Goes, SyncInv, SyncTypeOK
  <2>2. SyncTypeOK'
    BY <1>1, <2>1 DEF SyncInv, SyncTypeOK
  <2>3. QueuedOnce' /\ ResumesDone'
    BY <1>1 DEF SyncInv, QueuedOnce, ResumesDone
  <2> QED
    BY <2>2, <2>3
<1> QED
  BY <1>1, <1>9, <1>10 DEF SyncInv

-----------------------------------------------------------------------------
(* The steps of a wait and of an acquire that change nothing for the others *)

\* Steps of a waiter on its own record only.
LEMMA QuietSteps ==
    ASSUME SyncInv, NEW u \in Users, CvReady(u) \/ CvArm(u) \/ CvDecide(u) \/ SemDecide(u)
    PROVE  SyncInv'
<1> DEFINE over == done[Waiter(u)] # "none"
           next == CASE At(u, "unlocked") -> IF over THEN "woken" ELSE "suspending"
                     [] At(u, "suspending") -> "arming"
                     [] At(u, "arming") -> IF over THEN "woken" ELSE "suspended"
                     [] OTHER -> IF over THEN "ended" ELSE "suspended"
<1>1. /\ usr' = GoTo(u, next) /\ usr[u].stage \in {"unlocked", "suspending", "arming", "deciding"}
      /\ UNCHANGED <<vars, script, queue, done, resumes, items, permits, issued, taken>>
  BY DEF CvReady, CvArm, CvDecide, SemDecide, At, shared, program
<1>2. usr \in UsrType /\ UserOK(u, usr, done) /\ next \in Stages
  <2>1. next \in {"woken", "suspending", "arming", "suspended", "ended"}
    BY DEF next
  <2>2. next \in Stages
    BY <2>1, Zenon DEF Stages, CvStages, SemLate
  <2> QED
    BY <2>2 DEF SyncInv, SyncTypeOK, Good
<1>3. Goes(u, usr, usr', next)
  BY <1>1, <1>2, GoToGoes
<1>4. /\ usr[u].stage # "deciding" => /\ next \in {"woken", "suspending", "arming", "suspended"}
                                      /\ next = "woken" => done[CallOf(u, usr[u].round)] # "none"
      /\ usr[u].stage = "deciding" => next \in {"ended", "suspended"}
  BY <1>1 DEF At, Waiter
<1> HIDE DEF next
<1>5. /\ usr[u].stage # "deciding" => Kind(u) = "consume" /\ usr[u].round > 0
      /\ usr[u].stage = "deciding" => Kind(u) = "acquire"
  BY <1>1, <1>2 DEF UserOK, CvStages
<1>6. Onward(u, usr, usr', done)
  BY <1>1, <1>3, <1>4, <1>5 DEF Goes, Onward, CvStages, SemEarly
<1>7. UserOK(u, usr', done)
  BY <1>1, <1>2, <1>3, <1>4, <1>5 DEF Goes, UserOK, CvStages, SemEarly, SemLate
<1>8. LockInv'
  BY <1>1, LockStutter DEF SyncInv
<1> QED
  BY <1>1, <1>3, <1>6, <1>7, <1>8, QuietMove DEF Goes

\* The waiter locks the mutex again.
LEMMA CvRelockStep ==
    ASSUME SyncInv, NEW u \in Users, CvRelock(u)
    PROVE  SyncInv'
<1>1. usr[u].round \in 0..TryCall
  BY SyncAssumption DEF SyncInv, SyncTypeOK, UsrType, TryCall
<1> QED
  BY <1>1, BeginsStep DEF CvRelock, At

\* The caller locks the mutex before it waits.
LEMMA FirstLockStep ==
    ASSUME SyncInv, NEW u \in Users, FirstLock(u)
    PROVE  SyncInv'
<1>1. TryCall \in 0..TryCall /\ 0 \in 0..TryCall
  BY CallFacts
<1>2. CASE Begins(u, TryCall)
  BY <1>1, <1>2, BeginsStep DEF FirstLock, At
<1>3. CASE Begins(u, 0)
  BY <1>1, <1>3, BeginsStep DEF FirstLock, At
<1> QED
  BY <1>2, <1>3 DEF FirstLock

-----------------------------------------------------------------------------
(* Cancellation, and the resumes *)

\* A fault outside the mutex leaves the lock's invariant as it is.
LEMMA FaultFrame ==
    ASSUME LockInv, UNCHANGED mutexButFault, fault' = fault \/ fault' \in BOOLEAN
    PROVE  LockInv'
<1>1. UNCHANGED <<locked, waiters, outcome, pc, stopped, posted>> /\ thread' = thread
  BY DEF mutexButFault
<1>2. thread' \in [Calls -> Threads]
  BY <1>1 DEF LockInv, TypeOK
<1> QED
  BY <1>1, <1>2, LockFrame

\* A stop or a timeout takes a waiter that nobody has notified.
LEMMA CancelWaitStep ==
    ASSUME SyncInv, NEW us \in UsrType, Good(us, done),
           NEW w \in Calls, NEW t, CancelWait(w, t, us),
           w[2] = 0 /\ done[w] = "none" =>
              w[1] \notin taken /\ us[w[1]].stage \notin SemEarly,
           UNCHANGED <<mutexButFault, script, queue, program>>
    PROVE  SyncInv'
<1>1. /\ usr' \in UsrType /\ Good(usr', done') /\ done' \in [Calls -> Dones]
      /\ resumes' \in Seq(Calls) /\ ResumesDone'
      /\ fault' = fault \/ fault' \in BOOLEAN
  BY CancelWaitGood DEF SyncInv
<1>2. LockInv'
  BY <1>1, FaultFrame DEF SyncInv
<1>3. UNCHANGED <<script, queue, items, permits, issued, taken>>
  BY DEF program
<1> QED
  BY <1>1, <1>2, <1>3, QuietSync

\* wait and acquire register their callback, which may run at once.
LEMMA RegisterSteps ==
    ASSUME SyncInv, NEW u \in Users, CvRegister(u) \/ SemRegister(u)
    PROVE  SyncInv'
<1> DEFINE next == IF At(u, "pushed") THEN "registered" ELSE "deciding"
           us == GoTo(u, next)
<1>1. /\ usr[u].stage \in {"pushed", "registering"}
      /\ \/ CancelWait(Waiter(u), usr[u].on, us)
         \/ usr' = us /\ UNCHANGED <<done, resumes, fault>>
      /\ UNCHANGED <<mutexButFault, script, queue, program>>
  BY DEF CvRegister, SemRegister, At
<1>2. usr \in UsrType /\ UserOK(u, usr, done) /\ next \in Stages
  BY DEF SyncInv, SyncTypeOK, Good, Stages, CvStages, SemLate
<1>3. Goes(u, usr, us, next)
  BY <1>2, StageFacts, SyncAssumption, CallFacts DEF GoTo, UsrType
<1> HIDE DEF us
<1>4. \/ usr[u].stage = "pushed" /\ next = "registered"
      \/ usr[u].stage = "registering" /\ next = "deciding"
  <2>1. usr[u].stage = "pushed" \/ usr[u].stage = "registering"
    BY <1>1
  <2> QED
    BY <2>1 DEF At
<1> HIDE DEF next
<1>5. Onward(u, usr, us, done) /\ UserOK(u, us, done)
  BY <1>2, <1>3, <1>4 DEF Goes, Onward, UserOK, CvStages, SemEarly, SemLate
<1>6. us \in UsrType /\ Good(us, done)
  BY <1>3, <1>5, MoveGood DEF Goes, SyncInv
<1>7. CASE usr' = us /\ UNCHANGED <<done, resumes, fault>>
  <2>1. LockInv'
    BY <1>1, <1>7, FaultFrame DEF SyncInv
  <2> QED
    BY <1>1, <1>3, <1>5, <1>7, <2>1, QuietMove DEF Goes, program
<1>8. CASE CancelWait(Waiter(u), usr[u].on, us)
  <2>1. /\ Waiter(u) \in Calls /\ Waiter(u)[1] = u /\ Waiter(u)[2] = usr[u].round
        /\ Waiter(u) = CallOf(u, usr[u].round)
    BY <1>2, CallFacts DEF Waiter, UsrType
  <2>2. usr[u].round = 0 /\ done[Waiter(u)] = "none" =>
           u \notin taken /\ us[u].stage \notin SemEarly
    BY <1>2, <1>3, <1>4, <2>1 DEF Goes, UserOK, CvStages, SemEarly, SemLate
  <2> QED
    BY <1>1, <1>6, <1>8, <2>1, <2>2, CancelWaitStep
<1> QED
  BY <1>1, <1>7, <1>8

\* The runtime of a thread ends.
LEMMA HaltStep ==
    ASSUME SyncInv, NEW u \in Users, NEW t, Halt(u, t)
    PROVE  SyncInv'
<1>1. usr \in UsrType /\ UserOK(u, usr, done) /\ UNCHANGED <<mutexButFault, script, queue, program>>
  BY DEF SyncInv, SyncTypeOK, Good, Halt
<1>2. CASE usr[u].stage \in Registered /\ CancelWait(Waiter(u), t, usr)
  <2>1. /\ Waiter(u) \in Calls /\ Waiter(u)[1] = u /\ Waiter(u)[2] = usr[u].round
        /\ Waiter(u) = CallOf(u, usr[u].round)
    BY <1>1, CallFacts DEF Waiter, UsrType
  <2>2. usr[u].round = 0 /\ done[Waiter(u)] = "none" =>
           u \notin taken /\ usr[u].stage \notin SemEarly
    BY <1>1, <1>2, <2>1 DEF UserOK, CvStages, SemEarly, SemLate, Registered
  <2> QED
    BY <1>1, <1>2, <2>1, <2>2, CancelWaitStep DEF SyncInv
<1>3. CASE UNCHANGED <<usr, done, resumes, fault>>
  <2>1. LockInv'
    BY <1>1, <1>3, FaultFrame DEF SyncInv
  <2> QED
    BY <1>1, <1>3, <2>1, QuietSync DEF SyncInv, SyncTypeOK, ResumesDone, program
<1> QED
  BY <1>2, <1>3 DEF Halt

\* notify and release resume the next waiter that they have completed.
LEMMA ResumeReadyStep ==
    ASSUME SyncInv, NEW u \in Users, ResumeReady(u)
    PROVE  SyncInv'
<1> DEFINE w == Head(usr[u].ready)
           left == Tail(usr[u].ready)
           next == IF left = <<>> THEN "ended" ELSE "resuming"
           us == [usr EXCEPT ![u].ready = left, ![u].stage = next]
<1>1. /\ usr[u].stage = "resuming" /\ Wake(w, usr[u].on, us)
      /\ UNCHANGED <<mutexButFault, script, shared, program>>
  BY DEF ResumeReady, At
<1>2. /\ usr \in UsrType /\ UserOK(u, usr, done) /\ next \in Stages
      /\ usr[u] \in [stage : Stages, on : Threads, round : 0..MaxWaits,
                     ready : Seq(Calls), call : Calls]
  BY DEF SyncInv, SyncTypeOK, UsrType, Good, Stages
<1>3. usr[u].ready \in Seq(Calls) /\ usr[u].ready # <<>> /\ Kind(u) # "consume"
  BY <1>1, <1>2 DEF UserOK
<1>4. /\ w \in Calls /\ left \in Seq(Calls) /\ w = usr[u].ready[1]
      /\ Len(usr[u].ready) \in Nat /\ Len(usr[u].ready) > 0
      /\ Len(left) = Len(usr[u].ready) - 1
      /\ \A i \in 1..Len(left) : left[i] = usr[u].ready[i + 1]
  BY <1>3
<1>5. done[w] # "none" /\ \A i \in 1..Len(left) : done[left[i]] # "none"
  BY <1>2, <1>4 DEF UserOK
<1>6. /\ us \in UsrType /\ us[u].stage = next /\ us[u].round = usr[u].round
      /\ us[u].ready = left /\ \A v \in Users \ {u} : us[v] = usr[v]
  BY <1>2, <1>4 DEF UsrType
<1>7. next \in {"ended", "resuming"} /\ (next = "resuming" => left # <<>>)
  OBVIOUS
<1> HIDE DEF us, next, left, w
<1>8. Onward(u, usr, us, done)
  BY <1>1, <1>3, <1>6, <1>7 DEF Onward, SemEarly, CvStages
<1>9. UserOK(u, us, done)
  BY <1>1, <1>2, <1>3, <1>5, <1>6, <1>7 DEF UserOK, CvStages, SemEarly, SemLate
<1>10. Good(us, done)
  BY <1>8, <1>9, MoveGood DEF SyncInv
<1>11. /\ usr' \in UsrType /\ Good(usr', done)
       /\ resumes' = resumes \/ resumes' = Append(resumes, w)
       /\ fault' = fault \/ fault' \in BOOLEAN
  BY <1>1, <1>4, <1>5, <1>6, <1>10, WakeGood DEF SyncInv
<1>12. resumes' \in Seq(Calls) /\ ResumesDone' /\ done' = done
  BY <1>1, <1>4, <1>5, <1>11, ResumesAppend DEF SyncInv, shared
<1>13. LockInv'
  BY <1>1, <1>11, FaultFrame DEF SyncInv
<1> QED
  BY <1>1, <1>11, <1>12, <1>13, QuietSync DEF SyncInv, SyncTypeOK, shared, program

\* The loop resumes a waiter for another thread.
LEMMA RunResumeStep ==
    ASSUME SyncInv, RunResume
    PROVE  SyncInv'
<1> DEFINE w == Head(resumes)
<1>1. /\ resumes \in Seq(Calls) /\ resumes # <<>> /\ resumes' = Tail(resumes)
      /\ WakeHere(w, usr) /\ UNCHANGED <<mutexButFault, script, shared, program>>
  BY DEF RunResume, SyncInv, SyncTypeOK
<1>2. /\ w \in Calls /\ w = resumes[1] /\ resumes' \in Seq(Calls) /\ Len(resumes) \in Nat
      /\ Len(resumes) > 0 /\ Len(resumes') = Len(resumes) - 1
      /\ \A i \in 1..Len(resumes') : resumes'[i] = resumes[i + 1]
  BY <1>1
<1>3. done[w] # "none" /\ done' = done
  BY <1>1, <1>2 DEF SyncInv, ResumesDone, shared
<1> HIDE DEF w
<1>4. usr' \in UsrType /\ Good(usr', done) /\ fault' \in BOOLEAN
  BY <1>1, <1>2, <1>3, WakeHereGood DEF SyncInv, SyncTypeOK
<1>5. ResumesDone'
  BY <1>2, <1>3 DEF SyncInv, ResumesDone
<1>6. LockInv'
  BY <1>1, <1>4, FaultFrame DEF SyncInv
<1> QED
  BY <1>1, <1>2, <1>3, <1>4, <1>5, <1>6, QuietSync DEF SyncInv, SyncTypeOK, shared, program

-----------------------------------------------------------------------------
(* The queues *)

\* A consumer that found no item queues its next wait; with no item, nobody has
\* to come for one.
LEMMA CvPushStep ==
    ASSUME SyncInv, NEW u \in Users, CvPush(u)
    PROVE  SyncInv'
<1> DEFINE n == usr[u].round + 1
           w == CallOf(u, n)
           on == thread[usr[u].call]
<1>1. /\ Kind(u) = "consume" /\ usr[u].stage = "locking" /\ items = 0 /\ usr[u].round < MaxWaits
      /\ usr' = [usr EXCEPT ![u].stage = "pushed", ![u].on = on, ![u].round = n]
      /\ queue' = [queue EXCEPT !["cv"] = Append(@, w)]
      /\ UNCHANGED <<vars, script, done, resumes, items, permits, issued, taken>>
  BY DEF CvPush, Holds, At, program
<1>2. usr \in UsrType /\ UserOK(u, usr, done) /\ usr[u].call \in Calls /\ MaxWaits \in Nat
  BY SyncAssumption DEF SyncInv, SyncTypeOK, Good, UsrType
<1>3. /\ usr[u] \in [stage : Stages, on : Threads, round : 0..MaxWaits,
                     ready : Seq(Calls), call : Calls]
      /\ on \in Threads /\ n \in 0..MaxWaits /\ n > 0 /\ "pushed" \in Stages
      /\ n = usr[u].round + 1 /\ usr[u].round \in Nat
  BY <1>1, <1>2 DEF SyncInv, LockInv, TypeOK, UsrType, Stages, CvStages
<1>4. w \in Calls /\ w[1] = u /\ w[2] = n
  BY <1>2, <1>3, CallFacts
<1> HIDE DEF w, n, on
<1>5. /\ usr' \in UsrType
      /\ usr'[u].stage = "pushed" /\ usr'[u].round = n /\ usr'[u].ready = usr[u].ready
      /\ \A v \in Users \ {u} : usr'[v] = usr[v]
  <2> DEFINE r == [usr[u] EXCEPT !.stage = "pushed", !.on = on, !.round = n]
  <2>1. /\ r \in [stage : Stages, on : Threads, round : 0..MaxWaits,
                  ready : Seq(Calls), call : Calls]
        /\ r.stage = "pushed" /\ r.round = n /\ r.ready = usr[u].ready
    BY <1>3
  <2>2. usr' = [usr EXCEPT ![u] = r]
    BY <1>1, <1>2 DEF UsrType
  <2> HIDE DEF r
  <2> QED
    BY <1>2, <2>1, <2>2 DEF UsrType
<1>6. /\ queue["cv"] \in Seq(Calls) /\ Len(queue["cv"]) \in Nat
      /\ queue' \in [{"cv", "sem"} -> Seq(Calls)] /\ queue'["sem"] = queue["sem"]
      /\ Len(queue'["cv"]) = Len(queue["cv"]) + 1
      /\ \A i \in 1..Len(queue["cv"]) : queue'["cv"][i] = queue["cv"][i]
      /\ queue'["cv"][Len(queue["cv"]) + 1] = w
  BY <1>1, <1>4, AppendProperties DEF SyncInv, SyncTypeOK
<1>7. ASSUME NEW v \in Users PROVE UserOK(v, usr, done)'
  <2>1. UserOK(v, usr, done)
    BY DEF SyncInv, Good
  <2> QED
    <3>1. CASE v = u
      <4>1. u \in taken' => done'[CallOf(u, 0)] # "cancelled"
        BY <1>1, <1>2 DEF UserOK
      <4>2. \A i \in 1..Len(usr'[u].ready) : done'[usr'[u].ready[i]] # "none"
        BY <1>1, <1>2, <1>5 DEF UserOK
      <4>3. Kind(u)' = "consume"
        BY <1>1 DEF Kind
      <4> QED
        BY <1>3, <1>5, <3>1, <4>1, <4>2, <4>3 DEF UserOK, CvStages, SemEarly, SemLate
    <3>2. CASE v # u
      <4>1. usr'[v] = usr[v]
        BY <1>5, <3>2
      <4> QED
        BY <1>1, <2>1, <4>1 DEF UserOK, Kind
    <3> QED
      BY <3>1, <3>2
<1>8. ASSUME NEW i \in 1..Len(queue'["cv"]) PROVE CvWaiterOK(queue["cv"][i], usr, done)'
  <2>1. CASE queue'["cv"][i] = w
    <3>1. /\ Kind(u)' = "consume" /\ n \in 1..usr'[u].round
          /\ usr'[u].stage \in CvStages \cup {"suspended"}
      BY <1>1, <1>3, <1>5 DEF CvStages, Kind
    <3> QED
      BY <1>4, <1>5, <2>1, <3>1 DEF CvWaiterOK
  <2>2. CASE i \in 1..Len(queue["cv"])
    <3> DEFINE x == queue["cv"][i]
    <3>1. x \in Calls /\ CvWaiterOK(x, usr, done) /\ queue'["cv"][i] = x
      BY <1>6, <2>2, ElementOfSeq DEF SyncInv, Good
    <3> HIDE DEF x
    <3>2. x[1] \in Users /\ usr[x[1]].round \in Nat
      BY <1>2, <3>1, CallFacts DEF UsrType
    <3>3. CASE x[1] = u
      <4>1. done[x] # "none"
        BY <1>1, <3>1, <3>3 DEF CvWaiterOK, CvStages
      <4> QED
        <5>1. x[2] \in 1..usr'[u].round
          BY <1>3, <1>5, <3>1, <3>3 DEF CvWaiterOK
        <5> QED
          BY <1>1, <3>1, <3>3, <4>1, <5>1 DEF CvWaiterOK, Kind
    <3>4. CASE x[1] # u
      BY <1>1, <1>5, <3>1, <3>2, <3>4 DEF CvWaiterOK, Kind
    <3> QED
      BY <3>3, <3>4
  <2> QED
    BY <1>6, <2>1, <2>2
<1>9. ASSUME NEW i \in 1..Len(queue'["sem"]) PROVE SemWaiterOK(queue["sem"][i], usr, done)'
  <2> DEFINE x == queue["sem"][i]
  <2>1. x \in Calls /\ SemWaiterOK(x, usr, done) /\ queue'["sem"][i] = x
    BY <1>6, ElementOfSeq DEF SyncInv, SyncTypeOK, Good
  <2> HIDE DEF x
  <2>2. x[1] \in Users \ {u}
    BY <1>1, <2>1, CallFacts DEF SemWaiterOK
  <2> QED
    BY <1>1, <1>5, <2>1, <2>2 DEF SemWaiterOK, Kind
<1>10. Notified(usr, done)'
  <2>1. items' = 0
    BY <1>1
  <2>2. Coming(usr, done)' \subseteq Users /\ Notifiers(usr)' \subseteq Users
    BY DEF Coming, Notifiers
  <2>3. Cardinality(Coming(usr, done)') \in Nat /\ Cardinality(Notifiers(usr)') \in Nat
    BY <2>2, FS_Subset, FS_CardinalityType, SyncAssumption
  <2>4. items' <= Cardinality(Coming(usr, done)') + Cardinality(Notifiers(usr)')
    BY <2>1, <2>3
  <2> QED
    BY <2>4 DEF Notified
<1>11. permits' > 0 => (ActiveAt(queue["sem"], done))' = {}
  BY <1>1, <1>6 DEF SyncInv, Good, ActiveAt
<1>12. Good(usr, done)'
  BY <1>7, <1>8, <1>9, <1>10, <1>11 DEF Good
<1>13. SyncTypeOK' /\ QueuedOnce' /\ ResumesDone'
  BY <1>1, <1>5, <1>6 DEF SyncInv, SyncTypeOK, QueuedOnce, ResumesDone
<1>14. LockInv'
  BY <1>1, LockStutter DEF SyncInv
<1> QED
  BY <1>1, <1>12, <1>13, <1>14 DEF SyncInv

\* An acquire that a stop precedes gives up; the others go on to queue.
LEMMA SemCheckStopStep ==
    ASSUME SyncInv, NEW u \in Users, SemCheckStop(u)
    PROVE  SyncInv'
<1>1. /\ usr \in UsrType /\ UserOK(u, usr, done) /\ usr[u].stage = "ready"
      /\ done \in [Calls -> Dones]
      /\ UNCHANGED <<vars, script, queue, resumes, items, permits, issued, taken>>
  BY DEF SyncInv, SyncTypeOK, Good, SemCheckStop, At, program
<1>2. Kind(u) = "acquire" /\ u \notin taken /\ done[CallOf(u, 0)] = "none" /\ usr[u].round = 0
  BY <1>1 DEF UserOK, SemEarly
<1>3. Waiter(u) = CallOf(u, 0) /\ Waiter(u) \in Calls /\ Waiter(u)[1] = u /\ Waiter(u)[2] = 0
  BY <1>2, CallFacts DEF Waiter
<1>4. LockInv'
  BY <1>1, LockStutter DEF SyncInv
<1>5. CASE usr' = GoTo(u, "ended") /\ done' = [done EXCEPT ![Waiter(u)] = "cancelled"]
  <2>1. Goes(u, usr, usr', "ended")
    BY <1>1, <1>3, <1>5, StageFacts DEF GoTo, Stages, UsrType
  <2>2. Onward(u, usr, usr', done) /\ UserOK(u, usr', done)
    BY <1>1, <1>2, <2>1 DEF Goes, Onward, UserOK, CvStages, SemEarly, SemLate
  <2>3. Good(usr', done)
    BY <2>2, MoveGood DEF SyncInv
  <2>4. usr'[u].stage \notin SemEarly
    BY <2>1 DEF Goes, SemEarly
  <2>5. Good(usr', done')
    BY <1>1, <1>2, <1>3, <1>5, <2>3, <2>4, CancelGood DEF SyncInv
  <2>6. done' \in [Calls -> Dones] /\ \A w \in Calls : done[w] # "none" => done'[w] # "none"
    BY <1>1, <1>5 DEF Dones
  <2>7. ResumesDone' /\ resumes' \in Seq(Calls)
    <3>1. resumes \in Seq(Calls) /\ \A i \in 1..Len(resumes) : resumes[i] \in Calls
      BY ElementOfSeq DEF SyncInv, SyncTypeOK
    <3> QED
      BY <1>1, <2>6, <3>1 DEF SyncInv, ResumesDone
  <2> QED
    BY <1>1, <1>4, <2>1, <2>5, <2>6, <2>7, QuietSync DEF Goes
<1>6. CASE usr' = GoTo(u, "queueing") /\ UNCHANGED done
  <2>1. Goes(u, usr, usr', "queueing")
    BY <1>1, <1>3, <1>6, StageFacts DEF GoTo, Stages, SemEarly, UsrType
  <2>2. Onward(u, usr, usr', done) /\ UserOK(u, usr', done)
    BY <1>1, <1>2, <2>1 DEF Goes, Onward, UserOK, CvStages, SemEarly, SemLate
  <2> QED
    BY <1>1, <1>4, <1>6, <2>1, <2>2, QuietMove DEF Goes
<1> QED
  BY <1>5, <1>6 DEF SemCheckStop

\* The queue of the semaphore after prune_inactive.
LEMMA SemPruned ==
    ASSUME SyncInv, NEW q, q = PruneInactive(queue["sem"], done)
    PROVE  /\ q \in Seq(Calls) /\ Len(q) \in Nat
           /\ \A i \in 1..Len(q) : \E j \in 1..Len(queue["sem"]) : q[i] = queue["sem"][j]
           /\ \A i, j \in 1..Len(q) : q[i] = q[j] => i = j
<1>1. queue["sem"] \in Seq(Calls)
  BY DEF SyncInv, SyncTypeOK
<1>2. \A i, j \in 1..Len(queue["sem"]) : queue["sem"][i] = queue["sem"][j] => i = j
  BY DEF SyncInv, QueuedOnce
<1>3. /\ q \in Seq(Calls)
      /\ \A i \in 1..Len(q) : \E j \in 1..Len(queue["sem"]) : q[i] = queue["sem"][j]
  <2>1. /\ PruneInactive(queue["sem"], done) \in Seq(Calls)
        /\ \A i \in 1..Len(PruneInactive(queue["sem"], done)) :
              \E j \in 1..Len(queue["sem"]) :
                 PruneInactive(queue["sem"], done)[i] = queue["sem"][j]
    <3> HIDE DEF SyncInv
    <3>1. \A W : \A s \in Seq(W) : \A out :
             /\ PruneInactive(s, out) \in Seq(W)
             /\ \A i \in 1..Len(PruneInactive(s, out)) :
                   \E j \in 1..Len(s) : PruneInactive(s, out)[i] = s[j]
      BY PruneInactiveFacts
    <3> QED
      BY <1>1, <3>1
  <2> QED
    BY <2>1
<1>4. \A i, j \in 1..Len(q) : q[i] = q[j] => i = j
  BY <1>1, <1>2, PruneKeepsOnce
<1> QED
  BY <1>3, <1>4

\* User u goes to stage st, and its waiter may be new in the queue q.
SemQueueOf(u, st, q) ==
    /\ q \in Seq(Calls)
    /\ \A i \in 1..Len(q) :
          \/ \E j \in 1..Len(queue["sem"]) : q[i] = queue["sem"][j]
          \/ q[i] = CallOf(u, 0) /\ Kind(u) = "acquire" /\ st \notin SemEarly /\ permits = 0
    /\ \A i, j \in 1..Len(q) : q[i] = q[j] => i = j

\* It takes a permit, gives up or waits.
SemCounts(u, st) ==
    \/ permits > 0 /\ permits' = permits - 1 /\ taken' = taken \cup {u} /\ st = "ended"
    \/ permits = 0 /\ permits' = permits /\ taken' = taken
         /\ (st = "ended" \/ (Kind(u) = "acquire" /\ st \in {"ready", "registering"}))

\* A user of the semaphore that goes on, with its place in the queue and its permit.
LEMMA SemMove ==
    ASSUME SyncInv, NEW u \in Users, NEW st \in Stages, NEW q \in Seq(Calls),
           Kind(u) \in {"acquire", "take"}, usr[u].stage \in SemEarly,
           u \notin taken, done[CallOf(u, 0)] = "none",
           usr' = GoTo(u, st), queue' = [queue EXCEPT !["sem"] = q],
           LockInv', UNCHANGED <<script, done, resumes, items, issued>>,
           SemQueueOf(u, st, q), SemCounts(u, st)
    PROVE  SyncInv'
<1> USE DEF SemQueueOf, SemCounts
<1>1. /\ usr \in UsrType /\ permits \in Nat /\ taken \subseteq Users
      /\ queue \in [{"cv", "sem"} -> Seq(Calls)] /\ UserOK(u, usr, done)
  BY DEF SyncInv, SyncTypeOK, Good
<1>2. Goes(u, usr, usr', st)
  BY <1>1, StageFacts DEF GoTo, UsrType
<1>3. /\ queue' \in [{"cv", "sem"} -> Seq(Calls)]
      /\ queue'["cv"] = queue["cv"] /\ queue'["sem"] = q
  BY <1>1
<1>4. st # "new" /\ st \in {"ended", "ready", "registering"}
  OBVIOUS
<1>5. ASSUME NEW v \in Users PROVE UserOK(v, usr, done)'
  <2>1. CASE v = u
    <3>1. u \in taken' => st = "ended" /\ done'[CallOf(u, 0)] = "none"
      OBVIOUS
    <3>2. \A i \in 1..Len(usr'[u].ready) : done'[usr'[u].ready[i]] # "none"
      BY <1>1, <1>2 DEF Goes, UserOK
    <3>3. Kind(u)' = Kind(u) /\ done' = done
      BY DEF Kind
    <3> QED
      BY <1>1, <1>2, <1>4, <2>1, <3>1, <3>2, <3>3
         DEF Goes, UserOK, CvStages, SemEarly, SemLate
  <2>2. CASE v # u
    <3>1. usr'[v] = usr[v] /\ Kind(v)' = Kind(v) /\ done' = done /\ (v \in taken' <=> v \in taken)
      BY <1>2, <2>2 DEF Goes, Kind
    <3>2. UserOK(v, usr, done)
      BY DEF SyncInv, Good
    <3> QED
      BY <3>1, <3>2 DEF UserOK
  <2> QED
    BY <2>1, <2>2
<1>6. ASSUME NEW i \in 1..Len(queue'["cv"]) PROVE CvWaiterOK(queue["cv"][i], usr, done)'
  <2> DEFINE x == queue["cv"][i]
  <2>1. x \in Calls /\ CvWaiterOK(x, usr, done) /\ queue'["cv"][i] = x
    BY <1>1, <1>3, ElementOfSeq DEF SyncInv, Good
  <2> HIDE DEF x
  <2>2. x[1] \in Users \ {u}
    BY <2>1, CallFacts DEF CvWaiterOK
  <2>3. usr'[x[1]] = usr[x[1]]
    BY <1>2, <2>2 DEF Goes
  <2> QED
    BY <2>1, <2>2, <2>3 DEF CvWaiterOK, Kind
<1>7. ASSUME NEW i \in 1..Len(queue'["sem"]) PROVE SemWaiterOK(queue["sem"][i], usr, done)'
  <2> DEFINE x == q[i]
  <2>1. CASE x = CallOf(u, 0) /\ Kind(u) = "acquire" /\ st \notin SemEarly /\ permits = 0
    <3>1. x[1] = u /\ x[2] = 0
      BY <2>1, CallFacts
    <3>2. usr'[u].stage = st /\ u \notin taken' /\ Kind(u)' = "acquire"
      BY <1>2, <2>1 DEF Goes, Kind
    <3> HIDE DEF x
    <3> QED
      BY <1>3, <2>1, <3>1, <3>2 DEF SemWaiterOK, x
  <2>2. CASE \E j \in 1..Len(queue["sem"]) : x = queue["sem"][j]
    <3>1. PICK j \in 1..Len(queue["sem"]) : x = queue["sem"][j]
      BY <2>2
    <3>2. x \in Calls /\ SemWaiterOK(x, usr, done) /\ queue'["sem"][i] = x
      BY <1>1, <1>3, <3>1, ElementOfSeq DEF SyncInv, Good
    <3>3. done[x] = "none" => permits = 0
      BY <1>1, <3>1 DEF SyncInv, Good, ActiveAt
    <3> HIDE DEF x
    <3>4. x[1] \in Users
      BY <3>2, CallFacts
    <3>5. usr[x[1]].stage \notin SemEarly /\ x[1] # u
      BY <3>2 DEF SemWaiterOK
    <3>6. usr'[x[1]] = usr[x[1]] /\ Kind(x[1])' = Kind(x[1])
      BY <1>2, <3>4, <3>5 DEF Goes, Kind
    <3>7. done'[x] = "none" => x[1] \notin taken'
      BY <3>2, <3>3 DEF SemWaiterOK
    <3> QED
      BY <3>2, <3>5, <3>6, <3>7 DEF SemWaiterOK
  <2> QED
    BY <1>3, <2>1, <2>2
<1>8. permits' > 0 => (ActiveAt(queue["sem"], done))' = {}
  <2> SUFFICES ASSUME permits' > 0, NEW i \in 1..Len(q), done[q[i]] = "none" PROVE FALSE
    BY <1>3 DEF ActiveAt
  <2>1. permits > 0
    BY <1>1
  <2>2. PICK j \in 1..Len(queue["sem"]) : q[i] = queue["sem"][j]
    BY <2>1
  <2>3. j \in ActiveAt(queue["sem"], done)
    BY <2>2 DEF ActiveAt
  <2> QED
    BY <2>1, <2>3 DEF SyncInv, Good
<1>9. Notified(usr, done)'
  <2>1. Coming(usr, done)' = Coming(usr, done)
    BY <1>2 DEF Goes, Coming, Kind
  <2>2. Notifiers(usr)' = Notifiers(usr)
    BY <1>2, <1>4 DEF Goes, Notifiers, SemEarly
  <2>3. Notified(usr, done)
    BY DEF SyncInv, Good
  <2> QED
    BY <1>3, <2>1, <2>2, <2>3 DEF Notified
<1>10. Good(usr, done)'
  BY <1>5, <1>6, <1>7, <1>8, <1>9 DEF Good
<1>11. permits' + Cardinality(taken') = issued' /\ permits' \in Nat /\ taken' \subseteq Users
  <2>1. IsFiniteSet(taken) /\ Cardinality(taken) \in Nat
    BY <1>1, FS_Subset, FS_CardinalityType, SyncAssumption
  <2>2. Cardinality(taken \cup {u}) = Cardinality(taken) + 1
    BY <2>1, FS_AddElement
  <2>3. permits + Cardinality(taken) = issued /\ issued' = issued
    BY DEF SyncInv
  <2>4. CASE permits > 0 /\ permits' = permits - 1 /\ taken' = taken \cup {u}
    <3>1. Cardinality(taken') = Cardinality(taken) + 1 /\ taken' \subseteq Users
      BY <1>1, <2>2, <2>4
    <3> QED
      BY <1>1, <2>1, <2>3, <2>4, <3>1
  <2>5. CASE permits' = permits /\ taken' = taken
    BY <1>1, <2>3, <2>5
  <2> QED
    BY <2>4, <2>5
<1>12. SyncTypeOK' /\ QueuedOnce' /\ ResumesDone'
  BY <1>2, <1>3, <1>11 DEF Goes, SyncInv, SyncTypeOK, QueuedOnce, ResumesDone
<1> QED
  BY <1>10, <1>11, <1>12 DEF SyncInv

\* await_ready and try_acquire take a permit or leave it.
LEMMA SemTakeSteps ==
    ASSUME SyncInv, NEW u \in Users, SemReady(u) \/ TryAcquire(u)
    PROVE  SyncInv'
<1> DEFINE q == PruneInactive(queue["sem"], done)
<1>1. q \in Seq(Calls) /\ SemQueueOf(u, "ended", q) /\ SemQueueOf(u, "ready", q)
  BY SemPruned DEF SemQueueOf
<1>2. /\ usr[u].stage = "new" /\ UserOK(u, usr, done) /\ permits \in Nat
      /\ queue' = [queue EXCEPT !["sem"] = q]
      /\ UNCHANGED <<vars, script, done, resumes, items, issued>>
      /\ Kind(u) \in {"acquire", "take"}
  BY DEF SyncInv, SyncTypeOK, Good, SemReady, TryAcquire, At
<1>3. u \notin taken /\ done[CallOf(u, 0)] = "none" /\ usr[u].stage \in SemEarly
  BY <1>2 DEF UserOK, SemEarly
<1>4. \/ usr' = GoTo(u, "ended") /\ SemCounts(u, "ended")
      \/ usr' = GoTo(u, "ready") /\ SemCounts(u, "ready")
  <2>1. CASE TakePermit(u)
    BY <1>2, <2>1 DEF TakePermit, SemCounts
  <2>2. CASE NoPermit(u, "ended")
    BY <1>2, <2>2 DEF NoPermit, SemCounts
  <2>3. CASE NoPermit(u, "ready") /\ Kind(u) = "acquire"
    BY <1>2, <2>3 DEF NoPermit, SemCounts
  <2> QED
    BY <2>1, <2>2, <2>3 DEF SemReady, TryAcquire
<1>5. "ended" \in Stages /\ "ready" \in Stages
  BY DEF Stages, SemEarly
<1>6. LockInv'
  BY <1>2, LockStutter DEF SyncInv
<1>7. UNCHANGED <<script, done, resumes, items, issued>>
  BY <1>2
<1>8. queue' = [queue EXCEPT !["sem"] = q] /\ Kind(u) \in {"acquire", "take"}
  BY <1>2
<1> HIDE DEF q
<1>9. CASE usr' = GoTo(u, "ended") /\ SemCounts(u, "ended")
  BY <1>1, <1>3, <1>5, <1>6, <1>7, <1>8, <1>9, SemMove
<1>10. CASE usr' = GoTo(u, "ready") /\ SemCounts(u, "ready")
  BY <1>1, <1>3, <1>5, <1>6, <1>7, <1>8, <1>10, SemMove
<1> QED
  BY <1>4, <1>9, <1>10

\* A user that finds no permit is queued.
LEMMA SemEnqueueStep ==
    ASSUME SyncInv, NEW u \in Users, SemEnqueue(u)
    PROVE  SyncInv'
<1> DEFINE q == PruneInactive(queue["sem"], done)
           w == CallOf(u, 0)
           q2 == Append(q, w)
<1>1. /\ q \in Seq(Calls) /\ Len(q) \in Nat
      /\ \A i \in 1..Len(q) : \E j \in 1..Len(queue["sem"]) : q[i] = queue["sem"][j]
      /\ \A i, j \in 1..Len(q) : q[i] = q[j] => i = j
  BY SemPruned
<1>2. /\ usr[u].stage = "queueing" /\ UserOK(u, usr, done) /\ permits \in Nat
      /\ queue["sem"] \in Seq(Calls)
      /\ UNCHANGED <<vars, script, done, resumes, items, issued>>
  BY DEF SyncInv, SyncTypeOK, Good, SemEnqueue, At
<1>3. /\ Kind(u) = "acquire" /\ usr[u].round = 0
      /\ u \notin taken /\ done[w] = "none" /\ usr[u].stage \in SemEarly
  BY <1>2 DEF UserOK, SemEarly
<1>4. "ended" \in Stages /\ "registering" \in Stages /\ "registering" \notin SemEarly
  BY DEF Stages, SemEarly, SemLate
<1>5. Waiter(u) = w /\ w \in Calls /\ w[1] = u
  BY <1>3, CallFacts DEF Waiter
<1>6. \/ TakePermit(u) /\ queue' = [queue EXCEPT !["sem"] = q]
      \/ NoPermit(u, "registering") /\ queue' = [queue EXCEPT !["sem"] = q2]
  BY <1>5 DEF SemEnqueue
<1>7. SemQueueOf(u, "ended", q) /\ q \in Seq(Calls)
  BY <1>1 DEF SemQueueOf
<1> HIDE DEF q, w
<1>8. permits = 0 => SemQueueOf(u, "registering", q2) /\ q2 \in Seq(Calls)
  <2>1. /\ q2 \in Seq(Calls) /\ Len(q2) = Len(q) + 1 /\ q2[Len(q) + 1] = w
        /\ \A i \in 1..Len(q) : q2[i] = q[i]
    BY <1>1, <1>5, AppendProperties
  <2>2. \A j \in 1..Len(queue["sem"]) : queue["sem"][j] # w
    <3> SUFFICES ASSUME NEW j \in 1..Len(queue["sem"]), queue["sem"][j] = w PROVE FALSE
      OBVIOUS
    <3>1. SemWaiterOK(w, usr, done)
      BY DEF SyncInv, Good
    <3> QED
      BY <1>3, <1>5, <3>1 DEF SemWaiterOK
  <2> HIDE DEF q2
  <2>3. \A i \in 1..Len(q) : q[i] # w
    BY <1>1, <2>2
  <2>4. \A i, j \in 1..Len(q2) : q2[i] = q2[j] => i = j
    BY <1>1, <2>1, <2>3
  <2>5. ASSUME NEW i \in 1..Len(q2)
        PROVE  (\E j \in 1..Len(queue["sem"]) : q2[i] = queue["sem"][j]) \/ q2[i] = w
    <3>1. i \in 1..Len(q) \/ i = Len(q) + 1
      BY <1>1, <2>1
    <3> QED
      BY <1>1, <2>1, <3>1
  <2> QED
    BY <1>3, <1>4, <2>1, <2>4, <2>5 DEF SemQueueOf, w
<1> HIDE DEF q2
<1>9. LockInv' /\ UNCHANGED <<script, done, resumes, items, issued>>
  BY <1>2, LockStutter DEF SyncInv
<1>10. CASE TakePermit(u) /\ queue' = [queue EXCEPT !["sem"] = q]
  <2>1. SemCounts(u, "ended") /\ usr' = GoTo(u, "ended")
    BY <1>10 DEF TakePermit, SemCounts
  <2> QED
    BY <1>2, <1>3, <1>4, <1>7, <1>10, <1>9, <2>1, SemMove DEF w
<1>11. CASE NoPermit(u, "registering") /\ queue' = [queue EXCEPT !["sem"] = q2]
  <2>1. SemCounts(u, "registering") /\ usr' = GoTo(u, "registering") /\ permits = 0
    BY <1>3, <1>11 DEF NoPermit, SemCounts
  <2> QED
    BY <1>2, <1>3, <1>4, <1>8, <1>11, <1>9, <2>1, SemMove DEF w
<1> QED
  BY <1>6, <1>10, <1>11

-----------------------------------------------------------------------------
(* The critical sections of notify and release *)

\* The waiters that they complete: the first n active ones.
Ready(q, n) ==
    LET active == ActiveOf(queue[q], done)
    IN  SubSeq(active, 1, IF n < Len(active) THEN n ELSE Len(active))

FirstActive(q, n, ready) ==
    /\ ready \in Seq(Calls) /\ Len(ready) \in Nat /\ Len(ready) <= n
    /\ \A i \in 1..Len(ready) : \E j \in ActiveAt(queue[q], done) : ready[i] = queue[q][j]
    /\ Len(ready) < n => \A j \in ActiveAt(queue[q], done) : InQueue(queue[q][j], ready)
    /\ ActiveAt(queue[q], done) # {} => Len(ready) > 0
    /\ (q = "sem") => \A i, j \in 1..Len(ready) : ready[i] = ready[j] => i = j

\* The waiters that release and notify take are the first that still wait.
LEMMA ReadyFacts ==
    ASSUME SyncInv, NEW q \in {"cv", "sem"}, NEW n \in Nat, n > 0
    PROVE  FirstActive(q, n, Ready(q, n))
<1> DEFINE ready == Ready(q, n)
           active == ActiveOf(queue[q], done)
           m == IF n < Len(active) THEN n ELSE Len(active)
<1>1. queue[q] \in Seq(Calls)
  BY DEF SyncInv, SyncTypeOK
<1>2. /\ active \in Seq(Calls) /\ Len(active) \in Nat
      /\ \A i \in 1..Len(active) : \E j \in ActiveAt(queue[q], done) : active[i] = queue[q][j]
      /\ \A j \in ActiveAt(queue[q], done) : \E i \in 1..Len(active) : active[i] = queue[q][j]
      /\ (\A i, j \in 1..Len(queue[q]) : queue[q][i] = queue[q][j] => i = j) =>
            \A i, j \in 1..Len(active) : active[i] = active[j] => i = j
  <2>1. active \in Seq(Calls) /\ Len(active) \in Nat
    BY <1>1, ActiveOfFacts
  <2>2. \A i \in 1..Len(active) : \E j \in ActiveAt(queue[q], done) : active[i] = queue[q][j]
    BY <1>1, ActiveOfFacts
  <2>3. \A j \in ActiveAt(queue[q], done) : \E i \in 1..Len(active) : active[i] = queue[q][j]
    BY <1>1, ActiveOfFacts
  <2>4. (\A i, j \in 1..Len(queue[q]) : queue[q][i] = queue[q][j] => i = j) =>
           \A i, j \in 1..Len(active) : active[i] = active[j] => i = j
    BY <1>1, ActiveOfFacts, Zenon
  <2> HIDE DEF active
  <2> QED
    BY <2>1, <2>2, <2>3, <2>4
<1>3. ready = SubSeq(active, 1, m)
  BY DEF Ready
<1> HIDE DEF active, ready
<1>4. m \in 0..Len(active) /\ m <= n /\ (m < n => m = Len(active)) /\ (Len(active) > 0 => m > 0)
  BY <1>2
<1> HIDE DEF m
<1>5. /\ ready \in Seq(Calls) /\ Len(ready) = m
      /\ \A i \in 1..m : ready[i] = active[i]
  <2>1. m \in Int /\ 1 \in Int /\ \A i \in 1..m : active[i] \in Calls
    BY <1>2, <1>4, ElementOfSeq
  <2>2. /\ SubSeq(active, 1, m) \in Seq(Calls)
        /\ Len(SubSeq(active, 1, m)) = IF 1 <= m THEN m - 1 + 1 ELSE 0
        /\ \A i \in 1..(m - 1 + 1) : SubSeq(active, 1, m)[i] = active[1 + i - 1]
    BY <2>1, SubSeqProperties
  <2> QED
    BY <1>2, <1>3, <1>4, <2>2
<1>6. 1..m \subseteq 1..Len(active)
  BY <1>2, <1>4
<1>7. ASSUME NEW i \in 1..Len(ready)
      PROVE  \E j \in ActiveAt(queue[q], done) : ready[i] = queue[q][j]
  <2>1. i \in 1..Len(active) /\ ready[i] = active[i]
    BY <1>5, <1>6
  <2>2. PICK j \in ActiveAt(queue[q], done) : active[i] = queue[q][j]
    BY <1>2, <2>1
  <2> QED
    BY <2>1, <2>2
<1>8. Len(ready) < n => \A j \in ActiveAt(queue[q], done) : InQueue(queue[q][j], ready)
  BY <1>2, <1>4, <1>5 DEF InQueue
<1>9. ActiveAt(queue[q], done) # {} => Len(ready) > 0
  BY <1>2, <1>4, <1>5
<1>10. (q = "sem") => \A i, j \in 1..Len(ready) : ready[i] = ready[j] => i = j
  <2> SUFFICES ASSUME q = "sem", NEW i \in 1..Len(ready), NEW j \in 1..Len(ready),
                      ready[i] = ready[j]
               PROVE  i = j
    OBVIOUS
  <2>1. \A h, k \in 1..Len(active) : active[h] = active[k] => h = k
    BY <1>2 DEF SyncInv, QueuedOnce
  <2>2. i \in 1..Len(active) /\ j \in 1..Len(active) /\ active[i] = active[j]
    BY <1>5, <1>6
  <2> QED
    BY <2>1, <2>2
<1> QED
  <2>1. ready \in Seq(Calls) /\ Len(ready) \in Nat /\ Len(ready) <= n
    BY <1>2, <1>4, <1>5
  <2>2. FirstActive(q, n, ready)
    BY <2>1, <1>7, <1>8, <1>9, <1>10 DEF FirstActive
  <2> QED
    BY <2>2 DEF ready

\* What a critical section leaves: a completed waiter was active, and the queue of
\* the others keeps its order.
Completed(u, q, ready) ==
    /\ done' \in [Calls -> Dones]
    /\ \A w \in Calls : \/ InQueue(w, ready) /\ done[w] = "none" /\ done'[w] = "completed"
                        \/ ~InQueue(w, ready) /\ done'[w] = done[w]
    /\ queue' \in [{"cv", "sem"} -> Seq(Calls)]
    /\ \A p \in {"cv", "sem"} \ {q} : queue'[p] = queue[p]
    /\ \A i \in 1..Len(queue'[q]) : \E j \in 1..Len(queue[q]) : queue'[q][i] = queue[q][j]
    /\ QueuedOnce'
    /\ usr' \in UsrType
    /\ usr'[u].stage = (IF ready = <<>> THEN "ended" ELSE "resuming")
    /\ usr'[u].ready = ready /\ usr'[u].round = usr[u].round
    /\ \A v \in Users \ {u} : usr'[v] = usr[v]

\* They are completed, and nobody else is.
LEMMA CompleteFacts ==
    ASSUME SyncInv, NEW u \in Users, NEW q \in {"cv", "sem"}, NEW n \in Nat, n > 0,
           Complete(u, q, n, "resuming")
    PROVE  Completed(u, q, Ready(q, n))
<1> DEFINE ready == Ready(q, n)
           now == [w \in Calls |-> IF InQueue(w, ready) THEN "completed" ELSE done[w]]
           next == IF ready = <<>> THEN "ended" ELSE "resuming"
           P == PruneInactive(queue[q], now)
<1>1. /\ done' = now /\ queue' = [queue EXCEPT ![q] = P]
      /\ usr' = [usr EXCEPT ![u].ready = ready, ![u].stage = next]
  BY DEF Complete, Ready
<1>2. /\ usr \in UsrType /\ queue \in [{"cv", "sem"} -> Seq(Calls)] /\ done \in [Calls -> Dones]
      /\ queue[q] \in Seq(Calls)
  BY DEF SyncInv, SyncTypeOK
<1>3. /\ ready \in Seq(Calls)
      /\ \A i \in 1..Len(ready) : \E j \in ActiveAt(queue[q], done) : ready[i] = queue[q][j]
  BY ReadyFacts DEF FirstActive
<1> HIDE DEF ready
<1>4. now \in [Calls -> Dones]
  BY <1>2 DEF Dones
<1>5. ASSUME NEW w \in Calls
      PROVE  \/ InQueue(w, ready) /\ done[w] = "none" /\ done'[w] = "completed"
             \/ ~InQueue(w, ready) /\ done'[w] = done[w]
  <2>1. InQueue(w, ready) => done[w] = "none"
    BY <1>3 DEF InQueue, ActiveAt
  <2> QED
    BY <1>1, <2>1
<1>6. /\ P \in Seq(Calls)
      /\ \A i \in 1..Len(P) : \E j \in 1..Len(queue[q]) : P[i] = queue[q][j]
  <2> HIDE DEF now
  <2> QED
    BY <1>2, PruneInactiveFacts
<1>7. q = "sem" => \A i, j \in 1..Len(P) : P[i] = P[j] => i = j
  <2> SUFFICES ASSUME q = "sem" PROVE \A i, j \in 1..Len(P) : P[i] = P[j] => i = j
    OBVIOUS
  <2>1. \A i, j \in 1..Len(queue[q]) : queue[q][i] = queue[q][j] => i = j
    BY DEF SyncInv, QueuedOnce
  <2> HIDE DEF now
  <2> QED
    BY <1>2, <2>1, PruneKeepsOnce
<1> HIDE DEF P, now
<1>8. /\ queue' \in [{"cv", "sem"} -> Seq(Calls)] /\ queue'[q] = P
      /\ \A p \in {"cv", "sem"} \ {q} : queue'[p] = queue[p]
  BY <1>1, <1>2, <1>6
<1>9. QueuedOnce'
  BY <1>7, <1>8 DEF SyncInv, QueuedOnce
<1>10. /\ usr' \in UsrType /\ usr'[u].stage = next
       /\ usr'[u].ready = ready /\ usr'[u].round = usr[u].round
       /\ \A v \in Users \ {u} : usr'[v] = usr[v]
  <2>1. next \in Stages /\ usr[u] \in [stage : Stages, on : Threads, round : 0..MaxWaits,
                                      ready : Seq(Calls), call : Calls]
    BY <1>2 DEF UsrType, Stages
  <2> HIDE DEF next
  <2> QED
    BY <1>1, <1>2, <1>3, <2>1 DEF UsrType
<1>11. done' \in [Calls -> Dones]
  BY <1>1, <1>4
<1>12. \A i \in 1..Len(queue'[q]) : \E j \in 1..Len(queue[q]) : queue'[q][i] = queue[q][j]
  BY <1>6, <1>8
<1>13. usr'[u].stage = (IF ready = <<>> THEN "ended" ELSE "resuming")
  BY <1>10
<1> HIDE DEF next
<1> QED
  BY <1>5, <1>8, <1>9, <1>10, <1>11, <1>12, <1>13 DEF Completed, ready

\* notify: as many consumers are on their way as before and one more, if somebody
\* waits, in the place of the notifier.
LEMMA NotifyStep ==
    ASSUME SyncInv, NEW u \in Users, Notify(u)
    PROVE  SyncInv'
<1> DEFINE n == script[u].n
           ready == Ready("cv", n)
<1>1. /\ usr[u].stage = "notifying" /\ Complete(u, "cv", n, "resuming")
      /\ UNCHANGED <<vars, script, resumes, items, issued, permits, taken>>
  BY DEF Notify, At, Complete
<1>2. UserOK(u, usr, done) /\ Kind(u) = "produce" /\ usr \in UsrType
  BY <1>1 DEF SyncInv, SyncTypeOK, Good, UserOK
<1>3. n \in Nat /\ n > 0
  BY <1>2, SyncAssumption DEF SyncInv, SyncTypeOK, Kind
<1> HIDE DEF n
<1>4. Completed(u, "cv", ready)
  BY <1>1, <1>3, CompleteFacts
<1>5. /\ ready \in Seq(Calls) /\ Len(ready) \in Nat
      /\ \A i \in 1..Len(ready) : \E j \in ActiveAt(queue["cv"], done) : ready[i] = queue["cv"][j]
      /\ ActiveAt(queue["cv"], done) # {} => Len(ready) > 0
  BY <1>3, ReadyFacts DEF FirstActive
<1> HIDE DEF ready
\* A completed waiter is the last wait of a consumer in the middle of it.
<1>6. ASSUME NEW w \in Calls, InQueue(w, ready)
      PROVE  /\ w[1] \in Users /\ w[1] # u /\ Kind(w[1]) = "consume" /\ w[2] > 0
             /\ w[2] = usr[w[1]].round /\ w = CallOf(w[1], usr[w[1]].round)
             /\ usr[w[1]].stage \in CvStages \cup {"suspended"}
             /\ done[w] = "none" /\ done'[w] = "completed"
  <2>1. PICK j \in ActiveAt(queue["cv"], done) : w = queue["cv"][j]
    BY <1>5, <1>6 DEF InQueue
  <2>2. CvWaiterOK(w, usr, done) /\ done[w] = "none"
    BY <2>1 DEF ActiveAt, SyncInv, Good
  <2>3. w[1] \in Users /\ w = CallOf(w[1], w[2])
    BY CallFacts
  <2>4. usr[w[1]].round \in Nat
    BY <1>2, <2>3, SyncAssumption DEF UsrType
  <2> QED
    BY <1>2, <1>4, <1>6, <2>2, <2>3, <2>4 DEF CvWaiterOK, Completed
<1>7. ASSUME NEW w \in Calls
      PROVE  /\ done[w] # "none" => done'[w] = done[w]
             /\ done'[w] = "none" => done[w] = "none"
             /\ w[2] = 0 => done'[w] = done[w]
  BY <1>4, <1>6 DEF Completed
<1>8. ASSUME NEW v \in Users PROVE UserOK(v, usr, done)'
  <2>1. UserOK(v, usr, done) /\ Kind(v)' = Kind(v)
    BY <1>1 DEF SyncInv, Good, Kind
  <2>2. done'[CallOf(v, 0)] = done[CallOf(v, 0)]
    BY <1>7, CallFacts
  <2>3. CASE v = u
    <3>1. \A i \in 1..Len(ready) : done'[ready[i]] # "none"
      <4> SUFFICES ASSUME NEW i \in 1..Len(ready) PROVE done'[ready[i]] # "none"
        OBVIOUS
      <4>1. ready[i] \in Calls /\ InQueue(ready[i], ready)
        BY <1>5, ElementOfSeq DEF InQueue
      <4> QED
        BY <1>6, <4>1
    <3>2. usr'[u].stage \in {"ended", "resuming"} /\ (usr'[u].stage = "resuming" => ready # <<>>)
      BY <1>4 DEF Completed
    <3> QED
      BY <1>1, <1>2, <1>4, <2>1, <2>2, <2>3, <3>1, <3>2
         DEF Completed, UserOK, CvStages, SemEarly, SemLate
  <2>4. CASE v # u
    <3>1. usr'[v] = usr[v]
      BY <1>4, <2>4 DEF Completed
    <3>2. \A i \in 1..Len(usr[v].ready) : usr[v].ready[i] \in Calls
      BY <1>2, ElementOfSeq DEF UsrType
    <3>3. \A i \in 1..Len(usr[v].ready) : done'[usr[v].ready[i]] # "none"
      BY <1>7, <2>1, <3>2 DEF UserOK
    <3> QED
      BY <1>1, <2>1, <2>2, <3>1, <3>3 DEF UserOK
  <2> QED
    BY <2>3, <2>4
<1>9. ASSUME NEW i \in 1..Len(queue'["cv"]) PROVE CvWaiterOK(queue["cv"][i], usr, done)'
  <2>1. PICK j \in 1..Len(queue["cv"]) : queue'["cv"][i] = queue["cv"][j]
    BY <1>4 DEF Completed
  <2>2. PICK x \in Calls : queue'["cv"][i] = x /\ CvWaiterOK(x, usr, done)
    BY <2>1, ElementOfSeq DEF SyncInv, SyncTypeOK, Good
  <2>3. x[1] \in Users \ {u}
    BY <1>2, <2>2, CallFacts DEF CvWaiterOK
  <2>4. usr'[x[1]] = usr[x[1]] /\ Kind(x[1])' = Kind(x[1])
    BY <1>1, <1>4, <2>3 DEF Completed, Kind
  <2> QED
    BY <1>7, <2>2, <2>4 DEF CvWaiterOK
<1>10. ASSUME NEW i \in 1..Len(queue'["sem"]) PROVE SemWaiterOK(queue["sem"][i], usr, done)'
  <2>1. PICK x \in Calls : queue'["sem"][i] = x /\ SemWaiterOK(x, usr, done)
    BY <1>4, ElementOfSeq DEF Completed, SyncInv, SyncTypeOK, Good
  <2>2. x[1] \in Users \ {u}
    BY <1>2, <2>1, CallFacts DEF SemWaiterOK
  <2>3. usr'[x[1]] = usr[x[1]] /\ Kind(x[1])' = Kind(x[1]) /\ taken' = taken
    BY <1>1, <1>4, <2>2 DEF Completed, Kind
  <2> QED
    BY <1>7, <2>1, <2>3 DEF SemWaiterOK
<1>11. permits' > 0 => (ActiveAt(queue["sem"], done))' = {}
  <2>1. queue'["sem"] = queue["sem"] /\ \A i \in 1..Len(queue["sem"]) : queue["sem"][i] \in Calls
    BY <1>4, ElementOfSeq DEF Completed, SyncInv, SyncTypeOK
  <2> QED
    BY <1>1, <1>7, <2>1 DEF SyncInv, Good, ActiveAt
<1>12. Notified(usr, done)'
  <2> SUFFICES ASSUME NEW i \in 1..Len(queue'["cv"]), done'[queue'["cv"][i]] = "none"
               PROVE  items <= Cardinality(Coming(usr, done)') + Cardinality(Notifiers(usr)')
    BY <1>1 DEF Notified
  <2>1. PICK j \in 1..Len(queue["cv"]) : queue'["cv"][i] = queue["cv"][j]
    BY <1>4 DEF Completed
  <2>2. queue["cv"][j] \in Calls
    BY ElementOfSeq DEF SyncInv, SyncTypeOK
  <2>3. done[queue["cv"][j]] = "none"
    BY <1>7, <2>1, <2>2
  <2>4. items <= Cardinality(Coming(usr, done)) + Cardinality(Notifiers(usr)) /\ items \in Nat
    BY <2>3 DEF SyncInv, SyncTypeOK, Good, Notified
  <2>5. 1 \in 1..Len(ready)
    BY <1>5, <2>3 DEF ActiveAt
  <2> DEFINE w == ready[1]
  <2>6. w \in Calls /\ InQueue(w, ready)
    BY <1>5, <2>5, ElementOfSeq DEF InQueue
  <2> HIDE DEF w
  <2>7. /\ w[1] \in Users \ {u} /\ Kind(w[1]) = "consume" /\ usr[w[1]].round > 0
        /\ usr[w[1]].stage # "ended"
        /\ done[CallOf(w[1], usr[w[1]].round)] = "none"
        /\ done'[CallOf(w[1], usr[w[1]].round)] = "completed"
    BY <1>6, <2>6 DEF CvStages
  <2>8. w[1] \notin Coming(usr, done) /\ w[1] \in Coming(usr, done)'
    BY <1>1, <1>4, <2>7 DEF Coming, Completed, Kind
  <2>9. Coming(usr, done) \subseteq Coming(usr, done)'
    <3> SUFFICES ASSUME NEW v \in Coming(usr, done) PROVE v \in Coming(usr, done)'
      OBVIOUS
    <3>1. /\ v \in Users /\ Kind(v) = "consume" /\ usr[v].round > 0 /\ usr[v].stage # "ended"
          /\ done[CallOf(v, usr[v].round)] = "completed"
      BY DEF Coming
    <3>2. usr'[v] = usr[v] /\ usr[v].round \in 0..MaxWaits
      BY <1>2, <1>4, <3>1 DEF Completed, UsrType
    <3>3. CallOf(v, usr[v].round) \in Calls
      BY <3>1, <3>2, CallFacts
    <3>4. done'[CallOf(v, usr[v].round)] = "completed"
      BY <1>7, <3>1, <3>3
    <3> QED
      BY <1>1, <3>1, <3>2, <3>4 DEF Coming, Kind
  <2>10. Notifiers(usr)' = Notifiers(usr) \ {u} /\ u \in Notifiers(usr)
    <3>1. usr'[u].stage # "notifying"
      BY <1>4 DEF Completed
    <3> QED
      BY <1>1, <1>4, <3>1 DEF Notifiers, Completed
  <2>11. /\ IsFiniteSet(Coming(usr, done)) /\ IsFiniteSet(Coming(usr, done)')
         /\ IsFiniteSet(Notifiers(usr))
    <3>1. /\ Coming(usr, done) \subseteq Users /\ Coming(usr, done)' \subseteq Users
          /\ Notifiers(usr) \subseteq Users
      BY DEF Coming, Notifiers
    <3> QED
      BY <3>1, FS_Subset, SyncAssumption
  <2>12. Cardinality(Coming(usr, done)) + 1 <= Cardinality(Coming(usr, done)')
    <3>1. Coming(usr, done) \cup {w[1]} \subseteq Coming(usr, done)'
      BY <2>8, <2>9
    <3>2. Cardinality(Coming(usr, done) \cup {w[1]}) = Cardinality(Coming(usr, done)) + 1
      BY <2>8, <2>11, FS_AddElement
    <3> QED
      BY <2>11, <3>1, <3>2, FS_Subset
  <2>13. Cardinality(Notifiers(usr)') = Cardinality(Notifiers(usr)) - 1
    BY <2>10, <2>11, FS_RemoveElement
  <2>14. /\ Cardinality(Coming(usr, done)) \in Nat /\ Cardinality(Coming(usr, done)') \in Nat
         /\ Cardinality(Notifiers(usr)) \in Nat
    BY <2>11, FS_CardinalityType
  <2> QED
    BY <2>4, <2>12, <2>13, <2>14
<1>13. Good(usr, done)'
  BY <1>8, <1>9, <1>10, <1>11, <1>12 DEF Good
<1>14. SyncTypeOK' /\ QueuedOnce' /\ ResumesDone'
  <2>1. SyncTypeOK' /\ QueuedOnce'
    BY <1>1, <1>4 DEF Completed, SyncInv, SyncTypeOK
  <2>2. resumes \in Seq(Calls) /\ \A i \in 1..Len(resumes) : resumes[i] \in Calls
    BY ElementOfSeq DEF SyncInv, SyncTypeOK
  <2>3. ResumesDone'
    BY <1>1, <1>7, <2>2 DEF SyncInv, ResumesDone
  <2> QED
    BY <2>1, <2>3
<1>15. LockInv'
  BY <1>1, LockStutter DEF SyncInv
<1> QED
  BY <1>1, <1>13, <1>14, <1>15 DEF SyncInv

\* As many users as a sequence of waiters without repetition has, one each.
LEMMA OneUserEach ==
    ASSUME NEW s \in Seq(Calls), \A i \in 1..Len(s) : s[i][2] = 0,
           \A i, j \in 1..Len(s) : s[i] = s[j] => i = j
    PROVE  /\ IsFiniteSet({UserOf(s[i]) : i \in 1..Len(s)})
           /\ Cardinality({UserOf(s[i]) : i \in 1..Len(s)}) = Len(s)
<1> DEFINE W == {UserOf(s[i]) : i \in 1..Len(s)}
           f == [i \in 1..Len(s) |-> UserOf(s[i])]
<1>1. Len(s) \in Nat /\ \A i \in 1..Len(s) : s[i] \in Calls
  BY ElementOfSeq, LenProperties
<1>2. ASSUME NEW i \in 1..Len(s), NEW j \in 1..Len(s), f[i] = f[j] PROVE i = j
  <2>1. s[i] = CallOf(s[i][1], 0) /\ s[j] = CallOf(s[j][1], 0) /\ s[i][1] = s[j][1]
    BY <1>1, <1>2, CallFacts DEF UserOf
  <2> QED
    BY <2>1
<1>3. f \in Bijection(1..Len(s), W)
  <2>1. f \in [1..Len(s) -> W]
    OBVIOUS
  <2>2. \A x \in W : \E i \in 1..Len(s) : f[i] = x
    OBVIOUS
  <2> HIDE DEF f, W
  <2> QED
    BY <1>2, <2>1, <2>2 DEF Bijection, Injection, Surjection, IsInjective
<1>4. IsFiniteSet(1..Len(s)) /\ Cardinality(1..Len(s)) = Len(s)
  <2>1. 1 \in Int /\ Len(s) \in Int
    BY <1>1
  <2>2. /\ IsFiniteSet(1..Len(s))
        /\ Cardinality(1..Len(s)) = IF 1 > Len(s) THEN 0 ELSE Len(s) - 1 + 1
    BY <2>1, FS_Interval
  <2> QED
    BY <1>1, <2>2
<1> HIDE DEF f, W
<1>5. IsFiniteSet(W) /\ Cardinality(W) = Len(s)
  <2>1. ExistsBijection(1..Len(s), W)
    BY <1>3 DEF ExistsBijection
  <2> QED
    BY <1>4, <2>1, FS_Bijection
<1> QED
  BY <1>5 DEF W

\* release: each completed waiter takes one of the new permits, the rest go to
\* permits_, and then nobody waits.
LEMMA ReleaseStep ==
    ASSUME SyncInv, NEW u \in Users, Release(u)
    PROVE  SyncInv'
<1> DEFINE n == script[u].n
           ready == Ready("sem", n)
           won == {UserOf(ready[i]) : i \in 1..Len(ready)}
<1>1. /\ usr[u].stage = "new" /\ Kind(u) = "release" /\ Complete(u, "sem", n, "resuming")
      /\ issued' = issued + n
      /\ permits' = permits + (n - Len(ready)) /\ taken' = taken \cup won
      /\ UNCHANGED <<vars, script, resumes, items>>
  BY DEF Release, At, Complete, Ready
<1>2. /\ UserOK(u, usr, done) /\ usr \in UsrType /\ permits \in Nat /\ issued \in Nat
      /\ taken \subseteq Users
  BY DEF SyncInv, SyncTypeOK, Good
<1>3. n \in Nat /\ n > 0
  BY <1>1, SyncAssumption DEF SyncInv, SyncTypeOK, Kind
<1> HIDE DEF n
<1>4. Completed(u, "sem", ready)
  BY <1>1, <1>3, CompleteFacts
<1>5. FirstActive("sem", n, ready)
  BY <1>3, ReadyFacts
<1> HIDE DEF ready
<1>6. ready \in Seq(Calls) /\ Len(ready) \in Nat /\ Len(ready) <= n
  BY <1>5 DEF FirstActive
\* A completed waiter is the one of an acquire that waits, and so has no permit.
<1>7. ASSUME NEW w \in Calls, InQueue(w, ready)
      PROVE  /\ w[1] \in Users \ {u} /\ Kind(w[1]) = "acquire" /\ w[2] = 0
             /\ w = CallOf(w[1], 0) /\ w[1] \notin taken
             /\ usr[w[1]].stage \notin SemEarly
             /\ done[w] = "none" /\ done'[w] = "completed"
  <2>1. PICK j \in ActiveAt(queue["sem"], done) : w = queue["sem"][j]
    BY <1>5, <1>7 DEF InQueue, FirstActive
  <2>2. SemWaiterOK(w, usr, done) /\ done[w] = "none"
    BY <2>1 DEF ActiveAt, SyncInv, Good
  <2>3. w[1] \in Users /\ w = CallOf(w[1], w[2])
    BY CallFacts
  <2>4. done'[w] = "completed"
    BY <1>4, <1>7 DEF Completed
  <2> QED
    BY <1>1, <2>2, <2>3, <2>4 DEF SemWaiterOK
<1>8. ASSUME NEW v \in Users PROVE v \in won <=> InQueue(CallOf(v, 0), ready)
  <2>1. ASSUME v \in won PROVE InQueue(CallOf(v, 0), ready)
    <3>1. PICK i \in 1..Len(ready) : v = UserOf(ready[i])
      BY <2>1
    <3>2. ready[i] \in Calls /\ InQueue(ready[i], ready)
      BY <1>6, ElementOfSeq DEF InQueue
    <3> QED
      BY <1>7, <3>1, <3>2 DEF UserOf
  <2>2. ASSUME InQueue(CallOf(v, 0), ready) PROVE v \in won
    <3>1. PICK i \in 1..Len(ready) : ready[i] = CallOf(v, 0)
      BY <2>2 DEF InQueue
    <3>2. UserOf(ready[i]) = v
      BY <3>1, CallFacts DEF UserOf
    <3> QED
      BY <3>2
  <2> QED
    BY <2>1, <2>2
<1>9. IsFiniteSet(won) /\ Cardinality(won) = Len(ready)
  <2>1. ASSUME NEW i \in 1..Len(ready) PROVE ready[i][2] = 0
    <3>1. ready[i] \in Calls /\ InQueue(ready[i], ready)
      BY <1>6, ElementOfSeq DEF InQueue
    <3> QED
      BY <1>7, <3>1
  <2>2. \A i, j \in 1..Len(ready) : ready[i] = ready[j] => i = j
    BY <1>5 DEF FirstActive
  <2> QED
    BY <1>6, <2>1, <2>2, OneUserEach
<1>10. won \subseteq Users /\ won \cap taken = {}
  <2>1. \A i \in 1..Len(ready) : ready[i] \in Calls /\ InQueue(ready[i], ready)
    BY <1>6, ElementOfSeq DEF InQueue
  <2> QED
    BY <1>7, <2>1 DEF UserOf
<1> HIDE DEF won
<1>11. ASSUME NEW w \in Calls
       PROVE  /\ done[w] # "none" => done'[w] = done[w]
              /\ done'[w] = "none" => done[w] = "none" /\ ~InQueue(w, ready)
              /\ (~InQueue(w, ready)) => done'[w] = done[w]
  BY <1>4, <1>7 DEF Completed
<1>12. ASSUME NEW v \in Users PROVE UserOK(v, usr, done)'
  <2> DEFINE w == CallOf(v, 0)
  <2>1. UserOK(v, usr, done) /\ Kind(v)' = Kind(v) /\ w \in Calls /\ w[1] = v
    BY <1>1, CallFacts DEF SyncInv, Good, Kind
  <2> HIDE DEF w
  <2>2. \/ v \in won /\ v \in taken' /\ v # u /\ Kind(v) = "acquire" /\ usr[v].stage \notin SemEarly
              /\ done'[w] = "completed"
        \/ v \notin won /\ (v \in taken' <=> v \in taken) /\ done'[w] = done[w]
    BY <1>1, <1>7, <1>8, <1>11, <2>1 DEF w
  <2>3. CASE v = u
    <3>1. v \notin won /\ v \notin taken' /\ done'[w] = "none"
      BY <1>1, <2>1, <2>2, <2>3 DEF UserOK, w
    <3>2. \A i \in 1..Len(ready) : done'[ready[i]] # "none"
      <4> SUFFICES ASSUME NEW i \in 1..Len(ready) PROVE done'[ready[i]] # "none"
        OBVIOUS
      <4>1. ready[i] \in Calls /\ InQueue(ready[i], ready)
        BY <1>6, ElementOfSeq DEF InQueue
      <4> QED
        BY <1>7, <4>1
    <3>3. usr'[u].stage \in {"ended", "resuming"} /\ (usr'[u].stage = "resuming" => ready # <<>>)
      BY <1>4 DEF Completed
    <3> QED
      BY <1>1, <1>2, <1>4, <2>1, <2>3, <3>1, <3>2, <3>3
         DEF Completed, UserOK, CvStages, SemEarly, SemLate, w
  <2>4. CASE v # u
    <3>1. usr'[v] = usr[v]
      BY <1>4, <2>4 DEF Completed
    <3>2. \A i \in 1..Len(usr[v].ready) : usr[v].ready[i] \in Calls
      BY <1>2, ElementOfSeq DEF UsrType
    <3>3. \A i \in 1..Len(usr[v].ready) : done'[usr[v].ready[i]] # "none"
      BY <1>11, <2>1, <3>2 DEF UserOK
    <3>4. CASE v \in won
      <4>1. /\ usr[v].stage \notin SemEarly /\ done'[w] = "completed" /\ Kind(v) = "acquire"
        BY <2>2, <3>4
      <4> QED
        BY <2>1, <3>1, <3>3, <4>1 DEF UserOK, SemEarly, w
    <3>5. CASE v \notin won
      <4>1. (v \in taken' <=> v \in taken) /\ done'[w] = done[w]
        BY <2>2, <3>5
      <4> QED
        BY <2>1, <3>1, <3>3, <4>1 DEF UserOK, w
    <3> QED
      BY <3>4, <3>5
  <2> QED
    BY <2>3, <2>4
<1>13. ASSUME NEW i \in 1..Len(queue'["cv"]) PROVE CvWaiterOK(queue["cv"][i], usr, done)'
  <2>1. PICK x \in Calls : queue'["cv"][i] = x /\ CvWaiterOK(x, usr, done)
    BY <1>4, ElementOfSeq DEF Completed, SyncInv, SyncTypeOK, Good
  <2>2. x[1] \in Users \ {u}
    BY <1>1, <2>1, CallFacts DEF CvWaiterOK
  <2>3. usr'[x[1]] = usr[x[1]] /\ Kind(x[1])' = Kind(x[1])
    BY <1>1, <1>4, <2>2 DEF Completed, Kind
  <2> QED
    BY <1>11, <2>1, <2>3 DEF CvWaiterOK
<1>14. ASSUME NEW i \in 1..Len(queue'["sem"]) PROVE SemWaiterOK(queue["sem"][i], usr, done)'
  <2>1. PICK j \in 1..Len(queue["sem"]) : queue'["sem"][i] = queue["sem"][j]
    BY <1>4 DEF Completed
  <2>2. PICK x \in Calls : queue'["sem"][i] = x /\ SemWaiterOK(x, usr, done)
    BY <2>1, ElementOfSeq DEF SyncInv, SyncTypeOK, Good
  <2>3. x[1] \in Users \ {u} /\ x = CallOf(x[1], 0) /\ x[2] = 0
    BY <1>1, <2>2, CallFacts DEF SemWaiterOK
  <2>4. usr'[x[1]] = usr[x[1]] /\ Kind(x[1])' = Kind(x[1])
    BY <1>1, <1>4, <2>3 DEF Completed, Kind
  <2>5. done'[x] = "none" => x[1] \notin taken'
    BY <1>1, <1>8, <1>11, <2>2, <2>3 DEF SemWaiterOK
  <2> QED
    BY <2>2, <2>4, <2>5 DEF SemWaiterOK
<1>15. permits' > 0 => (ActiveAt(queue["sem"], done))' = {}
  <2> SUFFICES ASSUME permits' > 0, NEW i \in 1..Len(queue'["sem"]),
                      done'[queue'["sem"][i]] = "none"
               PROVE  FALSE
    BY DEF ActiveAt
  <2>1. PICK j \in 1..Len(queue["sem"]) : queue'["sem"][i] = queue["sem"][j]
    BY <1>4 DEF Completed
  <2>2. queue["sem"][j] \in Calls
    BY ElementOfSeq DEF SyncInv, SyncTypeOK
  <2>3. done[queue["sem"][j]] = "none" /\ ~InQueue(queue["sem"][j], ready)
    BY <1>11, <2>1, <2>2
  <2>4. j \in ActiveAt(queue["sem"], done)
    BY <2>3 DEF ActiveAt
  <2>5. permits = 0
    BY <1>2, <2>4 DEF SyncInv, Good
  <2>6. Len(ready) < n
    BY <1>1, <1>3, <1>6, <2>5
  <2> QED
    BY <1>5, <2>3, <2>4, <2>6 DEF FirstActive
<1>16. Notified(usr, done)'
  <2>1. Coming(usr, done) \subseteq Coming(usr, done)'
    <3> SUFFICES ASSUME NEW v \in Coming(usr, done) PROVE v \in Coming(usr, done)'
      OBVIOUS
    <3>1. /\ v \in Users /\ Kind(v) = "consume" /\ usr[v].round > 0 /\ usr[v].stage # "ended"
          /\ done[CallOf(v, usr[v].round)] = "completed"
      BY DEF Coming
    <3>2. usr'[v] = usr[v] /\ usr[v].round \in 0..MaxWaits
      BY <1>1, <1>2, <1>4, <3>1 DEF Completed, UsrType
    <3>3. CallOf(v, usr[v].round) \in Calls
      BY <3>1, <3>2, CallFacts
    <3>4. done'[CallOf(v, usr[v].round)] = "completed"
      BY <1>11, <3>1, <3>3
    <3> QED
      BY <1>1, <3>1, <3>2, <3>4 DEF Coming, Kind
  <2>2. Notifiers(usr) \subseteq Notifiers(usr)'
    BY <1>1, <1>4 DEF Notifiers, Completed
  <2>3. /\ queue'["cv"] = queue["cv"]
        /\ \A i \in 1..Len(queue["cv"]) :
              done'[queue["cv"][i]] = "none" => done[queue["cv"][i]] = "none"
    <3>1. \A i \in 1..Len(queue["cv"]) : queue["cv"][i] \in Calls
      BY ElementOfSeq DEF SyncInv, SyncTypeOK
    <3> QED
      BY <1>4, <1>11, <3>1 DEF Completed
  <2>4. Notified(usr', done')
    <3>1. Coming(usr, done) \subseteq Coming(usr', done') /\ Notifiers(usr) \subseteq Notifiers(usr')
      BY <1>1, <2>1, <2>2 DEF Coming, Notifiers, Kind
    <3> QED
      BY <2>3, <3>1, NotifiedGrows DEF SyncInv, SyncTypeOK, Good
  <2> QED
    BY <1>1, <2>3, <2>4 DEF Notified, Coming, Notifiers, Kind
<1>17. Good(usr, done)'
  BY <1>12, <1>13, <1>14, <1>15, <1>16 DEF Good
<1>18. permits' + Cardinality(taken') = issued' /\ permits' \in Nat /\ issued' \in Nat
  <2>1. IsFiniteSet(taken) /\ Cardinality(taken) \in Nat
    BY <1>2, FS_Subset, FS_CardinalityType, SyncAssumption
  <2>2. Cardinality(taken') = Cardinality(taken) + Len(ready)
    <3>1. won \cap taken = {}
      BY <1>10
    <3>2. Cardinality(taken \cup won) = Cardinality(taken) + Cardinality(won) - Cardinality(taken \cap won)
      BY <1>9, <2>1, FS_Union
    <3>3. Cardinality(taken \cap won) = 0
      <4>1. taken \cap won = {}
        BY <3>1
      <4> QED
        BY <4>1, FS_EmptySet
    <3> QED
      BY <1>1, <1>6, <1>9, <2>1, <3>2, <3>3
  <2>3. permits + Cardinality(taken) = issued
    BY DEF SyncInv
  <2> QED
    BY <1>1, <1>2, <1>3, <1>6, <2>1, <2>2, <2>3
<1>19. SyncTypeOK' /\ QueuedOnce' /\ ResumesDone'
  <2>1. SyncTypeOK' /\ QueuedOnce'
    BY <1>1, <1>2, <1>4, <1>10, <1>18 DEF Completed, SyncInv, SyncTypeOK
  <2>2. resumes \in Seq(Calls) /\ \A i \in 1..Len(resumes) : resumes[i] \in Calls
    BY ElementOfSeq DEF SyncInv, SyncTypeOK
  <2>3. ResumesDone'
    BY <1>1, <1>11, <2>2 DEF SyncInv, ResumesDone
  <2> QED
    BY <2>1, <2>3
<1>20. LockInv'
  BY <1>1, LockStutter DEF SyncInv
<1> QED
  BY <1>17, <1>18, <1>19, <1>20 DEF SyncInv

-----------------------------------------------------------------------------
(* The theorems *)

\* The invariant holds at the start.
LEMMA SyncStart == SyncInit => SyncInv
<1> SUFFICES ASSUME SyncInit PROVE SyncInv
  OBVIOUS
<1>1. LockInv
  BY InitLock DEF SyncInit
<1>2. /\ script \in Scenarios /\ queue = [q \in {"cv", "sem"} |-> <<>>]
      /\ done = [w \in Calls |-> "none"] /\ resumes = <<>>
      /\ items = 0 /\ permits = Permits /\ issued = Permits /\ taken = {}
      /\ usr = [u \in Users |-> [stage |-> "new", on |-> script[u].home, round |-> 0,
                                 ready |-> <<>>, call |-> CallOf(u, 0)]]
  BY DEF SyncInit
<1>3. Permits \in Nat /\ MaxWaits \in Nat
  BY SyncAssumption
<1>4. \A s \in {<<>>} : s \in Seq(Calls) /\ Len(s) = 0
  OBVIOUS
<1>5. ASSUME NEW u \in Users
      PROVE  /\ usr[u].stage = "new" /\ usr[u].round = 0 /\ usr[u].ready = <<>>
             /\ usr[u] \in [stage : Stages, on : Threads, round : 0..MaxWaits,
                            ready : Seq(Calls), call : Calls]
             /\ CallOf(u, 0) \in Calls
  <2>1. script[u].home \in Threads
    BY <1>2, SyncAssumption
  <2>2. CallOf(u, 0) \in Calls
    BY CallFacts
  <2> QED
    BY <1>2, <1>3, <1>4, <2>1, <2>2 DEF Stages, SemEarly
<1>6. SyncTypeOK
  <2>1. usr \in UsrType
    BY <1>2, <1>5 DEF UsrType
  <2> QED
    BY <1>2, <1>3, <1>4, <2>1 DEF SyncTypeOK, Dones
<1>7. QueuedOnce /\ ResumesDone
  BY <1>2, <1>4 DEF QueuedOnce, ResumesDone
<1>8. \A u \in Users : UserOK(u, usr, done)
  BY <1>2, <1>4, <1>5 DEF UserOK, CvStages, SemEarly, SemLate
<1>9. /\ \A i \in 1..Len(queue["cv"]) : FALSE
      /\ \A i \in 1..Len(queue["sem"]) : FALSE
  BY <1>2, <1>4
<1>10. Good(usr, done)
  BY <1>8, <1>9 DEF Good, ActiveAt, Notified
<1>11. permits + Cardinality(taken) = issued
  BY <1>2, <1>3, FS_EmptySet
<1> QED
  BY <1>1, <1>6, <1>7, <1>10, <1>11 DEF SyncInv

\* Every step keeps it.
LEMMA SyncStep ==
    ASSUME SyncInv, [SyncNext]_allVars
    PROVE  SyncInv'
<1>1. ASSUME NEW u \in Users, Continue(u) PROVE SyncInv'
  <2>1. CASE LockStep(u)
    <3>1. usr[u].call \in Calls
      BY DEF SyncInv, SyncTypeOK, UsrType
    <3> QED
      BY <2>1, <3>1, MutexSteps DEF LockStep, Next
  <2>2. CASE LetGo(u) \/ Consume(u) \/ Produce(u)
    BY <2>2, LetGoStep, ConsumeStep, ProduceStep
  <2>3. CASE CvPush(u) \/ CvUnlock(u) \/ CvRelock(u) \/ Notify(u) \/ ResumeReady(u)
    BY <2>3, CvPushStep, CvUnlockStep, CvRelockStep, NotifyStep, ResumeReadyStep
  <2>4. CASE CvRegister(u) \/ SemRegister(u)
    BY <2>4, RegisterSteps
  <2>5. CASE CvReady(u) \/ CvArm(u) \/ CvDecide(u) \/ SemDecide(u)
    BY <2>5, QuietSteps
  <2>6. CASE SemCheckStop(u) \/ SemEnqueue(u)
    BY <2>6, SemCheckStopStep, SemEnqueueStep
  <2> QED
    BY <1>1, <2>1, <2>2, <2>3, <2>4, <2>5, <2>6 DEF Continue
<1>2. ASSUME NEW u \in Users, FirstLock(u) \/ SemReady(u) \/ TryAcquire(u) \/ Release(u)
      PROVE  SyncInv'
  BY <1>2, FirstLockStep, SemTakeSteps, ReleaseStep
<1>3. ASSUME NEW u \in Users, NEW t \in Threads, Halt(u, t) \/ HaltLock(u, t) PROVE SyncInv'
  <2>1. CASE Halt(u, t)
    BY <2>1, HaltStep
  <2>2. CASE HaltLock(u, t)
    <3>1. usr[u].call \in Calls
      BY DEF SyncInv, SyncTypeOK, UsrType
    <3> QED
      BY <2>2, <3>1, MutexSteps DEF HaltLock, Next
  <2> QED
    BY <1>3, <2>1, <2>2
<1>4. ASSUME RunLoop PROVE SyncInv'
  BY <1>4, MutexSteps, RunResumeStep DEF RunLoop, Next
<1>5. ASSUME UNCHANGED allVars PROVE SyncInv'
  <2>1. UNCHANGED vars /\ UNCHANGED syncVars
    BY <1>5 DEF allVars
  <2>2. LockInv'
    BY <2>1, LockStutter DEF SyncInv
  <2>3. UNCHANGED <<script, usr, queue, done, resumes, items, permits, issued, taken>>
    BY <2>1 DEF syncVars, shared, program
  <2>4. Good(usr', done') /\ ResumesDone'
    BY <2>3 DEF SyncInv, ResumesDone
  <2> QED
    BY <2>2, <2>3, <2>4, QuietSync DEF SyncInv, SyncTypeOK
<1> QED
  BY <1>1, <1>2, <1>3, <1>4, <1>5 DEF SyncNext

\* Whatever threads lock, wait, notify, acquire, release and stop, and in whatever
\* order: the mutex, the condition variable and the semaphore keep SyncInv.
THEOREM SyncInvariant == SyncSpec => []SyncInv
<1>1. SyncInv /\ [SyncNext]_allVars => SyncInv'
  BY SyncStep
<1> QED
  BY <1>1, SyncStart, PTL DEF SyncSpec

\* No notification is lost: while a wait is active, every item has a consumer on
\* its way to it or a producer about to notify.
THEOREM NotificationsKept == SyncSpec => []NoLostNotification
<1>1. SyncInv => NoLostNotification
  <2> SUFFICES ASSUME SyncInv PROVE NoLostNotification
    OBVIOUS
  <2>1. OnTheirWay = Coming(usr, done) /\ ToNotify = Notifiers(usr)
    BY DEF OnTheirWay, Coming, ToNotify, Notifiers, At, Waiter
  <2> QED
    BY <2>1 DEF SyncInv, Good, Notified, NoLostNotification
<1> QED
  BY <1>1, SyncInvariant, PTL

\* Every permit is in permits_ or with one user, a cancelled acquire has none, and
\* nobody waits beside a permit.
THEOREM PermitsConserved == SyncSpec => []PermitsKept
<1>1. SyncInv => PermitsKept
  BY DEF SyncInv, SyncTypeOK, Good, UserOK, PermitsKept
<1> QED
  BY <1>1, SyncInvariant, PTL

\* The mutex has one owner, and no active waiter while it is open, although waits
\* release it and take it again.
THEOREM OneOwnerWithWaits == SyncSpec => [](MutualExclusion /\ NobodyWaitsForOpenLock)
<1>1. SyncInv => MutualExclusion /\ NobodyWaitsForOpenLock
  BY DEF SyncInv, LockInv
<1> QED
  BY <1>1, SyncInvariant, PTL

\* A step of a user is a step of the mutex, or leaves its queue and its calls alone.
LEMMA MutexPart ==
    ASSUME SyncInv, [SyncNext]_allVars
    PROVE  Next \/ UNCHANGED <<waiters, outcome, pc>>
<1>1. \A u \in Users : usr[u].call \in Calls
  BY DEF SyncInv, SyncTypeOK, UsrType
<1>2. ASSUME NEW u \in Users, LockStep(u) PROVE Next
  BY <1>1, <1>2 DEF LockStep, Next
<1>3. ASSUME NEW u \in Users, LetGo(u) \/ Consume(u) \/ Produce(u) \/ CvUnlock(u) PROVE Next
  BY <1>1, <1>3 DEF LetGo, Consume, Produce, CvUnlock, UnlockAt, Next
<1>4. ASSUME NEW u \in Users,
             \/ CvPush(u) \/ CvReady(u) \/ CvArm(u) \/ CvDecide(u) \/ Notify(u)
             \/ SemCheckStop(u) \/ SemEnqueue(u) \/ SemDecide(u)
             \/ SemReady(u) \/ TryAcquire(u) \/ Release(u)
      PROVE  UNCHANGED <<waiters, outcome, pc>>
  BY <1>4 DEF CvPush, CvReady, CvArm, CvDecide, Notify, SemCheckStop, SemEnqueue, SemDecide,
              SemReady, TryAcquire, Release, vars
<1>5. ASSUME NEW u \in Users, CvRegister(u) \/ SemRegister(u) \/ ResumeReady(u)
      PROVE  UNCHANGED <<waiters, outcome, pc>>
  BY <1>5 DEF CvRegister, SemRegister, ResumeReady, mutexButFault
<1>6. ASSUME NEW u \in Users, FirstLock(u) \/ CvRelock(u)
      PROVE  UNCHANGED <<waiters, outcome, pc>>
  BY <1>6 DEF FirstLock, CvRelock, Begins
<1>7. ASSUME NEW u \in Users, NEW t \in Threads, Halt(u, t)
      PROVE  UNCHANGED <<waiters, outcome, pc>>
  BY <1>7 DEF Halt, mutexButFault
<1>8. ASSUME NEW u \in Users, NEW t \in Threads, HaltLock(u, t) PROVE Next
  BY <1>1, <1>8 DEF HaltLock, Next
<1>9. ASSUME RunLoop PROVE Next \/ UNCHANGED <<waiters, outcome, pc>>
  BY <1>9 DEF RunLoop, RunResume, mutexButFault, Next
<1>10. ASSUME UNCHANGED allVars PROVE UNCHANGED <<waiters, outcome, pc>>
  BY <1>10 DEF allVars, vars
<1>11. ASSUME NEW u \in Users, Continue(u) PROVE Next \/ UNCHANGED <<waiters, outcome, pc>>
  BY <1>11, <1>2, <1>3, <1>4, <1>5, <1>6 DEF Continue
<1> QED
  BY <1>4, <1>6, <1>7, <1>8, <1>9, <1>10, <1>11 DEF SyncNext

\* The mutex serves in order although waits release it and take it again, on any
\* thread (sync.hpp:422-526, 1025-1141).
THEOREM InOrderWithWaits == SyncSpec => GrantedInOrder
<1>1. SyncInv /\ SyncInv' /\ LineInv /\ [SyncNext]_allVars => LineInv' /\ [Ordered]_vars
  <2> SUFFICES ASSUME SyncInv, SyncInv', LineInv, [SyncNext]_allVars PROVE LineInv' /\ Ordered
    OBVIOUS
  <2>1. LockInv /\ TypeOK'
    BY DEF SyncInv, LockInv
  <2>2. Orderly
    BY <2>1, MutexPart, MutexOrder
  <2> QED
    BY <2>1, <2>2, OrderKept
<1>2. SyncInit => LineInv
  BY LineStart DEF SyncInit
<1>3. [Ordered]_vars => [\A o \in Calls :
          /\ outcome[o] = "none" /\ outcome'[o] = "acquired" => Ahead(o) = {}
          /\ InQueue(o, waiters) /\ InQueue(o, waiters') => Ahead(o)' \subseteq Ahead(o)]_vars
  BY DEF Ordered
<1> QED
  BY <1>1, <1>2, <1>3, SyncInvariant, PTL DEF SyncSpec, GrantedInOrder
=============================================================================

----------------------------- MODULE AsyncMutex -----------------------------
(***************************************************************************)
(* async_mutex (include/luvcoro/sync.hpp): a mutex for coroutines that     *)
(* hands the lock over to the first waiter.  Each member of Calls is one   *)
(* lock(stop_token) or one try_lock(), made once, with the unlock() that   *)
(* follows if it gets the lock.  A call starts on the loop thread or on    *)
(* another one; a coroutine that was suspended goes on on the loop thread, *)
(* where resume_waiter resumes it.                                         *)
(*                                                                         *)
(* Each critical section under mutex_ is one action.  The resume that      *)
(* follows one only meets state of the waiter that the critical section    *)
(* has already settled, so it belongs to the same action.  Shutdown of the *)
(* runtime, where post throws, is not modelled here.                       *)
(***************************************************************************)
EXTENDS WaiterQueue, FiniteSets

CONSTANTS Calls,       \* lock and try_lock calls
          TryCalls,    \* the try_lock ones
          OnLoop,      \* calls made on the loop thread
          Stoppable,   \* lock calls whose stop token may be stopped
          StopThreads  \* where their stop is requested: "loop", "other"

Threads == {"loop", "other"}

ASSUME MutexAssumption ==
    /\ TryCalls \subseteq Calls /\ OnLoop \subseteq Calls
    /\ Stoppable \subseteq Calls \ TryCalls
    /\ StopThreads \subseteq Threads

VARIABLES locked,    \* locked_
          waiters,   \* waiters_
          outcome,   \* "none" while the call's waiter is active
          pc,        \* where each call is
          thread,    \* the thread it runs on
          stopped,   \* calls whose stop token has been stopped
          posted,    \* resumes handed to uv_runtime::post, in order
          fault      \* a coroutine that was not suspended has been resumed

vars == <<locked, waiters, outcome, pc, thread, stopped, posted, fault>>

Outcomes == {"none", "acquired", "cancelled", "busy"}
PCs == {"start", "ready", "queueing", "registering", "deciding", "suspended",
        "held", "done"}
\* In the middle of await_ready and await_suspend.
Mid == {"ready", "queueing", "registering", "deciding"}

Init ==
    /\ locked = FALSE /\ waiters = <<>>
    /\ outcome = [o \in Calls |-> "none"]
    /\ pc = [o \in Calls |-> "start"]
    /\ thread = [o \in Calls |-> IF o \in OnLoop THEN "loop" ELSE "other"]
    /\ stopped = {} /\ posted = <<>> /\ fault = FALSE

\* Code of the loop thread runs when no other is in the middle of its own.
LoopFree(o) == \A p \in Calls \ {o} : thread[p] = "loop" => pc[p] \notin Mid
CanRun(o) == ~fault /\ (thread[o] = "loop" => LoopFree(o))
LoopIdle == ~fault /\ \A p \in Calls : thread[p] = "loop" => pc[p] \notin Mid

Prune(q) == PruneInactive(q, outcome)

-----------------------------------------------------------------------------
(* lock() and try_lock() *)

\* Take the lock if nobody has it and nobody waits.
Free == ~locked /\ Prune(waiters) = <<>>
Acquire(o) ==
    /\ locked' = TRUE
    /\ waiters' = Prune(waiters)
    /\ outcome' = [outcome EXCEPT ![o] = "acquired"]
    /\ pc' = [pc EXCEPT ![o] = "held"]

TryLock(o) ==
    /\ CanRun(o) /\ o \in TryCalls /\ pc[o] = "start"
    /\ \/ Free /\ Acquire(o)
       \/ /\ ~Free
          /\ waiters' = Prune(waiters)
          /\ outcome' = [outcome EXCEPT ![o] = "busy"]
          /\ pc' = [pc EXCEPT ![o] = "done"]
          /\ UNCHANGED locked
    /\ UNCHANGED <<thread, stopped, posted, fault>>

\* await_ready
AwaitReady(o) ==
    /\ CanRun(o) /\ o \notin TryCalls /\ pc[o] = "start"
    /\ \/ Free /\ Acquire(o)
       \/ /\ ~Free
          /\ waiters' = Prune(waiters)
          /\ pc' = [pc EXCEPT ![o] = "ready"]
          /\ UNCHANGED <<locked, outcome>>
    /\ UNCHANGED <<thread, stopped, posted, fault>>

\* await_suspend, until it asks for mutex_: a stopped call gives up.
CheckStop(o) ==
    /\ CanRun(o) /\ pc[o] = "ready"
    /\ \/ /\ o \in stopped
          /\ outcome' = [outcome EXCEPT ![o] = "cancelled"]
          /\ pc' = [pc EXCEPT ![o] = "done"]
       \/ /\ o \notin stopped
          /\ pc' = [pc EXCEPT ![o] = "queueing"]
          /\ UNCHANGED outcome
    /\ UNCHANGED <<locked, waiters, thread, stopped, posted, fault>>

\* Mutant of Enqueue: the waiter jumps the queue.
EnqueueFirst(o) ==
    /\ CanRun(o) /\ pc[o] = "queueing"
    /\ \/ Free /\ Acquire(o)
       \/ /\ ~Free
          /\ waiters' = <<o>> \o Prune(waiters)
          /\ pc' = [pc EXCEPT ![o] = "registering"]
          /\ UNCHANGED <<locked, outcome>>
    /\ UNCHANGED <<thread, stopped, posted, fault>>
\* Mutant of Enqueue: the lock is not tried again.
EnqueueBlindly(o) ==
    /\ CanRun(o) /\ pc[o] = "queueing"
    /\ waiters' = Append(Prune(waiters), o)
    /\ pc' = [pc EXCEPT ![o] = "registering"]
    /\ UNCHANGED <<locked, outcome, thread, stopped, posted, fault>>
\* await_suspend, its first critical section.
Enqueue(o) ==
    /\ CanRun(o) /\ pc[o] = "queueing"
    /\ \/ Free /\ Acquire(o)
       \/ /\ ~Free
          /\ waiters' = Append(Prune(waiters), o)
          /\ pc' = [pc EXCEPT ![o] = "registering"]
          /\ UNCHANGED <<locked, outcome>>
    /\ UNCHANGED <<thread, stopped, posted, fault>>

\* continuation.resume() on the loop thread.  at says where the calls are by
\* then.
Finished(out) == IF out = "acquired" THEN "held" ELSE "done"
ResumeHere(w, out, at) ==
    LET suspended == at[w] = "suspended"
    IN  /\ pc' = IF suspended THEN [at EXCEPT ![w] = Finished(out)] ELSE at
        /\ thread' = IF suspended THEN [thread EXCEPT ![w] = "loop"] ELSE thread
        /\ fault' = ~suspended

\* resume_waiter on thread t: the loop thread resumes the completed waiter
\* on the spot, another thread posts the resume.
ResumeWaiter(w, out, t, at) ==
    \/ /\ t = "loop"
       /\ ResumeHere(w, out, at)
       /\ UNCHANGED posted
    \/ /\ t = "other"
       /\ posted' = Append(posted, w)
       /\ pc' = at
       /\ UNCHANGED <<thread, fault>>

\* Mutant of CancelWaiter: completed is not tested.
CancelAnyway(w, t, at) ==
    /\ outcome' = [outcome EXCEPT ![w] = "cancelled"]
    /\ ResumeWaiter(w, "cancelled", t, at)
\* cancel_waiter on thread t: nothing to do for a waiter that is completed.
CancelWaiter(w, t, at) ==
    \/ /\ outcome[w] = "none"
       /\ outcome' = [outcome EXCEPT ![w] = "cancelled"]
       /\ ResumeWaiter(w, "cancelled", t, at)
    \/ /\ outcome[w] # "none"
       /\ pc' = at
       /\ UNCHANGED <<outcome, thread, posted, fault>>

\* await_suspend, stop_callback.emplace: if the stop has been requested since
\* CheckStop, the callback runs at once.
Register(o) ==
    /\ CanRun(o) /\ pc[o] = "registering"
    /\ LET at == [pc EXCEPT ![o] = "deciding"]
       IN  \/ o \in stopped /\ CancelWaiter(o, thread[o], at)
           \/ /\ o \notin stopped
              /\ pc' = at
              /\ UNCHANGED <<outcome, thread, posted, fault>>
    /\ UNCHANGED <<locked, waiters, stopped>>

\* await_suspend, its last critical section: suspend unless completed.
Decide(o) ==
    /\ CanRun(o) /\ pc[o] = "deciding"
    /\ pc' = [pc EXCEPT ![o] = IF outcome[o] = "none" THEN "suspended"
                               ELSE Finished(outcome[o])]
    /\ UNCHANGED <<locked, waiters, outcome, thread, stopped, posted, fault>>

-----------------------------------------------------------------------------
(* unlock(), request_stop() and the loop *)

\* unlock by the holder: open the lock, or hand it over to the first waiter
\* and resume that one.
Unlock(o) ==
    /\ CanRun(o) /\ pc[o] = "held"
    /\ LET Q == Prune(waiters)
           at == [pc EXCEPT ![o] = "done"]
       IN  \/ /\ Q = <<>>
              /\ locked' = FALSE /\ waiters' = <<>> /\ pc' = at
              /\ UNCHANGED <<outcome, thread, posted, fault>>
           \/ /\ Q # <<>>
              /\ locked' = TRUE /\ waiters' = Tail(Q)
              /\ outcome' = [outcome EXCEPT ![Head(Q)] = "acquired"]
              /\ ResumeWaiter(Head(Q), "acquired", thread[o], at)
    /\ UNCHANGED stopped

\* Somebody requests the stop of call o on thread t; its callback, if it is
\* registered, runs there.
RequestStop(o, t) ==
    /\ ~fault /\ o \in Stoppable \ stopped /\ t \in StopThreads
    /\ t = "loop" => LoopIdle
    /\ stopped' = stopped \cup {o}
    /\ \/ pc[o] \in {"deciding", "suspended"} /\ CancelWaiter(o, t, pc)
       \/ /\ pc[o] \notin {"deciding", "suspended"}
          /\ UNCHANGED <<outcome, pc, thread, posted, fault>>
    /\ UNCHANGED <<locked, waiters>>

\* The loop runs the oldest posted resume.
RunPosted ==
    /\ LoopIdle /\ posted # <<>>
    /\ posted' = Tail(posted)
    /\ ResumeHere(Head(posted), outcome[Head(posted)], pc)
    /\ UNCHANGED <<locked, waiters, outcome, stopped>>

-----------------------------------------------------------------------------
Lock(o) == \/ AwaitReady(o) \/ CheckStop(o) \/ Enqueue(o) \/ Register(o) \/ Decide(o)
Next == \/ \E o \in Calls : Lock(o) \/ TryLock(o) \/ Unlock(o)
        \/ \E o \in Calls, t \in Threads : RequestStop(o, t)
        \/ RunPosted

Spec == Init /\ [][Next]_vars

-----------------------------------------------------------------------------
(* Properties *)

\* Every variable has its type.
TypeOK ==
    /\ locked \in BOOLEAN /\ fault \in BOOLEAN
    /\ waiters \in Seq(Calls) /\ posted \in Seq(Calls)
    /\ outcome \in [Calls -> Outcomes]
    /\ pc \in [Calls -> PCs]
    /\ thread \in [Calls -> Threads]
    /\ stopped \subseteq Calls

\* The calls that own the lock: they hold it, or it was handed over to them
\* and they have not been resumed yet.
Owners == {o \in Calls : outcome[o] = "acquired" /\ pc[o] # "done"}

\* Mutual exclusion across the hand-over: locked_ is set exactly while some
\* call owns the lock, and never do two own it, whatever races with unlock.
MutualExclusion ==
    /\ locked <=> Owners # {}
    /\ \A o, p \in Owners : o = p

\* No call waits for a lock that nobody owns: unlock never opens the lock
\* past a waiter.
NobodyWaitsForOpenLock == ~locked => ActiveAt(waiters, outcome) = {}

\* The active waiters before o in the queue; all of them if o is not in it.
Ahead(o) == {waiters[i] : i \in {k \in ActiveAt(waiters, outcome) :
                                     \A j \in 1..k : waiters[j] # o}}

\* First come, first served: nobody, a try_lock included, gets the lock past
\* an active waiter, and nobody gets in front of one that is queued.
GrantedInOrder ==
    [][\A o \in Calls :
          /\ outcome[o] = "none" /\ outcome'[o] = "acquired" => Ahead(o) = {}
          /\ InQueue(o, waiters) /\ InQueue(o, waiters') => Ahead(o)' \subseteq Ahead(o)]_vars
=============================================================================

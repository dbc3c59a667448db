------------------------------ MODULE LocalSync ------------------------------
(***************************************************************************)
(* The local_* primitives of include/luvcoro/sync.hpp: local_async_mutex,  *)
(* local_async_semaphore, local_async_condition_variable and               *)
(* local_async_event, one of each.  They belong to the loop thread, so     *)
(* nothing runs in parallel.  What makes them hard is re-entrance: unlock, *)
(* release, set and notify resume a waiter in the middle of their own      *)
(* loop, and the waiter may call the same primitive before it comes back.  *)
(* stack is the call stack of the loop thread: the coroutines that run,    *)
(* the innermost first, and the release, set and notify_all loops between  *)
(* them.  Stops come from another thread at any moment.                    *)
(*                                                                         *)
(* Each task runs a script of steps; waiting on the condition variable is  *)
(* written out as CvWait below.  A task whose wait is cancelled ends, after *)
(* its guard has unlocked the mutex if it holds it; the locks of a script  *)
(* are scoped, and each wait on the condition variable is a whole one.     *)
(***************************************************************************)
EXTENDS WaiterQueue

CONSTANTS Tasks,      \* the coroutines
          Scenarios,  \* what the tasks may run
          Permits,    \* the initial count of the semaphore
          Stoppable   \* tasks whose stop token may be stopped

Queues == {"lock", "sem", "cv", "event"}
Steps == {"lock", "try_lock", "unlock", "acquire", "try_acquire", "release",
          "release2", "wait", "set", "reset", "while", "cv_push", "cv_await",
          "relock", "cv_rethrow", "notify_one", "notify_all", "make_ready",
          "sleep"}

\* wait(mutex, predicate), with the predicate ready.
CvWait == <<"while", "cv_push", "unlock", "cv_await", "relock", "cv_rethrow">>

\* Before step i of script s the next step about the mutex is an unlock.
Takes == {"lock", "try_lock", "relock"}
Owes(s, i) ==
    \E j \in i..Len(s) : s[j] = "unlock" /\ \A l \in i..(j - 1) : s[l] \notin Takes
\* Locks and unlocks take turns.
Scoped(s) ==
    \A i \in 1..Len(s) : /\ s[i] \in Takes => Owes(s, i + 1)
                         /\ s[i] = "unlock" => ~Owes(s, i + 1)
\* The steps of a wait occur in a whole wait.
Whole(s) ==
    \A i \in 1..Len(s), n \in {1, 2, 4, 5, 6} :
        s[i] = CvWait[n] =>
            /\ n <= i /\ i + 6 - n <= Len(s)
            /\ \A m \in 1..6 : s[i + m - n] = CvWait[m]

ASSUME LocalAssumption ==
    /\ Scenarios \subseteq [Tasks -> Seq(Steps)]
    /\ \A f \in Scenarios, t \in Tasks :
          Scoped(f[t]) /\ Whole(f[t]) /\ ~Owes(f[t], 1)
    /\ Permits \in Nat /\ Stoppable \subseteq Tasks

VARIABLES script,   \* what each task has to run
          pos,      \* its next step
          status,   \* "new", "running", "suspended", "done"
          stack,    \* the frames of the loop thread
          queue,    \* waiters_ of each primitive
          outcome,  \* "none" while the task's waiter in a queue is active
          locked,   \* locked_
          holders,  \* tasks that own the mutex
          permits,  \* permits_
          issued,   \* permits released so far and those there were at first
          taken,    \* permits acquired
          signaled, \* signaled_
          ready,    \* what the predicate of the condition variable reads
          stopped,  \* tasks whose stop has been requested
          posted    \* cancellations handed to uv_runtime::post

data == <<locked, holders, permits, issued, taken, signaled, ready>>
vars == <<script, pos, status, stack, queue, outcome, data, stopped, posted>>

Statuses == {"new", "running", "suspended", "done"}
Frame(op, t, n) == [op |-> op, task |-> t, n |-> n]
TaskFrame(t) == Frame("task", t, 0)
Loops == {"release", "set", "notify_all"}

Init ==
    /\ script \in Scenarios
    /\ pos = [t \in Tasks |-> 1] /\ status = [t \in Tasks |-> "new"]
    /\ stack = <<>> /\ queue = [k \in Queues |-> <<>>]
    /\ outcome = [k \in Queues |-> [t \in Tasks |-> "none"]]
    /\ locked = FALSE /\ holders = {}
    /\ permits = Permits /\ issued = Permits /\ taken = 0
    /\ signaled = FALSE /\ ready = FALSE /\ stopped = {} /\ posted = <<>>

Pruned(k) == PruneInactive(queue[k], outcome[k])
\* The running task, at a step.
At(t, step) ==
    /\ stack # <<>> /\ Head(stack) = TaskFrame(t)
    /\ pos[t] <= Len(script[t]) /\ script[t][pos[t]] = step

GoOn(t) ==
    /\ pos' = [pos EXCEPT ![t] = @ + 1]
    /\ UNCHANGED <<script, status>>

\* The task throws operation_cancelled, or returns: what is left to do is the unlock
\* of its guard.
Leave(t) ==
    /\ script' = [script EXCEPT ![t] = IF t \in holders THEN <<"unlock">> ELSE <<>>]
    /\ pos' = [pos EXCEPT ![t] = 1]

-----------------------------------------------------------------------------
(* Waiting and waking *)

\* A new waiter at the end of a queue.  A cancellation posted for an earlier
\* waiter of the task does nothing any more and is left out; stop says that the
\* new stop callback runs at once.
Queue(k, t, stop) ==
    /\ queue' = [queue EXCEPT ![k] = Append(Pruned(k), t)]
    /\ outcome' = [outcome EXCEPT ![k][t] = "none"]
    /\ posted' = ActiveOf(posted, [c \in Queues \X Tasks |->
                                     IF c = <<k, t>> THEN "over" ELSE "none"])
                     \o (IF stop THEN << <<k, t>> >> ELSE <<>>)

\* The awaiter of lock, acquire and wait: a stopped caller gives up, another
\* one is suspended.
Await(k, t) ==
    \/ /\ t \in stopped /\ Leave(t)
       /\ UNCHANGED <<status, stack, queue, outcome, posted>>
    \/ /\ t \notin stopped /\ Queue(k, t, FALSE)
       /\ status' = [status EXCEPT ![t] = "suspended"]
       /\ stack' = Tail(stack)
       /\ UNCHANGED <<script, pos>>

\* The first waiter of a queue gets what it waits for.  It is resumed, above
\* the frames in rest, unless it has no continuation yet.  at says where the
\* tasks are by then.
Wake(k, rest, at) ==
    LET w == Head(Pruned(k))
        suspended == status[w] = "suspended"
    IN  /\ queue' = [queue EXCEPT ![k] = Tail(Pruned(k))]
        /\ outcome' = [outcome EXCEPT ![k][w] = "granted"]
        /\ stack' = IF suspended THEN <<TaskFrame(w)>> \o rest ELSE rest
        /\ pos' = IF suspended THEN [at EXCEPT ![w] = @ + 1] ELSE at
        /\ status' = IF suspended THEN [status EXCEPT ![w] = "running"] ELSE status

\* prune_inactive(waiters_) of a call that finds nobody, or that need not wait.
Tidy(k) == queue' = [queue EXCEPT ![k] = Pruned(k)]

\* The closure of cancel_waiter.
CancelWaiter(k, t) ==
    LET active == outcome[k][t] = "none" /\ \E i \in DOMAIN queue[k] : queue[k][i] = t
    IN  IF ~active THEN UNCHANGED <<script, pos, status, stack, outcome>>
        ELSE /\ outcome' = [outcome EXCEPT ![k][t] = "cancelled"]
             /\ status' = [status EXCEPT ![t] = "running"]
             /\ stack' = <<TaskFrame(t)>>
             /\ IF k = "cv" THEN pos' = [pos EXCEPT ![t] = @ + 1] /\ UNCHANGED script
                ELSE Leave(t)

-----------------------------------------------------------------------------
(* local_async_mutex *)

Free == ~locked /\ Pruned("lock") = <<>>
Own(t) ==
    /\ locked' = TRUE /\ holders' = holders \cup {t}
    /\ Tidy("lock") /\ GoOn(t)
    /\ UNCHANGED <<stack, outcome, permits, issued, taken, signaled, ready, posted>>

Lock(t) ==
    /\ At(t, "lock")
    /\ \/ Free /\ Own(t)
       \/ ~Free /\ Await("lock", t) /\ UNCHANGED data
    /\ UNCHANGED stopped

TryLock(t) ==
    /\ At(t, "try_lock")
    /\ \/ Free /\ Own(t)
       \/ /\ ~Free /\ Leave(t) /\ Tidy("lock")
          /\ UNCHANGED <<status, stack, outcome, posted, data>>
    /\ UNCHANGED stopped

\* Mutant of Unlock: the mutex is opened although it is handed over.
UnlockAndOpen(t) ==
    /\ At(t, "unlock")
    /\ LET on == [pos EXCEPT ![t] = @ + 1]
       IN  \/ /\ Pruned("lock") = <<>>
              /\ locked' = FALSE /\ holders' = holders \ {t}
              /\ Tidy("lock") /\ pos' = on
              /\ UNCHANGED <<status, stack, outcome>>
           \/ /\ Pruned("lock") # <<>>
              /\ Wake("lock", stack, on)
              /\ holders' = (holders \ {t}) \cup {Head(Pruned("lock"))}
              /\ locked' = FALSE
    /\ UNCHANGED <<script, permits, issued, taken, signaled, ready, stopped, posted>>
\* unlock() hands the mutex to the first waiter, which runs at once.
Unlock(t) ==
    /\ At(t, "unlock")
    /\ LET on == [pos EXCEPT ![t] = @ + 1]
       IN  \/ /\ Pruned("lock") = <<>>
              /\ locked' = FALSE /\ holders' = holders \ {t}
              /\ Tidy("lock") /\ pos' = on
              /\ UNCHANGED <<status, stack, outcome>>
           \/ /\ Pruned("lock") # <<>>
              /\ Wake("lock", stack, on)
              /\ holders' = (holders \ {t}) \cup {Head(Pruned("lock"))}
              /\ UNCHANGED locked
    /\ UNCHANGED <<script, permits, issued, taken, signaled, ready, stopped, posted>>

-----------------------------------------------------------------------------
(* local_async_semaphore *)

Take(t) ==
    /\ permits > 0 /\ permits' = permits - 1 /\ taken' = taken + 1
    /\ Tidy("sem") /\ GoOn(t)
    /\ UNCHANGED <<stack, outcome, locked, holders, issued, signaled, ready, posted>>

Acquire(t) ==
    /\ At(t, "acquire")
    /\ \/ Take(t)
       \/ permits = 0 /\ Await("sem", t) /\ UNCHANGED data
    /\ UNCHANGED stopped

TryAcquire(t) ==
    /\ At(t, "try_acquire")
    /\ \/ Take(t)
       \/ /\ permits = 0 /\ Leave(t) /\ Tidy("sem")
          /\ UNCHANGED <<status, stack, outcome, posted, data>>
    /\ UNCHANGED stopped

\* release(1) and release(2) start their loop.
Release(t) ==
    /\ \E n \in 1..2 :
          /\ At(t, IF n = 1 THEN "release" ELSE "release2")
          /\ stack' = <<Frame("release", t, n)>> \o stack
          /\ issued' = issued + n
    /\ GoOn(t)
    /\ UNCHANGED <<queue, outcome, locked, holders, permits, taken, signaled,
                   ready, stopped, posted>>

\* Mutant of ReleaseLoop: the rest is added when the loop starts.
ReleaseEarly ==
    /\ stack # <<>> /\ Head(stack).op = "release"
    /\ LET f == Head(stack)
       IN  \/ /\ f.n > 0 /\ Pruned("sem") # <<>>
              /\ Wake("sem", <<[f EXCEPT !.n = @ - 1]>> \o Tail(stack), pos)
              /\ taken' = taken + 1 /\ permits' = permits + f.n - 1
           \/ /\ f.n = 0 \/ Pruned("sem") = <<>>
              /\ permits' = permits + f.n /\ stack' = Tail(stack) /\ Tidy("sem")
              /\ UNCHANGED <<pos, status, outcome, taken>>
    /\ UNCHANGED <<script, locked, holders, issued, signaled, ready, stopped, posted>>
\* One round of the loop of release: a waiter runs, or the rest is added.
ReleaseLoop ==
    /\ stack # <<>> /\ Head(stack).op = "release"
    /\ LET f == Head(stack)
       IN  \/ /\ f.n > 0 /\ Pruned("sem") # <<>>
              /\ Wake("sem", <<[f EXCEPT !.n = @ - 1]>> \o Tail(stack), pos)
              /\ taken' = taken + 1 /\ UNCHANGED permits
           \/ /\ f.n = 0 \/ Pruned("sem") = <<>>
              /\ permits' = permits + f.n /\ stack' = Tail(stack) /\ Tidy("sem")
              /\ UNCHANGED <<pos, status, outcome, taken>>
    /\ UNCHANGED <<script, locked, holders, issued, signaled, ready, stopped, posted>>

-----------------------------------------------------------------------------
(* local_async_event *)

WaitEvent(t) ==
    /\ At(t, "wait")
    /\ \/ /\ signaled /\ Tidy("event") /\ GoOn(t)
          /\ UNCHANGED <<stack, outcome, posted>>
       \/ ~signaled /\ Await("event", t)
    /\ UNCHANGED <<data, stopped>>

SetEvent(t) ==
    /\ At(t, "set") /\ GoOn(t)
    /\ signaled' = TRUE
    /\ stack' = <<Frame("set", t, 0)>> \o stack
    /\ UNCHANGED <<queue, outcome, locked, holders, permits, issued, taken, ready,
                   stopped, posted>>

ResetEvent(t) ==
    /\ At(t, "reset") /\ GoOn(t)
    /\ signaled' = FALSE
    /\ UNCHANGED <<stack, queue, outcome, locked, holders, permits, issued, taken,
                   ready, stopped, posted>>

\* Mutant of SetLoop: only the first waiter is woken.
SetOnce ==
    /\ stack # <<>> /\ Head(stack).op = "set"
    /\ \/ Pruned("event") # <<>> /\ Wake("event", Tail(stack), pos)
       \/ /\ Pruned("event") = <<>> /\ Tidy("event") /\ stack' = Tail(stack)
          /\ UNCHANGED <<pos, status, outcome>>
    /\ UNCHANGED <<script, data, stopped, posted>>
\* One round of the loop of set.
SetLoop ==
    /\ stack # <<>> /\ Head(stack).op = "set"
    /\ \/ Pruned("event") # <<>> /\ Wake("event", stack, pos)
       \/ /\ Pruned("event") = <<>> /\ Tidy("event") /\ stack' = Tail(stack)
          /\ UNCHANGED <<pos, status, outcome>>
    /\ UNCHANGED <<script, data, stopped, posted>>

-----------------------------------------------------------------------------
(* local_async_condition_variable *)

\* The loop of wait(mutex, predicate).
While(t) ==
    /\ At(t, "while")
    /\ pos' = [pos EXCEPT ![t] = @ + (IF ready THEN Len(CvWait) ELSE 1)]
    /\ UNCHANGED <<script, status, stack, queue, outcome, data, stopped, posted>>

\* wait queues its waiter, with its stop callback, before it unlocks the mutex.
CvPush(t) ==
    /\ At(t, "cv_push") /\ GoOn(t)
    /\ Queue("cv", t, t \in stopped)
    /\ UNCHANGED <<stack, data, stopped>>

\* The waiter is suspended unless it has been notified meanwhile.
CvAwait(t) ==
    /\ At(t, "cv_await")
    /\ \/ outcome["cv"][t] # "none" /\ GoOn(t) /\ UNCHANGED stack
       \/ /\ outcome["cv"][t] = "none"
          /\ status' = [status EXCEPT ![t] = "suspended"]
          /\ stack' = Tail(stack) /\ UNCHANGED <<script, pos>>
    /\ UNCHANGED <<queue, outcome, data, stopped, posted>>

\* mutex.lock() without a stop token.
Relock(t) ==
    /\ At(t, "relock")
    /\ \/ Free /\ Own(t)
       \/ /\ ~Free /\ Queue("lock", t, FALSE)
          /\ status' = [status EXCEPT ![t] = "suspended"]
          /\ stack' = Tail(stack) /\ UNCHANGED <<script, pos, data>>
    /\ UNCHANGED stopped

\* A cancelled wait throws and the guard unlocks; another tests the predicate.
CvRethrow(t) ==
    /\ At(t, "cv_rethrow")
    /\ \/ outcome["cv"][t] = "cancelled" /\ Leave(t)
       \/ /\ outcome["cv"][t] # "cancelled"
          /\ pos' = [pos EXCEPT ![t] = @ - (Len(CvWait) - 1)]
          /\ UNCHANGED script
    /\ UNCHANGED <<status, stack, queue, outcome, data, stopped, posted>>

\* Mutant of NotifyOne: a cancelled waiter takes the notification.
NotifyOneAny(t) ==
    /\ At(t, "notify_one") /\ pos' = [pos EXCEPT ![t] = @ + 1]
    /\ queue' = [queue EXCEPT !["cv"] = IF @ = <<>> THEN @ ELSE Tail(@)]
    /\ UNCHANGED <<status, stack, outcome, script, data, stopped, posted>>
NotifyOne(t) ==
    /\ At(t, "notify_one")
    /\ LET on == [pos EXCEPT ![t] = @ + 1]
       IN  \/ Pruned("cv") # <<>> /\ Wake("cv", stack, on)
           \/ /\ Pruned("cv") = <<>> /\ Tidy("cv") /\ pos' = on
              /\ UNCHANGED <<status, stack, outcome>>
    /\ UNCHANGED <<script, data, stopped, posted>>

NotifyAll(t) ==
    /\ At(t, "notify_all") /\ GoOn(t)
    /\ stack' = <<Frame("notify_all", t, 0)>> \o stack
    /\ UNCHANGED <<queue, outcome, data, stopped, posted>>
\* One round of the loop of notify_all.
NotifyLoop ==
    /\ stack # <<>> /\ Head(stack).op = "notify_all"
    /\ \/ Pruned("cv") # <<>> /\ Wake("cv", stack, pos)
       \/ /\ Pruned("cv") = <<>> /\ Tidy("cv") /\ stack' = Tail(stack)
          /\ UNCHANGED <<pos, status, outcome>>
    /\ UNCHANGED <<script, data, stopped, posted>>

\* The task awaits something else, sleep_for say; the loop resumes it as it
\* starts one.
Sleep(t) ==
    /\ At(t, "sleep") /\ pos' = [pos EXCEPT ![t] = @ + 1]
    /\ status' = [status EXCEPT ![t] = "new"] /\ stack' = Tail(stack)
    /\ UNCHANGED <<script, queue, outcome, data, stopped, posted>>

\* The program's own write of what the predicate reads.
MakeReady(t) ==
    /\ At(t, "make_ready") /\ GoOn(t) /\ ready' = TRUE
    /\ UNCHANGED <<stack, queue, outcome, locked, holders, permits, issued, taken,
                   signaled, stopped, posted>>

-----------------------------------------------------------------------------
(* Tasks, the loop and stops *)

Spawn(t) ==
    /\ stack = <<>> /\ status[t] = "new"
    /\ status' = [status EXCEPT ![t] = "running"]
    /\ stack' = <<TaskFrame(t)>>
    /\ UNCHANGED <<script, pos, queue, outcome, data, stopped, posted>>

Finish(t) ==
    /\ stack # <<>> /\ Head(stack) = TaskFrame(t) /\ pos[t] > Len(script[t])
    /\ status' = [status EXCEPT ![t] = "done"]
    /\ stack' = Tail(stack)
    /\ UNCHANGED <<script, pos, queue, outcome, data, stopped, posted>>

\* Where the task has a stop callback.
CallbackAt(t) ==
    {k \in Queues : /\ \E i \in DOMAIN queue[k] : queue[k][i] = t
                    /\ outcome[k][t] = "none"
                    /\ k = "lock" => script[t][pos[t]] = "lock"}
RequestStop(t) ==
    /\ t \in Stoppable \ stopped
    /\ stopped' = stopped \cup {t}
    /\ posted' = IF CallbackAt(t) = {} THEN posted
                 ELSE Append(posted, <<CHOOSE k \in CallbackAt(t) : TRUE, t>>)
    /\ UNCHANGED <<script, pos, status, stack, queue, outcome, data>>

RunPosted ==
    /\ stack = <<>> /\ posted # <<>>
    /\ posted' = Tail(posted)
    /\ CancelWaiter(Head(posted)[1], Head(posted)[2])
    /\ UNCHANGED <<queue, data, stopped>>

\* A step of the loop thread.
Step(t) ==
    \/ Lock(t) \/ TryLock(t) \/ Unlock(t)
    \/ Acquire(t) \/ TryAcquire(t) \/ Release(t)
    \/ WaitEvent(t) \/ SetEvent(t) \/ ResetEvent(t)
    \/ While(t) \/ CvPush(t) \/ CvAwait(t) \/ Relock(t) \/ CvRethrow(t)
    \/ NotifyOne(t) \/ NotifyAll(t) \/ Sleep(t) \/ MakeReady(t)
    \/ Finish(t)
LoopThread ==
    \/ ReleaseLoop \/ SetLoop \/ NotifyLoop \/ RunPosted
    \/ \E t \in Tasks : Spawn(t) \/ Step(t)

Next == LoopThread \/ \E t \in Tasks : RequestStop(t)
Spec == Init /\ [][Next]_vars
\* The loop thread runs.
FairSpec == Spec /\ WF_vars(LoopThread)

-----------------------------------------------------------------------------
(* Properties *)

\* One task owns the mutex when it is locked and none when it is open, through
\* nested hand-overs, relocks of the condition variable and cancellations
\* (sync.hpp:626-645, 982).
LocalExclusion ==
    /\ Cardinality(holders) <= 1
    /\ locked <=> holders # {}

\* The permits that the release loops on a stack have still to hand out; d[1] is
\* the place of the frame from the bottom.
Owed(st) ==
    {d \in (1..Len(st)) \X (1..2) :
        LET f == st[Len(st) + 1 - d[1]] IN f.op = "release" /\ d[2] <= f.n}
\* Every permit is in permits_, in the count of a running release, or taken:
\* re-entrant acquires neither lose nor duplicate one (sync.hpp:891-904).
PermitsConserved == permits + taken + Cardinality(Owed(stack)) = issued

\* When the loop thread is back in libuv, nobody waits for what is there: an
\* open mutex, a permit or a set event (sync.hpp:632-644, 891-904, 1225-1237).
NobodyForgotten ==
    stack = <<>> =>
        /\ ~locked => Pruned("lock") = <<>>
        /\ permits > 0 => Pruned("sem") = <<>>
        /\ signaled => Pruned("event") = <<>>

\* A notify_all that wakes a wait whose predicate is false: the wait queues again,
\* and the same loop finds it there, for ever (sync.hpp:1007-1016).
NotifyAllSpins ==
    ~ready /\ \E i \in DOMAIN stack : stack[i].op = "notify_all"

\* Every task of a scenario ends, unless a notify_all spins on a false predicate:
\* no notification, permit or hand-over is lost to a cancelled waiter, and every
\* other loop of release, set and notify_all returns, those included whose waiters
\* queue for the mutex, or end, before they wait again (sync.hpp:891-904, 988-1017,
\* 1225-1237).
EveryTaskEnds ==
    (\A t \in Tasks : <>(status[t] = "done")) \/ <>[]NotifyAllSpins
=============================================================================

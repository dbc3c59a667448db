----------------------------- MODULE AsyncSync -----------------------------
(***************************************************************************)
(* async_condition_variable and async_semaphore (include/luvcoro/sync.hpp) *)
(* with the async_mutex they are used with, on the loop thread and others. *)
(* Each user runs one small program, chosen by a scenario:                 *)
(*   lock, try          lock(token) or try_lock(), then unlock()           *)
(*   consume            lock(); while there is no item, wait(mutex, token);*)
(*                      take one; unlock()                                 *)
(*   produce            lock(); add an item; unlock(); notify n waiters    *)
(*   acquire, take, release   on the semaphore                             *)
(* A wait of the condition variable unlocks with the user's call of        *)
(* AsyncMutex and locks again with its next one, on the thread where it is *)
(* by then.  What a coroutine that is resumed inside unlock or notify does *)
(* is interleaved with the rest of unlock or notify.                       *)
(***************************************************************************)
EXTENDS AsyncMutex

CONSTANTS Users,      \* who calls
          Scenarios,  \* what the users do
          MaxWaits,   \* the most waits of one consumer
          Permits     \* permits_ at first

Kinds == {"lock", "try", "consume", "produce", "acquire", "take", "release", "none"}

\* Call k of user u to the mutex; it also names the waiter of its k-th wait.  Call 0
\* is the first, and the last is the one to try_lock.
TryCall == MaxWaits + 1
CallOf(u, k) == <<u, k>>
UserOf(w) == w[1]

ASSUME SyncAssumption ==
    /\ MaxWaits \in Nat /\ Permits \in Nat /\ IsFiniteSet(Users)
    /\ Calls = Users \X (0..TryCall) /\ TryCalls = Users \X {TryCall}
    /\ \A s \in Scenarios : \A u \in Users :
          /\ s[u].kind \in Kinds /\ s[u].n \in Nat
          /\ s[u].kind \in {"produce", "release"} => s[u].n > 0
          /\ s[u].home \in Threads /\ s[u].stop \in BOOLEAN

VARIABLES script,     \* the scenario
          usr,        \* each user: its stage and thread, its mutex call, the number
                      \* of its waits, the waiters it has completed and must resume
          queue,      \* waiters_ of the condition variable and of the semaphore
          done,       \* what a waiter was completed with
          armed,      \* waiters whose continuation is set
          resumes,    \* their resumes handed to uv_runtime::post
          halted,     \* users whose token has been stopped
          items,      \* what consumers wait for
          permits, issued, taken  \* permits_, all permits, users that have one

shared == <<queue, done, armed>>
program == <<items, permits, issued, taken>>
syncVars == <<script, usr, shared, resumes, halted, program>>
allVars == <<vars, syncVars>>
mutexButFault == <<locked, waiters, outcome, pc, thread, stopped, posted>>

Kind(u) == script[u].kind
Waiter(u) == CallOf(u, usr[u].round)
At(u, stage) == usr[u].stage = stage
GoTo(u, stage) == [usr EXCEPT ![u].stage = stage]

SyncInit ==
    /\ Init
    /\ script \in Scenarios
    /\ usr = [u \in Users |-> [stage |-> "new", on |-> script[u].home, round |-> 0,
                               ready |-> <<>>, call |-> CallOf(u, 0)]]
    /\ queue = [q \in {"cv", "sem"} |-> <<>>] /\ done = [w \in Calls |-> "none"]
    /\ armed = {} /\ resumes = <<>> /\ halted = {}
    /\ items = 0 /\ permits = Permits /\ issued = Permits /\ taken = {}

\* A user is in the middle of await_ready, await_suspend or wait.
Midway == {"pushed", "registered", "suspending", "arming", "ready", "queueing",
           "registering", "deciding"}
LoopClear(u) ==
    /\ \A v \in Users \ {u} : usr[v].on = "loop" => usr[v].stage \notin Midway
    /\ \A o \in Calls \ {usr[u].call} : thread[o] = "loop" => pc[o] \notin Mid
Runs(u) == ~fault /\ (usr[u].on = "loop" => LoopClear(u))
LoopRests == /\ LoopIdle
             /\ \A v \in Users : usr[v].on = "loop" => usr[v].stage \notin Midway

-----------------------------------------------------------------------------
(* Waiters of both: completion, cancellation, resume *)

\* continuation.resume() on the loop thread, of a waiter whose users are at us.
WakeHere(w, us) ==
    LET u == UserOf(w)
        suspended == us[u].stage = "suspended" /\ CallOf(u, us[u].round) = w
        next == IF Kind(u) = "consume" THEN "woken" ELSE "ended"
    IN  /\ usr' = IF suspended THEN [us EXCEPT ![u].stage = next, ![u].on = "loop"] ELSE us
        /\ fault' = ~suspended

\* resume_waiter on thread t.
Wake(w, t, us) ==
    \/ w \notin armed /\ usr' = us /\ UNCHANGED <<resumes, fault>>
    \/ w \in armed /\ t = "loop" /\ WakeHere(w, us) /\ UNCHANGED resumes
    \/ /\ w \in armed /\ t = "other" /\ usr' = us
       /\ resumes' = Append(resumes, w) /\ UNCHANGED fault

\* Mutant of CancelWait: completed is not tested.
CancelWaitAnyway(w, t, us) ==
    /\ done' = [done EXCEPT ![w] = "cancelled"]
    /\ Wake(w, t, us)
\* cancel_waiter on thread t.
CancelWait(w, t, us) ==
    \/ /\ done[w] = "none"
       /\ done' = [done EXCEPT ![w] = "cancelled"]
       /\ Wake(w, t, us)
    \/ done[w] # "none" /\ usr' = us /\ UNCHANGED <<done, resumes, fault>>

\* The first n active waiters of queue q leave it, completed; u will resume them.
Complete(u, q, n, stage) ==
    LET active == ActiveOf(queue[q], done)
        ready == SubSeq(active, 1, IF n < Len(active) THEN n ELSE Len(active))
        now == [w \in Calls |-> IF InQueue(w, ready) THEN "completed" ELSE done[w]]
    IN  /\ done' = now
        /\ queue' = [queue EXCEPT ![q] = PruneInactive(@, now)]
        /\ usr' = [usr EXCEPT ![u].ready = ready,
                              ![u].stage = IF ready = <<>> THEN "ended" ELSE stage]
        /\ permits' = IF q = "sem" THEN permits + (n - Len(ready)) ELSE permits
        /\ taken' = IF q = "sem" THEN taken \cup {UserOf(ready[i]) : i \in 1..Len(ready)} ELSE taken

\* The end of notify and release: the completed waiters are resumed in turn.
ResumeReady(u) ==
    /\ Runs(u) /\ At(u, "resuming")
    /\ LET left == Tail(usr[u].ready)
       IN  Wake(Head(usr[u].ready), usr[u].on,
                [usr EXCEPT ![u].ready = left,
                            ![u].stage = IF left = <<>> THEN "ended" ELSE "resuming"])
    /\ UNCHANGED <<mutexButFault, script, shared, halted, program>>

\* The loop runs the oldest posted resume.
RunResume ==
    /\ LoopRests /\ resumes # <<>>
    /\ resumes' = Tail(resumes)
    /\ WakeHere(Head(resumes), usr)
    /\ UNCHANGED <<mutexButFault, script, shared, halted, program>>

-----------------------------------------------------------------------------
(* The mutex, and the programs around it *)

\* The user calls lock() or try_lock(), on the thread where it is.
Begins(u, k) ==
    /\ usr' = [usr EXCEPT ![u].stage = "locking", ![u].call = CallOf(u, k)]
    /\ thread' = [thread EXCEPT ![CallOf(u, k)] = usr[u].on]
    /\ UNCHANGED <<locked, waiters, outcome, pc, stopped, posted, fault, script, shared,
                   resumes, halted, program>>
FirstLock(u) ==
    /\ ~fault /\ At(u, "new") /\ Kind(u) \in {"lock", "try", "consume", "produce"}
    /\ Begins(u, IF Kind(u) = "try" THEN TryCall ELSE 0)

\* A step of it.
LockStep(u) ==
    /\ At(u, "locking") /\ (thread[usr[u].call] = "loop" => LoopClear(u))
    /\ Lock(usr[u].call) \/ TryLock(usr[u].call)
    /\ UNCHANGED syncVars

Holds(u) == At(u, "locking") /\ pc[usr[u].call] = "held"
\* What u does with the lock, on the thread where it got it, up to unlock().
UnlockAt(u, stage) ==
    /\ Unlock(usr[u].call)
    /\ usr' = [usr EXCEPT ![u].stage = stage, ![u].on = thread[usr[u].call]]
    /\ UNCHANGED <<script, shared, resumes, halted, permits, issued, taken>>
LoopAllows(u) == thread[usr[u].call] = "loop" => LoopClear(u)

\* lock and try just unlock.
LetGo(u) ==
    /\ Kind(u) \in {"lock", "try"} /\ Holds(u) /\ LoopAllows(u)
    /\ UnlockAt(u, "ended") /\ UNCHANGED items

\* A consumer takes an item, or leaves when its wait was cancelled.
Consume(u) ==
    /\ Kind(u) = "consume" /\ Holds(u) /\ LoopAllows(u)
    /\ LET leaves == usr[u].round > 0 /\ done[Waiter(u)] = "cancelled"
       IN  \/ leaves /\ UNCHANGED items
           \/ ~leaves /\ items > 0 /\ items' = items - 1
    /\ UnlockAt(u, "ended")

\* A producer adds an item, unlocks, and then notifies.
Produce(u) ==
    /\ Kind(u) = "produce" /\ Holds(u) /\ LoopAllows(u)
    /\ items' = items + 1
    /\ UnlockAt(u, "notifying")

-----------------------------------------------------------------------------
(* async_condition_variable *)

\* wait, until its stop callback: the predicate is false, and a new waiter is queued.
CvPush(u) ==
    /\ Kind(u) = "consume" /\ Holds(u) /\ LoopAllows(u) /\ ~fault
    /\ items = 0 /\ usr[u].round < MaxWaits
    /\ usr[u].round > 0 => done[Waiter(u)] # "cancelled"
    /\ usr' = [usr EXCEPT ![u].stage = "pushed", ![u].on = thread[usr[u].call],
                          ![u].round = @ + 1]
    /\ queue' = [queue EXCEPT !["cv"] = Append(@, CallOf(u, usr[u].round + 1))]
    /\ UNCHANGED <<vars, script, done, armed, resumes, halted, program>>

\* stop_callback.emplace: it runs at once when the stop has been requested; nothing
\* can be resumed yet.
CvRegister(u) ==
    /\ Runs(u) /\ At(u, "pushed")
    /\ \/ u \in halted /\ CancelWait(Waiter(u), usr[u].on, GoTo(u, "registered"))
       \/ u \notin halted /\ usr' = GoTo(u, "registered") /\ UNCHANGED <<done, resumes, fault>>
    /\ UNCHANGED <<mutexButFault, script, queue, armed, halted, program>>

\* mutex.unlock()
CvUnlock(u) ==
    /\ At(u, "registered") /\ LoopAllows(u)
    /\ UnlockAt(u, "unlocked") /\ UNCHANGED items

\* await_ready
CvReady(u) ==
    /\ Runs(u) /\ At(u, "unlocked")
    /\ usr' = GoTo(u, IF done[Waiter(u)] # "none" THEN "woken" ELSE "suspending")
    /\ UNCHANGED <<vars, script, shared, resumes, halted, program>>

\* await_suspend: the continuation is set before the mutex is taken ...
CvArm(u) ==
    /\ Runs(u) /\ At(u, "suspending")
    /\ usr' = GoTo(u, "arming") /\ armed' = armed \cup {Waiter(u)}
    /\ UNCHANGED <<vars, script, queue, done, resumes, halted, program>>

\* Mutant of CvDecide: completed is not tested again.
CvDecideBlindly(u) ==
    /\ Runs(u) /\ At(u, "arming")
    /\ usr' = GoTo(u, "suspended")
    /\ UNCHANGED <<vars, script, shared, resumes, halted, program>>
\* ... and under it a completed wait goes on.
CvDecide(u) ==
    /\ Runs(u) /\ At(u, "arming")
    /\ usr' = GoTo(u, IF done[Waiter(u)] # "none" THEN "woken" ELSE "suspended")
    /\ UNCHANGED <<vars, script, shared, resumes, halted, program>>

\* The end of wait: mutex.lock() again, without a token, cancelled or not.
CvRelock(u) == ~fault /\ At(u, "woken") /\ Begins(u, usr[u].round)

\* notify_one, notify_all: the critical section.
Notify(u) ==
    /\ Runs(u) /\ At(u, "notifying")
    /\ Complete(u, "cv", script[u].n, "resuming")
    /\ UNCHANGED <<vars, script, armed, resumes, halted, items, issued>>

-----------------------------------------------------------------------------
(* async_semaphore *)

TakePermit(u) ==
    /\ permits > 0 /\ permits' = permits - 1 /\ taken' = taken \cup {u}
    /\ usr' = GoTo(u, "ended")
NoPermit(u, stage) == permits = 0 /\ usr' = GoTo(u, stage) /\ UNCHANGED <<permits, taken>>

\* acquire: await_ready.
SemReady(u) ==
    /\ Runs(u) /\ At(u, "new") /\ Kind(u) = "acquire"
    /\ queue' = [queue EXCEPT !["sem"] = PruneInactive(@, done)]
    /\ TakePermit(u) \/ NoPermit(u, "ready")
    /\ UNCHANGED <<vars, script, done, armed, resumes, halted, items, issued>>

TryAcquire(u) ==
    /\ Runs(u) /\ At(u, "new") /\ Kind(u) = "take"
    /\ queue' = [queue EXCEPT !["sem"] = PruneInactive(@, done)]
    /\ TakePermit(u) \/ NoPermit(u, "ended")
    /\ UNCHANGED <<vars, script, done, armed, resumes, halted, items, issued>>

\* await_suspend: a stopped call gives up.
SemCheckStop(u) ==
    /\ Runs(u) /\ At(u, "ready")
    /\ \/ /\ u \in halted /\ usr' = GoTo(u, "ended")
          /\ done' = [done EXCEPT ![Waiter(u)] = "cancelled"] /\ UNCHANGED armed
       \/ /\ u \notin halted /\ usr' = GoTo(u, "queueing")
          /\ armed' = armed \cup {Waiter(u)} /\ UNCHANGED done
    /\ UNCHANGED <<vars, script, queue, resumes, halted, program>>

\* Mutant of SemEnqueue: the permits are not tested again.
SemEnqueueBlindly(u) ==
    /\ Runs(u) /\ At(u, "queueing")
    /\ usr' = GoTo(u, "registering")
    /\ queue' = [queue EXCEPT !["sem"] = Append(PruneInactive(@, done), Waiter(u))]
    /\ UNCHANGED <<vars, script, done, armed, resumes, halted, program>>
\* await_suspend, its first critical section.
SemEnqueue(u) ==
    /\ Runs(u) /\ At(u, "queueing")
    /\ LET q == PruneInactive(queue["sem"], done)
       IN  \/ TakePermit(u) /\ queue' = [queue EXCEPT !["sem"] = q]
           \/ NoPermit(u, "registering") /\ queue' = [queue EXCEPT !["sem"] = Append(q, Waiter(u))]
    /\ UNCHANGED <<vars, script, done, armed, resumes, halted, items, issued>>

\* await_suspend, stop_callback.emplace.
SemRegister(u) ==
    /\ Runs(u) /\ At(u, "registering")
    /\ \/ u \in halted /\ CancelWait(Waiter(u), usr[u].on, GoTo(u, "deciding"))
       \/ u \notin halted /\ usr' = GoTo(u, "deciding") /\ UNCHANGED <<done, resumes, fault>>
    /\ UNCHANGED <<mutexButFault, script, queue, armed, halted, program>>

\* await_suspend, its last critical section.
SemDecide(u) ==
    /\ Runs(u) /\ At(u, "deciding")
    /\ usr' = GoTo(u, IF done[Waiter(u)] # "none" THEN "ended" ELSE "suspended")
    /\ UNCHANGED <<vars, script, shared, resumes, halted, program>>

\* release(n): the critical section.
Release(u) ==
    /\ Runs(u) /\ At(u, "new") /\ Kind(u) = "release"
    /\ issued' = issued + script[u].n
    /\ Complete(u, "sem", script[u].n, "resuming")
    /\ UNCHANGED <<vars, script, armed, resumes, halted, items>>

-----------------------------------------------------------------------------
(* Stops, and the specification *)

\* The stages at which the callback of a wait or an acquire is registered.
Registered == {"registered", "unlocked", "suspending", "arming", "deciding", "suspended"}

\* request_stop on the token of u's wait or acquire.
Halt(u, t) ==
    /\ ~fault /\ script[u].stop /\ Kind(u) \in {"consume", "acquire"} /\ u \notin halted
    /\ t \in StopThreads /\ (t = "loop" => LoopRests)
    /\ halted' = halted \cup {u}
    /\ \/ usr[u].stage \in Registered /\ CancelWait(Waiter(u), t, usr)
       \/ usr[u].stage \notin Registered /\ UNCHANGED <<usr, done, resumes, fault>>
    /\ UNCHANGED <<mutexButFault, script, queue, armed, program>>

\* ... and on the token of a lock.
HaltLock(u, t) ==
    /\ Kind(u) = "lock" /\ script[u].stop /\ (t = "loop" => LoopRests)
    /\ RequestStop(usr[u].call, t)
    /\ UNCHANGED syncVars

\* Steps of a call that has begun.
Continue(u) ==
    \/ LockStep(u) \/ LetGo(u) \/ Consume(u) \/ Produce(u)
    \/ CvPush(u) \/ CvRegister(u) \/ CvUnlock(u) \/ CvReady(u) \/ CvArm(u) \/ CvDecide(u)
    \/ CvRelock(u) \/ Notify(u) \/ ResumeReady(u)
    \/ SemCheckStop(u) \/ SemEnqueue(u) \/ SemRegister(u) \/ SemDecide(u)
RunLoop == \/ LoopRests /\ RunPosted /\ UNCHANGED syncVars
           \/ RunResume

SyncNext ==
    \/ \E u \in Users : Continue(u) \/ FirstLock(u) \/ SemReady(u) \/ TryAcquire(u)
                        \/ Release(u)
    \/ \E u \in Users, t \in Threads : Halt(u, t) \/ HaltLock(u, t)
    \/ RunLoop

SyncSpec == SyncInit /\ [][SyncNext]_allVars

\* A user that has begun goes on, a holder unlocks in the end, and the loop runs
\* what is posted; nobody has to begin or to request a stop.
FairSyncSpec ==
    SyncSpec /\ WF_allVars(RunLoop \/ \E u \in Users : Continue(u))

-----------------------------------------------------------------------------
(* Properties *)

\* Consumers that were notified and have not looked at the items since, and
\* producers that have not notified yet.
OnTheirWay == {u \in Users : Kind(u) = "consume" /\ usr[u].round > 0
                                /\ ~At(u, "ended") /\ done[Waiter(u)] = "completed"}
ToNotify == {u \in Users : At(u, "notifying")}

\* No notification is lost, to a wait that has not suspended yet or to one that is
\* cancelled: while somebody waits, every item has a consumer on its way to it or a
\* producer about to notify (sync.hpp:1025-1141).
NoLostNotification ==
    (\E i \in 1..Len(queue["cv"]) : done[queue["cv"][i]] = "none") =>
        items <= Cardinality(OnTheirWay) + Cardinality(ToNotify)

\* Every permit is in permits_ or with one user, a cancelled acquire has none, and
\* nobody waits beside a permit, whichever threads release, take and cancel
\* (sync.hpp:657-779).
PermitsKept ==
    /\ permits + Cardinality(taken) = issued
    /\ \A u \in taken : done[CallOf(u, 0)] # "cancelled"
    /\ permits > 0 => ActiveAt(queue["sem"], done) = {}

\* A user is in the middle of lock(), or of a wait or an acquire that has been
\* notified, granted, cancelled or stopped.
Pending(u) ==
    \/ At(u, "locking") /\ pc[usr[u].call] \in Mid \cup {"suspended"}
    \/ usr[u].stage \in Registered /\ (done[Waiter(u)] # "none" \/ u \in halted)

\* Nobody stays there: every lock that has begun ends, if holders unlock, and every
\* wait and acquire that is completed or stopped goes on, unless there is a double
\* resume (sync.hpp:441-485, 696-739, 1058-1097).
SyncCallsEnd == []<>(fault \/ \A u \in Users : ~Pending(u))
=============================================================================

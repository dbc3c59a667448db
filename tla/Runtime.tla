------------------------------ MODULE Runtime ------------------------------
(***************************************************************************)
(* uv_runtime, its timers and what is built on them: post and call, the    *)
(* destructor, sleep_for and sleep_until, steady_timer, wait_for_stop,     *)
(* blocking, the periodic tasks (runtime.hpp, runtime.cpp) and with_timeout*)
(* and its relatives (control.hpp).                                        *)
(*                                                                         *)
(* A member of Ops is a coroutine, or a thread for "call" and "destroy".   *)
(* Coroutines run on the loop thread; one with `outside' awaits its first  *)
(* sleep on another thread, as under run_with_runtime.  A controlled call  *)
(* is an op whose contenders are ops with that op as parent.  Stop tokens  *)
(* are <<"own", o>>, <<"cancel", o>> for the cancel_source of a controlled *)
(* call and <<"timer", n>> for the n-th cancel_source_ of the steady_timer.*)
(* Time counts parts of a millisecond, of which Ms make one.  The model    *)
(* halts at a fault: a coroutine resumed twice, or an exception that leaves*)
(* a libuv callback, drain() or a stop callback.                           *)
(***************************************************************************)
EXTENDS Integers, SequencesExt

CONSTANTS Ops,
          Scenarios,  \* what the ops are
          Stoppable,  \* ops whose own token may be stopped
          Ms,         \* units of time in a millisecond
          MaxTime,    \* the time at which the clock of the model ends
          None

Waits == {"wait", "wait2"}
Periodic == {"every", "immediate", "rate"}
Sleeps == {"sleep", "until", "timer", "timeout"}
Kinds == Waits \cup Periodic \cup Sleeps
         \cup {"blocking", "control", "call", "destroy", "arm", "cancel", "none"}

\* A contender belongs to a controlled call, as the wait for its stop always does,
\* only a sleep is awaited outside the loop thread, and a periodic task refuses an
\* interval of no milliseconds.
Calls == [kind : Kinds, n : Int, parent : Ops \cup {None}, outside : BOOLEAN]
ASSUME RuntimeAssumption ==
    /\ Ms \in Nat \ {0} /\ MaxTime \in Nat
    /\ IsFiniteSet(Ops) /\ None \notin Ops /\ Stoppable \subseteq Ops
    /\ Scenarios \subseteq [Ops -> Calls]
    /\ \A c \in Scenarios, o \in Ops :
          /\ c[o].parent # None => c[c[o].parent].kind = "control"
          /\ c[o].kind = "wait2" => c[o].parent # None
          /\ c[o].outside => c[o].kind = "sleep"
          /\ c[o].kind \in Periodic => c[o].n >= Ms

VARIABLES call,      \* what each op is: kind, n (a time), parent, outside
          pc, result,
          queue,     \* queue_: the closures handed to post
          inline,    \* contenders that when_any has still to start
          watch,     \* the tokens on which each op has a stop callback
          token,     \* the token an op was given
          stopped,   \* tokens that are stopped
          due,       \* when the timer of a sleep fires, 0 without a timer
          delay,     \* the delay of the sleep in milliseconds
          completed, \* timer_wait_state::completed
          resumed,   \* timer_wait_state::resumed or stop_wait_state::resumed
          uv,        \* what the thread pool has of the work of blocking
          ran,       \* blocking ops whose function has been called
          ticks, began, next,   \* periodic tasks: ticks, start, next_deadline
          timer,     \* the steady_timer: expiry_ and its cancel_source_
          shut,      \* the destructor: "no", "flag", "walked" or "exited"
          now, fault

sleepVars == <<due, delay, completed>>
workVars == <<uv, ran>>
tickVars == <<ticks, began, next>>
endVars == <<pc, result, queue, watch, stopped, resumed, fault>>
vars == <<call, endVars, inline, token, sleepVars, workVars, tickVars, timer,
          shut, now>>

Kind(o) == call[o].kind
Parent(o) == call[o].parent

Init ==
    /\ call \in Scenarios
    /\ pc = [o \in Ops |-> "new"] /\ result = [o \in Ops |-> "none"]
    /\ queue = <<>> /\ inline = <<>> /\ watch = [o \in Ops |-> {}]
    /\ token = [o \in Ops |-> IF Parent(o) = None THEN <<"own", o>>
                              ELSE <<"cancel", Parent(o)>>]
    /\ stopped = {} /\ due = [o \in Ops |-> 0] /\ delay = [o \in Ops |-> 0]
    /\ completed = {} /\ resumed = {}
    /\ uv = [o \in Ops |-> "idle"] /\ ran = {}
    /\ ticks = [o \in Ops |-> 0] /\ began = [o \in Ops |-> 0]
    /\ next = [o \in Ops |-> 0]
    /\ timer = [expiry |-> 0, source |-> 0] /\ shut = "no"
    /\ now = 0 /\ fault = None

\* The loop thread is between two callbacks.
Idle == fault = None /\ inline = <<>> /\ shut # "exited"
ToMs(t) == t \div Ms      \* duration_cast<milliseconds>

-----------------------------------------------------------------------------
(* Stop callbacks and the end of a coroutine *)

\* The closures that the callbacks of a token post.
Closure(o) ==
    CASE Kind(o) \in Waits -> <<"resume", o>>
      [] Kind(o) = "blocking" -> <<"cancelwork", o>>
      [] OTHER -> <<"cancel", o>>
Watchers(tok, w) == {o \in Ops : tok \in w[o] /\ (Kind(o) \in Waits => o \notin resumed)}
Callbacks(tok, w) == SetToSeq({Closure(o) : o \in Watchers(tok, w)})

\* request_stop(): the callbacks run at once, and their post may throw.
Stop(tok, w, q) ==
    IF tok \in stopped
    THEN queue' = q /\ UNCHANGED <<stopped, resumed, fault>>
    ELSE /\ stopped' = stopped \cup {tok}
         /\ IF shut # "no" /\ Watchers(tok, w) # {}
            THEN /\ fault' = CHOOSE o \in Watchers(tok, w) : TRUE
                 /\ queue' = q /\ UNCHANGED resumed
            ELSE /\ queue' = q \o Callbacks(tok, w)
                 /\ resumed' = resumed
                        \cup {o \in Watchers(tok, w) : Kind(o) \in Waits}
                 /\ UNCHANGED fault

\* resolve_operation_outcome for the first contender that ends with r: a wait
\* for the stop is a cancellation, whatever it returned.
Outcome(o, r) ==
    CASE Kind(o) = "wait2" -> "cancelled"
      [] Kind(o) = "timeout" /\ r = "ok" -> "timeout"
      [] OTHER -> r

\* Mutant of Finish: the contenders that lost are not told.
FinishAlone(o, r, q) ==
    LET p == Parent(o)
        first == p # None /\ result[p] = "none"
        ends == IF first THEN {o, p} ELSE {o}
    IN  /\ pc' = [x \in Ops |-> IF x \in ends THEN "done" ELSE pc[x]]
        /\ result' = [x \in Ops |-> CASE x = o -> r
                                      [] x # o /\ x \in ends -> Outcome(o, r)
                                      [] OTHER -> result[x]]
        /\ watch' = [watch EXCEPT ![o] = {}]
        /\ queue' = q /\ UNCHANGED <<stopped, resumed, fault>>
\* The coroutine of o ends with r.  The first contender of a controlled call
\* decides its outcome, and when_any stops the others.
Finish(o, r, q) ==
    LET p == Parent(o)
        first == p # None /\ result[p] = "none"
        ends == IF first THEN {o, p} ELSE {o}
    IN  /\ pc' = [x \in Ops |-> IF x \in ends THEN "done" ELSE pc[x]]
        /\ result' = [x \in Ops |-> CASE x = o -> r
                                      [] x # o /\ x \in ends -> Outcome(o, r)
                                      [] OTHER -> result[x]]
        /\ watch' = [watch EXCEPT ![o] = {}]
        /\ IF first THEN Stop(<<"cancel", p>>, watch', q)
           ELSE queue' = q /\ UNCHANGED <<stopped, resumed, fault>>

\* o suspends with callbacks on the tokens toks, and q is the queue then.
Suspend(o, at, toks, q) ==
    /\ pc' = [pc EXCEPT ![o] = at]
    /\ watch' = [watch EXCEPT ![o] = toks]
    /\ queue' = q
    /\ resumed' = resumed \ {o}
    /\ UNCHANGED <<result, stopped, fault>>

\* A stop by another thread between the test of await_suspend and the stop
\* callback, which then runs at once: its closure is posted first.
StopRaces(o) == Parent(o) = None /\ o \in Stoppable /\ shut = "no"
SuspendRaced(o, at, q) ==
    /\ pc' = [pc EXCEPT ![o] = at]
    /\ watch' = [watch EXCEPT ![o] = {token[o]}]
    /\ queue' = q
    /\ stopped' = stopped \cup {token[o]}
    /\ resumed' = resumed \ {o}
    /\ UNCHANGED <<result, fault>>

-----------------------------------------------------------------------------
(* Sleeping *)

\* sleep_for, with what follows a sleep of no time as Ready.
Sleep(o, ms, q, at, Ready) ==
    CASE token[o] \in stopped -> Finish(o, "cancelled", q) /\ UNCHANGED sleepVars
      [] token[o] \notin stopped /\ ms <= 0 -> Ready /\ UNCHANGED sleepVars
      [] token[o] \notin stopped /\ ms > 0 /\ shut # "no" ->
            Finish(o, "error", q) /\ UNCHANGED sleepVars
      [] OTHER ->
            /\ delay' = [delay EXCEPT ![o] = ms]
            /\ completed' = completed \ {o}
            /\ UNCHANGED due
            /\ \/ Suspend(o, at, {token[o]}, Append(q, <<"start", o>>))
               \/ /\ StopRaces(o)
                  /\ SuspendRaced(o, at, q \o << <<"cancel", o>>, <<"start", o>> >>)

\* sleep_until: a deadline that has passed is no sleep.  A fraction of a
\* millisecond is cut off, so that the sleep may end before the deadline.
SleepUntil(o, deadline, q, Ready) ==
    IF deadline <= now /\ token[o] \notin stopped
    THEN Ready /\ UNCHANGED sleepVars
    ELSE Sleep(o, ToMs(deadline - now), q, "asleep", Ready)

\* timer_wait_state::start.  libuv counts from the loop time, which is in whole
\* milliseconds.
StartTimer(o) ==
    /\ due' = IF o \in completed THEN due
              ELSE [due EXCEPT ![o] = (ToMs(now) + delay[o]) * Ms]
    /\ UNCHANGED <<delay, completed>>

\* resume_on_runtime(), which throws during shutdown.
ResumeOnRuntime(o, q) ==
    /\ resumed' = resumed \cup {o}
    /\ IF o \in resumed THEN queue' = q /\ UNCHANGED fault
       ELSE IF shut = "no" THEN queue' = Append(q, <<"resume", o>>) /\ UNCHANGED fault
       ELSE queue' = q /\ fault' = o
    /\ UNCHANGED <<pc, result, watch, stopped>>

\* Mutant of Cancel: a sleep that has been completed is completed again.
CancelAgain(o, q) ==
    /\ completed' = completed \cup {o} /\ due' = [due EXCEPT ![o] = 0]
    /\ queue' = Append(q, <<"resume", o>>) /\ resumed' = resumed \cup {o}
    /\ UNCHANGED <<delay, pc, result, watch, stopped, fault>>
\* timer_wait_state::cancel, and fire for a timer that is due.
Cancel(o, q) ==
    IF o \in completed
    THEN queue' = q /\ UNCHANGED <<sleepVars, pc, result, watch, stopped, resumed, fault>>
    ELSE /\ completed' = completed \cup {o} /\ due' = [due EXCEPT ![o] = 0]
         /\ ResumeOnRuntime(o, q)
         /\ UNCHANGED delay

Fire(o) ==
    /\ Idle /\ due[o] # 0 /\ now >= due[o]
    /\ completed' = completed \cup {o} /\ due' = [due EXCEPT ![o] = 0]
    /\ ResumeOnRuntime(o, queue)
    /\ UNCHANGED <<call, inline, token, delay, workVars, tickVars, timer, shut, now>>

-----------------------------------------------------------------------------
(* Periodic tasks *)

\* The callable is called, unless the task has been stopped.
StartTick(o, q) ==
    IF token[o] \in stopped THEN Finish(o, "stopped", q) /\ UNCHANGED ticks
    ELSE /\ ticks' = [ticks EXCEPT ![o] = @ + 1]
         /\ Suspend(o, "ticking", {}, q)

\* spawn_every and its relatives cut the interval to milliseconds.
Interval(o) == ToMs(call[o].n) * Ms

\* The first slot after now, counted from base.
NextSlot(o, base) ==
    IF base > now THEN base
    ELSE base + (((now - base) \div Interval(o)) + 1) * Interval(o)

SleepInterval(o, q) ==
    Sleep(o, ToMs(call[o].n), q, "asleep", FALSE) /\ UNCHANGED <<ticks, next>>

SleepToSlot(o, base, q) ==
    /\ next' = [next EXCEPT ![o] = NextSlot(o, base)]
    /\ IF ToMs(NextSlot(o, base) - now) > 0 \/ token[o] \in stopped
       THEN Sleep(o, ToMs(NextSlot(o, base) - now), q, "asleep", FALSE) /\ UNCHANGED ticks
       ELSE StartTick(o, q) /\ UNCHANGED sleepVars

BeginPeriodic(o, q) ==
    /\ began' = [began EXCEPT ![o] = now]
    /\ \/ Kind(o) = "every" /\ SleepInterval(o, q)
       \/ Kind(o) = "immediate" /\ StartTick(o, q) /\ UNCHANGED <<next, sleepVars>>
       \/ Kind(o) = "rate" /\ SleepToSlot(o, now + Interval(o), q)
    /\ UNCHANGED <<token, workVars, timer>>

\* Mutant of NextRound: the slot of a tick is not left behind.
NextRoundSameSlot(o) ==
    IF token[o] \in stopped THEN Finish(o, "stopped", queue) /\ UNCHANGED <<sleepVars, ticks, next>>
    ELSE IF Kind(o) = "rate" THEN SleepToSlot(o, next[o], queue)
    ELSE SleepInterval(o, queue)
NextRound(o) ==
    IF token[o] \in stopped THEN Finish(o, "stopped", queue) /\ UNCHANGED <<sleepVars, ticks, next>>
    ELSE IF Kind(o) = "rate" THEN SleepToSlot(o, next[o] + Interval(o), queue)
    ELSE SleepInterval(o, queue)

\* The callable returns, throws, or throws operation_cancelled.
TickEnds(o) ==
    /\ Idle /\ pc[o] = "ticking"
    /\ \/ NextRound(o)
       \/ \E r \in {"error", "stopped"} :
              Finish(o, r, queue) /\ UNCHANGED <<sleepVars, ticks, next>>
    /\ UNCHANGED <<call, inline, token, workVars, began, timer, shut, now>>

-----------------------------------------------------------------------------
(* Waiting for a stop *)

WaitTokens(o) ==
    IF Kind(o) = "wait" THEN {token[o]}
    ELSE {<<"own", Parent(o)>>, <<"cancel", Parent(o)>>}

\* wait_for_stop.  A stop of another thread that comes before await_suspend
\* returns has the coroutine go on at once ("raced"), and resumes it once more
\* by the closure it has posted.
BeginWait(o, q, rest) ==
    LET p == IF Kind(o) = "wait" THEN o ELSE Parent(o)
    IN  /\ \/ /\ WaitTokens(o) \cap stopped # {}
              /\ Finish(o, "requested", q) /\ inline' = rest
           \/ /\ WaitTokens(o) \cap stopped = {}
              /\ Suspend(o, "waiting", WaitTokens(o), q) /\ inline' = rest
           \/ /\ WaitTokens(o) \cap stopped = {} /\ p \in Stoppable /\ shut = "no"
              /\ pc' = [pc EXCEPT ![o] = "raced"] /\ inline' = <<o>> \o rest
              /\ queue' = Append(q, <<"resume", o>>)
              /\ stopped' = stopped \cup {<<"own", p>>}
              /\ resumed' = resumed \cup {o}
              /\ UNCHANGED <<result, watch, fault>>
    /\ UNCHANGED <<token, sleepVars, workVars, tickVars, timer>>

\* The closure of resume_on_runtime().
RunResume(o, q) ==
    CASE pc[o] \notin {"asleep", "waiting"} ->
            /\ fault' = o /\ queue' = q
            /\ UNCHANGED <<pc, result, watch, stopped, resumed, ticks>>
      [] pc[o] = "waiting" -> Finish(o, "requested", q) /\ UNCHANGED ticks
      [] pc[o] = "asleep" /\ token[o] \in stopped ->
            Finish(o, "cancelled", q) /\ UNCHANGED ticks
      [] pc[o] = "asleep" /\ token[o] \notin stopped /\ Kind(o) \in Periodic ->
            StartTick(o, q)
      [] OTHER -> Finish(o, "ok", q) /\ UNCHANGED ticks

-----------------------------------------------------------------------------
(* blocking *)

BeginBlocking(o, q) ==
    /\ CASE token[o] \in stopped -> Finish(o, "cancelled", q)
         [] token[o] \notin stopped /\ shut # "no" -> Finish(o, "error", q)
         [] OTHER -> \/ Suspend(o, "working", {token[o]}, Append(q, <<"startwork", o>>))
                     \/ /\ StopRaces(o)
                        /\ SuspendRaced(o, "working", q \o << <<"cancelwork", o>>, <<"startwork", o>> >>)
    /\ UNCHANGED <<token, sleepVars, workVars, tickVars, timer>>

\* uv_queue_work, unless the work has been cancelled.
StartWork(o, q) ==
    \/ /\ pc[o] = "done" /\ queue' = q
       /\ UNCHANGED <<uv, pc, result, watch, stopped, resumed, fault>>
    \/ /\ pc[o] = "working" /\ queue' = q
       /\ uv' = [uv EXCEPT ![o] = "queued"]
       /\ UNCHANGED <<pc, result, watch, stopped, resumed, fault>>
    \/ pc[o] = "working" /\ Finish(o, "error", q) /\ UNCHANGED uv

\* Mutant of CancelWork: work that runs is given up too.
CancelWorkBusy(o, q) ==
    IF pc[o] = "done"
    THEN queue' = q /\ UNCHANGED <<uv, pc, result, watch, stopped, resumed, fault>>
    ELSE Finish(o, "cancelled", q) /\ UNCHANGED uv
\* The closure of the stop callback: uv_cancel takes queued work only.
CancelWork(o, q) ==
    CASE pc[o] = "done" \/ uv[o] \notin {"idle", "queued"} ->
            queue' = q /\ UNCHANGED <<uv, pc, result, watch, stopped, resumed, fault>>
      [] pc[o] # "done" /\ uv[o] = "idle" ->
            Finish(o, "cancelled", q) /\ UNCHANGED uv
      [] OTHER ->
            /\ uv' = [uv EXCEPT ![o] = "cancelled"]
            /\ queue' = q /\ UNCHANGED <<pc, result, watch, stopped, resumed, fault>>

\* A worker thread calls the function, and comes back.
PoolWork(o) ==
    /\ fault = None /\ uv[o] \in {"queued", "running"}
    /\ uv' = [uv EXCEPT ![o] = IF uv[o] = "queued" THEN "running" ELSE "finished"]
    /\ ran' = ran \cup {o}
    /\ UNCHANGED <<call, endVars, inline, token, sleepVars, tickVars, timer, shut, now>>

\* The after-work callback.
WorkDone(o) ==
    /\ Idle /\ uv[o] \in {"finished", "cancelled"}
    /\ uv' = [uv EXCEPT ![o] = "idle"]
    /\ \E r \in IF uv[o] = "cancelled" THEN {"cancelled"} ELSE {"ok", "threw"} :
           Finish(o, r, queue)
    /\ UNCHANGED <<call, inline, token, sleepVars, ran, tickVars, timer, shut, now>>

-----------------------------------------------------------------------------
(* Controlled calls and the steady_timer *)

Contenders(o, kinds) == SetToSeq({c \in Ops : Parent(c) = o /\ Kind(c) \in kinds})
\* In the order in which when_any starts them.
Starting(o) == Contenders(o, Kinds \ {"timeout", "wait2"})
               \o Contenders(o, {"timeout"}) \o Contenders(o, {"wait2"})

\* run_controlled: the checks, then when_any starts the contenders in turn: the
\* operation, the timeout, the wait for the stop.
BeginControl(o, q, rest) ==
    /\ CASE <<"own", o>> \in stopped -> Finish(o, "cancelled", q) /\ inline' = rest
         [] <<"own", o>> \notin stopped
              /\ \E c \in Ops : /\ Parent(c) = o /\ Kind(c) = "timeout"
                              /\ ToMs(call[c].n) <= 0 ->
               Finish(o, "timeout", q) /\ inline' = rest
         [] OTHER -> /\ Suspend(o, "controlling", {}, q)
                     /\ inline' = Starting(o) \o rest
    /\ UNCHANGED <<token, sleepVars, workVars, tickVars, timer>>

\* expires_at: the cancel_source_ is replaced, also under a wait.
Arm(o, q) ==
    /\ timer' = [expiry |-> now + call[o].n, source |-> timer.source + 1]
    /\ Finish(o, "ok", q)
    /\ UNCHANGED <<token, sleepVars, workVars, tickVars>>

\* steady_timer::wait
BeginTimerWait(o, q) ==
    /\ token' = [token EXCEPT ![o] = <<"timer", timer.source>>]
    /\ CASE <<"timer", timer.source>> \in stopped ->
               Finish(o, "cancelled", q) /\ UNCHANGED sleepVars
         [] <<"timer", timer.source>> \notin stopped /\ ToMs(timer.expiry - now) <= 0 ->
               Finish(o, "ok", q) /\ UNCHANGED sleepVars
         [] <<"timer", timer.source>> \notin stopped /\ ToMs(timer.expiry - now) > 0
              /\ shut # "no" ->
               Finish(o, "error", q) /\ UNCHANGED sleepVars
         [] OTHER ->
               /\ delay' = [delay EXCEPT ![o] = ToMs(timer.expiry - now)]
               /\ completed' = completed \ {o} /\ UNCHANGED due
               /\ Suspend(o, "asleep", {<<"timer", timer.source>>}, Append(q, <<"start", o>>))
    /\ UNCHANGED <<workVars, tickVars, timer>>

BeginSleep(o, q) ==
    /\ \/ Kind(o) \in {"sleep", "timeout"}
          /\ Sleep(o, ToMs(call[o].n), q, "asleep", Finish(o, "ok", q))
       \/ Kind(o) = "until" /\ SleepUntil(o, call[o].n, q, Finish(o, "ok", q))
    /\ UNCHANGED <<token, workVars, tickVars, timer>>

\* The coroutine of o runs for the first time, on the loop.
BeginOp(o, q, rest) ==
    \/ BeginSleep(o, q) /\ inline' = rest
    \/ Kind(o) \in Periodic /\ BeginPeriodic(o, q) /\ inline' = rest
    \/ Kind(o) \in Waits /\ BeginWait(o, q, rest)
    \/ Kind(o) = "blocking" /\ BeginBlocking(o, q) /\ inline' = rest
    \/ Kind(o) = "control" /\ BeginControl(o, q, rest)
    \/ Kind(o) = "timer" /\ BeginTimerWait(o, q) /\ inline' = rest
    \/ Kind(o) = "arm" /\ Arm(o, q) /\ inline' = rest

-----------------------------------------------------------------------------
(* Threads *)

quiet == <<call, inline, token, sleepVars, workVars, tickVars, timer, now>>

\* post(fn) by the thread of o, which throws during shutdown.
Post(o, at, closure, refused) ==
    /\ IF shut = "no"
       THEN /\ queue' = Append(queue, closure)
            /\ pc' = [pc EXCEPT ![o] = at] /\ UNCHANGED result
       ELSE /\ pc' = [pc EXCEPT ![o] = "done"] /\ UNCHANGED queue
            /\ result' = [result EXCEPT ![o] = refused]
    /\ UNCHANGED <<quiet, watch, stopped, resumed, shut, fault>>

\* spawn on another thread: false when the runtime shuts down.
Spawn(o) ==
    /\ fault = None /\ pc[o] = "new" /\ Parent(o) = None /\ ~call[o].outside
    /\ Kind(o) \notin {"call", "destroy", "cancel", "none"}
    /\ Post(o, "spawned", <<"begin", o>>, "refused")

\* call() waits for its closure; the post throws during shutdown.
Call(o) ==
    /\ fault = None /\ pc[o] = "new" /\ Kind(o) = "call"
    /\ Post(o, "calling", <<"call", o>>, "error")

\* steady_timer::cancel by another thread.
CancelTimer(o) ==
    /\ fault = None /\ pc[o] = "new" /\ Kind(o) = "cancel"
    /\ Stop(<<"timer", timer.source>>, watch, queue)
    /\ pc' = [pc EXCEPT ![o] = "done"] /\ result' = [result EXCEPT ![o] = "ok"]
    /\ UNCHANGED <<quiet, watch, shut>>

RequestStop(o) ==
    /\ fault = None /\ o \in Stoppable /\ <<"own", o>> \notin stopped
    /\ Kind(o) \in Waits \cup Periodic \cup {"sleep", "until", "blocking", "control"}
    /\ Parent(o) = None
    /\ Stop(<<"own", o>>, watch, queue)
    /\ UNCHANGED <<quiet, pc, result, watch, shut>>

\* A sleep awaited on another thread: await_suspend has posted the start of the
\* timer when it reads resumed, and goes on at once if that is set.
OutsideSleep(o) ==
    /\ fault = None /\ pc[o] = "new" /\ call[o].outside
    /\ Sleep(o, ToMs(call[o].n), queue, "suspending", Finish(o, "ok", queue))
    /\ UNCHANGED <<call, inline, token, workVars, tickVars, timer, shut, now>>
OutsideDecides(o) ==
    /\ fault = None /\ pc[o] = "suspending"
    /\ IF o \in resumed THEN fault' = o /\ UNCHANGED pc
       ELSE pc' = [pc EXCEPT ![o] = "asleep"] /\ UNCHANGED fault
    /\ UNCHANGED <<quiet, result, queue, watch, stopped, resumed, shut>>

\* ~uv_runtime: no more posts, and a last closure that closes the handles.
Destroy(o) ==
    /\ fault = None /\ pc[o] = "new" /\ Kind(o) = "destroy"
    /\ shut' = "flag" /\ queue' = Append(queue, <<"walk", o>>)
    /\ pc' = [pc EXCEPT ![o] = "closing"]
    /\ UNCHANGED <<quiet, result, watch, stopped, resumed, fault>>

\* The loop ends when it has nothing left, and the destructor with it.
LoopExits(o) ==
    /\ Idle /\ shut = "walked" /\ pc[o] = "closing" /\ queue = <<>>
    /\ \A x \in Ops : uv[x] = "idle"
    /\ shut' = "exited"
    /\ pc' = [pc EXCEPT ![o] = "done"] /\ result' = [result EXCEPT ![o] = "ok"]
    /\ UNCHANGED <<quiet, queue, watch, stopped, resumed, fault>>

-----------------------------------------------------------------------------
(* The loop *)

\* The closure of the destructor: every timer is closed, none is fired.
Walk(q) ==
    /\ shut' = "walked" /\ due' = [o \in Ops |-> 0]
    /\ queue' = q
    /\ UNCHANGED <<pc, result, watch, stopped, resumed, fault>>

RunCall(o, q) ==
    /\ \E r \in {"ok", "threw"} : result' = [result EXCEPT ![o] = r]
    /\ pc' = [pc EXCEPT ![o] = "done"]
    /\ queue' = q /\ UNCHANGED <<watch, stopped, resumed, fault>>

\* drain(): the first closure.
RunPosted ==
    /\ Idle /\ queue # <<>>
    /\ LET what == Head(queue)[1]
           o == Head(queue)[2]
           q == Tail(queue)
           rest == <<call, now>>
       IN  \/ what = "begin" /\ BeginOp(o, q, <<>>) /\ UNCHANGED <<rest, shut>>
           \/ /\ what = "start" /\ StartTimer(o) /\ queue' = q
              /\ UNCHANGED <<rest, pc, result, watch, stopped, resumed, fault, inline, token,
                             workVars, tickVars, timer, shut>>
           \/ /\ what = "cancel" /\ Cancel(o, q)
              /\ UNCHANGED <<rest, inline, token, workVars, tickVars, timer, shut>>
           \/ /\ what = "resume" /\ RunResume(o, q)
              /\ UNCHANGED <<rest, inline, token, sleepVars, workVars, began, next, timer, shut>>
           \/ /\ what = "startwork" /\ StartWork(o, q)
              /\ UNCHANGED <<rest, inline, token, sleepVars, ran, tickVars, timer, shut>>
           \/ /\ what = "cancelwork" /\ CancelWork(o, q)
              /\ UNCHANGED <<rest, inline, token, sleepVars, ran, tickVars, timer, shut>>
           \/ /\ what = "call" /\ RunCall(o, q)
              /\ UNCHANGED <<rest, inline, token, sleepVars, workVars, tickVars, timer, shut>>
           \/ /\ what = "walk" /\ Walk(q)
              /\ UNCHANGED <<rest, inline, token, delay, completed, workVars, tickVars, timer>>

\* The loop thread goes on with a contender, or with a wait that was raced.
RunInline ==
    /\ fault = None /\ inline # <<>>
    /\ LET o == Head(inline)
       IN  \/ pc[o] = "new" /\ BeginOp(o, queue, Tail(inline))
           \/ /\ pc[o] = "raced" /\ Finish(o, "requested", queue) /\ inline' = Tail(inline)
              /\ UNCHANGED <<token, sleepVars, workVars, tickVars, timer>>
    /\ UNCHANGED <<call, shut, now>>

\* The clock stands still when nothing that reads it is left.
TimePasses ==
    /\ fault = None /\ now < MaxTime /\ now' = now + 1
    /\ \E o \in Ops : Kind(o) \in Sleeps \cup Periodic /\ pc[o] # "done"
    /\ UNCHANGED <<call, endVars, inline, token, sleepVars, workVars, tickVars, timer, shut>>

Next ==
    \/ RunPosted \/ RunInline \/ TimePasses
    \/ \E o \in Ops :
           \/ Fire(o) \/ TickEnds(o) \/ PoolWork(o) \/ WorkDone(o)
           \/ Spawn(o) \/ Call(o) \/ CancelTimer(o) \/ RequestStop(o)
           \/ OutsideSleep(o) \/ OutsideDecides(o) \/ Destroy(o) \/ LoopExits(o)

Spec == Init /\ [][Next]_vars

\* The loop runs what is posted and what libuv has for it, a worker thread its
\* work, a thread its code, and functions and callables return: none of them
\* rests for ever while one could go on.  Time, timers and the threads that start
\* and stop the ops may rest.
Running ==
    \/ RunPosted \/ RunInline
    \/ \E o \in Ops : \/ PoolWork(o) \/ WorkDone(o) \/ TickEnds(o)
                     \/ OutsideDecides(o) \/ LoopExits(o)
FairSpec == Spec /\ WF_vars(Running)

-----------------------------------------------------------------------------
(* Properties *)

\* A coroutine is resumed only while it is suspended, and no exception leaves a
\* callback of the loop, however stops, timers and the end of the work race, but
\* in three cases: a sleep awaited outside the loop thread, a wait_for_stop that
\* is stopped while it suspends, and a runtime that is being destroyed
\* (runtime.cpp:54-72, 119-186, 309-459).
FaultsAreKnown ==
    fault # None => call[fault].outside \/ Kind(fault) \in Waits \/ shut # "no"

\* blocking reports operation_cancelled only for a function that has not been
\* called and will not be: once it runs, its own result is reported
\* (runtime.hpp:303-361).
CancelledWorkNeverRan ==
    \A o \in Ops : Kind(o) = "blocking" /\ result[o] = "cancelled" =>
        o \notin ran /\ uv[o] \notin {"queued", "running"}

\* Periodic tasks are never faster than their interval, however long a tick
\* takes, and a lost slot is not made up for: the n-th tick comes no earlier than
\* n intervals after the start (n - 1 for the immediate kind), but for the part
\* of a millisecond that libuv cuts off the time of the loop, and for the fixed
\* rate the part that sleep_until cuts off the delay (runtime.hpp:499-605,
\* runtime.cpp:466-481).
RateBounded ==
    \A o \in Ops : Kind(o) \in Periodic =>
        (ticks[o] - (IF Kind(o) = "immediate" THEN 1 ELSE 0)) * Interval(o)
            <= now - began[o] + (IF Kind(o) = "rate" THEN 2 ELSE 1) * (Ms - 1)

\* Whatever has been told to stop ends: a sleep, a timer wait, a wait, work, a
\* periodic task; so do the contenders of a controlled call that is over, and a
\* destroyed runtime's loop; unless there is a fault or the runtime is gone.
CallerIsOver(o) == Parent(o) # None /\ pc[Parent(o)] = "done"
Over(o) ==
    pc[o] = "done" \/ fault # None \/ (shut # "no" /\ Kind(o) # "destroy")
StoppedOpsEnd ==
    \A o \in Ops :
        (pc[o] = "closing" \/ (pc[o] \notin {"new", "done"}
                               /\ (token[o] \in stopped \/ CallerIsOver(o)))) ~> Over(o)
=============================================================================

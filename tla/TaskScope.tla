----------------------------- MODULE TaskScope -----------------------------
(***************************************************************************)
(* task_scope (include/luvcoro/task_scope.hpp): a parent coroutine spawns  *)
(* children, then joins them.  A child that throws stops its siblings; a   *)
(* stop token given to join stops all of them.                             *)
(*                                                                         *)
(* The children run on the loop thread.  The parent runs there too, or, up *)
(* to its first suspension, on the thread that called run_with_runtime     *)
(* (home = "other"); a child then runs on that thread until spawn returns. *)
(* What two coroutines of one thread do between suspensions does not       *)
(* interleave.  The stop token is stopped by any thread, in two steps      *)
(* (request_stop on the scope, then a message to join).  The completions   *)
(* channel is an unbounded FIFO channel of tokens (module FifoChannel):    *)
(* how many are buffered, whether it is closed, and what the suspended     *)
(* recv of join has been completed with; what threads that meet inside its *)
(* operations do to it is the subject of Channel.                          *)
(***************************************************************************)
EXTENDS Naturals, FiniteSets

CONSTANTS Children,   \* the tasks the parent spawns
          Eager,      \* those that may end before the parent joins
          MayThrow,   \* those that may throw
          MayStop,    \* whether join's stop token may be stopped
          NoChild

ASSUME ScopeAssumption ==
    /\ IsFiniteSet(Children) /\ NoChild \notin Children
    /\ Eager \subseteq Children /\ MayThrow \subseteq Children
    /\ MayStop \in BOOLEAN

VARIABLES active,           \* children spawned and not ended
          first_exception,  \* the child that threw first
          scope_stop,       \* stop_source of the scope has been stopped
          tokens, closed,   \* completions: buffered messages, closed
          child,            \* where each child is
          join_pc, wake,    \* where join is, and what its recv was completed with
          cancelled, result,
          token,            \* join's stop token: the steps of its callback
          home,             \* the thread of the parent: "loop" or "other"
          here              \* the child that runs on the other thread, in spawn

chan == <<tokens, closed, wake>>
threads == <<home, here>>
vars == <<active, first_exception, scope_stop, chan, child, join_pc,
          cancelled, result, token, threads>>

Results == {"none", "ok", "exception", "cancelled", "closed error"}

Init ==
    /\ active = 0 /\ first_exception = NoChild /\ scope_stop = FALSE
    /\ tokens = 0 /\ closed = FALSE
    /\ child = [c \in Children |-> "new"]
    /\ join_pc = "idle" /\ wake = "none" /\ cancelled = FALSE /\ result = "none"
    /\ token = "idle" /\ home \in {"loop", "other"} /\ here = NoChild

\* A message to completions: to the suspended join, else into the buffer.
Send == IF join_pc = "waiting" /\ wake = "none"
        THEN wake' = "value" /\ UNCHANGED <<tokens, closed>>
        ELSE tokens' = tokens + 1 /\ UNCHANGED <<closed, wake>>

\* completions.close(), which completes the suspended recv.
CloseCompletions ==
    /\ closed' = TRUE
    /\ wake' = IF join_pc = "waiting" /\ wake = "none" THEN "closed" ELSE wake
    /\ UNCHANGED tokens

-----------------------------------------------------------------------------
(* The parent spawns, the children run *)

\* The places of a child between its decrement of active and what it then does to
\* completions.
Signalling == {"closing", "sending"}

\* The parent's turn.  On the loop thread no child is in the middle of its end; one
\* that has thrown goes on as soon as the stop it requested has run its callbacks.
ParentsTurn == IF home = "loop"
               THEN \A c \in Children : child[c] \notin {"ending"} \cup Signalling
               ELSE here = NoChild

\* spawn_impl up to the first suspension of the child; on the other thread the
\* child is there until it suspends or ends.
Spawn(c) ==
    /\ join_pc = "idle" /\ ParentsTurn /\ child[c] = "new"
    /\ child' = [child EXCEPT ![c] = "running"]
    /\ active' = active + 1
    /\ here' = IF home = "other" THEN c ELSE here
    /\ UNCHANGED <<first_exception, scope_stop, chan, join_pc, cancelled, result,
                   token, home>>
SpawnReturns ==
    /\ here # NoChild /\ child[here] \in {"running", "done"}
    /\ here' = NoChild
    /\ UNCHANGED <<active, first_exception, scope_stop, chan, child, join_pc, cancelled,
                   result, token, home>>

\* The turn of child c: its thread is not in the middle of another child's end, nor
\* of join.
ChildsTurn(c) ==
    /\ home = "loop" => join_pc \notin {"checking", "looking", "receiving"}
    /\ \A d \in Children \ {c} : child[d] \in Signalling => here \in {c, d}

MayEnd(c) == /\ child[c] = "running" /\ ChildsTurn(c)
             /\ c \in Eager \/ join_pc # "idle"

\* The end of run_child: it is not active any more ...
RunChildEnd(c) ==
    /\ child' = [child EXCEPT ![c] = IF active = 1 THEN "closing" ELSE "sending"]
    /\ active' = active - 1
    /\ UNCHANGED <<first_exception, scope_stop, chan, join_pc, cancelled, result, token,
                   threads>>

\* ... and the last child closes completions, another one sends, which on the
\* closed channel throws inside the detached coroutine.
ChildSignals(c) ==
    /\ child[c] \in Signalling
    /\ child' = [child EXCEPT ![c] = "done"]
    /\ \/ child[c] = "closing" /\ CloseCompletions
       \/ child[c] = "sending" /\ ~closed /\ Send
       \/ child[c] = "sending" /\ closed /\ UNCHANGED chan
    /\ UNCHANGED <<active, first_exception, scope_stop, join_pc, cancelled, result, token,
                   threads>>

\* run_child when the task returns.
ChildReturns(c) == MayEnd(c) /\ RunChildEnd(c)

\* Mutant of ChildThrows: the siblings are not stopped.
ChildThrowsAlone(c) ==
    /\ MayEnd(c) /\ c \in MayThrow
    /\ first_exception' = IF first_exception = NoChild THEN c ELSE first_exception
    /\ child' = [child EXCEPT ![c] = "ending"]
    /\ UNCHANGED <<active, scope_stop, chan, join_pc, cancelled, result, token, threads>>
\* run_child: the task throws.  The stop it requests may end siblings before
\* this child goes on.
ChildThrows(c) ==
    /\ MayEnd(c) /\ c \in MayThrow
    /\ first_exception' = IF first_exception = NoChild THEN c ELSE first_exception
    /\ scope_stop' = TRUE
    /\ child' = [child EXCEPT ![c] = "ending"]
    /\ UNCHANGED <<active, chan, join_pc, cancelled, result, token, threads>>

\* run_child after the catch clause.
ChildEnds(c) == child[c] = "ending" /\ ChildsTurn(c) /\ RunChildEnd(c)

-----------------------------------------------------------------------------
(* join(stop_token) *)

Registered == join_pc \in {"checking", "looking", "receiving", "waiting"}

\* join up to its loop.  A token that is already stopped runs the callback,
\* which stops the scope and sends.
JoinStart ==
    /\ join_pc = "idle" /\ ParentsTurn
    /\ join_pc' = "checking"
    /\ \/ /\ token = "idle"
          /\ UNCHANGED <<scope_stop, chan>>
       \/ /\ token # "idle"
          /\ scope_stop' = TRUE
          /\ IF closed THEN UNCHANGED chan ELSE Send
    /\ UNCHANGED <<active, first_exception, child, cancelled, result, token, threads>>

\* The end of join once no child is active; c: cancelled by now.
Finish(c) == /\ join_pc' = "done"
             /\ result' = IF first_exception # NoChild THEN "exception"
                          ELSE IF c THEN "cancelled" ELSE "ok"

\* One turn of the loop of join: it asks its token,
JoinCheck ==
    /\ join_pc = "checking" /\ join_pc' = "looking"
    /\ cancelled' = (cancelled \/ token # "idle")
    /\ scope_stop' = (scope_stop \/ cancelled')
    /\ UNCHANGED <<active, first_exception, child, chan, result, token, threads>>

\* looks at the number of active children,
JoinLook ==
    /\ join_pc = "looking"
    /\ \/ active = 0 /\ Finish(cancelled)
       \/ active # 0 /\ join_pc' = "receiving" /\ UNCHANGED result
    /\ UNCHANGED <<active, first_exception, scope_stop, child, chan, cancelled, token,
                   threads>>

\* The closed error of recv: the catch clause looks again.
Caught == \/ active = 0 /\ Finish(cancelled)
          \/ active # 0 /\ join_pc' = "done" /\ result' = "closed error"

\* and receives: a message that is there, or the closed error, or it suspends.
JoinReceive ==
    /\ join_pc = "receiving"
    /\ \/ /\ tokens > 0 /\ tokens' = tokens - 1
          /\ join_pc' = "checking" /\ UNCHANGED <<closed, wake, result>>
       \/ tokens = 0 /\ closed /\ Caught /\ UNCHANGED chan
       \/ /\ tokens = 0 /\ ~closed
          /\ join_pc' = "waiting" /\ UNCHANGED <<chan, result>>
    /\ UNCHANGED <<active, first_exception, scope_stop, child, cancelled, token, threads>>

\* Mutant of JoinResume: the message of one child ends join.
JoinResumeOnce ==
    /\ join_pc = "waiting" /\ wake # "none"
    /\ wake' = "none" /\ home' = "loop" /\ Finish(cancelled)
    /\ UNCHANGED <<active, first_exception, scope_stop, tokens, closed, child,
                   cancelled, token, here>>
\* The suspended recv comes back, on the loop thread: with a message, and the loop
\* turns, or with the closed error.
JoinResume ==
    /\ join_pc = "waiting" /\ wake # "none"
    /\ \A c \in Children : child[c] \notin Signalling
    /\ wake' = "none" /\ home' = "loop"
    /\ \/ wake = "value" /\ join_pc' = "checking" /\ UNCHANGED result
       \/ wake = "closed" /\ Caught
    /\ UNCHANGED <<active, first_exception, scope_stop, tokens, closed, child,
                   cancelled, token, here>>

-----------------------------------------------------------------------------
(* The stop token given to join, stopped by any thread *)

\* The callback, if join has registered it, stops the scope ...
RequestStop ==
    /\ MayStop /\ token = "idle" /\ join_pc # "done"
    /\ \/ Registered /\ token' = "callback" /\ scope_stop' = TRUE
       \/ ~Registered /\ token' = "stopped" /\ UNCHANGED scope_stop
    /\ UNCHANGED <<active, first_exception, chan, child, join_pc, cancelled, result,
                   threads>>

\* ... and then wakes join; send throws on the closed channel.
CallbackSend ==
    /\ token = "callback" /\ token' = "stopped"
    /\ IF closed THEN UNCHANGED chan ELSE Send
    /\ UNCHANGED <<active, first_exception, scope_stop, child, join_pc, cancelled,
                   result, threads>>

-----------------------------------------------------------------------------
Child(c) == \/ Spawn(c) \/ ChildReturns(c) \/ ChildThrows(c) \/ ChildEnds(c)
            \/ ChildSignals(c)
Join == JoinStart \/ JoinCheck \/ JoinLook \/ JoinReceive \/ JoinResume

Next == SpawnReturns \/ Join \/ RequestStop \/ CallbackSend \/ \E c \in Children : Child(c)

Spec == Init /\ [][Next]_vars

\* The loop goes on, and a child ends once the scope is stopped.
Fairness ==
    /\ WF_vars(JoinCheck) /\ WF_vars(JoinLook) /\ WF_vars(JoinReceive)
    /\ WF_vars(JoinResume) /\ WF_vars(CallbackSend)
    /\ \A c \in Children : /\ WF_vars(ChildEnds(c)) /\ WF_vars(ChildSignals(c))
                           /\ WF_vars(scope_stop /\ ChildReturns(c))
FairSpec == Spec /\ Fairness

-----------------------------------------------------------------------------
(* Properties *)

Running == {c \in Children : child[c] \in {"running", "ending"}}

\* join has come back with a result of its own, not with the error of the
\* completions channel.
Joined == join_pc = "done" /\ result # "closed error"

\* Structured concurrency: when join comes back with its result, no child of
\* the scope is still running, and the result is the failure exactly if one of
\* them has thrown.
JoinWaitsForChildren ==
    Joined => /\ Running = {}
              /\ result = "exception" <=> first_exception # NoChild

\* The closed error of completions becomes the result of join only while a child runs:
\* on another thread the last child may end, and close completions, between join's
\* look at active and its recv (task_scope.hpp:91-123).
ClosedErrorNeedsChild ==
    [][Running = {} => result' # "closed error" \/ result = result']_vars

\* Once the scope is stopped, by a failure or by the token, or its last child has
\* ended, join ends: it never sleeps past what should wake it.  And if no child runs
\* by then, it ends with a result of its own.
JoinEnds ==
    /\ (join_pc # "idle" /\ (first_exception # NoChild \/ token # "idle" \/ Running = {}))
           ~> join_pc = "done"
    /\ ClosedErrorNeedsChild
=============================================================================

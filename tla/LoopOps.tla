------------------------------ MODULE LoopOps ------------------------------
(***************************************************************************)
(* What the models of servers, processes and watchers share: the ops, each *)
(* a call made once, the queue of uv_runtime::post and the stop tokens.  An *)
(* op runs in a coroutine of the loop thread or, with `outside', on another *)
(* thread.  busy holds what the loop thread is in the middle of, where      *)
(* another thread may come between.  The model halts at a fault: a closure  *)
(* that uses an awaiter that is gone, an exception that leaves a callback   *)
(* of libuv, or a handle whose data is gone.                                *)
(***************************************************************************)
EXTENDS Naturals, Sequences, FiniteSets

CONSTANTS Ops,
          Scenarios,  \* what the ops are
          None

VARIABLES call,     \* kind, arg, outside, stoppable
          pc, result,
          queue,    \* queue_: closures handed to post
          stopped,  \* ops whose token is stopped
          busy, fault

opVars == <<call, pc, result, queue, stopped, busy, fault>>

Kind(o) == call[o].kind
Arg(o) == call[o].arg

OpsInit ==
    /\ call \in Scenarios
    /\ pc = [o \in Ops |-> "new"] /\ result = [o \in Ops |-> "none"]
    /\ queue = <<>> /\ stopped = {} /\ busy = None /\ fault = None

\* The loop thread is between two callbacks.
Idle == fault = None /\ busy = None
\* A coroutine calls kind.
Begins(o, kind) == Idle /\ pc[o] = "new" /\ Kind(o) = kind /\ ~call[o].outside
\* Another thread does.
BeginsOutside(o, kind) == fault = None /\ pc[o] = "new" /\ Kind(o) = kind /\ call[o].outside

\* A function of one value, and one function over another, as in module TLC, whose
\* operators a proof cannot expand.
d :> e == [x \in {d} |-> e]
f @@ g == [x \in (DOMAIN f) \cup (DOMAIN g) |-> IF x \in DOMAIN f THEN f[x] ELSE g[x]]

\* Ops end, with their results in f.
End(f) ==
    /\ pc' = [o \in Ops |-> IF o \in DOMAIN f THEN "done" ELSE pc[o]]
    /\ result' = f @@ result
At(o, where) == pc' = [pc EXCEPT ![o] = where] /\ UNCHANGED result
Nobody == [o \in {} |-> "none"]

\* The closure at the front of the queue is <<what, x>>.
Posted(what, x) == Idle /\ queue # <<>> /\ Head(queue) = <<what, x>>

\* request_stop by another thread.  The stop callback of an accept or a wait that
\* is suspended posts a closure.
RequestStop(o) ==
    /\ fault = None /\ call[o].stoppable /\ o \notin stopped
    /\ stopped' = stopped \cup {o}
    /\ queue' = IF pc[o] = "waiting" THEN Append(queue, <<"cancel", o>>) ELSE queue
    /\ UNCHANGED <<call, pc, result, busy, fault>>
=============================================================================

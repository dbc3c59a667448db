---------------------------- MODULE WaiterQueue ----------------------------
(***************************************************************************)
(* The queues of waiters of sync.hpp.  A waiter that is cancelled while it *)
(* is queued stays there, inactive, until prune_inactive meets it at the   *)
(* front.  out[w] is what waiter w was completed with, "none" while it is  *)
(* active.                                                                 *)
(***************************************************************************)
EXTENDS Naturals, Sequences, FiniteSets

Least(S) == CHOOSE i \in S : \A j \in S : i <= j

ActiveAt(q, out) == {i \in 1..Len(q) : out[q[i]] = "none"}

PruneInactive(q, out) ==
    IF ActiveAt(q, out) = {} THEN <<>>
    ELSE SubSeq(q, Least(ActiveAt(q, out)), Len(q))

\* The active waiters in order: those that a loop of pop_front and prune_inactive
\* yields.
Nth(A, i) == CHOOSE j \in A : Cardinality({h \in A : h <= j}) = i
ActiveOf(q, out) ==
    [i \in 1..Cardinality(ActiveAt(q, out)) |-> q[Nth(ActiveAt(q, out), i)]]

InQueue(w, q) == \E i \in 1..Len(q) : q[i] = w
=============================================================================

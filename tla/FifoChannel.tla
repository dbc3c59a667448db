---------------------------- MODULE FifoChannel ----------------------------
(***************************************************************************)
(* What message_channel promises, with no threads, waiters, timers or      *)
(* wake-ups: values leave in the order in which they were accepted, each   *)
(* to one receiver; a send that fails leaves no value behind; closing      *)
(* refuses new values and drops at most the latest ones (those of senders  *)
(* still suspended); a receiver hears of the close only once the channel   *)
(* is drained.                                                             *)
(***************************************************************************)
EXTENDS Naturals, Sequences

CONSTANTS Senders, Receivers, NoValue

VARIABLES queue,      \* accepted values that no receiver has, oldest first
          got,        \* the value each receiver was given
          failed,     \* senders that were told their value was not accepted
          gave_up,    \* receivers that left without a value
          saw_closed, \* receivers that left because the channel is closed
          open

fvars == <<queue, got, failed, gave_up, saw_closed, open>>

Init ==
    /\ queue = <<>>
    /\ got = [r \in Receivers |-> NoValue]
    /\ failed = {} /\ gave_up = {} /\ saw_closed = {}
    /\ open = TRUE

\* A sender whose value has neither been accepted nor refused.
Unsent(s) == /\ s \notin failed
             /\ \A i \in 1..Len(queue) : queue[i] # s
             /\ \A r \in Receivers : got[r] # s
Waiting(r) == got[r] = NoValue /\ r \notin gave_up \cup saw_closed

Send(s) == /\ open /\ Unsent(s)
           /\ queue' = Append(queue, s)
           /\ UNCHANGED <<got, failed, gave_up, saw_closed, open>>

\* A value meets a waiting receiver: nothing may be queued before it.
HandOff(s, r) == /\ open /\ Unsent(s) /\ Waiting(r) /\ queue = <<>>
                 /\ got' = [got EXCEPT ![r] = s]
                 /\ UNCHANGED <<queue, failed, gave_up, saw_closed, open>>

Refuse(s) == /\ Unsent(s)
             /\ failed' = failed \cup {s}
             /\ UNCHANGED <<queue, got, gave_up, saw_closed, open>>

Recv(r) == /\ Waiting(r) /\ queue # <<>>
           /\ got' = [got EXCEPT ![r] = Head(queue)]
           /\ queue' = Tail(queue)
           /\ UNCHANGED <<failed, gave_up, saw_closed, open>>

GiveUp(r) == /\ Waiting(r)
             /\ gave_up' = gave_up \cup {r}
             /\ UNCHANGED <<queue, got, failed, saw_closed, open>>

SeeClosed(r) == /\ Waiting(r) /\ ~open /\ queue = <<>>
                /\ saw_closed' = saw_closed \cup {r}
                /\ UNCHANGED <<queue, got, failed, gave_up, open>>

Close(n, R) ==
    /\ open' = FALSE
    /\ queue' = SubSeq(queue, 1, n)
    /\ failed' = failed \cup {queue[i] : i \in (n + 1)..Len(queue)}
    /\ \A r \in R : Waiting(r)
    /\ R # {} => queue = <<>>
    /\ saw_closed' = saw_closed \cup R
    /\ UNCHANGED <<got, gave_up>>

Next ==
    \/ \E s \in Senders : Send(s) \/ Refuse(s) \/ \E r \in Receivers : HandOff(s, r)
    \/ \E r \in Receivers : Recv(r) \/ GiveUp(r) \/ SeeClosed(r)
    \/ \E n \in 0..Len(queue), R \in SUBSET Receivers : Close(n, R)

Spec == Init /\ [][Next]_fvars
=============================================================================

------------------------------ MODULE Channel ------------------------------
(***************************************************************************)
(* message_channel<T> (include/luvcoro/message.hpp): a closable FIFO       *)
(* channel, bounded (Capacity > 0) or unbounded (Capacity = 0), shared by  *)
(* coroutines on a libuv loop thread and by external OS threads.           *)
(*                                                                         *)
(* The actors are operation instances: each member of Ops is one call of   *)
(* one member function, made once, by a coroutine on the loop thread (if   *)
(* it is in OnLoop) or by another thread.  An operation's waiter object    *)
(* and, for a send, the value it carries are named by the operation.       *)
(*                                                                         *)
(* Every critical section under state->mutex is one atomic action; what    *)
(* the code does after unlocking (finalize_after_unlock) is a later step.  *)
(* A resume of a coroutine that is not suspended, or a call through a null *)
(* timer, is undefined behaviour: it sets fault and the model stops.       *)
(***************************************************************************)
EXTENDS WaiterQueue, FiniteSets

CONSTANTS Ops,         \* operation instances
          Kind,        \* which member function each of them calls
          OnLoop,      \* the operations made on the loop thread
          Capacity,    \* bound of the buffer, 0 for none
          MayShutDown, \* whether the runtime's destructor may run
          NoOp         \* no operation / no value

SendKinds == {"send", "try_send", "async_send"}
AwaitKinds == {"recv", "recv_for", "recv_poll"}
Kinds == SendKinds \cup AwaitKinds \cup {"try_recv", "blocking_next", "close"}

ASSUME ChannelAssumption ==
    /\ IsFiniteSet(Ops)
    /\ Kind \in [Ops -> Kinds]
    /\ OnLoop \subseteq Ops
    /\ Capacity \in Nat
    /\ MayShutDown \in BOOLEAN
    /\ NoOp \notin Ops

VARIABLES
    \* state guarded by state->mutex
    messages, receiver_waiters, sender_waiters,
    ready_receivers, ready_senders, closed,
    \* waiters and callers
    outcome,        \* result of each operation, "none" while its waiter is active
    value,          \* message received by each operation
    pc,             \* where each operation is
    fin,            \* what it must still do after the unlock
    timer,          \* the recv_for timer of each operation
    \* loop thread
    resuming,       \* waiters a flush has taken and has not resumed yet
    async_pending, async_closing,
    posted,         \* closures handed to uv_runtime::post, in order
    shutting_down,
    fault           \* the first undefined behaviour met

chan == <<messages, receiver_waiters, sender_waiters, ready_receivers,
          ready_senders, closed>>
loopv == <<resuming, async_pending, async_closing, posted, shutting_down, fault>>
vars == <<chan, outcome, value, pc, fin, timer, loopv>>

Outcomes == {"none", "value", "sent", "closed", "timeout", "empty",
             "full", "refused", "error", "aborted"}
PCs == {"start", "iter", "ready", "posting", "suspended", "final", "blocked",
        "woken", "done"}
\* An operation of the loop thread in one of these is running, not suspended.
Mid == {"iter", "ready", "posting", "final"}
Timers == {"none", "created", "armed", "canceled", "closed"}

Fins == [wake : BOOLEAN, notify : BOOLEAN, timers : SUBSET Ops]
NoFin == [wake |-> FALSE, notify |-> FALSE, timers |-> {}]
\* A closure given to uv_runtime::post and the timers it is about.
Closure(what, T) == [what |-> what, timers |-> T]
Closures == [what : {"close", "start", "cancel", "walk"}, timers : SUBSET Ops]

Init ==
    /\ messages = <<>> /\ receiver_waiters = <<>> /\ sender_waiters = <<>>
    /\ ready_receivers = <<>> /\ ready_senders = <<>> /\ closed = FALSE
    /\ outcome = [o \in Ops |-> "none"]
    /\ value = [o \in Ops |-> NoOp]
    /\ pc = [o \in Ops |-> "start"]
    /\ fin = [o \in Ops |-> NoFin]
    /\ timer = [o \in Ops |-> "none"]
    /\ resuming = <<>> /\ posted = <<>>
    /\ async_pending = FALSE /\ async_closing = FALSE
    /\ shutting_down = FALSE /\ fault = "none"

-----------------------------------------------------------------------------
(* The waiter queues.  A timed out receiver stays in its queue, inactive,  *)
(* until prune_waiters meets it at the front.                              *)

ActiveIdx(q) == {i \in 1..Len(q) : outcome[q[i]] = "none"}
\* Mutant of Prune: waiters that are no longer active are not skipped.
PruneNothing(q) == q
Prune(q) == IF ActiveIdx(q) = {} THEN <<>>
            ELSE SubSeq(q, Least(ActiveIdx(q)), Len(q))

\* The active waiters of q in order: those a pop_..._waiter_locked loop yields.
\* Mutant of ActiveWaiters: the waiters are popped from the back.
ActiveFromBack(q) == LET A == ActiveIdx(q)
                     IN  [i \in 1..Cardinality(A) |-> q[Nth(A, Cardinality(A) + 1 - i)]]
ActiveWaiters(q) == [i \in 1..Cardinality(ActiveIdx(q)) |-> q[Nth(ActiveIdx(q), i)]]

\* Mutant of HasBufferCapacity: one too many.
HasOneMore == Capacity = 0 \/ Len(messages) <= Capacity
HasBufferCapacity == Capacity = 0 \/ Len(messages) < Capacity

CanSendNow ==
    /\ ~closed
    /\ Prune(sender_waiters) = <<>>
    /\ Prune(receiver_waiters) # <<>> \/ HasBufferCapacity

\* The waiter still owns a timer exactly while nothing has completed it.
HasTimer(o) == timer[o] # "none" /\ outcome[o] = "none"
TimersOf(q) == {o \in Ops : HasTimer(o) /\ \E i \in 1..Len(q) : q[i] = o}

(* pump_locked in closed form, for a buffer m.  The values on offer are the *)
(* buffered ones and then those of the suspended senders.  Its first loop   *)
(* hands the first k of them to the k first active receivers; its second    *)
(* refills the buffer from the senders.                                     *)
Pump(m) ==
    LET R == receiver_waiters
        S == ActiveWaiters(sender_waiters)
        A == ActiveIdx(R)
        supply == m \o S
        n == Len(supply)
        k == IF Cardinality(A) <= n THEN Cardinality(A) ELSE n
        b == IF Capacity = 0 \/ n <= k + Capacity THEN n ELSE k + Capacity
    IN  [messages |-> SubSeq(supply, k + 1, b),
         senders |-> SubSeq(supply, b + 1, n),
         receivers |-> IF Cardinality(A) <= n THEN <<>>
                       ELSE SubSeq(R, Nth(A, k + 1), Len(R)),
         served |-> SubSeq(ActiveWaiters(R), 1, k),
         given |-> SubSeq(supply, 1, k),
         freed |-> SubSeq(S, 1, b - Len(m)),
         wake |-> k > 0 \/ b > Len(m),
         notify |-> k > 0 /\ m # <<>>]

\* Mutant of TakeFront: the message is read and left in the buffer.
TakeFrontByCopy == Pump(messages)
\* What taking the front message, or the first suspended sender's, leaves.
TakeFront ==
    IF messages # <<>> THEN Pump(Tail(messages))
    ELSE [messages |-> <<>>,
          senders |-> Tail(Prune(sender_waiters)),
          receivers |-> receiver_waiters,
          served |-> <<>>, given |-> <<>>,
          freed |-> <<Head(Prune(sender_waiters))>>,
          wake |-> TRUE, notify |-> FALSE]

Available == messages # <<>> \/ Prune(sender_waiters) # <<>>
Front == Head(messages \o Prune(sender_waiters))
InSeq(x, q) == \E i \in 1..Len(q) : q[i] = x

-----------------------------------------------------------------------------
(* Threads.  A loop-thread operation runs when no other one is in the      *)
(* middle of its code; the loop turns when none is and no resume is due.   *)

LoopThreadFree(o) == \A p \in OnLoop \ {o} : pc[p] \notin Mid
CanRun(o) == fault = "none" /\ (o \in OnLoop => LoopThreadFree(o))
LoopIdle == /\ fault = "none"
            /\ resuming = <<>>
            /\ \A p \in OnLoop : pc[p] \notin Mid

\* Mutant of Leave: an early return that skips finalize_after_unlock.
LeaveAtOnce(o, f) == /\ pc' = [pc EXCEPT ![o] = "done"]
                     /\ fin' = [fin EXCEPT ![o] = f]
\* Leave the critical section: done, or with work left for Finalize.
Leave(o, f) ==
    /\ pc' = [pc EXCEPT ![o] = IF f = NoFin THEN "done" ELSE "final"]
    /\ fin' = [fin EXCEPT ![o] = f]

\* Leave with an outcome and no change to the channel.
Fail(o, why) ==
    /\ outcome' = [outcome EXCEPT ![o] = why]
    /\ Leave(o, NoFin)
    /\ UNCHANGED <<messages, sender_waiters, ready_receivers, ready_senders,
                   closed, value, timer, loopv>>

-----------------------------------------------------------------------------
(* Sending *)

\* place_send_locked: to the first active receiver, else into the buffer.
PlaceSend(o) ==
    LET R == Prune(receiver_waiters)
        r == Head(R)
    IN  /\ IF R # <<>>
           THEN /\ receiver_waiters' = Tail(R)
                /\ ready_receivers' = Append(ready_receivers, r)
                /\ outcome' = [outcome EXCEPT ![r] = "value", ![o] = "sent"]
                /\ value' = [value EXCEPT ![r] = o]
                /\ messages' = messages
                /\ Leave(o, [wake |-> TRUE, notify |-> FALSE,
                             timers |-> TimersOf(<<r>>)])
           ELSE /\ messages' = Append(messages, o)
                /\ receiver_waiters' = <<>>
                /\ outcome' = [outcome EXCEPT ![o] = "sent"]
                /\ Leave(o, NoFin)
                /\ UNCHANGED <<ready_receivers, value>>
        /\ UNCHANGED <<sender_waiters, ready_senders, closed, timer, loopv>>

\* The front of every send: the channel is closed, or there is room.
SendClosed(o) == closed /\ Fail(o, "closed") /\ UNCHANGED receiver_waiters
SendNow(o) == CanSendNow /\ PlaceSend(o)

\* can_send_now_locked drops inactive receivers, but only if it gets that far.
PruneOnRefusal ==
    receiver_waiters' = IF Prune(sender_waiters) = <<>>
                        THEN Prune(receiver_waiters) ELSE receiver_waiters

TrySend(o) ==
    /\ CanRun(o) /\ Kind[o] = "try_send" /\ pc[o] = "start"
    /\ \/ SendClosed(o)
       \/ SendNow(o)
       \/ ~closed /\ ~CanSendNow /\ Fail(o, "full") /\ PruneOnRefusal

\* send(): an external thread waits on send_cv, the loop thread may not.
BlockingSend(o) ==
    /\ CanRun(o) /\ Kind[o] = "send" /\ pc[o] \in {"start", "woken"}
    /\ \/ SendClosed(o)
       \/ SendNow(o)
       \/ /\ ~closed /\ ~CanSendNow /\ o \in OnLoop
          /\ Fail(o, "refused") /\ PruneOnRefusal
       \/ /\ ~closed /\ ~CanSendNow /\ o \notin OnLoop
          /\ pc' = [pc EXCEPT ![o] = "blocked"]
          /\ PruneOnRefusal
          /\ UNCHANGED <<messages, sender_waiters, ready_receivers,
                         ready_senders, closed, outcome, value, fin, timer, loopv>>

\* async_send, await_ready: finished at once or about to suspend.
AsyncSendReady(o) ==
    /\ CanRun(o) /\ Kind[o] = "async_send" /\ pc[o] = "start"
    /\ \/ SendClosed(o)
       \/ SendNow(o)
       \/ /\ ~closed /\ ~CanSendNow
          /\ pc' = [pc EXCEPT ![o] = "ready"]
          /\ PruneOnRefusal
          /\ UNCHANGED <<messages, sender_waiters, ready_receivers,
                         ready_senders, closed, outcome, value, fin, timer, loopv>>

\* async_send, await_suspend: the same tests again, then the waiter queue.
AsyncSendSuspend(o) ==
    /\ CanRun(o) /\ Kind[o] = "async_send" /\ pc[o] = "ready"
    /\ \/ SendClosed(o)
       \/ SendNow(o)
       \/ /\ ~closed /\ ~CanSendNow
          /\ sender_waiters' = Append(Prune(sender_waiters), o)
          /\ pc' = [pc EXCEPT ![o] = "suspended"]
          /\ PruneOnRefusal
          /\ UNCHANGED <<messages, ready_receivers, ready_senders, closed,
                         outcome, value, fin, timer, loopv>>

-----------------------------------------------------------------------------
(* Receiving *)

\* Take the front value.  cont: the waiter's continuation is already set, so
\* complete_receiver_value_locked also queues the waiter to be resumed.
\* notify: the caller asks for send_cv whatever pump_locked says.
Receive(o, cont, notify) ==
    LET p == TakeFront
        self == IF cont THEN <<o>> ELSE <<>>
    IN  /\ messages' = p.messages
        /\ sender_waiters' = p.senders
        /\ receiver_waiters' = p.receivers
        /\ ready_receivers' = ready_receivers \o self \o p.served
        /\ ready_senders' = ready_senders \o p.freed
        /\ outcome' = [x \in Ops |->
                          IF x = o \/ InSeq(x, p.served) THEN "value"
                          ELSE IF InSeq(x, p.freed) THEN "sent" ELSE outcome[x]]
        /\ value' = [x \in Ops |->
                        IF x = o THEN Front
                        ELSE IF InSeq(x, p.served)
                        THEN p.given[CHOOSE i \in 1..Len(p.served) : p.served[i] = x]
                        ELSE value[x]]
        /\ Leave(o, [wake |-> p.wake, notify |-> p.notify \/ notify,
                     timers |-> TimersOf(p.served)])
        /\ UNCHANGED <<closed, timer, loopv>>

\* try_recv_locked: a message, a suspended sender's, or the closed error.
TryRecvLocked(o, cont) ==
    \/ /\ Available
       /\ Receive(o, cont, messages # <<>>)
    \/ /\ ~Available /\ closed
       /\ outcome' = [outcome EXCEPT ![o] = "closed"]
       /\ ready_receivers' = IF cont THEN Append(ready_receivers, o)
                             ELSE ready_receivers
       /\ Leave(o, NoFin)
       /\ UNCHANGED <<messages, receiver_waiters, sender_waiters,
                      ready_senders, closed, value, timer, loopv>>

\* try_recv()
TryRecv(o) ==
    /\ CanRun(o) /\ Kind[o] = "try_recv" /\ pc[o] = "start"
    /\ \/ Available /\ Receive(o, FALSE, messages = <<>>)
       \/ ~Available /\ Fail(o, "empty") /\ UNCHANGED receiver_waiters

\* blocking_next(): refused on the loop thread; takes a value, or ends the
\* iteration when closed, or goes on to wait in recv_task.
BlockingNext(o) ==
    /\ CanRun(o) /\ Kind[o] = "blocking_next" /\ pc[o] = "start"
    /\ \/ o \in OnLoop /\ Fail(o, "refused") /\ UNCHANGED receiver_waiters
       \/ o \notin OnLoop /\ Available /\ Receive(o, FALSE, messages = <<>>)
       \/ /\ o \notin OnLoop /\ ~Available /\ closed
          /\ Fail(o, "closed") /\ UNCHANGED receiver_waiters
       \/ /\ o \notin OnLoop /\ ~Available /\ ~closed
          /\ pc' = [pc EXCEPT ![o] = "iter"]
          /\ UNCHANGED <<chan, outcome, value, fin, timer, loopv>>

\* await_ready of recv and recv_for.  A recv_for with a timeout that is not
\* positive (recv_poll) ends here.
RecvReady(o) ==
    /\ CanRun(o)
    /\ \/ Kind[o] \in AwaitKinds /\ pc[o] = "start"
       \/ Kind[o] = "blocking_next" /\ pc[o] = "iter"
    /\ \/ TryRecvLocked(o, FALSE)
       \/ /\ ~Available /\ ~closed /\ Kind[o] = "recv_poll"
          /\ Fail(o, "timeout") /\ UNCHANGED receiver_waiters
       \/ /\ ~Available /\ ~closed /\ Kind[o] # "recv_poll"
          /\ pc' = [pc EXCEPT ![o] = "ready"]
          /\ UNCHANGED <<chan, outcome, value, fin, timer, loopv>>

\* Mutant of RecvSuspend: the channel is not looked at again.
RecvSuspendBlindly(o) ==
    /\ CanRun(o) /\ pc[o] = "ready"
    /\ Kind[o] \in {"recv", "recv_for", "blocking_next"}
    /\ receiver_waiters' = Append(receiver_waiters, o)
    /\ pc' = [pc EXCEPT ![o] = "suspended"]
    /\ UNCHANGED <<messages, sender_waiters, ready_receivers, ready_senders, closed,
                   outcome, value, fin, timer, loopv>>
\* await_suspend of recv and recv_for: the continuation is set first.
RecvSuspend(o) ==
    /\ CanRun(o) /\ pc[o] = "ready"
    /\ Kind[o] \in {"recv", "recv_for", "blocking_next"}
    /\ \/ TryRecvLocked(o, TRUE)
       \/ /\ ~Available /\ ~closed
          /\ receiver_waiters' = Append(receiver_waiters, o)
          /\ IF Kind[o] = "recv_for"
             THEN /\ timer' = [timer EXCEPT ![o] = "created"]
                  /\ pc' = [pc EXCEPT ![o] = "posting"]
             ELSE /\ pc' = [pc EXCEPT ![o] = "suspended"]
                  /\ timer' = timer
          /\ UNCHANGED <<messages, sender_waiters, ready_receivers,
                         ready_senders, closed, outcome, value, fin, loopv>>

\* recv_for after the unlock: post the timer's start, through the waiter's
\* timer pointer, which whoever completed the waiter meanwhile has cleared.
RecvForPost(o) ==
    /\ CanRun(o) /\ pc[o] = "posting" /\ ~shutting_down
    /\ posted' = Append(posted, Closure("start", IF HasTimer(o) THEN {o} ELSE {}))
    /\ pc' = [pc EXCEPT ![o] = "suspended"]
    /\ UNCHANGED <<chan, outcome, value, fin, timer, resuming, async_pending,
                   async_closing, shutting_down, fault>>

\* The same when post throws: await_suspend returns false.
RecvForPostThrows(o) ==
    /\ CanRun(o) /\ pc[o] = "posting" /\ shutting_down
    /\ IF outcome[o] = "none"
       THEN /\ outcome' = [outcome EXCEPT ![o] = "error"]
            /\ ready_receivers' = Append(ready_receivers, o)
            /\ Leave(o, [NoFin EXCEPT !.wake = TRUE])
       ELSE Leave(o, NoFin) /\ UNCHANGED <<outcome, ready_receivers>>
    /\ UNCHANGED <<messages, receiver_waiters, sender_waiters, ready_senders,
                   closed, value, timer, loopv>>

-----------------------------------------------------------------------------
(* Closing, and what every operation does after the unlock *)

Close(o) ==
    LET W == ActiveWaiters(receiver_waiters)
        S == ActiveWaiters(sender_waiters)
    IN  /\ CanRun(o) /\ Kind[o] = "close" /\ pc[o] = "start"
        /\ closed' = TRUE
        /\ receiver_waiters' = <<>> /\ sender_waiters' = <<>>
        /\ ready_receivers' = ready_receivers \o W
        /\ ready_senders' = ready_senders \o S
        /\ outcome' = [x \in Ops |-> IF x = o \/ InSeq(x, W) \/ InSeq(x, S)
                                     THEN "closed" ELSE outcome[x]]
        /\ pc' = [pc EXCEPT ![o] = "final"]
        /\ fin' = [fin EXCEPT ![o] = [wake |-> ~closed, notify |-> TRUE,
                                      timers |-> TimersOf(W)]]
        /\ UNCHANGED <<messages, value, timer, loopv>>

\* flush_ready_waiters: a flush inside a resumed coroutine runs before the
\* rest of the outer one.
Flush ==
    /\ resuming' = ready_receivers \o ready_senders \o resuming
    /\ ready_receivers' = <<>> /\ ready_senders' = <<>>

\* Mutant of NotifyBlockedSenders: nobody is notified.
NotifyNoSender(o) == [pc EXCEPT ![o] = "done"]
NotifyBlockedSenders(o) ==
    [p \in Ops |-> IF p = o THEN "done"
                   ELSE IF fin[o].notify /\ pc[p] = "blocked" THEN "woken"
                   ELSE pc[p]]

\* cancel_timers: the closures it posts, one per timer, commute and are taken
\* together; post fails during shutdown.
CancelPosts(o) ==
    IF shutting_down \/ fin[o].timers = {} THEN <<>>
    ELSE <<Closure("cancel", fin[o].timers)>>

\* finalize_after_unlock: send_cv, the timers, then the ready waiters, which
\* the loop thread resumes itself and another thread asks the loop to resume.
Finalize(o) ==
    /\ CanRun(o) /\ Kind[o] # "close" /\ pc[o] = "final"
    /\ pc' = NotifyBlockedSenders(o)
    /\ posted' = posted \o CancelPosts(o)
    /\ IF fin[o].wake /\ o \in OnLoop
       THEN Flush /\ UNCHANGED <<outcome, async_pending>>
       ELSE /\ UNCHANGED <<ready_receivers, ready_senders, resuming>>
            /\ async_pending' = (async_pending \/ (fin[o].wake /\ ~async_closing))
            /\ outcome' = IF fin[o].wake /\ async_closing
                          THEN [outcome EXCEPT ![o] = "aborted"] ELSE outcome
    /\ UNCHANGED <<messages, receiver_waiters, sender_waiters, closed, value,
                   fin, timer, async_closing, shutting_down, fault>>

\* Mutant of FinalizeClose: the closure that wakes the loop is not posted.
FinalizeCloseQuietly(o) ==
    /\ CanRun(o) /\ Kind[o] = "close" /\ pc[o] = "final"
    /\ pc' = NotifyBlockedSenders(o)
    /\ UNCHANGED <<chan, outcome, value, fin, timer, loopv>>
\* The tail of close(): its closure is posted once, and not during shutdown.
FinalizeClose(o) ==
    /\ CanRun(o) /\ Kind[o] = "close" /\ pc[o] = "final"
    /\ pc' = NotifyBlockedSenders(o)
    /\ posted' = posted \o CancelPosts(o) \o
                 (IF fin[o].wake /\ ~shutting_down
                  THEN <<Closure("close", {})>> ELSE <<>>)
    /\ outcome' = IF fin[o].wake /\ shutting_down
                  THEN [outcome EXCEPT ![o] = "aborted"] ELSE outcome
    /\ UNCHANGED <<chan, value, fin, timer, resuming, async_pending,
                   async_closing, shutting_down, fault>>

-----------------------------------------------------------------------------
(* The loop thread *)

\* waiter->continuation.resume(): await_resume finds nothing left to do.
Resume ==
    /\ fault = "none" /\ resuming # <<>>
    /\ \A p \in OnLoop : pc[p] \notin Mid
    /\ resuming' = Tail(resuming)
    /\ IF pc[Head(resuming)] = "suspended"
       THEN pc' = [pc EXCEPT ![Head(resuming)] = "done"] /\ fault' = fault
       ELSE fault' = "resumed while not suspended" /\ pc' = pc
    /\ UNCHANGED <<chan, outcome, value, fin, timer, async_pending,
                   async_closing, posted, shutting_down>>

\* on_async
OnAsync ==
    /\ LoopIdle /\ async_pending /\ ~async_closing
    /\ async_pending' = FALSE
    /\ Flush
    /\ UNCHANGED <<messages, receiver_waiters, sender_waiters, closed, outcome,
                   value, pc, fin, timer, async_closing, posted, shutting_down, fault>>

\* Run the oldest posted closure (uv_runtime::drain).
RunPosted(what) ==
    /\ LoopIdle /\ posted # <<>> /\ Head(posted).what = what
    /\ posted' = Tail(posted)

\* The closure close() posts.
RunClose ==
    /\ RunPosted("close")
    /\ Flush
    /\ async_closing' = TRUE
    /\ UNCHANGED <<messages, receiver_waiters, sender_waiters, closed, outcome,
                   value, pc, fin, timer, async_pending, shutting_down, fault>>

\* timer_state::start.  A timer that is canceled, or whose receiver has been
\* completed, is not armed.
RunTimerStart ==
    /\ RunPosted("start")
    /\ LET T == Head(posted).timers
       IN  /\ fault' = IF T = {} THEN "null timer started" ELSE fault
           /\ timer' = [o \in Ops |->
                          IF o \in T /\ timer[o] = "created" /\ outcome[o] = "none"
                          THEN "armed" ELSE timer[o]]
    /\ UNCHANGED <<chan, outcome, value, pc, fin, resuming, async_pending,
                   async_closing, shutting_down>>

\* The same when libuv refuses the timer: fail() completes the receiver.
RunTimerStartFails ==
    /\ RunPosted("start")
    /\ \E o \in Head(posted).timers :
          /\ timer[o] = "created" /\ outcome[o] = "none"
          /\ timer' = [timer EXCEPT ![o] = "closed"]
          /\ outcome' = [outcome EXCEPT ![o] = "error"]
          /\ resuming' = ready_receivers \o <<o>> \o ready_senders
    /\ ready_receivers' = <<>> /\ ready_senders' = <<>>
    /\ UNCHANGED <<messages, receiver_waiters, sender_waiters, closed, value, pc,
                   fin, async_pending, async_closing, shutting_down, fault>>

\* timer_state::cancel
RunTimerCancel ==
    /\ RunPosted("cancel")
    /\ timer' = [o \in Ops |-> IF o \in Head(posted).timers THEN "canceled"
                              ELSE timer[o]]
    /\ UNCHANGED <<chan, outcome, value, pc, fin, resuming, async_pending,
                   async_closing, shutting_down, fault>>

\* Mutants of TimerFire: completed is not tested; the waiter is not flushed.
TimerFireAgain(o) ==
    /\ LoopIdle /\ timer[o] = "armed"
    /\ timer' = [timer EXCEPT ![o] = "closed"]
    /\ outcome' = [outcome EXCEPT ![o] = "timeout"]
    /\ resuming' = <<o>>
    /\ UNCHANGED <<chan, value, pc, fin, async_pending, async_closing, posted,
                   shutting_down, fault>>
TimerFireNoFlush(o) ==
    /\ LoopIdle /\ timer[o] = "armed" /\ outcome[o] = "none"
    /\ timer' = [timer EXCEPT ![o] = "closed"]
    /\ outcome' = [outcome EXCEPT ![o] = "timeout"]
    /\ ready_receivers' = Append(ready_receivers, o)
    /\ UNCHANGED <<messages, receiver_waiters, sender_waiters, ready_senders, closed,
                   value, pc, fin, loopv>>
\* timer_state::fire: complete the waiter if nobody has, and flush.
TimerFire(o) ==
    /\ LoopIdle /\ timer[o] = "armed"
    /\ timer' = [timer EXCEPT ![o] = "closed"]
    /\ LET expired == outcome[o] = "none"
       IN  /\ outcome' = IF expired THEN [outcome EXCEPT ![o] = "timeout"] ELSE outcome
           /\ resuming' = ready_receivers \o (IF expired THEN <<o>> ELSE <<>>)
                          \o ready_senders
    /\ ready_receivers' = <<>> /\ ready_senders' = <<>>
    /\ UNCHANGED <<messages, receiver_waiters, sender_waiters, closed, value, pc,
                   fin, async_pending, async_closing, posted, shutting_down, fault>>

\* ~uv_runtime: no post is accepted any more; a last closure closes every handle.
ShutDown ==
    /\ MayShutDown /\ fault = "none" /\ ~shutting_down
    /\ shutting_down' = TRUE
    /\ posted' = Append(posted, Closure("walk", {}))
    /\ UNCHANGED <<chan, outcome, value, pc, fin, timer, resuming,
                   async_pending, async_closing, fault>>

RunWalk ==
    /\ RunPosted("walk")
    /\ async_closing' = TRUE
    /\ timer' = [o \in Ops |-> IF timer[o] = "armed" THEN "closed" ELSE timer[o]]
    /\ UNCHANGED <<chan, outcome, value, pc, fin, resuming, async_pending,
                   shutting_down, fault>>

-----------------------------------------------------------------------------
Call(o) == \/ TrySend(o) \/ BlockingSend(o) \/ AsyncSendReady(o)
           \/ TryRecv(o) \/ BlockingNext(o) \/ RecvReady(o) \/ Close(o)
Continue(o) == \/ AsyncSendSuspend(o) \/ RecvSuspend(o) \/ RecvForPost(o)
               \/ RecvForPostThrows(o) \/ Finalize(o) \/ FinalizeClose(o)
LoopCallback == Resume \/ OnAsync \/ RunClose \/ RunTimerStart
                \/ RunTimerStartFails \/ RunTimerCancel \/ RunWalk

Next == \/ \E o \in Ops : Call(o) \/ Continue(o) \/ TimerFire(o)
        \/ LoopCallback
        \/ ShutDown

Spec == Init /\ [][Next]_vars

(* A call that has begun goes on, a notified thread gets the mutex, and the *)
(* loop runs its callbacks; nobody has to begin a call.                     *)
Fairness ==
    /\ \A o \in Ops : /\ WF_vars(Continue(o))
                      /\ WF_vars(pc[o] \in {"woken", "iter"} /\ Call(o))
                      /\ WF_vars(TimerFire(o))
    /\ WF_vars(LoopCallback)
FairSpec == Spec /\ Fairness
-----------------------------------------------------------------------------
(* Properties *)

\* Every variable has its type.
TypeOK ==
    /\ messages \in Seq(Ops) /\ receiver_waiters \in Seq(Ops)
    /\ sender_waiters \in Seq(Ops) /\ ready_receivers \in Seq(Ops)
    /\ ready_senders \in Seq(Ops) /\ resuming \in Seq(Ops)
    /\ closed \in BOOLEAN /\ async_pending \in BOOLEAN
    /\ async_closing \in BOOLEAN /\ shutting_down \in BOOLEAN
    /\ outcome \in [Ops -> Outcomes]
    /\ value \in [Ops -> Ops \cup {NoOp}]
    /\ pc \in [Ops -> PCs]
    /\ fin \in [Ops -> Fins]
    /\ timer \in [Ops -> Timers]
    /\ posted \in Seq(Closures)
    /\ fault \in {"none", "resumed while not suspended", "null timer started"}

\* A receiver waits only on an open channel that has nothing for it: no
\* message in the buffer and no suspended sender.
ReceiversWaitOnEmpty ==
    ActiveIdx(receiver_waiters) # {} =>
        messages = <<>> /\ sender_waiters = <<>> /\ ~closed

\* A sender is suspended only on an open bounded channel whose buffer is
\* full, and the buffer never holds more than its capacity.
SendersWaitOnFull ==
    /\ sender_waiters # <<>> => Capacity > 0 /\ Len(messages) = Capacity /\ ~closed
    /\ Capacity > 0 => Len(messages) <= Capacity

\* Where the value of send s is: places in the buffer, suspended senders
\* that hold it and receivers that have been given it.
Copies(s) == Cardinality({i \in 1..Len(messages) : messages[i] = s})
             + Cardinality({i \in 1..Len(sender_waiters) : sender_waiters[i] = s})
             + Cardinality({r \in Ops : value[r] = s})
Accepted(s) == outcome[s] \in {"sent", "aborted"} \/ InSeq(s, sender_waiters)

\* Exactly-once delivery: a value whose send was accepted is in exactly one
\* place, and one whose send failed (closed, full, refused) is nowhere.
ExactlyOnce ==
    \A s \in Ops : Kind[s] \in SendKinds =>
        Copies(s) = IF Accepted(s) THEN 1 ELSE 0

\* A flush of the ready queues is on its way.
FlushComing ==
    \/ async_pending /\ ~async_closing
    \/ \E i \in 1..Len(posted) : posted[i].what = "close"
    \/ \E o \in Ops : pc[o] = "final" /\ fin[o].wake

\* A suspended coroutine that has been completed is about to be resumed, or
\* is in a ready queue that somebody is going to flush.
NoLostResume ==
    \A o \in Ops : pc[o] = "suspended" /\ outcome[o] # "none" /\ ~shutting_down =>
        \/ InSeq(o, resuming)
        \/ (InSeq(o, ready_receivers) \/ InSeq(o, ready_senders)) /\ FlushComing

\* A thread asleep in send() that could go on has a notification coming.
NoLostSendWakeup ==
    \A s \in Ops : pc[s] = "blocked" /\ (closed \/ CanSendNow) =>
        \E o \in Ops : pc[o] = "final" /\ fin[o].notify

\* No coroutine is resumed unless it is suspended.
ResumedOnlyWhenSuspended == fault # "resumed while not suspended"

\* The timer that recv_for starts is there.
StartedTimerExists == fault # "null timer started"

\* Neither undefined behaviour is met.
NoFault == ResumedOnlyWhenSuspended /\ StartedTimerExists

\* The first completion of a waiter wins: a value, a close and a timeout
\* that race never overwrite one another.
FirstCompletionWins ==
    [][\A o \in Ops : outcome[o] # "none" =>
          outcome'[o] \in {outcome[o], "aborted"} /\ value'[o] = value[o]]_vars

\* recv_for comes back, whatever the senders do.
TimedReceiveEnds ==
    \A o \in {p \in Ops : Kind[p] = "recv_for"} :
        pc[o] = "suspended" ~> pc[o] = "done" \/ fault # "none"

\* Nobody stays suspended or blocked on a closed channel.
CloseReleasesEveryone ==
    closed ~> fault # "none" \/ \A o \in Ops : pc[o] \notin {"suspended", "blocked"}

(* The channel as a FIFO queue: the buffer, then the suspended senders.     *)
ReceiveOps == {o \in Ops : Kind[o] \in AwaitKinds \cup {"try_recv", "blocking_next"}}
SendOps == {o \in Ops : Kind[o] \in SendKinds}
Fifo == INSTANCE FifoChannel WITH
    Senders <- SendOps, Receivers <- ReceiveOps, NoValue <- NoOp,
    queue <- messages \o sender_waiters,
    got <- [r \in ReceiveOps |-> value[r]],
    failed <- {s \in SendOps : outcome[s] \in {"closed", "full", "refused"}},
    gave_up <- {r \in ReceiveOps :
                   \/ outcome[r] \in {"timeout", "empty", "refused", "error"}
                   \/ outcome[r] = "aborted" /\ value[r] = NoOp},
    saw_closed <- {r \in ReceiveOps : outcome[r] = "closed"},
    open <- ~closed

\* The channel implements the FIFO queue: whatever the interleaving of
\* sends, receives, timeouts and close, values are delivered in the order
\* of acceptance, and the closed error is only given once all are delivered.
FifoOrder == Fifo!Spec
=============================================================================

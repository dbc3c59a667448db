------------------------------ MODULE Watchers ------------------------------
(***************************************************************************)
(* signal_set (signal.cpp), and event_watcher and poll_watcher, whose      *)
(* control is the same (fs_watch.cpp).  Callbacks of libuv put events into *)
(* a channel that next() reads; the channel itself is modelled in Channel. *)
(* close() may come from another thread, between any two steps of the loop *)
(* thread.                                                                 *)
(***************************************************************************)
EXTENDS LoopOps

CONSTANT MaxEvents

VARIABLES signals,
    \* set: state_ # nullptr      closed: state::closed
    \* entries: the signals of entries   drained: close() has emptied it
    \* uv: the signals that libuv delivers
          files,
    \* handle: state_->handle # nullptr   closed: state::closed
    \* named: state::path   path, active: path_, active_
    \* uv: the path that libuv watches
          events,   \* the channels: their messages and whether they are closed
          raised    \* how many events there have been

watchVars == <<signals, files, events, raised>>

WatchersInit ==
    /\ signals = [set |-> TRUE, closed |-> FALSE, entries |-> {}, drained |-> FALSE, uv |-> {}]
    /\ files = [handle |-> TRUE, closed |-> FALSE, named |-> None, path |-> None,
                active |-> FALSE, uv |-> None]
    /\ events = [c \in {"signals", "files"} |-> [buf |-> <<>>, closed |-> FALSE]]
    /\ raised = 0

\* next(): what there is, or the end of the channel.
NextEnds(o) ==
    LET c == events[Arg(o)]
    IN  \/ /\ c.buf # <<>> /\ End(o :> "ok")
           /\ events' = [events EXCEPT ![Arg(o)].buf = Tail(@)]
        \/ c.buf = <<>> /\ c.closed /\ End(o :> "closed") /\ UNCHANGED events
NextEvent(o) ==
    /\ Begins(o, "next")
    /\ \/ NextEnds(o)
       \/ /\ events[Arg(o)].buf = <<>> /\ ~events[Arg(o)].closed
          /\ At(o, "receiving") /\ UNCHANGED events
    /\ UNCHANGED <<call, queue, stopped, busy, fault, signals, files, raised>>
NextResumes(o) ==
    /\ Idle /\ pc[o] = "receiving" /\ NextEnds(o)
    /\ UNCHANGED <<call, queue, stopped, busy, fault, signals, files, raised>>

\* The loop thread goes on with something that another thread may get between.
Pause(what) == busy' = what /\ UNCHANGED <<call, pc, result, queue, stopped, fault>>

-----------------------------------------------------------------------------
(* signal_set *)

AddSignal(o) ==
    /\ Begins(o, "add")
    /\ \/ ~signals.set /\ End(o :> "error") /\ UNCHANGED busy
       \/ signals.set /\ o \in stopped /\ End(o :> "cancelled") /\ UNCHANGED busy
       \/ signals.set /\ o \notin stopped /\ busy' = <<"add", o>> /\ At(o, "adding")
    /\ UNCHANGED <<call, queue, stopped, fault, watchVars>>
\* The mutex is taken, after the test of closed.  An entry that comes too late
\* for close() dies with the closure, and its handle goes on.
AddInserts(o) ==
    LET n == Arg(o)
        s == [signals EXCEPT !.entries = @ \cup {n}, !.uv = @ \cup {n}]
    IN  /\ fault = None /\ busy = <<"add", o>> /\ busy' = None
        /\ \/ End(o :> "error") /\ UNCHANGED <<signals, fault>>
           \/ n \in signals.entries /\ End(o :> "ok") /\ UNCHANGED <<signals, fault>>
           \/ /\ n \notin signals.entries /\ End(o :> "ok") /\ signals' = s
              /\ fault' = IF signals.drained THEN o ELSE None
        /\ UNCHANGED <<call, queue, stopped, files, events, raised>>

\* Mutant of Forget: the handle goes on.
ForgetEntry(gone) == signals' = [signals EXCEPT !.entries = @ \ gone]
\* Entries are erased and their handles closed.
Forget(gone) == signals' = [signals EXCEPT !.entries = @ \ gone, !.uv = @ \ gone]
RemoveSignals(o) ==
    /\ Begins(o, "remove") \/ Begins(o, "clear")
    /\ \/ o \in stopped /\ End(o :> "cancelled") /\ UNCHANGED signals
       \/ o \notin stopped /\ ~signals.set /\ End(o :> "ok") /\ UNCHANGED signals
       \/ /\ o \notin stopped /\ signals.set /\ End(o :> "ok")
          /\ Forget(IF Kind(o) = "clear" THEN signals.entries ELSE signals.entries \cap {Arg(o)})
    /\ UNCHANGED <<call, queue, stopped, busy, fault, files, events, raised>>

\* on_signal tests closed and then sends, which throws when the channel has been
\* closed meanwhile.
OnSignal(n) ==
    /\ Idle /\ n \in signals.uv /\ raised < MaxEvents /\ raised' = raised + 1
    /\ IF signals.closed THEN UNCHANGED opVars ELSE Pause(<<"signal", n>>)
    /\ UNCHANGED <<signals, files, events>>
SignalSends ==
    /\ fault = None /\ busy # None /\ busy[1] = "signal" /\ busy' = None
    /\ IF events["signals"].closed THEN fault' = "signal" /\ UNCHANGED events
       ELSE /\ events' = [events EXCEPT !["signals"].buf = Append(@, busy[2])]
            /\ UNCHANGED fault
    /\ UNCHANGED <<call, pc, result, queue, stopped, signals, files, raised>>

\* close() of another thread: the flag, the channel, the entries.
CloseSignals(o) ==
    /\ BeginsOutside(o, "close_signals")
    /\ IF signals.set
       THEN At(o, "flagged") /\ signals' = [signals EXCEPT !.set = FALSE, !.closed = TRUE]
       ELSE End(o :> "ok") /\ UNCHANGED signals
    /\ UNCHANGED <<call, queue, stopped, busy, fault, files, events, raised>>
CloseEvents(o) ==
    /\ fault = None /\ pc[o] = "flagged" /\ At(o, "draining")
    /\ events' = [events EXCEPT ![IF Kind(o) = "close_signals" THEN "signals" ELSE "files"].closed
                                = TRUE]
    /\ UNCHANGED <<call, queue, stopped, busy, fault, signals, files, raised>>
DrainEntries(o) ==
    /\ fault = None /\ pc[o] = "draining" /\ Kind(o) = "close_signals" /\ End(o :> "ok")
    /\ signals' = [signals EXCEPT !.entries = {}, !.drained = TRUE]
    /\ queue' = Append(queue, <<"close_entries", signals.entries>>)
    /\ UNCHANGED <<call, stopped, busy, fault, files, events, raised>>
RunCloseEntries ==
    /\ Idle /\ queue # <<>> /\ Head(queue)[1] = "close_entries" /\ queue' = Tail(queue)
    /\ signals' = [signals EXCEPT !.uv = @ \ Head(queue)[2]]
    /\ UNCHANGED <<call, pc, result, stopped, busy, fault, files, events, raised>>

-----------------------------------------------------------------------------
(* event_watcher and poll_watcher *)

\* start(path): a closed watcher, or an interval that is not positive, is an error.
StartWatch(o) ==
    /\ Begins(o, "start")
    /\ \/ End(o :> "error") /\ UNCHANGED busy
       \/ files.handle /\ o \in stopped /\ End(o :> "cancelled") /\ UNCHANGED busy
       \/ files.handle /\ o \notin stopped /\ busy' = <<"start", o>> /\ At(o, "starting")
    /\ UNCHANGED <<call, queue, stopped, fault, watchVars>>
\* The old watch is stopped and a new one started; when that fails, path_ and
\* active_ still tell of the old one.
StartRuns(o) ==
    /\ fault = None /\ busy = <<"start", o>> /\ busy' = None
    /\ \/ files.closed /\ End(o :> "error") /\ UNCHANGED <<files, fault>>
       \/ /\ ~files.closed /\ ~files.handle /\ fault' = o
          /\ UNCHANGED <<files, pc, result>>
       \/ /\ ~files.closed /\ files.handle /\ End(o :> "error")
          /\ files' = [files EXCEPT !.uv = None] /\ UNCHANGED fault
       \/ /\ ~files.closed /\ files.handle /\ End(o :> "ok")
          /\ files' = [files EXCEPT !.uv = Arg(o), !.named = Arg(o), !.path = Arg(o),
                                    !.active = TRUE]
          /\ UNCHANGED fault
    /\ UNCHANGED <<call, queue, stopped, signals, events, raised>>

StopWatch(o) ==
    /\ Begins(o, "stop")
    /\ \/ o \in stopped /\ End(o :> "cancelled") /\ UNCHANGED files
       \/ /\ o \notin stopped /\ ~(files.handle /\ files.active)
          /\ End(o :> "ok") /\ UNCHANGED files
       \/ /\ o \notin stopped /\ files.handle /\ files.active
          /\ End(o :> "ok")
          /\ files' = [files EXCEPT !.uv = None, !.named = None, !.path = None, !.active = FALSE]
    /\ UNCHANGED <<call, queue, stopped, busy, fault, signals, events, raised>>

OnEvent ==
    /\ Idle /\ files.uv # None /\ raised < MaxEvents /\ raised' = raised + 1
    /\ IF files.closed THEN UNCHANGED opVars ELSE Pause(<<"event", files.uv>>)
    /\ UNCHANGED <<signals, files, events>>
EventSends ==
    /\ fault = None /\ busy # None /\ busy[1] = "event" /\ busy' = None
    /\ IF events["files"].closed THEN fault' = "event" /\ UNCHANGED events
       ELSE /\ events' = [events EXCEPT !["files"].buf = Append(@, <<busy[2], files.named>>)]
            /\ UNCHANGED fault
    /\ UNCHANGED <<call, pc, result, queue, stopped, signals, files, raised>>

\* close() of another thread: the handle, the flag and the paths, the channel, the
\* closure.
CloseWatch(o) ==
    /\ BeginsOutside(o, "close_watch")
    /\ IF files.handle THEN At(o, "detached") /\ files' = [files EXCEPT !.handle = FALSE]
       ELSE End(o :> "ok") /\ UNCHANGED files
    /\ UNCHANGED <<call, queue, stopped, busy, fault, signals, events, raised>>
FlagWatch(o) ==
    /\ fault = None /\ pc[o] = "detached" /\ At(o, "flagged")
    /\ files' = [files EXCEPT !.closed = TRUE, !.named = None, !.path = None, !.active = FALSE]
    /\ UNCHANGED <<call, queue, stopped, busy, fault, signals, events, raised>>
PostCloseWatch(o) ==
    /\ fault = None /\ pc[o] = "draining" /\ Kind(o) = "close_watch" /\ End(o :> "ok")
    /\ queue' = Append(queue, <<"close_watch", o>>)
    /\ UNCHANGED <<call, stopped, busy, fault, watchVars>>
RunCloseWatch(o) ==
    /\ Posted("close_watch", o) /\ queue' = Tail(queue)
    /\ files' = [files EXCEPT !.uv = None]
    /\ UNCHANGED <<call, pc, result, stopped, busy, fault, signals, events, raised>>

-----------------------------------------------------------------------------
WatchersCallback ==
    \/ SignalSends \/ EventSends \/ RunCloseEntries
    \/ \E o \in Ops : \/ AddInserts(o) \/ StartRuns(o) \/ NextResumes(o) \/ RunCloseWatch(o)
                      \/ CloseEvents(o) \/ DrainEntries(o) \/ FlagWatch(o) \/ PostCloseWatch(o)
WatchersStep ==
    \/ WatchersCallback \/ OnEvent \/ \E n \in signals.uv : OnSignal(n)
    \/ \E o \in Ops : \/ AddSignal(o) \/ RemoveSignals(o) \/ NextEvent(o) \/ CloseSignals(o)
                      \/ StartWatch(o) \/ StopWatch(o) \/ CloseWatch(o)
=============================================================================

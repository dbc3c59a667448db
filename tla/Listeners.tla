----------------------------- MODULE Listeners -----------------------------
(***************************************************************************)
(* A server, a process, a signal set and a file watcher on one loop, with  *)
(* what their callbacks and awaiters must keep to.                         *)
(***************************************************************************)
EXTENDS Acceptor, Process, Watchers

Kinds == {"bind", "listen", "accept", "close_server", "spawn", "wait", "kill",
          "close_process", "add", "remove", "clear", "next", "close_signals",
          "start", "stop", "close_watch", "none"}

\* None stands for nothing, and not for a step of the loop thread.
ASSUME ListenersAssumption ==
    /\ MaxConns \in Nat /\ MaxEvents \in Nat
    /\ IsFiniteSet(Ops) /\ None \notin Ops \cup ({"add", "start"} \X Ops)
    /\ \A c \in Scenarios :
          /\ DOMAIN c = Ops
          /\ \A o \in Ops : /\ c[o].kind \in Kinds
                            /\ c[o].kind = "next" => c[o].arg \in {"signals", "files"}

vars == <<opVars, server, procVars, watchVars>>

Init == OpsInit /\ ServerInit /\ ProcessInit /\ WatchersInit

Next ==
    \/ ServerStep /\ UNCHANGED <<procVars, watchVars>>
    \/ ProcessStep /\ UNCHANGED <<server, watchVars>>
    \/ WatchersStep /\ UNCHANGED <<server, procVars>>
    \/ \E o \in Ops : RequestStop(o) /\ UNCHANGED <<server, procVars, watchVars>>

Spec == Init /\ [][Next]_vars

\* The loop runs what is posted, the callbacks of libuv that are due and the
\* coroutines they resume; a thread inside close() goes on.  Calls, stops,
\* connections, signals, events and the end of a child need not come.
Running ==
    \/ (\E o \in Ops : CancelAccept(o) \/ RunDrop(o)) /\ UNCHANGED <<procVars, watchVars>>
    \/ ProcessCallback /\ UNCHANGED <<server, watchVars>>
    \/ WatchersCallback /\ UNCHANGED <<server, procVars>>
FairSpec == Spec /\ WF_vars(Running)

-----------------------------------------------------------------------------
(* Properties *)

Elements(s) == {s[i] : i \in DOMAIN s}

\* No connection is lost or handed out twice: each one that came was given to one
\* accept or is pending, in the order of arrival, or was closed with the server,
\* or was refused by the callback; and no accept sleeps while a connection or an
\* error is there for it (tcp.cpp:430-467, 545-680).
ConnectionsKept ==
    LET kept == server.given \o server.pending
    IN  /\ \A i, j \in DOMAIN kept : i < j => kept[i] < kept[j]
        /\ Elements(kept) \cup server.closed \cup server.lost = 1..server.came
        /\ Len(kept) + Cardinality(server.closed) + Cardinality(server.lost) = server.came
        /\ server.waiter # None => server.pending = <<>> /\ server.status = "ok"

Accepts == {o \in Ops : Kind(o) = "accept" /\ result[o] = "cancelled"}
\* An accept that is stopped leaves UV_ECANCELED behind, which the next accept
\* reports although nobody stopped it: but only one does, and after that the
\* server works again.  Closing the server cancels one more (tcp.cpp:637, 660).
CancelledAcceptsCostOne ==
    Cardinality(Accepts \ stopped)
        <= Cardinality(Accepts \cap stopped) + (IF server.uv = "closed" THEN 1 ELSE 0)

\* wait() reports an exit only when the child it was called for has ended, although
\* states are used again, and a cancellation only when it was stopped or its state
\* closed (process.cpp:48-98, 198-268).
WaitsAnswerTruly ==
    \A o \in Ops : Kind(o) = "wait" =>
        /\ result[o] = "exited" => ~children[proc.child[o]].alive
        /\ result[o] = "cancelled" => o \in stopped \/ proc.closed[proc.on[o]]

Closing(n) == \E i \in DOMAIN queue : queue[i][1] = "close_entries" /\ n \in queue[i][2]
\* What libuv delivers is what the program asked for: a signal that is delivered
\* has its entry, or a closure that closes it; a path that is watched is the one
\* the watcher tells; and an event names the path it came from, unless close()
\* is under way (signal.cpp:83-177, fs_watch.cpp:106-199).
WatchingIsKnown ==
    fault = None =>
        /\ \A n \in signals.uv : n \in signals.entries \/ Closing(n)
        /\ signals.entries \subseteq signals.uv
        /\ files.uv # None => ~files.handle \/ (files.active /\ files.path = files.uv)
        /\ files.handle =>
               \A e \in Elements(events["files"].buf) : e[1] = e[2]

\* Whoever waits ends once it is stopped, its object closed, or its child dead; a
\* closed watcher lets go of its handles (tcp.cpp:430-467, 604-680, process.cpp:198-268,
\* 283-310, signal.cpp:213-243, fs_watch.cpp:170-199).
Due(o) ==
    \/ pc[o] = "waiting" /\ o \in stopped
    \/ pc[o] = "waiting" /\ Kind(o) = "accept" /\ ~server.handle
    \/ pc[o] = "waiting" /\ Kind(o) = "wait" /\ proc.handle[proc.on[o]] # proc.child[o]
    \/ pc[o] = "waiting" /\ Kind(o) = "wait" /\ ~children[proc.child[o]].alive
    \/ pc[o] = "receiving" /\ events[Arg(o)].closed
ListenersEnd ==
    /\ \A o \in Ops : Due(o) ~> (pc[o] = "done" \/ fault # None)
    /\ signals.closed ~> (signals.uv = {} \/ fault # None)
    /\ files.closed ~> (files.uv = None \/ fault # None)
=============================================================================

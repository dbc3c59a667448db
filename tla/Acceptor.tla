------------------------------ MODULE Acceptor ------------------------------
(***************************************************************************)
(* tcp_server and pipe_server, whose control is the same: bind, listen,    *)
(* accept, close and the connection callback (tcp.cpp, pipe.cpp).          *)
(* Connections are numbered as they come.                                  *)
(***************************************************************************)
EXTENDS LoopOps

CONSTANT MaxConns

VARIABLE server
    \* handle, bound, listening: handle_ # nullptr, bound_, listening_
    \* status: accept_status_     waiter: accept_waiter_
    \* pending: pending_clients_  uv: the libuv handle
    \* came: connections so far   given: handed to accept, in order
    \* closed: closed by close    lost: not taken by the callback

ServerInit ==
    server = [handle |-> TRUE, bound |-> FALSE, listening |-> FALSE, status |-> "ok",
              waiter |-> None, pending |-> <<>>, uv |-> "idle", came |-> 0,
              given |-> <<>>, closed |-> {}, lost |-> {}]

Bind(o) ==
    /\ Begins(o, "bind")
    /\ \/ ~server.handle /\ End(o :> "error") /\ UNCHANGED server
       \/ server.handle /\ o \in stopped /\ End(o :> "cancelled") /\ UNCHANGED server
       \/ /\ server.handle /\ o \notin stopped
          /\ \/ End(o :> "error") /\ UNCHANGED server
             \/ End(o :> "ok") /\ server' = [server EXCEPT !.bound = TRUE]
    /\ UNCHANGED <<call, queue, stopped, busy, fault>>

Listen(o) ==
    /\ Begins(o, "listen")
    /\ \/ ~server.bound /\ End(o :> "error") /\ UNCHANGED server
       \/ server.bound /\ o \in stopped /\ End(o :> "cancelled") /\ UNCHANGED server
       \/ /\ server.bound /\ o \notin stopped
          /\ \/ End(o :> "error") /\ UNCHANGED server
             \/ /\ End(o :> "ok")
                /\ server' = [server EXCEPT !.listening = TRUE, !.uv = "listening"]
    /\ UNCHANGED <<call, queue, stopped, busy, fault>>

\* Mutant of AwaitResume: accept_status_ is not reset.
AwaitResumeSticky(o, s) ==
    CASE o \in stopped -> <<s, "cancelled">>
      [] o \notin stopped /\ s.status # "ok" -> <<s, s.status>>
      [] o \notin stopped /\ s.status = "ok" /\ s.pending = <<>> -> <<s, "error">>
      [] OTHER -> <<[s EXCEPT !.pending = Tail(@), !.given = Append(@, Head(s.pending))], "ok">>
\* await_resume of the accept o on the server s: the server after it and what
\* accept reports.  A stopped accept does not reset accept_status_.
AwaitResume(o, s) ==
    CASE o \in stopped -> <<s, "cancelled">>
      [] o \notin stopped /\ s.status # "ok" -> <<[s EXCEPT !.status = "ok"], s.status>>
      [] o \notin stopped /\ s.status = "ok" /\ s.pending = <<>> -> <<s, "error">>
      [] OTHER -> <<[s EXCEPT !.pending = Tail(@), !.given = Append(@, Head(s.pending))], "ok">>

\* The waiter, if there is one, is taken from s and resumed: the server then, and
\* the op that has ended.
ResumeWaiter(s) ==
    IF s.waiter = None THEN <<s, Nobody>>
    ELSE LET r == AwaitResume(s.waiter, [s EXCEPT !.waiter = None])
         IN  <<r[1], s.waiter :> r[2]>>

Accept(o) ==
    LET ready == o \in stopped \/ server.pending # <<>> \/ server.status # "ok"
    IN  /\ Begins(o, "accept")
        /\ \/ ~server.listening /\ End(o :> "error") /\ UNCHANGED server
           \/ /\ server.listening /\ ready
              /\ server' = AwaitResume(o, server)[1]
              /\ End(o :> AwaitResume(o, server)[2])
           \/ /\ server.listening /\ ~ready /\ server.waiter # None
              /\ End(o :> "busy") /\ UNCHANGED server
           \/ /\ server.listening /\ ~ready /\ server.waiter = None
              /\ At(o, "waiting") /\ server' = [server EXCEPT !.waiter = o]
        /\ UNCHANGED <<call, queue, stopped, busy, fault>>

\* The closure of accept's stop callback points to the awaiter, which is gone
\* when something else has resumed the accept.
CancelAccept(o) ==
    /\ Posted("cancel", o) /\ Kind(o) = "accept" /\ queue' = Tail(queue)
    /\ \/ pc[o] = "done" /\ fault' = o /\ UNCHANGED <<server, pc, result>>
       \/ /\ pc[o] = "waiting"
          /\ LET r == ResumeWaiter([server EXCEPT !.status = "cancelled"])
             IN  server' = r[1] /\ End(r[2])
          /\ UNCHANGED fault
    /\ UNCHANGED <<call, stopped, busy>>

\* Mutant of OnConnection: an accept that sleeps is not resumed.
OnConnectionQuiet ==
    LET c == server.came + 1
        s == [server EXCEPT !.came = c]
    IN  /\ Idle /\ server.uv = "listening" /\ c <= MaxConns
        /\ \/ ~s.handle /\ server' = [s EXCEPT !.lost = @ \cup {c}] /\ End(Nobody)
           \/ /\ s.handle
              /\ server' = [s EXCEPT !.lost = @ \cup {c}, !.status = "error"] /\ End(Nobody)
           \/ /\ s.handle
              /\ server' = [s EXCEPT !.pending = Append(@, c), !.status = "ok"] /\ End(Nobody)
        /\ UNCHANGED <<call, queue, stopped, busy, fault>>
\* The connection callback: an error, or a connection, for the accept that waits
\* or one to come.  A server that is being closed leaves the connection alone.
OnConnection ==
    LET c == server.came + 1
        s == [server EXCEPT !.came = c]
        Arrive(t) == LET r == ResumeWaiter(t) IN server' = r[1] /\ End(r[2])
    IN  /\ Idle /\ server.uv = "listening" /\ c <= MaxConns
        /\ \/ ~s.handle /\ server' = [s EXCEPT !.lost = @ \cup {c}] /\ End(Nobody)
           \/ s.handle /\ Arrive([s EXCEPT !.lost = @ \cup {c}, !.status = "error"])
           \/ s.handle /\ Arrive([s EXCEPT !.pending = Append(@, c), !.status = "ok"])
        /\ UNCHANGED <<call, queue, stopped, busy, fault>>

Shut(s) == [s EXCEPT !.handle = FALSE, !.bound = FALSE, !.listening = FALSE]
\* What close() does on the loop: the waiter, the pending connections, the handle.
Drop(s) ==
    LET r == ResumeWaiter(IF s.waiter = None THEN s ELSE [s EXCEPT !.status = "cancelled"])
    IN  <<[r[1] EXCEPT !.closed = @ \cup {r[1].pending[i] : i \in DOMAIN r[1].pending},
                       !.pending = <<>>, !.uv = "closed"], r[2]>>

CloseServer(o) ==
    /\ \/ /\ Begins(o, "close_server")
          /\ IF server.handle
             THEN server' = Drop(Shut(server))[1] /\ End((o :> "ok") @@ Drop(Shut(server))[2])
             ELSE End(o :> "ok") /\ UNCHANGED server
          /\ UNCHANGED queue
       \/ /\ BeginsOutside(o, "close_server")
          /\ IF server.handle
             THEN /\ server' = Shut(server) /\ At(o, "calling")
                  /\ queue' = Append(queue, <<"drop", o>>)
             ELSE End(o :> "ok") /\ UNCHANGED <<server, queue>>
    /\ UNCHANGED <<call, stopped, busy, fault>>

RunDrop(o) ==
    /\ Posted("drop", o) /\ queue' = Tail(queue)
    /\ server' = Drop(server)[1] /\ End((o :> "ok") @@ Drop(server)[2])
    /\ UNCHANGED <<call, stopped, busy, fault>>

ServerCallback == OnConnection \/ \E o \in Ops : CancelAccept(o) \/ RunDrop(o)
ServerStep ==
    ServerCallback \/ \E o \in Ops : Bind(o) \/ Listen(o) \/ Accept(o) \/ CloseServer(o)
=============================================================================

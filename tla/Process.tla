------------------------------ MODULE Process ------------------------------
(***************************************************************************)
(* process: spawn, wait, kill, close and the exit callback (process.cpp).  *)
(* A process object has a state_, shared with the callbacks, which spawn   *)
(* replaces when it still has a handle.  Handles, and the children behind  *)
(* them, are numbered as they are made.                                    *)
(***************************************************************************)
EXTENDS LoopOps

States == 1..(Cardinality(Ops) + 1)

VARIABLES proc,
    \* state: the index of state_        on, child: what a wait has awaited
    \* per state: handle (0 for nullptr), running, exited, waiter,
    \* status: wait_status, closed: close() has been called on it
          children  \* per handle: state, uv ("open", "closed"), alive, reported

procVars == <<proc, children>>

ProcessInit ==
    /\ proc = [state |-> 1, on |-> [o \in Ops |-> 0], child |-> [o \in Ops |-> 0],
               handle |-> [s \in States |-> 0], running |-> [s \in States |-> FALSE],
               exited |-> [s \in States |-> FALSE], waiter |-> [s \in States |-> None],
               status |-> [s \in States |-> "ok"], closed |-> [s \in States |-> FALSE]]
    /\ children = <<>>

\* close() of the state of p, and the closure it posts.
Detach(p) ==
    [p EXCEPT !.handle[p.state] = 0, !.closed[p.state] = TRUE]
CloseClosure(p) == <<"close_process", <<p.state, p.handle[p.state]>> >>

\* Mutant of Renew: what the last child left is kept.
RenewStale(p) == p
\* The state is reset before uv_spawn.
Renew(p) ==
    [p EXCEPT !.status[p.state] = "ok", !.exited[p.state] = FALSE, !.running[p.state] = FALSE]

Spawn(o) ==
    LET s == proc.state
        open == proc.handle[s] # 0
        p == Renew(IF open THEN [Detach(proc) EXCEPT !.state = s + 1] ELSE proc)
    IN  /\ Begins(o, "spawn")
        /\ \/ o \in stopped /\ End(o :> "cancelled") /\ UNCHANGED <<procVars, queue>>
           \/ /\ o \notin stopped /\ proc.running[s]
              /\ End(o :> "error") /\ UNCHANGED <<procVars, queue>>
           \/ /\ o \notin stopped /\ ~proc.running[s]
              /\ queue' = IF open THEN Append(queue, CloseClosure(proc)) ELSE queue
              /\ \/ End(o :> "error") /\ proc' = p /\ UNCHANGED children
                 \/ /\ End(o :> "ok")
                    /\ proc' = [p EXCEPT !.handle[p.state] = Len(children) + 1,
                                         !.running[p.state] = TRUE]
                    /\ children' = Append(children, [state |-> p.state, uv |-> "open",
                                                     alive |-> TRUE, reported |-> FALSE])
        /\ UNCHANGED <<call, stopped, busy, fault>>

\* await_resume of the wait o on p: p after it and what wait reports.
WaitResume(o, p) ==
    LET s == p.on[o]
    IN  CASE p.status[s] = "cancelled" \/ o \in stopped ->
               <<[p EXCEPT !.status[s] = "ok"], "cancelled">>
          [] p.status[s] = "ok" /\ o \notin stopped /\ ~p.exited[s] -> <<p, "error">>
          [] OTHER -> <<p, "exited">>

\* The waiter of a state, if there is one, is taken from it and resumed.
ResumeProcWaiter(s, p) ==
    IF p.waiter[s] = None THEN <<p, Nobody>>
    ELSE LET r == WaitResume(p.waiter[s], [p EXCEPT !.waiter[s] = None])
         IN  <<r[1], p.waiter[s] :> r[2]>>

Wait(o) ==
    LET s == proc.state
        p == [proc EXCEPT !.on[o] = s, !.child[o] = proc.handle[s]]
        ready == o \in stopped \/ proc.exited[s]
    IN  /\ Begins(o, "wait")
        /\ \/ proc.handle[s] = 0 /\ End(o :> "error") /\ UNCHANGED proc
           \/ /\ proc.handle[s] # 0 /\ ready
              /\ proc' = WaitResume(o, p)[1] /\ End(o :> WaitResume(o, p)[2])
           \/ /\ proc.handle[s] # 0 /\ ~ready /\ proc.waiter[s] # None
              /\ End(o :> "busy") /\ UNCHANGED proc
           \/ /\ proc.handle[s] # 0 /\ ~ready /\ proc.waiter[s] = None
              /\ At(o, "waiting") /\ proc' = [p EXCEPT !.waiter[s] = o]
        /\ UNCHANGED <<call, queue, stopped, busy, fault, children>>

\* The closure of wait's stop callback, which points to the awaiter.
CancelWait(o) ==
    /\ Posted("cancel", o) /\ Kind(o) = "wait" /\ queue' = Tail(queue)
    /\ \/ pc[o] = "done" /\ fault' = o /\ UNCHANGED <<proc, pc, result>>
       \/ /\ pc[o] = "waiting"
          /\ LET r == ResumeProcWaiter(proc.on[o],
                                       [proc EXCEPT !.status[proc.on[o]] = "cancelled"])
             IN  proc' = r[1] /\ End(r[2])
          /\ UNCHANGED fault
    /\ UNCHANGED <<call, stopped, busy, children>>

\* A child ends by itself.
ChildDies(h) ==
    /\ fault = None /\ h \in DOMAIN children /\ children[h].alive
    /\ children' = [children EXCEPT ![h].alive = FALSE]
    /\ UNCHANGED <<opVars, proc>>

\* The signal ends the child, or does not.
Kill(o) ==
    LET h == proc.handle[proc.state]
    IN  /\ Begins(o, "kill")
        /\ \/ /\ h = 0 \/ ~proc.running[proc.state]
              /\ End(o :> "error") /\ UNCHANGED children
           \/ /\ h # 0 /\ proc.running[proc.state]
              /\ \/ End(o :> "error") /\ UNCHANGED children
                 \/ \E alive \in {children[h].alive, FALSE} :
                       End(o :> "ok") /\ children' = [children EXCEPT ![h].alive = alive]
        /\ UNCHANGED <<call, queue, stopped, busy, fault, proc>>

\* Mutant of OnExit: the waiter is not resumed.
OnExitQuiet(h) ==
    /\ Idle /\ h \in DOMAIN children
    /\ children[h].uv = "open" /\ ~children[h].alive /\ ~children[h].reported
    /\ children' = [children EXCEPT ![h].reported = TRUE]
    /\ proc' = [proc EXCEPT !.running[children[h].state] = FALSE,
                            !.exited[children[h].state] = TRUE]
    /\ UNCHANGED opVars
\* The exit callback.
OnExit(h) ==
    LET s == children[h].state
        r == ResumeProcWaiter(s, [proc EXCEPT !.running[s] = FALSE, !.exited[s] = TRUE])
    IN  /\ Idle /\ h \in DOMAIN children
        /\ children[h].uv = "open" /\ ~children[h].alive /\ ~children[h].reported
        /\ children' = [children EXCEPT ![h].reported = TRUE]
        /\ proc' = r[1] /\ End(r[2])
        /\ UNCHANGED <<call, queue, stopped, busy, fault>>

\* close() by a coroutine or by another thread; it does not wait for its closure.
CloseProcess(o) ==
    /\ Begins(o, "close_process") \/ BeginsOutside(o, "close_process")
    /\ IF proc.handle[proc.state] = 0 THEN UNCHANGED <<proc, queue>>
       ELSE proc' = Detach(proc) /\ queue' = Append(queue, CloseClosure(proc))
    /\ End(o :> "ok")
    /\ UNCHANGED <<call, stopped, busy, fault, children>>

\* The closure of close(): the waiter is cancelled, also one of a later child of
\* the same state, and the handle is closed.
RunCloseProcess ==
    /\ Idle /\ queue # <<>> /\ Head(queue)[1] = "close_process"
    /\ LET s == Head(queue)[2][1]
           h == Head(queue)[2][2]
           r == ResumeProcWaiter(s, IF proc.waiter[s] = None THEN proc
                                    ELSE [proc EXCEPT !.status[s] = "cancelled"])
       IN  /\ proc' = r[1] /\ End(r[2])
           /\ children' = [children EXCEPT ![h].uv = "closed"]
    /\ queue' = Tail(queue)
    /\ UNCHANGED <<call, stopped, busy, fault>>

ProcessCallback ==
    \/ RunCloseProcess \/ \E h \in DOMAIN children : OnExit(h)
    \/ \E o \in Ops : CancelWait(o)
ProcessStep ==
    \/ ProcessCallback \/ \E h \in DOMAIN children : ChildDies(h)
    \/ \E o \in Ops : Spawn(o) \/ Wait(o) \/ Kill(o) \/ CloseProcess(o)
=============================================================================

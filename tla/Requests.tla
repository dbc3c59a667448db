------------------------------ MODULE Requests ------------------------------
(***************************************************************************)
(* The awaitable operations that wrap one libuv request or one libuv       *)
(* reader: stream write, shutdown and read (src/stream_ops.hpp), connect   *)
(* of tcp and pipe clients, udp send_to and recv_from, the dns lookups and *)
(* run_fs_request, on which every file operation rests.  They share one    *)
(* life cycle.  await_suspend posts a closure that starts the request, and *)
(* the stop callback posts one that cancels it.  The libuv callback or one *)
(* of the closures completes the operation and resumes its coroutine, and  *)
(* the shared state is freed after that.                                   *)
(*                                                                         *)
(* Each member of Ops is one call, made once, by a coroutine on the loop   *)
(* thread.  Stops come from any thread.  What libuv does with a request is *)
(* modelled by uv[o]: a stream or udp request is "out" until its callback, *)
(* work of the thread pool is "queued", "running", "finished" or           *)
(* "cancelled" (external, from the documentation of uv_cancel).  The model *)
(* halts at a fault: a use of freed or null memory, or an exception thrown *)
(* out of a posted closure.                                                *)
(***************************************************************************)
EXTENDS Sequences, FiniteSets

CONSTANTS Ops,        \* the calls
          Scenarios,  \* what the calls may be: an operation and its handle
          Stoppable,  \* calls whose stop token may be stopped
          None        \* no reader

Streams == {"tcp", "pipe"}
Handles == Streams \cup {"udp"}
ReaderKinds == {"read", "recv"}
PoolKinds == {"resolve", "reverse", "fs"}
Operations ==
    ({"write", "shutdown", "read", "connect", "close"} \X Streams)
    \cup ({"send", "recv", "close"} \X {"udp"}) \cup (PoolKinds \X {"none"})

ASSUME RequestsAssumption ==
    /\ Scenarios \subseteq [Ops -> Operations]
    /\ Stoppable \subseteq Ops /\ None \notin Ops

VARIABLES call,      \* what each call is
          pc,        \* "idle", "suspended" or "done" (completed)
          result,    \* what the call returned or threw
          cancelReq, \* operations with cancel_requested
          started,   \* operations with started
          uv,        \* what libuv holds of each request
          reader,    \* handle->data: the operation that reads
          hstate,    \* the handle in libuv
          owned,     \* the handles whose handle_ is not null
          connected, \* the clients with connected_ (bound_ for udp)
          stopped,   \* calls whose stop token has been stopped
          posted,    \* closures handed to uv_runtime::post, in order
          took,      \* reads into whose buffer libuv has put input
          fault

vars == <<call, pc, result, cancelReq, started, uv, reader, hstate, owned,
          connected, stopped, posted, took, fault>>

Kind(o) == call[o][1]
On(o) == call[o][2]

Results == {"none", "ok", "eof", "error", "cancelled", "refused"}
Holds == {"idle", "out", "queued", "running", "finished", "cancelled"}
Faults == {"none", "freed", "null", "escaped"}

Init ==
    /\ call \in Scenarios
    /\ pc = [o \in Ops |-> "idle"] /\ result = [o \in Ops |-> "none"]
    /\ cancelReq = {} /\ started = {} /\ uv = [o \in Ops |-> "idle"]
    /\ reader = [h \in Handles |-> None]
    /\ hstate = [h \in Handles |-> "open"] /\ owned = Handles
    /\ \E c \in SUBSET Streams : connected = c \cup {"udp"}
    /\ stopped = {} /\ posted = <<>> /\ took = {} /\ fault = "none"

\* completed, and no closure holds the shared state any more.
Freed(o) == pc[o] = "done" /\ \A i \in DOMAIN posted : posted[i][2] # o

handleVars == <<reader, hstate, owned>>
-----------------------------------------------------------------------------
(* The life cycle that all operations share *)

\* The call ends without suspending.
Return(o, r) ==
    /\ pc' = [pc EXCEPT ![o] = "done"]
    /\ result' = [result EXCEPT ![o] = r]
    /\ UNCHANGED <<cancelReq, started, uv, handleVars, connected, stopped,
                   posted, took, fault>>

\* await_suspend.  A stop of another thread may come after its test and before
\* the start closure is posted; the cancel closure is then the first of the two.
Suspend(o) ==
    \/ /\ o \in stopped
       /\ Return(o, "cancelled")
    \/ /\ o \notin stopped
       /\ pc' = [pc EXCEPT ![o] = "suspended"]
       /\ \/ /\ posted' = Append(posted, <<"start", o>>)
             /\ UNCHANGED stopped
          \/ /\ o \in Stoppable
             /\ posted' = posted \o << <<"cancel", o>>, <<"start", o>> >>
             /\ stopped' = stopped \cup {o}
       /\ UNCHANGED <<result, cancelReq, started, uv, handleVars, connected,
                      took, fault>>

\* await_resume: what a status means to the caller.
AwaitResume(status, cancelled) ==
    CASE status = "ECANCELED" \/ (cancelled /\ status = "ok") -> "cancelled"
      [] status \in {"EBUSY", "error"} -> "error"
      [] OTHER -> status

\* connected_ is set by a connect that did not throw.
Connected(o, r) ==
    IF Kind(o) = "connect" /\ r = "ok" THEN connected \cup {On(o)} ELSE connected

\* complete(), for an operation that is not completed yet: it resumes the
\* coroutine, which runs to the end of the call.
Complete(o, status, cancels) ==
    LET r == AwaitResume(status, o \in cancels)
    IN  /\ pc' = [pc EXCEPT ![o] = "done"]
        /\ result' = [result EXCEPT ![o] = r]
        /\ connected' = Connected(o, r)

\* The start closure of an operation that was cancelled before it ran.
StartNothing(o) ==
    /\ pc[o] = "done"
    /\ UNCHANGED <<pc, result, cancelReq, started, uv, handleVars, connected,
                   took, fault>>

\* The libuv function refuses the request (rc < 0).
StartFails(o) ==
    /\ started' = started \cup {o}
    /\ Complete(o, "error", cancelReq)
    /\ UNCHANGED <<cancelReq, uv, handleVars, took, fault>>

\* libuv takes the request.
StartRequest(o, hold) ==
    /\ started' = started \cup {o}
    /\ uv' = [uv EXCEPT ![o] = hold]
    /\ UNCHANGED <<pc, result, cancelReq, handleVars, connected, took, fault>>

StartFault(f) ==
    /\ fault' = f
    /\ UNCHANGED <<pc, result, cancelReq, started, uv, handleVars, connected,
                   took>>

\* uv_cancel: "EINVAL" for stream and udp requests, 0 for queued work.
UvCancel(o) ==
    CASE uv[o] = "out" -> "EINVAL"
      [] uv[o] = "queued" -> "0"
      [] OTHER -> "EBUSY"

\* Mutant of CancelRequest: EBUSY ends the operation too.
CancelBusyToo(o) ==
    LET cancels == cancelReq \cup {o}
    IN  IF pc[o] = "done"
        THEN UNCHANGED <<pc, result, cancelReq, uv, connected>>
        ELSE /\ cancelReq' = cancels
             /\ Complete(o, "ECANCELED", cancels)
             /\ UNCHANGED uv
\* The cancel closure of an operation with a request.
CancelRequest(o) ==
    LET cancels == cancelReq \cup {o}
    IN  IF pc[o] = "done"
        THEN UNCHANGED <<pc, result, cancelReq, uv, connected>>
        ELSE /\ cancelReq' = cancels
             /\ IF o \notin started \/ UvCancel(o) = "EINVAL"
                THEN Complete(o, "ECANCELED", cancels) /\ UNCHANGED uv
                ELSE /\ uv' = IF UvCancel(o) = "0"
                              THEN [uv EXCEPT ![o] = "cancelled"] ELSE uv
                     /\ UNCHANGED <<pc, result, connected>>

\* The libuv callback of a request.  A cancelled lookup reports UV_EAI_CANCELED, which
\* await_resume, looking for UV_ECANCELED, throws as any other error.
RequestDone(o, status) ==
    /\ uv[o] \in {"out", "finished", "cancelled"}
    /\ status \in CASE uv[o] = "cancelled" -> {IF Kind(o) = "fs" THEN "ECANCELED" ELSE "error"}
                    [] uv[o] = "finished" -> {"ok", "error"}
                    [] hstate[On(o)] = "open" -> {"ok", "error"}
                    [] Kind(o) = "connect" -> {"ECANCELED"}
                    [] OTHER -> {"ok", "error", "ECANCELED"}
    /\ uv' = [uv EXCEPT ![o] = "idle"]
    /\ IF Freed(o)
       THEN fault' = "freed" /\ UNCHANGED <<pc, result, connected>>
       ELSE Complete(o, status, cancelReq) /\ UNCHANGED fault
    /\ UNCHANGED <<cancelReq, started, handleVars, stopped, posted, took>>

-----------------------------------------------------------------------------
(* Stream operations *)

\* Operations on a client that is not connected are refused.
Usable(h) == h \in connected \cap owned

StreamWrite(o) ==
    /\ Kind(o) = "write"
    /\ \/ ~Usable(On(o)) /\ Return(o, "refused")
       \/ Usable(On(o)) /\ (Return(o, "ok") \/ Suspend(o))   \* no data, data
StreamWriteStart(o) ==
    /\ Kind(o) = "write"
    /\ StartNothing(o) \/ (pc[o] # "done" /\ (StartFails(o) \/ StartRequest(o, "out")))

StreamShutdown(o) ==
    /\ Kind(o) = "shutdown"
    /\ \/ ~Usable(On(o)) /\ Return(o, "refused")
       \/ Usable(On(o)) /\ Suspend(o)
StreamShutdownStart(o) ==
    /\ Kind(o) = "shutdown"
    /\ StartNothing(o) \/ (pc[o] # "done" /\ (StartFails(o) \/ StartRequest(o, "out")))

StreamRead(o) ==
    /\ Kind(o) = "read"
    /\ \/ ~Usable(On(o)) /\ Return(o, "refused")
       \/ Usable(On(o)) /\ (Return(o, "ok") \/ Suspend(o))   \* an empty buffer, or not

\* uv_read_start or uv_udp_recv_start: only one operation may read a handle.
BecomeReader(o) ==
    LET h == On(o)
    IN  \/ /\ reader[h] # None
           /\ Complete(o, "EBUSY", cancelReq)
           /\ UNCHANGED reader
        \/ /\ reader[h] = None
           /\ Complete(o, "error", cancelReq)
           /\ UNCHANGED reader
        \/ /\ reader[h] = None
           /\ reader' = [reader EXCEPT ![h] = o]
           /\ UNCHANGED <<pc, result, connected>>

StreamReadStart(o) ==
    /\ Kind(o) = "read"
    /\ \/ StartNothing(o)
       \/ /\ pc[o] # "done" /\ BecomeReader(o)
          /\ UNCHANGED <<cancelReq, started, uv, hstate, owned, took, fault>>

\* Input, or the end of it: reading stops and the operation is completed.
InputArrives(o, status) ==
    LET h == On(o)
    IN  /\ reader[h] = o /\ hstate[h] = "open"
        /\ reader' = [reader EXCEPT ![h] = None]
        /\ Complete(o, status, cancelReq)
        /\ took' = IF status = "ok" THEN took \cup {o} ELSE took
        /\ UNCHANGED <<cancelReq, started, uv, hstate, owned, stopped, posted,
                       fault>>

\* Mutant of ReadCallback: the operation is left to be completed later.
ReadCallbackOnly(o, status) ==
    LET h == On(o)
    IN  /\ Kind(o) = "read" /\ reader[h] = o /\ hstate[h] = "open"
        /\ took' = IF status = "ok" THEN took \cup {o} ELSE took
        /\ UNCHANGED <<pc, result, connected, reader, cancelReq, started, uv,
                       hstate, owned, stopped, posted, fault>>
\* The callback of uv_read_start.
ReadCallback(o, status) ==
    Kind(o) = "read" /\ status \in {"ok", "eof", "error"} /\ InputArrives(o, status)

\* The cancel closure of a read, with reader its handle's data.  dangling says
\* that the handle cannot be looked at any more.
Detach(o, dangling) ==
    LET cancels == cancelReq \cup {o}
    IN  CASE pc[o] = "done" ->
                UNCHANGED <<pc, result, cancelReq, reader, connected, fault>>
          [] pc[o] # "done" /\ dangling # "none" ->
                /\ fault' = dangling
                /\ UNCHANGED <<pc, result, cancelReq, reader, connected>>
          [] OTHER ->
                /\ reader' = IF reader[On(o)] = o
                             THEN [reader EXCEPT ![On(o)] = None] ELSE reader
                /\ cancelReq' = cancels
                /\ Complete(o, "ECANCELED", cancels)
                /\ UNCHANGED fault

\* Mutant of CancelRead: handle->data keeps the cancelled operation.
CancelReadKeepsData(o) ==
    IF pc[o] = "done" THEN UNCHANGED <<pc, result, cancelReq, reader, connected, fault>>
    ELSE /\ cancelReq' = cancelReq \cup {o}
         /\ Complete(o, "ECANCELED", cancelReq')
         /\ UNCHANGED <<reader, fault>>
\* Mutant of CancelRead: only the operation that reads is completed.
CancelReaderOnly(o) ==
    IF pc[o] # "done" /\ reader[On(o)] = o THEN Detach(o, "none")
    ELSE UNCHANGED <<pc, result, cancelReq, reader, connected, fault>>
CancelRead(o) ==
    Detach(o, IF hstate[On(o)] = "deleted" THEN "freed" ELSE "none")

-----------------------------------------------------------------------------
(* connect, udp, dns and file requests *)

ConnectRefused(o) == On(o) \notin owned \/ On(o) \in connected

TcpConnect(o) ==
    /\ Kind(o) = "connect" /\ On(o) = "tcp"
    /\ \/ ConnectRefused(o) /\ Return(o, "refused")
       \/ ~ConnectRefused(o) /\ Suspend(o)
\* handle_ is read by the closure, and close() may have cleared it; an address
\* that does not parse fails before that.
TcpConnectStart(o) ==
    /\ Kind(o) = "connect" /\ On(o) = "tcp"
    /\ \/ StartNothing(o)
       \/ /\ pc[o] # "done"
          /\ \/ StartFails(o)
             \/ On(o) \in owned /\ StartRequest(o, "out")
             \/ On(o) \notin owned /\ StartFault("null")

PipeConnect(o) ==
    /\ Kind(o) = "connect" /\ On(o) = "pipe"
    /\ \/ ConnectRefused(o) /\ Return(o, "refused")
       \/ ~ConnectRefused(o) /\ Suspend(o)
\* uv_pipe_connect reports every error through its callback.
PipeConnectStart(o) ==
    /\ Kind(o) = "connect" /\ On(o) = "pipe"
    /\ \/ StartNothing(o)
       \/ /\ pc[o] # "done"
          /\ \/ On(o) \in owned /\ StartRequest(o, "out")
             \/ On(o) \notin owned /\ StartFault("null")

SendTo(o) ==
    /\ Kind(o) = "send"
    /\ \/ "udp" \notin owned /\ Return(o, "refused")
       \/ "udp" \in owned /\ (Return(o, "ok") \/ Suspend(o))   \* no data, data
SendToStart(o) ==
    /\ Kind(o) = "send"
    /\ \/ StartNothing(o)
       \/ /\ pc[o] # "done"
          /\ \/ StartFails(o)
             \/ "udp" \in owned /\ StartRequest(o, "out")
             \/ "udp" \notin owned /\ StartFault("null")

RecvFrom(o) ==
    /\ Kind(o) = "recv"
    /\ \/ ~Usable("udp") /\ Return(o, "refused")
       \/ Usable("udp") /\ Suspend(o)
RecvFromStart(o) ==
    /\ Kind(o) = "recv"
    /\ \/ StartNothing(o)
       \/ pc[o] # "done" /\ "udp" \notin owned /\ StartFault("null")
       \/ /\ pc[o] # "done" /\ "udp" \in owned /\ BecomeReader(o)
          /\ UNCHANGED <<cancelReq, started, uv, hstate, owned, took, fault>>
\* The callback of uv_udp_recv_start.
RecvCallback(o, status) ==
    Kind(o) = "recv" /\ status \in {"ok", "error"} /\ InputArrives(o, status)
CancelRecv(o) == Detach(o, IF "udp" \notin owned THEN "null" ELSE "none")

Resolve(o) == Kind(o) = "resolve" /\ Suspend(o)
ResolveStart(o) ==
    /\ Kind(o) = "resolve"
    /\ StartNothing(o) \/ (pc[o] # "done" /\ (StartFails(o) \/ StartRequest(o, "queued")))

ReverseLookup(o) == Kind(o) = "reverse" /\ Suspend(o)
\* An address that does not parse throws, out of the closure and of drain().
ReverseLookupStart(o) ==
    /\ Kind(o) = "reverse"
    /\ \/ StartNothing(o)
       \/ /\ pc[o] # "done"
          /\ \/ StartFault("escaped")
             \/ StartFails(o)
             \/ StartRequest(o, "queued")

RunFsRequest(o) == Kind(o) = "fs" /\ Suspend(o)
RunFsRequestStart(o) ==
    /\ Kind(o) = "fs"
    /\ StartNothing(o) \/ (pc[o] # "done" /\ (StartFails(o) \/ StartRequest(o, "queued")))

\* A worker thread takes a request, and finishes it.
PoolWork(o) ==
    /\ fault = "none" /\ uv[o] \in {"queued", "running"} /\ UNCHANGED call
    /\ uv' = [uv EXCEPT ![o] = IF uv[o] = "queued" THEN "running" ELSE "finished"]
    /\ UNCHANGED <<pc, result, cancelReq, started, handleVars, connected,
                   stopped, posted, took, fault>>

-----------------------------------------------------------------------------
(* close, stop and the loop *)

\* close() of tcp_client, pipe_client and udp_socket.
Close(o) ==
    /\ Kind(o) = "close"
    /\ \/ On(o) \notin owned /\ Return(o, "ok")
       \/ /\ On(o) \in owned
          /\ owned' = owned \ {On(o)} /\ connected' = connected \ {On(o)}
          /\ posted' = Append(posted, <<"close", o>>)
          /\ pc' = [pc EXCEPT ![o] = "done"]
          /\ result' = [result EXCEPT ![o] = "ok"]
          /\ UNCHANGED <<cancelReq, started, uv, reader, hstate, stopped, took,
                         fault>>

\* The closure of close(): uv_close ends reading without a callback.
CloseHandle(o) ==
    /\ hstate' = [hstate EXCEPT ![On(o)] = "closing"]
    /\ UNCHANGED <<pc, result, cancelReq, started, uv, reader, owned,
                   connected, took, fault>>

\* The close callback, after those of the requests on the handle.
DeleteHandle(h) ==
    /\ fault = "none" /\ hstate[h] = "closing" /\ UNCHANGED call
    /\ \A o \in Ops : On(o) = h => uv[o] # "out"
    /\ hstate' = [hstate EXCEPT ![h] = "deleted"]
    /\ UNCHANGED <<pc, result, cancelReq, started, uv, reader, owned,
                   connected, stopped, posted, took, fault>>

\* request_stop() on any thread: the callback of a suspended call posts.
RequestStop(o) ==
    /\ fault = "none" /\ o \in Stoppable \ stopped /\ UNCHANGED call
    /\ stopped' = stopped \cup {o}
    /\ posted' = IF pc[o] = "suspended" THEN Append(posted, <<"cancel", o>>)
                 ELSE posted
    /\ UNCHANGED <<pc, result, cancelReq, started, uv, handleVars, connected,
                   took, fault>>

Begin(o) ==
    /\ fault = "none" /\ pc[o] = "idle" /\ UNCHANGED call
    /\ \/ StreamWrite(o) \/ StreamShutdown(o) \/ StreamRead(o)
       \/ TcpConnect(o) \/ PipeConnect(o) \/ SendTo(o) \/ RecvFrom(o)
       \/ Resolve(o) \/ ReverseLookup(o) \/ RunFsRequest(o) \/ Close(o)

Start(o) ==
    \/ StreamWriteStart(o) \/ StreamShutdownStart(o) \/ StreamReadStart(o)
    \/ TcpConnectStart(o) \/ PipeConnectStart(o) \/ SendToStart(o)
    \/ RecvFromStart(o) \/ ResolveStart(o) \/ ReverseLookupStart(o)
    \/ RunFsRequestStart(o)

Cancel(o) ==
    \/ /\ Kind(o) = "read" /\ CancelRead(o)
       /\ UNCHANGED <<started, uv, hstate, owned, took>>
    \/ /\ Kind(o) = "recv" /\ CancelRecv(o)
       /\ UNCHANGED <<started, uv, hstate, owned, took>>
    \/ /\ Kind(o) \notin ReaderKinds /\ CancelRequest(o)
       /\ UNCHANGED <<started, handleVars, took, fault>>

\* drain(): the first closure.
RunPosted ==
    /\ fault = "none" /\ posted # <<>> /\ UNCHANGED call
    /\ posted' = Tail(posted) /\ UNCHANGED stopped
    /\ LET o == Head(posted)[2]
       IN  \/ Head(posted)[1] = "start" /\ Start(o)
           \/ Head(posted)[1] = "cancel" /\ Cancel(o)
           \/ Head(posted)[1] = "close" /\ CloseHandle(o)

Callback(o) ==
    /\ fault = "none" /\ UNCHANGED call
    /\ \E s \in {"ok", "eof", "error", "ECANCELED"} :
           RequestDone(o, s) \/ ReadCallback(o, s) \/ RecvCallback(o, s)

Next ==
    \/ RunPosted
    \/ \E h \in Handles : DeleteHandle(h)
    \/ \E o \in Ops : Begin(o) \/ PoolWork(o) \/ RequestStop(o) \/ Callback(o)

Spec == Init /\ [][Next]_vars

\* The callback that libuv owes for work its pool has done or dropped.
PoolCallback(o) ==
    uv[o] \in {"finished", "cancelled"} /\ Callback(o)

\* The loop runs what is posted, the pool its work and libuv its callbacks;
\* the network owes nothing.
FairSpec ==
    /\ Spec /\ WF_vars(RunPosted)
    /\ \A o \in Ops : WF_vars(PoolWork(o)) /\ WF_vars(PoolCallback(o))

-----------------------------------------------------------------------------
(* Properties *)

\* handle->data is a raw pointer to the one operation that reads the handle: it
\* points to o exactly while o's read has been started and is not completed, so
\* it never dangles and no started read is orphaned (stream_ops.hpp:222-275).
ReaderIsRegistered ==
    \A o \in Ops : Kind(o) \in ReaderKinds /\ fault = "none" =>
        (reader[On(o)] = o <=>
            pc[o] = "suspended" /\ \A i \in DOMAIN posted : posted[i] # <<"start", o>>)

\* Input that libuv has put into the buffer of a read is returned by that read,
\* however a stop races with it (stream_ops.hpp:217-228, 252-276, 288-297).
NoLostInput == \A o \in took : result[o] = "ok"

\* A call whose stop is requested while it is suspended ends, unless the
\* program has met undefined behaviour: the cancel closure ends it, or the
\* thread pool finishes what uv_cancel cannot stop (fs.cpp:151-167).
StoppedCallsEnd ==
    \A o \in Ops : (o \in stopped /\ pc[o] = "suspended") ~>
                       (pc[o] = "done" \/ fault # "none")

\* Work of the thread pool keeps its memory until libuv has called back, also
\* when it is cancelled while a worker runs it (fs.cpp:161-166, dns.cpp:136-141).
PoolRequestsOutliveLibuv ==
    \A o \in Ops : Kind(o) \in PoolKinds /\ uv[o] # "idle" => ~Freed(o)

\* libuv never holds a request whose memory has been freed.  Every I/O entry
\* point takes a stop token, and a stop must not free what libuv still uses
\* (stream_ops.hpp:96-101).
RequestsOutliveLibuv == \A o \in Ops : uv[o] # "idle" => ~Freed(o)
=============================================================================

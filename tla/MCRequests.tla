----------------------------- MODULE MCRequests -----------------------------
(* Instances of Requests for TLC: three calls that meet on a handle, or that *)
(* the thread pool runs.                                                    *)
EXTENDS Requests, TLC
CONSTANTS o1, o2, o3
Calls(a, b, c) == (o1 :> a) @@ (o2 :> b) @@ (o3 :> c)
Tcp(k) == <<k, "tcp">>
Pipe(k) == <<k, "pipe">>
Udp(k) == <<k, "udp">>
MCScenarios == {
    Calls(Tcp("read"), Tcp("read"), Tcp("close")),
    Calls(Tcp("read"), Tcp("write"), Tcp("close")),
    Calls(Tcp("connect"), Tcp("read"), Tcp("close")),
    Calls(Pipe("connect"), Pipe("shutdown"), Pipe("close")),
    Calls(Pipe("write"), Pipe("close"), Pipe("close")),
    Calls(Udp("recv"), Udp("recv"), Udp("close")),
    Calls(Udp("send"), Udp("recv"), Udp("close")),
    Calls(<<"resolve", "none">>, <<"fs", "none">>, <<"reverse", "none">>)}
\* The requests that uv_cancel cannot cancel.
StreamScenarios == {
    Calls(Tcp("connect"), Tcp("write"), Pipe("shutdown")),
    Calls(Tcp("write"), Udp("send"), Pipe("connect"))}
=============================================================================

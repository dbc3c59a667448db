---------------------------- MODULE MCListeners ----------------------------
(* Instances of Listeners for TLC: what may race on a server, on a process,  *)
(* on a signal set and on a file watcher.                                    *)
EXTENDS Listeners
CONSTANTS o1, o2, o3, o4, o5, pathA, pathB
Op(kind, arg) == [kind |-> kind, arg |-> arg, outside |-> FALSE, stoppable |-> FALSE]
Stop(kind, arg) == [Op(kind, arg) EXCEPT !.stoppable = TRUE]
Thread(kind) == [Op(kind, None) EXCEPT !.outside = TRUE]
Nothing == Op("none", None)
Calls(a, b, c, d, e) == (o1 :> a) @@ (o2 :> b) @@ (o3 :> c) @@ (o4 :> d) @@ (o5 :> e)
MCScenarios == {
    Calls(Stop("bind", None), Stop("listen", None), Stop("accept", None), Op("accept", None), Op("accept", None)),
    Calls(Op("bind", None), Op("listen", None), Stop("accept", None), Op("accept", None), Thread("close_server")),
    Calls(Op("bind", None), Op("listen", None), Op("accept", None), Op("close_server", None), Thread("close_server")),
    Calls(Stop("spawn", None), Stop("wait", None), Op("wait", None), Op("kill", None), Thread("close_process")),
    Calls(Op("spawn", None), Op("spawn", None), Op("close_process", None), Op("wait", None), Op("wait", None)),
    Calls(Stop("add", 1), Op("add", 2), Stop("remove", 1), Op("next", "signals"), Thread("close_signals")),
    Calls(Op("add", 1), Op("add", 1), Op("clear", None), Op("next", "signals"), Thread("close_signals")),
    Calls(Stop("start", pathA), Op("start", pathB), Stop("stop", None), Op("next", "files"), Thread("close_watch")),
    Calls(Op("start", pathA), Op("start", pathA), Op("next", "files"), Thread("close_watch"), Thread("close_watch"))}
=============================================================================

----------------------------- MODULE MCRuntime -----------------------------
(* Instances of Runtime for TLC: what may race, three or four ops at a time. *)
EXTENDS Runtime, TLC
CONSTANTS o1, o2, o3, o4
Op(kind, n) == [kind |-> kind, n |-> n, parent |-> None, outside |-> FALSE]
Of(p, kind, n) == [kind |-> kind, n |-> n, parent |-> p, outside |-> FALSE]
Outside(n) == [kind |-> "sleep", n |-> n, parent |-> None, outside |-> TRUE]
Nothing == Op("none", 0)
Cast(a, b, c, d) == (o1 :> a) @@ (o2 :> b) @@ (o3 :> c) @@ (o4 :> d)
MCScenarios == {
    Cast(Op("sleep", 2), Op("sleep", 1), Op("until", 3), Nothing),
    Cast(Outside(2), Op("wait", 0), Nothing, Nothing),
    Cast(Op("timer", 0), Op("arm", 3), Op("timer", 0), Op("cancel", 0)),
    Cast(Op("every", 2), Nothing, Nothing, Nothing),
    Cast(Op("immediate", 3), Nothing, Nothing, Nothing),
    Cast(Op("rate", 2), Nothing, Nothing, Nothing),
    Cast(Op("control", 0), Of(o1, "blocking", 0), Of(o1, "timeout", 2), Of(o1, "wait2", 0)),
    Cast(Op("control", 0), Of(o1, "sleep", 2), Of(o1, "timeout", 1), Nothing),
    Cast(Op("control", 0), Of(o1, "sleep", 4), Of(o1, "wait2", 0), Nothing),
    Cast(Op("destroy", 0), Op("blocking", 0), Op("sleep", 2), Nothing),
    Cast(Op("destroy", 0), Op("every", 2), Op("wait", 2), Nothing),
    Cast(Op("blocking", 0), Op("call", 0), Nothing, Nothing)}
=============================================================================

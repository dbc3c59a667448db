----------------------------- MODULE MCChannel -----------------------------
(* Instances of Channel for TLC: the operations of each run, by kind.       *)
EXTENDS Channel, TLC

CONSTANTS r1, r2, f1, p1, b1, t1, a1, a2, s1, s2, y1, c1, c2

Kinds1 == (r1 :> "recv") @@ (r2 :> "recv") @@ (f1 :> "recv_for") @@
          (p1 :> "recv_poll") @@ (b1 :> "blocking_next") @@ (t1 :> "try_recv") @@
          (a1 :> "async_send") @@ (a2 :> "async_send") @@ (s1 :> "send") @@
          (s2 :> "send") @@ (y1 :> "try_send") @@ (c1 :> "close") @@ (c2 :> "close")
KindOf == [o \in Ops |-> Kinds1[o]]
=============================================================================

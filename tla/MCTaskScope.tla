---------------------------- MODULE MCTaskScope ----------------------------
(* Instances of TaskScope for TLC. *)
EXTENDS TaskScope
CONSTANTS k1, k2, k3
=============================================================================

---------------------------- MODULE MCSiaAccount ----------------------------
(* Model values for the runs of SiaAccount. *)
EXTENDS SiaAccount

CONSTANTS e1, e2, e3, t1, t2, c1
=============================================================================

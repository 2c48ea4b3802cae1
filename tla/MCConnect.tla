------------------------------ MODULE MCConnect ------------------------------
(* Model values and maps for the runs of Connect. *)
EXTENDS Connect, TLC

CONSTANTS u1, u2, r1, r2, k1, d1, d2

OneKey == r1 :> k1
SharedKey == r1 :> k1 @@ r2 :> k1
=============================================================================

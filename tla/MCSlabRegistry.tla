---------------------------- MODULE MCSlabRegistry ----------------------------
(* Model values and maps for the runs of SlabRegistry. *)
EXTENDS SlabRegistry, TLC

CONSTANTS u1, u2, a1, a2, s1, s2, o1, r1, r2

Two == a1 :> u1 @@ a2 :> u2
RequestSymmetry == Permutations(Requests)
SlabSymmetry == Permutations(Slabs)
=============================================================================

---------------------------- MODULE MCReservations ----------------------------
(* Model values and limits for the runs of Reservations. *)
EXTENDS Reservations, TLC

CONSTANTS p1, p2, p3, g1, g2, q1, q2, s1, s2, s3

SmallLimit == [k \in Kinds |-> IF k = "storage" THEN 2 ELSE 1]
OneDownload == [k \in Kinds |-> IF k = "download" THEN 1 ELSE 2]
RequestSymmetry == Permutations(Pinners) \cup Permutations(Pages)
                     \cup Permutations(Prunes) \cup Permutations(Slabs)
=============================================================================

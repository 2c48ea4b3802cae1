---------------------------- MODULE MCStatsCache ----------------------------
(* Symmetry for the safety properties of StatsCache. *)
EXTENDS StatsCache, TLC

CallerSymmetry == Permutations(Callers)
=============================================================================

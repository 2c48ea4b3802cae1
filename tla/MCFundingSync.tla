---------------------------- MODULE MCFundingSync ----------------------------
(* Model-checking instances of FundingSync: u1 and u2 are known by one key   *)
(* each, and an event is charged for both meters or for none.                *)
EXTENDS FundingSync, TLC

CONSTANTS u1, u2, k1, k2

OneKeyEach == k1 :> u1 @@ k2 :> u2
AllOrNothing == {{}, {"upload", "download"}}

ActorSymmetry == Permutations(Workers)
=============================================================================

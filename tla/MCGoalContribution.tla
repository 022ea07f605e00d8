------------------------- MODULE MCGoalContribution -------------------------
(***************************************************************************)
(* Instances of GoalContribution for TLC.                                  *)
(***************************************************************************)
EXTENDS GoalContribution, TLC

RequestSymmetry == Permutations(Requests)
=============================================================================

--------------------------- MODULE MCOfflineSync ---------------------------
(***************************************************************************)
(* Instances of OfflineSync for TLC.                                       *)
(***************************************************************************)
EXTENDS OfflineSync, TLC

RunSymmetry == Permutations(Background) \cup Permutations(Refresh)
=============================================================================

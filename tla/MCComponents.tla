---------------------------- MODULE MCComponents -----------------------------
(* The components of Components.tla on small instances.  The sets of model  *)
(* values are used by several components, which share nothing else.         *)
EXTENDS Components, TLC

CONSTANTS Ids, Requests

MCPostings ==
  {[category |-> 1, kind |-> "expense", month |-> "this", amount |-> 4, deleted |-> FALSE],
   [category |-> 1, kind |-> "expense", month |-> "this", amount |-> 5, deleted |-> FALSE],
   [category |-> 1, kind |-> "income", month |-> "this", amount |-> 5, deleted |-> FALSE],
   [category |-> 1, kind |-> "expense", month |-> "other", amount |-> 5, deleted |-> FALSE]}

Symmetric == Permutations(Ids) \cup Permutations(Requests)
=============================================================================

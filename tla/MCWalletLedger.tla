--------------------------- MODULE MCWalletLedger ---------------------------
(***************************************************************************)
(* Instances of WalletLedger for TLC.                                      *)
(***************************************************************************)
EXTENDS WalletLedger, TLC

CONSTANTS u1, u2, w1, w2

(* Both wallets belong to u1; a second user has none. *)
OneOwner == w1 :> u1 @@ w2 :> u1

(* One wallet has money, the other is empty and may be deleted. *)
OpeningBalances == w1 :> 3 @@ w2 :> 0

(* Four of the clients' finest digits make a stored unit.  A client sends a *)
(* negative amount, or one of a unit and a half: half a unit is rounded in  *)
(* the wallet it is drawn from or paid into, and a transfer at the rate of  *)
(* two credits three whole units.                                           *)
SentAmounts == {-4, 6}

RequestSymmetry == Permutations(Requests)
=============================================================================

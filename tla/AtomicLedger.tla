---------------------------- MODULE AtomicLedger ----------------------------
(***************************************************************************)
(* What the ledger of the Mali API promises its clients, with no requests, *)
(* locks or database transactions in it: wallets with a balance, the       *)
(* transaction rows recorded against them, and four indivisible            *)
(* operations.  WalletLedger, where every operation is spread over several *)
(* statements of several concurrent requests, implements this module.      *)
(*                                                                         *)
(* What the database stores is DECIMAL(18,4): a balance and a recorded     *)
(* amount are a whole number of units of 1/10000.  A client may send finer *)
(* amounts: theirs are whole numbers of the finest digit a client uses, of *)
(* which Grain make a unit.  Every value that is stored is rounded.        *)
(***************************************************************************)
EXTENDS Integers

CONSTANTS Users,      \* account owners
          Wallets,    \* wallet ids
          SyncIds,    \* client-chosen ids that make a create repeatable
          RowIds,     \* ids the database gives to transaction rows
          None,       \* SQL NULL
          Owner,      \* the user each wallet belongs to
          Opening,    \* the balance each wallet was created with
          Amounts,    \* the amounts clients send
          Grain       \* how many of the finest digit make a stored unit

VARIABLES balance,    \* wallets.balance
          active,     \* wallets.is_active
          rows        \* the transactions table

ledgerVars == <<balance, active, rows>>

(***************************************************************************)
(* A transaction row.  rate is 0 where exchange_rate is NULL.              *)
(***************************************************************************)
Row == [id: RowIds, user: Users, sync: SyncIds \cup {None},
        type: {"income", "expense", "transfer"}, wallet: Wallets,
        dest: Wallets \cup {None}, amount: Nat, rate: Nat, deleted: BOOLEAN]

(***************************************************************************)
(* What a DECIMAL(18,4) column keeps of v: PostgreSQL rounds to the        *)
(* nearest unit, and a half away from zero.                                *)
(***************************************************************************)
Rounded(n) == (2 * n + Grain) \div (2 * Grain)

Stored(v) == IF v >= 0 THEN Rounded(v) ELSE -Rounded(-v)

(***************************************************************************)
(* The balance after SET balance = balance + change.                       *)
(***************************************************************************)
Posted(old, change) == Stored(Grain * old + change)

(***************************************************************************)
(* What the movement x, of the amount the client sent, adds to wallet w.   *)
(***************************************************************************)
Change(x, sent, w) ==
  IF w = x.wallet THEN IF x.type = "income" THEN sent ELSE -sent
  ELSE IF x.type = "transfer" /\ w = x.dest THEN sent * x.rate ELSE 0

(***************************************************************************)
(* A row the ledger may accept: the wallets are active and the user's own, *)
(* a transfer goes to another wallet, and the sync id is new.              *)
(***************************************************************************)
Usable(u, w) == w \in Wallets /\ active[w] /\ Owner[w] = u

Acceptable(x) ==
  /\ x \in Row
  /\ ~x.deleted
  /\ Usable(x.user, x.wallet)
  /\ x.type = "transfer" => Usable(x.user, x.dest) /\ x.dest # x.wallet
  /\ \A y \in rows : y.id # x.id /\ (x.sync # None => y.sync # x.sync)

Init ==
  /\ balance = Opening
  /\ active = [w \in Wallets |-> TRUE]
  /\ rows = {}

Record(x) ==
  /\ Acceptable(x)
  /\ \E sent \in Amounts :
       /\ sent > 0
       /\ x.amount = Stored(sent)
       /\ balance' = [w \in Wallets |-> Posted(balance[w], Change(x, sent, w))]
  /\ rows' = rows \cup {x}
  /\ UNCHANGED active

Strike(x) ==
  /\ x \in rows
  /\ rows' = (rows \ {x}) \cup {[x EXCEPT !.deleted = TRUE]}
  /\ UNCHANGED <<balance, active>>

Overwrite(w) ==
  /\ balance'[w] \in Int
  /\ \A v \in Wallets \ {w} : balance'[v] = balance[v]
  /\ UNCHANGED <<active, rows>>

Close(w) ==
  /\ active' = [active EXCEPT ![w] = FALSE]
  /\ UNCHANGED <<balance, rows>>

(***************************************************************************)
(* The recorded row is named by what the step adds, so that the next-state *)
(* relation can be evaluated on a step although Row is infinite.           *)
(***************************************************************************)
Next ==
  \/ \E x \in rows' \ rows : Record(x)
  \/ \E x \in rows : Strike(x)
  \/ \E w \in Wallets : Overwrite(w)
  \/ \E w \in Wallets : Close(w)

Spec == Init /\ [][Next]_ledgerVars
=============================================================================

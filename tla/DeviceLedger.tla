---------------------------- MODULE DeviceLedger ----------------------------
(***************************************************************************)
(* The device's own ledger: the use cases that log, delete and restore     *)
(* transactions of one wallet, and create the month's budget for one       *)
(* category, over the local database.                                      *)
(*                                                                         *)
(* Every read and write is awaited by itself, without a database           *)
(* transaction: other use cases run in between, any statement may fail,    *)
(* and the app may be killed, which to the database is no different.       *)
(* Expenses are of the budget's category; a transfer stands for what has   *)
(* the wallet's effect of an expense and no budget.                        *)
(***************************************************************************)
EXTENDS Integers, FiniteSetsExt

CONSTANTS Uses,           \* calls of a use case
          Entries,        \* transactions
          Sums,           \* amounts the user enters
          Envelopes,      \* ids of budgets
          Limits,         \* amounts of budgets
          None

VARIABLES funds,          \* the wallet's balance
          books,          \* whether each transaction is saved, or deleted
          entry,          \* what each transaction says
          envelope,       \* the rows of the budgets table
          use,            \* the state of each call
          announced,      \* the events published, by budget and percentage
          cut,            \* history: balance changes whose call stopped before its row
          inTurn          \* history: no two calls overlapped

vars == <<funds, books, entry, envelope, use, announced, cut, inTurn>>

Effect(e) == IF entry[e].kind = "income" THEN entry[e].amount ELSE -entry[e].amount

Closed == {"idle", "done"}

Begins(o) ==
  /\ use[o].pc = "idle"
  /\ inTurn' = (inTurn /\ \A other \in Uses : use[other].pc \in Closed)

-----------------------------------------------------------------------------
(* Log, delete and restore: the transaction, the wallet, the balance, and   *)
(* then the transaction's row.                                              *)

BeginLog(o) ==
  /\ Begins(o)
  /\ \E e \in Entries, kind \in {"income", "expense", "transfer"}, amount \in Sums :
       /\ entry[e] = None
       /\ amount > 0
       /\ entry' = [entry EXCEPT ![e] = [kind |-> kind, amount |-> amount]]
       /\ use' = [use EXCEPT ![o].pc = "wallet", ![o].does = "log", ![o].entry = e]
  /\ UNCHANGED <<funds, books, envelope, announced, cut>>

(* Mutant: a transaction that is deleted already is found, too. *)
FindAny(o) ==
  /\ Begins(o)
  /\ \E e \in Entries, does \in {"delete", "restore"} :
       /\ books[e] # "none"
       /\ use' = [use EXCEPT ![o].pc = "wallet", ![o].does = does, ![o].entry = e]
  /\ UNCHANGED <<funds, books, entry, envelope, announced, cut>>

(* A deletion finds live transactions, a restoration deleted ones.          *)
FindTransaction(o) ==
  /\ Begins(o)
  /\ \E e \in Entries, does \in {"delete", "restore"} :
       /\ books[e] = IF does = "delete" THEN "live" ELSE "deleted"
       /\ use' = [use EXCEPT ![o].pc = "wallet", ![o].does = does, ![o].entry = e]
  /\ UNCHANGED <<funds, books, entry, envelope, announced, cut>>

FindWallet(o) ==
  /\ use[o].pc = "wallet"
  /\ use' = [use EXCEPT ![o].pc = "balance", ![o].read = funds]
  /\ UNCHANGED <<funds, books, entry, envelope, announced, cut, inTurn>>

Change(o) ==
  IF use[o].does = "delete" THEN -Effect(use[o].entry) ELSE Effect(use[o].entry)

UpdateBalance(o) ==
  /\ use[o].pc = "balance"
  /\ funds' = use[o].read + Change(o)
  /\ use' = [use EXCEPT ![o].pc = "row"]
  /\ UNCHANGED <<books, entry, envelope, announced, cut, inTurn>>

(* Mutant: a deleted or restored expense counts for the budget again. *)
SaveRowAndBudget(o) ==
  /\ use[o].pc = "row"
  /\ LET e == use[o].entry
     IN /\ books' = [books EXCEPT ![e] = IF use[o].does = "delete" THEN "deleted" ELSE "live"]
        /\ use' = [use EXCEPT ![o].pc =
             IF entry[e].kind = "expense" THEN "budgets" ELSE "done"]
  /\ UNCHANGED <<funds, entry, envelope, announced, cut, inTurn>>

(* Only a logged expense goes on to the budgets.                            *)
SaveRow(o) ==
  /\ use[o].pc = "row"
  /\ LET e == use[o].entry
     IN /\ books' = [books EXCEPT ![e] = IF use[o].does = "delete" THEN "deleted" ELSE "live"]
        /\ use' = [use EXCEPT ![o].pc =
             IF use[o].does = "log" /\ entry[e].kind = "expense" THEN "budgets" ELSE "done"]
  /\ UNCHANGED <<funds, entry, envelope, announced, cut, inTurn>>

(* _updateBudgetAndCheckThreshold: the first budget there is.               *)
FindBudget(o) ==
  /\ use[o].pc = "budgets"
  /\ \/ /\ \A b \in Envelopes : envelope[b] = None
        /\ use' = [use EXCEPT ![o].pc = "done"]
     \/ \E b \in Envelopes :
          /\ envelope[b] # None
          /\ use' = [use EXCEPT ![o].pc = "spent", ![o].budget = b,
                                ![o].read = envelope[b].spent]
  /\ UNCHANGED <<funds, books, entry, envelope, announced, cut, inTurn>>

(* The percentage an expense crosses: the higher one only.                  *)
Crossed(before, after, limit) ==
  IF before * 100 < 100 * limit /\ after * 100 >= 100 * limit THEN 100
  ELSE IF before * 100 < 80 * limit /\ after * 100 >= 80 * limit THEN 80 ELSE 0

UpdateSpentAmount(o) ==
  /\ use[o].pc = "spent"
  /\ LET b == use[o].budget
         spent == use[o].read + entry[use[o].entry].amount
         crossed == Crossed(use[o].read, spent, envelope[b].amount)
     IN /\ envelope' = [envelope EXCEPT ![b].spent = spent]
        /\ use' = [use EXCEPT ![o].pc = IF crossed = 0 THEN "done" ELSE "publish",
                              ![o].read = crossed]
  /\ UNCHANGED <<funds, books, entry, announced, cut, inTurn>>

Publish(o) ==
  /\ use[o].pc = "publish"
  /\ announced' = announced \cup {<<use[o].budget, use[o].read>>}
  /\ use' = [use EXCEPT ![o].pc = "done"]
  /\ UNCHANGED <<funds, books, entry, envelope, cut, inTurn>>

-----------------------------------------------------------------------------
(* CreateBudget: a look for one of the same category, and the insertion.    *)

CheckDuplicate(o) ==
  /\ Begins(o)
  /\ \A b \in Envelopes : envelope[b] = None
  /\ use' = [use EXCEPT ![o].pc = "budget", ![o].does = "budget"]
  /\ UNCHANGED <<funds, books, entry, envelope, announced, cut>>

SaveBudget(o) ==
  /\ use[o].pc = "budget"
  /\ \E b \in Envelopes, amount \in Limits :
       /\ envelope[b] = None
       /\ envelope' = [envelope EXCEPT ![b] = [amount |-> amount, spent |-> 0]]
  /\ use' = [use EXCEPT ![o].pc = "done"]
  /\ UNCHANGED <<funds, books, entry, announced, cut, inTurn>>

-----------------------------------------------------------------------------
(* A statement throws, or the app is killed.                                *)
Break(o) ==
  /\ use[o].pc \notin Closed
  /\ use' = [use EXCEPT ![o].pc = "done"]
  /\ cut' = IF use[o].pc = "row" THEN cut + Change(o) ELSE cut
  /\ UNCHANGED <<funds, books, entry, envelope, announced, inTurn>>

Init ==
  /\ funds = 0
  /\ books = [e \in Entries |-> "none"]
  /\ entry = [e \in Entries |-> None]
  /\ envelope = [b \in Envelopes |-> None]
  /\ use = [o \in Uses |-> [pc |-> "idle", does |-> "none", entry |-> None, budget |-> None,
                            read |-> 0]]
  /\ announced = {}
  /\ cut = 0
  /\ inTurn = TRUE

Run(o) ==
  \/ BeginLog(o) \/ FindTransaction(o) \/ FindWallet(o) \/ UpdateBalance(o) \/ SaveRow(o)
  \/ FindBudget(o) \/ UpdateSpentAmount(o) \/ Publish(o)
  \/ CheckDuplicate(o) \/ SaveBudget(o) \/ Break(o)

Next == \E o \in Uses : Run(o)

Spec == Init /\ [][Next]_vars

-----------------------------------------------------------------------------
(* Properties.                                                              *)

InBooks(state) == {e \in Entries : books[e] \in state}

(* While use cases come one at a time, the balance is what the live         *)
(* transactions make of it, apart from the calls that stopped between the   *)
(* balance and the row.                                                     *)
DriftIsCut ==
  inTurn /\ (\A o \in Uses : use[o].pc \in Closed) =>
    funds = MapThenSumSet(Effect, InBooks({"live"})) + cut

(* However the calls interleave and stop, a budget is never charged more    *)
(* than was logged, and is not announced as exceeded unless it is.          *)
AlertsAreTrue ==
  LET logged == MapThenSumSet(LAMBDA e : entry[e].amount,
                  {e \in InBooks({"live", "deleted"}) : entry[e].kind = "expense"})
  IN /\ \A b \in Envelopes : envelope[b] # None => envelope[b].spent <= logged
     /\ \A a \in announced : logged * 100 >= a[2] * envelope[a[1]].amount
=============================================================================

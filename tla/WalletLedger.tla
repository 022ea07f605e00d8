---------------------------- MODULE WalletLedger ----------------------------
(***************************************************************************)
(* The money path of the Mali API: TransactionService, WalletService and   *)
(* the PostgreSQL repositories under them, serving concurrent requests.    *)
(*                                                                         *)
(* A request is a process.  One action is one statement the request sends  *)
(* to PostgreSQL together with the service code up to the next statement;  *)
(* between two actions any other request may run, the request may lose its *)
(* connection, and PostgreSQL may abort it.  What PostgreSQL provides is   *)
(* modelled as its documentation promises under READ COMMITTED: reads see  *)
(* committed data, a row lock is held to the end of the transaction, a     *)
(* statement that needs a locked row waits, a unique index rejects a       *)
(* second committed key and makes a concurrent insert of the key wait, and *)
(* a cycle of waiting transactions is broken by aborting one of them.      *)
(*                                                                         *)
(* A wallet id exists only after CreateWallet, a single INSERT, committed, *)
(* so every wallet starts in the state CreateWallet gives it.  Money that  *)
(* is stored is a whole number of DECIMAL(18,4) units, and money a client  *)
(* sends a whole number of the finest digit clients use (AtomicLedger).    *)
(***************************************************************************)
EXTENDS Integers, FiniteSetsExt

CONSTANTS Users, Wallets, SyncIds, Requests, None,
          Owner,      \* [Wallets -> Users]
          Opening,    \* the balance CreateWallet stored
          Amounts,    \* amounts clients send, in their finest digit
          Grain,      \* how many of those make a unit of DECIMAL(18,4)
          Rates,      \* exchange rates clients send with a transfer
          Balances,   \* balances clients send to UpdateBalance, likewise
          Offered     \* the operations the clients of this instance call

VARIABLES balance,    \* wallets.balance, committed
          active,     \* wallets.is_active, committed
          rows,       \* the transactions table, committed
          lockedBy,   \* the database transaction holding each wallet's row lock
          delta,      \* each open transaction's uncommitted balance changes
          req,        \* the input of each request
          pc,         \* where each request is in its handler
          result      \* what the request was answered

dbVars == <<balance, active, rows>>
vars == <<balance, active, rows, lockedBy, delta, req, pc, result>>

(***************************************************************************)
(* A request process makes at most one row, so its own identity serves as  *)
(* the id the database generates for that row.                             *)
(***************************************************************************)
Abstract == INSTANCE AtomicLedger WITH RowIds <- Requests

ASSUME WalletLedgerAssumption ==
  /\ Owner \in [Wallets -> Users]
  /\ Opening \in [Wallets -> Int]
  /\ None \notin Wallets \cup SyncIds \cup Requests
  /\ Amounts \subseteq Int /\ Rates \subseteq Nat /\ Balances \subseteq Int
  /\ Grain \in Nat \ {0}

-----------------------------------------------------------------------------
(* Inputs.  Fields an operation does not read are None, or 0.              *)

Kinds == {"income", "expense", "transfer"}
Operations == Kinds \cup {"overwrite", "close", "strike"}

Request == [op: Operations, user: Users, sync: SyncIds \cup {None},
            wallet: Wallets \cup {None}, dest: Wallets \cup {None},
            amount: Int, rate: Nat, row: Requests \cup {None}]

Call(op, u, s, w, d, a, x, r) ==
  [op |-> op, user |-> u, sync |-> s, wallet |-> w, dest |-> d,
   amount |-> a, rate |-> x, row |-> r]

Inputs ==
  {Call(k, u, s, w, None, a, 0, None) :
     k \in {"income", "expense"}, u \in Users, s \in SyncIds \cup {None},
     w \in Wallets, a \in Amounts}
  \cup {Call("transfer", u, s, w, d, a, x, None) :
     u \in Users, s \in SyncIds \cup {None}, w \in Wallets, d \in Wallets,
     a \in Amounts, x \in Rates}
  \cup {Call("overwrite", u, None, w, None, b, 0, None) :
     u \in Users, w \in Wallets, b \in Balances}
  \cup {Call("close", u, None, w, None, 0, 0, None) : u \in Users, w \in Wallets}
  \cup {Call("strike", u, None, None, None, 0, 0, r) : u \in Users, r \in Requests}

-----------------------------------------------------------------------------
(* Pieces of the handlers.                                                 *)

InTransaction ==
  {"lockSource", "applySource", "lockDest", "applyDest", "insert", "commit"}

Stages == {"idle", "received", "logging", "store", "softDelete", "done"}
            \cup InTransaction

Answers == {"none", "created", "existed", "ok", "rejected", "failed"}

NoDelta == [w \in Wallets |-> 0]

(* The row insertTransactionTx writes for request r: amount is DECIMAL(18,4) *)
(* and keeps nothing of an amount below half a unit.                         *)
RowOf(r) ==
  [id |-> r, user |-> req[r].user, sync |-> req[r].sync, type |-> req[r].op,
   wallet |-> req[r].wallet, dest |-> req[r].dest,
   amount |-> Abstract!Stored(req[r].amount),
   rate |-> req[r].rate, deleted |-> FALSE]

(* What request r adds to wallet w, before any rounding. *)
Adds(r, w) == Abstract!Change(RowOf(r), req[r].amount, w)

Recorded(s) == {x \in rows : s # None /\ x.sync = s}

(* Mutant: the sign of the amount is not checked. *)
ValidCreateAnyAmount(q) ==
  /\ Owner[q.wallet] = q.user
  /\ q.op = "transfer" =>
       q.dest # q.wallet /\ Owner[q.dest] = q.user /\ q.rate > 0

(* The checks LogTransaction makes before it opens a database transaction:  *)
(* of the amount it looks at the sign of what was sent, not of what will be *)
(* stored.  getOwnedWallet reads user_id, which never changes, and not      *)
(* is_active.                                                               *)
ValidCreate(q) ==
  /\ q.amount > 0
  /\ Owner[q.wallet] = q.user
  /\ q.op = "transfer" =>
       q.dest # q.wallet /\ Owner[q.dest] = q.user /\ q.rate > 0

(* Mutant: the lock query forgets is_active. *)
LockableWhenClosed(r, w) == Owner[w] = req[r].user

(* Rows that WHERE id = .. AND user_id = .. AND is_active = TRUE matches.   *)
Lockable(r, w) == active[w] /\ Owner[w] = req[r].user

Free(r, w) == lockedBy[w] \in {None, r}

Unlocked(r) == [w \in Wallets |-> IF lockedBy[w] = r THEN None ELSE lockedBy[w]]

Goto(r, stage) ==
  /\ pc' = [pc EXCEPT ![r] = stage]
  /\ UNCHANGED result

Answer(r, a) ==
  /\ pc' = [pc EXCEPT ![r] = "done"]
  /\ result' = [result EXCEPT ![r] = a]

(* Mutant: an error of the repository is reported as success. *)
AbortUnnoticed(r) ==
  /\ Answer(r, "created")
  /\ lockedBy' = Unlocked(r)
  /\ delta' = [delta EXCEPT ![r] = NoDelta]
  /\ UNCHANGED <<dbVars, req>>

(* Mutant: the deferred Rollback is missing, so the locks stay. *)
AbortKeepingLocks(r) ==
  /\ Answer(r, "failed")
  /\ delta' = [delta EXCEPT ![r] = NoDelta]
  /\ UNCHANGED <<dbVars, lockedBy, req>>

(* The deferred Rollback of CreateAndApply, or PostgreSQL's own on a lost   *)
(* connection: the locks and the uncommitted changes of r are gone.         *)
Abort(r) ==
  /\ Answer(r, "failed")
  /\ lockedBy' = Unlocked(r)
  /\ delta' = [delta EXCEPT ![r] = NoDelta]
  /\ UNCHANGED <<dbVars, req>>

-----------------------------------------------------------------------------
(* CreateTransaction and LogTransaction, then CreateAndApply.               *)

Submit(r) ==
  /\ pc[r] = "idle"
  /\ \E q \in Inputs :
       /\ q.op \in Offered
       /\ req' = [req EXCEPT ![r] = q]
       /\ Goto(r, IF q.op \in Kinds /\ q.sync = None THEN "logging" ELSE "received")
  /\ UNCHANGED <<dbVars, lockedBy, delta>>

(* A recorded sync id ends the request: the owner gets the row back, under *)
(* the given answer, and anyone else a validation error.                   *)
Replay(r, a) ==
  \E x \in Recorded(req[r].sync) :
    Answer(r, IF x.user = req[r].user THEN a ELSE "rejected")

FirstLookup(r) ==
  /\ pc[r] = "received"
  /\ req[r].op \in Kinds
  /\ \/ Replay(r, "existed")
     \/ Recorded(req[r].sync) = {} /\ Goto(r, "logging")
  /\ UNCHANGED <<dbVars, lockedBy, delta, req>>

(* LogTransaction looks the sync id up again, but its caller answers as if *)
(* whatever it returns had been created by this request.                   *)
SecondLookup(r) ==
  /\ pc[r] = "logging"
  /\ \/ Replay(r, "created")
     \/ /\ Recorded(req[r].sync) = {}
        /\ IF ValidCreate(req[r]) THEN Goto(r, "lockSource")
                                  ELSE Answer(r, "rejected")
  /\ UNCHANGED <<dbVars, lockedBy, delta, req>>

(* Mutant: SELECT without FOR UPDATE. *)
ReadWalletUnlocked(r, w, next) ==
  \/ ~Lockable(r, w) /\ Abort(r)
  \/ /\ Lockable(r, w)
     /\ Goto(r, next)
     /\ UNCHANGED <<dbVars, lockedBy, delta, req>>

(* lockWalletForUpdate: SELECT ... FOR UPDATE waits for the lock, and finds *)
(* no row when the wallet is not active.                                    *)
LockWallet(r, w, next) ==
  \/ ~Lockable(r, w) /\ Abort(r)
  \/ /\ Lockable(r, w)
     /\ Free(r, w)
     /\ lockedBy' = [lockedBy EXCEPT ![w] = r]
     /\ Goto(r, next)
     /\ UNCHANGED <<dbVars, delta, req>>

LockSource(r) == pc[r] = "lockSource" /\ LockWallet(r, req[r].wallet, "applySource")

LockDest(r) == pc[r] = "lockDest" /\ LockWallet(r, req[r].dest, "applyDest")

(* applyWalletBalanceDeltaTx: balance = balance + change, not yet visible.  *)
(* r holds the lock of w, so the balance it adds to is the committed one.   *)
Apply(r, w, change, next) ==
  /\ delta' = [delta EXCEPT ![r][w] = Abstract!Posted(balance[w], change) - balance[w]]
  /\ Goto(r, next)
  /\ UNCHANGED <<dbVars, lockedBy, req>>

ApplySource(r) ==
  /\ pc[r] = "applySource"
  /\ Apply(r, req[r].wallet,
           IF req[r].op = "income" THEN req[r].amount ELSE -req[r].amount,
           IF req[r].op = "transfer" THEN "lockDest" ELSE "insert")

(* Mutant: the credit ignores the exchange rate. *)
ApplyDestUnconverted(r) ==
  /\ pc[r] = "applyDest"
  /\ Apply(r, req[r].dest, req[r].amount, "insert")

ApplyDest(r) ==
  /\ pc[r] = "applyDest"
  /\ Apply(r, req[r].dest, req[r].amount * req[r].rate, "insert")

(* insertTransactionTx under UNIQUE(sync_id): a committed duplicate is an  *)
(* error, an uncommitted one is waited for.                                *)
InsertPending(s) == \E o \in Requests : pc[o] = "commit" /\ req[o].sync = s

(* Mutant: sync_id has no unique index, only the look-ups guard it. *)
InsertUnchecked(r) ==
  /\ pc[r] = "insert"
  /\ Goto(r, "commit")
  /\ UNCHANGED <<dbVars, lockedBy, delta, req>>

Insert(r) ==
  /\ pc[r] = "insert"
  /\ \/ Recorded(req[r].sync) # {} /\ Abort(r)
     \/ /\ Recorded(req[r].sync) = {}
        /\ req[r].sync # None => ~InsertPending(req[r].sync)
        /\ Goto(r, "commit")
        /\ UNCHANGED <<dbVars, lockedBy, delta, req>>

(* Commit publishes the row and both balance changes and drops the locks;  *)
(* the answer to the COMMIT itself can still be lost.                      *)
Commit(r) ==
  /\ pc[r] = "commit"
  /\ balance' = [w \in Wallets |-> balance[w] + delta[r][w]]
  /\ rows' = rows \cup {RowOf(r)}
  /\ lockedBy' = Unlocked(r)
  /\ delta' = [delta EXCEPT ![r] = NoDelta]
  /\ \E a \in {"created", "failed"} : Answer(r, a)
  /\ UNCHANGED <<active, req>>

-----------------------------------------------------------------------------
(* WalletService.UpdateBalance and Delete, TransactionService.Delete.       *)
(* Each write is a statement of its own: it waits for the row lock and is   *)
(* committed, but its answer can be lost.                                   *)

AcknowledgedOrLost(r) == \E a \in {"ok", "failed"} : Answer(r, a)

ReadWallet(r) ==
  /\ pc[r] = "received"
  /\ req[r].op \in {"overwrite", "close"}
  /\ IF Owner[req[r].wallet] # req[r].user
       THEN Answer(r, "rejected")
       ELSE IF req[r].op = "overwrite" THEN Goto(r, "store")
       ELSE IF balance[req[r].wallet] # 0 THEN Answer(r, "rejected")
       ELSE Goto(r, "softDelete")
  /\ UNCHANGED <<dbVars, lockedBy, delta, req>>

StoreBalance(r) ==
  /\ pc[r] = "store"
  /\ lockedBy[req[r].wallet] = None
  /\ balance' = [balance EXCEPT ![req[r].wallet] = Abstract!Stored(req[r].amount)]
  /\ AcknowledgedOrLost(r)
  /\ UNCHANGED <<active, rows, lockedBy, delta, req>>

SoftDeleteWallet(r) ==
  /\ pc[r] = "softDelete"
  /\ lockedBy[req[r].wallet] = None
  /\ active' = [active EXCEPT ![req[r].wallet] = FALSE]
  /\ AcknowledgedOrLost(r)
  /\ UNCHANGED <<balance, rows, lockedBy, delta, req>>

(* SoftDelete marks the row; no wallet balance is touched.                  *)
Struck(r) ==
  {x \in rows : x.id = req[r].row /\ x.user = req[r].user /\ ~x.deleted}

SoftDeleteRow(r) ==
  /\ pc[r] = "received"
  /\ req[r].op = "strike"
  /\ \/ Struck(r) = {} /\ Answer(r, "rejected") /\ UNCHANGED rows
     \/ \E x \in Struck(r) :
          /\ rows' = (rows \ {x}) \cup {[x EXCEPT !.deleted = TRUE]}
          /\ AcknowledgedOrLost(r)
  /\ UNCHANGED <<balance, active, lockedBy, delta, req>>

-----------------------------------------------------------------------------
(* What goes wrong around the handlers.                                     *)

(* A statement fails, the connection is lost or the process dies.           *)
Fail(r) == pc[r] \notin {"idle", "done"} /\ Abort(r)

(* The only request that waits while it holds a lock is a transfer waiting  *)
(* for its second wallet.  Those in S all are, and wait for one another.    *)
WaitsFor(r, o) ==
  /\ pc[r] = "lockDest"
  /\ Lockable(r, req[r].dest)
  /\ o # r
  /\ lockedBy[req[r].dest] = o

Deadlocked(r) ==
  \E S \in SUBSET Requests :
    /\ r \in S
    /\ \A o \in S : (\E p \in S : WaitsFor(o, p)) /\ (\E p \in S : WaitsFor(p, o))

(* PostgreSQL's deadlock detector aborts one transaction of the cycle.      *)
BreakDeadlock == \E r \in Requests : Deadlocked(r) /\ Abort(r)

-----------------------------------------------------------------------------
Init ==
  /\ balance = Opening
  /\ active = [w \in Wallets |-> TRUE]
  /\ rows = {}
  /\ lockedBy = [w \in Wallets |-> None]
  /\ delta = [r \in Requests |-> NoDelta]
  /\ req = [r \in Requests |-> None]
  /\ pc = [r \in Requests |-> "idle"]
  /\ result = [r \in Requests |-> "none"]

CreateStep(r) ==
  \/ FirstLookup(r) \/ SecondLookup(r)
  \/ LockSource(r) \/ ApplySource(r) \/ LockDest(r) \/ ApplyDest(r)
  \/ Insert(r) \/ Commit(r)

WalletStep(r) == ReadWallet(r) \/ StoreBalance(r) \/ SoftDeleteWallet(r)

Handle(r) == CreateStep(r) \/ WalletStep(r) \/ SoftDeleteRow(r)

(* Every request has been answered: the server idles.                       *)
AllAnswered == (\A r \in Requests : pc[r] = "done") /\ UNCHANGED vars

Next ==
  \/ \E r \in Requests : Submit(r) \/ Handle(r) \/ Fail(r)
  \/ BreakDeadlock
  \/ AllAnswered

Spec == Init /\ [][Next]_vars

(* A goroutine that can run does, a free lock is eventually granted, and    *)
(* the deadlock detector runs: none of them depends on another client.      *)
Fairness == (\A r \in Requests : WF_vars(Handle(r))) /\ WF_vars(BreakDeadlock)

FairSpec == Spec /\ Fairness

-----------------------------------------------------------------------------
(* Properties.                                                              *)

(* Every variable has its type; in particular a row that reaches the        *)
(* transactions table never has a negative amount, whatever the client      *)
(* sent.  It may have a zero one, as the sign is tested before the rounding.*)
TypeOK ==
  /\ balance \in [Wallets -> Int]
  /\ active \in [Wallets -> BOOLEAN]
  /\ rows \in SUBSET Abstract!Row
  /\ lockedBy \in [Wallets -> Requests \cup {None}]
  /\ delta \in [Requests -> [Wallets -> Int]]
  /\ req \in [Requests -> Inputs \cup {None}]
  /\ pc \in [Requests -> Stages]
  /\ \A r \in Requests : pc[r] # "idle" => req[r] \in Inputs
  /\ result \in [Requests -> Answers]

(* However creates with one sync id overlap, time out and are retried, and  *)
(* whichever wallets they name, at most one of them is ever recorded.       *)
SyncIdUnique ==
  \A x, y \in rows : x.sync = y.sync /\ x.sync # None => x = y

(* No update is lost, applied twice or left half done: a wallet nobody      *)
(* overwrote holds its opening balance plus what every recorded row was to  *)
(* add (deleted rows included, for DeleteTransaction returns no money), but *)
(* for at most half a unit for each row that was to add a fraction of one.  *)
NeverOverwritten(w) ==
  ~\E r \in Requests :
     pc[r] = "done" /\ req[r].op = "overwrite" /\ req[r].wallet = w

Added(x, w) == Abstract!Change(x, req[x.id].amount, w)

WholeUnits(v) == v = Grain * Abstract!Stored(v)

Blurs(x, w) == IF WholeUnits(Added(x, w)) THEN 0 ELSE 1

Drift(w) ==
  Grain * (balance[w] - Opening[w]) - SumFunction([x \in rows |-> Added(x, w)])

Blur(w) == SumFunction([x \in rows |-> Blurs(x, w)])

BalancesExplained ==
  \A w \in Wallets : NeverOverwritten(w) =>
    -Grain * Blur(w) <= 2 * Drift(w) /\ 2 * Drift(w) <= Grain * Blur(w)

(* What a create was answered is true of the table: created or existed      *)
(* means the user's row is there, and a request that was rejected or shown  *)
(* an existing row has recorded nothing itself.                             *)
AnswersAreTruthful ==
  \A r \in Requests :
    /\ result[r] \in {"created", "existed"} =>
         \E x \in rows :
           /\ x.user = req[r].user
           /\ x.id = r \/ (req[r].sync # None /\ x.sync = req[r].sync)
    /\ result[r] \in {"rejected", "existed"} => \A x \in rows : x.id # r

(* From the moment a create holds a wallet until it commits or aborts, the  *)
(* wallet is locked by it, active and its user's, its private changes bring *)
(* the wallet from the balance it has now to the one the row it will insert *)
(* calls for, and once it has inserted the row no other request has         *)
(* recorded or inserted the same sync id.                                   *)
SourceHeld == {"applySource", "lockDest", "applyDest", "insert", "commit"}

Holds(r, w) == lockedBy[w] = r /\ Lockable(r, w)

StagesMatch ==
  \A r \in Requests :
    /\ pc[r] \in InTransaction \cup {"logging"} => req[r].op \in Kinds
    /\ pc[r] \in InTransaction => ValidCreate(req[r])
    /\ pc[r] \in {"lockDest", "applyDest"} => req[r].op = "transfer"
    /\ pc[r] = "store" => req[r].op = "overwrite"
    /\ pc[r] = "softDelete" => req[r].op = "close"

HoldsItsWallets(r) ==
  /\ pc[r] \in SourceHeld => Holds(r, req[r].wallet)
  /\ pc[r] \in {"applyDest", "insert", "commit"} /\ req[r].op = "transfer" =>
       Holds(r, req[r].dest)

LocksHeld == \A r \in Requests : HoldsItsWallets(r)

ChangeDue(r, w) ==
  IF \/ pc[r] \in {"insert", "commit"}
     \/ pc[r] \in {"lockDest", "applyDest"} /\ w = req[r].wallet
    THEN Adds(r, w) ELSE 0

Pending(r, w) ==
  balance[w] + delta[r][w] = Abstract!Posted(balance[w], ChangeDue(r, w))

ChangesPending == \A r \in Requests : \A w \in Wallets : Pending(r, w)

InsertsDistinct ==
  \A r \in Requests : pc[r] = "commit" /\ req[r].sync # None =>
    /\ Recorded(req[r].sync) = {}
    /\ \A o \in Requests \ {r} : pc[o] = "commit" => req[o].sync # req[r].sync

RowsBelongToAnswered == \A x \in rows : pc[x.id] = "done"

LedgerInv ==
  /\ StagesMatch /\ LocksHeld /\ ChangesPending
  /\ InsertsDistinct /\ RowsBelongToAnswered

(* The whole path, statements, locks, aborts and lost answers, is an        *)
(* implementation of four indivisible operations.                           *)
RefinesAtomicLedger == Abstract!Spec

(* Every request that reaches the server is answered: waiting for row       *)
(* locks, in whatever order transfers take them, never lasts for ever.      *)
EveryRequestAnswered ==
  \A r \in Requests : pc[r] # "idle" ~> pc[r] = "done"

(* What the source says of a deleted wallet: "wallet with non-zero balance  *)
(* cannot be deleted" (wallet_service.go:205).                              *)
ClosedWalletIsEmpty == \A w \in Wallets : ~active[w] => balance[w] = 0
=============================================================================

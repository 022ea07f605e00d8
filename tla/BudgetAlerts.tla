---------------------------- MODULE BudgetAlerts ----------------------------
(***************************************************************************)
(* BudgetService of the Mali API: the budgets of one user for one month,   *)
(* their status computed from the ledger, and the events that report a     *)
(* budget used to 80 or to 100 percent.                                    *)
(*                                                                         *)
(* A status request reads the budgets, then takes them by category: one    *)
(* statement sums the month's expenses, the last reported threshold is     *)
(* read under a lock, the events are emitted without it, and the new       *)
(* threshold is stored under it again.  The thresholds live in the         *)
(* process.  main.go sets no emitter and the service is then silent; the   *)
(* model is the service with one, as its tests have it.                    *)
(***************************************************************************)
EXTENDS Integers, FiniteSetsExt

CONSTANTS Categories,     \* numbers, in the order of the categories' ids
          Transactions,
          Postings,       \* what other parts may record as a transaction
          BudgetAmounts,  \* amounts clients send
          StatusReads,    \* status requests, each of which may be made again and again
          None

VARIABLES budgets,        \* the amount budgeted for each category
          recorded,       \* the ledger's row of each transaction
          lastEmitted,    \* lastEmittedThreshold
          emitted,        \* events of this process by category and threshold, counted to 2
          reads,          \* the state of each status request
          calm            \* history: no two requests overlapped and none failed

vars == <<budgets, recorded, lastEmitted, emitted, reads, calm>>

Thresholds == {80, 100}

Posting == [category: Categories, kind: {"expense", "income"}, month: {"this", "other"},
            amount: Nat \ {0}, deleted: BOOLEAN]

-----------------------------------------------------------------------------
(* The ledger, and the sum that GetBudgetSpent takes over it.               *)

Counted(c) ==
  {t \in Transactions : /\ recorded[t] # None /\ ~recorded[t].deleted
                        /\ recorded[t].category = c
                        /\ recorded[t].kind = "expense"
                        /\ recorded[t].month = "this"}

Spent(c) == MapThenSumSet(LAMBDA t : recorded[t].amount, Counted(c))

(* Mutant: a threshold that is exactly reached does not count. *)
ThresholdPassed(amount, spent) ==
  IF spent * 100 > 100 * amount THEN 100
  ELSE IF spent * 100 > 80 * amount THEN 80 ELSE 0

ThresholdOf(amount, spent) ==
  IF spent * 100 >= 100 * amount THEN 100
  ELSE IF spent * 100 >= 80 * amount THEN 80 ELSE 0

(* History: every status read so far is of an older state.                  *)
Outdated(rs) == [r \in StatusReads |-> [rs[r] EXCEPT !.fresh = FALSE]]

Record(t) ==
  /\ \/ recorded[t] = None /\ \E p \in Postings : recorded' = [recorded EXCEPT ![t] = p]
     \/ recorded[t] # None /\ recorded' = [recorded EXCEPT ![t].deleted = TRUE]
  /\ reads' = Outdated(reads)
  /\ UNCHANGED <<budgets, lastEmitted, emitted, calm>>

Requested == {a \in BudgetAmounts : a > 0}

(* One statement: INSERT ... ON CONFLICT DO UPDATE, so the budget keeps its *)
(* id and with it its place among the thresholds.                           *)
Upserted(c, a) == [budgets EXCEPT ![c] = a]

UpsertBudget(c) ==
  /\ \E a \in Requested : budgets' = Upserted(c, a)
  /\ reads' = Outdated(reads)
  /\ UNCHANGED <<recorded, lastEmitted, emitted, calm>>

-----------------------------------------------------------------------------
(* GetBudgetStatus.                                                         *)

Unread == [pc |-> "idle", todo |-> {}, amounts |-> [c \in Categories |-> None],
           threshold |-> 0, previous |-> 0, fresh |-> FALSE, answer |-> "none"]

OpenReads == {r \in StatusReads : reads[r].pc \notin {"idle", "done"}}

Finished(rd, a) ==
  [rd EXCEPT !.pc = "done", !.answer = a, !.todo = {}, !.threshold = 0, !.previous = 0,
             !.amounts = [c \in Categories |-> None]]

Current(r) == Min(reads[r].todo)

(* On to the next budget; after the last one the statuses are the answer.   *)
Following(r) ==
  LET rest == reads[r].todo \ {Current(r)}
  IN IF rest = {} THEN Finished(reads[r], "ok")
                  ELSE [reads[r] EXCEPT !.pc = "sum", !.todo = rest]

ListBudgets(r) ==
  /\ r \notin OpenReads
  /\ LET listed == {c \in Categories : budgets[c] # None}
         rd == [Unread EXCEPT !.pc = "sum", !.todo = listed, !.amounts = budgets,
                              !.fresh = TRUE]
     IN reads' = [reads EXCEPT ![r] = IF listed = {} THEN Finished(rd, "ok") ELSE rd]
  /\ calm' = (calm /\ OpenReads = {})
  /\ UNCHANGED <<budgets, recorded, lastEmitted, emitted>>

(* Below the first threshold nothing is emitted and nothing is stored.      *)
SumSpent(r) ==
  /\ reads[r].pc = "sum"
  /\ LET reached == ThresholdOf(reads[r].amounts[Current(r)], Spent(Current(r)))
     IN reads' = [reads EXCEPT ![r] =
          IF reached = 0 THEN Following(r)
                         ELSE [@ EXCEPT !.pc = "check", !.threshold = reached]]
  /\ UNCHANGED <<budgets, recorded, lastEmitted, emitted, calm>>

(* Mutant: the threshold is stored before its events are emitted. *)
ReadAndStore(r) ==
  /\ reads[r].pc = "check"
  /\ reads' = [reads EXCEPT ![r].pc = "emit", ![r].previous = lastEmitted[Current(r)]]
  /\ lastEmitted' = [lastEmitted EXCEPT ![Current(r)] = reads[r].threshold]
  /\ UNCHANGED <<budgets, recorded, emitted, calm>>

ReadLastEmitted(r) ==
  /\ reads[r].pc = "check"
  /\ reads' = [reads EXCEPT ![r].pc = "emit", ![r].previous = lastEmitted[Current(r)]]
  /\ UNCHANGED <<budgets, recorded, lastEmitted, emitted, calm>>

(* The thresholds above the previous one, the lower first.  An emitter that *)
(* fails ends the request, and the threshold is not stored.                 *)
Emit(r) ==
  /\ reads[r].pc = "emit"
  /\ LET due == {th \in Thresholds : reads[r].previous < th /\ th <= reads[r].threshold}
         c == Current(r)
     IN IF due = {}
          THEN /\ reads' = [reads EXCEPT ![r].pc = "store"]
               /\ UNCHANGED <<emitted, calm>>
          ELSE \/ /\ emitted' = [emitted EXCEPT ![c][Min(due)] = Min({@ + 1, 2})]
                  /\ reads' = [reads EXCEPT ![r].previous = Min(due)]
                  /\ UNCHANGED calm
               \/ /\ reads' = [reads EXCEPT ![r] = Finished(@, "failed")]
                  /\ calm' = FALSE
                  /\ UNCHANGED emitted
  /\ UNCHANGED <<budgets, recorded, lastEmitted>>

(* Mutant: only a budget that is used up is remembered. *)
StoreUsedUp(r) ==
  /\ reads[r].pc = "store"
  /\ lastEmitted' = IF reads[r].threshold = 100
                      THEN [lastEmitted EXCEPT ![Current(r)] = 100] ELSE lastEmitted
  /\ reads' = [reads EXCEPT ![r] = Following(r)]
  /\ UNCHANGED <<budgets, recorded, emitted, calm>>

StoreLastEmitted(r) ==
  /\ reads[r].pc = "store"
  /\ lastEmitted' = [lastEmitted EXCEPT ![Current(r)] = reads[r].threshold]
  /\ reads' = [reads EXCEPT ![r] = Following(r)]
  /\ UNCHANGED <<budgets, recorded, emitted, calm>>

(* A statement fails, or the client goes away.                              *)
FailRead(r) ==
  /\ reads[r].pc = "sum"
  /\ reads' = [reads EXCEPT ![r] = Finished(@, "failed")]
  /\ UNCHANGED <<budgets, recorded, lastEmitted, emitted, calm>>

(* The process restarts: its requests end and its thresholds are gone.      *)
RestartServer ==
  /\ \E r \in StatusReads : reads[r].pc # "idle"
  /\ lastEmitted' = [c \in Categories |-> 0]
  /\ emitted' = [c \in Categories |-> [th \in Thresholds |-> 0]]
  /\ reads' = Outdated([r \in StatusReads |->
                 IF r \in OpenReads THEN Finished(reads[r], "failed") ELSE reads[r]])
  /\ calm' = TRUE
  /\ UNCHANGED <<budgets, recorded>>

Init ==
  /\ budgets = [c \in Categories |-> None]
  /\ recorded = [t \in Transactions |-> None]
  /\ lastEmitted = [c \in Categories |-> 0]
  /\ emitted = [c \in Categories |-> [th \in Thresholds |-> 0]]
  /\ reads = [r \in StatusReads |-> Unread]
  /\ calm = TRUE

GetBudgetStatus(r) ==
  \/ ListBudgets(r) \/ SumSpent(r) \/ ReadLastEmitted(r) \/ Emit(r)
  \/ StoreLastEmitted(r) \/ FailRead(r)

Next ==
  \/ \E t \in Transactions : Record(t)
  \/ \E c \in Categories : UpsertBudget(c)
  \/ \E r \in StatusReads : GetBudgetStatus(r)
  \/ RestartServer

Spec == Init /\ [][Next]_vars

-----------------------------------------------------------------------------
(* Properties.                                                              *)

(* A threshold that the service remembers as reported has been emitted by   *)
(* this process, with the thresholds below it, although requests overlap,   *)
(* emitters fail between two thresholds and budgets change underneath.      *)
RememberedIsReported ==
  \A c \in Categories, th \in Thresholds :
    th <= lastEmitted[c] => emitted[c][th] > 0

(* A status request that is answered while nothing changed since it began   *)
(* leaves no reached threshold unreported.                                  *)
NoAlertMissed ==
  \A r \in StatusReads :
    reads[r].answer = "ok" /\ reads[r].fresh =>
      \A c \in Categories, th \in Thresholds :
        /\ budgets[c] # None
        /\ Spent(c) * 100 >= th * budgets[c]
        => emitted[c][th] > 0

(* Requests that come one at a time and do not fail report a budget used to *)
(* 80 percent once in the life of the process, whatever is spent, deleted   *)
(* and budgeted anew in between.                                            *)
ReportedOnce == calm => \A c \in Categories : emitted[c][80] <= 1
=============================================================================

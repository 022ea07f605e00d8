----------------------------- MODULE Components ------------------------------
(***************************************************************************)
(* The smaller components of Mali side by side: of the API the budgets,    *)
(* exchange rates, paged lists, push endpoint and rate limiter, of the     *)
(* device the local ledger, the goals and the PIN lock.                    *)
(*                                                                         *)
(* They share no variable here.  A behaviour is one of one component,      *)
(* chosen at the start, while the others stay as they began; one run of    *)
(* TLC so checks them all.                                                 *)
(***************************************************************************)
EXTENDS Integers, FiniteSets

CONSTANTS None,
          Categories, Transactions, Postings, BudgetAmounts, StatusReads,
          Users, FirstUsers, Currencies, Rates, Moments, ManualRequests, Tasks, Attempts,
          LastTick,
          Items, Walks, Limit, PerSecond, LastMoment, MaxPages,
          SyncIds, Pushes, MaxChanges,
          AuthRequests, MaxRequests, Window, Delay, LastMs,
          Uses, Entries, Sums, Envelopes, Limits,
          Edits, Goals, Gifts, Targets,
          Pins

ASSUME BudgetAssumption == Categories \subseteq Nat

ASSUME PushAssumption == MaxChanges \in Nat

ASSUME PinAssumption ==
  /\ Pins \subseteq Nat
  /\ None \notin Pins /\ None # TRUE
  /\ None \notin [enabled : BOOLEAN, unlocked : BOOLEAN]

ASSUME RateAssumption == Moments \subseteq Int /\ Attempts \in Int /\ None \notin Int

ASSUME PageAssumption ==
  /\ IsFiniteSet(Items) /\ Items \subseteq Int
  /\ Limit \in Nat \ {0} /\ PerSecond \in Nat \ {0}
  /\ None \notin [id : Int, at : Int]
  /\ None \notin [at : Int, state : {"stamped", "live", "deleted"}]

ASSUME LimiterAssumption ==
  /\ MaxRequests \in Nat /\ Window \in Nat /\ Delay \in Nat

ASSUME LedgerAssumption ==
  /\ Sums \subseteq Int /\ Limits \subseteq Int
  /\ IsFiniteSet(Entries)
  /\ None \notin [kind : {"income", "expense", "transfer"}, amount : Nat]
  /\ None \notin [amount : Int, spent : Int]

ASSUME GoalAssumption ==
  /\ Gifts \subseteq Int /\ Targets \subseteq Int
  /\ IsFiniteSet(Goals)
  /\ None \notin [amount : Int, target : Int, done : BOOLEAN, priority : Int]

VARIABLES part,           \* the component whose behaviour this is
          budgets, recorded, lastEmitted, emitted, reads, calm,
          accounts, table, now, manual, task,
          list, row, clock, walk,
          change, rows, credit, there, push, effects,
          ms, zset, expires, attempt,
          funds, books, entry, envelope, use, announced, cut, inTurn,
          goals, given, edit, torn, oneByOne, unbroken,
          stored, writes, screen, lock, latest, spoiled

Budgets == INSTANCE BudgetAlerts
ExRates == INSTANCE ExchangeRates
Pages == INSTANCE PagedReads
PushEnd == INSTANCE SyncPush
Limiter == INSTANCE RateLimit
Ledger == INSTANCE DeviceLedger
Savings == INSTANCE DeviceGoals
Pin == INSTANCE PinLock

budgetVars == <<budgets, recorded, lastEmitted, emitted, reads, calm>>
rateVars == <<accounts, table, now, manual, task>>
pageVars == <<list, row, clock, walk>>
pushVars == <<change, rows, credit, there, push, effects>>
limiterVars == <<ms, zset, expires, attempt>>
ledgerVars == <<funds, books, entry, envelope, use, announced, cut, inTurn>>
goalVars == <<goals, given, edit, torn, oneByOne, unbroken>>
pinVars == <<stored, writes, screen, lock, latest, spoiled>>

vars ==
  <<part, budgetVars, rateVars, pageVars, pushVars, limiterVars, ledgerVars, goalVars, pinVars>>

Parts == {"budgets", "rates", "pages", "push", "limiter", "ledger", "goals", "pin"}

-----------------------------------------------------------------------------
(* All but the variables of one component stay as they are.                 *)
Others(p) ==
  /\ UNCHANGED part
  /\ IF p = "budgets" THEN TRUE ELSE UNCHANGED budgetVars
  /\ IF p = "rates" THEN TRUE ELSE UNCHANGED rateVars
  /\ IF p = "pages" THEN TRUE ELSE UNCHANGED pageVars
  /\ IF p = "push" THEN TRUE ELSE UNCHANGED pushVars
  /\ IF p = "limiter" THEN TRUE ELSE UNCHANGED limiterVars
  /\ IF p = "ledger" THEN TRUE ELSE UNCHANGED ledgerVars
  /\ IF p = "goals" THEN TRUE ELSE UNCHANGED goalVars
  /\ IF p = "pin" THEN TRUE ELSE UNCHANGED pinVars

StepBudgets == part = "budgets" /\ Budgets!Next /\ Others("budgets")
StepRates == part = "rates" /\ ExRates!Next /\ Others("rates")
StepPages == part = "pages" /\ Pages!Next /\ Others("pages")
StepPush == part = "push" /\ PushEnd!Next /\ Others("push")
StepLimiter == part = "limiter" /\ Limiter!Next /\ Others("limiter")
StepLedger == part = "ledger" /\ Ledger!Next /\ Others("ledger")
StepGoals == part = "goals" /\ Savings!Next /\ Others("goals")
StepPin == part = "pin" /\ Pin!Next /\ Others("pin")

(* A component that takes no step begins in one of its initial states only. *)
Init ==
  /\ part \in Parts
  /\ Budgets!Init /\ ExRates!Init /\ Limiter!Init /\ Ledger!Init /\ Savings!Init /\ Pin!Init
  /\ Pages!Init /\ (part = "pages" \/ list = "log")
  /\ PushEnd!Init
  /\ part = "push" \/ (credit = 0 /\ \A id \in SyncIds : change[id] = <<"upsert", "budget">>)

Next ==
  \/ StepBudgets \/ StepRates \/ StepPages \/ StepPush \/ StepLimiter
  \/ StepLedger \/ StepGoals \/ StepPin

Spec == Init /\ [][Next]_vars

-----------------------------------------------------------------------------
(* The components' properties, stated and explained in their modules.       *)

(* A remembered threshold has been reported.                                *)
RememberedIsReported == Budgets!RememberedIsReported

(* A status read of an unchanged state leaves no threshold unreported.      *)
NoAlertMissed == Budgets!NoAlertMissed

(* Requests that come one at a time report a threshold once.                *)
ReportedOnce == Budgets!ReportedOnce

(* Two rows of one rate and time come only of overlapping requests.         *)
OneRowInTurn == ExRates!OneRowInTurn

(* The rate shown never gives way to an older one.                          *)
NewerRateStays == ExRates!NewerRateStays

(* A task that is not run again has stored every rate for every user.       *)
TaskStoredAll == ExRates!TaskStoredAll

(* A walk misses only rows that the cursor cannot tell apart.               *)
MissesOnlyBlurredRows == Pages!MissesOnlyBlurredRows

(* A walk repeats only rows that the cursor cannot tell apart.              *)
RepeatsOnlyBlurredRows == Pages!RepeatsOnlyBlurredRows

(* A change is carried out once by a request, and a transaction once.       *)
CarriedOutOnce == PushEnd!CarriedOutOnce

(* Accepted changes were carried out, and conflicts were not, unless the    *)
(* answer of the database was lost or a contribution stopped half way.      *)
AnswersTell == PushEnd!AnswersTell

(* No more requests than the limit get through in a window.                 *)
LimitHolds == Limiter!LimitHolds

(* The device's balance is explained by the transactions and broken calls.  *)
DriftIsCut == Ledger!DriftIsCut

(* The device announces no budget as exceeded that is not.                  *)
AlertsAreTrue == Ledger!AlertsAreTrue

(* A goal on the device shows no more than was contributed to it.           *)
ShownIsGiven == Savings!ShownIsGiven

(* Goals on the device have one order.                                      *)
OneOrder == Savings!OneOrder

(* The PIN lock opens with the PIN set last.                                *)
PinOpens == Pin!PinOpens
=============================================================================

-------------------------- MODULE GoalContribution --------------------------
(***************************************************************************)
(* GoalService of the Mali API: contributing to a savings goal, updating   *)
(* it and deleting it, by concurrent requests.                             *)
(*                                                                         *)
(* A contribution is up to four statements with no database transaction    *)
(* around them: read the goal, insert the contribution, store the new      *)
(* saved amount, rewrite the goal row.  One action is one statement with   *)
(* the service code up to the next one.  Every statement names its goal by *)
(* id, so one goal is enough.  Money is an integer number of DECIMAL(18,4) *)
(* units: the clients here send no finer amounts.  A date is the number of *)
(* days since some first day of a month.                                   *)
(***************************************************************************)
EXTENDS Integers, FiniteSetsExt

CONSTANTS Requests, None,
          Amounts,        \* contributions clients send
          Targets,        \* target amounts clients send
          Deadlines,      \* deadlines clients send
          FirstTarget, FirstSaved, FirstDeadline,  \* what CreateGoal was sent
          DaysPerMonth,
          LastDay,        \* bound of the calendar
          Concurrency,    \* requests the clients keep open at a time
          Offered         \* the operations the clients of this instance call

VARIABLES goal,           \* the row of savings_goals, None once deleted
          contributions,  \* the rows of goal_contributions
          today,          \* the server's date
          req,            \* the input of each request
          copy,           \* the goal each request has read and changed in memory
          pc,             \* where each request is in its handler
          result          \* what the request was answered

vars == <<goal, contributions, today, req, copy, pc, result>>

ASSUME GoalAssumption ==
  /\ None \notin Requests
  /\ Amounts \subseteq Int /\ Targets \subseteq Int /\ Deadlines \subseteq Nat
  /\ FirstTarget \in Nat \ {0} /\ FirstSaved \in Int /\ FirstDeadline \in Nat \ {0}
  /\ DaysPerMonth \in Nat \ {0} /\ LastDay \in Nat /\ Concurrency \in Nat

-----------------------------------------------------------------------------
(* The arithmetic of goals.                                                *)

MonthsUntil(from, to) ==
  Max({1, (to \div DaysPerMonth) - (from \div DaysPerMonth)
          + IF to % DaysPerMonth > from % DaysPerMonth THEN 1 ELSE 0})

(* Mutant: more saved than the target gives a negative remainder. *)
SignedRemaining(target, saved) == target - saved

Remaining(target, saved) == Max({0, target - saved})

(* FloatString(4) rounds the exact quotient to a unit, halves upwards.      *)
RoundedQuotient(a, b) == (2 * a + b) \div (2 * b)

RequiredMonthly(target, saved, from, deadline) ==
  RoundedQuotient(Remaining(target, saved), MonthsUntil(from, deadline))

-----------------------------------------------------------------------------
(* The field alone is history: no other request was open when it was sent. *)
Contribution == [op: {"contribute"}, amount: Amounts, alone: BOOLEAN]
Update == [op: {"update"}, target: Targets, deadline: Deadlines, completed: BOOLEAN,
           alone: BOOLEAN]
Deletion == [op: {"delete"}, alone: BOOLEAN]

Inputs == Contribution \cup Update \cup Deletion

Goal == [target: Int, saved: Int, required: Nat, deadline: Nat, completed: BOOLEAN]

ASSUME NoGoalIsNoRow == None \notin Goal /\ None \notin Inputs

(* The goal as CreateGoal and UpdateGoal compute it.                        *)
Planned(target, saved, deadline, flagged) ==
  [target |-> target, saved |-> saved, deadline |-> deadline,
   required |-> RequiredMonthly(target, saved, today, deadline),
   completed |-> flagged \/ Remaining(target, saved) = 0]

Open == {r \in Requests : pc[r] \notin {"idle", "done"}}

Goto(r, stage) ==
  /\ pc' = [pc EXCEPT ![r] = stage]
  /\ UNCHANGED result

Answer(r, a) ==
  /\ pc' = [pc EXCEPT ![r] = "done"]
  /\ result' = [result EXCEPT ![r] = a]

Submit(r) ==
  /\ pc[r] = "idle"
  /\ Cardinality(Open) < Concurrency
  /\ \E q \in Inputs :
       /\ q.op \in Offered
       /\ q.alone = (Open = {})
       /\ req' = [req EXCEPT ![r] = q]
  /\ Goto(r, "received")
  /\ UNCHANGED <<goal, contributions, today, copy>>

-----------------------------------------------------------------------------
(* Contribute.                                                             *)

(* The amount is checked before the goal is read, and the new saved amount  *)
(* is computed from the goal as read here.                                  *)
ReadForContribution(r) ==
  /\ pc[r] = "received"
  /\ req[r].op = "contribute"
  /\ IF req[r].amount > 0 /\ goal # None
       THEN /\ copy' = [copy EXCEPT ![r] = [goal EXCEPT !.saved = @ + req[r].amount]]
            /\ Goto(r, "insert")
       ELSE Answer(r, "rejected") /\ UNCHANGED copy
  /\ UNCHANGED <<goal, contributions, today, req>>

(* Mutant: an error of the insert is not returned. *)
InsertErrorIgnored(r) ==
  /\ pc[r] = "insert"
  /\ \/ goal # None /\ contributions' = contributions \cup {[id |-> r, amount |-> req[r].amount]}
     \/ UNCHANGED contributions
  /\ Goto(r, "store")
  /\ UNCHANGED <<goal, today, req, copy>>

(* The foreign key refuses a contribution to a goal that is gone.           *)
InsertContribution(r) ==
  /\ pc[r] = "insert"
  /\ IF goal = None
       THEN Answer(r, "failed") /\ UNCHANGED contributions
       ELSE /\ contributions' = contributions \cup {[id |-> r, amount |-> req[r].amount]}
            /\ Goto(r, "store") \/ Answer(r, "failed")
  /\ UNCHANGED <<goal, today, req, copy>>

(* Mutant: the saved amount is left to the rewrite, which does not write it. *)
StoreLeftToRewrite(r) ==
  /\ pc[r] = "store"
  /\ Goto(r, "rewrite")
  /\ UNCHANGED <<goal, contributions, today, req, copy>>

(* Mutant: the recomputed completion is left in memory. *)
StoreSavedOnly(r) ==
  /\ pc[r] = "store"
  /\ IF goal = None
       THEN Answer(r, "failed") /\ UNCHANGED goal
       ELSE goal' = [goal EXCEPT !.saved = copy[r].saved] /\ Answer(r, "ok")
  /\ UNCHANGED <<contributions, today, req, copy>>

(* UpdateSavedAmount stores the sum computed at the read, whatever the row  *)
(* holds by now.  While the deadline lies ahead the rest of the row is then *)
(* rewritten too; after it the new completion stays in memory.              *)
StoreSaved(r) ==
  /\ pc[r] = "store"
  /\ IF goal = None
       THEN Answer(r, "failed") /\ UNCHANGED <<goal, copy>>
       ELSE
         LET c == copy[r]
             done == [c EXCEPT !.completed = c.saved >= c.target]
             planned == [done EXCEPT !.required =
                           RequiredMonthly(c.target, c.saved, today, c.deadline)]
         IN /\ goal' = [goal EXCEPT !.saved = c.saved]
            /\ IF c.deadline > today
                 THEN /\ copy' = [copy EXCEPT ![r] = planned]
                      /\ Goto(r, "rewrite") \/ Answer(r, "failed")
                 ELSE /\ copy' = [copy EXCEPT ![r] = done]
                      /\ Answer(r, "ok") \/ Answer(r, "failed")
  /\ UNCHANGED <<contributions, today, req>>

-----------------------------------------------------------------------------
(* UpdateGoal and DeleteGoal.                                              *)

ReadForUpdate(r) ==
  /\ pc[r] = "received"
  /\ req[r].op = "update"
  /\ IF goal # None /\ req[r].target > 0 /\ req[r].deadline > today
       THEN /\ copy' = [copy EXCEPT ![r] =
                 Planned(req[r].target, goal.saved, req[r].deadline, req[r].completed)]
            /\ Goto(r, "rewrite")
       ELSE Answer(r, "rejected") /\ UNCHANGED copy
  /\ UNCHANGED <<goal, contributions, today, req>>

(* Mutant: Update inserts the row when it is gone. *)
RewriteOrInsert(r) ==
  /\ pc[r] = "rewrite"
  /\ goal' = copy[r]
  /\ Answer(r, "ok")
  /\ UNCHANGED <<contributions, today, req, copy>>

(* Mutant: the update forgets the deadline and the target. *)
RewritePart(r) ==
  /\ pc[r] = "rewrite"
  /\ IF goal = None
       THEN UNCHANGED goal
       ELSE goal' = [copy[r] EXCEPT !.saved = goal.saved, !.target = goal.target]
  /\ Answer(r, "ok")
  /\ UNCHANGED <<contributions, today, req, copy>>

(* Update writes every column but saved_amount from the copy in memory.     *)
(* It is the last statement of UpdateGoal and of Contribute.                *)
Rewrite(r) ==
  /\ pc[r] = "rewrite"
  /\ IF goal = None
       THEN Answer(r, "failed") /\ UNCHANGED <<goal>>
       ELSE /\ goal' = [copy[r] EXCEPT !.saved = goal.saved]
            /\ Answer(r, "ok") \/ Answer(r, "failed")
  /\ UNCHANGED <<contributions, today, req, copy>>

(* The contributions go with their goal: ON DELETE CASCADE.                 *)
Delete(r) ==
  /\ pc[r] = "received"
  /\ req[r].op = "delete"
  /\ IF goal = None
       THEN Answer(r, "rejected") /\ UNCHANGED <<goal, contributions>>
       ELSE /\ goal' = None
            /\ contributions' = {}
            /\ Answer(r, "ok") \/ Answer(r, "failed")
  /\ UNCHANGED <<today, req, copy>>

-----------------------------------------------------------------------------
(* A statement fails before it has an effect, or the process dies.          *)
Fail(r) ==
  /\ r \in Open
  /\ Answer(r, "failed")
  /\ UNCHANGED <<goal, contributions, today, req, copy>>

NextDay ==
  /\ today < LastDay
  /\ today' = today + 1
  /\ UNCHANGED <<goal, contributions, req, copy, pc, result>>

Init ==
  /\ today = 0
  /\ goal = Planned(FirstTarget, FirstSaved, FirstDeadline, FALSE)
  /\ contributions = {}
  /\ req = [r \in Requests |-> None]
  /\ copy = [r \in Requests |-> None]
  /\ pc = [r \in Requests |-> "idle"]
  /\ result = [r \in Requests |-> "none"]

Contribute(r) == ReadForContribution(r) \/ InsertContribution(r) \/ StoreSaved(r)

UpdateGoal(r) == ReadForUpdate(r) \/ Rewrite(r)

Handle(r) == Contribute(r) \/ UpdateGoal(r) \/ Delete(r)

AllAnswered ==
  (\A r \in Requests : pc[r] = "done") /\ today = LastDay /\ UNCHANGED vars

Next ==
  \/ \E r \in Requests : Submit(r) \/ Handle(r) \/ Fail(r)
  \/ NextDay
  \/ AllAnswered

Spec == Init /\ [][Next]_vars

-----------------------------------------------------------------------------
(* Properties.                                                              *)

(* Every variable has its type; the plan of a goal is never negative, even  *)
(* when more is saved than its target.                                      *)
TypeOK ==
  /\ goal \in Goal \cup {None}
  /\ contributions \subseteq [id: Requests, amount: Nat \ {0}]
  /\ today \in 0..LastDay
  /\ req \in [Requests -> Inputs \cup {None}]
  /\ copy \in [Requests -> Goal \cup {None}]
  /\ pc \in [Requests -> {"idle", "received", "insert", "store", "rewrite", "done"}]
  /\ result \in [Requests -> {"none", "ok", "rejected", "failed"}]

Total(S) == SumFunction([x \in S |-> x.amount])

(* However contributions overlap, fail half way or lose their answer, the   *)
(* saved amount is the opening amount and some of the recorded              *)
(* contributions: money is at worst forgotten, never invented or doubled.   *)
SavedExplained ==
  goal # None =>
    \E S \in SUBSET contributions : goal.saved = FirstSaved + Total(S)

(* A goal that is gone stays gone, with its contributions, although a       *)
(* contribution or an update that read it earlier still writes.             *)
GoneForGood == [][goal = None => goal' = None /\ contributions' = {}]_vars

Acknowledged == {x \in contributions : result[x.id] = "ok"}

(* What openapi.json says of an answered contribution: "Goal contribution   *)
(* applied."  Once nothing is in flight, the saved amount holds every       *)
(* acknowledged contribution.                                               *)
AcknowledgedApplied ==
  Open = {} /\ goal # None =>
    \E S \in SUBSET contributions :
      Acknowledged \subseteq S /\ goal.saved = FirstSaved + Total(S)

(* Each request was sent when the one before it was answered.               *)
Serial == \A r \in Requests : req[r] # None => req[r].alone

(* A client that sends one request at a time finds every acknowledged       *)
(* contribution in the saved amount, although other requests failed at any  *)
(* statement.                                                               *)
AppliedInTurn == Serial => AcknowledgedApplied

NothingFailed == \A r \in Requests : result[r] # "failed"

(* When requests came one at a time, none failed and the deadline lies      *)
(* ahead, a goal whose target is saved is marked completed, whichever of    *)
(* contributions, lowered targets and moved deadlines brought it there.     *)
CompletionFollowsProgress ==
  Serial /\ Open = {} /\ goal # None /\ NothingFailed /\ today < goal.deadline =>
    (goal.saved >= goal.target => goal.completed)

(* What openapi.json says of an answered update: "Goal updated."  When      *)
(* requests came one at a time, one of them an update, the row has its      *)
(* target and deadline.                                                     *)
UpdateStands ==
  Serial /\ Open = {} /\ goal # None =>
    \A r \in Requests :
      /\ req[r] # None /\ result[r] = "ok"
      /\ req[r].op = "update"
      /\ \A o \in Requests \ {r} : req[o] # None => req[o].op # "update"
      => goal.target = req[r].target /\ goal.deadline = req[r].deadline
=============================================================================

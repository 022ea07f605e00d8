----------------------- MODULE GoalContributionProofs -----------------------
(***************************************************************************)
(* Proofs about GoalContribution, for any number of requests, any amounts  *)
(* and any calendar: the state is well typed, a goal that is gone stays    *)
(* gone, the saved amount is explained by the contributions, and requests  *)
(* that come one at a time have the effect that they are acknowledged for. *)
(***************************************************************************)
EXTENDS GoalContribution, SumLemmas, TLAPS

-----------------------------------------------------------------------------
(* The arithmetic.                                                         *)

LEMMA MaxOfTwo ==
  ASSUME NEW a \in Int, NEW b \in Int
  PROVE  Max({a, b}) \in Int /\ Max({a, b}) >= a /\ Max({a, b}) >= b
  <1>1. \E x \in {a, b} : \A y \in {a, b} : x >= y
    BY a >= b \/ b >= a
  <1>2. Max({a, b}) \in {a, b} /\ \A y \in {a, b} : Max({a, b}) >= y
    BY <1>1 DEF Max
  <1>3. QED
    BY <1>2

LEMMA RemainingNat ==
  ASSUME NEW target \in Int, NEW saved \in Int
  PROVE  Remaining(target, saved) \in Nat
  BY MaxOfTwo, target - saved \in Int DEF Remaining

LEMMA MonthsPositive ==
  ASSUME NEW from \in Nat, NEW to \in Nat
  PROVE  MonthsUntil(from, to) \in Nat \ {0}
  <1>1. DaysPerMonth \in Nat \ {0}
    BY GoalAssumption
  <1>2. /\ to \div DaysPerMonth \in Int /\ from \div DaysPerMonth \in Int
    BY <1>1
  <1> DEFINE n == (to \div DaysPerMonth) - (from \div DaysPerMonth)
                    + IF to % DaysPerMonth > from % DaysPerMonth THEN 1 ELSE 0
  <1>3. n \in Int
    BY <1>2
  <1>4. MonthsUntil(from, to) = Max({1, n})
    BY DEF MonthsUntil
  <1>5. HIDE DEF n
  <1>6. Max({1, n}) \in Int /\ Max({1, n}) >= 1
    BY <1>3, MaxOfTwo
  <1>7. QED
    BY <1>4, <1>6

LEMMA QuotientNat ==
  ASSUME NEW a \in Nat, NEW b \in Nat \ {0}
  PROVE  RoundedQuotient(a, b) \in Nat
  <1>1. 2 * a + b \in Nat /\ 2 * b \in Nat \ {0}
    OBVIOUS
  <1>2. \A m \in Nat, n \in Nat \ {0} : m \div n \in Nat
    OBVIOUS
  <1>3. QED
    BY <1>1, <1>2 DEF RoundedQuotient

LEMMA RequiredNat ==
  ASSUME NEW target \in Int, NEW saved \in Int, NEW from \in Nat, NEW deadline \in Nat
  PROVE  RequiredMonthly(target, saved, from, deadline) \in Nat
  BY RemainingNat, MonthsPositive, QuotientNat DEF RequiredMonthly

LEMMA PlannedGoal ==
  ASSUME NEW target \in Int, NEW saved \in Int, NEW deadline \in Nat,
         NEW flagged \in BOOLEAN, today \in Nat
  PROVE  Planned(target, saved, deadline, flagged) \in Goal
  <1>1. RequiredMonthly(target, saved, today, deadline) \in Nat
    BY RequiredNat
  <1>2. (flagged \/ Remaining(target, saved) = 0) \in BOOLEAN
    OBVIOUS
  <1>3. QED
    BY <1>1, <1>2 DEF Planned, Goal
-----------------------------------------------------------------------------
(* Types.  TypeOK is not inductive by itself: what a request writes is what *)
(* it read and computed earlier, so the copy of a request that is about to  *)
(* write is a goal, and the amount it is about to insert is positive.       *)

CopiesKept ==
  \A r \in Requests :
    /\ pc[r] # "idle" => req[r] \in Inputs
    /\ pc[r] \in {"insert", "store", "rewrite"} => copy[r] \in Goal
    /\ pc[r] = "insert" => req[r].amount \in Nat \ {0}

TypeInv == TypeOK /\ CopiesKept

LEMMA InitTypes == Init => TypeInv
  <1> SUFFICES ASSUME Init PROVE TypeInv
    OBVIOUS
  <1>1. today = 0 /\ 0 \in 0..LastDay
    BY GoalAssumption DEF Init
  <1>2. goal \in Goal
    <2>1. FirstTarget \in Int /\ FirstSaved \in Int /\ FirstDeadline \in Nat
      BY GoalAssumption
    <2>2. today \in Nat /\ FALSE \in BOOLEAN
      BY <1>1
    <2>3. Planned(FirstTarget, FirstSaved, FirstDeadline, FALSE) \in Goal
      BY <2>1, <2>2, PlannedGoal
    <2>4. QED
      BY <2>3 DEF Init
  <1>3. QED
    BY <1>1, <1>2 DEF Init, TypeInv, TypeOK, CopiesKept

(* A request that ends, or moves on without touching the goal.              *)
LEMMA AnswerTypes ==
  ASSUME TypeInv, NEW r \in Requests, NEW a \in {"ok", "rejected", "failed"},
         Answer(r, a), UNCHANGED req, pc[r] # "idle",
         goal' \in Goal \cup {None}, today' = today,
         contributions' \subseteq [id : Requests, amount : Nat \ {0}],
         copy' = copy \/ \E c \in Goal : copy' = [copy EXCEPT ![r] = c]
  PROVE  TypeInv'
  BY DEF TypeInv, TypeOK, CopiesKept, Answer

LEMMA SubmitTypes ==
  ASSUME TypeInv, NEW r \in Requests, Submit(r)
  PROVE  TypeInv'
  BY DEF TypeInv, TypeOK, CopiesKept, Submit, Goto

LEMMA ReadForContributionTypes ==
  ASSUME TypeInv, NEW r \in Requests, ReadForContribution(r)
  PROVE  TypeInv'
  <1>1. ASSUME req[r].amount > 0, goal # None PROVE TypeInv'
    <2>1. req[r] \in Contribution
      BY DEF TypeInv, CopiesKept, ReadForContribution, Inputs, Contribution, Update, Deletion
    <2>2. req[r].amount \in Nat \ {0}
      <3>1. req[r].amount \in Amounts
        BY <2>1 DEF Contribution
      <3>2. req[r].amount \in Int
        BY <3>1, GoalAssumption
      <3>3. QED
        BY <1>1, <3>2
    <2> DEFINE sum == [goal EXCEPT !.saved = @ + req[r].amount]
    <2>3. sum \in Goal
      BY <1>1, <2>2 DEF TypeInv, TypeOK, Goal
    <2>4. /\ copy' = [copy EXCEPT ![r] = sum] /\ pc[r] = "received"
          /\ Goto(r, "insert") /\ UNCHANGED <<goal, contributions, today, req>>
      BY <1>1 DEF ReadForContribution
    <2> HIDE DEF sum
    <2>5. QED
      BY <2>2, <2>3, <2>4 DEF TypeInv, TypeOK, CopiesKept, Goto
  <1>2. ASSUME ~(req[r].amount > 0 /\ goal # None) PROVE TypeInv'
    BY <1>2, AnswerTypes DEF ReadForContribution, TypeInv, TypeOK
  <1>3. QED
    BY <1>1, <1>2

LEMMA InsertTypes ==
  ASSUME TypeInv, NEW r \in Requests, InsertContribution(r)
  PROVE  TypeInv'
  <1>1. contributions' \subseteq [id : Requests, amount : Nat \ {0}]
    BY DEF TypeInv, TypeOK, CopiesKept, InsertContribution
  <1>2. ASSUME Goto(r, "store") PROVE TypeInv'
    BY <1>1, <1>2 DEF TypeInv, TypeOK, CopiesKept, InsertContribution, Goto
  <1>3. ASSUME Answer(r, "failed") PROVE TypeInv'
    BY <1>1, <1>3, AnswerTypes DEF InsertContribution, TypeInv, TypeOK
  <1>4. QED
    BY <1>2, <1>3 DEF InsertContribution

LEMMA StoreSavedTypes ==
  ASSUME TypeInv, NEW r \in Requests, StoreSaved(r)
  PROVE  TypeInv'
  <1>1. ASSUME goal = None PROVE TypeInv'
    BY <1>1, AnswerTypes DEF StoreSaved, TypeInv, TypeOK
  <1>2. ASSUME goal # None PROVE TypeInv'
    <2> DEFINE c == copy[r]
               done == [c EXCEPT !.completed = c.saved >= c.target]
               planned == [done EXCEPT !.required =
                             RequiredMonthly(c.target, c.saved, today, c.deadline)]
    <2>1. c \in Goal /\ goal \in Goal /\ today \in Nat
      BY <1>2, GoalAssumption DEF TypeInv, TypeOK, CopiesKept, StoreSaved
    <2>2. done \in Goal
      <3> DEFINE enough == c.saved >= c.target
      <3>1. enough \in BOOLEAN
        OBVIOUS
      <3>2. done = [c EXCEPT !.completed = enough]
        OBVIOUS
      <3> HIDE DEF enough, done, c
      <3>3. QED
        BY <2>1, <3>1, <3>2 DEF Goal
    <2>3. planned \in Goal
      <3>1. RequiredMonthly(c.target, c.saved, today, c.deadline) \in Nat
        BY <2>1, RequiredNat DEF Goal
      <3>2. QED
        BY <2>2, <3>1 DEF Goal
    <2>4. [goal EXCEPT !.saved = c.saved] \in Goal
      BY <2>1 DEF Goal
    <2>5. /\ goal' = [goal EXCEPT !.saved = c.saved]
          /\ UNCHANGED <<contributions, today, req>>
          /\ \/ /\ copy' = [copy EXCEPT ![r] = planned]
                /\ Goto(r, "rewrite") \/ Answer(r, "failed")
             \/ /\ copy' = [copy EXCEPT ![r] = done]
                /\ Answer(r, "ok") \/ Answer(r, "failed")
          /\ pc[r] = "store"
      BY <1>2 DEF StoreSaved
    <2>6. HIDE DEF done, planned
    <2>7. ASSUME copy' = [copy EXCEPT ![r] = planned], Goto(r, "rewrite") PROVE TypeInv'
      BY <2>3, <2>4, <2>5, <2>7 DEF TypeInv, TypeOK, CopiesKept, Goto
    <2>8. ASSUME \E a \in {"ok", "failed"} : Answer(r, a) PROVE TypeInv'
      <3>1. \E g \in Goal : copy' = [copy EXCEPT ![r] = g]
        BY <2>2, <2>3, <2>5
      <3>2. goal' \in Goal \cup {None} /\ today' = today /\ req' = req /\ pc[r] # "idle"
        BY <2>4, <2>5
      <3>3. contributions' \subseteq [id : Requests, amount : Nat \ {0}]
        BY <2>5 DEF TypeInv, TypeOK
      <3>4. QED
        BY <2>8, <3>1, <3>2, <3>3, AnswerTypes
    <2>9. QED
      BY <2>5, <2>7, <2>8
  <1>3. QED
    BY <1>1, <1>2

LEMMA ReadForUpdateTypes ==
  ASSUME TypeInv, NEW r \in Requests, ReadForUpdate(r)
  PROVE  TypeInv'
  <1> DEFINE accepted == goal # None /\ req[r].target > 0 /\ req[r].deadline > today
  <1>1. ASSUME accepted PROVE TypeInv'
    <2>1. req[r] \in Update
      BY DEF TypeInv, CopiesKept, ReadForUpdate, Inputs, Contribution, Update, Deletion
    <2>2. /\ req[r].target \in Int /\ req[r].deadline \in Nat
          /\ req[r].completed \in BOOLEAN /\ today \in Nat
      <3>1. /\ req[r].target \in Targets /\ req[r].deadline \in Deadlines
            /\ req[r].completed \in BOOLEAN
        BY <2>1 DEF Update
      <3>2. today \in Nat
        BY GoalAssumption DEF TypeInv, TypeOK
      <3>3. QED
        BY <3>1, <3>2, GoalAssumption
    <2>3. Planned(req[r].target, goal.saved, req[r].deadline, req[r].completed) \in Goal
      BY <1>1, <2>2, PlannedGoal DEF TypeInv, TypeOK, Goal
    <2>4. /\ copy' = [copy EXCEPT ![r] =
               Planned(req[r].target, goal.saved, req[r].deadline, req[r].completed)]
          /\ Goto(r, "rewrite") /\ UNCHANGED <<goal, contributions, today, req>>
          /\ pc[r] = "received"
      BY <1>1 DEF ReadForUpdate
    <2>5. QED
      BY <2>3, <2>4 DEF TypeInv, TypeOK, CopiesKept, Goto
  <1>2. ASSUME ~accepted PROVE TypeInv'
    BY <1>2, AnswerTypes DEF ReadForUpdate, TypeInv, TypeOK
  <1>3. QED
    BY <1>1, <1>2

LEMMA RewriteTypes ==
  ASSUME TypeInv, NEW r \in Requests, Rewrite(r)
  PROVE  TypeInv'
  <1>1. goal' \in Goal \cup {None}
    BY DEF TypeInv, TypeOK, CopiesKept, Rewrite, Goal
  <1>2. \E a \in {"ok", "failed"} : Answer(r, a)
    BY DEF Rewrite
  <1>3. QED
    BY <1>1, <1>2, AnswerTypes DEF Rewrite, TypeInv, TypeOK

LEMMA DeleteTypes ==
  ASSUME TypeInv, NEW r \in Requests, Delete(r)
  PROVE  TypeInv'
  <1>1. \E a \in {"ok", "rejected", "failed"} : Answer(r, a)
    BY DEF Delete
  <1>2. QED
    BY <1>1, AnswerTypes DEF Delete, TypeInv, TypeOK

LEMMA NextTypes == TypeInv /\ [Next]_vars => TypeInv'
  <1> SUFFICES ASSUME TypeInv, [Next]_vars PROVE TypeInv'
    OBVIOUS
  <1>1. ASSUME NEW r \in Requests, Submit(r) PROVE TypeInv'
    BY <1>1, SubmitTypes
  <1>2. ASSUME NEW r \in Requests, Contribute(r) PROVE TypeInv'
    BY <1>2, ReadForContributionTypes, InsertTypes, StoreSavedTypes DEF Contribute
  <1>3. ASSUME NEW r \in Requests, UpdateGoal(r) PROVE TypeInv'
    BY <1>3, ReadForUpdateTypes, RewriteTypes DEF UpdateGoal
  <1>4. ASSUME NEW r \in Requests, Delete(r) PROVE TypeInv'
    BY <1>4, DeleteTypes
  <1>5. ASSUME NEW r \in Requests, Fail(r) PROVE TypeInv'
    BY <1>5, AnswerTypes DEF Fail, Open, TypeInv, TypeOK
  <1>6. ASSUME NextDay PROVE TypeInv'
    BY <1>6, GoalAssumption DEF NextDay, TypeInv, TypeOK, CopiesKept
  <1>7. ASSUME UNCHANGED vars PROVE TypeInv'
    BY <1>7 DEF vars, TypeInv, TypeOK, CopiesKept
  <1>8. QED
    BY <1>1, <1>2, <1>3, <1>4, <1>5, <1>6, <1>7 DEF Next, Handle, AllAnswered

(* Every reachable state of the goal service is well typed: in particular   *)
(* the required monthly amount is never negative and never undefined,       *)
(* whatever is saved and however close the deadline is.                     *)
THEOREM GoalTypes == Spec => []TypeOK
  <1>1. Spec => []TypeInv
    BY InitTypes, NextTypes, PTL DEF Spec
  <1>2. TypeInv => TypeOK
    BY DEF TypeInv
  <1>3. QED
    BY <1>1, <1>2, PTL

-----------------------------------------------------------------------------
(* A goal that is gone.                                                     *)

GoneIsEmpty == goal = None => contributions = {}

LEMMA InitGone == Init => GoneIsEmpty
  BY DEF Init, GoneIsEmpty

(* Only Delete makes the row go: what the other statements write is a goal. *)
LEMMA WritersKeepTheRow ==
  ASSUME TypeInv, NEW r \in Requests, goal # None, StoreSaved(r) \/ Rewrite(r)
  PROVE  goal' # None
  <1>1. goal \in Goal /\ copy[r] \in Goal
    BY DEF TypeInv, TypeOK, CopiesKept, StoreSaved, Rewrite
  <1>2. goal' = [goal EXCEPT !.saved = copy[r].saved]
        \/ goal' = [copy[r] EXCEPT !.saved = goal.saved]
    BY DEF StoreSaved, Rewrite
  <1>3. goal' \in Goal
    BY <1>1, <1>2 DEF Goal
  <1>4. QED
    BY <1>3, NoGoalIsNoRow

LEMMA NextGone ==
  ASSUME TypeInv, GoneIsEmpty, [Next]_vars
  PROVE  GoneIsEmpty' /\ (goal = None => goal' = None /\ contributions' = {})
  <1> DEFINE Goal1 == GoneIsEmpty' /\ (goal = None => goal' = None /\ contributions' = {})
  <1>1. ASSUME UNCHANGED <<goal, contributions>> PROVE Goal1
    BY <1>1 DEF GoneIsEmpty
  <1>2. ASSUME NEW r \in Requests, InsertContribution(r) PROVE Goal1
    BY <1>2 DEF GoneIsEmpty, InsertContribution
  <1>3. ASSUME NEW r \in Requests, StoreSaved(r) \/ Rewrite(r) PROVE Goal1
    <2>1. contributions' = contributions /\ (goal = None => goal' = None)
      BY <1>3 DEF StoreSaved, Rewrite
    <2>2. QED
      BY <1>3, <2>1, WritersKeepTheRow DEF GoneIsEmpty
  <1>4. ASSUME NEW r \in Requests, Delete(r) PROVE Goal1
    BY <1>4 DEF GoneIsEmpty, Delete
  <1>5. QED
    BY <1>1, <1>2, <1>3, <1>4 DEF Next, Handle, Contribute, UpdateGoal, AllAnswered, vars,
       Submit, ReadForContribution, ReadForUpdate, Fail, NextDay

(* A goal that is gone stays gone, with its contributions, although any     *)
(* number of contributions and updates that read it earlier still write.    *)
THEOREM GoneStaysGone == Spec => GoneForGood
  <1>1. Init => TypeInv /\ GoneIsEmpty
    BY InitTypes, InitGone
  <1>2. TypeInv /\ GoneIsEmpty /\ [Next]_vars =>
          /\ (TypeInv /\ GoneIsEmpty)'
          /\ [goal = None => goal' = None /\ contributions' = {}]_vars
    BY NextTypes, NextGone
  <1>3. QED
    BY <1>1, <1>2, PTL DEF Spec, GoneForGood

-----------------------------------------------------------------------------
(* Where the money is.                                                      *)

LEMMA TotalEmpty == Total({}) = 0
  <1> DEFINE f == [x \in {} |-> x.amount]
  <1>1. DOMAIN f = {} /\ Total({}) = SumFunction(f)
    BY DEF Total
  <1> HIDE DEF f
  <1>2. QED
    BY <1>1, SumEmpty DEF SumFunction

LEMMA TotalAdds ==
  ASSUME NEW S, IsFiniteSet(S), \A y \in S : y.amount \in Int,
         NEW x, x \notin S, x.amount \in Int
  PROVE  /\ Total(S \cup {x}) = Total(S) + x.amount
         /\ Total(S) \in Int
  <1> DEFINE f == [y \in S |-> y.amount]
             g == [y \in S \cup {x} |-> y.amount]
  <1>1. /\ Total(S) = SumFunction(f) /\ Total(S \cup {x}) = SumFunction(g)
        /\ DOMAIN f = S /\ DOMAIN g = S \cup {x}
    BY DEF Total
  <1>2. /\ \A y \in S : g[y] = f[y] /\ f[y] \in Int
        /\ g[x] = x.amount
    OBVIOUS
  <1> HIDE DEF f, g
  <1>3. Summable(f, S) /\ Summable(g, S \cup {x}) /\ Summable(g, S)
    BY <1>2, FS_AddElement DEF Summable
  <1>4. SumFunctionOnSet(g, S \cup {x}) = SumFunctionOnSet(g, S) + g[x]
    BY <1>3, SumAdds
  <1>5. SumFunctionOnSet(g, S) = SumFunctionOnSet(f, S)
    BY <1>2, <1>3, SumSame
  <1>6. SumFunctionOnSet(f, S) \in Int
    BY <1>3, SumInt
  <1>7. QED
    BY <1>1, <1>2, <1>4, <1>5, <1>6 DEF SumFunction

(* Each contribution is that of a request past its insertion.               *)
RowOf(r) == [id |-> r, amount |-> req[r].amount]

ContributionsInv ==
  /\ IsFiniteSet(contributions)
  /\ \A x \in contributions :
       /\ x = RowOf(x.id) /\ req[x.id] # None /\ req[x.id].op = "contribute"
       /\ pc[x.id] \in {"store", "rewrite", "done"}
  /\ \A r \in Requests :
       /\ pc[r] = "idle" => req[r] = None
       /\ result[r] # "none" => pc[r] = "done"
       /\ pc[r] \in {"insert", "store"} => req[r].op = "contribute"
       /\ pc[r] = "rewrite" => req[r].op \in {"contribute", "update"}
       /\ pc[r] = "store" /\ goal # None => RowOf(r) \in contributions

(* A sum that the recorded contributions explain, and may be stored.        *)
Explains(v) == \E S \in SUBSET contributions : v = FirstSaved + Total(S)

SavedInv ==
  goal # None =>
    /\ Explains(goal.saved)
    /\ \A r \in Requests :
         /\ pc[r] = "insert" => Explains(copy[r].saved - req[r].amount)
         /\ pc[r] = "store" => Explains(copy[r].saved)

-----------------------------------------------------------------------------
(* Requests that come one at a time.                                        *)

Reached(g) == g.saved >= g.target => g.completed

(* The contributions that the saved amount holds. *)
Applied(S) ==
  /\ goal.saved = FirstSaved + Total(S)
  /\ \A x \in S : pc[x.id] \notin {"insert", "store"}
  /\ \A x \in contributions : result[x.id] = "ok" \/ pc[x.id] = "rewrite" => x \in S

OnlyUpdate(r) ==
  \A o \in Requests \ {r} : req[o] # None => req[o].op # "update"

(* What the open request is about to write. *)
Prepared(r) ==
  /\ pc[r] \in {"insert", "store"} =>
       copy[r] = [goal EXCEPT !.saved = @ + req[r].amount]
  /\ pc[r] = "rewrite" =>
       /\ copy[r].saved = goal.saved /\ Reached(copy[r])
       /\ IF req[r].op = "update"
            THEN copy[r].target = req[r].target /\ copy[r].deadline = req[r].deadline
            ELSE copy[r].target = goal.target /\ copy[r].deadline = goal.deadline

SerialInv ==
  Serial =>
    /\ \A r, o \in Open : r = o
    /\ goal # None =>
         /\ \A r \in Requests : Prepared(r)
         /\ \E S \in SUBSET contributions : Applied(S)
         /\ NothingFailed /\ today < goal.deadline =>
              Reached(goal) \/ \E r \in Requests : pc[r] = "rewrite"
         /\ \A r \in Requests :
              req[r] # None /\ result[r] = "ok" /\ req[r].op = "update" /\ OnlyUpdate(r) =>
                goal.target = req[r].target /\ goal.deadline = req[r].deadline

-----------------------------------------------------------------------------
(* Each step keeps what is known of the contributions.                      *)

OthersKept(r) ==
  \A o \in Requests \ {r} :
    pc'[o] = pc[o] /\ req'[o] = req[o] /\ copy'[o] = copy[o] /\ result'[o] = result[o]

LEMMA AnswerIs ==
  ASSUME TypeInv, NEW r \in Requests, NEW a, Answer(r, a)
  PROVE  /\ pc'[r] = "done" /\ result'[r] = a
         /\ \A o \in Requests \ {r} : pc'[o] = pc[o] /\ result'[o] = result[o]
  BY DEF TypeInv, TypeOK, Answer

LEMMA GotoIs ==
  ASSUME TypeInv, NEW r \in Requests, NEW stage, Goto(r, stage)
  PROVE  /\ pc'[r] = stage /\ result' = result
         /\ \A o \in Requests \ {r} : pc'[o] = pc[o]
  BY DEF TypeInv, TypeOK, Goto

(* A step that records nothing, and loses contributions only with the goal. *)
LEMMA ContributionsKept ==
  ASSUME TypeInv, ContributionsInv, NEW r \in Requests, OthersKept(r),
         contributions' \subseteq contributions,
         goal' # None => goal # None /\ contributions' = contributions,
         req'[r] = req[r] \/ pc[r] \in {"idle", "received"},
         pc[r] \in {"store", "rewrite", "done"} => pc'[r] \in {"store", "rewrite", "done"},
         pc'[r] # "idle", result'[r] # "none" => pc'[r] = "done",
         pc'[r] = "insert" => req'[r].op = "contribute",
         pc'[r] = "rewrite" => req'[r].op \in {"contribute", "update"},
         pc'[r] # "store"
  PROVE  ContributionsInv'
  <1>1. IsFiniteSet(contributions')
    BY FS_Subset DEF ContributionsInv
  <1>2. \A o \in Requests \ {r} : RowOf(o)' = RowOf(o)
    BY DEF RowOf, OthersKept
  <1>3. req'[r] = req[r] => RowOf(r)' = RowOf(r)
    BY DEF RowOf
  <1>4. ASSUME NEW x \in contributions'
        PROVE  /\ x = RowOf(x.id)' /\ req'[x.id] # None /\ req'[x.id].op = "contribute"
               /\ pc'[x.id] \in {"store", "rewrite", "done"}
    <2>1. x \in contributions /\ x.id \in Requests
      BY DEF TypeInv, TypeOK
    <2>2. CASE x.id = r
      BY <1>3, <2>1, <2>2 DEF ContributionsInv
    <2>3. CASE x.id # r
      BY <1>2, <2>1, <2>3 DEF ContributionsInv, OthersKept
    <2>4. QED
      BY <2>2, <2>3
  <1>5. ASSUME NEW o \in Requests
        PROVE  /\ pc'[o] = "idle" => req'[o] = None
               /\ result'[o] # "none" => pc'[o] = "done"
               /\ pc'[o] \in {"insert", "store"} => req'[o].op = "contribute"
               /\ pc'[o] = "rewrite" => req'[o].op \in {"contribute", "update"}
               /\ pc'[o] = "store" /\ goal' # None => RowOf(o)' \in contributions'
    BY <1>2 DEF OthersKept, ContributionsInv
  <1>6. \A x \in contributions' : x = RowOf(x.id)'
    BY <1>4
  <1>7. QED
    BY <1>1, <1>4, <1>5 DEF ContributionsInv, RowOf

LEMMA InsertIs ==
  ASSUME TypeInv, ContributionsInv, NEW r \in Requests, InsertContribution(r)
  PROVE  /\ OthersKept(r) /\ UNCHANGED <<goal, today, req, copy>> /\ pc[r] = "insert"
         /\ \/ /\ contributions' = contributions /\ goal = None
               /\ pc'[r] = "done" /\ result'[r] = "failed"
            \/ /\ contributions' = contributions \cup {RowOf(r)} /\ goal # None
               /\ RowOf(r) \notin contributions
               /\ \/ pc'[r] = "store" /\ result' = result
                  \/ pc'[r] = "done" /\ result'[r] = "failed"
  <1>1. \A x \in contributions : x.id # r
    BY DEF ContributionsInv, InsertContribution
  <1>2. RowOf(r).id = r
    BY DEF RowOf
  <1>3. QED
    BY <1>1, <1>2, AnswerIs, GotoIs DEF InsertContribution, OthersKept, RowOf

LEMMA InsertContributions ==
  ASSUME TypeInv, ContributionsInv, NEW r \in Requests, InsertContribution(r)
  PROVE  ContributionsInv'
  <1>1. /\ OthersKept(r) /\ UNCHANGED <<goal, today, req, copy>> /\ pc[r] = "insert"
        /\ \/ /\ contributions' = contributions /\ goal = None
              /\ pc'[r] = "done" /\ result'[r] = "failed"
           \/ /\ contributions' = contributions \cup {RowOf(r)} /\ goal # None
              /\ RowOf(r) \notin contributions
              /\ \/ pc'[r] = "store" /\ result' = result
                 \/ pc'[r] = "done" /\ result'[r] = "failed"
    BY InsertIs
  <1>2. \A o \in Requests : RowOf(o)' = RowOf(o)
    BY <1>1 DEF RowOf
  <1>3. IsFiniteSet(contributions')
    BY <1>1, FS_AddElement DEF ContributionsInv
  <1>4. RowOf(r).id = r /\ req[r].op = "contribute" /\ req[r] # None
    <2>1. req[r] \in Inputs
      BY <1>1 DEF TypeInv, CopiesKept
    <2>2. req[r].op = "contribute" /\ req[r] \in Contribution
      BY <1>1, <2>1 DEF ContributionsInv, Inputs, Contribution, Update, Deletion
    <2>3. req[r] # None
      BY <2>1, NoGoalIsNoRow
    <2>4. QED
      BY <2>2, <2>3 DEF RowOf
  <1>5. ASSUME NEW x \in contributions'
        PROVE  /\ x = RowOf(x.id)' /\ req'[x.id] # None /\ req'[x.id].op = "contribute"
               /\ pc'[x.id] \in {"store", "rewrite", "done"}
    <2>1. CASE x \in contributions
      <3>1. x.id \in Requests /\ x.id # r
        BY <1>1, <2>1 DEF TypeInv, TypeOK, ContributionsInv
      <3>2. QED
        BY <1>1, <1>2, <2>1, <3>1 DEF ContributionsInv, OthersKept
    <2>2. CASE x = RowOf(r) /\ goal # None
      BY <1>1, <1>2, <1>4, <2>2
    <2>3. QED
      BY <1>1, <2>1, <2>2
  <1>6. ASSUME NEW o \in Requests
        PROVE  /\ pc'[o] = "idle" => req'[o] = None
               /\ result'[o] # "none" => pc'[o] = "done"
               /\ pc'[o] \in {"insert", "store"} => req'[o].op = "contribute"
               /\ pc'[o] = "rewrite" => req'[o].op \in {"contribute", "update"}
               /\ pc'[o] = "store" /\ goal' # None => RowOf(o)' \in contributions'
    <2>1. CASE o # r
      BY <1>1, <1>2, <2>1 DEF OthersKept, ContributionsInv
    <2>2. CASE o = r
      BY <1>1, <1>2, <1>4, <2>2 DEF ContributionsInv
    <2>3. QED
      BY <2>1, <2>2
  <1>7. QED
    BY <1>3, <1>5, <1>6 DEF ContributionsInv, RowOf

LEMMA StepContributions ==
  TypeInv /\ ContributionsInv /\ [Next]_vars => ContributionsInv'
  <1> SUFFICES ASSUME TypeInv, ContributionsInv, [Next]_vars
               PROVE  ContributionsInv'
    OBVIOUS
  <1>1. ASSUME NEW r \in Requests, Submit(r)
        PROVE  ContributionsInv'
    <2>1. /\ OthersKept(r) /\ pc[r] = "idle" /\ pc'[r] = "received"
          /\ UNCHANGED <<goal, contributions, result>>
      BY <1>1 DEF Submit, Goto, OthersKept, TypeInv, TypeOK
    <2>2. result[r] = "none"
      BY <2>1 DEF ContributionsInv
    <2>3. QED
      BY <2>1, <2>2, ContributionsKept
  <1>2. ASSUME NEW r \in Requests, ReadForContribution(r)
        PROVE  ContributionsInv'
    <2>1. /\ OthersKept(r) /\ pc[r] = "received" /\ req[r].op = "contribute"
          /\ UNCHANGED <<goal, contributions, req>>
          /\ \/ pc'[r] = "insert" /\ result' = result
             \/ pc'[r] = "done"
      BY <1>2, AnswerIs, GotoIs DEF ReadForContribution, OthersKept, TypeInv, TypeOK
    <2>2. result[r] = "none"
      BY <2>1 DEF ContributionsInv
    <2>3. QED
      BY <2>1, <2>2, ContributionsKept
  <1>3. ASSUME NEW r \in Requests, ReadForUpdate(r)
        PROVE  ContributionsInv'
    <2>1. /\ OthersKept(r) /\ pc[r] = "received" /\ req[r].op = "update"
          /\ UNCHANGED <<goal, contributions, req>>
          /\ \/ pc'[r] = "rewrite" /\ result' = result
             \/ pc'[r] = "done"
      BY <1>3, AnswerIs, GotoIs DEF ReadForUpdate, OthersKept, TypeInv, TypeOK
    <2>2. result[r] = "none"
      BY <2>1 DEF ContributionsInv
    <2>3. QED
      BY <2>1, <2>2, ContributionsKept
  <1>4. ASSUME NEW r \in Requests, StoreSaved(r)
        PROVE  ContributionsInv'
    <2>1. /\ OthersKept(r) /\ pc[r] = "store" /\ UNCHANGED <<contributions, req>>
          /\ goal = None => goal' = None
          /\ \/ pc'[r] = "rewrite" /\ result' = result
             \/ pc'[r] = "done"
      BY <1>4, AnswerIs, GotoIs DEF StoreSaved, OthersKept, TypeInv, TypeOK
    <2>2. result[r] = "none" /\ req[r].op = "contribute"
      BY <2>1 DEF ContributionsInv
    <2>3. QED
      BY <2>1, <2>2, ContributionsKept
  <1>5. ASSUME NEW r \in Requests, Rewrite(r) \/ Delete(r) \/ Fail(r)
        PROVE  ContributionsInv'
    <2>1. /\ OthersKept(r) /\ pc[r] # "idle" /\ UNCHANGED req /\ pc'[r] = "done"
          /\ contributions' \subseteq contributions
          /\ goal' # None => goal # None /\ contributions' = contributions
      BY <1>5, AnswerIs DEF Rewrite, Delete, Fail, Open, OthersKept, TypeInv, TypeOK
    <2>2. QED
      BY <2>1, ContributionsKept
  <1>6. CASE NextDay \/ UNCHANGED vars
    <2>1. UNCHANGED <<contributions, req, pc, result, goal>>
      BY <1>6 DEF NextDay, vars
    <2>2. QED
      BY <2>1 DEF ContributionsInv, RowOf
  <1>7. QED
    BY <1>1, <1>2, <1>3, <1>4, <1>5, <1>6, InsertContributions
       DEF Next, Handle, Contribute, UpdateGoal, AllAnswered

-----------------------------------------------------------------------------
(* Each step keeps the saved amounts, stored and about to be, explained.    *)

LEMMA ExplainsGrows ==
  contributions \subseteq contributions' => \A v : Explains(v) => Explains(v)'
  BY DEF Explains

(* A step that stores no other saved amount. *)
LEMMA SavedKept ==
  ASSUME SavedInv,
         goal' # None =>
           goal # None /\ goal'.saved = goal.saved /\ contributions \subseteq contributions',
         \A o \in Requests : pc'[o] \in {"insert", "store"} =>
           pc'[o] = pc[o] /\ copy'[o] = copy[o] /\ req'[o] = req[o]
  PROVE  SavedInv'
  BY ExplainsGrows DEF SavedInv

LEMMA ReadSaved ==
  ASSUME TypeInv, ContributionsInv, SavedInv, NEW r \in Requests, ReadForContribution(r)
  PROVE  SavedInv'
  <1>1. CASE req[r].amount > 0 /\ goal # None
    <2> DEFINE sum == [goal EXCEPT !.saved = @ + req[r].amount]
    <2>1. /\ copy' = [copy EXCEPT ![r] = sum] /\ UNCHANGED <<goal, contributions, req>>
          /\ pc'[r] = "insert" /\ \A o \in Requests \ {r} : pc'[o] = pc[o]
      BY <1>1, GotoIs DEF ReadForContribution
    <2>2. goal \in Goal /\ req[r].amount \in Int
      <3>1. req[r] \in Contribution
        BY DEF TypeInv, CopiesKept, ReadForContribution, Inputs, Contribution, Update,
               Deletion
      <3>2. QED
        BY <1>1, <3>1, GoalAssumption DEF TypeInv, TypeOK, Contribution
    <2>3. goal.saved \in Int /\ sum.saved = goal.saved + req[r].amount
      BY <2>2 DEF Goal
    <2> HIDE DEF sum
    <2>4. copy'[r] = sum /\ \A o \in Requests \ {r} : copy'[o] = copy[o]
      BY <2>1 DEF TypeInv, TypeOK
    <2>5. copy'[r].saved - req'[r].amount = goal.saved
      BY <2>1, <2>2, <2>3, <2>4
    <2>6. \A v : Explains(v) => Explains(v)'
      BY <2>1, ExplainsGrows
    <2>7. Explains(goal.saved)
      BY <1>1 DEF SavedInv
    <2>8. \A v : v = goal.saved => Explains(v)'
      BY <2>6, <2>7
    <2>9. pc'[r] = "insert" => Explains(copy[r].saved - req[r].amount)'
      BY <2>5, <2>8 DEF Explains
    <2>10. ASSUME NEW o \in Requests
           PROVE  /\ pc'[o] = "insert" => Explains(copy[o].saved - req[o].amount)'
                  /\ pc'[o] = "store" => Explains(copy[o].saved)'
      <3>1. CASE o # r
        BY <1>1, <2>1, <2>4, <2>6, <3>1 DEF SavedInv, Explains
      <3>2. CASE o = r
        BY <2>1, <2>9, <3>2
      <3>3. QED
        BY <3>1, <3>2
    <2>11. Explains(goal.saved)'
      BY <2>1, <2>7 DEF Explains
    <2>12. QED
      BY <2>10, <2>11 DEF SavedInv
  <1>2. CASE ~(req[r].amount > 0 /\ goal # None)
    BY <1>2, AnswerIs, SavedKept DEF ReadForContribution
  <1>3. QED
    BY <1>1, <1>2

LEMMA AmountsInt ==
  ASSUME TypeInv, NEW S \in SUBSET contributions
  PROVE  \A x \in S : x.amount \in Int
  BY DEF TypeInv, TypeOK

LEMMA InsertSaved ==
  ASSUME TypeInv, ContributionsInv, SavedInv, NEW r \in Requests, InsertContribution(r)
  PROVE  SavedInv'
  <1>1. /\ OthersKept(r) /\ UNCHANGED <<goal, today, req, copy>> /\ pc[r] = "insert"
        /\ \/ /\ contributions' = contributions /\ goal = None
              /\ pc'[r] = "done" /\ result'[r] = "failed"
           \/ /\ contributions' = contributions \cup {RowOf(r)} /\ goal # None
              /\ RowOf(r) \notin contributions
              /\ \/ pc'[r] = "store" /\ result' = result
                 \/ pc'[r] = "done" /\ result'[r] = "failed"
    BY InsertIs
  <1>2. CASE pc'[r] = "done"
    BY <1>1, <1>2, SavedKept DEF OthersKept
  <1>3. CASE pc'[r] = "store"
    <2>1. /\ goal # None /\ contributions' = contributions \cup {RowOf(r)}
          /\ RowOf(r) \notin contributions
      BY <1>1, <1>3
    <2>2. PICK S \in SUBSET contributions :
            copy[r].saved - req[r].amount = FirstSaved + Total(S)
      BY <1>1, <2>1 DEF SavedInv, Explains
    <2>3. copy[r].saved \in Int /\ req[r].amount \in Int /\ RowOf(r).amount = req[r].amount
      BY <1>1 DEF TypeInv, CopiesKept, Goal, RowOf
    <2>4. IsFiniteSet(S) /\ RowOf(r) \notin S
      BY <2>1, FS_Subset DEF ContributionsInv
    <2>5. Total(S \cup {RowOf(r)}) = Total(S) + req[r].amount /\ Total(S) \in Int
      BY <2>3, <2>4, AmountsInt, TotalAdds
    <2>6. copy[r].saved = FirstSaved + Total(S \cup {RowOf(r)})
      BY <2>2, <2>3, <2>5, GoalAssumption
    <2>7. S \cup {RowOf(r)} \in SUBSET contributions'
      BY <2>1
    <2>8. Explains(copy[r].saved)'
      BY <1>1, <2>6, <2>7 DEF Explains
    <2>9. \A v : Explains(v) => Explains(v)'
      BY <2>1, ExplainsGrows
    <2>10. ASSUME NEW o \in Requests
           PROVE  /\ pc'[o] = "insert" => Explains(copy[o].saved - req[o].amount)'
                  /\ pc'[o] = "store" => Explains(copy[o].saved)'
      <3>1. CASE o # r
        BY <1>1, <2>1, <2>9, <3>1 DEF SavedInv, Explains, OthersKept
      <3>2. CASE o = r
        BY <1>3, <2>8, <3>2
      <3>3. QED
        BY <3>1, <3>2
    <2>11. Explains(goal.saved)'
      BY <1>1, <2>1, <2>9 DEF SavedInv, Explains
    <2>12. QED
      BY <2>10, <2>11 DEF SavedInv
  <1>4. QED
    BY <1>1, <1>2, <1>3

LEMMA StoreKeepsSaved ==
  ASSUME TypeInv, ContributionsInv, SavedInv, NEW r \in Requests, StoreSaved(r)
  PROVE  SavedInv'
  <1>1. CASE goal = None
    BY <1>1, AnswerIs, SavedKept DEF StoreSaved
  <1>2. CASE goal # None
    <2>1. /\ goal' = [goal EXCEPT !.saved = copy[r].saved] /\ pc[r] = "store"
          /\ UNCHANGED <<contributions, req>>
          /\ \A o \in Requests \ {r} : pc'[o] = pc[o] /\ copy'[o] = copy[o]
          /\ pc'[r] \in {"rewrite", "done"}
      BY <1>2, AnswerIs, GotoIs DEF StoreSaved, TypeInv, TypeOK
    <2>2. goal'.saved = copy[r].saved
      BY <1>2, <2>1 DEF TypeInv, TypeOK, Goal
    <2>3. Explains(copy[r].saved)
      BY <1>2, <2>1 DEF SavedInv
    <2>4. \A v : Explains(v) => Explains(v)'
      BY <2>1, ExplainsGrows
    <2>5. Explains(goal.saved)'
      BY <2>1, <2>2, <2>3 DEF Explains
    <2>6. \A o \in Requests :
            /\ pc'[o] = "insert" => Explains(copy[o].saved - req[o].amount)'
            /\ pc'[o] = "store" => Explains(copy[o].saved)'
      BY <1>2, <2>1, <2>4 DEF SavedInv, Explains
    <2>7. QED
      BY <2>5, <2>6 DEF SavedInv
  <1>3. QED
    BY <1>1, <1>2

LEMMA StepSaved ==
  TypeInv /\ ContributionsInv /\ SavedInv /\ [Next]_vars => SavedInv'
  <1> SUFFICES ASSUME TypeInv, ContributionsInv, SavedInv, [Next]_vars
               PROVE  SavedInv'
    OBVIOUS
  <1>1. ASSUME NEW r \in Requests, Submit(r)
        PROVE  SavedInv'
    <2>1. /\ UNCHANGED <<goal, contributions, copy>> /\ pc'[r] = "received"
          /\ \A o \in Requests \ {r} : pc'[o] = pc[o] /\ req'[o] = req[o]
      BY <1>1, GotoIs DEF Submit, TypeInv, TypeOK
    <2>2. QED
      BY <2>1, SavedKept
  <1>2. ASSUME NEW r \in Requests, ReadForUpdate(r)
        PROVE  SavedInv'
    <2>1. /\ UNCHANGED <<goal, contributions, req>> /\ pc'[r] \in {"rewrite", "done"}
          /\ \A o \in Requests \ {r} : pc'[o] = pc[o] /\ copy'[o] = copy[o]
      BY <1>2, GotoIs, AnswerIs DEF ReadForUpdate, TypeInv, TypeOK
    <2>2. QED
      BY <2>1, SavedKept
  <1>3. ASSUME NEW r \in Requests, Rewrite(r) \/ Delete(r) \/ Fail(r)
        PROVE  SavedInv'
    <2>1. /\ UNCHANGED <<req, copy>> /\ pc'[r] = "done"
          /\ \A o \in Requests \ {r} : pc'[o] = pc[o]
      BY <1>3, AnswerIs DEF Rewrite, Delete, Fail
    <2>2. goal' # None =>
            goal # None /\ goal'.saved = goal.saved /\ contributions \subseteq contributions'
      <3>1. CASE Rewrite(r) /\ goal # None
        <4>1. copy[r] \in Goal /\ goal' = [copy[r] EXCEPT !.saved = goal.saved]
          BY <3>1 DEF Rewrite, TypeInv, CopiesKept
        <4>2. goal'.saved = goal.saved
          BY <4>1 DEF Goal
        <4>3. QED
          BY <3>1, <4>2 DEF Rewrite
      <3>2. CASE ~(Rewrite(r) /\ goal # None)
        BY <1>3, <3>2 DEF Rewrite, Delete, Fail
      <3>3. QED
        BY <3>1, <3>2
    <2>3. QED
      BY <2>1, <2>2, SavedKept
  <1>4. CASE NextDay \/ UNCHANGED vars
    BY <1>4, SavedKept DEF NextDay, vars
  <1>5. QED
    BY <1>1, <1>2, <1>3, <1>4, ReadSaved, InsertSaved, StoreKeepsSaved
       DEF Next, Handle, Contribute, UpdateGoal, AllAnswered

LEMMA InitSaved == Init => ContributionsInv /\ SavedInv
  <1> SUFFICES ASSUME Init
               PROVE  ContributionsInv /\ SavedInv
    OBVIOUS
  <1>1. ContributionsInv
    BY FS_EmptySet DEF Init, ContributionsInv
  <1>2. goal.saved = FirstSaved /\ FirstSaved \in Int
    BY GoalAssumption DEF Init, Planned
  <1>3. Explains(goal.saved)
    <2>1. goal.saved = FirstSaved + Total({})
      BY <1>2, TotalEmpty
    <2>2. QED
      BY <2>1 DEF Explains
  <1>4. QED
    BY <1>1, <1>3 DEF Init, SavedInv

(* Money is at worst forgotten, never invented or doubled: however many     *)
(* contributions overlap, fail half way or lose their answer, the saved     *)
(* amount is the opening amount and some of the recorded contributions,     *)
(* once each.                                                               *)
THEOREM SavedIsExplained == Spec => []SavedExplained
  <1>1. Spec => [](TypeInv /\ ContributionsInv /\ SavedInv)
    BY InitTypes, NextTypes, InitSaved, StepContributions, StepSaved, PTL DEF Spec
  <1>2. TypeInv /\ ContributionsInv /\ SavedInv => SavedExplained
    BY DEF SavedInv, SavedExplained, Explains
  <1>3. QED
    BY <1>1, <1>2, PTL

-----------------------------------------------------------------------------
(* Requests that come one at a time: the one that is open is the only one   *)
(* that can change the goal, so what it read still stands when it writes.   *)

SerialOpen(r) ==
  /\ TypeInv /\ ContributionsInv /\ Serial /\ goal # None /\ r \in Open
  /\ \A o \in Requests \ {r} : pc[o] \in {"idle", "done"}
  /\ Prepared(r)
  /\ NothingFailed /\ today < goal.deadline => Reached(goal) \/ pc[r] = "rewrite"
  /\ \A q \in Requests :
       req[q] # None /\ result[q] = "ok" /\ req[q].op = "update" /\ OnlyUpdate(q) =>
         goal.target = req[q].target /\ goal.deadline = req[q].deadline

LEMMA SerialOpens ==
  ASSUME TypeInv, ContributionsInv, SerialInv, Serial, goal # None, NEW r \in Open
  PROVE  SerialOpen(r) /\ \E S \in SUBSET contributions : Applied(S)
  <1>1. r \in Requests /\ \A o \in Open : o = r
    BY DEF SerialInv, Open
  <1>2. \A o \in Requests \ {r} : pc[o] \in {"idle", "done"}
    BY <1>1 DEF Open
  <1>3. QED
    BY <1>1, <1>2 DEF SerialInv, SerialOpen

LEMMA SerialStep ==
  ASSUME NEW r \in Requests, SerialOpen(r), OthersKept(r), UNCHANGED req, goal' # None,
         Prepared(r)', \E S \in SUBSET contributions' : Applied(S)',
         NothingFailed' /\ today' < goal'.deadline =>
           Reached(goal') \/ pc'[r] = "rewrite",
         \/ req[r].op = "update"
         \/ goal'.target = goal.target /\ goal'.deadline = goal.deadline,
         result'[r] = "ok" /\ req[r].op = "update" =>
           goal'.target = req[r].target /\ goal'.deadline = req[r].deadline
  PROVE  SerialInv'
  <1>1. \A o \in Open' : o = r
    BY DEF SerialOpen, Open, OthersKept
  <1>2. \A o \in Requests : Prepared(o)'
    BY DEF SerialOpen, OthersKept, Prepared
  <1>3. ASSUME NEW q \in Requests, req[q] # None, result'[q] = "ok", req[q].op = "update",
               OnlyUpdate(q)'
        PROVE  goal'.target = req[q].target /\ goal'.deadline = req[q].deadline
    <2>1. CASE q = r
      BY <1>3, <2>1
    <2>2. CASE q # r
      <3>1. req[r] # None
        BY NoGoalIsNoRow DEF SerialOpen, Open, TypeInv, CopiesKept
      <3>2. req[r].op # "update" /\ OnlyUpdate(q)
        BY <1>3, <2>2, <3>1 DEF OnlyUpdate
      <3>3. result[q] = "ok"
        BY <1>3, <2>2 DEF OthersKept
      <3>4. QED
        BY <1>3, <3>2, <3>3 DEF SerialOpen
    <2>3. QED
      BY <2>1, <2>2
  <1>4. QED
    BY <1>1, <1>2, <1>3 DEF SerialInv

(* The contributions that were applied still are, when no saved amount is   *)
(* stored, and no contribution but one that was applied is answered.        *)
LEMMA AppliedKept ==
  ASSUME NEW r \in Requests, SerialOpen(r), OthersKept(r),
         NEW S \in SUBSET contributions, Applied(S), goal'.saved = goal.saved,
         \/ contributions' = contributions
         \/ contributions' = contributions \cup {RowOf(r)},
         pc'[r] \in {"insert", "store"} => \A x \in contributions : x.id # r,
         result'[r] = "ok" \/ pc'[r] = "rewrite" =>
           /\ contributions' = contributions
           /\ pc[r] = "rewrite" \/ \A x \in contributions : x.id # r
  PROVE  S \in SUBSET contributions' /\ Applied(S)'
  <1>1. \A x \in contributions : x.id \in Requests
    BY DEF SerialOpen, TypeInv, TypeOK
  <1>2. RowOf(r).id = r
    BY DEF RowOf
  <1>3. \A x \in S : pc'[x.id] \notin {"insert", "store"}
    BY <1>1 DEF Applied, OthersKept
  <1>4. ASSUME NEW x \in contributions', result'[x.id] = "ok" \/ pc'[x.id] = "rewrite"
        PROVE  x \in S
    <2>1. CASE x.id = r
      BY <1>4, <2>1 DEF Applied
    <2>2. CASE x.id # r
      BY <1>1, <1>2, <1>4, <2>2 DEF Applied, OthersKept
    <2>3. QED
      BY <2>1, <2>2
  <1>5. QED
    BY <1>3, <1>4 DEF Applied

(* A request that fails, or is rejected, leaves the goal as it is.          *)
LEMMA SerialEnds ==
  ASSUME NEW r \in Requests, SerialOpen(r), \E S \in SUBSET contributions : Applied(S),
         Fail(r)
         \/ ((ReadForContribution(r) \/ ReadForUpdate(r)) /\ Answer(r, "rejected"))
  PROVE  SerialInv'
  <1>1. /\ UNCHANGED <<goal, contributions, today, req>> /\ pc'[r] = "done"
        /\ OthersKept(r) /\ result'[r] \in {"failed", "rejected"}
    BY AnswerIs DEF SerialOpen, Fail, ReadForContribution, ReadForUpdate, Answer, Goto,
                    OthersKept, TypeInv, TypeOK
  <1>2. PICK S \in SUBSET contributions : Applied(S)
    OBVIOUS
  <1>3. S \in SUBSET contributions' /\ Applied(S)'
    BY <1>1, <1>2, AppliedKept
  <1>4. Prepared(r)'
    BY <1>1 DEF Prepared
  <1>5. NothingFailed' => NothingFailed /\ pc[r] # "rewrite"
    <2>1. result[r] = "none"
      BY DEF SerialOpen, Open, ContributionsInv
    <2>2. result'[r] = "failed" \/ pc[r] = "received"
      BY AnswerIs DEF Fail, ReadForContribution, ReadForUpdate, SerialOpen
    <2>3. QED
      BY <1>1, <2>1, <2>2 DEF NothingFailed, OthersKept
  <1>6. QED
    BY <1>1, <1>3, <1>4, <1>5, SerialStep DEF SerialOpen

(* A contribution reads the goal: what it will store is the saved amount of *)
(* the goal and its own.                                                    *)
LEMMA SerialReads ==
  ASSUME NEW r \in Requests, SerialOpen(r), \E S \in SUBSET contributions : Applied(S),
         ReadForContribution(r)
  PROVE  SerialInv'
  <1>1. CASE Answer(r, "rejected")
    BY <1>1, SerialEnds
  <1>2. CASE ~Answer(r, "rejected")
    <2>1. /\ copy' = [copy EXCEPT ![r] = [goal EXCEPT !.saved = @ + req[r].amount]]
          /\ UNCHANGED <<goal, contributions, today, req, result>>
          /\ pc[r] = "received" /\ pc'[r] = "insert"
          /\ \A o \in Requests \ {r} : pc'[o] = pc[o]
      BY <1>2, GotoIs DEF ReadForContribution, SerialOpen, Goto
    <2>2. OthersKept(r) /\ copy'[r] = [goal EXCEPT !.saved = @ + req[r].amount]
      BY <2>1 DEF OthersKept, SerialOpen, TypeInv, TypeOK
    <2>3. Prepared(r)'
      BY <2>1, <2>2 DEF Prepared
    <2>4. \A x \in contributions : x.id # r
      BY <2>1 DEF SerialOpen, ContributionsInv
    <2>5. result'[r] # "ok"
      BY <2>1 DEF SerialOpen, ContributionsInv
    <2>6. PICK S \in SUBSET contributions : Applied(S)
      OBVIOUS
    <2>7. S \in SUBSET contributions' /\ Applied(S)'
      BY <2>1, <2>2, <2>4, <2>5, <2>6, AppliedKept
    <2>8. NothingFailed' /\ today' < goal'.deadline => Reached(goal') \/ pc'[r] = "rewrite"
      BY <2>1 DEF SerialOpen, NothingFailed
    <2>9. QED
      BY <2>1, <2>2, <2>3, <2>5, <2>7, <2>8, SerialStep DEF SerialOpen
  <1>3. QED
    BY <1>1, <1>2

LEMMA SerialInserts ==
  ASSUME NEW r \in Requests, SerialOpen(r), \E S \in SUBSET contributions : Applied(S),
         InsertContribution(r)
  PROVE  SerialInv'
  <1>1. /\ OthersKept(r) /\ UNCHANGED <<goal, today, req, copy>> /\ pc[r] = "insert"
        /\ contributions' = contributions \cup {RowOf(r)}
        /\ \/ pc'[r] = "store" /\ result' = result
           \/ pc'[r] = "done" /\ result'[r] = "failed"
    BY InsertIs DEF SerialOpen
  <1>2. \A x \in contributions : x.id # r
    BY <1>1 DEF SerialOpen, ContributionsInv
  <1>3. result[r] = "none"
    BY <1>1 DEF SerialOpen, ContributionsInv
  <1>4. result'[r] # "ok" /\ pc'[r] # "rewrite"
    BY <1>1, <1>3
  <1>5. PICK S \in SUBSET contributions : Applied(S)
    OBVIOUS
  <1>6. S \in SUBSET contributions' /\ Applied(S)'
    BY <1>1, <1>2, <1>4, <1>5, AppliedKept
  <1>7. Prepared(r)'
    BY <1>1 DEF Prepared, SerialOpen
  <1>8. NothingFailed' => NothingFailed
    BY <1>1 DEF NothingFailed
  <1>9. NothingFailed' /\ today' < goal'.deadline => Reached(goal') \/ pc'[r] = "rewrite"
    BY <1>1, <1>8 DEF SerialOpen
  <1>10. QED
    BY <1>1, <1>4, <1>6, <1>7, <1>9, SerialStep DEF SerialOpen

(* A contribution stores the saved amount it computed: the one there is,    *)
(* and its own.                                                             *)
LEMMA SerialStoresSum ==
  ASSUME NEW r \in Requests, SerialOpen(r), NEW S \in SUBSET contributions, Applied(S),
         pc[r] = "store", UNCHANGED <<contributions, req>>, OthersKept(r),
         goal'.saved = goal.saved + req[r].amount, pc'[r] \in {"rewrite", "done"}
  PROVE  S \cup {RowOf(r)} \in SUBSET contributions' /\ Applied(S \cup {RowOf(r)})'
  <1> DEFINE x == RowOf(r)
             T == S \cup {x}
  <1>1. x \in contributions /\ x.id = r /\ x.amount = req[r].amount
    BY DEF SerialOpen, ContributionsInv, RowOf
  <1>2. x \notin S
    BY <1>1 DEF Applied
  <1>3. \A y \in contributions : y.id = r => y = x
    BY DEF SerialOpen, ContributionsInv, RowOf
  <1>4. IsFiniteSet(S) /\ \A y \in S : y.amount \in Int
    BY FS_Subset, AmountsInt DEF SerialOpen, ContributionsInv
  <1>5. x.amount \in Int /\ goal.saved \in Int
    BY <1>1 DEF SerialOpen, TypeInv, TypeOK, Goal
  <1> HIDE DEF x
  <1>6. Total(T) = Total(S) + x.amount /\ Total(S) \in Int
    BY <1>2, <1>4, <1>5, TotalAdds
  <1>7. goal'.saved = FirstSaved + Total(T)
    BY <1>1, <1>5, <1>6, GoalAssumption DEF Applied
  <1>8. T \in SUBSET contributions'
    BY <1>1
  <1>9. \A y \in T : y.id \in Requests
    BY <1>8 DEF SerialOpen, TypeInv, TypeOK
  <1>10. \A y \in T : pc'[y.id] \notin {"insert", "store"}
    BY <1>1, <1>9 DEF Applied, OthersKept
  <1>11. ASSUME NEW y \in contributions', result'[y.id] = "ok" \/ pc'[y.id] = "rewrite"
         PROVE  y \in T
    <2>1. y.id \in Requests
      BY DEF SerialOpen, TypeInv, TypeOK
    <2>2. QED
      BY <1>3, <1>11, <2>1 DEF Applied, OthersKept
  <1>12. \A U : U = T => Applied(U)'
    BY <1>7, <1>10, <1>11 DEF Applied
  <1>13. UNCHANGED x
    BY DEF x, RowOf
  <1>14. QED
    BY <1>8, <1>12, <1>13 DEF x

LEMMA SerialStores ==
  ASSUME NEW r \in Requests, SerialOpen(r), \E S \in SUBSET contributions : Applied(S),
         StoreSaved(r)
  PROVE  SerialInv'
  <1> DEFINE c == copy[r]
             done == [c EXCEPT !.completed = c.saved >= c.target]
             planned == [done EXCEPT !.required =
                           RequiredMonthly(c.target, c.saved, today, c.deadline)]
  <1>1. c \in Goal /\ goal \in Goal /\ today \in Nat /\ pc[r] = "store"
    BY GoalAssumption DEF SerialOpen, TypeInv, TypeOK, CopiesKept, StoreSaved
  <1>2. c = [goal EXCEPT !.saved = @ + req[r].amount]
    BY <1>1 DEF SerialOpen, Prepared
  <1>3. /\ c.saved = goal.saved + req[r].amount /\ c.target = goal.target
        /\ c.deadline = goal.deadline
    BY <1>1, <1>2 DEF Goal
  <1>4. /\ goal' = [goal EXCEPT !.saved = c.saved]
        /\ UNCHANGED <<contributions, today, req>>
        /\ \/ /\ copy' = [copy EXCEPT ![r] = planned]
              /\ Goto(r, "rewrite")
           \/ /\ copy' = [copy EXCEPT ![r] = planned] \/ copy' = [copy EXCEPT ![r] = done]
              /\ Answer(r, "failed")
           \/ /\ copy' = [copy EXCEPT ![r] = done]
              /\ ~(c.deadline > today) /\ Answer(r, "ok")
    BY DEF StoreSaved, SerialOpen
  <1>5. /\ planned.saved = c.saved /\ planned.target = c.target
        /\ planned.deadline = c.deadline
        /\ planned.completed <=> c.saved >= c.target
    BY <1>1 DEF Goal
  <1>6. goal'.saved = c.saved /\ goal'.target = c.target /\ goal'.deadline = c.deadline
    BY <1>1, <1>3, <1>4 DEF Goal
  <1>7. goal' # None
    <2>1. goal' \in Goal
      BY <1>1, <1>4 DEF Goal
    <2>2. QED
      BY <2>1, NoGoalIsNoRow
  <1> HIDE DEF c, done, planned
  <1>8. /\ \A o \in Requests \ {r} :
             pc'[o] = pc[o] /\ copy'[o] = copy[o] /\ result'[o] = result[o]
        /\ \/ copy'[r] = planned /\ pc'[r] = "rewrite" /\ result' = result
           \/ pc'[r] = "done" /\ result'[r] = "failed"
           \/ ~(c.deadline > today) /\ pc'[r] = "done" /\ result'[r] = "ok"
    BY <1>4, AnswerIs, GotoIs DEF SerialOpen, TypeInv, TypeOK
  <1>9. OthersKept(r) /\ req[r].op = "contribute"
    BY <1>1, <1>4, <1>8 DEF OthersKept, SerialOpen, ContributionsInv
  <1>10. PICK S \in SUBSET contributions : Applied(S)
    OBVIOUS
  <1>11. S \cup {RowOf(r)} \in SUBSET contributions' /\ Applied(S \cup {RowOf(r)})'
    BY <1>1, <1>3, <1>4, <1>6, <1>8, <1>9, <1>10, SerialStoresSum
  <1>12. UNCHANGED RowOf(r)
    BY <1>4 DEF RowOf
  <1>13. \E T \in SUBSET contributions' : Applied(T)'
    BY <1>11, <1>12 DEF Applied
  <1>14. Prepared(r)'
    <2>1. CASE copy'[r] = planned /\ pc'[r] = "rewrite"
      <3>1. copy'[r].saved = goal'.saved /\ Reached(planned)
        BY <1>5, <1>6, <2>1 DEF Reached
      <3>2. QED
        BY <1>4, <1>5, <1>6, <1>9, <2>1, <3>1 DEF Prepared
    <2>2. CASE pc'[r] = "done"
      BY <2>2 DEF Prepared
    <2>3. QED
      BY <1>8, <2>1, <2>2
  <1>15. NothingFailed' /\ today' < goal'.deadline => Reached(goal') \/ pc'[r] = "rewrite"
    <2>1. goal'.deadline \in Int
      BY <1>1, <1>6 DEF Goal
    <2>2. QED
      BY <1>1, <1>4, <1>6, <1>8, <2>1 DEF NothingFailed
  <1>16. goal'.target = goal.target /\ goal'.deadline = goal.deadline
    BY <1>3, <1>6
  <1>17. QED
    BY <1>4, <1>7, <1>9, <1>13, <1>14, <1>15, <1>16, SerialStep

LEMMA EnoughSaved ==
  ASSUME NEW target \in Int, NEW saved \in Int, saved >= target
  PROVE  Remaining(target, saved) = 0
  <1>1. target - saved \in Int /\ target - saved <= 0
    OBVIOUS
  <1>2. \A x \in {0, target - saved} : 0 >= x
    BY <1>1
  <1>3. Max({0, target - saved}) \in {0, target - saved}
          /\ \A y \in {0, target - saved} : Max({0, target - saved}) >= y
    BY <1>2 DEF Max
  <1>4. Max({0, target - saved}) >= 0 /\ Max({0, target - saved}) \in Int
    BY <1>1, <1>3
  <1>5. QED
    BY <1>1, <1>2, <1>3, <1>4 DEF Remaining

(* An update reads the goal: what it will write is what its client sent,    *)
(* and is completed if enough is saved.                                     *)
LEMMA SerialPlans ==
  ASSUME NEW r \in Requests, SerialOpen(r), \E S \in SUBSET contributions : Applied(S),
         ReadForUpdate(r)
  PROVE  SerialInv'
  <1>1. CASE Answer(r, "rejected")
    BY <1>1, SerialEnds
  <1>2. CASE ~Answer(r, "rejected")
    <2> DEFINE new == Planned(req[r].target, goal.saved, req[r].deadline, req[r].completed)
    <2>1. /\ copy' = [copy EXCEPT ![r] = new]
          /\ UNCHANGED <<goal, contributions, today, req, result>>
          /\ pc[r] = "received" /\ pc'[r] = "rewrite" /\ req[r].op = "update"
          /\ \A o \in Requests \ {r} : pc'[o] = pc[o]
      BY <1>2, GotoIs DEF ReadForUpdate, SerialOpen, Goto
    <2>2. OthersKept(r) /\ copy'[r] = new
      BY <2>1 DEF OthersKept, SerialOpen, TypeInv, TypeOK
    <2>3. req[r].target \in Int /\ goal.saved \in Int
      <3>1. req[r] \in Inputs /\ goal \in Goal
        BY <2>1 DEF SerialOpen, TypeInv, TypeOK, CopiesKept
      <3>2. req[r].target \in Targets
        BY <2>1, <3>1 DEF Inputs, Contribution, Update, Deletion
      <3>3. QED
        BY <3>1, <3>2, GoalAssumption DEF Goal
    <2>4. /\ new.saved = goal.saved /\ new.target = req[r].target
          /\ new.deadline = req[r].deadline /\ Reached(new)
      BY <2>3, EnoughSaved DEF Planned, Reached
    <2> HIDE DEF new
    <2>5. Prepared(r)'
      BY <2>1, <2>2, <2>4 DEF Prepared
    <2>6. \A x \in contributions : x.id # r
      BY <2>1 DEF SerialOpen, ContributionsInv
    <2>7. result'[r] # "ok"
      BY <2>1 DEF SerialOpen, ContributionsInv
    <2>8. PICK S \in SUBSET contributions : Applied(S)
      OBVIOUS
    <2>9. S \in SUBSET contributions' /\ Applied(S)'
      BY <2>1, <2>2, <2>6, <2>8, AppliedKept
    <2>10. QED
      BY <2>1, <2>2, <2>5, <2>7, <2>9, SerialStep DEF SerialOpen
  <1>3. QED
    BY <1>1, <1>2

LEMMA SerialRewrites ==
  ASSUME NEW r \in Requests, SerialOpen(r), \E S \in SUBSET contributions : Applied(S),
         Rewrite(r)
  PROVE  SerialInv'
  <1>1. /\ goal \in Goal /\ copy[r] \in Goal /\ pc[r] = "rewrite"
        /\ goal' = [copy[r] EXCEPT !.saved = goal.saved]
        /\ UNCHANGED <<contributions, today, req, copy>>
    BY DEF SerialOpen, TypeInv, TypeOK, CopiesKept, Rewrite
  <1>2. /\ pc'[r] = "done" /\ result'[r] \in {"ok", "failed"} /\ OthersKept(r)
    BY AnswerIs DEF SerialOpen, Rewrite, OthersKept
  <1>3. /\ goal'.saved = goal.saved /\ goal'.target = copy[r].target
        /\ goal'.deadline = copy[r].deadline /\ goal'.completed = copy[r].completed
        /\ goal' \in Goal
    BY <1>1 DEF Goal
  <1>4. /\ copy[r].saved = goal.saved /\ Reached(copy[r])
        /\ IF req[r].op = "update"
             THEN copy[r].target = req[r].target /\ copy[r].deadline = req[r].deadline
             ELSE copy[r].target = goal.target /\ copy[r].deadline = goal.deadline
    BY <1>1 DEF SerialOpen, Prepared
  <1>5. goal' # None
    BY <1>3, NoGoalIsNoRow
  <1>6. Reached(goal')
    BY <1>3, <1>4 DEF Reached
  <1>7. Prepared(r)'
    BY <1>2 DEF Prepared
  <1>8. PICK S \in SUBSET contributions : Applied(S)
    OBVIOUS
  <1>9. S \in SUBSET contributions' /\ Applied(S)'
    BY <1>1, <1>2, <1>3, <1>8, AppliedKept
  <1>10. QED
    BY <1>1, <1>2, <1>3, <1>4, <1>5, <1>6, <1>7, <1>9, SerialStep

(* A request is sent only when none is open. *)
LEMMA SerialSubmits ==
  ASSUME TypeInv, ContributionsInv, SerialInv, NEW r \in Requests, Submit(r)
  PROVE  SerialInv'
  <1> SUFFICES ASSUME Serial'
               PROVE  SerialInv'
    BY DEF SerialInv
  <1>1. /\ pc[r] = "idle" /\ req[r] = None /\ pc'[r] = "received"
        /\ UNCHANGED <<goal, contributions, today, copy, result>>
        /\ \A o \in Requests \ {r} : pc'[o] = pc[o] /\ req'[o] = req[o]
    BY GotoIs DEF Submit, TypeInv, TypeOK, ContributionsInv
  <1>2. req'[r] \in Inputs /\ req'[r].alone = (Open = {})
    BY DEF Submit, TypeInv, TypeOK
  <1>3. Open = {}
    BY <1>2, NoGoalIsNoRow DEF Serial
  <1>4. Serial
    BY <1>1 DEF Serial
  <1>5. \A o \in Requests \ {r} : pc[o] \in {"idle", "done"}
    BY <1>3 DEF Open
  <1>6. \A o \in Open' : o = r
    BY <1>1, <1>5 DEF Open
  <1> SUFFICES ASSUME goal # None
               PROVE  SerialInv'
    BY <1>1, <1>6 DEF SerialInv
  <1>7. \A o \in Requests : Prepared(o)'
    BY <1>1, <1>5 DEF Prepared
  <1>8. \E S \in SUBSET contributions' : Applied(S)'
    <2>1. PICK S \in SUBSET contributions : Applied(S)
      BY <1>4 DEF SerialInv
    <2>2. \A x \in contributions : x.id \in Requests /\ x.id # r
      BY <1>1 DEF TypeInv, TypeOK, ContributionsInv
    <2>3. Applied(S)'
      BY <1>1, <2>1, <2>2 DEF Applied
    <2>4. QED
      BY <1>1, <2>3
  <1>9. NothingFailed' /\ today' < goal'.deadline => Reached(goal')
    BY <1>1, <1>4, <1>5 DEF SerialInv, NothingFailed
  <1>10. result[r] = "none"
    BY <1>1 DEF ContributionsInv
  <1>11. ASSUME NEW q \in Requests, req'[q] # None, result'[q] = "ok",
                req'[q].op = "update", OnlyUpdate(q)'
         PROVE  goal'.target = req'[q].target /\ goal'.deadline = req'[q].deadline
    <2>1. q # r
      BY <1>1, <1>10, <1>11
    <2>2. OnlyUpdate(q)
      BY <1>1, <1>11 DEF OnlyUpdate
    <2>3. QED
      BY <1>1, <1>4, <1>11, <2>1, <2>2 DEF SerialInv
  <1>12. QED
    BY <1>6, <1>7, <1>8, <1>9, <1>11 DEF SerialInv

LEMMA StepSerial ==
  TypeInv /\ GoneIsEmpty /\ ContributionsInv /\ SerialInv /\ [Next]_vars => SerialInv'
  <1> SUFFICES ASSUME TypeInv, GoneIsEmpty, ContributionsInv, SerialInv, [Next]_vars
               PROVE  SerialInv'
    OBVIOUS
  <1>1. ASSUME NEW r \in Requests, Handle(r) \/ Fail(r)
        PROVE  SerialInv'
    <2>1. r \in Open /\ req' = req
      BY <1>1 DEF Handle, Contribute, UpdateGoal, ReadForContribution, InsertContribution,
                  StoreSaved, ReadForUpdate, Rewrite, Delete, Fail, Open
    <2>2. OthersKept(r)
      BY <1>1, AnswerIs, GotoIs
         DEF Handle, Contribute, UpdateGoal, ReadForContribution, InsertContribution,
             StoreSaved, ReadForUpdate, Rewrite, Delete, Fail, OthersKept, TypeInv, TypeOK
    <2>3. Open' \subseteq Open
      BY <2>1, <2>2 DEF Open, OthersKept
    <2>4. CASE ~Serial
      BY <2>1, <2>4 DEF SerialInv, Serial
    <2>5. CASE Serial /\ goal = None
      <3>1. goal' = None
        BY <2>5, NextGone
      <3>2. QED
        BY <2>3, <2>5, <3>1 DEF SerialInv
    <2>6. CASE Serial /\ goal # None
      <3>1. SerialOpen(r) /\ \E S \in SUBSET contributions : Applied(S)
        BY <2>1, <2>6, SerialOpens
      <3>2. CASE Delete(r)
        <4>1. goal' = None
          BY <2>6, <3>2 DEF Delete
        <4>2. QED
          BY <2>3, <2>6, <4>1 DEF SerialInv
      <3>3. QED
        BY <1>1, <3>1, <3>2, SerialEnds, SerialReads, SerialInserts, SerialStores,
           SerialPlans, SerialRewrites DEF Handle, Contribute, UpdateGoal
    <2>7. QED
      BY <2>4, <2>5, <2>6
  <1>2. CASE NextDay \/ UNCHANGED vars
    <2>1. /\ UNCHANGED <<goal, contributions, req, copy, pc, result>>
          /\ today' \in Int /\ today \in Int /\ today <= today'
      BY <1>2, GoalAssumption DEF NextDay, vars, TypeInv, TypeOK
    <2>2. /\ UNCHANGED <<Open, Serial, NothingFailed>>
          /\ \A r \in Requests : UNCHANGED <<Prepared(r), OnlyUpdate(r)>>
          /\ \A S : Applied(S) <=> Applied(S)'
      BY <2>1 DEF Open, Serial, NothingFailed, Prepared, OnlyUpdate, Applied
    <2>3. goal # None => (today' < goal'.deadline => today < goal.deadline)
      <3>1. goal # None => goal.deadline \in Int
        BY DEF TypeInv, TypeOK, Goal
      <3>2. QED
        BY <2>1, <3>1
    <2>4. QED
      BY <2>1, <2>2, <2>3 DEF SerialInv
  <1>3. QED
    BY <1>1, <1>2, SerialSubmits DEF Next, AllAnswered

LEMMA InitSerial == Init => SerialInv
  <1> SUFFICES ASSUME Init
               PROVE  SerialInv
    OBVIOUS
  <1>1. Open = {} /\ NothingFailed
    BY DEF Init, Open, NothingFailed
  <1>2. /\ goal.saved = FirstSaved /\ goal.target = FirstTarget
        /\ goal.completed = (FALSE \/ Remaining(FirstTarget, FirstSaved) = 0)
        /\ FirstSaved \in Int /\ FirstTarget \in Int
    BY GoalAssumption DEF Init, Planned
  <1>3. Reached(goal)
    <2>1. CASE FirstSaved >= FirstTarget
      BY <1>2, <2>1, EnoughSaved DEF Reached
    <2>2. CASE ~(FirstSaved >= FirstTarget)
      BY <1>2, <2>2 DEF Reached
    <2>3. QED
      BY <1>2, <2>1, <2>2 DEF Reached
  <1>4. \E S \in SUBSET contributions : Applied(S)
    <2>1. contributions = {} /\ goal.saved = FirstSaved + Total({})
      <3>1. contributions = {}
        BY DEF Init
      <3>2. goal.saved = FirstSaved + Total({})
        BY <1>2, TotalEmpty
      <3>3. QED
        BY <3>1, <3>2
    <2>2. Applied({})
      BY <2>1 DEF Applied
    <2>3. QED
      BY <2>2
  <1>5. \A r \in Requests : Prepared(r) /\ result[r] # "ok"
    BY DEF Init, Prepared
  <1>6. QED
    BY <1>1, <1>3, <1>4, <1>5 DEF SerialInv

LEMMA SerialAlways ==
  Spec => [](TypeInv /\ GoneIsEmpty /\ ContributionsInv /\ SerialInv)
  <1>1. Init => TypeInv /\ GoneIsEmpty /\ ContributionsInv /\ SerialInv
    BY InitTypes, InitGone, InitSaved, InitSerial
  <1>2. TypeInv /\ GoneIsEmpty /\ [Next]_vars => GoneIsEmpty'
    BY NextGone
  <1>3. QED
    BY <1>1, <1>2, NextTypes, StepContributions, StepSerial, PTL DEF Spec

(* A client that sends one request at a time finds every acknowledged       *)
(* contribution in the saved amount, although other requests failed at any  *)
(* statement.                                                               *)
THEOREM AcknowledgedInTurn == Spec => []AppliedInTurn
  <1>1. SerialInv => AppliedInTurn
    <2> SUFFICES ASSUME SerialInv, Serial, Open = {}, goal # None
                 PROVE  \E S \in SUBSET contributions :
                          Acknowledged \subseteq S /\ goal.saved = FirstSaved + Total(S)
      BY DEF AppliedInTurn, AcknowledgedApplied
    <2>1. PICK S \in SUBSET contributions : Applied(S)
      BY DEF SerialInv
    <2>2. QED
      BY <2>1 DEF Applied, Acknowledged
  <1>2. QED
    BY <1>1, SerialAlways, PTL

(* When requests came one at a time, none failed and the deadline lies      *)
(* ahead, a goal whose target is saved is marked completed, whichever of    *)
(* contributions, lowered targets and moved deadlines brought it there.     *)
THEOREM CompletionIsMarked == Spec => []CompletionFollowsProgress
  <1>1. SerialInv => CompletionFollowsProgress
    BY DEF SerialInv, CompletionFollowsProgress, Reached, Open
  <1>2. QED
    BY <1>1, SerialAlways, PTL

(* When requests came one at a time, one of them an update, the row has its *)
(* target and deadline: no contribution puts the old plan back.             *)
THEOREM UpdatesStand == Spec => []UpdateStands
  <1>1. SerialInv => UpdateStands
    BY DEF SerialInv, UpdateStands, OnlyUpdate
  <1>2. QED
    BY <1>1, SerialAlways, PTL
=============================================================================

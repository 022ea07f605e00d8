-------------------------- MODULE ComponentsProofs --------------------------
(***************************************************************************)
(* What is proved of a single component holds of Components: a behaviour   *)
(* of all is one of each, in which the others' steps are stuttering.       *)
(***************************************************************************)
EXTENDS Components, Sequences, FiniteSetTheorems, TLAPS

Alerts == INSTANCE BudgetAlertsProofs

-----------------------------------------------------------------------------
(* The budgets begin and go on as they do alone.                            *)
LEMMA BudgetsStartAsAlone == Init => Alerts!Init
  BY DEF Init, Budgets!Init, Alerts!Init, Budgets!Thresholds, Alerts!Thresholds,
         Budgets!Unread, Alerts!Unread

(* The two instances of BudgetAlerts, that of Components and that of its    *)
(* proofs, take the same steps.                                             *)
LEMMA SameRequestSteps ==
  ASSUME NEW r \in StatusReads
  PROVE  Budgets!GetBudgetStatus(r) => Alerts!GetBudgetStatus(r)
  <1>1. Budgets!ListBudgets(r) => Alerts!ListBudgets(r)
    BY DEF Budgets!ListBudgets, Alerts!ListBudgets, Budgets!OpenReads,
           Alerts!OpenReads, Budgets!Unread, Alerts!Unread, Budgets!Finished,
           Alerts!Finished
  <1>2. Budgets!SumSpent(r) => Alerts!SumSpent(r)
    BY DEF Budgets!SumSpent, Alerts!SumSpent, Budgets!ThresholdOf, Alerts!ThresholdOf,
           Budgets!Spent, Alerts!Spent, Budgets!Counted, Alerts!Counted,
           Budgets!Current, Alerts!Current, Budgets!Following, Alerts!Following,
           Budgets!Finished, Alerts!Finished, Budgets!Min, Alerts!Min,
           Budgets!MapThenSumSet, Alerts!MapThenSumSet, Budgets!MapThenFoldSet,
           Alerts!MapThenFoldSet
  <1>3. Budgets!ReadLastEmitted(r) => Alerts!ReadLastEmitted(r)
    BY DEF Budgets!ReadLastEmitted, Alerts!ReadLastEmitted, Budgets!Current,
           Alerts!Current, Budgets!Min, Alerts!Min
  <1>4. Budgets!Emit(r) => Alerts!Emit(r)
    BY DEF Budgets!Emit, Alerts!Emit, Budgets!Current, Alerts!Current,
           Budgets!Thresholds, Alerts!Thresholds, Budgets!Finished, Alerts!Finished,
           Budgets!Min, Alerts!Min
  <1>5. Budgets!StoreLastEmitted(r) => Alerts!StoreLastEmitted(r)
    BY DEF Budgets!StoreLastEmitted, Alerts!StoreLastEmitted, Budgets!Current,
           Alerts!Current, Budgets!Following, Alerts!Following, Budgets!Finished,
           Alerts!Finished, Budgets!Min, Alerts!Min
  <1>6. Budgets!FailRead(r) => Alerts!FailRead(r)
    BY DEF Budgets!FailRead, Alerts!FailRead, Budgets!Finished, Alerts!Finished
  <1>7. QED
    BY <1>1, <1>2, <1>3, <1>4, <1>5, <1>6
       DEF Budgets!GetBudgetStatus, Alerts!GetBudgetStatus

LEMMA SameSteps == Budgets!Next => Alerts!Next
  <1>1. \A t \in Transactions : Budgets!Record(t) => Alerts!Record(t)
    BY DEF Budgets!Record, Alerts!Record, Budgets!Outdated, Alerts!Outdated
  <1>2. \A c \in Categories : Budgets!UpsertBudget(c) => Alerts!UpsertBudget(c)
    BY DEF Budgets!UpsertBudget, Alerts!UpsertBudget, Budgets!Requested,
           Alerts!Requested, Budgets!Upserted, Alerts!Upserted, Budgets!Outdated,
           Alerts!Outdated
  <1>3. Budgets!RestartServer => Alerts!RestartServer
    BY DEF Budgets!RestartServer, Alerts!RestartServer, Budgets!Thresholds,
           Alerts!Thresholds, Budgets!Outdated, Alerts!Outdated, Budgets!OpenReads,
           Alerts!OpenReads, Budgets!Finished, Alerts!Finished
  <1>4. QED
    BY <1>1, <1>2, <1>3, SameRequestSteps DEF Budgets!Next, Alerts!Next

LEMMA BudgetsStepAsAlone == [Next]_vars => [Alerts!Next]_Alerts!vars
  <1> SUFFICES ASSUME [Next]_vars
               PROVE  [Alerts!Next]_Alerts!vars
    OBVIOUS
  <1>1. CASE StepBudgets
    BY <1>1, SameSteps DEF StepBudgets
  <1>2. CASE UNCHANGED budgetVars
    BY <1>2 DEF budgetVars, Alerts!vars
  <1>3. CASE Next /\ ~StepBudgets
    BY <1>2, <1>3 DEF Next, StepRates, StepPages, StepPush, StepLimiter, StepLedger,
                      StepGoals, StepPin, Others
  <1>4. QED
    BY <1>1, <1>2, <1>3 DEF vars, budgetVars

LEMMA BudgetsRunAsAlone == Spec => Alerts!Spec
  BY BudgetsStartAsAlone, BudgetsStepAsAlone, PTL DEF Spec, Alerts!Spec

(* The thresholds that the budget service remembers as reported were        *)
(* reported, in Components as in BudgetAlerts alone.                        *)
THEOREM RememberedInComponents == Spec => []RememberedIsReported
  <1>1. Alerts!Spec => []Alerts!RememberedIsReported
    BY BudgetAssumption, Alerts!RememberedThresholds
  <1>2. Alerts!RememberedIsReported => RememberedIsReported
    BY DEF Alerts!RememberedIsReported, RememberedIsReported, Budgets!RememberedIsReported,
           Alerts!Thresholds, Budgets!Thresholds
  <1>3. QED
    BY <1>1, <1>2, BudgetsRunAsAlone, PTL

(* A status request that is answered while nothing changed since it began   *)
(* leaves no reached threshold unreported.                                  *)
THEOREM NoneMissedInComponents == Spec => []NoAlertMissed
  <1>1. Alerts!Spec => []Alerts!NoAlertMissed
    BY BudgetAssumption, Alerts!NoThresholdMissed
  <1>2. \A c : Budgets!Spent(c) = Alerts!Spent(c)
    BY DEF Budgets!Spent, Alerts!Spent, Budgets!Counted, Alerts!Counted,
           Budgets!MapThenSumSet, Alerts!MapThenSumSet, Budgets!MapThenFoldSet,
           Alerts!MapThenFoldSet
  <1>3. Alerts!NoAlertMissed => NoAlertMissed
    BY <1>2 DEF Alerts!NoAlertMissed, NoAlertMissed, Budgets!NoAlertMissed,
                Alerts!Thresholds, Budgets!Thresholds
  <1>4. QED
    BY <1>1, <1>3, BudgetsRunAsAlone, PTL

(* Requests that come one at a time and do not fail report a budget used to *)
(* 80 percent once in the life of the process.                              *)
THEOREM OnceInComponents == Spec => []ReportedOnce
  <1>1. Alerts!Spec => []Alerts!ReportedOnce
    BY BudgetAssumption, Alerts!ThresholdReportedOnce
  <1>2. Alerts!ReportedOnce => ReportedOnce
    BY DEF Alerts!ReportedOnce, ReportedOnce, Budgets!ReportedOnce
  <1>3. QED
    BY <1>1, <1>2, BudgetsRunAsAlone, PTL

-----------------------------------------------------------------------------
(* The push endpoint.  A request notes each sync_id it has judged, and      *)
(* carries nothing out but what it has not noted yet.                       *)

PushStates == {"idle", "refused", "change", "contributed", "answered", "lost"}

PushType == [pc: PushStates, batch: Seq(SyncIds \cup {None}), at: Nat, seen: SUBSET SyncIds,
             accepted: SUBSET SyncIds, conflicts: SUBSET SyncIds, unsure: SUBSET SyncIds]

SentOnce == {<<"create", "transaction">>, <<"delete", "transaction">>, <<"delete", "goal">>}

PushTypes ==
  /\ push \in [Pushes -> PushType]
  /\ effects \in [Pushes -> [SyncIds -> {0, 1}]]
  /\ rows \subseteq SyncIds

(* How far a request is in its batch. *)
Progress(p) ==
  /\ push[p].pc = "idle" => push[p].seen = {}
  /\ push[p].pc \in {"change", "contributed"} =>
       /\ push[p].at \in 1..Len(push[p].batch)
       /\ \A i \in 1..Len(push[p].batch) : push[p].batch[i] \in SyncIds
       /\ push[p].seen = {push[p].batch[i] : i \in 1..(push[p].at - 1)}
  /\ push[p].pc = "contributed" =>
       change[PushEnd!Current(p)] = <<"contribute", "goal">>
  /\ push[p].pc = "answered" =>
       push[p].seen = {push[p].batch[i] : i \in 1..Len(push[p].batch)}
  /\ push[p].seen = push[p].accepted \cup push[p].conflicts

(* What a request carried out it has noted, or is about to.                 *)
Noted(p) ==
  /\ push[p].pc = "contributed" => effects[p][PushEnd!Current(p)] > 0
  /\ \A id \in SyncIds : effects[p][id] > 0 =>
       /\ \/ id \in push[p].seen
          \/ push[p].pc = "contributed" /\ id = PushEnd!Current(p)
          \/ push[p].pc = "lost"
       /\ \/ id \in push[p].accepted \cup push[p].unsure
          \/ change[id] = <<"contribute", "goal">>
          \/ push[p].pc = "lost"

(* What can be carried out once only leaves its mark.                       *)
Marked ==
  \A p \in Pushes, id \in SyncIds : effects[p][id] > 0 =>
    /\ change[id] = <<"create", "transaction">> => id \in rows
    /\ change[id] = <<"delete", "transaction">> => "transaction" \notin there
    /\ change[id] = <<"delete", "goal">> => "goal" \notin there

Alone ==
  \A p, q \in Pushes, id \in SyncIds :
    change[id] \in SentOnce /\ effects[p][id] > 0 /\ effects[q][id] > 0 => p = q

CarriedOutBySome(id) == \E p \in Pushes : effects[p][id] > 0

PushInv ==
  /\ PushTypes
  /\ \A p \in Pushes : Progress(p) /\ Noted(p)
  /\ Marked /\ Alone
  /\ \A id \in rows : CarriedOutBySome(id)
  /\ \A p \in Pushes : \A id \in push[p].accepted : CarriedOutBySome(id)

LEMMA EffectIs ==
  ASSUME PushTypes, NEW p \in Pushes, NEW id \in SyncIds, effects[p][id] = 0,
         effects' = [effects EXCEPT ![p][id] = @ + 1]
  PROVE  /\ effects' \in [Pushes -> [SyncIds -> {0, 1}]]
         /\ effects'[p][id] = 1
         /\ \A q \in Pushes, i \in SyncIds : q # p \/ i # id => effects'[q][i] = effects[q][i]
  BY DEF PushTypes

LEMMA CurrentIs ==
  ASSUME PushInv, NEW p \in Pushes, push[p].pc \in {"change", "contributed"}
  PROVE  /\ PushEnd!Current(p) \in SyncIds
         /\ push[p] \in PushType
         /\ push[p].at \in 1..Len(push[p].batch) /\ Len(push[p].batch) \in Nat
  BY DEF PushInv, PushTypes, PushType, Progress, PushEnd!Current

LEMMA ProgressStays ==
  ASSUME UNCHANGED change, NEW q \in Pushes, push'[q] = push[q], Progress(q)
  PROVE  Progress(q)'
  <1>1. UNCHANGED PushEnd!Current(q)
    BY DEF PushEnd!Current
  <1>2. QED
    BY <1>1 DEF Progress

(* What a request notes of a change: it was accepted, it is a conflict, or  *)
(* it is a conflict although it was carried out.                            *)
Verdicts == {"accepted", "conflicts", "unheard"}

Noting(p, verdict) == IF verdict = "unheard" THEN PushEnd!Unheard(p)
                                             ELSE PushEnd!Judged(p, verdict)

LEMMA ReportIs ==
  ASSUME NEW p \in Pushes, PushEnd!Reported(p)
  PROVE  \E verdict \in {"accepted", "unheard"} : push' = Noting(p, verdict)
  BY DEF PushEnd!Reported, Noting

(* A verdict on the current change. *)
LEMMA JudgedIs ==
  ASSUME PushInv, NEW p \in Pushes, push[p].pc \in {"change", "contributed"},
         NEW verdict \in Verdicts, push' = Noting(p, verdict), UNCHANGED change
  PROVE  /\ push' \in [Pushes -> PushType]
         /\ \A q \in Pushes : q # p => push'[q] = push[q]
         /\ push'[p].pc \in {"answered", "change"}
         /\ push'[p].batch = push[p].batch
         /\ push'[p].seen = push[p].seen \cup {PushEnd!Current(p)}
         /\ push'[p].accepted = push[p].accepted
              \cup (IF verdict = "accepted" THEN {PushEnd!Current(p)} ELSE {})
         /\ push'[p].unsure = push[p].unsure
              \cup (IF verdict = "unheard" THEN {PushEnd!Current(p)} ELSE {})
         /\ Progress(p)'
  <1> DEFINE id == PushEnd!Current(p)
             last == push[p].at = Len(push[p].batch)
             new == [pc |-> IF last THEN "answered" ELSE "change",
                     batch |-> push[p].batch, at |-> push[p].at + 1,
                     seen |-> push[p].seen \cup {id},
                     accepted |-> IF verdict = "accepted" THEN push[p].accepted \cup {id}
                                                          ELSE push[p].accepted,
                     conflicts |-> IF verdict = "accepted" THEN push[p].conflicts
                                                           ELSE push[p].conflicts \cup {id},
                     unsure |-> IF verdict = "unheard" THEN push[p].unsure \cup {id}
                                                       ELSE push[p].unsure]
  <1>1. /\ id \in SyncIds /\ push[p] \in PushType
        /\ push[p].at \in 1..Len(push[p].batch) /\ Len(push[p].batch) \in Nat
    BY CurrentIs
  <1>2. push \in [Pushes -> PushType] /\ Progress(p)
    BY DEF PushInv, PushTypes
  <1>3. push'[p] = new
    <2>1. CASE verdict = "accepted"
      BY <1>1, <1>2, <2>1 DEF Noting, PushEnd!Judged, PushType
    <2>2. CASE verdict = "conflicts"
      BY <1>1, <1>2, <2>2 DEF Noting, PushEnd!Judged, PushType
    <2>3. CASE verdict = "unheard"
      BY <1>1, <1>2, <2>3 DEF Noting, PushEnd!Unheard, PushEnd!Judged, PushType
    <2>4. QED
      BY <2>1, <2>2, <2>3 DEF Verdicts
  <1>4. push' = [push EXCEPT ![p] = push'[p]] /\ \A q \in Pushes : q # p => push'[q] = push[q]
    <2>1. CASE verdict # "unheard"
      BY <1>2, <2>1 DEF Noting, PushEnd!Judged
    <2>2. CASE verdict = "unheard"
      <3>1. DOMAIN PushEnd!Judged(p, "conflicts") = Pushes
              /\ \A q \in Pushes : q # p => PushEnd!Judged(p, "conflicts")[q] = push[q]
        BY <1>2 DEF PushEnd!Judged
      <3>2. QED
        BY <1>2, <2>2, <3>1 DEF Noting, PushEnd!Unheard
    <2>3. QED
      BY <2>1, <2>2
  <1>5. new \in PushType
    BY <1>1 DEF PushType, PushStates
  <1>6. id = push[p].batch[push[p].at]
    BY DEF PushEnd!Current
  <1> HIDE DEF id
  <1>7. push[p].seen = {push[p].batch[i] : i \in 1..(push[p].at - 1)}
    BY <1>2 DEF Progress
  <1>8. new.seen = {push[p].batch[i] : i \in 1..push[p].at}
    BY <1>1, <1>6, <1>7
  <1>9. push[p].seen = push[p].accepted \cup push[p].conflicts
    BY <1>2 DEF Progress
  <1>10. new.seen = new.accepted \cup new.conflicts
    BY <1>9
  <1>11. \A i \in 1..Len(push[p].batch) : push[p].batch[i] \in SyncIds
    BY <1>2 DEF Progress
  <1>12. /\ new.pc \in {"answered", "change"} /\ new.batch = push[p].batch
         /\ new.at = push[p].at + 1
         /\ new.pc = "answered" <=> push[p].at = Len(push[p].batch)
         /\ new.seen = push[p].seen \cup {id}
         /\ new.accepted = push[p].accepted
              \cup (IF verdict = "accepted" THEN {id} ELSE {})
         /\ new.unsure = push[p].unsure \cup (IF verdict = "unheard" THEN {id} ELSE {})
    OBVIOUS
  <1> HIDE DEF new
  <1>13. Progress(p)'
    <2>1. new.at - 1 = push[p].at
      BY <1>1, <1>12
    <2>2. new.seen = {new.batch[i] : i \in 1..(new.at - 1)}
      BY <1>8, <1>12, <2>1
    <2>3. new.pc = "change" => /\ new.at \in 1..Len(new.batch)
                               /\ \A i \in 1..Len(new.batch) : new.batch[i] \in SyncIds
                               /\ new.seen = {new.batch[i] : i \in 1..(new.at - 1)}
      <3>1. new.pc = "change" => new.at \in 1..Len(new.batch)
        BY <1>1, <1>12
      <3>2. \A i \in 1..Len(new.batch) : new.batch[i] \in SyncIds
        BY <1>11, <1>12
      <3>3. QED
        BY <2>2, <3>1, <3>2
    <2>4. new.pc = "answered" => new.seen = {new.batch[i] : i \in 1..Len(new.batch)}
      BY <1>8, <1>12
    <2>5. new.pc # "idle" /\ new.pc # "contributed" /\ (new.pc = "change" \/ new.pc = "answered")
      BY <1>12
    <2>6. QED
      BY <1>3, <1>10, <2>3, <2>4, <2>5 DEF Progress
  <1>14. push' \in [Pushes -> PushType]
    BY <1>2, <1>3, <1>4, <1>5
  <1>15. QED
    BY <1>3, <1>4, <1>12, <1>13, <1>14 DEF id

(* What a verdict has to respect to keep the invariant. *)
LEMMA VerdictKeeps ==
  ASSUME PushInv, NEW p \in Pushes, push[p].pc \in {"change", "contributed"},
         NEW verdict \in Verdicts, push' = Noting(p, verdict),
         UNCHANGED change, there' \subseteq there, rows \subseteq rows',
         NEW id, id = PushEnd!Current(p),
         \/ effects' = effects /\ rows' = rows
         \/ /\ effects' = [effects EXCEPT ![p][id] = @ + 1]
            /\ push[p].pc = "change" /\ id \notin push[p].seen
            /\ verdict \in {"accepted", "unheard"}
            /\ change[id] \in SentOnce => ~CarriedOutBySome(id)
            /\ rows' \subseteq rows \cup {id}
            /\ change[id] = <<"create", "transaction">> => id \in rows'
            /\ change[id] = <<"delete", "transaction">> => "transaction" \notin there'
            /\ change[id] = <<"delete", "goal">> => "goal" \notin there',
         verdict = "accepted" =>
           CarriedOutBySome(id) \/ effects' # effects
  PROVE  PushInv'
  <1>1. /\ push' \in [Pushes -> PushType]
        /\ \A q \in Pushes : q # p => push'[q] = push[q]
        /\ push'[p].pc \in {"answered", "change"}
        /\ push'[p].batch = push[p].batch
        /\ push'[p].seen = push[p].seen \cup {id}
        /\ push'[p].accepted = push[p].accepted
             \cup (IF verdict = "accepted" THEN {id} ELSE {})
        /\ push'[p].unsure = push[p].unsure
             \cup (IF verdict = "unheard" THEN {id} ELSE {})
        /\ Progress(p)'
    BY JudgedIs
  <1>2. id \in SyncIds /\ push[p] \in PushType
    BY CurrentIs
  <1>3. PushTypes /\ Marked /\ Alone /\ \A q \in Pushes : Progress(q) /\ Noted(q)
    BY DEF PushInv
  <1>4. effects' # effects => effects[p][id] = 0
    <2>1. effects' # effects => push[p].pc = "change" /\ id \notin push[p].seen
      OBVIOUS
    <2>2. effects[p][id] \in {0, 1}
      BY <1>2, <1>3 DEF PushTypes
    <2>3. QED
      BY <1>2, <1>3, <2>1, <2>2 DEF Noted
  <1>5. /\ effects' \in [Pushes -> [SyncIds -> {0, 1}]]
        /\ effects' # effects => effects'[p][id] = 1
        /\ \A q \in Pushes, i \in SyncIds :
             q # p \/ i # id \/ effects' = effects => effects'[q][i] = effects[q][i]
    <2>1. CASE effects' = effects
      BY <1>3, <2>1 DEF PushTypes
    <2>2. CASE effects' # effects
      BY <1>2, <1>3, <1>4, <2>2, EffectIs
    <2>3. QED
      BY <2>1, <2>2
  <1>6. PushTypes'
    BY <1>1, <1>2, <1>3, <1>5 DEF PushTypes
  <1>7. \A i \in SyncIds : CarriedOutBySome(i) => CarriedOutBySome(i)'
    BY <1>5 DEF CarriedOutBySome
  <1>8. effects' # effects => CarriedOutBySome(id)'
    BY <1>5 DEF CarriedOutBySome
  <1>9. \A q \in Pushes : Progress(q)'
    <2>1. ASSUME NEW q \in Pushes, q # p
          PROVE  Progress(q)'
      <3>1. push'[q] = push[q] /\ Progress(q)
        BY <1>1, <1>3, <2>1
      <3>2. QED
        BY <3>1, ProgressStays
    <2>2. QED
      BY <1>1, <2>1
  <1>10. \A q \in Pushes : Noted(q)'
    <2>1. ASSUME NEW q \in Pushes, q # p
          PROVE  Noted(q)'
      BY <1>1, <1>3, <1>5, <2>1, ZenonT(40) DEF Noted, PushEnd!Current
    <2>2. Noted(p)'
      <3> SUFFICES ASSUME NEW i \in SyncIds, effects'[p][i] > 0
                   PROVE  /\ i \in push'[p].seen
                          /\ \/ i \in push'[p].accepted \cup push'[p].unsure
                             \/ change[i] = <<"contribute", "goal">>
        BY <1>1 DEF Noted
      <3>1. CASE effects' # effects /\ i = id
        BY <1>1, <3>1
      <3>2. CASE ~(effects' # effects /\ i = id)
        <4>1. effects[p][i] > 0
          BY <1>5, <3>2
        <4>2. QED
          BY <1>1, <1>3, <4>1 DEF Noted
      <3>3. QED
        BY <3>1, <3>2
    <2>3. QED
      BY <2>1, <2>2
  <1>11. Marked'
    <2> SUFFICES ASSUME NEW q \in Pushes, NEW i \in SyncIds, effects'[q][i] > 0
                 PROVE  /\ change[i] = <<"create", "transaction">> => i \in rows'
                        /\ change[i] = <<"delete", "transaction">>
                             => "transaction" \notin there'
                        /\ change[i] = <<"delete", "goal">> => "goal" \notin there'
      BY DEF Marked
    <2>1. CASE effects' # effects /\ i = id
      BY <2>1
    <2>2. CASE ~(effects' # effects /\ i = id)
      <3>1. effects[q][i] > 0
        BY <1>5, <2>2
      <3>2. QED
        BY <1>3, <3>1 DEF Marked
    <2>3. QED
      BY <2>1, <2>2
  <1>12. Alone'
    <2> SUFFICES ASSUME NEW q \in Pushes, NEW w \in Pushes, NEW i \in SyncIds,
                        change[i] \in SentOnce, effects'[q][i] > 0, effects'[w][i] > 0
                 PROVE  q = w
      BY DEF Alone
    <2>1. CASE effects' # effects /\ i = id
      <3>1. \A v \in Pushes : ~(effects[v][id] > 0)
        BY <2>1 DEF CarriedOutBySome
      <3>2. q = p /\ w = p
        BY <1>5, <2>1, <3>1
      <3>3. QED
        BY <3>2
    <2>2. CASE ~(effects' # effects /\ i = id)
      <3>1. effects[q][i] > 0 /\ effects[w][i] > 0
        BY <1>5, <2>2
      <3>2. QED
        BY <1>3, <3>1 DEF Alone
    <2>3. QED
      BY <2>1, <2>2
  <1>13. \A i \in rows' : CarriedOutBySome(i)'
    <2>1. \A i \in rows : i \in SyncIds /\ CarriedOutBySome(i)
      BY <1>3 DEF PushInv, PushTypes
    <2>2. rows' = rows \/ (rows' \subseteq rows \cup {id} /\ effects' # effects)
      <3>1. effects' = [effects EXCEPT ![p][id] = @ + 1] => effects' # effects
        BY <1>2, <1>3 DEF PushTypes
      <3>2. QED
        BY <3>1
    <2>3. QED
      BY <1>7, <1>8, <2>1, <2>2
  <1>14. \A q \in Pushes : \A i \in push'[q].accepted : CarriedOutBySome(i)'
    <2>1. \A q \in Pushes : \A i \in push[q].accepted : i \in SyncIds /\ CarriedOutBySome(i)'
      BY <1>3, <1>7 DEF PushInv, PushTypes, PushType
    <2>2. verdict = "accepted" => CarriedOutBySome(id)'
      BY <1>2, <1>7, <1>8 DEF CarriedOutBySome
    <2>3. QED
      BY <1>1, <2>1, <2>2
  <1>15. QED
    BY <1>6, <1>9, <1>10, <1>11, <1>12, <1>13, <1>14 DEF PushInv

LEMMA PushRefusals ==
  ASSUME PushInv, NEW p \in Pushes, PushEnd!Duplicate(p) \/ PushEnd!Conflict(p)
  PROVE  PushInv'
  <1>1. /\ push[p].pc = "change" /\ push' = PushEnd!Judged(p, "conflicts")
        /\ UNCHANGED <<change, rows, credit, there, effects>>
    BY DEF PushEnd!Duplicate, PushEnd!Conflict, PushEnd!Takes
  <1> DEFINE id == PushEnd!Current(p)
  <1> HIDE DEF id
  <1>2. id = PushEnd!Current(p)
    BY DEF id
  <1>3. push' = Noting(p, "conflicts") /\ "conflicts" \in Verdicts
    BY <1>1 DEF Noting, Verdicts
  <1>4. QED
    BY <1>1, <1>2, <1>3, VerdictKeeps

(* What is carried out once only has not been carried out by anyone, when a *)
(* request carries it out.                                                  *)
LEMMA PushCreatesTransaction ==
  ASSUME PushInv, NEW p \in Pushes, PushEnd!CreateTransaction(p)
  PROVE  PushInv'
  <1> DEFINE id == PushEnd!Current(p)
  <1>1. /\ push[p].pc = "change" /\ id \notin push[p].seen
        /\ change[id] = <<"create", "transaction">>
        /\ UNCHANGED <<change, credit, there>>
    BY DEF PushEnd!CreateTransaction, PushEnd!Takes
  <1>2. id \in SyncIds
    BY <1>1, CurrentIs
  <1> HIDE DEF id
  <1>3. id = PushEnd!Current(p)
    BY DEF id
  <1>4. CASE id \in rows
    <2>1. UNCHANGED <<rows, effects>> /\ push' = Noting(p, "accepted")
            /\ "accepted" \in Verdicts
      BY <1>3, <1>4 DEF PushEnd!CreateTransaction, Noting, Verdicts
    <2>2. CarriedOutBySome(id)
      BY <1>4 DEF PushInv
    <2>3. QED
      BY <1>1, <1>3, <2>1, <2>2, VerdictKeeps
  <1>5. CASE id \notin rows
    <2>1. rows' = rows \cup {id} /\ effects' = [effects EXCEPT ![p][id] = @ + 1]
      BY <1>3, <1>5 DEF PushEnd!CreateTransaction, PushEnd!CarriedOut
    <2>2. ~CarriedOutBySome(id)
      BY <1>1, <1>2, <1>5 DEF PushInv, Marked, CarriedOutBySome
    <2>3. effects' # effects
      BY <2>1, <1>2 DEF PushInv, PushTypes
    <2>4. <<"create", "transaction">> # <<"delete", "transaction">>
            /\ <<"create", "transaction">> # <<"delete", "goal">>
      OBVIOUS
    <2>5. PICK verdict \in {"accepted", "unheard"} : push' = Noting(p, verdict)
      BY <1>3, <1>5, ReportIs DEF PushEnd!CreateTransaction
    <2>6. verdict \in Verdicts
      BY DEF Verdicts
    <2>7. QED
      BY <1>1, <1>3, <2>1, <2>2, <2>3, <2>4, <2>5, <2>6, VerdictKeeps
  <1>6. QED
    BY <1>4, <1>5

LEMMA PushDeletes ==
  ASSUME PushInv, NEW p \in Pushes, PushEnd!Delete(p)
  PROVE  PushInv'
  <1> DEFINE id == PushEnd!Current(p)
  <1>1. PICK what \in {"transaction", "goal"} :
          /\ PushEnd!Takes(p, <<"delete", what>>)
          /\ what \in there /\ there' = there \ {what}
    BY DEF PushEnd!Delete
  <1>2. /\ push[p].pc = "change" /\ id \notin push[p].seen
        /\ change[id] = <<"delete", what>> /\ UNCHANGED <<change, credit, rows>>
        /\ effects' = [effects EXCEPT ![p][id] = @ + 1]
    BY <1>1 DEF PushEnd!Delete, PushEnd!Takes, PushEnd!CarriedOut
  <1>3. id \in SyncIds
    BY <1>2, CurrentIs
  <1> HIDE DEF id
  <1>4. id = PushEnd!Current(p)
    BY DEF id
  <1>5. ~CarriedOutBySome(id)
    BY <1>1, <1>2, <1>3 DEF PushInv, Marked, CarriedOutBySome
  <1>6. effects' # effects
    BY <1>2, <1>3 DEF PushInv, PushTypes
  <1>7. /\ change[id] # <<"create", "transaction">>
        /\ change[id] = <<"delete", "transaction">> => what = "transaction"
        /\ change[id] = <<"delete", "goal">> => what = "goal"
    BY <1>2
  <1>8. PICK verdict \in {"accepted", "unheard"} : push' = Noting(p, verdict)
    BY ReportIs DEF PushEnd!Delete
  <1>9. verdict \in Verdicts
    BY DEF Verdicts
  <1>10. QED
    BY <1>1, <1>2, <1>4, <1>5, <1>6, <1>7, <1>8, <1>9, VerdictKeeps

LEMMA PushDeletesWallet ==
  ASSUME PushInv, NEW p \in Pushes, PushEnd!DeleteWallet(p)
  PROVE  PushInv'
  <1> DEFINE id == PushEnd!Current(p)
  <1>1. /\ push[p].pc = "change" /\ id \notin push[p].seen
        /\ change[id] = <<"delete", "wallet">> /\ there' = there \ {"wallet"}
        /\ UNCHANGED <<change, credit, rows>>
        /\ effects' = [effects EXCEPT ![p][id] = @ + 1]
    BY DEF PushEnd!DeleteWallet, PushEnd!Takes, PushEnd!CarriedOut
  <1>2. id \in SyncIds
    BY <1>1, CurrentIs
  <1> HIDE DEF id
  <1>3. id = PushEnd!Current(p)
    BY DEF id
  <1>4. effects' # effects
    BY <1>1, <1>2 DEF PushInv, PushTypes
  <1>5. change[id] \notin SentOnce
    BY <1>1 DEF SentOnce
  <1>6. PICK verdict \in {"accepted", "unheard"} : push' = Noting(p, verdict)
    BY ReportIs DEF PushEnd!DeleteWallet
  <1>7. verdict \in Verdicts
    BY DEF Verdicts
  <1>8. QED
    BY <1>1, <1>3, <1>4, <1>5, <1>6, <1>7, VerdictKeeps DEF SentOnce

LEMMA PushWrites ==
  ASSUME PushInv, NEW p \in Pushes,
         \/ PushEnd!CreateGoal(p) \/ PushEnd!UpdateGoal(p) \/ PushEnd!UpsertBudget(p)
         \/ PushEnd!CreateWallet(p) \/ PushEnd!UpdateName(p)
  PROVE  PushInv'
  <1> DEFINE id == PushEnd!Current(p)
  <1>1. /\ push[p].pc = "change" /\ id \notin push[p].seen
        /\ change[id] \notin SentOnce
        /\ PushEnd!Reported(p) /\ UNCHANGED <<change, credit, rows, there>>
        /\ effects' = [effects EXCEPT ![p][id] = @ + 1]
    BY DEF PushEnd!CreateGoal, PushEnd!UpdateGoal, PushEnd!UpsertBudget,
           PushEnd!CreateWallet, PushEnd!UpdateName, PushEnd!Written, PushEnd!Takes,
           PushEnd!CarriedOut, SentOnce
  <1>2. id \in SyncIds
    BY <1>1, CurrentIs
  <1> HIDE DEF id
  <1>3. id = PushEnd!Current(p)
    BY DEF id
  <1>4. effects' # effects
    BY <1>1, <1>2 DEF PushInv, PushTypes
  <1>5. PICK verdict \in {"accepted", "unheard"} : push' = Noting(p, verdict)
    BY <1>1, ReportIs
  <1>6. verdict \in Verdicts
    BY DEF Verdicts
  <1>7. QED
    BY <1>1, <1>3, <1>4, <1>5, <1>6, VerdictKeeps DEF SentOnce

(* An insertion whose answer is lost is a conflict; else it is not judged   *)
(* yet.                                                                     *)
LEMMA PushInsertsUnheard ==
  ASSUME PushInv, NEW p \in Pushes, PushEnd!InsertContribution(p),
         push' = PushEnd!Unheard(p)
  PROVE  PushInv'
  <1> DEFINE id == PushEnd!Current(p)
  <1>1. /\ push[p].pc = "change" /\ id \notin push[p].seen
        /\ change[id] = <<"contribute", "goal">>
        /\ UNCHANGED <<change, credit, rows, there>>
        /\ effects' = [effects EXCEPT ![p][id] = @ + 1]
    BY DEF PushEnd!InsertContribution, PushEnd!Takes, PushEnd!CarriedOut
  <1>2. id \in SyncIds
    BY <1>1, CurrentIs
  <1> HIDE DEF id
  <1>3. id = PushEnd!Current(p)
    BY DEF id
  <1>4. effects' # effects
    BY <1>1, <1>2 DEF PushInv, PushTypes
  <1>5. push' = Noting(p, "unheard") /\ "unheard" \in Verdicts
    BY DEF Noting, Verdicts
  <1>6. change[id] \notin SentOnce
    BY <1>1 DEF SentOnce
  <1>7. QED
    BY <1>1, <1>3, <1>4, <1>5, <1>6, VerdictKeeps DEF SentOnce

LEMMA PushInserts ==
  ASSUME PushInv, NEW p \in Pushes, PushEnd!InsertContribution(p),
         push' = [push EXCEPT ![p].pc = "contributed"]
  PROVE  PushInv'
  <1> DEFINE id == PushEnd!Current(p)
  <1>1. /\ push[p].pc = "change" /\ id \notin push[p].seen
        /\ change[id] = <<"contribute", "goal">>
        /\ push' = [push EXCEPT ![p].pc = "contributed"]
        /\ UNCHANGED <<change, credit, rows, there>>
        /\ effects' = [effects EXCEPT ![p][id] = @ + 1]
    BY DEF PushEnd!InsertContribution, PushEnd!Takes, PushEnd!CarriedOut
  <1>2. id \in SyncIds /\ push[p] \in PushType /\ push \in [Pushes -> PushType]
    BY <1>1, CurrentIs DEF PushInv, PushTypes
  <1>3. PushTypes /\ Marked /\ Alone /\ \A q \in Pushes : Progress(q) /\ Noted(q)
    BY DEF PushInv
  <1>4. change[id] \notin SentOnce
    BY <1>1 DEF SentOnce
  <1>5. /\ push' \in [Pushes -> PushType]
        /\ \A q \in Pushes : q # p => push'[q] = push[q]
        /\ push'[p] = [push[p] EXCEPT !.pc = "contributed"]
    <2>1. [push[p] EXCEPT !.pc = "contributed"] \in PushType
      BY <1>2 DEF PushType, PushStates
    <2>2. push' = [push EXCEPT ![p] = [push[p] EXCEPT !.pc = "contributed"]]
      BY <1>1, <1>2
    <2>3. QED
      BY <1>2, <2>1, <2>2
  <1>6. /\ push'[p].pc = "contributed" /\ push'[p].batch = push[p].batch
        /\ push'[p].at = push[p].at /\ push'[p].seen = push[p].seen
        /\ push'[p].accepted = push[p].accepted /\ push'[p].conflicts = push[p].conflicts
        /\ push'[p].unsure = push[p].unsure
    BY <1>2, <1>5 DEF PushType
  <1>7. UNCHANGED id
    BY <1>6 DEF PushEnd!Current
  <1>8. id = push[p].batch[push[p].at] /\ id = PushEnd!Current(p)
    BY DEF PushEnd!Current
  <1>9. \A q \in Pushes : q # p => (UNCHANGED PushEnd!Current(q))
    BY <1>5 DEF PushEnd!Current
  <1>10. effects[p][id] = 0
    <2>1. effects[p][id] \in {0, 1}
      BY <1>2, <1>3 DEF PushTypes
    <2>2. QED
      BY <1>1, <1>2, <1>3, <2>1 DEF Noted
  <1>11. /\ effects' \in [Pushes -> [SyncIds -> {0, 1}]]
         /\ effects'[p][id] = 1
         /\ \A q \in Pushes, i \in SyncIds : q # p \/ i # id => effects'[q][i] = effects[q][i]
    BY <1>1, <1>2, <1>3, <1>10, EffectIs, ZenonT(40)
  <1>12. PushTypes'
    BY <1>1, <1>3, <1>5, <1>11 DEF PushTypes
  <1>13. \A q \in Pushes : Progress(q)'
    <2>1. ASSUME NEW q \in Pushes, q # p
          PROVE  Progress(q)'
      BY <1>1, <1>3, <1>5, <2>1, ProgressStays
    <2>2. Progress(p)'
      BY <1>1, <1>3, <1>6, <1>7 DEF Progress
    <2>3. QED
      BY <2>1, <2>2
  <1>14. PushEnd!Current(p)' = id
    BY <1>7
  <1> HIDE DEF id
  <1>15. \A q \in Pushes : Noted(q)'
    <2>1. ASSUME NEW q \in Pushes, q # p
          PROVE  Noted(q)'
      BY <1>1, <1>3, <1>5, <1>9, <1>11, <2>1 DEF Noted, PushEnd!Current
    <2>2. Noted(p)'
      <3>1. \A i \in SyncIds : i # id /\ effects'[p][i] > 0 =>
              i \in push[p].seen
                /\ \/ i \in push[p].accepted \cup push[p].unsure
                   \/ change[i] = <<"contribute", "goal">>
        BY <1>1, <1>3, <1>11 DEF Noted
      <3>2. QED
        BY <1>1, <1>2, <1>6, <1>11, <1>14, <3>1 DEF Noted
    <2>3. QED
      BY <2>1, <2>2
  <1>16. \A q \in Pushes, i \in SyncIds : effects'[q][i] > 0 /\ i # id => effects[q][i] > 0
    BY <1>11
  <1>17. Marked'
    BY <1>1, <1>3, <1>4, <1>16 DEF Marked, SentOnce
  <1>18. Alone'
    BY <1>1, <1>3, <1>4, <1>16 DEF Alone
  <1>19. \A i \in SyncIds : CarriedOutBySome(i) => CarriedOutBySome(i)'
    BY <1>11 DEF CarriedOutBySome
  <1>20. \A i \in rows' : CarriedOutBySome(i)'
    BY <1>1, <1>3, <1>19 DEF PushInv, PushTypes
  <1>21. \A q \in Pushes : \A i \in push'[q].accepted : CarriedOutBySome(i)'
    BY <1>3, <1>5, <1>6, <1>19 DEF PushInv, PushTypes, PushType
  <1>22. QED
    BY <1>12, <1>13, <1>15, <1>17, <1>18, <1>20, <1>21 DEF PushInv

LEMMA PushSaves ==
  ASSUME PushInv, NEW p \in Pushes, PushEnd!UpdateSaved(p)
  PROVE  PushInv'
  <1> DEFINE id == PushEnd!Current(p)
  <1>1. PICK verdict \in Verdicts \ {"unheard"} : push' = Noting(p, verdict)
    BY DEF PushEnd!UpdateSaved, Noting, Verdicts
  <1>2. push[p].pc = "contributed" /\ UNCHANGED <<change, rows, credit, there, effects>>
    BY DEF PushEnd!UpdateSaved
  <1>3. CarriedOutBySome(id)
    BY <1>2 DEF PushInv, Noted, CarriedOutBySome
  <1> HIDE DEF id
  <1>4. id = PushEnd!Current(p)
    BY DEF id
  <1>5. QED
    BY <1>1, <1>2, <1>3, <1>4, VerdictKeeps

(* A step that changes nothing but how far one request is.                  *)
LEMMA PushTurns ==
  ASSUME PushInv, NEW p \in Pushes, NEW new \in PushType,
         push' = [push EXCEPT ![p] = new], UNCHANGED <<change, rows, credit, there, effects>>,
         new.seen = push[p].seen, new.accepted = push[p].accepted,
         new.unsure = push[p].unsure, Progress(p)', new.pc # "contributed", push[p].pc \in {"contributed", "lost"} => new.pc = "lost"
  PROVE  PushInv'
  <1>1. PushTypes /\ Marked /\ Alone /\ \A q \in Pushes : Progress(q) /\ Noted(q)
    BY DEF PushInv
  <1>2. /\ push' \in [Pushes -> PushType] /\ push'[p] = new
        /\ \A q \in Pushes : q # p => push'[q] = push[q]
    BY <1>1 DEF PushTypes
  <1>3. PushTypes'
    BY <1>1, <1>2 DEF PushTypes
  <1>4. \A q \in Pushes : Progress(q)' /\ Noted(q)'
    <2>1. ASSUME NEW q \in Pushes, q # p
          PROVE  Progress(q)' /\ Noted(q)'
      <3>1. UNCHANGED PushEnd!Current(q)
        BY <1>2, <2>1 DEF PushEnd!Current
      <3>2. Progress(q)'
        BY <1>1, <1>2, <2>1, ProgressStays
      <3>3. QED
        BY <1>1, <1>2, <2>1, <3>1, <3>2 DEF Noted
    <2>2. Noted(p)'
      <3>1. \A id \in SyncIds : effects[p][id] > 0 =>
              /\ id \in push[p].seen \/ push[p].pc \in {"contributed", "lost"}
              /\ \/ id \in push[p].accepted \cup push[p].unsure
                 \/ change[id] = <<"contribute", "goal">> \/ push[p].pc = "lost"
        BY <1>1 DEF Noted
      <3>2. push[p].pc = "lost" => new.pc = "lost"
        OBVIOUS
      <3>3. QED
        BY <1>2, <3>1, <3>2 DEF Noted
    <2>3. QED
      BY <2>1, <2>2
  <1>5. Marked' /\ Alone'
    BY <1>1 DEF Marked, Alone
  <1>6. \A i : CarriedOutBySome(i) => CarriedOutBySome(i)'
    BY DEF CarriedOutBySome
  <1>7. QED
    BY <1>2, <1>3, <1>4, <1>5, <1>6 DEF PushInv

LEMMA PushReceives ==
  ASSUME MaxChanges \in Nat, PushInv, NEW p \in Pushes, PushEnd!Receive(p)
  PROVE  PushInv'
  <1>1. push[p] \in PushType /\ push \in [Pushes -> PushType] /\ Progress(p)
    BY DEF PushInv, PushTypes
  <1>2. /\ push[p].pc = "idle" /\ push[p].seen = {}
        /\ UNCHANGED <<change, rows, credit, there, effects>>
    BY <1>1 DEF PushEnd!Receive, Progress
  <1>3. PICK batch \in PushEnd!Batches :
          push' = [push EXCEPT ![p] =
            IF PushEnd!Valid(batch) THEN [@ EXCEPT !.pc = "change", !.batch = batch, !.at = 1]
                                    ELSE [@ EXCEPT !.pc = "refused"]]
    BY DEF PushEnd!Receive
  <1>4. PICK n \in 0..(MaxChanges + 1) : batch \in [1..n -> SyncIds \cup {None}]
    BY <1>3 DEF PushEnd!Batches
  <1>5. batch \in Seq(SyncIds \cup {None}) /\ Len(batch) = n /\ DOMAIN batch = 1..n
    BY <1>4
  <1> DEFINE new == IF PushEnd!Valid(batch)
                      THEN [push[p] EXCEPT !.pc = "change", !.batch = batch, !.at = 1]
                      ELSE [push[p] EXCEPT !.pc = "refused"]
  <1>6. push' = [push EXCEPT ![p] = new]
    BY <1>1, <1>3
  <1>7. /\ new \in PushType /\ new.seen = push[p].seen /\ new.accepted = push[p].accepted
        /\ new.conflicts = push[p].conflicts /\ new.unsure = push[p].unsure
    BY <1>1, <1>5 DEF PushType, PushStates
  <1>8. \/ new.pc = "refused"
        \/ PushEnd!Valid(batch) /\ new.pc = "change" /\ new.batch = batch /\ new.at = 1
    BY <1>1 DEF PushType
  <1> HIDE DEF new
  <1>9. push'[p] = new
    BY <1>1, <1>6
  <1>10. Progress(p)'
    <2>1. CASE new.pc = "refused"
      BY <1>1, <1>7, <1>9, <2>1 DEF Progress
    <2>2. CASE PushEnd!Valid(batch) /\ new.pc = "change" /\ new.batch = batch /\ new.at = 1
      <3>1. new.at \in 1..Len(new.batch) /\ \A i \in 1..Len(new.batch) : new.batch[i] \in SyncIds
        BY <1>4, <1>5, <2>2 DEF PushEnd!Valid
      <3>2. new.seen = {new.batch[i] : i \in 1..(new.at - 1)}
        BY <1>2, <1>7, <2>2
      <3>3. QED
        BY <1>1, <1>7, <1>9, <2>2, <3>1, <3>2 DEF Progress
    <2>3. QED
      BY <1>8, <2>1, <2>2
  <1>11. QED
    BY <1>2, <1>6, <1>7, <1>8, <1>10, PushTurns

LEMMA PushLoses ==
  ASSUME PushInv, NEW p \in Pushes, PushEnd!Lose(p)
  PROVE  PushInv'
  <1>1. push[p] \in PushType /\ push \in [Pushes -> PushType] /\ Progress(p)
    BY DEF PushInv, PushTypes
  <1> DEFINE new == [push[p] EXCEPT !.pc = "lost", !.at = 1]
  <1>2. push' = [push EXCEPT ![p] = new] /\ UNCHANGED <<change, rows, credit, there, effects>>
    BY <1>1 DEF PushEnd!Lose
  <1>3. /\ new \in PushType /\ new.seen = push[p].seen /\ new.accepted = push[p].accepted
        /\ new.conflicts = push[p].conflicts /\ new.unsure = push[p].unsure
        /\ new.pc = "lost"
    BY <1>1 DEF PushType, PushStates
  <1> HIDE DEF new
  <1>4. push'[p] = new
    BY <1>1, <1>2
  <1>5. Progress(p)'
    BY <1>1, <1>3, <1>4 DEF Progress
  <1>6. QED
    BY <1>2, <1>3, <1>5, PushTurns

LEMMA PushInitially == PushEnd!Init => PushInv
  <1> SUFFICES ASSUME PushEnd!Init
               PROVE  PushInv
    OBVIOUS
  <1>1. \A p \in Pushes :
          push[p] = [pc |-> "idle", batch |-> <<>>, at |-> 1, seen |-> {},
                     accepted |-> {}, conflicts |-> {}, unsure |-> {}]
    BY DEF PushEnd!Init
  <1>2. PushTypes
    BY DEF PushEnd!Init, PushTypes, PushType, PushStates
  <1>3. \A p \in Pushes, id \in SyncIds : effects[p][id] = 0
    BY DEF PushEnd!Init
  <1>4. \A p \in Pushes : Progress(p) /\ Noted(p)
    BY <1>1, <1>3 DEF Progress, Noted
  <1>5. Marked /\ Alone
    BY <1>3 DEF Marked, Alone
  <1>6. QED
    BY <1>1, <1>2, <1>4, <1>5 DEF PushInv, PushEnd!Init

LEMMA PushSteps == MaxChanges \in Nat => (PushInv /\ [PushEnd!Next]_pushVars => PushInv')
  <1> SUFFICES ASSUME MaxChanges \in Nat, PushInv, [PushEnd!Next]_pushVars
               PROVE  PushInv'
    OBVIOUS
  <1>1. CASE UNCHANGED pushVars
    <2>1. UNCHANGED <<change, rows, there, push, effects>>
      BY <1>1 DEF pushVars
    <2>2. \A p \in Pushes : Progress(p) /\ Noted(p) => Progress(p)' /\ Noted(p)'
      BY <2>1 DEF Progress, Noted, PushEnd!Current
    <2>3. QED
      BY <2>1, <2>2 DEF PushInv, PushTypes, Marked, Alone, CarriedOutBySome
  <1>2. ASSUME NEW p \in Pushes, PushEnd!Push(p)
        PROVE  PushInv'
    <2>1. PushEnd!InsertContribution(p) => PushInv'
      BY PushInserts, PushInsertsUnheard DEF PushEnd!InsertContribution
    <2>2. QED
      BY <1>2, <2>1, PushReceives, PushRefusals, PushCreatesTransaction, PushDeletes,
         PushDeletesWallet, PushWrites, PushSaves, PushLoses DEF PushEnd!Push
  <1>3. QED
    BY <1>1, <1>2 DEF PushEnd!Next

LEMMA PushStepsAlone == [Next]_vars => [PushEnd!Next]_pushVars
  <1> SUFFICES ASSUME [Next]_vars
               PROVE  [PushEnd!Next]_pushVars
    OBVIOUS
  <1>1. CASE StepPush
    BY <1>1 DEF StepPush
  <1>2. CASE UNCHANGED vars
    BY <1>2 DEF vars
  <1>3. CASE Next /\ ~StepPush
    BY <1>3 DEF Next, StepBudgets, StepRates, StepPages, StepLimiter, StepLedger,
                StepGoals, StepPin, Others
  <1>4. QED
    BY <1>1, <1>2, <1>3

(* The pushes keep their invariant.                                         *)
THEOREM PushInvariant == Spec => []PushInv
  <1>1. Init => PushInv
    BY PushInitially DEF Init
  <1>2. PushInv /\ [Next]_vars => PushInv'
    BY PushAssumption, PushSteps, PushStepsAlone
  <1>3. QED
    BY <1>1, <1>2, PTL DEF Spec

LEMMA AtMostOne ==
  ASSUME NEW S, \A x, y \in S : x = y
  PROVE  Cardinality(S) <= 1
  <1>1. CASE S = {}
    BY <1>1, FS_EmptySet
  <1>2. CASE S # {}
    <2>1. PICK x \in S : S = {x}
      BY <1>2
    <2>2. QED
      BY <2>1, FS_Singleton
  <1>3. QED
    BY <1>1, <1>2

(* However often a batch names a change, and however often the batch is     *)
(* pushed, at once or again after an answer was lost, SyncService.Push      *)
(* carries the change out once in a request, and a creation or deletion of  *)
(* a transaction, and a deletion of a goal, in one request only.            *)
THEOREM ChangesCarriedOutOnce == Spec => []CarriedOutOnce
  <1>1. PushInv => CarriedOutOnce
    <2> SUFFICES ASSUME PushInv
                 PROVE  CarriedOutOnce
      OBVIOUS
    <2>1. \A p \in Pushes, id \in SyncIds : effects[p][id] \in {0, 1}
      BY DEF PushInv, PushTypes
    <2>2. ASSUME NEW id \in SyncIds, change[id] \in SentOnce
          PROVE  Cardinality(PushEnd!CarriersOf(id)) <= 1
      <3>1. \A p, q \in PushEnd!CarriersOf(id) : p = q
        BY <2>2 DEF PushInv, Alone, PushEnd!CarriersOf
      <3>2. QED
        BY <3>1, AtMostOne
    <2>3. \A id \in SyncIds :
            change[id] \in SentOnce => PushEnd!Cardinality(PushEnd!CarriersOf(id)) <= 1
      BY <2>2 DEF Cardinality, PushEnd!Cardinality
    <2>4. QED
      BY <2>1, <2>3 DEF CarriedOutOnce, PushEnd!CarriedOutOnce, SentOnce
  <1>2. QED
    BY <1>1, PushInvariant, PTL

(* What the answer to a push tells the device is true: what it calls        *)
(* accepted was carried out, and what it calls a conflict was not by this   *)
(* request, but for a contribution inserted before its goal's update failed *)
(* and a change that took effect while the database's answer was lost.      *)
THEOREM PushAnswersTell == Spec => []AnswersTell
  <1>1. PushInv => AnswersTell
    <2> SUFFICES ASSUME PushInv, NEW p \in Pushes, push[p].pc = "answered",
                        NEW i \in DOMAIN push[p].batch
                 PROVE  LET id == push[p].batch[i]
                        IN IF id \in push[p].accepted
                             THEN PushEnd!CarriersOf(id) # {}
                             ELSE /\ id \in push[p].conflicts
                                  /\ \/ effects[p][id] = 0
                                     \/ change[id] = <<"contribute", "goal">>
                                     \/ id \in push[p].unsure
      BY DEF AnswersTell, PushEnd!AnswersTell
    <2> DEFINE id == push[p].batch[i]
    <2>1. push[p] \in PushType /\ Progress(p) /\ Noted(p)
      BY DEF PushInv, PushTypes
    <2>2. i \in 1..Len(push[p].batch)
      BY <2>1 DEF PushType
    <2>3. id \in push[p].seen /\ push[p].seen = push[p].accepted \cup push[p].conflicts
      BY <2>1, <2>2 DEF Progress
    <2>4. id \in SyncIds
      BY <2>1, <2>3 DEF PushType
    <2>5. id \in push[p].accepted => PushEnd!CarriersOf(id) # {}
      BY DEF PushInv, CarriedOutBySome, PushEnd!CarriersOf
    <2>6. effects[p][id] \in {0, 1}
      BY <2>4 DEF PushInv, PushTypes
    <2>7. \/ effects[p][id] = 0
          \/ id \in push[p].accepted \/ id \in push[p].unsure
          \/ change[id] = <<"contribute", "goal">>
      BY <2>1, <2>4, <2>6 DEF Noted
    <2>8. QED
      BY <2>3, <2>5, <2>7
  <1>2. QED
    BY <1>1, PushInvariant, PTL
=============================================================================

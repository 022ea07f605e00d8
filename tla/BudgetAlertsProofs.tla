------------------------- MODULE BudgetAlertsProofs -------------------------
(***************************************************************************)
(* Proofs about BudgetAlerts, for any number of status requests, budgets   *)
(* and transactions: what the service remembers as reported was reported,  *)
(* an undisturbed request leaves nothing unreported, and requests that     *)
(* come one at a time report 80 percent once.                              *)
(***************************************************************************)
EXTENDS BudgetAlerts, WellFoundedInduction, TLAPS

-----------------------------------------------------------------------------
(* The least element that Min names is there.                               *)

LEMMA LeastNumber ==
  ASSUME NEW S, S \subseteq Nat, S # {}
  PROVE  /\ Min(S) \in S
         /\ \A y \in S : Min(S) <= y
  <1>1. PICK x \in S : \A y \in S : ~ (<<y, x>> \in OpToRel(<, Nat))
    BY NatLessThanWellFounded, WFMin
  <1>2. \A y \in S : y \in Nat /\ x \in Nat /\ ~ (y < x)
    BY <1>1 DEF OpToRel
  <1>3. \A y \in S : x <= y
    BY <1>2
  <1>4. QED
    BY <1>3 DEF Min

-----------------------------------------------------------------------------
(* The invariant.  A request that reports a budget carries the threshold up *)
(* to which it is reported, first as `previous' and at the end as the       *)
(* threshold it stores; nothing but a restart takes a report back, and a    *)
(* restart ends every request and forgets every threshold.                  *)

Levels == {0} \cup Thresholds

Read == [pc : {"idle", "sum", "check", "emit", "store", "done"},
         todo : SUBSET Categories, amounts : [Categories -> BudgetAmounts \cup {None}],
         threshold : Levels, previous : Levels, fresh : BOOLEAN,
         answer : {"none", "ok", "failed"}]

Reported(c, n) == \A th \in Thresholds : th <= n => emitted[c][th] > 0

AlertTypes ==
  /\ budgets \in [Categories -> BudgetAmounts \cup {None}]
  /\ lastEmitted \in [Categories -> Levels]
  /\ emitted \in [Categories -> [Thresholds -> Nat]]
  /\ reads \in [StatusReads -> Read]

ReadReported(r) ==
  /\ reads[r].pc \in {"sum", "check", "emit", "store"} => reads[r].todo # {}
  /\ reads[r].pc = "emit" => Reported(Current(r), reads[r].previous)
  /\ reads[r].pc = "store" => Reported(Current(r), reads[r].threshold)

AlertInv ==
  /\ AlertTypes
  /\ \A c \in Categories : Reported(c, lastEmitted[c])
  /\ \A r \in StatusReads : ReadReported(r)

LEMMA CurrentBudget ==
  ASSUME Categories \subseteq Nat, NEW r \in StatusReads,
         reads[r].todo \subseteq Categories, reads[r].todo # {}
  PROVE  Current(r) \in Categories
  <1>1. reads[r].todo \subseteq Nat
    OBVIOUS
  <1>2. Min(reads[r].todo) \in reads[r].todo
    BY <1>1, LeastNumber
  <1>3. QED
    BY <1>2 DEF Current

LEMMA ThresholdIsLevel ==
  ASSUME NEW a, NEW s
  PROVE  ThresholdOf(a, s) \in Levels
  BY DEF ThresholdOf, Levels, Thresholds

(* Both ways on from a budget keep the type of the request and need nothing *)
(* reported.                                                                *)
LEMMA FinishedFacts ==
  ASSUME NEW rd \in Read, NEW a \in {"ok", "failed"}, None \in BudgetAmounts \cup {None}
  PROVE  Finished(rd, a) \in Read /\ Finished(rd, a).pc = "done"
  BY DEF Finished, Read, Levels

LEMMA FollowingFacts ==
  ASSUME NEW r \in StatusReads, reads[r] \in Read
  PROVE  /\ Following(r) \in Read
         /\ Following(r).pc \in {"done", "sum"}
         /\ Following(r).pc = "sum" => Following(r).todo # {}
  <1> DEFINE rest == reads[r].todo \ {Current(r)}
  <1>1. CASE rest = {}
    BY <1>1, FinishedFacts DEF Following
  <1>2. CASE rest # {}
    <2>1. Following(r) = [reads[r] EXCEPT !.pc = "sum", !.todo = rest]
      BY <1>2 DEF Following
    <2>2. rest \in SUBSET Categories
      BY DEF Read
    <2> HIDE DEF rest
    <2>3. QED
      BY <1>2, <2>1, <2>2 DEF Read
  <1>3. QED
    BY <1>1, <1>2

(* A request that changes, with nothing else the invariant speaks of.       *)
LEMMA OneReadChanges ==
  ASSUME AlertInv, NEW r \in StatusReads, NEW rd \in Read,
         reads' = [reads EXCEPT ![r] = rd],
         UNCHANGED <<budgets, lastEmitted, emitted>>,
         rd.pc \in {"sum", "check", "emit", "store"} => rd.todo # {},
         rd.pc = "emit" => Reported(Min(rd.todo), rd.previous),
         rd.pc = "store" => Reported(Min(rd.todo), rd.threshold)
  PROVE  AlertInv'
  <1>1. AlertTypes'
    BY DEF AlertInv, AlertTypes
  <1>2. \A c \in Categories : Reported(c, lastEmitted[c])'
    BY DEF AlertInv, Reported
  <1>3. ASSUME NEW o \in StatusReads
        PROVE  ReadReported(o)'
    <2>1. CASE o = r
      <3>1. reads'[o] = rd
        BY <2>1 DEF AlertInv, AlertTypes
      <3>2. Current(o)' = Min(rd.todo)
        BY <3>1 DEF Current
      <3>3. QED
        BY <3>1, <3>2 DEF ReadReported, Reported
    <2>2. CASE o # r
      <3>1. reads'[o] = reads[o] /\ Current(o)' = Current(o)
        BY <2>2 DEF AlertInv, AlertTypes, Current
      <3>2. QED
        BY <3>1 DEF AlertInv, ReadReported, Reported
    <2>3. QED
      BY <2>1, <2>2
  <1>4. QED
    BY <1>1, <1>2, <1>3 DEF AlertInv

(* The ledger or a budget changes: the requests only grow stale.            *)
LEMMA ReadsGrowStale ==
  ASSUME AlertInv, reads' = Outdated(reads), UNCHANGED <<lastEmitted, emitted>>,
         budgets' \in [Categories -> BudgetAmounts \cup {None}]
  PROVE  AlertInv'
  <1>1. \A r \in StatusReads :
          /\ reads'[r] \in Read
          /\ reads'[r].pc = reads[r].pc /\ reads'[r].todo = reads[r].todo
          /\ reads'[r].previous = reads[r].previous
          /\ reads'[r].threshold = reads[r].threshold
    BY ZenonT(40) DEF AlertInv, AlertTypes, Outdated, Read
  <1>2. AlertTypes'
    BY <1>1 DEF AlertInv, AlertTypes, Outdated
  <1>3. \A c \in Categories : Reported(c, lastEmitted[c])'
    BY DEF AlertInv, Reported
  <1>4. ASSUME NEW r \in StatusReads
        PROVE  ReadReported(r)'
    <2>1. Current(r)' = Current(r)
      BY <1>1 DEF Current
    <2>2. QED
      BY <1>1, <2>1 DEF AlertInv, ReadReported, Reported
  <1>5. QED
    BY <1>2, <1>3, <1>4 DEF AlertInv

-----------------------------------------------------------------------------
(* Every action.                                                            *)

LEMMA RequestBegins ==
  ASSUME AlertInv, NEW r \in StatusReads, ListBudgets(r)
  PROVE  AlertInv'
  <1> DEFINE listed == {c \in Categories : budgets[c] # None}
             rd == [Unread EXCEPT !.pc = "sum", !.todo = listed, !.amounts = budgets,
                                  !.fresh = TRUE]
  <1>1. Unread \in Read
    BY DEF Unread, Read, Levels
  <1>2. listed \in SUBSET Categories /\ budgets \in [Categories -> BudgetAmounts \cup {None}]
    BY DEF AlertInv, AlertTypes
  <1>3. rd \in Read /\ rd.pc = "sum" /\ rd.todo = listed
    <2> HIDE DEF listed
    <2>1. QED
      BY <1>1, <1>2 DEF Read
  <1>4. Finished(rd, "ok") \in Read /\ Finished(rd, "ok").pc = "done"
    BY <1>3, FinishedFacts
  <1>5. /\ reads' = [reads EXCEPT ![r] = IF listed = {} THEN Finished(rd, "ok") ELSE rd]
        /\ UNCHANGED <<budgets, lastEmitted, emitted>>
    BY DEF ListBudgets
  <1> HIDE DEF rd, listed
  <1>6. CASE listed = {}
    BY <1>4, <1>5, <1>6, OneReadChanges
  <1>7. CASE listed # {}
    BY <1>3, <1>5, <1>7, OneReadChanges
  <1>8. QED
    BY <1>6, <1>7

LEMMA BudgetIsSummed ==
  ASSUME AlertInv, NEW r \in StatusReads, SumSpent(r)
  PROVE  AlertInv'
  <1> DEFINE reached == ThresholdOf(reads[r].amounts[Current(r)], Spent(Current(r)))
             rd == [reads[r] EXCEPT !.pc = "check", !.threshold = reached]
  <1>1. reads[r] \in Read /\ reads[r].todo # {}
    BY DEF AlertInv, AlertTypes, ReadReported, SumSpent
  <1>2. reached \in Levels
    BY ThresholdIsLevel
  <1>3. rd \in Read /\ rd.pc = "check" /\ rd.todo = reads[r].todo
    <2> HIDE DEF reached
    <2>1. QED
      BY <1>1, <1>2 DEF Read
  <1>4. /\ reads' = [reads EXCEPT ![r] = IF reached = 0 THEN Following(r) ELSE rd]
        /\ UNCHANGED <<budgets, lastEmitted, emitted>>
    BY DEF SumSpent, AlertInv, AlertTypes
  <1>5. /\ Following(r) \in Read /\ Following(r).pc \in {"done", "sum"}
        /\ Following(r).pc = "sum" => Following(r).todo # {}
    BY <1>1, FollowingFacts
  <1> HIDE DEF rd, reached
  <1>6. CASE reached = 0
    BY <1>4, <1>5, <1>6, OneReadChanges
  <1>7. CASE reached # 0
    BY <1>1, <1>3, <1>4, <1>7, OneReadChanges
  <1>8. QED
    BY <1>6, <1>7

(* What is remembered of a budget is reported, so a request may rely on it. *)
LEMMA ThresholdIsRead ==
  ASSUME AlertInv, Categories \subseteq Nat, NEW r \in StatusReads, ReadLastEmitted(r)
  PROVE  AlertInv'
  <1> DEFINE last == lastEmitted[Current(r)]
             rd == [reads[r] EXCEPT !.pc = "emit", !.previous = last]
  <1>1. reads[r] \in Read /\ reads[r].todo # {} /\ reads[r].todo \subseteq Categories
    BY DEF AlertInv, AlertTypes, ReadReported, ReadLastEmitted, Read
  <1>2. Current(r) \in Categories
    BY <1>1, CurrentBudget
  <1>3. last \in Levels /\ Reported(Current(r), last)
    BY <1>2 DEF AlertInv, AlertTypes
  <1>4. reads' = [reads EXCEPT ![r] = rd] /\ UNCHANGED <<budgets, lastEmitted, emitted>>
    BY DEF ReadLastEmitted, AlertInv, AlertTypes
  <1>5. rd \in Read /\ rd.pc = "emit" /\ rd.todo = reads[r].todo /\ rd.previous = last
    <2> HIDE DEF last
    <2>1. QED
      BY <1>1, <1>3 DEF Read
  <1>6. Reported(Min(rd.todo), rd.previous)
    BY <1>3, <1>5 DEF Current
  <1> HIDE DEF rd, last
  <1>7. QED
    BY <1>1, <1>4, <1>5, <1>6, OneReadChanges

(* One more event: the lowest threshold that is due, so that none below it  *)
(* is left out.                                                             *)
LEMMA EventIsEmitted ==
  ASSUME AlertInv, Categories \subseteq Nat, NEW r \in StatusReads, NEW th \in Thresholds,
         reads[r].pc = "emit",
         \A l \in Thresholds : l < th => l <= reads[r].previous,
         emitted' = [emitted EXCEPT ![Current(r)][th] = Min({@ + 1, 2})],
         reads' = [reads EXCEPT ![r].previous = th],
         UNCHANGED <<budgets, lastEmitted>>
  PROVE  AlertInv'
  <1> DEFINE c == Current(r)
             n == Min({emitted[c][th] + 1, 2})
             rd == [reads[r] EXCEPT !.previous = th]
  <1>1. /\ reads[r] \in Read /\ reads[r].todo # {} /\ reads[r].todo \subseteq Categories
        /\ Reported(c, reads[r].previous)
    BY DEF AlertInv, AlertTypes, ReadReported, Read
  <1>2. c \in Categories
    BY <1>1, CurrentBudget
  <1>3. emitted[c][th] \in Nat
    BY <1>2 DEF AlertInv, AlertTypes
  <1>4. n \in {emitted[c][th] + 1, 2}
    BY <1>3, LeastNumber
  <1>5. n \in Nat /\ n > 0
    BY <1>3, <1>4
  <1>6. emitted' = [emitted EXCEPT ![c] = [emitted[c] EXCEPT ![th] = n]]
    BY DEF n
  <1> HIDE DEF n
  <1>7. /\ emitted' \in [Categories -> [Thresholds -> Nat]]
        /\ emitted'[c][th] > 0
        /\ \A b \in Categories, l \in Thresholds : emitted[b][l] > 0 => emitted'[b][l] > 0
    <2> DEFINE counts == [emitted[c] EXCEPT ![th] = n]
    <2>1. emitted \in [Categories -> [Thresholds -> Nat]] /\ emitted[c] \in [Thresholds -> Nat]
      BY <1>2 DEF AlertInv, AlertTypes
    <2>2. /\ counts \in [Thresholds -> Nat]
          /\ counts[th] > 0
          /\ \A l \in Thresholds : emitted[c][l] > 0 => counts[l] > 0
      BY <1>5, <2>1
    <2> HIDE DEF counts, c
    <2>3. emitted' = [emitted EXCEPT ![c] = counts]
      BY <1>6 DEF counts
    <2>4. QED
      BY <1>2, <2>1, <2>2, <2>3
  <1>8. rd \in Read /\ rd.pc = "emit" /\ rd.todo = reads[r].todo /\ rd.previous = th
    BY <1>1 DEF Read, Levels
  <1>9. reads' = [reads EXCEPT ![r] = rd]
    BY DEF AlertInv, AlertTypes
  <1>10. \A l \in Thresholds : l <= th => emitted'[c][l] > 0
    <2> SUFFICES ASSUME NEW l \in Thresholds, l <= th
                 PROVE  emitted'[c][l] > 0
      OBVIOUS
    <2>1. l = th \/ l < th
      BY DEF Thresholds
    <2>2. CASE l < th
      BY <1>1, <1>2, <1>7, <2>2 DEF Reported
    <2>3. QED
      BY <1>7, <2>1, <2>2
  <1> HIDE DEF rd, c
  <1>11. AlertTypes'
    BY <1>7, <1>8, <1>9, ZenonT(40) DEF AlertInv, AlertTypes
  <1>12. \A b \in Categories : Reported(b, lastEmitted[b])'
    BY <1>7 DEF AlertInv, Reported
  <1>13. ASSUME NEW o \in StatusReads
         PROVE  ReadReported(o)'
    <2>1. CASE o = r
      <3>1. reads'[o] = rd /\ Current(o)' = c
        BY <1>8, <1>9, <2>1 DEF AlertInv, AlertTypes, Current, c
      <3>2. QED
        BY <1>1, <1>8, <1>10, <3>1 DEF ReadReported, Reported
    <2>2. CASE o # r
      <3>1. reads'[o] = reads[o] /\ Current(o)' = Current(o)
        BY <1>9, <2>2 DEF AlertInv, AlertTypes, Current
      <3>2. reads[o] \in Read /\ ReadReported(o)
        BY DEF AlertInv, AlertTypes
      <3>3. reads[o].pc \in {"emit", "store"} => Current(o) \in Categories
        BY <3>2, CurrentBudget DEF ReadReported, Read
      <3>4. QED
        BY <1>7, <3>1, <3>2, <3>3 DEF ReadReported, Reported
    <2>3. QED
      BY <2>1, <2>2
  <1>14. QED
    BY <1>11, <1>12, <1>13 DEF AlertInv

LEMMA BudgetIsReported ==
  ASSUME AlertInv, Categories \subseteq Nat, NEW r \in StatusReads, Emit(r)
  PROVE  AlertInv'
  <1> DEFINE due == {th \in Thresholds : reads[r].previous < th /\ th <= reads[r].threshold}
             stored == [reads[r] EXCEPT !.pc = "store"]
  <1>1. /\ reads[r] \in Read /\ reads[r].pc = "emit" /\ reads[r].todo # {}
        /\ Reported(Current(r), reads[r].previous)
    BY DEF AlertInv, AlertTypes, ReadReported, Emit
  <1>2. reads[r].previous \in Nat /\ reads[r].threshold \in Nat /\ Thresholds \subseteq Nat
    BY <1>1 DEF Read, Levels, Thresholds
  <1>3. CASE due = {}
    <2>1. /\ reads' = [reads EXCEPT ![r] = stored]
          /\ UNCHANGED <<budgets, lastEmitted, emitted>>
      BY <1>3 DEF Emit, AlertInv, AlertTypes
    <2>2. ASSUME NEW th \in Thresholds, th <= reads[r].threshold
          PROVE  th <= reads[r].previous
      <3> DEFINE was == reads[r].previous
      <3>1. th \in Nat /\ was \in Nat
        BY <1>2
      <3>2. ~(was < th)
        BY <1>3, <2>2
      <3> HIDE DEF was
      <3>3. th <= was
        BY <3>1, <3>2
      <3>4. QED
        BY <3>3 DEF was
    <2>3. /\ stored \in Read /\ stored.pc = "store" /\ stored.todo = reads[r].todo
          /\ stored.threshold = reads[r].threshold
      BY <1>1 DEF Read
    <2>4. Reported(Min(stored.todo), stored.threshold)
      BY <1>1, <2>2, <2>3 DEF Reported, Current
    <2> HIDE DEF stored
    <2>5. QED
      BY <1>1, <2>1, <2>3, <2>4, OneReadChanges
  <1>4. CASE due # {}
    <2>1. \/ /\ emitted' = [emitted EXCEPT ![Current(r)][Min(due)] = Min({@ + 1, 2})]
             /\ reads' = [reads EXCEPT ![r].previous = Min(due)]
          \/ /\ reads' = [reads EXCEPT ![r] = Finished(reads[r], "failed")]
             /\ UNCHANGED emitted
      BY <1>4 DEF Emit, AlertInv, AlertTypes
    <2>2. UNCHANGED <<budgets, lastEmitted>>
      BY DEF Emit
    <2>3. due \subseteq Nat /\ due \subseteq Thresholds
      BY <1>2
    <2>4. Min(due) \in due /\ \A l \in due : Min(due) <= l
      BY <1>4, <2>3, LeastNumber
    <2>5. \A l \in Thresholds : l < Min(due) => l <= reads[r].previous
      <3> DEFINE low == Min(due)
      <3>1. /\ low \in Nat /\ low <= reads[r].threshold
            /\ \A l \in Thresholds :
                 reads[r].previous < l /\ l <= reads[r].threshold => low <= l
        <4>1. low \in due /\ \A l \in due : low <= l
          BY <2>4
        <4> HIDE DEF low
        <4>2. low \in Nat /\ low <= reads[r].threshold
          BY <2>3, <4>1
        <4>3. \A l \in Thresholds :
                reads[r].previous < l /\ l <= reads[r].threshold => l \in due
          OBVIOUS
        <4>4. QED
          BY <4>1, <4>2, <4>3
      <3> HIDE DEF low
      <3>2. ASSUME NEW l \in Thresholds, l < low
            PROVE  l <= reads[r].previous
        <4> DEFINE was == reads[r].previous
                   up == reads[r].threshold
        <4>1. was \in Nat /\ up \in Nat /\ l \in Nat
          BY <1>2
        <4>2. low \in Nat /\ low <= up /\ (was < l /\ l <= up => low <= l)
          BY <3>1
        <4> HIDE DEF was, up
        <4>3. l <= was
          BY <3>2, <4>1, <4>2
        <4>4. QED
          BY <4>3 DEF was
      <3>3. QED
        BY <3>2 DEF low
    <2>6. Min(due) \in Thresholds
      BY <2>3, <2>4
    <2>7. Finished(reads[r], "failed") \in Read /\ Finished(reads[r], "failed").pc = "done"
      BY <1>1, FinishedFacts
    <2> HIDE DEF due
    <2>8. CASE emitted' = emitted /\ reads' = [reads EXCEPT ![r] = Finished(reads[r], "failed")]
      BY <2>2, <2>7, <2>8, OneReadChanges
    <2>9. CASE /\ emitted' = [emitted EXCEPT ![Current(r)][Min(due)] = Min({@ + 1, 2})]
               /\ reads' = [reads EXCEPT ![r].previous = Min(due)]
      BY <1>1, <2>2, <2>5, <2>6, <2>9, EventIsEmitted
    <2>10. QED
      BY <2>1, <2>8, <2>9
  <1>5. QED
    BY <1>3, <1>4

(* The threshold is remembered after all its events were emitted.           *)
LEMMA ThresholdIsStored ==
  ASSUME AlertInv, NEW r \in StatusReads, StoreLastEmitted(r)
  PROVE  AlertInv'
  <1>1. /\ reads[r] \in Read /\ reads[r].pc = "store" /\ reads[r].todo # {}
        /\ Reported(Current(r), reads[r].threshold)
        /\ reads[r].threshold \in Levels
    BY DEF AlertInv, AlertTypes, ReadReported, StoreLastEmitted, Read
  <1>2. /\ Following(r) \in Read /\ Following(r).pc \in {"done", "sum"}
        /\ Following(r).pc = "sum" => Following(r).todo # {}
    BY <1>1, FollowingFacts
  <1>3. /\ lastEmitted' = [lastEmitted EXCEPT ![Current(r)] = reads[r].threshold]
        /\ reads' = [reads EXCEPT ![r] = Following(r)]
        /\ UNCHANGED <<budgets, emitted>>
    BY DEF StoreLastEmitted
  <1>4. AlertTypes'
    BY <1>1, <1>2, <1>3 DEF AlertInv, AlertTypes
  <1>5. \A c \in Categories : Reported(c, lastEmitted[c])'
    BY <1>1, <1>3 DEF AlertInv, AlertTypes, Reported
  <1>6. ASSUME NEW o \in StatusReads
        PROVE  ReadReported(o)'
    <2>1. CASE o = r
      BY <1>2, <1>3, <2>1 DEF AlertInv, AlertTypes, ReadReported
    <2>2. CASE o # r
      <3>1. reads'[o] = reads[o] /\ Current(o)' = Current(o)
        BY <1>3, <2>2 DEF AlertInv, AlertTypes, Current
      <3>2. QED
        BY <1>3, <3>1 DEF AlertInv, ReadReported, Reported
    <2>3. QED
      BY <2>1, <2>2
  <1>7. QED
    BY <1>4, <1>5, <1>6 DEF AlertInv

LEMMA RequestFails ==
  ASSUME AlertInv, NEW r \in StatusReads, FailRead(r)
  PROVE  AlertInv'
  <1>1. Finished(reads[r], "failed") \in Read /\ Finished(reads[r], "failed").pc = "done"
    BY FinishedFacts DEF AlertInv, AlertTypes
  <1>2. /\ reads' = [reads EXCEPT ![r] = Finished(reads[r], "failed")]
        /\ UNCHANGED <<budgets, lastEmitted, emitted>>
    BY DEF FailRead, AlertInv, AlertTypes
  <1>3. QED
    BY <1>1, <1>2, OneReadChanges

LEMMA ServerRestarts ==
  ASSUME AlertInv, RestartServer
  PROVE  AlertInv'
  <1> DEFINE ended == [r \in StatusReads |->
               IF r \in OpenReads THEN Finished(reads[r], "failed") ELSE reads[r]]
  <1>1. \A r \in StatusReads : ended[r] \in Read /\ ended[r].pc \in {"idle", "done"}
    <2> SUFFICES ASSUME NEW r \in StatusReads
                 PROVE  ended[r] \in Read /\ ended[r].pc \in {"idle", "done"}
      OBVIOUS
    <2>1. reads[r] \in Read
      BY DEF AlertInv, AlertTypes
    <2>2. Finished(reads[r], "failed") \in Read /\ Finished(reads[r], "failed").pc = "done"
      BY <2>1, FinishedFacts
    <2>3. QED
      BY <2>1, <2>2 DEF OpenReads
  <1>2. reads' = Outdated(ended)
    BY DEF RestartServer
  <1> HIDE DEF ended
  <1>3. \A r \in StatusReads : reads'[r] \in Read /\ reads'[r].pc \in {"idle", "done"}
    BY <1>1, <1>2 DEF Outdated, Read
  <1>4. reads' \in [StatusReads -> Read]
    BY <1>2, <1>3 DEF Outdated
  <1>5. /\ lastEmitted' = [c \in Categories |-> 0]
        /\ emitted' = [c \in Categories |-> [th \in Thresholds |-> 0]]
        /\ budgets' = budgets
    BY DEF RestartServer
  <1>6. AlertTypes'
    BY <1>4, <1>5 DEF AlertInv, AlertTypes, Levels
  <1>7. \A c \in Categories : Reported(c, lastEmitted[c])'
    BY <1>5 DEF Reported, Thresholds
  <1>8. \A r \in StatusReads : ReadReported(r)'
    BY <1>3 DEF ReadReported
  <1>9. QED
    BY <1>6, <1>7, <1>8 DEF AlertInv

LEMMA InitAlerts == Init => AlertInv
  <1> SUFFICES ASSUME Init
               PROVE  AlertInv
    OBVIOUS
  <1>1. Unread \in Read /\ Unread.pc = "idle"
    BY DEF Unread, Read, Levels
  <1>2. AlertTypes
    BY <1>1 DEF Init, AlertTypes, Levels
  <1>3. \A c \in Categories : Reported(c, lastEmitted[c])
    BY DEF Init, Reported, Thresholds
  <1>4. \A r \in StatusReads : ReadReported(r)
    BY <1>1 DEF Init, ReadReported
  <1>5. QED
    BY <1>2, <1>3, <1>4 DEF AlertInv

LEMMA StepAlerts == Categories \subseteq Nat /\ AlertInv /\ [Next]_vars => AlertInv'
  <1> SUFFICES ASSUME Categories \subseteq Nat, AlertInv, [Next]_vars
               PROVE  AlertInv'
    OBVIOUS
  <1>1. CASE UNCHANGED vars
    BY <1>1 DEF vars, AlertInv, AlertTypes, Reported, ReadReported, Current
  <1>2. ASSUME NEW t \in Transactions, Record(t)
        PROVE  AlertInv'
    BY <1>2, ReadsGrowStale DEF Record, AlertInv, AlertTypes
  <1>3. ASSUME NEW c \in Categories, UpsertBudget(c)
        PROVE  AlertInv'
    <2>1. budgets' \in [Categories -> BudgetAmounts \cup {None}]
      BY <1>3 DEF UpsertBudget, Upserted, Requested, AlertInv, AlertTypes
    <2>2. QED
      BY <1>3, <2>1, ReadsGrowStale DEF UpsertBudget
  <1>4. ASSUME NEW r \in StatusReads, GetBudgetStatus(r)
        PROVE  AlertInv'
    BY <1>4, RequestBegins, BudgetIsSummed, ThresholdIsRead, BudgetIsReported,
       ThresholdIsStored, RequestFails DEF GetBudgetStatus
  <1>5. CASE RestartServer
    BY <1>5, ServerRestarts
  <1>6. QED
    BY <1>1, <1>2, <1>3, <1>4, <1>5 DEF Next

-----------------------------------------------------------------------------
(* A threshold that is remembered as reported was reported by this process, *)
(* with those below it: with any number of requests between the two locks,  *)
(* with emitters that fail between two events, budgets that are raised and  *)
(* transactions that are deleted meanwhile, and after every restart.        *)
THEOREM RememberedThresholds ==
  ASSUME Categories \subseteq Nat
  PROVE  Spec => []RememberedIsReported
  <1>1. Init => AlertInv
    BY InitAlerts
  <1>2. AlertInv /\ [Next]_vars => AlertInv'
    BY StepAlerts
  <1>3. AlertInv => RememberedIsReported
    BY DEF AlertInv, Reported, RememberedIsReported
  <1>4. QED
    BY <1>1, <1>2, <1>3, PTL DEF Spec

-----------------------------------------------------------------------------
(* No alert missed: what a request is done with is reported, as long as     *)
(* nothing changed since it began.                                          *)

Working == {"sum", "check", "emit", "store"}

Listed == {c \in Categories : budgets[c] # None}

Reached(c) == ThresholdOf(budgets[c], Spent(c))

Covered(c) == Reported(c, Reached(c))

ReadCovers(r) ==
  /\ reads[r].answer = "ok" => reads[r].pc = "done"
  /\ reads[r].pc = "idle" => ~reads[r].fresh
  /\ reads[r].fresh =>
       /\ reads[r].pc \in Working => /\ reads[r].amounts = budgets /\ reads[r].todo \subseteq Listed
                                     /\ \A c \in Listed \ reads[r].todo : Covered(c)
       /\ reads[r].pc \in {"check", "emit", "store"} =>
            \A c \in Categories : c = Current(r) => reads[r].threshold = Reached(c)
       /\ reads[r].answer = "ok" => \A c \in Listed : Covered(c)

CoverInv == \A r \in StatusReads : ReadCovers(r)

(* Once at most, if requests come one at a time: a threshold of 80 that was *)
(* emitted is remembered, or is about to be.                                *)
Remembers(c) ==
  \/ lastEmitted[c] >= 80
  \/ \E r \in StatusReads : /\ \/ reads[r].pc = "emit" /\ reads[r].previous >= 80
                               \/ reads[r].pc = "store"
                            /\ Current(r) = c

OnceInv ==
  calm =>
    /\ \A r, o \in OpenReads : r = o
    /\ \A c \in Categories : /\ emitted[c][80] <= 1
                             /\ emitted[c][80] > 0 => Remembers(c)
    /\ \A r \in StatusReads :
         /\ reads[r].pc \in {"check", "emit", "store"} => reads[r].threshold \in Thresholds
         /\ reads[r].pc = "emit" => reads[r].previous >= lastEmitted[Current(r)]

LEMMA SpentKept ==
  ASSUME recorded' = recorded, NEW c
  PROVE  Spent(c)' = Spent(c)
  BY DEF Spent, Counted, MapThenSumSet, MapThenFoldSet

(* A report is taken back by a restart only.                                *)
StaysReported ==
  \A c \in Categories, th \in Thresholds : emitted[c][th] > 0 => emitted'[c][th] > 0

LEMMA CoveredKept ==
  ASSUME StaysReported, UNCHANGED <<budgets, recorded>>, NEW c \in Categories
  PROVE  Reached(c)' = Reached(c) /\ (Covered(c) => Covered(c)')
  <1>1. Spent(c)' = Spent(c)
    BY SpentKept
  <1>2. Reached(c)' = Reached(c)
    BY <1>1 DEF Reached, ThresholdOf
  <1>3. QED
    BY <1>2 DEF StaysReported, Covered, Reported

(* The other requests keep what they cover when one goes on.                *)
LEMMA OneReadCovers ==
  ASSUME CoverInv, StaysReported, UNCHANGED <<budgets, recorded>>,
         NEW r \in StatusReads, \A o \in StatusReads \ {r} : reads'[o] = reads[o],
         ReadCovers(r)'
  PROVE  CoverInv'
  <1>1. ASSUME NEW o \in StatusReads \ {r}
        PROVE  ReadCovers(o)'
    <2>1. reads'[o] = reads[o] /\ Current(o)' = Current(o) /\ Listed' = Listed
      BY DEF Current, Listed
    <2>2. /\ \A c \in Listed : c \in Categories /\ (Covered(c) => Covered(c)')
          /\ \A c \in Categories : Reached(c)' = Reached(c)
      BY CoveredKept DEF Listed
    <2>3. QED
      BY <2>1, <2>2 DEF CoverInv, ReadCovers
  <1>2. QED
    BY <1>1 DEF CoverInv

LEMMA FinishedAnswers ==
  ASSUME NEW rd \in Read, NEW a \in {"ok", "failed"}
  PROVE  /\ Finished(rd, a).pc = "done" /\ Finished(rd, a).answer = a
         /\ Finished(rd, a).fresh = rd.fresh
  BY DEF Finished, Read

(* A request that is done with a budget.                                    *)
LEMMA FollowingCovers ==
  ASSUME NEW r \in StatusReads, reads[r] \in Read, ReadCovers(r), reads[r].pc \in Working,
         StaysReported, UNCHANGED <<budgets, recorded>>,
         reads' = [reads EXCEPT ![r] = Following(r)], reads \in [StatusReads -> Read],
         reads[r].fresh => \A c \in Listed : c = Current(r) => Covered(c)
  PROVE  ReadCovers(r)'
  <1> DEFINE rest == reads[r].todo \ {Current(r)}
             on == [reads[r] EXCEPT !.pc = "sum", !.todo = rest]
             all == Finished(reads[r], "ok")
  <1>1. reads'[r] = IF rest = {} THEN all ELSE on
    BY DEF Following
  <1>2. all.pc = "done" /\ all.answer = "ok" /\ all.fresh = reads[r].fresh
    BY FinishedAnswers
  <1>3. /\ on.pc = "sum" /\ on.todo = rest /\ on.amounts = reads[r].amounts
        /\ on.fresh = reads[r].fresh /\ on.answer = reads[r].answer
    <2> HIDE DEF rest
    <2>1. QED
      BY DEF Read
  <1>4. reads[r].answer # "ok"
    BY DEF ReadCovers, Working
  <1>5. Listed' = Listed /\ \A c \in Listed : Covered(c) => Covered(c)'
    BY CoveredKept DEF Listed
  <1>6. reads[r].fresh => /\ reads[r].amounts = budgets /\ rest \subseteq Listed
                          /\ \A c \in Listed \ rest : Covered(c)
    BY DEF ReadCovers
  <1> HIDE DEF rest, on, all
  <1>7. CASE rest = {}
    BY <1>1, <1>2, <1>5, <1>6, <1>7 DEF ReadCovers, Working
  <1>8. CASE rest # {}
    BY <1>1, <1>3, <1>4, <1>5, <1>6, <1>8 DEF ReadCovers, Working
  <1>9. QED
    BY <1>7, <1>8

LEMMA ListCovers ==
  ASSUME AlertInv, CoverInv, NEW r \in StatusReads, ListBudgets(r)
  PROVE  CoverInv'
  <1> DEFINE listed == {c \in Categories : budgets[c] # None}
             rd == [Unread EXCEPT !.pc = "sum", !.todo = listed, !.amounts = budgets,
                                  !.fresh = TRUE]
  <1>1. Unread \in Read /\ Unread.answer = "none"
    BY DEF Unread, Read, Levels
  <1>2. listed \in SUBSET Categories /\ budgets \in [Categories -> BudgetAmounts \cup {None}]
    BY DEF AlertInv, AlertTypes
  <1>3. /\ rd \in Read /\ rd.pc = "sum" /\ rd.todo = listed /\ rd.amounts = budgets
        /\ rd.fresh /\ rd.answer = "none"
    <2> HIDE DEF listed
    <2>1. QED
      BY <1>1, <1>2 DEF Read
  <1>4. /\ Finished(rd, "ok").pc = "done" /\ Finished(rd, "ok").answer = "ok"
    BY <1>3, FinishedAnswers
  <1>5. /\ reads' = [reads EXCEPT ![r] = IF listed = {} THEN Finished(rd, "ok") ELSE rd]
        /\ UNCHANGED <<budgets, recorded, emitted>> /\ reads \in [StatusReads -> Read]
        /\ listed = Listed'
    BY DEF ListBudgets, Listed, AlertInv, AlertTypes
  <1> HIDE DEF rd, listed
  <1>6. reads'[r] = IF listed = {} THEN Finished(rd, "ok") ELSE rd
    BY <1>5
  <1>7. ReadCovers(r)'
    BY <1>3, <1>4, <1>5, <1>6 DEF ReadCovers, Working
  <1>8. QED
    BY <1>5, <1>7, OneReadCovers DEF StaysReported

LEMMA NothingReached ==
  ASSUME NEW c, Reached(c) = 0
  PROVE  Covered(c)
  BY DEF Covered, Reported, Thresholds

LEMMA SumCovers ==
  ASSUME AlertInv, CoverInv, NEW r \in StatusReads, SumSpent(r)
  PROVE  CoverInv'
  <1> DEFINE reached == ThresholdOf(reads[r].amounts[Current(r)], Spent(Current(r)))
             rd == [reads[r] EXCEPT !.pc = "check", !.threshold = reached]
  <1>1. reads[r] \in Read /\ reads[r].pc = "sum" /\ ReadCovers(r) /\ reads \in [StatusReads -> Read]
    BY DEF AlertInv, AlertTypes, CoverInv, SumSpent
  <1>2. /\ rd.pc = "check" /\ rd.todo = reads[r].todo /\ rd.amounts = reads[r].amounts
        /\ rd.fresh = reads[r].fresh /\ rd.answer = reads[r].answer /\ rd.threshold = reached
    <2> HIDE DEF reached
    <2>1. QED
      BY <1>1 DEF Read
  <1>3. /\ reads' = [reads EXCEPT ![r] = IF reached = 0 THEN Following(r) ELSE rd]
        /\ UNCHANGED <<budgets, recorded, emitted>>
    BY DEF SumSpent, AlertInv, AlertTypes
  <1>4. reads[r].fresh => \A c \in Categories : c = Current(r) => reached = Reached(c)
    BY <1>1 DEF ReadCovers, Reached, Working
  <1>5. StaysReported
    BY <1>3 DEF StaysReported
  <1> HIDE DEF rd, reached
  <1>6. CASE reached = 0
    <2>1. reads[r].fresh => \A c \in Listed : c = Current(r) => Covered(c)
      BY <1>4, <1>6, NothingReached DEF Listed
    <2>2. ReadCovers(r)'
      BY <1>1, <1>3, <1>5, <1>6, <2>1, FollowingCovers DEF Working
    <2>3. QED
      BY <1>3, <1>5, <2>2, OneReadCovers
  <1>7. CASE reached # 0
    <2>1. reads'[r] = rd /\ Current(r)' = Current(r) /\ Listed' = Listed
      BY <1>1, <1>2, <1>3, <1>7 DEF Current, Listed
    <2>2. /\ \A c \in Listed : c \in Categories /\ (Covered(c) => Covered(c)')
          /\ \A c \in Categories : Reached(c)' = Reached(c)
      BY <1>3, <1>5, CoveredKept DEF Listed
    <2>3. reads'[r].answer # "ok" /\ reads'[r].pc = "check"
      BY <1>1, <1>2, <2>1 DEF ReadCovers
    <2>4. reads[r].fresh => /\ reads[r].amounts = budgets /\ reads[r].todo \subseteq Listed
                            /\ \A c \in Listed \ reads[r].todo : Covered(c)
      BY <1>1 DEF ReadCovers, Working
    <2>5. reads'[r].fresh =>
            /\ reads'[r].amounts = budgets' /\ reads'[r].todo \subseteq Listed'
            /\ \A c \in Listed' \ reads'[r].todo : Covered(c)'
            /\ \A c \in Categories : c = Current(r)' => reads'[r].threshold = Reached(c)'
      BY <1>2, <1>3, <1>4, <2>1, <2>2, <2>4
    <2>6. ReadCovers(r)'
      BY <2>3, <2>5 DEF ReadCovers
    <2>7. QED
      BY <1>1, <1>3, <1>5, <1>7, <2>6, OneReadCovers
  <1>8. QED
    BY <1>6, <1>7

(* Between the sum of a budget and the storing of its threshold a request   *)
(* keeps what it knows.                                                     *)
LEMMA BudgetGoesOn ==
  ASSUME AlertInv, CoverInv, NEW r \in StatusReads, NEW rd \in Read,
         reads[r].pc \in {"check", "emit"}, rd.pc \in {"emit", "store"},
         rd.todo = reads[r].todo, rd.amounts = reads[r].amounts, rd.fresh = reads[r].fresh,
         rd.answer = reads[r].answer, rd.threshold = reads[r].threshold,
         reads' = [reads EXCEPT ![r] = rd], UNCHANGED <<budgets, recorded>>, StaysReported
  PROVE  CoverInv'
  <1>1. reads \in [StatusReads -> Read] /\ ReadCovers(r)
    BY DEF AlertInv, AlertTypes, CoverInv
  <1>2. reads'[r] = rd /\ Current(r)' = Current(r) /\ Listed' = Listed
    BY <1>1 DEF Current, Listed
  <1>3. /\ \A c \in Listed : c \in Categories /\ (Covered(c) => Covered(c)')
        /\ \A c \in Categories : Reached(c)' = Reached(c)
    BY CoveredKept DEF Listed
  <1>4. ReadCovers(r)'
    BY <1>1, <1>2, <1>3 DEF ReadCovers, Working
  <1>5. QED
    BY <1>1, <1>4, OneReadCovers

LEMMA CheckCovers ==
  ASSUME AlertInv, CoverInv, NEW r \in StatusReads, ReadLastEmitted(r), Categories \subseteq Nat
  PROVE  CoverInv'
  <1> DEFINE last == lastEmitted[Current(r)]
             rd == [reads[r] EXCEPT !.pc = "emit", !.previous = last]
  <1>1. reads[r] \in Read /\ reads[r].todo # {} /\ reads[r].todo \subseteq Categories
    BY DEF AlertInv, AlertTypes, ReadReported, ReadLastEmitted, Read
  <1>2. last \in Levels
    BY <1>1, CurrentBudget DEF AlertInv, AlertTypes
  <1>3. reads' = [reads EXCEPT ![r] = rd] /\ UNCHANGED <<budgets, recorded, emitted>>
    BY DEF ReadLastEmitted, AlertInv, AlertTypes
  <1>4. /\ rd \in Read /\ rd.pc = "emit" /\ rd.todo = reads[r].todo
        /\ rd.amounts = reads[r].amounts /\ rd.fresh = reads[r].fresh
        /\ rd.answer = reads[r].answer /\ rd.threshold = reads[r].threshold
    <2> HIDE DEF last
    <2>1. QED
      BY <1>1, <1>2 DEF Read
  <1> HIDE DEF rd, last
  <1>5. QED
    BY <1>3, <1>4, BudgetGoesOn DEF ReadLastEmitted, StaysReported

LEMMA FailureCovers ==
  ASSUME AlertInv, CoverInv, NEW r \in StatusReads,
         reads' = [reads EXCEPT ![r] = Finished(reads[r], "failed")],
         UNCHANGED <<budgets, recorded, emitted>>
  PROVE  CoverInv'
  <1>1. reads \in [StatusReads -> Read] /\ reads[r] \in Read
    BY DEF AlertInv, AlertTypes
  <1>2. /\ reads'[r].pc = "done" /\ reads'[r].answer = "failed"
        /\ \A o \in StatusReads \ {r} : reads'[o] = reads[o]
    BY <1>1, FinishedAnswers
  <1>3. ReadCovers(r)'
    BY <1>2 DEF ReadCovers, Working
  <1>4. QED
    BY <1>2, <1>3, OneReadCovers DEF StaysReported

LEMMA StoreCovers ==
  ASSUME AlertInv, CoverInv, NEW r \in StatusReads, StoreLastEmitted(r)
  PROVE  CoverInv'
  <1>1. /\ reads \in [StatusReads -> Read] /\ reads[r] \in Read /\ reads[r].pc = "store"
        /\ ReadCovers(r) /\ Reported(Current(r), reads[r].threshold)
    BY DEF AlertInv, AlertTypes, ReadReported, CoverInv, StoreLastEmitted
  <1>2. /\ reads' = [reads EXCEPT ![r] = Following(r)]
        /\ UNCHANGED <<budgets, recorded, emitted>>
    BY DEF StoreLastEmitted
  <1>3. reads[r].fresh => \A c \in Listed : c = Current(r) => Covered(c)
    BY <1>1 DEF ReadCovers, Covered, Listed
  <1>4. StaysReported
    BY <1>2 DEF StaysReported
  <1>5. ReadCovers(r)'
    BY <1>1, <1>2, <1>3, <1>4, FollowingCovers DEF Working
  <1>6. QED
    BY <1>1, <1>2, <1>4, <1>5, OneReadCovers

(* An event counts for its budget and threshold only.                       *)
LEMMA EventCounts ==
  ASSUME AlertInv, NEW c \in Categories, NEW th \in Thresholds,
         emitted' = [emitted EXCEPT ![c][th] = Min({@ + 1, 2})]
  PROVE  /\ \A b \in Categories, l \in Thresholds :
              b # c \/ l # th => emitted'[b][l] = emitted[b][l]
         /\ emitted'[c][th] <= emitted[c][th] + 1 /\ emitted[c][th] \in Nat
         /\ emitted'[c][th] \in Nat
         /\ StaysReported
  <1> DEFINE n == Min({emitted[c][th] + 1, 2})
             counts == [emitted[c] EXCEPT ![th] = n]
  <1>1. emitted \in [Categories -> [Thresholds -> Nat]] /\ emitted[c] \in [Thresholds -> Nat]
    BY DEF AlertInv, AlertTypes
  <1>2. emitted[c][th] \in Nat
    BY <1>1
  <1>3. /\ n \in {emitted[c][th] + 1, 2}
        /\ \A y \in {emitted[c][th] + 1, 2} : n <= y
    BY <1>2, LeastNumber
  <1>4. n \in Nat /\ n > 0 /\ n <= emitted[c][th] + 1
    <2> HIDE DEF n
    <2>1. QED
      BY <1>2, <1>3
  <1>5. emitted' = [emitted EXCEPT ![c] = counts]
    OBVIOUS
  <1> HIDE DEF n
  <1>6. counts[th] = n /\ \A l \in Thresholds : l # th => counts[l] = emitted[c][l]
    BY <1>1
  <1> HIDE DEF counts
  <1>7. emitted'[c] = counts /\ \A b \in Categories : b # c => emitted'[b] = emitted[b]
    BY <1>1, <1>5
  <1>8. QED
    BY <1>2, <1>4, <1>6, <1>7 DEF StaysReported

(* What a step of Emit is.                                                  *)
LEMMA EmitIs ==
  ASSUME AlertInv, Categories \subseteq Nat, NEW r \in StatusReads, Emit(r)
  PROVE  /\ UNCHANGED <<budgets, recorded, lastEmitted>>
         /\ reads[r] \in Read /\ reads[r].pc = "emit" /\ Current(r) \in Categories
         /\ \/ /\ reads' = [reads EXCEPT ![r] = [reads[r] EXCEPT !.pc = "store"]]
               /\ UNCHANGED <<emitted, calm>>
               /\ \A th \in Thresholds : th <= reads[r].threshold => th <= reads[r].previous
            \/ \E th \in Thresholds :
                 /\ emitted' = [emitted EXCEPT ![Current(r)][th] = Min({@ + 1, 2})]
                 /\ reads' = [reads EXCEPT ![r] = [reads[r] EXCEPT !.previous = th]]
                 /\ reads[r].previous < th /\ UNCHANGED calm
            \/ /\ reads' = [reads EXCEPT ![r] = Finished(reads[r], "failed")]
               /\ UNCHANGED emitted /\ ~calm'
  <1> DEFINE due == {th \in Thresholds : reads[r].previous < th /\ th <= reads[r].threshold}
  <1>1. /\ reads \in [StatusReads -> Read] /\ reads[r] \in Read /\ reads[r].pc = "emit"
        /\ reads[r].todo # {} /\ reads[r].todo \subseteq Categories
    BY DEF AlertInv, AlertTypes, ReadReported, Emit, Read
  <1>2. reads[r].previous \in Nat /\ reads[r].threshold \in Nat /\ Thresholds \subseteq Nat
    BY <1>1 DEF Read, Levels, Thresholds
  <1>3. Current(r) \in Categories
    BY <1>1, CurrentBudget
  <1>4. UNCHANGED <<budgets, recorded, lastEmitted>>
    BY DEF Emit
  <1>5. CASE due = {}
    <2>1. reads' = [reads EXCEPT ![r] = [reads[r] EXCEPT !.pc = "store"]]
          /\ UNCHANGED <<emitted, calm>>
      BY <1>1, <1>5 DEF Emit
    <2>2. ASSUME NEW th \in Thresholds, th <= reads[r].threshold
          PROVE  th <= reads[r].previous
      <3> DEFINE was == reads[r].previous
      <3>1. th \in Nat /\ was \in Nat /\ ~(was < th)
        BY <1>2, <1>5, <2>2
      <3> HIDE DEF was
      <3>2. th <= was
        BY <3>1
      <3>3. QED
        BY <3>2 DEF was
    <2>3. QED
      BY <1>1, <1>3, <1>4, <2>1, <2>2
  <1>6. CASE due # {}
    <2>1. due \subseteq Nat /\ due \subseteq Thresholds
      BY <1>2
    <2>2. Min(due) \in due
      BY <1>6, <2>1, LeastNumber
    <2>3. Min(due) \in Thresholds /\ reads[r].previous < Min(due)
      <3> DEFINE low == Min(due)
      <3>1. low \in due
        BY <2>2
      <3> HIDE DEF low
      <3>2. low \in Thresholds /\ reads[r].previous < low
        BY <3>1
      <3>3. QED
        BY <3>2 DEF low
    <2>4. \/ /\ emitted' = [emitted EXCEPT ![Current(r)][Min(due)] = Min({@ + 1, 2})]
             /\ reads' = [reads EXCEPT ![r] = [reads[r] EXCEPT !.previous = Min(due)]]
             /\ UNCHANGED calm
          \/ /\ reads' = [reads EXCEPT ![r] = Finished(reads[r], "failed")]
             /\ UNCHANGED emitted /\ ~calm'
      BY <1>1, <1>6 DEF Emit
    <2> HIDE DEF due
    <2>5. QED
      BY <1>1, <1>3, <1>4, <2>3, <2>4
  <1>7. QED
    BY <1>5, <1>6

LEMMA EmitCovers ==
  ASSUME AlertInv, CoverInv, Categories \subseteq Nat, NEW r \in StatusReads, Emit(r)
  PROVE  CoverInv'
  <1>1. /\ reads[r] \in Read /\ reads[r].pc = "emit" /\ Current(r) \in Categories
        /\ UNCHANGED <<budgets, recorded>>
    BY EmitIs
  <1>2. ASSUME reads' = [reads EXCEPT ![r] = [reads[r] EXCEPT !.pc = "store"]], emitted' = emitted
        PROVE  CoverInv'
    <2> DEFINE rd == [reads[r] EXCEPT !.pc = "store"]
    <2>1. /\ rd \in Read /\ rd.pc = "store" /\ rd.todo = reads[r].todo
          /\ rd.amounts = reads[r].amounts /\ rd.fresh = reads[r].fresh
          /\ rd.answer = reads[r].answer /\ rd.threshold = reads[r].threshold
      BY <1>1 DEF Read
    <2>2. reads' = [reads EXCEPT ![r] = rd] /\ StaysReported
      BY <1>2 DEF StaysReported
    <2> HIDE DEF rd
    <2>3. QED
      BY <1>1, <2>1, <2>2, BudgetGoesOn
  <1>3. ASSUME NEW th \in Thresholds,
               emitted' = [emitted EXCEPT ![Current(r)][th] = Min({@ + 1, 2})],
               reads' = [reads EXCEPT ![r] = [reads[r] EXCEPT !.previous = th]]
        PROVE  CoverInv'
    <2> DEFINE rd == [reads[r] EXCEPT !.previous = th]
    <2>1. /\ rd \in Read /\ rd.pc = "emit" /\ rd.todo = reads[r].todo
          /\ rd.amounts = reads[r].amounts /\ rd.fresh = reads[r].fresh
          /\ rd.answer = reads[r].answer /\ rd.threshold = reads[r].threshold
      BY <1>1 DEF Read, Levels
    <2>2. reads' = [reads EXCEPT ![r] = rd] /\ StaysReported
      BY <1>1, <1>3, EventCounts
    <2> HIDE DEF rd
    <2>3. QED
      BY <1>1, <2>1, <2>2, BudgetGoesOn
  <1>4. QED
    BY <1>1, <1>2, <1>3, EmitIs, FailureCovers

LEMMA StepCovers ==
  Categories \subseteq Nat /\ AlertInv /\ CoverInv /\ [Next]_vars => CoverInv'
  <1> SUFFICES ASSUME Categories \subseteq Nat, AlertInv, CoverInv, [Next]_vars
               PROVE  CoverInv'
    OBVIOUS
  <1>1. CASE UNCHANGED vars
    <2>1. /\ Listed' = Listed /\ StaysReported /\ UNCHANGED <<budgets, recorded, reads>>
          /\ \A r \in StatusReads : Current(r)' = Current(r)
      BY <1>1 DEF vars, Listed, StaysReported, Current
    <2>2. /\ \A c \in Listed : c \in Categories /\ (Covered(c) => Covered(c)')
          /\ \A c \in Categories : Reached(c)' = Reached(c)
      BY <2>1, CoveredKept DEF Listed
    <2>3. QED
      BY <2>1, <2>2 DEF CoverInv, ReadCovers
  <1>2. ASSUME NEW rs \in [StatusReads -> Read], reads' = Outdated(rs),
               \A r \in StatusReads : /\ rs[r].answer = "ok" => rs[r].pc = "done"
        PROVE  CoverInv'
    <2>1. \A r \in StatusReads : /\ ~reads'[r].fresh /\ reads'[r].pc = rs[r].pc
                                 /\ reads'[r].answer = rs[r].answer
      BY <1>2 DEF Outdated, Read
    <2>2. QED
      BY <1>2, <2>1 DEF CoverInv, ReadCovers
  <1>3. ASSUME \/ \E t \in Transactions : Record(t)
               \/ \E c \in Categories : UpsertBudget(c)
        PROVE  CoverInv'
    <2>1. reads' = Outdated(reads)
      BY <1>3 DEF Record, UpsertBudget
    <2>2. reads \in [StatusReads -> Read]
      BY DEF AlertInv, AlertTypes
    <2>3. QED
      BY <1>2, <2>1, <2>2 DEF CoverInv, ReadCovers
  <1>4. CASE RestartServer
    <2> DEFINE ended == [r \in StatusReads |->
                 IF r \in OpenReads THEN Finished(reads[r], "failed") ELSE reads[r]]
    <2>1. \A r \in StatusReads : reads[r] \in Read /\ ReadCovers(r)
      BY DEF AlertInv, AlertTypes, CoverInv
    <2>2. \A r \in StatusReads : /\ Finished(reads[r], "failed") \in Read
                                 /\ Finished(reads[r], "failed").pc = "done"
      BY <2>1, FinishedFacts
    <2>3. \A r \in StatusReads : ended[r].answer = "ok" => ended[r].pc = "done"
      BY <2>1, <2>2 DEF ReadCovers
    <2>4. ended \in [StatusReads -> Read] /\ reads' = Outdated(ended)
      BY <1>4, <2>1, <2>2 DEF RestartServer
    <2> HIDE DEF ended
    <2>5. QED
      BY <1>2, <2>3, <2>4
  <1>5. ASSUME NEW r \in StatusReads, GetBudgetStatus(r)
        PROVE  CoverInv'
    <2>1. FailRead(r) => CoverInv'
      BY FailureCovers DEF FailRead, AlertInv, AlertTypes
    <2>2. QED
      BY <1>5, <2>1, ListCovers, SumCovers, CheckCovers, EmitCovers, StoreCovers
         DEF GetBudgetStatus
  <1>6. QED
    BY <1>1, <1>3, <1>4, <1>5 DEF Next

(* A status request that is answered while nothing changed since it began   *)
(* leaves no reached threshold unreported, whichever request emitted it.    *)
THEOREM NoThresholdMissed ==
  ASSUME Categories \subseteq Nat
  PROVE  Spec => []NoAlertMissed
  <1>1. Init => CoverInv
    BY DEF Init, CoverInv, ReadCovers, Unread, Working
  <1>2. AlertInv /\ [Next]_vars => AlertInv'
    BY StepAlerts
  <1>3. AlertInv /\ CoverInv /\ [Next]_vars => CoverInv'
    BY StepCovers
  <1>4. CoverInv => NoAlertMissed
    <2> SUFFICES ASSUME CoverInv, NEW r \in StatusReads, reads[r].answer = "ok", reads[r].fresh,
                        NEW c \in Categories, NEW th \in Thresholds,
                        budgets[c] # None, Spent(c) * 100 >= th * budgets[c]
                 PROVE  emitted[c][th] > 0
      BY DEF NoAlertMissed
    <2>1. Covered(c)
      BY DEF CoverInv, ReadCovers, Listed
    <2>2. th <= Reached(c)
      BY DEF Reached, ThresholdOf, Thresholds
    <2>3. QED
      BY <2>1, <2>2 DEF Covered, Reported
  <1>5. QED
    BY InitAlerts, <1>1, <1>2, <1>3, <1>4, PTL DEF Spec

-----------------------------------------------------------------------------
(* Reported once, by requests that come one at a time.                      *)

(* The request at work, if requests came one at a time.                     *)
LEMMA OnlyRequest ==
  ASSUME OnceInv, calm, NEW r \in StatusReads, reads[r].pc \in Working,
         NEW o \in StatusReads, reads[o].pc \in Working
  PROVE  o = r
  BY DEF OnceInv, OpenReads, Working

(* One request goes on, emits nothing and forgets nothing.                  *)
LEMMA OneReadQuiet ==
  ASSUME AlertInv, OnceInv, calm, NEW r \in StatusReads, NEW rd \in Read,
         reads' = [reads EXCEPT ![r] = rd], UNCHANGED <<lastEmitted, emitted>>,
         reads[r].pc \in Working \/ OpenReads = {},
         rd.pc \in {"check", "emit", "store"} => rd.threshold \in Thresholds,
         rd.pc = "emit" => rd.previous >= lastEmitted[Min(rd.todo)],
         reads[r].pc = "emit" => rd.pc = "store" /\ rd.todo = reads[r].todo,
         reads[r].pc # "store"
  PROVE  OnceInv'
  <1>1. /\ reads \in [StatusReads -> Read] /\ reads'[r] = rd /\ Current(r)' = Min(rd.todo)
        /\ \A o \in StatusReads \ {r} : reads'[o] = reads[o] /\ Current(o)' = Current(o)
    BY DEF AlertInv, AlertTypes, Current
  <1>2. \A o \in OpenReads' : o = r
    BY <1>1 DEF OpenReads, OnceInv, Working
  <1>3. ASSUME NEW c \in Categories, emitted'[c][80] > 0
        PROVE  Remembers(c)'
    <2>1. Remembers(c)
      BY <1>3 DEF OnceInv
    <2>2. QED
      BY <1>1, <2>1 DEF Remembers, Current
  <1>4. \A o \in StatusReads :
          /\ reads'[o].pc \in {"check", "emit", "store"} => reads'[o].threshold \in Thresholds
          /\ reads'[o].pc = "emit" => reads'[o].previous >= lastEmitted'[Current(o)']
    BY <1>1 DEF OnceInv
  <1>5. QED
    BY <1>2, <1>3, <1>4 DEF OnceInv

LEMMA FinishedLevels ==
  ASSUME NEW r \in StatusReads, reads[r] \in Read
  PROVE  /\ Following(r) \in Read /\ Following(r).pc \in {"done", "sum"}
         /\ Finished(reads[r], "failed") \in Read /\ Finished(reads[r], "failed").pc = "done"
  BY FollowingFacts, FinishedFacts

LEMMA QuietOnce ==
  ASSUME AlertInv, OnceInv, calm', Categories \subseteq Nat, NEW r \in StatusReads,
         ListBudgets(r) \/ SumSpent(r) \/ ReadLastEmitted(r) \/ FailRead(r)
  PROVE  OnceInv'
  <1>1. /\ calm /\ UNCHANGED <<lastEmitted, emitted>> /\ reads \in [StatusReads -> Read]
        /\ reads[r] \in Read
    BY DEF ListBudgets, SumSpent, ReadLastEmitted, FailRead, AlertInv, AlertTypes
  <1>2. CASE ListBudgets(r)
    <2> DEFINE listed == {c \in Categories : budgets[c] # None}
               rd == [Unread EXCEPT !.pc = "sum", !.todo = listed, !.amounts = budgets,
                                    !.fresh = TRUE]
    <2>1. Unread \in Read
      BY DEF Unread, Read, Levels
    <2>2. listed \in SUBSET Categories /\ budgets \in [Categories -> BudgetAmounts \cup {None}]
      BY DEF AlertInv, AlertTypes
    <2>3. rd \in Read /\ rd.pc = "sum"
      <3> HIDE DEF listed
      <3>1. QED
        BY <2>1, <2>2 DEF Read
    <2>4. Finished(rd, "ok") \in Read /\ Finished(rd, "ok").pc = "done"
      BY <2>3, FinishedFacts
    <2>5. /\ \/ reads' = [reads EXCEPT ![r] = Finished(rd, "ok")]
             \/ reads' = [reads EXCEPT ![r] = rd]
          /\ OpenReads = {} /\ r \notin OpenReads
      BY <1>2 DEF ListBudgets
    <2>6. reads[r].pc \in {"idle", "done"}
      BY <2>5 DEF OpenReads
    <2> HIDE DEF rd
    <2>7. QED
      BY <1>1, <2>3, <2>4, <2>5, <2>6, OneReadQuiet
  <1>3. CASE SumSpent(r)
    <2> DEFINE reached == ThresholdOf(reads[r].amounts[Current(r)], Spent(Current(r)))
               rd == [reads[r] EXCEPT !.pc = "check", !.threshold = reached]
    <2>1. reached \in Levels
      BY ThresholdIsLevel
    <2>2. rd \in Read /\ rd.pc = "check" /\ rd.threshold = reached
      <3> HIDE DEF reached
      <3>1. QED
        BY <1>1, <2>1 DEF Read
    <2>3. /\ reads' = [reads EXCEPT ![r] = IF reached = 0 THEN Following(r) ELSE rd]
          /\ reads[r].pc = "sum"
      BY <1>1, <1>3 DEF SumSpent
    <2>4. Following(r) \in Read /\ Following(r).pc \in {"done", "sum"}
      BY <1>1, FinishedLevels
    <2> HIDE DEF rd, reached
    <2>5. CASE reached = 0
      BY <1>1, <2>3, <2>4, <2>5, OneReadQuiet DEF Working
    <2>6. CASE reached # 0
      <3>1. reached \in Thresholds
        BY <2>1, <2>6 DEF Levels
      <3>2. QED
        BY <1>1, <2>2, <2>3, <2>6, <3>1, OneReadQuiet DEF Working
    <2>7. QED
      BY <2>5, <2>6
  <1>4. CASE ReadLastEmitted(r)
    <2> DEFINE last == lastEmitted[Current(r)]
               rd == [reads[r] EXCEPT !.pc = "emit", !.previous = last]
    <2>1. reads[r].todo # {} /\ reads[r].todo \subseteq Categories /\ reads[r].pc = "check"
      BY <1>1, <1>4 DEF AlertInv, ReadReported, ReadLastEmitted, Read
    <2>2. last \in Levels
      BY <2>1, CurrentBudget DEF AlertInv, AlertTypes
    <2>3. /\ rd \in Read /\ rd.pc = "emit" /\ rd.todo = reads[r].todo
          /\ rd.threshold = reads[r].threshold /\ rd.previous = last
      <3> HIDE DEF last
      <3>1. QED
        BY <1>1, <2>2 DEF Read
    <2>4. reads' = [reads EXCEPT ![r] = rd] /\ reads[r].threshold \in Thresholds
      BY <1>1, <1>4, <2>1 DEF ReadLastEmitted, OnceInv
    <2>5. rd.previous >= lastEmitted[Min(rd.todo)]
      <3>1. \A l \in Levels : l >= l
        BY DEF Levels, Thresholds
      <3>2. QED
        BY <2>2, <2>3, <3>1 DEF Current
    <2> HIDE DEF rd, last
    <2>6. QED
      BY <1>1, <2>1, <2>3, <2>4, <2>5, OneReadQuiet DEF Working
  <1>5. CASE FailRead(r)
    <2>1. /\ reads' = [reads EXCEPT ![r] = Finished(reads[r], "failed")] /\ reads[r].pc = "sum"
      BY <1>1, <1>5 DEF FailRead
    <2>2. QED
      BY <1>1, <2>1, FinishedLevels, OneReadQuiet DEF Working
  <1>6. QED
    BY <1>2, <1>3, <1>4, <1>5

(* An event for 80 percent is emitted only when none is remembered.         *)
LEMMA EmitOnce ==
  ASSUME AlertInv, OnceInv, calm', Categories \subseteq Nat, NEW r \in StatusReads, Emit(r)
  PROVE  OnceInv'
  <1>1. /\ calm /\ UNCHANGED <<budgets, lastEmitted>> /\ reads \in [StatusReads -> Read]
        /\ reads[r] \in Read /\ reads[r].pc = "emit" /\ Current(r) \in Categories
        /\ reads[r].threshold \in Thresholds
        /\ reads[r].previous >= lastEmitted[Current(r)]
    BY EmitIs DEF AlertInv, AlertTypes, OnceInv
  <1>2. ASSUME reads' = [reads EXCEPT ![r] = [reads[r] EXCEPT !.pc = "store"]], emitted' = emitted
        PROVE  OnceInv'
    <2> DEFINE rd == [reads[r] EXCEPT !.pc = "store"]
    <2>1. /\ rd \in Read /\ rd.pc = "store" /\ rd.todo = reads[r].todo
          /\ rd.threshold = reads[r].threshold
      BY <1>1 DEF Read
    <2>2. reads' = [reads EXCEPT ![r] = rd]
      BY <1>2
    <2> HIDE DEF rd
    <2>3. QED
      BY <1>1, <1>2, <2>1, <2>2, OneReadQuiet DEF Working
  <1>3. ASSUME NEW th \in Thresholds,
               emitted' = [emitted EXCEPT ![Current(r)][th] = Min({@ + 1, 2})],
               reads' = [reads EXCEPT ![r] = [reads[r] EXCEPT !.previous = th]],
               reads[r].previous < th
        PROVE  OnceInv'
    <2>1. PICK c \in Categories : c = Current(r)
      BY <1>1
    <2> DEFINE rd == [reads[r] EXCEPT !.previous = th]
    <2>2. /\ rd.pc = "emit" /\ rd.todo = reads[r].todo /\ rd.previous = th
          /\ rd.threshold = reads[r].threshold
      BY <1>1 DEF Read
    <2> HIDE DEF rd
    <2>3. /\ reads'[r] = rd /\ Current(r)' = c
          /\ \A o \in StatusReads \ {r} : reads'[o] = reads[o] /\ Current(o)' = Current(o)
      BY <1>1, <1>3, <2>1, <2>2 DEF Current, rd
    <2>4. emitted' = [emitted EXCEPT ![c][th] = Min({@ + 1, 2})]
      BY <1>3, <2>1
    <2>5. /\ \A b \in Categories, l \in Thresholds :
               b # c \/ l # th => emitted'[b][l] = emitted[b][l]
          /\ emitted'[c][th] <= emitted[c][th] + 1 /\ emitted[c][th] \in Nat
          /\ emitted'[c][th] \in Nat
      BY <2>4, EventCounts
    <2>6. lastEmitted[c] \in Levels /\ reads[r].previous \in Levels /\ 80 \in Thresholds
      BY <1>1 DEF AlertInv, AlertTypes, Read, Thresholds
    <2>7. \A o \in StatusReads \ {r} : reads[o].pc \notin Working
      BY <1>1, OnlyRequest DEF Working
    <2>8. th = 80 => emitted[c][80] = 0
      <3> SUFFICES ASSUME th = 80, emitted[c][80] > 0
                   PROVE  FALSE
        BY <2>5
      <3>1. Remembers(c)
        BY <1>1 DEF OnceInv
      <3>2. ~(reads[r].previous >= 80)
        BY <1>3, <2>6 DEF Levels, Thresholds
      <3>3. ~(lastEmitted[c] >= 80)
        BY <1>1, <2>1, <2>6, <3>2 DEF Levels, Thresholds
      <3>4. QED
        BY <1>1, <2>7, <3>1, <3>2, <3>3 DEF Remembers, Working
    <2>9. Remembers(c)'
      <3>1. th >= 80
        BY DEF Thresholds
      <3>2. QED
        BY <2>2, <2>3, <3>1 DEF Remembers
    <2>10. ASSUME NEW b \in Categories, b # c, Remembers(b)
           PROVE  Remembers(b)'
      <3>1. lastEmitted[b] >= 80
        BY <1>1, <2>1, <2>7, <2>10 DEF Remembers, Working
      <3>2. QED
        BY <1>1, <3>1 DEF Remembers
    <2>11. \A b \in Categories : /\ emitted'[b][80] <= 1
                                 /\ emitted'[b][80] > 0 => Remembers(b)'
      <3>1. \A b \in Categories : /\ emitted[b][80] <= 1
                                  /\ emitted[b][80] > 0 => Remembers(b)
        BY <1>1 DEF OnceInv
      <3>2. emitted'[c][80] <= 1
        BY <2>5, <2>6, <2>8, <3>1
      <3>3. \A b \in Categories : b # c => emitted'[b][80] = emitted[b][80]
        BY <2>5, <2>6
      <3>4. QED
        BY <2>9, <2>10, <3>1, <3>2, <3>3
    <2>12. \A o \in OpenReads' : o = r
      BY <2>3, <2>7, <1>1 DEF OpenReads, Working, Read
    <2>13. th >= lastEmitted[c]
      BY <1>1, <1>3, <2>1, <2>6 DEF Levels, Thresholds
    <2>14. \A o \in StatusReads :
             /\ reads'[o].pc \in {"check", "emit", "store"} => reads'[o].threshold \in Thresholds
             /\ reads'[o].pc = "emit" => reads'[o].previous >= lastEmitted'[Current(o)']
      BY <1>1, <2>2, <2>3, <2>7, <2>13 DEF Working
    <2>15. QED
      BY <2>11, <2>12, <2>14 DEF OnceInv
  <1>4. QED
    BY <1>1, <1>2, <1>3, EmitIs

LEMMA StoreOnce ==
  ASSUME AlertInv, OnceInv, calm', Categories \subseteq Nat, NEW r \in StatusReads,
         StoreLastEmitted(r)
  PROVE  OnceInv'
  <1>1. /\ calm /\ UNCHANGED emitted /\ reads \in [StatusReads -> Read]
        /\ reads[r] \in Read /\ reads[r].pc = "store" /\ reads[r].threshold \in Thresholds
        /\ reads' = [reads EXCEPT ![r] = Following(r)]
        /\ lastEmitted' = [lastEmitted EXCEPT ![Current(r)] = reads[r].threshold]
        /\ lastEmitted \in [Categories -> Levels]
    BY DEF StoreLastEmitted, AlertInv, AlertTypes, OnceInv
  <1>2. Following(r).pc \in {"done", "sum"}
    BY <1>1, FollowingFacts
  <1>3. /\ reads'[r].pc \in {"done", "sum"}
        /\ \A o \in StatusReads \ {r} : reads'[o] = reads[o]
    BY <1>1, <1>2
  <1>4. \A o \in StatusReads \ {r} : reads[o].pc \notin Working
    BY <1>1, OnlyRequest DEF Working
  <1>5. ASSUME NEW c \in Categories, Remembers(c)
        PROVE  lastEmitted'[c] >= 80
    <2>1. CASE c = Current(r)
      BY <1>1, <2>1 DEF Thresholds
    <2>2. CASE c # Current(r)
      BY <1>1, <1>4, <1>5, <2>2 DEF Remembers, Working
    <2>3. QED
      BY <2>1, <2>2
  <1>6. \A c \in Categories : /\ emitted'[c][80] <= 1
                              /\ emitted'[c][80] > 0 => Remembers(c)'
    BY <1>1, <1>5 DEF OnceInv, Remembers
  <1>7. \A o \in OpenReads' : o = r
    BY <1>1, <1>3, <1>4 DEF OpenReads, Working, Read
  <1>8. \A o \in StatusReads : reads'[o].pc \notin {"check", "emit", "store"}
    BY <1>3, <1>4 DEF Working
  <1>9. QED
    BY <1>6, <1>7, <1>8 DEF OnceInv

LEMMA StepOnce ==
  Categories \subseteq Nat /\ AlertInv /\ OnceInv /\ [Next]_vars => OnceInv'
  <1> SUFFICES ASSUME Categories \subseteq Nat, AlertInv, OnceInv, [Next]_vars, calm'
               PROVE  OnceInv'
    BY DEF OnceInv
  <1>1. CASE UNCHANGED vars
    BY <1>1 DEF vars, OnceInv, OpenReads, Remembers, Current
  <1>2. ASSUME \/ \E t \in Transactions : Record(t)
               \/ \E c \in Categories : UpsertBudget(c)
        PROVE  OnceInv'
    <2>1. reads' = Outdated(reads) /\ UNCHANGED <<lastEmitted, emitted, calm>>
      BY <1>2 DEF Record, UpsertBudget
    <2>2. \A r \in StatusReads :
            /\ reads'[r].pc = reads[r].pc /\ reads'[r].todo = reads[r].todo
            /\ reads'[r].previous = reads[r].previous
            /\ reads'[r].threshold = reads[r].threshold
      BY <2>1 DEF AlertInv, AlertTypes, Outdated, Read
    <2>3. \A r \in StatusReads : Current(r)' = Current(r)
      BY <2>2 DEF Current
    <2>4. QED
      BY <2>1, <2>2, <2>3 DEF OnceInv, OpenReads, Remembers
  <1>3. CASE RestartServer
    <2> DEFINE ended == [r \in StatusReads |->
                 IF r \in OpenReads THEN Finished(reads[r], "failed") ELSE reads[r]]
    <2>1. \A r \in StatusReads : reads[r] \in Read
      BY DEF AlertInv, AlertTypes
    <2>2. \A r \in StatusReads : ended[r] \in Read /\ ended[r].pc \in {"idle", "done"}
      BY <2>1, FinishedFacts DEF OpenReads
    <2>3. reads' = Outdated(ended) /\ emitted' = [c \in Categories |-> [th \in Thresholds |-> 0]]
      BY <1>3 DEF RestartServer
    <2> HIDE DEF ended
    <2>4. \A r \in StatusReads : reads'[r].pc \in {"idle", "done"}
      BY <2>2, <2>3 DEF Outdated, Read
    <2>5. \A c \in Categories : emitted'[c][80] = 0
      BY <2>3 DEF Thresholds
    <2>6. QED
      BY <2>4, <2>5 DEF OnceInv, OpenReads
  <1>4. ASSUME NEW r \in StatusReads, GetBudgetStatus(r)
        PROVE  OnceInv'
    BY <1>4, QuietOnce, EmitOnce, StoreOnce DEF GetBudgetStatus
  <1>5. QED
    BY <1>1, <1>2, <1>3, <1>4 DEF Next

(* Requests that come one at a time and do not fail report a budget used to *)
(* 80 percent once in the life of the process, whatever is spent, deleted   *)
(* and budgeted anew in between.                                            *)
THEOREM ThresholdReportedOnce ==
  ASSUME Categories \subseteq Nat
  PROVE  Spec => []ReportedOnce
  <1>1. Init => OnceInv
    <2> SUFFICES ASSUME Init
                 PROVE  OnceInv
      OBVIOUS
    <2>1. \A r \in StatusReads : reads[r].pc = "idle"
      BY DEF Init, Unread
    <2>2. \A c \in Categories : emitted[c][80] = 0
      BY DEF Init, Thresholds
    <2>3. QED
      BY <2>1, <2>2 DEF OnceInv, OpenReads
  <1>2. AlertInv /\ [Next]_vars => AlertInv'
    BY StepAlerts
  <1>3. AlertInv /\ OnceInv /\ [Next]_vars => OnceInv'
    BY StepOnce
  <1>4. OnceInv => ReportedOnce
    BY DEF OnceInv, ReportedOnce
  <1>5. QED
    BY InitAlerts, <1>1, <1>2, <1>3, <1>4, PTL DEF Spec
=============================================================================

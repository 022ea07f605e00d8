------------------------------ MODULE SyncPush ------------------------------
(***************************************************************************)
(* The push endpoint of the Mali API (SyncHandler.Push, SyncService.Push): *)
(* a batch of changes to transactions, goals, budgets and wallets of one   *)
(* user, applied one after the other and answered change by change.        *)
(*                                                                         *)
(* A device that hears no answer pushes the same changes again, so pushes  *)
(* share changes, and may overlap.  A call of another service is one step  *)
(* here; Contribute is two, for it may stop between them.  Inside the      *)
(* calls, WalletLedger and GoalContribution look closer.                   *)
(***************************************************************************)
EXTENDS Integers, Sequences, FiniteSets

CONSTANTS SyncIds,        \* the sync_ids of the device's changes
          Pushes,         \* push requests
          MaxChanges,     \* maxSyncPushChanges
          None            \* a change the validator refuses

VARIABLES change,         \* what the change of each sync_id says
          rows,           \* sync_ids of the recorded transactions
          credit,         \* the wallet's balance without these transactions
          there,          \* which of one transaction, goal and wallet are there
          push,           \* the state of each request
          effects         \* history: how often a request carried out a change

vars == <<change, rows, credit, there, push, effects>>

Kinds == ({"create", "delete"} \X {"transaction", "goal", "wallet"})
           \cup ({"update"} \X {"goal", "wallet"})
           \cup {<<"contribute", "goal">>, <<"upsert", "budget">>}

Batches == UNION {[1..n -> SyncIds \cup {None}] : n \in 0..MaxChanges + 1}

-----------------------------------------------------------------------------
(* The handler refuses a request as a whole; the service takes its changes  *)
(* in order.                                                                *)

Valid(batch) == Len(batch) \in 1..MaxChanges /\ \A i \in DOMAIN batch : batch[i] # None

Receive(p) ==
  /\ push[p].pc = "idle"
  /\ \E batch \in Batches :
       push' = [push EXCEPT ![p] =
         IF Valid(batch) THEN [@ EXCEPT !.pc = "change", !.batch = batch, !.at = 1]
                         ELSE [@ EXCEPT !.pc = "refused"]]
  /\ UNCHANGED <<change, rows, credit, there, effects>>

Current(p) == push[p].batch[push[p].at]

(* Mutant: a sync_id is noted only when its change is accepted. *)
JudgedThenSeen(p, verdict) ==
  LET id == Current(p)
      last == push[p].at = Len(push[p].batch)
  IN [push EXCEPT ![p].pc = IF last THEN "answered" ELSE "change",
                  ![p].at = @ + 1,
                  ![p].seen = IF verdict = "accepted" THEN @ \cup {id} ELSE @,
                  ![p][verdict] = @ \cup {id}]

(* The change goes to the accepted ones or to the conflicts; the last one   *)
(* is followed by the answer.                                               *)
Judged(p, verdict) ==
  LET id == Current(p)
      last == push[p].at = Len(push[p].batch)
  IN [push EXCEPT ![p].pc = IF last THEN "answered" ELSE "change",
                  ![p].at = @ + 1,
                  ![p].seen = @ \cup {id},
                  ![p][verdict] = @ \cup {id}]

Duplicate(p) ==
  /\ push[p].pc = "change"
  /\ Current(p) \in push[p].seen
  /\ push' = Judged(p, "conflicts")
  /\ UNCHANGED <<change, rows, credit, there, effects>>

-----------------------------------------------------------------------------
(* applyChange.                                                             *)

Takes(p, kind) ==
  /\ push[p].pc = "change"
  /\ Current(p) \notin push[p].seen
  /\ change[Current(p)] = kind

CarriedOut(p) == effects' = [effects EXCEPT ![p][Current(p)] = @ + 1]

(* The statement or the COMMIT took effect and its answer was lost: the     *)
(* service returns an error, and the change goes to the conflicts.  unsure  *)
(* is history.                                                              *)
Unheard(p) == [Judged(p, "conflicts") EXCEPT ![p].unsure = @ \cup {Current(p)}]

(* How a change that has been carried out is reported. *)
Reported(p) == push' = Judged(p, "accepted") \/ push' = Unheard(p)

(* The payload is invalid, a statement fails and changes nothing, or what   *)
(* the change is about is not there: a conflict, and the next change is     *)
(* taken.                                                                   *)
Conflict(p) ==
  /\ \E kind \in Kinds : Takes(p, kind)
  /\ push' = Judged(p, "conflicts")
  /\ UNCHANGED <<change, rows, credit, there, effects>>

(* A transaction is recorded under the sync_id of its change.               *)
CreateTransaction(p) ==
  /\ Takes(p, <<"create", "transaction">>)
  /\ IF Current(p) \in rows
       THEN push' = Judged(p, "accepted") /\ UNCHANGED <<rows, effects>>
       ELSE /\ "wallet" \in there
            /\ rows' = rows \cup {Current(p)}
            /\ CarriedOut(p) /\ Reported(p)
  /\ UNCHANGED <<change, credit, there>>

(* Mutant: no row deleted is no error. *)
DeleteQuietly(p) ==
  /\ \E what \in {"transaction", "goal"} :
       /\ Takes(p, <<"delete", what>>)
       /\ there' = there \ {what}
       /\ IF what \in there THEN CarriedOut(p) ELSE UNCHANGED effects
  /\ push' = Judged(p, "accepted")
  /\ UNCHANGED <<change, rows, credit>>

Delete(p) ==
  /\ \E what \in {"transaction", "goal"} :
       /\ Takes(p, <<"delete", what>>)
       /\ what \in there
       /\ there' = there \ {what}
  /\ CarriedOut(p) /\ Reported(p)
  /\ UNCHANGED <<change, rows, credit>>

(* getOwnedWallet finds a closed wallet too.                                *)
DeleteWallet(p) ==
  /\ Takes(p, <<"delete", "wallet">>)
  /\ credit + Cardinality(rows) = 0
  /\ there' = there \ {"wallet"}
  /\ CarriedOut(p) /\ Reported(p)
  /\ UNCHANGED <<change, rows, credit>>

Written(p) ==
  /\ CarriedOut(p) /\ Reported(p)
  /\ UNCHANGED <<change, rows, credit, there>>

(* A goal or wallet is created anew by every call; what is updated or       *)
(* upserted is written anew.                                                *)
CreateGoal(p) == Takes(p, <<"create", "goal">>) /\ Written(p)

UpdateGoal(p) == Takes(p, <<"update", "goal">>) /\ "goal" \in there /\ Written(p)

UpsertBudget(p) == Takes(p, <<"upsert", "budget">>) /\ Written(p)

CreateWallet(p) == Takes(p, <<"create", "wallet">>) /\ Written(p)

UpdateName(p) == Takes(p, <<"update", "wallet">>) /\ Written(p)

(* Contribute inserts the contribution, and then writes the goal.           *)
InsertContribution(p) ==
  /\ Takes(p, <<"contribute", "goal">>)
  /\ "goal" \in there
  /\ CarriedOut(p)
  /\ push' = [push EXCEPT ![p].pc = "contributed"] \/ push' = Unheard(p)
  /\ UNCHANGED <<change, rows, credit, there>>

UpdateSaved(p) ==
  /\ push[p].pc = "contributed"
  /\ \/ "goal" \in there /\ push' = Judged(p, "accepted")
     \/ push' = Judged(p, "conflicts")
  /\ UNCHANGED <<change, rows, credit, there, effects>>

(* The process ends, or the answer is lost: the device knows nothing.       *)
Lose(p) ==
  /\ push[p].pc \in {"change", "contributed"}
  /\ push' = [push EXCEPT ![p].pc = "lost", ![p].at = 1]
  /\ UNCHANGED <<change, rows, credit, there, effects>>

Init ==
  /\ change \in [SyncIds -> Kinds]
  /\ rows = {}
  /\ credit \in {0, 1}
  /\ there = {"transaction", "goal", "wallet"}
  /\ push = [p \in Pushes |-> [pc |-> "idle", batch |-> <<>>, at |-> 1, seen |-> {},
                               accepted |-> {}, conflicts |-> {}, unsure |-> {}]]
  /\ effects = [p \in Pushes |-> [id \in SyncIds |-> 0]]

Push(p) ==
  \/ Receive(p) \/ Duplicate(p) \/ Conflict(p)
  \/ CreateTransaction(p) \/ Delete(p) \/ DeleteWallet(p)
  \/ CreateGoal(p) \/ UpdateGoal(p) \/ UpsertBudget(p) \/ CreateWallet(p) \/ UpdateName(p)
  \/ InsertContribution(p) \/ UpdateSaved(p) \/ Lose(p)

Next == \E p \in Pushes : Push(p)

Spec == Init /\ [][Next]_vars

-----------------------------------------------------------------------------
(* Properties.                                                              *)

CarriersOf(id) == {p \in Pushes : effects[p][id] > 0}

(* However often a batch names a change, it is carried out once, also when  *)
(* it failed half way; and a transaction is created, and a transaction or   *)
(* goal deleted, by one request only, however often it is pushed.           *)
CarriedOutOnce ==
  /\ \A p \in Pushes, id \in SyncIds : effects[p][id] <= 1
  /\ \A id \in SyncIds :
       change[id] \in {<<"create", "transaction">>, <<"delete", "transaction">>,
                       <<"delete", "goal">>} => Cardinality(CarriersOf(id)) <= 1

(* What an answer says is true: an accepted change has been carried out, by *)
(* this request or another, and a change reported only as a conflict has    *)
(* not been by this one, but for a contribution that stopped half way and   *)
(* a change that took effect while the answer of the database was lost.     *)
AnswersTell ==
  \A p \in Pushes : push[p].pc = "answered" =>
    \A i \in DOMAIN push[p].batch :
      LET id == push[p].batch[i]
      IN IF id \in push[p].accepted
           THEN CarriersOf(id) # {}
           ELSE /\ id \in push[p].conflicts
                /\ \/ effects[p][id] = 0
                   \/ change[id] = <<"contribute", "goal">>
                   \/ id \in push[p].unsure
=============================================================================

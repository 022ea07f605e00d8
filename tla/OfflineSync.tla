---------------------------- MODULE OfflineSync ----------------------------
(***************************************************************************)
(* Synchronisation of transactions between one device and the Mali API.    *)
(*                                                                         *)
(* The device keeps a table of transactions and a queue of changes.  A     *)
(* background run pushes the queue in batches, then posts every unsynced   *)
(* row by itself, then pulls the server's log of changes; a refresh of the *)
(* transaction list does the last two.  Runs are started by a timer, by    *)
(* connectivity and by the user, in two isolates, and nothing keeps two of *)
(* them apart.  Other clients of the same account use the REST API.        *)
(*                                                                         *)
(* An id is a UUID unless the device made it: LocalIdGenerator makes       *)
(* 'tx-<microseconds>'.  A row is its id, its sync_id and `origin', the    *)
(* transaction it is a record of.  The device's clock is the server's, and *)
(* the time is the length of the server's log.                             *)
(***************************************************************************)
EXTENDS Integers, Sequences, FiniteSets

CONSTANTS Logged,         \* transactions the user logs on the device
          Remote,         \* transactions other clients post
          Background,     \* runs of BackgroundSyncService.runSyncIfOnline
          Refresh,        \* runs of refreshTransactionsSync
          Concurrency,    \* runs open at a time
          BatchSize, PageLimit,
          Deletable,      \* transactions other clients delete
          MaxQueue,       \* bound: the user changes nothing beyond it
          None

VARIABLES rows,           \* the server's transactions
          log,            \* the server's sync_log
          local,          \* the device's transactions, by id
          queue,          \* the device's sync queue, oldest first
          since,          \* LastSyncStore
          saving,         \* the user's change: stored, not yet queued
          run             \* the state of each run

Runs == Background \cup Refresh

server == <<rows, log>>
device == <<local, queue, since, saving>>
vars == <<rows, log, local, queue, since, saving, run>>

ASSUME SyncAssumption ==
  /\ Deletable \subseteq Remote
  /\ Logged \cap Remote = {} /\ Background \cap Refresh = {}
  /\ None \notin Logged \cup Remote
  /\ BatchSize \in Nat \ {0} /\ PageLimit \in Nat \ {0} /\ Concurrency \in Nat
  /\ MaxQueue \in Nat

-----------------------------------------------------------------------------
(* The sync_id another client may give x, and the id of the row that the    *)
(* server makes for a pushed sync_id s.                                     *)
SyncIdOf(x) == <<"sync", x>>

IdFor(s) == <<"row", s>>

SyncIds == Logged \cup Remote \cup {SyncIdOf(x) : x \in Remote}

Ids == Logged \cup Remote \cup {IdFor(s) : s \in SyncIds}

(* Ids of the three kinds differ.                                           *)
ASSUME IdAssumption ==
  /\ (Logged \cup Remote \cup {None}) \cap {SyncIdOf(x) : x \in Remote} = {}
  /\ (Logged \cup Remote \cup {None}) \cap {IdFor(s) : s \in SyncIds} = {}

Uuid(s) == s \notin Logged

Row == [id: Ids, sync: SyncIds \cup {None}, origin: Logged \cup Remote, deleted: BOOLEAN]

LocalRow == [id: Ids, sync: SyncIds, origin: Logged \cup Remote,
             synced: BOOLEAN, deleted: BOOLEAN]

ASSUME RowAssumption == None \notin LocalRow

Entry == [op: {"create", "delete"}, id: Ids]

Item == [op: {"create", "delete"}, id: Ids, sync: SyncIds \cup Ids,
         origin: Logged \cup Remote, done: BOOLEAN]

Open == {r \in Runs : run[r].pc \notin {"idle", "ended"}}

Idle == [pc |-> "idle", batch |-> {}, accepted |-> {}, todo |-> {}, from |-> 0,
         incoming |-> {}, current |-> None, next |-> "pull", outcome |-> "none",
         quiet |-> TRUE]

(* A run that ends keeps nothing but its outcome.                           *)
Ended(r, outcome) ==
  [Idle EXCEPT !.pc = "ended", !.outcome = outcome, !.quiet = run[r].quiet]

Stop(r, outcome) == run' = [run EXCEPT ![r] = Ended(r, outcome)]

Live(id) == \E x \in rows : x.id = id /\ ~x.deleted

-----------------------------------------------------------------------------
(* The server.                                                              *)

Recorded(s) == {x \in rows : x.sync = s}

(* CreateTransaction with a sync_id: the row it already has, deleted or     *)
(* not, or a new one.                                                       *)
Created(s, origin) ==
  IF Recorded(s) # {}
    THEN CHOOSE x \in Recorded(s) : TRUE
    ELSE [id |-> IdFor(s), sync |-> s, origin |-> origin, deleted |-> FALSE]

(* SyncLog writes after the handler and ignores its own errors.             *)
Record(op, id) ==
  log' = Append(log, [op |-> op, id |-> id]) \/ UNCHANGED log

(* History: the runs note that the server changed while one of them was     *)
(* open; a run also notes that its page was too short for what it missed.   *)
Disturb ==
  run' = IF Open = {} THEN run ELSE [r \in Runs |-> [run[r] EXCEPT !.quiet = FALSE]]

(* POST /v1/transactions of another client, with a sync_id or without one.  *)
RemoteCreate(x) ==
  /\ ~\E y \in rows : y.id = x
  /\ \E s \in {SyncIdOf(x), None} :
       rows' = rows \cup {[id |-> x, sync |-> s, origin |-> x, deleted |-> FALSE]}
  /\ Record("create", x)
  /\ Disturb
  /\ UNCHANGED device

(* DELETE /v1/transactions/:id of another client.                           *)
RemoteDelete(x) ==
  /\ x \in Deletable
  /\ Live(x)
  /\ rows' = {IF y.id = x THEN [y EXCEPT !.deleted = TRUE] ELSE y : y \in rows}
  /\ Record("delete", x)
  /\ Disturb
  /\ UNCHANGED device

-----------------------------------------------------------------------------
(* HybridTransactionRepository: the row is stored, then queued.             *)

(* Mutant: the row's own id becomes its sync_id. *)
PendingOwnId(id, sync, origin) ==
  [id |-> id, sync |-> id, origin |-> origin, synced |-> FALSE, deleted |-> FALSE]

(* Mutant: a row without a sync_id stays without one. *)
PendingBare(id, sync, origin) ==
  [id |-> id, sync |-> sync, origin |-> origin, synced |-> FALSE, deleted |-> FALSE]

Pending(id, sync, origin) ==
  [id |-> id, sync |-> IF sync = None THEN id ELSE sync, origin |-> origin,
   synced |-> FALSE, deleted |-> FALSE]

Queued(op, x) ==
  Append(queue, [op |-> op, id |-> x.id, sync |-> IF op = "create" THEN x.sync ELSE x.id,
                 origin |-> x.origin, done |-> FALSE])

(* sync_id is unique in the device's table too.                             *)
Clash(x) == \E id \in Ids \ {x.id} : local[id] # None /\ local[id].sync = x.sync

(* The user logs a transaction, or restores one he deleted.                 *)
LogTransaction(l) ==
  /\ saving = None
  /\ Len(queue) < MaxQueue
  /\ local[l] # None => local[l].deleted
  /\ LET x == Pending(l, None, l)
     IN /\ local' = [local EXCEPT ![l] = x]
        /\ saving' = [op |-> "create", row |-> x]
  /\ UNCHANGED <<server, queue, since, run>>

(* Only what was logged here can be deleted here: DeleteTransactionUseCase  *)
(* needs the wallet, and wallets are not synchronised.                      *)
DeleteTransaction(l) ==
  /\ saving = None
  /\ Len(queue) < MaxQueue
  /\ local[l] # None /\ ~local[l].deleted
  /\ local' = [local EXCEPT ![l].deleted = TRUE]
  /\ saving' = [op |-> "delete", row |-> local[l]]
  /\ UNCHANGED <<server, queue, since, run>>

EnqueueChange ==
  /\ saving # None
  /\ queue' = Queued(saving.op, saving.row)
  /\ saving' = None
  /\ UNCHANGED <<server, local, since, run>>

(* The app is killed: whatever was between two awaits is gone.              *)
Kill ==
  /\ saving # None \/ Open # {}
  /\ saving' = None
  /\ run' = [r \in Runs |-> IF r \in Open THEN Ended(r, "offline") ELSE run[r]]
  /\ UNCHANGED <<server, local, queue, since>>

-----------------------------------------------------------------------------
(* A run: SyncQueueManager.processPending.                                  *)

Start(r) ==
  /\ run[r].pc = "idle"
  /\ Cardinality(Open) < Concurrency
  /\ run' = [run EXCEPT ![r].pc = IF r \in Background THEN "fetch" ELSE "list"]
  /\ UNCHANGED <<server, device>>

Oldest(S, n) == {i \in S : Cardinality({j \in S : j < i}) < n}

(* The positions of the oldest BatchSize pending items.                     *)
PendingBatch == Oldest({i \in 1..Len(queue) : ~queue[i].done}, BatchSize)

FetchBatch(r) ==
  /\ run[r].pc = "fetch"
  /\ run' = [run EXCEPT ![r].batch = PendingBatch,
                        ![r].pc = IF PendingBatch = {} THEN "list" ELSE "push"]
  /\ UNCHANGED <<server, device>>

Sent(r) == {queue[i] : i \in run[r].batch}

(* SyncHandler.Push validates the whole batch first; one sync_id that is no *)
(* UUID is 400, and the exception ends the run.  SyncService.Push then      *)
(* applies the changes one by one and reports those that failed.            *)
PushBatch(r) ==
  /\ run[r].pc = "push"
  /\ IF \E c \in Sent(r) : ~Uuid(c.sync)
       THEN Stop(r, "refused") /\ UNCHANGED rows
       ELSE \E applied \in SUBSET Sent(r) :
              /\ rows' = rows \cup {Created(c.sync, c.origin) : c \in applied}
              /\ \/ run' = [run EXCEPT ![r].accepted = {c.sync : c \in applied},
                                       ![r].pc = "mark"]
                 \/ Stop(r, "offline")
  /\ UNCHANGED <<log, device>>

(* Mutant: an item the server reported as a conflict is taken off too. *)
MarkAll(r) ==
  /\ run[r].pc = "mark"
  /\ queue' = [i \in 1..Len(queue) |->
                 IF i \in run[r].batch THEN [queue[i] EXCEPT !.done = TRUE] ELSE queue[i]]
  /\ run' = [run EXCEPT ![r].pc =
               IF Cardinality(run[r].batch) < BatchSize THEN "list" ELSE "fetch"]
  /\ UNCHANGED <<server, local, since, saving>>

(* Each item is marked by a statement of its own; the run may stop between  *)
(* two of them.  A full batch is followed by another.                       *)
MarkBatch(r) ==
  /\ run[r].pc = "mark"
  /\ \E n \in 0..Cardinality(run[r].batch) :
       /\ queue' = [i \in 1..Len(queue) |->
                      IF i \in Oldest(run[r].batch, n) /\ queue[i].sync \in run[r].accepted
                        THEN [queue[i] EXCEPT !.done = TRUE] ELSE queue[i]]
       /\ IF n < Cardinality(run[r].batch)
            THEN Stop(r, "offline")
            ELSE run' = [run EXCEPT ![r].pc = IF n < BatchSize THEN "list" ELSE "fetch"]
  /\ UNCHANGED <<server, local, since, saving>>

-----------------------------------------------------------------------------
(* A run: SyncUseCase.                                                      *)

Unsynced == {x \in {local[id] : id \in Ids} \ {None} : ~x.synced /\ ~x.deleted}

ListUnsynced(r) ==
  /\ run[r].pc = "list"
  /\ run' = [run EXCEPT ![r].from = since, ![r].todo = Unsynced,
                        ![r].pc = IF Unsynced = {} THEN "save" ELSE "post"]
  /\ UNCHANGED <<server, device>>

Posted(r, x, back) ==
  run' = [run EXCEPT ![r].todo = @ \ {x}, ![r].incoming = @ \cup back,
                     ![r].pc = IF run[r].todo = {x} THEN "save" ELSE "post"]

(* One POST for each unsynced row.  A refused or unanswered row is dropped; *)
(* an answered one comes back as the server has it, new or not.             *)
PostRow(r) ==
  /\ run[r].pc = "post"
  /\ \E x \in run[r].todo :
       \/ Posted(r, x, {}) /\ UNCHANGED server
       \/ /\ Uuid(x.sync)
          /\ LET y == Created(x.sync, x.origin)
             IN /\ rows' = rows \cup {y}
                /\ Record("create", y.id)
                /\ Posted(r, x, {y}) \/ Posted(r, x, {})
  /\ UNCHANGED device

(* What came back from a POST or a pull is saved through the hybrid         *)
(* repository, which marks it unsynced and queues it like a new change.     *)
SaveRow(r) ==
  /\ run[r].pc = "save"
  /\ \E y \in run[r].incoming :
       LET x == Pending(y.id, y.sync, y.origin)
       IN IF Clash(x)
            THEN Stop(r, "clash") /\ UNCHANGED local
            ELSE /\ local' = [local EXCEPT ![y.id] = x]
                 /\ run' = [run EXCEPT ![r].current = x, ![r].incoming = @ \ {y},
                                       ![r].pc = "enqueue"]
  /\ UNCHANGED <<server, queue, since, saving>>

EnqueueRow(r) ==
  /\ run[r].pc = "enqueue"
  /\ queue' = Queued("create", run[r].current)
  /\ run' = [run EXCEPT ![r].current = None, ![r].pc = "save"]
  /\ UNCHANGED <<server, local, since, saving>>

Saved(r, next) ==
  run[r].pc = "save" /\ run[r].incoming = {} /\ run[r].next = next

(* The first page of the log after `from'; its cursor is not followed.      *)
Page(from) ==
  SubSeq(log, from + 1, IF Len(log) < from + PageLimit THEN Len(log) ELSE from + PageLimit)

Pulled(from) ==
  {Page(from)[i].id : i \in {k \in 1..Len(Page(from)) : Page(from)[k].op = "create"}}

(* History: the page reaches the end of the log.                             *)
Whole(from) == Len(log) <= from + PageLimit

(* Mutant: a GET that fails for any reason is skipped like a 404. *)
PullSkipping(r) ==
  /\ Saved(r, "pull")
  /\ \E got \in SUBSET {x \in rows : x.id \in Pulled(run[r].from)} :
       run' = [run EXCEPT ![r].incoming = got, ![r].next = "finish"]
  /\ UNCHANGED <<server, device>>

(* The page and one GET for each transaction created in it.  A GET of a     *)
(* deleted transaction is 400 (mapTransactionError); the client only takes  *)
(* 404 for an answer, so the run fails.                                     *)
Pull(r) ==
  /\ Saved(r, "pull")
  /\ IF \A id \in Pulled(run[r].from) : Live(id)
       THEN run' = [run EXCEPT ![r].incoming = {x \in rows : x.id \in Pulled(run[r].from)},
                               ![r].next = "finish",
                               ![r].quiet = @ /\ Whole(run[r].from)]
       ELSE Stop(r, "gone")
  /\ UNCHANGED <<server, device>>

(* The network gives out before a request gets through.                     *)
GoOffline(r) ==
  /\ run[r].pc = "push" \/ Saved(r, "pull")
  /\ Stop(r, "offline")
  /\ UNCHANGED <<server, device>>

(* The time stored is that of the end of the run.                           *)
Finish(r) ==
  /\ Saved(r, "finish")
  /\ since' = Len(log)
  /\ Stop(r, "ok")
  /\ UNCHANGED <<server, local, queue, saving>>

-----------------------------------------------------------------------------
Init ==
  /\ rows = {} /\ log = <<>>
  /\ local = [id \in Ids |-> None]
  /\ queue = <<>> /\ since = 0 /\ saving = None
  /\ run = [r \in Runs |-> Idle]

ProcessPending(r) == FetchBatch(r) \/ PushBatch(r) \/ MarkBatch(r)

SyncCall(r) ==
  ListUnsynced(r) \/ PostRow(r) \/ SaveRow(r) \/ EnqueueRow(r) \/ Pull(r) \/ Finish(r)

Next ==
  \/ \E x \in Remote : RemoteCreate(x) \/ RemoteDelete(x)
  \/ \E l \in Logged : LogTransaction(l) \/ DeleteTransaction(l)
  \/ EnqueueChange \/ Kill
  \/ \E r \in Runs : Start(r) \/ ProcessPending(r) \/ SyncCall(r) \/ GoOffline(r)

Spec == Init /\ [][Next]_vars

-----------------------------------------------------------------------------
(* Properties.                                                              *)

(* Every variable has its type; in particular no row of the device and no   *)
(* item of the queue is without a sync_id.                                  *)
TypeOK ==
  /\ rows \subseteq Row
  /\ log \in Seq(Entry)
  /\ \A id \in Ids : local[id] # None => local[id] \in LocalRow /\ local[id].id = id
  /\ queue \in Seq(Item)
  /\ since \in 0..Len(log)
  /\ \A r \in Runs :
       /\ run[r].incoming \subseteq Row
       /\ run[r].todo \subseteq LocalRow
       /\ run[r].from \in 0..Len(log)

(* A transaction another client posted is recorded once however often the   *)
(* device pulls it, posts it and pushes it, in runs that overlap, repeat    *)
(* and lose answers.  One that came without a sync_id is copied, but once.  *)
CopiedAtMostOnce ==
  \A x \in Remote :
    Cardinality({y \in rows : y.origin = x})
      <= (IF Recorded(SyncIdOf(x)) # {} THEN 1 ELSE 2)

(* A change leaves the queue only when the server has it, whatever the two  *)
(* runs that sent it were answered.                                         *)
AcceptedIsRecorded ==
  \A i \in 1..Len(queue) : queue[i].done => Recorded(queue[i].sync) # {}

(* What openapi.json says of a pull: "Pull server-side delta changes".      *)
(* As long as other clients write only between the runs, and no run had     *)
(* more than a page to pull, every creation logged up to `since' whose      *)
(* transaction still lives is on the device, so that no later pull has to   *)
(* deliver it.                                                              *)
SinceCovered ==
  (\A r \in Runs : run[r].quiet) =>
  \A i \in 1..since :
    log[i].op = "create" /\ Live(log[i].id) =>
      \E x \in rows : x.id = log[i].id /\ \E id \in Ids :
        local[id] # None /\ local[id].origin = x.origin

(* What usecases_test.dart:988 says of a run: "pushes unsynced transactions *)
(* and stores pulled changes".  No pull that was answered fails.            *)
PulledChangesStored == \A r \in Runs : run[r].outcome \notin {"gone", "clash"}
=============================================================================

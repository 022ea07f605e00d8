-------------------------- MODULE OfflineSyncProofs --------------------------
(***************************************************************************)
(* Proofs about OfflineSync, for any sets of transactions and runs and any *)
(* sizes of batch, page and queue: the state is well typed, what left the  *)
(* queue is recorded, a transaction is copied at most once, and the stored *)
(* time passes nothing that the device lacks.                              *)
(*                                                                         *)
(* The argument follows the sync_ids.  Wherever a transaction of another   *)
(* client lies on its way through the device, it carries one and the same  *)
(* sync_id: that of its row on the server, or the row's id when it has     *)
(* none.  The server makes at most one row for a sync_id.                  *)
(***************************************************************************)
EXTENDS OfflineSync, FiniteSetTheorems, TLAPS

Origins == Logged \cup Remote

RunStates == {"idle", "fetch", "push", "mark", "list", "post", "save", "enqueue", "ended"}

RunType == [pc: RunStates, batch: SUBSET Nat, accepted: SUBSET SyncIds,
            todo: SUBSET LocalRow, from: Nat, incoming: SUBSET Row,
            current: LocalRow \cup {None}, next: {"pull", "finish"},
            outcome: {"none", "ok", "offline", "refused", "gone", "clash"}, quiet: BOOLEAN]

(* The sync_id under which the device knows a row of the server.            *)
KeyOf(id, sync) == IF sync = None THEN id ELSE sync

(* The sync_id s is the one of the transaction o.                           *)
Known(s, o) ==
  IF o \in Logged THEN s = o
                  ELSE \E y \in rows : y.id = o /\ y.origin = o /\ s = KeyOf(o, y.sync)

(* A row of the server is what another client posted, or the one copy of    *)
(* what was posted without a sync_id.                                       *)
Original(y) == y.id = y.origin /\ y.sync \in {None, SyncIdOf(y.origin)}

Copy(y) ==
  /\ y.id = IdFor(y.origin) /\ y.sync = y.origin
  /\ \E z \in rows : z.id = y.origin /\ z.origin = y.origin /\ z.sync = None

RowsInv ==
  /\ \A y \in rows : y \in Row /\ y.origin \in Remote /\ (Original(y) \/ Copy(y))
  /\ \A y, z \in rows : y.id = z.id => y = z

LogInv == log \in Seq(Entry) /\ since \in 0..Len(log)

LocalInv ==
  /\ local = [id \in Ids |-> local[id]]
  /\ \A id \in Ids : local[id] # None =>
       /\ local[id] \in LocalRow /\ local[id].id = id
       /\ Known(local[id].sync, local[id].origin)
       /\ id \in Logged => local[id].sync = id /\ local[id].origin = id

QueueInv ==
  /\ queue \in Seq(Item)
  /\ \A i \in 1..Len(queue) :
       /\ queue[i].sync \in SyncIds
       /\ Known(queue[i].sync, queue[i].origin)
       /\ queue[i].done => Recorded(queue[i].sync) # {}

SavingInv ==
  saving # None =>
    /\ saving \in [op: {"create", "delete"}, row: LocalRow]
    /\ Known(saving.row.sync, saving.row.origin)
    /\ saving.op = "delete" => saving.row.id = saving.row.sync

(* What a run carries.                                                      *)
IncomingInv(y) ==
  y.id \notin Logged /\ y.origin \in Remote /\ Known(KeyOf(y.id, y.sync), y.origin)

RunInv(r) ==
  /\ \A i \in run[r].batch : i \in 1..Len(queue)
  /\ \A s \in run[r].accepted : Recorded(s) # {}
  /\ \A x \in run[r].todo : Known(x.sync, x.origin)
  /\ run[r].from <= Len(log)
  /\ \A y \in run[r].incoming : IncomingInv(y)
  /\ run[r].pc = "enqueue" =>
       run[r].current \in LocalRow /\ Known(run[r].current.sync, run[r].current.origin)

RunsInv == run \in [Runs -> RunType] /\ \A r \in Runs : RunInv(r)

SyncInv ==
  RowsInv /\ LogInv /\ LocalInv /\ QueueInv /\ SavingInv /\ RunsInv

-----------------------------------------------------------------------------
(* Ids.                                                                     *)

LEMMA IdsDiffer ==
  /\ \A x \in Remote : /\ x \notin Logged /\ x # None
                       /\ SyncIdOf(x) \notin Origins \cup {None}
                       /\ x \in Ids /\ x \in SyncIds /\ SyncIdOf(x) \in SyncIds
                       /\ IdFor(x) \in Ids
                       /\ IdFor(x) \notin Origins
  /\ \A l \in Logged : l \in Ids /\ l \in SyncIds /\ l # None
  /\ \A x, y : SyncIdOf(x) = SyncIdOf(y) => x = y
  /\ \A x, y : IdFor(x) = IdFor(y) => x = y
  BY SyncAssumption, IdAssumption DEF Origins, SyncIdOf, IdFor, Ids, SyncIds

LEMMA PairsDiffer == \A x, y : SyncIdOf(x) # IdFor(y)
  BY DEF SyncIdOf, IdFor

-----------------------------------------------------------------------------
(* The server's rows.                                                       *)

(* Whatever happens, the rows that there are keep their ids and sync_ids.   *)
RowsKept ==
  \A y \in rows : \E z \in rows' : z.id = y.id /\ z.sync = y.sync /\ z.origin = y.origin

LEMMA KnownStays ==
  ASSUME RowsKept
  PROVE  \A s, o : Known(s, o) => Known(s, o)'
  BY DEF RowsKept, Known, KeyOf

LEMMA RecordedStays ==
  ASSUME RowsKept
  PROVE  \A s : Recorded(s) # {} => Recorded(s)' # {}
  BY DEF RowsKept, Recorded

LEMMA CopyStays ==
  ASSUME RowsKept
  PROVE  \A y : Copy(y) => Copy(y)'
  BY DEF RowsKept, Copy

LEMMA UnchangedIsKept ==
  ASSUME UNCHANGED rows
  PROVE  RowsKept
  BY DEF RowsKept

LEMMA RowsAreKnown == RowsInv => \A y \in rows : IncomingInv(y)
  <1> SUFFICES ASSUME RowsInv, NEW y \in rows PROVE IncomingInv(y)
    OBVIOUS
  <1>1. y.origin \in Remote /\ (Original(y) \/ Copy(y))
    BY DEF RowsInv
  <1>2. CASE Original(y)
    BY <1>1, <1>2, IdsDiffer DEF Original, IncomingInv, Known, KeyOf, Origins
  <1>3. CASE Copy(y)
    BY <1>1, <1>3, IdsDiffer DEF Copy, IncomingInv, Known, KeyOf, Origins
  <1>4. QED
    BY <1>1, <1>2, <1>3

(* A sync_id stands for one transaction.                                    *)
LEMMA KnownSyncIds ==
  ASSUME RowsInv, NEW s, NEW o \in Origins, Known(s, o)
  PROVE  /\ s \in SyncIds
         /\ s \notin Logged => o \in Remote /\ s \in {o, SyncIdOf(o)}
  <1>1. CASE o \in Logged
    BY <1>1, IdsDiffer DEF Known
  <1>2. CASE o \in Remote
    <2>1. PICK y \in rows : y.id = o /\ y.origin = o /\ s = KeyOf(o, y.sync)
      BY <1>2, IdsDiffer DEF Known
    <2>2. Original(y)
      BY <1>2, <2>1, IdsDiffer DEF RowsInv, Copy, Origins
    <2>3. QED
      BY <1>2, <2>1, <2>2, IdsDiffer DEF Original, KeyOf
  <1>3. QED
    BY <1>1, <1>2 DEF Origins

(* What CreateTransaction answers with: a row there is, or the first copy.  *)
LEMMA CreatedIs ==
  ASSUME RowsInv, NEW s, s \notin Logged, NEW o \in Origins, Known(s, o)
  PROVE  \/ Created(s, o) \in rows /\ Created(s, o).sync = s
         \/ /\ Recorded(s) = {} /\ s = o /\ o \in Remote
            /\ Created(s, o) = [id |-> IdFor(o), sync |-> o, origin |-> o, deleted |-> FALSE]
            /\ \E z \in rows : z.id = o /\ z.origin = o /\ z.sync = None
  <1>1. CASE Recorded(s) # {}
    BY <1>1 DEF Created, Recorded
  <1>2. CASE Recorded(s) = {}
    <2>1. o \in Remote /\ o \notin Logged
      BY KnownSyncIds, IdsDiffer
    <2>2. PICK y \in rows : y.id = o /\ y.origin = o /\ s = KeyOf(o, y.sync)
      BY <2>1 DEF Known
    <2>3. y.sync = None /\ s = o
      BY <1>2, <2>2 DEF KeyOf, Recorded
    <2>4. QED
      BY <1>2, <2>1, <2>2, <2>3 DEF Created
  <1>3. QED
    BY <1>1, <1>2

(* Any number of creations, whether new or repeated, keep the rows in order. *)
LEMMA CreationsKeepRows ==
  ASSUME RowsInv, NEW C,
         \A c \in C : c.sync \notin Logged /\ c.origin \in Origins /\ Known(c.sync, c.origin),
         rows' = rows \cup {Created(c.sync, c.origin) : c \in C}
  PROVE  RowsKept /\ RowsInv' /\ \A c \in C : Recorded(c.sync)' # {}
  <1>1. RowsKept
    BY DEF RowsKept
  <1> DEFINE CopyOf(o) == [id |-> IdFor(o), sync |-> o, origin |-> o, deleted |-> FALSE]
  <1>2. ASSUME NEW y \in rows', y \notin rows
        PROVE  /\ y.origin \in Remote /\ y = CopyOf(y.origin) /\ Recorded(y.origin) = {}
               /\ \E z \in rows : z.id = y.origin /\ z.origin = y.origin /\ z.sync = None
    <2>1. PICK c \in C : y = Created(c.sync, c.origin)
      BY <1>2
    <2>2. /\ Recorded(c.sync) = {} /\ c.sync = c.origin /\ c.origin \in Remote
          /\ y = CopyOf(c.origin)
          /\ \E z \in rows : z.id = c.origin /\ z.origin = c.origin /\ z.sync = None
      BY <1>2, <2>1, CreatedIs
    <2>3. y.origin = c.origin
      BY <2>2
    <2>4. QED
      BY <2>2, <2>3
  <1>3. ASSUME NEW y \in rows'
        PROVE  y \in Row /\ y.origin \in Remote /\ (Original(y) \/ Copy(y))'
    <2>1. CASE y \in rows
      <3>1. y \in Row /\ y.origin \in Remote /\ (Original(y) \/ Copy(y))
        BY <2>1 DEF RowsInv
      <3>2. Copy(y) => Copy(y)'
        BY <1>1, CopyStays
      <3>3. QED
        BY <3>1, <3>2 DEF Original
    <2>2. CASE y \notin rows
      <3>1. /\ y.origin \in Remote /\ y = CopyOf(y.origin)
            /\ \E z \in rows : z.id = y.origin /\ z.origin = y.origin /\ z.sync = None
        BY <1>2, <2>2
      <3>2. Copy(y)'
        BY <3>1, <1>1 DEF Copy, RowsKept
      <3>3. \A o \in Remote : CopyOf(o) \in Row
        BY IdsDiffer DEF Row
      <3>4. y \in Row
        BY <3>1, <3>3
      <3>5. QED
        BY <3>1, <3>2, <3>4
    <2>3. QED
      BY <2>1, <2>2
  <1>4. ASSUME NEW y \in rows', NEW z \in rows', y.id = z.id
        PROVE  y = z
    <2>1. CASE y \in rows /\ z \in rows
      BY <1>4, <2>1 DEF RowsInv
    <2>2. ASSUME NEW a \in rows', NEW b \in rows', a \notin rows, b \in rows, a.id = b.id
          PROVE  FALSE
      <3>1. a.origin \in Remote /\ a = CopyOf(a.origin) /\ Recorded(a.origin) = {}
        BY <1>2, <2>2
      <3>2. b.id = IdFor(a.origin)
        BY <3>1, <2>2
      <3>3. Copy(b)
        BY <2>2, <3>1, <3>2, IdsDiffer DEF RowsInv, Original, Origins
      <3>4. b.sync = a.origin
        BY <3>2, <3>3, IdsDiffer DEF Copy
      <3>5. QED
        BY <2>2, <3>1, <3>4 DEF Recorded
    <2>3. CASE y \notin rows /\ z \notin rows
      <3>1. y = CopyOf(y.origin) /\ z = CopyOf(z.origin)
        BY <1>2, <2>3
      <3>2. y.id = IdFor(y.origin) /\ z.id = IdFor(z.origin)
        BY <3>1
      <3>3. y.origin = z.origin
        BY <3>2, <1>4, IdsDiffer
      <3>4. QED
        BY <3>1, <3>3
    <2>4. QED
      BY <1>4, <2>1, <2>2, <2>3
  <1>5. RowsInv'
    BY <1>3, <1>4 DEF RowsInv
  <1>6. ASSUME NEW c \in C
        PROVE  Recorded(c.sync)' # {}
    <2>1. Created(c.sync, c.origin) \in rows'
      OBVIOUS
    <2>2. Created(c.sync, c.origin).sync = c.sync
      BY CreatedIs
    <2>3. QED
      BY <2>1, <2>2 DEF Recorded
  <1>7. QED
    BY <1>1, <1>5, <1>6

(* A single creation. *)
LEMMA CreationKeepsRows ==
  ASSUME RowsInv, NEW s, s \notin Logged, NEW o \in Origins, Known(s, o),
         rows' = rows \cup {Created(s, o)}
  PROVE  /\ RowsKept /\ RowsInv'
         /\ Created(s, o) \in rows' /\ \A y \in rows' : y \in Row /\ IncomingInv(y)'
  <1> DEFINE C == {[sync |-> s, origin |-> o]}
  <1>1. rows' = rows \cup {Created(c.sync, c.origin) : c \in C}
    OBVIOUS
  <1>2. \A c \in C : c.sync \notin Logged /\ c.origin \in Origins /\ Known(c.sync, c.origin)
    OBVIOUS
  <1>3. RowsKept /\ RowsInv'
    <2> HIDE DEF C
    <2> QED
      BY <1>1, <1>2, CreationsKeepRows
  <1>4. \A y \in rows' : y \in Row /\ IncomingInv(y)'
    <2>1. RowsInv' => (\A y \in rows : IncomingInv(y))'
      BY RowsAreKnown, PTL
    <2>2. QED
      BY <1>3, <2>1 DEF RowsInv
  <1>5. QED
    BY <1>3, <1>4

LEMMA DeletionKeepsRows ==
  ASSUME RowsInv, NEW x,
         rows' = {IF y.id = x THEN [y EXCEPT !.deleted = TRUE] ELSE y : y \in rows}
  PROVE  RowsKept /\ RowsInv'
  <1> DEFINE Now(y) == IF y.id = x THEN [y EXCEPT !.deleted = TRUE] ELSE y
  <1>1. \A y \in rows : /\ y \in Row
                        /\ Now(y) \in Row /\ Now(y).id = y.id /\ Now(y).sync = y.sync
                        /\ Now(y).origin = y.origin
    BY DEF RowsInv, Row
  <1>2. rows' = {Now(y) : y \in rows}
    OBVIOUS
  <1>3. HIDE DEF Now
  <1>4. RowsKept
    BY <1>1, <1>2 DEF RowsKept
  <1>5. ASSUME NEW z \in rows'
        PROVE  z \in Row /\ z.origin \in Remote /\ (Original(z) \/ Copy(z))'
    <2>1. PICK y \in rows : z = Now(y)
      BY <1>2
    <2>2. z \in Row /\ z.id = y.id /\ z.sync = y.sync /\ z.origin = y.origin
      BY <1>1, <2>1
    <2>3. y.origin \in Remote /\ (Original(y) \/ Copy(y))
      BY DEF RowsInv
    <2>4. Original(y) => Original(z)'
      BY <2>2 DEF Original
    <2>5. Copy(y) => Copy(y)'
      BY <1>4, CopyStays
    <2>6. Copy(y)' => Copy(z)'
      BY <2>2 DEF Copy
    <2>7. QED
      BY <2>2, <2>3, <2>4, <2>5, <2>6 DEF Original
  <1>6. \A y, z \in rows' : y.id = z.id => y = z
    BY <1>1, <1>2 DEF RowsInv
  <1>7. QED
    BY <1>4, <1>5, <1>6 DEF RowsInv

-----------------------------------------------------------------------------
(* What a step leaves alone stays in order.                                 *)

LEMMA OthersStay ==
  ASSUME SyncInv, RowsKept
  PROVE  /\ UNCHANGED local => LocalInv'
         /\ UNCHANGED queue => QueueInv'
         /\ UNCHANGED saving => SavingInv'
         /\ UNCHANGED rows => RowsInv'
         /\ UNCHANGED <<log, since>> => LogInv'
  <1>1. UNCHANGED local => LocalInv'
    <2> SUFFICES ASSUME UNCHANGED local PROVE LocalInv'
      OBVIOUS
    <2> QED
      BY KnownStays DEF SyncInv, LocalInv
  <1>2. UNCHANGED queue => QueueInv'
    BY KnownStays, RecordedStays DEF SyncInv, QueueInv
  <1>3. UNCHANGED saving => SavingInv'
    BY KnownStays DEF SyncInv, SavingInv
  <1>4. UNCHANGED rows => RowsInv'
    BY DEF SyncInv, RowsInv, Original, Copy
  <1>5. UNCHANGED <<log, since>> => LogInv'
    BY DEF SyncInv, LogInv
  <1>6. QED
    BY <1>1, <1>2, <1>3, <1>4, <1>5

(* The tables grow. *)
Grows == RowsKept /\ Len(queue') >= Len(queue) /\ Len(log') >= Len(log)

LEMMA Lengths ==
  ASSUME SyncInv
  PROVE  Len(queue) \in Nat /\ Len(log) \in Nat
  BY DEF SyncInv, QueueInv, LogInv

(* A run that takes nothing new on stays in order.                          *)
LEMMA RunStays ==
  ASSUME SyncInv, Grows, QueueInv', LogInv', NEW r \in Runs,
         run'[r].batch \subseteq run[r].batch, run'[r].accepted \subseteq run[r].accepted,
         run'[r].todo \subseteq run[r].todo, run'[r].from \in {run[r].from, 0},
         run'[r].incoming \subseteq run[r].incoming,
         run'[r].pc = "enqueue" => run[r].pc = "enqueue" /\ run'[r].current = run[r].current
  PROVE  RunInv(r)'
  <1>1. Len(queue) \in Nat /\ Len(log) \in Nat /\ Len(queue') \in Nat /\ Len(log') \in Nat
    BY Lengths DEF QueueInv, LogInv
  <1>2. RunInv(r)
    BY DEF SyncInv, RunsInv
  <1>3. RowsKept
    BY DEF Grows
  <1>4. \A i \in run'[r].batch : i \in 1..Len(queue')
    BY <1>1, <1>2 DEF RunInv, Grows
  <1>5. \A q \in run'[r].accepted : Recorded(q)' # {}
    BY <1>2, <1>3, RecordedStays DEF RunInv
  <1>6. run'[r].from <= Len(log')
    BY <1>1, <1>2 DEF RunInv, Grows, SyncInv, RunsInv, RunType
  <1>7. \A y \in run'[r].incoming : IncomingInv(y)'
    BY <1>2, <1>3, KnownStays DEF RunInv, IncomingInv
  <1>8. \A x \in run'[r].todo : Known(x.sync, x.origin)'
    BY <1>2, <1>3, KnownStays DEF RunInv
  <1>9. run'[r].pc = "enqueue" =>
          run'[r].current \in LocalRow /\ Known(run[r].current.sync, run[r].current.origin)'
    <2> DEFINE x == run[r].current
    <2> SUFFICES ASSUME run'[r].pc = "enqueue"
                 PROVE  x' \in LocalRow /\ Known(x.sync, x.origin)'
      OBVIOUS
    <2>1. x \in LocalRow /\ Known(x.sync, x.origin) /\ x' = x
      BY <1>2 DEF RunInv
    <2>2. \A s, o : Known(s, o) => Known(s, o)'
      BY <1>3, KnownStays
    <2>3. PICK s, o : s = x.sync /\ o = x.origin
      OBVIOUS
    <2>4. Known(s, o)'
      BY <2>1, <2>2, <2>3
    <2>5. s = x'.sync /\ o = x'.origin
      BY <2>1, <2>3
    <2> HIDE DEF x
    <2>6. Known(x.sync, x.origin)'
      BY <2>4, <2>5 DEF Known
    <2>7. QED
      BY <2>1, <2>6
  <1>10. QED
    BY <1>4, <1>5, <1>6, <1>7, <1>8, <1>9 DEF RunInv

LEMMA RunsStay ==
  ASSUME SyncInv, Grows, QueueInv', LogInv', UNCHANGED run
  PROVE  RunsInv'
  <1>1. \A r \in Runs : RunInv(r)'
    BY RunStays
  <1>2. QED
    BY <1>1 DEF SyncInv, RunsInv

LEMMA EndedIs ==
  ASSUME SyncInv, NEW r \in Runs,
         NEW outcome \in {"none", "ok", "offline", "refused", "gone", "clash"}
  PROVE  /\ Ended(r, outcome) \in RunType
         /\ Ended(r, outcome).batch = {} /\ Ended(r, outcome).accepted = {}
         /\ Ended(r, outcome).todo = {} /\ Ended(r, outcome).from = 0
         /\ Ended(r, outcome).incoming = {} /\ Ended(r, outcome).pc = "ended"
  BY DEF SyncInv, RunsInv, RunType, Ended, Idle, RunStates

(* One run takes a step, the others none. *)
LEMMA OneRunMoves ==
  ASSUME SyncInv, Grows, QueueInv', LogInv', NEW r \in Runs, NEW new \in RunType,
         run' = [run EXCEPT ![r] = new], RunInv(r)'
  PROVE  RunsInv'
  <1>1. \A q \in Runs \ {r} : run'[q] = run[q]
    BY DEF SyncInv, RunsInv
  <1>2. \A q \in Runs \ {r} : RunInv(q)'
    BY <1>1, RunStays
  <1>3. run' \in [Runs -> RunType]
    BY DEF SyncInv, RunsInv
  <1>4. QED
    BY <1>2, <1>3 DEF RunsInv

LEMMA StopKeepsRuns ==
  ASSUME SyncInv, Grows, QueueInv', LogInv', NEW r \in Runs,
         NEW outcome \in {"none", "ok", "offline", "refused", "gone", "clash"},
         Stop(r, outcome)
  PROVE  RunsInv'
  <1> DEFINE new == Ended(r, outcome)
  <1>1. new \in RunType /\ run' = [run EXCEPT ![r] = new]
    BY EndedIs DEF Stop
  <1>2. run'[r] = new
    BY DEF SyncInv, RunsInv, Stop
  <1>3. /\ new.batch = {} /\ new.accepted = {} /\ new.todo = {} /\ new.from = 0
        /\ new.incoming = {} /\ new.pc = "ended"
    BY EndedIs
  <1> HIDE DEF new
  <1>4. RunInv(r)'
    BY <1>2, <1>3, RunStays
  <1>5. QED
    BY <1>1, <1>4, OneRunMoves

LEMMA DisturbKeepsRuns ==
  ASSUME SyncInv, Grows, QueueInv', LogInv', Disturb
  PROVE  RunsInv'
  <1>1. CASE Open = {}
    BY <1>1, RunsStay DEF Disturb
  <1>2. CASE Open # {}
    <2>1. run' = [r \in Runs |-> [run[r] EXCEPT !.quiet = FALSE]]
      BY <1>2 DEF Disturb
    <2>2. ASSUME NEW r \in Runs
          PROVE  /\ run'[r] \in RunType
                 /\ run'[r].batch = run[r].batch /\ run'[r].accepted = run[r].accepted
                 /\ run'[r].todo = run[r].todo /\ run'[r].from = run[r].from
                 /\ run'[r].incoming = run[r].incoming /\ run'[r].pc = run[r].pc
                 /\ run'[r].current = run[r].current
      BY <2>1 DEF SyncInv, RunsInv, RunType
    <2>3. \A r \in Runs : RunInv(r)'
      BY <2>2, RunStays
    <2>4. QED
      BY <2>1, <2>2, <2>3 DEF RunsInv
  <1>3. QED
    BY <1>1, <1>2

LEMMA RecordKeepsLog ==
  ASSUME SyncInv, NEW op \in {"create", "delete"}, NEW id \in Ids, Record(op, id),
         UNCHANGED since
  PROVE  LogInv' /\ Len(log') >= Len(log)
  <1> DEFINE e == [op |-> op, id |-> id]
  <1>1. e \in Entry
    BY DEF Entry
  <1>2. log' = Append(log, e) \/ log' = log
    BY DEF Record
  <1> HIDE DEF e
  <1>3. log \in Seq(Entry) /\ since \in 0..Len(log)
    BY DEF SyncInv, LogInv
  <1>4. log' \in Seq(Entry) /\ Len(log') \in {Len(log), Len(log) + 1} /\ Len(log) \in Nat
    BY <1>1, <1>2, <1>3
  <1>5. QED
    BY <1>3, <1>4 DEF LogInv

LEMMA QueuedIsInOrder ==
  ASSUME SyncInv, UNCHANGED rows, NEW op \in {"create", "delete"}, NEW x \in LocalRow,
         Known(x.sync, x.origin), op = "delete" => x.id = x.sync,
         queue' = Queued(op, x)
  PROVE  QueueInv' /\ Len(queue') >= Len(queue)
  <1> DEFINE c == [op |-> op, id |-> x.id, sync |-> IF op = "create" THEN x.sync ELSE x.id,
                   origin |-> x.origin, done |-> FALSE]
  <1>1. c \in Item /\ c.sync = x.sync /\ c.sync \in SyncIds /\ c.origin = x.origin /\ ~c.done
    BY DEF Item, LocalRow
  <1>2. queue' = Append(queue, c)
    BY DEF Queued
  <1>3. RowsKept
    BY UnchangedIsKept
  <1>4. Known(c.sync, c.origin)
    BY <1>1
  <1> HIDE DEF c
  <1>5. queue' \in Seq(Item) /\ Len(queue') = Len(queue) + 1 /\ Len(queue) \in Nat
    BY <1>1, <1>2 DEF SyncInv, QueueInv
  <1>6. ASSUME NEW i \in 1..Len(queue')
        PROVE  /\ queue'[i].sync \in SyncIds
               /\ Known(queue[i].sync, queue[i].origin)'
               /\ queue'[i].done => Recorded(queue[i].sync)' # {}
    <2>1. CASE i \in 1..Len(queue)
      <3>1. queue'[i] = queue[i]
        BY <1>1, <1>2, <2>1 DEF SyncInv, QueueInv
      <3>2. QED
        BY <2>1, <3>1 DEF SyncInv, QueueInv, Known, Recorded
    <2>2. CASE i = Len(queue) + 1
      <3>1. queue'[i] = c
        BY <1>1, <1>2, <2>2 DEF SyncInv, QueueInv
      <3>2. QED
        BY <1>1, <1>4, <3>1 DEF Known, Recorded
    <2>3. QED
      BY <1>5, <2>1, <2>2
  <1>7. QED
    BY <1>5, <1>6 DEF QueueInv

LEMMA SavedLocally ==
  ASSUME SyncInv, UNCHANGED rows, NEW id \in Ids, NEW x \in LocalRow, x.id = id,
         Known(x.sync, x.origin), id \in Logged => x.sync = id /\ x.origin = id,
         local' = [local EXCEPT ![id] = x]
  PROVE  LocalInv'
  <1>1. local' = [i \in Ids |-> local'[i]]
    BY DEF SyncInv, LocalInv
  <1>2. ASSUME NEW i \in Ids
        PROVE  local'[i] = IF i = id THEN x ELSE local[i]
    BY DEF SyncInv, LocalInv
  <1>3. \A s, o : Known(s, o) => Known(s, o)'
    BY UnchangedIsKept, KnownStays
  <1>4. ASSUME NEW i \in Ids, local'[i] # None
        PROVE  /\ local'[i] \in LocalRow /\ local'[i].id = i
               /\ Known(local[i].sync, local[i].origin)'
               /\ i \in Logged => local'[i].sync = i /\ local'[i].origin = i
    <2>1. CASE i = id
      <3>1. local'[i] = x
        BY <1>2, <2>1
      <3>2. Known(local[i].sync, local[i].origin)'
        BY <1>3, <3>1 DEF Known
      <3>3. QED
        BY <2>1, <3>1, <3>2
    <2>2. CASE i # id
      <3>1. local'[i] = local[i]
        BY <1>2, <2>2
      <3>2. QED
        BY <1>3, <1>4, <3>1 DEF SyncInv, LocalInv, Known
    <2>3. QED
      BY <2>1, <2>2
  <1>5. QED
    BY <1>1, <1>4 DEF LocalInv

-----------------------------------------------------------------------------
(* Each action keeps the invariant: the other clients and the user.         *)

LEMMA Initially == Init => SyncInv
  <1> SUFFICES ASSUME Init PROVE SyncInv
    OBVIOUS
  <1>1. Idle \in RunType
    BY DEF Idle, RunType, RunStates
  <1>2. RunsInv
    <2>1. \A r \in Runs : run[r] = Idle
      BY DEF Init
    <2>2. \A r \in Runs : RunInv(r)
      BY <2>1 DEF RunInv, Init, Idle
    <2>3. QED
      BY <1>1, <2>2 DEF RunsInv, Init
  <1>3. LocalInv
    BY DEF Init, LocalInv
  <1>4. RowsInv /\ LogInv /\ QueueInv /\ SavingInv
    BY DEF Init, RowsInv, LogInv, QueueInv, SavingInv
  <1>5. QED
    BY <1>2, <1>3, <1>4 DEF SyncInv

LEMMA RemoteCreateKeeps ==
  ASSUME SyncInv, NEW x \in Remote, RemoteCreate(x)
  PROVE  SyncInv'
  <1>1. PICK s \in {SyncIdOf(x), None} :
          rows' = rows \cup {[id |-> x, sync |-> s, origin |-> x, deleted |-> FALSE]}
    BY DEF RemoteCreate
  <1> DEFINE n == [id |-> x, sync |-> s, origin |-> x, deleted |-> FALSE]
  <1>2. n \in Row /\ n.id = x /\ n.origin = x /\ n.sync = s
    BY IdsDiffer DEF Row
  <1>3. rows' = rows \cup {n} /\ \A y \in rows : y.id # x
    BY <1>1 DEF RemoteCreate
  <1> HIDE DEF n
  <1>4. RowsKept
    BY <1>3 DEF RowsKept
  <1>5. RowsInv'
    <2>1. \A y \in rows : Copy(y) => Copy(y)'
      BY <1>4, CopyStays
    <2>2. \A y \in rows' : y \in Row /\ y.origin \in Remote /\ (Original(y) \/ Copy(y)')
      BY <1>2, <1>3, <2>1 DEF SyncInv, RowsInv, Original
    <2>3. \A y, z \in rows' : y.id = z.id => y = z
      BY <1>2, <1>3 DEF SyncInv, RowsInv
    <2>4. QED
      BY <2>2, <2>3 DEF RowsInv, Original
  <1>6. LogInv' /\ Len(log') >= Len(log)
    BY IdsDiffer, RecordKeepsLog DEF RemoteCreate, device
  <1>7. LocalInv' /\ QueueInv' /\ SavingInv' /\ Len(queue') >= Len(queue)
    BY <1>4, OthersStay, Lengths DEF RemoteCreate, device
  <1>8. RunsInv'
    BY <1>4, <1>6, <1>7, DisturbKeepsRuns DEF Grows, RemoteCreate
  <1>9. QED
    BY <1>5, <1>6, <1>7, <1>8 DEF SyncInv

LEMMA RemoteDeleteKeeps ==
  ASSUME SyncInv, NEW x \in Remote, RemoteDelete(x)
  PROVE  SyncInv'
  <1>1. RowsKept /\ RowsInv'
    BY DeletionKeepsRows DEF RemoteDelete, SyncInv
  <1>2. LogInv' /\ Len(log') >= Len(log)
    BY IdsDiffer, RecordKeepsLog DEF RemoteDelete, device
  <1>3. LocalInv' /\ QueueInv' /\ SavingInv' /\ Len(queue') >= Len(queue)
    BY <1>1, OthersStay, Lengths DEF RemoteDelete, device
  <1>4. RunsInv'
    BY <1>1, <1>2, <1>3, DisturbKeepsRuns DEF Grows, RemoteDelete
  <1>5. QED
    BY <1>1, <1>2, <1>3, <1>4 DEF SyncInv

LEMMA LogTransactionKeeps ==
  ASSUME SyncInv, NEW l \in Logged, LogTransaction(l)
  PROVE  SyncInv'
  <1> DEFINE x == Pending(l, None, l)
  <1>1. /\ x \in LocalRow /\ x.id = l /\ x.sync = l /\ x.origin = l
        /\ Known(x.sync, x.origin)
    BY IdsDiffer DEF Pending, LocalRow, Known
  <1>2. /\ local' = [local EXCEPT ![l] = x] /\ saving' = [op |-> "create", row |-> x]
        /\ UNCHANGED <<server, queue, since, run>>
    BY DEF LogTransaction
  <1> HIDE DEF x
  <1>3. UNCHANGED rows /\ RowsKept /\ l \in Ids
    BY <1>2, UnchangedIsKept, IdsDiffer DEF server
  <1>4. LocalInv'
    BY <1>1, <1>2, <1>3, SavedLocally
  <1>5. SavingInv'
    BY <1>1, <1>2, <1>3 DEF SavingInv, Known
  <1>6. RowsInv' /\ LogInv' /\ QueueInv' /\ Grows
    BY <1>2, <1>3, OthersStay, Lengths DEF server, Grows
  <1>7. RunsInv'
    BY <1>2, <1>6, RunsStay
  <1>8. QED
    BY <1>4, <1>5, <1>6, <1>7 DEF SyncInv

LEMMA DeleteTransactionKeeps ==
  ASSUME SyncInv, NEW l \in Logged, DeleteTransaction(l)
  PROVE  SyncInv'
  <1> DEFINE x == [local[l] EXCEPT !.deleted = TRUE]
             old == local[l]
  <1>1. /\ old \in LocalRow /\ old.id = l /\ old.sync = l /\ old.origin = l
        /\ Known(old.sync, old.origin)
    BY IdsDiffer DEF DeleteTransaction, SyncInv, LocalInv
  <1>2. /\ x \in LocalRow /\ x.id = l /\ x.sync = l /\ x.origin = l
        /\ Known(x.sync, x.origin)
    BY <1>1 DEF LocalRow
  <1>3. /\ local' = [local EXCEPT ![l] = x] /\ saving' = [op |-> "delete", row |-> old]
        /\ UNCHANGED <<server, queue, since, run>>
    BY DEF DeleteTransaction
  <1>4. UNCHANGED rows /\ RowsKept /\ l \in Ids
    BY <1>3, UnchangedIsKept, IdsDiffer DEF server
  <1> HIDE DEF x
  <1>5. LocalInv'
    BY <1>2, <1>3, <1>4, SavedLocally
  <1> HIDE DEF old
  <1>6. SavingInv'
    BY <1>1, <1>3, <1>4 DEF SavingInv, Known
  <1>7. RowsInv' /\ LogInv' /\ QueueInv' /\ Grows
    BY <1>3, <1>4, OthersStay, Lengths DEF server, Grows
  <1>8. RunsInv'
    BY <1>3, <1>7, RunsStay
  <1>9. QED
    BY <1>5, <1>6, <1>7, <1>8 DEF SyncInv

LEMMA EnqueueChangeKeeps ==
  ASSUME SyncInv, EnqueueChange
  PROVE  SyncInv'
  <1>1. UNCHANGED rows /\ RowsKept /\ UNCHANGED <<log, since, local, run>>
    BY UnchangedIsKept DEF EnqueueChange, server
  <1>2. QueueInv' /\ Len(queue') >= Len(queue)
    <2>1. /\ saving.op \in {"create", "delete"} /\ saving.row \in LocalRow
          /\ Known(saving.row.sync, saving.row.origin)
          /\ saving.op = "delete" => saving.row.id = saving.row.sync
      BY DEF EnqueueChange, SyncInv, SavingInv
    <2>2. QED
      BY <1>1, <2>1, QueuedIsInOrder DEF EnqueueChange
  <1>3. SavingInv'
    BY DEF EnqueueChange, SavingInv
  <1>4. RowsInv' /\ LogInv' /\ LocalInv' /\ Grows
    BY <1>1, <1>2, OthersStay, Lengths DEF Grows
  <1>5. RunsInv'
    BY <1>1, <1>2, <1>4, RunsStay
  <1>6. QED
    BY <1>2, <1>3, <1>4, <1>5 DEF SyncInv

LEMMA KillKeeps ==
  ASSUME SyncInv, Kill
  PROVE  SyncInv'
  <1>1. UNCHANGED rows /\ RowsKept /\ UNCHANGED <<log, since, local, queue>>
    BY UnchangedIsKept DEF Kill, server
  <1>2. SavingInv'
    BY DEF Kill, SavingInv
  <1>3. RowsInv' /\ LogInv' /\ LocalInv' /\ QueueInv' /\ Grows
    BY <1>1, OthersStay, Lengths DEF Grows
  <1>4. run' = [r \in Runs |-> IF r \in Open THEN Ended(r, "offline") ELSE run[r]]
    BY DEF Kill
  <1>5. ASSUME NEW r \in Runs
        PROVE  run'[r] \in RunType /\ RunInv(r)'
    <2>1. CASE r \in Open
      <3>1. run'[r] = Ended(r, "offline")
        BY <1>4, <2>1
      <3>2. QED
        BY <1>3, <3>1, EndedIs, RunStays
    <2>2. CASE r \notin Open
      <3>1. run'[r] = run[r] /\ run[r] \in RunType
        BY <1>4, <2>2 DEF SyncInv, RunsInv
      <3>2. QED
        BY <1>3, <3>1, RunStays
    <2>3. QED
      BY <2>1, <2>2
  <1>6. RunsInv'
    BY <1>4, <1>5 DEF RunsInv
  <1>7. QED
    BY <1>2, <1>3, <1>6 DEF SyncInv

-----------------------------------------------------------------------------
(* The runs.                                                                *)

(* What a step of a run that leaves the tables alone has to show.           *)
LEMMA OnlyRunMoves ==
  ASSUME SyncInv, UNCHANGED <<server, device>>, NEW r \in Runs, NEW new \in RunType,
         run' = [run EXCEPT ![r] = new], RunInv(r)'
  PROVE  SyncInv'
  <1>1. RowsKept
    BY UnchangedIsKept DEF server
  <1>2. RowsInv' /\ LogInv' /\ LocalInv' /\ QueueInv' /\ SavingInv' /\ Grows
    BY <1>1, OthersStay, Lengths DEF Grows, server, device
  <1>3. RunsInv'
    BY <1>2, OneRunMoves
  <1>4. QED
    BY <1>2, <1>3 DEF SyncInv

LEMMA StopOnly ==
  ASSUME SyncInv, UNCHANGED <<server, device>>, NEW r \in Runs,
         NEW outcome \in {"none", "ok", "offline", "refused", "gone", "clash"},
         Stop(r, outcome)
  PROVE  SyncInv'
  <1>1. RowsKept
    BY UnchangedIsKept DEF server
  <1>2. RowsInv' /\ LogInv' /\ LocalInv' /\ QueueInv' /\ SavingInv' /\ Grows
    BY <1>1, OthersStay, Lengths DEF Grows, server, device
  <1>3. RunsInv'
    BY <1>2, StopKeepsRuns
  <1>4. QED
    BY <1>2, <1>3 DEF SyncInv

(* The same with the run's old invariant at hand. *)
LEMMA RunLeavesLess ==
  ASSUME SyncInv, UNCHANGED <<server, device>>, NEW r \in Runs, NEW new \in RunType,
         run' = [run EXCEPT ![r] = new],
         new.batch \subseteq run[r].batch, new.accepted \subseteq run[r].accepted,
         new.todo \subseteq run[r].todo, new.from \in {run[r].from, 0},
         new.incoming \subseteq run[r].incoming, new.pc # "enqueue"
  PROVE  SyncInv'
  <1>1. RowsKept
    BY UnchangedIsKept DEF server
  <1>2. QueueInv' /\ LogInv' /\ Grows
    BY <1>1, OthersStay, Lengths DEF Grows, server, device
  <1>3. run'[r] = new
    BY DEF SyncInv, RunsInv
  <1>4. RunInv(r)'
    BY <1>2, <1>3, RunStays
  <1>5. QED
    BY <1>4, OnlyRunMoves

LEMMA StartKeeps ==
  ASSUME SyncInv, NEW r \in Runs, Start(r)
  PROVE  SyncInv'
  <1> DEFINE new == [run[r] EXCEPT !.pc = IF r \in Background THEN "fetch" ELSE "list"]
  <1>1. run[r] \in RunType
    BY DEF SyncInv, RunsInv
  <1>2. /\ new \in RunType /\ new.batch = run[r].batch /\ new.accepted = run[r].accepted
        /\ new.todo = run[r].todo /\ new.from = run[r].from
        /\ new.incoming = run[r].incoming /\ new.pc # "enqueue"
    BY <1>1 DEF RunType, RunStates
  <1>3. run' = [run EXCEPT ![r] = new] /\ UNCHANGED <<server, device>>
    BY DEF Start
  <1> HIDE DEF new
  <1>4. QED
    BY <1>2, <1>3, RunLeavesLess

LEMMA FetchBatchKeeps ==
  ASSUME SyncInv, NEW r \in Runs, FetchBatch(r)
  PROVE  SyncInv'
  <1> DEFINE new == [run[r] EXCEPT !.batch = PendingBatch,
                                   !.pc = IF PendingBatch = {} THEN "list" ELSE "push"]
  <1>1. run[r] \in RunType /\ RunInv(r)
    BY DEF SyncInv, RunsInv
  <1>2. PendingBatch \subseteq 1..Len(queue)
    BY DEF PendingBatch, Oldest
  <1>3. /\ new \in RunType /\ new.batch = PendingBatch /\ new.accepted = run[r].accepted
        /\ new.todo = run[r].todo /\ new.from = run[r].from
        /\ new.incoming = run[r].incoming /\ new.pc # "enqueue"
    <2>1. PendingBatch \in SUBSET Nat
      BY <1>2, Lengths
    <2>2. QED
      BY <1>1, <2>1 DEF RunType, RunStates
  <1>4. run' = [run EXCEPT ![r] = new] /\ UNCHANGED <<server, device>>
    BY DEF FetchBatch
  <1>5. run'[r] = new
    BY <1>4 DEF SyncInv, RunsInv
  <1> HIDE DEF new
  <1>6. UNCHANGED <<rows, queue, log>>
    BY <1>4 DEF server, device
  <1>7. RunInv(r)'
    BY <1>1, <1>2, <1>3, <1>5, <1>6 DEF RunInv, Recorded, Known, IncomingInv
  <1>8. QED
    BY <1>3, <1>4, <1>7, OnlyRunMoves

LEMMA PushBatchKeeps ==
  ASSUME SyncInv, NEW r \in Runs, PushBatch(r)
  PROVE  SyncInv'
  <1>1. UNCHANGED <<log, device>>
    BY DEF PushBatch
  <1>2. ASSUME RowsKept, RowsInv'
        PROVE  LogInv' /\ LocalInv' /\ QueueInv' /\ SavingInv' /\ Grows
    BY <1>1, <1>2, OthersStay, Lengths DEF Grows, device
  <1>3. CASE Stop(r, "refused") /\ UNCHANGED rows
    <2>1. RowsKept /\ RowsInv'
      BY <1>3, UnchangedIsKept, OthersStay
    <2>2. RunsInv'
      BY <1>2, <1>3, <2>1, StopKeepsRuns
    <2>3. QED
      BY <1>2, <2>1, <2>2 DEF SyncInv
  <1>4. ASSUME NEW applied \in SUBSET Sent(r), \A c \in Sent(r) : Uuid(c.sync),
               rows' = rows \cup {Created(c.sync, c.origin) : c \in applied},
               \/ run' = [run EXCEPT ![r].accepted = {c.sync : c \in applied},
                                     ![r].pc = "mark"]
               \/ Stop(r, "offline")
        PROVE  SyncInv'
    <2>1. run[r] \in RunType /\ RunInv(r)
      BY DEF SyncInv, RunsInv
    <2>2. \A c \in Sent(r) : /\ c.sync \in SyncIds /\ c.origin \in Origins
                             /\ Known(c.sync, c.origin)
      <3>1. ASSUME NEW i \in run[r].batch
            PROVE  /\ queue[i] \in Item /\ queue[i].sync \in SyncIds
                   /\ Known(queue[i].sync, queue[i].origin)
        BY <2>1 DEF RunInv, SyncInv, QueueInv
      <3>2. QED
        BY <3>1 DEF Sent, Item, Origins
    <2>3. \A c \in applied : /\ c.sync \notin Logged /\ c.origin \in Origins
                             /\ Known(c.sync, c.origin)
      BY <1>4, <2>2 DEF Uuid
    <2>4. RowsKept /\ RowsInv' /\ \A c \in applied : Recorded(c.sync)' # {}
      BY <1>4, <2>3, CreationsKeepRows DEF SyncInv
    <2>5. LogInv' /\ LocalInv' /\ QueueInv' /\ SavingInv' /\ Grows
      BY <1>2, <2>4
    <2>6. CASE Stop(r, "offline")
      BY <2>4, <2>5, <2>6, StopKeepsRuns DEF SyncInv
    <2>7. CASE run' = [run EXCEPT ![r].accepted = {c.sync : c \in applied}, ![r].pc = "mark"]
      <3> DEFINE acc == {c.sync : c \in applied}
                 new == [run[r] EXCEPT !.accepted = acc, !.pc = "mark"]
      <3>1. acc \subseteq SyncIds /\ \A s \in acc : Recorded(s)' # {}
        BY <2>2, <2>4
      <3> HIDE DEF acc
      <3>2. /\ new \in RunType /\ new.batch = run[r].batch /\ new.accepted = acc
            /\ new.todo = run[r].todo /\ new.from = run[r].from
            /\ new.incoming = run[r].incoming /\ new.pc = "mark"
        BY <2>1, <3>1 DEF RunType, RunStates
      <3>3. run' = [run EXCEPT ![r] = new]
        BY <2>7 DEF acc
      <3>4. run'[r] = new
        BY <3>3 DEF SyncInv, RunsInv
      <3> HIDE DEF new
      <3>5. UNCHANGED <<queue, log>>
        BY <1>1 DEF device
      <3>6. \A s, o : Known(s, o) => Known(s, o)'
        BY <2>4, KnownStays
      <3>7. /\ \A x \in run'[r].todo : Known(x.sync, x.origin)'
            /\ \A y \in run'[r].incoming : IncomingInv(y)'
        BY <2>1, <3>2, <3>4, <3>6 DEF RunInv, IncomingInv
      <3>8. RunInv(r)'
        BY <2>1, <3>1, <3>2, <3>4, <3>5, <3>7 DEF RunInv
      <3>9. RunsInv'
        BY <2>5, <3>2, <3>3, <3>8, OneRunMoves
      <3>10. QED
        BY <2>4, <2>5, <3>9 DEF SyncInv
    <2>8. QED
      BY <1>4, <2>6, <2>7
  <1>5. QED
    BY <1>3, <1>4 DEF PushBatch

LEMMA MarkBatchKeeps ==
  ASSUME SyncInv, NEW r \in Runs, MarkBatch(r)
  PROVE  SyncInv'
  <1>1. run[r] \in RunType /\ RunInv(r)
    BY DEF SyncInv, RunsInv
  <1>2. PICK n \in 0..Cardinality(run[r].batch) :
          /\ queue' = [i \in 1..Len(queue) |->
                         IF i \in Oldest(run[r].batch, n) /\ queue[i].sync \in run[r].accepted
                           THEN [queue[i] EXCEPT !.done = TRUE] ELSE queue[i]]
          /\ IF n < Cardinality(run[r].batch)
               THEN Stop(r, "offline")
               ELSE run' = [run EXCEPT ![r].pc = IF n < BatchSize THEN "list" ELSE "fetch"]
    BY DEF MarkBatch
  <1>3. UNCHANGED <<server, local, since, saving>> /\ RowsKept
    BY UnchangedIsKept DEF MarkBatch, server
  <1>4. ASSUME NEW i \in 1..Len(queue)
        PROVE  /\ queue'[i] \in Item /\ queue'[i].sync = queue[i].sync
               /\ queue'[i].origin = queue[i].origin
               /\ queue'[i].done => queue[i].done \/ queue[i].sync \in run[r].accepted
    <2>1. queue[i] \in Item
      BY DEF SyncInv, QueueInv
    <2>2. [queue[i] EXCEPT !.done = TRUE] \in Item
      BY <2>1 DEF Item
    <2>3. \/ queue'[i] = [queue[i] EXCEPT !.done = TRUE] /\ queue[i].sync \in run[r].accepted
          \/ queue'[i] = queue[i]
      BY <1>2
    <2>4. QED
      BY <2>1, <2>2, <2>3 DEF Item
  <1>5. queue' \in Seq(Item) /\ Len(queue') = Len(queue)
    <2>1. Len(queue) \in Nat
      BY Lengths
    <2>2. queue' \in [1..Len(queue) -> Item]
      BY <1>2, <1>4
    <2>3. queue' \in Seq(Item)
      BY <2>1, <2>2
    <2>4. QED
      BY <2>1, <2>2, <2>3
  <1>6. QueueInv'
    <2>1. ASSUME NEW i \in 1..Len(queue')
          PROVE  /\ queue'[i].sync \in SyncIds
                 /\ Known(queue[i].sync, queue[i].origin)'
                 /\ queue'[i].done => Recorded(queue[i].sync)' # {}
      <3>1. /\ queue[i].sync \in SyncIds /\ Known(queue[i].sync, queue[i].origin)
            /\ queue[i].done \/ queue[i].sync \in run[r].accepted
                 => Recorded(queue[i].sync) # {}
        BY <1>1, <1>5 DEF SyncInv, QueueInv, RunInv
      <3>2. /\ queue'[i].sync = queue[i].sync /\ queue'[i].origin = queue[i].origin
            /\ queue'[i].done => queue[i].done \/ queue[i].sync \in run[r].accepted
        BY <1>4, <1>5
      <3>3. UNCHANGED rows
        BY <1>3 DEF server
      <3>4. QED
        BY <3>1, <3>2, <3>3 DEF Known, Recorded
    <2>2. QED
      BY <1>5, <2>1 DEF QueueInv
  <1>7. RowsInv' /\ LogInv' /\ LocalInv' /\ SavingInv' /\ Grows
    BY <1>3, <1>5, OthersStay, Lengths DEF Grows, server
  <1>8. RunsInv'
    <2>1. CASE Stop(r, "offline")
      BY <1>6, <1>7, <2>1, StopKeepsRuns
    <2>2. CASE run' = [run EXCEPT ![r].pc = IF n < BatchSize THEN "list" ELSE "fetch"]
      <3> DEFINE new == [run[r] EXCEPT !.pc = IF n < BatchSize THEN "list" ELSE "fetch"]
      <3>1. /\ new \in RunType /\ new.batch = run[r].batch /\ new.accepted = run[r].accepted
            /\ new.todo = run[r].todo /\ new.from = run[r].from
            /\ new.incoming = run[r].incoming /\ new.pc # "enqueue"
        BY <1>1 DEF RunType, RunStates
      <3>2. run' = [run EXCEPT ![r] = new]
        BY <2>2
      <3>3. run'[r] = new
        BY <3>2 DEF SyncInv, RunsInv
      <3> HIDE DEF new
      <3>4. RunInv(r)'
        BY <1>6, <1>7, <3>1, <3>3, RunStays
      <3>5. QED
        BY <1>6, <1>7, <3>1, <3>2, <3>4, OneRunMoves
    <2>3. QED
      BY <1>2, <2>1, <2>2
  <1>9. QED
    BY <1>6, <1>7, <1>8 DEF SyncInv

LEMMA ListUnsyncedKeeps ==
  ASSUME SyncInv, NEW r \in Runs, ListUnsynced(r)
  PROVE  SyncInv'
  <1> DEFINE new == [run[r] EXCEPT !.from = since, !.todo = Unsynced,
                                   !.pc = IF Unsynced = {} THEN "save" ELSE "post"]
  <1>1. run[r] \in RunType /\ RunInv(r)
    BY DEF SyncInv, RunsInv
  <1>2. Unsynced \in SUBSET LocalRow /\ \A x \in Unsynced : Known(x.sync, x.origin)
    BY DEF Unsynced, SyncInv, LocalInv
  <1>3. since \in Nat /\ since <= Len(log)
    BY Lengths DEF SyncInv, LogInv
  <1>4. /\ new \in RunType /\ new.batch = run[r].batch /\ new.accepted = run[r].accepted
        /\ new.todo = Unsynced /\ new.from = since
        /\ new.incoming = run[r].incoming /\ new.pc # "enqueue"
    BY <1>1, <1>2, <1>3 DEF RunType, RunStates
  <1>5. run' = [run EXCEPT ![r] = new] /\ UNCHANGED <<server, device>>
    BY DEF ListUnsynced
  <1>6. run'[r] = new
    BY <1>5 DEF SyncInv, RunsInv
  <1> HIDE DEF new
  <1>7. UNCHANGED <<rows, queue, log>>
    BY <1>5 DEF server, device
  <1>8. RunInv(r)'
    BY <1>1, <1>2, <1>3, <1>4, <1>6, <1>7 DEF RunInv, Recorded, Known, IncomingInv
  <1>9. QED
    BY <1>4, <1>5, <1>8, OnlyRunMoves

LEMMA PullKeeps ==
  ASSUME SyncInv, NEW r \in Runs, Pull(r)
  PROVE  SyncInv'
  <1>1. UNCHANGED <<server, device>>
    BY DEF Pull
  <1>2. CASE Stop(r, "gone")
    BY <1>1, <1>2, StopOnly
  <1>3. CASE run' = [run EXCEPT ![r].incoming = {x \in rows : x.id \in Pulled(run[r].from)},
                                ![r].next = "finish",
                                ![r].quiet = run[r].quiet /\ Whole(run[r].from)]
    <2> DEFINE got == {x \in rows : x.id \in Pulled(run[r].from)}
               calm == run[r].quiet /\ Whole(run[r].from)
               new == [run[r] EXCEPT !.incoming = got, !.next = "finish", !.quiet = calm]
    <2>1. run[r] \in RunType /\ RunInv(r) /\ run[r].pc = "save"
      BY DEF SyncInv, RunsInv, Pull, Saved
    <2>2. got \in SUBSET Row /\ \A y \in got : IncomingInv(y)
      BY RowsAreKnown DEF SyncInv, RowsInv
    <2>3. run' = [run EXCEPT ![r] = new]
      BY <1>3
    <2> calm \in BOOLEAN
      OBVIOUS
    <2> HIDE DEF got, calm
    <2>4. /\ new \in RunType /\ new.batch = run[r].batch /\ new.accepted = run[r].accepted
          /\ new.todo = run[r].todo /\ new.from = run[r].from
          /\ new.incoming = got /\ new.pc = "save"
      BY <2>1, <2>2 DEF RunType
    <2>5. run'[r] = new
      BY <2>3 DEF SyncInv, RunsInv
    <2> HIDE DEF new
    <2>6. UNCHANGED <<rows, queue, log>>
      BY <1>1 DEF server, device
    <2>7. RunInv(r)'
      BY <2>1, <2>2, <2>4, <2>5, <2>6 DEF RunInv, Recorded, Known, IncomingInv
    <2>8. QED
      BY <1>1, <2>3, <2>4, <2>7, OnlyRunMoves
  <1>4. QED
    BY <1>2, <1>3 DEF Pull

LEMMA GoOfflineKeeps ==
  ASSUME SyncInv, NEW r \in Runs, GoOffline(r)
  PROVE  SyncInv'
  BY StopOnly DEF GoOffline

LEMMA FinishKeeps ==
  ASSUME SyncInv, NEW r \in Runs, Finish(r)
  PROVE  SyncInv'
  <1>1. UNCHANGED <<server, local, queue, saving>> /\ RowsKept
    BY UnchangedIsKept DEF Finish, server
  <1>2. LogInv' /\ Len(log') >= Len(log)
    BY <1>1, Lengths DEF Finish, server, SyncInv, LogInv
  <1>3. RowsInv' /\ LocalInv' /\ QueueInv' /\ SavingInv' /\ Grows
    BY <1>1, <1>2, OthersStay, Lengths DEF Grows, server
  <1>4. RunsInv'
    BY <1>2, <1>3, StopKeepsRuns DEF Finish
  <1>5. QED
    BY <1>2, <1>3, <1>4 DEF SyncInv

LEMMA PostRowKeeps ==
  ASSUME SyncInv, NEW r \in Runs, PostRow(r)
  PROVE  SyncInv'
  <1>1. PICK x \in run[r].todo :
          \/ Posted(r, x, {}) /\ UNCHANGED server
          \/ /\ Uuid(x.sync)
             /\ LET y == Created(x.sync, x.origin)
                IN /\ rows' = rows \cup {y}
                   /\ Record("create", y.id)
                   /\ Posted(r, x, {y}) \/ Posted(r, x, {})
    BY DEF PostRow
  <1>2. run[r] \in RunType /\ RunInv(r) /\ UNCHANGED device
    BY DEF SyncInv, RunsInv, PostRow
  <1>3. x \in LocalRow /\ x.origin \in Origins /\ Known(x.sync, x.origin)
    BY <1>2 DEF RunInv, RunType, LocalRow, Origins
  <1>4. ASSUME RowsKept, RowsInv', LogInv', Len(log') >= Len(log),
               NEW back \in SUBSET Row, \A y \in back : IncomingInv(y)', Posted(r, x, back)
        PROVE  SyncInv'
    <2>1. LocalInv' /\ QueueInv' /\ SavingInv' /\ Grows
      BY <1>2, <1>4, OthersStay, Lengths DEF Grows, device
    <2> DEFINE new == [run[r] EXCEPT !.todo = run[r].todo \ {x},
                                     !.incoming = run[r].incoming \cup back,
                                     !.pc = IF run[r].todo = {x} THEN "save" ELSE "post"]
    <2>2. run' = [run EXCEPT ![r] = new]
      BY <1>4 DEF Posted
    <2>3. /\ new \in RunType /\ new.batch = run[r].batch /\ new.accepted = run[r].accepted
          /\ new.todo \subseteq run[r].todo /\ new.from = run[r].from
          /\ new.incoming = run[r].incoming \cup back /\ new.pc # "enqueue"
      BY <1>2 DEF RunType, RunStates
    <2>4. run'[r] = new
      BY <2>2 DEF SyncInv, RunsInv
    <2> HIDE DEF new
    <2>5. \A s, o : Known(s, o) => Known(s, o)'
      BY <1>4, KnownStays
    <2>6. \A s : Recorded(s) # {} => Recorded(s)' # {}
      BY <1>4, RecordedStays
    <2>7. \A y \in run'[r].incoming : IncomingInv(y)'
      BY <1>2, <1>4, <2>3, <2>4, <2>5 DEF RunInv, IncomingInv
    <2>8. \A z \in run'[r].todo : Known(z.sync, z.origin)'
      BY <1>2, <2>3, <2>4, <2>5 DEF RunInv
    <2>9. run'[r].from <= Len(log')
      BY <1>2, <1>4, <2>3, <2>4, Lengths DEF RunInv, RunType, LogInv
    <2>10. UNCHANGED queue
      BY <1>2 DEF device
    <2>11. RunInv(r)'
      BY <1>2, <2>3, <2>4, <2>6, <2>7, <2>8, <2>9, <2>10 DEF RunInv
    <2>12. RunsInv'
      BY <1>4, <2>1, <2>2, <2>3, <2>11, OneRunMoves
    <2>13. QED
      BY <1>4, <2>1, <2>12 DEF SyncInv
  <1>5. CASE Posted(r, x, {}) /\ UNCHANGED server
    <2>1. RowsKept
      BY <1>5, UnchangedIsKept DEF server
    <2>2. RowsInv' /\ LogInv' /\ Len(log') >= Len(log)
      BY <1>2, <1>5, <2>1, OthersStay, Lengths DEF server, device
    <2>3. QED
      BY <1>4, <1>5, <2>1, <2>2
  <1>6. CASE Uuid(x.sync) /\ ~(Posted(r, x, {}) /\ UNCHANGED server)
    <2>1. PICK y : /\ y = Created(x.sync, x.origin)
                   /\ rows' = rows \cup {y} /\ Record("create", y.id)
                   /\ Posted(r, x, {y}) \/ Posted(r, x, {})
      BY <1>1, <1>6
    <2>2. /\ RowsKept /\ RowsInv' /\ y \in rows'
          /\ \A z \in rows' : z \in Row /\ IncomingInv(z)'
      BY <1>3, <1>6, <2>1, CreationKeepsRows DEF Uuid, SyncInv
    <2>3. y.id \in Ids
      BY <2>2 DEF Row
    <2>4. LogInv' /\ Len(log') >= Len(log)
      BY <1>2, <2>1, <2>3, RecordKeepsLog DEF device
    <2>5. QED
      BY <1>4, <2>1, <2>2, <2>4
  <1>7. QED
    BY <1>1, <1>5, <1>6

LEMMA SaveRowKeeps ==
  ASSUME SyncInv, NEW r \in Runs, SaveRow(r)
  PROVE  SyncInv'
  <1>1. PICK y \in run[r].incoming :
          LET x == Pending(y.id, y.sync, y.origin)
          IN IF Clash(x)
               THEN Stop(r, "clash") /\ UNCHANGED local
               ELSE /\ local' = [local EXCEPT ![y.id] = x]
                    /\ run' = [run EXCEPT ![r].current = x,
                                          ![r].incoming = run[r].incoming \ {y},
                                          ![r].pc = "enqueue"]
    BY DEF SaveRow
  <1> DEFINE x == Pending(y.id, y.sync, y.origin)
             new == [run[r] EXCEPT !.current = x, !.incoming = run[r].incoming \ {y},
                                   !.pc = "enqueue"]
  <1>2. /\ UNCHANGED <<server, queue, since, saving>> /\ UNCHANGED rows /\ RowsKept
        /\ run[r] \in RunType /\ RunInv(r)
    BY UnchangedIsKept DEF SaveRow, server, SyncInv, RunsInv
  <1>3. y \in Row /\ IncomingInv(y)
    BY <1>2 DEF RunType, RunInv
  <1>4. x.id = y.id /\ x.sync = KeyOf(y.id, y.sync) /\ x.origin = y.origin
    BY DEF Pending, KeyOf
  <1>5. x \in LocalRow /\ x.id \notin Logged /\ x.id \in Ids /\ Known(x.sync, x.origin)
    <2>1. Known(x.sync, x.origin) /\ x.id \notin Logged /\ x.origin \in Origins
      BY <1>3, <1>4 DEF IncomingInv, Origins
    <2>2. x.sync \in SyncIds
      BY <2>1, KnownSyncIds DEF SyncInv
    <2>3. QED
      BY <1>3, <1>4, <2>1, <2>2 DEF Row, LocalRow, Pending
  <1>6. CASE Stop(r, "clash") /\ UNCHANGED local
    BY <1>2, <1>6, StopOnly DEF server, device
  <1>7. CASE local' = [local EXCEPT ![y.id] = x] /\ run' = [run EXCEPT ![r] = new]
    <2>1. LocalInv'
      <3> HIDE DEF x
      <3> QED
        BY <1>2, <1>4, <1>5, <1>7, SavedLocally
    <2>2. RowsInv' /\ LogInv' /\ QueueInv' /\ SavingInv' /\ Grows
      BY <1>2, OthersStay, Lengths DEF Grows, server
    <2>3. /\ new \in RunType /\ new.batch = run[r].batch /\ new.accepted = run[r].accepted
          /\ new.todo = run[r].todo /\ new.from = run[r].from
          /\ new.incoming \subseteq run[r].incoming /\ new.current = x
      <3> HIDE DEF x
      <3> QED
        BY <1>2, <1>5 DEF RunType, RunStates
    <2>4. run'[r] = new
      BY <1>7 DEF SyncInv, RunsInv
    <2>5. RunInv(r)'
      <3> HIDE DEF x, new
      <3>1. UNCHANGED <<rows, log, queue>>
        BY <1>2 DEF server
      <3>2. run'[r].current \in LocalRow /\ Known(run[r].current.sync, run[r].current.origin)'
        BY <1>5, <2>3, <2>4, <3>1 DEF Known
      <3>3. QED
        BY <1>2, <2>3, <2>4, <3>1, <3>2 DEF RunInv, Recorded, Known, IncomingInv
    <2>6. RunsInv'
      BY <1>7, <2>2, <2>3, <2>5, OneRunMoves
    <2>7. QED
      BY <2>1, <2>2, <2>6 DEF SyncInv
  <1>8. QED
    BY <1>1, <1>6, <1>7

LEMMA EnqueueRowKeeps ==
  ASSUME SyncInv, NEW r \in Runs, EnqueueRow(r)
  PROVE  SyncInv'
  <1> DEFINE new == [run[r] EXCEPT !.current = None, !.pc = "save"]
             x == run[r].current
  <1>1. /\ UNCHANGED <<server, local, since, saving>> /\ UNCHANGED rows /\ RowsKept
        /\ run[r] \in RunType /\ RunInv(r)
    BY UnchangedIsKept DEF EnqueueRow, server, SyncInv, RunsInv
  <1>2. x \in LocalRow /\ Known(x.sync, x.origin)
    BY <1>1 DEF EnqueueRow, RunInv
  <1>3. queue' = Queued("create", x) /\ run' = [run EXCEPT ![r] = new]
    BY DEF EnqueueRow
  <1>4. /\ new \in RunType /\ new.batch = run[r].batch /\ new.accepted = run[r].accepted
        /\ new.todo = run[r].todo /\ new.from = run[r].from
        /\ new.incoming = run[r].incoming /\ new.pc = "save"
    BY <1>1 DEF RunType, RunStates
  <1>5. run'[r] = new
    BY <1>3 DEF SyncInv, RunsInv
  <1> HIDE DEF x, new
  <1>6. QueueInv' /\ Len(queue') >= Len(queue)
    BY <1>1, <1>2, <1>3, QueuedIsInOrder
  <1>7. RowsInv' /\ LogInv' /\ LocalInv' /\ SavingInv' /\ Grows
    BY <1>1, <1>6, OthersStay, Lengths DEF Grows, server
  <1>8. RunInv(r)'
    BY <1>4, <1>5, <1>6, <1>7, RunStays
  <1>9. RunsInv'
    BY <1>3, <1>4, <1>6, <1>7, <1>8, OneRunMoves
  <1>10. QED
    BY <1>6, <1>7, <1>9 DEF SyncInv

LEMMA StutterKeeps ==
  ASSUME SyncInv, UNCHANGED vars
  PROVE  SyncInv'
  <1>1. UNCHANGED <<rows, log, local, queue, since, saving, run>> /\ RowsKept
    BY UnchangedIsKept DEF vars
  <1>2. RowsInv' /\ LogInv' /\ LocalInv' /\ QueueInv' /\ SavingInv' /\ Grows
    BY <1>1, OthersStay, Lengths DEF Grows
  <1>3. RunsInv'
    BY <1>1, <1>2, RunsStay
  <1>4. QED
    BY <1>2, <1>3 DEF SyncInv

LEMMA StepKeeps ==
  ASSUME SyncInv, [Next]_vars
  PROVE  SyncInv'
  <1>1. ASSUME NEW x \in Remote, RemoteCreate(x) \/ RemoteDelete(x)
        PROVE  SyncInv'
    BY <1>1, RemoteCreateKeeps, RemoteDeleteKeeps
  <1>2. ASSUME NEW l \in Logged, LogTransaction(l) \/ DeleteTransaction(l)
        PROVE  SyncInv'
    BY <1>2, LogTransactionKeeps, DeleteTransactionKeeps
  <1>3. CASE EnqueueChange \/ Kill
    BY <1>3, EnqueueChangeKeeps, KillKeeps
  <1>4. ASSUME NEW r \in Runs, Start(r) \/ ProcessPending(r) \/ GoOffline(r)
        PROVE  SyncInv'
    BY <1>4, StartKeeps, FetchBatchKeeps, PushBatchKeeps, MarkBatchKeeps, GoOfflineKeeps
       DEF ProcessPending
  <1>5. ASSUME NEW r \in Runs, SyncCall(r)
        PROVE  SyncInv'
    BY <1>5, ListUnsyncedKeeps, PostRowKeeps, SaveRowKeeps, EnqueueRowKeeps, PullKeeps,
       FinishKeeps DEF SyncCall
  <1>6. CASE UNCHANGED vars
    BY <1>6, StutterKeeps
  <1>7. QED
    BY <1>1, <1>2, <1>3, <1>4, <1>5, <1>6 DEF Next

LEMMA SyncInvHolds == Spec => []SyncInv
  <1>1. SyncInv /\ [Next]_vars => SyncInv'
    BY StepKeeps
  <1>2. QED
    BY Initially, <1>1, PTL DEF Spec

-----------------------------------------------------------------------------
(* The rows, the queue, the device's table and the runs are what they are   *)
(* taken for; no row of the device is without a sync_id.                    *)
THEOREM SyncTypes == Spec => []TypeOK
  <1>1. SyncInv => TypeOK
    <2> SUFFICES ASSUME SyncInv PROVE TypeOK
      OBVIOUS
    <2>1. rows \subseteq Row
      BY DEF SyncInv, RowsInv
    <2>2. \A r \in Runs : /\ run[r].incoming \subseteq Row
                          /\ run[r].todo \subseteq LocalRow
                          /\ run[r].from \in 0..Len(log)
      BY Lengths DEF SyncInv, RunsInv, RunInv, RunType
    <2>3. QED
      BY <2>1, <2>2 DEF SyncInv, TypeOK, LogInv, LocalInv, QueueInv
  <1>2. QED
    BY <1>1, SyncInvHolds, PTL

(* A change that left the queue of the device is recorded by the server,    *)
(* in spite of runs that overlap, lost answers and kills.                   *)
THEOREM DoneIsRecorded == Spec => []AcceptedIsRecorded
  <1>1. SyncInv => AcceptedIsRecorded
    BY DEF SyncInv, QueueInv, AcceptedIsRecorded
  <1>2. QED
    BY <1>1, SyncInvHolds, PTL

LEMMA AtMostTwo ==
  ASSUME NEW S, NEW a, NEW b, S \subseteq {a, b}
  PROVE  IsFiniteSet(S) /\ Cardinality(S) <= 2
  <1>1. IsFiniteSet({a}) /\ Cardinality({a}) = 1
    BY FS_Singleton
  <1>2. IsFiniteSet({a} \cup {b}) /\ Cardinality({a} \cup {b}) \in {1, 2}
    BY <1>1, FS_AddElement
  <1>3. S \in SUBSET ({a} \cup {b})
    OBVIOUS
  <1>4. IsFiniteSet(S) /\ Cardinality(S) <= Cardinality({a} \cup {b})
    BY <1>2, <1>3, FS_Subset
  <1>5. Cardinality(S) \in Nat
    BY <1>4, FS_CardinalityType
  <1>6. QED
    BY <1>2, <1>4, <1>5

LEMMA AtMostOne ==
  ASSUME NEW S, \A a, b \in S : a = b
  PROVE  IsFiniteSet(S) /\ Cardinality(S) <= 1
  <1>1. CASE S = {}
    BY <1>1, FS_EmptySet
  <1>2. CASE S # {}
    <2>1. PICK a : S = {a}
      BY <1>2
    <2>2. IsFiniteSet({a}) /\ Cardinality({a}) = 1
      BY FS_Singleton
    <2>3. QED
      BY <2>1, <2>2
  <1>3. QED
    BY <1>1, <1>2

(* What another client posted is on the server once, and if it came without *)
(* a sync_id at most twice, however often the device sends it back.         *)
THEOREM CopiedOnce == Spec => []CopiedAtMostOnce
  <1>1. RowsInv => CopiedAtMostOnce
    <2> SUFFICES ASSUME RowsInv, NEW x \in Remote
                 PROVE  Cardinality({y \in rows : y.origin = x})
                          <= (IF Recorded(SyncIdOf(x)) # {} THEN 1 ELSE 2)
      BY DEF CopiedAtMostOnce
    <2> DEFINE S == {y \in rows : y.origin = x}
    <2>1. \A y \in S : y.id \in {x, IdFor(x)} /\ (y.id = x \/ Copy(y))
      BY DEF RowsInv, Original, Copy
    <2>2. \A y, z \in S : y.id = z.id => y = z
      BY DEF RowsInv
    <2>3. CASE Recorded(SyncIdOf(x)) # {}
      <3>1. PICK y \in rows : y.sync = SyncIdOf(x)
        BY <2>3 DEF Recorded
      <3>2. y.origin \in Remote /\ (Original(y) \/ Copy(y))
        BY DEF RowsInv
      <3>3. y.id = x /\ y.origin = x
        BY <3>1, <3>2, IdsDiffer DEF Original, Copy, Origins
      <3>4. \A z \in rows : z.id = x => z.sync # None
        BY <3>1, <3>3, IdsDiffer DEF RowsInv
      <3>5. \A z \in S : ~Copy(z)
        BY <3>4 DEF Copy
      <3>6. \A z, w \in S : z = w
        BY <2>1, <2>2, <3>5
      <3>7. QED
        BY <2>3, <3>6, AtMostOne
    <2>4. CASE Recorded(SyncIdOf(x)) = {}
      <3>1. \E a, b : S \subseteq {a, b}
        <4> DEFINE a == CHOOSE y \in S : y.id = x
                   b == CHOOSE y \in S : y.id = IdFor(x)
        <4>1. \A y \in S : y = a \/ y = b
          BY <2>1, <2>2
        <4>2. QED
          BY <4>1
      <3>2. QED
        BY <2>4, <3>1, AtMostTwo
    <2>5. QED
      BY <2>3, <2>4
  <1>2. SyncInv => RowsInv
    BY DEF SyncInv
  <1>3. QED
    BY <1>1, <1>2, SyncInvHolds, PTL

-----------------------------------------------------------------------------
(* What was logged is on the device.  An entry is covered when the          *)
(* transaction it tells of lives no more or has a row on the device.  A row *)
(* of the device stays, under the id it has, a record of one transaction,   *)
(* so an entry once covered stays covered.  A run that ends with `ok' saw   *)
(* the whole log: what it did not pull was covered when it began, and what  *)
(* was logged since comes from the device itself.                           *)

Here(o) == \E id \in Ids : local[id] # None /\ local[id].origin = o

Covered(i) ==
  log[i].op = "create" /\ Live(log[i].id) =>
    \E x \in rows : x.id = log[i].id /\ Here(x.origin)

CoveredTo(n) == \A i \in 1..n : Covered(i)

(* An id is that of one transaction. *)
Named(id, o) == id = o \/ id = IdFor(o)

LogStands == \A i \in 1..Len(log) : log[i].op = "create" => \E x \in rows : x.id = log[i].id

LocalNamed == \A id \in Ids : local[id] # None => Named(id, local[id].origin)

RunCarries(r) ==
  /\ \A x \in run[r].todo : Here(x.origin)
  /\ \A y \in run[r].incoming : \E x \in rows : x.id = y.id /\ x.origin = y.origin
  /\ run[r].next = "finish" => run[r].pc \in {"save", "enqueue"}

ToCome(r, i) == \E y \in run[r].incoming : y.id = log[i].id

RunCovers(r) ==
  /\ CoveredTo(run[r].from)
  /\ run[r].next = "finish" => \A i \in 1..Len(log) : Covered(i) \/ ToCome(r, i)

Calm == \A r \in Runs : run[r].quiet

CoverInv ==
  /\ LogStands /\ LocalNamed /\ \A r \in Runs : RunCarries(r)
  /\ Calm => CoveredTo(since) /\ \A r \in Runs : RunCovers(r)

(* Nothing is taken back. *)
Steady ==
  /\ \A y \in rows : \E z \in rows' :
       z.id = y.id /\ z.origin = y.origin /\ (y.deleted => z.deleted)
  /\ Len(log) \in Nat /\ Len(log') \in Nat /\ Len(log) <= Len(log')
  /\ \A i \in 1..Len(log) : log'[i] = log[i]
  /\ \A id \in Ids : local[id] # None =>
       local'[id] # None /\ local'[id].origin = local[id].origin

LEMMA HereStays ==
  ASSUME Steady, NEW o, Here(o)
  PROVE  Here(o)'
  BY DEF Steady, Here

LEMMA CoveredStays ==
  ASSUME RowsInv', Steady, LogStands, NEW i \in 1..Len(log), Covered(i)
  PROVE  Covered(i)'
  <1> SUFFICES ASSUME log'[i].op = "create", Live(log[i].id)'
               PROVE  \E x \in rows' : x.id = log'[i].id /\ Here(x.origin)'
    BY DEF Covered
  <1>1. log'[i] = log[i]
    BY DEF Steady
  <1>2. PICK y \in rows : y.id = log[i].id
    BY <1>1 DEF LogStands
  <1>3. PICK z \in rows' : z.id = y.id /\ z.origin = y.origin /\ (y.deleted => z.deleted)
    BY DEF Steady
  <1>4. PICK w \in rows' : w.id = log[i].id /\ ~w.deleted
    BY <1>1 DEF Live
  <1>5. w = z
    BY <1>2, <1>3, <1>4 DEF RowsInv
  <1>6. Live(log[i].id)
    BY <1>2, <1>3, <1>4, <1>5 DEF Live
  <1>7. PICK x \in rows : x.id = log[i].id /\ Here(x.origin)
    BY <1>1, <1>6 DEF Covered
  <1>8. PICK v \in rows' : v.id = x.id /\ v.origin = x.origin
    BY DEF Steady
  <1>9. Here(x.origin)'
    BY <1>7, HereStays DEF Steady, Here
  <1>10. QED
    BY <1>1, <1>7, <1>8, <1>9 DEF Here

LEMMA StandsStay ==
  ASSUME Steady, LogStands, NEW i \in 1..Len(log), log'[i].op = "create"
  PROVE  \E x \in rows' : x.id = log'[i].id
  <1>1. log'[i] = log[i]
    BY DEF Steady
  <1>2. PICK y \in rows : y.id = log[i].id
    BY <1>1 DEF LogStands
  <1>3. PICK z \in rows' : z.id = y.id
    BY DEF Steady
  <1>4. QED
    BY <1>1, <1>2, <1>3

(* What a step may do to a run that still covers the log after it.          *)
Follows(r) ==
  /\ \A x \in run'[r].todo : x \in run[r].todo \/ Here(x.origin)'
  /\ run'[r].from \in {run[r].from, since, 0}
  /\ \A y \in run'[r].incoming : y \in run[r].incoming \/ y \in rows'
  /\ run'[r].next = "finish" =>
       /\ run[r].next = "finish" /\ run'[r].pc \in {"save", "enqueue"}
       /\ \A y \in run[r].incoming : y \in run'[r].incoming \/ Here(y.origin)'
       /\ \A i \in 1..Len(log') : i \in 1..Len(log) \/ Covered(i)'

LEMMA CarriesOn ==
  ASSUME SyncInv, CoverInv, Steady, NEW r \in Runs, Follows(r)
  PROVE  RunCarries(r)'
  <1>1. RunCarries(r)
    BY DEF CoverInv
  <1>2. \A x \in run'[r].todo : Here(x.origin)'
    <2> SUFFICES ASSUME NEW x \in run'[r].todo PROVE Here(x.origin)'
      BY DEF Here
    <2>1. CASE x \in run[r].todo
      BY <1>1, <2>1, HereStays DEF RunCarries, Steady, Here
    <2>2. CASE Here(x.origin)'
      BY <2>2
    <2>3. QED
      BY <2>1, <2>2 DEF Follows
  <1>3. ASSUME NEW y \in run'[r].incoming
        PROVE  \E x \in rows' : x.id = y.id /\ x.origin = y.origin
    <2>1. CASE y \in run[r].incoming
      <3>1. PICK x \in rows : x.id = y.id /\ x.origin = y.origin
        BY <1>1, <2>1 DEF RunCarries
      <3>2. QED
        BY <3>1 DEF Steady
    <2>2. CASE y \in rows'
      BY <2>2
    <2>3. QED
      BY <2>1, <2>2 DEF Follows
  <1>4. run'[r].next = "finish" => run'[r].pc \in {"save", "enqueue"}
    BY DEF Follows
  <1>5. QED
    BY <1>2, <1>3, <1>4 DEF RunCarries

LEMMA CoversOn ==
  ASSUME SyncInv, RowsInv', CoverInv, Steady, Calm, NEW r \in Runs, Follows(r)
  PROVE  RunCovers(r)'
  <1>1. RunCarries(r) /\ RunCovers(r) /\ CoveredTo(since) /\ LogStands
    BY DEF CoverInv
  <1>2. Len(log) \in Nat /\ run[r].from \in 0..Len(log) /\ since \in 0..Len(log)
    BY Lengths DEF SyncInv, LogInv, RunsInv, RunInv, RunType
  <1>3. \A i \in 1..Len(log) : Covered(i) => Covered(i)'
    BY <1>1, CoveredStays
  <1>4. CoveredTo(run[r].from)'
    <2>1. \A n \in {run[r].from, since, 0} : \A i \in 1..n : i \in 1..Len(log) /\ Covered(i)
      BY <1>1, <1>2 DEF RunCovers, CoveredTo
    <2>2. \A i \in 1..run'[r].from : Covered(i)'
      BY <1>3, <2>1 DEF Follows
    <2>3. QED
      BY <2>2 DEF CoveredTo
  <1>5. ASSUME run'[r].next = "finish", NEW i \in 1..Len(log')
        PROVE  Covered(i)' \/ ToCome(r, i)'
    <2>1. CASE i \in 1..Len(log) /\ Covered(i)
      BY <1>3, <2>1
    <2>2. CASE i \notin 1..Len(log)
      BY <1>5, <2>2 DEF Follows
    <2>3. CASE i \in 1..Len(log) /\ ~Covered(i)
      <3>1. log'[i] = log[i]
        BY <2>3 DEF Steady
      <3>2. PICK y \in run[r].incoming : y.id = log[i].id
        BY <1>1, <1>5, <2>3 DEF RunCovers, Follows, ToCome
      <3>3. CASE y \in run'[r].incoming
        BY <3>1, <3>2, <3>3 DEF ToCome
      <3>4. CASE Here(y.origin)'
        <4>1. PICK x \in rows : x.id = y.id /\ x.origin = y.origin
          BY <1>1, <3>2 DEF RunCarries
        <4>2. PICK z \in rows' : z.id = x.id /\ z.origin = x.origin
          BY DEF Steady
        <4>3. z.id = log'[i].id /\ Here(z.origin)'
          BY <3>1, <3>2, <3>4, <4>1, <4>2 DEF Here
        <4>4. QED
          BY <4>3 DEF Covered
      <3>5. QED
        BY <1>5, <3>2, <3>3, <3>4 DEF Follows
    <2>4. QED
      BY <2>1, <2>2, <2>3
  <1>6. QED
    BY <1>4, <1>5 DEF RunCovers

(* What a step has to show, of itself and of each run. *)
LEMMA StepCovers ==
  ASSUME SyncInv, SyncInv', CoverInv, Steady, LogStands', LocalNamed', Calm' => Calm,
         since' = since \/ (Calm => CoveredTo(since)'),
         \A r \in Runs : Follows(r) \/ (RunCarries(r)' /\ (Calm /\ Calm' => RunCovers(r)'))
  PROVE  CoverInv'
  <1>1. RowsInv' /\ LogStands /\ \A r \in Runs : RunCarries(r)'
    BY CarriesOn DEF SyncInv, CoverInv
  <1>2. ASSUME Calm'
        PROVE  CoveredTo(since)' /\ \A r \in Runs : RunCovers(r)'
    <2>1. Calm /\ CoveredTo(since)
      BY <1>2 DEF CoverInv
    <2>2. \A r \in Runs : RunCovers(r)'
      BY <1>1, <1>2, <2>1, CoversOn
    <2>3. CASE since' = since
      <3>1. \A i \in 1..since : i \in 1..Len(log)
        BY Lengths DEF SyncInv, LogInv
      <3>2. \A i \in 1..since : Covered(i)'
        BY <1>1, <2>1, <3>1, CoveredStays DEF CoveredTo
      <3>3. QED
        BY <2>2, <2>3, <3>2 DEF CoveredTo
    <2>4. QED
      BY <2>1, <2>2, <2>3
  <1>3. QED
    BY <1>1, <1>2 DEF CoverInv

(* A run that moves on, stops or is stopped, and leaves the tables alone or *)
(* has written to the server.                                               *)
LEMMA LeftAlone ==
  ASSUME NEW r \in Runs, run'[r] = run[r], RunCarries(r),
         run[r].next = "finish" => \A i \in 1..Len(log') : i \in 1..Len(log) \/ Covered(i)'
  PROVE  Follows(r)
  BY DEF Follows, RunCarries

LEMMA StoppedFollows ==
  ASSUME SyncInv, NEW r \in Runs,
         NEW outcome \in {"none", "ok", "offline", "refused", "gone", "clash"},
         run'[r] = Ended(r, outcome)
  PROVE  Follows(r) /\ run'[r].quiet = run[r].quiet
  <1>1. Ended(r, outcome).next = "pull" /\ Ended(r, outcome).quiet = run[r].quiet
    BY DEF Ended, Idle
  <1>2. QED
    BY <1>1, EndedIs DEF Follows

(* The tables of the server and the device's rows stay. *)
LEMMA TablesStay ==
  ASSUME SyncInv, CoverInv, UNCHANGED <<rows, log, local>>
  PROVE  Steady /\ LogStands' /\ LocalNamed'
  <1>1. Len(log) \in Nat
    BY Lengths
  <1>2. QED
    BY <1>1 DEF Steady, CoverInv, LogStands, LocalNamed

(* The steps of a run that leave them. *)
LEMMA OneFollows ==
  ASSUME SyncInv, SyncInv', CoverInv, UNCHANGED <<rows, log, local, since>>, NEW r \in Runs,
         \A q \in Runs \ {r} : run'[q] = run[q], run'[r].quiet => run[r].quiet,
         Follows(r) \/ (RunCarries(r)' /\ (Calm => RunCovers(r)'))
  PROVE  CoverInv'
  <1>1. Steady /\ LogStands' /\ LocalNamed'
    BY TablesStay
  <1>2. Calm' => Calm
    BY DEF Calm
  <1>3. \A q \in Runs \ {r} : Follows(q)
    BY LeftAlone DEF CoverInv
  <1>4. QED
    BY <1>1, <1>2, <1>3, StepCovers

LEMMA StopCovers ==
  ASSUME SyncInv, SyncInv', CoverInv, UNCHANGED <<rows, log, local, since>>, NEW r \in Runs,
         NEW outcome \in {"none", "ok", "offline", "refused", "gone", "clash"},
         Stop(r, outcome)
  PROVE  CoverInv'
  <1>1. run'[r] = Ended(r, outcome) /\ \A q \in Runs \ {r} : run'[q] = run[q]
    BY DEF Stop, SyncInv, RunsInv
  <1>2. Follows(r) /\ run'[r].quiet = run[r].quiet
    BY <1>1, StoppedFollows
  <1>3. QED
    BY <1>1, <1>2, OneFollows

(* A step of a run before it posts or between two saves. *)
LEMMA MoveCovers ==
  ASSUME SyncInv, SyncInv', CoverInv, UNCHANGED <<rows, log, local, since>>, NEW r \in Runs,
         NEW new, run' = [run EXCEPT ![r] = new],
         new.todo = run[r].todo, new.from = run[r].from, new.incoming = run[r].incoming,
         new.next = run[r].next, new.quiet = run[r].quiet,
         new.next = "finish" => new.pc \in {"save", "enqueue"}
  PROVE  CoverInv'
  <1>1. run'[r] = new /\ \A q \in Runs \ {r} : run'[q] = run[q]
    BY DEF SyncInv, RunsInv
  <1>2. Follows(r)
    BY <1>1 DEF Follows
  <1>3. QED
    BY <1>1, <1>2, OneFollows

-----------------------------------------------------------------------------
(* Each action keeps what was logged covered: the other clients.            *)

LEMMA InitiallyCovered == Init => CoverInv
  <1> SUFFICES ASSUME Init PROVE CoverInv
    OBVIOUS
  <1>1. \A r \in Runs : RunCarries(r) /\ RunCovers(r)
    BY DEF Init, Idle, RunCarries, RunCovers, CoveredTo
  <1>2. LogStands /\ LocalNamed /\ CoveredTo(since)
    BY DEF Init, LogStands, LocalNamed, CoveredTo
  <1>3. QED
    BY <1>1, <1>2 DEF CoverInv

(* Another client writes: either no run is open, so none has a page, or the *)
(* runs note it.                                                            *)
LEMMA DisturbCovers ==
  ASSUME SyncInv, SyncInv', CoverInv, Steady, LogStands', LocalNamed',
         UNCHANGED <<local, since>>, Disturb
  PROVE  CoverInv'
  <1>1. CASE Open = {}
    <2>1. run' = run
      BY <1>1 DEF Disturb
    <2>2. \A r \in Runs : RunCarries(r) /\ run[r].next # "finish"
      BY <1>1 DEF CoverInv, RunCarries, Open
    <2>3. \A r \in Runs : Follows(r)
      BY <2>1, <2>2, LeftAlone
    <2>4. Calm' => Calm
      BY <2>1 DEF Calm
    <2>5. QED
      BY <2>3, <2>4, StepCovers
  <1>2. CASE Open # {}
    <2>1. run' = [r \in Runs |-> [run[r] EXCEPT !.quiet = FALSE]]
      BY <1>2 DEF Disturb
    <2>2. ASSUME NEW r \in Runs
          PROVE  /\ ~run'[r].quiet /\ run'[r].todo = run[r].todo
                 /\ run'[r].incoming = run[r].incoming /\ run'[r].next = run[r].next
                 /\ run'[r].pc = run[r].pc
      BY <2>1 DEF SyncInv, RunsInv, RunType
    <2>3. ~Calm'
      BY <1>2, <2>2 DEF Open, Calm
    <2>4. ASSUME NEW r \in Runs
          PROVE  RunCarries(r)'
      <3>1. RunCarries(r)
        BY DEF CoverInv
      <3>2. \A x \in run'[r].todo : Here(x.origin)'
        BY <2>2, <3>1 DEF RunCarries, Here
      <3>3. \A y \in run'[r].incoming : \E x \in rows' : x.id = y.id /\ x.origin = y.origin
        <4> SUFFICES ASSUME NEW y \in run'[r].incoming
                     PROVE  \E x \in rows' : x.id = y.id /\ x.origin = y.origin
          OBVIOUS
        <4>1. PICK x \in rows : x.id = y.id /\ x.origin = y.origin
          BY <2>2, <3>1 DEF RunCarries
        <4>2. QED
          BY <4>1 DEF Steady
      <3>4. QED
        BY <2>2, <3>1, <3>2, <3>3 DEF RunCarries
    <2>5. QED
      BY <2>3, <2>4 DEF CoverInv
  <1>3. QED
    BY <1>1, <1>2

(* An entry of the log tells of a row there is. *)
LEMMA RecordIsSteady ==
  ASSUME SyncInv, CoverInv, UNCHANGED local,
         \A y \in rows : \E z \in rows' :
           z.id = y.id /\ z.origin = y.origin /\ (y.deleted => z.deleted),
         NEW op, NEW id, Record(op, id), op = "create" => \E x \in rows' : x.id = id
  PROVE  /\ Steady /\ LogStands' /\ LocalNamed'
         /\ \A i \in 1..Len(log') : i \notin 1..Len(log) => log'[i].id = id
  <1> DEFINE e == [op |-> op, id |-> id]
  <1>1. e.op = op /\ e.id = id /\ (log' = Append(log, e) \/ log' = log)
    BY DEF Record
  <1> HIDE DEF e
  <1>2. log \in Seq(Entry) /\ Len(log) \in Nat
    BY Lengths DEF SyncInv, LogInv
  <1>3. /\ Len(log') \in Nat /\ Len(log) <= Len(log')
        /\ \A i \in 1..Len(log) : log'[i] = log[i]
        /\ \A i \in 1..Len(log') : i \notin 1..Len(log) => log'[i] = e
    BY <1>1, <1>2
  <1>4. Steady
    BY <1>2, <1>3 DEF Steady
  <1>5. LogStands /\ LocalNamed'
    BY DEF CoverInv, LocalNamed
  <1>6. LogStands'
    <2> SUFFICES ASSUME NEW i \in 1..Len(log'), log'[i].op = "create"
                 PROVE  \E x \in rows' : x.id = log'[i].id
      BY DEF LogStands
    <2>1. CASE i \in 1..Len(log)
      BY <1>4, <1>5, <2>1, StandsStay
    <2>2. CASE i \notin 1..Len(log)
      BY <1>1, <1>3, <2>2
    <2>3. QED
      BY <2>1, <2>2
  <1>7. QED
    BY <1>1, <1>3, <1>4, <1>5, <1>6

LEMMA RemoteCreateCovers ==
  ASSUME SyncInv, SyncInv', CoverInv, NEW x \in Remote, RemoteCreate(x)
  PROVE  CoverInv'
  <1>1. UNCHANGED <<local, since>> /\ Record("create", x) /\ Disturb
    BY DEF RemoteCreate, device
  <1>2. PICK s : rows' = rows \cup {[id |-> x, sync |-> s, origin |-> x, deleted |-> FALSE]}
    BY DEF RemoteCreate
  <1>3. \E z \in rows' : z.id = x
    <2> DEFINE n == [id |-> x, sync |-> s, origin |-> x, deleted |-> FALSE]
    <2>1. n \in rows' /\ n.id = x
      BY <1>2
    <2>2. QED
      BY <2>1
  <1>4. QED
    BY <1>1, <1>2, <1>3, RecordIsSteady, DisturbCovers

LEMMA RemoteDeleteCovers ==
  ASSUME SyncInv, SyncInv', CoverInv, NEW x \in Remote, RemoteDelete(x)
  PROVE  CoverInv'
  <1> DEFINE Now(y) == IF y.id = x THEN [y EXCEPT !.deleted = TRUE] ELSE y
  <1>1. UNCHANGED <<local, since>> /\ Record("delete", x) /\ Disturb
    BY DEF RemoteDelete, device
  <1>2. rows' = {Now(y) : y \in rows}
    BY DEF RemoteDelete
  <1>3. \A y \in rows : /\ Now(y).id = y.id /\ Now(y).origin = y.origin
                        /\ y.deleted => Now(y).deleted
    BY DEF SyncInv, RowsInv, Row
  <1> HIDE DEF Now
  <1>4. \A y \in rows : \E z \in rows' :
          z.id = y.id /\ z.origin = y.origin /\ (y.deleted => z.deleted)
    BY <1>2, <1>3
  <1>5. QED
    BY <1>1, <1>4, RecordIsSteady, DisturbCovers

-----------------------------------------------------------------------------
(* The user and the app.                                                    *)

LEMMA SameRuns ==
  ASSUME SyncInv, SyncInv', CoverInv, UNCHANGED <<rows, log, since, run>>, Steady, LocalNamed'
  PROVE  CoverInv'
  <1>1. \A r \in Runs : Follows(r)
    BY LeftAlone DEF CoverInv
  <1>2. LogStands' /\ (Calm' => Calm)
    BY DEF CoverInv, LogStands, Calm
  <1>3. QED
    BY <1>1, <1>2, StepCovers

LEMMA LogTransactionCovers ==
  ASSUME SyncInv, SyncInv', CoverInv, NEW l \in Logged, LogTransaction(l)
  PROVE  CoverInv'
  <1> DEFINE x == Pending(l, None, l)
  <1>1. UNCHANGED <<rows, log, since, run>> /\ local' = [local EXCEPT ![l] = x]
    BY DEF LogTransaction, server
  <1>2. x.origin = l /\ x \in LocalRow
    BY IdsDiffer DEF Pending, LocalRow
  <1> HIDE DEF x
  <1>3. l \in Ids /\ (local[l] # None => local[l].origin = l)
    BY IdsDiffer DEF SyncInv, LocalInv
  <1>4. local'[l] # None
    BY <1>1, <1>2, <1>3, RowAssumption DEF SyncInv, LocalInv
  <1>5. local'[l] = x /\ \A id \in Ids \ {l} : local'[id] = local[id]
    BY <1>1, <1>3 DEF SyncInv, LocalInv
  <1>6. Steady /\ LocalNamed'
    BY <1>1, <1>2, <1>3, <1>4, <1>5, Lengths DEF Steady, LocalNamed, CoverInv, Named
  <1>7. QED
    BY <1>1, <1>6, SameRuns

LEMMA DeleteTransactionCovers ==
  ASSUME SyncInv, SyncInv', CoverInv, NEW l \in Logged, DeleteTransaction(l)
  PROVE  CoverInv'
  <1> DEFINE x == [local[l] EXCEPT !.deleted = TRUE]
  <1>1. UNCHANGED <<rows, log, since, run>> /\ local' = [local EXCEPT ![l] = x]
    BY DEF DeleteTransaction, server
  <1>2. l \in Ids /\ local[l] # None /\ local[l] \in LocalRow
    BY IdsDiffer DEF SyncInv, LocalInv, DeleteTransaction
  <1>3. x.origin = local[l].origin /\ x \in LocalRow
    BY <1>2 DEF LocalRow
  <1> HIDE DEF x
  <1>4. local'[l] = x /\ \A id \in Ids \ {l} : local'[id] = local[id]
    BY <1>1, <1>2 DEF SyncInv, LocalInv
  <1>5. local'[l] # None
    BY <1>3, <1>4, RowAssumption
  <1>6. Steady /\ LocalNamed'
    BY <1>1, <1>2, <1>3, <1>4, <1>5, Lengths DEF Steady, LocalNamed, CoverInv, Named
  <1>7. QED
    BY <1>1, <1>6, SameRuns

LEMMA KillCovers ==
  ASSUME SyncInv, SyncInv', CoverInv, Kill
  PROVE  CoverInv'
  <1>1. UNCHANGED <<rows, log, local, since>>
    BY DEF Kill, server
  <1>2. run' = [r \in Runs |-> IF r \in Open THEN Ended(r, "offline") ELSE run[r]]
    BY DEF Kill
  <1>3. ASSUME NEW r \in Runs
        PROVE  Follows(r) /\ run'[r].quiet = run[r].quiet
    <2>1. CASE r \in Open
      BY <1>2, <2>1, StoppedFollows
    <2>2. CASE r \notin Open
      <3>1. run'[r] = run[r] /\ RunCarries(r)
        BY <1>2, <2>2 DEF CoverInv
      <3>2. QED
        BY <1>1, <3>1, LeftAlone
    <2>3. QED
      BY <2>1, <2>2
  <1>4. Steady /\ LogStands' /\ LocalNamed' /\ (Calm' => Calm)
    BY <1>1, <1>3, TablesStay DEF Calm
  <1>5. QED
    BY <1>1, <1>3, <1>4, StepCovers

LEMMA EnqueueChangeCovers ==
  ASSUME SyncInv, SyncInv', CoverInv, EnqueueChange
  PROVE  CoverInv'
  <1>1. UNCHANGED <<rows, log, local, since, run>>
    BY DEF EnqueueChange, server
  <1>2. QED
    BY <1>1, TablesStay, SameRuns

-----------------------------------------------------------------------------
(* The runs.                                                                *)

LEMMA StartCovers ==
  ASSUME SyncInv, SyncInv', CoverInv, NEW r \in Runs, Start(r)
  PROVE  CoverInv'
  <1> DEFINE new == [run[r] EXCEPT !.pc = IF r \in Background THEN "fetch" ELSE "list"]
  <1>1. run[r] \in RunType /\ run[r].next # "finish"
    BY DEF SyncInv, RunsInv, Start, CoverInv, RunCarries
  <1>2. /\ new.todo = run[r].todo /\ new.from = run[r].from /\ new.incoming = run[r].incoming
        /\ new.next = run[r].next /\ new.quiet = run[r].quiet
    BY <1>1 DEF RunType
  <1>3. run' = [run EXCEPT ![r] = new] /\ UNCHANGED <<rows, log, local, since>>
    BY DEF Start, server, device
  <1> HIDE DEF new
  <1>4. QED
    BY <1>1, <1>2, <1>3, MoveCovers

LEMMA FetchBatchCovers ==
  ASSUME SyncInv, SyncInv', CoverInv, NEW r \in Runs, FetchBatch(r)
  PROVE  CoverInv'
  <1> DEFINE new == [run[r] EXCEPT !.batch = PendingBatch,
                                   !.pc = IF PendingBatch = {} THEN "list" ELSE "push"]
  <1>1. run[r] \in RunType /\ run[r].next # "finish"
    BY DEF SyncInv, RunsInv, FetchBatch, CoverInv, RunCarries
  <1>2. /\ new.todo = run[r].todo /\ new.from = run[r].from /\ new.incoming = run[r].incoming
        /\ new.next = run[r].next /\ new.quiet = run[r].quiet
    BY <1>1 DEF RunType
  <1>3. run' = [run EXCEPT ![r] = new] /\ UNCHANGED <<rows, log, local, since>>
    BY DEF FetchBatch, server, device
  <1> HIDE DEF new
  <1>4. QED
    BY <1>1, <1>2, <1>3, MoveCovers

(* Pushed transactions leave no entry in the log.                           *)
LEMMA PushBatchCovers ==
  ASSUME SyncInv, SyncInv', CoverInv, NEW r \in Runs, PushBatch(r)
  PROVE  CoverInv'
  <1>1. UNCHANGED <<log, local, since>> /\ Len(log) \in Nat
    BY Lengths DEF PushBatch, device
  <1>2. /\ rows \subseteq rows'
        /\ \/ Stop(r, "refused") \/ Stop(r, "offline")
           \/ \E A : run' = [run EXCEPT ![r].accepted = A, ![r].pc = "mark"]
    BY DEF PushBatch
  <1>3. Steady /\ LogStands' /\ LocalNamed'
    BY <1>1, <1>2 DEF Steady, CoverInv, LogStands, LocalNamed
  <1>4. run[r] \in RunType /\ run[r].next # "finish"
    BY DEF SyncInv, RunsInv, PushBatch, CoverInv, RunCarries
  <1>5. /\ Follows(r) /\ run'[r].quiet = run[r].quiet
        /\ \A q \in Runs \ {r} : run'[q] = run[q]
    <2>1. CASE Stop(r, "refused") \/ Stop(r, "offline")
      <3>1. /\ run'[r] = Ended(r, "refused") \/ run'[r] = Ended(r, "offline")
            /\ \A q \in Runs \ {r} : run'[q] = run[q]
        BY <2>1 DEF Stop, SyncInv, RunsInv
      <3>2. QED
        BY <3>1, StoppedFollows
    <2>2. ASSUME NEW A, run' = [run EXCEPT ![r].accepted = A, ![r].pc = "mark"]
          PROVE  /\ Follows(r) /\ run'[r].quiet = run[r].quiet
                 /\ \A q \in Runs \ {r} : run'[q] = run[q]
      <3>1. /\ run'[r].todo = run[r].todo /\ run'[r].from = run[r].from
            /\ run'[r].incoming = run[r].incoming /\ run'[r].next = run[r].next
            /\ run'[r].quiet = run[r].quiet
            /\ \A q \in Runs \ {r} : run'[q] = run[q]
        BY <1>4, <2>2 DEF SyncInv, RunsInv, RunType
      <3>2. QED
        BY <1>4, <3>1 DEF Follows
    <2>3. QED
      BY <1>2, <2>1, <2>2
  <1>6. (Calm' => Calm) /\ \A q \in Runs \ {r} : Follows(q)
    BY <1>1, <1>5, LeftAlone DEF Calm, CoverInv
  <1>7. QED
    BY <1>1, <1>3, <1>5, <1>6, StepCovers

LEMMA MarkBatchCovers ==
  ASSUME SyncInv, SyncInv', CoverInv, NEW r \in Runs, MarkBatch(r)
  PROVE  CoverInv'
  <1>1. UNCHANGED <<rows, log, local, since>>
    BY DEF MarkBatch, server
  <1>2. run[r] \in RunType /\ run[r].next # "finish"
    BY DEF SyncInv, RunsInv, MarkBatch, CoverInv, RunCarries
  <1>3. \/ Stop(r, "offline")
        \/ \E p \in {"list", "fetch"} : run' = [run EXCEPT ![r].pc = p]
    BY DEF MarkBatch
  <1>4. ASSUME NEW p, run' = [run EXCEPT ![r].pc = p]
        PROVE  CoverInv'
    <2> DEFINE new == [run[r] EXCEPT !.pc = p]
    <2>1. /\ new.todo = run[r].todo /\ new.from = run[r].from
          /\ new.incoming = run[r].incoming /\ new.next = run[r].next
          /\ new.quiet = run[r].quiet /\ run' = [run EXCEPT ![r] = new]
      BY <1>2, <1>4 DEF RunType
    <2> HIDE DEF new
    <2>2. QED
      BY <1>1, <1>2, <2>1, MoveCovers
  <1>5. QED
    BY <1>1, <1>3, <1>4, StopCovers

LEMMA ListUnsyncedCovers ==
  ASSUME SyncInv, SyncInv', CoverInv, NEW r \in Runs, ListUnsynced(r)
  PROVE  CoverInv'
  <1>1. UNCHANGED <<rows, log, local, since>>
    BY DEF ListUnsynced, server, device
  <1>2. run[r] \in RunType /\ run[r].next # "finish"
    BY DEF SyncInv, RunsInv, ListUnsynced, CoverInv, RunCarries
  <1>3. /\ run'[r].todo = Unsynced /\ run'[r].from = since
        /\ run'[r].incoming = run[r].incoming /\ run'[r].next = run[r].next
        /\ run'[r].quiet = run[r].quiet
        /\ \A q \in Runs \ {r} : run'[q] = run[q]
    BY <1>2, ZenonT(40) DEF ListUnsynced, SyncInv, RunsInv, RunType
  <1>4. \A x \in Unsynced : Here(x.origin)'
    BY <1>1 DEF Unsynced, Here
  <1>5. Follows(r)
    BY <1>2, <1>3, <1>4 DEF Follows
  <1>6. QED
    BY <1>1, <1>3, <1>5, OneFollows

LEMMA EnqueueRowCovers ==
  ASSUME SyncInv, SyncInv', CoverInv, NEW r \in Runs, EnqueueRow(r)
  PROVE  CoverInv'
  <1> DEFINE new == [run[r] EXCEPT !.current = None, !.pc = "save"]
  <1>1. run[r] \in RunType
    BY DEF SyncInv, RunsInv
  <1>2. /\ new.todo = run[r].todo /\ new.from = run[r].from /\ new.incoming = run[r].incoming
        /\ new.next = run[r].next /\ new.quiet = run[r].quiet /\ new.pc = "save"
    BY <1>1 DEF RunType
  <1>3. run' = [run EXCEPT ![r] = new] /\ UNCHANGED <<rows, log, local, since>>
    BY DEF EnqueueRow, server
  <1> HIDE DEF new
  <1>4. QED
    BY <1>2, <1>3, MoveCovers

LEMMA GoOfflineCovers ==
  ASSUME SyncInv, SyncInv', CoverInv, NEW r \in Runs, GoOffline(r)
  PROVE  CoverInv'
  <1>1. UNCHANGED <<rows, log, local, since>>
    BY DEF GoOffline, server, device
  <1>2. QED
    BY <1>1, StopCovers DEF GoOffline

(* What CreateTransaction answers with is a record of what it was asked to  *)
(* create.                                                                  *)
LEMMA CreatedIsOf ==
  ASSUME RowsInv, NEW s, s \notin Logged, NEW o \in Origins, Known(s, o)
  PROVE  Created(s, o).origin = o
  <1>1. o \in Remote /\ s \in {o, SyncIdOf(o)} /\ s # None
    BY KnownSyncIds, IdsDiffer DEF Origins
  <1>2. CASE Created(s, o) \in rows /\ Created(s, o).sync = s
    <2> DEFINE y == Created(s, o)
    <2>1. y \in rows /\ y.sync = s
      BY <1>2
    <2> HIDE DEF y
    <2>2. y.origin \in Remote /\ Known(s, y.origin)
      BY <1>1, <2>1, RowsAreKnown DEF IncomingInv, KeyOf
    <2>3. y.origin \in Origins
      BY <2>2 DEF Origins
    <2>4. s \in {y.origin, SyncIdOf(y.origin)}
      BY <2>2, <2>3, KnownSyncIds
    <2>5. y.origin = o
      BY <1>1, <2>2, <2>4, IdsDiffer DEF Origins
    <2>6. QED
      BY <2>5 DEF y
  <1>3. QED
    BY <1>2, CreatedIs

(* A run posts only what is on the device, so the entry this makes is       *)
(* covered at once, for every run.                                          *)
LEMMA PostRowCovers ==
  ASSUME SyncInv, SyncInv', CoverInv, NEW r \in Runs, PostRow(r)
  PROVE  CoverInv'
  <1>1. PICK x \in run[r].todo :
          \/ Posted(r, x, {}) /\ UNCHANGED server
          \/ /\ Uuid(x.sync)
             /\ LET y == Created(x.sync, x.origin)
                IN /\ rows' = rows \cup {y}
                   /\ Record("create", y.id)
                   /\ Posted(r, x, {y}) \/ Posted(r, x, {})
    BY DEF PostRow
  <1>2. /\ run[r] \in RunType /\ run[r].next # "finish" /\ UNCHANGED <<local, since>>
        /\ RunCarries(r) /\ RunInv(r)
    BY DEF SyncInv, RunsInv, PostRow, CoverInv, RunCarries, device
  <1>3. x \in LocalRow /\ x.origin \in Origins /\ Known(x.sync, x.origin) /\ Here(x.origin)
    BY <1>2 DEF RunInv, RunType, LocalRow, Origins, RunCarries
  <1>4. ASSUME NEW back, Posted(r, x, back), back \subseteq rows'
        PROVE  /\ Follows(r) /\ run'[r].quiet = run[r].quiet
               /\ \A q \in Runs \ {r} : run'[q] = run[q]
    <2>1. /\ run'[r].todo \subseteq run[r].todo /\ run'[r].from = run[r].from
          /\ run'[r].incoming = run[r].incoming \cup back /\ run'[r].next = run[r].next
          /\ run'[r].quiet = run[r].quiet
          /\ \A q \in Runs \ {r} : run'[q] = run[q]
      BY <1>2, <1>4, ZenonT(40) DEF Posted, SyncInv, RunsInv, RunType
    <2>2. QED
      BY <1>2, <1>4, <2>1 DEF Follows
  <1>5. CASE Posted(r, x, {}) /\ UNCHANGED server
    <2>1. UNCHANGED <<rows, log, local, since>>
      BY <1>2, <1>5 DEF server
    <2>2. QED
      BY <1>4, <1>5, <2>1, OneFollows
  <1>6. CASE Uuid(x.sync) /\ ~(Posted(r, x, {}) /\ UNCHANGED server)
    <2>1. PICK y : /\ y = Created(x.sync, x.origin)
                   /\ rows' = rows \cup {y} /\ Record("create", y.id)
                   /\ Posted(r, x, {y}) \/ Posted(r, x, {})
      BY <1>1, <1>6
    <2>2. y.origin = x.origin /\ y \in rows'
      BY <1>3, <1>6, <2>1, CreatedIsOf DEF Uuid, SyncInv
    <2>3. /\ Steady /\ LogStands' /\ LocalNamed'
          /\ \A i \in 1..Len(log') : i \notin 1..Len(log) => log'[i].id = y.id
      BY <1>2, <2>1, <2>2, RecordIsSteady
    <2>4. \A i \in 1..Len(log') : i \notin 1..Len(log) => Covered(i)'
      BY <1>2, <1>3, <2>2, <2>3 DEF Covered, Here
    <2>5. /\ Follows(r) /\ run'[r].quiet = run[r].quiet
          /\ \A q \in Runs \ {r} : run'[q] = run[q]
      BY <1>4, <2>1, <2>2
    <2>6. \A q \in Runs \ {r} : Follows(q)
      BY <2>4, <2>5, LeftAlone DEF CoverInv
    <2>7. Calm' => Calm
      BY <2>5 DEF Calm
    <2>8. QED
      BY <1>2, <2>3, <2>5, <2>6, <2>7, StepCovers
  <1>7. QED
    BY <1>1, <1>5, <1>6

(* What is saved is a record of the same transaction as what was saved      *)
(* under its id before.                                                     *)
LEMMA SaveRowCovers ==
  ASSUME SyncInv, SyncInv', CoverInv, NEW r \in Runs, SaveRow(r)
  PROVE  CoverInv'
  <1>1. PICK y \in run[r].incoming :
          LET x == Pending(y.id, y.sync, y.origin)
          IN IF Clash(x)
               THEN Stop(r, "clash") /\ UNCHANGED local
               ELSE /\ local' = [local EXCEPT ![y.id] = x]
                    /\ run' = [run EXCEPT ![r].current = x,
                                          ![r].incoming = run[r].incoming \ {y},
                                          ![r].pc = "enqueue"]
    BY DEF SaveRow
  <1> DEFINE x == Pending(y.id, y.sync, y.origin)
  <1>2. /\ UNCHANGED <<rows, log, since>> /\ run[r] \in RunType /\ RunInv(r) /\ RunCarries(r)
    BY DEF SaveRow, server, SyncInv, RunsInv, CoverInv
  <1>3. y \in Row /\ IncomingInv(y)
    BY <1>2 DEF RunType, RunInv
  <1>4. CASE Stop(r, "clash") /\ UNCHANGED local
    BY <1>2, <1>4, StopCovers
  <1>5. CASE /\ local' = [local EXCEPT ![y.id] = x]
             /\ run' = [run EXCEPT ![r].current = x, ![r].incoming = run[r].incoming \ {y},
                                   ![r].pc = "enqueue"]
    <2>1. x.origin = y.origin /\ x.id = y.id /\ x \in LocalRow
      <3>1. x.sync = KeyOf(y.id, y.sync) /\ x.origin = y.origin /\ x.id = y.id
        BY DEF Pending, KeyOf
      <3>2. x.sync \in SyncIds /\ y.origin \in Origins
        BY <1>3, <3>1, KnownSyncIds DEF IncomingInv, Origins, SyncInv
      <3>3. QED
        BY <1>3, <3>1, <3>2 DEF Row, LocalRow, Pending, IncomingInv
    <2> HIDE DEF x
    <2>2. y.id \in Ids /\ y.origin \in Remote
      BY <1>3 DEF Row, IncomingInv
    <2>3. local'[y.id] = x /\ \A id \in Ids \ {y.id} : local'[id] = local[id]
      BY <1>5, <2>2 DEF SyncInv, LocalInv
    <2>4. x # None
      BY <2>1, RowAssumption
    <2>5. Named(y.id, y.origin)
      <3>1. PICK z \in rows : z.id = y.id /\ z.origin = y.origin
        BY <1>2 DEF RunCarries
      <3>2. QED
        BY <3>1 DEF SyncInv, RowsInv, Original, Copy, Named
    <2>6. local[y.id] # None => local[y.id].origin = y.origin
      <3> SUFFICES ASSUME local[y.id] # None PROVE local[y.id].origin = y.origin
        OBVIOUS
      <3> DEFINE o == local[y.id].origin
      <3>1. Named(y.id, o) /\ o \in Origins
        BY <2>2 DEF CoverInv, LocalNamed, SyncInv, LocalInv, LocalRow, Origins
      <3> HIDE DEF o
      <3>2. \A a, b \in Origins : IdFor(a) # b
        BY SyncAssumption, IdAssumption DEF Origins, IdFor, SyncIds
      <3>3. o = y.origin
        BY <2>2, <2>5, <3>1, <3>2, IdsDiffer DEF Named, Origins
      <3>4. QED
        BY <3>3 DEF o
    <2>7. Steady
      BY <1>2, <2>1, <2>3, <2>4, <2>6, Lengths DEF Steady
    <2>8. LogStands' /\ LocalNamed'
      BY <1>2, <2>1, <2>3, <2>5 DEF CoverInv, LogStands, LocalNamed
    <2>9. /\ run'[r].todo = run[r].todo /\ run'[r].from = run[r].from
          /\ run'[r].incoming = run[r].incoming \ {y} /\ run'[r].next = run[r].next
          /\ run'[r].quiet = run[r].quiet /\ run'[r].pc = "enqueue"
          /\ \A q \in Runs \ {r} : run'[q] = run[q]
      BY <1>2, <1>5 DEF SyncInv, RunsInv, RunType
    <2>10. Here(y.origin)'
      BY <2>1, <2>2, <2>3, <2>4 DEF Here
    <2>11. Follows(r)
      <3>1. \A z \in run[r].incoming : z \in run'[r].incoming \/ Here(z.origin)'
        BY <2>9, <2>10 DEF Here
      <3>2. QED
        BY <1>2, <2>9, <3>1 DEF Follows
    <2>12. (Calm' => Calm) /\ \A q \in Runs \ {r} : Follows(q)
      BY <1>2, <2>9, LeftAlone DEF Calm, CoverInv
    <2>13. QED
      BY <1>2, <2>7, <2>8, <2>11, <2>12, StepCovers
  <1>6. QED
    BY <1>1, <1>4, <1>5

(* The page has every entry there is after `from', when it is not too short. *)
LEMMA PageHasThem ==
  ASSUME SyncInv, NEW from \in 0..Len(log), Whole(from),
         NEW i \in 1..Len(log), i > from, log[i].op = "create"
  PROVE  log[i].id \in Pulled(from)
  <1>1. log \in Seq(Entry) /\ Len(log) \in Nat /\ PageLimit \in Nat
    BY Lengths, SyncAssumption DEF SyncInv, LogInv
  <1>2. Page(from) = SubSeq(log, from + 1, Len(log))
    <2>1. (IF Len(log) < from + PageLimit THEN Len(log) ELSE from + PageLimit) = Len(log)
      BY <1>1 DEF Whole
    <2>2. QED
      BY <2>1 DEF Page
  <1>3. /\ Len(Page(from)) = Len(log) - from
        /\ \A k \in 1..(Len(log) - from) : Page(from)[k] = log[from + k]
    <2>1. from + 1 \in 1..Len(log) + 1
      BY <1>1
    <2>2. Len(SubSeq(log, from + 1, Len(log))) = Len(log) - from
      BY <1>1, <2>1
    <2>3. \A k \in 1..(Len(log) - from) : SubSeq(log, from + 1, Len(log))[k] = log[from + k]
      BY <1>1, <2>1, <2>2
    <2>4. QED
      BY <1>2, <2>2, <2>3
  <1>4. i - from \in 1..Len(Page(from)) /\ Page(from)[i - from] = log[i]
    BY <1>1, <1>3
  <1>5. QED
    BY <1>4 DEF Pulled

(* A run that pulls: what was logged before its `from' is covered, and what *)
(* was logged since and still lives comes with the page.                    *)
LEMMA PullCovers ==
  ASSUME SyncInv, SyncInv', CoverInv, NEW r \in Runs, Pull(r)
  PROVE  CoverInv'
  <1>1. UNCHANGED <<rows, log, local, since>> /\ run[r].pc = "save"
    BY DEF Pull, server, device, Saved
  <1>2. CASE Stop(r, "gone")
    BY <1>1, <1>2, StopCovers
  <1>3. CASE /\ \A id \in Pulled(run[r].from) : Live(id)
             /\ run' = [run EXCEPT ![r].incoming = {x \in rows : x.id \in Pulled(run[r].from)},
                                   ![r].next = "finish",
                                   ![r].quiet = run[r].quiet /\ Whole(run[r].from)]
    <2> DEFINE from == run[r].from
               got == {x \in rows : x.id \in Pulled(from)}
    <2>1. /\ run[r] \in RunType /\ RunInv(r) /\ RunCarries(r)
      BY DEF SyncInv, RunsInv, CoverInv
    <2>2. /\ run'[r].todo = run[r].todo /\ run'[r].from = from
          /\ run'[r].incoming = got /\ run'[r].next = "finish"
          /\ run'[r].quiet <=> run[r].quiet /\ Whole(from)
          /\ run'[r].pc = "save" /\ \A q \in Runs \ {r} : run'[q] = run[q]
      BY <1>1, <1>3, <2>1, ZenonT(40) DEF SyncInv, RunsInv, RunType
    <2>3. from \in 0..Len(log)
      BY <2>1, Lengths DEF RunInv, RunType
    <2> HIDE DEF from
    <2>4. RunCarries(r)'
      <3>1. \A x \in run'[r].todo : Here(x.origin)'
        BY <1>1, <2>1, <2>2 DEF RunCarries, Here
      <3>2. QED
        BY <1>1, <2>2, <3>1 DEF RunCarries
    <2>5. ASSUME Calm', Calm
          PROVE  RunCovers(r)'
      <3>1. CoveredTo(from) /\ Whole(from)
        BY <2>2, <2>5 DEF Calm, CoverInv, RunCovers, from
      <3>2. ASSUME NEW i \in 1..Len(log)
            PROVE  Covered(i) \/ \E x \in got : x.id = log[i].id
        <4>1. CASE i <= from
          BY <2>3, <3>1, <4>1, Lengths DEF CoveredTo
        <4>2. CASE i > from /\ log[i].op = "create"
          <5>1. log[i].id \in Pulled(from)
            BY <2>3, <3>1, <4>2, PageHasThem
          <5>2. PICK x \in rows : x.id = log[i].id
            BY <4>2 DEF CoverInv, LogStands
          <5>3. QED
            BY <5>1, <5>2
        <4>3. CASE log[i].op # "create"
          BY <4>3 DEF Covered
        <4>4. QED
          BY <2>3, <4>1, <4>2, <4>3, Lengths
      <3>3. \A i : Covered(i) => Covered(i)'
        BY <1>1 DEF Covered, Live, Here
      <3>4. CoveredTo(run[r].from)'
        BY <1>1, <2>2, <3>1, <3>3 DEF CoveredTo
      <3>5. \A i \in 1..Len(log') : Covered(i)' \/ ToCome(r, i)'
        BY <1>1, <2>2, <3>2, <3>3 DEF ToCome
      <3>6. QED
        BY <3>4, <3>5 DEF RunCovers
    <2>6. Steady /\ LogStands' /\ LocalNamed'
      BY <1>1, TablesStay
    <2>7. (Calm' => Calm) /\ \A q \in Runs \ {r} : Follows(q)
      BY <1>1, <2>2, LeftAlone DEF Calm, CoverInv
    <2>8. QED
      BY <2>4, <2>5, <2>6, <2>7, StepCovers, <1>1
  <1>4. QED
    BY <1>2, <1>3 DEF Pull

(* A run that ends in order: it has seen the whole log.                     *)
LEMMA FinishCovers ==
  ASSUME SyncInv, SyncInv', CoverInv, NEW r \in Runs, Finish(r)
  PROVE  CoverInv'
  <1>1. UNCHANGED <<rows, log, local>> /\ since' = Len(log) /\ Stop(r, "ok")
    BY DEF Finish, server
  <1>2. run'[r] = Ended(r, "ok") /\ \A q \in Runs \ {r} : run'[q] = run[q]
    BY <1>1 DEF Stop, SyncInv, RunsInv
  <1>3. Follows(r) /\ run'[r].quiet = run[r].quiet
    BY <1>2, StoppedFollows
  <1>4. (Calm' => Calm) /\ \A q \in Runs \ {r} : Follows(q)
    BY <1>1, <1>2, <1>3, LeftAlone DEF Calm, CoverInv
  <1>5. Steady /\ LogStands' /\ LocalNamed'
    BY <1>1, TablesStay
  <1>6. Calm => CoveredTo(since)'
    <2> SUFFICES ASSUME Calm PROVE CoveredTo(since)'
      OBVIOUS
    <2>1. \A i \in 1..Len(log) : Covered(i)
      BY DEF CoverInv, RunCovers, Finish, Saved, ToCome
    <2>2. QED
      BY <1>1, <2>1 DEF CoveredTo, Covered, Live, Here
  <1>7. QED
    BY <1>3, <1>4, <1>5, <1>6, StepCovers

LEMMA StepCoversAll ==
  ASSUME SyncInv, SyncInv', CoverInv, [Next]_vars
  PROVE  CoverInv'
  <1>1. ASSUME NEW x \in Remote, RemoteCreate(x) \/ RemoteDelete(x)
        PROVE  CoverInv'
    BY <1>1, RemoteCreateCovers, RemoteDeleteCovers
  <1>2. ASSUME NEW l \in Logged, LogTransaction(l) \/ DeleteTransaction(l)
        PROVE  CoverInv'
    BY <1>2, LogTransactionCovers, DeleteTransactionCovers
  <1>3. CASE EnqueueChange \/ Kill
    BY <1>3, EnqueueChangeCovers, KillCovers
  <1>4. ASSUME NEW r \in Runs, Start(r) \/ ProcessPending(r) \/ GoOffline(r)
        PROVE  CoverInv'
    BY <1>4, StartCovers, FetchBatchCovers, PushBatchCovers, MarkBatchCovers, GoOfflineCovers
       DEF ProcessPending
  <1>5. ASSUME NEW r \in Runs, SyncCall(r)
        PROVE  CoverInv'
    BY <1>5, ListUnsyncedCovers, PostRowCovers, SaveRowCovers, EnqueueRowCovers, PullCovers,
       FinishCovers DEF SyncCall
  <1>6. CASE UNCHANGED vars
    <2>1. UNCHANGED <<rows, log, local, since, run>>
      BY <1>6 DEF vars
    <2>2. QED
      BY <2>1, TablesStay, SameRuns
  <1>7. QED
    BY <1>1, <1>2, <1>3, <1>4, <1>5, <1>6 DEF Next

(* While other clients write between the runs only, and no run has more     *)
(* than a page to pull, no creation is behind the stored time unless the    *)
(* device has it, whatever runs overlap, fail or are killed.                *)
THEOREM NothingIsPassedOver == Spec => []SinceCovered
  <1>1. SyncInv /\ SyncInv' /\ CoverInv /\ [Next]_vars => CoverInv'
    BY StepCoversAll
  <1>2. CoverInv => SinceCovered
    BY DEF CoverInv, SinceCovered, CoveredTo, Covered, Calm, Here
  <1>3. QED
    BY InitiallyCovered, SyncInvHolds, <1>1, <1>2, PTL DEF Spec
=============================================================================

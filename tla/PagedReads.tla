----------------------------- MODULE PagedReads -----------------------------
(***************************************************************************)
(* The two lists the Mali API serves in pages: transactions, newest or     *)
(* oldest first, and the log of changes that a device pulls.  Clients walk *)
(* a list while other requests add to it and delete from it.               *)
(*                                                                         *)
(* A page is one statement: the rows behind the cursor, in the order of    *)
(* time and id, one more than the limit.  The cursor is the time and id of *)
(* the last row shown; the answer formats the time with RFC3339, which     *)
(* leaves out what is below a second, and the rows keep it.  Filters only  *)
(* narrow the rows, so the rows here are those that pass them.             *)
(***************************************************************************)
EXTENDS Integers, FiniteSets

CONSTANTS Items,          \* ids of the list's rows, numbers in the order of UUIDs
          Walks,          \* clients that walk the list
          Limit,          \* rows of a page
          PerSecond,      \* moments in a second
          LastMoment,     \* bound of the clock and of transaction times
          MaxPages,       \* bound: pages a client asks for
          None

VARIABLES list,           \* which of the lists this is
          row,            \* its rows: their time, and whether they are to be seen
          clock,
          walk            \* what each client has seen and where it stands

vars == <<list, row, clock, walk>>

-----------------------------------------------------------------------------
(* One page.                                                                *)

(* RFC3339 has no fraction of a second.                                     *)
WholeSecond(t) == t - (t % PerSecond)

PartSecond(x) == x.at # WholeSecond(x.at)

Before(sort, x, y) ==
  IF sort = "asc" THEN x.at < y.at \/ (x.at = y.at /\ x.id < y.id)
                  ELSE x.at > y.at \/ (x.at = y.at /\ x.id > y.id)

Rows == {[id |-> i, at |-> row[i].at] :
           i \in {j \in Items : row[j] # None /\ row[j].state = "live"}}

(* Mutant: the row of the cursor is not left out. *)
FromCursor(w) ==
  {x \in Rows : walk[w].cursor = None \/ ~Before(walk[w].sort, x, walk[w].cursor)}

BehindCursor(w) ==
  {x \in Rows : walk[w].cursor = None \/ Before(walk[w].sort, walk[w].cursor, x)}

FirstRows(S, sort, n) == {x \in S : Cardinality({y \in S : Before(sort, y, x)}) < n}

LastRow(S, sort) == CHOOSE x \in S : \A y \in S \ {x} : Before(sort, y, x)

(* Mutant: the cursor is the extra row instead of the last one shown. *)
CursorAtExtraRow(page, extra, sort) ==
  LET x == LastRow(extra, sort) IN [id |-> x.id, at |-> WholeSecond(x.at)]

NextCursor(page, extra, sort) ==
  LET x == LastRow(page, sort) IN [id |-> x.id, at |-> WholeSecond(x.at)]

(* The field there is history: the rows that were there from the first page *)
(* on; seen and again are what the client was shown, once and repeatedly.   *)
Begin(w, sorts) ==
  /\ walk[w].pc = "idle"
  /\ \E sort \in sorts :
       walk' = [walk EXCEPT ![w].pc = "page", ![w].sort = sort, ![w].there = Rows]
  /\ UNCHANGED <<list, row, clock>>

BeginList(w) == list = "transactions" /\ Begin(w, {"asc", "desc"})

BeginPull(w) == list = "log" /\ Begin(w, {"asc"})

GetPage(w) ==
  /\ walk[w].pc = "page"
  /\ LET sort == walk[w].sort
         extra == FirstRows(BehindCursor(w), sort, Limit + 1)
         page == FirstRows(extra, sort, Limit)
         shown == [walk[w] EXCEPT !.again = @ \cup (walk[w].seen \cap page),
                                  !.seen = @ \cup page, !.pages = @ + 1]
         more == extra # page
     IN walk' = [walk EXCEPT ![w] =
          IF more /\ shown.pages < MaxPages
            THEN [shown EXCEPT !.cursor = NextCursor(page, extra, sort)]
            ELSE [shown EXCEPT !.pc = IF more THEN "stopped" ELSE "done", !.cursor = None]]
  /\ UNCHANGED <<list, row, clock>>

ListTransactions(w) == list = "transactions" /\ GetPage(w)

Pull(w) == list = "log" /\ GetPage(w)

-----------------------------------------------------------------------------
(* What goes on beside the walks.                                           *)

(* CreateTransaction takes the time from the client.                        *)
AddTransaction(i) ==
  /\ list = "transactions"
  /\ row[i] = None
  /\ \E t \in 0..LastMoment : row' = [row EXCEPT ![i] = [at |-> t, state |-> "live"]]
  /\ UNCHANGED <<list, clock, walk>>

DeleteTransaction(i) ==
  /\ list = "transactions"
  /\ row[i] # None /\ row[i].state = "live"
  /\ row' = [row EXCEPT ![i].state = "deleted"]
  /\ walk' = [w \in Walks |-> [walk[w] EXCEPT !.there = {x \in @ : x.id # i}]]
  /\ UNCHANGED <<list, clock>>

(* An entry has the time at which its statement began, and is seen when it  *)
(* is committed; an earlier one may be committed later.                     *)
StampEntry(i) ==
  /\ list = "log"
  /\ row[i] = None
  /\ row' = [row EXCEPT ![i] = [at |-> clock, state |-> "stamped"]]
  /\ UNCHANGED <<list, clock, walk>>

CommitEntry(i) ==
  /\ row[i] # None /\ row[i].state = "stamped"
  /\ row' = [row EXCEPT ![i].state = "live"]
  /\ UNCHANGED <<list, clock, walk>>

Advance ==
  /\ list = "log"
  /\ clock < LastMoment
  /\ clock' = clock + 1
  /\ UNCHANGED <<list, row, walk>>

Init ==
  /\ list \in {"transactions", "log"}
  /\ row = [i \in Items |-> None]
  /\ clock = 0
  /\ walk = [w \in Walks |-> [pc |-> "idle", sort |-> "desc", cursor |-> None, seen |-> {},
                              again |-> {}, there |-> {}, pages |-> 0]]

Next ==
  \/ \E w \in Walks : BeginList(w) \/ BeginPull(w) \/ ListTransactions(w) \/ Pull(w)
  \/ \E i \in Items : \/ AddTransaction(i) \/ DeleteTransaction(i)
                      \/ StampEntry(i) \/ CommitEntry(i)
  \/ Advance

Spec == Init /\ [][Next]_vars

-----------------------------------------------------------------------------
(* Properties.                                                              *)

Ended(w) == walk[w].pc = "done"

Missed(w) == walk[w].there \ walk[w].seen

(* What openapi.json says of the list: "Supports filtering by               *)
(* wallet/category/date/type and cursor pagination."  A walk to the last    *)
(* page shows every row that was there all the time.                        *)
WalkIsComplete == \A w \in Walks : Ended(w) => Missed(w) = {}

(* Rows that lie in one second with a shown row that lies past its begin-   *)
(* ning: what the cursor cannot tell apart.                                 *)
Blurred(w, x) ==
  \E y \in walk[w].seen : PartSecond(y) /\ WholeSecond(y.at) = WholeSecond(x.at)

(* A walk that goes forward in time misses nothing, whatever is added and   *)
(* deleted under it; one that goes backward misses only blurred rows.       *)
MissesOnlyBlurredRows ==
  \A w \in Walks : Ended(w) =>
    \A x \in Missed(w) : walk[w].sort = "desc" /\ Blurred(w, x)

(* A walk backward in time shows nothing twice, a walk forward only blurred *)
(* rows.                                                                    *)
RepeatsOnlyBlurredRows ==
  \A w \in Walks : \A x \in walk[w].again : walk[w].sort = "asc" /\ Blurred(w, x)
=============================================================================

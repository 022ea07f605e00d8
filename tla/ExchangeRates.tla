---------------------------- MODULE ExchangeRates ----------------------------
(***************************************************************************)
(* RateService and RateFetchWorker of the Mali API: the exchange rates of  *)
(* each user, set by hand or fetched by a task for every user.             *)
(*                                                                         *)
(* exchange_rates has no unique constraint: one statement updates the rows *)
(* of its user, pair, source and time, and inserts one when there is none. *)
(* Two such statements that overlap both insert.  The task is retried as a *)
(* whole, with rates fetched anew and a new time, and two tasks may run at *)
(* once.  Its own statements are atomic here, as they share a time with no *)
(* other.  A pair is the currency it quotes; times are ticks of a clock.   *)
(***************************************************************************)
EXTENDS Integers, FiniteSetsExt

CONSTANTS Users, FirstUsers,  \* all accounts, and those there from the start
          Currencies,         \* numbers, in the order the worker stores them
          Rates,              \* rates that clients send and the provider quotes
          Moments,            \* times that clients send
          ManualRequests, Tasks,
          Attempts,           \* bound: asynq gives a task up after so many
          LastTick,           \* bound of the clock
          None

VARIABLES accounts,       \* the users registered so far
          table,          \* the rows of exchange_rates
          now,
          manual,         \* the state of each request to set a rate by hand
          task            \* the state of each fetch task

vars == <<accounts, table, now, manual, task>>

Key(x) == <<x.user, x.currency, x.source, x.at>>

-----------------------------------------------------------------------------
(* The statement.                                                           *)

(* Mutant: the time is not part of the key. *)
MatchingPair(x) ==
  {y \in table : y.user = x.user /\ y.currency = x.currency /\ y.source = x.source}

Matching(x) == {y \in table : Key(y) = Key(x)}

Updated(x) ==
  (table \ Matching(x)) \cup {[y EXCEPT !.rate = x.rate, !.at = x.at] : y \in Matching(x)}

(* Mutant: a row is inserted whether or not one was updated. *)
InsertAlways(x) == table \cup {x}

Upserted(x) == IF Matching(x) # {} THEN Updated(x) ELSE table \cup {x}

-----------------------------------------------------------------------------
(* SetManualRate.                                                           *)

OpenManual == {m \in ManualRequests : manual[m].pc \in {"upsert", "insert"}}

(* The field met is history: the requests that were open together with it.  *)
Submit(m) ==
  /\ manual[m].pc = "idle"
  /\ \E u \in accounts, c \in Currencies, rate \in Rates, at \in Moments \cup {now} :
       LET x == [id |-> m, user |-> u, currency |-> c, source |-> "manual", at |-> at,
                 rate |-> rate]
       IN manual' = [o \in ManualRequests |->
            IF o = m THEN [pc |-> IF rate > 0 THEN "upsert" ELSE "refused", row |-> x,
                           met |-> OpenManual]
            ELSE IF o \in OpenManual THEN [manual[o] EXCEPT !.met = @ \cup {m}]
            ELSE manual[o]]
  /\ UNCHANGED <<accounts, table, now, task>>

(* The UPDATE of the statement, with the snapshot the INSERT decides by.    *)
UpdateRows(m) ==
  /\ manual[m].pc = "upsert"
  /\ IF Matching(manual[m].row) # {}
       THEN /\ table' = Updated(manual[m].row)
            /\ manual' = [manual EXCEPT ![m].pc = "done"]
       ELSE /\ manual' = [manual EXCEPT ![m].pc = "insert"]
            /\ UNCHANGED table
  /\ UNCHANGED <<accounts, now, task>>

InsertRow(m) ==
  /\ manual[m].pc = "insert"
  /\ table' = table \cup {manual[m].row}
  /\ manual' = [manual EXCEPT ![m].pc = "done"]
  /\ UNCHANGED <<accounts, now, task>>

FailManual(m) ==
  /\ m \in OpenManual
  /\ manual' = [manual EXCEPT ![m].pc = "failed"]
  /\ UNCHANGED <<accounts, table, now, task>>

-----------------------------------------------------------------------------
(* HandleFetchExchangeRatesTask.                                            *)

Waiting == [pc |-> "waiting", quotes |-> [c \in Currencies |-> None], listed |-> {},
            todo |-> {}, at |-> 0, attempt |-> 1]

(* An error gives the task back to asynq, which runs it again from the      *)
(* start or archives it.                                                    *)
GivenBack(k) ==
  [Waiting EXCEPT !.attempt = task[k].attempt + 1,
                  !.pc = IF task[k].attempt < Attempts THEN "waiting" ELSE "archived"]

(* The provider may leave a currency out, but not all.                      *)
FetchRates(k) ==
  /\ task[k].pc = "waiting"
  /\ \/ \E q \in [Currencies -> (Rates \ {0}) \cup {None}] :
          /\ \E c \in Currencies : q[c] # None
          /\ task' = [task EXCEPT ![k].quotes = q, ![k].pc = "list"]
     \/ task' = [task EXCEPT ![k] = GivenBack(k)]
  /\ UNCHANGED <<accounts, table, now, manual>>

ListUsers(k) ==
  /\ task[k].pc = "list"
  /\ task' = [task EXCEPT ![k].listed = accounts, ![k].todo = accounts \X Currencies,
                          ![k].at = now, ![k].pc = "store"]
  /\ UNCHANGED <<accounts, table, now, manual>>

(* Mutant: a rate that cannot be stored is left out. *)
StoreRateOrSkip(k) ==
  /\ task[k].pc = "store"
  /\ \E u \in {p[1] : p \in task[k].todo} :
       LET c == Min({p[2] : p \in {q \in task[k].todo : q[1] = u}})
           x == [id |-> <<k, task[k].attempt, u, c>>, user |-> u, currency |-> c,
                 source |-> "auto_fetch", at |-> task[k].at, rate |-> task[k].quotes[c]]
       IN /\ task' = [task EXCEPT ![k].todo = @ \ {<<u, c>>}]
          /\ IF task[k].quotes[c] = None THEN UNCHANGED table ELSE table' = Upserted(x)
  /\ UNCHANGED <<accounts, now, manual>>

(* One user after the other, the currencies of a user in order.  A missing  *)
(* quote or a failed statement ends the attempt in the middle.              *)
StoreRate(k) ==
  /\ task[k].pc = "store"
  /\ \E u \in {p[1] : p \in task[k].todo} :
       LET c == Min({p[2] : p \in {q \in task[k].todo : q[1] = u}})
           x == [id |-> <<k, task[k].attempt, u, c>>, user |-> u, currency |-> c,
                 source |-> "auto_fetch", at |-> task[k].at, rate |-> task[k].quotes[c]]
       IN /\ \A o \in {p[1] : p \in task[k].todo} \ {u} : {o} \X Currencies \subseteq task[k].todo
          /\ \/ /\ task[k].quotes[c] # None
                /\ table' = Upserted(x)
                /\ task' = [task EXCEPT ![k].todo = @ \ {<<u, c>>}]
             \/ /\ task' = [task EXCEPT ![k] = GivenBack(k)]
                /\ UNCHANGED table
  /\ UNCHANGED <<accounts, now, manual>>

FinishTask(k) ==
  /\ task[k].pc = "store"
  /\ task[k].todo = {}
  /\ task' = [task EXCEPT ![k].pc = "done"]
  /\ UNCHANGED <<accounts, table, now, manual>>

-----------------------------------------------------------------------------
Register(u) ==
  /\ u \notin accounts
  /\ accounts' = accounts \cup {u}
  /\ UNCHANGED <<table, now, manual, task>>

Tick ==
  /\ now < LastTick
  /\ now' = now + 1
  /\ UNCHANGED <<accounts, table, manual, task>>

Init ==
  /\ accounts = FirstUsers
  /\ table = {}
  /\ now = 0
  /\ manual = [m \in ManualRequests |-> [pc |-> "idle", row |-> None, met |-> {}]]
  /\ task = [k \in Tasks |-> Waiting]

SetManualRate(m) == Submit(m) \/ UpdateRows(m) \/ InsertRow(m) \/ FailManual(m)

HandleFetchExchangeRatesTask(k) ==
  FetchRates(k) \/ ListUsers(k) \/ StoreRate(k) \/ FinishTask(k)

Next ==
  \/ \E m \in ManualRequests : SetManualRate(m)
  \/ \E k \in Tasks : HandleFetchExchangeRatesTask(k)
  \/ \E u \in Users : Register(u)
  \/ Tick

Spec == Init /\ [][Next]_vars

-----------------------------------------------------------------------------
(* Properties.                                                              *)

RatesOf(u, c) == {x \in table : x.user = u /\ x.currency = c}

(* The row GetLatestRate answers with; of rows of one time it is any.       *)
Latest(u, c) == {x \in RatesOf(u, c) : \A y \in RatesOf(u, c) : y.at <= x.at}

(* Two rows of one user, pair, source and time come only of two requests    *)
(* that were open together.  In turn, the later rate replaces the earlier.  *)
OneRowInTurn ==
  \A x, y \in table :
    x # y /\ Key(x) = Key(y) =>
      /\ {x.id, y.id} \subseteq ManualRequests
      /\ y.id \in manual[x.id].met

(* The rate a user is shown never gives way to an older one, although a     *)
(* task or a request may store a time long after it took it, and a task may *)
(* be retried half way.                                                     *)
NewerRateStays ==
  [][\A u \in Users, c \in Currencies :
       \A x \in Latest(u, c) : \E y \in Latest(u, c)' : y.at >= x.at]_vars

(* A task that asynq need not run again has stored every currency for every *)
(* user who was registered when it listed them, all at one time.            *)
TaskStoredAll ==
  \A k \in Tasks : task[k].pc = "done" =>
    \A u \in task[k].listed, c \in Currencies :
      \E x \in RatesOf(u, c) : x.source = "auto_fetch" /\ x.at = task[k].at
=============================================================================

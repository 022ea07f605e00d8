# Mali: models and proofs

Mali is a personal-finance system: a Go API over PostgreSQL and Redis (`src/mali_api`) and an offline-first Flutter app
with a local SQLite database (`src/mali_app`). This directory holds TLA+ models of the parts whose behaviour depends on
the order of events, the instances of them that TLC checks, and proofs about them that TLAPS checks. `PROJECT.json`
lists the components, the runs, the theorems, the hazards and, for every definition, the source lines it stands for.

Run TLC with `tlc -config <run>.cfg <MC module>` and TLAPS with `tlapm <module>Proofs.tla`.

## 1. The parts of the system

Paths are relative to `src/mali_api/internal` and `src/mali_app/lib`.

| Part | State | Operations | Talks to |
|---|---|---|---|
| Transaction ledger (`usecase/transaction_service.go`, `repository/postgres/transaction_repo.go`) | `wallets.balance`, `transactions` | create (income, expense, transfer), replay by `sync_id`, delete, get, list | PostgreSQL transactions and row locks; called by handlers and by `SyncService` |
| Wallets (`usecase/wallet_service.go`) | `wallets` | create, rename, overwrite the balance, soft-delete | shares `wallets` with the ledger |
| Savings goals (`usecase/goal_service.go`) | `savings_goals`, `goal_contributions` | create, update, delete, contribute | separate statements, no transaction |
| Sessions, server (`usecase/auth_service.go`) | `users`, `refresh_tokens` | register, login, refresh, logout | JWT check of every request |
| Sessions, client (`data/remote/auth_interceptor.dart`, `retry_interceptor.dart`, `core/auth/auth_token_store.dart`, `data/repositories/auth_repository.dart`) | two tokens and the profile in secure storage, the error queue of each Dio client | send, retry, refresh and resend, login, logout, restart | the server's refresh endpoint; the session-expired event logs the user out |
| Sync server (`usecase/sync_service.go`, `delivery/http/middleware/sync_log.go`) | `sync_log` | push a batch, pull a page; a log entry after each successful write request | the services behind each entity |
| Sync client (`data/sync`, `data/repositories/hybrid_transaction_repository.dart`, `domain/usecases/sync_usecase.dart`, `data/remote/sync_pull_gateway.dart`) | local `transactions`, `sync_queue`, the time of the last run | log, delete, restore; a run pushes the queue, posts unsynced rows, pulls | started by a timer, by connectivity and by the transaction list, in two isolates |
| Budgets (`usecase/budget_service.go`) | `budgets`, the last reported threshold in memory | upsert, status, threshold event | reads the ledger |
| Local ledger, goals and budgets (`domain/usecases/*_transaction_usecase.dart`, `allocate_to_goal`, `reorder_goals`, `create_budget`, ...) | local tables | read, compute, write over awaits | each other, through the tables |
| PIN lock (`application/providers/pin_lock_providers.dart`, `core/security/pin_lock_store.dart`) | four keys, the lock state | enable, disable, lock, unlock | the router |
| Exchange rates (`usecase/rate_service.go`, `worker/rate_fetch_worker.go`, `refresh_exchange_rates_usecase.dart`) | `exchange_rates` on both sides | fetch, set by hand, look up | an external service |
| Rate limiter (`delivery/http/middleware/rate_limit.go`) | a sorted set per address in Redis | admit or refuse | the authentication routes |
| Analytics, categories, HTTP plumbing, generated access code, presentation, reminders, digest, export | none that other parts depend on | read, format, wire | - |

### What is hard, and what makes each part correct

*Transaction ledger and wallets.* Requests interleave between SQL statements; transfers lock source then destination;
the client retries a create whose first attempt may still be running; COMMIT may succeed and its answer be lost. Correct
means: a balance nobody overwrote is its opening amount plus the effect of every recorded row, as far as four decimals
can tell; a `sync_id` is recorded once; an answer is true of the table; every request is answered.

*Goals.* A contribution is four statements: read, insert, store the sum computed at the read, rewrite the row. Correct
means: every acknowledged contribution is in the saved amount; completion follows it; updates stand; a deleted goal
does not come back.

*Sessions.* The server checks, revokes and issues in three statements; several requests find one access token expired
at once; the two tokens are stored one after the other; the app may be killed anywhere. Correct means: a refresh token
is used once and never after its successor exists; the stored pair is one pair that works; nobody is thrown out for
nothing; every request ends but behind one that was sent again under another session.

*Synchronisation.* Runs overlap with no lock; answers are lost; what was pulled is saved like something new and goes
out again; the log is written after the fact and its write may fail. Correct means: one transaction stays one record;
nothing leaves the queue unrecorded; the stored time never passes a change the device lacks; a bad item does not stop
the rest (it does: section 5).

*Budgets, exchange rates.* Status requests overlap between two locks around the last reported threshold, and an emitter
may fail between two events. Rates are upserted without a unique constraint, by requests and by tasks that are retried as
a whole. Correct means: what is remembered as reported was reported, nothing reached goes unreported; one rate per key and
time, a finished task stored everything, a newer rate is not displaced by an older one.

*Lists, push, rate limit.* Clients walk lists that change, with a cursor that is less exact than the order; a push whose
answer is lost is sent again beside itself; Redis may run scripts in another order than their times. Correct means: a walk
misses and repeats only what the cursor cannot tell apart; a change is carried out once and answered truthfully; the limit
holds over every span.

*The device's own data.* Use cases read, compute and write over awaits, without a database transaction; the keys of the
PIN are written in parallel. Correct means: balances, budgets and goals say no more than what was entered, and exactly
that when calls come one at a time and none was cut; goals stay in one order; the lock opens with the PIN set last.

## 2. Plan

In the order in which it was, and will be, carried out:

1. `AtomicLedger`, `WalletLedger`: the money path, the heart of the system. *Done, with a refinement proof.*
2. `GoalContribution`: the one write path on the server without a transaction. *Done, with proofs.*
3. `OfflineSync`: device and server together. *Done, with proofs.*
4. `Sessions`: client and server together. *Done, with proofs.*
5. `BudgetAlerts`, `ExchangeRates`, `PagedReads`, `SyncPush`, `RateLimit`: the rest of the API that keeps state.
   *Done, with proofs.*
6. `DeviceLedger`, `DeviceGoals`, `PinLock`: the rest of the device that does. *Done, with proofs.*
7. Proofs of every invariant and action property that a run checks, and of the lemmas about sums and orders they need.
   *Done; liveness stays with TLC (section 7).*

The questions are asked with few runs: one instance of a module answers as many of them as it can, and a smaller
instance is added only where a question needs fairness, other actors or a claim of its own. The modules of 5 and 6 share
one run, through `Components`.

## 3. The modules and the code

Each MC module (`MCWalletLedger`, `MCGoalContribution`, `MCOfflineSync`, `MCSessions`, `MCComponents`) only gives the
constants of its module values and declares symmetries. Definitions marked `Mutant` are not part of a specification: each
is the form a plausible bug would give one definition, and shows that the property beside it in `PROJECT.json` notices it.

### WalletLedger and AtomicLedger

A request is a process. One action is one SQL statement with the service code up to the next one: `FirstLookup` and
`SecondLookup` are the two searches for the `sync_id`, `LockSource` and `LockDest` the `SELECT ... FOR UPDATE` of
`lockWalletForUpdate`, `ApplySource` and `ApplyDest` the relative updates, `Insert` and `Commit` the rest of
`CreateAndApply`. `Fail` may end a request between any two of them; `Commit` may succeed and be reported as a failure.
`ReadWallet`, `StoreBalance` and `SoftDeleteWallet` are `WalletService`, `SoftDeleteRow` is `DeleteTransaction`, which
gives no money back.

Of PostgreSQL the model has what the code relies on: reads see committed data, a row lock lasts until the transaction
ends, a statement that needs a locked row waits, a unique index lets one of two equal keys in and makes the second wait
for the first, and a cycle of waiting transactions loses one of them (`BreakDeadlock`).

`AtomicLedger` is what all this promises: `Record`, `Strike`, `Overwrite` and `Close`, each one step. What is stored is a
number of `DECIMAL(18,4)` units. What a client sends, and what the service computes from it, is exact and may be finer: it
is a number of parts of which `Grain` make a unit. `Stored` is the rounding of the column, for the amount of a row
(`RowOf`) and for each balance that an update leaves (`Posted`); `ValidCreate` looks at the sign before that rounding, as
the code does, so a row of amount zero exists in the model. A rate is a whole number: a product with a finer rate is one
more amount between two units. Left out are the rounding of the rate itself to eight decimals, which no balance is
computed from, and that of `FloatString(12)`, eight digits below the one that is stored.

### GoalContribution

One goal, since every statement names its goal by id. `ReadForContribution`, `InsertContribution`, `StoreSaved` and
`Rewrite` are the four statements of `Contribute`, `ReadForUpdate` and `Rewrite` the two of `UpdateGoal`; the in-memory
goal between them is `copy`. `Rewrite` writes every column but the saved amount, because `UpdateGoal` in `goals.sql` does.
`RequiredMonthly` with `MonthsUntil` and `RoundedQuotient` is the arithmetic of `requiredMonthly`, `monthsUntil` and
`FloatString(4)`; `NextDay` lets the deadline pass while a request is open. Every write may be reported as failed
although it took place. The clients of this module send amounts of whole units; what finer ones lead to is a question
of the columns, not of the order of the statements, and `WalletLedger` asks it.

### OfflineSync

One device, the API and other clients of the account. `LogTransaction`, `DeleteTransaction` and `EnqueueChange` are the
hybrid repository, whose two writes can be torn apart by a `Kill`. A run goes through `FetchBatch`, `PushBatch` and
`MarkBatch` (`SyncQueueManager`), then `ListUnsynced`, `PostRow`, `SaveRow`, `EnqueueRow` and `Pull` (`SyncUseCase` and
the gateways), then `Finish` stores the time. A refresh of the list does the second half. The server's part of a call is
one step with the log entry, which may be missing because `SyncLog` ignores errors. Ids tell the two kinds apart that
matter: those the server makes are UUIDs, those of `LocalIdGenerator` are not, and `Push` refuses a batch with one of
them. Time is the length of the log: device and server are given one clock, which favours the code. `quiet` is history: no
other client wrote during the run, and (`Whole`) its page reached the end of the log. The code asks for one page and does
not follow the cursor, so of longer pulls nothing can be promised.

### Sessions

One device with two isolates over one secure storage, and the token table. A request is a process: `Send` and `Arrive`,
`PassOn` for `RetryInterceptor`, then `TakeError`, `ReadRefreshToken`, the three statements of the server
(`FindByTokenHash`, `RevokeByID`, `CreateToken`), `SaveAccess`, `SaveRefresh`, `Resend`, `Resent`, or
`HandleSessionExpired`. `Busy(c)` is the error queue of a `QueuedInterceptor`, which handles one error at a time; a
request sent again by a handler that then meets an error waits behind its own handler (`blocked`), and with it every later
error of the client (`Stranded` names it by what it is: sent again, and failed or under another token). `leaving` holds
the logouts under way, the user's and those the session-expired event starts; `Kill` ends an isolate while the server
still works on what it sent, and starts the main one again with `loadPersistedSession`.

`mishap` is a history variable: the kinds of trouble a behaviour has met. The properties say through it under which
trouble a promise holds; no action but the bound `MaxKinds` reads it. The thirty-day life of a refresh token is left out
(no behaviour of interest lasts that long), and so are registration and the profile's contents. The two tokens are
cleared in parallel (`clear`) and the model clears them in one step: what a reader or a kill between the two deletions
would find, one token without the other, is left out. Saving them, one after the other, is two steps.

### BudgetAlerts

One user and month. `ListBudgets`, then for each budget `SumSpent`, `ReadLastEmitted`, `Emit` for each event and
`StoreLastEmitted` are `GetBudgetStatus` with `emitBudgetExceededIfCrossed`, cut where a statement or a lock ends.
`Record` is the ledger writing and deleting underneath, `UpsertBudget` one upsert, `RestartServer` forgets the thresholds.
`main.go` sets no emitter; the model is the service with one, as its tests have it. Below 80 percent nothing is stored, so
that a budget that falls below and rises again is not reported a second time. A status request may be made again and
again, and events are counted to two.

### ExchangeRates

`SetManualRate` is `Submit` and the upsert in its two halves, `UpdateRows` and `InsertRow`: the table has no unique
constraint, and both halves of one statement see one snapshot. `HandleFetchExchangeRatesTask` fetches, lists the users,
and stores one rate after the other; any error gives the task back to asynq, which runs it from the start with other rates
and another time.

### PagedReads

The two keyset walks, transactions (`BeginList`, `ListTransactions`) and the sync log (`BeginPull`, `Pull`), with
`GetPage` for what they share. Times are moments, of which a second has several: `NextCursor` cuts the time to the second,
as `time.RFC3339` does, while `Before` compares the exact ones. A log entry is stamped by one step and committed by
another.

### SyncPush

Requests share changes because a device repeats what was not answered. `Receive` is the handler's validation, then one
step per change, each a call of a service; `InsertContribution` and `UpdateSaved` are the two of `Contribute`. `Lose` ends
the request between any two. The payloads are reduced to what a change does. `Push` turns every error of a service into a
conflict, and a service also returns one when its statement or COMMIT took effect and only the answer was lost: each
change that is carried out may be reported so (`Unheard`), which `unsure` records.

### RateLimit

`Stamp` takes the time, `RunScript` is the Lua script, one atomic step of Redis; `Delay` bounds the ticks between the two,
since the limit is inexact by exactly that delay. The key expires with the window.

### DeviceLedger and DeviceGoals

A call of a use case is a process of which each await is a step: `BeginLog`, `FindTransaction`, `FindWallet`,
`UpdateBalance`, `SaveRow`, `FindBudget`, `UpdateSpentAmount`, `Publish` for the three transaction use cases,
`CheckDuplicate` and `SaveBudget` for a new budget; `CreateGoal`, `UpdateGoal`, `ReorderGoals` and `AllocateToGoal` with
the list they read and the rows they save. The saves of a call are a set; a reordering makes them in the new order, so
`First` takes the one with the lowest new place. `Break` is a failing statement or the end of the app, the same to the
database.

### PinLock

`SetPin` and `DisablePin` start the writes of three keys, which land in any order (`Land`), fail (`WriteFails`) or are cut
(`Kill`); `PinSaved` and `PinCleared` tell the controller when all have ended. A PIN is known by its salt, so `Matches`
compares hash and salt. A PIN is set when there is none, or changed, for which the present one is entered (`SetAllowed`):
then the lock is on while its keys are overwritten. `LockIfEnabled` leaves the settings for the lock screen, which is how
a save or a clearing is left behind (`LeaveScreen`); the writes go on (`WritesEnd`). The writes of one save or clearing
end before those of the next begin.

### Components

These eight share no variable: each talks to the others only through what another module models (the ledger under the
budgets is `Record`, the services under a push are its steps). `Components` puts them side by side, a behaviour is one of
one of them, and one run checks them all. It adds nothing to what the single modules say.

## 4. The runs

| Run | Distinct states | Question and result |
|---|---|---|
| `ledger` | 3,084,130 | Is the money path an atomic ledger? Yes: types, `SyncIdUnique`, `BalancesExplained`, `AnswersAreTruthful`, `LedgerInv` and the refinement `RefinesAtomicLedger` hold. |
| `ledger_live` | 33,121 | Is every request answered although transfers can deadlock? Yes. |
| `ledger_close` | violation | Can a wallet be deleted with money in it? Yes: the balance is read before an income commits. |
| `goal` | 5,062,608 | Do contributions, updates and deletions leave the row explicable? Yes: money is at worst forgotten, and what is deleted stays deleted. Of requests that come in turn acknowledged contributions are saved, completion follows, updates stand. |
| `goal_lost` | violation | And of two at a time? One acknowledged contribution can vanish from the saved amount. |
| `sync` | 2,909,939 | Do overlapping runs, lost answers and kills copy or lose transactions? With a `sync_id` no, without one there is one copy at most; nothing leaves the queue unrecorded; the stored time passes nothing the device lacks while other clients are quiet during runs and no run has more than a page to pull. |
| `sync_gone` | violation | Can a pull meet a deleted transaction? Yes, and no run gets past it. |
| `session` | 163,796 | Refreshes, logins, logouts, failures, kills and two isolates: rotation, single use, no needless expulsion, a usable pair, and every request ends, but behind one stranded in the queue. |
| `session_ui` | 378,976 | And with three requests of the screens? The same. Network trouble alone can strand one: the late failure of a second clears the tokens under it, and the third waits behind it. |
| `session_stuck` | violation | Is every failure reported? Not that of a request sent again after a refresh. |
| `components` | 3,024,830 | The eight smaller components, below. |
| `list_skipped` | violation | Does a walk through the list show everything? Not newest first: rows in the second of a page's last row are left out. |

What `components` shows, by part and its states:

| Part | States | Holds |
|---|---|---|
| budgets | 80,165 | A remembered threshold was reported, with the lower one (`RememberedIsReported`); an answered, undisturbed request leaves none unreported (`NoAlertMissed`); in turn and without failures, 80 percent is reported once (`ReportedOnce`). |
| rates | 828,933 | Two rows of one key come only of requests that were open together (`OneRowInTurn`); a finished task stored every rate (`TaskStoredAll`); the rate shown never gives way to an older one (`NewerRateStays`). |
| pages | 61,411 | A walk misses only blurred rows, backward (`MissesOnlyBlurredRows`), and repeats only blurred rows, forward (`RepeatsOnlyBlurredRows`). |
| push | 244,654 | A request carries a change out once; a transaction is created, and a transaction or goal deleted, by one request (`CarriedOutOnce`); answers are true, but for half a contribution and for a change whose answer from the database was lost (`AnswersTell`). |
| limiter | 336,712 | No span shorter than the window by the delay passes more than the limit (`LimitHolds`). |
| ledger | 958,687 | In turn, the balance is the transactions' effect and that of the calls that were cut (`DriftIsCut`); a budget is never overcharged or announced wrongly (`AlertsAreTrue`). |
| goals | 507,109 | A goal shows no more than was given, and in turn as much (`ShownIsGiven`); in turn the goals have one order (`OneOrder`). |
| pin | 7,159 | A lock that asks opens with the PIN set last, also one that was changed, left during a save, or killed before or after the writes; unless some writes landed and others failed or were lost, or a clearing was left (`PinOpens`). |

"In turn" and "unless cut" are history variables of the models. They are not there for convenience: without them each of
these properties is false, by the hazards `PROJECT.json` lists, and no text of the repository promises more.

### The bounds, and why they are enough

*Ledger.* Three requests are the smallest number with two racing on a wallet or a `sync_id` and a third that closes,
overwrites or reads; a deadlock takes two. Two wallets give both directions of a transfer; one is empty, so that it can be
closed. Four parts make a unit: of the amounts -4 and 6 the first is sent to be rejected, the second is a unit and a half,
which rounds up in the row and up or down in a balance. Rate 2 makes three units of it. A second user without wallets
tries the first one's. All requests are interchangeable, so their permutations
are taken as symmetric, also for the refinement, which is a property of single steps.

*Goals.* Three requests with amounts 4 and 7 against a target of 10 reach it with both and with neither; targets 5 and
20 lower and raise it, deadlines lie before and after the calendar's end. A month of two days has a part month, and the
calendar of three days passes a deadline.

*Sync.* One transaction of the user and one of another client, with or without a `sync_id`; three runs of which two may be
open; a batch holds two items, the queue at most two that the user adds, a page three entries. Runs of one kind are
interchangeable.

*Sessions.* Two requests of the screens race for one refresh, a third is the background isolate's; two logins put an old
session's failure next to a new one. `session_ui` gives three requests to the screens, since a queue that one of them
holds for good takes a second whose failure comes late and a third that waits; its trouble is lost calls, failed resends
and kills, while logouts, which with three such requests make millions of states, and the background isolate are left to
`session`. `MaxKinds` = 1 gives each behaviour any number of mishaps of one kind. The safety of larger values was explored for several
million states without an error, but not to the end.

*Components.* Two status requests, which may be repeated, two transactions and budgets of 5 and 10 against expenses of 4
and 5 give 80 and 100 percent, spending that falls and rises, and budgets raised meanwhile. Two requests and one task with
two attempts, two currencies, a user registered later and two ticks put every upsert beside every other. Three rows in
pages of one, in two seconds of two moments, give equal times, equal seconds and next seconds; four pages end every walk
but a repeating one. Two pushes share two changes of any kind, and batches are empty, full and too long. Four requests
against a limit of two in a window of three make one drop out, one be refused and one come late. Four calls over two
transactions and two budgets are needed for a false alert (log, delete, restore beside a log); four over three goals for a
broken order. Three PINs are a first, a changed one and one after disabling. Rows and requests without an order are
symmetric.

Every violation run asks its one question on the smallest instance that can answer it. `CHECK_DEADLOCK FALSE` stands only
in the configurations of `OfflineSync`, `Sessions` and the smaller components, whose behaviours really end: bounded runs,
requests and logins; the other two modules let the idle server stutter explicitly.

### Fairness

`ledger_live` assumes that a request that can take a step does (`Handle`), since each has a goroutine of its own and a
statement that waits for a lock is granted it when it is free, and that the deadlock detector runs, as PostgreSQL's does
after a second of waiting. Nothing is assumed of clients, nor that statements succeed.

`session`, `session_ui` and `session_stuck` assume that Dio and the API carry on a request that can proceed (`Step`), each
on its own. Nothing makes the user act, the token expire, or anything fail. All the other runs check safety and assume no
fairness.

## 5. What the checks found

With a run:

- `ledger_close`: `WalletService.Delete` checks the balance in one statement and deactivates in another.
- `goal_lost`: the saved amount is written as a sum computed from an earlier read.
- `sync_gone`: a deleted transaction is answered 400, and the pull only forgives 404.
- `session_stuck`: the handler of an error awaits a request through the queue it holds.
- `list_skipped`: the cursor of a page drops the fraction of a second that the rows have.

Seen while modelling, without a run of their own: each follows from one conversion or check in any order of events, has no
sentence of the repository to hold it against, or has no effect in the shipped program:

- An amount below half of the last of four decimals passes the check that it is greater than 0 and is recorded as zero
  (`transaction_service.go:125`, `transaction_repo.go:340`).
- Ids made on the device are not UUIDs and the push validates them as such, so a transaction logged on the device never
  reaches the server by the queue, and the exception also ends the pull (`sync_handler.go:32`,
  `hybrid_transaction_repository.dart:24`).
- A contribution that overlaps an update rewrites target and deadline from its copy (`goal_service.go:384`).
- `big.Rat` methods write into their receiver, so the amounts before and after a contribution, from which milestones are
  computed, are one object (`goal_service.go:337`); no emitter is set, so nothing is reported either way.
- A create that finds its row at the second search answers 201 where the first would answer 200
  (`transaction_service.go:311`).
- What other clients change between the pull and the end of a run is skipped, because the stored time is that of the end
  (`background_sync_service.dart:58`); so is everything beyond the first page.
- A copy of a transaction without `sync_id` takes its own id for one, so that it comes back as a second transaction.
- Two isolates, or a killed app and the next, can rotate one refresh token twice; a kill in mid-rotation leaves a dead one.
- A walk oldest first, and a pull, shows rows of one second again, and with as many of them as a page holds never ends
  (`transaction_handler.go:188`, `sync_handler.go:180`).
- Only transactions are recognised by their `sync_id`: a push that is repeated creates its goals and wallets again and
  repeats its contributions (`sync_service.go:383`, `:450`, `:531`), and a contribution that stops half way is answered
  as a conflict although it is recorded. So is any change whose COMMIT or statement took effect while its answer was lost
  (`sync_service.go:200`).
- After a budget falls below 80 percent the remembered threshold stays, and the next crossing is not reported
  (`budget_service.go:205`).
- Refused attempts stay in the limiter's window, so that a client that keeps to `Retry-After` may be refused again.
- Overlapping use cases of the device lose an effect on the balance, reverse it twice, undo a contribution to a goal, and
  make two budgets for one month; a kill between balance and row moves money without a transaction.
- A PIN half saved, changed or cleared leaves a lock that no PIN opens, also after a restart; a clearing that the lock screen
  takes the place of leaves one until the app restarts.
- The late failure of a request of an ended session clears the tokens of a new login and logs it out, and a request that
  was about to be sent again goes out without a token, is refused, and blocks its client's queue for good; a logout during
  a refresh is followed by the new pair being stored.

## 6. What is proved

Every invariant and action property of the passing runs is a theorem about the same modules that TLC runs, for any finite
or infinite sets of requests, runs, calls and clients and any bounds. The assumptions are named in the modules: constants
have their types, `None` is no value of another kind, and the ids, rows and goals that one account can name are finitely
many where a sum or an order is taken over them (`PageAssumption`, `LedgerAssumption`, `GoalAssumption` of `Components`).
Obligations are discharged by SMT, Zenon and, for temporal steps, LS4. `PROJECT.json` pairs each theorem with its
property.

**SumLemmas.** What the library's `SumFunctionOnSet` yields: zero of nothing, an element's value more with the element,
the same for functions that agree, no less for a larger set of natural numbers. The operator is a function defined
recursively on the subsets, and induction as a rule is out of the provers' reach; so each lemma takes, of the sets that
fail it, one with the fewest elements, and shows that the set without one element fails too. The well-foundedness of the
naturals gives the smallest. Three of the modules below rest on this one.

**WalletLedgerProofs.** `TypeCorrect`, then `LedgerInvariant`. `SyncIdUnique` is not inductive: two requests that both
passed their searches would break it but for the index, so the invariant says of every request between its first lock and
its commit that it holds the locks of the wallets it changed, that those are active and its user's, that its pending
changes bring each balance to the one that the row it will insert calls for, rounded, and that no two inserted or
committed rows share a `sync_id`. The locks carry the first parts across other requests' steps, since a row can only be
changed by whoever can lock it; `Insert` establishes the last. `SyncIdRecordedOnce` is a part of it. `LedgerRefinement`
uses the whole: at `Commit`, and at no other step of a create, balances and rows change, and they change as `Record` does,
because the pending changes are what the row calls for; the wallets' own statements are `Overwrite`, `Close` and `Strike`;
all else is stuttering. `BalancesAreExplained` adds that rows are finitely many and named by their requests, so that a
commit adds one new element to both sums, that of the amounts and that of the rows which may blur the balance by half a
unit (`BalanceInv`); a lemma about `Stored` says that it moves a value by half a unit at most, and a whole number of units
not at all. `AnswersHold` adds that a request without an answer has no row and one with an answer is done (`TruthInv`):
what was found in the table stays there under its id and `sync_id`.

**GoalContributionProofs.** `GoalTypes`: the monthly amount stays a natural number although it is computed from stale
copies, passed deadlines and a saved amount that can be any integer; it rests on lemmas about `Remaining`, `MonthsUntil`
and `RoundedQuotient`, each of which says what keeps a division by zero or a negative plan away. `GoneStaysGone`: no step
brings a deleted goal back, because every write that follows a read is an update by id; the strengthening is that a goal
that is gone has no contributions. `SavedIsExplained` extends the claim to what requests hold in memory: the sum that one
is about to store is that of some recorded contributions too (`SavedInv`), because it was read as one and the request's
own, new row was added (`ContributionsInv`). The last three share `SerialInv`: while requests come one at a time, the copy
of the one that is open agrees with the row in what the request does not change, and a set of contributions that holds all
acknowledged ones and not the open one sums to the saved amount. `AcknowledgedInTurn`, `CompletionIsMarked` and
`UpdatesStand` are parts of it.

**OfflineSyncProofs.** The argument follows the `sync_id`. Wherever a transaction of another client lies on its way
through the device, as a row, in the queue, in a run's hands, it carries one and the same: that of its row on the server,
or that row's id if it has none (`Known`). A row of the server is an original or the copy of an original without a
`sync_id`, and one id or `sync_id` is one row's (`SyncInv`). `SyncTypes`, `DoneIsRecorded` and `CopiedOnce` follow.
`NothingIsPassedOver` adds `CoverInv`: an entry of the log is covered when its transaction lives no more or has a row on
the device; once covered it stays so, because rows of the device are only marked, and a run that is about to finish has,
for each entry of the log, covered it or still carries it. The attempt to prove this of any quiet runs failed, and TLC
showed why with two transactions and pages of one: what lies beyond the first page is never asked for. The property now
says so (`Whole`). Assumed are that the three kinds of ids differ (`IdAssumption`) and that `None` is no row
(`RowAssumption`).

**SessionsProofs.** `SessionTypes`: types, and every pair that is stored, sent or awaited was issued. `RotationHolds`: a
token with a successor is revoked. It is inductive with one addition, that a request about to insert a successor has
revoked the parent, and no step ever takes a revocation back, so it holds through every failure, kill and repetition.
`TokenOnce`: a token has at most one successor as long as one client was at work and was not killed. The invariant adds
that at most one request of that client is past `TakeError` (the queue), and that the token a request is rotating has no
successor yet: true when it was found unrevoked, by the rotation invariant, and kept because nobody else rotates. It is
the queue of the client that makes a check-then-revoke without transaction safe, and only within one isolate.
`SessionStaysUsable` says where a working pair is at each moment of one login (`UsableInv`): in the store, or in the hands
of the login or of the one request that is replacing it, and that an ended session leaves no request that could still
store one. `NobodyExpelled` needs that each resent request carries the token just issued, which has not expired
(`CalmInv`), so that while nothing goes wrong none is refused twice.

**BudgetAlertsProofs**, which assumes that categories are numbers. `RememberedThresholds`: what is remembered as reported
was reported. The invariant carries the claim through a request: in `emit` the budget is reported up to `previous`, in
`store` up to the threshold that is about to be remembered. It survives other requests because only a restart takes a
report back, and a restart ends them all; each event is the lowest that is due, so none below it is left out.
`NoThresholdMissed`: an undisturbed request has reported every budget that it is done with up to what is spent on it
(`CoverInv`). `ThresholdReportedOnce`: in turn, a threshold of 80 that was emitted is remembered, or is about to be by the
request that emitted it (`OnceInv`).

**ComponentsProofs** carries these three over to the composition that TLC runs, by showing that every behaviour of
`Components` is one of `BudgetAlerts`, in which the other components' steps stutter. It also proves the push endpoint:
`PushInv` says that a request has noted each `sync_id` it judged and judges none twice, that what it carried out it has
noted or is about to, and that a transaction created, or a transaction or goal deleted, leaves a mark that keeps any other
request from doing it again. What was carried out without being accepted is a contribution or was unheard.
`ChangesCarriedOutOnce` and `PushAnswersTell` are parts of it.

**DeviceProofs** proves the rest as it runs in `Components`; an invariant of a component is kept by the others' steps
because they leave its variables alone.

- *PIN lock* (`PinInv`): unless something went wrong, each key holds what it is to hold, or what it held before and then the
  write that changes it is still to land; so a kill before all writes leaves the old PIN and one after all of them the new.
  The lock is on only when there is a PIN, and when the screen is home nothing is to land.
- *Local ledger.* `TurnInv`: in turn one call is under way at most and what it read still stands, so a budget is made only
  where there is none. `DriftInv` adds the balance, in the state between the balance and the row also the effect of the
  call. `ChargeInv` holds without turns: the calls whose expense is not yet charged are told apart from those past their
  budget, and a budget, or what a call is about to write to it, is at most the sum of the latter; what is about to be
  announced is reached, since sums of logged expenses only grow.
- *Local goals* (`GoalInv`): what a call is to save was given, for any interleaving. In turn, the goals as they will be after
  the saves of the open call are in one order, although between two saves they are not; a call puts each goal it saves in
  a place no other goal has or will have, or leaves all in theirs. That an order of the goals gives each its own place is
  a counting lemma (`OrderIsOneToOne`).
- *Exchange rates* (`RateInv`): requests that are open together have met and remember it, and one that is past its update
  knows every row of its key as that of a request it has met. A task has stored a row for all but what it has still to
  store, also across attempts. `NewerStays` follows because rows keep their key and time and none is deleted: of a finite
  set of rows a latest one exists.
- *Rate limiter* (`LimiterInv`): a request that ran less than the window, less the delay, ago is still in the sorted set, as
  its time is at most the delay before, and the key outlives it; so the script that lets one more pass has counted all.
- *Lists* (`PageInv`): what a walk has not shown lies behind the cursor, or is blurred, and what it has shown lies before,
  or is blurred. That a page takes the first rows of the order and the cursor is past all of them is proved by comparing
  numbers of predecessors; that cutting a time to the second keeps the order up to one second, from the arithmetic of `%`.

## 7. What is only model-checked

Liveness (`EveryRequestAnswered`, `EveryRequestEnds`) and freedom from deadlock, which need fairness and `ENABLED` and are
beyond the proof system; the constants of TLC's instances stand for the others there. The claims of the violation runs are
counterexamples, which need no proof. Sums as `MapThenSumSet` computes them in a run are those of `SumLemmas` by unfolding
both definitions, which the proofs do.

## 8. What is not modelled

Analytics and categories, which read or insert independent rows; the HTTP plumbing, start-up and configuration, which wire
parts together; the generated `sqlc` and `drift` code, whose statements appear where they are used (those of goals and
transactions in `sqlc` are not even called); presentation, reminders, digest and export, which format or call plugins; the
device's refresh of exchange rates and the biometric unlocking. Within the modelled parts: reading without a cursor,
registration, the profile, formatting of amounts and dates but for the cursor's time, and timeouts as such, which appear
as calls that fail before, or after, they took effect. The composition of the smaller components with each other and with
the large ones is left out where it would only repeat a step one of them already has: a push seen by `SyncPush` calls
services that `WalletLedger` and `GoalContribution` look into.

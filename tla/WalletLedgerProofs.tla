------------------------- MODULE WalletLedgerProofs -------------------------
(***************************************************************************)
(* Theorems about WalletLedger, for any number of users, wallets, requests *)
(* and sync ids and any amounts.                                           *)
(***************************************************************************)
EXTENDS WalletLedger, SumLemmas, TLAPS

USE WalletLedgerAssumption

-----------------------------------------------------------------------------
(* The data.                                                                *)

(* Every input a client can send is a request record, and names the wallets *)
(* and the amount its operation needs.                                      *)
LEMMA InputShape ==
  ASSUME NEW q \in Inputs
  PROVE  /\ q \in Request
         /\ q.op \in Kinds => q.wallet \in Wallets /\ q.amount \in Amounts
         /\ q.op \in {"overwrite", "close"} => q.wallet \in Wallets
         /\ q.op = "transfer" => q.dest \in Wallets
  BY DEF Inputs, Request, Call, Operations, Kinds

(* Rounding a quantity moves it by at most half a unit.                     *)
LEMMA RoundedNear ==
  ASSUME NEW n \in Nat
  PROVE  /\ Abstract!Rounded(n) \in Nat
         /\ 2 * (Grain * Abstract!Rounded(n)) - 2 * n <= Grain
         /\ 2 * n - 2 * (Grain * Abstract!Rounded(n)) < Grain
  <1> DEFINE d == Abstract!Rounded(n)
             m == 2 * Grain
             k == 2 * n + Grain
  <1>1. m \in Nat \ {0} /\ k \in Nat /\ d = k \div m
    BY DEF Abstract!Rounded
  <1>2. d \in Nat /\ m * d <= k /\ k < m * (d + 1)
    BY <1>1
  <1> HIDE DEF d
  <1>3. m * d = 2 * (Grain * d) /\ m * (d + 1) = 2 * (Grain * d) + 2 * Grain
    BY <1>2
  <1>4. Grain * d \in Int
    BY <1>2
  <1>5. QED
    BY <1>2, <1>3, <1>4 DEF d

(* What is stored is within half a unit of what was sent, and of a quantity *)
(* that is not negative nothing negative is stored.                         *)
LEMMA StoredNear ==
  ASSUME NEW v \in Int
  PROVE  /\ Abstract!Stored(v) \in Int
         /\ v >= 0 => Abstract!Stored(v) \in Nat
         /\ 2 * (Grain * Abstract!Stored(v)) - 2 * v <= Grain
         /\ 2 * v - 2 * (Grain * Abstract!Stored(v)) <= Grain
  <1>1. CASE v >= 0
    <2>1. Abstract!Stored(v) = Abstract!Rounded(v)
      BY <1>1 DEF Abstract!Stored
    <2>2. QED
      BY <1>1, <2>1, RoundedNear
  <1>2. CASE v < 0
    <2> DEFINE d == Abstract!Rounded(-v)
    <2>1. /\ d \in Nat /\ Grain * d \in Int
          /\ 2 * (Grain * d) - 2 * (-v) <= Grain
          /\ 2 * (-v) - 2 * (Grain * d) < Grain
      BY <1>2, RoundedNear
    <2>2. Abstract!Stored(v) = -d
      BY <1>2 DEF Abstract!Stored
    <2> HIDE DEF d
    <2>3. Grain * (-d) = -(Grain * d)
      BY <2>1
    <2>4. QED
      BY <1>2, <2>1, <2>2, <2>3
  <1>3. QED
    BY <1>1, <1>2

(* A whole number of units is stored as it is.                              *)
LEMMA StoredUnits ==
  ASSUME NEW k \in Int
  PROVE  Abstract!Stored(Grain * k) = k
  <1> DEFINE s == Abstract!Stored(Grain * k)
  <1>1. Grain * k \in Int
    OBVIOUS
  <1>2. /\ s \in Int
        /\ 2 * (Grain * s) - 2 * (Grain * k) <= Grain
        /\ 2 * (Grain * k) - 2 * (Grain * s) <= Grain
    BY <1>1, StoredNear
  <1> HIDE DEF s
  <1>3. ASSUME s > k PROVE FALSE
    <2>1. Grain * s >= Grain * k + Grain
      BY <1>2, <1>3
    <2>2. QED
      BY <1>1, <1>2, <2>1
  <1>4. ASSUME s < k PROVE FALSE
    <2>1. Grain * k >= Grain * s + Grain
      BY <1>2, <1>4
    <2>2. QED
      BY <1>1, <1>2, <2>1
  <1>5. QED
    BY <1>2, <1>3, <1>4 DEF s

(* A change of nothing leaves a balance as it is.                           *)
LEMMA PostedNothing ==
  ASSUME NEW b \in Int
  PROVE  Abstract!Posted(b, 0) = b
  <1>1. Grain * b + 0 = Grain * b
    OBVIOUS
  <1>2. QED
    BY <1>1, StoredUnits DEF Abstract!Posted

(* A change of whole units is made exactly, any other to within half a unit. *)
LEMMA PostedNear ==
  ASSUME NEW b \in Int, NEW c \in Int
  PROVE  LET p == Abstract!Posted(b, c)
         IN  /\ p \in Int
             /\ WholeUnits(c) => Grain * p = Grain * b + c
             /\ 2 * (Grain * p) - 2 * (Grain * b + c) <= Grain
             /\ 2 * (Grain * b + c) - 2 * (Grain * p) <= Grain
  <1> DEFINE p == Abstract!Posted(b, c)
  <1>1. Grain * b \in Int /\ Grain * b + c \in Int
    OBVIOUS
  <1>2. ASSUME WholeUnits(c) PROVE Grain * p = Grain * b + c
    <2> DEFINE k == Abstract!Stored(c)
    <2>1. k \in Int /\ c = Grain * k
      BY <1>2, StoredNear DEF WholeUnits
    <2> HIDE DEF k
    <2>2. Grain * b + c = Grain * (b + k) /\ b + k \in Int
      BY <2>1
    <2>3. p = b + k
      BY <2>2, StoredUnits DEF Abstract!Posted
    <2>4. QED
      BY <2>2, <2>3
  <1>3. QED
    BY <1>1, <1>2, StoredNear DEF Abstract!Posted

(* A request that passes the validation of LogTransaction inserts a row     *)
(* that the transactions table can hold: in particular no negative amount.  *)
LEMMA RowOfValid ==
  ASSUME NEW r \in Requests, req[r] \in Inputs, req[r].op \in Kinds,
         ValidCreate(req[r])
  PROVE  RowOf(r) \in Abstract!Row
  <1>1. req[r] \in Request /\ req[r].wallet \in Wallets
    BY InputShape
  <1>2. Abstract!Stored(req[r].amount) \in Nat
    <2>1. req[r].amount \in Int /\ req[r].amount >= 0
      BY <1>1 DEF ValidCreate, Request
    <2>2. QED
      BY <2>1, StoredNear
  <1>3. QED
    BY <1>1, <1>2 DEF RowOf, Request, Kinds, Abstract!Row

(* What a row adds to a wallet is an integer.                               *)
LEMMA ChangeInt ==
  ASSUME NEW x, x.rate \in Int, NEW sent \in Int, NEW w
  PROVE  Abstract!Change(x, sent, w) \in Int
  <1>1. sent * x.rate \in Int
    OBVIOUS
  <1>2. QED
    BY <1>1 DEF Abstract!Change

(* Releasing the locks of one request leaves the lock table well formed.    *)
LEMMA UnlockedType ==
  ASSUME NEW r \in Requests, lockedBy \in [Wallets -> Requests \cup {None}]
  PROVE  Unlocked(r) \in [Wallets -> Requests \cup {None}]
  BY DEF Unlocked

-----------------------------------------------------------------------------
(* Types, together with the one part of LedgerInv that typing needs: what a *)
(* request at a given stage has been checked for.                           *)

TypeInv == TypeOK /\ StagesMatch

(* The initial state is well typed.                                         *)
LEMMA InitTypes == Init => TypeInv
  BY DEF Init, TypeInv, TypeOK, StagesMatch, NoDelta, Stages, InTransaction, Answers

(* A failing request leaves a well-typed state.                             *)
LEMMA AbortTypes ==
  ASSUME TypeInv, NEW r \in Requests, pc[r] # "idle", Abort(r)
  PROVE  TypeInv'
  <1>1. TypeOK'
    BY UnlockedType DEF TypeInv, TypeOK, Abort, Answer, NoDelta, dbVars, Stages,
                        InTransaction, Answers, Abstract!Row
  <1>2. StagesMatch'
    BY DEF TypeInv, TypeOK, StagesMatch, Abort, Answer, InTransaction, ValidCreate
  <1>3. QED
    BY <1>1, <1>2 DEF TypeInv

(* Receiving a request leaves a well-typed state.                           *)
LEMMA SubmitTypes ==
  ASSUME TypeInv, NEW r \in Requests, Submit(r)
  PROVE  TypeInv'
  <1>1. PICK q \in Inputs :
          /\ req' = [req EXCEPT ![r] = q]
          /\ Goto(r, IF q.op \in Kinds /\ q.sync = None THEN "logging" ELSE "received")
    BY DEF Submit
  <1>2. TypeOK'
    BY <1>1 DEF TypeInv, TypeOK, Submit, Goto, dbVars, Stages, Answers, Abstract!Row
  <1>3. StagesMatch'
    BY <1>1 DEF TypeInv, TypeOK, StagesMatch, Goto, InTransaction, ValidCreate
  <1>4. QED
    BY <1>2, <1>3 DEF TypeInv

(* The lookups and the validation leave a well-typed state.                 *)
LEMMA LookupTypes ==
  ASSUME TypeInv, NEW r \in Requests, FirstLookup(r) \/ SecondLookup(r)
  PROVE  TypeInv'
  <1>1. TypeOK'
    BY DEF TypeInv, TypeOK, FirstLookup, SecondLookup, Replay, Goto, Answer,
           dbVars, Stages, Answers, InTransaction, Abstract!Row
  <1>2. ASSUME NEW o \in Requests, o # r
        PROVE  pc'[o] = pc[o] /\ req' = req
    BY <1>2 DEF TypeInv, TypeOK, FirstLookup, SecondLookup, Replay, Goto, Answer
  <1>3. /\ req' = req
        /\ req[r].op \in Kinds
        /\ \/ pc'[r] \in {"done", "logging"}
           \/ pc'[r] = "lockSource" /\ ValidCreate(req[r])
    BY DEF TypeInv, TypeOK, StagesMatch, FirstLookup, SecondLookup, Replay, Goto,
           Answer
  <1>4. StagesMatch'
    BY <1>2, <1>3 DEF TypeInv, StagesMatch, InTransaction, ValidCreate
  <1>5. QED
    BY <1>1, <1>4 DEF TypeInv

(* What a lock that is granted does, whichever wallet it is for.            *)
LEMMA LockGranted ==
  ASSUME TypeInv, NEW r \in Requests, LockSource(r) \/ LockDest(r), ~Abort(r)
  PROVE  \E w \in Wallets, next \in {"applySource", "applyDest"} :
           /\ lockedBy' = [lockedBy EXCEPT ![w] = r]
           /\ Goto(r, next)
           /\ UNCHANGED <<dbVars, delta, req>>
           /\ Free(r, w) /\ Lockable(r, w)
           /\ \/ pc[r] = "lockSource" /\ next = "applySource" /\ w = req[r].wallet
              \/ pc[r] = "lockDest" /\ next = "applyDest" /\ w = req[r].dest
                 /\ req[r].op = "transfer"
  <1>1. CASE LockSource(r)
    <2>1. req[r].wallet \in Wallets
      BY <1>1, InputShape DEF TypeInv, TypeOK, StagesMatch, LockSource, InTransaction
    <2>2. QED
      BY <1>1, <2>1 DEF LockSource, LockWallet
  <1>2. CASE LockDest(r)
    <2>1. req[r].dest \in Wallets /\ req[r].op = "transfer"
      BY <1>2, InputShape DEF TypeInv, TypeOK, StagesMatch, LockDest
    <2>2. QED
      BY <1>2, <2>1 DEF LockDest, LockWallet
  <1>3. QED
    BY <1>1, <1>2

(* The locks of a create leave a well-typed state.                          *)
LEMMA LockTypes ==
  ASSUME TypeInv, NEW r \in Requests, LockSource(r) \/ LockDest(r)
  PROVE  TypeInv'
  <1>1. CASE Abort(r)
    BY <1>1, AbortTypes DEF LockSource, LockDest
  <1>2. CASE ~Abort(r)
    <2>1. PICK w \in Wallets, next \in {"applySource", "applyDest"} :
            /\ lockedBy' = [lockedBy EXCEPT ![w] = r]
            /\ Goto(r, next)
            /\ UNCHANGED <<dbVars, delta, req>>
            /\ pc[r] \in InTransaction
            /\ next = "applyDest" => req[r].op = "transfer"
      BY <1>2, LockGranted DEF InTransaction
    <2>2. TypeOK'
      BY <2>1 DEF TypeInv, TypeOK, Goto, dbVars, Stages, InTransaction, Abstract!Row
    <2>3. StagesMatch'
      BY <2>1 DEF TypeInv, TypeOK, StagesMatch, Goto, InTransaction, ValidCreate
    <2>4. QED
      BY <2>2, <2>3 DEF TypeInv
  <1>3. QED
    BY <1>1, <1>2

(* The balance updates of a create leave a well-typed state.                *)
LEMMA ApplyTypes ==
  ASSUME TypeInv, NEW r \in Requests, ApplySource(r) \/ ApplyDest(r)
  PROVE  TypeInv'
  <1>1. /\ req[r] \in Request
        /\ req[r].amount \in Int /\ req[r].rate \in Int
        /\ req[r].amount * req[r].rate \in Int
        /\ req[r].wallet \in Wallets
        /\ pc[r] = "applyDest" => req[r].dest \in Wallets
    BY InputShape DEF TypeInv, TypeOK, StagesMatch, ApplySource, ApplyDest, Request,
                      InTransaction
  <1>2. PICK w \in Wallets, change \in Int, next \in {"lockDest", "insert"} :
          /\ Apply(r, w, change, next)
          /\ pc[r] \in InTransaction
          /\ next = "lockDest" => req[r].op = "transfer"
    BY <1>1 DEF ApplySource, ApplyDest, InTransaction
  <1>3. delta' \in [Requests -> [Wallets -> Int]]
    <2>1. delta \in [Requests -> [Wallets -> Int]]
      BY DEF TypeInv, TypeOK
    <2>2. delta' = [delta EXCEPT ![r][w] = Abstract!Posted(balance[w], change) - balance[w]]
      BY <1>2 DEF Apply
    <2>3. balance[w] \in Int
      BY DEF TypeInv, TypeOK
    <2>4. Abstract!Posted(balance[w], change) - balance[w] \in Int
      <3>1. Abstract!Posted(balance[w], change) \in Int
        BY <2>3, PostedNear
      <3>2. QED
        BY <2>3, <3>1
    <2>5. QED
      BY <2>1, <2>2, <2>4
  <1>4. TypeOK'
    BY <1>2, <1>3 DEF TypeInv, TypeOK, Apply, Goto, dbVars, Stages, InTransaction,
                      Abstract!Row
  <1>5. StagesMatch'
    BY <1>2 DEF TypeInv, TypeOK, StagesMatch, Apply, Goto, InTransaction, ValidCreate
  <1>6. QED
    BY <1>4, <1>5 DEF TypeInv

(* Inserting and committing leave a well-typed state.                       *)
LEMMA InsertTypes ==
  ASSUME TypeInv, NEW r \in Requests, Insert(r)
  PROVE  TypeInv'
  <1>1. CASE Abort(r)
    BY <1>1, AbortTypes DEF Insert
  <1>2. CASE ~Abort(r)
    <2>1. Goto(r, "commit") /\ UNCHANGED <<dbVars, lockedBy, delta, req>>
          /\ pc[r] = "insert"
      BY <1>2 DEF Insert
    <2>2. TypeOK'
      BY <2>1 DEF TypeInv, TypeOK, Goto, dbVars, Stages, InTransaction, Abstract!Row
    <2>3. StagesMatch'
      BY <2>1 DEF TypeInv, TypeOK, StagesMatch, Goto, InTransaction, ValidCreate
    <2>4. QED
      BY <2>2, <2>3 DEF TypeInv
  <1>3. QED
    BY <1>1, <1>2

LEMMA CommitTypes ==
  ASSUME TypeInv, NEW r \in Requests, Commit(r)
  PROVE  TypeInv'
  <1>1. RowOf(r) \in Abstract!Row
    BY RowOfValid DEF TypeInv, TypeOK, StagesMatch, Commit, InTransaction
  <1>2. rows' \subseteq Abstract!Row
    BY <1>1 DEF TypeInv, TypeOK, Commit
  <1>3. [w \in Wallets |-> balance[w] + delta[r][w]] \in [Wallets -> Int]
    BY DEF TypeInv, TypeOK
  <1>4. TypeOK'
    BY <1>2, <1>3, UnlockedType
       DEF TypeInv, TypeOK, Commit, Answer, NoDelta, Stages, Answers, Abstract!Row
  <1>5. StagesMatch'
    BY DEF TypeInv, TypeOK, StagesMatch, Commit, Answer, InTransaction, ValidCreate
  <1>6. QED
    BY <1>4, <1>5 DEF TypeInv

(* The wallet operations and the deletion of a row leave a well-typed       *)
(* state.                                                                   *)
LEMMA WalletTypes ==
  ASSUME TypeInv, NEW r \in Requests, WalletStep(r)
  PROVE  TypeInv'
  <1>1. Abstract!Stored(req[r].amount) \in Int
    <2>1. req[r] \in Request
      BY InputShape DEF TypeInv, TypeOK, WalletStep, ReadWallet, StoreBalance,
                        SoftDeleteWallet
    <2>2. req[r].amount \in Int
      BY <2>1 DEF Request
    <2>3. QED
      BY <2>2, StoredNear
  <1>2. CASE ReadWallet(r)
    <2>1. TypeOK'
      BY <1>2 DEF TypeInv, TypeOK, ReadWallet, Goto, Answer, dbVars, Stages, Answers,
                  Abstract!Row
    <2>2. StagesMatch'
      BY <1>2 DEF TypeInv, TypeOK, StagesMatch, ReadWallet, Goto, Answer,
                  InTransaction, ValidCreate
    <2>3. QED
      BY <2>1, <2>2 DEF TypeInv
  <1>3. CASE StoreBalance(r) \/ SoftDeleteWallet(r)
    <2>1. TypeOK'
      <3>1. /\ balance' \in [Wallets -> Int] /\ active' \in [Wallets -> BOOLEAN]
            /\ pc[r] # "idle" /\ \E a \in Answers : Answer(r, a)
            /\ UNCHANGED <<rows, lockedBy, delta, req>>
        <4>1. CASE StoreBalance(r)
          <5>1. balance' \in [Wallets -> Int]
            BY <1>1, <4>1 DEF TypeInv, TypeOK, StoreBalance
          <5>2. QED
            BY <4>1, <5>1 DEF TypeInv, TypeOK, StoreBalance, AcknowledgedOrLost, Answers
        <4>2. CASE SoftDeleteWallet(r)
          BY <4>2 DEF TypeInv, TypeOK, SoftDeleteWallet, AcknowledgedOrLost, Answers
        <4>3. QED
          BY <1>3, <4>1, <4>2
      <3>2. QED
        BY <3>1 DEF TypeInv, TypeOK, Answer, Stages, Answers, Abstract!Row
    <2>2. StagesMatch'
      BY <1>3 DEF TypeInv, TypeOK, StagesMatch, StoreBalance, SoftDeleteWallet,
                  AcknowledgedOrLost, Answer, InTransaction, ValidCreate
    <2>3. QED
      BY <2>1, <2>2 DEF TypeInv
  <1>4. QED
    BY <1>2, <1>3 DEF WalletStep

LEMMA StrikeTypes ==
  ASSUME TypeInv, NEW r \in Requests, SoftDeleteRow(r)
  PROVE  TypeInv'
  <1>1. \E a \in Answers : Answer(r, a) /\ UNCHANGED <<balance, active, lockedBy, delta, req>>
    BY DEF SoftDeleteRow, AcknowledgedOrLost, Answers
  <1>2. rows' \subseteq Abstract!Row
    <2>1. ASSUME NEW x \in Abstract!Row
          PROVE  [x EXCEPT !.deleted = TRUE] \in Abstract!Row
      BY DEF Abstract!Row
    <2>2. rows' = rows \/ \E x \in rows : rows' = (rows \ {x}) \cup {[x EXCEPT !.deleted = TRUE]}
      BY DEF SoftDeleteRow, Struck
    <2>3. QED
      BY <2>1, <2>2 DEF TypeInv, TypeOK
  <1>3. TypeOK'
    BY <1>1, <1>2 DEF TypeInv, TypeOK, SoftDeleteRow, Answer, Stages, Abstract!Row
  <1>4. StagesMatch'
    BY <1>1 DEF TypeInv, TypeOK, StagesMatch, Answer, InTransaction, ValidCreate
  <1>5. QED
    BY <1>3, <1>4 DEF TypeInv

(* Every step leaves a well-typed state.                                    *)
LEMMA NextTypes == TypeInv /\ [Next]_vars => TypeInv'
  <1> SUFFICES ASSUME TypeInv, [Next]_vars PROVE TypeInv'
    OBVIOUS
  <1>1. ASSUME NEW r \in Requests, Submit(r) PROVE TypeInv'
    BY <1>1, SubmitTypes
  <1>2. ASSUME NEW r \in Requests, CreateStep(r) PROVE TypeInv'
    BY <1>2, LookupTypes, LockTypes, ApplyTypes, InsertTypes, CommitTypes
       DEF CreateStep
  <1>3. ASSUME NEW r \in Requests, WalletStep(r) \/ SoftDeleteRow(r) PROVE TypeInv'
    BY <1>3, WalletTypes, StrikeTypes
  <1>4. ASSUME NEW r \in Requests, Fail(r) PROVE TypeInv'
    BY <1>4, AbortTypes DEF Fail
  <1>5. CASE BreakDeadlock
    <2>1. PICK r \in Requests : Abort(r) /\ pc[r] = "lockDest"
      BY <1>5 DEF BreakDeadlock, Deadlocked, WaitsFor
    <2>2. QED
      BY <2>1, AbortTypes
  <1>6. CASE UNCHANGED vars
    <2>1. TypeOK'
      BY <1>6 DEF vars, dbVars, TypeInv, TypeOK, Abstract!Row
    <2>2. StagesMatch'
      BY <1>6 DEF vars, TypeInv, StagesMatch, ValidCreate
    <2>3. QED
      BY <2>1, <2>2 DEF TypeInv
  <1>7. QED
    BY <1>1, <1>2, <1>3, <1>4, <1>5, <1>6 DEF Next, Handle, AllAnswered

(* The type invariant holds: whatever clients send and however requests     *)
(* interleave, no ill-formed row reaches the transactions table.            *)
THEOREM TypeCorrect == Spec => []TypeOK
  <1>1. Spec => []TypeInv
    BY InitTypes, NextTypes, PTL DEF Spec
  <1>2. TypeInv => TypeOK
    BY DEF TypeInv
  <1>3. QED
    BY <1>1, <1>2, PTL

-----------------------------------------------------------------------------
(* The ledger invariant.  Core is what remains of it beside the types; each *)
(* lemma shows that one kind of step keeps it.                              *)

Core ==
  /\ LocksHeld /\ ChangesPending /\ InsertsDistinct
  /\ RowsBelongToAnswered /\ SyncIdUnique

IInv == TypeInv /\ Core

(* What a step by request r leaves alone about the other requests.          *)
OthersKept(r) ==
  \A o \in Requests \ {r} : pc'[o] = pc[o] /\ req'[o] = req[o] /\ delta'[o] = delta[o]

(* Such a step changes no balance of a wallet another request holds.        *)
BalancesKept(r) ==
  /\ balance' \in [Wallets -> Int]
  /\ \A w \in Wallets : balance'[w] # balance[w] => lockedBy[w] \in {None, r}

(* Where no change is due the private change is none.                       *)
LEMMA NothingDue ==
  ASSUME NEW b \in Int, NEW d \in Int
  PROVE  b + d = Abstract!Posted(b, 0) <=> d = 0
  BY PostedNothing

(* The initial state satisfies the invariant.                               *)
LEMMA InitInv == Init => IInv
  <1> SUFFICES ASSUME Init PROVE IInv
    OBVIOUS
  <1>1. ChangesPending
    <2> SUFFICES ASSUME NEW r \in Requests, NEW w \in Wallets
                 PROVE  Pending(r, w)
      BY DEF ChangesPending
    <2>1. ChangeDue(r, w) = 0 /\ delta[r][w] = 0 /\ balance[w] \in Int
      BY DEF Init, ChangeDue, NoDelta
    <2>2. balance[w] + delta[r][w] = Abstract!Posted(balance[w], 0)
      BY <2>1, NothingDue
    <2>3. QED
      BY <2>1, <2>2 DEF Pending
  <1>2. Core
    BY <1>1 DEF Init, Core, LocksHeld, HoldsItsWallets, InsertsDistinct,
                RowsBelongToAnswered, SyncIdUnique, SourceHeld
  <1>3. QED
    BY <1>2, InitTypes DEF IInv

(* A create that holds locks names wallets that exist, two different ones   *)
(* if it is a transfer.                                                     *)
LEMMA NamesItsWallets ==
  ASSUME TypeInv, NEW r \in Requests, pc[r] \in InTransaction
  PROVE  /\ req[r] \in Inputs /\ req[r] \in Request
         /\ req[r].op \in Kinds /\ ValidCreate(req[r])
         /\ req[r].amount \in Amounts
         /\ req[r].wallet \in Wallets
         /\ req[r].op = "transfer" =>
              req[r].dest \in Wallets /\ req[r].dest # req[r].wallet
  BY InputShape DEF TypeInv, TypeOK, StagesMatch, InTransaction, ValidCreate

(* What a request adds, by the kind of request and the wallet.              *)
LEMMA AddsIs ==
  ASSUME NEW r \in Requests, NEW w \in Wallets
  PROVE  Adds(r, w) =
           IF w = req[r].wallet
             THEN IF req[r].op = "income" THEN req[r].amount ELSE -req[r].amount
           ELSE IF req[r].op = "transfer" /\ w = req[r].dest
             THEN req[r].amount * req[r].rate ELSE 0
  BY DEF Adds, RowOf, Abstract!Change

(* A change is due only on a wallet that the request holds.                 *)
LEMMA DueIsHeld ==
  ASSUME IInv, NEW r \in Requests, NEW w \in Wallets, ChangeDue(r, w) # 0
  PROVE  lockedBy[w] = r
  <1>1. pc[r] \in {"lockDest", "applyDest", "insert", "commit"}
    BY DEF ChangeDue
  <1>2. w = req[r].wallet \/ (req[r].op = "transfer" /\ w = req[r].dest
                                /\ pc[r] \in {"insert", "commit"})
    BY AddsIs DEF ChangeDue
  <1>3. QED
    BY <1>1, <1>2 DEF IInv, Core, LocksHeld, HoldsItsWallets, SourceHeld, Holds

(* The changes of the other requests remain what their rows call for.       *)
LEMMA OthersPending ==
  ASSUME IInv, NEW r \in Requests, OthersKept(r), BalancesKept(r),
         NEW o \in Requests \ {r}, NEW w \in Wallets
  PROVE  Pending(o, w)'
  <1>1. ChangeDue(o, w)' = ChangeDue(o, w) /\ delta'[o] = delta[o]
    BY DEF OthersKept, ChangeDue, Adds, RowOf
  <1>2. /\ Pending(o, w)
        /\ balance[w] \in Int /\ balance'[w] \in Int /\ delta[o][w] \in Int
    BY DEF IInv, Core, ChangesPending, TypeInv, TypeOK, BalancesKept
  <1>3. CASE ChangeDue(o, w) = 0
    <2>1. delta[o][w] = 0
      BY <1>2, <1>3, NothingDue DEF Pending
    <2>2. QED
      BY <1>1, <1>2, <1>3, <2>1, NothingDue DEF Pending
  <1>4. CASE ChangeDue(o, w) # 0
    <2>1. lockedBy[w] = o
      BY <1>4, DueIsHeld
    <2>2. balance'[w] = balance[w]
      BY <2>1 DEF BalancesKept
    <2>3. QED
      BY <1>1, <1>2, <2>2 DEF Pending
  <1>5. QED
    BY <1>3, <1>4

(* Nor does a request that has nothing due come to owe a change.            *)
LEMMA NonePending ==
  ASSUME NEW r \in Requests, BalancesKept(r), NEW w \in Wallets,
         delta'[r][w] = 0, ChangeDue(r, w)' = 0
  PROVE  Pending(r, w)'
  <1>1. balance'[w] \in Int
    BY DEF BalancesKept
  <1>2. Abstract!Posted(balance'[w], 0) = balance'[w]
    BY <1>1, PostedNothing
  <1>3. balance'[w] + delta'[r][w] = balance'[w]
    BY <1>1
  <1>4. QED
    BY <1>2, <1>3 DEF Pending

(* A step that changes neither the balances nor what is due keeps what is   *)
(* pending.                                                                 *)
LEMMA SamePending ==
  ASSUME IInv, NEW r \in Requests, NEW w \in Wallets, balance' = balance,
         delta'[r][w] = delta[r][w], ChangeDue(r, w)' = ChangeDue(r, w)
  PROVE  Pending(r, w)'
  BY DEF IInv, Core, ChangesPending, Pending

LEMMA BalancesSame ==
  ASSUME IInv, NEW r \in Requests, balance' = balance
  PROVE  BalancesKept(r)
  BY DEF IInv, TypeInv, TypeOK, BalancesKept

(* A request outside the locked part of a create moves on, or is answered:  *)
(* submissions, lookups, checks and the balance overwrite.                  *)
LEMMA QuietStep ==
  ASSUME IInv, NEW r \in Requests, OthersKept(r), BalancesKept(r),
         pc[r] \notin SourceHeld, pc'[r] \notin SourceHeld,
         pc[r] # "done",
         UNCHANGED <<active, rows, lockedBy, delta>>
  PROVE  Core'
  <1> USE DEF IInv, Core
  <1>1. LocksHeld'
    BY DEF LocksHeld, HoldsItsWallets, OthersKept, Holds, Lockable, SourceHeld
  <1>2. ChangesPending'
    <2> SUFFICES ASSUME NEW o \in Requests, NEW w \in Wallets
                 PROVE  Pending(o, w)'
      BY DEF ChangesPending
    <2>1. CASE o # r
      BY <2>1, OthersPending
    <2>2. CASE o = r
      <3>1. ChangeDue(r, w) = 0 /\ ChangeDue(r, w)' = 0
        BY DEF ChangeDue, SourceHeld
      <3>2. balance[w] \in Int /\ delta[r][w] \in Int /\ Pending(r, w)
        BY DEF TypeInv, TypeOK, ChangesPending
      <3>3. delta[r][w] = 0
        BY <3>1, <3>2, NothingDue DEF Pending
      <3>4. QED
        BY <2>2, <3>1, <3>3, NonePending
    <2>3. QED
      BY <2>1, <2>2
  <1>3. InsertsDistinct'
    BY DEF InsertsDistinct, OthersKept, Recorded, SourceHeld
  <1>4. RowsBelongToAnswered'
    BY DEF RowsBelongToAnswered, OthersKept, TypeInv, TypeOK, Abstract!Row
  <1>5. SyncIdUnique'
    BY DEF SyncIdUnique
  <1>6. QED
    BY <1>1, <1>2, <1>3, <1>4, <1>5

(* Releasing r's locks takes none from another request.                     *)
LEMMA OthersLocks ==
  ASSUME IInv, NEW r \in Requests, OthersKept(r),
         lockedBy' = Unlocked(r), UNCHANGED active, pc'[r] = "done"
  PROVE  LocksHeld'
  <1> SUFFICES ASSUME NEW o \in Requests PROVE HoldsItsWallets(o)'
    BY DEF LocksHeld
  <1>1. CASE o # r
    BY <1>1, NamesItsWallets
       DEF IInv, Core, TypeInv, TypeOK, LocksHeld, HoldsItsWallets, OthersKept,
           Unlocked, Holds, Lockable, SourceHeld, InTransaction
  <1>2. CASE o = r
    BY <1>2 DEF HoldsItsWallets, SourceHeld
  <1>3. QED
    BY <1>1, <1>2

(* With its changes dropped or published, an answered request has none.     *)
LEMMA AnsweredPending ==
  ASSUME IInv, NEW r \in Requests, OthersKept(r), BalancesKept(r),
         delta'[r] = NoDelta, pc'[r] = "done"
  PROVE  ChangesPending'
  <1> SUFFICES ASSUME NEW o \in Requests, NEW w \in Wallets
               PROVE  Pending(o, w)'
    BY DEF ChangesPending
  <1>1. CASE o # r
    BY <1>1, OthersPending
  <1>2. CASE o = r
    <2>1. delta'[r][w] = 0 /\ ChangeDue(r, w)' = 0
      BY DEF NoDelta, ChangeDue
    <2>2. QED
      BY <1>2, <2>1, NonePending
  <1>3. QED
    BY <1>1, <1>2

(* A failing request takes its locks and its changes with it.               *)
LEMMA AbortStep ==
  ASSUME IInv, NEW r \in Requests, Abort(r)
  PROVE  Core'
  <1>1. OthersKept(r) /\ pc'[r] = "done" /\ delta'[r] = NoDelta
    BY DEF IInv, TypeInv, TypeOK, OthersKept, Abort, Answer
  <1>2. LocksHeld' /\ ChangesPending'
    BY <1>1, OthersLocks, AnsweredPending, BalancesSame DEF Abort, dbVars
  <1>3. InsertsDistinct'
    BY <1>1 DEF IInv, Core, InsertsDistinct, OthersKept, Recorded, Abort, dbVars
  <1>4. RowsBelongToAnswered' /\ SyncIdUnique'
    BY <1>1 DEF IInv, Core, RowsBelongToAnswered, SyncIdUnique, OthersKept, Abort,
                dbVars, TypeInv, TypeOK, Abstract!Row
  <1>5. QED
    BY <1>2, <1>3, <1>4 DEF Core

(* A granted lock was free, so nobody else held it.                         *)
LEMMA LockStep ==
  ASSUME IInv, NEW r \in Requests, LockSource(r) \/ LockDest(r), ~Abort(r)
  PROVE  Core'
  <1>1. PICK w \in Wallets, next \in {"applySource", "applyDest"} :
          /\ lockedBy' = [lockedBy EXCEPT ![w] = r]
          /\ Goto(r, next)
          /\ UNCHANGED <<dbVars, delta, req>>
          /\ Free(r, w) /\ Lockable(r, w)
          /\ \/ pc[r] = "lockSource" /\ next = "applySource" /\ w = req[r].wallet
             \/ pc[r] = "lockDest" /\ next = "applyDest" /\ w = req[r].dest
                /\ req[r].op = "transfer"
    BY LockGranted DEF IInv
  <1>2. OthersKept(r) /\ pc'[r] = next
    BY <1>1 DEF IInv, TypeInv, TypeOK, OthersKept, Goto
  <1>3. LocksHeld'
    <2> SUFFICES ASSUME NEW o \in Requests PROVE HoldsItsWallets(o)'
      BY DEF LocksHeld
    <2>1. CASE o # r
      BY <1>1, <1>2, <2>1 DEF IInv, Core, TypeInv, TypeOK, LocksHeld, HoldsItsWallets, OthersKept,
                              Free, Holds, Lockable, dbVars
    <2>2. CASE o = r
      BY <1>1, <1>2, <2>2 DEF IInv, Core, TypeInv, TypeOK, LocksHeld, HoldsItsWallets, Holds,
                              Lockable, SourceHeld, dbVars
    <2>3. QED
      BY <2>1, <2>2
  <1>4. ChangesPending'
    <2> SUFFICES ASSUME NEW o \in Requests, NEW v \in Wallets
                 PROVE  Pending(o, v)'
      BY DEF ChangesPending
    <2>1. CASE o # r
      BY <1>1, <1>2, <2>1, OthersPending, BalancesSame DEF dbVars
    <2>2. CASE o = r
      <3>1. ChangeDue(r, v)' = ChangeDue(r, v)
        BY <1>1, <1>2 DEF ChangeDue, Adds, RowOf
      <3>2. QED
        BY <1>1, <2>2, <3>1, SamePending DEF dbVars
    <2>3. QED
      BY <2>1, <2>2
  <1>5. InsertsDistinct'
    BY <1>1, <1>2 DEF IInv, Core, InsertsDistinct, OthersKept, Recorded, dbVars
  <1>6. RowsBelongToAnswered' /\ SyncIdUnique'
    BY <1>1, <1>2 DEF IInv, Core, RowsBelongToAnswered, SyncIdUnique, OthersKept,
                      dbVars, TypeInv, TypeOK, Abstract!Row
  <1>7. QED
    BY <1>3, <1>4, <1>5, <1>6 DEF Core

(* After the balance updates a create's private changes are the effect of   *)
(* the row it goes on to insert.                                            *)
LEMMA ApplyStep ==
  ASSUME IInv, NEW r \in Requests, ApplySource(r) \/ ApplyDest(r)
  PROVE  Core'
  <1>1. /\ req' = req /\ UNCHANGED <<dbVars, lockedBy>>
        /\ pc' = [pc EXCEPT ![r] = pc'[r]]
        /\ \/ pc[r] = "applySource" /\ pc'[r] = "lockDest" /\ req[r].op = "transfer"
           \/ pc[r] = "applySource" /\ pc'[r] = "insert" /\ req[r].op # "transfer"
           \/ pc[r] = "applyDest" /\ pc'[r] = "insert" /\ req[r].op = "transfer"
    BY DEF IInv, TypeInv, TypeOK, StagesMatch, ApplySource, ApplyDest, Apply, Goto
  <1>2. OthersKept(r)
    BY <1>1 DEF IInv, TypeInv, TypeOK, OthersKept, ApplySource, ApplyDest, Apply
  <1>3. LocksHeld'
    BY <1>1, <1>2 DEF IInv, Core, TypeInv, TypeOK, LocksHeld, HoldsItsWallets,
                      OthersKept, Holds, Lockable, SourceHeld, dbVars
  <1>4. ASSUME NEW w \in Wallets PROVE Pending(r, w)'
    <2>1. /\ req[r].op \in Kinds
          /\ req[r].op = "transfer" =>
               req[r].dest \in Wallets /\ req[r].dest # req[r].wallet
      BY NamesItsWallets DEF IInv, ApplySource, ApplyDest, InTransaction
    <2>2. /\ Pending(r, w) /\ balance[w] \in Int /\ delta[r][w] \in Int
          /\ delta \in [Requests -> [Wallets -> Int]]
      BY DEF IInv, Core, ChangesPending, TypeInv, TypeOK
    <2>3. PICK v, change :
            /\ delta' = [delta EXCEPT ![r][v] = Abstract!Posted(balance[v], change) - balance[v]]
            /\ \/ pc[r] = "applySource" /\ v = req[r].wallet
                  /\ change = IF req[r].op = "income" THEN req[r].amount ELSE -req[r].amount
               \/ pc[r] = "applyDest" /\ v = req[r].dest
                  /\ change = req[r].amount * req[r].rate
      BY DEF ApplySource, ApplyDest, Apply
    <2>4. Adds(r, w)' = Adds(r, w)
      BY <1>1 DEF Adds, RowOf
    <2>5. CASE w = v
      <3>1. change = Adds(r, w) /\ ChangeDue(r, w)' = Adds(r, w)
        BY <1>1, <2>1, <2>3, <2>4, <2>5, AddsIs DEF ChangeDue
      <3>2. req[r].amount \in Int /\ req[r].rate \in Int
        BY NamesItsWallets DEF IInv, ApplySource, ApplyDest, InTransaction, Request
      <3>3. Adds(r, w) \in Int
        BY <3>2, ChangeInt DEF Adds, RowOf
      <3>4. Abstract!Posted(balance[w], Adds(r, w)) \in Int
        BY <2>2, <3>3, PostedNear
      <3>5. delta'[r][w] = Abstract!Posted(balance[w], Adds(r, w)) - balance[w]
        BY <2>2, <2>3, <2>5, <3>1
      <3>6. QED
        BY <1>1, <2>2, <3>1, <3>4, <3>5 DEF Pending, dbVars
    <2>6. CASE w # v
      <3>1. delta'[r][w] = delta[r][w]
        BY <2>2, <2>3, <2>6
      <3>2. ChangeDue(r, w)' = ChangeDue(r, w)
        BY <1>1, <2>1, <2>3, <2>4, <2>6, AddsIs DEF ChangeDue
      <3>3. QED
        BY <1>1, <3>1, <3>2, SamePending DEF dbVars
    <2>7. QED
      BY <2>5, <2>6
  <1>5. ChangesPending'
    BY <1>1, <1>2, <1>4, OthersPending, BalancesSame DEF ChangesPending, dbVars
  <1>6. InsertsDistinct'
    BY <1>1, <1>2 DEF IInv, Core, InsertsDistinct, OthersKept, Recorded, dbVars
  <1>7. RowsBelongToAnswered' /\ SyncIdUnique'
    BY <1>1, <1>2 DEF IInv, Core, RowsBelongToAnswered, SyncIdUnique, OthersKept,
                      dbVars, TypeInv, TypeOK, Abstract!Row
  <1>8. QED
    BY <1>3, <1>5, <1>6, <1>7 DEF Core

(* The unique index admits one inserter of a sync id at a time, and none    *)
(* once the id is recorded.                                                 *)
LEMMA InsertStep ==
  ASSUME IInv, NEW r \in Requests, Insert(r), ~Abort(r)
  PROVE  Core'
  <1>1. /\ pc[r] = "insert" /\ Recorded(req[r].sync) = {}
        /\ req[r].sync # None => ~InsertPending(req[r].sync)
        /\ Goto(r, "commit") /\ UNCHANGED <<dbVars, lockedBy, delta, req>>
    BY DEF Insert
  <1>2. OthersKept(r) /\ pc'[r] = "commit"
    BY <1>1 DEF IInv, TypeInv, TypeOK, OthersKept, Goto
  <1>3. LocksHeld'
    BY <1>1, <1>2 DEF IInv, Core, TypeInv, TypeOK, LocksHeld, HoldsItsWallets,
                      OthersKept, Holds, Lockable, SourceHeld, dbVars
  <1>4. ASSUME NEW w \in Wallets PROVE Pending(r, w)'
    <2>1. ChangeDue(r, w)' = ChangeDue(r, w)
      BY <1>1, <1>2 DEF ChangeDue, Adds, RowOf
    <2>2. QED
      BY <1>1, <2>1, SamePending DEF dbVars
  <1>5. ChangesPending'
    BY <1>1, <1>2, <1>4, OthersPending, BalancesSame DEF ChangesPending, dbVars
  <1>6. InsertsDistinct'
    BY <1>1, <1>2 DEF IInv, Core, InsertsDistinct, InsertPending, OthersKept,
                      Recorded, dbVars
  <1>7. RowsBelongToAnswered' /\ SyncIdUnique'
    BY <1>1, <1>2 DEF IInv, Core, RowsBelongToAnswered, SyncIdUnique, OthersKept,
                      dbVars, TypeInv, TypeOK, Abstract!Row
  <1>8. QED
    BY <1>3, <1>5, <1>6, <1>7 DEF Core

(* A commit adds one row, under an id and a sync id no other row has.       *)
LEMMA CommitStep ==
  ASSUME IInv, NEW r \in Requests, Commit(r)
  PROVE  Core'
  <1>1. OthersKept(r) /\ pc'[r] = "done" /\ delta'[r] = NoDelta
    BY DEF IInv, TypeInv, TypeOK, OthersKept, Commit, Answer
  <1>2. LocksHeld' /\ ChangesPending'
    <2>1. BalancesKept(r)
      <3>1. /\ balance' = [w \in Wallets |-> balance[w] + delta[r][w]]
            /\ \A w \in Wallets :
                 balance[w] \in Int /\ delta[r][w] \in Int /\ Pending(r, w)
        BY DEF Commit, IInv, Core, ChangesPending, TypeInv, TypeOK
      <3>2. ASSUME NEW w \in Wallets, ChangeDue(r, w) = 0
            PROVE  balance'[w] = balance[w]
        <4>1. delta[r][w] = 0
          BY <3>1, <3>2, NothingDue DEF Pending
        <4>2. QED
          BY <3>1, <4>1
      <3>3. QED
        BY <3>1, <3>2, DueIsHeld DEF BalancesKept
    <2>2. QED
      BY <1>1, <2>1, OthersLocks, AnsweredPending DEF Commit
  <1>3. rows' = rows \cup {RowOf(r)} /\ pc[r] = "commit"
    BY DEF Commit
  <1>4. RowOf(r).id = r /\ RowOf(r).sync = req[r].sync
    BY DEF RowOf
  <1>5. InsertsDistinct'
    BY <1>1, <1>3, <1>4 DEF IInv, Core, InsertsDistinct, OthersKept, Recorded
  <1>6. RowsBelongToAnswered'
    BY <1>1, <1>3, <1>4 DEF IInv, Core, RowsBelongToAnswered, OthersKept,
                            TypeInv, TypeOK, Abstract!Row
  <1>7. SyncIdUnique'
    BY <1>3, <1>4 DEF IInv, Core, SyncIdUnique, InsertsDistinct, Recorded
  <1>8. QED
    BY <1>2, <1>5, <1>6, <1>7 DEF Core

(* A wallet is closed only while no create holds it.                        *)
LEMMA CloseStep ==
  ASSUME IInv, NEW r \in Requests, SoftDeleteWallet(r)
  PROVE  Core'
  <1>1. /\ OthersKept(r) /\ pc[r] = "softDelete" /\ pc'[r] = "done"
        /\ UNCHANGED <<balance, rows, lockedBy, delta, req>>
        /\ lockedBy[req[r].wallet] = None
        /\ active' = [active EXCEPT ![req[r].wallet] = FALSE]
    BY DEF IInv, TypeInv, TypeOK, OthersKept, SoftDeleteWallet, AcknowledgedOrLost,
           Answer
  <1>2. LocksHeld'
    <2> SUFFICES ASSUME NEW o \in Requests PROVE HoldsItsWallets(o)'
      BY DEF LocksHeld
    <2>1. CASE o # r
      BY <1>1, <2>1, NamesItsWallets
         DEF IInv, Core, TypeInv, TypeOK, LocksHeld, HoldsItsWallets, OthersKept,
             Holds, Lockable, SourceHeld, InTransaction
    <2>2. CASE o = r
      BY <1>1, <2>2 DEF HoldsItsWallets, SourceHeld
    <2>3. QED
      BY <2>1, <2>2
  <1>3. ASSUME NEW w \in Wallets PROVE Pending(r, w)'
    BY <1>1, SamePending DEF ChangeDue
  <1>4. ChangesPending'
    BY <1>1, <1>3, OthersPending, BalancesSame DEF ChangesPending
  <1>5. InsertsDistinct' /\ RowsBelongToAnswered' /\ SyncIdUnique'
    BY <1>1 DEF IInv, Core, InsertsDistinct, RowsBelongToAnswered, SyncIdUnique,
                OthersKept, Recorded, TypeInv, TypeOK, Abstract!Row
  <1>6. QED
    BY <1>2, <1>4, <1>5 DEF Core

(* Deleting a row changes neither its id nor its sync id, so the sync id    *)
(* stays taken.                                                             *)
LEMMA StrikeStep ==
  ASSUME IInv, NEW r \in Requests, SoftDeleteRow(r)
  PROVE  Core'
  <1>1. /\ OthersKept(r) /\ pc[r] = "received" /\ pc'[r] = "done"
        /\ UNCHANGED <<balance, active, lockedBy, delta, req>>
    BY DEF IInv, TypeInv, TypeOK, OthersKept, SoftDeleteRow, AcknowledgedOrLost, Answer
  <1>2. ASSUME NEW y \in rows'
        PROVE  \E x \in rows : x.id = y.id /\ x.sync = y.sync /\ (x \in rows' => x = y)
    <2>1. CASE rows' = rows
      BY <2>1
    <2>2. CASE rows' # rows
      <3>1. PICK x \in rows :
              rows' = (rows \ {x}) \cup {[x EXCEPT !.deleted = TRUE]} /\ ~x.deleted
        BY <2>2 DEF SoftDeleteRow, Struck
      <3>2. /\ [x EXCEPT !.deleted = TRUE].id = x.id
            /\ [x EXCEPT !.deleted = TRUE].sync = x.sync
            /\ [x EXCEPT !.deleted = TRUE].deleted
        BY <3>1 DEF IInv, TypeInv, TypeOK, Abstract!Row
      <3>3. QED
        BY <3>1, <3>2
    <2>3. QED
      BY <2>1, <2>2
  <1>3. LocksHeld'
    BY <1>1 DEF IInv, Core, LocksHeld, HoldsItsWallets, OthersKept, Holds, Lockable,
                SourceHeld
  <1>4. ASSUME NEW w \in Wallets PROVE Pending(r, w)'
    BY <1>1, SamePending DEF ChangeDue
  <1>5. ChangesPending'
    BY <1>1, <1>4, OthersPending, BalancesSame DEF ChangesPending
  <1>6. InsertsDistinct' /\ RowsBelongToAnswered'
    BY <1>1, <1>2 DEF IInv, Core, InsertsDistinct, RowsBelongToAnswered, OthersKept,
                      Recorded, TypeInv, TypeOK, Abstract!Row
  <1>7. SyncIdUnique'
    <2>1. CASE rows' = rows
      BY <2>1 DEF IInv, Core, SyncIdUnique
    <2>2. CASE rows' # rows
      <3>1. PICK x \in rows :
              rows' = (rows \ {x}) \cup {[x EXCEPT !.deleted = TRUE]}
        BY <2>2 DEF SoftDeleteRow, Struck
      <3>2. [x EXCEPT !.deleted = TRUE].sync = x.sync
        BY <3>1 DEF IInv, TypeInv, TypeOK, Abstract!Row
      <3>3. QED
        BY <3>1, <3>2 DEF IInv, Core, SyncIdUnique
    <2>3. QED
      BY <2>1, <2>2
  <1>8. QED
    BY <1>3, <1>5, <1>6, <1>7 DEF Core

(* Every step keeps the invariant.                                          *)
LEMMA NextInv == IInv /\ [Next]_vars => IInv'
  <1> SUFFICES ASSUME IInv, TypeInv', [Next]_vars PROVE Core'
    BY NextTypes DEF IInv
  <1>1. ASSUME NEW r \in Requests,
               Submit(r) \/ FirstLookup(r) \/ SecondLookup(r) \/ ReadWallet(r)
                 \/ StoreBalance(r)
        PROVE  Core'
    <2>1. /\ pc[r] \notin SourceHeld /\ pc'[r] \notin SourceHeld /\ pc[r] # "done"
          /\ UNCHANGED <<active, rows, lockedBy, delta>>
      BY <1>1 DEF IInv, TypeInv, TypeOK, Submit, FirstLookup, SecondLookup, ReadWallet,
                  StoreBalance, Replay, AcknowledgedOrLost, Goto, Answer, dbVars,
                  SourceHeld
    <2>2. OthersKept(r)
      BY <1>1 DEF IInv, TypeInv, TypeOK, Submit, FirstLookup, SecondLookup, ReadWallet,
                  StoreBalance, Replay, AcknowledgedOrLost, Goto, Answer, OthersKept
    <2>3. BalancesKept(r)
      <3>1. CASE StoreBalance(r)
        BY <3>1 DEF StoreBalance, IInv, TypeInv, TypeOK, BalancesKept
      <3>2. CASE ~StoreBalance(r)
        BY <1>1, <3>2, BalancesSame
           DEF Submit, FirstLookup, SecondLookup, ReadWallet, dbVars
      <3>3. QED
        BY <3>1, <3>2
    <2>4. QED
      BY <2>1, <2>2, <2>3, QuietStep
  <1>2. ASSUME NEW r \in Requests, LockSource(r) \/ LockDest(r) \/ Insert(r) PROVE Core'
    BY <1>2, AbortStep, LockStep, InsertStep
  <1>3. ASSUME NEW r \in Requests, ApplySource(r) \/ ApplyDest(r) \/ Commit(r)
        PROVE  Core'
    BY <1>3, ApplyStep, CommitStep
  <1>4. ASSUME NEW r \in Requests, SoftDeleteWallet(r) \/ SoftDeleteRow(r) PROVE Core'
    BY <1>4, CloseStep, StrikeStep
  <1>5. ASSUME NEW r \in Requests, Fail(r) PROVE Core'
    BY <1>5, AbortStep DEF Fail
  <1>6. CASE BreakDeadlock
    BY <1>6, AbortStep DEF BreakDeadlock
  <1>7. CASE UNCHANGED vars
    BY <1>7 DEF vars, dbVars, IInv, Core, LocksHeld, HoldsItsWallets, Holds, Lockable,
                ChangesPending, Pending, ChangeDue, Adds, RowOf, InsertsDistinct, Recorded,
                RowsBelongToAnswered, SyncIdUnique
  <1>8. QED
    BY <1>1, <1>2, <1>3, <1>4, <1>5, <1>6, <1>7
       DEF Next, Handle, CreateStep, WalletStep, AllAnswered

LEMMA InvariantHolds == Spec => []IInv
  BY InitInv, NextInv, PTL DEF Spec

(* The locking discipline: at every moment each open create holds the       *)
(* wallets it has touched, and its private changes are those of its row.    *)
THEOREM LedgerInvariant == Spec => []LedgerInv
  <1>1. IInv => LedgerInv
    BY DEF IInv, Core, TypeInv, LedgerInv
  <1>2. QED
    BY <1>1, InvariantHolds, PTL

(* Idempotent recording: however often and however concurrently a create is *)
(* sent, at most one row ever carries its sync id.                          *)
THEOREM SyncIdRecordedOnce == Spec => []SyncIdUnique
  <1>1. IInv => SyncIdUnique
    BY DEF IInv, Core
  <1>2. QED
    BY <1>1, InvariantHolds, PTL

-----------------------------------------------------------------------------
(* Refinement: each step is one of the four indivisible operations, or does *)
(* not touch the ledger.                                                    *)

(* The commit of a create is the recording of its row.                      *)
LEMMA CommitRecords ==
  ASSUME IInv, NEW r \in Requests, Commit(r)
  PROVE  \E x \in rows' \ rows : Abstract!Record(x)
  <1> DEFINE x == RowOf(r)
  <1>1. /\ pc[r] = "commit" /\ rows' = rows \cup {x}
        /\ balance' = [w \in Wallets |-> balance[w] + delta[r][w]]
        /\ UNCHANGED active
    BY DEF Commit
  <1>2. /\ req[r] \in Inputs /\ req[r] \in Request /\ req[r].op \in Kinds
        /\ ValidCreate(req[r]) /\ req[r].amount \in Amounts
        /\ req[r].wallet \in Wallets
        /\ req[r].op = "transfer" =>
             req[r].dest \in Wallets /\ req[r].dest # req[r].wallet
    BY <1>1, NamesItsWallets DEF IInv, InTransaction
  <1>3. x \in Abstract!Row /\ ~x.deleted
    BY <1>2, RowOfValid DEF RowOf
  <1>4. /\ x.id = r /\ x.sync = req[r].sync /\ x.user = req[r].user
        /\ x.type = req[r].op /\ x.wallet = req[r].wallet /\ x.dest = req[r].dest
    BY DEF RowOf
  <1>5. /\ Abstract!Usable(x.user, x.wallet)
        /\ x.type = "transfer" => Abstract!Usable(x.user, x.dest) /\ x.dest # x.wallet
    BY <1>1, <1>2, <1>4 DEF IInv, Core, LocksHeld, HoldsItsWallets, Holds, Lockable,
                            SourceHeld, Abstract!Usable
  <1>6. \A y \in rows : y.id # x.id /\ (x.sync # None => y.sync # x.sync)
    BY <1>1, <1>4 DEF IInv, Core, RowsBelongToAnswered, InsertsDistinct, Recorded
  <1>7. Abstract!Acceptable(x)
    BY <1>3, <1>5, <1>6 DEF Abstract!Acceptable
  <1>8. balance' = [w \in Wallets |->
                     Abstract!Posted(balance[w], Abstract!Change(x, req[r].amount, w))]
    BY <1>1 DEF IInv, Core, ChangesPending, Pending, ChangeDue, Adds
  <1>9. x \in rows' \ rows
    BY <1>1, <1>6
  <1>10. QED
    BY <1>1, <1>2, <1>7, <1>8, <1>9 DEF Abstract!Record, ValidCreate, RowOf

(* Every step of the path is a step of the abstract ledger, or a stutter.   *)
LEMMA StepRefines == IInv /\ [Next]_vars => [Abstract!Next]_(Abstract!ledgerVars)
  <1> SUFFICES ASSUME IInv, [Next]_vars
               PROVE  Abstract!Next \/ UNCHANGED dbVars
    BY DEF Abstract!ledgerVars, dbVars
  <1>1. ASSUME NEW r \in Requests, Commit(r) PROVE Abstract!Next
    BY <1>1, CommitRecords DEF Abstract!Next
  <1>2. ASSUME NEW r \in Requests, StoreBalance(r) PROVE Abstract!Next
    <2>1. req[r].wallet \in Wallets /\ Abstract!Stored(req[r].amount) \in Int
      BY <1>2, InputShape, StoredNear
         DEF IInv, TypeInv, TypeOK, StagesMatch, StoreBalance, Request
    <2>2. Abstract!Overwrite(req[r].wallet)
      BY <1>2, <2>1 DEF StoreBalance, Abstract!Overwrite, IInv, TypeInv, TypeOK
    <2>3. QED
      BY <2>1, <2>2 DEF Abstract!Next
  <1>3. ASSUME NEW r \in Requests, SoftDeleteWallet(r) PROVE Abstract!Next
    <2>1. req[r].wallet \in Wallets
      BY <1>3, InputShape DEF IInv, TypeInv, TypeOK, StagesMatch, SoftDeleteWallet
    <2>2. QED
      BY <1>3, <2>1 DEF SoftDeleteWallet, Abstract!Close, Abstract!Next
  <1>4. ASSUME NEW r \in Requests, SoftDeleteRow(r)
        PROVE  Abstract!Next \/ UNCHANGED dbVars
    BY <1>4 DEF SoftDeleteRow, Struck, Abstract!Strike, Abstract!Next, dbVars
  <1>5. ASSUME NEW r \in Requests,
               Submit(r) \/ FirstLookup(r) \/ SecondLookup(r) \/ LockSource(r)
                 \/ ApplySource(r) \/ LockDest(r) \/ ApplyDest(r) \/ Insert(r)
                 \/ ReadWallet(r) \/ Fail(r)
        PROVE  UNCHANGED dbVars
    BY <1>5 DEF Submit, FirstLookup, SecondLookup, LockSource, ApplySource, LockDest,
                ApplyDest, Insert, ReadWallet, Fail, LockWallet, Apply, Abort
  <1>6. CASE BreakDeadlock
    BY <1>6 DEF BreakDeadlock, Abort
  <1>7. CASE UNCHANGED vars
    BY <1>7 DEF vars, dbVars
  <1>8. QED
    BY <1>1, <1>2, <1>3, <1>4, <1>5, <1>6, <1>7
       DEF Next, Handle, CreateStep, WalletStep, AllAnswered

(* The interleaved statements, locks, aborts and lost answers of the money  *)
(* path implement the atomic ledger.                                        *)
THEOREM LedgerRefinement == Spec => RefinesAtomicLedger
  <1>1. Init => Abstract!Init
    BY DEF Init, Abstract!Init
  <1>2. QED
    BY <1>1, StepRefines, InvariantHolds, PTL DEF Spec, RefinesAtomicLedger, Abstract!Spec

-----------------------------------------------------------------------------
(* Where the money is.  The rows are finitely many and each has an id of    *)
(* its own; a commit adds what its row was to add, to within half a unit if *)
(* that is no whole number of units, and nothing else changes the balance   *)
(* of a wallet but an overwrite.                                            *)

RowsNamed ==
  /\ IsFiniteSet(rows)
  /\ \A x, y \in rows : x.id = y.id => x = y

Effects(w) == [x \in rows |-> Added(x, w)]

Blurring(w) == [x \in rows |-> Blurs(x, w)]

Within(drift, blur) == -(Grain * blur) <= 2 * drift /\ 2 * drift <= Grain * blur

Explained ==
  \A w \in Wallets : NeverOverwritten(w) =>
    Within(Grain * (balance[w] - Opening[w]) - SumFunctionOnSet(Effects(w), rows),
           SumFunctionOnSet(Blurring(w), rows))

BalanceInv == RowsNamed /\ Explained

LEMMA ExplainedIs == Explained => BalancesExplained
  <1>1. \A w : DOMAIN Effects(w) = rows /\ DOMAIN Blurring(w) = rows
    BY DEF Effects, Blurring
  <1>2. ASSUME NEW w \in Wallets
        PROVE  /\ Drift(w) = Grain * (balance[w] - Opening[w])
                                - SumFunctionOnSet(Effects(w), rows)
               /\ Blur(w) = SumFunctionOnSet(Blurring(w), rows)
    BY <1>1 DEF Drift, Blur, SumFunction, Effects, Blurring
  <1>3. QED
    BY <1>2 DEF BalancesExplained, Explained, Within

(* What a recorded row was to add to a wallet is an integer.                *)
LEMMA AddedInt ==
  ASSUME IInv, NEW x \in rows, NEW w
  PROVE  Added(x, w) \in Int /\ Blurs(x, w) \in {0, 1}
  <1>1. x.id \in Requests /\ x.rate \in Int
    BY DEF IInv, TypeInv, TypeOK, Abstract!Row
  <1>2. pc[x.id] # "idle"
    BY DEF IInv, Core, RowsBelongToAnswered
  <1>3. req[x.id].amount \in Int
    BY <1>1, <1>2, InputShape DEF IInv, TypeInv, TypeOK, Request
  <1>4. QED
    BY <1>1, <1>3, ChangeInt DEF Added, Blurs

LEMMA SumsExist ==
  ASSUME IInv, RowsNamed, NEW w \in Wallets
  PROVE  Summable(Effects(w), rows) /\ Summable(Blurring(w), rows)
  BY AddedInt DEF Summable, RowsNamed, Effects, Blurring

(* A row belongs to an answered request, whose input stays what it was.     *)
LEMMA AddedStays ==
  ASSUME IInv, NEW r \in Requests, OthersKept(r), pc[r] # "done",
         NEW x \in rows, NEW w
  PROVE  Added(x, w)' = Added(x, w) /\ Blurs(x, w)' = Blurs(x, w)
  <1>1. x.id \in Requests \ {r}
    BY DEF IInv, Core, RowsBelongToAnswered, TypeInv, TypeOK, Abstract!Row
  <1>2. req'[x.id] = req[x.id]
    BY <1>1 DEF OthersKept
  <1>3. QED
    BY <1>2 DEF Added, Blurs

(* Requests that have been answered stay so.                                *)
LEMMA OverwrittenStays ==
  ASSUME NEW r \in Requests, OthersKept(r), pc[r] # "done", NEW w, NeverOverwritten(w)'
  PROVE  NeverOverwritten(w)
  BY DEF OthersKept, NeverOverwritten

(* Sums over one more row, and over one row in place of another.            *)
LEMMA OneMore ==
  ASSUME NEW old, NEW new, NEW S, NEW x, x \notin S, Summable(old, S),
         \A y \in S : new[y] = old[y], new[x] \in Int
  PROVE  SumFunctionOnSet(new, S \cup {x}) = SumFunctionOnSet(old, S) + new[x]
  <1>1. Summable(new, S \cup {x})
    BY FS_AddElement DEF Summable
  <1>2. SumFunctionOnSet(new, S \cup {x}) = SumFunctionOnSet(new, S) + new[x]
    BY <1>1, SumAdds
  <1>3. SumFunctionOnSet(new, S) = SumFunctionOnSet(old, S)
    BY SumSame
  <1>4. QED
    BY <1>2, <1>3

LEMMA OneForAnother ==
  ASSUME NEW old, NEW new, NEW S, NEW x, x \notin S, NEW y, y \notin S,
         Summable(old, S \cup {x}), \A z \in S : new[z] = old[z], new[y] = old[x]
  PROVE  SumFunctionOnSet(new, S \cup {y}) = SumFunctionOnSet(old, S \cup {x})
  <1>1. Summable(old, S) /\ old[x] \in Int
    BY SummableSubset DEF Summable
  <1>2. Summable(new, S \cup {y})
    BY <1>1, FS_AddElement DEF Summable
  <1>3. SumFunctionOnSet(new, S \cup {y}) = SumFunctionOnSet(new, S) + new[y]
    BY <1>2, SumAdds
  <1>4. SumFunctionOnSet(old, S \cup {x}) = SumFunctionOnSet(old, S) + old[x]
    BY SumAdds
  <1>5. SumFunctionOnSet(new, S) = SumFunctionOnSet(old, S)
    BY <1>1, SumSame
  <1>6. QED
    BY <1>3, <1>4, <1>5

(* What posting a change does to the drift of a balance.                    *)
LEMMA DriftStep ==
  ASSUME NEW old \in Int, NEW open \in Int, NEW sum \in Int, NEW blur \in Int,
         NEW c \in Int, NEW b \in {0, 1}, WholeUnits(c) <=> b = 0,
         Within(Grain * (old - open) - sum, blur)
  PROVE  Within(Grain * (Abstract!Posted(old, c) - open) - (sum + c), blur + b)
  <1> DEFINE new == Abstract!Posted(old, c)
             off == Grain * new - (Grain * old + c)
             drift == Grain * (old - open) - sum
             drift2 == Grain * (new - open) - (sum + c)
  <1>1. new \in Int
    BY PostedNear
  <1> HIDE DEF new
  <1>2. /\ Grain * new \in Int /\ Grain * old \in Int /\ Grain * open \in Int
        /\ Grain * (old - open) = Grain * old - Grain * open
        /\ Grain * (new - open) = Grain * new - Grain * open
    BY <1>1
  <1>3. off \in Int /\ drift \in Int /\ drift2 = drift + off
    BY <1>2
  <1>4. 2 * off <= Grain /\ -Grain <= 2 * off /\ (b = 0 => off = 0)
    <2>1. /\ WholeUnits(c) => Grain * new = Grain * old + c
          /\ 2 * (Grain * new) - 2 * (Grain * old + c) <= Grain
          /\ 2 * (Grain * old + c) - 2 * (Grain * new) <= Grain
      BY PostedNear DEF new
    <2>2. QED
      BY <1>2, <2>1
  <1>5. -(Grain * blur) <= 2 * drift /\ 2 * drift <= Grain * blur
    BY DEF Within
  <1> HIDE DEF off, drift, drift2
  <1>6. Grain * (blur + b) = Grain * blur + (IF b = 0 THEN 0 ELSE Grain)
        /\ Grain * blur \in Int
    OBVIOUS
  <1>7. -(Grain * (blur + b)) <= 2 * drift2 /\ 2 * drift2 <= Grain * (blur + b)
    BY <1>3, <1>4, <1>5, <1>6
  <1>8. QED
    BY <1>7 DEF Within, drift2, new

(* A commit adds what its request had changed in private.                   *)
LEMMA CommitExplained ==
  ASSUME IInv, BalanceInv, NEW r \in Requests, Commit(r)
  PROVE  BalanceInv'
  <1> PICK x : x = RowOf(r)
    OBVIOUS
  <1>1. /\ pc[r] = "commit" /\ rows' = rows \cup {x} /\ OthersKept(r)
        /\ balance' = [w \in Wallets |-> balance[w] + delta[r][w]]
        /\ req' = req
    BY DEF Commit, OthersKept, Answer, IInv, TypeInv, TypeOK
  <1>2. /\ req[r] \in Request /\ req[r].amount \in Int /\ req[r].rate \in Int
        /\ x.id = r /\ x.rate = req[r].rate
    BY <1>1, NamesItsWallets DEF IInv, InTransaction, Request, RowOf
  <1>3. \A y \in rows : y.id # r
    BY <1>1 DEF IInv, Core, RowsBelongToAnswered
  <1>4. RowsNamed'
    BY <1>1, <1>2, <1>3, FS_AddElement DEF BalanceInv, RowsNamed
  <1>5. \A w \in Wallets : balance'[w] = Abstract!Posted(balance[w], Adds(r, w))
    BY <1>1 DEF IInv, Core, ChangesPending, Pending, ChangeDue
  <1>6. x \notin rows
    BY <1>2, <1>3
  <1>7. \A w : Added(x, w)' = Adds(r, w) /\ Adds(r, w) \in Int
    <2>1. ASSUME NEW w PROVE Added(x, w)' = Adds(r, w)
      <3>1. req'[x.id] = req[r]
        BY <1>1, <1>2
      <3>2. QED
        BY <3>1 DEF Added, Adds
    <2>2. \A w : Adds(r, w) \in Int
      BY <1>2, ChangeInt DEF Adds
    <2>3. QED
      BY <2>1, <2>2
  <1>8. ASSUME NEW w \in Wallets, NeverOverwritten(w)'
        PROVE  Within(Grain * (balance'[w] - Opening[w])
                        - SumFunctionOnSet(Effects(w)', rows'),
                      SumFunctionOnSet(Blurring(w)', rows'))
    <2> DEFINE a == Adds(r, w)
               b == Blurs(x, w)'
               S == SumFunctionOnSet(Effects(w), rows)
               B == SumFunctionOnSet(Blurring(w), rows)
    <2>1. Within(Grain * (balance[w] - Opening[w]) - S, B)
      BY <1>1, <1>8, OverwrittenStays DEF BalanceInv, Explained
    <2>2. a \in Int /\ b \in {0, 1} /\ (WholeUnits(a) <=> b = 0)
      BY <1>7 DEF Blurs
    <2>3. S \in Int /\ B \in Int /\ Summable(Effects(w), rows) /\ Summable(Blurring(w), rows)
      BY SumsExist, SumInt DEF BalanceInv
    <2>4. balance[w] \in Int /\ Opening[w] \in Int
      BY DEF IInv, TypeInv, TypeOK
    <2> DEFINE E == Effects(w)
               F == Blurring(w)
               newE == E'
               newF == F'
    <2>5. /\ \A y \in rows : newE[y] = E[y] /\ newF[y] = F[y]
          /\ newE[x] = a /\ newF[x] = b
      <3>1. /\ newE = [y \in rows' |-> Added(y, w)']
            /\ newF = [y \in rows' |-> Blurs(y, w)']
        BY DEF Effects, Blurring
      <3>2. \A y \in rows : Added(y, w)' = Added(y, w) /\ Blurs(y, w)' = Blurs(y, w)
        BY <1>1, AddedStays
      <3> HIDE DEF newE, newF
      <3>3. newE[x] = Added(x, w)' /\ newF[x] = Blurs(x, w)'
        BY <1>1, <3>1
      <3>4. \A y \in rows : newE[y] = Added(y, w) /\ newF[y] = Blurs(y, w)
        BY <1>1, <3>1, <3>2
      <3>5. QED
        BY <1>7, <3>3, <3>4 DEF Effects, Blurring
    <2> HIDE DEF a, b, E, F, newE, newF
    <2>6. SumFunctionOnSet(newE, rows \cup {x}) = S + a
      <3>1. Summable(E, rows)
        BY <2>3 DEF E
      <3>2. newE[x] \in Int
        BY <2>2, <2>5
      <3>3. \A y \in rows : newE[y] = E[y]
        BY <2>5
      <3>4. SumFunctionOnSet(newE, rows \cup {x}) = SumFunctionOnSet(E, rows) + newE[x]
        BY ONLY <1>6, <3>1, <3>2, <3>3, OneMore
      <3>5. QED
        BY <2>5, <3>4 DEF E
    <2>7. SumFunctionOnSet(newF, rows \cup {x}) = B + b
      <3>1. Summable(F, rows)
        BY <2>3 DEF F
      <3>2. newF[x] \in Int
        BY <2>2, <2>5
      <3>3. \A y \in rows : newF[y] = F[y]
        BY <2>5
      <3>4. SumFunctionOnSet(newF, rows \cup {x}) = SumFunctionOnSet(F, rows) + newF[x]
        BY ONLY <1>6, <3>1, <3>2, <3>3, OneMore
      <3>5. QED
        BY <2>5, <3>4 DEF F
    <2> HIDE DEF S, B
    <2>8. Within(Grain * (Abstract!Posted(balance[w], a) - Opening[w]) - (S + a), B + b)
      BY <2>1, <2>2, <2>3, <2>4, DriftStep
    <2>9. balance'[w] = Abstract!Posted(balance[w], a)
      BY <1>5 DEF a
    <2>10. QED
      BY <1>1, <2>6, <2>7, <2>8, <2>9 DEF newE, newF, E, F
  <1>9. Explained'
    BY <1>8 DEF Explained
  <1>10. QED
    BY <1>4, <1>9 DEF BalanceInv

(* Deleting a row takes no money back, and leaves its effect in the sum.    *)
LEMMA StrikeExplained ==
  ASSUME IInv, BalanceInv, NEW r \in Requests, SoftDeleteRow(r)
  PROVE  BalanceInv'
  <1>1. OthersKept(r) /\ pc[r] # "done" /\ UNCHANGED <<balance, req>>
    BY DEF IInv, TypeInv, TypeOK, OthersKept, SoftDeleteRow, AcknowledgedOrLost, Answer
  <1>2. RowsNamed' /\ \A w \in Wallets :
          /\ SumFunctionOnSet(Effects(w)', rows') = SumFunctionOnSet(Effects(w), rows)
          /\ SumFunctionOnSet(Blurring(w)', rows') = SumFunctionOnSet(Blurring(w), rows)
    <2>1. CASE rows' = rows
      BY <1>1, <2>1 DEF Effects, Blurring, Added, Blurs, BalanceInv, RowsNamed
    <2>2. CASE rows' # rows
      <3>1. PICK x \in rows :
              rows' = (rows \ {x}) \cup {[x EXCEPT !.deleted = TRUE]} /\ ~x.deleted
        BY <2>2 DEF SoftDeleteRow, Struck
      <3> DEFINE y == [x EXCEPT !.deleted = TRUE]
                 rest == rows \ {x}
      <3>2. x \in Abstract!Row
        BY <3>1 DEF IInv, TypeInv, TypeOK
      <3>3. /\ y.id = x.id /\ y # x
            /\ \A w : Added(y, w) = Added(x, w) /\ Blurs(y, w) = Blurs(x, w)
        BY <3>1, <3>2 DEF Abstract!Row, Added, Blurs, Abstract!Change
      <3> HIDE DEF y
      <3>4. y \notin rows
        BY <3>1, <3>3 DEF BalanceInv, RowsNamed
      <3>5. rows' = rest \cup {y} /\ rows = rest \cup {x} /\ x \notin rest /\ y \notin rest
        BY <3>1, <3>4 DEF y
      <3>6. RowsNamed'
        BY <3>3, <3>5, FS_RemoveElement, FS_AddElement DEF BalanceInv, RowsNamed
      <3>7. ASSUME NEW w \in Wallets
            PROVE  /\ SumFunctionOnSet(Effects(w)', rows')
                         = SumFunctionOnSet(Effects(w), rows)
                   /\ SumFunctionOnSet(Blurring(w)', rows')
                         = SumFunctionOnSet(Blurring(w), rows)
        <4> DEFINE E == Effects(w)
                   F == Blurring(w)
                   newE == E'
                   newF == F'
        <4>1. \A z : Added(z, w)' = Added(z, w) /\ Blurs(z, w)' = Blurs(z, w)
          BY <1>1 DEF Added, Blurs
        <4>2. /\ \A z \in rest : newE[z] = E[z] /\ newF[z] = F[z]
              /\ newE[y] = E[x] /\ newF[y] = F[x]
          <5>1. /\ newE = [z \in rows' |-> Added(z, w)']
                /\ newF = [z \in rows' |-> Blurs(z, w)']
            BY DEF Effects, Blurring
          <5> HIDE DEF newE, newF
          <5>2. QED
            BY <3>3, <3>5, <4>1, <5>1 DEF Effects, Blurring
        <4>3. Summable(E, rest \cup {x}) /\ Summable(F, rest \cup {x})
          BY <3>5, SumsExist DEF BalanceInv
        <4> HIDE DEF rest, E, F, newE, newF
        <4>4. SumFunctionOnSet(newE, rest \cup {y}) = SumFunctionOnSet(E, rest \cup {x})
          BY <3>5, <4>2, <4>3, OneForAnother
        <4>5. SumFunctionOnSet(newF, rest \cup {y}) = SumFunctionOnSet(F, rest \cup {x})
          BY <3>5, <4>2, <4>3, OneForAnother
        <4>6. QED
          BY <3>5, <4>4, <4>5 DEF newE, newF, E, F
      <3>8. QED
        BY <3>6, <3>7
    <2>3. QED
      BY <2>1, <2>2
  <1>3. Explained'
    BY <1>1, <1>2, OverwrittenStays DEF BalanceInv, Explained
  <1>4. QED
    BY <1>2, <1>3 DEF BalanceInv

(* Whatever else a request does, at most the wallet that it overwrites      *)
(* changes, and is overwritten from then on.                                *)
LEMMA OthersExplained ==
  ASSUME IInv, BalanceInv, NEW r \in Requests, OthersKept(r), pc[r] # "done",
         UNCHANGED rows,
         \A w \in Wallets : NeverOverwritten(w)' => balance'[w] = balance[w]
  PROVE  BalanceInv'
  <1>1. \A w : Effects(w)' = Effects(w) /\ Blurring(w)' = Blurring(w)
    BY AddedStays DEF Effects, Blurring
  <1>2. Explained'
    BY <1>1, OverwrittenStays DEF BalanceInv, Explained
  <1>3. QED
    BY <1>2 DEF BalanceInv, RowsNamed

LEMMA StepExplained == IInv /\ BalanceInv /\ [Next]_vars => BalanceInv'
  <1> SUFFICES ASSUME IInv, BalanceInv, [Next]_vars
               PROVE  BalanceInv'
    OBVIOUS
  <1>1. ASSUME NEW r \in Requests, pc[r] # "done",
               Submit(r) \/ FirstLookup(r) \/ SecondLookup(r) \/ ReadWallet(r)
                 \/ SoftDeleteWallet(r) \/ ApplySource(r) \/ ApplyDest(r)
                 \/ LockSource(r) \/ LockDest(r) \/ Insert(r) \/ Abort(r)
        PROVE  BalanceInv'
    <2>1. UNCHANGED <<balance, rows>>
      BY <1>1 DEF Submit, FirstLookup, SecondLookup, ReadWallet, SoftDeleteWallet,
                  ApplySource, ApplyDest, Apply, LockSource, LockDest, LockWallet, Insert,
                  Abort, dbVars
    <2>2. OthersKept(r)
      BY <1>1 DEF Submit, FirstLookup, SecondLookup, Replay, ReadWallet, SoftDeleteWallet,
                  ApplySource, ApplyDest, Apply, LockSource, LockDest, LockWallet, Insert,
                  Abort, Goto, Answer, AcknowledgedOrLost, OthersKept, IInv, TypeInv, TypeOK
    <2>3. QED
      BY <1>1, <2>1, <2>2, OthersExplained
  <1>2. ASSUME NEW r \in Requests, StoreBalance(r)
        PROVE  BalanceInv'
    <2>1. /\ OthersKept(r) /\ pc[r] = "store" /\ pc'[r] = "done" /\ UNCHANGED <<rows, req>>
          /\ \A w \in Wallets : w # req[r].wallet => balance'[w] = balance[w]
          /\ req[r].op = "overwrite"
      BY <1>2 DEF StoreBalance, AcknowledgedOrLost, Answer, OthersKept, IInv, TypeInv,
                  TypeOK, StagesMatch
    <2>2. ASSUME NEW w \in Wallets, NeverOverwritten(w)'
          PROVE  balance'[w] = balance[w]
      <3>1. w # req[r].wallet
        BY <2>1, <2>2 DEF NeverOverwritten
      <3>2. QED
        BY <2>1, <3>1 DEF IInv, TypeInv, TypeOK
    <2>3. QED
      BY <2>1, <2>2, OthersExplained
  <1>3. ASSUME NEW r \in Requests, Commit(r) \/ SoftDeleteRow(r)
        PROVE  BalanceInv'
    BY <1>3, CommitExplained, StrikeExplained
  <1>4. CASE UNCHANGED vars
    BY <1>4 DEF vars, BalanceInv, RowsNamed, Explained, NeverOverwritten, Effects,
                Blurring, Added, Blurs
  <1>5. ASSUME NEW r \in Requests, Fail(r)
        PROVE  BalanceInv'
    BY <1>1, <1>5 DEF Fail
  <1>6. CASE BreakDeadlock
    <2>1. PICK r \in Requests : Deadlocked(r) /\ Abort(r)
      BY <1>6 DEF BreakDeadlock
    <2>2. pc[r] # "done"
      BY <2>1 DEF Deadlocked, WaitsFor
    <2>3. QED
      BY <1>1, <2>1, <2>2
  <1>7. ASSUME NEW r \in Requests, Submit(r) \/ Handle(r)
        PROVE  BalanceInv'
    <2>1. pc[r] # "done"
      BY <1>7 DEF Submit, Handle, CreateStep, WalletStep, FirstLookup, SecondLookup,
                  LockSource, ApplySource, LockDest, ApplyDest, Insert, Commit, ReadWallet,
                  StoreBalance, SoftDeleteWallet, SoftDeleteRow
    <2>2. QED
      BY <1>1, <1>2, <1>3, <1>7, <2>1 DEF Handle, CreateStep, WalletStep
  <1>8. QED
    BY <1>4, <1>5, <1>6, <1>7 DEF Next, AllAnswered

(* No lost update: however many requests move money at the same time, fail  *)
(* between two statements, deadlock or lose the answer of their COMMIT, the *)
(* balance of a wallet that nobody overwrote is its opening balance and     *)
(* what every recorded row was to add, once each, give or take half a unit  *)
(* for each row that was to add a fraction of one.                          *)
THEOREM BalancesAreExplained == Spec => []BalancesExplained
  <1>1. Init => BalanceInv
    <2> SUFFICES ASSUME Init
                 PROVE  BalanceInv
      OBVIOUS
    <2>1. rows = {} /\ balance = Opening
      BY DEF Init
    <2>2. \A w \in Wallets : /\ SumFunctionOnSet(Effects(w), rows) = 0
                           /\ SumFunctionOnSet(Blurring(w), rows) = 0
      BY <2>1, SumEmpty
    <2>3. \A w \in Wallets : Grain * (balance[w] - Opening[w]) - 0 = 0 /\ Grain * 0 = 0
      BY <2>1
    <2>4. Explained
      BY <2>2, <2>3 DEF Explained, Within
    <2>5. QED
      BY <2>1, <2>4, FS_EmptySet DEF BalanceInv, RowsNamed
  <1>2. Spec => []BalanceInv
    BY <1>1, StepExplained, InvariantHolds, PTL DEF Spec
  <1>3. BalanceInv => BalancesExplained
    BY ExplainedIs DEF BalanceInv
  <1>4. QED
    BY <1>2, <1>3, PTL

-----------------------------------------------------------------------------
(* What the answers say.  A request has an answer only when it is done, and *)
(* until it is done there is no row of it.                                  *)

TruthInv ==
  /\ AnswersAreTruthful
  /\ \A r \in Requests : result[r] # "none" => pc[r] = "done"

(* What may stand for a row of request r's own or of its sync id.           *)
Stands(x, r) ==
  x.user = req[r].user /\ (x.id = r \/ (req[r].sync # None /\ x.sync = req[r].sync))

(* A request is answered, or goes on without an answer; rows keep their id, *)
(* user and sync id.                                                        *)
LEMMA TruthKept ==
  ASSUME IInv, TruthInv, NEW r \in Requests, OthersKept(r), pc[r] # "done",
         \A o \in Requests \ {r} : result'[o] = result[o],
         result'[r] # "none" => pc'[r] = "done",
         result'[r] \in {"created", "existed"} => \E x \in rows' : Stands(x, r)',
         result'[r] \in {"rejected", "existed"} => \A x \in rows' : x.id # r,
         \A x \in rows : \E y \in rows' : y.id = x.id /\ y.user = x.user /\ y.sync = x.sync,
         \A y \in rows' : y.id = r \/ \E x \in rows : x.id = y.id
  PROVE  TruthInv'
  <1>1. ASSUME NEW o \in Requests \ {r}
        PROVE  /\ result'[o] \in {"created", "existed"} => \E x \in rows' : Stands(x, o)'
               /\ result'[o] \in {"rejected", "existed"} => \A x \in rows' : x.id # o
    <2>1. /\ result[o] \in {"created", "existed"} => \E x \in rows : Stands(x, o)
          /\ result[o] \in {"rejected", "existed"} => \A x \in rows : x.id # o
      BY DEF TruthInv, AnswersAreTruthful, Stands
    <2>2. result'[o] = result[o] /\ req'[o] = req[o]
      BY DEF OthersKept
    <2>3. ASSUME NEW x \in rows, Stands(x, o)
          PROVE  \E y \in rows' : Stands(y, o)'
      <3>1. PICK y \in rows' : y.id = x.id /\ y.user = x.user /\ y.sync = x.sync
        OBVIOUS
      <3>2. Stands(y, o)'
        BY <2>2, <2>3, <3>1 DEF Stands
      <3>3. QED
        BY <3>2
    <2>4. QED
      BY <2>1, <2>2, <2>3
  <1>2. AnswersAreTruthful'
    BY <1>1 DEF AnswersAreTruthful, Stands
  <1>3. \A o \in Requests : result'[o] # "none" => pc'[o] = "done"
    BY DEF TruthInv, OthersKept
  <1>4. QED
    BY <1>2, <1>3 DEF TruthInv

(* A step that leaves the rows alone. *)
LEMMA TruthQuiet ==
  ASSUME IInv, TruthInv, NEW r \in Requests, OthersKept(r), pc[r] # "done", UNCHANGED rows,
         \A o \in Requests \ {r} : result'[o] = result[o],
         result'[r] # "none" => pc'[r] = "done",
         result'[r] \in {"created", "existed"} => \E x \in rows : Stands(x, r)'
  PROVE  TruthInv'
  <1>1. \A x \in rows : x.id # r
    BY DEF IInv, Core, RowsBelongToAnswered
  <1>2. QED
    BY <1>1, TruthKept

LEMMA AbortTruth ==
  ASSUME IInv, TruthInv, NEW r \in Requests, Abort(r), pc[r] # "done"
  PROVE  TruthInv'
  <1>1. /\ OthersKept(r) /\ UNCHANGED rows /\ result'[r] = "failed" /\ pc'[r] = "done"
        /\ \A o \in Requests \ {r} : result'[o] = result[o]
    BY DEF Abort, Answer, dbVars, OthersKept, IInv, TypeInv, TypeOK
  <1>2. QED
    BY <1>1, TruthQuiet

(* A create that finds its sync id recorded answers with that row, or as    *)
(* refused.                                                                 *)
LEMMA ReplayTruth ==
  ASSUME IInv, TruthInv, NEW r \in Requests, FirstLookup(r) \/ SecondLookup(r)
  PROVE  TruthInv'
  <1>1. /\ OthersKept(r) /\ UNCHANGED <<rows, req>> /\ pc[r] # "done"
        /\ \A o \in Requests \ {r} : result'[o] = result[o]
    BY DEF FirstLookup, SecondLookup, Replay, Goto, Answer, dbVars, OthersKept, IInv,
           TypeInv, TypeOK
  <1>2. \/ result'[r] = result[r]
        \/ result'[r] = "rejected" /\ pc'[r] = "done"
        \/ /\ result'[r] \in {"created", "existed"} /\ pc'[r] = "done"
           /\ \E x \in Recorded(req[r].sync) : x.user = req[r].user
    BY DEF FirstLookup, SecondLookup, Replay, Goto, Answer, IInv, TypeInv, TypeOK
  <1>3. result[r] = "none"
    BY <1>1 DEF TruthInv
  <1>4. \A x \in Recorded(req[r].sync) : x.user = req[r].user => x \in rows /\ Stands(x, r)'
    BY <1>1 DEF Recorded, Stands
  <1>5. QED
    BY <1>1, <1>2, <1>3, <1>4, TruthQuiet

LEMMA CommitTruth ==
  ASSUME IInv, TruthInv, NEW r \in Requests, Commit(r)
  PROVE  TruthInv'
  <1>1. /\ OthersKept(r) /\ UNCHANGED req /\ pc[r] = "commit" /\ pc'[r] = "done"
        /\ rows' = rows \cup {RowOf(r)} /\ result'[r] \in {"created", "failed"}
        /\ \A o \in Requests \ {r} : result'[o] = result[o]
    BY DEF Commit, Answer, OthersKept, IInv, TypeInv, TypeOK
  <1>2. RowOf(r).id = r /\ RowOf(r).user = req[r].user
    BY DEF RowOf
  <1>3. \E y \in rows' : Stands(y, r)'
    BY <1>1, <1>2 DEF Stands
  <1>4. \A y \in rows' : y.id = r \/ \E x \in rows : x.id = y.id
    BY <1>1, <1>2
  <1>5. QED
    BY <1>1, <1>3, <1>4, TruthKept

(* A deleted row still stands for its request.                              *)
LEMMA StrikeTruth ==
  ASSUME IInv, TruthInv, NEW r \in Requests, SoftDeleteRow(r)
  PROVE  TruthInv'
  <1>1. /\ OthersKept(r) /\ pc[r] = "received" /\ pc'[r] = "done"
        /\ result'[r] \in {"rejected", "ok", "failed"}
        /\ \A o \in Requests \ {r} : result'[o] = result[o]
    BY DEF SoftDeleteRow, AcknowledgedOrLost, Answer, OthersKept, IInv, TypeInv, TypeOK
  <1>2. /\ \A x \in rows :
             \E y \in rows' : y.id = x.id /\ y.user = x.user /\ y.sync = x.sync
        /\ \A y \in rows' : \E x \in rows : x.id = y.id
    <2>1. CASE rows' = rows
      BY <2>1
    <2>2. CASE rows' # rows
      <3>1. PICK x \in rows : rows' = (rows \ {x}) \cup {[x EXCEPT !.deleted = TRUE]}
        BY <2>2 DEF SoftDeleteRow, Struck
      <3>2. /\ [x EXCEPT !.deleted = TRUE].id = x.id
            /\ [x EXCEPT !.deleted = TRUE].user = x.user
            /\ [x EXCEPT !.deleted = TRUE].sync = x.sync
        BY DEF IInv, TypeInv, TypeOK, Abstract!Row
      <3>3. QED
        BY <3>1, <3>2
    <2>3. QED
      BY <2>1, <2>2
  <1>3. \A x \in rows' : x.id # r
    BY <1>1, <1>2 DEF IInv, Core, RowsBelongToAnswered
  <1>4. QED
    BY <1>1, <1>2, <1>3, TruthKept

LEMMA StepTruth == IInv /\ TruthInv /\ [Next]_vars => TruthInv'
  <1> SUFFICES ASSUME IInv, TruthInv, [Next]_vars
               PROVE  TruthInv'
    OBVIOUS
  <1>1. ASSUME NEW r \in Requests,
               Submit(r) \/ ReadWallet(r) \/ StoreBalance(r) \/ SoftDeleteWallet(r)
                 \/ ApplySource(r) \/ ApplyDest(r)
                 \/ ((LockSource(r) \/ LockDest(r) \/ Insert(r)) /\ ~Abort(r))
        PROVE  TruthInv'
    <2>1. UNCHANGED rows /\ pc[r] # "done"
      BY <1>1 DEF Submit, ReadWallet, StoreBalance, SoftDeleteWallet, ApplySource,
                  ApplyDest, Apply, LockSource, LockDest, LockWallet, Insert, dbVars
    <2>2. OthersKept(r) /\ \A o \in Requests \ {r} : result'[o] = result[o]
      BY <1>1 DEF Submit, ReadWallet, StoreBalance, SoftDeleteWallet, ApplySource,
                  ApplyDest, Apply, LockSource, LockDest, LockWallet, Insert, Goto, Answer,
                  AcknowledgedOrLost, OthersKept, IInv, TypeInv, TypeOK
    <2>3. \/ result'[r] = result[r]
          \/ result'[r] \in {"rejected", "ok", "failed"} /\ pc'[r] = "done"
      BY <1>1 DEF Submit, ReadWallet, StoreBalance, SoftDeleteWallet, ApplySource,
                  ApplyDest, Apply, LockSource, LockDest, LockWallet, Insert, Goto, Answer,
                  AcknowledgedOrLost, IInv, TypeInv, TypeOK
    <2>4. result[r] = "none"
      BY <2>1 DEF TruthInv
    <2>5. QED
      BY <2>1, <2>2, <2>3, <2>4, TruthQuiet
  <1>2. ASSUME NEW r \in Requests, Handle(r)
        PROVE  TruthInv'
    <2>1. CASE Abort(r) /\ (LockSource(r) \/ LockDest(r) \/ Insert(r))
      BY <2>1, AbortTruth DEF LockSource, LockDest, Insert
    <2>2. QED
      BY <1>1, <1>2, <2>1, ReplayTruth, CommitTruth, StrikeTruth
         DEF Handle, CreateStep, WalletStep
  <1>3. ASSUME NEW r \in Requests, Fail(r)
        PROVE  TruthInv'
    BY <1>3, AbortTruth DEF Fail
  <1>4. CASE BreakDeadlock
    <2>1. PICK r \in Requests : Deadlocked(r) /\ Abort(r)
      BY <1>4 DEF BreakDeadlock
    <2>2. QED
      BY <2>1, AbortTruth DEF Deadlocked, WaitsFor
  <1>5. CASE UNCHANGED vars
    BY <1>5 DEF vars, TruthInv, AnswersAreTruthful
  <1>6. QED
    BY <1>1, <1>2, <1>3, <1>4, <1>5 DEF Next, AllAnswered

(* A client can believe its answer: a create answered as created or as      *)
(* existing has its row, or that of its sync id, in the table, and one that *)
(* was rejected or shown another's row has recorded none.                   *)
THEOREM AnswersHold == Spec => []AnswersAreTruthful
  <1>1. Init => TruthInv
    BY DEF Init, TruthInv, AnswersAreTruthful
  <1>2. Spec => []TruthInv
    BY <1>1, StepTruth, InvariantHolds, PTL DEF Spec
  <1>3. TruthInv => AnswersAreTruthful
    BY DEF TruthInv
  <1>4. QED
    BY <1>2, <1>3, PTL
=============================================================================

---------------------------- MODULE DeviceProofs -----------------------------
(***************************************************************************)
(* Proofs about the PIN lock, the device's ledger and goals, the exchange  *)
(* rates, the rate limiter and the paged lists, as they run in Components: *)
(* an invariant of a component is kept by the steps of that component, and *)
(* by the others' because they leave its variables.                        *)
(***************************************************************************)
EXTENDS Components, SumLemmas

LEMMA PinSteps == [Next]_vars => Pin!Next \/ UNCHANGED pinVars
  BY DEF Next, vars, StepBudgets, StepRates, StepPages, StepPush, StepLimiter,
         StepLedger, StepGoals, StepPin, Others

LEMMA LedgerSteps == [Next]_vars => Ledger!Next \/ UNCHANGED ledgerVars
  BY DEF Next, vars, StepBudgets, StepRates, StepPages, StepPush, StepLimiter,
         StepLedger, StepGoals, StepPin, Others

LEMMA GoalSteps == [Next]_vars => Savings!Next \/ UNCHANGED goalVars
  BY DEF Next, vars, StepBudgets, StepRates, StepPages, StepPush, StepLimiter,
         StepLedger, StepGoals, StepPin, Others

LEMMA RateSteps == [Next]_vars => ExRates!Next \/ UNCHANGED rateVars
  BY DEF Next, vars, StepBudgets, StepRates, StepPages, StepPush, StepLimiter,
         StepLedger, StepGoals, StepPin, Others

-----------------------------------------------------------------------------
(* The PIN lock.  Unless something went wrong, a key holds what it is to    *)
(* hold, or what it held before, and then its write is still to land.       *)

PinTypes ==
  /\ stored = [k \in Pin!Keys |-> stored[k]]
  /\ \A x \in writes : x.key \in Pin!Keys /\ x = [key |-> x.key, value |-> x.value]
  /\ screen \in [at : {"home", "saving", "clearing", "left"}, pin : Pins \cup {0},
                 failed : BOOLEAN]
  /\ lock \in [enabled : BOOLEAN, unlocked : BOOLEAN] \cup {None}
  /\ latest \in Pins \cup {0, None}

(* What a key holds once a PIN is set, and once there is none. *)
KeyOf(k, pin) == IF pin # None /\ k = "enabled" THEN TRUE ELSE pin

Aim == IF screen.at \in {"saving", "left"} THEN screen.pin
       ELSE IF screen.at = "clearing" THEN None ELSE latest

Heading ==
  /\ ~screen.failed
  /\ screen.at \in {"saving", "left"} => screen.pin \in Pins
  /\ screen.at = "home" => writes = {}
  /\ screen.at # "home" => lock # None
  /\ lock # None /\ lock.enabled => latest # None
  /\ \A x \in writes : x.value = KeyOf(x.key, Aim)
  /\ \A k \in Pin!Keys :
       \/ stored[k] = KeyOf(k, Aim) /\ \A x \in writes : x.key # k
       \/ stored[k] = KeyOf(k, latest) /\ \E x \in writes : x.key = k

PinInv == PinTypes /\ spoiled \in BOOLEAN /\ (~spoiled => Heading)

LEMMA PinStarts == Init => PinInv
  <1> SUFFICES ASSUME Init
               PROVE  PinInv
    OBVIOUS
  <1>1. /\ stored = [k \in Pin!Keys |-> None] /\ writes = {} /\ lock = None
        /\ screen = [at |-> "home", pin |-> 0, failed |-> FALSE]
        /\ latest = None /\ spoiled = FALSE
    BY DEF Init, Pin!Init
  <1>2. Aim = None /\ \A k : KeyOf(k, None) = None
    BY <1>1 DEF Aim, KeyOf
  <1>3. PinTypes
    BY <1>1 DEF PinTypes
  <1>4. QED
    BY <1>1, <1>2, <1>3 DEF PinInv, Heading

LEMMA PinStays == PinInv /\ [Next]_vars => PinInv'
  <1> SUFFICES ASSUME PinInv, [Next]_vars
               PROVE  PinInv'
    OBVIOUS
  <1> USE PinAssumption DEF PinInv, PinTypes
  <1>1. ASSUME NEW k \in Pin!Keys, Pin!Land(k)
        PROVE  PinInv'
    <2>1. PICK x \in writes : /\ x.key = k
                              /\ stored' = [stored EXCEPT ![k] = x.value]
                              /\ writes' = writes \ {x}
      BY <1>1 DEF Pin!Land
    <2>2. UNCHANGED <<screen, lock, latest, spoiled>>
      BY <1>1 DEF Pin!Land
    <2>3. /\ stored' = [j \in Pin!Keys |-> stored'[j]] /\ stored'[k] = x.value
          /\ \A j \in Pin!Keys : j # k => stored'[j] = stored[j]
      BY <2>1
    <2>4. ~spoiled => Heading'
      <3> SUFFICES ASSUME ~spoiled, Heading
                   PROVE  Heading'
        OBVIOUS
      <3>1. Aim' = Aim
        BY <2>2 DEF Aim
      <3>2. x.value = KeyOf(k, Aim)
        BY <2>1 DEF Heading
      <3>3. \A y \in writes : y.key = k => y = x
        BY <2>1 DEF Heading
      <3>4. \A j \in Pin!Keys :
              \/ stored'[j] = KeyOf(j, Aim) /\ \A y \in writes' : y.key # j
              \/ stored'[j] = KeyOf(j, latest) /\ \E y \in writes' : y.key = j
        <4>1. CASE Heading
          <5> TAKE j \in Pin!Keys
          <5>1. CASE j = k
            BY <2>1, <2>3, <3>2, <3>3, <5>1
          <5>2. CASE j # k
            BY <2>1, <2>3, <5>2 DEF Heading
          <5>3. QED
            BY <5>1, <5>2
        <4>2. QED
          BY <4>1
      <3>5. QED
        BY <2>1, <2>2, <3>1, <3>4 DEF Heading, KeyOf
    <2>5. QED
      <3>1. PinTypes'
        BY <2>1, <2>2, <2>3
      <3>2. QED
        BY <3>1, <2>2, <2>4
  <1>2. ASSUME NEW k \in Pin!Keys, Pin!WriteFails(k)
        PROVE  PinInv'
    BY <1>2 DEF Pin!WriteFails
  <1>3. ASSUME NEW pin \in Pins, Pin!SetPin(pin)
        PROVE  PinInv'
    <2> DEFINE new(k) == [key |-> k, value |-> KeyOf(k, pin)]
    <2>1. /\ screen' = [at |-> "saving", pin |-> pin, failed |-> FALSE]
          /\ UNCHANGED <<stored, lock, latest, spoiled>>
          /\ lock # None
      BY <1>3 DEF Pin!SetPin, Pin!Free
    <2>2. pin # None
      OBVIOUS
    <2>3. writes' = {new(k) : k \in Pin!Keys}
      <3>1. /\ new("hash") = [key |-> "hash", value |-> pin]
            /\ new("salt") = [key |-> "salt", value |-> pin]
            /\ new("enabled") = [key |-> "enabled", value |-> TRUE]
        BY <2>2 DEF KeyOf
      <3>2. {new(k) : k \in Pin!Keys} = {new("hash"), new("salt"), new("enabled")}
        BY DEF Pin!Keys
      <3>3. QED
        BY <1>3, <3>1, <3>2 DEF Pin!SetPin
    <2>4. Aim' = pin
      BY <2>1 DEF Aim
    <2>5. PinTypes'
      BY <2>1, <2>3
    <2>6. ~spoiled => Heading'
      <3> SUFFICES ASSUME ~spoiled, Heading
                   PROVE  Heading'
        OBVIOUS
      <3>1. \A k \in Pin!Keys : stored[k] = KeyOf(k, latest)
        BY <1>3 DEF Heading, Pin!SetPin, Pin!Free, Aim
      <3>2. ASSUME NEW k \in Pin!Keys
            PROVE  \E x \in writes' : x.key = k
        <4>1. new(k) \in writes'
          BY ONLY <2>3, k \in Pin!Keys
        <4>2. new(k).key = k
          BY ONLY TRUE
        <4>3. QED
          BY ONLY <4>1, <4>2
      <3>3. \A x \in writes' : x.value = KeyOf(x.key, Aim')
        BY ONLY <2>3, <2>4
      <3>4. \A k \in Pin!Keys :
              stored'[k] = KeyOf(k, latest') /\ \E x \in writes' : x.key = k
        BY ONLY <2>1, <3>1, <3>2
      <3>5. ~screen'.failed /\ screen'.at = "saving" /\ screen'.pin \in Pins
        BY ONLY <2>1, pin \in Pins
      <3>6. lock' # None /\ (lock'.enabled => latest' # None)
        BY ONLY <2>1, Heading DEF Heading
      <3>7. QED
        BY ONLY <3>3, <3>4, <3>5, <3>6 DEF Heading
    <2>7. QED
      BY <2>1, <2>5, <2>6
  <1>4. ASSUME NEW pin \in Pins, Pin!DisablePin(pin)
        PROVE  PinInv'
    <2>1. /\ screen' = [at |-> "clearing", pin |-> screen.pin, failed |-> FALSE]
          /\ UNCHANGED <<stored, lock, latest, spoiled>>
          /\ lock # None
          /\ writes' = {[key |-> k, value |-> None] : k \in Pin!Keys}
      BY <1>4 DEF Pin!DisablePin, Pin!Free
    <2>2. Aim' = None /\ \A k : KeyOf(k, None) = None
      BY <2>1 DEF Aim, KeyOf
    <2>3. PinTypes'
      BY <2>1
    <2>4. ~spoiled => Heading'
      <3> SUFFICES ASSUME ~spoiled, Heading
                   PROVE  Heading'
        OBVIOUS
      <3>1. \A k \in Pin!Keys : stored[k] = KeyOf(k, latest)
        BY <1>4 DEF Heading, Pin!DisablePin, Pin!Free, Aim
      <3>2. ASSUME NEW k \in Pin!Keys
            PROVE  \E x \in writes' : x.key = k
        <4>1. [key |-> k, value |-> None] \in writes'
          BY ONLY <2>1, k \in Pin!Keys
        <4>2. [key |-> k, value |-> None].key = k
          BY ONLY TRUE
        <4>3. QED
          BY ONLY <4>1, <4>2
      <3>3. \A x \in writes' : x.value = KeyOf(x.key, Aim')
        BY ONLY <2>1, <2>2
      <3>4. \A k \in Pin!Keys :
              stored'[k] = KeyOf(k, latest') /\ \E x \in writes' : x.key = k
        BY ONLY <2>1, <3>1, <3>2
      <3>5. ~screen'.failed /\ screen'.at = "clearing"
        BY ONLY <2>1, pin \in Pins
      <3>6. lock' # None /\ (lock'.enabled => latest' # None)
        BY ONLY <2>1, Heading DEF Heading
      <3>7. QED
        BY ONLY <3>3, <3>4, <3>5, <3>6 DEF Heading
    <2>5. QED
      BY <2>1, <2>3, <2>4
  <1>5. ASSUME NEW pin \in Pins, Pin!Unlock(pin)
        PROVE  PinInv'
    BY <1>5 DEF Pin!Unlock, Pin!NeedsUnlock, Heading, Aim, KeyOf
  <1>6. CASE Pin!PinSaved
    <2>1. /\ screen.at = "saving" /\ writes = {}
          /\ screen' = [at |-> "home", pin |-> screen.pin, failed |-> screen.failed]
          /\ UNCHANGED <<stored, writes, spoiled>>
          /\ IF screen.failed THEN UNCHANGED <<lock, latest>>
             ELSE lock' = [enabled |-> TRUE, unlocked |-> TRUE] /\ latest' = screen.pin
      BY <1>6 DEF Pin!PinSaved
    <2>2. CASE spoiled
      <3>1. CASE screen.failed
        BY <2>1, <2>2, <3>1
      <3>2. CASE ~screen.failed
        <4>1. lock' = [enabled |-> TRUE, unlocked |-> TRUE]
          BY <2>1, <3>2
        <4>2. latest' \in Pins \cup {0, None}
          BY <2>1, <3>2
        <4>3. QED
          BY <2>1, <2>2, <4>1, <4>2
      <3>3. QED
        BY <3>1, <3>2
    <2>3. CASE ~spoiled
      <3>1. ~screen.failed /\ screen.pin \in Pins /\ Aim = screen.pin
        BY <2>1, <2>3 DEF Heading, Aim
      <3>2. /\ lock' = [enabled |-> TRUE, unlocked |-> TRUE] /\ latest' = screen.pin
            /\ latest' # None
        BY <2>1, <3>1
      <3>3. Aim' = Aim
        BY <2>1, <3>1, <3>2 DEF Aim
      <3>4. lock' \in [enabled : BOOLEAN, unlocked : BOOLEAN] /\ lock'.enabled
        BY <3>2
      <3>5. lock' # None /\ lock'.enabled => latest' # None
        BY <3>2
      <3>6. Heading'
        BY <2>1, <2>3, <3>1, <3>3, <3>5 DEF Heading
      <3>7. QED
        BY <2>1, <3>1, <3>2, <3>4, <3>6
    <2>4. QED
      BY <2>2, <2>3
  <1>7. CASE Pin!PinCleared
    <2>1. /\ screen.at = "clearing" /\ writes = {}
          /\ screen' = [at |-> "home", pin |-> screen.pin, failed |-> screen.failed]
          /\ UNCHANGED <<stored, writes, spoiled>>
          /\ IF screen.failed THEN UNCHANGED <<lock, latest>>
             ELSE lock' = [enabled |-> FALSE, unlocked |-> TRUE] /\ latest' = None
      BY <1>7 DEF Pin!PinCleared
    <2>2. lock' \in [enabled : BOOLEAN, unlocked : BOOLEAN] \cup {None}
      <3>1. CASE screen.failed
        BY <2>1, <3>1
      <3>2. CASE ~screen.failed
        <4>1. lock' = [enabled |-> FALSE, unlocked |-> TRUE]
          BY <2>1, <3>2
        <4>2. QED
          BY <4>1
      <3>3. QED
        BY <3>1, <3>2
    <2>3. ~spoiled => Heading'
      <3> SUFFICES ASSUME ~spoiled
                   PROVE  Heading'
        OBVIOUS
      <3>1. ~screen.failed /\ Aim = None
        BY <2>1 DEF Heading, Aim
      <3>2. lock' = [enabled |-> FALSE, unlocked |-> TRUE] /\ latest' = None
        BY <2>1, <3>1
      <3>3. Aim' = Aim
        BY <2>1, <3>1, <3>2 DEF Aim
      <3>4. ~lock'.enabled
        BY <3>2
      <3>5. QED
        BY <2>1, <3>1, <3>2, <3>3, <3>4 DEF Heading
    <2>4. QED
      BY <2>1, <2>2, <2>3
  <1>8. CASE Pin!LeaveScreen
    <2>1. /\ screen' = [at |-> "left", pin |-> screen.pin, failed |-> screen.failed]
          /\ UNCHANGED <<stored, writes, lock, latest>>
          /\ spoiled' = (spoiled \/ screen.at = "clearing")
          /\ screen.at \in {"saving", "clearing"}
      BY <1>8 DEF Pin!LeaveScreen
    <2>2. ~spoiled' => Heading'
      <3> SUFFICES ASSUME ~spoiled, Heading, screen.at = "saving"
                   PROVE  Heading'
        BY <2>1
      <3>1. Aim' = Aim
        BY <2>1 DEF Aim
      <3>2. QED
        BY <2>1, <3>1 DEF Heading, KeyOf
    <2>3. QED
      BY <2>1, <2>2
  <1>9. CASE Pin!WritesEnd
    <2>1. /\ screen.at = "left" /\ writes = {}
          /\ screen' = [at |-> "home", pin |-> screen.pin, failed |-> screen.failed]
          /\ latest' = IF screen.failed THEN latest ELSE screen.pin
          /\ UNCHANGED <<stored, writes, lock, spoiled>>
      BY <1>9 DEF Pin!WritesEnd
    <2>2. ~spoiled => Heading'
      <3> SUFFICES ASSUME ~spoiled, Heading
                   PROVE  Heading'
        OBVIOUS
      <3>1. latest' = screen.pin /\ latest' # None
        BY <2>1 DEF Heading
      <3>2. Aim' = Aim
        BY <2>1, <3>1 DEF Aim
      <3>3. QED
        BY <2>1, <3>1, <3>2 DEF Heading, KeyOf
    <2>3. QED
      BY <2>1, <2>2
  <1>10. CASE Pin!LockIfEnabled
    <2>1. /\ lock # None /\ lock.enabled
          /\ lock' = [enabled |-> lock.enabled, unlocked |-> FALSE]
          /\ UNCHANGED <<stored, writes, screen, latest, spoiled>>
      BY <1>10 DEF Pin!LockIfEnabled
    <2>2. /\ lock' \in [enabled : BOOLEAN, unlocked : BOOLEAN] /\ lock'.enabled
          /\ lock' # None
      <3>1. lock' \in [enabled : BOOLEAN, unlocked : BOOLEAN]
        BY <2>1
      <3>2. lock'.enabled
        BY <2>1
      <3>3. QED
        BY <3>1, <3>2
    <2>3. Aim' = Aim
      BY <2>1 DEF Aim
    <2>4. ~spoiled => Heading'
      <3> SUFFICES ASSUME ~spoiled
                   PROVE  Heading'
        OBVIOUS
      <3>1. latest' # None
        BY <2>1 DEF Heading
      <3>2. lock' # None /\ lock'.enabled => latest' # None
        BY <3>1
      <3>3. \A k \in Pin!Keys :
              \/ stored'[k] = KeyOf(k, Aim') /\ \A x \in writes' : x.key # k
              \/ stored'[k] = KeyOf(k, latest') /\ \E x \in writes' : x.key = k
        BY <2>1, <2>3 DEF Heading
      <3>4. \A x \in writes' : x.value = KeyOf(x.key, Aim')
        BY <2>1, <2>3 DEF Heading
      <3>5. QED
        BY <2>1, <2>2, <3>2, <3>3, <3>4 DEF Heading, KeyOf
    <2>5. QED
      BY <2>1, <2>2, <2>4
  <1>11. CASE Pin!Kill
    <2>1. /\ screen' = [at |-> "home", pin |-> screen.pin, failed |-> screen.failed]
          /\ lock' = None /\ writes' = {} /\ stored' = stored
          /\ latest' = IF screen.at = "home" \/ writes # {} THEN latest
                       ELSE IF screen.at = "clearing" THEN None ELSE screen.pin
          /\ spoiled' = (spoiled \/ (writes # {} /\ ~Pin!Untouched))
      BY <1>11 DEF Pin!Kill
    <2>2. Aim' = latest'
      BY <2>1 DEF Aim
    <2>3. ~spoiled' => Heading'
      <3> SUFFICES ASSUME ~spoiled, Heading, writes = {} \/ Pin!Untouched
                   PROVE  Heading'
        BY <2>1
      <3>1. CASE screen.at = "home" \/ writes # {}
        <4>1. latest' = latest
          BY <2>1, <3>1
        <4>2. \A k \in Pin!Keys : stored[k] = KeyOf(k, latest)
          BY <3>1 DEF Heading, Aim, Pin!Untouched
        <4>3. QED
          BY <2>1, <2>2, <4>1, <4>2 DEF Heading, KeyOf
      <3>2. CASE screen.at # "home" /\ writes = {}
        <4>1. latest' = Aim
          BY <2>1, <3>2 DEF Aim
        <4>2. \A k \in Pin!Keys : stored[k] = KeyOf(k, Aim)
          BY <3>2 DEF Heading
        <4>3. QED
          BY <2>1, <2>2, <4>1, <4>2 DEF Heading, KeyOf
      <3>3. QED
        BY <3>1, <3>2
    <2>4. QED
      BY <2>1, <2>3
  <1>12. CASE Pin!Build
    BY <1>12 DEF Pin!Build, Heading, Aim, KeyOf, Pin!Keys
  <1>13. CASE UNCHANGED pinVars
    BY <1>13 DEF pinVars, Heading, Aim, KeyOf
  <1>14. QED
    BY PinSteps, <1>1, <1>2, <1>3, <1>4, <1>5, <1>6, <1>7, <1>8, <1>9, <1>10, <1>11,
       <1>12, <1>13 DEF Pin!Next

(* A lock that asks for a PIN opens with the PIN set last, a changed one    *)
(* too, in whatever order the writes of its keys landed, and wherever the   *)
(* lock closed, the screen was left or the app was killed; but for a write  *)
(* that failed or was lost beside others that landed, and a clearing left.  *)
THEOREM PinOpensIt == Spec => []PinOpens
  <1>1. PinInv => PinOpens
    BY PinAssumption
       DEF PinInv, PinTypes, Heading, Aim, KeyOf, PinOpens, Pin!PinOpens,
           Pin!NeedsUnlock, Pin!Matches, Pin!Keys
  <1>2. QED
    BY <1>1, PinStarts, PinStays, PTL DEF Spec

-----------------------------------------------------------------------------
(* The local ledger.                                                        *)

Stages == {"idle", "wallet", "balance", "row", "budgets", "spent", "publish", "budget", "done"}

Kinds == {"none", "log", "delete", "restore", "budget"}

Call == [pc : Stages, does : Kinds,
         entry : Entries \cup {None}, budget : Envelopes \cup {None}, read : Int]

Said == [kind : {"income", "expense", "transfer"}, amount : Nat]

Budget == [amount : Int, spent : Int]

LedgerTypes ==
  /\ use \in [Uses -> Call]
  /\ funds \in Int /\ cut \in Int /\ inTurn \in BOOLEAN
  /\ books \in [Entries -> {"none", "live", "deleted"}]
  /\ entry \in [Entries -> Said \cup {None}]
  /\ envelope \in [Envelopes -> Budget \cup {None}]
  /\ announced \subseteq Envelopes \X {80, 100}

(* What a call works on is there. *)
WorksOn(o) ==
  /\ use[o].does = "log" => use[o].entry \in Entries /\ entry[use[o].entry] # None
  /\ use[o].pc \in {"wallet", "balance", "row"} =>
       /\ use[o].does \in {"log", "delete", "restore"}
       /\ use[o].entry \in Entries
       /\ books[use[o].entry] = "none" <=> use[o].does = "log"
  /\ use[o].pc \in {"budgets", "spent", "publish"} =>
       /\ use[o].does = "log"
       /\ books[use[o].entry] # "none"
       /\ entry[use[o].entry].kind = "expense"
  /\ use[o].pc \in {"spent", "publish"} =>
       use[o].budget \in Envelopes /\ envelope[use[o].budget] # None
  /\ use[o].pc = "publish" => use[o].read \in {80, 100}

LedgerCore ==
  /\ LedgerTypes
  /\ \A o \in Uses : WorksOn(o)
  /\ \A o, p \in Uses :
       use[o].does = "log" /\ use[p].does = "log" /\ o # p => use[o].entry # use[p].entry
  /\ \A e \in Entries : books[e] # "none" => entry[e] # None

CallIs(x, a, b, c, d, n) ==
  x.pc = a /\ x.does = b /\ x.entry = c /\ x.budget = d /\ x.read = n

(* What a call becomes when some of its fields are set. *)
LEMMA FieldsSet ==
  ASSUME NEW x \in Call, NEW a, NEW b, NEW c
  PROVE  /\ CallIs([x EXCEPT !.pc = a], a, x.does, x.entry, x.budget, x.read)
         /\ CallIs([x EXCEPT !.pc = a, !.does = b], a, b, x.entry, x.budget, x.read)
         /\ CallIs([x EXCEPT !.pc = a, !.read = b], a, x.does, x.entry, x.budget, b)
         /\ CallIs([x EXCEPT !.pc = a, !.budget = b, !.read = c], a, x.does, x.entry, b, c)
         /\ CallIs([x EXCEPT !.pc = a, !.does = b, !.entry = c], a, b, c, x.budget, x.read)
  <1>1. x = [pc |-> x.pc, does |-> x.does, entry |-> x.entry, budget |-> x.budget,
             read |-> x.read]
    BY DEF Call
  <1>2. QED
    BY <1>1 DEF CallIs

LEMMA FieldsFit ==
  ASSUME NEW x \in Call, NEW a \in Stages, NEW b, NEW c
  PROVE  /\ [x EXCEPT !.pc = a] \in Call
         /\ b \in Kinds => [x EXCEPT !.pc = a, !.does = b] \in Call
         /\ b \in Int => [x EXCEPT !.pc = a, !.read = b] \in Call
         /\ b \in Envelopes /\ c \in Int => [x EXCEPT !.pc = a, !.budget = b, !.read = c] \in Call
         /\ b \in Kinds /\ c \in Entries => [x EXCEPT !.pc = a, !.does = b, !.entry = c] \in Call
  <1>1. x = [pc |-> x.pc, does |-> x.does, entry |-> x.entry, budget |-> x.budget,
             read |-> x.read]
    BY DEF Call
  <1>2. QED
    BY <1>1 DEF Call

(* What a step of a call makes of it. *)
Becomes(o, a, b, c, d, n) ==
  /\ use' \in [Uses -> Call]
  /\ CallIs(use'[o], a, b, c, d, n)
  /\ \A p \in Uses : p # o => use'[p] = use[p]

LEMMA SetPc ==
  ASSUME use \in [Uses -> Call], NEW o \in Uses, NEW a \in Stages,
         use' = [use EXCEPT ![o].pc = a]
  PROVE  Becomes(o, a, use[o].does, use[o].entry, use[o].budget, use[o].read)
  BY FieldsSet, FieldsFit DEF Becomes

LEMMA SetKind ==
  ASSUME use \in [Uses -> Call], NEW o \in Uses, NEW a \in Stages, NEW b \in Kinds,
         use' = [use EXCEPT ![o].pc = a, ![o].does = b]
  PROVE  Becomes(o, a, b, use[o].entry, use[o].budget, use[o].read)
  <1> DEFINE new == [use[o] EXCEPT !.pc = a, !.does = b]
  <1>1. use[o] \in Call /\ use' = [use EXCEPT ![o] = new]
    OBVIOUS
  <1>2. new \in Call
    BY <1>1, FieldsFit
  <1>3. CallIs(new, a, b, use[o].entry, use[o].budget, use[o].read)
    BY <1>1, FieldsSet
  <1>4. QED
    BY <1>1, <1>2, <1>3 DEF Becomes

LEMMA SetRead ==
  ASSUME use \in [Uses -> Call], NEW o \in Uses, NEW a \in Stages, NEW b \in Int,
         use' = [use EXCEPT ![o].pc = a, ![o].read = b]
  PROVE  Becomes(o, a, use[o].does, use[o].entry, use[o].budget, b)
  <1> DEFINE new == [use[o] EXCEPT !.pc = a, !.read = b]
  <1>1. use[o] \in Call /\ use' = [use EXCEPT ![o] = new]
    OBVIOUS
  <1>2. new \in Call
    BY <1>1, FieldsFit
  <1>3. CallIs(new, a, use[o].does, use[o].entry, use[o].budget, b)
    BY <1>1, FieldsSet
  <1>4. QED
    BY <1>1, <1>2, <1>3 DEF Becomes

LEMMA SetBudget ==
  ASSUME use \in [Uses -> Call], NEW o \in Uses, NEW a \in Stages, NEW b \in Envelopes,
         NEW c \in Int, use' = [use EXCEPT ![o].pc = a, ![o].budget = b, ![o].read = c]
  PROVE  Becomes(o, a, use[o].does, use[o].entry, b, c)
  <1> DEFINE new == [use[o] EXCEPT !.pc = a, !.budget = b, !.read = c]
  <1>1. use[o] \in Call /\ use' = [use EXCEPT ![o] = new]
    OBVIOUS
  <1>2. new \in Call
    BY <1>1, FieldsFit
  <1>3. CallIs(new, a, use[o].does, use[o].entry, b, c)
    BY <1>1, FieldsSet
  <1>4. QED
    BY <1>1, <1>2, <1>3 DEF Becomes

LEMMA SetEntry ==
  ASSUME use \in [Uses -> Call], NEW o \in Uses, NEW a \in Stages, NEW b \in Kinds,
         NEW c \in Entries, use' = [use EXCEPT ![o].pc = a, ![o].does = b, ![o].entry = c]
  PROVE  Becomes(o, a, b, c, use[o].budget, use[o].read)
  <1> DEFINE new == [use[o] EXCEPT !.pc = a, !.does = b, !.entry = c]
  <1>1. use[o] \in Call /\ use' = [use EXCEPT ![o] = new]
    OBVIOUS
  <1>2. new \in Call
    BY <1>1, FieldsFit
  <1>3. CallIs(new, a, b, c, use[o].budget, use[o].read)
    BY <1>1, FieldsSet
  <1>4. QED
    BY <1>1, <1>2, <1>3 DEF Becomes

LEMMA ChangeInt ==
  ASSUME LedgerCore, NEW o \in Uses, use[o].pc \in {"wallet", "balance", "row"}
  PROVE  Ledger!Change(o) \in Int
  <1>1. use[o].entry \in Entries /\ entry[use[o].entry] \in Said
    BY DEF LedgerCore, LedgerTypes, WorksOn
  <1>2. QED
    BY <1>1 DEF Said, Ledger!Change, Ledger!Effect

LEMMA CoreStays == LedgerCore /\ Ledger!Next => LedgerCore'
  <1> SUFFICES ASSUME LedgerCore, NEW o \in Uses, Ledger!Run(o)
               PROVE  LedgerCore'
    BY DEF Ledger!Next
  <1> DEFINE x == use[o]
  <1> USE DEF LedgerCore, LedgerTypes
  <1>1. use \in [Uses -> Call] /\ x \in Call /\ WorksOn(o)
    OBVIOUS
  <1>2. CASE Ledger!BeginLog(o)
    <2>1. PICK e \in Entries, kind \in {"income", "expense", "transfer"}, amount \in Sums :
            /\ entry[e] = None /\ amount > 0
            /\ entry' = [entry EXCEPT ![e] = [kind |-> kind, amount |-> amount]]
            /\ use' = [use EXCEPT ![o].pc = "wallet", ![o].does = "log", ![o].entry = e]
      BY <1>2 DEF Ledger!BeginLog
    <2>2. Becomes(o, "wallet", "log", e, x.budget, x.read)
      BY <2>1, SetEntry DEF Stages, Kinds
    <2>3. /\ UNCHANGED <<funds, books, envelope, announced, cut>> /\ inTurn' \in BOOLEAN
      BY <1>2 DEF Ledger!BeginLog, Ledger!Begins
    <2>4. [kind |-> kind, amount |-> amount] \in Said
      BY <2>1, LedgerAssumption DEF Said
    <2>5. LedgerTypes'
      BY <2>1, <2>2, <2>3, <2>4 DEF Becomes
    <2>6. entry'[e] # None /\ \A f \in Entries : f # e => entry'[f] = entry[f]
      BY <2>1, <2>4, LedgerAssumption DEF Said
    <2>7. books[e] = "none"
      BY <2>1
    <2>8. \A p \in Uses : WorksOn(p)'
      BY <2>1, <2>2, <2>3, <2>6, <2>7 DEF WorksOn, Becomes, CallIs
    <2>9. \A p \in Uses : use[p].does = "log" => use[p].entry \in Entries /\ use[p].entry # e
      BY <2>1 DEF WorksOn
    <2>10. \A p, q \in Uses : use'[p].does = "log" /\ use'[q].does = "log" /\ p # q =>
             use'[p].entry # use'[q].entry
      BY <2>2, <2>9 DEF Becomes, CallIs
    <2>11. \A f \in Entries : books'[f] # "none" => entry'[f] # None
      BY <2>3, <2>6
    <2>12. QED
      BY <2>5, <2>8, <2>10, <2>11
  <1>3. CASE Ledger!FindTransaction(o)
    <2>1. PICK e \in Entries, does \in {"delete", "restore"} :
            /\ books[e] = IF does = "delete" THEN "live" ELSE "deleted"
            /\ use' = [use EXCEPT ![o].pc = "wallet", ![o].does = does, ![o].entry = e]
      BY <1>3 DEF Ledger!FindTransaction
    <2>2. Becomes(o, "wallet", does, e, x.budget, x.read)
      BY <2>1, SetEntry DEF Stages, Kinds
    <2>3. UNCHANGED <<funds, books, entry, envelope, announced, cut>> /\ inTurn' \in BOOLEAN
      BY <1>3 DEF Ledger!FindTransaction, Ledger!Begins
    <2>4. QED
      BY <2>1, <2>2, <2>3 DEF Becomes, CallIs, WorksOn
  <1>4. CASE Ledger!FindWallet(o)
    <2>1. Becomes(o, "balance", x.does, x.entry, x.budget, funds) /\ x.pc = "wallet"
      BY <1>4, SetRead DEF Stages, Ledger!FindWallet
    <2>2. UNCHANGED <<funds, books, entry, envelope, announced, cut, inTurn>>
      BY <1>4 DEF Ledger!FindWallet
    <2>3. QED
      BY <2>1, <2>2 DEF Becomes, CallIs, WorksOn
  <1>5. CASE Ledger!UpdateBalance(o)
    <2>1. Becomes(o, "row", x.does, x.entry, x.budget, x.read) /\ x.pc = "balance"
      BY <1>5, SetPc DEF Stages, Ledger!UpdateBalance
    <2>2. /\ UNCHANGED <<books, entry, envelope, announced, cut, inTurn>>
          /\ funds' = x.read + Ledger!Change(o)
      BY <1>5 DEF Ledger!UpdateBalance
    <2>3. Ledger!Change(o) \in Int
      BY <1>1, <2>1, ChangeInt
    <2>4. funds' \in Int
      BY <1>1, <2>2, <2>3 DEF Call
    <2>5. QED
      BY <2>1, <2>2, <2>4 DEF Becomes, CallIs, WorksOn
  <1>6. CASE Ledger!SaveRow(o)
    <2> DEFINE e == x.entry
               stage == IF x.does = "log" /\ entry[e].kind = "expense" THEN "budgets" ELSE "done"
    <2>1. Becomes(o, stage, x.does, e, x.budget, x.read) /\ x.pc = "row"
      BY <1>6, SetPc DEF Stages, Ledger!SaveRow
    <2>2. /\ UNCHANGED <<funds, entry, envelope, announced, cut, inTurn>>
          /\ books' = [books EXCEPT ![e] = IF x.does = "delete" THEN "deleted" ELSE "live"]
          /\ e \in Entries /\ entry[e] # None
      BY <1>6, <2>1 DEF Ledger!SaveRow, WorksOn
    <2>3. books' \in [Entries -> {"none", "live", "deleted"}] /\ books'[e] # "none"
      BY <2>2
    <2>4. \A p \in Uses : WorksOn(p)'
      BY <2>1, <2>2, <2>3 DEF Becomes, CallIs, WorksOn
    <2>5. QED
      BY <2>1, <2>2, <2>3, <2>4 DEF Becomes, CallIs
  <1>7. CASE Ledger!FindBudget(o)
    <2>1. UNCHANGED <<funds, books, entry, envelope, announced, cut, inTurn>>
          /\ x.pc = "budgets"
      BY <1>7 DEF Ledger!FindBudget
    <2>2. CASE use' = [use EXCEPT ![o].pc = "done"]
      <3>1. Becomes(o, "done", x.does, x.entry, x.budget, x.read)
        BY <2>2, SetPc DEF Stages
      <3>2. QED
        BY <2>1, <3>1 DEF Becomes, CallIs, WorksOn
    <2>3. ASSUME NEW b \in Envelopes, envelope[b] # None,
                 use' = [use EXCEPT ![o].pc = "spent", ![o].budget = b,
                                    ![o].read = envelope[b].spent]
          PROVE  LedgerCore'
      <3>1. envelope[b].spent \in Int
        BY <2>3 DEF Budget
      <3>2. Becomes(o, "spent", x.does, x.entry, b, envelope[b].spent)
        BY <2>3, <3>1, SetBudget DEF Stages
      <3>3. QED
        BY <2>1, <2>3, <3>2 DEF Becomes, CallIs, WorksOn
    <2>4. QED
      BY <1>7, <2>2, <2>3 DEF Ledger!FindBudget
  <1>8. CASE Ledger!UpdateSpentAmount(o)
    <2> DEFINE b == x.budget
               spent == x.read + entry[x.entry].amount
               crossed == Ledger!Crossed(x.read, spent, envelope[b].amount)
    <2>1. /\ x.pc = "spent" /\ UNCHANGED <<funds, books, entry, announced, cut, inTurn>>
          /\ envelope' = [envelope EXCEPT ![b].spent = spent]
          /\ use' = [use EXCEPT ![o].pc = IF crossed = 0 THEN "done" ELSE "publish",
                                ![o].read = crossed]
      BY <1>8 DEF Ledger!UpdateSpentAmount
    <2>2. crossed \in {0, 80, 100}
      BY DEF Ledger!Crossed
    <2> HIDE DEF crossed
    <2>3. Becomes(o, IF crossed = 0 THEN "done" ELSE "publish", x.does, x.entry, b, crossed)
      <3>1. (IF crossed = 0 THEN "done" ELSE "publish") \in Stages /\ crossed \in Int
        BY <2>2 DEF Stages
      <3>2. QED
        BY <2>1, <3>1, SetRead
    <2>4. /\ b \in Envelopes /\ envelope[b] \in Budget
          /\ x.entry \in Entries /\ entry[x.entry] \in Said
      BY <1>1, <2>1 DEF WorksOn
    <2>5. spent \in Int
      BY <1>1, <2>4 DEF Call, Said
    <2> HIDE DEF spent
    <2>6. [envelope[b] EXCEPT !.spent = spent] \in Budget
      BY <2>4, <2>5 DEF Budget
    <2>7. /\ envelope' \in [Envelopes -> Budget \cup {None}] /\ envelope'[b] # None
          /\ \A c \in Envelopes : c # b => envelope'[c] = envelope[c]
      BY <2>1, <2>4, <2>6, LedgerAssumption DEF Budget
    <2>8. LedgerTypes'
      BY <2>1, <2>3, <2>7 DEF Becomes
    <2>9. \A p \in Uses : use[p].does = use'[p].does /\ use[p].entry = use'[p].entry
      BY <2>3 DEF Becomes, CallIs
    <2>10. WorksOn(o)'
      BY <2>1, <2>2, <2>3, <2>7 DEF Becomes, CallIs, WorksOn
    <2>11. \A p \in Uses : p # o => WorksOn(p)'
      BY <2>1, <2>3, <2>7 DEF Becomes, WorksOn
    <2>12. QED
      BY <2>1, <2>8, <2>9, <2>10, <2>11
  <1>9. CASE Ledger!Publish(o)
    <2>1. Becomes(o, "done", x.does, x.entry, x.budget, x.read)
      BY <1>9, SetPc DEF Stages, Ledger!Publish
    <2>2. /\ UNCHANGED <<funds, books, entry, envelope, cut, inTurn>>
          /\ x.pc = "publish"
          /\ announced' = announced \cup {<<x.budget, x.read>>}
      BY <1>9 DEF Ledger!Publish
    <2>3. <<x.budget, x.read>> \in Envelopes \X {80, 100}
      BY <1>1, <2>2 DEF WorksOn
    <2>4. QED
      BY <2>1, <2>2, <2>3 DEF Becomes, CallIs, WorksOn
  <1>10. CASE Ledger!CheckDuplicate(o)
    <2>1. Becomes(o, "budget", "budget", x.entry, x.budget, x.read)
      BY <1>10, SetKind DEF Stages, Kinds, Ledger!CheckDuplicate
    <2>2. UNCHANGED <<funds, books, entry, envelope, announced, cut>> /\ inTurn' \in BOOLEAN
      BY <1>10 DEF Ledger!CheckDuplicate, Ledger!Begins
    <2>3. QED
      BY <2>1, <2>2 DEF Becomes, CallIs, WorksOn
  <1>11. CASE Ledger!SaveBudget(o)
    <2>1. Becomes(o, "done", x.does, x.entry, x.budget, x.read)
      BY <1>11, SetPc DEF Stages, Ledger!SaveBudget
    <2>2. PICK b \in Envelopes, amount \in Limits :
            /\ envelope[b] = None
            /\ envelope' = [envelope EXCEPT ![b] = [amount |-> amount, spent |-> 0]]
      BY <1>11 DEF Ledger!SaveBudget
    <2>3. UNCHANGED <<funds, books, entry, announced, cut, inTurn>>
      BY <1>11 DEF Ledger!SaveBudget
    <2>4. [amount |-> amount, spent |-> 0] \in Budget
      BY LedgerAssumption DEF Budget
    <2>5. /\ envelope' \in [Envelopes -> Budget \cup {None}]
          /\ \A c \in Envelopes : envelope[c] # None => envelope'[c] # None
      BY <2>2, <2>4
    <2>6. QED
      BY <2>1, <2>3, <2>5 DEF Becomes, CallIs, WorksOn
  <1>12. CASE Ledger!Break(o)
    <2>1. Becomes(o, "done", x.does, x.entry, x.budget, x.read)
      BY <1>12, SetPc DEF Stages, Ledger!Break
    <2>2. /\ UNCHANGED <<funds, books, entry, envelope, announced, inTurn>>
          /\ cut' = IF x.pc = "row" THEN cut + Ledger!Change(o) ELSE cut
      BY <1>12 DEF Ledger!Break
    <2>3. cut' \in Int
      BY <2>2, ChangeInt
    <2>4. QED
      BY <2>1, <2>2, <2>3 DEF Becomes, CallIs, WorksOn
  <1>13. QED
    BY <1>2, <1>3, <1>4, <1>5, <1>6, <1>7, <1>8, <1>9, <1>10, <1>11, <1>12 DEF Ledger!Run

LEMMA LedgerStarts == Init => LedgerCore
  <1> SUFFICES ASSUME Init
               PROVE  LedgerCore
    OBVIOUS
  <1>1. Ledger!Init
    BY DEF Init
  <1>2. [pc |-> "idle", does |-> "none", entry |-> None, budget |-> None, read |-> 0] \in Call
    BY DEF Call, Stages, Kinds
  <1>3. \A o \in Uses : use[o].pc = "idle" /\ use[o].does = "none"
    BY <1>1 DEF Ledger!Init
  <1>4. LedgerTypes
    BY <1>1, <1>2 DEF Ledger!Init, LedgerTypes
  <1>5. QED
    BY <1>1, <1>3, <1>4 DEF Ledger!Init, LedgerCore, WorksOn

-----------------------------------------------------------------------------
(* Calls that come one at a time: one is under way at most, and what it     *)
(* read still stands.                                                       *)

UnderWay(o) == use[o].pc \notin Ledger!Closed

BudgetsThere == {b \in Envelopes : envelope[b] # None}

TurnFacts ==
  /\ \A o, p \in Uses : UnderWay(o) /\ UnderWay(p) => o = p
  /\ \A o \in Uses : use[o].pc = "budget" => BudgetsThere = {}
  /\ \A b, c \in BudgetsThere : b = c
  /\ \A o \in Uses : use[o].pc \in {"wallet", "balance", "row"} =>
       /\ use[o].does = "delete" => books[use[o].entry] = "live"
       /\ use[o].does = "restore" => books[use[o].entry] = "deleted"
  /\ \A o \in Uses : use[o].pc = "balance" => use[o].read = funds

TurnInv == LedgerCore /\ (inTurn => TurnFacts)

LEMMA TurnBegins ==
  ASSUME NEW o \in Uses, Ledger!Begins(o), inTurn'
  PROVE  inTurn /\ \A p \in Uses : ~UnderWay(p)
  BY DEF Ledger!Begins, UnderWay

LEMMA TurnStays == TurnInv /\ Ledger!Next => TurnInv'
  <1> SUFFICES ASSUME TurnInv, NEW o \in Uses, Ledger!Run(o), inTurn'
               PROVE  TurnFacts'
    BY CoreStays DEF TurnInv, Ledger!Next
  <1> DEFINE x == use[o]
  <1> USE DEF UnderWay, Ledger!Closed, BudgetsThere
  <1>1. LedgerCore /\ LedgerTypes /\ use \in [Uses -> Call] /\ x \in Call /\ WorksOn(o)
    BY DEF TurnInv, LedgerCore, LedgerTypes
  <1>2. CASE Ledger!BeginLog(o)
    <2>1. PICK e \in Entries :
            use' = [use EXCEPT ![o].pc = "wallet", ![o].does = "log", ![o].entry = e]
      BY <1>2 DEF Ledger!BeginLog
    <2>2. Becomes(o, "wallet", "log", e, x.budget, x.read)
      BY <1>1, <2>1, SetEntry DEF Stages, Kinds
    <2>3. UNCHANGED <<funds, books, envelope>> /\ Ledger!Begins(o)
      BY <1>2 DEF Ledger!BeginLog
    <2>4. QED
      BY <2>2, <2>3, TurnBegins DEF TurnInv, TurnFacts, Becomes, CallIs
  <1>3. CASE Ledger!FindTransaction(o)
    <2>1. PICK e \in Entries, does \in {"delete", "restore"} :
            /\ books[e] = IF does = "delete" THEN "live" ELSE "deleted"
            /\ use' = [use EXCEPT ![o].pc = "wallet", ![o].does = does, ![o].entry = e]
      BY <1>3 DEF Ledger!FindTransaction
    <2>2. Becomes(o, "wallet", does, e, x.budget, x.read)
      BY <1>1, <2>1, SetEntry DEF Stages, Kinds
    <2>3. UNCHANGED <<funds, books, envelope>> /\ Ledger!Begins(o)
      BY <1>3 DEF Ledger!FindTransaction
    <2>4. QED
      BY <2>1, <2>2, <2>3, TurnBegins DEF TurnInv, TurnFacts, Becomes, CallIs
  <1>4. CASE Ledger!FindWallet(o)
    <2>1. Becomes(o, "balance", x.does, x.entry, x.budget, funds) /\ x.pc = "wallet"
      BY <1>1, <1>4, SetRead DEF Stages, Ledger!FindWallet, LedgerTypes
    <2>2. UNCHANGED <<funds, books, envelope, inTurn>>
      BY <1>4 DEF Ledger!FindWallet
    <2>3. QED
      BY <2>1, <2>2 DEF TurnInv, TurnFacts, Becomes, CallIs
  <1>5. CASE Ledger!UpdateBalance(o)
    <2>1. Becomes(o, "row", x.does, x.entry, x.budget, x.read) /\ x.pc = "balance"
      BY <1>1, <1>5, SetPc DEF Stages, Ledger!UpdateBalance
    <2>2. UNCHANGED <<books, envelope, inTurn>>
      BY <1>5 DEF Ledger!UpdateBalance
    <2>3. QED
      BY <2>1, <2>2 DEF TurnInv, TurnFacts, Becomes, CallIs
  <1>6. CASE Ledger!SaveRow(o)
    <2> DEFINE stage == IF x.does = "log" /\ entry[x.entry].kind = "expense" THEN "budgets"
                                                                           ELSE "done"
    <2>1. Becomes(o, stage, x.does, x.entry, x.budget, x.read) /\ x.pc = "row"
      BY <1>1, <1>6, SetPc DEF Stages, Ledger!SaveRow
    <2>2. UNCHANGED <<funds, envelope, inTurn>>
      BY <1>6 DEF Ledger!SaveRow
    <2>3. QED
      BY <2>1, <2>2 DEF TurnInv, TurnFacts, Becomes, CallIs
  <1>7. CASE Ledger!FindBudget(o)
    <2>1. UNCHANGED <<funds, books, envelope, inTurn>> /\ x.pc = "budgets"
      BY <1>7 DEF Ledger!FindBudget
    <2>2. /\ use' \in [Uses -> Call] /\ use'[o].pc \in {"done", "spent"}
          /\ \A p \in Uses : p # o => use'[p] = use[p]
      <3>1. CASE use' = [use EXCEPT ![o].pc = "done"]
        BY <1>1, <3>1, SetPc DEF Stages, Becomes, CallIs
      <3>2. ASSUME NEW b \in Envelopes, envelope[b] # None,
                   use' = [use EXCEPT ![o].pc = "spent", ![o].budget = b,
                                      ![o].read = envelope[b].spent]
            PROVE  Becomes(o, "spent", x.does, x.entry, b, envelope[b].spent)
        <4>1. envelope[b].spent \in Int
          BY <1>1, <3>2 DEF Budget, LedgerTypes
        <4>2. QED
          BY <1>1, <3>2, <4>1, SetBudget DEF Stages
      <3>3. QED
        BY <1>7, <3>1, <3>2 DEF Ledger!FindBudget, Becomes, CallIs
    <2>3. QED
      BY <2>1, <2>2 DEF TurnInv, TurnFacts
  <1>8. CASE Ledger!UpdateSpentAmount(o)
    <2>1. /\ use'[o].pc \in {"done", "publish"}
          /\ \A p \in Uses : p # o => use'[p] = use[p]
          /\ x.pc = "spent" /\ UNCHANGED <<funds, books, inTurn>>
      BY <1>1, <1>8 DEF Ledger!UpdateSpentAmount, Call
    <2>2. BudgetsThere' \subseteq BudgetsThere
      <3>1. /\ envelope' = [envelope EXCEPT ![x.budget] = envelope'[x.budget]]
            /\ x.budget \in BudgetsThere
        BY <1>1, <1>8, <2>1 DEF Ledger!UpdateSpentAmount, LedgerTypes, WorksOn
      <3>2. QED
        BY <1>1, <3>1 DEF LedgerTypes
    <2>3. QED
      BY <2>1, <2>2 DEF TurnInv, TurnFacts
  <1>9. CASE Ledger!Publish(o)
    <2>1. Becomes(o, "done", x.does, x.entry, x.budget, x.read) /\ x.pc = "publish"
      BY <1>1, <1>9, SetPc DEF Stages, Ledger!Publish
    <2>2. UNCHANGED <<funds, books, envelope, inTurn>>
      BY <1>9 DEF Ledger!Publish
    <2>3. QED
      BY <2>1, <2>2 DEF TurnInv, TurnFacts, Becomes, CallIs
  <1>10. CASE Ledger!CheckDuplicate(o)
    <2>1. Becomes(o, "budget", "budget", x.entry, x.budget, x.read)
      BY <1>1, <1>10, SetKind DEF Stages, Kinds, Ledger!CheckDuplicate
    <2>2. UNCHANGED <<funds, books, envelope>> /\ Ledger!Begins(o) /\ BudgetsThere = {}
      BY <1>10 DEF Ledger!CheckDuplicate
    <2>3. QED
      BY <2>1, <2>2, TurnBegins DEF TurnInv, TurnFacts, Becomes, CallIs
  <1>11. CASE Ledger!SaveBudget(o)
    <2>1. Becomes(o, "done", x.does, x.entry, x.budget, x.read) /\ x.pc = "budget"
      BY <1>1, <1>11, SetPc DEF Stages, Ledger!SaveBudget
    <2>2. /\ UNCHANGED <<funds, books, inTurn>>
          /\ \E b \in Envelopes, amount \in Limits :
               envelope' = [envelope EXCEPT ![b] = [amount |-> amount, spent |-> 0]]
      BY <1>11 DEF Ledger!SaveBudget
    <2>3. BudgetsThere = {} /\ \A p \in Uses : p # o => ~UnderWay(p)
      BY <2>1, <2>2 DEF TurnInv, TurnFacts
    <2>4. \E b : BudgetsThere' \subseteq {b}
      BY <1>1, <2>2, <2>3 DEF LedgerTypes
    <2>5. QED
      BY <2>1, <2>2, <2>3, <2>4 DEF TurnInv, TurnFacts, Becomes, CallIs
  <1>12. CASE Ledger!Break(o)
    <2>1. Becomes(o, "done", x.does, x.entry, x.budget, x.read)
      BY <1>1, <1>12, SetPc DEF Stages, Ledger!Break
    <2>2. UNCHANGED <<funds, books, envelope, inTurn>>
      BY <1>12 DEF Ledger!Break
    <2>3. QED
      BY <2>1, <2>2 DEF TurnInv, TurnFacts, Becomes, CallIs
  <1>13. QED
    BY <1>2, <1>3, <1>4, <1>5, <1>6, <1>7, <1>8, <1>9, <1>10, <1>11, <1>12 DEF Ledger!Run

LEMMA TurnAlways == Spec => []TurnInv
  <1>1. Init => TurnInv
    <2> SUFFICES ASSUME Init
                 PROVE  TurnInv
      OBVIOUS
    <2>1. /\ \A o \in Uses : use[o].pc = "idle"
          /\ BudgetsThere = {}
      BY DEF Init, Ledger!Init, BudgetsThere
    <2>2. QED
      BY <2>1, LedgerStarts DEF TurnInv, TurnFacts, UnderWay, Ledger!Closed
  <1>2. TurnInv /\ UNCHANGED ledgerVars => TurnInv'
    BY DEF TurnInv, LedgerCore, LedgerTypes, WorksOn, TurnFacts, UnderWay, Ledger!Closed,
           BudgetsThere, ledgerVars
  <1>3. TurnInv /\ [Next]_vars => TurnInv'
    BY <1>2, LedgerSteps, TurnStays
  <1>4. QED
    BY <1>1, <1>3, PTL DEF Spec

-----------------------------------------------------------------------------
(* The balance.                                                             *)

Live == Ledger!InBooks({"live"})

Effects == [e \in Entries |-> Ledger!Effect(e)]

(* A balance is ahead of the books by the change whose row is to be saved.  *)
DriftFacts ==
  /\ (\A o \in Uses : use[o].pc # "row") => funds = SumFunctionOnSet(Effects, Live) + cut
  /\ \A o \in Uses : use[o].pc = "row" =>
       funds = SumFunctionOnSet(Effects, Live) + cut + Ledger!Change(o)

DriftInv == TurnInv /\ (inTurn => DriftFacts)

LEMMA EffectsSum ==
  ASSUME LedgerCore, NEW S, S \subseteq Entries, \A e \in S : entry[e] # None
  PROVE  /\ Summable(Effects, S)
         /\ SumFunctionOnSet(Effects, S) \in Int
  <1>1. IsFiniteSet(S)
    BY LedgerAssumption, FS_Subset
  <1>2. \A e \in S : entry[e] \in Said
    BY DEF LedgerCore, LedgerTypes
  <1>3. \A e \in S : Effects[e] \in Int
    BY <1>2 DEF Effects, Ledger!Effect, Said
  <1>4. Summable(Effects, S)
    BY <1>1, <1>3 DEF Summable
  <1>5. QED
    BY <1>4, SumInt

LEMMA LiveSum ==
  ASSUME LedgerCore
  PROVE  /\ Live \subseteq Entries /\ \A e \in Live : entry[e] # None
         /\ Summable(Effects, Live)
         /\ SumFunctionOnSet(Effects, Live) \in Int
  <1>1. Live \subseteq Entries /\ \A e \in Live : entry[e] # None
    BY DEF LedgerCore, Live, Ledger!InBooks
  <1>2. QED
    BY <1>1, EffectsSum

(* A step that leaves the books, the balance and the rows to save alone.    *)
LEMMA DriftKept ==
  ASSUME DriftInv, inTurn, UNCHANGED <<funds, books, entry, cut>>,
         \A p \in Uses : use[p].pc = "row" <=> use'[p].pc = "row",
         \A p \in Uses : use'[p].pc = "row" => use'[p] = use[p]
  PROVE  DriftFacts'
  <1>1. Live' = Live /\ Effects' = Effects
    BY DEF Live, Effects, Ledger!InBooks, Ledger!Effect
  <1>2. \A p \in Uses : use'[p].pc = "row" => Ledger!Change(p)' = Ledger!Change(p)
    BY DEF Ledger!Change, Ledger!Effect
  <1>3. QED
    BY <1>1, <1>2 DEF DriftInv, DriftFacts

LEMMA DriftStays == DriftInv /\ TurnInv' /\ Ledger!Next => DriftInv'
  <1> SUFFICES ASSUME DriftInv, NEW o \in Uses, Ledger!Run(o), inTurn', TurnInv'
               PROVE  DriftFacts'
    BY DEF DriftInv, Ledger!Next
  <1> DEFINE x == use[o]
  <1>1. LedgerCore /\ LedgerTypes /\ use \in [Uses -> Call] /\ x \in Call /\ WorksOn(o)
    BY DEF DriftInv, TurnInv, LedgerCore, LedgerTypes
  <1>2. CASE Ledger!BeginLog(o)
    <2>1. PICK e \in Entries, kind \in {"income", "expense", "transfer"}, amount \in Sums :
            /\ entry[e] = None
            /\ entry' = [entry EXCEPT ![e] = [kind |-> kind, amount |-> amount]]
            /\ use' = [use EXCEPT ![o].pc = "wallet", ![o].does = "log", ![o].entry = e]
      BY <1>2 DEF Ledger!BeginLog
    <2>2. Becomes(o, "wallet", "log", e, x.budget, x.read)
      BY <1>1, <2>1, SetEntry DEF Stages, Kinds
    <2>3. UNCHANGED <<funds, books, cut>> /\ inTurn /\ \A p \in Uses : ~UnderWay(p)
      BY <1>2, TurnBegins DEF Ledger!BeginLog
    <2>4. Live' = Live
      BY <2>3 DEF Live, Ledger!InBooks
    <2>5. \A f \in Live : f # e /\ f \in Entries
      BY <1>1, <2>1, LiveSum
    <2>6. \A f \in Live : Effects'[f] = Effects[f]
      <3>1. \A f \in Live : entry'[f] = entry[f]
        BY <1>1, <2>1, <2>5 DEF LedgerTypes
      <3>2. QED
        BY <2>5, <3>1 DEF Effects, Ledger!Effect
    <2>7. SumFunctionOnSet(Effects', Live) = SumFunctionOnSet(Effects, Live)
      BY <1>1, <2>6, LiveSum, SumSame
    <2>8. \A p \in Uses : use[p].pc # "row" /\ use'[p].pc # "row"
      BY <2>2, <2>3 DEF UnderWay, Ledger!Closed, Becomes, CallIs
    <2>9. QED
      BY <2>3, <2>4, <2>7, <2>8 DEF DriftInv, DriftFacts
  <1>3. CASE Ledger!FindTransaction(o)
    <2>1. PICK e \in Entries, does \in {"delete", "restore"} :
            use' = [use EXCEPT ![o].pc = "wallet", ![o].does = does, ![o].entry = e]
      BY <1>3 DEF Ledger!FindTransaction
    <2>2. Becomes(o, "wallet", does, e, x.budget, x.read)
      BY <1>1, <2>1, SetEntry DEF Stages, Kinds
    <2>3. UNCHANGED <<funds, books, entry, cut>> /\ inTurn /\ x.pc = "idle"
      BY <1>3 DEF Ledger!FindTransaction, Ledger!Begins
    <2>4. QED
      BY <2>2, <2>3, DriftKept DEF Becomes, CallIs
  <1>4. CASE Ledger!FindWallet(o)
    <2>1. Becomes(o, "balance", x.does, x.entry, x.budget, funds) /\ x.pc = "wallet"
      BY <1>1, <1>4, SetRead DEF Stages, Ledger!FindWallet, LedgerTypes
    <2>2. UNCHANGED <<funds, books, entry, cut, inTurn>>
      BY <1>4 DEF Ledger!FindWallet
    <2>3. QED
      BY <2>1, <2>2, DriftKept DEF Becomes, CallIs
  <1>5. CASE Ledger!UpdateBalance(o)
    <2>1. Becomes(o, "row", x.does, x.entry, x.budget, x.read) /\ x.pc = "balance"
      BY <1>1, <1>5, SetPc DEF Stages, Ledger!UpdateBalance
    <2>2. /\ UNCHANGED <<books, entry, cut, inTurn>>
          /\ funds' = x.read + Ledger!Change(o)
      BY <1>5 DEF Ledger!UpdateBalance
    <2>3. x.read = funds /\ \A p \in Uses : p # o => ~UnderWay(p)
      BY <2>1, <2>2 DEF DriftInv, TurnInv, TurnFacts, UnderWay, Ledger!Closed
    <2>4. \A p \in Uses : use[p].pc # "row"
      BY <2>1, <2>3 DEF UnderWay, Ledger!Closed
    <2>5. funds = SumFunctionOnSet(Effects, Live) + cut
      BY <2>2, <2>4 DEF DriftInv, DriftFacts
    <2>6. Live' = Live /\ Effects' = Effects /\ Ledger!Change(o)' = Ledger!Change(o)
      BY <2>1, <2>2 DEF Live, Effects, Ledger!InBooks, Ledger!Effect, Ledger!Change,
                        Becomes, CallIs
    <2>7. funds' = SumFunctionOnSet(Effects', Live') + cut' + Ledger!Change(o)'
      BY <2>2, <2>3, <2>5, <2>6
    <2>8. \A p \in Uses : use'[p].pc = "row" <=> p = o
      BY <2>1, <2>4 DEF Becomes, CallIs
    <2>9. QED
      BY <2>7, <2>8 DEF DriftFacts
  <1>6. CASE Ledger!SaveRow(o)
    <2> DEFINE e == x.entry
               stage == IF x.does = "log" /\ entry[e].kind = "expense" THEN "budgets" ELSE "done"
    <2>1. Becomes(o, stage, x.does, e, x.budget, x.read) /\ x.pc = "row"
      BY <1>1, <1>6, SetPc DEF Stages, Ledger!SaveRow
    <2>2. /\ UNCHANGED <<funds, entry, cut, inTurn>>
          /\ books' = [books EXCEPT ![e] = IF x.does = "delete" THEN "deleted" ELSE "live"]
          /\ e \in Entries /\ entry[e] # None /\ x.does \in {"log", "delete", "restore"}
          /\ books[e] = "none" <=> x.does = "log"
      BY <1>1, <1>6, <2>1 DEF Ledger!SaveRow, WorksOn, LedgerCore
    <2>3. /\ x.does = "delete" => books[e] = "live"
          /\ x.does = "restore" => books[e] = "deleted"
          /\ \A p \in Uses : p # o => ~UnderWay(p)
      BY <2>1, <2>2 DEF DriftInv, TurnInv, TurnFacts, UnderWay, Ledger!Closed
    <2>4. funds = SumFunctionOnSet(Effects, Live) + cut + Ledger!Change(o)
      BY <2>1, <2>2 DEF DriftInv, DriftFacts
    <2>5. Effects' = Effects
      BY <2>2 DEF Effects, Ledger!Effect
    <2>6. SumFunctionOnSet(Effects, Live') = SumFunctionOnSet(Effects, Live) + Ledger!Change(o)
      <3>1. CASE x.does = "delete"
        <4>1. e \in Live /\ Live' = Live \ {e}
          BY <1>1, <2>2, <2>3, <3>1 DEF Live, Ledger!InBooks, LedgerTypes
        <4>2. SumFunctionOnSet(Effects, Live') = SumFunctionOnSet(Effects, Live) - Effects[e]
          BY <1>1, <4>1, LiveSum, SumTakesAway
        <4>3. Ledger!Change(o) = -Effects[e] /\ Effects[e] \in Int
          BY <1>1, <2>2, <3>1, <4>1, LiveSum DEF Ledger!Change, Effects, Summable
        <4>4. QED
          BY <1>1, <4>2, <4>3, LiveSum
      <3>2. CASE x.does # "delete"
        <4>1. e \notin Live /\ Live' = Live \cup {e}
          BY <1>1, <2>2, <2>3, <3>2 DEF Live, Ledger!InBooks, LedgerTypes
        <4>2. Summable(Effects, Live \cup {e})
          BY <1>1, <2>2, LiveSum, EffectsSum
        <4>3. SumFunctionOnSet(Effects, Live') = SumFunctionOnSet(Effects, Live) + Effects[e]
          BY <4>1, <4>2, SumAdds
        <4>4. Ledger!Change(o) = Effects[e]
          BY <2>2, <3>2 DEF Ledger!Change, Effects
        <4>5. QED
          BY <4>3, <4>4
      <3>3. QED
        BY <3>1, <3>2
    <2>7. funds' = SumFunctionOnSet(Effects', Live') + cut'
      <3>1. SumFunctionOnSet(Effects, Live) \in Int /\ Ledger!Change(o) \in Int /\ cut \in Int
        BY <1>1, <2>1, LiveSum, ChangeInt DEF LedgerTypes
      <3>2. QED
        BY <2>2, <2>4, <2>5, <2>6, <3>1
    <2>8. \A p \in Uses : use'[p].pc # "row"
      BY <2>1, <2>3 DEF UnderWay, Ledger!Closed, Becomes, CallIs
    <2>9. QED
      BY <2>7, <2>8 DEF DriftFacts
  <1>7. CASE \/ Ledger!FindBudget(o) \/ Ledger!UpdateSpentAmount(o) \/ Ledger!Publish(o)
             \/ Ledger!SaveBudget(o)
    <2>1. /\ UNCHANGED <<funds, books, entry, cut, inTurn>>
          /\ x.pc # "row" /\ use'[o].pc # "row"
          /\ \A p \in Uses : p # o => use'[p] = use[p]
      <3>1. CASE Ledger!FindBudget(o)
        <4>1. x.pc = "budgets" /\ UNCHANGED <<funds, books, entry, cut, inTurn>>
          BY <3>1 DEF Ledger!FindBudget
        <4>2. \/ use' = [use EXCEPT ![o].pc = "done"]
              \/ \E b \in Envelopes : use' = [use EXCEPT ![o].pc = "spent", ![o].budget = b,
                                                       ![o].read = envelope[b].spent]
          BY <3>1 DEF Ledger!FindBudget
        <4>3. use \in [Uses -> Call] /\ x \in Call
          BY <1>1
        <4>4. CASE use' = [use EXCEPT ![o].pc = "done"]
          BY <4>1, <4>3, <4>4 DEF Call
        <4>5. ASSUME NEW b \in Envelopes,
                     use' = [use EXCEPT ![o].pc = "spent", ![o].budget = b,
                                        ![o].read = envelope[b].spent]
              PROVE  use'[o].pc # "row" /\ \A p \in Uses : p # o => use'[p] = use[p]
          <5> HIDE DEF x
          <5>1. o \in DOMAIN use /\ DOMAIN use = Uses /\ use[o] \in Call
            BY <4>3 DEF x
          <5>2. use'[o] = [use[o] EXCEPT !.pc = "spent", !.budget = b, !.read = envelope[b].spent]
            BY <4>5, <5>1
          <5>3. use'[o].pc = "spent"
            BY <5>1, <5>2 DEF Call
          <5>4. QED
            BY <4>5, <5>1, <5>3
        <4>6. QED
          BY <4>1, <4>2, <4>4, <4>5
      <3>2. CASE Ledger!UpdateSpentAmount(o)
        BY <1>1, <3>2 DEF Ledger!UpdateSpentAmount, Call
      <3>3. CASE Ledger!Publish(o)
        BY <1>1, <3>3 DEF Ledger!Publish, Call
      <3>4. CASE Ledger!SaveBudget(o)
        BY <1>1, <3>4 DEF Ledger!SaveBudget, Call
      <3>5. QED
        BY <1>7, <3>1, <3>2, <3>3, <3>4
    <2>2. QED
      BY <2>1, DriftKept
  <1>8. CASE Ledger!CheckDuplicate(o)
    <2>1. Becomes(o, "budget", "budget", x.entry, x.budget, x.read)
      BY <1>1, <1>8, SetKind DEF Stages, Kinds, Ledger!CheckDuplicate
    <2>2. UNCHANGED <<funds, books, entry, cut>> /\ inTurn /\ x.pc = "idle"
      BY <1>8 DEF Ledger!CheckDuplicate, Ledger!Begins
    <2>3. QED
      BY <2>1, <2>2, DriftKept DEF Becomes, CallIs
  <1>9. CASE Ledger!Break(o)
    <2>1. Becomes(o, "done", x.does, x.entry, x.budget, x.read)
      BY <1>1, <1>9, SetPc DEF Stages, Ledger!Break
    <2>2. /\ UNCHANGED <<funds, books, entry, inTurn>>
          /\ cut' = IF x.pc = "row" THEN cut + Ledger!Change(o) ELSE cut
      BY <1>9 DEF Ledger!Break
    <2>3. CASE x.pc # "row"
      BY <2>1, <2>2, <2>3, DriftKept DEF Becomes, CallIs
    <2>4. CASE x.pc = "row"
      <3>1. funds = SumFunctionOnSet(Effects, Live) + cut + Ledger!Change(o)
        BY <2>2, <2>4 DEF DriftInv, DriftFacts
      <3>2. SumFunctionOnSet(Effects, Live) \in Int /\ Ledger!Change(o) \in Int /\ cut \in Int
        BY <1>1, <2>4, LiveSum, ChangeInt DEF LedgerTypes
      <3>3. Live' = Live /\ Effects' = Effects
        BY <2>2 DEF Live, Effects, Ledger!InBooks, Ledger!Effect
      <3>4. funds' = SumFunctionOnSet(Effects', Live') + cut'
        BY <2>2, <2>4, <3>1, <3>2, <3>3
      <3>5. \A p \in Uses : p # o => ~UnderWay(p)
        BY <2>2, <2>4 DEF DriftInv, TurnInv, TurnFacts, UnderWay, Ledger!Closed
      <3>6. \A p \in Uses : use'[p].pc # "row"
        BY <2>1, <3>5 DEF UnderWay, Ledger!Closed, Becomes, CallIs
      <3>7. QED
        BY <3>4, <3>6 DEF DriftFacts
    <2>5. QED
      BY <2>3, <2>4
  <1>10. QED
    BY <1>2, <1>3, <1>4, <1>5, <1>6, <1>7, <1>8, <1>9 DEF Ledger!Run

LEMMA DriftAlways == Spec => []DriftInv
  <1>1. Init /\ TurnInv => DriftInv
    <2> SUFFICES ASSUME Init, TurnInv
                 PROVE  DriftFacts
      BY DEF DriftInv
    <2>1. Live = {} /\ funds = 0 /\ cut = 0 /\ \A o \in Uses : use[o].pc = "idle"
      BY DEF Init, Ledger!Init, Live, Ledger!InBooks
    <2>2. SumFunctionOnSet(Effects, Live) = 0
      BY <2>1, SumEmpty
    <2>3. QED
      BY <2>1, <2>2 DEF DriftFacts
  <1>2. DriftInv /\ TurnInv' /\ UNCHANGED ledgerVars => DriftInv'
    <2> SUFFICES ASSUME DriftInv, UNCHANGED ledgerVars, inTurn
                 PROVE  DriftFacts'
      BY DEF DriftInv, ledgerVars
    <2>1. QED
      BY DriftKept DEF ledgerVars
  <1>3. DriftInv /\ TurnInv' /\ [Next]_vars => DriftInv'
    BY <1>2, LedgerSteps, DriftStays
  <1>4. QED
    BY <1>1, <1>3, TurnAlways, PTL DEF Spec

(* While calls come one at a time the balance is what the live transactions *)
(* make of it, but for the calls that stopped between balance and row.      *)
THEOREM DriftIsOfCuts == Spec => []DriftIsCut
  <1>1. DriftInv => DriftIsCut
    <2> SUFFICES ASSUME DriftInv, inTurn, \A o \in Uses : use[o].pc \in Ledger!Closed
                 PROVE  funds = Ledger!MapThenSumSet(Ledger!Effect, Live) + cut
      BY DEF DriftIsCut, Ledger!DriftIsCut, Live
    <2>1. funds = SumFunctionOnSet(Effects, Live) + cut
      BY DEF DriftInv, DriftFacts, Ledger!Closed
    <2>2. Ledger!MapThenSumSet(Ledger!Effect, Live) = SumFunctionOnSet(Effects, Live)
      <3> DEFINE one(g) == g = [s \in SUBSET Live |-> IF s = {} THEN 0
                   ELSE Ledger!Effect(CHOOSE e \in s : TRUE) + g[s \ {CHOOSE e \in s : TRUE}]]
                 two(g) == g = [s \in SUBSET Live |-> IF s = {} THEN 0
                   ELSE Effects[CHOOSE e \in s : TRUE] + g[s \ {CHOOSE e \in s : TRUE}]]
      <3>1. Ledger!MapThenSumSet(Ledger!Effect, Live) = (CHOOSE g : one(g))[Live]
        BY DEF Ledger!MapThenSumSet, Ledger!MapThenFoldSet
      <3>2. SumFunctionOnSet(Effects, Live) = (CHOOSE g : two(g))[Live]
        BY DEF SumFunctionOnSet, FoldFunctionOnSet, MapThenFoldSet
      <3>3. \A g : one(g) <=> two(g)
        <4>1. \A s \in SUBSET Live : s # {} =>
                Effects[CHOOSE e \in s : TRUE] = Ledger!Effect(CHOOSE e \in s : TRUE)
          BY DEF Effects, Live, Ledger!InBooks
        <4> SUFFICES ASSUME NEW g
                     PROVE  one(g) <=> two(g)
          OBVIOUS
        <4>2. [s \in SUBSET Live |-> IF s = {} THEN 0
                 ELSE Ledger!Effect(CHOOSE e \in s : TRUE) + g[s \ {CHOOSE e \in s : TRUE}]]
                = [s \in SUBSET Live |-> IF s = {} THEN 0
                     ELSE Effects[CHOOSE e \in s : TRUE] + g[s \ {CHOOSE e \in s : TRUE}]]
          BY <4>1
        <4>3. QED
          BY <4>2
      <3>4. (CHOOSE g : one(g)) = (CHOOSE g : two(g))
        BY <3>3
      <3>5. QED
        BY <3>1, <3>2, <3>4
    <2>3. QED
      BY <2>1, <2>2
  <1>2. QED
    BY <1>1, DriftAlways, PTL

-----------------------------------------------------------------------------
(* The budgets.  What a budget was charged are logged expenses whose calls  *)
(* are past the budget.                                                     *)

Amounts == [e \in Entries |-> entry[e].amount]

Logged == {e \in Ledger!InBooks({"live", "deleted"}) : entry[e].kind = "expense"}

Charged ==
  {e \in Logged : \A o \in Uses : use[o].pc \in {"budgets", "spent"} => use[o].entry # e}

ChargeFacts ==
  /\ \A b \in BudgetsThere : envelope[b].spent <= SumFunctionOnSet(Amounts, Charged)
  /\ \A o \in Uses : use[o].pc = "spent" =>
       use[o].read <= SumFunctionOnSet(Amounts, Charged)
  /\ \A o \in Uses : use[o].pc = "publish" =>
       SumFunctionOnSet(Amounts, Logged) * 100
         >= use[o].read * envelope[use[o].budget].amount
  /\ \A a \in announced :
       /\ a[1] \in BudgetsThere
       /\ SumFunctionOnSet(Amounts, Logged) * 100 >= a[2] * envelope[a[1]].amount

ChargeInv == LedgerCore /\ ChargeFacts

AmountsFacts ==
  /\ Charged \subseteq Logged /\ Logged \subseteq Entries
  /\ Summable(Amounts, Logged) /\ Summable(Amounts, Charged)
  /\ \A e \in Logged : Amounts[e] = entry[e].amount /\ Amounts[e] \in Nat
  /\ SumFunctionOnSet(Amounts, Charged) \in Int
  /\ SumFunctionOnSet(Amounts, Logged) \in Int
  /\ 0 <= SumFunctionOnSet(Amounts, Charged)
  /\ SumFunctionOnSet(Amounts, Charged) <= SumFunctionOnSet(Amounts, Logged)

LEMMA AmountsSum == LedgerCore => AmountsFacts
  <1> SUFFICES ASSUME LedgerCore
               PROVE  AmountsFacts
    OBVIOUS
  <1>1. Charged \subseteq Logged /\ Logged \subseteq Entries
    BY DEF Charged, Logged, Ledger!InBooks
  <1>2. \A e \in Logged : entry[e] \in Said
    BY DEF LedgerCore, LedgerTypes, Logged, Ledger!InBooks
  <1>3. \A e \in Logged : Amounts[e] = entry[e].amount /\ Amounts[e] \in Nat
    BY <1>1, <1>2 DEF Amounts, Said
  <1>4. IsFiniteSet(Logged) /\ IsFiniteSet(Charged)
    BY <1>1, LedgerAssumption, FS_Subset
  <1>5. Summable(Amounts, Logged) /\ Summable(Amounts, Charged)
    BY <1>1, <1>3, <1>4 DEF Summable
  <1>6. SumFunctionOnSet(Amounts, {}) <= SumFunctionOnSet(Amounts, Charged)
    BY <1>1, <1>3, <1>5, SumGrows
  <1>7. SumFunctionOnSet(Amounts, Charged) <= SumFunctionOnSet(Amounts, Logged)
    BY <1>1, <1>3, <1>5, SumGrows
  <1>8. QED
    BY <1>1, <1>3, <1>5, <1>6, <1>7, SumInt, SumEmpty DEF AmountsFacts

(* What was logged and charged stays so. *)
SumsKept ==
  /\ Logged \subseteq Logged' /\ Charged \subseteq Charged'
  /\ \A e \in Logged : entry'[e] = entry[e]

LEMMA SumsGrow ==
  ASSUME AmountsFacts, AmountsFacts', SumsKept
  PROVE  /\ SumFunctionOnSet(Amounts, Charged) <= SumFunctionOnSet(Amounts', Charged')
         /\ SumFunctionOnSet(Amounts, Logged) <= SumFunctionOnSet(Amounts', Logged')
  <1> USE DEF AmountsFacts, SumsKept
  <1>1. \A e \in Logged : Amounts'[e] = Amounts[e]
    OBVIOUS
  <1>2. /\ SumFunctionOnSet(Amounts', Charged) = SumFunctionOnSet(Amounts, Charged)
        /\ SumFunctionOnSet(Amounts', Logged) = SumFunctionOnSet(Amounts, Logged)
    BY <1>1, SumSame
  <1>3. /\ SumFunctionOnSet(Amounts', Charged) <= SumFunctionOnSet(Amounts', Charged')
        /\ SumFunctionOnSet(Amounts', Logged) <= SumFunctionOnSet(Amounts', Logged')
    BY SumGrows
  <1>4. QED
    BY <1>2, <1>3

(* What a step has to respect of the budgets, the calls and the events.     *)
LEMMA ChargeKept ==
  ASSUME LedgerCore, ChargeFacts, AmountsFacts, AmountsFacts', SumsKept,
         \A b \in BudgetsThere :
           b \in BudgetsThere' /\ envelope'[b].amount = envelope[b].amount,
         \A b \in BudgetsThere' :
           \/ envelope'[b].spent <= SumFunctionOnSet(Amounts', Charged')
           \/ b \in BudgetsThere /\ envelope'[b].spent = envelope[b].spent,
         \A p \in Uses : use'[p].pc = "spent" =>
           \/ use'[p] = use[p]
           \/ use'[p].read \in {envelope[b].spent : b \in BudgetsThere},
         \A p \in Uses : use'[p].pc = "publish" =>
           \/ use'[p] = use[p]
           \/ SumFunctionOnSet(Amounts', Logged') * 100
                >= use'[p].read * envelope'[use'[p].budget].amount,
         \A a \in announced' : a \in announced \/ \E p \in Uses :
           use[p].pc = "publish" /\ a[1] = use[p].budget /\ a[2] = use[p].read
  PROVE  ChargeFacts'
  <1> DEFINE charged == SumFunctionOnSet(Amounts, Charged)
             charges == SumFunctionOnSet(Amounts', Charged')
             logged == SumFunctionOnSet(Amounts, Logged)
             logs == SumFunctionOnSet(Amounts', Logged')
  <1>1. /\ \A b \in BudgetsThere : envelope[b].spent \in Int /\ envelope[b].amount \in Int
        /\ \A p \in Uses : use[p].read \in Int
        /\ \A p \in Uses : use[p].pc = "publish" => use[p].budget \in BudgetsThere
        /\ \A a \in announced : a[2] \in Int
    BY DEF LedgerCore, LedgerTypes, WorksOn, BudgetsThere, Call, Budget
  <1>2. charged <= charges /\ logged <= logs
    BY SumsGrow
  <1>3. charged \in Int /\ charges \in Int /\ logged \in Int /\ logs \in Int
    BY DEF AmountsFacts
  <1>4. \A n \in Int : logged * 100 >= n => logs * 100 >= n
    BY <1>2, <1>3
  <1>5. \A b \in BudgetsThere : envelope[b].spent <= charged
    BY DEF ChargeFacts
  <1>6. \A b \in BudgetsThere' : envelope'[b].spent <= charges
    BY <1>1, <1>2, <1>3, <1>5
  <1>7. \A p \in Uses : use'[p].pc = "spent" => use'[p].read <= charges
    <2>1. \A p \in Uses : use'[p].pc = "spent" => use'[p].read <= charged /\ use'[p].read \in Int
      BY <1>1, <1>5 DEF ChargeFacts
    <2>2. QED
      BY <1>2, <1>3, <2>1
  <1>8. \A p \in Uses : use[p].pc = "publish" /\ use[p].budget \in BudgetsThere =>
          logs * 100 >= use[p].read * envelope'[use[p].budget].amount
    <2> SUFFICES ASSUME NEW p \in Uses, use[p].pc = "publish", use[p].budget \in BudgetsThere
                 PROVE  logs * 100 >= use[p].read * envelope'[use[p].budget].amount
      OBVIOUS
    <2> DEFINE n == use[p].read * envelope[use[p].budget].amount
    <2>1. n \in Int /\ logged * 100 >= n
      BY <1>1 DEF ChargeFacts
    <2>2. QED
      BY <1>4, <2>1
  <1>9. \A p \in Uses : use'[p].pc = "publish" =>
          logs * 100 >= use'[p].read * envelope'[use'[p].budget].amount
    BY <1>1, <1>8
  <1>10. \A a \in announced' :
          a[1] \in BudgetsThere' /\ logs * 100 >= a[2] * envelope'[a[1]].amount
    <2> SUFFICES ASSUME NEW a \in announced'
                 PROVE  a[1] \in BudgetsThere' /\ logs * 100 >= a[2] * envelope'[a[1]].amount
      OBVIOUS
    <2>1. CASE a \in announced
      <3> DEFINE n == a[2] * envelope[a[1]].amount
      <3>1. a[1] \in BudgetsThere /\ n \in Int /\ logged * 100 >= n
        BY <1>1, <2>1 DEF ChargeFacts
      <3>2. QED
        BY <1>4, <3>1
    <2>2. CASE a \notin announced
      BY <1>1, <1>8, <2>2
    <2>3. QED
      BY <2>1, <2>2
  <1>11. QED
    BY <1>6, <1>7, <1>9, <1>10 DEF ChargeFacts

(* Steps that leave the budgets and the events alone.                       *)
LEMMA ChargeAlone ==
  ASSUME LedgerCore, ChargeFacts, AmountsFacts, AmountsFacts', SumsKept,
         UNCHANGED <<envelope, announced>>, NEW o \in Uses,
         \A p \in Uses : p # o => use'[p] = use[p],
         use'[o].pc \notin {"spent", "publish"}
           \/ (use'[o].pc = "spent"
                 /\ use'[o].read \in {envelope[b].spent : b \in BudgetsThere})
  PROVE  ChargeFacts'
  <1>1. BudgetsThere' = BudgetsThere
    BY DEF BudgetsThere
  <1>2. QED
    BY <1>1, ChargeKept

LEMMA ChargeStays ==
  ASSUME LedgerCore, LedgerCore', ChargeFacts, AmountsFacts, AmountsFacts', Ledger!Next
  PROVE  ChargeFacts'
  <1> PICK o \in Uses : Ledger!Run(o)
    BY DEF Ledger!Next
  <1> DEFINE x == use[o]
  <1> USE DEF SumsKept, Logged, Charged, Ledger!InBooks
  <1>1. LedgerTypes /\ use \in [Uses -> Call] /\ x \in Call /\ WorksOn(o)
    BY DEF LedgerCore, LedgerTypes
  <1>2. CASE Ledger!BeginLog(o)
    <2>1. PICK e \in Entries, kind \in {"income", "expense", "transfer"}, amount \in Sums :
            /\ entry[e] = None
            /\ entry' = [entry EXCEPT ![e] = [kind |-> kind, amount |-> amount]]
            /\ use' = [use EXCEPT ![o].pc = "wallet", ![o].does = "log", ![o].entry = e]
      BY <1>2 DEF Ledger!BeginLog
    <2>2. Becomes(o, "wallet", "log", e, x.budget, x.read)
      BY <1>1, <2>1, SetEntry DEF Stages, Kinds
    <2>3. UNCHANGED <<books, envelope, announced>>
      BY <1>2 DEF Ledger!BeginLog
    <2>4. books[e] = "none" /\ \A f \in Entries : f # e => entry'[f] = entry[f]
      BY <1>1, <2>1 DEF LedgerCore, LedgerTypes
    <2>5. SumsKept
      BY <2>2, <2>3, <2>4 DEF Becomes, CallIs
    <2>6. QED
      BY <2>2, <2>3, <2>5, ChargeAlone DEF Becomes, CallIs
  <1>3. CASE Ledger!FindTransaction(o)
    <2>1. PICK e \in Entries, does \in {"delete", "restore"} :
            use' = [use EXCEPT ![o].pc = "wallet", ![o].does = does, ![o].entry = e]
      BY <1>3 DEF Ledger!FindTransaction
    <2>2. Becomes(o, "wallet", does, e, x.budget, x.read)
      BY <1>1, <2>1, SetEntry DEF Stages, Kinds
    <2>3. UNCHANGED <<books, entry, envelope, announced>>
      BY <1>3 DEF Ledger!FindTransaction
    <2>4. SumsKept
      BY <2>2, <2>3 DEF Becomes, CallIs
    <2>5. QED
      BY <2>2, <2>3, <2>4, ChargeAlone DEF Becomes, CallIs
  <1>4. CASE Ledger!FindWallet(o)
    <2>1. Becomes(o, "balance", x.does, x.entry, x.budget, funds)
      BY <1>1, <1>4, SetRead DEF Stages, Ledger!FindWallet, LedgerTypes
    <2>2. UNCHANGED <<books, entry, envelope, announced>>
      BY <1>4 DEF Ledger!FindWallet
    <2>3. SumsKept
      BY <2>1, <2>2 DEF Becomes, CallIs
    <2>4. QED
      BY <2>1, <2>2, <2>3, ChargeAlone DEF Becomes, CallIs
  <1>5. CASE Ledger!UpdateBalance(o) \/ Ledger!Break(o)
    <2>1. \E stage \in {"row", "done"} :
            Becomes(o, stage, x.does, x.entry, x.budget, x.read)
      BY <1>1, <1>5, SetPc DEF Stages, Ledger!UpdateBalance, Ledger!Break
    <2>2. UNCHANGED <<books, entry, envelope, announced>>
      BY <1>5 DEF Ledger!UpdateBalance, Ledger!Break
    <2>3. SumsKept
      BY <2>1, <2>2 DEF Becomes, CallIs
    <2>4. QED
      BY <2>1, <2>2, <2>3, ChargeAlone DEF Becomes, CallIs
  <1>6. CASE Ledger!SaveRow(o)
    <2> DEFINE e == x.entry
               stage == IF x.does = "log" /\ entry[e].kind = "expense" THEN "budgets" ELSE "done"
    <2>1. Becomes(o, stage, x.does, e, x.budget, x.read) /\ x.pc = "row"
      BY <1>1, <1>6, SetPc DEF Stages, Ledger!SaveRow
    <2>2. /\ UNCHANGED <<entry, envelope, announced>>
          /\ books' = [books EXCEPT ![e] = IF x.does = "delete" THEN "deleted" ELSE "live"]
          /\ e \in Entries /\ (books[e] = "none" <=> x.does = "log")
      BY <1>1, <1>6, <2>1 DEF Ledger!SaveRow, WorksOn
    <2>3. /\ books'[e] \in {"live", "deleted"}
          /\ \A f \in Entries : f # e => books'[f] = books[f]
      BY <1>1, <2>2 DEF LedgerTypes
    <2>4. SumsKept
      BY <2>1, <2>2, <2>3 DEF Becomes, CallIs
    <2>5. QED
      BY <2>1, <2>2, <2>4, ChargeAlone DEF Becomes, CallIs
  <1>7. CASE Ledger!FindBudget(o)
    <2>1. UNCHANGED <<books, entry, envelope, announced>> /\ x.pc = "budgets"
      BY <1>7 DEF Ledger!FindBudget
    <2>2. CASE use' = [use EXCEPT ![o].pc = "done"]
      <3>1. Becomes(o, "done", x.does, x.entry, x.budget, x.read)
        BY <1>1, <2>2, SetPc DEF Stages
      <3>2. SumsKept
        BY <2>1, <3>1 DEF Becomes, CallIs
      <3>3. QED
        BY <2>1, <3>1, <3>2, ChargeAlone DEF Becomes, CallIs
    <2>3. ASSUME NEW b \in Envelopes, envelope[b] # None,
                 use' = [use EXCEPT ![o].pc = "spent", ![o].budget = b,
                                    ![o].read = envelope[b].spent]
          PROVE  ChargeFacts'
      <3>1. envelope[b].spent \in Int /\ b \in BudgetsThere
        BY <1>1, <2>3 DEF Budget, LedgerTypes, BudgetsThere
      <3>2. Becomes(o, "spent", x.does, x.entry, b, envelope[b].spent)
        BY <1>1, <2>3, <3>1, SetBudget DEF Stages
      <3>3. SumsKept
        BY <2>1, <3>2 DEF Becomes, CallIs
      <3>4. QED
        BY <2>1, <3>1, <3>2, <3>3, ChargeAlone DEF Becomes, CallIs
    <2>4. QED
      BY <1>7, <2>2, <2>3 DEF Ledger!FindBudget
  <1>8. CASE Ledger!UpdateSpentAmount(o)
    <2> DEFINE b == x.budget
               e == x.entry
               spent == x.read + entry[e].amount
               limit == envelope[b].amount
               crossed == Ledger!Crossed(x.read, spent, limit)
    <2>1. /\ x.pc = "spent" /\ UNCHANGED <<books, entry, announced>>
          /\ envelope' = [envelope EXCEPT ![b].spent = spent]
          /\ use' = [use EXCEPT ![o].pc = IF crossed = 0 THEN "done" ELSE "publish",
                                ![o].read = crossed]
      BY <1>8 DEF Ledger!UpdateSpentAmount
    <2>2. /\ crossed \in {0, 80, 100}
          /\ crossed # 0 => spent * 100 >= crossed * limit
      BY DEF Ledger!Crossed
    <2> HIDE DEF crossed
    <2>3. Becomes(o, IF crossed = 0 THEN "done" ELSE "publish", x.does, e, b, crossed)
      <3>1. (IF crossed = 0 THEN "done" ELSE "publish") \in Stages /\ crossed \in Int
        BY <2>2 DEF Stages
      <3>2. QED
        BY <1>1, <2>1, <3>1, SetRead
    <2>4. /\ b \in Envelopes /\ envelope[b] \in Budget /\ b \in BudgetsThere
          /\ e \in Entries /\ entry[e] \in Said /\ x.does = "log" /\ books[e] # "none"
          /\ entry[e].kind = "expense"
      BY <1>1, <2>1 DEF WorksOn, BudgetsThere, LedgerTypes
    <2>5. spent \in Int /\ limit \in Int
      BY <1>1, <2>4 DEF Call, Said, Budget
    <2>6. e \in Logged /\ e \notin Charged
      BY <1>1, <2>1, <2>4 DEF LedgerTypes
    <2>7. SumsKept
      BY <2>1, <2>3 DEF Becomes, CallIs
    <2>8. e \in Charged' /\ Charged \cup {e} \subseteq Charged' /\ Logged' = Logged
      <3>1. \A p \in Uses : use'[p].pc \in {"budgets", "spent"} => use'[p].entry # e
        BY <1>1, <2>1, <2>3, <2>4 DEF Becomes, CallIs, LedgerCore, WorksOn
      <3>2. Logged' = Logged
        BY <2>1
      <3>3. e \in Charged'
        BY <2>6, <3>1, <3>2
      <3>4. QED
        BY <2>7, <3>2, <3>3
    <2>9. Amounts' = Amounts
      BY <2>1 DEF Amounts
    <2>10. spent <= SumFunctionOnSet(Amounts', Charged')
      <3>1. Charged \cup {e} \subseteq Charged' /\ Charged' \subseteq Logged'
        BY <2>8 DEF AmountsFacts
      <3>2. Summable(Amounts, Charged \cup {e})
        BY <2>9, <3>1, SummableSubset DEF AmountsFacts
      <3>3. SumFunctionOnSet(Amounts, Charged \cup {e})
              = SumFunctionOnSet(Amounts, Charged) + Amounts[e]
        <4> HIDE DEF Charged, Logged
        <4>1. QED
          BY <2>6, <3>2, SumAdds
      <3>4. SumFunctionOnSet(Amounts', Charged \cup {e}) <= SumFunctionOnSet(Amounts', Charged')
        <4>1. Summable(Amounts', Charged') /\ \A f \in Charged' : Amounts'[f] >= 0
          BY <3>1 DEF AmountsFacts
        <4>2. QED
          BY <3>1, <4>1, SumGrows
      <3>5. x.read <= SumFunctionOnSet(Amounts, Charged)
        BY <2>1 DEF ChargeFacts
      <3>6. Amounts[e] = entry[e].amount /\ Amounts[e] \in Int /\ x.read \in Int
        BY <1>1, <2>4 DEF Amounts, Said, Call
      <3>7. /\ SumFunctionOnSet(Amounts, Charged) \in Int
            /\ SumFunctionOnSet(Amounts', Charged') \in Int
        BY DEF AmountsFacts
      <3>8. QED
        BY <2>9, <3>3, <3>4, <3>5, <3>6, <3>7
    <2>11. SumFunctionOnSet(Amounts', Charged') <= SumFunctionOnSet(Amounts', Logged')
      BY DEF AmountsFacts
    <2> HIDE DEF spent, limit
    <2>12. crossed # 0 => SumFunctionOnSet(Amounts', Logged') * 100 >= crossed * limit
      <3>1. /\ SumFunctionOnSet(Amounts', Charged') \in Int
            /\ SumFunctionOnSet(Amounts', Logged') \in Int
        BY DEF AmountsFacts
      <3>2. crossed * limit \in Int
        BY <2>2, <2>5
      <3>3. QED
        BY <2>2, <2>5, <2>10, <2>11, <3>1, <3>2
    <2>13. /\ envelope'[b].spent = spent /\ envelope'[b].amount = limit
           /\ \A c \in Envelopes : c # b => envelope'[c] = envelope[c]
           /\ envelope'[b] # None
      <3>1. [envelope[b] EXCEPT !.spent = spent] \in Budget
        BY <2>4, <2>5 DEF Budget
      <3>2. QED
        BY <1>1, <2>1, <2>4, <3>1, LedgerAssumption DEF LedgerTypes, Budget, limit
    <2>14. BudgetsThere' = BudgetsThere
      BY <2>4, <2>13 DEF BudgetsThere
    <2> HIDE DEF SumsKept, Logged, Charged
    <2>15. \A c \in BudgetsThere : envelope'[c].amount = envelope[c].amount
      BY <2>13 DEF limit, BudgetsThere
    <2>16. \A c \in BudgetsThere' :
             \/ envelope'[c].spent <= SumFunctionOnSet(Amounts', Charged')
             \/ c \in BudgetsThere /\ envelope'[c].spent = envelope[c].spent
      BY <2>10, <2>13, <2>14 DEF BudgetsThere
    <2>17. \A p \in Uses : use'[p].pc = "spent" => use'[p] = use[p]
      BY <2>3 DEF Becomes, CallIs
    <2>18. \A p \in Uses : use'[p].pc = "publish" =>
             \/ use'[p] = use[p]
             \/ SumFunctionOnSet(Amounts', Logged') * 100
                  >= use'[p].read * envelope'[use'[p].budget].amount
      BY <2>2, <2>3, <2>12, <2>13 DEF Becomes, CallIs
    <2>19. QED
      BY <2>1, <2>7, <2>14, <2>15, <2>16, <2>17, <2>18, ChargeKept
  <1>9. CASE Ledger!Publish(o)
    <2>1. Becomes(o, "done", x.does, x.entry, x.budget, x.read)
      BY <1>1, <1>9, SetPc DEF Stages, Ledger!Publish
    <2>2. /\ UNCHANGED <<books, entry, envelope>> /\ x.pc = "publish"
          /\ announced' = announced \cup {<<x.budget, x.read>>}
      BY <1>9 DEF Ledger!Publish
    <2>3. SumsKept
      BY <2>1, <2>2 DEF Becomes, CallIs
    <2>4. BudgetsThere' = BudgetsThere
      BY <2>2 DEF BudgetsThere
    <2>5. QED
      BY <2>1, <2>2, <2>3, <2>4, ChargeKept DEF Becomes, CallIs
  <1>10. CASE Ledger!CheckDuplicate(o)
    <2>1. Becomes(o, "budget", "budget", x.entry, x.budget, x.read)
      BY <1>1, <1>10, SetKind DEF Stages, Kinds, Ledger!CheckDuplicate
    <2>2. UNCHANGED <<books, entry, envelope, announced>>
      BY <1>10 DEF Ledger!CheckDuplicate
    <2>3. SumsKept
      BY <2>1, <2>2 DEF Becomes, CallIs
    <2>4. QED
      BY <2>1, <2>2, <2>3, ChargeAlone DEF Becomes, CallIs
  <1>11. CASE Ledger!SaveBudget(o)
    <2>1. Becomes(o, "done", x.does, x.entry, x.budget, x.read)
      BY <1>1, <1>11, SetPc DEF Stages, Ledger!SaveBudget
    <2>2. PICK b \in Envelopes, amount \in Limits :
            /\ envelope[b] = None
            /\ envelope' = [envelope EXCEPT ![b] = [amount |-> amount, spent |-> 0]]
      BY <1>11 DEF Ledger!SaveBudget
    <2>3. UNCHANGED <<books, entry, announced>>
      BY <1>11 DEF Ledger!SaveBudget
    <2>4. SumsKept
      BY <2>1, <2>3 DEF Becomes, CallIs
    <2>5. /\ \A c \in Envelopes : c # b => envelope'[c] = envelope[c]
          /\ envelope'[b].spent = 0
      BY <1>1, <2>2 DEF LedgerTypes
    <2>6. 0 <= SumFunctionOnSet(Amounts', Charged')
      BY DEF AmountsFacts
    <2> HIDE DEF SumsKept, Logged, Charged
    <2>7. \A c \in BudgetsThere : c \in BudgetsThere' /\ envelope'[c] = envelope[c]
      BY <2>2, <2>5 DEF BudgetsThere
    <2>8. \A c \in BudgetsThere' :
            \/ envelope'[c].spent <= SumFunctionOnSet(Amounts', Charged')
            \/ c \in BudgetsThere /\ envelope'[c].spent = envelope[c].spent
      BY <2>5, <2>6 DEF BudgetsThere
    <2>9. \A p \in Uses : use'[p].pc \in {"spent", "publish"} => use'[p] = use[p]
      BY <2>1 DEF Becomes, CallIs
    <2>10. QED
      BY <2>3, <2>4, <2>7, <2>8, <2>9, ChargeKept
  <1>12. QED
    BY <1>2, <1>3, <1>4, <1>5, <1>6, <1>7, <1>8, <1>9, <1>10, <1>11 DEF Ledger!Run

LEMMA ChargeAlways == Spec => [](LedgerCore /\ AmountsFacts /\ ChargeFacts)
  <1>1. TurnInv => LedgerCore
    BY DEF TurnInv
  <1>2. Spec => []LedgerCore
    BY <1>1, TurnAlways, PTL
  <1>3. Init /\ AmountsFacts => ChargeFacts
    <2> SUFFICES ASSUME Init, AmountsFacts
                 PROVE  ChargeFacts
      OBVIOUS
    <2>1. /\ BudgetsThere = {} /\ announced = {} /\ \A o \in Uses : use[o].pc = "idle"
      BY DEF Init, Ledger!Init, BudgetsThere
    <2>2. QED
      BY <2>1 DEF ChargeFacts
  <1>4. ChargeFacts /\ UNCHANGED ledgerVars => ChargeFacts'
    <2> SUFFICES ASSUME ChargeFacts, UNCHANGED ledgerVars
                 PROVE  ChargeFacts'
      OBVIOUS
    <2>1. /\ Amounts' = Amounts /\ Logged' = Logged /\ Charged' = Charged
          /\ BudgetsThere' = BudgetsThere
      BY DEF Amounts, Logged, Charged, Ledger!InBooks, BudgetsThere, ledgerVars
    <2>2. QED
      BY <2>1 DEF ChargeFacts, ledgerVars
  <1>5. (LedgerCore /\ LedgerCore' /\ AmountsFacts /\ AmountsFacts' /\ ChargeFacts
           /\ [Next]_vars) => ChargeFacts'
    <2> SUFFICES ASSUME LedgerCore, LedgerCore', AmountsFacts, AmountsFacts', ChargeFacts,
                        [Next]_vars
                 PROVE  ChargeFacts'
      OBVIOUS
    <2>1. CASE Ledger!Next
      BY <2>1, ChargeStays
    <2>2. CASE UNCHANGED ledgerVars
      BY <2>2, <1>4
    <2>3. QED
      BY <2>1, <2>2, LedgerSteps
  <1>6. QED
    BY <1>2, <1>3, <1>5, AmountsSum, PTL DEF Spec

(* However the calls interleave and stop, a budget is charged no more than  *)
(* was logged, and is announced as exceeded only if it is.                  *)
THEOREM AnnouncedAreExceeded == Spec => []AlertsAreTrue
  <1>1. LedgerCore /\ AmountsFacts /\ ChargeFacts => AlertsAreTrue
    <2> SUFFICES ASSUME LedgerCore, AmountsFacts, ChargeFacts
                 PROVE  AlertsAreTrue
      OBVIOUS
    <2> DEFINE total == Ledger!MapThenSumSet(LAMBDA e : entry[e].amount, Logged)
    <2>1. total = SumFunctionOnSet(Amounts, Logged)
      <3> DEFINE one(g) == g = [s \in SUBSET Logged |-> IF s = {} THEN 0
                   ELSE entry[CHOOSE e \in s : TRUE].amount + g[s \ {CHOOSE e \in s : TRUE}]]
                 two(g) == g = [s \in SUBSET Logged |-> IF s = {} THEN 0
                   ELSE Amounts[CHOOSE e \in s : TRUE] + g[s \ {CHOOSE e \in s : TRUE}]]
      <3>1. total = (CHOOSE g : one(g))[Logged]
        BY DEF Ledger!MapThenSumSet, Ledger!MapThenFoldSet
      <3>2. SumFunctionOnSet(Amounts, Logged) = (CHOOSE g : two(g))[Logged]
        BY DEF SumFunctionOnSet, FoldFunctionOnSet, MapThenFoldSet
      <3>3. \A g : one(g) <=> two(g)
        <4>1. \A s \in SUBSET Logged : s # {} =>
                Amounts[CHOOSE e \in s : TRUE] = entry[CHOOSE e \in s : TRUE].amount
          BY DEF Amounts, AmountsFacts
        <4> SUFFICES ASSUME NEW g
                     PROVE  one(g) <=> two(g)
          OBVIOUS
        <4>2. [s \in SUBSET Logged |-> IF s = {} THEN 0
                 ELSE entry[CHOOSE e \in s : TRUE].amount + g[s \ {CHOOSE e \in s : TRUE}]]
                = [s \in SUBSET Logged |-> IF s = {} THEN 0
                     ELSE Amounts[CHOOSE e \in s : TRUE] + g[s \ {CHOOSE e \in s : TRUE}]]
          BY <4>1
        <4>3. QED
          BY <4>2
      <3>4. (CHOOSE g : one(g)) = (CHOOSE g : two(g))
        BY <3>3
      <3>5. QED
        BY <3>1, <3>2, <3>4
    <2> HIDE DEF total
    <2>2. \A b \in BudgetsThere : envelope[b].spent <= total
      <3>1. \A b \in BudgetsThere : envelope[b].spent \in Int
        BY DEF LedgerCore, LedgerTypes, Budget, BudgetsThere
      <3>2. QED
        BY <2>1, <3>1 DEF AmountsFacts, ChargeFacts
    <2>3. \A a \in announced : total * 100 >= a[2] * envelope[a[1]].amount
      BY <2>1 DEF ChargeFacts
    <2>4. QED
      BY <2>2, <2>3 DEF total, AlertsAreTrue, Ledger!AlertsAreTrue, Logged, BudgetsThere
  <1>2. QED
    BY <1>1, ChargeAlways, PTL

-----------------------------------------------------------------------------
(* The exchange rates.  The statement keeps every row's key; a request      *)
(* finds a row of its key when it inserts only if the row's request was     *)
(* open together with it.                                                   *)

Account == FirstUsers \cup Users

ManualRow == [id : ManualRequests, user : Account, currency : Currencies,
              source : {"manual"}, at : Int, rate : Rates]

ManualCall == [pc : {"idle", "upsert", "insert", "refused", "done", "failed"},
               row : ManualRow \cup {None}, met : SUBSET ManualRequests]

Task == [pc : {"waiting", "list", "store", "done", "archived"},
         quotes : [Currencies -> Rates \cup {None}], listed : SUBSET Account,
         todo : SUBSET (Account \X Currencies), at : Int, attempt : Int]

IsRow(x) ==
  /\ x = [id |-> x.id, user |-> x.user, currency |-> x.currency, source |-> x.source,
          at |-> x.at, rate |-> x.rate]
  /\ x.at \in Int

RateTypes ==
  /\ IsFiniteSet(table) /\ \A x \in table : IsRow(x)
  /\ now \in Int /\ accounts \subseteq Account
  /\ manual \in [ManualRequests -> ManualCall]
  /\ \A m \in ManualRequests : manual[m].pc \in {"upsert", "insert"} =>
       manual[m].row \in ManualRow /\ manual[m].row.id = m
  /\ task \in [Tasks -> Task]

MetEachOther(m, o) ==
  o \in ManualRequests /\ o \in manual[m].met /\ m \in manual[o].met

(* Rows that requests inserted name their requests, which have ended. *)
RowsNamed ==
  /\ \A x \in table :
       \/ x.source = "auto_fetch"
       \/ x.source = "manual" /\ x.id \in ManualRequests /\ manual[x.id].pc = "done"
  /\ \A x, y \in table : x.source = "manual" /\ y.source = "manual" /\ x.id = y.id => x = y

OneRow ==
  \A x, y \in table : x # y /\ ExRates!Key(x) = ExRates!Key(y) =>
    x.source = "manual" /\ y.source = "manual" /\ MetEachOther(x.id, y.id)

NoneBefore ==
  \A m \in ManualRequests : manual[m].pc = "insert" =>
    \A y \in table : ExRates!Key(y) = ExRates!Key(manual[m].row) => MetEachOther(m, y.id)

OpenHaveMet ==
  \A m, o \in ExRates!OpenManual : m # o => MetEachOther(m, o)

(* A task has a row for what it has no longer to store.                     *)
Stored ==
  \A k \in Tasks : task[k].pc \in {"store", "done"} =>
    \A p \in (task[k].listed \X Currencies) \ task[k].todo :
      \E x \in table : ExRates!Key(x) = <<p[1], p[2], "auto_fetch", task[k].at>>

TasksEnd == \A k \in Tasks : task[k].pc = "done" => task[k].todo = {}

RateInv ==
  /\ RateTypes
  /\ RowsNamed /\ OneRow /\ NoneBefore /\ OpenHaveMet
  /\ Stored /\ TasksEnd

(* The rows of a step are those before it, some with another rate.          *)
RowsBecome(f) ==
  /\ f \in [table -> table']
  /\ \A z \in table' : \E y \in table : z = f[y]
  /\ \A y \in table :
       /\ IsRow(f[y]) /\ f[y].id = y.id /\ f[y].source = y.source
       /\ ExRates!Key(f[y]) = ExRates!Key(y) /\ f[y].at = y.at
       /\ f[y].user = y.user /\ f[y].currency = y.currency

RowsKept == \E f : RowsBecome(f)

LEMMA SameRowsKept ==
  ASSUME RateTypes, table' = table
  PROVE  RowsKept
  <1>1. RowsBecome([y \in table |-> y])
    BY DEF RowsBecome, RateTypes
  <1>2. QED
    BY <1>1 DEF RowsKept

LEMMA UpdatedRowsKept ==
  ASSUME RateTypes, NEW x, table' = ExRates!Updated(x)
  PROVE  RowsKept
  <1> DEFINE new(y) == [y EXCEPT !.rate = x.rate, !.at = x.at]
             f == [y \in table |-> IF y \in ExRates!Matching(x) THEN new(y) ELSE y]
  <1>1. ASSUME NEW y \in ExRates!Matching(x)
        PROVE  /\ IsRow(new(y)) /\ new(y).id = y.id /\ new(y).source = y.source
               /\ ExRates!Key(new(y)) = ExRates!Key(y) /\ new(y).at = y.at
               /\ new(y).user = y.user /\ new(y).currency = y.currency
    <2>1. y \in table /\ IsRow(y) /\ x.at = y.at
      BY DEF ExRates!Matching, ExRates!Key, RateTypes
    <2>2. y = [id |-> y.id, user |-> y.user, currency |-> y.currency, source |-> y.source,
               at |-> y.at, rate |-> y.rate]
      BY <2>1 DEF IsRow
    <2>3. /\ new(y).id = y.id /\ new(y).source = y.source /\ new(y).at = y.at
          /\ new(y).user = y.user /\ new(y).currency = y.currency
      BY <2>1, <2>2
    <2>4. new(y) = [id |-> new(y).id, user |-> new(y).user, currency |-> new(y).currency,
                    source |-> new(y).source, at |-> new(y).at, rate |-> new(y).rate]
      <3> DEFINE half == [y EXCEPT !.rate = x.rate]
      <3>1. half = [id |-> y.id, user |-> y.user, currency |-> y.currency,
                    source |-> y.source, at |-> y.at, rate |-> x.rate]
        BY <2>2
      <3>2. new(y) = [half EXCEPT !.at = x.at]
        BY <2>2
      <3> HIDE DEF half, new
      <3>3. new(y) = [id |-> y.id, user |-> y.user, currency |-> y.currency,
                      source |-> y.source, at |-> x.at, rate |-> x.rate]
        BY <3>1, <3>2
      <3>4. QED
        BY <3>3
    <2> HIDE DEF new
    <2>5. QED
      BY <2>1, <2>3, <2>4 DEF IsRow, ExRates!Key
  <1>2. table' = {f[y] : y \in table}
    BY DEF ExRates!Updated, ExRates!Matching
  <1> HIDE DEF new
  <1>3. \A y \in table :
          /\ IsRow(f[y]) /\ f[y].id = y.id /\ f[y].source = y.source
          /\ ExRates!Key(f[y]) = ExRates!Key(y) /\ f[y].at = y.at
          /\ f[y].user = y.user /\ f[y].currency = y.currency
    BY <1>1 DEF RateTypes
  <1>4. RowsBecome(f)
    <2>1. f \in [table -> table'] /\ \A z \in table' : \E y \in table : z = f[y]
      BY <1>2
    <2> HIDE DEF f
    <2>2. QED
      BY <1>3, <2>1 DEF RowsBecome
  <1>5. QED
    BY <1>4 DEF RowsKept

(* Steps that keep the rows, and in which a request that is to insert was   *)
(* to, or finds no row of its key.                                          *)
LEMMA RowsGoOn ==
  ASSUME RateInv, RowsKept,
         \A m, o \in ManualRequests : MetEachOther(m, o) => MetEachOther(m, o)',
         \A m \in ManualRequests : manual[m].pc = "done" => manual'[m].pc = "done",
         \A m \in ManualRequests : manual'[m].pc = "insert" =>
           /\ manual'[m].row = manual[m].row
           /\ \/ manual[m].pc = "insert"
              \/ \A y \in table : ExRates!Key(y) # ExRates!Key(manual[m].row)
  PROVE  RowsNamed' /\ OneRow' /\ NoneBefore'
  <1>1. PICK f : RowsBecome(f)
    BY DEF RowsKept
  <1>2. RowsNamed'
    BY <1>1 DEF RateInv, RowsNamed, RowsBecome
  <1>3. OneRow'
    <2> SUFFICES ASSUME NEW x \in table', NEW y \in table', x # y,
                        ExRates!Key(x) = ExRates!Key(y)
                 PROVE  x.source = "manual" /\ y.source = "manual" /\ MetEachOther(x.id, y.id)'
      BY DEF OneRow, ExRates!Key
    <2>1. PICK p \in table, q \in table : x = f[p] /\ y = f[q]
      BY <1>1 DEF RowsBecome
    <2>2. p # q /\ ExRates!Key(p) = ExRates!Key(q) /\ x.id = p.id /\ y.id = q.id
          /\ x.source = p.source /\ y.source = q.source
      BY <1>1, <2>1 DEF RowsBecome
    <2>3. p.source = "manual" /\ q.source = "manual" /\ MetEachOther(p.id, q.id)
      BY <2>2 DEF RateInv, OneRow
    <2>4. p.id \in ManualRequests /\ q.id \in ManualRequests
      BY <2>3 DEF RateInv, RowsNamed
    <2>5. QED
      BY <2>2, <2>3, <2>4
  <1>4. NoneBefore'
    <2> SUFFICES ASSUME NEW m \in ManualRequests, manual'[m].pc = "insert", NEW y \in table',
                        ExRates!Key(y) = ExRates!Key(manual'[m].row)
                 PROVE  MetEachOther(m, y.id)'
      BY DEF NoneBefore, ExRates!Key
    <2>1. PICK p \in table : y = f[p]
      BY <1>1 DEF RowsBecome
    <2>2. ExRates!Key(p) = ExRates!Key(manual[m].row) /\ y.id = p.id
      BY <1>1, <2>1 DEF RowsBecome
    <2>3. MetEachOther(m, p.id)
      BY <2>2 DEF RateInv, NoneBefore
    <2>4. p.id \in ManualRequests
      BY <2>3 DEF MetEachOther
    <2>5. QED
      BY <2>2, <2>3, <2>4
  <1>5. QED
    BY <1>2, <1>3, <1>4

LEMMA StoredGoOn ==
  ASSUME RateInv, RowsKept, task' = task
  PROVE  Stored' /\ TasksEnd'
  <1>1. PICK f : RowsBecome(f)
    BY DEF RowsKept
  <1>2. \A x \in table : \E y \in table' : ExRates!Key(y) = ExRates!Key(x)
    BY <1>1 DEF RowsBecome
  <1>3. Stored'
    BY <1>2 DEF RateInv, Stored, ExRates!Key
  <1>4. QED
    BY <1>3 DEF RateInv, TasksEnd

LEMMA TableStays ==
  ASSUME RateTypes, RowsKept
  PROVE  IsFiniteSet(table') /\ \A x \in table' : IsRow(x)
  <1>1. PICK f : RowsBecome(f)
    BY DEF RowsKept
  <1>2. f \in Surjection(table, table')
    BY <1>1 DEF RowsBecome, Surjection
  <1>3. IsFiniteSet(table')
    BY <1>2, FS_Surjection DEF RateTypes
  <1>4. QED
    BY <1>1, <1>3 DEF RowsBecome

RequestStages == {"idle", "upsert", "insert", "refused", "done", "failed"}

LEMMA RequestSet ==
  ASSUME RateInv, NEW m \in ManualRequests, NEW stage \in RequestStages \ {"idle", "upsert"},
         manual[m].pc # "done", manual' = [manual EXCEPT ![m].pc = stage],
         stage = "insert" => manual[m].pc = "upsert"
  PROVE  /\ manual' \in [ManualRequests -> ManualCall]
         /\ \A o \in ManualRequests : manual'[o].pc \in {"upsert", "insert"} =>
              manual'[o].row \in ManualRow /\ manual'[o].row.id = o
         /\ \A o \in ManualRequests :
              manual'[o].row = manual[o].row /\ manual'[o].met = manual[o].met
         /\ manual'[m].pc = stage
         /\ \A o \in ManualRequests : o # m => manual'[o].pc = manual[o].pc
         /\ OpenHaveMet'
  <1>1. manual \in [ManualRequests -> ManualCall] /\ manual[m] \in ManualCall
    BY DEF RateInv, RateTypes
  <1>2. manual' \in [ManualRequests -> ManualCall]
    BY <1>1 DEF ManualCall, RequestStages
  <1>3. /\ \A o \in ManualRequests :
             manual'[o].row = manual[o].row /\ manual'[o].met = manual[o].met
        /\ manual'[m].pc = stage
        /\ \A o \in ManualRequests : o # m => manual'[o].pc = manual[o].pc
    BY <1>1 DEF ManualCall
  <1>4. \A o \in ManualRequests : manual'[o].pc \in {"upsert", "insert"} =>
          manual[o].pc \in {"upsert", "insert"}
    BY <1>3
  <1>5. OpenHaveMet'
    BY <1>3, <1>4 DEF RateInv, OpenHaveMet, ExRates!OpenManual, MetEachOther
  <1>6. QED
    BY <1>2, <1>3, <1>4, <1>5 DEF RateInv, RateTypes

LEMMA RequestStays ==
  ASSUME RateInv, NEW m \in ManualRequests, ExRates!SetManualRate(m)
  PROVE  RateInv'
  <1> USE DEF RateInv
  <1>1. manual \in [ManualRequests -> ManualCall] /\ manual[m] \in ManualCall
    BY DEF RateTypes
  <1>2. CASE ExRates!Submit(m)
    <2>1. PICK u \in accounts, c \in Currencies, rate \in Rates, at \in Moments \cup {now} :
            manual' = [o \in ManualRequests |->
              IF o = m THEN [pc |-> IF rate > 0 THEN "upsert" ELSE "refused",
                             row |-> [id |-> m, user |-> u, currency |-> c,
                                      source |-> "manual", at |-> at, rate |-> rate],
                             met |-> ExRates!OpenManual]
              ELSE IF o \in ExRates!OpenManual THEN [manual[o] EXCEPT !.met = @ \cup {m}]
              ELSE manual[o]]
      BY <1>2 DEF ExRates!Submit
    <2>2. UNCHANGED <<accounts, table, now, task>> /\ manual[m].pc = "idle"
      BY <1>2 DEF ExRates!Submit
    <2> DEFINE x == [id |-> m, user |-> u, currency |-> c, source |-> "manual", at |-> at,
                     rate |-> rate]
    <2>3. x \in ManualRow
      BY RateAssumption DEF RateTypes, ManualRow
    <2>4. /\ manual'[m].pc \in {"upsert", "refused"} /\ manual'[m].row = x
          /\ manual'[m].met = ExRates!OpenManual /\ manual'[m] \in ManualCall
      BY <2>1, <2>3 DEF ManualCall, ExRates!OpenManual
    <2>5. ASSUME NEW o \in ManualRequests, o # m
          PROVE  /\ manual'[o].pc = manual[o].pc /\ manual'[o].row = manual[o].row
                 /\ manual'[o].met = IF o \in ExRates!OpenManual THEN manual[o].met \cup {m}
                                                                 ELSE manual[o].met
                 /\ manual'[o] \in ManualCall
      BY <1>1, <2>1, <2>5 DEF ManualCall
    <2> HIDE DEF x
    <2>6. manual' \in [ManualRequests -> ManualCall]
      BY <2>1, <2>4, <2>5
    <2>7. RateTypes'
      <3>1. x.id = m
        BY DEF x
      <3>2. ASSUME NEW o \in ManualRequests, manual'[o].pc \in {"upsert", "insert"}
            PROVE  manual'[o].row \in ManualRow /\ manual'[o].row.id = o
        BY <2>3, <2>4, <2>5, <3>1, <3>2 DEF RateTypes
      <3>3. QED
        BY <2>2, <2>6, <3>2 DEF RateTypes
    <2>8. OpenHaveMet'
      <3>1. \A p \in ManualRequests : p # m /\ p \in ExRates!OpenManual' =>
              /\ p \in ExRates!OpenManual /\ m \in manual'[p].met /\ p \in manual'[m].met
              /\ manual'[p].met = manual[p].met \cup {m}
        BY <2>4, <2>5 DEF ExRates!OpenManual
      <3>2. \A p, q \in ManualRequests : p # q /\ p # m /\ q # m
              /\ p \in ExRates!OpenManual' /\ q \in ExRates!OpenManual' => MetEachOther(p, q)'
        BY <3>1 DEF OpenHaveMet, MetEachOther
      <3>3. \A p \in ManualRequests : p # m /\ p \in ExRates!OpenManual' =>
              MetEachOther(p, m)' /\ MetEachOther(m, p)'
        BY <3>1 DEF MetEachOther
      <3>4. ExRates!OpenManual' \subseteq ManualRequests
        BY DEF ExRates!OpenManual
      <3>5. QED
        BY <3>2, <3>3, <3>4 DEF OpenHaveMet
    <2>9. Stored' /\ TasksEnd'
      BY <2>2, SameRowsKept, StoredGoOn
    <2>10. RowsNamed'
      BY <2>2, <2>5 DEF RowsNamed
    <2>11. \A p \in ManualRequests : \A o : manual[p].pc # "idle" /\ manual[o].pc # "idle"
             /\ MetEachOther(p, o) => MetEachOther(p, o)'
      BY <2>2, <2>5 DEF MetEachOther
    <2>12. OneRow'
      BY <2>2, <2>11 DEF RowsNamed, OneRow, ExRates!Key
    <2>13. NoneBefore'
      <3>1. \A p \in ManualRequests : manual'[p].pc = "insert" =>
              manual[p].pc = "insert" /\ manual'[p].row = manual[p].row
        BY <2>4, <2>5
      <3>2. \A p \in ManualRequests : manual'[p].pc = "insert" =>
              \A y \in table : ExRates!Key(y) = ExRates!Key(manual[p].row) =>
                y.source = "manual" /\ y.id \in ManualRequests /\ manual[y.id].pc = "done"
        BY <3>1 DEF RowsNamed, ExRates!Key, RateTypes, ManualRow
      <3>3. QED
        BY <2>2, <2>11, <3>1, <3>2 DEF NoneBefore, ExRates!Key
    <2>14. QED
      BY <2>7, <2>8, <2>9, <2>10, <2>12, <2>13
  <1>3. CASE ExRates!UpdateRows(m)
    <2> DEFINE x == manual[m].row
    <2>1. UNCHANGED <<accounts, now, task>> /\ manual[m].pc = "upsert"
      BY <1>3 DEF ExRates!UpdateRows
    <2>2. CASE ExRates!Matching(x) # {}
      <3>1. table' = ExRates!Updated(x) /\ manual' = [manual EXCEPT ![m].pc = "done"]
        BY <1>3, <2>2 DEF ExRates!UpdateRows
      <3>2. RowsKept
        BY <3>1, UpdatedRowsKept
      <3>3. /\ manual' \in [ManualRequests -> ManualCall] /\ OpenHaveMet'
            /\ \A o \in ManualRequests : manual'[o].pc \in {"upsert", "insert"} =>
                 manual'[o].row \in ManualRow /\ manual'[o].row.id = o
            /\ \A o \in ManualRequests :
                 manual'[o].row = manual[o].row /\ manual'[o].met = manual[o].met
            /\ manual'[m].pc = "done"
            /\ \A o \in ManualRequests : o # m => manual'[o].pc = manual[o].pc
        BY <2>1, <3>1, RequestSet DEF RequestStages
      <3>4. RateTypes'
        BY <2>1, <3>2, <3>3, TableStays DEF RateTypes
      <3>5. RowsNamed' /\ OneRow' /\ NoneBefore'
        BY <2>1, <3>2, <3>3, RowsGoOn DEF MetEachOther
      <3>6. Stored' /\ TasksEnd'
        BY <2>1, <3>2, StoredGoOn
      <3>7. QED
        BY <3>3, <3>4, <3>5, <3>6
    <2>3. CASE ExRates!Matching(x) = {}
      <3>1. table' = table /\ manual' = [manual EXCEPT ![m].pc = "insert"]
        BY <1>3, <2>3 DEF ExRates!UpdateRows
      <3>2. RowsKept
        BY <3>1, SameRowsKept
      <3>3. /\ manual' \in [ManualRequests -> ManualCall] /\ OpenHaveMet'
            /\ \A o \in ManualRequests : manual'[o].pc \in {"upsert", "insert"} =>
                 manual'[o].row \in ManualRow /\ manual'[o].row.id = o
            /\ \A o \in ManualRequests :
                 manual'[o].row = manual[o].row /\ manual'[o].met = manual[o].met
            /\ manual'[m].pc = "insert"
            /\ \A o \in ManualRequests : o # m => manual'[o].pc = manual[o].pc
        BY <2>1, <3>1, RequestSet DEF RequestStages
      <3>4. RateTypes'
        BY <2>1, <3>1, <3>3 DEF RateTypes
      <3>5. \A y \in table : ExRates!Key(y) # ExRates!Key(x)
        BY <2>3 DEF ExRates!Matching
      <3>6. RowsNamed' /\ OneRow' /\ NoneBefore'
        BY <2>1, <3>2, <3>3, <3>5, RowsGoOn DEF MetEachOther
      <3>7. Stored' /\ TasksEnd'
        BY <2>1, <3>2, StoredGoOn
      <3>8. QED
        BY <3>3, <3>4, <3>6, <3>7
    <2>4. QED
      BY <2>2, <2>3
  <1>4. CASE ExRates!InsertRow(m)
    <2> DEFINE x == manual[m].row
    <2>1. /\ UNCHANGED <<accounts, now, task>> /\ manual[m].pc = "insert"
          /\ table' = table \cup {x} /\ manual' = [manual EXCEPT ![m].pc = "done"]
      BY <1>4 DEF ExRates!InsertRow
    <2>2. x \in ManualRow /\ x.id = m /\ x.source = "manual"
      BY <2>1 DEF RateTypes, ManualRow
    <2>3. /\ manual' \in [ManualRequests -> ManualCall] /\ OpenHaveMet'
          /\ \A o \in ManualRequests : manual'[o].pc \in {"upsert", "insert"} =>
               manual'[o].row \in ManualRow /\ manual'[o].row.id = o
          /\ \A o \in ManualRequests :
               manual'[o].row = manual[o].row /\ manual'[o].met = manual[o].met
          /\ manual'[m].pc = "done"
          /\ \A o \in ManualRequests : o # m => manual'[o].pc = manual[o].pc
      BY <2>1, RequestSet DEF RequestStages
    <2>4. IsRow(x)
      BY <2>2 DEF ManualRow, IsRow
    <2>5. RateTypes'
      BY <2>1, <2>3, <2>4, FS_AddElement DEF RateTypes
    <2>6. \A y \in table : y.source = "manual" => y.id # m
      BY <2>1 DEF RowsNamed
    <2> HIDE DEF x
    <2>7. RowsNamed'
      BY <2>1, <2>2, <2>3, <2>6 DEF RowsNamed
    <2>8. \A p, o : p \in ManualRequests => (MetEachOther(p, o)' <=> MetEachOther(p, o))
      BY <2>3 DEF MetEachOther
    <2>9. \A y \in table : ExRates!Key(y) = ExRates!Key(x) =>
            y.source = "manual" /\ MetEachOther(m, y.id) /\ MetEachOther(y.id, m)
      BY <2>1, <2>2 DEF NoneBefore, MetEachOther, ExRates!Key, x
    <2>10. OneRow'
      <3> SUFFICES ASSUME NEW y \in table', NEW z \in table', y # z,
                          ExRates!Key(y) = ExRates!Key(z)
                   PROVE  y.source = "manual" /\ z.source = "manual" /\ MetEachOther(y.id, z.id)'
        BY DEF OneRow, ExRates!Key
      <3>1. CASE y \in table /\ z \in table
        BY <2>8, <3>1 DEF OneRow, RowsNamed
      <3>2. CASE y = x \/ z = x
        BY <2>1, <2>2, <2>8, <2>9, <3>2 DEF MetEachOther
      <3>3. QED
        BY <2>1, <3>1, <3>2
    <2>11. NoneBefore'
      <3> SUFFICES ASSUME NEW p \in ManualRequests, manual'[p].pc = "insert", NEW y \in table',
                          ExRates!Key(y) = ExRates!Key(manual'[p].row)
                   PROVE  MetEachOther(p, y.id)'
        BY DEF NoneBefore, ExRates!Key
      <3>1. p # m /\ manual[p].pc = "insert" /\ manual'[p].row = manual[p].row
        BY <2>3
      <3>2. CASE y \in table
        BY <2>8, <3>1, <3>2 DEF NoneBefore
      <3>3. CASE y = x
        BY <2>1, <2>2, <2>8, <3>1, <3>3 DEF OpenHaveMet, ExRates!OpenManual
      <3>4. QED
        BY <2>1, <3>2, <3>3
    <2>12. Stored' /\ TasksEnd'
      BY <2>1 DEF Stored, TasksEnd, ExRates!Key
    <2>13. QED
      BY <2>3, <2>5, <2>7, <2>10, <2>11, <2>12
  <1>5. CASE ExRates!FailManual(m)
    <2>1. /\ UNCHANGED <<accounts, table, now, task>> /\ manual[m].pc \in {"upsert", "insert"}
          /\ manual' = [manual EXCEPT ![m].pc = "failed"]
      BY <1>5 DEF ExRates!FailManual, ExRates!OpenManual
    <2>2. RowsKept
      BY <2>1, SameRowsKept
    <2>3. /\ manual' \in [ManualRequests -> ManualCall] /\ OpenHaveMet'
          /\ \A o \in ManualRequests : manual'[o].pc \in {"upsert", "insert"} =>
               manual'[o].row \in ManualRow /\ manual'[o].row.id = o
          /\ \A o \in ManualRequests :
               manual'[o].row = manual[o].row /\ manual'[o].met = manual[o].met
          /\ manual'[m].pc = "failed"
          /\ \A o \in ManualRequests : o # m => manual'[o].pc = manual[o].pc
      BY <2>1, RequestSet DEF RequestStages
    <2>4. RateTypes'
      BY <2>1, <2>3 DEF RateTypes
    <2>5. RowsNamed' /\ OneRow' /\ NoneBefore'
      BY <2>1, <2>2, <2>3, RowsGoOn DEF MetEachOther
    <2>6. Stored' /\ TasksEnd'
      BY <2>1, <2>2, StoredGoOn
    <2>7. QED
      BY <2>3, <2>4, <2>5, <2>6
  <1>6. QED
    BY <1>2, <1>3, <1>4, <1>5 DEF ExRates!SetManualRate

(* Steps that leave the requests alone. *)
LEMMA RequestsKept ==
  ASSUME RateInv, RowsKept, manual' = manual
  PROVE  RowsNamed' /\ OneRow' /\ NoneBefore' /\ OpenHaveMet'
  <1>1. \A m, o \in ManualRequests : MetEachOther(m, o) => MetEachOther(m, o)'
    BY DEF MetEachOther
  <1>2. OpenHaveMet'
    BY <1>1 DEF RateInv, OpenHaveMet, ExRates!OpenManual
  <1>3. QED
    BY <1>1, <1>2, RowsGoOn

(* An error gives a task back. *)
LEMMA GivenBackIs ==
  ASSUME RateInv, NEW k \in Tasks, RowsKept, task' = [task EXCEPT ![k] = ExRates!GivenBack(k)]
  PROVE  task' \in [Tasks -> Task] /\ Stored' /\ TasksEnd'
  <1>1. task \in [Tasks -> Task] /\ task[k] \in Task
    BY DEF RateInv, RateTypes
  <1>2. /\ ExRates!Waiting \in Task
        /\ task[k].attempt \in Int /\ task[k].attempt + 1 \in Int
    BY <1>1 DEF ExRates!Waiting, Task
  <1>3. ExRates!GivenBack(k) \in Task /\ ExRates!GivenBack(k).pc \in {"waiting", "archived"}
    <2> DEFINE stage == IF task[k].attempt < Attempts THEN "waiting" ELSE "archived"
               half == [ExRates!Waiting EXCEPT !.attempt = task[k].attempt + 1]
    <2>1. half \in Task
      BY <1>2 DEF Task
    <2>2. ExRates!GivenBack(k) = [half EXCEPT !.pc = stage]
      BY DEF ExRates!GivenBack, ExRates!Waiting
    <2>3. stage \in {"waiting", "archived"}
      OBVIOUS
    <2> HIDE DEF half, stage
    <2>4. QED
      BY <2>1, <2>2, <2>3 DEF Task
  <1>4. /\ task' \in [Tasks -> Task] /\ task'[k].pc \in {"waiting", "archived"}
        /\ \A j \in Tasks : j # k => task'[j] = task[j]
    BY <1>1, <1>3
  <1>5. PICK f : RowsBecome(f)
    BY DEF RowsKept
  <1>6. \A x \in table : \E y \in table' : ExRates!Key(y) = ExRates!Key(x)
    BY <1>5 DEF RowsBecome
  <1>7. Stored'
    BY <1>4, <1>6 DEF RateInv, Stored, ExRates!Key
  <1>8. QED
    BY <1>4, <1>7 DEF RateInv, TasksEnd

LEMMA TaskStays ==
  ASSUME RateInv, NEW k \in Tasks, ExRates!HandleFetchExchangeRatesTask(k)
  PROVE  RateInv'
  <1>1. task \in [Tasks -> Task] /\ task[k] \in Task
    BY DEF RateInv, RateTypes
  <1>2. UNCHANGED <<accounts, now, manual>>
    BY DEF ExRates!HandleFetchExchangeRatesTask, ExRates!FetchRates, ExRates!ListUsers,
           ExRates!StoreRate, ExRates!FinishTask
  <1>3. ASSUME table' = table, task' \in [Tasks -> Task], Stored', TasksEnd'
        PROVE  RateInv'
    BY <1>2, <1>3, SameRowsKept, RequestsKept DEF RateInv, RateTypes
  <1>4. CASE ExRates!FetchRates(k)
    <2>1. table' = table
      BY <1>4 DEF ExRates!FetchRates
    <2>2. ASSUME NEW q \in [Currencies -> (Rates \ {0}) \cup {None}],
                 task' = [task EXCEPT ![k].quotes = q, ![k].pc = "list"]
          PROVE  RateInv'
      <3> DEFINE new == [task[k] EXCEPT !.quotes = q, !.pc = "list"]
      <3>1. new \in Task /\ new.pc = "list"
        BY <1>1, <2>2 DEF Task
      <3>2. task' = [task EXCEPT ![k] = new]
        BY <2>2
      <3> HIDE DEF new
      <3>3. task' \in [Tasks -> Task]
        BY <1>1, <3>1, <3>2
      <3>4. task'[k].pc = "list" /\ \A j \in Tasks : j # k => task'[j] = task[j]
        BY <1>1, <3>1, <3>2
      <3>5. Stored' /\ TasksEnd'
        BY <2>1, <3>4 DEF RateInv, Stored, TasksEnd, ExRates!Key
      <3>6. QED
        BY <1>3, <2>1, <3>3, <3>5
    <2>3. CASE task' = [task EXCEPT ![k] = ExRates!GivenBack(k)]
      <3>1. RowsKept
        BY <2>1, SameRowsKept DEF RateInv
      <3>2. task' \in [Tasks -> Task] /\ Stored' /\ TasksEnd'
        BY <2>3, <3>1, GivenBackIs
      <3>3. QED
        BY <1>3, <2>1, <3>2
    <2>4. QED
      BY <1>4, <2>2, <2>3 DEF ExRates!FetchRates
  <1>5. CASE ExRates!ListUsers(k)
    <2> DEFINE new == [task[k] EXCEPT !.listed = accounts, !.todo = accounts \X Currencies,
                                      !.at = now, !.pc = "store"]
    <2>1. table' = table /\ task' = [task EXCEPT ![k] = new]
      BY <1>1, <1>5 DEF ExRates!ListUsers
    <2>2. accounts \subseteq Account /\ now \in Int
      BY DEF RateInv, RateTypes
    <2>3. /\ new.listed = accounts /\ new.todo = accounts \X Currencies /\ new.pc = "store"
          /\ new \in Task
      BY <1>1, <2>2 DEF Task
    <2> HIDE DEF new
    <2>4. /\ task' \in [Tasks -> Task] /\ task'[k] = new
          /\ \A j \in Tasks : j # k => task'[j] = task[j]
      BY <1>1, <2>1, <2>3
    <2>5. Stored' /\ TasksEnd'
      BY <2>1, <2>3, <2>4 DEF RateInv, Stored, TasksEnd, ExRates!Key
    <2>6. QED
      BY <1>3, <2>1, <2>4, <2>5
  <1>6. CASE ExRates!FinishTask(k)
    <2>1. /\ table' = table /\ task' = [task EXCEPT ![k].pc = "done"]
          /\ task[k].pc = "store" /\ task[k].todo = {}
      BY <1>6 DEF ExRates!FinishTask
    <2>2. /\ task' \in [Tasks -> Task] /\ task'[k].todo = {} /\ task'[k].pc = "done"
          /\ task'[k].listed = task[k].listed /\ task'[k].at = task[k].at
          /\ \A j \in Tasks : j # k => task'[j] = task[j]
      BY <1>1, <2>1 DEF Task
    <2>3. Stored' /\ TasksEnd'
      BY <2>1, <2>2 DEF RateInv, Stored, TasksEnd, ExRates!Key
    <2>4. QED
      BY <1>3, <2>1, <2>2, <2>3
  <1>7. CASE ExRates!StoreRate(k)
    <2> DEFINE todo == task[k].todo
    <2>1. /\ task[k].pc = "store"
          /\ \E u \in {p[1] : p \in todo} :
               LET c == ExRates!Min({p[2] : p \in {q \in todo : q[1] = u}})
                   x == [id |-> <<k, task[k].attempt, u, c>>, user |-> u, currency |-> c,
                         source |-> "auto_fetch", at |-> task[k].at,
                         rate |-> task[k].quotes[c]]
               IN \/ /\ table' = ExRates!Upserted(x)
                     /\ task' = [task EXCEPT ![k].todo = @ \ {<<u, c>>}]
                  \/ /\ task' = [task EXCEPT ![k] = ExRates!GivenBack(k)]
                     /\ UNCHANGED table
      BY <1>7 DEF ExRates!StoreRate
    <2>2. ASSUME NEW u, NEW c, NEW id, NEW rate, NEW x,
                 x = [id |-> id, user |-> u, currency |-> c, source |-> "auto_fetch",
                      at |-> task[k].at, rate |-> rate],
                 table' = ExRates!Upserted(x),
                 task' = [task EXCEPT ![k].todo = @ \ {<<u, c>>}]
          PROVE  RateInv'
      <3>1. /\ task' \in [Tasks -> Task] /\ task'[k].todo = todo \ {<<u, c>>}
            /\ task'[k].pc = "store" /\ task'[k].listed = task[k].listed
            /\ task'[k].at = task[k].at
            /\ \A j \in Tasks : j # k => task'[j] = task[j]
        BY <1>1, <2>1, <2>2 DEF Task
      <3>2. IsRow(x) /\ ExRates!Key(x) = <<u, c, "auto_fetch", task[k].at>>
        BY <1>1, <2>2 DEF IsRow, ExRates!Key, Task
      <3>3. CASE ExRates!Matching(x) # {}
        <4>1. RowsKept
          BY <2>2, <3>3, UpdatedRowsKept DEF ExRates!Upserted, RateInv
        <4>2. PICK f : RowsBecome(f)
          BY <4>1 DEF RowsKept
        <4>3. \A y \in table : \E z \in table' : ExRates!Key(z) = ExRates!Key(y)
          BY <4>2 DEF RowsBecome
        <4>4. \E z \in table' : ExRates!Key(z) = ExRates!Key(x)
          BY <3>3, <4>3 DEF ExRates!Matching
        <4>5. RateTypes'
          BY <1>2, <3>1, <4>1, TableStays DEF RateInv, RateTypes
        <4>6. RowsNamed' /\ OneRow' /\ NoneBefore' /\ OpenHaveMet'
          BY <1>2, <4>1, RequestsKept
        <4>7. Stored'
          <5> SUFFICES ASSUME NEW j \in Tasks, task'[j].pc \in {"store", "done"},
                              NEW p \in (task'[j].listed \X Currencies) \ task'[j].todo
                       PROVE  \E z \in table' :
                                ExRates!Key(z) = <<p[1], p[2], "auto_fetch", task'[j].at>>
            BY DEF Stored, ExRates!Key
          <5>1. CASE j = k /\ p = <<u, c>>
            BY <3>1, <3>2, <4>4, <5>1
          <5>2. CASE ~(j = k /\ p = <<u, c>>)
            <6>1. /\ task[j].pc \in {"store", "done"} /\ task'[j].at = task[j].at
                  /\ p \in (task[j].listed \X Currencies) \ task[j].todo
              BY <2>1, <3>1, <5>2
            <6>2. PICK y \in table :
                    ExRates!Key(y) = <<p[1], p[2], "auto_fetch", task[j].at>>
              BY <6>1 DEF RateInv, Stored
            <6>3. QED
              BY <4>3, <6>1, <6>2
          <5>3. QED
            BY <5>1, <5>2
        <4>8. TasksEnd'
          BY <3>1 DEF RateInv, TasksEnd
        <4>9. QED
          BY <4>5, <4>6, <4>7, <4>8 DEF RateInv
      <3>4. CASE ExRates!Matching(x) = {}
        <4>1. table' = table \cup {x}
          BY <2>2, <3>4 DEF ExRates!Upserted
        <4>2. /\ x.source = "auto_fetch"
              /\ \A y \in table : ExRates!Key(y) # ExRates!Key(x)
          BY <2>2, <3>4 DEF ExRates!Matching
        <4>3. RateTypes'
          BY <1>2, <3>1, <3>2, <4>1, FS_AddElement DEF RateInv, RateTypes
        <4>4. RowsNamed'
          BY <1>2, <4>1, <4>2 DEF RateInv, RowsNamed
        <4>5. OneRow' /\ OpenHaveMet'
          BY <1>2, <4>1, <4>2 DEF RateInv, OneRow, OpenHaveMet, ExRates!OpenManual,
                                  MetEachOther, ExRates!Key
        <4>6. NoneBefore'
          <5>1. \A m \in ManualRequests : manual[m].pc = "insert" =>
                  ExRates!Key(x) # ExRates!Key(manual[m].row)
            BY <4>2 DEF RateInv, RateTypes, ManualRow, ExRates!Key
          <5>2. QED
            BY <1>2, <4>1, <5>1 DEF RateInv, NoneBefore, MetEachOther, ExRates!Key
        <4>7. Stored'
          <5> SUFFICES ASSUME NEW j \in Tasks, task'[j].pc \in {"store", "done"},
                              NEW p \in (task'[j].listed \X Currencies) \ task'[j].todo
                       PROVE  \E z \in table' :
                                ExRates!Key(z) = <<p[1], p[2], "auto_fetch", task'[j].at>>
            BY DEF Stored, ExRates!Key
          <5>1. CASE j = k /\ p = <<u, c>>
            BY <3>1, <3>2, <4>1, <5>1
          <5>2. CASE ~(j = k /\ p = <<u, c>>)
            <6>1. /\ task[j].pc \in {"store", "done"} /\ task'[j].at = task[j].at
                  /\ p \in (task[j].listed \X Currencies) \ task[j].todo
              BY <2>1, <3>1, <5>2
            <6>2. QED
              BY <4>1, <6>1 DEF RateInv, Stored
          <5>3. QED
            BY <5>1, <5>2
        <4>8. TasksEnd'
          BY <3>1 DEF RateInv, TasksEnd
        <4>9. QED
          BY <4>3, <4>4, <4>5, <4>6, <4>7, <4>8 DEF RateInv
      <3>5. QED
        BY <3>3, <3>4
    <2>3. CASE task' = [task EXCEPT ![k] = ExRates!GivenBack(k)] /\ table' = table
      <3>1. RowsKept
        BY <2>3, SameRowsKept DEF RateInv
      <3>2. task' \in [Tasks -> Task] /\ Stored' /\ TasksEnd'
        BY <2>3, <3>1, GivenBackIs
      <3>3. QED
        BY <1>3, <2>3, <3>2
    <2>4. QED
      BY <2>1, <2>2, <2>3
  <1>8. QED
    BY <1>4, <1>5, <1>6, <1>7 DEF ExRates!HandleFetchExchangeRatesTask

LEMMA RateStarts == Init => RateInv
  <1> SUFFICES ASSUME Init
               PROVE  RateInv
    OBVIOUS
  <1>1. /\ accounts = FirstUsers /\ table = {} /\ now = 0
        /\ manual = [m \in ManualRequests |-> [pc |-> "idle", row |-> None, met |-> {}]]
        /\ task = [k \in Tasks |-> ExRates!Waiting]
    BY DEF Init, ExRates!Init
  <1>2. ExRates!Waiting \in Task /\ ExRates!Waiting.pc = "waiting"
    BY DEF ExRates!Waiting, Task
  <1>3. RateTypes
    BY <1>1, <1>2, FS_EmptySet DEF RateTypes, Account, ManualCall
  <1>4. RowsNamed /\ OneRow /\ NoneBefore /\ OpenHaveMet
    BY <1>1 DEF RowsNamed, OneRow, NoneBefore, OpenHaveMet, ExRates!OpenManual
  <1>5. Stored /\ TasksEnd
    BY <1>1, <1>2 DEF Stored, TasksEnd
  <1>6. QED
    BY <1>3, <1>4, <1>5 DEF RateInv

LEMMA RateStays == RateInv /\ [Next]_vars => RateInv'
  <1> SUFFICES ASSUME RateInv, [Next]_vars
               PROVE  RateInv'
    OBVIOUS
  <1>1. ASSUME table' = table, manual' = manual, task' = task, now' \in Int,
               accounts' \subseteq Account
        PROVE  RateInv'
    <2>1. RowsKept
      BY <1>1, SameRowsKept DEF RateInv
    <2>2. RowsNamed' /\ OneRow' /\ NoneBefore' /\ OpenHaveMet'
      BY <1>1, <2>1, RequestsKept
    <2>3. Stored' /\ TasksEnd'
      BY <1>1, <2>1, StoredGoOn
    <2>4. RateTypes'
      BY <1>1 DEF RateInv, RateTypes
    <2>5. QED
      BY <2>2, <2>3, <2>4 DEF RateInv
  <1>2. now \in Int /\ accounts \subseteq Account
    BY DEF RateInv, RateTypes
  <1>3. CASE UNCHANGED rateVars
    BY <1>1, <1>2, <1>3 DEF rateVars
  <1>4. CASE ExRates!Next
    <2>1. ASSUME NEW u \in Users, ExRates!Register(u)
          PROVE  RateInv'
      BY <1>1, <1>2, <2>1 DEF ExRates!Register, Account
    <2>2. CASE ExRates!Tick
      BY <1>1, <1>2, <2>2 DEF ExRates!Tick
    <2>3. QED
      BY <1>4, <2>1, <2>2, RequestStays, TaskStays DEF ExRates!Next
  <1>5. QED
    BY <1>3, <1>4, RateSteps

LEMMA RateAlways == Spec => []RateInv
  BY RateStarts, RateStays, PTL DEF Spec

(* Rows are never deleted, and none takes another time. *)
LEMMA RowsLast == RateInv /\ [Next]_vars =>
    \A x \in table : \E y \in table' :
      y.user = x.user /\ y.currency = x.currency /\ y.at = x.at
  <1> SUFFICES ASSUME RateInv, [Next]_vars
               PROVE  \A x \in table : \E y \in table' :
                        y.user = x.user /\ y.currency = x.currency /\ y.at = x.at
    OBVIOUS
  <1>1. ASSUME NEW x, table' = ExRates!Updated(x)
        PROVE  \A p \in table : \E y \in table' :
                 y.user = p.user /\ y.currency = p.currency /\ y.at = p.at
    <2>1. PICK f : RowsBecome(f)
      BY <1>1, UpdatedRowsKept DEF RateInv, RowsKept
    <2>2. QED
      BY <2>1 DEF RowsBecome
  <1>2. CASE table \subseteq table'
    BY <1>2
  <1>3. ASSUME NEW m \in ManualRequests, ExRates!SetManualRate(m)
        PROVE  table \subseteq table' \/ \E x : table' = ExRates!Updated(x)
    BY <1>3 DEF ExRates!SetManualRate, ExRates!Submit, ExRates!UpdateRows,
                ExRates!InsertRow, ExRates!FailManual
  <1>4. ASSUME NEW k \in Tasks, ExRates!HandleFetchExchangeRatesTask(k)
        PROVE  table \subseteq table' \/ \E x : table' = ExRates!Updated(x)
    <2>1. CASE ExRates!StoreRate(k)
      <3>1. table' = table \/ \E x : table' = ExRates!Upserted(x)
        BY <2>1 DEF ExRates!StoreRate
      <3>2. QED
        BY <3>1 DEF ExRates!Upserted
    <2>2. CASE ExRates!FetchRates(k) \/ ExRates!ListUsers(k) \/ ExRates!FinishTask(k)
      BY <2>2 DEF ExRates!FetchRates, ExRates!ListUsers, ExRates!FinishTask
    <2>3. QED
      BY <1>4, <2>1, <2>2 DEF ExRates!HandleFetchExchangeRatesTask
  <1>5. CASE UNCHANGED rateVars
    BY <1>2, <1>5 DEF rateVars
  <1>6. CASE ExRates!Next
    <2>1. table \subseteq table' \/ \E x : table' = ExRates!Updated(x)
      BY <1>3, <1>4, <1>6 DEF ExRates!Next, ExRates!Register, ExRates!Tick
    <2>2. QED
      BY <1>1, <1>2, <2>1
  <1>7. QED
    BY <1>5, <1>6, RateSteps

(* Of finitely many rows one is a latest. *)
LEMMA LatestExists ==
  ASSUME NEW R, IsFiniteSet(R), R # {}, \A x \in R : x.at \in Int
  PROVE  \E x \in R : \A y \in R : y.at <= x.at
  <1> DEFINE F == {S \in SUBSET R : S # {} /\ ~\E x \in S : \A y \in S : y.at <= x.at}
  <1> SUFFICES ASSUME F # {}
               PROVE  FALSE
    BY R \in SUBSET R
  <1>1. \A S \in SUBSET R : IsFiniteSet(S)
    BY FS_Subset
  <1>2. PICK S : Smallest(F, S)
    BY <1>1, SmallestExists
  <1>3. S \in SUBSET R /\ S # {} /\ ~\E x \in S : \A y \in S : y.at <= x.at
    BY <1>2 DEF Smallest
  <1>4. PICK x \in S : TRUE
    BY <1>3
  <1> DEFINE T == S \ {x}
  <1>5. T # {}
    BY <1>3, <1>4
  <1>6. Cardinality(T) = Cardinality(S) - 1 /\ Cardinality(S) \in Nat
    BY <1>1, <1>3, <1>4, FS_RemoveElement, FS_CardinalityType
  <1>7. T \notin F
    <2>1. \A U \in F : Cardinality(S) <= Cardinality(U)
      BY <1>2 DEF Smallest
    <2> HIDE DEF F
    <2>2. QED
      BY <1>6, <2>1
  <1>8. PICK z \in T : \A y \in T : y.at <= z.at
    BY <1>3, <1>5, <1>7
  <1>9. x.at \in Int /\ z.at \in Int
    BY <1>3, <1>4, <1>8
  <1>10. CASE x.at <= z.at
    BY <1>3, <1>8, <1>10
  <1>11. CASE z.at < x.at
    <2>1. \A y \in S : y.at <= x.at
      <3> TAKE y \in S
      <3>1. y.at \in Int
        BY <1>3
      <3>2. QED
        BY <1>8, <1>9, <1>11, <3>1
    <2>2. QED
      BY <1>3, <1>4, <2>1
  <1>12. QED
    BY <1>9, <1>10, <1>11

(* SetManualRate and the fetch tasks keep one row of a user, pair, source   *)
(* and time: two such rows come only of two requests, sent by hand, that    *)
(* were open together and both found none.                                  *)
THEOREM OneRowInTurnHolds == Spec => []OneRowInTurn
  <1>1. RateInv => OneRowInTurn
    BY DEF RateInv, RowsNamed, OneRow, MetEachOther, OneRowInTurn, ExRates!OneRowInTurn
  <1>2. QED
    BY <1>1, RateAlways, PTL

(* A fetch task that asynq need not run again has stored every currency for *)
(* every user that it listed, at the one time of its last attempt, whatever *)
(* the attempts before it left behind.                                      *)
THEOREM TaskStoredEverything == Spec => []TaskStoredAll
  <1>1. RateInv => TaskStoredAll
    <2> SUFFICES ASSUME RateInv, NEW k \in Tasks, task[k].pc = "done",
                        NEW u \in task[k].listed, NEW c \in Currencies
                 PROVE  \E x \in ExRates!RatesOf(u, c) :
                          x.source = "auto_fetch" /\ x.at = task[k].at
      BY DEF TaskStoredAll, ExRates!TaskStoredAll
    <2>1. <<u, c>> \in (task[k].listed \X Currencies) \ task[k].todo
      BY DEF RateInv, TasksEnd
    <2>2. PICK x \in table : ExRates!Key(x) = <<u, c, "auto_fetch", task[k].at>>
      BY <2>1 DEF RateInv, Stored
    <2>3. QED
      BY <2>2 DEF ExRates!Key, ExRates!RatesOf
  <1>2. QED
    BY <1>1, RateAlways, PTL

(* No step of a request or a task takes a user's latest rate of a currency  *)
(* back to an older one.                                                    *)
THEOREM NewerStays == Spec => NewerRateStays
  <1> DEFINE Act == \A u \in Users, c \in Currencies :
               \A x \in ExRates!Latest(u, c) :
                 \E y \in ExRates!Latest(u, c)' : y.at >= x.at
  <1>1. RateInv /\ RateInv' /\ [Next]_vars => Act
    <2> SUFFICES ASSUME RateInv, RateInv', [Next]_vars,
                        NEW u \in Users, NEW c \in Currencies,
                        NEW x \in ExRates!Latest(u, c)
                 PROVE  \E y \in ExRates!Latest(u, c)' : y.at >= x.at
      OBVIOUS
    <2> DEFINE R == {p \in table' : p.user = u /\ p.currency = c}
    <2>1. x \in table /\ x.user = u /\ x.currency = c
      BY DEF ExRates!Latest, ExRates!RatesOf
    <2>2. PICK y \in R : y.at = x.at
      BY <2>1, RowsLast
    <2>3. IsFiniteSet(table') /\ \A p \in table' : p.at \in Int
      BY DEF RateInv, RateTypes, IsRow
    <2>4. IsFiniteSet(R) /\ \A p \in R : p.at \in Int
      BY <2>3, FS_Subset
    <2>5. PICK z \in R : \A p \in R : p.at <= z.at
      BY <2>2, <2>4, LatestExists
    <2>6. z \in ExRates!Latest(u, c)'
      BY <2>5 DEF ExRates!Latest, ExRates!RatesOf
    <2>7. z.at >= x.at
      BY <2>2, <2>4, <2>5
    <2>8. QED
      BY <2>6, <2>7
  <1>2. RateInv /\ RateInv' /\ [Next]_vars => [Act]_ExRates!vars
    BY <1>1
  <1>3. QED
    BY <1>2, RateAlways, PTL DEF NewerRateStays, ExRates!NewerRateStays, Spec

-----------------------------------------------------------------------------
(* The goals of the device.  While calls come one at a time, the goals as   *)
(* they will be once the open call has made its saves are in one order.     *)

GoalRow == [amount : Int, target : Int, done : BOOLEAN, priority : Int]

Saves == [goal : Goals, row : GoalRow]

GoalTypes ==
  /\ goals \in [Goals -> GoalRow \cup {None}]
  /\ given \in [Goals -> Nat] /\ torn \in [Goals -> Nat]
  /\ edit \in [Edits -> [pc : {"idle", "contribution", "save", "done"},
                         new : Goals \cup {None}, gift : Nat, saves : SUBSET Saves]]
  /\ oneByOne \in BOOLEAN /\ unbroken \in BOOLEAN

Open(o) == edit[o].pc \notin Savings!Closed

AllClosed == \A o \in Edits : edit[o].pc \in Savings!Closed

Alone(S) == \A s, t \in S : s = t

(* Only an allocation has a gift; what a call is to save was given.         *)
GiftsGiven ==
  /\ \A g \in Goals : goals[g] = None => given[g] = 0 /\ torn[g] = 0
  /\ \A g \in Savings!Live : goals[g].amount <= given[g]
  /\ \A o \in Edits :
       /\ edit[o].gift # 0 => Open(o) /\ Alone(edit[o].saves)
                              /\ \A s \in edit[o].saves : goals[s.goal] # None
       /\ edit[o].pc = "contribution" => edit[o].gift # 0
       /\ \A s \in edit[o].saves :
            s.row.amount <= given[s.goal] + IF edit[o].pc = "contribution" THEN edit[o].gift
                                                                          ELSE 0

Saved(o) == {s.goal : s \in edit[o].saves}

(* The gift of an open call that is recorded and does not show yet.         *)
Hidden(o, g) == IF edit[o].pc = "save" /\ g \in Saved(o) THEN edit[o].gift ELSE 0

Balanced == \A g \in Savings!Live : goals[g].amount + torn[g] = given[g]

OwedBy(o) ==
  /\ \A g \in Savings!Live : goals[g].amount + torn[g] + Hidden(o, g) = given[g]
  /\ \A s \in edit[o].saves :
       s.row.amount = edit[o].gift + IF goals[s.goal] = None THEN 0
                                                             ELSE goals[s.goal].amount

InOrder == \A g, h \in Savings!Live : g # h => goals[g].priority # goals[h].priority

(* A call puts goals in other places, or leaves them in theirs or adds one. *)
OrderedBy(o) ==
  /\ \A s, t \in edit[o].saves :
       s.goal = t.goal \/ s.row.priority = t.row.priority => s = t
  /\ \A s \in edit[o].saves : \A g \in Savings!Live \ Saved(o) :
       s.row.priority # goals[g].priority
  /\ \A g, h \in Savings!Live \ Saved(o) : g # h => goals[g].priority # goals[h].priority
  /\ \/ /\ Alone(edit[o].saves) /\ InOrder
        /\ \A s \in edit[o].saves :
             goals[s.goal] # None => s.row.priority = goals[s.goal].priority
     \/ \A s \in edit[o].saves :
          goals[s.goal] # None /\ s.row.priority # goals[s.goal].priority

OneAtATime ==
  oneByOne =>
    /\ \A o, p \in Edits : Open(o) /\ Open(p) => o = p
    /\ AllClosed => Balanced /\ (unbroken => InOrder)
    /\ \A o \in Edits : Open(o) => OwedBy(o) /\ (unbroken => OrderedBy(o))

GoalInv == GoalTypes /\ GiftsGiven /\ OneAtATime

GoalCall == [pc : {"idle", "contribution", "save", "done"}, new : Goals \cup {None},
         gift : Nat, saves : SUBSET Saves]

LEMMA EditBecomes ==
  ASSUME GoalTypes, NEW o \in Edits, NEW new \in GoalCall, edit' = [edit EXCEPT ![o] = new]
  PROVE  /\ edit' \in [Edits -> GoalCall] /\ edit'[o] = new
         /\ \A p \in Edits : p # o => edit'[p] = edit[p]
  BY DEF GoalTypes, GoalCall

(* A call up to its first write. *)
LEMMA CallBegins ==
  ASSUME GoalInv, NEW o \in Edits, Savings!Begins(o),
         UNCHANGED <<goals, given, torn, unbroken>>,
         NEW new \in GoalCall, edit' = [edit EXCEPT ![o] = new],
         new.pc \in {"contribution", "save"} \/ (new.pc = "done" /\ new.saves = {}),
         new.pc = "contribution" <=> new.gift # 0,
         new.gift # 0 => Alone(new.saves) /\ \A s \in new.saves : goals[s.goal] # None,
         \A s \in new.saves :
           s.row.amount = new.gift + IF goals[s.goal] = None THEN 0
                                                           ELSE goals[s.goal].amount,
         InOrder /\ Open(o)' => OrderedBy(o)'
  PROVE  GoalInv'
  <1> USE DEF GoalInv
  <1>1. /\ edit' \in [Edits -> GoalCall] /\ edit'[o] = new
        /\ \A p \in Edits : p # o => edit'[p] = edit[p]
    BY EditBecomes
  <1>2. /\ edit[o].pc = "idle" /\ oneByOne' \in BOOLEAN
        /\ oneByOne' => oneByOne /\ \A p \in Edits : edit[p].pc \in Savings!Closed
    BY DEF Savings!Begins, GoalTypes
  <1>3. GoalTypes'
    BY <1>1, <1>2 DEF GoalTypes, GoalCall
  <1>4. \A s \in new.saves : s \in Saves /\ s.goal \in Goals
    BY DEF GoalCall, Saves
  <1>5. GiftsGiven'
    <2>1. /\ \A g \in Goals : goals'[g] = None => given'[g] = 0 /\ torn'[g] = 0
          /\ \A g \in Savings!Live' : goals'[g].amount <= given'[g]
      BY DEF GiftsGiven, Savings!Live
    <2>2. ASSUME NEW s \in new.saves
          PROVE  s.row.amount <= given[s.goal] + IF new.pc = "contribution" THEN new.gift ELSE 0
      <3>1. new.gift \in Nat /\ given[s.goal] \in Nat
        BY <1>4, <2>2 DEF GoalCall, GoalTypes
      <3>2. CASE goals[s.goal] = None
        BY <3>1, <3>2
      <3>3. CASE goals[s.goal] # None
        <4>1. /\ goals[s.goal].amount <= given[s.goal] /\ goals[s.goal].amount \in Int
          BY <1>4, <3>3 DEF GiftsGiven, Savings!Live, GoalTypes, GoalRow
        <4>2. QED
          BY <3>1, <3>3, <4>1
      <3>4. QED
        BY <3>2, <3>3
    <2>3. ASSUME NEW p \in Edits
          PROVE  /\ edit'[p].gift # 0 =>
                      /\ edit'[p].pc \notin Savings!Closed /\ Alone(edit'[p].saves)
                      /\ \A s \in edit'[p].saves : goals'[s.goal] # None
                 /\ edit'[p].pc = "contribution" => edit'[p].gift # 0
                 /\ \A s \in edit'[p].saves :
                      s.row.amount <= given'[s.goal] +
                        IF edit'[p].pc = "contribution" THEN edit'[p].gift ELSE 0
      <3>1. CASE p = o
        BY <1>1, <2>2, <3>1 DEF Savings!Closed
      <3>2. CASE p # o
        BY <1>1, <3>2 DEF GiftsGiven, Open
      <3>3. QED
        BY <3>1, <3>2
    <2>4. QED
      BY <2>1, <2>3 DEF GiftsGiven, Open, Alone, Savings!Closed
  <1>6. OneAtATime'
    <2> SUFFICES ASSUME oneByOne'
                 PROVE  /\ \A p, q \in Edits : Open(p)' /\ Open(q)' => p = q
                        /\ AllClosed' => Balanced' /\ (unbroken' => InOrder')
                        /\ \A p \in Edits : Open(p)' => OwedBy(p)' /\ (unbroken' => OrderedBy(p)')
      BY DEF OneAtATime
    <2>1. Balanced /\ (unbroken => InOrder) /\ Balanced' /\ (unbroken' => InOrder')
      BY <1>2 DEF OneAtATime, AllClosed, Balanced, InOrder, Savings!Live
    <2>2. \A p \in Edits : Open(p)' => p = o
      BY <1>1, <1>2 DEF Open, Savings!Closed
    <2>3. OwedBy(o)'
      <3>1. \A g : Hidden(o, g)' = 0
        BY <1>1 DEF Hidden
      <3>2. \A g \in Savings!Live' : goals'[g].amount + torn'[g] + 0 = given'[g]
        BY <2>1 DEF Balanced, Savings!Live, GoalTypes, GoalRow
      <3>3. QED
        BY <1>1, <3>1, <3>2 DEF OwedBy
    <2>4. QED
      BY <2>1, <2>2, <2>3
  <1>7. QED
    BY <1>3, <1>5, <1>6

LEMMA LiveRow ==
  ASSUME GoalTypes, NEW g \in Savings!Live
  PROVE  /\ g \in Goals /\ goals[g] \in GoalRow /\ goals[g] # None
         /\ goals[g].amount \in Int /\ goals[g].priority \in Int /\ goals[g].target \in Int
  BY DEF GoalTypes, GoalRow, Savings!Live

(* A whole number that no goal's place is: what a new goal gets.            *)
LEMMA NextIsFree ==
  ASSUME GoalTypes
  PROVE  /\ Savings!NextPriority \in Int
         /\ \A g \in Savings!Live : goals[g].priority # Savings!NextPriority
  <1> DEFINE P == {goals[g].priority : g \in Savings!Live}
             R == {[at |-> goals[g].priority] : g \in Savings!Live}
  <1>1. IsFiniteSet(Savings!Live)
    BY GoalAssumption, FS_Subset DEF Savings!Live
  <1>2. CASE Savings!Live = {}
    BY <1>2 DEF Savings!NextPriority
  <1>3. CASE Savings!Live # {}
    <2>1. [g \in Savings!Live |-> [at |-> goals[g].priority]] \in Surjection(Savings!Live, R)
      BY DEF Surjection
    <2>2. IsFiniteSet(R) /\ R # {}
      BY <1>1, <1>3, <2>1, FS_Surjection
    <2>3. \A x \in R : x.at \in Int
      BY LiveRow
    <2>4. PICK x \in R : \A y \in R : y.at <= x.at
      BY <2>2, <2>3, LatestExists
    <2>5. PICK h \in Savings!Live : x = [at |-> goals[h].priority]
      BY <2>4
    <2>6. ASSUME NEW g \in Savings!Live
          PROVE  goals[g].priority <= goals[h].priority
      <3> DEFINE y == [at |-> goals[g].priority]
      <3>1. y \in R
        OBVIOUS
      <3>2. y.at <= x.at
        BY <2>4, <3>1
      <3>3. QED
        BY <2>5, <3>2
    <2>7. \A g \in Savings!Live : goals[g].priority \in Int
      BY LiveRow
    <2>8. goals[h].priority \in P /\ \A y \in P : goals[h].priority >= y
      BY <2>5, <2>6, <2>7
    <2>9. Savings!Max(P) \in P /\ \A y \in P : Savings!Max(P) >= y
      BY <2>8 DEF Savings!Max
    <2>10. Savings!NextPriority = Savings!Max(P) + 1
      BY <1>3 DEF Savings!NextPriority
    <2>11. Savings!Max(P) \in Int
      BY <2>7, <2>9
    <2> HIDE DEF P
    <2>12. \A g \in Savings!Live : goals[g].priority \in P
      BY DEF P
    <2>13. QED
      BY <2>7, <2>9, <2>10, <2>11, <2>12
  <1>4. QED
    BY <1>2, <1>3

LEMMA CreateStays ==
  ASSUME GoalInv, NEW o \in Edits, Savings!CreateGoal(o)
  PROVE  GoalInv'
  <1>1. PICK g \in Goals, target \in Targets :
          /\ goals[g] = None
          /\ edit' = [edit EXCEPT ![o].pc = "save", ![o].new = g,
               ![o].saves = {Savings!Save(g, [amount |-> 0, target |-> target, done |-> FALSE,
                                              priority |-> Savings!NextPriority])}]
    BY DEF Savings!CreateGoal
  <1>2. Savings!Begins(o) /\ UNCHANGED <<goals, given, torn, unbroken>>
    BY DEF Savings!CreateGoal
  <1> DEFINE s == [goal |-> g, row |-> [amount |-> 0, target |-> target, done |-> FALSE,
                                        priority |-> Savings!NextPriority]]
             new == [edit[o] EXCEPT !.pc = "save", !.new = g, !.saves = {s}]
  <1>3. edit[o] \in GoalCall /\ edit[o].gift = 0 /\ edit \in [Edits -> GoalCall]
    BY <1>2 DEF GoalInv, GoalTypes, GiftsGiven, Open, GoalCall, Savings!Begins, Savings!Closed
  <1>4. s \in Saves /\ s.goal = g /\ s.row.amount = 0 /\ s.row.priority = Savings!NextPriority
    BY NextIsFree, GoalAssumption DEF Saves, GoalRow, GoalInv
  <1>5. edit' = [edit EXCEPT ![o] = new]
    BY <1>1, <1>3 DEF Savings!Save
  <1> HIDE DEF s
  <1>6. new \in GoalCall /\ new.pc = "save" /\ new.gift = 0 /\ new.saves = {s}
    BY <1>3, <1>4 DEF GoalCall
  <1> HIDE DEF new
  <1>7. ASSUME InOrder
        PROVE  OrderedBy(o)'
    <2>1. edit'[o].saves = {s} /\ Savings!Live' = Savings!Live /\ Saved(o)' = {g}
      <3>1. edit'[o] = new
        BY <1>5, <1>6, EditBecomes DEF GoalInv
      <3>2. edit'[o].saves = {s}
        BY <1>6, <3>1
      <3>3. {u.goal : u \in edit'[o].saves} = {g}
        BY <1>4, <3>2
      <3>4. QED
        BY <1>2, <3>2, <3>3 DEF Savings!Live, Saved
    <2>2. \A h \in Savings!Live : s.row.priority # goals[h].priority
      BY <1>4, NextIsFree DEF GoalInv
    <2>3. Alone({s}) /\ InOrder'
      BY <1>2, <1>7 DEF Alone, InOrder, Savings!Live
    <2>4. \A u \in edit'[o].saves : u = s /\ u.goal = g /\ goals'[u.goal] = None
      BY <1>1, <1>2, <1>4, <2>1
    <2>5. \A u \in edit'[o].saves : \A h \in Savings!Live' \ Saved(o)' :
            u.row.priority # goals'[h].priority
      BY <1>2, <2>1, <2>2, <2>4
    <2>6. \A h, k \in Savings!Live' \ Saved(o)' :
            h # k => goals'[h].priority # goals'[k].priority
      BY <2>3 DEF InOrder
    <2>7. Alone(edit[o].saves)'
      BY <2>4 DEF Alone
    <2>8. QED
      BY <2>3, <2>4, <2>5, <2>6, <2>7 DEF OrderedBy
  <1>8. \A u \in new.saves :
          u.row.amount = new.gift + IF goals[u.goal] = None THEN 0 ELSE goals[u.goal].amount
    BY <1>1, <1>4, <1>6
  <1>9. InOrder /\ Open(o)' => OrderedBy(o)'
    BY <1>7
  <1>10. QED
    BY <1>2, <1>5, <1>6, <1>8, <1>9, CallBegins

(* The calls that save the copy of one goal, its place unchanged.           *)
LEMMA OneSaveBegins ==
  ASSUME GoalInv, NEW o \in Edits, Savings!Begins(o),
         UNCHANGED <<goals, given, torn, unbroken>>,
         NEW g \in Savings!Live, NEW copied \in GoalRow, copied.priority = goals[g].priority,
         NEW stage \in {"contribution", "save"}, NEW gift \in Nat,
         stage = "contribution" <=> gift # 0,
         copied.amount = gift + goals[g].amount,
         edit' = [edit EXCEPT ![o].pc = stage, ![o].gift = gift,
                              ![o].saves = {[goal |-> g, row |-> copied]}]
  PROVE  GoalInv'
  <1> DEFINE s == [goal |-> g, row |-> copied]
             new == [edit[o] EXCEPT !.pc = stage, !.gift = gift, !.saves = {s}]
  <1>1. edit[o] \in GoalCall /\ edit \in [Edits -> GoalCall]
    BY DEF GoalInv, GoalTypes, GoalCall
  <1>2. s \in Saves /\ s.goal = g /\ s.row = copied /\ goals[g] # None
    BY LiveRow DEF Saves, GoalInv
  <1>3. edit' = [edit EXCEPT ![o] = new]
    BY <1>1
  <1> HIDE DEF s
  <1>4. new \in GoalCall /\ new.pc = stage /\ new.gift = gift /\ new.saves = {s}
    BY <1>1, <1>2 DEF GoalCall
  <1> HIDE DEF new
  <1>5. ASSUME InOrder
        PROVE  OrderedBy(o)'
    <2>1. edit'[o].saves = {s} /\ Savings!Live' = Savings!Live /\ Saved(o)' = {g}
      <3>1. edit'[o] = new
        BY <1>3, <1>4, EditBecomes DEF GoalInv
      <3>2. edit'[o].saves = {s}
        BY <1>4, <3>1
      <3>3. {u.goal : u \in edit'[o].saves} = {g}
        BY <1>2, <3>2
      <3>4. QED
        BY <3>2, <3>3 DEF Savings!Live, Saved
    <2>2. \A h \in Savings!Live : h # g => s.row.priority # goals[h].priority
      BY <1>2, <1>5 DEF InOrder
    <2>3. Alone({s}) /\ InOrder'
      BY <1>5 DEF Alone, InOrder, Savings!Live
    <2>4. Alone(edit'[o].saves) /\ s.row.priority = goals'[s.goal].priority
      BY <1>2, <2>1, <2>3
    <2>5. \A h \in Savings!Live' \ Saved(o)' : s.row.priority # goals'[h].priority
      BY <2>1, <2>2
    <2>6. \A h, k \in Savings!Live' \ Saved(o)' :
            h # k => goals'[h].priority # goals'[k].priority
      BY <2>3 DEF InOrder
    <2>7. \A u \in edit'[o].saves : u = s
      BY <2>1
    <2>8. QED
      BY <2>3, <2>4, <2>5, <2>6, <2>7 DEF OrderedBy
  <1>6. Alone(new.saves) /\ (new.pc = "contribution" <=> new.gift # 0)
        /\ new.pc \in {"contribution", "save"}
        /\ \A u \in new.saves : goals[u.goal] # None
    BY <1>2, <1>4 DEF Alone
  <1>7. \A u \in new.saves :
          u.row.amount = new.gift + IF goals[u.goal] = None THEN 0 ELSE goals[u.goal].amount
    BY <1>2, <1>4
  <1>8. InOrder /\ Open(o)' => OrderedBy(o)'
    BY <1>5
  <1>9. QED
    BY <1>3, <1>4, <1>6, <1>7, <1>8, CallBegins

LEMMA UpdateStays ==
  ASSUME GoalInv, NEW o \in Edits, Savings!UpdateGoal(o)
  PROVE  GoalInv'
  <1>1. PICK g \in Savings!Live, target \in Targets :
          edit' = [edit EXCEPT ![o].pc = "save",
                     ![o].saves = {Savings!Save(g, [goals[g] EXCEPT !.target = target,
                                                      !.done = goals[g].amount >= target])}]
    BY DEF Savings!UpdateGoal
  <1>2. Savings!Begins(o) /\ UNCHANGED <<goals, given, torn, unbroken>>
    BY DEF Savings!UpdateGoal
  <1> DEFINE copied == [goals[g] EXCEPT !.target = target, !.done = goals[g].amount >= target]
  <1>3. edit \in [Edits -> GoalCall] /\ edit[o] \in GoalCall /\ edit[o].gift = 0
    BY <1>2 DEF GoalInv, GoalTypes, GiftsGiven, Open, GoalCall, Savings!Begins, Savings!Closed
  <1>4. copied \in GoalRow /\ copied.priority = goals[g].priority
        /\ copied.amount = 0 + goals[g].amount
    <2>1. goals[g] \in GoalRow /\ goals[g].amount \in Int /\ target \in Int
      BY LiveRow, GoalAssumption DEF GoalInv
    <2>2. (goals[g].amount >= target) \in BOOLEAN
      OBVIOUS
    <2> DEFINE full == goals[g].amount >= target
    <2> HIDE DEF full
    <2>3. full \in BOOLEAN
      BY <2>2 DEF full
    <2>4. copied = [goals[g] EXCEPT !.target = target, !.done = full]
      BY DEF full
    <2> HIDE DEF copied
    <2>5. copied \in GoalRow
      BY <2>1, <2>3, <2>4 DEF GoalRow
    <2>6. copied.priority = goals[g].priority /\ copied.amount = goals[g].amount
      BY <2>1, <2>4 DEF GoalRow
    <2>7. QED
      BY <2>1, <2>5, <2>6
  <1>5. edit' = [edit EXCEPT ![o].pc = "save", ![o].saves = {[goal |-> g, row |-> copied]}]
    BY <1>1 DEF Savings!Save
  <1> HIDE DEF copied
  <1>6. edit' = [edit EXCEPT ![o].pc = "save", ![o].gift = 0,
                             ![o].saves = {[goal |-> g, row |-> copied]}]
    BY <1>3, <1>5 DEF GoalCall
  <1>7. "save" \in {"contribution", "save"} /\ 0 \in Nat /\ ("save" = "contribution" <=> 0 # 0)
    OBVIOUS
  <1>8. QED
    BY <1>2, <1>4, <1>6, <1>7, OneSaveBegins

LEMMA AllocateStays ==
  ASSUME GoalInv, NEW o \in Edits, Savings!AllocateToGoal(o)
  PROVE  GoalInv'
  <1>1. PICK g \in Savings!Live, gift \in Gifts :
          /\ gift > 0
          /\ edit' = [edit EXCEPT ![o].pc = "contribution", ![o].gift = gift,
               ![o].saves = {Savings!Save(g,
                 [goals[g] EXCEPT !.amount = goals[g].amount + gift,
                                  !.done = goals[g].amount + gift >= goals[g].target])}]
    BY DEF Savings!AllocateToGoal
  <1>2. Savings!Begins(o) /\ UNCHANGED <<goals, given, torn, unbroken>>
    BY DEF Savings!AllocateToGoal
  <1> DEFINE copied == [goals[g] EXCEPT !.amount = goals[g].amount + gift,
                                     !.done = goals[g].amount + gift >= goals[g].target]
  <1>3. gift \in Nat /\ gift # 0
    BY <1>1, GoalAssumption
  <1>4. copied \in GoalRow /\ copied.priority = goals[g].priority
        /\ copied.amount = gift + goals[g].amount
    <2>1. goals[g] \in GoalRow /\ goals[g].amount \in Int /\ goals[g].target \in Int
      BY LiveRow DEF GoalInv
    <2>2. (goals[g].amount + gift >= goals[g].target) \in BOOLEAN
      OBVIOUS
    <2> DEFINE full == goals[g].amount + gift >= goals[g].target
               sum == goals[g].amount + gift
    <2> HIDE DEF full, sum
    <2>3. full \in BOOLEAN /\ sum \in Int /\ sum = gift + goals[g].amount
      BY <1>3, <2>1, <2>2 DEF full, sum
    <2>4. copied = [goals[g] EXCEPT !.amount = sum, !.done = full]
      BY DEF full, sum
    <2> HIDE DEF copied
    <2>5. QED
      BY <2>1, <2>3, <2>4 DEF GoalRow
  <1>5. edit' = [edit EXCEPT ![o].pc = "contribution", ![o].gift = gift,
                             ![o].saves = {[goal |-> g, row |-> copied]}]
    BY <1>1 DEF Savings!Save
  <1> HIDE DEF copied
  <1>6. QED
    BY <1>2, <1>3, <1>4, <1>5, OneSaveBegins

(* An order of the goals gives each its own place. *)
LEMMA OrderIsOneToOne ==
  ASSUME NEW order \in Savings!Orders(Savings!Live)
  PROVE  /\ order \in [DOMAIN order -> Savings!Live] /\ DOMAIN order \subseteq Nat
         /\ \A g \in Savings!Live : \E i \in DOMAIN order : g = order[i]
         /\ \A i, j \in DOMAIN order : order[i] = order[j] => i = j
  <1> DEFINE n == Cardinality(Savings!Live)
  <1>1. IsFiniteSet(Savings!Live)
    BY GoalAssumption, FS_Subset DEF Savings!Live
  <1>2. n \in Nat
    BY <1>1, FS_CardinalityType
  <1>3. Savings!Cardinality(Savings!Live) = n
    BY DEF Cardinality, Savings!Cardinality
  <1>4. order \in [1..n -> Savings!Live] /\ {order[i] : i \in DOMAIN order} = Savings!Live
    BY <1>3 DEF Savings!Orders
  <1> HIDE DEF n
  <1>5. order \in Surjection(1..n, Savings!Live)
    BY <1>4 DEF Surjection
  <1>6. IsFiniteSet(1..n) /\ Cardinality(1..n) = n
    BY <1>2, FS_Interval
  <1>7. order \in Injection(1..n, Savings!Live)
    BY <1>5, <1>6, FS_SurjSameCardinalityImpliesInj DEF n
  <1>8. QED
    BY <1>2, <1>4, <1>7 DEF Injection, IsInjective

LEMMA ReorderStays ==
  ASSUME GoalInv, NEW o \in Edits, Savings!ReorderGoals(o)
  PROVE  GoalInv'
  <1>1. PICK order \in Savings!Orders(Savings!Live) :
          edit' = [edit EXCEPT
                     ![o].pc = IF Savings!Moves(order) = {} THEN "done" ELSE "save",
                     ![o].saves = Savings!Moves(order)]
    BY DEF Savings!ReorderGoals
  <1>2. Savings!Begins(o) /\ UNCHANGED <<goals, given, torn, unbroken>>
    BY DEF Savings!ReorderGoals
  <1>3. /\ order \in [DOMAIN order -> Savings!Live] /\ DOMAIN order \subseteq Nat
        /\ \A g \in Savings!Live : \E i \in DOMAIN order : g = order[i]
        /\ \A i, j \in DOMAIN order : order[i] = order[j] => i = j
    BY OrderIsOneToOne
  <1> DEFINE moves == Savings!Moves(order)
             stage == IF moves = {} THEN "done" ELSE "save"
             new == [edit[o] EXCEPT !.pc = stage, !.saves = moves]
             moved == {i \in DOMAIN order : goals[order[i]].priority # i - 1}
  <1>4. edit \in [Edits -> GoalCall] /\ edit[o] \in GoalCall /\ edit[o].gift = 0
    BY <1>2 DEF GoalInv, GoalTypes, GiftsGiven, Open, GoalCall, Savings!Begins, Savings!Closed
  <1>5. /\ \A s \in moves : \E i \in moved :
             /\ s \in Saves /\ s.goal = order[i] /\ s.row.priority = i - 1
             /\ s.row.amount = goals[order[i]].amount
             /\ s = [goal |-> order[i], row |-> [goals[order[i]] EXCEPT !.priority = i - 1]]
        /\ \A i \in moved : \E s \in moves : s.goal = order[i]
    <2>1. ASSUME NEW i \in moved, NEW s,
                 s = [goal |-> order[i], row |-> [goals[order[i]] EXCEPT !.priority = i - 1]]
          PROVE  /\ s \in Saves /\ s.goal = order[i] /\ s.row.priority = i - 1
                 /\ s.row.amount = goals[order[i]].amount
      <3>1. order[i] \in Savings!Live /\ i - 1 \in Int
        BY <1>3
      <3>2. goals[order[i]] \in GoalRow /\ order[i] \in Goals
        BY <3>1, LiveRow DEF GoalInv
      <3>3. QED
        BY <2>1, <3>1, <3>2 DEF Saves, GoalRow
    <2>2. moves = {[goal |-> order[i], row |-> [goals[order[i]] EXCEPT !.priority = i - 1]] :
                     i \in moved}
      BY DEF Savings!Moves, Savings!Save
    <2> HIDE DEF moved, moves
    <2>3. QED
      BY <2>1, <2>2
  <1>6. edit' = [edit EXCEPT ![o] = new]
    BY <1>1, <1>4
  <1> HIDE DEF moves
  <1>7. moves \subseteq Saves
    BY <1>5
  <1>8. new \in GoalCall /\ new.pc = stage /\ new.gift = 0 /\ new.saves = moves
    BY <1>4, <1>7 DEF GoalCall
  <1> HIDE DEF new
  <1>9. \A s \in moves : s.goal \in Savings!Live /\ goals[s.goal] # None
                         /\ s.row.amount = goals[s.goal].amount /\ goals[s.goal].amount \in Int
    BY <1>3, <1>5, LiveRow DEF GoalInv
  <1>10. ASSUME InOrder
         PROVE  OrderedBy(o)'
    <2>1. /\ edit'[o].saves = moves /\ Savings!Live' = Savings!Live
          /\ Saved(o)' = {s.goal : s \in moves}
      BY <1>2, <1>6, <1>8, EditBecomes DEF GoalInv, Savings!Live, Saved
    <2>2. ASSUME NEW s \in moves, NEW t \in moves,
                 s.goal = t.goal \/ s.row.priority = t.row.priority
          PROVE  s = t
      <3>1. PICK i \in moved :
              /\ s.goal = order[i] /\ s.row.priority = i - 1
              /\ s = [goal |-> order[i], row |-> [goals[order[i]] EXCEPT !.priority = i - 1]]
        BY <1>5
      <3>2. PICK j \in moved :
              /\ t.goal = order[j] /\ t.row.priority = j - 1
              /\ t = [goal |-> order[j], row |-> [goals[order[j]] EXCEPT !.priority = j - 1]]
        BY <1>5
      <3>3. i = j
        <4>1. i \in Nat /\ j \in Nat /\ i \in DOMAIN order /\ j \in DOMAIN order
          BY <1>3
        <4>2. QED
          BY <1>3, <2>2, <3>1, <3>2, <4>1
      <3>4. QED
        BY <3>1, <3>2, <3>3
    <2>3. ASSUME NEW g \in Savings!Live \ {s.goal : s \in moves}
          PROVE  \E i \in DOMAIN order \ moved : g = order[i] /\ goals[g].priority = i - 1
      <3>1. PICK i \in DOMAIN order : g = order[i]
        BY <1>3
      <3>2. i \notin moved
        BY <1>5, <2>3, <3>1
      <3>3. QED
        BY <3>1, <3>2
    <2>4. ASSUME NEW s \in moves, NEW g \in Savings!Live \ {t.goal : t \in moves}
          PROVE  s.row.priority # goals[g].priority
      <3>1. PICK i \in moved : s.goal = order[i] /\ s.row.priority = i - 1
        BY <1>5
      <3>2. PICK j \in DOMAIN order \ moved : g = order[j] /\ goals[g].priority = j - 1
        BY <2>3
      <3>3. i # j /\ i \in Nat /\ j \in Nat
        BY <1>3, <3>1, <3>2
      <3>4. QED
        BY <3>1, <3>2, <3>3
    <2>5. \A s \in moves : s.row.priority # goals[s.goal].priority
      BY <1>5
    <2>6. \A s \in moves : goals[s.goal] # None
      BY <1>9
    <2>7. QED
      BY <1>2, <1>10, <2>1, <2>2, <2>4, <2>5, <2>6 DEF OrderedBy, InOrder
  <1>11. new.pc \in {"contribution", "save"} \/ (new.pc = "done" /\ new.saves = {})
    BY <1>8
  <1>12. (new.pc = "contribution" <=> new.gift # 0) /\ ~(new.gift # 0)
    BY <1>8
  <1>13. \A s \in new.saves :
           s.row.amount = new.gift + IF goals[s.goal] = None THEN 0 ELSE goals[s.goal].amount
    BY <1>8, <1>9
  <1>14. InOrder /\ Open(o)' => OrderedBy(o)'
    BY <1>10
  <1>15. QED
    BY <1>2, <1>6, <1>8, <1>11, <1>12, <1>13, <1>14, CallBegins

LEMMA AddStays ==
  ASSUME GoalInv, NEW o \in Edits, Savings!AddContribution(o)
  PROVE  GoalInv'
  <1> USE DEF GoalInv
  <1>1. PICK s \in edit[o].saves : given' = [given EXCEPT ![s.goal] = @ + edit[o].gift]
    BY DEF Savings!AddContribution
  <1>2. /\ UNCHANGED <<goals, torn, oneByOne, unbroken>> /\ edit[o].pc = "contribution"
        /\ edit' = [edit EXCEPT ![o].pc = "save"]
    BY DEF Savings!AddContribution
  <1> DEFINE new == [edit[o] EXCEPT !.pc = "save"]
  <1>3. edit \in [Edits -> GoalCall] /\ edit[o] \in GoalCall
    BY DEF GoalTypes, GoalCall
  <1>4. /\ new \in GoalCall /\ new.pc = "save" /\ new.saves = edit[o].saves
        /\ new.gift = edit[o].gift /\ edit' = [edit EXCEPT ![o] = new]
    BY <1>2, <1>3 DEF GoalCall
  <1> HIDE DEF new
  <1>5. /\ edit' \in [Edits -> GoalCall] /\ edit'[o] = new
        /\ \A p \in Edits : p # o => edit'[p] = edit[p]
    BY <1>4, EditBecomes
  <1>6. /\ s \in Saves /\ s.goal \in Goals /\ s.row.amount \in Int
        /\ edit[o].gift \in Nat /\ edit[o].gift # 0
    BY <1>2, <1>3 DEF GoalCall, Saves, GiftsGiven, GoalRow
  <1>7. /\ Alone(edit[o].saves) /\ edit[o].saves = {s} /\ goals[s.goal] # None
        /\ s.row.amount <= given[s.goal] + edit[o].gift
    BY <1>2, <1>6 DEF GiftsGiven, Alone
  <1>8. /\ given' \in [Goals -> Nat] /\ given'[s.goal] = given[s.goal] + edit[o].gift
        /\ \A g \in Goals : g # s.goal => given'[g] = given[g]
        /\ \A g \in Goals : given[g] <= given'[g] /\ given[g] \in Nat
    BY <1>1, <1>6 DEF GoalTypes
  <1>9. GoalTypes'
    BY <1>2, <1>5, <1>8 DEF GoalTypes, GoalCall
  <1>10. Savings!Live' = Savings!Live
    BY <1>2 DEF Savings!Live
  <1>11. GiftsGiven'
    <2>1. \A g \in Goals : goals'[g] = None => given'[g] = 0 /\ torn'[g] = 0
      BY <1>2, <1>7, <1>8 DEF GiftsGiven
    <2>2. \A g \in Savings!Live' : goals'[g].amount <= given'[g]
      <3> SUFFICES ASSUME NEW g \in Savings!Live
                   PROVE  goals[g].amount <= given'[g]
        BY <1>2, <1>10
      <3>1. goals[g].amount \in Int /\ g \in Goals /\ goals[g].amount <= given[g]
        BY LiveRow DEF GiftsGiven
      <3>2. QED
        BY <1>8, <3>1
    <2>3. ASSUME NEW p \in Edits
          PROVE  /\ edit'[p].gift # 0 =>
                      /\ edit'[p].pc \notin Savings!Closed /\ Alone(edit'[p].saves)
                      /\ \A t \in edit'[p].saves : goals'[t.goal] # None
                 /\ edit'[p].pc = "contribution" => edit'[p].gift # 0
                 /\ \A t \in edit'[p].saves :
                      t.row.amount <= given'[t.goal] +
                        IF edit'[p].pc = "contribution" THEN edit'[p].gift ELSE 0
      <3>1. CASE p = o
        <4>1. edit'[p].pc = "save" /\ edit'[p].saves = {s}
          BY <1>4, <1>5, <1>7, <3>1
        <4>2. Alone({s}) /\ \A t \in {s} : goals'[t.goal] # None
          BY <1>2, <1>7 DEF Alone
        <4>3. s.row.amount <= given'[s.goal] + 0
          BY <1>6, <1>7, <1>8
        <4>4. QED
          BY <4>1, <4>2, <4>3 DEF Savings!Closed
      <3>2. CASE p # o
        <4>1. edit'[p] = edit[p] /\ edit[p] \in GoalCall
          BY <1>5, <3>2 DEF GoalTypes, GoalCall
        <4>2. /\ edit[p].gift # 0 =>
                   /\ edit[p].pc \notin Savings!Closed /\ Alone(edit[p].saves)
                   /\ \A t \in edit[p].saves : goals[t.goal] # None
              /\ edit[p].pc = "contribution" => edit[p].gift # 0
          BY DEF GiftsGiven, Open
        <4>3. ASSUME NEW t \in edit[p].saves
              PROVE  t.row.amount <= given'[t.goal] +
                       IF edit[p].pc = "contribution" THEN edit[p].gift ELSE 0
          <5>1. t.row.amount \in Int /\ t.goal \in Goals /\ edit[p].gift \in Nat
            BY <4>1, <4>3 DEF GoalCall, Saves, GoalRow
          <5>2. t.row.amount <= given[t.goal] +
                  IF edit[p].pc = "contribution" THEN edit[p].gift ELSE 0
            BY <4>3 DEF GiftsGiven
          <5>3. QED
            BY <1>8, <5>1, <5>2
        <4>4. QED
          BY <1>2, <4>1, <4>2, <4>3
      <3>3. QED
        BY <3>1, <3>2
    <2>4. QED
      BY <2>1, <2>2, <2>3 DEF GiftsGiven, Open, Alone, Savings!Closed
  <1>12. OneAtATime'
    <2> SUFFICES ASSUME oneByOne
                 PROVE  /\ \A p, q \in Edits : Open(p)' /\ Open(q)' => p = q
                        /\ AllClosed' => Balanced' /\ (unbroken' => InOrder')
                        /\ \A p \in Edits : Open(p)' => OwedBy(p)' /\ (unbroken' => OrderedBy(p)')
      BY <1>2 DEF OneAtATime
    <2>1. \A p \in Edits : Open(p)' <=> Open(p)
      BY <1>2, <1>4, <1>5 DEF Open, Savings!Closed
    <2>2. Open(o) /\ Open(o)'
      BY <1>2, <2>1 DEF Open, Savings!Closed
    <2>3. \A p \in Edits : Open(p) => p = o
      BY <2>2 DEF OneAtATime
    <2>4. ~AllClosed'
      BY <2>2 DEF AllClosed, Open
    <2>5. edit'[o].saves = {s} /\ edit'[o].pc = "save" /\ edit'[o].gift = edit[o].gift
          /\ Saved(o) = {s.goal} /\ Saved(o)' = {s.goal}
      BY <1>4, <1>5, <1>7 DEF Saved
    <2>6. OwedBy(o)'
      <3>1. ASSUME NEW g \in Savings!Live
            PROVE  goals[g].amount + torn[g] +
                     (IF g = s.goal THEN edit[o].gift ELSE 0) = given'[g]
        <4>1. goals[g].amount \in Int /\ torn[g] \in Nat /\ g \in Goals /\ given[g] \in Nat
          BY LiveRow DEF GoalTypes
        <4>2. goals[g].amount + torn[g] + 0 = given[g]
          BY <1>2, <2>2 DEF OneAtATime, OwedBy, Hidden
        <4>3. QED
          BY <1>6, <1>8, <4>1, <4>2
      <3>2. \A g : Hidden(o, g)' = IF g = s.goal THEN edit[o].gift ELSE 0
        BY <2>5 DEF Hidden
      <3>3. \A g \in Savings!Live' : goals'[g].amount + torn'[g] + Hidden(o, g)' = given'[g]
        BY <1>2, <1>10, <3>1, <3>2
      <3>4. s.row.amount = edit[o].gift + goals[s.goal].amount
        BY <1>7, <2>2 DEF OneAtATime, OwedBy
      <3>5. QED
        BY <1>2, <1>7, <2>5, <3>3, <3>4 DEF OwedBy
    <2>7. unbroken' => OrderedBy(o)'
      BY <1>2, <1>7, <1>10, <2>2, <2>5 DEF OneAtATime, OrderedBy, InOrder
    <2>8. QED
      BY <2>1, <2>3, <2>4, <2>6, <2>7
  <1>13. QED
    BY <1>9, <1>11, <1>12

LEMMA SaveStays ==
  ASSUME GoalInv, NEW o \in Edits, Savings!SaveGoal(o)
  PROVE  GoalInv'
  <1> USE DEF GoalInv
  <1>1. PICK s \in Savings!First(o) :
          /\ goals' = [goals EXCEPT ![s.goal] = s.row]
          /\ edit' = [edit EXCEPT
                        ![o].pc = IF edit[o].saves \ {s} = {} THEN "done" ELSE "save",
                        ![o].saves = edit[o].saves \ {s}, ![o].gift = 0]
    BY DEF Savings!SaveGoal
  <1>2. UNCHANGED <<given, torn, oneByOne, unbroken>> /\ edit[o].pc = "save"
    BY DEF Savings!SaveGoal
  <1> DEFINE rest == edit[o].saves \ {s}
             stage == IF rest = {} THEN "done" ELSE "save"
             new == [edit[o] EXCEPT !.pc = stage, !.saves = rest, !.gift = 0]
  <1>3. edit \in [Edits -> GoalCall] /\ edit[o] \in GoalCall /\ s \in edit[o].saves
    BY DEF GoalTypes, GoalCall, Savings!First
  <1>4. edit' = [edit EXCEPT ![o] = new]
    BY <1>1, <1>3
  <1>5. new \in GoalCall /\ new.pc = stage /\ new.saves = rest /\ new.gift = 0
    BY <1>3 DEF GoalCall
  <1> HIDE DEF new
  <1>6. /\ edit' \in [Edits -> GoalCall] /\ edit'[o] = new
        /\ \A p \in Edits : p # o => edit'[p] = edit[p]
    BY <1>4, <1>5, EditBecomes
  <1>7. /\ s \in Saves /\ s.goal \in Goals /\ s.row \in GoalRow /\ s.row # None
        /\ s.row.amount \in Int /\ s.row.priority \in Int /\ edit[o].gift \in Nat
    BY <1>3, GoalAssumption DEF GoalCall, Saves, GoalRow
  <1>8. /\ goals' \in [Goals -> GoalRow \cup {None}] /\ goals'[s.goal] = s.row
        /\ \A g \in Goals : g # s.goal => goals'[g] = goals[g]
        /\ Savings!Live' = Savings!Live \cup {s.goal}
    BY <1>1, <1>7 DEF GoalTypes, Savings!Live
  <1>9. GoalTypes'
    BY <1>2, <1>6, <1>8 DEF GoalTypes, GoalCall
  <1>10. s.row.amount <= given[s.goal]
    <2>1. s.row.amount <= given[s.goal] + 0
      BY <1>2, <1>3 DEF GiftsGiven
    <2>2. QED
      BY <1>7, <2>1 DEF GoalTypes
  <1>11. GiftsGiven'
    <2>1. \A g \in Goals : goals'[g] = None => given'[g] = 0 /\ torn'[g] = 0
      BY <1>2, <1>7, <1>8 DEF GiftsGiven
    <2>2. \A g \in Savings!Live' : goals'[g].amount <= given'[g]
      <3> TAKE g \in Savings!Live'
      <3>1. CASE g = s.goal
        BY <1>2, <1>8, <1>10, <3>1
      <3>2. CASE g # s.goal
        BY <1>2, <1>8, <3>2, LiveRow DEF GiftsGiven
      <3>3. QED
        BY <3>1, <3>2
    <2>3. ASSUME NEW p \in Edits
          PROVE  /\ edit'[p].gift # 0 =>
                      /\ edit'[p].pc \notin Savings!Closed /\ Alone(edit'[p].saves)
                      /\ \A t \in edit'[p].saves : goals'[t.goal] # None
                 /\ edit'[p].pc = "contribution" => edit'[p].gift # 0
                 /\ \A t \in edit'[p].saves :
                      t.row.amount <= given'[t.goal] +
                        IF edit'[p].pc = "contribution" THEN edit'[p].gift ELSE 0
      <3>1. CASE p = o
        BY <1>2, <1>5, <1>6, <3>1 DEF GiftsGiven
      <3>2. CASE p # o
        <4>1. edit'[p] = edit[p] /\ edit[p] \in GoalCall
          BY <1>6, <3>2 DEF GoalTypes, GoalCall
        <4>2. \A t \in edit[p].saves : t.goal \in Goals
          BY <4>1 DEF GoalCall, Saves
        <4>3. \A g \in Goals : goals[g] # None => goals'[g] # None
          BY <1>7, <1>8
        <4>4. QED
          BY <1>2, <4>1, <4>2, <4>3 DEF GiftsGiven, Open
      <3>3. QED
        BY <3>1, <3>2
    <2>4. QED
      BY <2>1, <2>2, <2>3 DEF GiftsGiven, Open, Alone, Savings!Closed
  <1>12. OneAtATime'
    <2> SUFFICES ASSUME oneByOne
                 PROVE  /\ \A p, q \in Edits : Open(p)' /\ Open(q)' => p = q
                        /\ AllClosed' => Balanced' /\ (unbroken' => InOrder')
                        /\ \A p \in Edits : Open(p)' => OwedBy(p)' /\ (unbroken' => OrderedBy(p)')
      BY <1>2 DEF OneAtATime
    <2>1. Open(o) /\ OwedBy(o) /\ (unbroken => OrderedBy(o))
      BY <1>2 DEF OneAtATime, Open, Savings!Closed
    <2>2. \A p \in Edits : Open(p)' => p = o
      BY <1>6, <2>1 DEF OneAtATime, Open
    <2>3. ASSUME NEW g \in Savings!Live, g # s.goal
          PROVE  goals[g].amount + torn[g] = given[g]
      <3>1. goals[g].amount \in Int /\ torn[g] \in Nat /\ given[g] \in Nat
        BY <2>3, LiveRow DEF GoalTypes
      <3>2. goals[g].amount + torn[g] + Hidden(o, g) = given[g]
        BY <2>1, <2>3 DEF OwedBy
      <3>3. Hidden(o, g) = 0
        BY <1>3, <2>3 DEF Hidden, Saved, GiftsGiven, Alone
      <3>4. QED
        BY <3>1, <3>2, <3>3
    <2>4. s.row.amount + torn[s.goal] = given[s.goal]
      <3>1. s.row.amount = edit[o].gift + IF goals[s.goal] = None THEN 0
                                                                 ELSE goals[s.goal].amount
        BY <1>3, <2>1 DEF OwedBy
      <3>2. CASE goals[s.goal] = None
        BY <1>3, <1>7, <3>1, <3>2 DEF GiftsGiven
      <3>3. CASE goals[s.goal] # None
        <4>1. s.goal \in Savings!Live
          BY <1>7, <3>3 DEF Savings!Live
        <4>2. goals[s.goal].amount + torn[s.goal] + edit[o].gift = given[s.goal]
          BY <1>2, <1>3, <2>1, <4>1 DEF OwedBy, Hidden, Saved
        <4>3. goals[s.goal].amount \in Int /\ torn[s.goal] \in Nat
          BY <4>1, LiveRow DEF GoalTypes
        <4>4. QED
          BY <1>7, <3>1, <3>3, <4>2, <4>3
      <3>4. QED
        BY <3>2, <3>3
    <2>5. Balanced'
      <3>1. ASSUME NEW g \in Savings!Live'
            PROVE  goals'[g].amount + torn[g] = given[g]
        <4>1. CASE g = s.goal
          BY <1>8, <2>4, <4>1
        <4>2. CASE g # s.goal
          <5>1. g \in Savings!Live /\ g \in Goals
            BY <1>8, <4>2 DEF Savings!Live
          <5>2. QED
            BY <1>8, <2>3, <4>2, <5>1
        <4>3. QED
          BY <4>1, <4>2
      <3>2. QED
        BY <1>2, <3>1 DEF Balanced
    <2>6. OwedBy(o)'
      <3>1. \A g : Hidden(o, g)' = 0
        BY <1>5, <1>6 DEF Hidden
      <3>2. \A g \in Savings!Live' : goals'[g].amount + torn'[g] + 0 = given'[g]
        BY <1>2, <1>8, <1>9, <2>5 DEF Balanced, GoalTypes, GoalRow, Savings!Live
      <3>3. ASSUME NEW t \in rest
            PROVE  t.row.amount = 0 + IF goals'[t.goal] = None THEN 0 ELSE goals'[t.goal].amount
        <4>1. edit[o].gift = 0
          BY <1>3, <3>3 DEF GiftsGiven, Alone
        <4>2. t.row.amount = 0 + IF goals[t.goal] = None THEN 0 ELSE goals[t.goal].amount
          BY <2>1, <3>3, <4>1 DEF OwedBy
        <4>3. s.row.amount = 0 + IF goals[s.goal] = None THEN 0 ELSE goals[s.goal].amount
          BY <1>3, <2>1, <4>1 DEF OwedBy
        <4>4. t.goal \in Goals
          BY <1>3 DEF GoalCall, Saves
        <4>5. CASE t.goal = s.goal
          BY <1>7, <1>8, <4>2, <4>3, <4>5
        <4>6. CASE t.goal # s.goal
          BY <1>8, <4>2, <4>4, <4>6
        <4>7. QED
          BY <4>5, <4>6
      <3>4. QED
        BY <1>5, <1>6, <3>1, <3>2, <3>3 DEF OwedBy
    <2>7. ASSUME unbroken
          PROVE  OrderedBy(o)'
      <3>1. OrderedBy(o)
        BY <2>1, <2>7
      <3>2. \A t \in rest : t.goal # s.goal /\ t.goal \in Goals
        BY <1>3, <3>1 DEF OrderedBy, GoalCall, Saves
      <3>3. Saved(o)' = Saved(o) \ {s.goal}
        BY <1>3, <1>5, <1>6, <3>2 DEF Saved
      <3>4. \A g \in Savings!Live' \ Saved(o)' :
              g = s.goal \/ (g # s.goal /\ g \in Savings!Live \ Saved(o))
        BY <1>8, <3>3
      <3>5. \A t, u \in rest :
              t.goal = u.goal \/ t.row.priority = u.row.priority => t = u
        BY <3>1 DEF OrderedBy
      <3>6. ASSUME NEW t \in rest, NEW g \in Savings!Live' \ Saved(o)'
            PROVE  t.row.priority # goals'[g].priority
        <4>1. CASE g = s.goal
          BY <1>3, <1>8, <3>1, <4>1 DEF OrderedBy
        <4>2. CASE g # s.goal
          BY <1>8, <3>1, <3>4, <4>2 DEF OrderedBy, Savings!Live
        <4>3. QED
          BY <4>1, <4>2
      <3>7. ASSUME NEW g \in Savings!Live' \ Saved(o)', NEW h \in Savings!Live' \ Saved(o)',
                   g # h
            PROVE  goals'[g].priority # goals'[h].priority
        <4>1. CASE g = s.goal
          BY <1>3, <1>8, <3>1, <3>4, <3>7, <4>1 DEF OrderedBy, Savings!Live
        <4>2. CASE h = s.goal
          BY <1>3, <1>8, <3>1, <3>4, <3>7, <4>2 DEF OrderedBy, Savings!Live
        <4>3. CASE g # s.goal /\ h # s.goal
          BY <1>8, <3>1, <3>4, <3>7, <4>3 DEF OrderedBy, Savings!Live
        <4>4. QED
          BY <4>1, <4>2, <4>3
      <3>8. CASE Alone(edit[o].saves)
        <4>1. rest = {}
          BY <1>3, <3>8 DEF Alone
        <4>2. edit'[o].saves = {} /\ Saved(o)' = {}
          BY <1>5, <1>6, <4>1 DEF Saved
        <4>3. Alone({}) /\ InOrder'
          BY <3>7, <4>2 DEF InOrder, Alone
        <4>4. QED
          BY <4>2, <4>3, <3>7 DEF OrderedBy
      <3>9. CASE \A t \in edit[o].saves :
                   goals[t.goal] # None /\ t.row.priority # goals[t.goal].priority
        <4>1. \A t \in rest : goals'[t.goal] # None /\ t.row.priority # goals'[t.goal].priority
          BY <1>8, <3>2, <3>9
        <4>2. edit'[o].saves = rest
          BY <1>5, <1>6
        <4> HIDE DEF rest
        <4>3. QED
          BY <3>5, <3>6, <3>7, <4>1, <4>2 DEF OrderedBy
      <3>10. QED
        BY <3>1, <3>8, <3>9 DEF OrderedBy
    <2>8. AllClosed' => Saved(o)' = {}
      BY <1>5, <1>6 DEF AllClosed, Savings!Closed, Saved
    <2>9. AllClosed' /\ unbroken' => InOrder'
      BY <1>2, <2>7, <2>8 DEF OrderedBy, InOrder
    <2>10. QED
      BY <1>2, <2>2, <2>5, <2>6, <2>7, <2>9
  <1>13. QED
    BY <1>9, <1>11, <1>12

LEMMA BreakStays ==
  ASSUME GoalInv, NEW o \in Edits, Savings!Break(o)
  PROVE  GoalInv'
  <1> USE DEF GoalInv
  <1>1. PICK s \in Savings!First(o) :
          /\ torn' = IF edit[o].pc = "save" THEN [torn EXCEPT ![s.goal] = @ + edit[o].gift]
                                            ELSE torn
          /\ unbroken' = (unbroken /\ (goals[s.goal] = None
                                         \/ s.row.priority = goals[s.goal].priority))
    BY DEF Savings!Break
  <1>2. /\ UNCHANGED <<goals, given, oneByOne>> /\ Open(o)
        /\ edit' = [edit EXCEPT ![o].pc = "done", ![o].saves = {}, ![o].gift = 0]
    BY DEF Savings!Break, Open
  <1> DEFINE new == [edit[o] EXCEPT !.pc = "done", !.saves = {}, !.gift = 0]
  <1>3. edit \in [Edits -> GoalCall] /\ edit[o] \in GoalCall /\ s \in edit[o].saves
    BY DEF GoalTypes, GoalCall, Savings!First
  <1>4. edit' = [edit EXCEPT ![o] = new]
    BY <1>2, <1>3
  <1>5. new \in GoalCall /\ new.pc = "done" /\ new.saves = {} /\ new.gift = 0
    BY <1>3 DEF GoalCall
  <1> HIDE DEF new
  <1>6. /\ edit' \in [Edits -> GoalCall] /\ edit'[o] = new
        /\ \A p \in Edits : p # o => edit'[p] = edit[p]
    BY <1>4, <1>5, EditBecomes
  <1>7. s \in Saves /\ s.goal \in Goals /\ edit[o].gift \in Nat
    BY <1>3 DEF GoalCall, Saves
  <1>8. /\ torn' \in [Goals -> Nat]
        /\ torn'[s.goal] = torn[s.goal] + IF edit[o].pc = "save" THEN edit[o].gift ELSE 0
        /\ \A g \in Goals : g # s.goal => torn'[g] = torn[g]
    BY <1>1, <1>7 DEF GoalTypes
  <1>9. unbroken' \in BOOLEAN
    BY <1>1
  <1>10. GoalTypes'
    BY <1>2, <1>6, <1>8, <1>9 DEF GoalTypes, GoalCall
  <1>11. Savings!Live' = Savings!Live
    BY <1>2 DEF Savings!Live
  <1>12. GiftsGiven'
    <2>1. \A g \in Goals : goals'[g] = None => given'[g] = 0 /\ torn'[g] = 0
      <3> SUFFICES ASSUME NEW g \in Goals, goals[g] = None
                   PROVE  given[g] = 0 /\ torn'[g] = 0
        BY <1>2
      <3>1. given[g] = 0 /\ torn[g] = 0
        BY DEF GiftsGiven
      <3>2. CASE g = s.goal
        <4>1. edit[o].gift = 0
          BY <1>3, <3>2 DEF GiftsGiven
        <4>2. QED
          BY <1>8, <3>1, <3>2, <4>1
      <3>3. CASE g # s.goal
        BY <1>8, <3>1, <3>3
      <3>4. QED
        BY <3>2, <3>3
    <2>2. \A g \in Savings!Live' : goals'[g].amount <= given'[g]
      BY <1>2, <1>11 DEF GiftsGiven
    <2>3. ASSUME NEW p \in Edits
          PROVE  /\ edit'[p].gift # 0 =>
                      /\ edit'[p].pc \notin Savings!Closed /\ Alone(edit'[p].saves)
                      /\ \A t \in edit'[p].saves : goals'[t.goal] # None
                 /\ edit'[p].pc = "contribution" => edit'[p].gift # 0
                 /\ \A t \in edit'[p].saves :
                      t.row.amount <= given'[t.goal] +
                        IF edit'[p].pc = "contribution" THEN edit'[p].gift ELSE 0
      <3>1. CASE p = o
        BY <1>5, <1>6, <3>1
      <3>2. CASE p # o
        BY <1>2, <1>6, <3>2 DEF GiftsGiven, Open
      <3>3. QED
        BY <3>1, <3>2
    <2>4. QED
      BY <2>1, <2>2, <2>3 DEF GiftsGiven, Open, Alone, Savings!Closed
  <1>13. OneAtATime'
    <2> SUFFICES ASSUME oneByOne
                 PROVE  /\ \A p \in Edits : ~Open(p)'
                        /\ Balanced' /\ (unbroken' => InOrder')
      BY <1>2 DEF OneAtATime
    <2>1. OwedBy(o) /\ (unbroken => OrderedBy(o))
      BY <1>2 DEF OneAtATime
    <2>2. \A p \in Edits : ~Open(p)'
      BY <1>2, <1>5, <1>6 DEF OneAtATime, Open, Savings!Closed
    <2>3. Balanced'
      <3> SUFFICES ASSUME NEW g \in Savings!Live
                   PROVE  goals[g].amount + torn'[g] = given[g]
        BY <1>2, <1>11 DEF Balanced
      <3>1. /\ goals[g].amount \in Int /\ torn[g] \in Nat /\ given[g] \in Nat /\ g \in Goals
        BY LiveRow DEF GoalTypes
      <3>2. goals[g].amount + torn[g] + Hidden(o, g) = given[g]
        BY <2>1 DEF OwedBy
      <3>3. torn'[g] = torn[g] + Hidden(o, g)
        <4>1. CASE g = s.goal
          BY <1>3, <1>8, <4>1 DEF Hidden, Saved
        <4>2. CASE g # s.goal
          <5>1. Hidden(o, g) = 0
            BY <1>3, <4>2 DEF Hidden, Saved, GiftsGiven, Alone
          <5>2. QED
            BY <1>8, <3>1, <4>2, <5>1
        <4>3. QED
          BY <4>1, <4>2
      <3>4. Hidden(o, g) \in Nat
        BY <1>7 DEF Hidden
      <3>5. QED
        BY <3>1, <3>2, <3>3, <3>4
    <2>4. unbroken' => InOrder'
      BY <1>1, <1>2, <1>3, <1>11, <2>1 DEF OrderedBy, InOrder
    <2>5. QED
      BY <2>2, <2>3, <2>4
  <1>14. QED
    BY <1>10, <1>12, <1>13

LEMMA GoalStarts == Init => GoalInv
  <1> SUFFICES ASSUME Init
               PROVE  GoalInv
    OBVIOUS
  <1>1. /\ goals = [g \in Goals |-> None] /\ given = [g \in Goals |-> 0]
        /\ torn = [g \in Goals |-> 0] /\ oneByOne = TRUE /\ unbroken = TRUE
        /\ edit = [o \in Edits |-> [pc |-> "idle", new |-> None, gift |-> 0, saves |-> {}]]
    BY DEF Init, Savings!Init
  <1>2. GoalTypes
    BY <1>1 DEF GoalTypes
  <1>3. Savings!Live = {} /\ \A o \in Edits : ~Open(o)
    BY <1>1 DEF Savings!Live, Open, Savings!Closed
  <1>4. GiftsGiven
    BY <1>1, <1>3 DEF GiftsGiven
  <1>5. OneAtATime
    BY <1>3 DEF OneAtATime, Balanced, InOrder
  <1>6. QED
    BY <1>2, <1>4, <1>5 DEF GoalInv

LEMMA GoalStays == GoalInv /\ [Next]_vars => GoalInv'
  <1> SUFFICES ASSUME GoalInv, [Next]_vars
               PROVE  GoalInv'
    OBVIOUS
  <1>1. CASE UNCHANGED goalVars
    BY <1>1 DEF goalVars, GoalInv, GoalTypes, GiftsGiven, OneAtATime, Open, AllClosed, Balanced,
                InOrder, OwedBy, OrderedBy, Saved, Hidden, Savings!Live
  <1>2. ASSUME NEW o \in Edits, Savings!Run(o)
        PROVE  GoalInv'
    BY <1>2, CreateStays, UpdateStays, ReorderStays, AllocateStays, AddStays, SaveStays,
       BreakStays DEF Savings!Run
  <1>3. QED
    BY <1>1, <1>2, GoalSteps DEF Savings!Next

LEMMA GoalAlways == Spec => []GoalInv
  BY GoalStarts, GoalStays, PTL DEF Spec

(* On the device a goal shows no more than was contributed to it, however   *)
(* the use cases interleave, fail and are killed; and as much, while they   *)
(* come one at a time, but for allocations that stopped half way.           *)
THEOREM ShownWasGiven == Spec => []ShownIsGiven
  <1>1. GoalInv => ShownIsGiven
    BY DEF GoalInv, GiftsGiven, OneAtATime, AllClosed, Balanced,
           ShownIsGiven, Savings!ShownIsGiven
  <1>2. QED
    BY <1>1, GoalAlways, PTL

(* Creating, updating, reordering and allocating, one at a time and none of *)
(* the reorderings cut short, leave no two goals in one place.              *)
THEOREM GoalsInOneOrder == Spec => []OneOrder
  <1>1. GoalInv => OneOrder
    BY DEF GoalInv, OneAtATime, AllClosed, InOrder, OneOrder, Savings!OneOrder
  <1>2. QED
    BY <1>1, GoalAlways, PTL

-----------------------------------------------------------------------------
(* The rate limiter.  A request that ran less than the window, less the     *)
(* delay, ago is still in the sorted set, for its time is at most the delay *)
(* before; so the script that lets one more pass has counted them all.      *)

HasRun(r) == attempt[r].pc \in {"passed", "refused"}

Record(r) == [request |-> r, at |-> attempt[r].at]

StillCounted ==
  \A r \in AuthRequests : HasRun(r) =>
    /\ attempt[r].at <= attempt[r].ran /\ attempt[r].ran <= attempt[r].at + Delay
    /\ attempt[r].ran <= ms /\ attempt[r].ran + Window <= expires
    /\ ms < attempt[r].ran + Window - Delay => Record(r) \in zset

LimiterTypes ==
  /\ ms \in Int /\ expires \in Int
  /\ IsFiniteSet(zset) /\ \A x \in zset : x.at \in Int
  /\ attempt \in [AuthRequests -> [pc : {"idle", "stamped", "passed", "refused", "failed"},
                                   at : Int, ran : Int]]

StampedInTime ==
  \A r \in AuthRequests : attempt[r].pc = "stamped" =>
    attempt[r].at <= ms /\ ms <= attempt[r].at + Delay

PassedIn(t) ==
  {r \in AuthRequests : attempt[r].pc = "passed"
                        /\ attempt[r].ran \in t..(t + Window - Delay - 1)}

LimiterInv ==
  /\ LimiterTypes /\ StampedInTime /\ StillCounted
  /\ \A t \in Int : Cardinality(PassedIn(t)) <= MaxRequests

LEMMA LimiterSteps == [Next]_vars => Limiter!Next \/ UNCHANGED limiterVars
  BY DEF Next, vars, StepBudgets, StepRates, StepPages, StepPush, StepLimiter,
         StepLedger, StepGoals, StepPin, Others

Attempted == [pc : {"idle", "stamped", "passed", "refused", "failed"}, at : Int, ran : Int]

LEMMA AttemptBecomes ==
  ASSUME LimiterTypes, NEW r \in AuthRequests, NEW new \in Attempted,
         attempt' = [attempt EXCEPT ![r] = new]
  PROVE  /\ attempt' \in [AuthRequests -> Attempted] /\ attempt'[r] = new
         /\ \A p \in AuthRequests : p # r => attempt'[p] = attempt[p]
  BY DEF LimiterTypes, Attempted

(* The steps of a request besides the script. *)
LEMMA NotRunStays ==
  ASSUME LimiterInv, NEW r \in AuthRequests, attempt[r].pc \in {"idle", "stamped"},
         NEW new \in Attempted, attempt' = [attempt EXCEPT ![r] = new],
         new.pc = "failed" \/ (new.pc = "stamped" /\ new.at = ms),
         UNCHANGED <<ms, zset, expires>>
  PROVE  LimiterInv'
  <1> USE DEF LimiterInv
  <1>1. /\ attempt' \in [AuthRequests -> Attempted] /\ attempt'[r] = new
        /\ \A p \in AuthRequests : p # r => attempt'[p] = attempt[p]
    BY AttemptBecomes
  <1>2. LimiterTypes'
    BY <1>1 DEF LimiterTypes, Attempted
  <1>3. StampedInTime'
    BY <1>1, LimiterAssumption DEF StampedInTime, LimiterTypes
  <1>4. StillCounted'
    BY <1>1 DEF StillCounted, HasRun, Record
  <1>5. ASSUME NEW t \in Int
        PROVE  PassedIn(t)' = PassedIn(t)
    BY <1>1 DEF PassedIn
  <1>6. QED
    BY <1>2, <1>3, <1>4, <1>5

LEMMA ScriptStays ==
  ASSUME LimiterInv, NEW r \in AuthRequests, Limiter!RunScript(r)
  PROVE  LimiterInv'
  <1> USE DEF LimiterInv
  <1> DEFINE at == attempt[r].at
             kept == {x \in zset : ms < expires /\ x.at > at - Window}
                       \cup {[request |-> r, at |-> at]}
             stage == IF Cardinality(kept) > MaxRequests THEN "refused" ELSE "passed"
             new == [attempt[r] EXCEPT !.pc = stage, !.ran = ms]
  <1>1. attempt \in [AuthRequests -> Attempted] /\ attempt[r] \in Attempted /\ at \in Int
    BY DEF LimiterTypes, Attempted
  <1>2. /\ attempt[r].pc = "stamped" /\ zset' = kept /\ expires' = ms + Window /\ ms' = ms
        /\ attempt' = [attempt EXCEPT ![r] = new]
    <2>1. /\ attempt[r].pc = "stamped" /\ zset' = kept /\ expires' = ms + Window /\ ms' = ms
          /\ attempt' = [attempt EXCEPT
                ![r].pc = IF Limiter!Cardinality(kept) > MaxRequests THEN "refused" ELSE "passed",
                ![r].ran = ms]
      BY DEF Limiter!RunScript
    <2>2. Limiter!Cardinality(kept) = Cardinality(kept)
      BY DEF Cardinality, Limiter!Cardinality
    <2> HIDE DEF kept
    <2>3. QED
      BY <1>1, <2>1, <2>2 DEF Attempted
  <1>3. IsFiniteSet(kept) /\ \A x \in kept : x.at \in Int
    <2>1. IsFiniteSet({x \in zset : ms < expires /\ x.at > at - Window})
      BY FS_Subset DEF LimiterTypes
    <2>2. IsFiniteSet(kept)
      BY <2>1, FS_AddElement
    <2>3. QED
      BY <1>1, <2>2 DEF LimiterTypes
  <1>4. [request |-> r, at |-> at] \in kept
    OBVIOUS
  <1>5. stage \in {"passed", "refused"} /\ (stage = "passed" => ~(Cardinality(kept) > MaxRequests))
    OBVIOUS
  <1>6. ms \in Int /\ Window \in Nat /\ Delay \in Nat /\ MaxRequests \in Nat /\ expires \in Int
    BY LimiterAssumption DEF LimiterTypes
  <1>7. at <= ms /\ ms <= at + Delay
    BY <1>2 DEF StampedInTime
  <1>8. ASSUME NEW p \in AuthRequests, HasRun(p), ms < attempt[p].ran + Window - Delay
        PROVE  Record(p) \in kept
    <2>1. /\ attempt[p].at \in Int /\ attempt[p].ran \in Int
          /\ attempt[p].at <= attempt[p].ran /\ attempt[p].ran <= attempt[p].at + Delay
          /\ attempt[p].ran + Window <= expires /\ Record(p) \in zset
      BY <1>8 DEF StillCounted, LimiterTypes
    <2>2. ms < expires /\ attempt[p].at > at - Window
      BY <1>1, <1>6, <1>7, <1>8, <2>1
    <2>3. QED
      BY <2>1, <2>2 DEF Record
  <1> HIDE DEF kept, stage
  <1>9. new \in Attempted /\ new.pc = stage /\ new.ran = ms /\ new.at = at
    BY <1>1, <1>5, <1>6 DEF Attempted
  <1> HIDE DEF new, at
  <1>10. /\ attempt' \in [AuthRequests -> Attempted] /\ attempt'[r] = new
         /\ \A p \in AuthRequests : p # r => attempt'[p] = attempt[p]
    BY <1>2, <1>9, AttemptBecomes
  <1>11. LimiterTypes'
    BY <1>2, <1>3, <1>6, <1>10 DEF LimiterTypes, Attempted
  <1>12. StampedInTime'
    BY <1>2, <1>5, <1>9, <1>10 DEF StampedInTime
  <1>13. StillCounted'
    <2> SUFFICES ASSUME NEW p \in AuthRequests, HasRun(p)'
                 PROVE  /\ attempt'[p].at <= attempt'[p].ran
                        /\ attempt'[p].ran <= attempt'[p].at + Delay
                        /\ attempt'[p].ran <= ms /\ attempt'[p].ran + Window <= expires'
                        /\ ms < attempt'[p].ran + Window - Delay => Record(p)' \in kept
      BY <1>2 DEF StillCounted
    <2>1. CASE p = r
      BY <1>2, <1>4, <1>6, <1>7, <1>9, <1>10, <2>1 DEF Record
    <2>2. CASE p # r
      <3>1. /\ HasRun(p) /\ Record(p)' = Record(p) /\ attempt'[p] = attempt[p]
            /\ attempt[p].ran \in Int
        BY <1>10, <2>2 DEF HasRun, Record, LimiterTypes
      <3>2. /\ attempt[p].at <= attempt[p].ran /\ attempt[p].ran <= attempt[p].at + Delay
            /\ attempt[p].ran <= ms
        BY <3>1 DEF StillCounted
      <3>3. QED
        BY <1>2, <1>6, <1>8, <3>1, <3>2
    <2>3. QED
      BY <2>1, <2>2
  <1>14. ASSUME NEW t \in Int
         PROVE  Cardinality(PassedIn(t)') <= MaxRequests
    <2>1. CASE stage = "passed" /\ ms \in t..(t + Window - Delay - 1)
      <3> DEFINE f == [p \in PassedIn(t)' |-> Record(p)']
      <3>1. ASSUME NEW p \in PassedIn(t)'
            PROVE  Record(p)' \in kept /\ p \in AuthRequests
        <4>1. CASE p = r
          BY <1>4, <1>9, <1>10, <4>1 DEF Record
        <4>2. CASE p # r
          <5>1. /\ p \in AuthRequests /\ attempt'[p] = attempt[p] /\ attempt[p].pc = "passed"
                /\ attempt[p].ran \in t..(t + Window - Delay - 1) /\ Record(p)' = Record(p)
            BY <1>10, <4>2 DEF PassedIn, Record
          <5>2. ms < attempt[p].ran + Window - Delay
            BY <1>6, <2>1, <5>1
          <5>3. QED
            BY <1>8, <5>1, <5>2 DEF HasRun
        <4>3. QED
          BY <3>1, <4>1, <4>2 DEF PassedIn
      <3>2. f \in [PassedIn(t)' -> kept]
        BY <3>1
      <3>3. \A p, q \in PassedIn(t)' : f[p] = f[q] => p = q
        BY DEF Record
      <3> HIDE DEF f
      <3>4. f \in Injection(PassedIn(t)', kept)
        BY <3>2, <3>3 DEF Injection, IsInjective
      <3>5. IsFiniteSet(PassedIn(t)') /\ Cardinality(PassedIn(t)') <= Cardinality(kept)
        BY <1>3, <3>4, FS_Injection
      <3>6. Cardinality(kept) \in Nat /\ Cardinality(PassedIn(t)') \in Nat
        BY <1>3, <3>5, FS_CardinalityType
      <3>7. QED
        BY <1>5, <1>6, <2>1, <3>5, <3>6
    <2>2. CASE ~(stage = "passed" /\ ms \in t..(t + Window - Delay - 1))
      <3>1. PassedIn(t)' = PassedIn(t)
        BY <1>2, <1>9, <1>10, <2>2 DEF PassedIn
      <3>2. QED
        BY <3>1
    <2>3. QED
      BY <2>1, <2>2
  <1>15. QED
    BY <1>11, <1>12, <1>13, <1>14

LEMMA LimiterStarts == Init => LimiterInv
  <1> SUFFICES ASSUME Init
               PROVE  LimiterInv
    OBVIOUS
  <1>1. /\ ms = 0 /\ zset = {} /\ expires = 0
        /\ attempt = [r \in AuthRequests |-> [pc |-> "idle", at |-> 0, ran |-> 0]]
    BY DEF Init, Limiter!Init
  <1>2. LimiterTypes /\ StampedInTime /\ StillCounted
    BY <1>1, FS_EmptySet DEF LimiterTypes, StampedInTime, StillCounted, HasRun
  <1>3. \A t \in Int : PassedIn(t) = {}
    BY <1>1 DEF PassedIn
  <1>4. Cardinality({}) = 0
    BY FS_EmptySet
  <1>5. QED
    BY <1>2, <1>3, <1>4, LimiterAssumption DEF LimiterInv

LEMMA LimiterStays == LimiterInv /\ [Next]_vars => LimiterInv'
  <1> SUFFICES ASSUME LimiterInv, [Next]_vars
               PROVE  LimiterInv'
    OBVIOUS
  <1>1. CASE UNCHANGED limiterVars
    BY <1>1 DEF limiterVars, LimiterInv, LimiterTypes, StampedInTime, StillCounted, HasRun,
                Record, PassedIn
  <1>2. ASSUME NEW r \in AuthRequests, Limiter!Stamp(r)
        PROVE  LimiterInv'
    <2> DEFINE new == [attempt[r] EXCEPT !.pc = "stamped", !.at = ms]
    <2>1. attempt \in [AuthRequests -> Attempted] /\ ms \in Int
      BY DEF LimiterInv, LimiterTypes, Attempted
    <2>2. /\ attempt' = [attempt EXCEPT ![r] = new] /\ attempt[r].pc = "idle"
          /\ UNCHANGED <<ms, zset, expires>>
      BY <1>2, <2>1 DEF Limiter!Stamp
    <2>3. new \in Attempted /\ new.pc = "stamped" /\ new.at = ms
      BY <2>1 DEF Attempted
    <2> HIDE DEF new
    <2>4. QED
      BY <2>2, <2>3, NotRunStays
  <1>3. ASSUME NEW r \in AuthRequests, Limiter!ScriptFails(r)
        PROVE  LimiterInv'
    <2> DEFINE new == [attempt[r] EXCEPT !.pc = "failed"]
    <2>1. attempt \in [AuthRequests -> Attempted]
      BY DEF LimiterInv, LimiterTypes, Attempted
    <2>2. /\ attempt' = [attempt EXCEPT ![r] = new] /\ attempt[r].pc = "stamped"
          /\ UNCHANGED <<ms, zset, expires>>
      BY <1>3, <2>1 DEF Limiter!ScriptFails
    <2>3. new \in Attempted /\ new.pc = "failed"
      BY <2>1 DEF Attempted
    <2> HIDE DEF new
    <2>4. QED
      BY <2>2, <2>3, NotRunStays
  <1>4. CASE Limiter!Tick
    <2>1. /\ ms' = ms + 1 /\ UNCHANGED <<zset, expires, attempt>>
          /\ \A r \in AuthRequests : attempt[r].pc = "stamped" => ms < attempt[r].at + Delay
      BY <1>4 DEF Limiter!Tick
    <2>2. /\ ms \in Int /\ expires \in Int /\ Window \in Nat /\ Delay \in Nat
          /\ \A r \in AuthRequests : attempt[r].at \in Int /\ attempt[r].ran \in Int
      BY LimiterAssumption DEF LimiterInv, LimiterTypes
    <2>3. LimiterTypes'
      BY <2>1, <2>2 DEF LimiterInv, LimiterTypes
    <2>4. StampedInTime'
      BY <2>1, <2>2 DEF LimiterInv, StampedInTime
    <2>5. StillCounted'
      BY <2>1, <2>2 DEF LimiterInv, StillCounted, HasRun, Record
    <2>6. \A t \in Int : PassedIn(t)' = PassedIn(t)
      BY <2>1 DEF PassedIn
    <2>7. QED
      BY <2>3, <2>4, <2>5, <2>6 DEF LimiterInv
  <1>5. QED
    BY <1>1, <1>2, <1>3, <1>4, ScriptStays, LimiterSteps DEF Limiter!Next

(* In a span shorter than the window by the delay, AuthRateLimit lets no    *)
(* more than MaxRequests requests of one address pass, in whatever order    *)
(* their scripts reach Redis and whenever the key expires.                  *)
THEOREM NoMoreThanTheLimit == Spec => []LimitHolds
  <1>1. LimiterInv => LimitHolds
    <2> SUFFICES ASSUME LimiterInv, NEW t \in 0..LastMs
                 PROVE  Cardinality(PassedIn(t)) <= MaxRequests
      BY DEF LimitHolds, Limiter!LimitHolds, PassedIn, Cardinality, Limiter!Cardinality
    <2>1. t \in Int
      OBVIOUS
    <2>2. QED
      BY <2>1 DEF LimiterInv
  <1>2. QED
    BY <1>1, LimiterStarts, LimiterStays, PTL DEF Spec

-----------------------------------------------------------------------------
(* The lists in pages.  A walk's rows are behind its cursor, or they lie in *)
(* the second of a row it was shown.                                        *)

Spot == [id : Int, at : Int]

Walked == [pc : {"idle", "page", "stopped", "done"}, sort : {"asc", "desc"},
           cursor : Spot \cup {None}, seen : SUBSET Spot, again : SUBSET Spot,
           there : SUBSET Spot, pages : Int]

PageTypes ==
  /\ row \in [Items -> [at : Int, state : {"stamped", "live", "deleted"}] \cup {None}]
  /\ clock \in Int
  /\ walk \in [Walks -> Walked]

CursorKnown ==
  \A w \in Walks :
    /\ walk[w].there \subseteq Pages!Rows
    /\ walk[w].pc = "idle" => /\ walk[w].there = {} /\ walk[w].seen = {}
                              /\ walk[w].cursor = None /\ walk[w].again = {}
    /\ walk[w].cursor = None /\ walk[w].pc = "page" => walk[w].seen = {}

StillToCome ==
  \A w \in Walks : walk[w].pc = "page" /\ walk[w].cursor # None =>
    \A x \in Pages!Missed(w) :
      \/ Pages!Before(walk[w].sort, walk[w].cursor, x)
      \/ walk[w].sort = "desc" /\ Pages!Blurred(w, x)

LeftBehind ==
  \A w \in Walks : walk[w].pc = "page" /\ walk[w].cursor # None =>
    \A x \in walk[w].seen :
      \/ ~Pages!Before(walk[w].sort, walk[w].cursor, x)
      \/ walk[w].sort = "asc" /\ Pages!Blurred(w, x)

PageInv ==
  /\ PageTypes /\ CursorKnown /\ StillToCome /\ LeftBehind
  /\ Pages!MissesOnlyBlurredRows /\ Pages!RepeatsOnlyBlurredRows

LEMMA PageSteps == [Next]_vars => Pages!Next \/ UNCHANGED pageVars
  BY DEF Next, vars, StepBudgets, StepRates, StepPages, StepPush, StepLimiter,
         StepLedger, StepGoals, StepPin, Others

(* The order of a list. *)
LEMMA BeforeOrders ==
  ASSUME NEW sort \in {"asc", "desc"}, NEW x \in Spot, NEW y \in Spot
  PROVE  /\ ~Pages!Before(sort, x, x)
         /\ x # y => Pages!Before(sort, x, y) \/ Pages!Before(sort, y, x)
         /\ ~(Pages!Before(sort, x, y) /\ Pages!Before(sort, y, x))
         /\ \A z \in Spot : Pages!Before(sort, x, y) /\ Pages!Before(sort, y, z) =>
                              Pages!Before(sort, x, z)
  BY DEF Pages!Before, Spot

LEMMA LastSpot ==
  ASSUME NEW sort \in {"asc", "desc"}, NEW S \in SUBSET Spot, IsFiniteSet(S), S # {}
  PROVE  \E x \in S : \A y \in S \ {x} : Pages!Before(sort, y, x)
  <1> DEFINE F == {T \in SUBSET S : T # {}
                     /\ ~\E x \in T : \A y \in T \ {x} : Pages!Before(sort, y, x)}
  <1> SUFFICES ASSUME F # {}
               PROVE  FALSE
    BY S \in SUBSET S
  <1>1. \A T \in SUBSET S : IsFiniteSet(T)
    BY FS_Subset
  <1>2. PICK T : Smallest(F, T)
    BY <1>1, SmallestExists
  <1>3. /\ T \in SUBSET S /\ T # {}
        /\ ~\E x \in T : \A y \in T \ {x} : Pages!Before(sort, y, x)
    BY <1>2 DEF Smallest
  <1>4. PICK x \in T : TRUE
    BY <1>3
  <1> DEFINE U == T \ {x}
  <1>5. U # {}
    BY <1>3, <1>4
  <1>6. Cardinality(U) = Cardinality(T) - 1 /\ Cardinality(T) \in Nat
    BY <1>1, <1>3, <1>4, FS_RemoveElement, FS_CardinalityType
  <1>7. U \notin F
    <2>1. \A V \in F : Cardinality(T) <= Cardinality(V)
      BY <1>2 DEF Smallest
    <2> HIDE DEF F
    <2>2. QED
      BY <1>6, <2>1
  <1>8. PICK z \in U : \A y \in U \ {z} : Pages!Before(sort, y, z)
    BY <1>3, <1>5, <1>7
  <1>9. x \in Spot /\ z \in Spot /\ x # z /\ T \subseteq Spot
    BY <1>3, <1>4, <1>8
  <1>10. CASE Pages!Before(sort, x, z)
    BY <1>3, <1>8, <1>10
  <1>11. CASE Pages!Before(sort, z, x)
    <2>1. \A y \in T \ {x} : Pages!Before(sort, y, x)
      BY <1>8, <1>9, <1>11, BeforeOrders
    <2>2. QED
      BY <1>3, <1>4, <2>1
  <1>12. QED
    BY <1>9, <1>10, <1>11, BeforeOrders

(* How many rows come before one. *)
Ahead(S, sort, x) == {y \in S : Pages!Before(sort, y, x)}

Rank(S, sort, x) == Cardinality(Ahead(S, sort, x))

LEMMA FirstRowsAre ==
  ASSUME NEW S, NEW sort, NEW n
  PROVE  Pages!FirstRows(S, sort, n) = {x \in S : Rank(S, sort, x) < n}
  BY DEF Pages!FirstRows, Rank, Ahead, Cardinality, Pages!Cardinality

LEMMA RankNumber ==
  ASSUME NEW S, IsFiniteSet(S), NEW sort, NEW x
  PROVE  IsFiniteSet(Ahead(S, sort, x)) /\ Rank(S, sort, x) \in Nat
  BY FS_Subset, FS_CardinalityType DEF Ahead, Rank

LEMMA RankLess ==
  ASSUME NEW sort \in {"asc", "desc"}, NEW S \in SUBSET Spot, IsFiniteSet(S),
         NEW x \in S, NEW y \in S, Pages!Before(sort, x, y)
  PROVE  Rank(S, sort, x) < Rank(S, sort, y)
  <1>1. /\ Ahead(S, sort, x) \subseteq Ahead(S, sort, y) \ {x}
        /\ x \in Ahead(S, sort, y)
    BY BeforeOrders DEF Ahead
  <1>2. IsFiniteSet(Ahead(S, sort, y)) /\ Rank(S, sort, y) \in Nat /\ Rank(S, sort, x) \in Nat
    BY RankNumber
  <1> DEFINE A == Ahead(S, sort, y) \ {x}
  <1>3. IsFiniteSet(A) /\ Cardinality(A) = Rank(S, sort, y) - 1
    BY <1>1, <1>2, FS_RemoveElement DEF Rank
  <1>4. Rank(S, sort, x) <= Cardinality(A)
    BY <1>1, <1>3, FS_Subset DEF Rank
  <1>5. QED
    BY <1>2, <1>3, <1>4

(* Ranks leave no number out. *)
LEMMA RankReached ==
  ASSUME NEW sort \in {"asc", "desc"}, NEW S \in SUBSET Spot, IsFiniteSet(S),
         NEW n \in Nat, NEW x \in S, Rank(S, sort, x) >= n
  PROVE  \E y \in S : Rank(S, sort, y) = n
  <1> DEFINE F == {Ahead(S, sort, y) : y \in {z \in S : Rank(S, sort, z) >= n}}
  <1>1. F # {} /\ \A A \in F : IsFiniteSet(A)
    BY RankNumber
  <1>2. PICK A : Smallest(F, A)
    BY <1>1, SmallestExists
  <1>3. PICK y \in S : A = Ahead(S, sort, y) /\ Rank(S, sort, y) >= n
    BY <1>2 DEF Smallest
  <1>4. \A z \in S : Rank(S, sort, z) >= n => Rank(S, sort, y) <= Rank(S, sort, z)
    BY <1>2, <1>3 DEF Smallest, Rank
  <1>5. SUFFICES ASSUME Rank(S, sort, y) # n
                 PROVE  FALSE
    BY <1>3
  <1>6. IsFiniteSet(A) /\ Rank(S, sort, y) \in Nat /\ Rank(S, sort, y) = Cardinality(A)
    BY <1>3, RankNumber DEF Rank
  <1>7. A # {} /\ A \in SUBSET Spot /\ A \subseteq S
    <2>1. Cardinality({}) = 0
      BY FS_EmptySet
    <2>2. Cardinality(A) > 0
      BY <1>3, <1>5, <1>6
    <2>3. QED
      BY <1>3, <2>1, <2>2 DEF Ahead
  <1>8. PICK z \in A : \A v \in A \ {z} : Pages!Before(sort, v, z)
    BY <1>6, <1>7, LastSpot
  <1>9. Ahead(S, sort, z) = A \ {z}
    <2>1. z \in S /\ z \in Spot /\ y \in Spot /\ S \subseteq Spot /\ Pages!Before(sort, z, y)
      BY <1>3, <1>7 DEF Ahead
    <2>2. \A v \in S : Pages!Before(sort, v, z) => Pages!Before(sort, v, y) /\ v # z
      BY <2>1, BeforeOrders
    <2>3. QED
      BY <1>3, <1>8, <2>2 DEF Ahead
  <1>10. Rank(S, sort, z) = Rank(S, sort, y) - 1
    BY <1>6, <1>8, <1>9, FS_RemoveElement DEF Rank
  <1>11. QED
    BY <1>3, <1>4, <1>5, <1>6, <1>7, <1>10

(* A page: all rows, or up to a last one, which is before the others.       *)
LEMMA PageIs ==
  ASSUME NEW sort \in {"asc", "desc"}, NEW S \in SUBSET Spot, IsFiniteSet(S),
         NEW extra, extra = Pages!FirstRows(S, sort, Limit + 1),
         NEW page, page = Pages!FirstRows(extra, sort, Limit)
  PROVE  /\ page \subseteq S
         /\ extra = page => page = S
         /\ extra # page =>
              /\ Pages!LastRow(page, sort) \in page
              /\ \A y \in page : y # Pages!LastRow(page, sort) =>
                   Pages!Before(sort, y, Pages!LastRow(page, sort))
              /\ \A x \in S \ page : Pages!Before(sort, Pages!LastRow(page, sort), x)
  <1>1. Limit \in Nat /\ Limit > 0
    BY PageAssumption
  <1>2. \A x : Rank(S, sort, x) \in Nat
    BY RankNumber
  <1>3. extra = {x \in S : Rank(S, sort, x) < Limit + 1}
    BY FirstRowsAre
  <1>4. ASSUME NEW x \in extra
        PROVE  Rank(extra, sort, x) = Rank(S, sort, x)
    <2>1. \A y \in S : Pages!Before(sort, y, x) => y \in extra
      BY <1>1, <1>2, <1>3, <1>4, RankLess
    <2>2. Ahead(extra, sort, x) = Ahead(S, sort, x)
      BY <1>3, <2>1 DEF Ahead
    <2>3. QED
      BY <2>2 DEF Rank
  <1>5. page = {x \in S : Rank(S, sort, x) < Limit}
    <2>1. page = {x \in extra : Rank(extra, sort, x) < Limit}
      BY FirstRowsAre
    <2>2. QED
      BY <1>1, <1>2, <1>3, <1>4, <2>1
  <1>6. ASSUME extra = page
        PROVE  page = S
    <2>1. ASSUME NEW x \in S, x \notin page
          PROVE  FALSE
      <3>1. Rank(S, sort, x) >= Limit
        BY <1>1, <1>2, <1>5, <2>1
      <3>2. PICK y \in S : Rank(S, sort, y) = Limit
        BY <1>1, <3>1, RankReached
      <3>3. y \in extra /\ y \notin page
        BY <1>1, <1>3, <1>5, <3>2
      <3>4. QED
        BY <1>6, <3>3
    <2>2. QED
      BY <1>5, <2>1
  <1>7. ASSUME extra # page
        PROVE  /\ Pages!LastRow(page, sort) \in page
               /\ \A y \in page : y # Pages!LastRow(page, sort) =>
                    Pages!Before(sort, y, Pages!LastRow(page, sort))
    <2>1. PICK x \in S : TRUE
      BY <1>3, <1>5, <1>7
    <2>2. PICK y \in S : Rank(S, sort, y) = 0
      BY <1>2, RankReached
    <2>3. page # {} /\ page \in SUBSET Spot /\ IsFiniteSet(page)
      BY <1>1, <1>5, <2>2, FS_Subset
    <2>4. \E p \in page : \A v \in page \ {p} : Pages!Before(sort, v, p)
      BY <2>3, LastSpot
    <2>5. QED
      BY <2>4 DEF Pages!LastRow
  <1>8. ASSUME extra # page, NEW x \in S \ page
        PROVE  Pages!Before(sort, Pages!LastRow(page, sort), x)
    <2>1. Pages!LastRow(page, sort) \in page
      BY <1>7, <1>8
    <2> DEFINE p == Pages!LastRow(page, sort)
    <2> HIDE DEF p
    <2>2. p \in page /\ p \in S /\ p # x
      BY <1>5, <2>1 DEF p
    <2>3. Rank(S, sort, p) < Limit /\ ~(Rank(S, sort, x) < Limit)
      BY <1>5, <2>2
    <2>4. ~Pages!Before(sort, x, p)
      <3>1. SUFFICES ASSUME Pages!Before(sort, x, p)
                     PROVE  FALSE
        OBVIOUS
      <3>2. Rank(S, sort, x) < Rank(S, sort, p)
        BY <2>2, <3>1, RankLess
      <3>3. QED
        BY <1>1, <1>2, <2>3, <3>2
    <2>5. Pages!Before(sort, p, x)
      BY <2>2, <2>4, BeforeOrders
    <2>6. QED
      BY <2>5 DEF p
  <1>9. QED
    BY <1>5, <1>6, <1>7, <1>8

(* A second begins at a multiple of PerSecond. *)
LEMMA SecondsAre ==
  ASSUME NEW t \in Int
  PROVE  /\ Pages!WholeSecond(t) \in Int /\ Pages!WholeSecond(t) <= t
         /\ \A u \in Int : Pages!WholeSecond(t) <= u /\ u <= t =>
              Pages!WholeSecond(u) = Pages!WholeSecond(t)
  <1> DEFINE P == PerSecond
             Whole(u) == Pages!WholeSecond(u)
  <1>1. P \in Nat /\ P > 0
    BY PageAssumption
  <1>2. \A u \in Int : u % P \in 0..(P - 1) /\ Whole(u) = u - (u % P)
    BY <1>1 DEF Pages!WholeSecond
  <1>3. \A u \in Int : u \div P \in Int /\ Whole(u) = P * (u \div P)
    BY <1>1 DEF Pages!WholeSecond
  <1> HIDE DEF Whole, P
  <1>4. ASSUME NEW u \in Int, NEW q \in Int, P * q <= u
        PROVE  P * q <= Whole(u)
    <2>1. Whole(u) = P * (u \div P) /\ u < Whole(u) + P /\ u \div P \in Int
      <3>1. Whole(u) = P * (u \div P) /\ u \div P \in Int
        BY <1>3
      <3>2. Whole(u) = u - (u % P) /\ u % P \in 0..(P - 1)
        BY <1>2
      <3>3. QED
        BY <1>1, <3>1, <3>2
    <2>2. CASE q <= u \div P
      <3>1. P * q <= P * (u \div P)
        BY <1>1, <2>1, <2>2
      <3>2. QED
        BY <2>1, <3>1
    <2>3. CASE q >= (u \div P) + 1
      <3>1. P * q >= P * ((u \div P) + 1)
        BY <1>1, <2>1, <2>3
      <3>2. P * ((u \div P) + 1) = P * (u \div P) + P
        BY <1>1, <2>1
      <3>3. QED
        BY <1>1, <1>4, <2>1, <3>1, <3>2
    <2>4. QED
      BY <2>1, <2>2, <2>3
  <1>5. Whole(t) \in Int /\ Whole(t) <= t
    BY <1>1, <1>2
  <1>6. ASSUME NEW u \in Int, Whole(t) <= u, u <= t
        PROVE  Whole(u) = Whole(t)
    <2>1. Whole(t) <= Whole(u)
      BY <1>3, <1>4, <1>6
    <2>2. Whole(u) <= u /\ Whole(u) <= t /\ Whole(u) \in Int
      BY <1>1, <1>2, <1>6
    <2>3. Whole(u) <= Whole(t)
      BY <1>3, <1>4, <2>2
    <2>4. QED
      BY <1>5, <2>1, <2>2, <2>3
  <1>7. QED
    BY <1>5, <1>6 DEF Whole

(* The cursor made of the last row of a page: rows behind that row are      *)
(* behind the cursor or, in a list that goes backward, of the row's second; *)
(* and no row up to it is behind the cursor unless it is of that second and *)
(* the list goes forward.                                                   *)
LEMMA CursorCuts ==
  ASSUME NEW sort \in {"asc", "desc"}, NEW p \in Spot, NEW x \in Spot,
         NEW new, new = [id |-> p.id, at |-> Pages!WholeSecond(p.at)]
  PROVE  /\ new \in Spot
         /\ Pages!Before(sort, p, x) =>
              \/ Pages!Before(sort, new, x)
              \/ /\ sort = "desc" /\ Pages!PartSecond(p)
                 /\ Pages!WholeSecond(p.at) = Pages!WholeSecond(x.at)
         /\ x = p \/ Pages!Before(sort, x, p) =>
              \/ ~Pages!Before(sort, new, x)
              \/ /\ sort = "asc" /\ Pages!PartSecond(p)
                 /\ Pages!WholeSecond(p.at) = Pages!WholeSecond(x.at)
  <1>1. p.at \in Int /\ x.at \in Int /\ p.id \in Int /\ x.id \in Int
    BY DEF Spot
  <1>2. /\ Pages!WholeSecond(p.at) \in Int /\ Pages!WholeSecond(p.at) <= p.at
        /\ Pages!WholeSecond(p.at) <= x.at /\ x.at <= p.at =>
             Pages!WholeSecond(x.at) = Pages!WholeSecond(p.at)
    BY <1>1, SecondsAre
  <1> DEFINE f == Pages!WholeSecond(p.at)
  <1>3. new \in Spot /\ new.at = f /\ new.id = p.id
    BY <1>1, <1>2 DEF Spot
  <1>4. Pages!PartSecond(p) <=> p.at # f
    BY DEF Pages!PartSecond
  <1>5. f \in Int /\ f <= p.at
    BY <1>2
  <1>6. f <= x.at /\ x.at <= p.at => Pages!WholeSecond(x.at) = f
    BY <1>2
  <1> HIDE DEF f
  <1>7. Pages!Before(sort, p, x) =>
          Pages!Before(sort, new, x)
            \/ (sort = "desc" /\ p.at # f /\ f <= x.at /\ x.at <= p.at)
    BY <1>1, <1>3, <1>5 DEF Pages!Before
  <1>8. x = p \/ Pages!Before(sort, x, p) =>
          ~Pages!Before(sort, new, x)
            \/ (sort = "asc" /\ p.at # f /\ f <= x.at /\ x.at <= p.at)
    BY <1>1, <1>3, <1>5 DEF Pages!Before
  <1>9. QED
    BY <1>3, <1>4, <1>6, <1>7, <1>8 DEF f

(* A row that is not behind a cursor is not behind a later one, unless it   *)
(* is of the second of the row that the later one is made of.               *)
LEMMA CursorGoesOn ==
  ASSUME NEW sort \in {"asc", "desc"}, NEW p \in Spot, NEW x \in Spot, NEW old \in Spot,
         Pages!Before(sort, old, p), ~Pages!Before(sort, old, x),
         NEW new, new = [id |-> p.id, at |-> Pages!WholeSecond(p.at)]
  PROVE  \/ ~Pages!Before(sort, new, x)
         \/ /\ sort = "asc" /\ Pages!PartSecond(p)
            /\ Pages!WholeSecond(p.at) = Pages!WholeSecond(x.at)
  <1>1. x # p /\ Pages!Before(sort, x, p)
    BY DEF Spot, Pages!Before
  <1>2. QED
    BY <1>1, CursorCuts

LEMMA WalkBecomes ==
  ASSUME PageTypes, NEW w \in Walks, NEW new \in Walked, walk' = [walk EXCEPT ![w] = new]
  PROVE  /\ walk' \in [Walks -> Walked] /\ walk'[w] = new
         /\ \A v \in Walks : v # w => walk'[v] = walk[v]
  BY DEF PageTypes

LEMMA RowsAreSpots ==
  ASSUME PageTypes
  PROVE  Pages!Rows \in SUBSET Spot /\ IsFiniteSet(Pages!Rows)
  <1> DEFINE I == {j \in Items : row[j] # None /\ row[j].state = "live"}
             f == [i \in I |-> [id |-> i, at |-> row[i].at]]
  <1>1. \A i \in I : i \in Int /\ row[i].at \in Int
    BY PageAssumption DEF PageTypes
  <1>2. Pages!Rows \in SUBSET Spot
    BY <1>1 DEF Pages!Rows, Spot
  <1>3. f \in Surjection(I, Pages!Rows)
    BY DEF Surjection, Pages!Rows
  <1>4. IsFiniteSet(I)
    BY PageAssumption, FS_Subset
  <1>5. QED
    BY <1>2, <1>3, <1>4, FS_Surjection

(* A step of one walk: what is to hold of the others holds as before.       *)
LEMMA OneWalkGoesOn ==
  ASSUME PageInv, NEW w \in Walks, NEW new \in Walked, walk' = [walk EXCEPT ![w] = new],
         UNCHANGED <<row, clock>>,
         new.there \subseteq Pages!Rows, new.pc # "idle",
         new.cursor = None /\ new.pc = "page" => new.seen = {},
         new.pc = "page" /\ new.cursor # None =>
           /\ \A x \in new.there \ new.seen :
                \/ Pages!Before(new.sort, new.cursor, x)
                \/ new.sort = "desc" /\ Pages!Blurred(w, x)'
           /\ \A x \in new.seen :
                \/ ~Pages!Before(new.sort, new.cursor, x)
                \/ new.sort = "asc" /\ Pages!Blurred(w, x)',
         new.pc = "done" =>
           \A x \in new.there \ new.seen : new.sort = "desc" /\ Pages!Blurred(w, x)',
         \A x \in new.again : new.sort = "asc" /\ Pages!Blurred(w, x)'
  PROVE  PageInv'
  <1> USE DEF PageInv
  <1>1. /\ walk' \in [Walks -> Walked] /\ walk'[w] = new
        /\ \A v \in Walks : v # w => walk'[v] = walk[v]
    BY WalkBecomes
  <1>2. PageTypes' /\ Pages!Rows' = Pages!Rows
    BY <1>1 DEF PageTypes, Pages!Rows
  <1>3. \A v \in Walks : v # w =>
          /\ \A x : Pages!Blurred(v, x)' <=> Pages!Blurred(v, x)
          /\ Pages!Missed(v)' = Pages!Missed(v) /\ (Pages!Ended(v)' <=> Pages!Ended(v))
    BY <1>1 DEF Pages!Blurred, Pages!Missed, Pages!Ended
  <1>4. Pages!Missed(w)' = new.there \ new.seen /\ (Pages!Ended(w)' <=> new.pc = "done")
    BY <1>1 DEF Pages!Missed, Pages!Ended
  <1>5. CursorKnown'
    BY <1>1, <1>2 DEF CursorKnown
  <1>6. StillToCome' /\ LeftBehind'
    BY <1>1, <1>3, <1>4 DEF StillToCome, LeftBehind, Pages!Before
  <1>7. Pages!MissesOnlyBlurredRows' /\ Pages!RepeatsOnlyBlurredRows'
    BY <1>1, <1>3, <1>4 DEF Pages!MissesOnlyBlurredRows, Pages!RepeatsOnlyBlurredRows
  <1>8. QED
    BY <1>2, <1>5, <1>6, <1>7

LEMMA BeginStays ==
  ASSUME PageInv, NEW w \in Walks, NEW sorts, sorts \subseteq {"asc", "desc"},
         Pages!Begin(w, sorts)
  PROVE  PageInv'
  <1> USE DEF PageInv
  <1>1. PICK sort \in sorts :
          walk' = [walk EXCEPT ![w].pc = "page", ![w].sort = sort, ![w].there = Pages!Rows]
    BY DEF Pages!Begin
  <1>2. walk[w].pc = "idle" /\ UNCHANGED <<row, clock>>
    BY DEF Pages!Begin
  <1> DEFINE new == [walk[w] EXCEPT !.pc = "page", !.sort = sort, !.there = Pages!Rows]
  <1>3. walk \in [Walks -> Walked] /\ walk[w] \in Walked /\ Pages!Rows \in SUBSET Spot
    BY RowsAreSpots DEF PageTypes
  <1>4. walk' = [walk EXCEPT ![w] = new]
    BY <1>1, <1>3
  <1>5. walk[w].seen = {} /\ walk[w].cursor = None /\ walk[w].again = {}
    BY <1>2 DEF CursorKnown
  <1>6. /\ new \in Walked /\ new.pc = "page" /\ new.there = Pages!Rows
        /\ new.seen = {} /\ new.cursor = None /\ new.again = {}
    BY <1>3, <1>5 DEF Walked
  <1> HIDE DEF new
  <1>7. QED
    BY <1>2, <1>4, <1>6, OneWalkGoesOn

LEMMA GetPageStays ==
  ASSUME PageInv, NEW w \in Walks, Pages!GetPage(w)
  PROVE  PageInv'
  <1> USE DEF PageInv
  <1> DEFINE sort == walk[w].sort
             B == Pages!BehindCursor(w)
             extra == Pages!FirstRows(B, sort, Limit + 1)
             page == Pages!FirstRows(extra, sort, Limit)
             p == Pages!LastRow(page, sort)
             shown == [walk[w] EXCEPT !.again = @ \cup (walk[w].seen \cap page),
                                      !.seen = @ \cup page, !.pages = @ + 1]
             mark == [id |-> p.id, at |-> Pages!WholeSecond(p.at)]
             onward == [shown EXCEPT !.cursor = mark]
             last(stage) == [shown EXCEPT !.pc = stage, !.cursor = None]
  <1>1. /\ walk[w].pc = "page" /\ UNCHANGED <<row, clock>>
        /\ \/ extra # page /\ walk' = [walk EXCEPT ![w] = onward]
           \/ extra # page /\ walk' = [walk EXCEPT ![w] = last("stopped")]
           \/ extra = page /\ walk' = [walk EXCEPT ![w] = last("done")]
    BY DEF Pages!GetPage, Pages!NextCursor
  <1>2. walk \in [Walks -> Walked] /\ walk[w] \in Walked /\ sort \in {"asc", "desc"}
    BY DEF PageTypes, Walked
  <1>3. B \in SUBSET Spot /\ IsFiniteSet(B) /\ B \subseteq Pages!Rows
    BY RowsAreSpots, FS_Subset DEF Pages!BehindCursor
  <1>4. /\ \A x \in B : walk[w].cursor = None \/ Pages!Before(sort, walk[w].cursor, x)
        /\ \A x \in Pages!Rows :
             walk[w].cursor = None \/ Pages!Before(sort, walk[w].cursor, x) => x \in B
    BY DEF Pages!BehindCursor
  <1> HIDE DEF B
  <1>5. /\ page \subseteq B
        /\ extra = page => page = B
        /\ extra # page =>
             /\ p \in page /\ \A y \in page : y # p => Pages!Before(sort, y, p)
             /\ \A x \in B \ page : Pages!Before(sort, p, x)
    BY <1>2, <1>3, PageIs
  <1> HIDE DEF extra, page, p
  <1>6. /\ shown \in Walked /\ shown.pc = "page" /\ shown.sort = sort
        /\ shown.there = walk[w].there /\ shown.seen = walk[w].seen \cup page
        /\ shown.again = walk[w].again \cup (walk[w].seen \cap page)
    <2>1. page \subseteq Spot
      BY <1>3, <1>5
    <2> DEFINE seen == walk[w].seen \cup page
               again == walk[w].again \cup (walk[w].seen \cap page)
               pages == walk[w].pages + 1
    <2>2. seen \in SUBSET Spot /\ again \in SUBSET Spot /\ pages \in Int
      BY <1>2, <2>1 DEF Walked
    <2>3. shown = [walk[w] EXCEPT !.again = again, !.seen = seen, !.pages = pages]
      BY <1>2 DEF Walked
    <2> HIDE DEF seen, again, pages, shown
    <2>4. /\ shown \in Walked /\ shown.pc = "page" /\ shown.sort = sort
          /\ shown.there = walk[w].there /\ shown.seen = seen /\ shown.again = again
      BY <1>1, <1>2, <2>2, <2>3 DEF Walked
    <2>5. QED
      BY <2>4 DEF seen, again
  <1> HIDE DEF shown
  <1>7. walk[w].there \subseteq Pages!Rows
    BY DEF CursorKnown
  <1>8. \A x : Pages!Blurred(w, x) =>
          \E y \in shown.seen : Pages!PartSecond(y) /\ Pages!WholeSecond(y.at) = Pages!WholeSecond(x.at)
    BY <1>6 DEF Pages!Blurred
  <1> DEFINE Blur(x) == \E y \in shown.seen :
               Pages!PartSecond(y) /\ Pages!WholeSecond(y.at) = Pages!WholeSecond(x.at)
  <1>9. ASSUME NEW x \in walk[w].seen \cap page
        PROVE  sort = "asc" /\ Pages!Blurred(w, x)
    <2>1. walk[w].cursor # None /\ Pages!Before(sort, walk[w].cursor, x)
      BY <1>1, <1>4, <1>5, <1>9 DEF CursorKnown
    <2>2. QED
      BY <1>1, <1>9, <2>1 DEF LeftBehind
  <1>10. \A x \in shown.again : sort = "asc" /\ Blur(x)
    BY <1>6, <1>8, <1>9 DEF Pages!RepeatsOnlyBlurredRows
  <1>11. ASSUME NEW x \in shown.there \ shown.seen
         PROVE  x \in B \ page \/ (sort = "desc" /\ Blur(x))
    <2>1. x \in Pages!Rows /\ x \in Pages!Missed(w) /\ x \notin page
      BY <1>6, <1>7, <1>11 DEF Pages!Missed
    <2>2. CASE walk[w].cursor = None
      BY <1>4, <2>1, <2>2
    <2>3. CASE walk[w].cursor # None
      BY <1>1, <1>4, <1>8, <2>1, <2>3 DEF StillToCome
    <2>4. QED
      BY <2>2, <2>3
  <1>12. CASE extra # page /\ walk' = [walk EXCEPT ![w] = onward]
    <2>1. p \in Spot /\ p \in page /\ p \in shown.seen /\ p \in B
      BY <1>3, <1>5, <1>6, <1>12
    <2>2. mark \in Spot /\ mark # None
      <3>1. mark \in Spot
        BY <1>2, <2>1, CursorCuts
      <3>2. QED
        BY <3>1, PageAssumption DEF Spot
    <2>3. ASSUME NEW x \in shown.there \ shown.seen
          PROVE  Pages!Before(sort, mark, x) \/ (sort = "desc" /\ Blur(x))
      <3>1. CASE x \in B \ page
        <4>1. Pages!Before(sort, p, x) /\ x \in Spot
          BY <1>3, <1>5, <1>12, <3>1
        <4>2. \/ Pages!Before(sort, mark, x)
              \/ /\ sort = "desc" /\ Pages!PartSecond(p)
                 /\ Pages!WholeSecond(p.at) = Pages!WholeSecond(x.at)
          BY <1>2, <2>1, <4>1, CursorCuts
        <4>3. QED
          BY <2>1, <4>2
      <3>2. QED
        BY <1>11, <2>3, <3>1
    <2>4. ASSUME NEW x \in shown.seen
          PROVE  ~Pages!Before(sort, mark, x) \/ (sort = "asc" /\ Blur(x))
      <3>1. CASE x \in page
        <4>1. x \in Spot /\ (x = p \/ Pages!Before(sort, x, p))
          BY <1>3, <1>5, <1>12, <3>1
        <4>2. \/ ~Pages!Before(sort, mark, x)
              \/ /\ sort = "asc" /\ Pages!PartSecond(p)
                 /\ Pages!WholeSecond(p.at) = Pages!WholeSecond(x.at)
          BY <1>2, <2>1, <4>1, CursorCuts
        <4>3. QED
          BY <2>1, <4>2
      <3>2. CASE x \notin page
        <4>1. x \in walk[w].seen /\ x \in Spot /\ walk[w].cursor # None /\ walk[w].cursor \in Spot
          BY <1>1, <1>2, <1>6, <2>4, <3>2 DEF CursorKnown, Walked
        <4>2. Pages!Before(sort, walk[w].cursor, p)
          BY <1>4, <2>1, <4>1
        <4>3. \/ ~Pages!Before(sort, walk[w].cursor, x)
              \/ sort = "asc" /\ Blur(x)
          BY <1>1, <1>8, <4>1 DEF LeftBehind
        <4>4. CASE ~Pages!Before(sort, walk[w].cursor, x)
          <5>1. \/ ~Pages!Before(sort, mark, x)
                \/ /\ sort = "asc" /\ Pages!PartSecond(p)
                   /\ Pages!WholeSecond(p.at) = Pages!WholeSecond(x.at)
            BY <1>2, <2>1, <4>1, <4>2, <4>4, CursorGoesOn
          <5>2. QED
            BY <2>1, <5>1
        <4>5. QED
          BY <4>3, <4>4
      <3>3. QED
        BY <3>1, <3>2
    <2> HIDE DEF mark
    <2>5. /\ onward \in Walked /\ onward.pc = "page" /\ onward.sort = sort
          /\ onward.there = shown.there /\ onward.seen = shown.seen
          /\ onward.again = shown.again /\ onward.cursor = mark
      BY <1>6, <2>2 DEF Walked
    <2> HIDE DEF onward, sort
    <2>6. \A x : Pages!Blurred(w, x)' <=> Blur(x)
      BY <1>12, <2>5, WalkBecomes DEF Pages!Blurred
    <2> HIDE DEF Blur
    <2>7. /\ \A x \in onward.there \ onward.seen :
               \/ Pages!Before(onward.sort, onward.cursor, x)
               \/ onward.sort = "desc" /\ Pages!Blurred(w, x)'
          /\ \A x \in onward.seen :
               \/ ~Pages!Before(onward.sort, onward.cursor, x)
               \/ onward.sort = "asc" /\ Pages!Blurred(w, x)'
      BY <2>3, <2>4, <2>5, <2>6
    <2>8. \A x \in onward.again : onward.sort = "asc" /\ Pages!Blurred(w, x)'
      BY <1>10, <2>5, <2>6
    <2>9. onward.there \subseteq Pages!Rows /\ onward.pc # "idle" /\ onward.pc # "done"
          /\ onward.cursor # None
      BY <1>6, <1>7, <2>2, <2>5
    <2>10. QED
      BY <1>1, <1>12, <2>5, <2>7, <2>8, <2>9, OneWalkGoesOn
  <1>13. ASSUME NEW stage \in {"stopped", "done"}, stage = "done" => extra = page,
                walk' = [walk EXCEPT ![w] = last(stage)]
         PROVE  PageInv'
    <2> DEFINE new == last(stage)
    <2>1. /\ new \in Walked /\ new.pc = stage /\ new.sort = sort
          /\ new.there = shown.there /\ new.seen = shown.seen
          /\ new.again = shown.again /\ new.cursor = None
      BY <1>6 DEF Walked
    <2>2. stage = "done" => \A x \in shown.there \ shown.seen : sort = "desc" /\ Blur(x)
      BY <1>5, <1>11, <1>13
    <2>3. walk' = [walk EXCEPT ![w] = new]
      BY <1>13
    <2> HIDE DEF new, last, sort
    <2>4. \A x : Pages!Blurred(w, x)' <=> Blur(x)
      BY <2>1, <2>3, WalkBecomes DEF Pages!Blurred
    <2> HIDE DEF Blur
    <2>5. QED
      BY <1>1, <1>6, <1>7, <1>10, <2>1, <2>2, <2>3, <2>4, OneWalkGoesOn
  <1>14. QED
    BY <1>1, <1>12, <1>13

(* What goes on beside the walks. *)
LEMMA RowsComeAndGo ==
  ASSUME PageInv, PageTypes', Pages!Rows \subseteq Pages!Rows', walk' = walk
  PROVE  PageInv'
  <1>1. /\ \A w \in Walks : \A x : Pages!Blurred(w, x)' <=> Pages!Blurred(w, x)
        /\ \A w \in Walks : Pages!Missed(w)' = Pages!Missed(w)
        /\ \A w \in Walks : Pages!Ended(w)' <=> Pages!Ended(w)
    BY DEF Pages!Blurred, Pages!Missed, Pages!Ended
  <1>2. CursorKnown'
    BY DEF PageInv, CursorKnown
  <1>3. StillToCome' /\ LeftBehind'
    BY <1>1 DEF PageInv, StillToCome, LeftBehind, Pages!Before
  <1>4. Pages!MissesOnlyBlurredRows' /\ Pages!RepeatsOnlyBlurredRows'
    BY <1>1 DEF PageInv, Pages!MissesOnlyBlurredRows, Pages!RepeatsOnlyBlurredRows
  <1>5. QED
    BY <1>2, <1>3, <1>4 DEF PageInv

LEMMA DeleteStays ==
  ASSUME PageInv, NEW i \in Items, Pages!DeleteTransaction(i)
  PROVE  PageInv'
  <1> USE DEF PageInv
  <1>1. /\ row[i] # None /\ clock' = clock
        /\ row' = [row EXCEPT ![i].state = "deleted"]
        /\ walk' = [w \in Walks |-> [walk[w] EXCEPT !.there = {x \in @ : x.id # i}]]
    BY DEF Pages!DeleteTransaction
  <1>2. ASSUME NEW w \in Walks
        PROVE  /\ walk'[w] \in Walked /\ walk'[w].there = {x \in walk[w].there : x.id # i}
               /\ walk'[w].pc = walk[w].pc /\ walk'[w].sort = walk[w].sort
               /\ walk'[w].cursor = walk[w].cursor /\ walk'[w].seen = walk[w].seen
               /\ walk'[w].again = walk[w].again
    BY <1>1 DEF PageTypes, Walked
  <1>3. walk' \in [Walks -> Walked]
    BY <1>1, <1>2
  <1>4. row[i] \in [at : Int, state : {"stamped", "live", "deleted"}]
    BY <1>1 DEF PageTypes
  <1>5. /\ row' \in [Items -> [at : Int, state : {"stamped", "live", "deleted"}] \cup {None}]
        /\ \A j \in Items : j # i => row'[j] = row[j]
    BY <1>1, <1>4 DEF PageTypes
  <1>6. PageTypes'
    BY <1>1, <1>3, <1>5 DEF PageTypes
  <1>7. \A x \in Pages!Rows : x.id # i => x \in Pages!Rows'
    BY <1>5 DEF Pages!Rows
  <1>8. /\ \A w \in Walks : \A x : Pages!Blurred(w, x)' <=> Pages!Blurred(w, x)
        /\ \A w \in Walks : Pages!Missed(w)' \subseteq Pages!Missed(w)
        /\ \A w \in Walks : Pages!Ended(w)' <=> Pages!Ended(w)
    BY <1>2 DEF Pages!Blurred, Pages!Missed, Pages!Ended
  <1>9. CursorKnown'
    BY <1>2, <1>7 DEF CursorKnown
  <1>10. StillToCome' /\ LeftBehind'
    BY <1>2, <1>8 DEF StillToCome, LeftBehind, Pages!Before
  <1>11. Pages!MissesOnlyBlurredRows' /\ Pages!RepeatsOnlyBlurredRows'
    BY <1>2, <1>8 DEF Pages!MissesOnlyBlurredRows, Pages!RepeatsOnlyBlurredRows
  <1>12. QED
    BY <1>6, <1>9, <1>10, <1>11

LEMMA PageStarts == Init => PageInv
  <1> SUFFICES ASSUME Init
               PROVE  PageInv
    OBVIOUS
  <1>1. /\ row = [i \in Items |-> None] /\ clock = 0
        /\ walk = [w \in Walks |-> [pc |-> "idle", sort |-> "desc", cursor |-> None,
                                    seen |-> {}, again |-> {}, there |-> {}, pages |-> 0]]
    BY DEF Init, Pages!Init
  <1>2. PageTypes
    BY <1>1 DEF PageTypes, Walked
  <1>3. CursorKnown /\ StillToCome /\ LeftBehind
    BY <1>1 DEF CursorKnown, StillToCome, LeftBehind
  <1>4. Pages!MissesOnlyBlurredRows /\ Pages!RepeatsOnlyBlurredRows
    BY <1>1 DEF Pages!MissesOnlyBlurredRows, Pages!RepeatsOnlyBlurredRows, Pages!Ended
  <1>5. QED
    BY <1>2, <1>3, <1>4 DEF PageInv

LEMMA PageStays == PageInv /\ [Next]_vars => PageInv'
  <1> SUFFICES ASSUME PageInv, [Next]_vars
               PROVE  PageInv'
    OBVIOUS
  <1> DEFINE Kept == [at : Int, state : {"stamped", "live", "deleted"}]
  <1>1. row \in [Items -> Kept \cup {None}] /\ clock \in Int
    BY DEF PageInv, PageTypes
  <1>2. ASSUME UNCHANGED <<row, clock, walk>>
        PROVE  PageInv'
    BY <1>2, RowsComeAndGo DEF PageInv, PageTypes, Pages!Rows
  <1>3. ASSUME NEW i \in Items, NEW new \in Kept, row' = [row EXCEPT ![i] = new],
               row[i] = None \/ row[i].state = "stamped", UNCHANGED <<clock, walk>>
        PROVE  PageInv'
    <2>1. PageTypes'
      BY <1>1, <1>3 DEF PageInv, PageTypes
    <2>2. Pages!Rows \subseteq Pages!Rows'
      BY <1>1, <1>3 DEF Pages!Rows
    <2>3. QED
      BY <1>3, <2>1, <2>2, RowsComeAndGo
  <1>4. ASSUME NEW i \in Items, Pages!AddTransaction(i)
        PROVE  PageInv'
    <2>1. PICK t \in 0..LastMoment : row' = [row EXCEPT ![i] = [at |-> t, state |-> "live"]]
      BY <1>4 DEF Pages!AddTransaction
    <2>2. row[i] = None /\ UNCHANGED <<clock, walk>>
      BY <1>4 DEF Pages!AddTransaction
    <2>3. [at |-> t, state |-> "live"] \in Kept
      BY PageAssumption
    <2> HIDE DEF Kept
    <2>4. QED
      BY <1>3, <2>1, <2>2, <2>3
  <1>5. ASSUME NEW i \in Items, Pages!StampEntry(i)
        PROVE  PageInv'
    <2>1. /\ row' = [row EXCEPT ![i] = [at |-> clock, state |-> "stamped"]]
          /\ row[i] = None /\ UNCHANGED <<clock, walk>>
      BY <1>5 DEF Pages!StampEntry
    <2>2. QED
      BY <1>1, <1>3, <2>1
  <1>6. ASSUME NEW i \in Items, Pages!CommitEntry(i)
        PROVE  PageInv'
    <2>1. /\ row[i] \in Kept /\ row[i].state = "stamped" /\ UNCHANGED <<clock, walk>>
          /\ row' = [row EXCEPT ![i] = [row[i] EXCEPT !.state = "live"]]
      BY <1>1, <1>6 DEF Pages!CommitEntry
    <2>2. [row[i] EXCEPT !.state = "live"] \in Kept
      BY <2>1
    <2>3. QED
      BY <1>3, <2>1, <2>2
  <1>7. CASE Pages!Advance
    <2>1. clock' = clock + 1 /\ UNCHANGED <<row, walk>>
      BY <1>7 DEF Pages!Advance
    <2>2. PageTypes' /\ Pages!Rows' = Pages!Rows
      BY <1>1, <2>1 DEF PageInv, PageTypes, Pages!Rows
    <2>3. QED
      BY <2>1, <2>2, RowsComeAndGo
  <1>8. ASSUME NEW w \in Walks, \/ Pages!BeginList(w) \/ Pages!BeginPull(w)
                                \/ Pages!ListTransactions(w) \/ Pages!Pull(w)
        PROVE  PageInv'
    <2>1. \/ Pages!Begin(w, {"asc", "desc"}) \/ Pages!Begin(w, {"asc"}) \/ Pages!GetPage(w)
      BY <1>8 DEF Pages!BeginList, Pages!BeginPull, Pages!ListTransactions, Pages!Pull
    <2>2. QED
      BY <2>1, BeginStays, GetPageStays
  <1>9. CASE UNCHANGED pageVars
    BY <1>2, <1>9 DEF pageVars
  <1>10. QED
    BY <1>4, <1>5, <1>6, <1>7, <1>8, <1>9, DeleteStays, PageSteps DEF Pages!Next

LEMMA PageAlways == Spec => []PageInv
  BY PageStarts, PageStays, PTL DEF Spec

(* A walk through a list that goes forward misses no row that was there all *)
(* the time, and one that goes backward only rows of the second of a row    *)
(* that it was shown, which the cursor cannot tell apart.                   *)
THEOREM WalksMissOnlyBlurred == Spec => []MissesOnlyBlurredRows
  <1>1. PageInv => MissesOnlyBlurredRows
    BY DEF PageInv, MissesOnlyBlurredRows
  <1>2. QED
    BY <1>1, PageAlways, PTL

(* A walk backward is shown no row twice, and a walk forward only rows of   *)
(* the second of a row that it was shown.                                   *)
THEOREM WalksRepeatOnlyBlurred == Spec => []RepeatsOnlyBlurredRows
  <1>1. PageInv => RepeatsOnlyBlurredRows
    BY DEF PageInv, RepeatsOnlyBlurredRows
  <1>2. QED
    BY <1>1, PageAlways, PTL
=============================================================================

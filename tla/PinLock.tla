------------------------------- MODULE PinLock -------------------------------
(***************************************************************************)
(* The PIN lock of the device: the keys in the secure storage, the use     *)
(* cases that set, verify and disable the PIN, and PinLockController.      *)
(*                                                                         *)
(* A PIN is stored as its hash and a salt that is new each time, so a PIN  *)
(* is known here by its salt.  savePin and clearPin start all their writes *)
(* at once and wait for them; the writes land in any order, one may fail,  *)
(* and the app may be killed between them.  A PIN can be set while another *)
(* one is, and at a time when the lock closes.                             *)
(***************************************************************************)
EXTENDS Integers, FiniteSets

CONSTANTS Pins,           \* PINs in the order they are set: numbers from 1
          None

VARIABLES stored,         \* the keys in the secure storage
          writes,         \* the writes that have not landed yet
          screen,         \* what the user is at, and the PIN of it
          lock,           \* PinLockState; None until it is read
          latest,         \* history: the PIN set last, None when disabled
          spoiled         \* history: a write failed or was lost beside others
                          \* that landed, or a clearing was left

vars == <<stored, writes, screen, lock, latest, spoiled>>

Keys == {"hash", "salt", "enabled"}

Matches(pin) == stored["hash"] = pin /\ stored["salt"] = pin

NeedsUnlock == lock # None /\ lock.enabled /\ ~lock.unlocked

-----------------------------------------------------------------------------
(* The storage.                                                             *)

Land(k) ==
  /\ \E w \in writes : /\ w.key = k
                       /\ stored' = [stored EXCEPT ![k] = w.value]
                       /\ writes' = writes \ {w}
  /\ UNCHANGED <<screen, lock, latest, spoiled>>

WriteFails(k) ==
  /\ \E w \in writes : w.key = k /\ writes' = writes \ {w}
  /\ spoiled' = TRUE
  /\ screen' = [screen EXCEPT !.failed = TRUE]
  /\ UNCHANGED <<stored, lock, latest>>

-----------------------------------------------------------------------------
(* The screens.                                                             *)

Free == screen.at = "home" /\ lock # None /\ ~NeedsUnlock

(* To change the PIN, the user enters the present one.                      *)
SetAllowed == lock.enabled => \E current \in Pins : Matches(current)

SetPin(pin) ==
  /\ Free
  /\ SetAllowed
  /\ pin > screen.pin
  /\ writes' = {[key |-> "hash", value |-> pin], [key |-> "salt", value |-> pin],
                [key |-> "enabled", value |-> TRUE]}
  /\ screen' = [at |-> "saving", pin |-> pin, failed |-> FALSE]
  /\ UNCHANGED <<stored, lock, latest, spoiled>>

(* Mutant: the writes are not waited for. *)
PinSavedAtOnce ==
  /\ screen.at = "saving"
  /\ screen' = [screen EXCEPT !.at = "home"]
  /\ lock' = [enabled |-> TRUE, unlocked |-> TRUE]
  /\ latest' = screen.pin
  /\ UNCHANGED <<stored, writes, spoiled>>

(* Future.wait waits for all the writes, and then throws the error of one.  *)
PinSaved ==
  /\ screen.at = "saving"
  /\ writes = {}
  /\ screen' = [screen EXCEPT !.at = "home"]
  /\ IF screen.failed
       THEN UNCHANGED <<lock, latest>>
       ELSE /\ lock' = [enabled |-> TRUE, unlocked |-> TRUE]
            /\ latest' = screen.pin
  /\ UNCHANGED <<stored, writes, spoiled>>

(* DisablePinLockUseCase verifies the PIN before it clears the keys.        *)
DisablePin(pin) ==
  /\ Free
  /\ lock.enabled
  /\ Matches(pin)
  /\ writes' = {[key |-> k, value |-> None] : k \in Keys}
  /\ screen' = [screen EXCEPT !.at = "clearing", !.failed = FALSE]
  /\ UNCHANGED <<stored, lock, latest, spoiled>>

PinCleared ==
  /\ screen.at = "clearing"
  /\ writes = {}
  /\ screen' = [screen EXCEPT !.at = "home"]
  /\ IF screen.failed
       THEN UNCHANGED <<lock, latest>>
       ELSE /\ lock' = [enabled |-> FALSE, unlocked |-> TRUE]
            /\ latest' = None
  /\ UNCHANGED <<stored, writes, spoiled>>

(* The user goes back, or the lock screen replaces the settings, while the  *)
(* writes are under way: the rest of the call does not run, and the         *)
(* controller is not told of their outcome.                                 *)
LeaveScreen ==
  /\ screen.at \in {"saving", "clearing"}
  /\ screen' = [screen EXCEPT !.at = "left"]
  /\ spoiled' = (spoiled \/ screen.at = "clearing")
  /\ UNCHANGED <<stored, writes, lock, latest>>

(* The user is back at the settings when the writes have ended.             *)
WritesEnd ==
  /\ screen.at = "left"
  /\ writes = {}
  /\ screen' = [screen EXCEPT !.at = "home"]
  /\ latest' = IF screen.failed THEN latest ELSE screen.pin
  /\ UNCHANGED <<stored, writes, lock, spoiled>>

Unlock(pin) ==
  /\ NeedsUnlock
  /\ screen.at \in {"home", "left"}
  /\ Matches(pin)
  /\ lock' = [lock EXCEPT !.unlocked = TRUE]
  /\ UNCHANGED <<stored, writes, screen, latest, spoiled>>

(* The app goes to the background.                                          *)
LockIfEnabled ==
  /\ lock # None /\ lock.enabled
  /\ lock' = [lock EXCEPT !.unlocked = FALSE]
  /\ UNCHANGED <<stored, writes, screen, latest, spoiled>>

Untouched == \A k \in Keys : \E w \in writes : w.key = k

(* The app is killed; writes that have not landed are lost.  When all of    *)
(* them had landed, the PIN is set or gone, though nobody was told.         *)
Kill ==
  /\ lock' = None
  /\ writes' = {}
  /\ screen' = [screen EXCEPT !.at = "home"]
  /\ latest' = IF screen.at = "home" \/ writes # {} THEN latest
               ELSE IF screen.at = "clearing" THEN None ELSE screen.pin
  /\ spoiled' = (spoiled \/ (writes # {} /\ ~Untouched))
  /\ UNCHANGED stored

Build ==
  /\ lock = None
  /\ lock' = [enabled |-> stored["enabled"] = TRUE, unlocked |-> stored["enabled"] # TRUE]
  /\ UNCHANGED <<stored, writes, screen, latest, spoiled>>

Init ==
  /\ stored = [k \in Keys |-> None]
  /\ writes = {}
  /\ screen = [at |-> "home", pin |-> 0, failed |-> FALSE]
  /\ lock = None
  /\ latest = None
  /\ spoiled = FALSE

Next ==
  \/ \E k \in Keys : Land(k) \/ WriteFails(k)
  \/ \E pin \in Pins : SetPin(pin) \/ DisablePin(pin) \/ Unlock(pin)
  \/ PinSaved \/ PinCleared \/ LeaveScreen \/ WritesEnd \/ LockIfEnabled \/ Kill \/ Build

Spec == Init /\ [][Next]_vars

-----------------------------------------------------------------------------
(* Properties.                                                              *)

(* A lock that asks for a PIN opens with the PIN that was set last, the     *)
(* first or a changed one, however the writes of the keys land, wherever    *)
(* the lock closes, the screen is left or the app is killed; but for a      *)
(* write that failed or was lost beside others that landed, and a clearing  *)
(* left before its end.                                                     *)
PinOpens ==
  NeedsUnlock /\ screen.at = "home" /\ ~spoiled => latest # None /\ Matches(latest)
=============================================================================

------------------------------ MODULE RateLimit ------------------------------
(***************************************************************************)
(* AuthRateLimit of the Mali API: a sliding window over the requests that  *)
(* one address sends to the auth routes.                                   *)
(*                                                                         *)
(* A request takes its time on the API's clock, and then has Redis run one *)
(* script that drops what left the window, adds the request, counts and    *)
(* renews the key's lifetime.  Requests may reach Redis out of the order   *)
(* of their times.  A refused request stays in the window.                 *)
(***************************************************************************)
EXTENDS Integers, FiniteSets

CONSTANTS AuthRequests,   \* requests of one address
          MaxRequests,    \* the middleware's limit
          Window,         \* in ticks
          Delay,          \* at most so long from taking the time to the script
          LastMs          \* bound of the clock

VARIABLES ms,             \* the clock
          zset,           \* the sorted set: requests and their times
          expires,        \* when Redis drops the key
          attempt         \* the state of each request

vars == <<ms, zset, expires, attempt>>

Stamp(r) ==
  /\ attempt[r].pc = "idle"
  /\ attempt' = [attempt EXCEPT ![r].pc = "stamped", ![r].at = ms]
  /\ UNCHANGED <<ms, zset, expires>>

(* Mutant: the request is counted before it is added. *)
CountThenAdd(r) ==
  /\ attempt[r].pc = "stamped"
  /\ LET at == attempt[r].at
         kept == {x \in zset : ms < expires /\ x.at > at - Window}
     IN /\ zset' = kept \cup {[request |-> r, at |-> at]}
        /\ attempt' = [attempt EXCEPT ![r].pc = IF Cardinality(kept) > MaxRequests
                                                THEN "refused" ELSE "passed",
                                      ![r].ran = ms]
  /\ expires' = ms + Window
  /\ UNCHANGED ms

RunScript(r) ==
  /\ attempt[r].pc = "stamped"
  /\ LET at == attempt[r].at
         kept == {x \in zset : ms < expires /\ x.at > at - Window}
                   \cup {[request |-> r, at |-> at]}
     IN /\ zset' = kept
        /\ attempt' = [attempt EXCEPT ![r].pc = IF Cardinality(kept) > MaxRequests
                                                THEN "refused" ELSE "passed",
                                      ![r].ran = ms]
  /\ expires' = ms + Window
  /\ UNCHANGED ms

(* Redis fails: 500, and the request goes no further.                       *)
ScriptFails(r) ==
  /\ attempt[r].pc = "stamped"
  /\ attempt' = [attempt EXCEPT ![r].pc = "failed"]
  /\ UNCHANGED <<ms, zset, expires>>

Tick ==
  /\ ms < LastMs
  /\ \A r \in AuthRequests : attempt[r].pc = "stamped" => ms < attempt[r].at + Delay
  /\ ms' = ms + 1
  /\ UNCHANGED <<zset, expires, attempt>>

Init ==
  /\ ms = 0
  /\ zset = {}
  /\ expires = 0
  /\ attempt = [r \in AuthRequests |-> [pc |-> "idle", at |-> 0, ran |-> 0]]

Next == (\E r \in AuthRequests : Stamp(r) \/ RunScript(r) \/ ScriptFails(r)) \/ Tick

Spec == Init /\ [][Next]_vars

-----------------------------------------------------------------------------
(* Properties.                                                              *)

(* In any span that is shorter than the window by the delay, no more than   *)
(* the limit of requests gets past the middleware, in whatever order they   *)
(* reach Redis and whenever the key expires.                                *)
LimitHolds ==
  \A t \in 0..LastMs :
    Cardinality({r \in AuthRequests : /\ attempt[r].pc = "passed"
                                  /\ attempt[r].ran \in t..(t + Window - Delay - 1)})
      <= MaxRequests
=============================================================================

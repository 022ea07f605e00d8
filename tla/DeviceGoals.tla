----------------------------- MODULE DeviceGoals -----------------------------
(***************************************************************************)
(* The device's savings goals: the use cases that create, update, reorder  *)
(* and contribute to goals, over the local database.                       *)
(*                                                                         *)
(* Each reads the list of goals, works on the copies, and saves whole rows *)
(* one by one, awaiting each save, without a database transaction.  Other  *)
(* use cases run in between, a save may fail, and the app may be killed.   *)
(***************************************************************************)
EXTENDS Integers, FiniteSetsExt

CONSTANTS Edits,          \* calls of a use case
          Goals,
          Gifts,          \* amounts the user contributes
          Targets,        \* target amounts
          None

VARIABLES goals,          \* the rows of savings_goals
          given,          \* the sum of each goal's contributions
          edit,           \* the state of each call
          torn,           \* history: contributions whose call stopped before the goal
          oneByOne,       \* history: no two calls overlapped
          unbroken        \* history: no reordering stopped in the middle

vars == <<goals, given, edit, torn, oneByOne, unbroken>>

Live == {g \in Goals : goals[g] # None}

Closed == {"idle", "done"}

Begins(o) ==
  /\ edit[o].pc = "idle"
  /\ oneByOne' = (oneByOne /\ \A other \in Edits : edit[other].pc \in Closed)

Save(g, new) == [goal |-> g, row |-> new]

-----------------------------------------------------------------------------
(* The use cases up to their first write.  A call's saves are those still   *)
(* to be made; a reordering makes them in the new order of the goals.       *)

NextPriority == IF Live = {} THEN 0 ELSE Max({goals[g].priority : g \in Live}) + 1

CreateGoal(o) ==
  /\ Begins(o)
  /\ \E g \in Goals, target \in Targets :
       /\ goals[g] = None /\ \A other \in Edits : edit[other].new # g
       /\ target > 0
       /\ edit' = [edit EXCEPT ![o].pc = "save", ![o].new = g,
            ![o].saves = {Save(g, [amount |-> 0, target |-> target, done |-> FALSE,
                                   priority |-> NextPriority])}]
  /\ UNCHANGED <<goals, given, torn, unbroken>>

UpdateGoal(o) ==
  /\ Begins(o)
  /\ \E g \in Live, target \in Targets :
       /\ target > 0
       /\ edit' = [edit EXCEPT ![o].pc = "save",
            ![o].saves = {Save(g, [goals[g] EXCEPT !.target = target,
                                                   !.done = goals[g].amount >= target])}]
  /\ UNCHANGED <<goals, given, torn, unbroken>>

(* Goals in their place already are left out.                               *)
Moves(order) ==
  {Save(order[i], [goals[order[i]] EXCEPT !.priority = i - 1]) :
     i \in {j \in DOMAIN order : goals[order[j]].priority # j - 1}}

Orders(S) == {order \in [1..Cardinality(S) -> S] : {order[i] : i \in DOMAIN order} = S}

(* Mutant: the list the user ordered may leave goals out. *)
ReorderSome(o) ==
  /\ Begins(o)
  /\ \E S \in SUBSET Live : \E order \in Orders(S) :
       edit' = [edit EXCEPT ![o].pc = IF Moves(order) = {} THEN "done" ELSE "save",
                            ![o].saves = Moves(order)]
  /\ UNCHANGED <<goals, given, torn, unbroken>>

(* The list the user ordered must be that of the goals.                     *)
ReorderGoals(o) ==
  /\ Begins(o)
  /\ Live # {}
  /\ \E order \in Orders(Live) :
       edit' = [edit EXCEPT ![o].pc = IF Moves(order) = {} THEN "done" ELSE "save",
                            ![o].saves = Moves(order)]
  /\ UNCHANGED <<goals, given, torn, unbroken>>

(* Mutant: the goal is saved first and the contribution last. *)
AllocateGoalFirst(o) ==
  /\ Begins(o)
  /\ \E g \in Live, gift \in Gifts :
       LET amount == goals[g].amount + gift
           new == [goals[g] EXCEPT !.amount = amount, !.done = amount >= goals[g].target]
       IN /\ gift > 0
          /\ goals' = [goals EXCEPT ![g] = new]
          /\ edit' = [edit EXCEPT ![o].pc = "contribution", ![o].gift = gift,
                                  ![o].saves = {Save(g, new)}]
  /\ UNCHANGED <<given, torn, unbroken>>

AllocateToGoal(o) ==
  /\ Begins(o)
  /\ \E g \in Live, gift \in Gifts :
       LET amount == goals[g].amount + gift
           new == [goals[g] EXCEPT !.amount = amount, !.done = amount >= goals[g].target]
       IN /\ gift > 0
          /\ edit' = [edit EXCEPT ![o].pc = "contribution", ![o].gift = gift,
                                  ![o].saves = {Save(g, new)}]
  /\ UNCHANGED <<goals, given, torn, unbroken>>

-----------------------------------------------------------------------------
(* The writes.                                                              *)

AddContribution(o) ==
  /\ edit[o].pc = "contribution"
  /\ \E s \in edit[o].saves : given' = [given EXCEPT ![s.goal] = @ + edit[o].gift]
  /\ edit' = [edit EXCEPT ![o].pc = "save"]
  /\ UNCHANGED <<goals, torn, oneByOne, unbroken>>

First(o) == {s \in edit[o].saves : \A t \in edit[o].saves : s.row.priority <= t.row.priority}

SaveGoal(o) ==
  /\ edit[o].pc = "save"
  /\ \E s \in First(o) :
       LET rest == edit[o].saves \ {s}
       IN /\ goals' = [goals EXCEPT ![s.goal] = s.row]
          /\ edit' = [edit EXCEPT ![o].pc = IF rest = {} THEN "done" ELSE "save",
                                  ![o].saves = rest, ![o].gift = 0]
  /\ UNCHANGED <<given, torn, oneByOne, unbroken>>

(* A statement throws, or the app is killed.                                *)
Break(o) ==
  /\ edit[o].pc \notin Closed
  /\ \E s \in First(o) :
       /\ torn' = IF edit[o].pc = "save" THEN [torn EXCEPT ![s.goal] = @ + edit[o].gift]
                                         ELSE torn
       /\ unbroken' = (unbroken /\ (goals[s.goal] = None
                                      \/ s.row.priority = goals[s.goal].priority))
  /\ edit' = [edit EXCEPT ![o].pc = "done", ![o].saves = {}, ![o].gift = 0]
  /\ UNCHANGED <<goals, given, oneByOne>>

Init ==
  /\ goals = [g \in Goals |-> None]
  /\ given = [g \in Goals |-> 0]
  /\ edit = [o \in Edits |-> [pc |-> "idle", new |-> None, gift |-> 0, saves |-> {}]]
  /\ torn = [g \in Goals |-> 0]
  /\ oneByOne = TRUE
  /\ unbroken = TRUE

Run(o) ==
  \/ CreateGoal(o) \/ UpdateGoal(o) \/ ReorderGoals(o) \/ AllocateToGoal(o)
  \/ AddContribution(o) \/ SaveGoal(o) \/ Break(o)

Next == \E o \in Edits : Run(o)

Spec == Init /\ [][Next]_vars

-----------------------------------------------------------------------------
(* Properties.                                                              *)

(* However the calls interleave and stop, a goal shows no more than was     *)
(* contributed to it; and as much, while they come one at a time, apart     *)
(* from the calls that stopped between the contribution and the goal.       *)
ShownIsGiven ==
  \A g \in Live :
    /\ goals[g].amount <= given[g]
    /\ oneByOne /\ (\A o \in Edits : edit[o].pc \in Closed) =>
         goals[g].amount + torn[g] = given[g]

(* Calls that come one at a time leave the goals in one order, whatever is  *)
(* created after whatever was reordered.                                    *)
OneOrder ==
  oneByOne /\ unbroken /\ (\A o \in Edits : edit[o].pc \in Closed) =>
    \A g, h \in Live : g # h => goals[g].priority # goals[h].priority
=============================================================================

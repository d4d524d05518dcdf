--------------------------- MODULE ReviewLifecycle ---------------------------
(***************************************************************************)
(* What the review service promises for each commit it is asked to review: *)
(* one review at a time, started only from a place in the line or straight *)
(* from a delivery, and no second one while the first is remembered.  A    *)
(* finished review is remembered for KeepFor; sooner it is forgotten only  *)
(* to make room, one for each review that ends, or with everything else by *)
(* a restart.  A review cut off at its deadline counts as over.  Nothing   *)
(* here knows of jobs, claims, tickets or signals.                         *)
(***************************************************************************)
EXTENDS Naturals, FiniteSets

CONSTANTS
  Keys,      \* the commits a review may be asked for
  LineCap,   \* most commits waiting
  SlotCap,   \* most commits under review
  KeepFor,   \* how long a finished review is remembered
  Memory     \* most finished reviews remembered

VARIABLES
  stage,     \* where each commit is
  until,     \* when the memory of its finished review ends
  time       \* the clock, which may be stepped back

Stages == {"free", "queued", "running", "done"}

\* "free" is also what a failed, dropped or cut review leaves behind.
Moves ==
  {<<"free", "queued">>, <<"free", "running">>, <<"queued", "running">>,
   <<"queued", "free">>, <<"running", "done">>, <<"running", "free">>}

In(s, where) == {k \in Keys : s[k] = where}

Init ==
  /\ stage = [k \in Keys |-> "free"] /\ until = [k \in Keys |-> 0]
  /\ time \in Nat

Tick == time' \in Nat /\ UNCHANGED <<stage, until>>

\* Remembered, and not yet for long enough.
Remembered(k) == stage[k] = "done" /\ until[k] > time

\* Forgotten before its time: the memory is full, a review ends, and it is the only one.
MakesRoom(k) ==
  /\ stage'[k] = "free"
  /\ Cardinality(In(stage, "done")) >= Memory
  /\ \E j \in Keys : stage[j] = "running" /\ stage'[j] # "running"
  /\ \A m \in Keys : Remembered(m) /\ stage'[m] # "done" => m = k

Serve ==
  /\ stage' \in [Keys -> Stages]
  /\ \A k \in Keys : stage'[k] # stage[k] =>
       \/ <<stage[k], stage'[k]>> \in Moves
       \/ stage[k] = "done" /\ (Remembered(k) => MakesRoom(k))
  /\ until' = [k \in Keys |-> IF stage'[k] # "done" THEN 0
                             ELSE IF stage[k] = "done" THEN until[k] ELSE time + KeepFor]
  /\ Cardinality(In(stage', "queued")) <= LineCap
  /\ Cardinality(In(stage', "running")) <= SlotCap
  /\ Cardinality(In(stage', "done")) <= Memory
  /\ UNCHANGED time

Restart ==
  /\ stage' = [k \in Keys |-> "free"] /\ until' = [k \in Keys |-> 0]
  /\ UNCHANGED time

Next == Tick \/ Serve \/ Restart

Spec == Init /\ [][Next]_<<stage, until, time>>
=============================================================================

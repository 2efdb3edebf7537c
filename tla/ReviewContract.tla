---------------------------- MODULE ReviewContract ----------------------------
(***************************************************************************)
(* What the critique loop promises to run_investigation: a review of the   *)
(* draft takes place at least once and at most `cap` times, and ends with  *)
(* a verdict.  A draft is accepted as soon as it passes; it is escalated   *)
(* to a human only when the last permitted review has failed; the agents   *)
(* may also raise, which ends the run without a verdict.                   *)
(***************************************************************************)
EXTENDS Integers

VARIABLES
  cap,      \* the number of reviews permitted
  rounds,   \* the number of reviews held
  outcome   \* "pending", "passed", "escalated" or "raised"

vars == <<cap, rounds, outcome>>

Init ==
  /\ cap \in Nat \ {0}
  /\ rounds = 0
  /\ outcome = "pending"

Pass ==
  /\ outcome = "pending" /\ rounds < cap
  /\ rounds' = rounds + 1
  /\ outcome' = "passed"
  /\ UNCHANGED cap

AskForRevision ==
  /\ outcome = "pending" /\ rounds + 1 < cap
  /\ rounds' = rounds + 1
  /\ UNCHANGED <<cap, outcome>>

Escalate ==
  /\ outcome = "pending" /\ rounds + 1 = cap
  /\ rounds' = rounds + 1
  /\ outcome' = "escalated"
  /\ UNCHANGED cap

Raise ==
  /\ outcome = "pending"
  /\ outcome' = "raised"
  /\ UNCHANGED <<cap, rounds>>

Next == Pass \/ AskForRevision \/ Escalate \/ Raise

SafetySpec == Init /\ [][Next]_vars
Spec == SafetySpec /\ WF_vars(Next)
==============================================================================

---------------------------- MODULE CaseLifecycle ----------------------------
(***************************************************************************)
(* What the API promises about the seeded cases: what a client sees of a   *)
(* case goes from absent to in progress to a settled outcome, an outcome   *)
(* is visible only together with what belongs to it, only a new trigger    *)
(* puts the case back in progress, and the last trigger to be answered     *)
(* leaves an outcome behind.                                               *)
(***************************************************************************)
EXTENDS Integers

CONSTANT Cases

VARIABLES
  seen,   \* what a client sees of each case: "absent", "in_progress" or an outcome
  open    \* for each case, the number of triggers accepted and not yet answered

vars == <<seen, open>>

Outcomes == {"completed", "escalated", "failed"}

Init ==
  /\ seen = [c \in Cases |-> "absent"]
  /\ open = [c \in Cases |-> 0]

Trigger(c) ==
  /\ seen' = [seen EXCEPT ![c] = "in_progress"]
  /\ open' = [open EXCEPT ![c] = @ + 1]

Settle(c) ==
  /\ open[c] > 0
  /\ \E outcome \in Outcomes : seen' = [seen EXCEPT ![c] = outcome]
  /\ UNCHANGED open

Answer(c) ==
  /\ open[c] > 0
  /\ open[c] = 1 => seen[c] \in Outcomes
  /\ open' = [open EXCEPT ![c] = @ - 1]
  /\ UNCHANGED seen

Next == \E c \in Cases : Trigger(c) \/ Settle(c) \/ Answer(c)

Spec == Init /\ [][Next]_vars
==============================================================================

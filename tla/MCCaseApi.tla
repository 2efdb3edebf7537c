------------------------------- MODULE MCCaseApi -------------------------------
(***************************************************************************)
(* An instance of CaseApi for TLC: enough concurrent POSTs for a run to    *)
(* overtake another one for the same case while a third works on another   *)
(* case, and a GET that may look in between any two of their statements.   *)
(***************************************************************************)
EXTENDS CaseApi

CONSTANTS p1, p2, p3, g1, seeded, unknown
==============================================================================

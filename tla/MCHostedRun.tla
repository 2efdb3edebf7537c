------------------------------ MODULE MCHostedRun ------------------------------
(***************************************************************************)
(* An instance of HostedRun for TLC: one run, whose agents may use their   *)
(* tools for its case or for the other one, with room for a revision.      *)
(***************************************************************************)
EXTENDS HostedRun

CONSTANTS r1, c1, c2, other
==============================================================================

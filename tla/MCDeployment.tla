------------------------------ MODULE MCDeployment ------------------------------
(***************************************************************************)
(* An instance of Deployment for TLC: the two replicas of deployment.yaml, *)
(* with pools small enough to be filled.                                   *)
(***************************************************************************)
EXTENDS Deployment

CONSTANTS a, b, p1, p2, p3, g1, c1, c2
==============================================================================

---------------------------- MODULE MCInvestigation ----------------------------
(***************************************************************************)
(* An instance of Investigation for TLC: two runs, of one case or of two,  *)
(* with a cap that leaves room for a revision, and one tool call, for one  *)
(* of these cases.                                                         *)
(***************************************************************************)
EXTENDS Investigation

CONSTANTS r1, r2, c1, c2

Symmetry == Permutations({r1, r2}) \cup Permutations({c1, c2})
==============================================================================

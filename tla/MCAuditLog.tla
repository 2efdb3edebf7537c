------------------------------ MODULE MCAuditLog ------------------------------
(***************************************************************************)
(* An instance of AuditLog for TLC: two threads and enough entries for a   *)
(* failed write with an entry before it and several after it, in one       *)
(* process or across restarts.                                             *)
(***************************************************************************)
EXTENDS AuditLog

CONSTANTS t1, t2
==============================================================================

---------------------------- MODULE MCTaskRunner ----------------------------
(* Small instances of TaskRunner. *)
EXTENDS TaskRunner, TLC

CONSTANTS k1, k2, c1
=============================================================================

---------------------------- MODULE MCKeyedLocks ----------------------------
(* Three threads over two keys, and two parties to every lease. *)
EXTENDS KeyedLocks

CONSTANTS k1, k2, t1, t2, t3, l1, l2, l3

=============================================================================

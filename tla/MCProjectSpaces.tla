--------------------------- MODULE MCProjectSpaces ---------------------------
(* ProjectSpaces with a few projects, threads and memories. *)
EXTENDS ProjectSpaces

CONSTANTS s1, s2, t1, t2, t3, m1, m2

=============================================================================

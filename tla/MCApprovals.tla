---------------------------- MODULE MCApprovals ----------------------------
(* Two cards, one of them left by an older installation, and two callers   *)
(* that may each open the table, race and crash.                           *)
EXTENDS Approvals, TLC

CONSTANTS a1, a2, c1, c2

MCTokens == {"approve", "decline", "maybe"}
MCOptions == {"approve", "decline"}

Symmetry == Permutations(Callers)

=============================================================================

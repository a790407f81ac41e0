-------------------------- MODULE MCDecisionGate --------------------------
(* Two surfaces answering one card. *)
EXTENDS DecisionGate, TLC

CONSTANTS a1, c1, c2

MCTokens == {"approve", "decline", "maybe"}
MCOptions == {"approve", "decline"}

=============================================================================

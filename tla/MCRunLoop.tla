------------------------------ MODULE MCRunLoop ------------------------------
(* Small instances of RunLoop. *)
EXTENDS RunLoop, TLC

CONSTANTS h1, h2, h3, c1, c2, l1, l2, l3, r1

Symmetry == Permutations(Handlers) \cup Permutations(Calls) \cup Permutations(Lines)

(* Two calls of a turn are followed with one line typed and nothing sent   *)
(* from elsewhere, retried or continued; with a stop, only if neither has  *)
(* a card.  After a stop two messages are followed, before it three.  A    *)
(* list of waiting cards is followed beside one call, one line, no stop.   *)
Small == /\ Cardinality({c \in Calls : decision[c] # "unknown"}) > 1 =>
                /\ Cardinality(said) = 1
                /\ said \cap Remotes = {} /\ bus = {} /\ listed = {}
                /\ \A h \in Handlers : me[h].tries = 0 /\ me[h].step = 0
                /\ generation = 0 \/ \A c \in Calls : decision[c] = "proposed"
         /\ generation > 0 => Cardinality(said) <= 2
         /\ listed # {} => generation = 0 /\ Cardinality(said) = 1 /\ said \cap Remotes = {}
==============================================================================

--------------------------- MODULE OneShotConsent ---------------------------
(***************************************************************************)
(* What Athena promises about a gated action, said without any mechanism:  *)
(* a card is put to the user, the user says yes or no, a yes can be taken  *)
(* back until it is spent, it is spent once, and only a spent yes is acted *)
(* on, once.  README.md (invariant 3) and core/approvals.py (module        *)
(* docstring) promise this; Approvals and DecisionGate implement it.       *)
(***************************************************************************)

CONSTANT Cards      \* every card that may ever be filed

VARIABLES consent,  \* how far each card has come
          ran       \* whether the action of the card has been carried out

Stages == {"unfiled", "asked", "yes", "no", "spent"}

vars == <<consent, ran>>

TypeOK == /\ consent \in [Cards -> Stages]
          /\ ran \in [Cards -> BOOLEAN]

(* A table carried over from an earlier installation holds cards at any    *)
(* stage; none of them has yet been acted on by this one.                  *)
Init == /\ consent \in [Cards -> Stages]
        /\ ran = [a \in Cards |-> FALSE]

Move(a, from, to) == /\ consent[a] \in from
                     /\ consent' = [consent EXCEPT ![a] = to]
                     /\ UNCHANGED ran

Ask(a)   == Move(a, {"unfiled"}, "asked")
Yes(a)   == Move(a, {"asked"}, "yes")
No(a)    == Move(a, {"asked", "yes"}, "no")
Spend(a) == Move(a, {"yes"}, "spent")

(* Time answers for the user, for any number of cards at once. *)
Lapse == \E S \in SUBSET Cards :
            /\ \A a \in S : consent[a] = "asked"
            /\ consent' = [a \in Cards |-> IF a \in S THEN "no" ELSE consent[a]]
            /\ UNCHANGED ran

Run(a) == /\ consent[a] = "spent"
          /\ ~ran[a]
          /\ ran' = [ran EXCEPT ![a] = TRUE]
          /\ UNCHANGED consent

Next == Lapse \/ \E a \in Cards : Ask(a) \/ Yes(a) \/ No(a) \/ Spend(a) \/ Run(a)

Spec == Init /\ [][Next]_vars

=============================================================================

------------------------------ MODULE SpaceWall ------------------------------
(***************************************************************************)
(* What ADR 0225 wants between the turns of a project and its erase: any   *)
(* number of turns run in a project together, one erase runs in it alone,  *)
(* and neither ever starts beside the other.  ProjectSpaces implements     *)
(* this with a set and a counter (daemon/server.py, in_space, begin_erase).*)
(***************************************************************************)
CONSTANTS Spaces, Threads

VARIABLES inside,   \* per project, the turns running in it
          erasers   \* per project, the erase running in it

vars == <<inside, erasers>>

TypeOK == /\ inside \in [Spaces -> SUBSET Threads]
          /\ erasers \in [Spaces -> SUBSET Threads]

Init == /\ inside = [s \in Spaces |-> {}]
        /\ erasers = [s \in Spaces |-> {}]

Enter(t, s) == /\ erasers[s] = {}
               /\ inside' = [inside EXCEPT ![s] = @ \cup {t}]
               /\ UNCHANGED erasers

Leave(t, s) == /\ t \in inside[s]
               /\ inside' = [inside EXCEPT ![s] = @ \ {t}]
               /\ UNCHANGED erasers

Begin(t, s) == /\ inside[s] = {} /\ erasers[s] = {}
               /\ erasers' = [erasers EXCEPT ![s] = {t}]
               /\ UNCHANGED inside

End(t, s) == /\ erasers[s] = {t}
             /\ erasers' = [erasers EXCEPT ![s] = {}]
             /\ UNCHANGED inside

(* Everybody is a thread of one process, which may die. *)
Die == Init'

Next == \/ Die
        \/ \E t \in Threads, s \in Spaces : Enter(t, s) \/ Leave(t, s) \/ Begin(t, s) \/ End(t, s)

Spec == Init /\ [][Next]_vars

=============================================================================

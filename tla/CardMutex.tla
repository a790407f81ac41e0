------------------------------ MODULE CardMutex ------------------------------
(***************************************************************************)
(* What the daemon wants of KeyedLocks (daemon/server.py, docstring): one  *)
(* holder per key, and keys that never wait on each other.  This is the    *)
(* lock DecisionGate assumes for a card.                                   *)
(***************************************************************************)
CONSTANTS Keys, Threads

VARIABLE holder     \* per key, the threads that hold it

TypeOK == holder \in [Keys -> SUBSET Threads]

Init == holder = [k \in Keys |-> {}]

Take(t, k) == /\ holder[k] = {}
              /\ holder' = [holder EXCEPT ![k] = {t}]

Give(t, k) == /\ holder[k] = {t}
              /\ holder' = [holder EXCEPT ![k] = {}]

Next == \E t \in Threads, k \in Keys : Take(t, k) \/ Give(t, k)

Spec == Init /\ [][Next]_holder

=============================================================================

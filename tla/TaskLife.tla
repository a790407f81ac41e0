------------------------------- MODULE TaskLife -------------------------------
(***************************************************************************)
(* What a delegated task promises (daemon/tasks.py): a life that ends      *)
(* once, a restart that ends every task that ran and none that waited, and *)
(* a parent thread that is told at most one end, the true one.             *)
(***************************************************************************)
EXTENDS Sequences

CONSTANT Tasks

VARIABLES life, told

lifeVars == <<life, told>>

Endings == {"done", "failed", "killed", "interrupted"}

Init == /\ life = [k \in Tasks |-> "absent"]
        /\ told = [k \in Tasks |-> <<>>]

Becomes(k, from, to) == /\ life[k] = from
                        /\ life' = [life EXCEPT ![k] = to]
                        /\ UNCHANGED told

Restart == /\ life' = [k \in Tasks |-> IF life[k] = "running" THEN "interrupted"
                                                             ELSE life[k]]
           /\ UNCHANGED told

Hear(k) == /\ life[k] \in Endings
           /\ told[k] = <<>>
           /\ told' = [told EXCEPT ![k] = <<life[k]>>]
           /\ UNCHANGED life

Next == \/ Restart
        \/ \E k \in Tasks : \/ Becomes(k, "absent", "queued")
                            \/ Becomes(k, "queued", "running")
                            \/ Becomes(k, "queued", "killed")
                            \/ \E end \in Endings \ {"interrupted"} : Becomes(k, "running", end)
                            \/ Hear(k)

Spec == Init /\ [][Next]_lifeVars
===============================================================================

------------------------------- MODULE MCTasks -------------------------------
(* Two tasks with room for one to run and one to wait, and a few requests. *)
EXTENDS Tasks, TLC
==============================================================================

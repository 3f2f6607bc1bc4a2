----------------------------- MODULE MCAppTasks -----------------------------
(* Instances of AppTasks for TLC.                                          *)
EXTENDS AppTasks

(* Once a thread was created where it matters, no property promises        *)
(* anything: what follows is not explored.                                 *)
Undisturbed == ~grown
=============================================================================

------------------------------ MODULE MCTasks -------------------------------
(* Model-checking instances of Tasks.                                      *)
EXTENDS Tasks, TLC

Symmetry == Permutations(Users) \cup Permutations(Requests)
=============================================================================

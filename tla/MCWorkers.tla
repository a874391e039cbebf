------------------------------- MODULE MCWorkers -------------------------------
(* Model-checking instance of Workers.                                     *)
EXTENDS Workers, TLC

CONSTANT o1

(* The entities belong to the first organization.                         *)
MCHome == [e \in Entities |-> o1]

(* Bound: there are logs when it is quiet.  Otherwise they are entities    *)
(* like the others, that nobody edits.                                     *)
LogsWhenQuiet == Quiet \/ \A e \in Logs : ~Exists(e)

(* Jobs are interchangeable.                                               *)
JobSymmetry == Permutations(Jobs)
=============================================================================

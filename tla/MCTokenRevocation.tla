-------------------------- MODULE MCTokenRevocation --------------------------
(* Model-checking instance of TokenRevocation.                             *)
EXTENDS TokenRevocation, TLC

(* The positions of one token are among those of the other: a collision.   *)
MCIndexes == [t \in Tokens |-> IF t = CHOOSE x \in Tokens : TRUE THEN {1, 2} ELSE {2}]

(* Processes and requests are interchangeable; tokens hash differently.    *)
Symmetry == Permutations(Instances) \cup Permutations(Calls)
=============================================================================

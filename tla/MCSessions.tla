----------------------------- MODULE MCSessions -----------------------------
(* Model-checking instances of Sessions.                                   *)
EXTENDS Sessions, TLC

(* Accounts, session ids, request slots and jobs are interchangeable.      *)
Symmetry == Permutations(Users) \cup Permutations(Ids)
                \cup Permutations(Requests) \cup Permutations(Jobs)
=============================================================================

---------------------------- MODULE MCMembership ----------------------------
(* Model-checking instances of Membership.                                 *)
EXTENDS Membership, TLC

(* Users, organizations, invitations and request slots are interchangeable *)
(* in every definition, and no liveness property is checked.               *)
Symmetry == Permutations(Users) \cup Permutations(Orgs)
                \cup Permutations(Invs) \cup Permutations(Requests)
=============================================================================

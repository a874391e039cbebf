--------------------------- MODULE MCCollaboration ---------------------------
(* Model-checking instance of Collaboration.                               *)
EXTENDS Collaboration, TLC

(* Of the parts only the comments need it.                                 *)
Symmetry ==
    Permutations(Servers) \cup Permutations(CommentRequests) \cup Permutations(Texts)
=============================================================================

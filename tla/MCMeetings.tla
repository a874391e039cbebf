------------------------------ MODULE MCMeetings ------------------------------
(* Model-checking instance of Meetings.                                    *)
EXTENDS Meetings, TLC

(* Users, accounts, ids, events and request slots are interchangeable.     *)
Symmetry ==
    Permutations(Users) \cup Permutations(Googles) \cup Permutations(Ids)
        \cup Permutations(Events) \cup Permutations(Requests)
=============================================================================

------------------------------- MODULE Delivery -------------------------------
(***************************************************************************)
(* What whoever queues a job may rely on, and all of it: the job is settled*)
(* in the end, its handler ran at least once and at most MaxRuns times,    *)
(* and a settled job is not touched again.  JobQueue and the workers on    *)
(* top of it (Workers) implement this.                                     *)
(***************************************************************************)
EXTENDS Naturals

CONSTANTS Jobs, MaxRuns

VARIABLES
    phase,    \* of each job
    runs      \* how often its handler was started

deliveryVars == <<phase, runs>>

Init ==
    /\ phase = [j \in Jobs |-> "none"]
    /\ runs = [j \in Jobs |-> 0]

(* The job is queued, or its handler called in the request (sync=true).    *)
Accept(j) ==
    /\ phase[j] = "none"
    /\ phase' = [phase EXCEPT ![j] = "pending"]
    /\ \/ UNCHANGED runs
       \/ runs' = [runs EXCEPT ![j] = 1]

Run(j) ==
    /\ phase[j] = "pending"
    /\ runs[j] < MaxRuns
    /\ runs' = [runs EXCEPT ![j] = @ + 1]
    /\ UNCHANGED phase

Settle(j) ==
    /\ phase[j] = "pending"
    /\ runs[j] > 0
    /\ \E outcome \in {"done", "failed"} : phase' = [phase EXCEPT ![j] = outcome]
    /\ UNCHANGED runs

Next == \E j \in Jobs : Accept(j) \/ Run(j) \/ Settle(j)

Safe == Init /\ [][Next]_deliveryVars

(* Every accepted job is settled in the end.                               *)
Settles == \A j \in Jobs : phase[j] = "pending" ~> phase[j] \in {"done", "failed"}

Spec == Safe /\ Settles
=============================================================================

------------------------------- MODULE JobQueue -------------------------------
(***************************************************************************)
(* The BullMQ queues as src/jobs uses them: the life of a job in Redis and *)
(* the run of its handler in the worker process.  BullMQ itself is not in  *)
(* the repository; the options it gets are (queue.config.ts).              *)
(*                                                                         *)
(* A worker process that dies or is closed with close(true) leaves its     *)
(* jobs active; another one finds them stalled and puts them back, once.   *)
(***************************************************************************)
EXTENDS Naturals

CONSTANTS
    Jobs,
    Attempts,    \* defaultJobOptions.attempts
    MaxStalls,   \* BullMQ's maxStalledCount
    MaxFaults    \* bound: crashes of the process and failing calls

ASSUME QueueOptions ==
    Attempts \in Nat \ {0} /\ MaxStalls \in Nat /\ MaxFaults \in Nat

MaxRuns == Attempts + MaxStalls

VARIABLES
    job,      \* the job in Redis
    faults    \* how often the process died or a call failed

queueVars == <<job, faults>>

(* sync: no job at all, the request itself calls the handler             *)
Job == [state : {"none", "waiting", "active", "delayed", "done", "failed"},
        failed : Nat, stalls : Nat, sync : BOOLEAN]
NewJob(state, failed, stalls, sync) ==
    [state |-> state, failed |-> failed, stalls |-> stalls, sync |-> sync]

QueueInit ==
    /\ job = [j \in Jobs |-> NewJob("none", 0, 0, FALSE)]
    /\ faults = 0

State(j) == job[j].state
Settled(j) == State(j) \in {"done", "failed"}

(* How often the handler was started.                                      *)
Running == {"active", "done"}
Runs(j) == job[j].failed + job[j].stalls + (IF State(j) \in Running THEN 1 ELSE 0)

Put(j, new) == job' = [job EXCEPT ![j] = new]

(* queue.add, or the handler called without a queue.                       *)
Add(j, sync) ==
    /\ State(j) = "none"
    /\ Put(j, NewJob(IF sync THEN "active" ELSE "waiting", 0, 0, sync))

Take(j) ==
    /\ State(j) = "waiting"
    /\ Put(j, NewJob("active", job[j].failed, job[j].stalls, FALSE))

Complete(j) ==
    /\ State(j) = "active"
    /\ Put(j, NewJob("done", job[j].failed, job[j].stalls, FALSE))

BugAfterFailure(failed, sync) == IF failed > Attempts THEN "failed" ELSE "delayed"

(* attempts: 3; a request is not tried again.                              *)
AfterFailure(failed, sync) == IF sync \/ failed >= Attempts THEN "failed" ELSE "delayed"

(* The handler threw.                                                      *)
Fail(j) ==
    /\ State(j) = "active"
    /\ Put(j, NewJob(AfterFailure(job[j].failed + 1, job[j].sync), job[j].failed + 1,
                     job[j].stalls, FALSE))

(* The exponential backoff is over.                                        *)
Retry(j) ==
    /\ State(j) = "delayed"
    /\ Put(j, NewJob("waiting", job[j].failed, job[j].stalls, FALSE))

AfterStall(stalls, sync) == IF sync \/ stalls > MaxStalls THEN "failed" ELSE "waiting"

(* The process that ran it is gone and the lock has lapsed.                *)
Stalled(j) ==
    /\ State(j) = "active"
    /\ Put(j, NewJob(AfterStall(job[j].stalls + 1, job[j].sync), job[j].failed,
                     job[j].stalls + 1, FALSE))

(* One fault more.                                                         *)
Fault ==
    /\ faults < MaxFaults
    /\ faults' = faults + 1

(* The queue as Delivery sees it.                                          *)
Phase(j) ==
    IF State(j) \in {"waiting", "active", "delayed"} THEN "pending" ELSE State(j)

Promise == INSTANCE Delivery WITH
    phase <- [j \in Jobs |-> Phase(j)], runs <- [j \in Jobs |-> Runs(j)]

(* A handler is started MaxRuns times at most: attempts and stalls both    *)
(* have their limit, the one more with which a job fails included.         *)
WithinLimits(j) ==
    /\ Runs(j) <= MaxRuns
    /\ job[j].failed <= Attempts
    /\ job[j].stalls <= MaxStalls + 1

QueueTypeOK ==
    /\ job \in [Jobs -> Job]
    /\ faults \in 0..MaxFaults
=============================================================================

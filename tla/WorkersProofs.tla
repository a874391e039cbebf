----------------------------- MODULE WorkersProofs -----------------------------
(***************************************************************************)
(* Proofs about Workers, for any number of jobs, organizations, entities,  *)
(* chunks, attempts and faults: what the queue promises is kept, the index *)
(* never mixes organizations or loses an entity, clean-ups spare what      *)
(* nobody has read, nothing is delivered twice without a lost run, and a   *)
(* job that is left alone leaves whole and current what it indexed.        *)
(***************************************************************************)
EXTENDS Workers, FiniteSetTheorems, TLAPS

-----------------------------------------------------------------------------
(* A job that is not failed has attempts and stalls left; one that is has  *)
(* used at most what there was.                                            *)
JobOK(q) ==
    /\ q.state = "none" => q.failed = 0 /\ q.stalls = 0
    /\ q.state \in {"waiting", "active", "delayed", "done"} =>
          q.failed < Attempts /\ q.stalls <= MaxStalls
    /\ q.state = "failed" => /\ q.failed <= Attempts /\ q.stalls <= MaxStalls + 1
                             /\ q.failed + q.stalls \in 1..MaxRuns

(* A job that is queued says what to do.                                   *)
DataOK(j) ==
    /\ State(j) # "none" => data[j].kind # "none"
    /\ data[j].kind = "index" => data[j].org \in Orgs /\ data[j].entity \in Entities
    /\ data[j].kind = "batch" => data[j].org \in Orgs

(* What a run is to index belongs to the organization of its job and has   *)
(* at least one chunk.                                                     *)
PieceOK(e, content, o) ==
    /\ e \in Entities
    /\ Home[e] = o
    /\ content.version > 0 /\ content.chunks > 0

(* Only the run of an active job goes on; what a clean-up found is of jobs *)
(* that are settled, and stays read or gone.                               *)
RunOK(j, r) ==
    /\ r.pc = "read" => data[j].kind = "index"
    /\ r.pc = "list" => data[j].kind = "batch"
    /\ r.pc \in {"chunk", "orphans"} =>
          /\ PieceOK(r.entity, r.content, data[j].org)
          /\ \A x \in r.rest : PieceOK(x.entity, x.content, data[j].org)
    /\ r.pc = "chunk" => r.next < r.content.chunks
    /\ r.pc = "delete" => \A x \in r.found : x[1] \in aged /\ note[x] \in {"read", "gone"}

JobsOK ==
    \A j \in Jobs :
        /\ JobOK(job[j])
        /\ DataOK(j)
        /\ lost[j] <= job[j].failed + job[j].stalls
        /\ j \in aged => Settled(j)

RunsOK == \A j \in Jobs : RunOK(j, run[j]) /\ (run[j].pc # "off" => State(j) = "active")

EntitiesOK == \A e \in Entities : Exists(e) => entity[e].chunks > 0

(* No chunk of an entity is stored for another organization.               *)
DocOK ==
    \A o \in Orgs, e \in Entities, i \in Index : doc[o][e][i] # NoChunk => Home[e] = o

(* The inductive invariant.                                                *)
WInv == TypeOK /\ JobsOK /\ RunsOK /\ EntitiesOK /\ DocOK

USE DEF vars, indexVars, queueVars, noticeVars

-----------------------------------------------------------------------------
LEMMA MaxRunsNat == MaxRuns \in Nat \ {0}
  BY QueueOptions DEF MaxRuns

LEMMA ChunkTypes ==
    /\ NoChunk \in Chunk
    /\ \A v \in 0..MaxVersion, n \in 0..MaxChunks :
          NewChunk(v, n) \in Chunk /\ (v > 0 => NewChunk(v, n) # NoChunk)
    /\ 0 \in Index
  BY IndexConstants DEF NoChunk, NewChunk, Chunk, Index

LEMMA GoneType == Gone \in Content /\ Gone.version = 0
  BY IndexConstants DEF Gone, NewContent, Content

LEMMA NewRunType ==
    ASSUME NEW pc \in {"off", "read", "list", "chunk", "orphans", "create", "send", "find",
                       "delete", "finish"},
           NEW e \in Entities \cup {Nobody}, NEW content \in Content, NEW next \in 0..MaxChunks,
           NEW rest \in SUBSET [entity : Entities, content : Content],
           NEW found \in SUBSET Rows
    PROVE  LET new == NewRun(pc, e, content, next, rest, found)
           IN  /\ new \in RunState /\ new.pc = pc /\ new.entity = e /\ new.content = content
               /\ new.next = next /\ new.rest = rest /\ new.found = found
  BY DEF NewRun, RunState

(* A run that has nothing in hand.                                         *)
LEMMA AtType ==
    ASSUME NEW pc \in {"off", "read", "list", "create", "send", "find", "finish"}
    PROVE  At(pc) \in RunState /\ At(pc).pc = pc
  BY GoneType, IndexConstants DEF At, NewRun, RunState

LEMMA InitInv == Init => WInv
<1> SUFFICES ASSUME Init  PROVE WInv
  OBVIOUS
<1> USE DEF Init, QueueInit, IndexInit
<1>1. \A j \in Jobs : job[j].state = "none" /\ job[j].failed = 0 /\ job[j].stalls = 0
      /\ job[j] \in Job
  BY DEF NewJob, Job
<1>2. Off \in RunState /\ Off.pc = "off"
  BY AtType DEF Off
<1>3. \A e \in Entities :
          entity[e] \in Content /\ (entity[e].version > 0 => entity[e].chunks > 0)
  BY IndexConstants DEF NewContent, Content, Gone
<1>4. \A j \in Jobs : data[j] \in Data /\ data[j].kind = "none"
  BY DEF NewData, Data, Kinds
<1>5. job \in [Jobs -> Job] /\ entity \in [Entities -> Content] /\ data \in [Jobs -> Data]
  BY <1>1, <1>3, <1>4
<1>6. doc \in [Orgs -> [Entities -> [Index -> Chunk]]]
  <2>1. Empty \in [Index -> Chunk]
    BY ChunkTypes DEF Empty
  <2> QED BY <2>1
<1>7. TypeOK
  <2>1. faults \in 0..MaxFaults /\ world \in {"quiet", "busy"} /\ orgs \subseteq Orgs
        /\ run \in [Jobs -> RunState]
    BY <1>2, QueueOptions
  <2>2. asof \in [Entities -> 0..MaxVersion] /\ floor \in [Entities -> 0..MaxVersion]
    BY IndexConstants
  <2>3. note \in [Rows -> Row] /\ aged \subseteq Jobs
    BY DEF Row
  <2>4. lost \in [Jobs -> 0..MaxRuns]
    BY MaxRunsNat
  <2> QED BY <1>5, <1>6, <2>1, <2>2, <2>3, <2>4 DEF TypeOK, QueueTypeOK
<1>8. JobsOK
  <2> SUFFICES ASSUME NEW j \in Jobs
               PROVE  /\ JobOK(job[j]) /\ DataOK(j) /\ j \notin aged
                      /\ lost[j] <= job[j].failed + job[j].stalls
    BY DEF JobsOK
  <2>1. JobOK(job[j])
    BY <1>1 DEF JobOK
  <2>2. DataOK(j) /\ j \notin aged
    BY <1>1, <1>4 DEF DataOK, State
  <2>3. lost[j] = 0
    OBVIOUS
  <2> HIDE DEF Init, QueueInit, IndexInit
  <2>4. lost[j] <= job[j].failed + job[j].stalls
    BY <1>1, <2>3
  <2> QED BY <2>1, <2>2, <2>4
<1>9. RunsOK
  BY <1>2 DEF RunsOK, RunOK
<1>10. EntitiesOK /\ DocOK
  BY <1>3 DEF EntitiesOK, Exists, DocOK, Empty
<1> QED BY <1>7, <1>8, <1>9, <1>10 DEF WInv

-----------------------------------------------------------------------------
(***************************************************************************)
(* The queue.  A job moves from one state to another as Delivery allows,   *)
(* and within its attempts.                                                *)
(***************************************************************************)
PhaseOf(q) == IF q.state \in {"waiting", "active", "delayed"} THEN "pending" ELSE q.state
RunsOf(q) == q.failed + q.stalls + (IF q.state \in {"active", "done"} THEN 1 ELSE 0)

Moves(q, n) ==
    \/ PhaseOf(q) = "none" /\ RunsOf(q) = 0 /\ PhaseOf(n) = "pending" /\ RunsOf(n) \in {0, 1}
    \/ /\ PhaseOf(q) = "pending" /\ PhaseOf(n) = "pending"
       /\ RunsOf(n) = RunsOf(q) \/ (RunsOf(q) < MaxRuns /\ RunsOf(n) = RunsOf(q) + 1)
    \/ /\ PhaseOf(q) = "pending" /\ PhaseOf(n) \in {"done", "failed"}
       /\ RunsOf(n) = RunsOf(q) /\ RunsOf(q) > 0

LEMMA NewJobType ==
    ASSUME NEW state \in {"none", "waiting", "active", "delayed", "done", "failed"},
           NEW failed \in Nat, NEW stalls \in Nat, NEW sync \in BOOLEAN
    PROVE  LET new == NewJob(state, failed, stalls, sync)
           IN  /\ new \in Job /\ new.state = state /\ new.failed = failed
               /\ new.stalls = stalls /\ new.sync = sync
  BY DEF NewJob, Job

LEMMA JobType ==
    ASSUME WInv, NEW j \in Jobs
    PROVE  /\ job[j] \in Job /\ job[j].failed \in Nat /\ job[j].stalls \in Nat
           /\ job[j].state \in {"none", "waiting", "active", "delayed", "done", "failed"}
           /\ JobOK(job[j])
<1>1. job[j] \in Job /\ JobOK(job[j])
  BY DEF WInv, TypeOK, QueueTypeOK, JobsOK
<1> QED BY <1>1 DEF Job

(* The steps of the queue, and what becomes of the record of the job.      *)
Step(j, n) ==
    /\ n \in Job /\ JobOK(n) /\ job' = [job EXCEPT ![j] = n] /\ Moves(job[j], n)

LEMMA AddMoves ==
    ASSUME WInv, NEW j \in Jobs, NEW sync \in BOOLEAN, Add(j, sync)
    PROVE  \E n \in Job : /\ Step(j, n) /\ n.failed = 0 /\ n.stalls = 0
                          /\ n.state = IF sync THEN "active" ELSE "waiting"
<1> DEFINE n == NewJob(IF sync THEN "active" ELSE "waiting", 0, 0, sync)
<1>1. /\ n \in Job /\ n.failed = 0 /\ n.stalls = 0
      /\ n.state = IF sync THEN "active" ELSE "waiting"
  BY NewJobType
<1>2. job' = [job EXCEPT ![j] = n] /\ job[j].state = "none" /\ job[j].failed = 0
      /\ job[j].stalls = 0
  BY DEF Add, Put, State, WInv, JobsOK, JobOK
<1> HIDE DEF n
<1>3. JobOK(n)
  BY <1>1, QueueOptions DEF JobOK
<1>4. Moves(job[j], n)
  BY <1>1, <1>2 DEF Moves, PhaseOf, RunsOf
<1> QED BY <1>1, <1>2, <1>3, <1>4 DEF Step

LEMMA TakeMoves ==
    ASSUME WInv, NEW j \in Jobs, Take(j)
    PROVE  \E n \in Job : /\ Step(j, n) /\ n.state = "active" /\ State(j) = "waiting"
                          /\ n.failed = job[j].failed /\ n.stalls = job[j].stalls
<1> DEFINE n == NewJob("active", job[j].failed, job[j].stalls, FALSE)
<1>1. /\ job[j] \in Job /\ job[j].failed \in Nat /\ job[j].stalls \in Nat
      /\ job[j].state = "waiting" /\ job[j].failed < Attempts /\ job[j].stalls <= MaxStalls
  BY JobType DEF Take, State, JobOK
<1>2. n \in Job /\ n.state = "active" /\ n.failed = job[j].failed /\ n.stalls = job[j].stalls
  BY <1>1 DEF NewJob, Job
<1>3. job' = [job EXCEPT ![j] = n]
  BY DEF Take, Put
<1> HIDE DEF n
<1>4. JobOK(n)
  BY <1>1, <1>2 DEF JobOK
<1>5. Moves(job[j], n)
  BY <1>1, <1>2, QueueOptions DEF Moves, PhaseOf, RunsOf, MaxRuns
<1> QED BY <1>1, <1>2, <1>3, <1>4, <1>5 DEF Step, State

LEMMA CompleteMoves ==
    ASSUME WInv, NEW j \in Jobs, Complete(j)
    PROVE  \E n \in Job : /\ Step(j, n) /\ n.state = "done" /\ State(j) = "active"
                          /\ n.failed = job[j].failed /\ n.stalls = job[j].stalls
<1> DEFINE n == NewJob("done", job[j].failed, job[j].stalls, FALSE)
<1>1. /\ job[j] \in Job /\ job[j].failed \in Nat /\ job[j].stalls \in Nat
      /\ job[j].state = "active" /\ job[j].failed < Attempts /\ job[j].stalls <= MaxStalls
  BY JobType DEF Complete, State, JobOK
<1>2. n \in Job /\ n.state = "done" /\ n.failed = job[j].failed /\ n.stalls = job[j].stalls
  BY <1>1 DEF NewJob, Job
<1>3. job' = [job EXCEPT ![j] = n]
  BY DEF Complete, Put
<1> HIDE DEF n
<1>4. JobOK(n)
  BY <1>1, <1>2 DEF JobOK
<1>5. Moves(job[j], n)
  BY <1>1, <1>2, QueueOptions DEF Moves, PhaseOf, RunsOf, MaxRuns
<1> QED BY <1>1, <1>2, <1>3, <1>4, <1>5 DEF Step, State

LEMMA FailMoves ==
    ASSUME WInv, NEW j \in Jobs, Fail(j)
    PROVE  \E n \in Job : /\ Step(j, n) /\ n.state \in {"delayed", "failed"}
                          /\ State(j) = "active"
                          /\ n.failed = job[j].failed + 1 /\ n.stalls = job[j].stalls
<1> DEFINE q == job[j]
           state == AfterFailure(q.failed + 1, q.sync)
           n == NewJob(state, q.failed + 1, q.stalls, FALSE)
<1>1. /\ q \in Job /\ q.failed \in Nat /\ q.stalls \in Nat
      /\ q.state = "active" /\ q.failed < Attempts /\ q.stalls <= MaxStalls
  BY JobType DEF Fail, State, JobOK
<1>2. state \in {"delayed", "failed"} /\ (state = "delayed" => q.failed + 1 < Attempts)
  BY <1>1, QueueOptions DEF AfterFailure
<1>3. job' = [job EXCEPT ![j] = n]
  BY DEF Fail, Put
<1> HIDE DEF state
<1>4. n \in Job /\ n.state = state /\ n.failed = q.failed + 1 /\ n.stalls = q.stalls
  BY <1>1, <1>2 DEF NewJob, Job
<1> HIDE DEF n
<1>5. JobOK(n)
  BY <1>1, <1>2, <1>4, QueueOptions DEF JobOK, MaxRuns
<1>6. Moves(q, n)
  BY <1>1, <1>2, <1>4, QueueOptions DEF Moves, PhaseOf, RunsOf, MaxRuns
<1> QED BY <1>1, <1>2, <1>3, <1>4, <1>5, <1>6 DEF Step, State

LEMMA RetryMoves ==
    ASSUME WInv, NEW j \in Jobs, Retry(j)
    PROVE  \E n \in Job : /\ Step(j, n) /\ n.state = "waiting" /\ State(j) = "delayed"
                          /\ n.failed = job[j].failed /\ n.stalls = job[j].stalls
<1> DEFINE n == NewJob("waiting", job[j].failed, job[j].stalls, FALSE)
<1>1. /\ job[j] \in Job /\ job[j].failed \in Nat /\ job[j].stalls \in Nat
      /\ job[j].state = "delayed" /\ job[j].failed < Attempts /\ job[j].stalls <= MaxStalls
  BY JobType DEF Retry, State, JobOK
<1>2. n \in Job /\ n.state = "waiting" /\ n.failed = job[j].failed /\ n.stalls = job[j].stalls
  BY <1>1 DEF NewJob, Job
<1>3. job' = [job EXCEPT ![j] = n]
  BY DEF Retry, Put
<1> HIDE DEF n
<1>4. JobOK(n)
  BY <1>1, <1>2 DEF JobOK
<1>5. Moves(job[j], n)
  BY <1>1, <1>2, QueueOptions DEF Moves, PhaseOf, RunsOf, MaxRuns
<1> QED BY <1>1, <1>2, <1>3, <1>4, <1>5 DEF Step, State

LEMMA StalledMoves ==
    ASSUME WInv, NEW j \in Jobs, Stalled(j)
    PROVE  \E n \in Job : /\ Step(j, n) /\ n.state \in {"waiting", "failed"}
                          /\ State(j) = "active"
                          /\ n.failed = job[j].failed /\ n.stalls = job[j].stalls + 1
<1> DEFINE q == job[j]
           state == AfterStall(q.stalls + 1, q.sync)
           n == NewJob(state, q.failed, q.stalls + 1, FALSE)
<1>1. /\ q \in Job /\ q.failed \in Nat /\ q.stalls \in Nat
      /\ q.state = "active" /\ q.failed < Attempts /\ q.stalls <= MaxStalls
  BY JobType DEF Stalled, State, JobOK
<1>2. state \in {"waiting", "failed"} /\ (state = "waiting" => q.stalls + 1 <= MaxStalls)
  BY <1>1, QueueOptions DEF AfterStall
<1>3. job' = [job EXCEPT ![j] = n]
  BY DEF Stalled, Put
<1> HIDE DEF state
<1>4. n \in Job /\ n.state = state /\ n.failed = q.failed /\ n.stalls = q.stalls + 1
  BY <1>1, <1>2 DEF NewJob, Job
<1> HIDE DEF n
<1>5. JobOK(n)
  BY <1>1, <1>2, <1>4, QueueOptions DEF JobOK, MaxRuns
<1>6. Moves(q, n)
  BY <1>1, <1>2, <1>4, QueueOptions DEF Moves, PhaseOf, RunsOf, MaxRuns
<1> QED BY <1>1, <1>2, <1>3, <1>4, <1>5, <1>6 DEF Step, State

-----------------------------------------------------------------------------
(***************************************************************************)
(* The frame of every step of a job that was queued: its record and its    *)
(* run change, no other's does, rows of settled jobs that are read stay    *)
(* so or go, and the index stays apart.                                    *)
(***************************************************************************)
IndexType == [Orgs -> [Entities -> [Index -> Chunk]]]

LEMMA JobRunStep ==
    ASSUME WInv, NEW j \in Jobs, NEW q \in Job, NEW r \in RunState,
           JobOK(q), job' = [job EXCEPT ![j] = q], run' = [run EXCEPT ![j] = r],
           State(j) # "none", q.state # "none", j \notin aged,
           r.pc # "off" => q.state = "active",
           \/ r.pc \in {"off", "finish", "create", "send", "find"}
           \/ RunOK(j, r),
           UNCHANGED <<data, orgs, entity, world, aged>>,
           asof' = asof \/ asof' \in [Entities -> 0..MaxVersion],
           faults' \in 0..MaxFaults, floor' \in [Entities -> 0..MaxVersion],
           doc' \in IndexType, DocOK',
           note' \in [Rows -> Row],
           \A x \in Rows : (x[1] \in aged /\ note[x] \in {"read", "gone"}) =>
               note'[x] \in {"read", "gone"},
           lost' \in [Jobs -> 0..MaxRuns],
           \A i \in Jobs : lost'[i] <= IF i = j THEN q.failed + q.stalls ELSE lost[i]
    PROVE  WInv'
<1>1. /\ job' \in [Jobs -> Job] /\ run' \in [Jobs -> RunState]
      /\ \A i \in Jobs : job'[i] = IF i = j THEN q ELSE job[i]
      /\ \A i \in Jobs : run'[i] = IF i = j THEN r ELSE run[i]
  BY DEF WInv, TypeOK, QueueTypeOK
<1>2. TypeOK'
  BY <1>1 DEF WInv, TypeOK, QueueTypeOK, IndexType
<1>3. JobsOK'
  <2> SUFFICES ASSUME NEW i \in Jobs
               PROVE  (/\ JobOK(job[i]) /\ DataOK(i)
                       /\ lost[i] <= job[i].failed + job[i].stalls
                       /\ i \in aged => Settled(i))'
    BY DEF JobsOK
  <2>1. CASE i = j
    BY <1>1, <2>1 DEF WInv, JobsOK, JobOK, DataOK, State, Settled
  <2>2. CASE i # j
    <3>1. /\ JobOK(job[i]) /\ DataOK(i) /\ lost[i] <= job[i].failed + job[i].stalls
          /\ i \in aged => Settled(i)
      BY DEF WInv, JobsOK
    <3>2. job'[i] = job[i] /\ lost'[i] <= lost[i]
      BY <1>1, <2>2
    <3>3. lost'[i] <= job[i].failed + job[i].stalls
      <4>1. job[i].failed \in Nat /\ job[i].stalls \in Nat
        BY JobType
      <4>2. lost[i] \in Nat /\ lost'[i] \in Nat
        <5>1. lost \in [Jobs -> 0..MaxRuns]
          BY DEF WInv, TypeOK
        <5> QED BY <5>1, MaxRunsNat
      <4> QED BY <3>1, <3>2, <4>1, <4>2
    <3> QED BY <3>1, <3>2, <3>3 DEF JobOK, DataOK, State, Settled
  <2> QED BY <2>1, <2>2
<1>4. RunsOK'
  <2> SUFFICES ASSUME NEW i \in Jobs
               PROVE  (RunOK(i, run[i]) /\ (run[i].pc # "off" => State(i) = "active"))'
    BY DEF RunsOK
  <2>1. CASE i = j
    <3>1. run'[i] = r /\ job'[i] = q
      BY <1>1, <2>1
    <3>2. CASE r.pc \in {"off", "finish", "create", "send", "find"}
      BY <3>1, <3>2 DEF RunOK, State
    <3>3. CASE RunOK(j, r)
      BY <2>1, <3>1, <3>3 DEF RunOK, State, PieceOK, RunState
    <3> QED BY <3>2, <3>3
  <2>2. CASE i # j
    <3>1. /\ run'[i] = run[i] /\ job'[i] = job[i] /\ run[i] \in RunState
          /\ RunOK(i, run[i]) /\ (run[i].pc # "off" => State(i) = "active")
      BY <1>1, <2>2 DEF WInv, RunsOK, TypeOK
    <3> QED BY <3>1 DEF RunOK, State, PieceOK, RunState
  <2> QED BY <2>1, <2>2
<1>5. EntitiesOK'
  BY DEF WInv, EntitiesOK, Exists
<1> QED BY <1>2, <1>3, <1>4, <1>5 DEF WInv

(* A run that is lost is counted once.                                     *)
LEMMA LostStep ==
    ASSUME WInv, NEW j \in Jobs, NEW q \in Job, JobOK(q), lost' = lost \/ CountLost(j),
           q.failed + q.stalls = job[j].failed + job[j].stalls + 1
    PROVE  /\ lost' \in [Jobs -> 0..MaxRuns]
           /\ \A i \in Jobs : lost'[i] <= IF i = j THEN q.failed + q.stalls ELSE lost[i]
<1>1. /\ lost \in [Jobs -> 0..MaxRuns] /\ lost[j] \in Nat /\ \A i \in Jobs : lost[i] \in Nat
      /\ lost[j] <= job[j].failed + job[j].stalls
      /\ job[j].failed \in Nat /\ job[j].stalls \in Nat
  BY MaxRunsNat, JobType DEF WInv, TypeOK, JobsOK
<1>2. q.failed + q.stalls <= MaxRuns
  BY QueueOptions DEF JobOK, Job, MaxRuns
<1>3. CASE lost' = lost
  BY <1>1, <1>3
<1>4. CASE lost' = [lost EXCEPT ![j] = lost[j] + 1]
  BY <1>1, <1>2, <1>4, MaxRunsNat
<1>5. CASE CountLost(j)
  <2>1. CASE Wrote(j)
    BY <1>4, <1>5, <2>1 DEF CountLost
  <2>2. CASE ~Wrote(j)
    BY <1>1, <1>3, <1>5, <2>2 DEF CountLost
  <2> QED BY <2>1, <2>2
<1> QED BY <1>3, <1>5

(* A run that throws.                                                      *)
LEMMA ThrowStep ==
    ASSUME WInv, NEW j \in Jobs, Throw(j), UNCHANGED <<indexVars, data, note, aged>>,
           faults' \in 0..MaxFaults,
           lost' = lost \/ CountLost(j)
    PROVE  WInv'
<1>1. PICK q \in Job : /\ Step(j, q) /\ q.state \in {"delayed", "failed"}
                       /\ State(j) = "active"
                       /\ q.failed = job[j].failed + 1 /\ q.stalls = job[j].stalls
  BY FailMoves DEF Throw
<1>2. PICK r \in RunState : run' = [run EXCEPT ![j] = r] /\ r.pc = "off"
  BY AtType DEF Throw, Go, Off
<1>3. /\ j \notin aged
      /\ doc' \in IndexType /\ DocOK' /\ note' \in [Rows -> Row]
      /\ floor' \in [Entities -> 0..MaxVersion]
  BY <1>1 DEF WInv, JobsOK, Settled, DocOK, TypeOK, IndexType
<1>4. /\ lost' \in [Jobs -> 0..MaxRuns]
      /\ \A i \in Jobs : lost'[i] <= IF i = j THEN q.failed + q.stalls ELSE lost[i]
  <2>1. JobOK(q) /\ q.failed + q.stalls = job[j].failed + job[j].stalls + 1
    BY <1>1, JobType DEF Step
  <2> QED BY <2>1, LostStep
<1> QED BY <1>1, <1>2, <1>3, <1>4, JobRunStep DEF Step

LEMMA RunFacts ==
    ASSUME WInv, NEW j \in Jobs, run[j].pc # "off"
    PROVE  /\ State(j) = "active" /\ j \notin aged /\ run[j] \in RunState
           /\ data[j] \in Data /\ RunOK(j, run[j]) /\ DataOK(j)
           /\ run \in [Jobs -> RunState] /\ job \in [Jobs -> Job]
           /\ lost \in [Jobs -> 0..MaxRuns] /\ faults \in 0..MaxFaults
           /\ doc \in IndexType /\ note \in [Rows -> Row]
           /\ entity \in [Entities -> Content] /\ floor \in [Entities -> 0..MaxVersion]
  BY DEF WInv, RunsOK, JobsOK, Settled, TypeOK, QueueTypeOK, IndexType

(* The frame of a step of a run that goes on.                              *)
LEMMA RunStep ==
    ASSUME WInv, NEW j \in Jobs, NEW r \in RunState, run' = [run EXCEPT ![j] = r],
           run[j].pc # "off",
           r.pc \in {"off", "finish", "create", "send", "find"} \/ RunOK(j, r),
           UNCHANGED <<job, data, orgs, entity, floor, world, aged, faults, lost>>,
           asof' = asof \/ asof' \in [Entities -> 0..MaxVersion],
           doc' \in IndexType, DocOK', note' \in [Rows -> Row],
           \A x \in Rows : (x[1] \in aged /\ note[x] \in {"read", "gone"}) =>
               note'[x] \in {"read", "gone"}
    PROVE  WInv'
<1>1. /\ job[j] \in Job /\ JobOK(job[j]) /\ job[j].state = "active"
      /\ job' = [job EXCEPT ![j] = job[j]]
      /\ lost[j] <= job[j].failed + job[j].stalls
  BY RunFacts, JobType DEF State, WInv, JobsOK
<1>2. \A i \in Jobs : lost'[i] <= IF i = j THEN job[j].failed + job[j].stalls ELSE lost[i]
  <2>1. \A i \in Jobs : lost[i] \in Nat
    BY RunFacts, MaxRunsNat
  <2> QED BY <1>1, <2>1
<1> QED BY <1>1, <1>2, RunFacts, JobRunStep DEF State

(* What a batch goes on with.                                              *)
LEMMA NextOfRun ==
    ASSUME WInv, NEW j \in Jobs, NEW rest \in SUBSET [entity : Entities, content : Content],
           \A x \in rest : PieceOK(x.entity, x.content, data[j].org), NextOf(j, rest)
    PROVE  \E r \in RunState : /\ run' = [run EXCEPT ![j] = r]
                               /\ r.pc = "finish" \/ RunOK(j, r)
<1>1. CASE rest = {}
  BY <1>1, AtType DEF NextOf, Go
<1>2. CASE rest # {}
  <2>1. PICK x \in rest :
            Go(j, NewRun("chunk", x.entity, x.content, 0, rest \ {x}, {}))
    BY <1>2 DEF NextOf
  <2> DEFINE r == NewRun("chunk", x.entity, x.content, 0, rest \ {x}, {})
  <2>2. /\ r \in RunState /\ r.pc = "chunk" /\ r.entity = x.entity /\ r.content = x.content
        /\ r.next = 0 /\ r.rest = rest \ {x}
    BY IndexConstants DEF NewRun, RunState
  <2> HIDE DEF r
  <2>3. RunOK(j, r)
    BY <2>2 DEF RunOK, PieceOK
  <2> QED BY <2>1, <2>2, <2>3 DEF Go, r
<1> QED BY <1>1, <1>2

LEMMA DueType ==
    ASSUME WInv, NEW read  PROVE Due(read) \in [Entities -> 0..MaxVersion]
<1>1. /\ asof \in [Entities -> 0..MaxVersion] /\ entity \in [Entities -> Content]
      /\ \A e \in Entities : entity[e].version \in 0..MaxVersion
  BY DEF WInv, TypeOK, Content
<1> QED BY <1>1, IndexConstants DEF Due

(* Reading what is to be indexed.                                          *)
LEMMA ReadStep ==
    ASSUME WInv, NEW j \in Jobs,
           (ReadEntity(j) \/ ReadList(j)) /\ UNCHANGED noticeVars
    PROVE  WInv'
<1>1. /\ run[j].pc \in {"read", "list"} /\ run[j].pc # "off"
      /\ UNCHANGED <<orgs, entity, doc, floor, world, data, note, aged, lost, faults>>
  BY DEF ReadEntity, ReadList, Is
<1>2. DocOK' /\ doc' \in IndexType /\ note' \in [Rows -> Row] /\ faults' \in 0..MaxFaults
  BY <1>1, RunFacts DEF WInv, DocOK
<1>3. CASE Throw(j) /\ UNCHANGED asof
  BY <1>1, <1>2, <1>3, ThrowStep
<1>4. CASE ReadEntity(j) /\ ~Throw(j)
  <2> DEFINE e == data[j].entity
             r == NewRun("chunk", e, entity[e], 0, {}, {})
  <2>1. e \in Entities /\ entity[e] \in Content /\ entity[e].version > 0
        /\ entity[e].chunks > 0 /\ Home[e] = data[j].org
    BY <1>1, <1>4, RunFacts
       DEF ReadEntity, Is, RunOK, DataOK, Readable, Exists, WInv, EntitiesOK
  <2>2. /\ r \in RunState /\ r.pc = "chunk" /\ r.entity = e /\ r.content = entity[e]
        /\ r.next = 0 /\ r.rest = {}
    BY <2>1, IndexConstants DEF NewRun, RunState
  <2>3. run' = [run EXCEPT ![j] = r] /\ UNCHANGED <<job, asof>>
    BY <1>4 DEF ReadEntity, Go
  <2> HIDE DEF r
  <2>4. RunOK(j, r)
    BY <2>1, <2>2 DEF RunOK, PieceOK
  <2> QED BY <1>1, <1>2, <2>2, <2>3, <2>4, RunStep
<1>5. ASSUME NEW newest \in SUBSET {x \in Logs : Readable(x, data[j].org)},
             NextOf(j, {[entity |-> e, content |-> entity[e]] : e \in Read(data[j].org, newest)}),
             asof' = Due(newest), UNCHANGED job
      PROVE  WInv'
  <2> DEFINE o == data[j].org
             rest == {[entity |-> e, content |-> entity[e]] : e \in Read(o, newest)}
  <2>1. \A e \in Read(o, newest) : e \in Entities /\ Readable(e, o)
    BY IndexConstants DEF Read
  <2>2. \A x \in rest : x \in [entity : Entities, content : Content]
                        /\ PieceOK(x.entity, x.content, o)
    BY <1>1, <2>1, RunFacts DEF Readable, Exists, PieceOK, WInv, EntitiesOK
  <2>3. asof' \in [Entities -> 0..MaxVersion]
    BY <1>5, DueType
  <2> HIDE DEF rest
  <2>4. PICK r \in RunState : run' = [run EXCEPT ![j] = r] /\ (r.pc = "finish" \/ RunOK(j, r))
    BY <1>5, <2>2, NextOfRun DEF rest
  <2> QED BY <1>1, <1>2, <1>5, <2>3, <2>4, RunStep
<1> QED BY <1>3, <1>4, <1>5 DEF ReadEntity, ReadList

(* Chunks are written where they belong, and those beyond the last go; the *)
(* first one is never among these.                                         *)
LEMMA UpsertStep ==
    ASSUME WInv, NEW j \in Jobs, UpsertChunk(j) /\ UNCHANGED noticeVars
    PROVE  /\ WInv'
           /\ \A o \in Orgs, e \in Entities : doc[o][e][0] # NoChunk => doc'[o][e][0] # NoChunk
<1> DEFINE r == run[j]
           o == data[j].org
           c == NewChunk(r.content.version, r.content.chunks)
           new == NewRun(IF IsLast(r.next, r.content.chunks) THEN "orphans" ELSE "chunk",
                         r.entity, r.content, r.next + 1, r.rest, {})
<1>1. /\ r.pc = "chunk" /\ UNCHANGED <<orgs, entity, asof, floor, world, data, faults>>
      /\ UNCHANGED <<note, aged, lost>> /\ r.pc # "off"
  BY DEF UpsertChunk, Is
<1>2. /\ r \in RunState /\ PieceOK(r.entity, r.content, o) /\ r.next < r.content.chunks
      /\ \A x \in r.rest : PieceOK(x.entity, x.content, o)
      /\ doc \in IndexType /\ note \in [Rows -> Row]
  BY <1>1, RunFacts DEF RunOK
<1>3. /\ r.content \in Content /\ r.next \in 0..MaxChunks /\ r.content.version \in 0..MaxVersion
      /\ r.content.chunks \in 0..MaxChunks
      /\ r.rest \in SUBSET [entity : Entities, content : Content]
  BY <1>2 DEF RunState, Content
<1>4. CASE Throw(j) /\ UNCHANGED doc
  BY <1>1, <1>4, RunFacts, ThrowStep
<1>5. CASE /\ o \in orgs
           /\ doc' = [doc EXCEPT ![o][r.entity][r.next] = c]
           /\ Go(j, new) /\ UNCHANGED job
  <2>1. c \in Chunk /\ c # NoChunk
    BY <1>2, <1>3, ChunkTypes DEF PieceOK
  <2>2. r.entity \in Entities /\ Home[r.entity] = o /\ o \in Orgs
    BY <1>2, IndexConstants DEF PieceOK
  <2>3. /\ new \in RunState /\ new.pc = IF IsLast(r.next, r.content.chunks)
                                        THEN "orphans" ELSE "chunk"
        /\ new.entity = r.entity /\ new.content = r.content /\ new.next = r.next + 1
        /\ new.rest = r.rest
    BY <1>2, <1>3, <2>2, IndexConstants DEF NewRun, RunState
  <2>4. run' = [run EXCEPT ![j] = new]
    BY <1>5 DEF Go
  <2>5. PICK ent \in Entities, n \in 0..MaxChunks, put \in Chunk :
            ent = r.entity /\ n = r.next /\ put = c
    BY <1>3, <2>1, <2>2
  <2>6. doc' = [doc EXCEPT ![o][ent][n] = put] /\ Home[ent] = o /\ put # NoChunk
    BY <1>5, <2>1, <2>2, <2>5
  <2>7. RunOK(j, new)
    BY <1>2, <1>3, <2>3 DEF RunOK, IsLast
  <2> HIDE DEF r, c, new, o
  <2>8. PICK d \in [Orgs -> [Entities -> [Index -> Chunk]]] : d = doc
    BY <1>2 DEF IndexType
  <2>9. /\ doc' \in IndexType
        /\ \A p \in Orgs, e \in Entities, i \in Index :
              doc'[p][e][i] = doc[p][e][i] \/ (p = o /\ e = ent /\ doc'[p][e][i] = put)
    <3>1. PICK old \in [Index -> Chunk] : old = doc[o][ent]
      BY <2>2, <2>8
    <3>2. PICK all \in [Index -> Chunk] : all = [old EXCEPT ![n] = put]
      OBVIOUS
    <3>3. \A i \in Index : all[i] = IF i = n THEN put ELSE old[i]
      BY <3>2
    <3>4. doc' = [doc EXCEPT ![o][ent] = all]
      BY <2>2, <2>6, <2>8, <3>1, <3>2
    <3>5. \A p \in Orgs, e \in Entities :
              doc'[p][e] = IF p = o /\ e = ent THEN all ELSE doc[p][e]
      BY <2>2, <2>8, <3>4
    <3>6. doc' \in IndexType
      BY <2>2, <2>8, <3>4 DEF IndexType
    <3> QED BY <3>1, <3>3, <3>5, <3>6
  <2>10. DocOK'
    BY <2>6, <2>9 DEF DocOK, WInv
  <2>11. \A p \in Orgs, e \in Entities : doc[p][e][0] # NoChunk => doc'[p][e][0] # NoChunk
    BY <2>6, <2>9, ChunkTypes
  <2> QED BY <1>1, <1>2, <1>5, <2>3, <2>4, <2>7, <2>9, <2>10, <2>11, RunStep DEF r
<1> QED BY <1>4, <1>5 DEF UpsertChunk

LEMMA OrphansStep ==
    ASSUME WInv, NEW j \in Jobs, DeleteOrphans(j) /\ UNCHANGED noticeVars
    PROVE  /\ WInv'
           /\ \A o \in Orgs, e \in Entities : doc[o][e][0] # NoChunk => doc'[o][e][0] # NoChunk
<1> DEFINE r == run[j]
           o == data[j].org
<1>1. /\ r.pc = "orphans" /\ UNCHANGED <<orgs, entity, asof, floor, world, data, job, faults>>
      /\ UNCHANGED <<note, aged, lost>> /\ r.pc # "off" /\ NextOf(j, r.rest)
  BY DEF DeleteOrphans, Is
<1>2. /\ r \in RunState /\ PieceOK(r.entity, r.content, o)
      /\ \A x \in r.rest : PieceOK(x.entity, x.content, o)
      /\ doc \in IndexType /\ note \in [Rows -> Row]
  BY <1>1, RunFacts DEF RunOK
<1>3. r.rest \in SUBSET [entity : Entities, content : Content]
      /\ r.content.chunks \in 0..MaxChunks
  BY <1>2 DEF RunState, Content
<1>4. PICK new \in RunState : /\ run' = [run EXCEPT ![j] = new]
                              /\ new.pc = "finish" \/ RunOK(j, new)
  BY <1>1, <1>2, <1>3, NextOfRun
<1>5. r.entity \in Entities /\ o \in Orgs
  BY <1>2, IndexConstants DEF PieceOK
<1>6. PICK ent \in Entities, old \in [Index -> Chunk], d \in [Orgs -> [Entities -> [Index -> Chunk]]] :
          ent = r.entity /\ old = doc[o][ent] /\ d = doc
  BY <1>2, <1>5 DEF IndexType
<1>7. PICK kept \in [Index -> Chunk] :
          kept = [i \in Index |-> IF Orphan(i, r.content.chunks) THEN NoChunk ELSE old[i]]
  BY ChunkTypes
<1>8. doc' = [doc EXCEPT ![o][ent] = kept]
  BY <1>2, <1>6, <1>7 DEF DeleteOrphans
<1>9. \A i \in Index : kept[i] \in {NoChunk, old[i]}
  BY <1>7
<1>10. kept[0] = old[0]
  BY <1>2, <1>3, <1>7, ChunkTypes DEF PieceOK, Orphan
<1> HIDE DEF r, o
<1>11. /\ doc' \in IndexType
       /\ \A p \in Orgs, e \in Entities :
             doc'[p][e] = IF p = o /\ e = ent THEN kept ELSE doc[p][e]
  BY <1>5, <1>6, <1>8 DEF IndexType
<1>12. DocOK'
  BY <1>6, <1>9, <1>11 DEF DocOK, WInv
<1>13. \A p \in Orgs, e \in Entities : doc[p][e][0] # NoChunk => doc'[p][e][0] # NoChunk
  BY <1>6, <1>10, <1>11
<1> QED BY <1>1, <1>2, <1>4, <1>11, <1>12, <1>13, RunStep DEF r

-----------------------------------------------------------------------------
(* The handlers that write or delete rows: a row is only written by a run  *)
(* of its own job, which is not settled, and deleted when it was read.     *)
LEMMA NoticeStep ==
    ASSUME WInv, NEW j \in Jobs,
           CreateNotice(j) \/ SendMail(j) \/ FindStale(j) \/ DeleteStale(j)
    PROVE  /\ WInv'
           /\ \A x \in Rows : ~(note[x] = "unread" /\ note'[x] = "gone")
<1>1. /\ run[j].pc \in {"create", "send", "find", "delete"} /\ run[j].pc # "off"
      /\ UNCHANGED <<indexVars, queueVars, data, aged, lost>>
  BY DEF CreateNotice, SendMail, FindStale, DeleteStale, Is
<1>2. DocOK' /\ doc' \in IndexType /\ note \in [Rows -> Row] /\ j \notin aged
      /\ run[j] \in RunState /\ RunOK(j, run[j])
  BY <1>1, RunFacts DEF WInv, DocOK
<1>3. ASSUME NEW state \in {"unread", "sent"}, Write(NextRow(j), state) \/ UNCHANGED note,
             Go(j, At("finish"))
      PROVE  /\ WInv'
             /\ \A x \in Rows : ~(note[x] = "unread" /\ note'[x] = "gone")
  <2>1. \A x \in Rows : note'[x] = note[x] \/ (x = NextRow(j) /\ note'[x] = state)
    BY <1>2, <1>3 DEF Write
  <2>2. note' \in [Rows -> Row]
    BY <1>2, <1>3 DEF Write, Row
  <2>3. \A x \in Rows : x = NextRow(j) => x[1] \notin aged
    BY <1>2 DEF NextRow
  <2>4. At("finish") \in RunState /\ At("finish").pc = "finish"
    BY AtType
  <2> QED BY <1>1, <1>2, <1>3, <2>1, <2>2, <2>3, <2>4, RunStep DEF Go
<1>4. CASE FindStale(j)
  <2>1. PICK found \in SUBSET {x \in Rows : Stale(x)} :
            Go(j, IF found = {} THEN At("finish")
                  ELSE NewRun("delete", Nobody, Gone, 0, {}, found))
    BY <1>4 DEF FindStale
  <2>2. UNCHANGED note
    BY <1>4 DEF FindStale
  <2>3. CASE found = {}
    BY <1>1, <1>2, <2>1, <2>2, <2>3, AtType, RunStep DEF Go
  <2>4. CASE found # {}
    <3> DEFINE r == NewRun("delete", Nobody, Gone, 0, {}, found)
    <3>1. r \in RunState /\ r.pc = "delete" /\ r.found = found
      BY GoneType, IndexConstants DEF NewRun, RunState
    <3>2. run' = [run EXCEPT ![j] = r]
      BY <2>1, <2>4 DEF Go
    <3> HIDE DEF r
    <3>3. RunOK(j, r)
      BY <3>1 DEF RunOK, Stale
    <3> QED BY <1>1, <1>2, <2>2, <3>1, <3>2, <3>3, RunStep
  <2> QED BY <2>3, <2>4
<1>5. CASE DeleteStale(j)
  <2>1. /\ \A x \in run[j].found : note[x] \in {"read", "gone"}
        /\ note' = [x \in Rows |-> IF x \in run[j].found THEN "gone" ELSE note[x]]
    BY <1>2, <1>5 DEF DeleteStale, Is, RunOK
  <2>2. note' \in [Rows -> Row]
    BY <1>2, <2>1 DEF Row
  <2>3. PICK r \in RunState : run' = [run EXCEPT ![j] = r] /\ r.pc \in {"find", "finish"}
    BY <1>5, AtType DEF DeleteStale, Go
  <2> QED BY <1>1, <1>2, <2>1, <2>2, <2>3, RunStep
<1> QED BY <1>3, <1>4, <1>5 DEF CreateNotice, SendMail

-----------------------------------------------------------------------------
(* What does not touch the index or the rows: the frame once more.         *)
LEMMA QueueStep ==
    ASSUME WInv, NEW j \in Jobs, NEW q \in Job, NEW r \in RunState, Step(j, q),
           run' = [run EXCEPT ![j] = r], State(j) # "none", q.state # "none", j \notin aged,
           r.pc # "off" => q.state = "active",
           r.pc \in {"off", "finish", "create", "send", "find"} \/ RunOK(j, r),
           UNCHANGED <<data, orgs, entity, doc, asof, world, note, aged>>,
           faults' \in 0..MaxFaults, floor' \in [Entities -> 0..MaxVersion],
           \/ lost' = lost /\ q.failed + q.stalls >= job[j].failed + job[j].stalls
           \/ CountLost(j) /\ q.failed + q.stalls = job[j].failed + job[j].stalls + 1
    PROVE  WInv'
<1>1. /\ DocOK' /\ doc' \in IndexType /\ note' \in [Rows -> Row]
  BY DEF WInv, DocOK, TypeOK, IndexType
<1>2. /\ lost' \in [Jobs -> 0..MaxRuns]
      /\ \A i \in Jobs : lost'[i] <= IF i = j THEN q.failed + q.stalls ELSE lost[i]
  <2>1. CASE lost' = lost /\ q.failed + q.stalls >= job[j].failed + job[j].stalls
    <3>1. lost \in [Jobs -> 0..MaxRuns] /\ lost[j] <= job[j].failed + job[j].stalls
      BY DEF WInv, TypeOK, JobsOK
    <3>2. q.failed \in Nat /\ q.stalls \in Nat /\ job[j].failed \in Nat /\ job[j].stalls \in Nat
      BY JobType DEF Job
    <3> QED BY <2>1, <3>1, <3>2, MaxRunsNat
  <2>2. CASE CountLost(j) /\ q.failed + q.stalls = job[j].failed + job[j].stalls + 1
    BY <2>2, LostStep DEF Step
  <2> QED BY <2>1, <2>2
<1> QED BY <1>1, <1>2, JobRunStep DEF Step

LEMMA StartStep ==
    ASSUME WInv, NEW j \in Jobs, Start(j)  PROVE WInv'
<1>1. /\ Take(j) /\ Go(j, First(data[j].kind)) /\ UNCHANGED <<indexVars, data, faults, noticeVars>>
  BY DEF Start
<1>2. PICK q \in Job : /\ Step(j, q) /\ q.state = "active" /\ State(j) = "waiting"
                       /\ q.failed = job[j].failed /\ q.stalls = job[j].stalls
  BY <1>1, TakeMoves
<1>3. data[j] \in Data /\ DataOK(j) /\ data[j].kind # "none" /\ j \notin aged
      /\ data[j].kind \in {"index", "batch", "notice", "email", "cleanup"}
  BY <1>2 DEF WInv, TypeOK, JobsOK, DataOK, Settled, Data, Kinds
<1>4. PICK r \in RunState :
          /\ run' = [run EXCEPT ![j] = r]
          /\ r.pc \in {"create", "send", "find"} \/ RunOK(j, r)
  <2>1. First(data[j].kind) \in RunState
        /\ First(data[j].kind).pc = CASE data[j].kind = "index" -> "read"
                                      [] data[j].kind = "batch" -> "list"
                                      [] data[j].kind = "notice" -> "create"
                                      [] data[j].kind = "email" -> "send"
                                      [] data[j].kind = "cleanup" -> "find"
    BY <1>3, AtType DEF First
  <2>2. First(data[j].kind).pc \in {"create", "send", "find"} \/ RunOK(j, First(data[j].kind))
    BY <1>3, <2>1 DEF RunOK
  <2> QED BY <1>1, <2>1, <2>2 DEF Go
<1>5. faults' \in 0..MaxFaults /\ floor' \in [Entities -> 0..MaxVersion]
      /\ job[j].failed \in Nat /\ job[j].stalls \in Nat
  BY <1>1, JobType DEF WInv, TypeOK, QueueTypeOK
<1>6. lost' = lost /\ q.failed + q.stalls >= job[j].failed + job[j].stalls
  BY <1>1, <1>2, <1>5
<1> QED BY <1>1, <1>2, <1>3, <1>4, <1>5, <1>6, QueueStep

LEMMA FinishStep ==
    ASSUME WInv, NEW j \in Jobs, Finish(j)  PROVE WInv'
<1>1. /\ Complete(j) /\ Go(j, Off) /\ run[j].pc # "off"
      /\ UNCHANGED <<orgs, entity, doc, asof, world, data, faults, noticeVars>>
  BY DEF Finish, Is
<1>2. PICK q \in Job : /\ Step(j, q) /\ q.state = "done" /\ State(j) = "active"
                       /\ q.failed = job[j].failed /\ q.stalls = job[j].stalls
  BY <1>1, CompleteMoves
<1>3. faults' \in 0..MaxFaults /\ floor' \in [Entities -> 0..MaxVersion] /\ j \notin aged
      /\ job[j].failed \in Nat /\ job[j].stalls \in Nat
  BY <1>1, RunFacts, JobType DEF Finish, WInv, TypeOK
<1>4. Off \in RunState /\ Off.pc = "off" /\ run' = [run EXCEPT ![j] = Off]
  BY <1>1, AtType DEF Off, Go
<1>5. lost' = lost /\ q.failed + q.stalls >= job[j].failed + job[j].stalls
  BY <1>1, <1>2, <1>3
<1> QED BY <1>1, <1>2, <1>3, <1>4, <1>5, QueueStep

LEMMA RecoverStep ==
    ASSUME WInv, NEW j \in Jobs, Recover(j) \/ GoBack(j)  PROVE WInv'
<1>1. /\ run \in [Jobs -> RunState] /\ faults \in 0..MaxFaults
      /\ floor \in [Entities -> 0..MaxVersion] /\ run[j] \in RunState
      /\ job[j].failed \in Nat /\ job[j].stalls \in Nat
      /\ j \in aged => Settled(j)
      /\ run[j].pc # "off" => State(j) = "active"
  BY JobType DEF WInv, TypeOK, QueueTypeOK, JobsOK, RunsOK
<1>2. run' = [run EXCEPT ![j] = run[j]] /\ run[j].pc = "off"
      /\ UNCHANGED <<indexVars, data, faults, note, aged>>
  <2>1. CASE Recover(j)
    BY <1>1, <2>1 DEF Recover, Is
  <2>2. CASE GoBack(j)
    BY <1>1, <2>2 DEF GoBack, Retry
  <2> QED BY <2>1, <2>2
<1>3. CASE Recover(j)
  <2>1. PICK q \in Job : /\ Step(j, q) /\ q.state \in {"waiting", "failed"}
                         /\ State(j) = "active"
                         /\ q.failed = job[j].failed /\ q.stalls = job[j].stalls + 1
    BY <1>3, StalledMoves DEF Recover
  <2>2. CountLost(j) /\ q.failed + q.stalls = job[j].failed + job[j].stalls + 1 /\ j \notin aged
    BY <1>1, <1>3, <2>1 DEF Recover, Settled
  <2> QED BY <1>1, <1>2, <2>1, <2>2, QueueStep
<1>4. CASE GoBack(j)
  <2>1. PICK q \in Job : /\ Step(j, q) /\ q.state = "waiting" /\ State(j) = "delayed"
                         /\ q.failed = job[j].failed /\ q.stalls = job[j].stalls
    BY <1>4, RetryMoves DEF GoBack
  <2>2. /\ lost' = lost /\ j \notin aged
        /\ q.failed + q.stalls >= job[j].failed + job[j].stalls
    BY <1>1, <1>4, <2>1 DEF GoBack, Settled
  <2> QED BY <1>1, <1>2, <2>1, <2>2, QueueStep
<1> QED BY <1>3, <1>4

LEMMA ThrowsStep ==
    ASSUME WInv, NEW j \in Jobs, Throws(j)  PROVE WInv'
<1>1. faults' \in 0..MaxFaults
  BY QueueOptions DEF Throws, Fault, WInv, TypeOK, QueueTypeOK
<1> QED BY <1>1, ThrowStep DEF Throws

LEMMA CrashStep ==
    ASSUME WInv, Crash  PROVE WInv'
<1>1. /\ UNCHANGED <<indexVars, job, data, noticeVars>> /\ faults' \in 0..MaxFaults
      /\ run' \in [Jobs -> RunState] /\ \A i \in Jobs : run'[i].pc = "off"
  BY AtType, QueueOptions DEF Crash, Fault, Off, WInv, TypeOK, QueueTypeOK
<1>2. TypeOK'
  BY <1>1 DEF WInv, TypeOK, QueueTypeOK
<1>3. JobsOK' /\ EntitiesOK' /\ DocOK'
  BY <1>1 DEF WInv, JobsOK, JobOK, DataOK, State, Settled, EntitiesOK, Exists, DocOK
<1>4. RunsOK'
  BY <1>1 DEF RunsOK, RunOK
<1> QED BY <1>2, <1>3, <1>4 DEF WInv

-----------------------------------------------------------------------------
(* A job is queued, or its handler called at once.                         *)
LEMMA AddStep ==
    ASSUME WInv, NEW j \in Jobs, NEW new \in Data, NEW sync \in BOOLEAN, Queue(j, new, sync),
           new.kind # "none",
           new.kind = "index" => new.org \in Orgs /\ new.entity \in Entities,
           new.kind = "batch" => new.org \in Orgs,
           sync => new.kind \in {"index", "batch"}
    PROVE  WInv'
<1>1. /\ Add(j, sync) /\ data' = [data EXCEPT ![j] = new]
      /\ UNCHANGED <<orgs, entity, doc, world, faults, noticeVars>>
      /\ IF sync THEN Go(j, First(new.kind)) ELSE UNCHANGED run
  BY DEF Queue
<1>2. PICK q \in Job : /\ Step(j, q) /\ q.failed = 0 /\ q.stalls = 0
                       /\ q.state = IF sync THEN "active" ELSE "waiting"
  BY <1>1, AddMoves
<1>3. /\ job' \in [Jobs -> Job] /\ data' \in [Jobs -> Data]
      /\ \A i \in Jobs : job'[i] = IF i = j THEN q ELSE job[i]
      /\ \A i \in Jobs : data'[i] = IF i = j THEN new ELSE data[i]
      /\ State(j) = "none" /\ job[j].failed = 0 /\ job[j].stalls = 0 /\ JobOK(q)
  BY <1>1, <1>2 DEF Step, Add, WInv, TypeOK, QueueTypeOK, JobsOK, JobOK, State
<1>4. /\ run' \in [Jobs -> RunState] /\ \A i \in Jobs \ {j} : run'[i] = run[i]
      /\ \/ run'[j].pc = "off"
         \/ sync /\ new.kind = "index" /\ run'[j].pc = "read"
         \/ sync /\ new.kind = "batch" /\ run'[j].pc = "list"
  <2>1. /\ run \in [Jobs -> RunState]
        /\ run[j].pc # "off" => State(j) = "active"
    BY DEF WInv, TypeOK, RunsOK
  <2>2. CASE ~sync
    BY <1>1, <1>3, <2>1, <2>2
  <2>3. CASE sync /\ new.kind = "index"
    BY <1>1, <2>1, <2>3, AtType DEF Go, First
  <2>4. CASE sync /\ new.kind = "batch"
    BY <1>1, <2>1, <2>4, AtType DEF Go, First
  <2> QED BY <2>2, <2>3, <2>4
<1>5. asof' \in [Entities -> 0..MaxVersion] /\ floor' \in [Entities -> 0..MaxVersion]
  <2>1. /\ entity \in [Entities -> Content] /\ asof \in [Entities -> 0..MaxVersion]
        /\ floor \in [Entities -> 0..MaxVersion]
        /\ \A e \in Entities : entity[e].version \in 0..MaxVersion
    BY DEF WInv, TypeOK, Content
  <2>2. CASE Quiet
    BY <2>1, <2>2, IndexConstants DEF Queue
  <2>3. CASE ~Quiet
    BY <2>1, <2>3 DEF Queue
  <2> QED BY <2>2, <2>3
<1>6. TypeOK'
  BY <1>1, <1>3, <1>4, <1>5 DEF WInv, TypeOK, QueueTypeOK
<1>7. JobsOK'
  <2> SUFFICES ASSUME NEW i \in Jobs
               PROVE  (/\ JobOK(job[i]) /\ DataOK(i)
                       /\ lost[i] <= job[i].failed + job[i].stalls
                       /\ i \in aged => Settled(i))'
    BY DEF JobsOK
  <2>1. /\ JobOK(job[i]) /\ DataOK(i) /\ lost[i] <= job[i].failed + job[i].stalls
        /\ i \in aged => Settled(i)
    BY DEF WInv, JobsOK
  <2>2. lost' = lost /\ aged' = aged
    BY <1>1
  <2>3. CASE i = j
    BY <1>2, <1>3, <2>1, <2>2, <2>3 DEF DataOK, State, Settled
  <2>4. CASE i # j
    BY <1>3, <2>1, <2>2, <2>4 DEF JobOK, DataOK, State, Settled
  <2> QED BY <2>3, <2>4
<1>8. RunsOK'
  <2> SUFFICES ASSUME NEW i \in Jobs
               PROVE  (RunOK(i, run[i]) /\ (run[i].pc # "off" => State(i) = "active"))'
    BY DEF RunsOK
  <2>1. RunOK(i, run[i]) /\ (run[i].pc # "off" => State(i) = "active")
    BY DEF WInv, RunsOK
  <2>2. note' = note /\ aged' = aged
    BY <1>1
  <2>3. CASE i = j
    BY <1>2, <1>3, <1>4, <2>3 DEF RunOK, State
  <2>4. CASE i # j
    BY <1>3, <1>4, <2>1, <2>2, <2>4 DEF RunOK, PieceOK, State
  <2> QED BY <2>3, <2>4
<1>9. EntitiesOK' /\ DocOK'
  BY <1>1 DEF WInv, EntitiesOK, Exists, DocOK
<1> QED BY <1>6, <1>7, <1>8, <1>9 DEF WInv

LEMMA QueuedStep ==
    ASSUME WInv, NEW j \in Jobs, QueueIndexing(j) \/ QueueOther(j)  PROVE WInv'
<1>1. orgs \subseteq Orgs
  BY DEF WInv, TypeOK
<1>2. ASSUME NEW kind \in Kinds, NEW o \in Orgs \cup {Nobody}, NEW e \in Entities \cup {Nobody}
      PROVE  LET new == NewData(kind, o, e)
             IN  new \in Data /\ new.kind = kind /\ new.org = o /\ new.entity = e
  BY DEF NewData, Data
<1>3. CASE QueueIndexing(j)
  <2>1. PICK o \in orgs, sync \in BOOLEAN :
            \/ \E e \in Entities : Queue(j, NewData("index", o, e), sync)
            \/ Queue(j, NewData("batch", o, Nobody), sync)
    BY <1>3 DEF QueueIndexing
  <2>2. ASSUME NEW e \in Entities, Queue(j, NewData("index", o, e), sync)  PROVE WInv'
    <3> DEFINE new == NewData("index", o, e)
    <3>1. new \in Data /\ new.kind = "index" /\ new.org \in Orgs /\ new.entity \in Entities
      BY <1>1, <1>2 DEF Kinds
    <3> HIDE DEF new
    <3> QED BY <2>2, <3>1, AddStep DEF new
  <2>3. CASE Queue(j, NewData("batch", o, Nobody), sync)
    <3> DEFINE new == NewData("batch", o, Nobody)
    <3>1. new \in Data /\ new.kind = "batch" /\ new.org \in Orgs
      BY <1>1, <1>2 DEF Kinds
    <3> HIDE DEF new
    <3> QED BY <2>3, <3>1, AddStep DEF new
  <2> QED BY <2>1, <2>2, <2>3
<1>4. CASE QueueOther(j)
  <2>1. PICK kind \in {"notice", "email", "cleanup"}, o \in Orgs \cup {Nobody} :
            Queue(j, NewData(kind, o, Nobody), FALSE)
    BY <1>1, <1>4 DEF QueueOther
  <2> DEFINE new == NewData(kind, o, Nobody)
  <2>2. new \in Data /\ new.kind = kind
    BY <1>2 DEF Kinds
  <2>3. FALSE \in BOOLEAN /\ Queue(j, new, FALSE)
    BY <2>1
  <2> HIDE DEF new
  <2> QED BY <2>2, <2>3, AddStep
<1> QED BY <1>3, <1>4

-----------------------------------------------------------------------------
(* What people and time do.                                                *)
LEMMA MarkAsReadStep ==
    ASSUME WInv, NEW x \in Rows, MarkAsRead(x)  PROVE WInv'
<1>1. UNCHANGED <<indexVars, queueVars, data, run, aged, lost>> /\ note[x] = "unread"
  BY DEF MarkAsRead
<1>2. note' \in [Rows -> Row]
      /\ \A y \in Rows : note'[y] = IF y = x THEN "read" ELSE note[y]
  BY DEF MarkAsRead, Write, WInv, TypeOK, Row
<1>3. TypeOK'
  BY <1>1, <1>2 DEF WInv, TypeOK, QueueTypeOK
<1>4. JobsOK' /\ EntitiesOK' /\ DocOK'
  BY <1>1 DEF WInv, JobsOK, JobOK, DataOK, State, Settled, EntitiesOK, Exists, DocOK
<1>5. RunsOK'
  <2> SUFFICES ASSUME NEW i \in Jobs
               PROVE  (RunOK(i, run[i]) /\ (run[i].pc # "off" => State(i) = "active"))'
    BY DEF RunsOK
  <2>1. /\ RunOK(i, run[i]) /\ (run[i].pc # "off" => State(i) = "active")
        /\ run[i] \in RunState
    BY DEF WInv, RunsOK, TypeOK
  <2>2. run[i].found \subseteq Rows
    BY <2>1 DEF RunState
  <2> QED BY <1>1, <1>2, <2>1, <2>2 DEF RunOK, PieceOK, State
<1> QED BY <1>3, <1>4, <1>5 DEF WInv

LEMMA AgeStep ==
    ASSUME WInv, NEW j \in Jobs, Age(j)  PROVE WInv'
<1>1. UNCHANGED <<indexVars, queueVars, data, run, note, lost>> /\ Settled(j)
      /\ aged' = aged \cup {j}
  BY DEF Age
<1>2. TypeOK'
  BY <1>1 DEF WInv, TypeOK, QueueTypeOK
<1>3. JobsOK' /\ EntitiesOK' /\ DocOK'
  BY <1>1 DEF WInv, JobsOK, JobOK, DataOK, State, Settled, EntitiesOK, Exists, DocOK
<1>4. RunsOK'
  BY <1>1 DEF WInv, RunsOK, RunOK, PieceOK, State
<1> QED BY <1>2, <1>3, <1>4 DEF WInv

LEMMA EditStep ==
    ASSUME WInv, NEW e \in Entities, Edit(e) /\ UNCHANGED noticeVars  PROVE WInv'
<1>1. UNCHANGED <<orgs, doc, asof, floor, world, data, run, queueVars, noticeVars>>
  BY DEF Edit
<1>2. PICK new \in Content :
          entity' = [entity EXCEPT ![e] = new] /\ (new.version > 0 => new.chunks > 0)
  <2>1. \A n \in 1..MaxChunks, v \in 1..MaxVersion :
            NewContent(v, n) \in Content /\ NewContent(v, n).chunks > 0
    BY IndexConstants DEF NewContent, Content
  <2> QED BY <2>1, GoneType DEF Edit
<1>3. entity' \in [Entities -> Content]
      /\ \A x \in Entities : entity'[x] = IF x = e THEN new ELSE entity[x]
  BY <1>2 DEF WInv, TypeOK
<1>4. TypeOK'
  BY <1>1, <1>3 DEF WInv, TypeOK, QueueTypeOK
<1>5. JobsOK' /\ DocOK'
  BY <1>1 DEF WInv, JobsOK, JobOK, DataOK, State, Settled, DocOK
<1>6. RunsOK'
  BY <1>1 DEF WInv, RunsOK, RunOK, PieceOK, State
<1>7. EntitiesOK'
  BY <1>2, <1>3 DEF WInv, EntitiesOK, Exists
<1> QED BY <1>4, <1>5, <1>6, <1>7 DEF WInv

LEMMA DeleteOrganizationStep ==
    ASSUME WInv, NEW o \in Orgs, DeleteOrganization(o)
    PROVE  /\ WInv'
           /\ \A p \in orgs', e \in Entities : doc'[p][e] = doc[p][e]
<1>1. /\ UNCHANGED <<asof, world, queueVars, data, run, aged, lost>>
      /\ orgs' = orgs \ {o} /\ orgs \subseteq Orgs
  BY DEF DeleteOrganization, WInv, TypeOK
<1>2. /\ entity' \in [Entities -> Content]
      /\ \A e \in Entities : entity'[e] = entity[e] \/ entity'[e] = Gone
  BY GoneType DEF DeleteOrganization, WInv, TypeOK
<1> DEFINE none == [e \in Entities |-> Empty]
<1>3. /\ none \in [Entities -> [Index -> Chunk]]
      /\ \A e \in Entities, i \in Index : none[e][i] = NoChunk
  <2>1. Empty \in [Index -> Chunk] /\ \A i \in Index : Empty[i] = NoChunk
    BY ChunkTypes DEF Empty
  <2> QED BY <2>1
<1>4. /\ doc' \in [Orgs -> [Entities -> [Index -> Chunk]]]
      /\ \A p \in Orgs : doc'[p] = IF p = o THEN none ELSE doc[p]
  <2>1. doc' = [doc EXCEPT ![o] = none] /\ doc \in [Orgs -> [Entities -> [Index -> Chunk]]]
    BY DEF DeleteOrganization, WInv, TypeOK
  <2> HIDE DEF none
  <2> QED BY <1>3, <2>1
<1> HIDE DEF none
<1>5. floor' \in [Entities -> 0..MaxVersion]
  BY IndexConstants DEF DeleteOrganization, WInv, TypeOK
<1>6. /\ note' \in [Rows -> Row]
      /\ \A x \in Rows : note'[x] = note[x] \/ note'[x] = "gone"
  BY DEF DeleteOrganization, WInv, TypeOK, Row
<1>7. TypeOK'
  BY <1>1, <1>2, <1>4, <1>5, <1>6 DEF WInv, TypeOK, QueueTypeOK
<1>8. JobsOK'
  BY <1>1 DEF WInv, JobsOK, JobOK, DataOK, State, Settled
<1>9. RunsOK'
  <2> SUFFICES ASSUME NEW i \in Jobs
               PROVE  (RunOK(i, run[i]) /\ (run[i].pc # "off" => State(i) = "active"))'
    BY DEF RunsOK
  <2>1. /\ RunOK(i, run[i]) /\ (run[i].pc # "off" => State(i) = "active")
        /\ run[i] \in RunState
    BY DEF WInv, RunsOK, TypeOK
  <2>2. run[i].found \subseteq Rows
    BY <2>1 DEF RunState
  <2>3. UNCHANGED <<data, run, job, aged>>
    BY <1>1
  <2>4. run[i].pc = "delete" =>
            \A x \in run[i].found : x[1] \in aged /\ note'[x] \in {"read", "gone"}
    BY <1>6, <2>1, <2>2 DEF RunOK
  <2>5. RunOK(i, run[i])'
    BY <2>1, <2>3, <2>4 DEF RunOK, PieceOK
  <2>6. (run[i].pc # "off" => State(i) = "active")'
    BY <2>1, <2>3 DEF State
  <2> QED BY <2>5, <2>6
<1>10. EntitiesOK'
  BY <1>2, GoneType DEF WInv, EntitiesOK, Exists
<1>11. DocOK'
  <2> SUFFICES ASSUME NEW p \in Orgs, NEW e \in Entities, NEW i \in Index,
                      doc'[p][e][i] # NoChunk
               PROVE  Home[e] = p
    BY DEF DocOK
  <2>1. CASE p = o
    BY <1>3, <1>4, <2>1
  <2>2. CASE p # o
    BY <1>4, <2>2 DEF WInv, DocOK
  <2> QED BY <2>1, <2>2
<1> QED BY <1>1, <1>4, <1>7, <1>8, <1>9, <1>10, <1>11 DEF WInv

-----------------------------------------------------------------------------
LEMMA Invariance == SafeSpec => []WInv
<1>1. WInv /\ [Next]_vars => WInv'
  <2> SUFFICES ASSUME WInv, [Next]_vars  PROVE WInv'
    OBVIOUS
  <2>1. CASE UNCHANGED vars
    <3>1. UNCHANGED <<indexVars, queueVars, data, run, note, aged, lost>>
      BY <2>1
    <3>2. TypeOK'
      BY <3>1 DEF WInv, TypeOK, QueueTypeOK
    <3>3. JobsOK' /\ EntitiesOK' /\ DocOK'
      BY <3>1 DEF WInv, JobsOK, JobOK, DataOK, State, Settled, EntitiesOK, Exists, DocOK
    <3>4. RunsOK'
      BY <3>1 DEF WInv, RunsOK, RunOK, PieceOK, State
    <3> QED BY <3>2, <3>3, <3>4 DEF WInv
  <2>2. CASE Next
    <3>1. ASSUME NEW j \in Jobs, Worker(j)  PROVE WInv'
      BY <3>1, StartStep, ReadStep, UpsertStep, OrphansStep, NoticeStep, FinishStep,
         RecoverStep DEF Worker, Handler
    <3> QED BY <2>2, <3>1, QueuedStep, ThrowsStep, AgeStep, CrashStep, MarkAsReadStep,
         DeleteOrganizationStep, EditStep DEF Next
  <2> QED BY <2>1, <2>2
<1> QED BY <1>1, InitInv, PTL DEF SafeSpec

(* Jobs, runs, rows and the index keep their types, and no handler is      *)
(* started more often than the attempts and stalls of its job allow.       *)
THEOREM TypeCorrect == SafeSpec => [](TypeOK /\ \A j \in Jobs : WithinLimits(j))
<1>1. ASSUME WInv, NEW j \in Jobs  PROVE WithinLimits(j)
  <2>1. job[j] \in Job /\ JobOK(job[j])
    BY <1>1 DEF WInv, TypeOK, QueueTypeOK, JobsOK
  <2>2. PICK q \in Job : q = job[j]
    BY <2>1
  <2>3. /\ q.failed \in Nat /\ q.stalls \in Nat
        /\ q.state \in {"none", "waiting", "active", "delayed", "done", "failed"}
    BY <2>2 DEF Job
  <2>4. /\ q.failed <= Attempts /\ q.stalls <= MaxStalls + 1
        /\ q.failed + q.stalls + (IF q.state \in {"active", "done"} THEN 1 ELSE 0)
              <= Attempts + MaxStalls
    <3>1. JobOK(q) /\ Attempts \in Nat \ {0} /\ MaxStalls \in Nat
      BY <2>1, <2>2, QueueOptions
    <3>2. CASE q.state = "none"
      BY <2>3, <3>1, <3>2 DEF JobOK
    <3>3. CASE q.state \in {"waiting", "active", "delayed", "done"}
      BY <2>3, <3>1, <3>3 DEF JobOK
    <3>4. CASE q.state = "failed"
      <4>1. q.failed + q.stalls <= Attempts + MaxStalls
        BY <2>3, <3>1, <3>4 DEF JobOK, MaxRuns
      <4> QED BY <2>3, <3>1, <3>4, <4>1 DEF JobOK
    <3> QED BY <2>3, <3>2, <3>3, <3>4
  <2>5. /\ job[j].failed = q.failed /\ job[j].stalls = q.stalls
        /\ Runs(j) = q.failed + q.stalls + (IF q.state \in {"active", "done"} THEN 1 ELSE 0)
    BY <2>2 DEF Runs, Running, State
  <2>6. Runs(j) <= MaxRuns
    BY <2>4, <2>5 DEF MaxRuns
  <2> QED BY <2>4, <2>5, <2>6 DEF WithinLimits
<1>2. WInv => TypeOK /\ \A j \in Jobs : WithinLimits(j)
  BY <1>1 DEF WInv
<1> QED BY <1>2, Invariance, PTL

(* The index of an organization holds chunks of its own entities only.     *)
THEOREM IndexIsIsolated == SafeSpec => []Isolation
<1>1. WInv => Isolation
  BY DEF WInv, DocOK, Isolation, SearchVectors
<1> QED BY <1>1, Invariance, PTL

(* No step but the deletion of its organization takes the first chunk of   *)
(* an entity out of the index.                                             *)
THEOREM EntitiesStayFindable == SafeSpec => StaysFindable
<1>1. WInv /\ [Next]_vars =>
          [\A o \in orgs', e \in Entities :
              doc[o][e][0] # NoChunk => doc'[o][e][0] # NoChunk]_<<doc, orgs>>
  <2> SUFFICES ASSUME WInv, [Next]_vars, doc' # doc \/ orgs' # orgs
               PROVE  \A o \in orgs', e \in Entities :
                          doc[o][e][0] # NoChunk => doc'[o][e][0] # NoChunk
    BY DEF WInv
  <2>1. orgs \subseteq Orgs
    BY DEF WInv, TypeOK
  <2>2. ASSUME NEW j \in Jobs, UpsertChunk(j) /\ UNCHANGED noticeVars
        PROVE  \A o \in orgs', e \in Entities :
                   doc[o][e][0] # NoChunk => doc'[o][e][0] # NoChunk
    BY <2>1, <2>2, UpsertStep DEF UpsertChunk
  <2>3. ASSUME NEW j \in Jobs, DeleteOrphans(j) /\ UNCHANGED noticeVars
        PROVE  \A o \in orgs', e \in Entities :
                   doc[o][e][0] # NoChunk => doc'[o][e][0] # NoChunk
    BY <2>1, <2>3, OrphansStep DEF DeleteOrphans
  <2>4. ASSUME NEW o \in Orgs, DeleteOrganization(o)
        PROVE  \A p \in orgs', e \in Entities :
                   doc[p][e][0] # NoChunk => doc'[p][e][0] # NoChunk
    BY <2>4, DeleteOrganizationStep
  <2>5. \/ \E j \in Jobs : UpsertChunk(j) /\ UNCHANGED noticeVars
        \/ \E j \in Jobs : DeleteOrphans(j) /\ UNCHANGED noticeVars
        \/ \E o \in Orgs : DeleteOrganization(o)
    BY DEF Next, Worker, Handler, QueueIndexing, QueueOther, Queue, Start, ReadEntity, ReadList,
       CreateNotice, SendMail, FindStale, DeleteStale, Finish, Throws, Crash, Recover, GoBack,
       MarkAsRead, Age, Edit
  <2> QED BY <2>2, <2>3, <2>4, <2>5
<1> QED BY <1>1, Invariance, PTL DEF SafeSpec, StaysFindable

(* No clean-up and no retry takes an unread notification away.             *)
THEOREM UnreadIsKept == SafeSpec => UnreadStays
<1>1. WInv /\ [Next]_vars =>
          [\A x \in Rows : (note[x] = "unread" /\ note'[x] = "gone") =>
              data[x[1]].org \notin orgs']_<<note, orgs>>
  <2> SUFFICES ASSUME WInv, [Next]_vars, NEW x \in Rows, note[x] = "unread", note'[x] = "gone"
               PROVE  data[x[1]].org \notin orgs'
    OBVIOUS
  <2>1. ASSUME NEW j \in Jobs,
               CreateNotice(j) \/ SendMail(j) \/ FindStale(j) \/ DeleteStale(j)
        PROVE  FALSE
    BY <2>1, NoticeStep
  <2>2. ASSUME NEW y \in Rows, MarkAsRead(y)  PROVE FALSE
    BY <2>2 DEF MarkAsRead, Write, WInv, TypeOK
  <2>3. ASSUME NEW o \in Orgs, DeleteOrganization(o)  PROVE data[x[1]].org \notin orgs'
    BY <2>3 DEF DeleteOrganization
  <2>4. \/ \E j \in Jobs : CreateNotice(j) \/ SendMail(j) \/ FindStale(j) \/ DeleteStale(j)
        \/ \E y \in Rows : MarkAsRead(y)
        \/ \E o \in Orgs : DeleteOrganization(o)
        \/ UNCHANGED note
    BY DEF Next, Worker, Handler, QueueIndexing, QueueOther, Queue, Start, ReadEntity, ReadList,
       UpsertChunk, DeleteOrphans, Finish, Throws, Crash, Recover, GoBack, Age, Edit
  <2> QED BY <2>1, <2>2, <2>3, <2>4
<1> QED BY <1>1, Invariance, PTL DEF SafeSpec, UnreadStays

-----------------------------------------------------------------------------
(***************************************************************************)
(* The refinement.  Every step of a job is one Delivery allows, and every  *)
(* other step leaves what Delivery sees unchanged.                         *)
(***************************************************************************)
Phases == [j \in Jobs |-> Phase(j)]
Counts == [j \in Jobs |-> Runs(j)]

LEMMA Abstraction ==
    /\ \A j \in Jobs : Phases[j] = PhaseOf(job[j]) /\ Counts[j] = RunsOf(job[j])
    /\ \A j \in Jobs : Phases'[j] = PhaseOf(job'[j]) /\ Counts'[j] = RunsOf(job'[j])
    /\ Phases' = [j \in Jobs |-> Phases'[j]] /\ Counts' = [j \in Jobs |-> Counts'[j]]
  BY DEF Phases, Counts, Phase, Runs, PhaseOf, RunsOf, State, Running

LEMMA MovesRefine ==
    ASSUME WInv, NEW j \in Jobs, NEW q \in Job, Step(j, q)
    PROVE  Promise!Next \/ UNCHANGED Promise!deliveryVars
<1>1. /\ Moves(job[j], q) /\ \A i \in Jobs : job'[i] = IF i = j THEN q ELSE job[i]
  BY DEF Step, WInv, TypeOK, QueueTypeOK
<1>2. Phases' = [Phases EXCEPT ![j] = PhaseOf(q)]
  <2>1. \A i \in Jobs : Phases'[i] = IF i = j THEN PhaseOf(q) ELSE Phases[i]
    BY <1>1, Abstraction
  <2> QED BY <2>1, Abstraction DEF Phases
<1>3. Counts' = [Counts EXCEPT ![j] = RunsOf(q)]
  <2>1. \A i \in Jobs : Counts'[i] = IF i = j THEN RunsOf(q) ELSE Counts[i]
    BY <1>1, Abstraction
  <2> QED BY <2>1, Abstraction DEF Counts
<1>4. /\ Phases[j] = PhaseOf(job[j]) /\ Counts[j] = RunsOf(job[j])
      /\ RunsOf(job[j]) \in Nat /\ RunsOf(q) \in Nat
  <2>1. job[j].failed \in Nat /\ job[j].stalls \in Nat /\ q.failed \in Nat /\ q.stalls \in Nat
    BY JobType DEF Job
  <2> QED BY <2>1, Abstraction DEF RunsOf
<1>5. Phases = [i \in Jobs |-> Phases[i]] /\ Counts = [i \in Jobs |-> Counts[i]]
  BY DEF Phases, Counts
<1>6. CASE /\ PhaseOf(job[j]) = "none" /\ RunsOf(job[j]) = 0
           /\ PhaseOf(q) = "pending" /\ RunsOf(q) \in {0, 1}
  <2>1. Counts' = Counts \/ Counts' = [Counts EXCEPT ![j] = 1]
    BY <1>3, <1>4, <1>5, <1>6
  <2> QED BY <1>2, <1>4, <1>6, <2>1 DEF Promise!Next, Promise!Accept, Phases, Counts
<1>7. CASE /\ PhaseOf(job[j]) = "pending" /\ PhaseOf(q) = "pending"
           /\ RunsOf(q) = RunsOf(job[j])
  <2>1. Phases' = Phases /\ Counts' = Counts
    BY <1>2, <1>3, <1>4, <1>5, <1>7
  <2> QED BY <2>1 DEF Promise!deliveryVars, Phases, Counts
<1>8. CASE /\ PhaseOf(job[j]) = "pending" /\ PhaseOf(q) = "pending"
           /\ RunsOf(job[j]) < MaxRuns /\ RunsOf(q) = RunsOf(job[j]) + 1
  <2>1. Phases' = Phases /\ Counts' = [Counts EXCEPT ![j] = Counts[j] + 1]
    BY <1>2, <1>3, <1>4, <1>5, <1>8
  <2> QED BY <1>4, <1>8, <2>1 DEF Promise!Next, Promise!Run, Phases, Counts
<1>9. CASE /\ PhaseOf(job[j]) = "pending" /\ PhaseOf(q) \in {"done", "failed"}
           /\ RunsOf(q) = RunsOf(job[j]) /\ RunsOf(job[j]) > 0
  <2>1. Counts' = Counts
    BY <1>3, <1>4, <1>5, <1>9
  <2> QED BY <1>2, <1>4, <1>9, <2>1 DEF Promise!Next, Promise!Settle, Phases, Counts
<1> QED BY <1>1, <1>6, <1>7, <1>8, <1>9 DEF Moves

LEMMA StepRefines ==
    ASSUME WInv, [Next]_vars
    PROVE  Promise!Next \/ UNCHANGED Promise!deliveryVars
<1>1. CASE UNCHANGED job
  BY <1>1 DEF Promise!deliveryVars, Phase, Runs, State, Running
<1>2. ASSUME NEW j \in Jobs,
             \/ \E sync \in BOOLEAN : Add(j, sync)
             \/ Take(j) \/ Complete(j) \/ Fail(j) \/ Retry(j) \/ Stalled(j)
      PROVE  \E q \in Job : Step(j, q)
  BY <1>2, AddMoves, TakeMoves, CompleteMoves, FailMoves, RetryMoves, StalledMoves
<1>3. \/ UNCHANGED job
      \/ \E j \in Jobs :
            \/ \E sync \in BOOLEAN : Add(j, sync)
            \/ Take(j) \/ Complete(j) \/ Fail(j) \/ Retry(j) \/ Stalled(j)
  <2>1. ASSUME NEW j \in Jobs, QueueIndexing(j) \/ QueueOther(j)
        PROVE  \E sync \in BOOLEAN : Add(j, sync)
    BY <2>1 DEF QueueIndexing, QueueOther, Queue
  <2>2. ASSUME NEW j \in Jobs,
               \/ ReadEntity(j) \/ ReadList(j) \/ UpsertChunk(j) \/ DeleteOrphans(j)
               \/ Finish(j) \/ Throws(j)
        PROVE  UNCHANGED job \/ Fail(j) \/ Complete(j)
    BY <2>2 DEF ReadEntity, ReadList, UpsertChunk, DeleteOrphans, Finish, Throws, Throw
  <2>3. ASSUME NEW j \in Jobs,
               \/ CreateNotice(j) \/ SendMail(j) \/ FindStale(j) \/ DeleteStale(j) \/ Age(j)
        PROVE  UNCHANGED job
    BY <2>3 DEF CreateNotice, SendMail, FindStale, DeleteStale, Age
  <2>4. ASSUME NEW j \in Jobs, Start(j) \/ Recover(j) \/ GoBack(j)
        PROVE  Take(j) \/ Stalled(j) \/ Retry(j)
    BY <2>4 DEF Start, Recover, GoBack
  <2>5. CASE \/ Crash
             \/ \E x \in Rows : MarkAsRead(x)
             \/ \E o \in Orgs : DeleteOrganization(o)
             \/ \E e \in Entities : Edit(e) /\ UNCHANGED noticeVars
    BY <2>5 DEF Crash, MarkAsRead, DeleteOrganization, Edit
  <2>6. CASE UNCHANGED vars
    BY <2>6
  <2> QED BY <2>1, <2>2, <2>3, <2>4, <2>5, <2>6 DEF Next, Worker, Handler
<1> QED BY <1>1, <1>2, <1>3, MovesRefine

(* The workers keep what the queue promises of safety: a job is settled    *)
(* only after its handler ran, runs at most MaxRuns times, and is not      *)
(* touched once it is settled.                                             *)
THEOREM WorkersImplementDelivery == SafeSpec => Promise!Safe
<1>1. Init => Promise!Init
  <2> SUFFICES ASSUME Init  PROVE Promise!Init
    OBVIOUS
  <2>1. \A j \in Jobs : job[j].state = "none" /\ job[j].failed = 0 /\ job[j].stalls = 0
    BY DEF Init, QueueInit, NewJob
  <2>2. \A j \in Jobs : Phase(j) = "none" /\ Runs(j) = 0
    <3> SUFFICES ASSUME NEW j \in Jobs  PROVE Phase(j) = "none" /\ Runs(j) = 0
      OBVIOUS
    <3>1. State(j) = "none" /\ job[j].failed = 0 /\ job[j].stalls = 0
      BY <2>1 DEF State
    <3>2. Runs(j) = 0 + 0 + 0
      BY <3>1 DEF Runs, Running
    <3> QED BY <3>1, <3>2 DEF Phase
  <2>3. Phases = [j \in Jobs |-> "none"] /\ Counts = [j \in Jobs |-> 0]
    BY <2>2 DEF Phases, Counts
  <2> QED BY <2>3 DEF Promise!Init, Phases, Counts
<1>2. WInv /\ [Next]_vars => [Promise!Next]_Promise!deliveryVars
  BY StepRefines
<1> QED BY <1>1, <1>2, Invariance, PTL DEF SafeSpec, Promise!Safe

-----------------------------------------------------------------------------
(***************************************************************************)
(* Delivery: the runs of a job that had their effect (Marks) are the lost  *)
(* ones and, until it is lost too, the present one.                        *)
(***************************************************************************)
Carries(d) == d.kind \in {"notice", "email"}

Marks(j) == {k \in 1..MaxRuns : note[<<j, k>>] # "none"}

(* The number of the run that is at work, or comes next while none is.     *)
Slot(q) == q.failed + q.stalls + 1

(* What holds of a job that carries a notification or a mail: its record   *)
(* q, how far its run is, the runs that had their effect, how many were    *)
(* lost, what it carries, and the organizations there are.                 *)
RowsOf(q, pc, marks, count, d, os) ==
    /\ marks \subseteq 1..Slot(q)
    /\ q.state \notin Running => Slot(q) \notin marks
    /\ Cardinality(marks) = IF Slot(q) \in marks THEN count + 1 ELSE count
    /\ pc \in {"off", "create", "send", "finish"}
    /\ pc = "create" => d.kind = "notice"
    /\ pc \in {"create", "send"} => Slot(q) \notin marks
    /\ (pc = "finish" \/ q.state = "done") =>
          Slot(q) \in marks \/ (d.kind = "notice" /\ d.org \notin os)

RowOK(j) ==
    /\ State(j) = "none" => Marks(j) = {}
    /\ Carries(data[j]) => RowsOf(job[j], run[j].pc, Marks(j), lost[j], data[j], orgs)

DeliveryOK == \A j \in Jobs : RowOK(j)

(* Where the records are right, a run's slot is one of MaxRuns.            *)
LEMMA SlotRange ==
    ASSUME WInv, NEW j \in Jobs
    PROVE  /\ Slot(job[j]) \in Nat /\ lost[j] \in Nat
           /\ State(j) = "active" => Slot(job[j]) \in 1..MaxRuns /\ Runs(j) = Slot(job[j])
<1>1. /\ job[j].failed \in Nat /\ job[j].stalls \in Nat /\ JobOK(job[j])
      /\ lost \in [Jobs -> 0..MaxRuns]
  BY JobType DEF WInv, TypeOK
<1>2. lost[j] \in Nat
  BY <1>1, MaxRunsNat
<1>3. State(j) = "active" => Runs(j) = Slot(job[j])
  BY <1>1 DEF Runs, Running, Slot
<1>4. State(j) = "active" => Slot(job[j]) <= MaxRuns
  BY <1>1, QueueOptions DEF JobOK, State, Slot, MaxRuns
<1> QED BY <1>1, <1>2, <1>3, <1>4, MaxRunsNat DEF Slot

LEMMA MarksFinite ==
    ASSUME NEW j \in Jobs
    PROVE  IsFiniteSet(Marks(j)) /\ IsFiniteSet(Marks(j)')
<1>1. IsFiniteSet(1..MaxRuns)
  BY MaxRunsNat, FS_Interval
<1>2. Marks(j) \subseteq 1..MaxRuns /\ Marks(j)' \subseteq 1..MaxRuns
  BY DEF Marks
<1> QED BY <1>1, <1>2, FS_Subset

(* Rows that stay rows leave the marks alone.                              *)
LEMMA SameMarks ==
    ASSUME NEW j \in Jobs,
           \A x \in Rows : note'[x] = "none" <=> note[x] = "none"
    PROVE  Marks(j)' = Marks(j)
<1>1. \A k \in 1..MaxRuns : <<j, k>> \in Rows
  BY DEF Rows
<1> QED BY <1>1 DEF Marks

(* What stays as it is for a job, while organizations may go.              *)
LEMMA RowKept ==
    ASSUME NEW j \in Jobs, RowOK(j), UNCHANGED <<job[j], data[j], lost[j]>>,
           run'[j] = run[j] \/ run'[j].pc = "off" \/ ~Carries(data[j]),
           Marks(j)' = Marks(j), orgs' \subseteq orgs
    PROVE  RowOK(j)'
<1>1. CASE Carries(data[j])
  <2>1. RowsOf(job[j], run[j].pc, Marks(j), lost[j], data[j], orgs)
    BY <1>1 DEF RowOK
  <2> HIDE DEF Marks
  <2>2. RowsOf(job[j], run'[j].pc, Marks(j), lost[j], data[j], orgs')
    BY <1>1, <2>1 DEF RowsOf
  <2> QED BY <2>2 DEF RowOK, State
<1>2. CASE ~Carries(data[j])
  BY <1>2 DEF RowOK, State, Carries
<1> QED BY <1>1, <1>2

(* The frame: only job j has moved.                                        *)
LEMMA OneRow ==
    ASSUME DeliveryOK, NEW j \in Jobs, orgs' = orgs, RowOK(j)',
           \A i \in Jobs \ {j} : UNCHANGED <<job[i], run[i], data[i], lost[i]>>
                                 /\ Marks(i)' = Marks(i)
    PROVE  DeliveryOK'
<1>1. ASSUME NEW i \in Jobs, i # j  PROVE RowOK(i)'
  BY <1>1, RowKept DEF DeliveryOK
<1> QED BY <1>1 DEF DeliveryOK

(* Nothing that carries a notification or a mail has moved.                *)
LEMMA AllRows ==
    ASSUME DeliveryOK, orgs' \subseteq orgs,
           \A x \in Rows : note'[x] = "none" <=> note[x] = "none",
           \A i \in Jobs : /\ UNCHANGED <<job[i], data[i], lost[i]>>
                           /\ run'[i] = run[i] \/ run'[i].pc = "off" \/ ~Carries(data[i])
    PROVE  DeliveryOK'
BY SameMarks, RowKept DEF DeliveryOK

(* A job's new record, with its run off.                                   *)
LEMMA Moved ==
    ASSUME WInv, NEW j \in Jobs, NEW q \in Job, NEW r \in RunState,
           job' = [job EXCEPT ![j] = q], run' = [run EXCEPT ![j] = r]
    PROVE  /\ job'[j] = q /\ run'[j] = r
           /\ \A i \in Jobs \ {j} : UNCHANGED <<job[i], run[i]>>
  BY DEF WInv, TypeOK, QueueTypeOK

-----------------------------------------------------------------------------
(* A run that is lost, by an error or with its process.                    *)
LEMMA LoseRow ==
    ASSUME WInv, DeliveryOK, NEW j \in Jobs, NEW q \in Job, NEW r \in RunState,
           State(j) = "active", CountLost(j),
           job' = [job EXCEPT ![j] = q], run' = [run EXCEPT ![j] = r], r.pc = "off",
           q.state \in {"waiting", "delayed", "failed"}, Slot(q) = Slot(job[j]) + 1,
           UNCHANGED <<data, note, orgs>>
    PROVE  DeliveryOK'
<1>1. \A i \in Jobs : Marks(i)' = Marks(i)
  BY SameMarks
<1>2. /\ job'[j] = q /\ run'[j] = r
      /\ \A i \in Jobs \ {j} : UNCHANGED <<job[i], run[i]>>
  BY Moved
<1>3. /\ Slot(job[j]) \in 1..MaxRuns /\ Runs(j) = Slot(job[j]) /\ lost[j] \in Nat
  BY SlotRange
<1>4. Wrote(j) <=> Slot(job[j]) \in Marks(j)
  BY <1>3 DEF Wrote, NextRow, Marks
<1>5. /\ lost'[j] = IF Slot(job[j]) \in Marks(j) THEN lost[j] + 1 ELSE lost[j]
      /\ \A i \in Jobs \ {j} : lost'[i] = lost[i]
  BY <1>4 DEF CountLost, WInv, TypeOK
<1>6. RowOK(j)'
  <2>1. q.state # "none" /\ State(j)' = q.state
    BY <1>2 DEF State
  <2>2. ASSUME Carries(data[j])
        PROVE  RowsOf(q, "off", Marks(j), lost'[j], data[j], orgs)
    <3>1. RowsOf(job[j], run[j].pc, Marks(j), lost[j], data[j], orgs)
      BY <2>2 DEF DeliveryOK, RowOK
    <3> HIDE DEF Marks, Slot
    <3>2. Marks(j) \subseteq 1..Slot(q) /\ Slot(q) \notin Marks(j)
      BY <1>3, <3>1 DEF RowsOf
    <3>3. Cardinality(Marks(j)) = lost'[j]
      BY <1>5, <3>1 DEF RowsOf
    <3> QED BY <3>2, <3>3 DEF RowsOf, Running
  <2> QED BY <1>1, <1>2, <2>1, <2>2 DEF RowOK
<1> QED BY <1>1, <1>2, <1>5, <1>6, OneRow

LEMMA ThrowsRow ==
    ASSUME WInv, DeliveryOK, NEW j \in Jobs, Throws(j)
    PROVE  DeliveryOK'
<1>1. /\ Fail(j) /\ Go(j, Off) /\ CountLost(j) /\ UNCHANGED <<data, note, orgs>>
  BY DEF Throws, Throw
<1>2. PICK q \in Job : /\ Step(j, q) /\ q.state \in {"delayed", "failed"}
                       /\ State(j) = "active"
                       /\ q.failed = job[j].failed + 1 /\ q.stalls = job[j].stalls
  BY <1>1, FailMoves
<1>3. Off \in RunState /\ Off.pc = "off" /\ run' = [run EXCEPT ![j] = Off]
  BY <1>1, AtType DEF Off, Go
<1>4. Slot(q) = Slot(job[j]) + 1
  BY <1>2, JobType DEF Slot
<1> QED BY <1>1, <1>2, <1>3, <1>4, LoseRow DEF Step

LEMMA RecoverRow ==
    ASSUME WInv, DeliveryOK, NEW j \in Jobs, Recover(j)
    PROVE  DeliveryOK'
<1>1. /\ Stalled(j) /\ CountLost(j) /\ UNCHANGED <<data, note, orgs, run>> /\ run[j].pc = "off"
  BY DEF Recover, Is
<1>2. PICK q \in Job : /\ Step(j, q) /\ q.state \in {"waiting", "failed"}
                       /\ State(j) = "active"
                       /\ q.failed = job[j].failed /\ q.stalls = job[j].stalls + 1
  BY <1>1, StalledMoves
<1>3. run[j] \in RunState /\ run' = [run EXCEPT ![j] = run[j]]
  BY <1>1 DEF WInv, TypeOK
<1>4. Slot(q) = Slot(job[j]) + 1
  BY <1>2, JobType DEF Slot
<1> QED BY <1>1, <1>2, <1>3, <1>4, LoseRow DEF Step

(* Steps of the queue within one run: its slot stays.                      *)
LEMMA SlotStays ==
    ASSUME WInv, DeliveryOK, NEW j \in Jobs, NEW q \in Job, NEW r \in RunState,
           job' = [job EXCEPT ![j] = q], run' = [run EXCEPT ![j] = r],
           UNCHANGED <<data, note, orgs, lost>>, q.state # "none",
           Carries(data[j]) =>
               /\ RowsOf(job[j], run[j].pc, Marks(j), lost[j], data[j], orgs)
                     => RowsOf(q, r.pc, Marks(j), lost[j], data[j], orgs)
    PROVE  DeliveryOK'
<1>1. \A i \in Jobs : Marks(i)' = Marks(i)
  BY SameMarks
<1>2. /\ job'[j] = q /\ run'[j] = r
      /\ \A i \in Jobs \ {j} : UNCHANGED <<job[i], run[i]>>
  BY Moved
<1>3. RowOK(j)'
  BY <1>1, <1>2 DEF DeliveryOK, RowOK, State
<1> QED BY <1>1, <1>2, <1>3, OneRow

LEMMA StartRow ==
    ASSUME WInv, DeliveryOK, NEW j \in Jobs, Start(j)
    PROVE  DeliveryOK'
<1>1. Take(j) /\ Go(j, First(data[j].kind)) /\ UNCHANGED <<data, note, orgs, lost>>
  BY DEF Start
<1>2. PICK q \in Job : /\ Step(j, q) /\ q.state = "active" /\ State(j) = "waiting"
                       /\ q.failed = job[j].failed /\ q.stalls = job[j].stalls
  BY <1>1, TakeMoves
<1>3. data[j].kind \in {"index", "batch", "notice", "email", "cleanup"}
  BY <1>2 DEF WInv, TypeOK, JobsOK, DataOK, Data, Kinds
<1>4. PICK r \in RunState :
          /\ run' = [run EXCEPT ![j] = r]
          /\ data[j].kind = "notice" => r.pc = "create"
          /\ data[j].kind = "email" => r.pc = "send"
  <2>1. First(data[j].kind) \in RunState
        /\ (data[j].kind = "notice" => First(data[j].kind).pc = "create")
        /\ (data[j].kind = "email" => First(data[j].kind).pc = "send")
    BY <1>3, AtType DEF First
  <2> QED BY <1>1, <2>1 DEF Go
<1>5. Slot(q) = Slot(job[j]) /\ State(j) \notin Running
  BY <1>2 DEF Slot, Running
<1>6. Carries(data[j]) =>
          (RowsOf(job[j], run[j].pc, Marks(j), lost[j], data[j], orgs)
              => RowsOf(q, r.pc, Marks(j), lost[j], data[j], orgs))
  BY <1>2, <1>4, <1>5 DEF RowsOf, Carries, State
<1> QED BY <1>1, <1>2, <1>4, <1>6, SlotStays DEF Step

LEMMA FinishRow ==
    ASSUME WInv, DeliveryOK, NEW j \in Jobs, Finish(j)
    PROVE  DeliveryOK'
<1>1. /\ Complete(j) /\ Go(j, Off) /\ run[j].pc = "finish" /\ UNCHANGED <<data, note, orgs, lost>>
  BY DEF Finish, Is
<1>2. PICK q \in Job : /\ Step(j, q) /\ q.state = "done" /\ State(j) = "active"
                       /\ q.failed = job[j].failed /\ q.stalls = job[j].stalls
  BY <1>1, CompleteMoves
<1>3. Off \in RunState /\ Off.pc = "off" /\ run' = [run EXCEPT ![j] = Off]
  BY <1>1, AtType DEF Off, Go
<1>4. Slot(q) = Slot(job[j])
  BY <1>2 DEF Slot
<1>5. RowsOf(job[j], run[j].pc, Marks(j), lost[j], data[j], orgs)
          => RowsOf(q, Off.pc, Marks(j), lost[j], data[j], orgs)
  BY <1>1, <1>2, <1>3, <1>4 DEF RowsOf, Running
<1> QED BY <1>1, <1>2, <1>3, <1>5, SlotStays DEF Step

LEMMA GoBackRow ==
    ASSUME WInv, DeliveryOK, NEW j \in Jobs, GoBack(j)
    PROVE  DeliveryOK'
<1>1. Retry(j) /\ UNCHANGED <<data, note, orgs, lost, run>>
  BY DEF GoBack
<1>2. PICK q \in Job : /\ Step(j, q) /\ q.state = "waiting" /\ State(j) = "delayed"
                       /\ q.failed = job[j].failed /\ q.stalls = job[j].stalls
  BY <1>1, RetryMoves
<1>3. run[j] \in RunState /\ run' = [run EXCEPT ![j] = run[j]] /\ run[j].pc = "off"
  BY <1>1, <1>2 DEF WInv, TypeOK, RunsOK
<1>4. Slot(q) = Slot(job[j])
  BY <1>2 DEF Slot
<1>5. RowsOf(job[j], run[j].pc, Marks(j), lost[j], data[j], orgs)
          => RowsOf(q, run[j].pc, Marks(j), lost[j], data[j], orgs)
  BY <1>2, <1>3, <1>4 DEF RowsOf, Running, State
<1> QED BY <1>1, <1>2, <1>3, <1>5, SlotStays DEF Step

-----------------------------------------------------------------------------
(* The write of a handler: the mark of this run is set, or there is nobody *)
(* to tell.                                                                *)
LEMMA WriteRow ==
    ASSUME WInv, DeliveryOK, NEW j \in Jobs, CreateNotice(j) \/ SendMail(j)
    PROVE  DeliveryOK'
<1>1. /\ run[j].pc \in {"create", "send"} /\ UNCHANGED <<job, data, lost, orgs>>
      /\ State(j) = "active" /\ Go(j, At("finish")) /\ note \in [Rows -> Row]
      /\ run[j].pc # "off"
  BY RunFacts DEF CreateNotice, SendMail, Is
<1>2. /\ At("finish") \in RunState /\ At("finish").pc = "finish"
      /\ job' = [job EXCEPT ![j] = job[j]] /\ job[j] \in Job
  BY <1>1, AtType, JobType DEF WInv, TypeOK, QueueTypeOK
<1>3. /\ run'[j].pc = "finish" /\ \A i \in Jobs \ {j} : run'[i] = run[i]
  <2>1. run' = [run EXCEPT ![j] = At("finish")]
    BY <1>1 DEF Go
  <2> QED BY <1>2, <2>1 DEF WInv, TypeOK
<1> DEFINE k == Slot(job[j])
<1>4. k \in 1..MaxRuns /\ NextRow(j) = <<j, k>> /\ <<j, k>> \in Rows /\ lost[j] \in Nat
  BY <1>1, SlotRange DEF NextRow, Rows
<1>5. CASE /\ UNCHANGED note
           /\ Carries(data[j]) => data[j].kind = "notice" /\ data[j].org \notin orgs
  <2>1. \A i \in Jobs : Marks(i)' = Marks(i)
    BY <1>5, SameMarks
  <2>2. RowOK(j)'
    <3> HIDE DEF Marks
    <3> QED BY <1>1, <1>3, <1>5, <2>1 DEF DeliveryOK, RowOK, RowsOf, State, Carries
  <2> QED BY <1>1, <1>3, <2>1, <2>2, OneRow
<1>6. CASE \E state \in {"unread", "sent"} : Write(NextRow(j), state)
  <2>1. PICK state \in {"unread", "sent"} : note' = [note EXCEPT ![<<j, k>>] = state]
    BY <1>4, <1>6 DEF Write
  <2>2. \A i \in Jobs, n \in 1..MaxRuns :
            note'[<<i, n>>] = IF i = j /\ n = k THEN state ELSE note[<<i, n>>]
    BY <1>1, <1>4, <2>1 DEF Rows
  <2>3. Marks(j)' = Marks(j) \cup {k}
    BY <1>4, <2>2 DEF Marks
  <2>4. \A i \in Jobs \ {j} : Marks(i)' = Marks(i)
    BY <2>2 DEF Marks
  <2>5. ASSUME Carries(data[j])
        PROVE  RowsOf(job[j], "finish", Marks(j) \cup {k}, lost[j], data[j], orgs)
    <3>1. RowsOf(job[j], run[j].pc, Marks(j), lost[j], data[j], orgs)
      BY <2>5 DEF DeliveryOK, RowOK
    <3>2. Marks(j) \subseteq 1..k /\ k \notin Marks(j) /\ Cardinality(Marks(j)) = lost[j]
      BY <1>1, <3>1 DEF RowsOf
    <3>3. Cardinality(Marks(j) \cup {k}) = lost[j] + 1
      BY <3>2, MarksFinite, FS_AddElement
    <3> HIDE DEF Marks, k
    <3>4. Marks(j) \cup {k} \subseteq 1..k /\ job[j].state \in Running
      BY <1>1, <1>4, <3>2 DEF State, Running
    <3> QED BY <3>3, <3>4 DEF RowsOf, k
  <2>6. RowOK(j)'
    <3> HIDE DEF Marks, k
    <3> QED BY <1>1, <1>3, <2>3, <2>5 DEF RowOK, State
  <2> QED BY <1>1, <1>3, <2>4, <2>6, OneRow
<1>7. run[j].pc = "create" /\ Carries(data[j]) => data[j].kind = "notice"
  BY DEF DeliveryOK, RowOK, RowsOf
<1> QED BY <1>5, <1>6, <1>7 DEF CreateNotice, SendMail, Is

(* The handlers of other jobs, and clean-ups, leave every mark.            *)
LEMMA OtherRow ==
    ASSUME WInv, DeliveryOK, NEW j \in Jobs,
           \/ (ReadEntity(j) \/ ReadList(j) \/ UpsertChunk(j) \/ DeleteOrphans(j))
              /\ UNCHANGED noticeVars
           \/ FindStale(j) \/ DeleteStale(j)
    PROVE  DeliveryOK'
<1>1. /\ run[j].pc \in {"read", "list", "chunk", "orphans", "find", "delete"}
      /\ UNCHANGED <<data, lost, orgs>> /\ run[j].pc # "off"
  BY DEF ReadEntity, ReadList, UpsertChunk, DeleteOrphans, FindStale, DeleteStale, Is
<1>2. /\ ~Carries(data[j]) /\ State(j) = "active" /\ run[j] \in RunState /\ RunOK(j, run[j])
      /\ note \in [Rows -> Row]
  BY <1>1, RunFacts DEF DeliveryOK, RowOK, RowsOf
<1>3. \A x \in Rows : note'[x] = "none" <=> note[x] = "none"
  <2>1. CASE DeleteStale(j)
    <3>1. /\ \A x \in run[j].found : note[x] \in {"read", "gone"}
          /\ \A x \in Rows : note'[x] = IF x \in run[j].found THEN "gone" ELSE note[x]
      BY <1>2, <2>1 DEF DeleteStale, Is, RunOK
    <3> QED BY <3>1
  <2>2. CASE ~DeleteStale(j)
    BY <2>2 DEF FindStale
  <2> QED BY <2>1, <2>2
<1>4. /\ \A i \in Jobs \ {j} : UNCHANGED <<job[i], run[i]>>
      /\ State(j)' # "none"
  <2>1. \A i \in Jobs \ {j} : run'[i] = run[i]
    BY DEF WInv, TypeOK, ReadEntity, ReadList, NextOf, UpsertChunk, DeleteOrphans, FindStale,
           DeleteStale, Go, Throw
  <2>2. UNCHANGED job \/ Fail(j)
    BY DEF ReadEntity, ReadList, UpsertChunk, DeleteOrphans, FindStale, DeleteStale, Throw
  <2>3. CASE UNCHANGED job
    BY <1>2, <2>1, <2>3 DEF State
  <2>4. CASE Fail(j)
    <3>1. PICK q \in Job : Step(j, q) /\ q.state \in {"delayed", "failed"}
      BY <2>4, FailMoves
    <3>2. \A i \in Jobs : job'[i] = IF i = j THEN q ELSE job[i]
      BY <3>1 DEF Step, WInv, TypeOK, QueueTypeOK
    <3> QED BY <2>1, <3>1, <3>2 DEF State
  <2> QED BY <2>2, <2>3, <2>4
<1>5. RowOK(j)'
  BY <1>1, <1>2, <1>4 DEF RowOK, Carries
<1>6. \A i \in Jobs : Marks(i)' = Marks(i)
  BY <1>3, SameMarks
<1> QED BY <1>1, <1>4, <1>5, <1>6, OneRow

(* A job is queued: it has no marks, and its first run comes next.         *)
LEMMA AddRow ==
    ASSUME WInv, DeliveryOK, NEW j \in Jobs, NEW new \in Data, NEW sync \in BOOLEAN,
           Queue(j, new, sync), sync => ~Carries(new)
    PROVE  DeliveryOK'
<1>1. /\ Add(j, sync) /\ data' = [data EXCEPT ![j] = new] /\ UNCHANGED <<orgs, note, lost>>
      /\ IF sync THEN Go(j, First(new.kind)) ELSE UNCHANGED run
  BY DEF Queue
<1>2. PICK q \in Job : /\ Step(j, q) /\ q.failed = 0 /\ q.stalls = 0
                       /\ q.state = IF sync THEN "active" ELSE "waiting"
  BY <1>1, AddMoves
<1>3. /\ job'[j] = q /\ data'[j] = new /\ lost[j] = 0 /\ run[j].pc = "off" /\ Marks(j) = {}
      /\ \A i \in Jobs \ {j} : UNCHANGED <<job[i], data[i]>>
  <2>1. State(j) = "none" /\ job[j].failed = 0 /\ job[j].stalls = 0
    BY <1>1 DEF Add, State, WInv, JobsOK, JobOK
  <2>2. lost[j] <= job[j].failed + job[j].stalls /\ lost[j] \in Nat
    BY SlotRange DEF WInv, JobsOK
  <2>3. lost[j] = 0
    BY <2>1, <2>2
  <2>4. run[j].pc = "off" /\ Marks(j) = {}
    BY <2>1 DEF WInv, RunsOK, DeliveryOK, RowOK
  <2>5. /\ job'[j] = q /\ data'[j] = new
        /\ \A i \in Jobs \ {j} : UNCHANGED <<job[i], data[i]>>
    BY <1>1, <1>2 DEF Step, WInv, TypeOK, QueueTypeOK
  <2> QED BY <2>3, <2>4, <2>5
<1>4. \A i \in Jobs \ {j} : run'[i] = run[i]
  BY <1>1 DEF Go, WInv, TypeOK
<1>5. \A i \in Jobs : Marks(i)' = Marks(i)
  BY <1>1, SameMarks
<1>6. ASSUME Carries(new)  PROVE RowsOf(q, "off", {}, 0, new, orgs) /\ run'[j].pc = "off"
  <2>1. ~sync /\ q.state = "waiting" /\ Slot(q) = 1
    BY <1>2, <1>6 DEF Slot
  <2>2. Cardinality({}) = 0
    BY FS_EmptySet
  <2> QED BY <1>1, <1>3, <2>1, <2>2 DEF RowsOf, Running
<1>7. RowOK(j)'
  <2>1. q.state # "none"
    BY <1>2
  <2> HIDE DEF Marks
  <2> QED BY <1>1, <1>3, <1>5, <1>6, <2>1 DEF RowOK, State
<1> QED BY <1>1, <1>3, <1>4, <1>5, <1>7, OneRow

LEMMA QueuedRow ==
    ASSUME WInv, DeliveryOK, NEW j \in Jobs, QueueIndexing(j) \/ QueueOther(j)
    PROVE  DeliveryOK'
<1>1. orgs \subseteq Orgs
  BY DEF WInv, TypeOK
<1>2. ASSUME NEW kind \in Kinds, NEW o \in Orgs \cup {Nobody}, NEW e \in Entities \cup {Nobody}
      PROVE  NewData(kind, o, e) \in Data /\ NewData(kind, o, e).kind = kind
  BY DEF NewData, Data
<1>3. ASSUME NEW kind \in {"index", "batch"}, NEW o \in Orgs \cup {Nobody},
             NEW e \in Entities \cup {Nobody}, NEW sync \in BOOLEAN,
             Queue(j, NewData(kind, o, e), sync)
      PROVE  DeliveryOK'
  <2> DEFINE new == NewData(kind, o, e)
  <2>1. new \in Data /\ ~Carries(new)
    BY <1>2 DEF Kinds, Carries
  <2> HIDE DEF new
  <2> QED BY <1>3, <2>1, AddRow DEF new
<1>4. ASSUME NEW kind \in {"notice", "email", "cleanup"}, NEW o \in Orgs \cup {Nobody},
             Queue(j, NewData(kind, o, Nobody), FALSE)
      PROVE  DeliveryOK'
  <2> DEFINE new == NewData(kind, o, Nobody)
  <2>1. new \in Data
    BY <1>2 DEF Kinds
  <2>2. FALSE \in BOOLEAN /\ Queue(j, new, FALSE)
    BY <1>4
  <2> HIDE DEF new
  <2> QED BY <2>1, <2>2, AddRow
<1>5. CASE QueueIndexing(j)
  <2>1. PICK o \in orgs, sync \in BOOLEAN :
            \/ \E e \in Entities : Queue(j, NewData("index", o, e), sync)
            \/ Queue(j, NewData("batch", o, Nobody), sync)
    BY <1>5 DEF QueueIndexing
  <2> QED BY <1>1, <1>3, <2>1
<1>6. CASE QueueOther(j)
  BY <1>1, <1>4, <1>6 DEF QueueOther
<1> QED BY <1>5, <1>6

(* What people and time do, and the end of a process.                      *)
LEMMA OutsideRow ==
    ASSUME WInv, DeliveryOK,
           \/ Crash
           \/ \E x \in Rows : MarkAsRead(x)
           \/ \E j \in Jobs : Age(j)
           \/ \E o \in Orgs : DeleteOrganization(o)
           \/ \E e \in Entities : Edit(e) /\ UNCHANGED noticeVars
           \/ UNCHANGED vars
    PROVE  DeliveryOK'
<1>1. note \in [Rows -> Row]
  BY DEF WInv, TypeOK
<1>2. UNCHANGED <<job, data, lost>> /\ orgs' \subseteq orgs
  BY DEF Crash, MarkAsRead, Age, DeleteOrganization, Edit
<1>3. \A x \in Rows : note'[x] = "none" <=> note[x] = "none"
  BY <1>1 DEF Crash, MarkAsRead, Write, Age, DeleteOrganization, Edit
<1>4. \A i \in Jobs : run'[i] = run[i] \/ run'[i].pc = "off"
  BY AtType DEF Crash, Off, MarkAsRead, Age, DeleteOrganization, Edit
<1> QED BY <1>2, <1>3, <1>4, AllRows

(* A notification or a mail whose job is done was delivered, unless its    *)
(* organization is gone; and it was delivered once, and once more at most  *)
(* for each run that was lost after it had its effect.                     *)
THEOREM DeliveredOnce == SafeSpec => []Delivered
<1>1. Init => DeliveryOK
  <2> SUFFICES ASSUME Init, NEW j \in Jobs  PROVE RowOK(j)
    BY DEF DeliveryOK
  <2>1. data[j].kind = "none" /\ ~Carries(data[j])
    BY DEF Init, IndexInit, NewData, Carries
  <2>2. Marks(j) = {}
    BY DEF Init, Marks, Rows
  <2> QED BY <2>1, <2>2 DEF RowOK
<1>2. WInv /\ DeliveryOK /\ [Next]_vars => DeliveryOK'
  <2> SUFFICES ASSUME WInv, DeliveryOK, [Next]_vars  PROVE DeliveryOK'
    OBVIOUS
  <2>1. ASSUME NEW j \in Jobs, Worker(j)  PROVE DeliveryOK'
    BY <2>1, StartRow, OtherRow, WriteRow, FinishRow, RecoverRow, GoBackRow
       DEF Worker, Handler
  <2> QED BY <2>1, QueuedRow, ThrowsRow, OutsideRow DEF Next
<1>3. WInv /\ DeliveryOK => Delivered
  <2> SUFFICES ASSUME WInv, DeliveryOK, NEW j \in Jobs, data[j].kind \in {"notice", "email"}
               PROVE  /\ Written(j) <= lost[j] + 1
                      /\ State(j) = "done" => \/ Written(j) > lost[j]
                                              \/ data[j].kind = "notice" /\ data[j].org \notin orgs
    BY DEF Delivered
  <2>1. RowsOf(job[j], run[j].pc, Marks(j), lost[j], data[j], orgs) /\ lost[j] \in Nat
    BY SlotRange DEF DeliveryOK, RowOK, Carries
  <2>2. Written(j) = Cardinality(Marks(j))
    BY DEF Written, Marks
  <2> QED BY <2>1, <2>2 DEF RowsOf, State
<1> QED BY <1>1, <1>2, <1>3, Invariance, PTL DEF SafeSpec

-----------------------------------------------------------------------------
(***************************************************************************)
(* The index when jobs come one at a time.  While a job is not settled     *)
(* nothing is claimed of the index (floor is 0); what its run knows adds   *)
(* up, by the time it is finished, to what is claimed from then on.        *)
(***************************************************************************)
Pending(j) == State(j) \in {"waiting", "active", "delayed"}
Shown(e) == doc[Home[e]][e]

(* The chunks of one version, all of them and no others.                   *)
Whole(e) ==
    /\ Shown(e)[0].version >= asof[e]
    /\ \A i \in Index :
           Shown(e)[i] = IF i < Shown(e)[0].total THEN Shown(e)[0] ELSE NoChunk

(* The chunks the run has written of the entity in hand are still there.   *)
Begun(r) ==
    Exists(r.entity) =>
        /\ r.content.version >= asof[r.entity]
        /\ \A i \in Index : i < r.next =>
              Shown(r.entity)[i] = NewChunk(r.content.version, r.content.chunks)

(* What the job covers and is to index is whole, in hand, or still to be   *)
(* indexed.                                                                *)
Owed(j, e) == Covers(j, e) /\ Exists(e) /\ asof[e] > 0
Accounted(j, r) ==
    \A e \in Entities : Owed(j, e) =>
        Whole(e) \/ e = r.entity \/ \E x \in r.rest : x.entity = e

Progress(j, r) ==
    /\ r.pc \in {"off", "read", "list", "chunk", "orphans", "finish"}
    /\ r.pc \in {"chunk", "orphans"} =>
          /\ Begun(r) /\ Accounted(j, r)
          /\ \A x \in r.rest : x.content.version >= asof[x.entity]
    /\ r.pc = "orphans" => r.next = r.content.chunks
    /\ r.pc = "finish" => \A e \in Entities : Owed(j, e) => Whole(e)

OneJob == \A i, j \in Jobs : Pending(i) /\ Pending(j) => i = j
NothingClaimed ==
    \A j \in Jobs : Pending(j) =>
        data[j].kind \in {"index", "batch"} /\ \A e \in Entities : floor[e] = 0
VersionsGrow ==
    \A e \in Entities : Exists(e) => asof[e] <= entity[e].version /\ Home[e] \in orgs
InProgress == \A j \in Jobs : Progress(j, run[j])
Kept ==
    \A e \in Entities : floor[e] > 0 =>
        /\ Shown(e)[0].version >= floor[e]
        /\ \A i \in Index :
               Shown(e)[i] = IF i < Shown(e)[0].total THEN Shown(e)[0] ELSE NoChunk

QuietOK == OneJob /\ NothingClaimed /\ VersionsGrow /\ InProgress /\ Kept

-----------------------------------------------------------------------------
(* The run of a pending job is the only one.                               *)
LEMMA OnlyRun ==
    ASSUME WInv, QuietOK, NEW j \in Jobs, Pending(j)
    PROVE  \A i \in Jobs \ {j} : run[i].pc = "off" /\ ~Pending(i)
  BY DEF WInv, RunsOK, QuietOK, OneJob, Pending

LEMMA RunIsPending ==
    ASSUME WInv, NEW j \in Jobs, run[j].pc # "off" \/ State(j) = "active"
    PROVE  Pending(j)
  BY DEF WInv, RunsOK, Pending

(* The frame: the pending job, or its run, moves.                          *)
LEMMA JobMoves ==
    ASSUME WInv, QuietOK, NEW j \in Jobs, Pending(j), NEW q \in Job, NEW r \in RunState,
           job' = [job EXCEPT ![j] = q], run' = [run EXCEPT ![j] = r],
           UNCHANGED <<data, entity, floor, orgs>>, asof' = asof \/ VersionsGrow',
           Progress(j, r)'
    PROVE  QuietOK'
<1>1. /\ \A i \in Jobs : job'[i] = IF i = j THEN q ELSE job[i]
      /\ \A i \in Jobs : run'[i] = IF i = j THEN r ELSE run[i]
  BY DEF WInv, TypeOK, QueueTypeOK
<1>2. \A i \in Jobs \ {j} : run'[i].pc = "off" /\ ~Pending(i)'
  BY <1>1, OnlyRun DEF Pending, State
<1>3. OneJob' /\ NothingClaimed'
  BY <1>1, <1>2 DEF QuietOK, OneJob, NothingClaimed
<1>4. VersionsGrow'
  BY DEF QuietOK, VersionsGrow, Exists
<1>5. InProgress'
  <2>1. ASSUME NEW i \in Jobs, i # j  PROVE Progress(i, run[i])'
    BY <1>2, <2>1 DEF Progress
  <2>2. run'[j] = r
    BY <1>1
  <2>3. Progress(j, run[j])'
    BY <2>2 DEF Progress, Begun, Accounted
  <2> QED BY <2>1, <2>3 DEF InProgress
<1>6. Kept'
  <2>1. floor \in [Entities -> 0..MaxVersion] /\ \A e \in Entities : floor[e] = 0
    BY DEF QuietOK, NothingClaimed, WInv, TypeOK
  <2>2. \A e \in Entities : ~(floor'[e] > 0)
    BY <2>1
  <2> QED BY <2>2 DEF Kept
<1> QED BY <1>3, <1>4, <1>5, <1>6 DEF QuietOK

(* A job whose run is off, or starts.                                      *)
LEMMA JobTurns ==
    ASSUME WInv, QuietOK, NEW j \in Jobs, Pending(j), NEW q \in Job, NEW r \in RunState,
           Step(j, q), run' = [run EXCEPT ![j] = r], r.pc \in {"off", "read", "list"},
           UNCHANGED <<data, entity, asof, floor, orgs>>
    PROVE  QuietOK'
<1>1. Progress(j, r)'
  BY DEF Progress
<1> QED BY <1>1, JobMoves DEF Step

LEMMA ThrowQuiet ==
    ASSUME WInv, QuietOK, NEW j \in Jobs, Throw(j), UNCHANGED <<data, entity, asof, floor, orgs>>
    PROVE  QuietOK'
<1>1. PICK q \in Job : Step(j, q) /\ State(j) = "active"
  BY FailMoves DEF Throw
<1>2. Off \in RunState /\ Off.pc = "off" /\ run' = [run EXCEPT ![j] = Off]
  BY AtType DEF Off, Throw, Go
<1> QED BY <1>1, <1>2, RunIsPending, JobTurns

LEMMA TurnsQuiet ==
    ASSUME WInv, QuietOK, NEW j \in Jobs, Start(j) \/ Recover(j) \/ GoBack(j) \/ Throws(j)
    PROVE  QuietOK'
<1>1. CASE Throws(j)
  BY <1>1, ThrowQuiet DEF Throws
<1>2. CASE Start(j)
  <2>1. PICK q \in Job : Step(j, q) /\ State(j) = "waiting"
    BY <1>2, TakeMoves DEF Start
  <2>2. Pending(j) /\ data[j].kind \in {"index", "batch"}
    BY <2>1 DEF Pending, QuietOK, NothingClaimed
  <2>3. First(data[j].kind) \in RunState /\ First(data[j].kind).pc \in {"read", "list"}
    BY <2>2, AtType DEF First
  <2>4. run' = [run EXCEPT ![j] = First(data[j].kind)]
        /\ UNCHANGED <<data, entity, asof, floor, orgs>>
    BY <1>2 DEF Start, Go
  <2> QED BY <2>1, <2>2, <2>3, <2>4, JobTurns
<1>3. CASE Recover(j) \/ GoBack(j)
  <2>1. PICK q \in Job : Step(j, q) /\ State(j) \in {"active", "delayed"}
    BY <1>3, StalledMoves, RetryMoves DEF Recover, GoBack
  <2>2. run[j].pc = "off" /\ run[j] \in RunState /\ run' = [run EXCEPT ![j] = run[j]]
        /\ UNCHANGED <<data, entity, asof, floor, orgs>>
    BY <1>3, <2>1 DEF Recover, GoBack, Retry, Is, WInv, TypeOK, RunsOK, State
  <2> QED BY <2>1, <2>2, JobTurns DEF Pending
<1> QED BY <1>1, <1>2, <1>3

-----------------------------------------------------------------------------
(* What a batch goes on with; nothing of it has been written yet.          *)
LEMMA NextProgress ==
    ASSUME WInv, NEW j \in Jobs, NEW rest \in SUBSET [entity : Entities, content : Content],
           NextOf(j, rest), UNCHANGED <<data, entity>>,
           \A x \in rest : x.content.version >= asof'[x.entity],
           \A e \in Entities : Owed(j, e)' => Whole(e)' \/ \E x \in rest : x.entity = e
    PROVE  \E r \in RunState : run' = [run EXCEPT ![j] = r] /\ Progress(j, r)'
<1>1. CASE rest = {}
  <2>1. PICK r \in RunState : r.pc = "finish" /\ run' = [run EXCEPT ![j] = r]
    BY <1>1, AtType DEF NextOf, Go
  <2>2. Progress(j, r)'
    BY <1>1, <2>1 DEF Progress
  <2> QED BY <2>1, <2>2
<1>2. CASE rest # {}
  <2>1. PICK x \in rest :
            Go(j, NewRun("chunk", x.entity, x.content, 0, rest \ {x}, {}))
    BY <1>2 DEF NextOf
  <2>2. PICK r : r = NewRun("chunk", x.entity, x.content, 0, rest \ {x}, {})
    OBVIOUS
  <2>3. /\ r \in RunState /\ r.pc = "chunk" /\ r.entity = x.entity /\ r.content = x.content
        /\ r.next = 0 /\ r.rest = rest \ {x}
    BY <2>2, IndexConstants DEF NewRun, RunState
  <2>4. Begun(r)'
    <3>1. r.content.version >= asof'[r.entity]
      BY <2>3
    <3>2. \A i \in Index : ~(i < 0)
      BY IndexConstants DEF Index
    <3> QED BY <2>3, <3>1, <3>2 DEF Begun
  <2>5. Accounted(j, r)'
    <3> SUFFICES ASSUME NEW e \in Entities, Owed(j, e)'
                 PROVE  Whole(e)' \/ e = r.entity \/ \E y \in r.rest : y.entity = e
      BY DEF Accounted
    <3>1. Whole(e)' \/ \E y \in rest : y.entity = e
      OBVIOUS
    <3> QED BY <2>3, <3>1
  <2>6. Progress(j, r)'
    BY <2>3, <2>4, <2>5 DEF Progress
  <2> QED BY <2>1, <2>2, <2>3, <2>6 DEF Go
<1> QED BY <1>1, <1>2

LEMMA ReadQuiet ==
    ASSUME WInv, QuietOK, Quiet, NEW j \in Jobs, ReadEntity(j) \/ ReadList(j)
    PROVE  QuietOK'
<1>1. /\ run[j].pc \in {"read", "list"} /\ run[j].pc # "off"
      /\ UNCHANGED <<orgs, entity, doc, floor, world, data>>
  BY DEF ReadEntity, ReadList, Is
<1>2. /\ Pending(j) /\ RunOK(j, run[j]) /\ DataOK(j) /\ job[j] \in Job
      /\ job \in [Jobs -> Job] /\ entity \in [Entities -> Content]
  BY <1>1, RunFacts, RunIsPending, JobType
<1>3. CASE Throw(j) /\ UNCHANGED asof
  BY <1>1, <1>3, ThrowQuiet
<1>4. CASE ReadEntity(j) /\ ~Throw(j)
  <2>1. PICK e \in Entities : e = data[j].entity
    BY <1>2, <1>4 DEF ReadEntity, Is, RunOK, DataOK
  <2>2. Exists(e) /\ Home[e] = data[j].org /\ entity[e] \in Content /\ UNCHANGED <<job, asof>>
        /\ Go(j, NewRun("chunk", e, entity[e], 0, {}, {})) /\ data[j].kind = "index"
    BY <1>2, <1>4, <2>1 DEF ReadEntity, Readable, Is, RunOK
  <2>3. PICK r \in RunState :
            /\ r = NewRun("chunk", e, entity[e], 0, {}, {})
            /\ r.pc = "chunk" /\ r.entity = e /\ r.content = entity[e]
            /\ r.next = 0 /\ r.rest = {}
    BY <2>2, IndexConstants DEF NewRun, RunState
  <2>4. Begun(r)'
    BY <1>1, <2>2, <2>3 DEF Begun, Index, QuietOK, VersionsGrow
  <2>5. Accounted(j, r)'
    BY <1>1, <2>1, <2>2, <2>3 DEF Accounted, Owed, Covers
  <2>6. Progress(j, r)'
    BY <2>3, <2>4, <2>5 DEF Progress
  <2>7. job' = [job EXCEPT ![j] = job[j]] /\ run' = [run EXCEPT ![j] = r]
    BY <1>2, <2>2, <2>3 DEF Go
  <2>8. VersionsGrow'
    BY <1>1, <2>2 DEF QuietOK, VersionsGrow, Exists
  <2> QED BY <1>1, <1>2, <2>6, <2>7, <2>8, JobMoves
<1>5. ASSUME NEW newest \in SUBSET {x \in Logs : Readable(x, data[j].org)},
             NextOf(j, {[entity |-> e, content |-> entity[e]] : e \in Read(data[j].org, newest)}),
             asof' = Due(newest), UNCHANGED job, data[j].kind = "batch"
      PROVE  QuietOK'
  <2> DEFINE o == data[j].org
             rest == {[entity |-> e, content |-> entity[e]] : e \in Read(o, newest)}
  <2>1. /\ asof \in [Entities -> 0..MaxVersion]
        /\ \A e \in Entities : entity[e] \in Content /\ entity[e].version \in Nat
    <3>1. asof \in [Entities -> 0..MaxVersion]
      BY DEF WInv, TypeOK
    <3>2. \A e \in Entities : entity[e] \in Content
      BY <1>2
    <3>3. \A c \in Content : c.version \in Nat
      BY IndexConstants DEF Content
    <3> QED BY <3>1, <3>2, <3>3
  <2>2. \A e \in Entities :
            asof'[e] = IF e \in newest THEN entity[e].version
                       ELSE IF e \in Logs THEN 0 ELSE asof[e]
    BY <1>5 DEF Due
  <2>3. VersionsGrow'
    <3> SUFFICES ASSUME NEW e \in Entities, Exists(e)
                 PROVE  asof'[e] <= entity[e].version /\ Home[e] \in orgs
      BY <1>1 DEF VersionsGrow, Exists
    <3> QED BY <2>1, <2>2 DEF QuietOK, VersionsGrow
  <2>4. \A e \in Read(o, newest) : e \in Entities /\ Readable(e, o)
    BY IndexConstants DEF Read
  <2>5. \A x \in rest : /\ x \in [entity : Entities, content : Content]
                        /\ x.content.version >= asof'[x.entity]
    <3>1. \A e \in Entities : Readable(e, o) => entity[e].version >= asof'[e]
      BY <1>1, <2>1, <2>2, <2>3 DEF Readable, VersionsGrow, Exists
    <3> QED BY <2>1, <2>4, <3>1
  <2>6. \A e \in Entities : Owed(j, e)' => \E x \in rest : x.entity = e
    <3> SUFFICES ASSUME NEW e \in Entities, Owed(j, e)'
                 PROVE  \E x \in rest : x.entity = e
      OBVIOUS
    <3>1. Readable(e, o) /\ asof'[e] > 0
      BY <1>1, <1>5 DEF Readable, Owed, Covers, Exists
    <3>2. e \in Read(o, newest)
      BY <2>2, <3>1 DEF Read
    <3>3. [entity |-> e, content |-> entity[e]] \in rest
      BY <3>2
    <3> QED BY <3>3
  <2> HIDE DEF rest
  <2>7. PICK r \in RunState : run' = [run EXCEPT ![j] = r] /\ Progress(j, r)'
    BY <1>1, <1>5, <2>5, <2>6, NextProgress DEF rest
  <2>8. job' = [job EXCEPT ![j] = job[j]]
    BY <1>2, <1>5
  <2> QED BY <1>1, <1>2, <2>3, <2>7, <2>8, JobMoves
<1>6. run[j].pc = "list" => data[j].kind = "batch"
  BY <1>2 DEF RunOK
<1> QED BY <1>3, <1>4, <1>5, <1>6 DEF ReadEntity, ReadList, Is

-----------------------------------------------------------------------------
(* One more chunk of the entity in hand; the others are not touched.       *)
LEMMA UpsertQuiet ==
    ASSUME WInv, QuietOK, NEW j \in Jobs, UpsertChunk(j)
    PROVE  QuietOK'
<1>1. /\ run[j].pc = "chunk" /\ run[j].pc # "off"
      /\ UNCHANGED <<orgs, entity, asof, floor, world, data, faults>>
  BY DEF UpsertChunk, Is
<1>2. /\ Pending(j) /\ run[j] \in RunState /\ RunOK(j, run[j]) /\ Progress(j, run[j])
      /\ job[j] \in Job /\ job \in [Jobs -> Job] /\ doc \in IndexType
  BY <1>1, RunFacts, RunIsPending, JobType DEF QuietOK, InProgress
<1>3. CASE Throw(j)
  BY <1>1, <1>3, ThrowQuiet
<1>4. CASE ~Throw(j)
  <2>1. PICK r \in RunState : r = run[j]
    BY <1>2
  <2>2. PICK c : c = NewChunk(r.content.version, r.content.chunks)
    OBVIOUS
  <2> PICK o \in Orgs, ent \in Entities, n \in 0..MaxChunks :
            o = data[j].org /\ ent = r.entity /\ n = r.next /\ Home[ent] = o
    BY <1>1, <1>2, <2>1, IndexConstants DEF RunOK, PieceOK, RunState
  <2>3. /\ doc' = [doc EXCEPT ![o][ent][n] = c] /\ UNCHANGED job
        /\ Go(j, NewRun(IF IsLast(n, r.content.chunks) THEN "orphans" ELSE "chunk",
                        ent, r.content, n + 1, r.rest, {}))
    BY <1>4, <2>1, <2>2 DEF UpsertChunk
  <2>4. PICK new : new = NewRun(IF IsLast(n, r.content.chunks) THEN "orphans" ELSE "chunk",
                                ent, r.content, n + 1, r.rest, {})
    OBVIOUS
  <2>5. /\ new \in RunState /\ new.entity = ent /\ new.content = r.content
        /\ new.next = n + 1 /\ new.rest = r.rest
        /\ new.pc = IF n + 1 = r.content.chunks THEN "orphans" ELSE "chunk"
    <3>1. n < r.content.chunks /\ r.content \in Content /\ r.content.chunks \in 0..MaxChunks
          /\ r.rest \in SUBSET [entity : Entities, content : Content]
      BY <1>1, <1>2, <2>1, <2>2 DEF RunOK, RunState, Content
    <3>2. n + 1 \in 0..MaxChunks
      BY <3>1, IndexConstants
    <3> QED BY <2>4, <3>1, <3>2 DEF NewRun, RunState, IsLast
  <2>6. /\ \A e \in Entities \ {ent} : Shown(e)' = Shown(e)
        /\ \A i \in Index : Shown(ent)'[i] = IF i = n THEN c ELSE Shown(ent)[i]
    <3>1. PICK d \in [Orgs -> [Entities -> [Index -> Chunk]]] : d = doc
      BY <1>2 DEF IndexType
    <3>2. PICK old \in [Index -> Chunk] : old = d[o][ent]
      BY <2>2, <3>1
    <3>3. PICK all : all = [old EXCEPT ![n] = c]
      OBVIOUS
    <3>4. \A i \in Index : all[i] = IF i = n THEN c ELSE old[i]
      BY <3>2, <3>3
    <3>5. doc' = [doc EXCEPT ![o] = [d[o] EXCEPT ![ent] = all]]
      BY <2>3, <3>1, <3>2, <3>3
    <3>6. \A p \in Orgs, e \in Entities :
              doc'[p][e] = IF p = o /\ e = ent THEN all ELSE doc[p][e]
      BY <2>2, <3>1, <3>5
    <3>7. \A e \in Entities : Home[e] \in Orgs
      BY IndexConstants
    <3> QED BY <2>2, <3>1, <3>2, <3>4, <3>6, <3>7 DEF Shown
  <2>7. Begun(new)'
    <3>1. Exists(ent) => /\ r.content.version >= asof[ent]
                         /\ \A i \in Index : i < n => Shown(ent)[i] = c
      BY <1>1, <1>2, <2>1, <2>2 DEF Progress, Begun
    <3>2. \A i \in Index : i < n + 1 => i = n \/ i < n
      BY IndexConstants DEF Index
    <3>3. Exists(ent) => \A i \in Index : i < n + 1 => Shown(ent)'[i] = c
      BY <2>6, <3>1, <3>2
    <3> QED BY <1>1, <2>2, <2>5, <3>1, <3>3 DEF Begun, Exists
  <2>8. Accounted(j, new)'
    <3> SUFFICES ASSUME NEW e \in Entities, Owed(j, e)', e # ent
                 PROVE  Whole(e)' \/ \E x \in r.rest : x.entity = e
      BY <2>5 DEF Accounted
    <3>1. Whole(e) \/ \E x \in r.rest : x.entity = e
      BY <1>1, <1>2, <2>1, <2>2 DEF Progress, Accounted, Owed, Covers, Exists
    <3>2. Whole(e) => Whole(e)'
      BY <1>1, <2>6 DEF Whole
    <3> QED BY <3>1, <3>2
  <2>9. Progress(j, new)'
    BY <1>1, <1>2, <2>1, <2>5, <2>7, <2>8 DEF Progress
  <2>10. job' = [job EXCEPT ![j] = job[j]] /\ run' = [run EXCEPT ![j] = new]
    BY <1>2, <2>3, <2>4 DEF Go
  <2> QED BY <1>1, <1>2, <2>5, <2>9, <2>10, JobMoves
<1> QED BY <1>3, <1>4

(* The chunks beyond the last go: the entity in hand is whole.             *)
LEMMA OrphansQuiet ==
    ASSUME WInv, QuietOK, NEW j \in Jobs, DeleteOrphans(j)
    PROVE  QuietOK'
<1>1. /\ run[j].pc = "orphans" /\ run[j].pc # "off"
      /\ UNCHANGED <<orgs, entity, asof, floor, world, data, job, faults>>
  BY DEF DeleteOrphans, Is
<1>2. /\ Pending(j) /\ run[j] \in RunState /\ RunOK(j, run[j]) /\ Progress(j, run[j])
      /\ job[j] \in Job /\ job \in [Jobs -> Job] /\ doc \in IndexType
  BY <1>1, RunFacts, RunIsPending, JobType DEF QuietOK, InProgress
<1>3. PICK r \in RunState : r = run[j]
  BY <1>2
<1>4. PICK o \in Orgs, ent \in Entities, n \in 0..MaxChunks :
          /\ o = data[j].org /\ ent = r.entity /\ n = r.content.chunks /\ Home[ent] = o
          /\ n = r.next /\ n > 0
  BY <1>1, <1>2, <1>3, IndexConstants DEF RunOK, PieceOK, RunState, Content, Progress
<1> PICK c : c = NewChunk(r.content.version, n)
  OBVIOUS
<1>5. /\ \A e \in Entities \ {ent} : Shown(e)' = Shown(e)
      /\ \A i \in Index : Shown(ent)'[i] = IF i >= n THEN NoChunk ELSE Shown(ent)[i]
  <2>1. PICK d \in [Orgs -> [Entities -> [Index -> Chunk]]] : d = doc
    BY <1>2 DEF IndexType
  <2>2. PICK old \in [Index -> Chunk] : old = d[o][ent]
    BY <1>4, <2>1
  <2>3. PICK all : all = [i \in Index |-> IF Orphan(i, n) THEN NoChunk ELSE old[i]]
    OBVIOUS
  <2>4. \A i \in Index : all[i] = IF i >= n THEN NoChunk ELSE old[i]
    BY <2>3 DEF Orphan
  <2>5. doc' = [doc EXCEPT ![o] = [d[o] EXCEPT ![ent] = all]]
    BY <1>3, <1>4, <2>1, <2>2, <2>3 DEF DeleteOrphans
  <2>6. \A p \in Orgs, e \in Entities :
            doc'[p][e] = IF p = o /\ e = ent THEN all ELSE doc[p][e]
    BY <1>4, <2>1, <2>5
  <2>7. \A e \in Entities : Home[e] \in Orgs
    BY IndexConstants
  <2> QED BY <1>4, <2>1, <2>2, <2>4, <2>6, <2>7 DEF Shown
<1>6. Exists(ent) => Whole(ent)'
  <2> SUFFICES ASSUME Exists(ent)  PROVE Whole(ent)'
    OBVIOUS
  <2>1. /\ r.content.version >= asof[ent]
        /\ \A i \in Index : i < n => Shown(ent)[i] = c
    BY <1>1, <1>2, <1>3, <1>4 DEF Progress, Begun
  <2>2. \A i \in Index : i \in Nat
    BY IndexConstants DEF Index
  <2>3. \A i \in Index : Shown(ent)'[i] = IF i < n THEN c ELSE NoChunk
    BY <1>5, <2>1, <2>2
  <2>4. Shown(ent)'[0] = c /\ c.version = r.content.version /\ c.total = n
    BY <1>4, <2>3, ChunkTypes DEF NewChunk
  <2> QED BY <1>1, <2>1, <2>3, <2>4 DEF Whole
<1>7. \A e \in Entities : Owed(j, e)' => Whole(e)' \/ \E x \in r.rest : x.entity = e
  <2> SUFFICES ASSUME NEW e \in Entities, Owed(j, e), e # ent
               PROVE  Whole(e)' \/ \E x \in r.rest : x.entity = e
    BY <1>1, <1>6 DEF Owed, Covers, Exists
  <2>1. Whole(e) \/ \E x \in r.rest : x.entity = e
    BY <1>1, <1>2, <1>3, <1>4 DEF Progress, Accounted
  <2>2. Whole(e) => Whole(e)'
    BY <1>1, <1>5 DEF Whole
  <2> QED BY <2>1, <2>2
<1>8. /\ r.rest \in SUBSET [entity : Entities, content : Content]
      /\ \A x \in r.rest : x.content.version >= asof[x.entity]
      /\ NextOf(j, r.rest)
  BY <1>1, <1>2, <1>3 DEF RunState, Progress, DeleteOrphans
<1>9. PICK new \in RunState : run' = [run EXCEPT ![j] = new] /\ Progress(j, new)'
  BY <1>1, <1>7, <1>8, NextProgress
<1> QED BY <1>1, <1>2, <1>9, JobMoves

(* The end of a job: what it covers is whole, and is claimed from now on.  *)
LEMMA FinishQuiet ==
    ASSUME WInv, Quiet, QuietOK, NEW j \in Jobs, Finish(j)
    PROVE  QuietOK'
<1>1. /\ Complete(j) /\ Go(j, Off) /\ run[j].pc = "finish" /\ run[j].pc # "off"
      /\ UNCHANGED <<orgs, entity, doc, asof, world, data>>
      /\ \A e \in Entities :
             floor'[e] = IF Covers(j, e) /\ Exists(e) THEN asof[e] ELSE floor[e]
  BY DEF Finish, Is
<1>2. PICK q \in Job : Step(j, q) /\ q.state = "done" /\ State(j) = "active"
  BY <1>1, CompleteMoves
<1>3. Pending(j) /\ Progress(j, run[j])
  BY <1>2, RunIsPending DEF QuietOK, InProgress
<1>4. \A i \in Jobs : run'[i].pc = "off" /\ ~Pending(i)'
  <2>1. /\ \A i \in Jobs : job'[i] = IF i = j THEN q ELSE job[i]
        /\ \A i \in Jobs : run'[i] = IF i = j THEN Off ELSE run[i]
    BY <1>1, <1>2 DEF Step, Go, WInv, TypeOK, QueueTypeOK
  <2>2. Off.pc = "off"
    BY AtType DEF Off
  <2> QED BY <1>2, <1>3, <2>1, <2>2, OnlyRun DEF Pending, State
<1>5. OneJob' /\ NothingClaimed' /\ InProgress' /\ VersionsGrow'
  BY <1>1, <1>4 DEF QuietOK, OneJob, NothingClaimed, InProgress, Progress, VersionsGrow, Exists
<1>6. Kept'
  <2> SUFFICES ASSUME NEW e \in Entities, floor'[e] > 0
               PROVE  (/\ Shown(e)[0].version >= floor[e]
                       /\ \A i \in Index : Shown(e)[i] = IF i < Shown(e)[0].total
                                                         THEN Shown(e)[0] ELSE NoChunk)'
    BY DEF Kept
  <2>1. floor[e] = 0
    BY <1>3 DEF QuietOK, NothingClaimed
  <2>2. Covers(j, e) /\ Exists(e) /\ floor'[e] = asof[e]
    BY <1>1, <2>1
  <2>3. Whole(e)
    BY <1>1, <1>3, <2>2 DEF Progress, Owed
  <2> QED BY <1>1, <2>2, <2>3 DEF Whole, Shown
<1> QED BY <1>5, <1>6 DEF QuietOK

-----------------------------------------------------------------------------
(* A job is queued: no other is pending, and nothing is claimed any more.  *)
LEMMA AddQuiet ==
    ASSUME WInv, Quiet, QuietOK, NEW j \in Jobs, NEW new \in Data, NEW sync \in BOOLEAN,
           Queue(j, new, sync), new.kind \in {"index", "batch"}
    PROVE  QuietOK'
<1>1. /\ Add(j, sync) /\ data' = [data EXCEPT ![j] = new] /\ UNCHANGED <<orgs, entity, doc>>
      /\ IF sync THEN Go(j, First(new.kind)) ELSE UNCHANGED run
      /\ \A e \in Entities : asof'[e] = entity[e].version /\ floor'[e] = 0
  BY DEF Queue
<1>2. \A i \in Jobs : ~Pending(i) /\ run[i].pc = "off"
  <2>1. \A i \in Jobs : State(i) = "none" \/ Settled(i)
    BY DEF Queue, Free
  <2> QED BY <2>1 DEF Settled, Pending, WInv, RunsOK
<1>3. PICK q \in Job : Step(j, q)
  BY <1>1, AddMoves
<1>4. /\ \A i \in Jobs \ {j} : ~Pending(i)' /\ run'[i].pc = "off"
      /\ data'[j] = new /\ run'[j].pc \in {"off", "read", "list"}
  <2>1. /\ \A i \in Jobs \ {j} : job'[i] = job[i] /\ run'[i] = run[i]
        /\ data'[j] = new
    BY <1>1, <1>3 DEF Step, Go, WInv, TypeOK, QueueTypeOK
  <2>2. run'[j].pc \in {"off", "read", "list"}
    <3>1. First(new.kind).pc \in {"read", "list"}
      BY AtType DEF First
    <3> QED BY <1>1, <1>2, <3>1 DEF Go, WInv, TypeOK
  <2> QED BY <1>2, <2>1, <2>2 DEF Pending, State
<1>5. OneJob' /\ NothingClaimed' /\ InProgress'
  BY <1>1, <1>4 DEF OneJob, NothingClaimed, InProgress, Progress
<1>6. VersionsGrow' /\ Kept'
  <2>1. entity \in [Entities -> Content] /\ \A e \in Entities : entity[e].version \in Nat
    BY DEF WInv, TypeOK, Content
  <2> QED BY <1>1, <2>1 DEF QuietOK, VersionsGrow, Exists, Kept
<1> QED BY <1>5, <1>6 DEF QuietOK

LEMMA QueuedQuiet ==
    ASSUME WInv, Quiet, QuietOK, NEW j \in Jobs, QueueIndexing(j) \/ QueueOther(j)
    PROVE  QuietOK'
<1>1. orgs \subseteq Orgs
  BY DEF WInv, TypeOK
<1>2. ASSUME NEW kind \in {"index", "batch"}, NEW o \in Orgs,
             NEW e \in Entities \cup {Nobody}, NEW sync \in BOOLEAN,
             Queue(j, NewData(kind, o, e), sync)
      PROVE  QuietOK'
  <2> DEFINE new == NewData(kind, o, e)
  <2>1. new \in Data /\ new.kind = kind
    BY DEF NewData, Data, Kinds
  <2> HIDE DEF new
  <2> QED BY <1>2, <2>1, AddQuiet DEF new
<1>3. PICK o \in orgs, sync \in BOOLEAN :
          \/ \E e \in Entities : Queue(j, NewData("index", o, e), sync)
          \/ Queue(j, NewData("batch", o, Nobody), sync)
  BY DEF QueueIndexing, QueueOther
<1> QED BY <1>1, <1>2, <1>3

-----------------------------------------------------------------------------
(* What goes on around the jobs: entities grow older or go, organizations  *)
(* go with theirs, runs are lost.                                          *)
LEMMA AroundQuiet ==
    ASSUME WInv, WInv', QuietOK, UNCHANGED <<job, data, asof>>,
           \A i \in Jobs : run'[i] = run[i] \/ run'[i].pc = "off",
           \A e \in Entities : Exists(e)' =>
               /\ Exists(e) /\ entity'[e].version >= entity[e].version /\ Home[e] \in orgs'
               /\ Shown(e)' = Shown(e),
           \A e \in Entities : floor'[e] > 0 => floor'[e] = floor[e] /\ Shown(e)' = Shown(e),
           \A e \in Entities : floor[e] = 0 => floor'[e] = 0
    PROVE  QuietOK'
<1>1. OneJob' /\ NothingClaimed'
  BY DEF QuietOK, OneJob, NothingClaimed, Pending, State
<1>2. VersionsGrow'
  <2> SUFFICES ASSUME NEW e \in Entities, Exists(e)'
               PROVE  asof'[e] <= entity'[e].version /\ Home[e] \in orgs'
    BY DEF VersionsGrow
  <2>1. asof[e] <= entity[e].version /\ asof[e] \in Nat /\ entity[e].version \in Nat
    BY DEF QuietOK, VersionsGrow, WInv, TypeOK, Content
  <2>2. entity'[e].version \in Nat
    BY DEF WInv, TypeOK, Content
  <2> QED BY <2>1, <2>2
<1>3. InProgress'
  <2> SUFFICES ASSUME NEW j \in Jobs, run'[j] = run[j]  PROVE Progress(j, run[j])'
    BY DEF InProgress, Progress
  <2>1. Progress(j, run[j]) /\ RunOK(j, run[j])
    BY DEF QuietOK, InProgress, WInv, RunsOK
  <2>2. \A e \in Entities : Exists(e)' /\ Whole(e) => Whole(e)'
    BY DEF Whole
  <2>3. run[j].pc \in {"chunk", "orphans"} => Begun(run[j])' /\ Accounted(j, run[j])'
    <3> SUFFICES ASSUME run[j].pc \in {"chunk", "orphans"}
                 PROVE  Begun(run[j])' /\ Accounted(j, run[j])'
      OBVIOUS
    <3>1. run[j].entity \in Entities
      BY <2>1 DEF RunOK, PieceOK
    <3>2. Begun(run[j])'
      BY <2>1, <3>1 DEF Progress, Begun
    <3>3. Accounted(j, run[j])'
      BY <2>1, <2>2 DEF Progress, Accounted, Owed, Covers, Exists
    <3> QED BY <3>2, <3>3
  <2>4. run[j].pc = "finish" => \A e \in Entities : Owed(j, e)' => Whole(e)'
    BY <2>1, <2>2 DEF Progress, Owed, Covers, Exists
  <2> QED BY <2>1, <2>3, <2>4 DEF Progress
<1>4. Kept'
  BY DEF QuietOK, Kept
<1> QED BY <1>1, <1>2, <1>3, <1>4 DEF QuietOK

LEMMA OutsideQuiet ==
    ASSUME WInv, WInv', Quiet, QuietOK,
           \/ Crash
           \/ \E x \in Rows : MarkAsRead(x)
           \/ \E j \in Jobs : Age(j)
           \/ \E o \in Orgs : DeleteOrganization(o)
           \/ \E e \in Entities : Edit(e) /\ UNCHANGED noticeVars
           \/ UNCHANGED vars
    PROVE  QuietOK'
<1>1. /\ entity \in [Entities -> Content] /\ entity' \in [Entities -> Content]
      /\ floor \in [Entities -> 0..MaxVersion] /\ doc \in IndexType /\ orgs \subseteq Orgs
      /\ \A e \in Entities : entity[e].version \in Nat /\ entity'[e].version \in Nat
  BY DEF WInv, TypeOK, IndexType, Content
<1>2. /\ UNCHANGED <<job, data, asof>>
      /\ \A i \in Jobs : run'[i] = run[i] \/ run'[i].pc = "off"
  BY AtType DEF Crash, Off, MarkAsRead, Age, DeleteOrganization, Edit
<1>3. CASE UNCHANGED <<entity, doc, orgs, floor>>
  <2>1. \A e \in Entities : Exists(e)' => Exists(e) /\ Home[e] \in orgs' /\ Shown(e)' = Shown(e)
    BY <1>3 DEF Exists, Shown, QuietOK, VersionsGrow
  <2>2. \A e \in Entities : Shown(e)' = Shown(e)
    BY <1>3 DEF Shown
  <2> QED BY <1>1, <1>2, <1>3, <2>1, <2>2, AroundQuiet
<1>4. ASSUME NEW e \in Entities, Edit(e)  PROVE QuietOK'
  <2>1. UNCHANGED <<doc, orgs, floor>> /\ \A x \in Entities : Shown(x)' = Shown(x)
    BY <1>4 DEF Edit, Shown
  <2>2. \A x \in Entities : Exists(x)' =>
            Exists(x) /\ entity'[x].version >= entity[x].version /\ Home[x] \in orgs'
    <3> SUFFICES ASSUME NEW x \in Entities, Exists(x)'
                 PROVE  Exists(x) /\ entity'[x].version >= entity[x].version /\ Home[x] \in orgs'
      OBVIOUS
    <3>1. CASE entity'[x] = entity[x]
      BY <1>1, <2>1, <3>1 DEF Exists, QuietOK, VersionsGrow
    <3>2. CASE entity'[x] # entity[x]
      <4>1. PICK n \in 1..MaxChunks, v \in 1..MaxVersion :
                /\ v = entity[e].version + 1
                /\ entity' = [entity EXCEPT ![e] = NewContent(v, n)]
        BY <1>1, <1>4, <3>2, GoneType DEF Edit, Exists
      <4>2. x = e /\ entity'[x].version = entity[x].version + 1 /\ Exists(e)
        BY <1>1, <1>4, <3>2, <4>1 DEF NewContent, Edit
      <4> QED BY <1>1, <2>1, <4>2 DEF QuietOK, VersionsGrow
    <3> QED BY <3>1, <3>2
  <2> QED BY <1>1, <1>2, <2>1, <2>2, AroundQuiet
<1>5. ASSUME NEW o \in Orgs, DeleteOrganization(o)  PROVE QuietOK'
  <2>1. \A e \in Entities : Home[e] \in Orgs
    BY IndexConstants
  <2>2. \A e \in Entities : Home[e] # o => Shown(e)' = Shown(e)
    BY <1>1, <1>5, <2>1 DEF DeleteOrganization, Shown, IndexType
  <2>3. \A e \in Entities :
            /\ entity'[e] = IF Home[e] = o THEN Gone ELSE entity[e]
            /\ floor'[e] = IF Home[e] = o THEN 0 ELSE floor[e]
    BY <1>5 DEF DeleteOrganization
  <2>4. orgs' = orgs \ {o}
    BY <1>5 DEF DeleteOrganization
  <2>5. \A e \in Entities : Exists(e)' =>
            /\ Exists(e) /\ entity'[e].version >= entity[e].version /\ Home[e] \in orgs'
            /\ Shown(e)' = Shown(e)
    BY <1>1, <2>2, <2>3, <2>4, GoneType DEF Exists, QuietOK, VersionsGrow
  <2> QED BY <1>1, <1>2, <2>2, <2>3, <2>5, AroundQuiet
<1> QED BY <1>3, <1>4, <1>5 DEF Crash, MarkAsRead, Age

(* When jobs come one at a time, a job that ended well has left whole and  *)
(* current what it indexed, whatever failed or was edited meanwhile.       *)
THEOREM SequentialIndex == SafeSpec => []QuietIndex
<1> DEFINE I == Quiet => QuietOK
<1>1. Init => I
  <2> SUFFICES ASSUME Init, Quiet  PROVE QuietOK
    OBVIOUS
  <2>1. \A j \in Jobs : ~Pending(j) /\ run[j].pc = "off"
    BY AtType DEF Init, QueueInit, IndexInit, Pending, State, NewJob, Off
  <2>2. \A e \in Entities : asof[e] = 0 /\ floor[e] = 0 /\ Home[e] \in orgs
                            /\ entity[e].version \in Nat
    BY IndexConstants DEF Init, IndexInit, NewContent, Gone
  <2>3. OneJob /\ NothingClaimed /\ InProgress
    BY <2>1 DEF OneJob, NothingClaimed, InProgress, Progress
  <2>4. VersionsGrow /\ Kept
    BY <2>2 DEF VersionsGrow, Kept
  <2> QED BY <2>3, <2>4 DEF QuietOK
<1>2. WInv /\ WInv' /\ I /\ [Next]_vars => I'
  <2> SUFFICES ASSUME WInv, WInv', I, [Next]_vars, Quiet'  PROVE QuietOK'
    OBVIOUS
  <2> HIDE DEF I
  <2>1. Quiet
    <3>1. ASSUME NEW j \in Jobs,
                 QueueIndexing(j) \/ QueueOther(j) \/ Worker(j) \/ Throws(j) \/ Age(j)
          PROVE  UNCHANGED world
      BY <3>1 DEF QueueIndexing, QueueOther, Queue, Worker, Start, Handler, ReadEntity,
         ReadList, UpsertChunk, DeleteOrphans, CreateNotice, SendMail, FindStale, DeleteStale,
         Finish, Recover, GoBack, Throws, Age
    <3>2. CASE \/ Crash
               \/ \E x \in Rows : MarkAsRead(x)
               \/ \E o \in Orgs : DeleteOrganization(o)
               \/ \E e \in Entities : Edit(e) /\ UNCHANGED noticeVars
      <4> UNCHANGED world
        BY <3>2 DEF Crash, MarkAsRead, DeleteOrganization, Edit
      <4> QED BY DEF Quiet
    <3>3. CASE UNCHANGED vars
      BY <3>3 DEF Quiet
    <3> QED BY <3>1, <3>2, <3>3 DEF Next, Quiet
  <2>2. QuietOK
    BY <2>1 DEF I
  <2>3. ASSUME NEW j \in Jobs, CreateNotice(j) \/ SendMail(j) \/ FindStale(j) \/ DeleteStale(j)
        PROVE  FALSE
    BY <2>2, <2>3 DEF CreateNotice, SendMail, FindStale, DeleteStale, Is, QuietOK, InProgress,
       Progress
  <2>4. ASSUME NEW j \in Jobs, Worker(j) \/ Throws(j)  PROVE QuietOK'
    BY <2>1, <2>2, <2>3, <2>4, TurnsQuiet, ReadQuiet, UpsertQuiet, OrphansQuiet, FinishQuiet
       DEF Worker, Handler
  <2> QED BY <2>1, <2>2, <2>4, QueuedQuiet, OutsideQuiet DEF Next
<1>3. I => QuietIndex
  BY DEF QuietIndex, QuietOK, Kept, Shown
<1> QED BY <1>1, <1>2, <1>3, Invariance, PTL DEF SafeSpec
=============================================================================

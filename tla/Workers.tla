------------------------------- MODULE Workers -------------------------------
(***************************************************************************)
(* The worker process (src/jobs/workers): the handlers of the rag,         *)
(* notification, email and clean-up queues, and what people do with the    *)
(* notifications.  All runs are lost when the process dies; rows stay.     *)
(***************************************************************************)
EXTENDS RagIndex

CONSTANT BatchSize   \* rows a clean-up fetches at once

ASSUME CleanupBatch == BatchSize \in Nat \ {0}

VARIABLES
    note,   \* what run k of job j has written: a notification row, or a mail
    aged,   \* jobs whose rows are older than 30 days
    lost    \* history: runs that had their effect and did not complete

vars == <<indexVars, queueVars, data, run, note, aged, lost>>
noticeVars == <<note, aged, lost>>

Rows == Jobs \X (1..MaxRuns)
Row == {"none", "unread", "read", "gone", "sent"}

Init ==
    /\ QueueInit
    /\ IndexInit
    /\ note = [x \in Rows |-> "none"]
    /\ aged = {}
    /\ lost = [j \in Jobs |-> 0]

-----------------------------------------------------------------------------
(* What the handler of a job starts with.                                  *)
First(kind) ==
    CASE kind = "index" -> At("read")
      [] kind = "batch" -> At("list")
      [] kind = "notice" -> At("create")
      [] kind = "email" -> At("send")
      [] kind = "cleanup" -> At("find")

NextRow(j) == <<j, Runs(j)>>
Write(x, state) == note' = [note EXCEPT ![x] = state]

(* When it is quiet the next job comes after the last one is settled.      *)
Free == Quiet => \A i \in Jobs : State(i) = "none" \/ Settled(i)

(* What the job indexes, as far as it is due: the index of that is in flux *)
(* until the job is done.                                                  *)
Covers(j, e) ==
    \/ data[j].kind = "index" /\ data[j].entity = e /\ data[j].org = Home[e]
    \/ data[j].kind = "batch" /\ data[j].org = Home[e]

Queue(j, new, sync) ==
    /\ Free
    /\ Add(j, sync)
    /\ data' = [data EXCEPT ![j] = new]
    /\ IF sync THEN Go(j, First(new.kind)) ELSE UNCHANGED run
    /\ IF Quiet
       THEN /\ asof' = [e \in Entities |-> entity[e].version]
            /\ floor' = [e \in Entities |->
                  IF new.kind \in {"index", "batch"} THEN 0 ELSE floor[e]]
       ELSE UNCHANGED <<asof, floor>>
    /\ UNCHANGED <<orgs, entity, doc, world, faults, noticeVars>>

(* triggerEntityIndex, triggerBatchIndex: a job, or at once with sync=true *)
QueueIndexing(j) ==
    \E o \in orgs, sync \in BOOLEAN :
        \/ \E e \in Entities : Queue(j, NewData("index", o, e), sync)
        \/ Queue(j, NewData("batch", o, Nobody), sync)

(* queueNotification, addEmailJob and the scheduled clean-up.              *)
QueueOther(j) ==
    /\ ~Quiet
    /\ \/ \E o \in orgs : Queue(j, NewData("notice", o, Nobody), FALSE)
       \/ \E kind \in {"email", "cleanup"} : Queue(j, NewData(kind, Nobody, Nobody), FALSE)

Start(j) ==
    /\ Take(j)
    /\ Go(j, First(data[j].kind))
    /\ UNCHANGED <<indexVars, data, faults, noticeVars>>

-----------------------------------------------------------------------------
(* notificationRepository.create; when a foreign key fails (P2003) nobody  *)
(* is there to be told, and that is a success.                             *)
CreateNotice(j) ==
    /\ Is(j, "create")
    /\ IF data[j].org \in orgs THEN Write(NextRow(j), "unread") ELSE UNCHANGED note
    /\ Go(j, At("finish"))
    /\ UNCHANGED <<indexVars, queueVars, data, aged, lost>>

(* sendDirect                                                              *)
SendMail(j) ==
    /\ Is(j, "send")
    /\ Write(NextRow(j), "sent")
    /\ Go(j, At("finish"))
    /\ UNCHANGED <<indexVars, queueVars, data, aged, lost>>

BugStale(x) == x[1] \in aged /\ note[x] \in {"unread", "read"}

Stale(x) == x[1] \in aged /\ note[x] = "read"

(* cleanupStaleNotifications: up to BatchSize stale rows are found ...     *)
FindStale(j) ==
    LET stale == {x \in Rows : Stale(x)}
    IN  /\ Is(j, "find")
        /\ \E found \in SUBSET stale :
               /\ Cardinality(found) = IF Cardinality(stale) < BatchSize
                                       THEN Cardinality(stale) ELSE BatchSize
               /\ Go(j, IF found = {} THEN At("finish")
                        ELSE NewRun("delete", Nobody, Gone, 0, {}, found))
        /\ UNCHANGED <<indexVars, queueVars, data, noticeVars>>

(* ... and deleted, until a batch is not full.                             *)
DeleteStale(j) ==
    /\ Is(j, "delete")
    /\ note' = [x \in Rows |-> IF x \in run[j].found THEN "gone" ELSE note[x]]
    /\ Go(j, At(IF Cardinality(run[j].found) = BatchSize THEN "find" ELSE "finish"))
    /\ UNCHANGED <<indexVars, queueVars, data, aged, lost>>

-----------------------------------------------------------------------------
Wrote(j) == note[NextRow(j)] # "none"
CountLost(j) == lost' = [lost EXCEPT ![j] = IF Wrote(j) THEN @ + 1 ELSE @]

(* The handler has returned and the job is moved to completed.             *)
Finish(j) ==
    /\ Is(j, "finish")
    /\ Complete(j)
    /\ Go(j, Off)
    /\ floor' = IF Quiet
                THEN [e \in Entities |->
                         IF Covers(j, e) /\ Exists(e) THEN asof[e] ELSE floor[e]]
                ELSE floor
    /\ UNCHANGED <<orgs, entity, doc, asof, world, data, faults, noticeVars>>

BugThrows(j) ==
    /\ ~Is(j, "off")
    /\ Fault
    /\ Complete(j) /\ Go(j, Off)
    /\ CountLost(j)
    /\ UNCHANGED <<indexVars, data, note, aged>>

(* Any call of a run may fail, before or after it had its effect.          *)
Throws(j) ==
    /\ ~Is(j, "off")
    /\ Fault
    /\ Throw(j)
    /\ CountLost(j)
    /\ UNCHANGED <<indexVars, data, note, aged>>

(* The process is killed, or stops: close(true) waits for no run.          *)
Crash ==
    /\ Fault
    /\ \E j \in Jobs : ~Is(j, "off")
    /\ run' = [j \in Jobs |-> Off]
    /\ UNCHANGED <<indexVars, job, data, noticeVars>>

(* A stalled job goes back to its queue, or fails.                         *)
Recover(j) ==
    /\ Is(j, "off")
    /\ Stalled(j)
    /\ CountLost(j)
    /\ UNCHANGED <<indexVars, data, run, faults, note, aged>>

GoBack(j) ==
    /\ Retry(j)
    /\ UNCHANGED <<indexVars, data, run, faults, noticeVars>>

-----------------------------------------------------------------------------
(* markAsRead: of a row of the reader's own.                               *)
MarkAsRead(x) ==
    /\ note[x] = "unread"
    /\ Write(x, "read")
    /\ UNCHANGED <<indexVars, queueVars, data, run, aged, lost>>

(* 30 days pass.                                                           *)
Age(j) ==
    /\ j \notin aged
    /\ data[j].kind = "notice" /\ Settled(j)
    /\ aged' = aged \cup {j}
    /\ UNCHANGED <<indexVars, queueVars, data, run, note, lost>>

(* An organization is deleted, and with it what refers to it (Cascade).    *)
(* Bound: one is.                                                          *)
DeleteOrganization(o) ==
    /\ o \in orgs
    /\ orgs = Orgs
    /\ orgs' = orgs \ {o}
    /\ entity' = [e \in Entities |-> IF Home[e] = o THEN Gone ELSE entity[e]]
    /\ doc' = [doc EXCEPT ![o] = [e \in Entities |-> Empty]]
    /\ floor' = [e \in Entities |-> IF Home[e] = o THEN 0 ELSE floor[e]]
    /\ note' = [x \in Rows |-> IF data[x[1]].org = o /\ note[x] # "none"
                               THEN "gone" ELSE note[x]]
    /\ UNCHANGED <<asof, world, queueVars, data, run, aged, lost>>

-----------------------------------------------------------------------------
Handler(j) ==
    \/ ReadEntity(j) /\ UNCHANGED noticeVars
    \/ ReadList(j) /\ UNCHANGED noticeVars
    \/ UpsertChunk(j) /\ UNCHANGED noticeVars
    \/ DeleteOrphans(j) /\ UNCHANGED noticeVars
    \/ CreateNotice(j) \/ SendMail(j) \/ FindStale(j) \/ DeleteStale(j)
    \/ Finish(j)

Worker(j) == Start(j) \/ Handler(j) \/ Recover(j) \/ GoBack(j)

Next ==
    \/ \E j \in Jobs :
          \/ QueueIndexing(j) \/ QueueOther(j)
          \/ Worker(j) \/ Throws(j) \/ Age(j)
    \/ Crash
    \/ \E x \in Rows : MarkAsRead(x)
    \/ \E o \in Orgs : DeleteOrganization(o)
    \/ \E e \in Entities : Edit(e) /\ UNCHANGED noticeVars

(* Workers are restarted, take jobs, and go on with their runs.            *)
Fairness == \A j \in Jobs : WF_vars(Worker(j))

SafeSpec == Init /\ [][Next]_vars

Spec == SafeSpec /\ Fairness

-----------------------------------------------------------------------------
RunState ==
    [pc : {"off", "read", "list", "chunk", "orphans", "create", "send", "find", "delete",
           "finish"},
     entity : Entities \cup {Nobody}, content : Content, next : 0..MaxChunks,
     rest : SUBSET [entity : Entities, content : Content], found : SUBSET Rows]

(* Jobs, runs, rows and the index keep their types.                        *)
TypeOK ==
    /\ QueueTypeOK
    /\ orgs \subseteq Orgs
    /\ entity \in [Entities -> Content]
    /\ doc \in [Orgs -> [Entities -> [Index -> Chunk]]]
    /\ data \in [Jobs -> Data]
    /\ run \in [Jobs -> RunState]
    /\ asof \in [Entities -> 0..MaxVersion] /\ floor \in [Entities -> 0..MaxVersion]
    /\ world \in {"quiet", "busy"}
    /\ note \in [Rows -> Row]
    /\ aged \subseteq Jobs
    /\ lost \in [Jobs -> 0..MaxRuns]

Written(j) == Cardinality({k \in 1..MaxRuns : note[<<j, k>>] # "none"})

(* A notification or a mail whose job is done was delivered at least once, *)
(* unless the organization it is about is gone; and it was delivered once  *)
(* only, unless a run had its effect and its answer or its process was     *)
(* lost: retries alone never duplicate.                                    *)
Delivered ==
    \A j \in Jobs : data[j].kind \in {"notice", "email"} =>
        /\ Written(j) <= lost[j] + 1
        /\ State(j) = "done" => \/ Written(j) > lost[j]
                                \/ data[j].kind = "notice" /\ data[j].org \notin orgs

(* A notification nobody has read never disappears, except with its        *)
(* organization: clean-ups that overlap people reading and jobs that are   *)
(* tried again delete nothing else.                                        *)
UnreadStays ==
    [][\A x \in Rows : (note[x] = "unread" /\ note'[x] = "gone") =>
          data[x[1]].org \notin orgs']_<<note, orgs>>

(* The workers deliver what Delivery promises.                             *)
KeepsPromise == Promise!Spec
=============================================================================

------------------------------- MODULE RagIndex -------------------------------
(***************************************************************************)
(* The retrieval index: src/modules/rag and its worker.  Entities are cut  *)
(* into chunks; a run of a handler reads the entity, upserts one chunk per *)
(* await and deletes the chunks beyond the last one.  Two source types are *)
(* told apart: activity logs, which are never edited and of which a batch  *)
(* reads the newest only, and the others (projects, tasks, comments).      *)
(* Nothing in the program queues an index job when an entity changes, or a *)
(* delete-entity job when it goes: people trigger indexing by hand.        *)
(***************************************************************************)
EXTENDS JobQueue, FiniteSets

CONSTANTS
    Orgs,
    Entities,
    Logs,         \* those that are activity logs
    Recent,       \* logs a batch reads at most
    Home,         \* the organization of each entity
    MaxChunks,    \* bound: chunks of an entity
    MaxVersion,   \* bound: edits of an entity
    Nobody

ASSUME IndexConstants ==
    /\ Logs \subseteq Entities
    /\ Recent \in Nat
    /\ Home \in [Entities -> Orgs]
    /\ MaxChunks \in Nat \ {0}
    /\ MaxVersion \in Nat \ {0}
    /\ Nobody \notin Orgs \cup Entities

VARIABLES
    orgs,     \* organizations there are
    entity,   \* each entity's content: its version and number of chunks
    doc,      \* rag_knowledge_documents, by organization, entity and index
    data,     \* what each job is to do
    run,      \* how far the handler of each job is, in the process
    asof,     \* history: versions the last job is to index at least; 0: none
    floor,    \* history: the version the index must show at least; 0: none
    world     \* environment: "quiet": one job at a time, or "busy"

indexVars == <<orgs, entity, doc, asof, floor, world>>

Quiet == world = "quiet"

Content == [version : 0..MaxVersion, chunks : 0..MaxChunks]
NewContent(version, chunks) == [version |-> version, chunks |-> chunks]
Gone == NewContent(0, 0)
Exists(e) == entity[e].version > 0

Index == 0..(MaxChunks - 1)
Chunk == [version : 0..MaxVersion, total : 0..MaxChunks]
NewChunk(version, total) == [version |-> version, total |-> total]
NoChunk == NewChunk(0, 0)
Empty == [i \in Index |-> NoChunk]

Kinds == {"none", "index", "batch", "notice", "email", "cleanup"}
NewData(kind, o, e) == [kind |-> kind, org |-> o, entity |-> e]
Data == [kind : Kinds, org : Orgs \cup {Nobody}, entity : Entities \cup {Nobody}]

(* rest: what a batch has still to index, as it read it.  found: rows a    *)
(* clean-up is to delete.                                                  *)
NewRun(pc, e, content, next, rest, found) ==
    [pc |-> pc, entity |-> e, content |-> content, next |-> next, rest |-> rest,
     found |-> found]
At(pc) == NewRun(pc, Nobody, Gone, 0, {}, {})
Off == At("off")

IndexInit ==
    /\ orgs = Orgs
    /\ \E n \in 1..MaxChunks, there \in SUBSET Logs :
           entity = [e \in Entities |-> IF e \in Logs \ there THEN Gone ELSE NewContent(1, n)]
    /\ doc = [o \in Orgs |-> [e \in Entities |-> Empty]]
    /\ data = [j \in Jobs |-> NewData("none", Nobody, Nobody)]
    /\ run = [j \in Jobs |-> Off]
    /\ asof = [e \in Entities |-> 0]
    /\ floor = [e \in Entities |-> 0]
    /\ world \in {"quiet", "busy"}

Is(j, pc) == run[j].pc = pc
Go(j, new) == run' = [run EXCEPT ![j] = new]
Throw(j) == Fail(j) /\ Go(j, Off)

-----------------------------------------------------------------------------
(* Who edits or deletes an entity does not tell the index.  Versions are   *)
(* counted when it is quiet: otherwise only the length matters.            *)
Edit(e) ==
    /\ Exists(e)
    /\ e \notin Logs
    /\ \/ \E n \in 1..MaxChunks, v \in 1..MaxVersion :
             /\ v = entity[e].version + (IF Quiet THEN 1 ELSE 0)
             /\ entity' = [entity EXCEPT ![e] = NewContent(v, n)]
       \/ entity' = [entity EXCEPT ![e] = Gone]
    /\ UNCHANGED <<orgs, doc, asof, floor, world, data, run, queueVars>>

-----------------------------------------------------------------------------
BugReadable(e, o) == Exists(e)

(* findFirst with the organization of the requester.                       *)
Readable(e, o) == Exists(e) /\ Home[e] = o

(* indexProject, indexTask, indexComment, indexActivityLog: NotFound is an *)
(* error like any other, to be retried.                                    *)
ReadEntity(j) ==
    LET e == data[j].entity
    IN  /\ Is(j, "read")
        /\ IF Readable(e, data[j].org)
           THEN Go(j, NewRun("chunk", e, entity[e], 0, {}, {})) /\ UNCHANGED job
           ELSE Throw(j)
        /\ UNCHANGED <<indexVars, data, faults>>

(* The next entity of those a batch read, or the end.                      *)
NextOf(j, rest) ==
    IF rest = {} THEN Go(j, At("finish"))
    ELSE \E x \in rest :
             Go(j, NewRun("chunk", x.entity, x.content, 0, rest \ {x}, {}))

(* When it is quiet: of the logs, a batch is to index those it has read.   *)
Due(read) ==
    IF Quiet
    THEN [e \in Entities |-> IF e \in read THEN entity[e].version
                             ELSE IF e \in Logs THEN 0 ELSE asof[e]]
    ELSE asof

(* indexOrganizationBatch: the organization, then the lists, as one read   *)
(* (the organization is gone: NotFound, or empty lists; both end it).  The *)
(* organization has more logs than Logs, and new ones all the time: which  *)
(* of Logs are among the newest is left open, and a run that is tried      *)
(* again may read others.                                                  *)
Read(o, newest) == {x \in Entities \ Logs : Readable(x, o)} \cup newest

ReadList(j) ==
    LET o == data[j].org
    IN  /\ Is(j, "list")
        /\ \/ /\ o \in orgs
              /\ \E newest \in SUBSET {x \in Logs : Readable(x, o)} :
                    /\ Cardinality(newest) <= Recent
                    /\ NextOf(j, {[entity |-> e, content |-> entity[e]] : e \in Read(o, newest)})
                    /\ asof' = Due(newest)
              /\ UNCHANGED job
           \/ o \notin orgs /\ Throw(j) /\ UNCHANGED asof
        /\ UNCHANGED <<orgs, entity, doc, floor, world, data, faults>>

IsLast(next, total) == next + 1 = total

(* upsertChunk: a foreign key wants the organization.                      *)
UpsertChunk(j) ==
    LET r == run[j]
        o == data[j].org
    IN  /\ Is(j, "chunk")
        /\ IF o \in orgs
           THEN /\ doc' = [doc EXCEPT ![o][r.entity][r.next] =
                              NewChunk(r.content.version, r.content.chunks)]
                /\ Go(j, NewRun(IF IsLast(r.next, r.content.chunks) THEN "orphans" ELSE "chunk",
                                r.entity, r.content, r.next + 1, r.rest, {}))
                /\ UNCHANGED job
           ELSE Throw(j) /\ UNCHANGED doc
        /\ UNCHANGED <<orgs, entity, asof, floor, world, data, faults>>

BugOrphan(i, total) == i > total
BugOrphanAll(i, total) == i + 1 >= total

Orphan(i, total) == i >= total

(* deleteOrphanChunks                                                      *)
DeleteOrphans(j) ==
    LET r == run[j]
    IN  /\ Is(j, "orphans")
        /\ doc' = [doc EXCEPT ![data[j].org][r.entity] =
                      [i \in Index |-> IF Orphan(i, r.content.chunks) THEN NoChunk ELSE @[i]]]
        /\ NextOf(j, r.rest)
        /\ UNCHANGED <<orgs, entity, asof, floor, world, data, job, faults>>

-----------------------------------------------------------------------------
(* searchVectors, on which retrieve and answerQuery rest: the rows of the  *)
(* organization; which of them are similar is left open.                   *)
SearchVectors(o) ==
    {x \in Entities \X Index : doc[o][x[1]][x[2]] # NoChunk}

(* Retrieval for one organization never draws on an entity of another,     *)
(* although the id to index is whatever the request names.                 *)
Isolation == \A o \in Orgs : \A x \in SearchVectors(o) : Home[x[1]] = o

(* Reindexing never hides an entity: once it was found in the index it     *)
(* stays there, whatever runs, fails and overlaps, while its organization  *)
(* lives.                                                                  *)
StaysFindable ==
    [][\A o \in orgs', e \in Entities :
          doc[o][e][0] # NoChunk => doc'[o][e][0] # NoChunk]_<<doc, orgs>>

(* When jobs come one at a time, a job that ended well has left the index  *)
(* of what it indexed in step: the chunks of one version, all of them and  *)
(* no others, and of a version no older than the one there was when the    *)
(* job was queued; whatever runs of it crashed or threw half way, and      *)
(* whatever was edited meanwhile.  Of activity logs that holds only of     *)
(* those which the last run of a batch read (rag.service.ts:264): one that *)
(* an earlier run left half written need not be among them.                *)
QuietIndex ==
    Quiet => \A e \in Entities :
        LET shown == doc[Home[e]][e]
        IN  floor[e] > 0 =>
                /\ shown[0].version >= floor[e]
                /\ \A i \in Index :
                       shown[i] = IF i < shown[0].total THEN shown[0] ELSE NoChunk
=============================================================================

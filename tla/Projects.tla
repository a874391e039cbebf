------------------------------ MODULE Projects ------------------------------
(***************************************************************************)
(* The projects of one organization and the Redis read cache in front of   *)
(* them: src/modules/projects/project.service.ts, src/utils/cache.ts.      *)
(*                                                                         *)
(* A read goes through getOrSet: look up the key, on a miss read the       *)
(* database, store what was read with a time to live.  A write changes the *)
(* database and then deletes the keys it makes stale.  All of these are    *)
(* separate awaits.                                                        *)
(*                                                                         *)
(* Name, description and status are one number, content, that every update *)
(* increases; tasks stands for _count.tasks in the same way.  What the     *)
(* query of a list selects is left out: every list holds all projects.     *)
(* The rows logActivity writes are those of module AuditChain.             *)
(*                                                                         *)
(* Definitions named Bug... are plausible mistakes in the definition that  *)
(* follows them; nothing uses them.                                        *)
(***************************************************************************)
EXTENDS Naturals, FiniteSets

CONSTANTS
    Ids,         \* ids that projects can get; also their cache keys
    Queries,     \* list queries; also their cache keys
    Names,       \* project keys ("PRJ", "PRJ2", ...)
    Requests,    \* handlers that can run at the same time
    MaxContent,  \* bound: updates of a project
    MaxTasks,    \* bound: changes of a project's number of tasks
    Faults,      \* whether Redis and the process may fail
    None         \* an absent row, cache entry or input

ASSUME KeysAssumption == Ids \cap Queries = {} /\ None \notin Ids \cup Queries \cup Names
ASSUME BoundsAssumption == MaxContent \in Nat /\ MaxTasks \in Nat /\ Faults \in BOOLEAN

VARIABLES
    db,      \* the projects table
    cache,   \* Redis: what is stored under each cache key
    unused,  \* ids that were never given to a project
    req,     \* what each handler is doing
    calm     \* environment: handlers run one at a time and nothing fails

vars == <<db, cache, unused, req, calm>>

Keys == Ids \cup Queries

Project == [key : Names, content : 0..MaxContent, tasks : 0..MaxTasks]

ASSUME NullAssumption == None \notin Project

Live == {p \in Ids : db[p] # None}

(* What a read of the database returns for a cache key.                    *)
Response(k) == IF k \in Ids THEN db[k] ELSE [p \in Live |-> db[p]]

Idle == [pc |-> "idle", id |-> None, name |-> None, value |-> None, stale |-> {}]
At(pc, id, name) == [Idle EXCEPT !.pc = pc, !.id = id, !.name = name]
Invalidating(keys) == [Idle EXCEPT !.pc = "invalidate", !.stale = keys]

Init ==
    /\ db = [p \in Ids |-> None]
    /\ cache = [k \in Keys |-> None]
    /\ unused = Ids
    /\ req = [r \in Requests |-> Idle]
    /\ calm \in BOOLEAN

(* A handler can start; something can fail.                                *)
Free(r) == req[r].pc = "idle" /\ (calm => \A q \in Requests : req[q].pc = "idle")
Faulty == Faults /\ ~calm

-----------------------------------------------------------------------------
(* getOrSet, called by getProjectById and getProjects.                     *)

Miss(r, k) ==
    /\ Free(r)
    /\ cache[k] = None \/ Faulty
    /\ req' = [req EXCEPT ![r] = At("fetch", k, None)]
    /\ UNCHANGED <<db, cache, unused>>

(* The fetcher; a project that is not there is an error and is not stored. *)
Fetch(r) ==
    /\ req[r].pc = "fetch"
    /\ req' = [req EXCEPT ![r] =
                  IF Response(@.id) = None THEN Idle
                  ELSE [@ EXCEPT !.pc = "set", !.value = Response(req[r].id)]]
    /\ UNCHANGED <<db, cache, unused>>

Set(r) ==
    /\ req[r].pc = "set"
    /\ cache' = [cache EXCEPT ![req[r].id] = req[r].value]
    /\ req' = [req EXCEPT ![r] = Idle]
    /\ UNCHANGED <<db, unused>>

BugExpire(k) ==
    /\ k \in Queries
    /\ cache[k] # None
    /\ cache' = [cache EXCEPT ![k] = None]
    /\ UNCHANGED <<db, unused, req>>

(* The time to live of setex runs out.                                     *)
Expire(k) ==
    /\ cache[k] # None
    /\ cache' = [cache EXCEPT ![k] = None]
    /\ UNCHANGED <<db, unused, req>>

-----------------------------------------------------------------------------
(* The writes.                                                             *)

Taken(name, p) == \E q \in Live \ {p} : db[q].key = name

(* createProject up to the insert: generateUniqueKey accepts the key of    *)
(* the body, or finds the first free one, by reading.                      *)
StartCreate(r, name) ==
    /\ Free(r)
    /\ ~Taken(name, None)
    /\ req' = [req EXCEPT ![r] = At("create", None, name)]
    /\ UNCHANGED <<db, cache, unused>>

(* @@unique([organizationId, key])                                         *)
Insertable(name, p) == ~Taken(name, p)

createProject(r, p) ==
    /\ req[r].pc = "create"
    /\ p \in unused
    /\ Insertable(req[r].name, p)
    /\ db' = [db EXCEPT ![p] = [key |-> req[r].name, content |-> 0, tasks |-> 0]]
    /\ unused' = unused \ {p}
    /\ req' = [req EXCEPT ![r] = Invalidating(Queries)]
    /\ UNCHANGED cache

(* updateProject up to the update; a body without a key has name None.     *)
StartUpdate(r, p, name) ==
    /\ Free(r)
    /\ p \in Live
    /\ ~Taken(name, p)
    /\ req' = [req EXCEPT ![r] = At("update", p, name)]
    /\ UNCHANGED <<db, cache, unused>>

BugStaleKeys(p) == {p}

(* The keys updateProject and deleteProject delete.                        *)
StaleKeys(p) == {p} \cup Queries

NewKey(r) == IF req[r].name = None THEN db[req[r].id].key ELSE req[r].name

updateProject(r) ==
    LET p == req[r].id IN
    /\ req[r].pc = "update"
    /\ p \in Live
    /\ Insertable(req[r].name, p)
    /\ db[p].content < MaxContent
    /\ db' = [db EXCEPT ![p].content = @ + 1, ![p].key = NewKey(r)]
    /\ req' = [req EXCEPT ![r] = Invalidating(StaleKeys(p))]
    /\ UNCHANGED <<cache, unused>>

deleteProject(r, p) ==
    /\ Free(r)
    /\ p \in Live
    /\ db' = [db EXCEPT ![p] = None]
    /\ req' = [req EXCEPT ![r] = Invalidating(StaleKeys(p))]
    /\ UNCHANGED <<cache, unused>>

(* cache.del and the scan and del of cache.delByPattern, key by key; an    *)
(* error of Redis is logged and the key stays.                             *)
Invalidate(r, k) ==
    /\ req[r].pc = "invalidate"
    /\ k \in req[r].stale
    /\ \/ cache' = [cache EXCEPT ![k] = None]
       \/ Faulty /\ UNCHANGED cache
    /\ req' = [req EXCEPT ![r] =
                  IF @.stale = {k} THEN Idle ELSE Invalidating(@.stale \ {k})]
    /\ UNCHANGED <<db, unused>>

(* The write hits the unique constraint or a project that is gone.         *)
Reject(r) ==
    /\ \/ req[r].pc = "create" /\ ~Insertable(req[r].name, None)
       \/ req[r].pc = "update" /\ ~(req[r].id \in Live /\ Insertable(req[r].name, req[r].id))
    /\ req' = [req EXCEPT ![r] = Idle]
    /\ UNCHANGED <<db, cache, unused>>

(* The process dies, or the database or Redis fails a read or a write.     *)
Fail(r) ==
    /\ Faulty
    /\ req[r].pc # "idle"
    /\ req' = [req EXCEPT ![r] = Idle]
    /\ UNCHANGED <<db, cache, unused>>

(* task.service.ts: createTask and deleteTask change _count.tasks.         *)
ChangeTasks(p) ==
    /\ p \in Live
    /\ db[p].tasks < MaxTasks
    /\ db' = [db EXCEPT ![p].tasks = @ + 1]
    /\ UNCHANGED <<cache, unused, req>>

(* What a handler does on its own once it has started.                     *)
Step(r) ==
    \/ Fetch(r) \/ Set(r) \/ updateProject(r) \/ Reject(r)
    \/ \E p \in Ids : createProject(r, p)
    \/ \E k \in Keys : Invalidate(r, k)

Next ==
    /\ \/ \E r \in Requests, k \in Keys : Miss(r, k)
       \/ \E r \in Requests, n \in Names : StartCreate(r, n)
       \/ \E r \in Requests, p \in Ids, n \in Names \cup {None} : StartUpdate(r, p, n)
       \/ \E r \in Requests, p \in Ids : deleteProject(r, p)
       \/ \E r \in Requests : Step(r) \/ Fail(r)
       \/ \E k \in Keys : Expire(k)
       \/ \E p \in Ids : ChangeTasks(p)
    /\ UNCHANGED calm

Spec == Init /\ [][Next]_vars

(* Handlers run to their end and entries expire.                           *)
Fairness ==
    /\ \A r \in Requests : WF_vars((Step(r) \/ Fail(r)) /\ UNCHANGED calm)
    /\ \A k \in Keys : WF_vars(Expire(k) /\ UNCHANGED calm)

-----------------------------------------------------------------------------
(* Properties.                                                             *)

Request ==
    [pc : {"idle", "fetch", "set", "create", "update", "invalidate"},
     id : Keys \cup {None}, name : Names \cup {None}, stale : SUBSET Keys]

(* What can be stored under a cache key.                                   *)
Stored(k) == IF k \in Ids THEN Project ELSE UNION {[S -> Project] : S \in SUBSET Ids}

(* The types of the table, of the cache and of the handlers; a handler     *)
(* stores under a key only what belongs there.                             *)
TypeOK ==
    /\ db \in [Ids -> Project \cup {None}]
    /\ \A k \in Keys : cache[k] = None \/ cache[k] \in Stored(k)
    /\ unused \subseteq Ids \ Live
    /\ \A r \in Requests :
           /\ [pc |-> req[r].pc, id |-> req[r].id, name |-> req[r].name,
               stale |-> req[r].stale] \in Request
           /\ IF req[r].pc = "set" THEN req[r].value \in Stored(req[r].id)
              ELSE req[r].value = None

(* "automatic invalidation" (UNDERSTANDING.md:12; "cache miss, hit, and    *)
(* invalidation for project queries", tests/integration/cache.test.ts:158),*)
(* for handlers that run one at a time while nothing fails: an entry that  *)
(* no handler is about to delete is what the database says, up to          *)
(* _count.tasks.  Creating, updating and deleting a project each delete    *)
(* every key they made stale before the next read can find it.  (The       *)
(* deletion of the organization deletes none; it is not part of this.)     *)
SameProject(a, b) == a.key = b.key /\ a.content = b.content
CalmCacheIsFresh ==
    calm => \A k \in Keys :
        cache[k] # None /\ (\A r \in Requests : k \notin req[r].stale) =>
            IF k \in Ids THEN k \in Live /\ SameProject(cache[k], db[k])
            ELSE /\ DOMAIN cache[k] = Live
                 /\ \A p \in Live : SameProject(cache[k][p], db[p])

(* What is stored is what the database says.                               *)
ProjectsAgree == \A k \in Keys : cache[k] \in {None, Response(k)}
=============================================================================

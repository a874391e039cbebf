------------------------------- MODULE Tasks --------------------------------
(***************************************************************************)
(* The tasks of one project: their status, their assignees (task_assignees *)
(* rows), their primary assignee (tasks.assigneeId) and the assignment     *)
(* e-mails: src/modules/tasks/task.service.ts, task.repository.ts.         *)
(*                                                                         *)
(* updateTask reads the task, decides on what it read, and only then opens *)
(* a transaction that deletes the assignee rows it sees and inserts new    *)
(* ones.  The isolation level is PostgreSQL's default, READ COMMITTED: the *)
(* DELETE removes the rows committed when it started, an INSERT meets the  *)
(* rows committed when it runs, and the whole takes effect at the commit.  *)
(* Row locks only order the transactions that meet on a row; every order   *)
(* they leave open is a behaviour here.                                    *)
(*                                                                         *)
(* Title, description, priority, team, due date and position are payload.  *)
(* The rows logActivity writes are those of module AuditChain.             *)
(*                                                                         *)
(* Definitions named Bug... are plausible mistakes in the definition that  *)
(* follows them; nothing uses them.                                        *)
(***************************************************************************)
EXTENDS Naturals, FiniteSets

CONSTANTS
    Users,     \* the members of the organization
    Tasks,     \* ids that tasks can get
    Requests,  \* updateTask calls in flight at the same time
    Asked,     \* bound: the statuses that bodies ask for
    MaxId,     \* bound: writes of assignee rows
    None       \* SQL's NULL, and an input field that is left out

ASSUME NoneAssumption == None \notin Users
ASSUME BoundAssumption == MaxId \in Nat

VARIABLES
    tasks,     \* the task rows, each with its assignee rows
    nextId,    \* the id that the next assignee rows get
    emails,    \* how many assignment e-mails each user was sent for a task
    assigned,  \* history: how often a user became an assignee of a task
    req,       \* what each updateTask call is doing
    solo       \* environment: whether updateTask calls come one at a time

vars == <<tasks, nextId, emails, assigned, req, solo>>

Statuses == {"TODO", "IN_PROGRESS", "IN_REVIEW", "DONE", "CANCELLED"}

ASSUME AskedAssumption == Asked \subseteq Statuses

VALID_STATUS_TRANSITIONS == [s \in Statuses |->
    IF s \in {"DONE", "CANCELLED"} THEN {s, "TODO", "IN_PROGRESS"} ELSE Statuses]

AssigneeRow == [user : Users, id : 0..MaxId]

(* A list of assignees: who is on it, and who is first.                    *)
Lists == {l \in [users : SUBSET Users, first : Users \cup {None}] :
              IF l.users = {} THEN l.first = None ELSE l.first \in l.users}

Task == [state : {"unused", "live", "deleted"}, status : Statuses,
         rows : SUBSET AssigneeRow, primary : Users \cup {None}]

UsersOf(rows) == {row.user : row \in rows}
RowsFor(users) == [user : users, id : {nextId}]

Idle == [pc |-> "idle", task |-> None, status |-> None, list |-> None,
         previous |-> {}, seen |-> {}]

Init ==
    /\ tasks = [t \in Tasks |-> [state |-> "unused", status |-> "TODO",
                                 rows |-> {}, primary |-> None]]
    /\ nextId = 0
    /\ emails = [t \in Tasks |-> [u \in Users |-> 0]]
    /\ assigned = [t \in Tasks |-> [u \in Users |-> 0]]
    /\ req = [r \in Requests |-> Idle]
    /\ solo \in BOOLEAN

Live(t) == tasks[t].state = "live"

Count(f, t, users) ==
    [f EXCEPT ![t] = [u \in Users |-> IF u \in users THEN f[t][u] + 1 ELSE f[t][u]]]

-----------------------------------------------------------------------------
(* createTask and deleteTask: one statement each; the nested create of the *)
(* assignee rows and the cascade to them are part of it.  An await of the  *)
(* loop that sends the e-mails may throw: some of them are sent.           *)

createTask(t, status, list) ==
    /\ tasks[t].state = "unused"
    /\ nextId < MaxId
    /\ tasks' = [tasks EXCEPT ![t] =
                    [state |-> "live", status |-> status,
                     rows |-> RowsFor(list.users), primary |-> list.first]]
    /\ nextId' = nextId + 1
    /\ \E sent \in SUBSET list.users : emails' = Count(emails, t, sent)
    /\ assigned' = Count(assigned, t, list.users)
    /\ UNCHANGED req

deleteTask(t) ==
    /\ Live(t)
    /\ tasks' = [tasks EXCEPT ![t] = [@ EXCEPT !.state = "deleted", !.rows = {}]]
    /\ UNCHANGED <<nextId, emails, assigned, req>>

-----------------------------------------------------------------------------
(* updateTask.  A status or a list that the body leaves out is None.       *)

BugAllowed(from, to) == to \in Statuses

Allowed(from, to) == to \in VALID_STATUS_TRANSITIONS[from]

BugNewlyAdded(list, previous) == list.users

NewlyAdded(list, previous) == list.users \ previous

Previous(t) == UsersOf(tasks[t].rows)

(* Read the task and decide; an answer with an error changes nothing and   *)
(* is not a step.                                                          *)
FindTask(r, t, status, list) ==
    /\ req[r].pc = "idle"
    /\ solo => \A q \in Requests : req[q].pc = "idle"
    /\ Live(t)
    /\ status = None \/ Allowed(tasks[t].status, status)
    /\ req' = [req EXCEPT ![r] =
                  [pc |-> IF list = None THEN "write" ELSE "delete",
                   task |-> t, status |-> status, list |-> list,
                   previous |-> Previous(t), seen |-> {}]]
    /\ UNCHANGED <<tasks, nextId, emails, assigned>>

(* The transaction's deleteMany: the rows it sees.                         *)
DeleteAssignees(r) ==
    /\ req[r].pc = "delete"
    /\ req' = [req EXCEPT ![r] =
                  [pc |-> "write", task |-> @.task, status |-> @.status, list |-> @.list,
                   previous |-> @.previous, seen |-> tasks[@.task].rows]]
    /\ UNCHANGED <<tasks, nextId, emails, assigned>>

Remaining(r) == tasks[req[r].task].rows \ req[r].seen

NewStatus(r) ==
    IF req[r].status = None THEN tasks[req[r].task].status ELSE req[r].status

BugNewPrimary(r) ==
    IF tasks[req[r].task].primary = None THEN req[r].list.first
    ELSE tasks[req[r].task].primary

NewPrimary(r) == req[r].list.first

(* createMany, task.update and the commit, with assignees in the body.     *)
WriteAssignees(r) ==
    /\ req[r].pc = "write"
    /\ req[r].list # None
    /\ Live(req[r].task)
    /\ UsersOf(Remaining(r)) \cap req[r].list.users = {}
    /\ nextId < MaxId
    /\ tasks' = [tasks EXCEPT ![req[r].task] =
                    [state |-> "live", status |-> NewStatus(r),
                     rows |-> Remaining(r) \cup RowsFor(req[r].list.users),
                     primary |-> NewPrimary(r)]]
    /\ nextId' = nextId + 1
    /\ assigned' = Count(assigned, req[r].task,
                         req[r].list.users \ UsersOf(tasks[req[r].task].rows))
    /\ req' = [req EXCEPT ![r].pc = "notify"]
    /\ UNCHANGED emails

(* task.update and the commit, when the body has no assignees.             *)
WriteStatus(r) ==
    /\ req[r].pc = "write"
    /\ req[r].list = None
    /\ Live(req[r].task)
    /\ tasks' = [tasks EXCEPT ![req[r].task] = [@ EXCEPT !.status = NewStatus(r)]]
    /\ req' = [req EXCEPT ![r].pc = "notify"]
    /\ UNCHANGED <<nextId, emails, assigned>>

(* The INSERT meets a row for one of its users that the DELETE did not     *)
(* see: unique constraint, the transaction rolls back.                     *)
DuplicateKey(r) ==
    /\ req[r].pc = "write"
    /\ req[r].list # None
    /\ UsersOf(Remaining(r)) \cap req[r].list.users # {}
    /\ req' = [req EXCEPT ![r].pc = "P2002"]
    /\ UNCHANGED <<tasks, nextId, emails, assigned>>

Added(r) ==
    IF req[r].list = None THEN {} ELSE NewlyAdded(req[r].list, req[r].previous)

(* The loop over newlyAddedUserIds, up to the first await that throws.     *)
Notify(r) ==
    /\ req[r].pc = "notify"
    /\ \E sent \in SUBSET Added(r) : emails' = Count(emails, req[r].task, sent)
    /\ req' = [req EXCEPT ![r] = Idle]
    /\ UNCHANGED <<tasks, nextId, assigned>>

(* An await before the commit throws (connection, deadlock victim, task    *)
(* gone) or the duplicate key is answered: nothing was written.            *)
Fail(r) ==
    /\ req[r].pc \in {"delete", "write", "P2002"}
    /\ req' = [req EXCEPT ![r] = Idle]
    /\ UNCHANGED <<tasks, nextId, emails, assigned>>

Next ==
    /\ \/ \E t \in Tasks : deleteTask(t)
       \/ \E t \in Tasks, s \in Asked, l \in Lists : createTask(t, s, l)
       \/ \E r \in Requests, t \in Tasks, s \in Asked \cup {None}, l \in Lists \cup {None} :
              FindTask(r, t, s, l)
       \/ \E r \in Requests :
              DeleteAssignees(r) \/ WriteAssignees(r) \/ WriteStatus(r)
                  \/ DuplicateKey(r) \/ Notify(r) \/ Fail(r)
    /\ UNCHANGED solo

Spec == Init /\ [][Next]_vars

-----------------------------------------------------------------------------
(* Properties.                                                             *)

Request ==
    [pc : {"idle", "delete", "write", "notify", "P2002"}, task : Tasks \cup {None},
     status : Statuses \cup {None}, list : Lists \cup {None},
     previous : SUBSET Users, seen : SUBSET AssigneeRow]

(* The types of the tables and of the requests; a request at work on a     *)
(* task has one.                                                           *)
TypeOK ==
    /\ tasks \in [Tasks -> Task]
    /\ nextId \in 0..MaxId
    /\ emails \in [Tasks -> [Users -> Nat]]
    /\ assigned \in [Tasks -> [Users -> Nat]]
    /\ req \in [Requests -> Request]
    /\ \A r \in Requests : req[r].pc # "idle" => req[r].task \in Tasks

(* The two records of who works on a task agree, whatever overlaps: a live *)
(* task's primary assignee (tasks.assigneeId) has a row in task_assignees. *)
PrimaryIsAssignee ==
    \A t \in Tasks : Live(t) /\ tasks[t].primary # None =>
        tasks[t].primary \in UsersOf(tasks[t].rows)

(* For updateTask calls that come one at a time a live task's status only  *)
(* moves along VALID_STATUS_TRANSITIONS ("should reject invalid state      *)
(* transition: DONE -> CANCELLED", tests/integration/tasks.test.ts:470):   *)
(* the status that was read is still there when the commit replaces it,    *)
(* although creations and deletions happen in between and calls fail       *)
(* half-way.                                                               *)
SoloStatus ==
    [][solo => \A t \in Tasks : Live(t) =>
           tasks'[t].status \in VALID_STATUS_TRANSITIONS[tasks[t].status]]_vars

(* "existing assignee does not receive duplicate notification"             *)
(* (tests/integration/tasks-assignment.test.ts:820), for updateTask calls  *)
(* that come one at a time: nobody is sent more assignment e-mails for a   *)
(* task than times they became its assignee, over any sequence of lists.   *)
SoloAlertedOnce ==
    solo => \A t \in Tasks, u \in Users : emails[t][u] <= assigned[t][u]
=============================================================================

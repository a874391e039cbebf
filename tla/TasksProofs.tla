----------------------------- MODULE TasksProofs -----------------------------
(***************************************************************************)
(* Proofs about module Tasks, for any set of users, tasks and requests.    *)
(***************************************************************************)
EXTENDS Tasks, TLAPS

(* The users of freshly inserted rows are those of the list.               *)
LEMMA UsersOfRowsFor ==
    ASSUME NEW users
    PROVE  UsersOf(RowsFor(users)) = users
<1>1. ASSUME NEW u \in users PROVE u \in UsersOf(RowsFor(users))
  <2>1. [user |-> u, id |-> nextId] \in RowsFor(users)
    BY DEF RowsFor
  <2>2. [user |-> u, id |-> nextId].user = u
    OBVIOUS
  <2> QED BY <2>1, <2>2 DEF UsersOf
<1>2. ASSUME NEW u \in UsersOf(RowsFor(users)) PROVE u \in users
  BY DEF UsersOf, RowsFor
<1> QED BY <1>1, <1>2

LEMMA UsersOfUnion ==
    ASSUME NEW A, NEW B
    PROVE  UsersOf(A \cup B) = UsersOf(A) \cup UsersOf(B)
BY DEF UsersOf

LEMMA UsersOfType ==
    ASSUME NEW rows \in SUBSET AssigneeRow
    PROVE  UsersOf(rows) \in SUBSET Users
BY DEF UsersOf, AssigneeRow

LEMMA RowsForType ==
    ASSUME TypeOK, NEW users \in SUBSET Users
    PROVE  RowsFor(users) \in SUBSET AssigneeRow
BY DEF RowsFor, AssigneeRow, TypeOK

LEMMA CountType ==
    ASSUME NEW f \in [Tasks -> [Users -> Nat]], NEW t \in Tasks, NEW users
    PROVE  /\ Count(f, t, users) \in [Tasks -> [Users -> Nat]]
           /\ \A s \in Tasks \ {t} : Count(f, t, users)[s] = f[s]
           /\ \A u \in Users : Count(f, t, users)[t][u] =
                  IF u \in users THEN f[t][u] + 1 ELSE f[t][u]
BY DEF Count

(* A request that moves on without changing what it works on.              *)
LEMMA RequestMoves ==
    ASSUME NEW q \in Request, NEW pc \in {"notify", "P2002"}
    PROVE  [q EXCEPT !.pc = pc] \in Request /\ [q EXCEPT !.pc = pc].task = q.task
BY DEF Request

(* The types are invariant.                                                *)
LEMMA TypeInductive == TypeOK /\ [Next]_vars => TypeOK'
<1> SUFFICES ASSUME TypeOK, [Next]_vars PROVE TypeOK'
  OBVIOUS
<1> USE DEF TypeOK
<1>1. ASSUME NEW t \in Tasks, deleteTask(t) PROVE TypeOK'
  <2> tasks' \in [Tasks -> Task]
    BY <1>1 DEF deleteTask, Task
  <2> QED BY <1>1 DEF deleteTask
<1>2. ASSUME NEW t \in Tasks, NEW s \in Asked, NEW l \in Lists, createTask(t, s, l)
      PROVE  TypeOK'
  <2>1. l.users \in SUBSET Users /\ l.first \in Users \cup {None}
    BY DEF Lists
  <2>2. tasks' \in [Tasks -> Task]
    BY <1>2, <2>1, RowsForType, AskedAssumption DEF createTask, Task
  <2>3. PICK sent \in SUBSET l.users : emails' = Count(emails, t, sent)
    BY <1>2 DEF createTask
  <2>5. emails' \in [Tasks -> [Users -> Nat]]
    BY <2>3, CountType
  <2>6. assigned' \in [Tasks -> [Users -> Nat]]
    <3>1. assigned' = Count(assigned, t, l.users)
      BY <1>2 DEF createTask
    <3> QED BY <3>1, CountType
  <2>4. nextId' \in 0..MaxId
    BY <1>2, BoundAssumption DEF createTask
  <2> QED BY <1>2, <2>2, <2>4, <2>5, <2>6 DEF createTask
<1>3. ASSUME NEW r \in Requests, NEW t \in Tasks, NEW s \in Asked \cup {None},
             NEW l \in Lists \cup {None}, FindTask(r, t, s, l)
      PROVE  TypeOK'
  <2>1. Previous(t) \in SUBSET Users
    BY UsersOfType DEF Previous, Task
  <2>2. req' \in [Requests -> Request]
    BY <1>3, <2>1, AskedAssumption DEF FindTask, Request
  <2>3. \A q \in Requests : req'[q].pc # "idle" => req'[q].task \in Tasks
    BY <1>3 DEF FindTask
  <2> QED BY <1>3, <2>2, <2>3 DEF FindTask
<1>4. ASSUME NEW r \in Requests, DeleteAssignees(r) PROVE TypeOK'
  <2>1. tasks[req[r].task].rows \in SUBSET AssigneeRow
    BY <1>4 DEF DeleteAssignees, Task
  <2>2. req' \in [Requests -> Request]
    BY <1>4, <2>1 DEF DeleteAssignees, Request
  <2>3. \A q \in Requests : req'[q].pc # "idle" => req'[q].task \in Tasks
    BY <1>4 DEF DeleteAssignees
  <2> QED BY <1>4, <2>2, <2>3 DEF DeleteAssignees
<1>5. ASSUME NEW r \in Requests, WriteAssignees(r) PROVE TypeOK'
  <2> DEFINE t == req[r].task
  <2>1. t \in Tasks /\ req[r].list \in Lists
    BY <1>5 DEF WriteAssignees, Request
  <2>2. req[r].list.users \in SUBSET Users /\ NewPrimary(r) \in Users \cup {None}
    BY <2>1 DEF Lists, NewPrimary
  <2>3. NewStatus(r) \in Statuses
    BY <2>1 DEF NewStatus, Request, Task
  <2>4. Remaining(r) \cup RowsFor(req[r].list.users) \in SUBSET AssigneeRow
    BY <2>1, <2>2, RowsForType DEF Remaining, Task
  <2>5. tasks' \in [Tasks -> Task]
    BY <1>5, <2>1, <2>2, <2>3, <2>4 DEF WriteAssignees, Task
  <2>7. req' \in [Requests -> Request]
    BY <1>5, RequestMoves DEF WriteAssignees
  <2>8. \A q \in Requests : req'[q].pc # "idle" => req'[q].task \in Tasks
    BY <1>5, <2>1, RequestMoves DEF WriteAssignees
  <2>9. assigned' \in [Tasks -> [Users -> Nat]]
    BY <1>5, <2>1, CountType DEF WriteAssignees
  <2>10. nextId' \in 0..MaxId
    BY <1>5, BoundAssumption DEF WriteAssignees
  <2> QED BY <1>5, <2>5, <2>7, <2>8, <2>9, <2>10 DEF WriteAssignees
<1>6. ASSUME NEW r \in Requests, WriteStatus(r) PROVE TypeOK'
  <2>1. NewStatus(r) \in Statuses
    BY <1>6 DEF WriteStatus, NewStatus, Request, Task
  <2>2. tasks' \in [Tasks -> Task]
    BY <1>6, <2>1 DEF WriteStatus, Task
  <2>3. req' \in [Requests -> Request]
    BY <1>6, RequestMoves DEF WriteStatus
  <2>4. \A q \in Requests : req'[q].pc # "idle" => req'[q].task \in Tasks
    BY <1>6, RequestMoves DEF WriteStatus
  <2> QED BY <1>6, <2>2, <2>3, <2>4 DEF WriteStatus
<1>7. ASSUME NEW r \in Requests, DuplicateKey(r) PROVE TypeOK'
  <2>1. req' \in [Requests -> Request]
    BY <1>7, RequestMoves DEF DuplicateKey
  <2>2. \A q \in Requests : req'[q].pc # "idle" => req'[q].task \in Tasks
    BY <1>7, RequestMoves DEF DuplicateKey
  <2> QED BY <1>7, <2>1, <2>2 DEF DuplicateKey
<1>8. ASSUME NEW r \in Requests, Notify(r) PROVE TypeOK'
  <2> PICK sent \in SUBSET Added(r) : emails' = Count(emails, req[r].task, sent)
    BY <1>8 DEF Notify
  <2>1. emails' \in [Tasks -> [Users -> Nat]]
    BY <1>8, CountType DEF Notify
  <2> QED BY <1>8, <2>1 DEF Notify, Idle, Request
<1>9. ASSUME NEW r \in Requests, Fail(r) PROVE TypeOK'
  BY <1>9 DEF Fail, Idle, Request
<1>10. CASE UNCHANGED vars
  BY <1>10 DEF vars
<1> QED BY <1>1, <1>2, <1>3, <1>4, <1>5, <1>6, <1>7, <1>8, <1>9, <1>10 DEF Next

(* Every step keeps the primary assignee among the assignee rows: the      *)
(* write that sets one inserts the other, and no other write touches       *)
(* either of a live task.                                                  *)
LEMMA PrimaryInductive == TypeOK /\ PrimaryIsAssignee /\ [Next]_vars => PrimaryIsAssignee'
<1> SUFFICES ASSUME TypeOK, PrimaryIsAssignee, [Next]_vars PROVE PrimaryIsAssignee'
  OBVIOUS
<1> USE DEF TypeOK, PrimaryIsAssignee, Live
<1>1. ASSUME NEW t \in Tasks, deleteTask(t) PROVE PrimaryIsAssignee'
  BY <1>1 DEF deleteTask, Task
<1>2. ASSUME NEW t \in Tasks, NEW s \in Asked, NEW l \in Lists, createTask(t, s, l)
      PROVE  PrimaryIsAssignee'
  <2>1. l.first # None => l.first \in UsersOf(RowsFor(l.users))
    BY UsersOfRowsFor DEF Lists
  <2> QED BY <1>2, <2>1 DEF createTask
<1>3. ASSUME NEW r \in Requests, WriteAssignees(r) PROVE PrimaryIsAssignee'
  <2>1. req[r].task \in Tasks /\ req[r].list \in Lists
    BY <1>3 DEF WriteAssignees, Request
  <2>2. NewPrimary(r) # None =>
            NewPrimary(r) \in UsersOf(Remaining(r) \cup RowsFor(req[r].list.users))
    <3>1. req[r].list.first # None => req[r].list.first \in req[r].list.users
      BY <2>1 DEF Lists
    <3>2. req[r].list.first # None => req[r].list.first \in UsersOf(RowsFor(req[r].list.users))
      BY <3>1, UsersOfRowsFor
    <3>3. UsersOf(Remaining(r) \cup RowsFor(req[r].list.users)) =
              UsersOf(Remaining(r)) \cup UsersOf(RowsFor(req[r].list.users))
      BY UsersOfUnion
    <3> QED BY <3>2, <3>3 DEF NewPrimary
  <2> QED BY <1>3, <2>1, <2>2 DEF WriteAssignees
<1>4. ASSUME NEW r \in Requests, WriteStatus(r) PROVE PrimaryIsAssignee'
  BY <1>4 DEF WriteStatus, Task
<1>5. CASE UNCHANGED tasks
  BY <1>5
<1> QED
  BY <1>1, <1>2, <1>3, <1>4, <1>5
  DEF Next, vars, FindTask, DeleteAssignees, DuplicateKey, Notify, Fail

LEMMA InitInv == Init => TypeOK /\ PrimaryIsAssignee
BY BoundAssumption
DEF Init, TypeOK, PrimaryIsAssignee, Live, Task, Statuses, Idle, Request

(* Type correctness of the tasks and of every updateTask call.             *)
THEOREM TypeCorrect == Spec => []TypeOK
<1>1. Init => TypeOK
  BY InitInv
<1> QED BY <1>1, TypeInductive, PTL DEF Spec

(* However many updateTask calls overlap, fail or meet a deletion: a live  *)
(* task's primary assignee is one of its assignees.                        *)
THEOREM PrimaryAgrees == Spec => []PrimaryIsAssignee
<1>1. Init => TypeOK /\ PrimaryIsAssignee
  BY InitInv
<1>2. TypeOK /\ PrimaryIsAssignee /\ [Next]_vars => (TypeOK /\ PrimaryIsAssignee)'
  BY TypeInductive, PrimaryInductive
<1> QED BY <1>1, <1>2, PTL DEF Spec

-----------------------------------------------------------------------------
(* What updateTask promises when its calls do not overlap.                 *)

(* At most one call is at work.                                            *)
OneAtATime ==
    \A r, q \in Requests : r # q => req[r].pc = "idle" \/ req[q].pc = "idle"

AlertedOnce ==
    \A t \in Tasks, u \in Users : emails[t][u] <= assigned[t][u]

(* What a call has read is still true until its commit, and a call that    *)
(* has committed owes its e-mails.                                         *)
ReadIsCurrent(r) ==
    req[r].pc \in {"delete", "write"} =>
        /\ req[r].status # None =>
               req[r].status \in VALID_STATUS_TRANSITIONS[tasks[req[r].task].status]
        /\ Live(req[r].task) => req[r].previous = UsersOf(tasks[req[r].task].rows)

OwesEmails(r) ==
    req[r].pc = "notify" =>
        \A u \in Added(r) : emails[req[r].task][u] < assigned[req[r].task][u]

SeqInv ==
    /\ TypeOK
    /\ OneAtATime
    /\ AlertedOnce
    /\ \A r \in Requests :
           /\ req[r].pc # "idle" => tasks[req[r].task].state # "unused"
           /\ ReadIsCurrent(r)
           /\ OwesEmails(r)

(* A call that alone is at work takes a step: what has to be shown of it   *)
(* is all there is to show.                                                *)
LEMMA SoloStep ==
    ASSUME NEW r \in Requests, TypeOK', AlertedOnce',
           \A q \in Requests \ {r} : req'[q].pc = "idle",
           req'[r].pc # "idle" => tasks'[req'[r].task].state # "unused",
           ReadIsCurrent(r)', OwesEmails(r)'
    PROVE  SeqInv'
<1>1. OneAtATime'
  BY DEF OneAtATime
<1>2. \A q \in Requests \ {r} : ReadIsCurrent(q)' /\ OwesEmails(q)'
  BY DEF ReadIsCurrent, OwesEmails
<1> QED BY <1>1, <1>2 DEF SeqInv

LEMMA SeqInvInductive ==
    ASSUME solo, SeqInv, [Next]_vars
    PROVE  SeqInv'
<1> USE DEF SeqInv
<1>1. TypeOK'
  BY TypeInductive
<1> USE DEF TypeOK
<1>2. ASSUME NEW t \in Tasks, deleteTask(t) PROVE SeqInv'
  <2>1. /\ \A s \in Tasks \ {t} : tasks'[s] = tasks[s]
        /\ tasks'[t].state = "deleted" /\ tasks'[t].status = tasks[t].status
        /\ UNCHANGED <<nextId, emails, assigned, req>>
    BY <1>2 DEF deleteTask, Task
  <2>2. AlertedOnce'
    BY <2>1 DEF AlertedOnce
  <2>3. ASSUME NEW r \in Requests
        PROVE  /\ req'[r].pc # "idle" => tasks'[req'[r].task].state # "unused"
               /\ ReadIsCurrent(r)' /\ OwesEmails(r)'
    <3>1. req[r].pc # "idle" => req[r].task \in Tasks
      OBVIOUS
    <3>2. req[r].pc # "idle" => tasks'[req[r].task].state # "unused"
      BY <2>1, <3>1
    <3>3. ReadIsCurrent(r)'
      BY <2>1, <3>1 DEF ReadIsCurrent, Live
    <3>4. OwesEmails(r)'
      BY <2>1 DEF OwesEmails, Added
    <3> QED BY <2>1, <3>2, <3>3, <3>4
  <2> QED BY <1>1, <2>1, <2>2, <2>3 DEF OneAtATime
<1>3. ASSUME NEW t \in Tasks, NEW s \in Asked, NEW l \in Lists, createTask(t, s, l)
      PROVE  SeqInv'
  <2>1. PICK sent \in SUBSET l.users : emails' = Count(emails, t, sent)
    BY <1>3 DEF createTask
  <2>2. assigned' = Count(assigned, t, l.users) /\ UNCHANGED req
        /\ tasks[t].state = "unused" /\ \A q \in Tasks \ {t} : tasks'[q] = tasks[q]
    BY <1>3 DEF createTask
  <2>3. \A q \in Tasks \ {t} : emails'[q] = emails[q] /\ assigned'[q] = assigned[q]
    BY <2>1, <2>2, CountType
  <2>4. \A u \in Users : emails'[t][u] <= assigned'[t][u]
    <3> SUFFICES ASSUME NEW u \in Users PROVE emails'[t][u] <= assigned'[t][u]
      OBVIOUS
    <3>1. emails[t][u] <= assigned[t][u] /\ emails[t][u] \in Nat /\ assigned[t][u] \in Nat
      BY DEF AlertedOnce
    <3>2. emails'[t][u] = IF u \in sent THEN emails[t][u] + 1 ELSE emails[t][u]
      BY <2>1, CountType
    <3>3. assigned'[t][u] = IF u \in l.users THEN assigned[t][u] + 1 ELSE assigned[t][u]
      BY <2>2, CountType
    <3> QED BY <3>1, <3>2, <3>3
  <2>5. AlertedOnce'
    BY <2>3, <2>4 DEF AlertedOnce
  <2>6. ASSUME NEW r \in Requests
        PROVE  /\ req'[r].pc # "idle" => tasks'[req'[r].task].state # "unused"
               /\ ReadIsCurrent(r)' /\ OwesEmails(r)'
    <3>1. req[r].pc # "idle" => req[r].task \in Tasks \ {t}
      BY <2>2
    <3>2. ReadIsCurrent(r)'
      BY <2>2, <3>1 DEF ReadIsCurrent, Live
    <3>3. OwesEmails(r)'
      BY <2>2, <2>3, <3>1 DEF OwesEmails, Added
    <3> QED BY <2>2, <3>1, <3>2, <3>3
  <2> QED BY <1>1, <2>2, <2>5, <2>6 DEF OneAtATime
<1>4. ASSUME NEW r \in Requests, NEW t \in Tasks, NEW s \in Asked \cup {None},
             NEW l \in Lists \cup {None}, FindTask(r, t, s, l)
      PROVE  SeqInv'
  <2>1. /\ UNCHANGED <<tasks, nextId, emails, assigned>>
        /\ req'[r].pc \in {"delete", "write"} /\ req'[r].task = t /\ req'[r].status = s
        /\ req'[r].previous = UsersOf(tasks[t].rows)
        /\ tasks[t].state = "live"
        /\ s # None => s \in VALID_STATUS_TRANSITIONS[tasks[t].status]
    BY <1>4 DEF FindTask, Live, Allowed, Previous
  <2>2. AlertedOnce'
    BY <2>1 DEF AlertedOnce
  <2>3. ReadIsCurrent(r)' /\ OwesEmails(r)'
    BY <2>1 DEF ReadIsCurrent, OwesEmails
  <2>idle. \A q \in Requests \ {r} : req'[q].pc = "idle"
    BY <1>4 DEF OneAtATime, FindTask
  <2> QED BY <1>1, <2>1, <2>2, <2>3, <2>idle, SoloStep
<1>5. ASSUME NEW r \in Requests, DeleteAssignees(r) PROVE SeqInv'
  <2>1. /\ UNCHANGED <<tasks, nextId, emails, assigned>>
        /\ req[r].pc = "delete" /\ req'[r].pc = "write" /\ req'[r].task = req[r].task
        /\ req'[r].status = req[r].status /\ req'[r].previous = req[r].previous
    BY <1>5 DEF DeleteAssignees
  <2>2. AlertedOnce'
    BY <2>1 DEF AlertedOnce
  <2>3. ReadIsCurrent(r)' /\ OwesEmails(r)'
    BY <2>1 DEF ReadIsCurrent, OwesEmails, Live
  <2>idle. \A q \in Requests \ {r} : req'[q].pc = "idle"
    BY <1>5 DEF OneAtATime, DeleteAssignees
  <2> QED BY <1>1, <2>1, <2>2, <2>3, <2>idle, SoloStep
<1>6. ASSUME NEW r \in Requests, WriteAssignees(r) PROVE SeqInv'
  <2>1. PICK t \in Tasks : t = req[r].task
    BY <1>6 DEF WriteAssignees
  <2>2. /\ req[r].pc = "write" /\ req[r].list # None /\ tasks[t].state = "live"
        /\ req'[r].pc = "notify" /\ req'[r].task = t
        /\ req'[r].list = req[r].list /\ req'[r].previous = req[r].previous
        /\ emails' = emails
        /\ tasks'[t].state = "live"
        /\ assigned' = Count(assigned, t, req[r].list.users \ UsersOf(tasks[t].rows))
    BY <1>6, <2>1 DEF WriteAssignees, Live, Request
  <2>3. Added(r)' = req[r].list.users \ UsersOf(tasks[t].rows)
    BY <2>1, <2>2 DEF Added, NewlyAdded, ReadIsCurrent, Live
  <2>4. PICK A \in SUBSET Users : A = req[r].list.users \ UsersOf(tasks[t].rows)
    BY <2>2 DEF Request, Lists
  <2>5. /\ \A q \in Tasks \ {t} : assigned'[q] = assigned[q]
        /\ \A u \in Users : assigned'[t][u] =
               IF u \in A THEN assigned[t][u] + 1 ELSE assigned[t][u]
    BY <2>2, <2>4, CountType
  <2>6. \A q \in Tasks, u \in Users :
            /\ emails'[q][u] = emails[q][u]
            /\ emails[q][u] \in Nat /\ assigned[q][u] \in Nat
            /\ emails[q][u] <= assigned[q][u]
    BY <2>2 DEF AlertedOnce
  <2>7. AlertedOnce'
    <3> SUFFICES ASSUME NEW q \in Tasks, NEW u \in Users
                 PROVE  emails'[q][u] <= assigned'[q][u]
      BY DEF AlertedOnce
    <3>1. assigned'[q][u] = assigned[q][u] \/ assigned'[q][u] = assigned[q][u] + 1
      BY <2>5
    <3> QED BY <2>6, <3>1
  <2>8. OwesEmails(r)'
    <3> SUFFICES ASSUME NEW u \in A PROVE emails'[t][u] < assigned'[t][u]
      BY <2>2, <2>3, <2>4 DEF OwesEmails
    <3>1. assigned'[t][u] = assigned[t][u] + 1
      BY <2>5
    <3> QED BY <2>6, <3>1
  <2>9. ReadIsCurrent(r)'
    BY <2>2 DEF ReadIsCurrent
  <2>idle. \A q \in Requests \ {r} : req'[q].pc = "idle"
    BY <1>6 DEF OneAtATime, WriteAssignees
  <2> QED BY <1>1, <2>2, <2>7, <2>8, <2>9, <2>idle, SoloStep
<1>7. ASSUME NEW r \in Requests, WriteStatus(r) PROVE SeqInv'
  <2>1. /\ req'[r].pc = "notify" /\ req'[r].list = None /\ req'[r].task = req[r].task
        /\ UNCHANGED <<emails, assigned>>
        /\ tasks'[req[r].task].state = "live"
    BY <1>7 DEF WriteStatus, Live, Request, Task
  <2>2. AlertedOnce'
    BY <2>1 DEF AlertedOnce
  <2>3. ReadIsCurrent(r)' /\ OwesEmails(r)'
    BY <2>1 DEF ReadIsCurrent, OwesEmails, Added
  <2>idle. \A q \in Requests \ {r} : req'[q].pc = "idle"
    BY <1>7 DEF OneAtATime, WriteStatus
  <2> QED BY <1>1, <2>1, <2>2, <2>3, <2>idle, SoloStep
<1>8. ASSUME NEW r \in Requests, DuplicateKey(r) PROVE SeqInv'
  <2>1. /\ req'[r].pc = "P2002" /\ req'[r].task = req[r].task /\ req[r].pc = "write"
        /\ UNCHANGED <<tasks, emails, assigned>>
    BY <1>8 DEF DuplicateKey, Request
  <2>2. AlertedOnce'
    BY <2>1 DEF AlertedOnce
  <2>3. ReadIsCurrent(r)' /\ OwesEmails(r)'
    BY <2>1 DEF ReadIsCurrent, OwesEmails
  <2>idle. \A q \in Requests \ {r} : req'[q].pc = "idle"
    BY <1>8 DEF OneAtATime, DuplicateKey
  <2> QED BY <1>1, <2>1, <2>2, <2>3, <2>idle, SoloStep
<1>9. ASSUME NEW r \in Requests, Notify(r) PROVE SeqInv'
  <2>1. PICK sent \in SUBSET Added(r) : emails' = Count(emails, req[r].task, sent)
    BY <1>9 DEF Notify
  <2>2. PICK t \in Tasks : t = req[r].task
    BY <1>9 DEF Notify
  <2>3. /\ req[r].pc = "notify" /\ req'[r].pc = "idle" /\ UNCHANGED <<tasks, assigned>>
    BY <1>9 DEF Notify, Idle
  <2>4. /\ \A q \in Tasks \ {t} : emails'[q] = emails[q]
        /\ \A u \in Users : emails'[t][u] =
               IF u \in sent THEN emails[t][u] + 1 ELSE emails[t][u]
    BY <2>1, <2>2, CountType
  <2>5. \A u \in sent : emails[t][u] < assigned[t][u]
    BY <2>2, <2>3 DEF OwesEmails
  <2>6. \A q \in Tasks, u \in Users :
            /\ emails[q][u] \in Nat /\ assigned[q][u] \in Nat
            /\ emails[q][u] <= assigned[q][u]
    BY DEF AlertedOnce
  <2>7. AlertedOnce'
    BY <2>3, <2>4, <2>5, <2>6 DEF AlertedOnce
  <2>8. ReadIsCurrent(r)' /\ OwesEmails(r)'
    BY <2>3 DEF ReadIsCurrent, OwesEmails
  <2>idle. \A q \in Requests \ {r} : req'[q].pc = "idle"
    BY <1>9 DEF OneAtATime, Notify, Idle
  <2> QED BY <1>1, <2>3, <2>7, <2>8, <2>idle, SoloStep
<1>10. ASSUME NEW r \in Requests, Fail(r) PROVE SeqInv'
  <2>1. req'[r].pc = "idle" /\ UNCHANGED <<tasks, emails, assigned>>
    BY <1>10 DEF Fail, Idle
  <2>2. AlertedOnce'
    BY <2>1 DEF AlertedOnce
  <2>3. ReadIsCurrent(r)' /\ OwesEmails(r)'
    BY <2>1 DEF ReadIsCurrent, OwesEmails
  <2>idle. \A q \in Requests \ {r} : req'[q].pc = "idle"
    BY <1>10 DEF OneAtATime, Fail, Idle
  <2> QED BY <1>1, <2>1, <2>2, <2>3, <2>idle, SoloStep
<1>11. CASE UNCHANGED vars
  BY <1>11 DEF vars, OneAtATime, AlertedOnce, ReadIsCurrent, OwesEmails, Added, Live
<1> QED
  BY <1>2, <1>3, <1>4, <1>5, <1>6, <1>7, <1>8, <1>9, <1>10, <1>11 DEF Next

LEMMA SeqInvInit == Init => SeqInv
<1> SUFFICES ASSUME Init PROVE SeqInv
  OBVIOUS
<1>1. TypeOK
  BY InitInv
<1>2. AlertedOnce
  BY DEF Init, AlertedOnce
<1>3. \A r \in Requests : req[r].pc = "idle"
  BY DEF Init, Idle
<1> QED BY <1>1, <1>2, <1>3 DEF SeqInv, OneAtATime, ReadIsCurrent, OwesEmails

(* A status that was allowed when the task was read is allowed when it is  *)
(* written, if nothing wrote in between.                                   *)
LEMMA StatusStep ==
    ASSUME SeqInv, [Next]_vars, NEW t \in Tasks, Live(t)
    PROVE  tasks'[t].status \in VALID_STATUS_TRANSITIONS[tasks[t].status]
<1> USE DEF SeqInv, TypeOK, Live
<1>1. \A s \in Statuses : s \in VALID_STATUS_TRANSITIONS[s]
  BY DEF VALID_STATUS_TRANSITIONS, Statuses
<1>2. tasks[t].status \in Statuses
  BY DEF Task
<1>3. ASSUME NEW d \in Tasks, deleteTask(d) PROVE tasks'[t].status = tasks[t].status
  BY <1>3 DEF deleteTask, Task
<1>4. ASSUME NEW c \in Tasks, NEW s \in Asked, NEW l \in Lists, createTask(c, s, l)
      PROVE  tasks'[t].status = tasks[t].status
  BY <1>4 DEF createTask
<1>5. ASSUME NEW r \in Requests, WriteAssignees(r) \/ WriteStatus(r)
      PROVE  tasks'[t].status \in VALID_STATUS_TRANSITIONS[tasks[t].status]
  <2>1. PICK w \in Tasks : w = req[r].task
    BY <1>5 DEF WriteAssignees, WriteStatus
  <2>2. req[r].pc = "write" /\ tasks'[w].status = NewStatus(r)
    BY <1>5, <2>1 DEF WriteAssignees, WriteStatus, Task
  <2>3. \A q \in Tasks \ {w} : tasks'[q] = tasks[q]
    BY <1>5, <2>1 DEF WriteAssignees, WriteStatus
  <2>4. CASE t = w
    BY <1>1, <1>2, <2>1, <2>2, <2>4 DEF NewStatus, ReadIsCurrent
  <2> QED BY <1>1, <1>2, <2>3, <2>4
<1>6. CASE UNCHANGED tasks
  BY <1>1, <1>2, <1>6
<1> QED
  BY <1>1, <1>2, <1>3, <1>4, <1>5, <1>6
  DEF Next, vars, FindTask, DeleteAssignees, DuplicateKey, Notify, Fail

(* The strengthened invariant, for the behaviours it is about.             *)
LEMMA SoloInductive == (solo => SeqInv) /\ [Next]_vars => (solo => SeqInv)'
<1> SUFFICES ASSUME solo => SeqInv, [Next]_vars, solo' PROVE SeqInv'
  OBVIOUS
<1>1. solo
  BY DEF Next, vars
<1> QED BY <1>1, SeqInvInductive

(* With one updateTask call at a time, a live task's status moves only     *)
(* along VALID_STATUS_TRANSITIONS: what breaks it is overlap alone.        *)
THEOREM SequentialStatus == Spec => SoloStatus
<1>1. Init => (solo => SeqInv)
  BY SeqInvInit
<1>2. (solo => SeqInv) /\ [Next]_vars =>
          [solo => \A t \in Tasks : Live(t) =>
               tasks'[t].status \in VALID_STATUS_TRANSITIONS[tasks[t].status]]_vars
  BY StatusStep
<1> QED BY <1>1, <1>2, SoloInductive, PTL DEF Spec, SoloStatus

(* With one updateTask call at a time, failures and deletions included,    *)
(* nobody gets more assignment e-mails than assignments.                   *)
THEOREM SequentialAlerts == Spec => []SoloAlertedOnce
<1>1. Init => (solo => SeqInv)
  BY SeqInvInit
<1>2. (solo => SeqInv) => SoloAlertedOnce
  BY DEF SeqInv, AlertedOnce, SoloAlertedOnce
<1> QED BY <1>1, <1>2, SoloInductive, PTL DEF Spec
=============================================================================

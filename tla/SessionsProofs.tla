--------------------------- MODULE SessionsProofs ---------------------------
(***************************************************************************)
(* Proofs, for any number of accounts, sessions, overlapping requests and  *)
(* cleanup jobs, and any batch size, of the invariants of Sessions.        *)
(*                                                                         *)
(* The argument rests on one fact about every step, RowsGrow: a row only   *)
(* moves UNUSED -> LIVE -> REVOKED -> GONE and expiry is never taken back. *)
(* So what a request or a job read stays usable as a bound on the present. *)
(***************************************************************************)
EXTENDS Sessions, FiniteSetTheorems, TLAPS

(* The only changes a step makes to a row that exists.                     *)
RowsGrow ==
    \A s \in Ids :
        /\ row[s].state = "UNUSED" => row'[s].state \in {"UNUSED", "LIVE"}
        /\ row[s].state = "LIVE" => row'[s].state \in {"LIVE", "REVOKED", "GONE"}
        /\ row[s].state = "REVOKED" => row'[s].state \in {"REVOKED", "GONE"}
        /\ row[s].state = "GONE" => row'[s].state = "GONE"
        /\ row[s].state # "UNUSED" => /\ row'[s].parent = row[s].parent
                                      /\ row[s].expired => row'[s].expired

(* Nobody uses it any more.                                                *)
Spent(s) == row[s].state \in {"REVOKED", "GONE"} \/ (row[s].state # "UNUSED" /\ row[s].expired)

(* A used row has its user; a rotated session was created and is not live. *)
Lineage ==
    \A s \in Ids :
        /\ row[s].state # "UNUSED" => row[s].user \in Users
        /\ row[s].state = "UNUSED" => row[s].parent = None
        /\ row[s].parent # None => row[row[s].parent].state \in {"REVOKED", "GONE"}

(* What a request in flight knows.                                         *)
ReqOK(q) ==
    /\ q.pc = "rotate" => q.session \in Ids /\ row[q.session].state # "UNUSED"
    /\ q.pc \in {"create", "rotate", "revokeAll", "updatePassword", "password.revokeAll"} =>
           q.user \in Users

(* What a cleanup job in flight knows: its rows are spent, and what it has *)
(* to remove is removed, or in the batch, or still to be found.            *)
JobOK(w) ==
    /\ \A s \in w.now : row[s].state # "UNUSED" /\ row[s].expired
    /\ \A s \in w.batch : Spent(s)
    /\ \A s \in w.goal : row[s].state \in {"REVOKED", "GONE"} \/ (s \in w.now /\ row[s].state # "UNUSED")
    /\ (w.pc = "delete" /\ Cardinality(w.batch) # BatchSize) =>
           \A s \in w.goal : row[s].state = "GONE" \/ s \in w.batch
    /\ w.pc = "done" => \A s \in w.goal : row[s].state = "GONE"

(* The inductive invariant.                                                *)
Inv ==
    /\ TypeOK
    /\ Lineage
    /\ \A r \in Requests : ReqOK(req[r])
    /\ \A j \in Jobs : JobOK(job[j])

-----------------------------------------------------------------------------
(* Knowledge of requests and jobs survives every growth of the rows.       *)
LEMMA Stable ==
    ASSUME TypeOK, RowsGrow
    PROVE  /\ \A q \in Request : ReqOK(q) => ReqOK(q)'
           /\ \A w \in Job : JobOK(w) => JobOK(w)'
<1>1. \A s \in Ids : row[s].state \in {"UNUSED", "LIVE", "REVOKED", "GONE"}
  BY DEF TypeOK, Row
<1>2. \A s \in Ids : row[s].state # "UNUSED" => row'[s].state # "UNUSED"
  BY <1>1 DEF RowsGrow
<1>3. \A s \in Ids : Spent(s) => Spent(s)'
  BY <1>1, <1>2 DEF Spent, RowsGrow
<1>4. ASSUME NEW q \in Request, ReqOK(q) PROVE ReqOK(q)'
  BY <1>2, <1>4 DEF ReqOK
<1>5. ASSUME NEW w \in Job, JobOK(w) PROVE JobOK(w)'
  <2>1. w.now \subseteq Ids /\ w.batch \subseteq Ids /\ w.goal \subseteq Ids
    BY DEF Job
  <2>2. \A s \in w.now : row'[s].state # "UNUSED" /\ row'[s].expired
    BY <1>2, <1>5, <2>1 DEF JobOK, RowsGrow
  <2>3. \A s \in w.batch : Spent(s)'
    BY <1>3, <1>5, <2>1 DEF JobOK
  <2>4. \A s \in w.goal : \/ row'[s].state \in {"REVOKED", "GONE"}
                          \/ s \in w.now /\ row'[s].state # "UNUSED"
    BY <1>2, <1>5, <2>1 DEF JobOK, RowsGrow
  <2>5. \A s \in w.goal : row[s].state = "GONE" => row'[s].state = "GONE"
    BY <2>1 DEF RowsGrow
  <2> QED
    BY <1>5, <2>2, <2>3, <2>4, <2>5 DEF JobOK
<1> QED
  BY <1>4, <1>5

(* A step of a request: rows grow, one request's locals change.            *)
LEMMA RequestStepInv ==
    ASSUME Inv, NEW r \in Requests, NEW q \in Request, ReqOK(q)',
           req' = [req EXCEPT ![r] = q], row' \in [Ids -> Row], pwd' \in [Users -> Epochs],
           UNCHANGED <<job, challenge>>, RowsGrow, Lineage'
    PROVE  Inv'
<1>1. TypeOK'
  BY DEF Inv, TypeOK
<1>2. ASSUME NEW x \in Requests PROVE ReqOK(req[x])'
  <2>1. CASE x = r
    <3>1. req'[x] = q
      BY <2>1 DEF Inv, TypeOK
    <3> QED
      BY <3>1 DEF ReqOK
  <2>2. CASE x # r
    <3>1. req'[x] = req[x] /\ req[x] \in Request /\ ReqOK(req[x])
      BY <2>2 DEF Inv, TypeOK
    <3>2. \A p \in Request : ReqOK(p) => ReqOK(p)'
      BY Stable DEF Inv
    <3> QED
      BY <3>1, <3>2 DEF ReqOK
  <2> QED
    BY <2>1, <2>2
<1>3. ASSUME NEW j \in Jobs PROVE JobOK(job[j])'
  <2>1. job'[j] = job[j] /\ job[j] \in Job /\ JobOK(job[j])
    BY DEF Inv, TypeOK
  <2>2. \A w \in Job : JobOK(w) => JobOK(w)'
    BY Stable DEF Inv
  <2> QED
    BY <2>1, <2>2 DEF JobOK, Spent
<1> QED
  BY <1>1, <1>2, <1>3 DEF Inv

(* A step of a job: rows grow, one job's data change.                      *)
LEMMA JobStepInv ==
    ASSUME Inv, NEW j \in Jobs, NEW w \in Job, JobOK(w)',
           job' = [job EXCEPT ![j] = w], row' \in [Ids -> Row], UNCHANGED <<pwd, req, challenge>>,
           RowsGrow, Lineage'
    PROVE  Inv'
<1>1. TypeOK'
  BY DEF Inv, TypeOK
<1>2. ASSUME NEW x \in Requests PROVE ReqOK(req[x])'
  <2>1. req'[x] = req[x] /\ req[x] \in Request /\ ReqOK(req[x])
    BY DEF Inv, TypeOK
  <2>2. \A p \in Request : ReqOK(p) => ReqOK(p)'
    BY Stable DEF Inv
  <2> QED
    BY <2>1, <2>2 DEF ReqOK
<1>3. ASSUME NEW x \in Jobs PROVE JobOK(job[x])'
  <2>1. CASE x = j
    <3>1. job'[x] = w
      BY <2>1 DEF Inv, TypeOK
    <3> QED
      BY <3>1 DEF JobOK, Spent
  <2>2. CASE x # j
    <3>1. job'[x] = job[x] /\ job[x] \in Job /\ JobOK(job[x])
      BY <2>2 DEF Inv, TypeOK
    <3>2. \A p \in Job : JobOK(p) => JobOK(p)'
      BY Stable DEF Inv
    <3> QED
      BY <3>1, <3>2 DEF JobOK, Spent
  <2> QED
    BY <2>1, <2>2
<1> QED
  BY <1>1, <1>2, <1>3 DEF Inv

(* Leaving the rows alone is growth.                                       *)
LEMMA SameRows == ASSUME Inv, row' = row PROVE row' \in [Ids -> Row] /\ RowsGrow /\ Lineage'
<1>1. \A s \in Ids : row[s].state \in {"UNUSED", "LIVE", "REVOKED", "GONE"}
  BY DEF Inv, TypeOK, Row
<1> QED
  BY <1>1 DEF Inv, TypeOK, RowsGrow, Lineage

LEMMA IdleOK == IdleRequest \in Request /\ ReqOK(IdleRequest)'
  BY EpochAssumption DEF IdleRequest, Locals, Request, Epochs, ReqOK

(* revokedAt set on one row.                                               *)
LEMMA RevokeRow ==
    ASSUME NEW w \in Row
    PROVE  /\ Revoke(w) \in Row
           /\ Revoke(w).parent = w.parent /\ Revoke(w).expired = w.expired
           /\ Revoke(w).state = IF w.state = "LIVE" THEN "REVOKED" ELSE w.state
  BY DEF Revoke, Row

-----------------------------------------------------------------------------
(* Steps that leave the rows alone.                                        *)
LEMMA QuietRequestInv ==
    ASSUME Inv, NEW r \in Requests, NEW q \in Request, ReqOK(q),
           req' = [req EXCEPT ![r] = q], pwd' \in [Users -> Epochs],
           UNCHANGED <<row, job, challenge>>
    PROVE  Inv'
<1>1. ReqOK(q)'
  BY DEF ReqOK
<1> QED
  BY <1>1, SameRows, RequestStepInv

Grants(r) == StartLogin(r) \/ RedeemChallenge(r) \/ AcceptInvitation(r)

LEMMA GrantsOne ==
    ASSUME Inv, NEW r \in Requests, Grants(r) PROVE \E u \in Users : Grant(r, u)
  BY DEF Grants, StartLogin, RedeemChallenge, AcceptInvitation, Inv, TypeOK

LEMMA GrantInv == ASSUME Inv, NEW r \in Requests, Grants(r) PROVE Inv'
<1>1. PICK u \in Users : Grant(r, u)
  BY GrantsOne
<1>2. Locals("create", u, None, pwd[u]) \in Request /\ ReqOK(Locals("create", u, None, pwd[u]))
  BY DEF Locals, Request, ReqOK, Inv, TypeOK
<1> QED
  BY <1>1, <1>2, QuietRequestInv DEF Grant, Begin, Inv, TypeOK

(* An mfaToken is given out or expires.                                    *)
LEMMA ChallengeInv ==
    ASSUME Inv, NEW u \in Users, Challenge(u) \/ ExpireChallenge(u) PROVE Inv'
<1>1. TypeOK'
  BY DEF Inv, TypeOK, Challenge, ExpireChallenge
<1>2. Lineage' /\ (\A r \in Requests : ReqOK(req[r])') /\ (\A j \in Jobs : JobOK(job[j])')
  BY DEF Inv, Lineage, ReqOK, JobOK, Spent, Challenge, ExpireChallenge
<1> QED
  BY <1>1, <1>2 DEF Inv

LEMMA StartTokenInv ==
    ASSUME Inv, NEW r \in Requests, StartRefresh(r) \/ StartReuse(r) \/ StartUnknown(r)
    PROVE  Inv'
<1>1. PICK s \in Ids, pc \in {"rotate", "revokeAll", "unknown"} :
          /\ row[s].state # "UNUSED"
          /\ \E q : q = (IF pc = "rotate" THEN Locals(pc, row[s].user, s, row[s].epoch)
                         ELSE Locals(pc, IF pc = "unknown" THEN None ELSE row[s].user, None, 0))
                    /\ req' = [req EXCEPT ![r] = q]
  BY DEF StartRefresh, StartReuse, StartUnknown, Usable, Live, Begin
<1>2. PICK q : /\ q = (IF pc = "rotate" THEN Locals(pc, row[s].user, s, row[s].epoch)
                       ELSE Locals(pc, IF pc = "unknown" THEN None ELSE row[s].user, None, 0))
               /\ req' = [req EXCEPT ![r] = q]
  BY <1>1
<1>3. row[s] \in Row /\ 0 \in Epochs
  BY EpochAssumption DEF Inv, TypeOK, Epochs
<1>4. row[s].user \in Users
  BY <1>1 DEF Inv, Lineage
<1>5. q \in Request
  BY <1>2, <1>3, <1>4 DEF Locals, Request, Row
<1>6. ReqOK(q)
  BY <1>1, <1>2, <1>4 DEF Locals, ReqOK
<1> QED
  BY <1>2, <1>5, <1>6, QuietRequestInv DEF StartRefresh, StartReuse, StartUnknown, Inv, TypeOK

LEMMA FinishInv ==
    ASSUME Inv, NEW r \in Requests, Reject(r) \/ AnswerUnknown(r) \/ AbandonChange(r)
    PROVE  Inv'
  BY IdleOK, SameRows, RequestStepInv DEF Reject, AnswerUnknown, AbandonChange, Finish, Inv, TypeOK

LEMMA PasswordInv ==
    ASSUME Inv, NEW r \in Requests, StartChangePassword(r) \/ UpdatePassword(r) PROVE Inv'
<1>1. CASE StartChangePassword(r)
  <2>1. PICK u \in Users : Begin(r, Locals("updatePassword", u, None, 0))
    BY <1>1 DEF StartChangePassword
  <2>2. /\ Locals("updatePassword", u, None, 0) \in Request
        /\ ReqOK(Locals("updatePassword", u, None, 0))
    BY EpochAssumption DEF Epochs, Locals, Request, ReqOK, Inv, TypeOK
  <2> QED
    BY <1>1, <2>1, <2>2, QuietRequestInv DEF StartChangePassword, Begin, Inv, TypeOK
<1>2. CASE UpdatePassword(r)
  <2> DEFINE q == Locals("password.revokeAll", req[r].user, None, 0)
  <2>1. req[r].user \in Users /\ req[r] \in Request
    BY <1>2 DEF UpdatePassword, At, Inv, TypeOK, ReqOK
  <2>2. q \in Request /\ ReqOK(q)
    BY <2>1, EpochAssumption DEF Epochs, Locals, Request, ReqOK
  <2>3. pwd[req[r].user] \in Nat /\ pwd[req[r].user] + 1 \in Epochs
    BY <1>2, <2>1, EpochAssumption DEF UpdatePassword, Inv, TypeOK, Epochs
  <2>4. pwd' \in [Users -> Epochs]
    BY <1>2, <2>1, <2>3 DEF UpdatePassword, Inv, TypeOK
  <2>5. req' = [req EXCEPT ![r] = q]
    BY <1>2 DEF UpdatePassword
  <2> QED
    BY <1>2, <2>2, <2>4, <2>5, QuietRequestInv DEF UpdatePassword
<1> QED
  BY <1>1, <1>2

-----------------------------------------------------------------------------
(* Steps that write rows.                                                  *)
LEMMA CreateSessionInv == ASSUME Inv, NEW r \in Requests, CreateSession(r) PROVE Inv'
<1>1. req[r].user \in Users /\ req[r] \in Request
  BY DEF CreateSession, At, Inv, TypeOK, ReqOK
<1> DEFINE new == NewRow("LIVE", req[r].user, None, req[r].epoch)
<1>2. PICK s \in Ids : row[s].state = "UNUSED" /\ row' = [row EXCEPT ![s] = new]
  BY DEF CreateSession
<1>3. new \in Row /\ new.state = "LIVE" /\ new.parent = None /\ new.user \in Users
  BY <1>1 DEF NewRow, Row, Request
<1>4. /\ row' \in [Ids -> Row] /\ row'[s] = new
      /\ \A t \in Ids : t # s => row'[t] = row[t]
  BY <1>2, <1>3 DEF Inv, TypeOK
<1>5. \A t \in Ids : row[t].state \in {"UNUSED", "LIVE", "REVOKED", "GONE"}
  BY DEF Inv, TypeOK, Row
<1>6. RowsGrow
  BY <1>2, <1>3, <1>4, <1>5 DEF RowsGrow
<1>7. \A t \in Ids : row[t].parent \in Ids \cup {None}
  BY DEF Inv, TypeOK, Row
<1>8. Lineage'
  BY <1>2, <1>3, <1>4, <1>7 DEF Lineage, Inv
<1> QED
  BY <1>4, <1>6, <1>8, IdleOK, RequestStepInv DEF CreateSession, Finish, Inv, TypeOK

LEMMA RotateInv == ASSUME Inv, NEW r \in Requests, Rotate(r) PROVE Inv'
<1>1. PICK old \in Ids : old = req[r].session /\ row[old].state \in {"LIVE", "REVOKED"}
  BY DEF Rotate, At, Stored, Inv, ReqOK
<1>2. req[r].user \in Users /\ req[r] \in Request
  BY DEF Rotate, At, Inv, TypeOK, ReqOK
<1> DEFINE new == NewRow("LIVE", req[r].user, old, req[r].epoch)
<1>3. PICK s \in Ids : /\ row[s].state = "UNUSED"
                       /\ row' = [row EXCEPT ![old] = Revoke(@), ![s] = new]
  BY <1>1 DEF Rotate
<1>4. new \in Row /\ new.state = "LIVE" /\ new.parent = old /\ new.user \in Users
  BY <1>2 DEF NewRow, Row, Request
<1>5. row[old] \in Row /\ s # old
  BY <1>1, <1>3 DEF Inv, TypeOK
<1>6. /\ Revoke(row[old]) \in Row /\ Revoke(row[old]).state = "REVOKED"
      /\ Revoke(row[old]).parent = row[old].parent
      /\ Revoke(row[old]).expired = row[old].expired
      /\ Revoke(row[old]).user = row[old].user
  BY <1>1, <1>5 DEF Revoke, Row
<1>7. /\ row' \in [Ids -> Row] /\ row'[s] = new /\ row'[old] = Revoke(row[old])
      /\ \A t \in Ids : (t # s /\ t # old) => row'[t] = row[t]
  BY <1>3, <1>4, <1>5, <1>6 DEF Inv, TypeOK
<1>8. \A t \in Ids : /\ row[t].state \in {"UNUSED", "LIVE", "REVOKED", "GONE"}
                      /\ row[t].parent \in Ids \cup {None}
  BY DEF Inv, TypeOK, Row
<1>9. RowsGrow
  BY <1>1, <1>3, <1>4, <1>6, <1>7, <1>8 DEF RowsGrow
<1>10. Lineage'
  BY <1>1, <1>3, <1>4, <1>6, <1>7, <1>8 DEF Lineage, Inv
<1> QED
  BY <1>7, <1>9, <1>10, IdleOK, RequestStepInv DEF Rotate, Finish, Inv, TypeOK

LEMMA RevokeAllInv == ASSUME Inv, NEW r \in Requests, RevokeAll(r) PROVE Inv'
<1>1. ASSUME NEW t \in Ids
      PROVE  /\ row'[t] \in Row /\ row'[t].parent = row[t].parent
             /\ row'[t].expired = row[t].expired /\ row'[t].user = row[t].user
             /\ row'[t].state = row[t].state \/ (row[t].state = "LIVE" /\ row'[t].state = "REVOKED")
             /\ row[t].state \in {"UNUSED", "LIVE", "REVOKED", "GONE"}
             /\ row[t].parent \in Ids \cup {None}
  <2>1. row[t] \in Row /\ (row'[t] = Revoke(row[t]) \/ row'[t] = row[t])
    BY DEF RevokeAll, Inv, TypeOK
  <2> QED
    BY <2>1 DEF Revoke, Row
<1>2. row' \in [Ids -> Row]
  BY <1>1 DEF RevokeAll
<1>3. RowsGrow
  BY <1>1 DEF RowsGrow
<1>4. Lineage'
  BY <1>1, NoneAssumption DEF Lineage, Inv
<1> QED
  BY <1>2, <1>3, <1>4, IdleOK, RequestStepInv DEF RevokeAll, Finish, Inv, TypeOK

(* Logout and the passing of the date: one row, no request, no job.        *)
LEMMA RowWriteInv == ASSUME Inv, NEW s \in Ids, Logout(s) \/ Expire(s) PROVE Inv'
<1>1. row[s] \in Row
  BY DEF Inv, TypeOK
<1>2. PICK w \in Row :
          /\ row' = [row EXCEPT ![s] = w]
          /\ w.parent = row[s].parent /\ w.user = row[s].user
          /\ row[s].expired => w.expired
          /\ w.state = row[s].state \/ (row[s].state = "LIVE" /\ w.state = "REVOKED")
  <2>1. CASE Logout(s)
    <3>1. row' = [row EXCEPT ![s] = Revoke(row[s])]
      BY <2>1 DEF Logout
    <3>2. /\ Revoke(row[s]) \in Row /\ Revoke(row[s]).parent = row[s].parent
          /\ Revoke(row[s]).user = row[s].user /\ Revoke(row[s]).expired = row[s].expired
          /\ \/ Revoke(row[s]).state = row[s].state
             \/ row[s].state = "LIVE" /\ Revoke(row[s]).state = "REVOKED"
      BY <1>1 DEF Revoke, Row
    <3> QED
      BY <3>1, <3>2
  <2>2. CASE Expire(s)
    <3> DEFINE w == [state |-> row[s].state, user |-> row[s].user, expired |-> TRUE,
                     parent |-> row[s].parent, epoch |-> row[s].epoch]
    <3>1. row' = [row EXCEPT ![s] = w]
      BY <2>2 DEF Expire
    <3>2. /\ w \in Row /\ w.parent = row[s].parent /\ w.user = row[s].user
          /\ w.state = row[s].state /\ w.expired
      BY <1>1 DEF Row
    <3> QED
      BY <3>1, <3>2
  <2> QED
    BY <2>1, <2>2
<1>3. /\ row' \in [Ids -> Row] /\ row'[s] = w
      /\ \A t \in Ids : t # s => row'[t] = row[t]
  BY <1>2 DEF Inv, TypeOK
<1>4. \A t \in Ids : /\ row[t].state \in {"UNUSED", "LIVE", "REVOKED", "GONE"}
                      /\ row[t].parent \in Ids \cup {None}
  BY DEF Inv, TypeOK, Row
<1>5. RowsGrow
  BY <1>2, <1>3, <1>4 DEF RowsGrow
<1>6. Lineage'
  BY <1>2, <1>3, <1>4, NoneAssumption DEF Lineage, Inv
<1>7. UNCHANGED <<pwd, req, job, challenge>>
  BY DEF Logout, Expire
<1>8. TypeOK'
  BY <1>3, <1>7 DEF Inv, TypeOK
<1>9. ASSUME NEW x \in Requests PROVE ReqOK(req[x])'
  <2>1. req[x] \in Request /\ ReqOK(req[x])
    BY DEF Inv, TypeOK
  <2>2. \A p \in Request : ReqOK(p) => ReqOK(p)'
    BY <1>5, Stable DEF Inv
  <2> QED
    BY <1>7, <2>1, <2>2 DEF ReqOK
<1>10. ASSUME NEW x \in Jobs PROVE JobOK(job[x])'
  <2>1. job[x] \in Job /\ JobOK(job[x])
    BY DEF Inv, TypeOK
  <2>2. \A p \in Job : JobOK(p) => JobOK(p)'
    BY <1>5, Stable DEF Inv
  <2> QED
    BY <1>7, <2>1, <2>2 DEF JobOK, Spent
<1> QED
  BY <1>6, <1>8, <1>9, <1>10 DEF Inv

-----------------------------------------------------------------------------
(* The cleanup job.                                                        *)
LEMMA StartCleanupInv == ASSUME Inv, NEW j \in Jobs, StartCleanup(j) PROVE Inv'
<1> DEFINE now == {s \in Ids : Stored(s) /\ row[s].expired}
           data == [pc |-> "find", now |-> now, batch |-> {}, goal |-> Dead(now)]
<1>1. data \in Job
  BY DEF Job, Dead
<1>2. PICK w \in Job : w = data
  BY <1>1
<1>3. job' = [job EXCEPT ![j] = w] /\ UNCHANGED <<row, pwd, req, challenge>>
  BY <1>2 DEF StartCleanup
<1>4. JobOK(w)
  BY <1>2 DEF JobOK, Dead, Stored
<1>5. JobOK(w)'
  BY <1>3, <1>4 DEF JobOK, Spent
<1> QED
  BY <1>3, <1>5, SameRows, JobStepInv

LEMMA FindBatchInv == ASSUME Inv, NEW j \in Jobs, FindBatch(j) PROVE Inv'
<1>1. PICK v \in Job : v = job[j] /\ JobOK(v)
  BY DEF Inv, TypeOK
<1>2. PICK batch \in SUBSET Dead(v.now) :
          /\ Cardinality(batch) # BatchSize => batch = Dead(v.now)
          /\ job' = [job EXCEPT ![j] =
                [pc |-> IF batch = {} THEN "done" ELSE "delete", now |-> v.now,
                 batch |-> batch, goal |-> v.goal]]
  BY <1>1 DEF FindBatch
<1> DEFINE w == [pc |-> IF batch = {} THEN "done" ELSE "delete", now |-> v.now,
                 batch |-> batch, goal |-> v.goal]
<1>3. v.now \subseteq Ids /\ v.goal \subseteq Ids
  BY DEF Job
<1>4. w \in Job
  BY <1>3 DEF Job, Dead
<1>5. UNCHANGED <<row, pwd, req, challenge>>
  BY DEF FindBatch
<1>6. \A s \in batch : Spent(s)
  BY <1>1 DEF Dead, Stored, Spent, JobOK
<1>7. \A s \in v.goal : row[s].state = "GONE" \/ s \in Dead(v.now)
  <2>1. \A s \in Ids : row[s].state \in {"UNUSED", "LIVE", "REVOKED", "GONE"}
    BY DEF Inv, TypeOK, Row
  <2> QED
    BY <1>1, <1>3, <2>1 DEF JobOK, Dead, Stored
<1>8. Cardinality({}) = 0
  BY FS_EmptySet
<1>9. batch = {} => Dead(v.now) = {}
  BY <1>2, <1>8, BatchAssumption
<1>10. batch # {} /\ Cardinality(batch) # BatchSize =>
           \A s \in v.goal : row[s].state = "GONE" \/ s \in batch
  BY <1>2, <1>7
<1>11. JobOK(w)
  BY <1>1, <1>6, <1>7, <1>9, <1>10 DEF JobOK
<1> QED
  BY <1>2, <1>4, <1>5, <1>11, SameRows, JobStepInv DEF JobOK, Spent

LEMMA DeleteBatchInv == ASSUME Inv, NEW j \in Jobs, DeleteBatch(j) PROVE Inv'
<1>1. PICK v \in Job : v = job[j] /\ JobOK(v)
  BY DEF Inv, TypeOK
<1> DEFINE w == [pc |-> IF Cardinality(v.batch) = BatchSize THEN "find" ELSE "done",
                 now |-> v.now, batch |-> {}, goal |-> v.goal]
<1>2. /\ v.pc = "delete" /\ row' = WithoutBatch(v.batch)
      /\ job' = [job EXCEPT ![j] = w] /\ UNCHANGED <<pwd, req, challenge>>
  BY <1>1 DEF DeleteBatch
<1>3. w \in Job
  BY DEF Job
<1>4. ASSUME NEW t \in Ids
      PROVE  /\ row'[t] \in Row /\ row'[t].parent = row[t].parent
             /\ row'[t].expired = row[t].expired /\ row'[t].user = row[t].user
             /\ row'[t].state = row[t].state \/ (Stored(t) /\ row'[t].state = "GONE")
             /\ t \in v.batch /\ Stored(t) => row'[t].state = "GONE"
             /\ row[t].state \in {"UNUSED", "LIVE", "REVOKED", "GONE"}
             /\ row[t].parent \in Ids \cup {None}
  <2>1. row[t] \in Row
    BY DEF Inv, TypeOK
  <2>2. row'[t] = IF t \in v.batch /\ Stored(t)
                  THEN [state |-> "GONE", user |-> row[t].user, expired |-> row[t].expired,
                        parent |-> row[t].parent, epoch |-> row[t].epoch]
                  ELSE row[t]
    BY <1>2 DEF WithoutBatch
  <2> QED
    BY <2>1, <2>2 DEF Row
<1>5. row' \in [Ids -> Row]
  BY <1>2, <1>4 DEF WithoutBatch
<1>6. RowsGrow
  BY <1>4 DEF RowsGrow, Stored
<1>7. Lineage'
  BY <1>4, NoneAssumption DEF Lineage, Inv, Stored
<1>8. JobOK(v)'
  BY <1>1, <1>6, Stable DEF Inv
<1>9. v.batch \subseteq Ids /\ v.goal \subseteq Ids
  BY DEF Job
<1>10. \A s \in v.batch : row'[s].state = "GONE"
  <2>1. \A s \in v.batch : row[s].state # "UNUSED"
    BY <1>1 DEF JobOK, Spent
  <2> QED
    BY <1>4, <1>9, <2>1 DEF Stored
<1>11. Cardinality(v.batch) # BatchSize => \A s \in v.goal : row'[s].state = "GONE"
  <2>1. Cardinality(v.batch) # BatchSize => \A s \in v.goal : row[s].state = "GONE" \/ s \in v.batch
    BY <1>1, <1>2 DEF JobOK
  <2> QED
    BY <2>1, <1>6, <1>9, <1>10 DEF RowsGrow
<1>12. JobOK(w)'
  BY <1>8, <1>11 DEF JobOK
<1> QED
  BY <1>2, <1>3, <1>5, <1>6, <1>7, <1>12, JobStepInv

LEMMA EndCleanupInv == ASSUME Inv, NEW j \in Jobs, EndCleanup(j) PROVE Inv'
<1>1. IdleJob \in Job /\ JobOK(IdleJob)'
  BY DEF IdleJob, Job, JobOK
<1> QED
  BY <1>1, SameRows, JobStepInv DEF EndCleanup

-----------------------------------------------------------------------------
LEMMA InitInv == Init => Inv
<1> SUFFICES ASSUME Init PROVE Inv
  OBVIOUS
<1>1. TypeOK
  BY EpochAssumption
  DEF Init, TypeOK, NewRow, Row, Epochs, IdleRequest, Locals, Request, IdleJob, Job
<1>2. Lineage
  BY DEF Init, Lineage, NewRow
<1>3. \A r \in Requests : ReqOK(req[r])
  BY DEF Init, ReqOK, IdleRequest, Locals
<1>4. \A j \in Jobs : JobOK(job[j])
  BY DEF Init, JobOK, IdleJob
<1> QED
  BY <1>1, <1>2, <1>3, <1>4 DEF Inv

LEMMA NextInv == Inv /\ [Next]_vars => Inv'
<1> SUFFICES ASSUME Inv, [Next]_vars PROVE Inv'
  OBVIOUS
<1>1. ASSUME NEW r \in Requests, RequestStep(r) PROVE Inv'
  BY <1>1, FinishInv, GrantInv, CreateSessionInv, StartTokenInv, RotateInv, RevokeAllInv,
     PasswordInv
  DEF RequestStep, Grants
<1>2. ASSUME NEW j \in Jobs, JobStep(j) PROVE Inv'
  BY <1>2, StartCleanupInv, FindBatchInv, DeleteBatchInv, EndCleanupInv DEF JobStep
<1>3. ASSUME NEW s \in Ids, Logout(s) \/ Expire(s) PROVE Inv'
  BY <1>3, RowWriteInv
<1>5. ASSUME NEW u \in Users, Challenge(u) \/ ExpireChallenge(u) PROVE Inv'
  BY <1>5, ChallengeInv
<1>4. CASE UNCHANGED vars
  BY <1>4 DEF vars, Inv, TypeOK, Lineage, ReqOK, JobOK, Spent
<1> QED
  BY <1>1, <1>2, <1>3, <1>4, <1>5 DEF Next

(* Inv holds in every reachable state.                                     *)
THEOREM Invariance == Spec => []Inv
  BY InitInv, NextInv, PTL DEF Spec

(* Session rows, request locals and job data keep their types.             *)
THEOREM TypeCorrect == Spec => []TypeOK
<1>1. Inv => TypeOK
  BY DEF Inv
<1> QED
  BY <1>1, Invariance, PTL

(* A refresh token and its successor are never both good.                  *)
THEOREM RotationReplaces == Spec => []PredecessorIsDead
<1>1. Inv => PredecessorIsDead
  BY DEF Inv, Lineage, PredecessorIsDead, Live
<1> QED
  BY <1>1, Invariance, PTL

(* Cleanup never deletes a session somebody can still use.                 *)
THEOREM CleanupSparesUsable == Spec => []DeletesOnlyDead
<1>1. Inv => DeletesOnlyDead
  BY DEF Inv, JobOK, Spent, DeletesOnlyDead, Usable, Live
<1> QED
  BY <1>1, Invariance, PTL

(* A cleanup job that returns has removed all it set out to remove, for    *)
(* any batch size and any number of concurrent jobs.                       *)
THEOREM CleanupRemovesAll == Spec => []CleanupIsComplete
<1>1. Inv => CleanupIsComplete
  BY DEF Inv, JobOK, CleanupIsComplete
<1> QED
  BY <1>1, Invariance, PTL

-----------------------------------------------------------------------------
(* Requests that come one at a time.                                       *)

OneAtATime == \A r, x \in Requests : req[r].pc # "idle" /\ req[x].pc # "idle" => r = x

(* The new password is stored and the sessions are not yet revoked.        *)
Changing(u) == \E r \in Requests : At(r, "password.revokeAll") /\ req[r].user = u

(* A session about to be rotated has no successor, although it may have    *)
(* been logged out since it was found live.                                *)
NoSuccessorYet ==
    \A r \in Requests : At(r, "rotate") => \A s \in Ids : row[s].parent # req[r].session

(* A request that will insert a session has seen the current password.     *)
SawPassword ==
    \A r \in Requests : req[r].pc \in {"create", "rotate"} => req[r].epoch = pwd[req[r].user]

EpochsAgree ==
    \A s \in Ids : Usable(s) => row[s].epoch = pwd[row[s].user] \/ Changing(row[s].user)

Sequential ==
    calm => OneAtATime /\ RotatedOnce /\ NoSuccessorYet /\ SawPassword /\ EpochsAgree

(* Rows only lose usability: what every step but an insert does.           *)
Fade ==
    \A s \in Ids : /\ row'[s].parent = row[s].parent /\ row'[s].user = row[s].user
                   /\ row'[s].epoch = row[s].epoch
                   /\ Usable(s)' => Usable(s)

LEMMA SameRowsFade == ASSUME row' = row PROVE Fade
  BY DEF Fade, Usable, Live

LEMMA OthersIdle ==
    ASSUME OneAtATime, NEW r \in Requests, req[r].pc # "idle"
    PROVE  \A x \in Requests \ {r} : req[x].pc = "idle"
  BY DEF OneAtATime

(* One request goes from one await to the next while rows fade.            *)
LEMMA SequentialStep ==
    ASSUME Inv, Sequential, calm, calm' = calm, Fade, pwd' = pwd,
           NEW r \in Requests, NEW q \in Request, req' = [req EXCEPT ![r] = q],
           \A x \in Requests \ {r} : req[x].pc = "idle",
           q.pc = "rotate" => \A s \in Ids : row[s].parent # q.session,
           q.pc \in {"create", "rotate"} => q.epoch = pwd[q.user],
           At(r, "password.revokeAll") =>
               \A s \in Ids : row[s].user = req[r].user => ~Usable(s)'
    PROVE  Sequential'
<1>1. /\ req'[r] = q
      /\ \A x \in Requests \ {r} : req'[x] = req[x]
  BY DEF Inv, TypeOK
<1>2. OneAtATime'
  BY <1>1 DEF OneAtATime
<1>3. RotatedOnce'
  BY DEF Sequential, RotatedOnce, Fade
<1>4. NoSuccessorYet'
  BY <1>1 DEF NoSuccessorYet, At, Fade
<1>5. SawPassword'
  BY <1>1 DEF SawPassword
<1>6. EpochsAgree'
  <2> SUFFICES ASSUME NEW s \in Ids, Usable(s)'
               PROVE  row'[s].epoch = pwd'[row'[s].user]
    BY DEF EpochsAgree
  <2>1. Usable(s) /\ row'[s].epoch = row[s].epoch /\ row'[s].user = row[s].user
    BY DEF Fade
  <2>2. row[s].epoch = pwd[row[s].user] \/ Changing(row[s].user)
    BY <2>1 DEF Sequential, EpochsAgree
  <2>3. ASSUME Changing(row[s].user) PROVE FALSE
    <3>1. PICK x \in Requests : At(x, "password.revokeAll") /\ req[x].user = row[s].user
      BY <2>3 DEF Changing
    <3>2. x = r
      BY <3>1 DEF At
    <3> QED
      BY <3>1, <3>2
  <2> QED
    BY <2>1, <2>2, <2>3
<1> QED
  BY <1>2, <1>3, <1>4, <1>5, <1>6 DEF Sequential

(* Steps of no request: logout, the passing of the date, cleanup.          *)
LEMMA SequentialFade ==
    ASSUME Inv, Sequential, Fade, UNCHANGED <<pwd, req, calm>>
    PROVE  Sequential'
<1> SUFFICES ASSUME calm PROVE Sequential'
  BY DEF Sequential
<1>1. OneAtATime' /\ NoSuccessorYet' /\ SawPassword' /\ RotatedOnce'
  BY DEF Sequential, OneAtATime, NoSuccessorYet, SawPassword, RotatedOnce, At, Fade
<1>2. EpochsAgree'
  BY DEF Sequential, EpochsAgree, Changing, At, Fade
<1> QED
  BY <1>1, <1>2 DEF Sequential

LEMMA SequentialStart ==
    ASSUME Inv, Sequential, calm, calm' = calm, NEW r \in Requests,
           \/ Grants(r) \/ StartRefresh(r) \/ StartReuse(r) \/ StartUnknown(r)
           \/ StartChangePassword(r)
    PROVE  Sequential'
<1>0. Grants(r) => \E u \in Users : Grant(r, u)
  BY GrantsOne
<1>2. \A x \in Requests : req[x].pc = "idle"
  BY <1>0 DEF Grant, StartRefresh, StartReuse, StartUnknown, StartChangePassword, Begin,
              Undisturbed
<1>3. UNCHANGED <<row, pwd>> /\ Fade
  BY <1>0, SameRowsFade DEF Grant, StartRefresh, StartReuse, StartUnknown, StartChangePassword
<1>4. ~At(r, "password.revokeAll")
  BY <1>2 DEF At
<1>5. CASE Grants(r)
  <2>1. PICK u \in Users : req' = [req EXCEPT ![r] = Locals("create", u, None, pwd[u])]
    BY <1>0, <1>5 DEF Grant, Begin
  <2> DEFINE new == Locals("create", u, None, pwd[u])
  <2>2. /\ new \in Request /\ new.pc # "rotate"
        /\ new.epoch = pwd[new.user]
    BY DEF Locals, Request, Inv, TypeOK
  <2> HIDE DEF new
  <2> QED
    BY <1>2, <1>3, <1>4, <2>1, <2>2, SequentialStep DEF new
<1>6. CASE StartReuse(r) \/ StartUnknown(r) \/ StartChangePassword(r)
  <2>1. PICK u \in Users \cup {None}, pc \in {"revokeAll", "unknown", "updatePassword"} :
            req' = [req EXCEPT ![r] = Locals(pc, u, None, 0)]
    BY <1>6 DEF StartReuse, StartUnknown, StartChangePassword, Begin, Inv, TypeOK, Row
  <2> DEFINE new == Locals(pc, u, None, 0)
  <2>2. new \in Request /\ new.pc \notin {"create", "rotate"}
    BY EpochAssumption DEF Locals, Request, Epochs
  <2> HIDE DEF new
  <2> QED
    BY <1>2, <1>3, <1>4, <2>1, <2>2, SequentialStep DEF new
<1>7. CASE StartRefresh(r)
  <2>1. PICK s \in Ids : /\ Usable(s)
                         /\ req' = [req EXCEPT ![r] = Locals("rotate", row[s].user, s, row[s].epoch)]
    BY <1>7 DEF StartRefresh, Begin
  <2> DEFINE new == Locals("rotate", row[s].user, s, row[s].epoch)
  <2>2. new \in Request /\ new.session = s /\ new.user = row[s].user /\ new.epoch = row[s].epoch
    BY DEF Locals, Request, Inv, TypeOK, Row
  <2>3. \A t \in Ids : row[t].parent # s
    BY <2>1, NoneAssumption DEF Inv, Lineage, Usable, Live
  <2>4. row[s].epoch = pwd[row[s].user]
    BY <1>2, <2>1 DEF Sequential, EpochsAgree, Changing, At
  <2> HIDE DEF new
  <2> QED
    BY <1>2, <1>3, <1>4, <2>1, <2>2, <2>3, <2>4, SequentialStep DEF new
<1> QED
  BY <1>5, <1>6, <1>7

LEMMA IdleType == IdleRequest \in Request /\ IdleRequest.pc = "idle"
  BY EpochAssumption DEF IdleRequest, Locals, Request, Epochs

(* Requests that end without an insert.                                    *)
LEMMA SequentialFinish ==
    ASSUME Inv, Sequential, calm, calm' = calm, NEW r \in Requests,
           Reject(r) \/ AnswerUnknown(r) \/ AbandonChange(r) \/ RevokeAll(r)
    PROVE  Sequential'
<1>1. /\ req[r].pc # "idle" /\ pwd' = pwd
      /\ req' = [req EXCEPT ![r] = IdleRequest]
  BY DEF Reject, AnswerUnknown, AbandonChange, RevokeAll, Finish, At
<1>2. \A x \in Requests \ {r} : req[x].pc = "idle"
  BY <1>1, OthersIdle DEF Sequential
<1>3. CASE Reject(r) \/ AnswerUnknown(r) \/ AbandonChange(r)
  <2>1. ~At(r, "password.revokeAll") /\ Fade
    BY <1>3, SameRowsFade DEF Reject, AnswerUnknown, AbandonChange, At
  <2> QED
    BY <1>1, <1>2, <2>1, IdleType, SequentialStep
<1>4. CASE RevokeAll(r)
  <2>1. ASSUME NEW s \in Ids
        PROVE  /\ row'[s].parent = row[s].parent /\ row'[s].user = row[s].user
               /\ row'[s].epoch = row[s].epoch
               /\ Usable(s)' => Usable(s) /\ row[s].user # req[r].user
    <3>1. row[s] \in Row /\ row'[s] = IF row[s].user = req[r].user THEN Revoke(row[s]) ELSE row[s]
      BY <1>4 DEF RevokeAll, Inv, TypeOK
    <3>2. /\ Revoke(row[s]).state # "LIVE" /\ Revoke(row[s]).parent = row[s].parent
          /\ Revoke(row[s]).user = row[s].user /\ Revoke(row[s]).epoch = row[s].epoch
      BY DEF Revoke
    <3> QED
      BY <3>1, <3>2 DEF Usable, Live
  <2>2. Fade /\ \A s \in Ids : row[s].user = req[r].user => ~Usable(s)'
    BY <2>1 DEF Fade
  <2> QED
    BY <1>1, <1>2, <2>2, IdleType, SequentialStep
<1> QED
  BY <1>3, <1>4

(* A row is inserted: its parent has no other child, and its epoch is that *)
(* of the current password.                                                *)
LEMMA SequentialInsert ==
    ASSUME Inv, Sequential, calm, calm' = calm, NEW r \in Requests, pwd' = pwd,
           req[r].pc \in {"create", "rotate"}, req' = [req EXCEPT ![r] = IdleRequest],
           NEW s \in Ids, row[s].state = "UNUSED",
           row'[s].epoch = req[r].epoch, row'[s].user = req[r].user,
           row'[s].parent = None \/ \A t \in Ids : row[t].parent # row'[s].parent,
           \A t \in Ids \ {s} :
               /\ row'[t].parent = row[t].parent /\ row'[t].user = row[t].user
               /\ row'[t].epoch = row[t].epoch
               /\ Usable(t)' => Usable(t)
    PROVE  Sequential'
<1>1. \A x \in Requests : req[x].pc # "idle" => x = r
  BY OthersIdle DEF Sequential
<1>2. \A x \in Requests : req'[x].pc = "idle"
  BY <1>1, IdleType DEF Inv, TypeOK
<1>3. OneAtATime' /\ NoSuccessorYet' /\ SawPassword'
  BY <1>2 DEF OneAtATime, NoSuccessorYet, SawPassword, At
<1>4. RotatedOnce'
  <2> SUFFICES ASSUME NEW a \in Ids, NEW b \in Ids, row'[a].parent = row'[b].parent,
                      row'[a].parent # None
               PROVE  a = b
    BY DEF RotatedOnce
  <2>1. CASE a # s /\ b # s
    BY <2>1 DEF Sequential, RotatedOnce
  <2>2. CASE a = s \/ b = s
    BY <2>2
  <2> QED
    BY <2>1, <2>2
<1>5. EpochsAgree'
  <2> SUFFICES ASSUME NEW t \in Ids, Usable(t)' PROVE row'[t].epoch = pwd[row'[t].user]
    BY DEF EpochsAgree
  <2>1. CASE t = s
    BY <2>1 DEF Sequential, SawPassword
  <2>2. CASE t # s
    BY <1>1, <2>2 DEF Sequential, EpochsAgree, Changing, At
  <2> QED
    BY <2>1, <2>2
<1> QED
  BY <1>3, <1>4, <1>5 DEF Sequential

LEMMA SequentialCreate ==
    ASSUME Inv, Sequential, calm, calm' = calm, NEW r \in Requests, CreateSession(r)
    PROVE  Sequential'
<1> DEFINE new == NewRow("LIVE", req[r].user, None, req[r].epoch)
<1>1. PICK s \in Ids : row[s].state = "UNUSED" /\ row' = [row EXCEPT ![s] = new]
  BY DEF CreateSession
<1>2. new.user = req[r].user /\ new.parent = None /\ new.epoch = req[r].epoch
  BY DEF NewRow
<1>3. row'[s] = new /\ \A t \in Ids \ {s} : row'[t] = row[t]
  BY <1>1 DEF Inv, TypeOK
<1>4. req[r].pc = "create" /\ req' = [req EXCEPT ![r] = IdleRequest] /\ pwd' = pwd
  BY DEF CreateSession, At, Finish
<1> HIDE DEF new
<1>5. ASSUME NEW t \in Ids \ {s}
      PROVE  /\ row'[t].parent = row[t].parent /\ row'[t].user = row[t].user
             /\ row'[t].epoch = row[t].epoch
             /\ Usable(t)' => Usable(t)
  BY <1>3 DEF Usable, Live
<1>6. /\ req[r].pc \in {"create", "rotate"}
      /\ row'[s].epoch = req[r].epoch /\ row'[s].user = req[r].user /\ row'[s].parent = None
  BY <1>2, <1>3, <1>4
<1> QED
  BY <1>1, <1>4, <1>5, <1>6, SequentialInsert

LEMMA SequentialRotate ==
    ASSUME Inv, Sequential, calm, calm' = calm, NEW r \in Requests, Rotate(r)
    PROVE  Sequential'
<1>1. PICK old \in Ids : old = req[r].session /\ row[old].state \in {"LIVE", "REVOKED"}
  BY DEF Rotate, At, Stored, Inv, ReqOK
<1> DEFINE new == NewRow("LIVE", req[r].user, old, req[r].epoch)
<1>2. PICK s \in Ids : /\ row[s].state = "UNUSED"
                       /\ row' = [row EXCEPT ![old] = Revoke(@), ![s] = new]
  BY <1>1 DEF Rotate
<1>3. new.user = req[r].user /\ new.parent = old /\ new.epoch = req[r].epoch
  BY DEF NewRow
<1>4. /\ row'[s] = new /\ row'[old] = Revoke(row[old])
      /\ \A t \in Ids : (t # s /\ t # old) => row'[t] = row[t]
  BY <1>1, <1>2 DEF Inv, TypeOK
<1>5. /\ Revoke(row[old]).state # "LIVE" /\ Revoke(row[old]).parent = row[old].parent
      /\ Revoke(row[old]).user = row[old].user /\ Revoke(row[old]).epoch = row[old].epoch
  BY DEF Revoke
<1>6. \A t \in Ids : row[t].parent # old
  BY <1>1 DEF Rotate, Sequential, NoSuccessorYet
<1>7. req[r].pc = "rotate" /\ req' = [req EXCEPT ![r] = IdleRequest] /\ pwd' = pwd
  BY DEF Rotate, At, Finish
<1> HIDE DEF new
<1>8. ASSUME NEW t \in Ids \ {s}
      PROVE  /\ row'[t].parent = row[t].parent /\ row'[t].user = row[t].user
             /\ row'[t].epoch = row[t].epoch
             /\ Usable(t)' => Usable(t)
  BY <1>4, <1>5 DEF Usable, Live
<1>9. /\ req[r].pc \in {"create", "rotate"}
      /\ row'[s].epoch = req[r].epoch /\ row'[s].user = req[r].user
      /\ \A t \in Ids : row[t].parent # row'[s].parent
  BY <1>3, <1>4, <1>6, <1>7
<1> QED
  BY <1>2, <1>7, <1>8, <1>9, SequentialInsert

LEMMA SequentialUpdatePassword ==
    ASSUME Inv, Sequential, calm, calm' = calm, NEW r \in Requests, UpdatePassword(r)
    PROVE  Sequential'
<1> DEFINE q == Locals("password.revokeAll", req[r].user, None, 0)
<1>1. /\ req[r].pc = "updatePassword" /\ req' = [req EXCEPT ![r] = q] /\ row' = row
      /\ pwd' = [pwd EXCEPT ![req[r].user] = @ + 1]
  BY DEF UpdatePassword, At
<1>2. q.pc = "password.revokeAll" /\ q.user = req[r].user
  BY DEF Locals
<1> HIDE DEF q
<1>3. \A x \in Requests \ {r} : req[x].pc = "idle"
  BY <1>1, OthersIdle DEF Sequential
<1>4. req'[r] = q /\ \A x \in Requests \ {r} : req'[x] = req[x]
  BY <1>1 DEF Inv, TypeOK
<1>5. OneAtATime' /\ NoSuccessorYet' /\ SawPassword' /\ RotatedOnce'
  BY <1>1, <1>2, <1>3, <1>4
  DEF Sequential, OneAtATime, NoSuccessorYet, SawPassword, RotatedOnce, At
<1>6. EpochsAgree'
  <2> SUFFICES ASSUME NEW s \in Ids, Usable(s)'
               PROVE  row'[s].epoch = pwd'[row'[s].user] \/ Changing(row[s].user)'
    BY DEF EpochsAgree
  <2>0. Usable(s) /\ row'[s] = row[s]
    BY <1>1 DEF Usable, Live
  <2>1. CASE row[s].user = req[r].user
    <3>1. At(r, "password.revokeAll")' /\ req'[r].user = row'[s].user
      BY <1>1, <1>2, <1>4, <2>1 DEF At
    <3> QED
      BY <3>1 DEF Changing
  <2>2. CASE row[s].user # req[r].user
    <3>1. row[s].user \in Users
      BY <2>0 DEF Inv, Lineage, Usable, Live
    <3>2. pwd'[row[s].user] = pwd[row[s].user]
      BY <1>1, <2>2, <3>1 DEF Inv, TypeOK
    <3>3. ~Changing(row[s].user)
      BY <1>1, <1>3 DEF Changing, At
    <3> QED
      BY <2>0, <3>2, <3>3 DEF Sequential, EpochsAgree
  <2> QED
    BY <2>1, <2>2
<1> QED
  BY <1>5, <1>6 DEF Sequential

LEMMA SequentialRows ==
    ASSUME Inv, Sequential, UNCHANGED <<pwd, req, calm>>,
           \/ \E s \in Ids : Logout(s) \/ Expire(s)
           \/ \E j \in Jobs : JobStep(j)
    PROVE  Sequential'
<1>1. ASSUME NEW s \in Ids, Logout(s) PROVE Fade
  BY <1>1 DEF Logout, Revoke, Fade, Usable, Live, Inv, TypeOK
<1>2. ASSUME NEW s \in Ids, Expire(s) PROVE Fade
  BY <1>2 DEF Expire, Fade, Usable, Live, Inv, TypeOK
<1>3. ASSUME NEW j \in Jobs, DeleteBatch(j) PROVE Fade
  <2> SUFFICES ASSUME NEW t \in Ids
               PROVE  /\ row'[t].parent = row[t].parent /\ row'[t].user = row[t].user
                      /\ row'[t].epoch = row[t].epoch
                      /\ Usable(t)' => Usable(t)
    BY DEF Fade
  <2>1. row'[t] = IF t \in job[j].batch /\ Stored(t)
                  THEN [state |-> "GONE", user |-> row[t].user, expired |-> row[t].expired,
                        parent |-> row[t].parent, epoch |-> row[t].epoch]
                  ELSE row[t]
    BY <1>3 DEF DeleteBatch, WithoutBatch
  <2> QED
    BY <2>1 DEF Usable, Live
<1>4. ASSUME NEW j \in Jobs, StartCleanup(j) \/ FindBatch(j) \/ EndCleanup(j) PROVE Fade
  BY <1>4, SameRowsFade DEF StartCleanup, FindBatch, EndCleanup
<1>5. Fade
  BY <1>1, <1>2, <1>3, <1>4 DEF JobStep
<1> QED
  BY <1>5, SequentialFade

LEMMA InitSequential == Init => Sequential
  BY DEF Init, Sequential, OneAtATime, RotatedOnce, NoSuccessorYet, SawPassword, EpochsAgree,
         NewRow, IdleRequest, Locals, At, Usable, Live

LEMMA NextSequential == Inv /\ Sequential /\ [Next]_vars => Sequential'
<1> SUFFICES ASSUME Inv, Sequential, [Next]_vars PROVE Sequential'
  OBVIOUS
<1>1. CASE UNCHANGED vars
  BY <1>1, SameRowsFade, SequentialFade DEF vars
<1>2. CASE Next
  <2>1. calm' = calm
    BY <1>2 DEF Next
  <2>2. ASSUME NEW r \in Requests, RequestStep(r) PROVE Sequential'
    <3>1. CASE calm
      BY <2>1, <2>2, <3>1, SequentialStart, SequentialFinish, SequentialCreate, SequentialRotate,
         SequentialUpdatePassword
      DEF RequestStep, Grants
    <3>2. CASE ~calm
      BY <2>1, <3>2 DEF Sequential
    <3> QED
      BY <3>1, <3>2
  <2>3. ASSUME NEW j \in Jobs, JobStep(j) PROVE Sequential'
    BY <2>1, <2>3, SequentialRows
    DEF JobStep, StartCleanup, FindBatch, DeleteBatch, EndCleanup
  <2>4. ASSUME NEW s \in Ids, Logout(s) \/ Expire(s) PROVE Sequential'
    BY <2>1, <2>4, SequentialRows DEF Logout, Expire
  <2>5. ASSUME NEW u \in Users, Challenge(u) \/ ExpireChallenge(u) PROVE Sequential'
    BY <2>1, <2>5, SameRowsFade, SequentialFade DEF Challenge, ExpireChallenge
  <2> QED
    BY <1>2, <2>2, <2>3, <2>4, <2>5 DEF Next
<1> QED
  BY <1>1, <1>2

LEMMA SequentialInvariance == Spec => []Sequential
  BY InitSequential, NextSequential, Invariance, PTL DEF Spec

(* Requests that come one at a time exchange a refresh token at most once, *)
(* among any number of logouts, expiries and cleanups.                     *)
THEOREM SequentialRotation == Spec => []CalmRotatesOnce
<1>1. Sequential => CalmRotatesOnce
  BY DEF Sequential, CalmRotatesOnce
<1> QED
  BY <1>1, SequentialInvariance, PTL

(* Requests that come one at a time leave, after a password change, no     *)
(* usable session that was granted before it, through any rotations, and   *)
(* whatever logins with a second factor are half done.                     *)
THEOREM SequentialPasswordChange == Spec => []CalmPasswordChange
<1>1. Sequential => CalmPasswordChange
  BY DEF Sequential, EpochsAgree, Changing, CalmPasswordChange
<1> QED
  BY <1>1, SequentialInvariance, PTL
=============================================================================

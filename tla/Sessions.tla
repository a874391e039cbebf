------------------------------ MODULE Sessions ------------------------------
(***************************************************************************)
(* Refresh sessions: rows of refresh_sessions as login, refresh (rotation  *)
(* and reuse detection), logout and password change of                     *)
(* src/modules/auth/auth.service.ts write them, and as the cleanup job of  *)
(* src/jobs/services/cleanup.service.ts deletes them.                      *)
(*                                                                         *)
(* A request is a process and each await on PostgreSQL one atomic step.    *)
(* A session id stands for the refresh token whose hash its row holds.     *)
(* Passwords are numbered: an account's n-th password has epoch n.  The    *)
(* epoch of a session is that of the password its account had when the     *)
(* session, or the first of those it was rotated from, was granted.        *)
(*                                                                         *)
(* Definitions named Bug... are plausible mistakes in the definition that  *)
(* follows them; nothing uses them.                                        *)
(***************************************************************************)
EXTENDS Naturals, FiniteSets

CONSTANTS
    Users,      \* accounts
    Ids,        \* supply of session ids
    Requests,   \* request slots
    Jobs,       \* cleanup jobs running at once (worker concurrency)
    BatchSize,  \* rows a cleanup round fetches
    MaxEpoch,   \* bound: password changes per account
    None

ASSUME BatchAssumption == BatchSize \in Nat \ {0}
ASSUME EpochAssumption == MaxEpoch \in Nat
ASSUME NoneAssumption == None \notin Users /\ None \notin Ids

VARIABLES
    row,   \* refresh_sessions, by id; parent and epoch are history
    pwd,   \* epoch of each account's current password
    req,   \* what each request slot is doing
    job,   \* what each cleanup job is doing
    challenge,   \* accounts somebody holds an mfaToken for that is still good
    calm   \* environment: whether requests come one at a time and no await throws

vars == <<row, pwd, req, job, challenge, calm>>

Epochs == 0..MaxEpoch
Row == [state : {"UNUSED", "LIVE", "REVOKED", "GONE"}, user : Users \cup {None},
        expired : BOOLEAN, parent : Ids \cup {None}, epoch : Epochs]
Request == [pc : {"idle", "create", "rotate", "revokeAll", "unknown",
                  "updatePassword", "password.revokeAll"},
            user : Users \cup {None}, session : Ids \cup {None}, epoch : Epochs]
Job == [pc : {"idle", "find", "delete", "done"},
        now : SUBSET Ids, batch : SUBSET Ids, goal : SUBSET Ids]

NewRow(state, user, parent, epoch) ==
    [state |-> state, user |-> user, expired |-> FALSE, parent |-> parent, epoch |-> epoch]
Locals(pc, user, session, epoch) ==
    [pc |-> pc, user |-> user, session |-> session, epoch |-> epoch]
IdleRequest == Locals("idle", None, None, 0)
IdleJob == [pc |-> "idle", now |-> {}, batch |-> {}, goal |-> {}]

Init ==
    /\ row = [s \in Ids |-> NewRow("UNUSED", None, None, 0)]
    /\ pwd = [u \in Users |-> 0]
    /\ req = [r \in Requests |-> IdleRequest]
    /\ job = [j \in Jobs |-> IdleJob]
    /\ challenge = {}
    /\ calm \in BOOLEAN

-----------------------------------------------------------------------------
Stored(s) == row[s].state \in {"LIVE", "REVOKED"}
Live(s) == row[s].state = "LIVE"
Usable(s) == Live(s) /\ ~row[s].expired

At(r, pc) == req[r].pc = pc
Undisturbed == calm => \A x \in Requests : req[x].pc = "idle"
Begin(r, q) ==
    /\ req[r].pc = "idle"
    /\ Undisturbed
    /\ req' = [req EXCEPT ![r] = q]
Finish(r) == req' = [req EXCEPT ![r] = IdleRequest]

(* The row with revokedAt set, unless it was set before.                   *)
Revoke(w) == [state |-> IF w.state = "LIVE" THEN "REVOKED" ELSE w.state, user |-> w.user,
              expired |-> w.expired, parent |-> w.parent, epoch |-> w.epoch]

(* An await threw: rotation of a row that is gone (P2025), or any failure  *)
(* of the database.  The handler answers with an error and undoes nothing. *)
Reject(r) ==
    /\ ~At(r, "idle")
    /\ ~calm \/ (At(r, "rotate") /\ ~Stored(req[r].session))
    /\ Finish(r)
    /\ UNCHANGED <<row, pwd, job, challenge>>

-----------------------------------------------------------------------------
(* A session is to be granted; a later await inserts it.                   *)
Grant(r, u) ==
    /\ Begin(r, Locals("create", u, None, pwd[u]))
    /\ UNCHANGED <<row, pwd, job, challenge>>

(* login without a second factor: the stored hash is read and compared.    *)
StartLogin(r) == \E u \in Users : Grant(r, u)

(* login with one: the answer is an mfaToken.  Whether an account has a    *)
(* second factor, and when that changes, is left open (module TwoFactor).  *)
(* Bound: none is asked for after the last password change there is.       *)
Challenge(u) ==
    /\ Undisturbed
    /\ pwd[u] < MaxEpoch
    /\ challenge' = challenge \cup {u}
    /\ UNCHANGED <<row, pwd, req, job>>

(* verifyMfaLogin: the token and the code are good.  The password is not   *)
(* looked at again, and the token is as good the next time.                *)
RedeemChallenge(r) == \E u \in challenge : Grant(r, u)

(* Five minutes pass for the tokens of an account.                         *)
ExpireChallenge(u) ==
    /\ u \in challenge
    /\ challenge' = challenge \ {u}
    /\ UNCHANGED <<row, pwd, req, job>>

(* acceptInvitation signs in whom it was for, by the transaction that made *)
(* a member of an account that is new or has shown its access token.       *)
AcceptInvitation(r) == \E u \in Users : Grant(r, u)

(* createRefreshSession                                                    *)
CreateSession(r) ==
    /\ At(r, "create")
    /\ \E s \in Ids :
           /\ row[s].state = "UNUSED"
           /\ row' = [row EXCEPT ![s] = NewRow("LIVE", req[r].user, None, req[r].epoch)]
    /\ Finish(r)
    /\ UNCHANGED <<pwd, job, challenge>>

BugStartRefresh(r) ==
    /\ \E s \in Ids :
           /\ Stored(s)
           /\ ~row[s].expired
           /\ Begin(r, Locals("rotate", row[s].user, s, row[s].epoch))
    /\ UNCHANGED <<row, pwd, job, challenge>>

(* refresh: the JWT has not expired and the row is live: rotate it.        *)
StartRefresh(r) ==
    /\ \E s \in Ids : Usable(s) /\ Begin(r, Locals("rotate", row[s].user, s, row[s].epoch))
    /\ UNCHANGED <<row, pwd, job, challenge>>

(* refresh: the row is revoked.  Reuse: revoke every session of the user.  *)
StartReuse(r) ==
    /\ \E s \in Ids :
           /\ row[s].state = "REVOKED"
           /\ ~row[s].expired
           /\ Begin(r, Locals("revokeAll", row[s].user, None, 0))
    /\ UNCHANGED <<row, pwd, job, challenge>>

(* refresh: a token that verifies but has no row any more.                 *)
StartUnknown(r) ==
    /\ \E s \in Ids :
           /\ row[s].state = "GONE"
           /\ ~row[s].expired
           /\ Begin(r, Locals("unknown", None, None, 0))
    /\ UNCHANGED <<row, pwd, job, challenge>>

AnswerUnknown(r) ==
    /\ At(r, "unknown")
    /\ Finish(r)
    /\ UNCHANGED <<row, pwd, job, challenge>>

BugRotate(r) ==
    LET old == req[r].session
    IN  /\ At(r, "rotate")
        /\ Stored(old)
        /\ \E s \in Ids :
               /\ row[s].state = "UNUSED"
               /\ row' = [row EXCEPT ![s] = NewRow("LIVE", req[r].user, old, req[r].epoch)]
        /\ Finish(r)
        /\ UNCHANGED <<pwd, job, challenge>>

(* rotateRefreshSession: UPDATE by id, whatever revokedAt is by now, and   *)
(* INSERT of the successor, in one transaction.                            *)
Rotate(r) ==
    LET old == req[r].session
    IN  /\ At(r, "rotate")
        /\ Stored(old)
        /\ \E s \in Ids :
               /\ row[s].state = "UNUSED"
               /\ row' = [row EXCEPT ![old] = Revoke(@),
                                     ![s] = NewRow("LIVE", req[r].user, old, req[r].epoch)]
        /\ Finish(r)
        /\ UNCHANGED <<pwd, job, challenge>>

(* revokeAllUserSessions, after reuse or after a password change.          *)
RevokeAll(r) ==
    /\ At(r, "revokeAll") \/ At(r, "password.revokeAll")
    /\ row' = [s \in Ids |-> IF row[s].user = req[r].user THEN Revoke(row[s]) ELSE row[s]]
    /\ Finish(r)
    /\ UNCHANGED <<pwd, job, challenge>>

(* logout: revokeRefreshSessionByHash, one statement.                      *)
Logout(s) ==
    /\ Live(s)
    /\ row' = [row EXCEPT ![s] = Revoke(@)]
    /\ UNCHANGED <<pwd, req, job, challenge>>

StartChangePassword(r) ==
    /\ \E u \in Users :
           pwd[u] < MaxEpoch /\ Begin(r, Locals("updatePassword", u, None, 0))
    /\ UNCHANGED <<row, pwd, job, challenge>>

BugUpdatePassword(r) ==
    /\ At(r, "updatePassword")
    /\ pwd[req[r].user] < MaxEpoch
    /\ pwd' = [pwd EXCEPT ![req[r].user] = @ + 1]
    /\ Finish(r)
    /\ UNCHANGED <<row, job, challenge>>

(* The new hash is stored; the sessions are revoked by a second await.     *)
UpdatePassword(r) ==
    /\ At(r, "updatePassword")
    /\ pwd[req[r].user] < MaxEpoch
    /\ pwd' = [pwd EXCEPT ![req[r].user] = @ + 1]
    /\ req' = [req EXCEPT ![r] =
          Locals("password.revokeAll", req[r].user, None, 0)]
    /\ UNCHANGED <<row, job, challenge>>

(* Another change already used up the bound: the request is abandoned.     *)
AbandonChange(r) ==
    /\ At(r, "updatePassword")
    /\ pwd[req[r].user] = MaxEpoch
    /\ Finish(r)
    /\ UNCHANGED <<row, pwd, job, challenge>>

(* Seven days pass for one session.                                        *)
Expire(s) ==
    /\ row[s].state # "UNUSED"
    /\ ~row[s].expired
    /\ row' = [row EXCEPT ![s] = [state |-> @.state, user |-> @.user, expired |-> TRUE,
                                  parent |-> @.parent, epoch |-> @.epoch]]
    /\ UNCHANGED <<pwd, req, job, challenge>>

-----------------------------------------------------------------------------
(* The cleanup job.                                                        *)

BugDead(now) == {s \in Ids : Stored(s) /\ (row[s].state = "REVOKED" \/ s \notin now)}

(* Rows to delete: revoked by now, or expired when the job began.          *)
Dead(now) == {s \in Ids : Stored(s) /\ (row[s].state = "REVOKED" \/ s \in now)}

StartCleanup(j) ==
    LET now == {s \in Ids : Stored(s) /\ row[s].expired}
    IN  /\ job[j].pc = "idle"
        /\ job' = [job EXCEPT ![j] =
              [pc |-> "find", now |-> now, batch |-> {}, goal |-> Dead(now)]]
        /\ UNCHANGED <<row, pwd, req, challenge>>

(* findMany with take: BatchSize rows in any order, or all there are.      *)
FindBatch(j) ==
    /\ job[j].pc = "find"
    /\ \E batch \in SUBSET Dead(job[j].now) :
           /\ \/ Cardinality(batch) = BatchSize
              \/ Cardinality(batch) < BatchSize /\ batch = Dead(job[j].now)
           /\ job' = [job EXCEPT ![j] =
                 [pc |-> IF batch = {} THEN "done" ELSE "delete", now |-> @.now,
                  batch |-> batch, goal |-> @.goal]]
    /\ UNCHANGED <<row, pwd, req, challenge>>

(* The rows of the batch that are still there are deleted.                 *)
WithoutBatch(batch) ==
    [s \in Ids |-> IF s \in batch /\ Stored(s)
                   THEN [state |-> "GONE", user |-> row[s].user, expired |-> row[s].expired,
                         parent |-> row[s].parent, epoch |-> row[s].epoch]
                   ELSE row[s]]

BugDeleteBatch(j) ==
    /\ job[j].pc = "delete"
    /\ row' = WithoutBatch(job[j].batch)
    /\ job' = [job EXCEPT ![j] =
          [pc |-> IF Cardinality(@.batch) > BatchSize THEN "find" ELSE "done",
           now |-> @.now, batch |-> {}, goal |-> @.goal]]
    /\ UNCHANGED <<pwd, req, challenge>>

(* deleteMany, then another round when the fetch filled the batch.         *)
DeleteBatch(j) ==
    /\ job[j].pc = "delete"
    /\ row' = WithoutBatch(job[j].batch)
    /\ job' = [job EXCEPT ![j] =
          [pc |-> IF Cardinality(@.batch) = BatchSize THEN "find" ELSE "done",
           now |-> @.now, batch |-> {}, goal |-> @.goal]]
    /\ UNCHANGED <<pwd, req, challenge>>

(* The job returns; or an await of it threw and the job is dropped (BullMQ *)
(* may run it again from the start).                                       *)
EndCleanup(j) ==
    /\ \/ job[j].pc = "done"
       \/ ~calm /\ job[j].pc \in {"find", "delete"}
    /\ job' = [job EXCEPT ![j] = IdleJob]
    /\ UNCHANGED <<row, pwd, req, challenge>>

-----------------------------------------------------------------------------
RequestStep(r) ==
    \/ Reject(r)
    \/ StartLogin(r) \/ RedeemChallenge(r) \/ AcceptInvitation(r) \/ CreateSession(r)
    \/ StartRefresh(r) \/ StartReuse(r) \/ StartUnknown(r) \/ AnswerUnknown(r)
    \/ Rotate(r) \/ RevokeAll(r)
    \/ StartChangePassword(r) \/ UpdatePassword(r) \/ AbandonChange(r)

JobStep(j) == StartCleanup(j) \/ FindBatch(j) \/ DeleteBatch(j) \/ EndCleanup(j)

Next ==
    /\ \/ \E r \in Requests : RequestStep(r)
       \/ \E j \in Jobs : JobStep(j)
       \/ \E s \in Ids : Logout(s) \/ Expire(s)
       \/ \E u \in Users : Challenge(u) \/ ExpireChallenge(u)
    /\ UNCHANGED calm

Spec == Init /\ [][Next]_vars

-----------------------------------------------------------------------------
(* Properties.                                                             *)

(* Rows, locals and job data keep their types.                             *)
TypeOK ==
    /\ row \in [Ids -> Row]
    /\ pwd \in [Users -> Epochs]
    /\ req \in [Requests -> Request]
    /\ job \in [Jobs -> Job]
    /\ challenge \subseteq Users

(* A token and its successor are never both good: rotation revokes the old *)
(* session in the transaction that creates the new one, and nothing makes  *)
(* it live again, however refreshes, logouts and cleanups overlap.         *)
PredecessorIsDead ==
    \A s \in Ids : row[s].parent # None => ~Live(row[s].parent)

(* Cleanup deletes only sessions nobody can use: a row that disappears was *)
(* revoked or expired, although the ids were read in an earlier step.      *)
DeletesOnlyDead ==
    \A j \in Jobs : \A s \in job[j].batch : ~Usable(s)

(* A cleanup job that returns has removed every session that was revoked   *)
(* or expired when it started, although other jobs delete rows of its      *)
(* batches and requests revoke and create rows between its rounds.         *)
CleanupIsComplete ==
    \A j \in Jobs : job[j].pc = "done" => \A s \in job[j].goal : row[s].state = "GONE"

(* "should reject reuse of an already-rotated (revoked) refresh token"     *)
(* (tests/integration/auth-refresh.test.ts:60): a token is exchanged at    *)
(* most once.                                                              *)
RotatedOnce ==
    \A s, t \in Ids :
        (row[s].parent = row[t].parent /\ row[s].parent # None) => s = t

(* The same for requests that come one at a time, among logouts, expiry    *)
(* and cleanup: the check of revokedAt in refresh then suffices.           *)
CalmRotatesOnce == calm => RotatedOnce

(* "Invalidate all active refresh sessions for this user on password       *)
(* change" (auth.service.ts:311), for requests that come one at a time:    *)
(* once the change is complete, every usable session was granted after it, *)
(* or was rotated, any number of times, from one that was.  (An mfaToken   *)
(* from before the change still grants one after it: verifyMfaLogin does   *)
(* not look at the password.)                                              *)
CalmPasswordChange ==
    \A u \in Users :
        (calm /\ \A r \in Requests : ~(At(r, "password.revokeAll") /\ req[r].user = u)) =>
            \A s \in Ids : (row[s].user = u /\ Usable(s)) => row[s].epoch = pwd[u]

=============================================================================

# A TLA+ verification of the multi-tenant project management backend

The backend is an Express server over PostgreSQL (through Prisma), Redis and
BullMQ. Its handlers are asynchronous functions: between any two `await`s another
request, in this process or in another instance, can run. Few of them use a
transaction, none sets an isolation level, and almost all follow the same pattern:
read, decide, write. What can go wrong is therefore rarely visible in one handler
and hardly ever in a test that sends requests one after the other. The modules here
model the handlers await by await, so that TLC interleaves them, and TLAPS proves
for any number of users, rows and requests what survives every interleaving.

## Inventory

| component | state | operations | what is hard | correct when |
|---|---|---|---|---|
| organizations, members, invitations (`modules/organizations`, registration in `modules/auth`) | organizations, members (one row per user), invitations with a token and a status; Redis entries | register, create, rename, delete; cached reads; add, update and remove members; invite, resend, revoke, look up, accept | every check is made in an earlier await than its write; acceptance is a transaction that re-reads under READ COMMITTED | one organization per user; the owner stays; nobody joins uninvited |
| refresh sessions (`modules/auth`) | refresh_sessions, the password | login, second-factor challenge and its redemption, the session of an accepted invitation, refresh (rotation, reuse detection), logout, changePassword | two refreshes with one token; sessions created while all are being revoked, or on the strength of a check made before | a token and its successor are never both good |
| clean-up job (`jobs/services/cleanup.service.ts`) | deletes dead sessions and old notifications in batches | executeJob, concurrency 2 | ids are selected in one await and deleted in another | deletes what is dead or read, all of it and nothing else |
| two-factor authentication (`modules/auth`, `utils/totp.ts`) | `totpSecret`, `totpEnabled` | set up, verify and enable, disable, log in | the secret is read, verified and written back later | never on with a secret nobody verified |
| access-token revocation (`utils/bloom.ts`, auth middleware, socket handshake) | a Bloom filter and an exact set per process, a denylist in Redis | revoke, check | several processes, restarts, failures of Redis, times to live, tokens that are only decoded | what was revoked is refused while it lives; a collision refuses nobody |
| rate limiter (`middlewares/rate-limit.middleware.ts`) | a Redis counter per client | INCR, TTL, EXPIRE | three commands, each of which may fail | no more than the limit in a window; no block without end |
| agent loop (`modules/ai`) | counters, executed signatures, pending calls of one run | generate, dispatch, policy, execute | batches that straddle limits, repeats, refusals | bounded work, no repeats, an answer |
| activity log (`modules/activity`) | hash-chained rows | logActivity, verifyAuditChainIntegrity | read of the latest row and insert of the next are separate awaits; hashes are not keyed | verification accepts what the application wrote and nothing else |
| tasks (`modules/tasks`) | tasks, assignee rows | create, update, delete | status and assignees decided on a stale read; delete-and-insert under READ COMMITTED | status moves along the table; the primary assignee is one of the assignees |
| projects and read cache (`modules/projects`, `utils/cache.ts`) | projects, Redis entries | create, update, delete, cached reads | fill races invalidation; Redis errors are swallowed; unique keys found by reading | the cache returns to the database |
| attachments (`modules/attachments`) | a row and a file | upload, download, delete | two writes, nothing undone; rows are shared by the instances, disks are not | every row has its file |
| teams (`modules/teams`) | teams, member rows | create, update, delete | delete-and-insert under READ COMMITTED | members belong to the organization and are those asked for |
| comments and sockets (`modules/comments`, `config/socket.ts`) | comments; rooms; what clients show | create, update, delete, list; connect, join, leave, emit, close | events are emitted awaits after the write, in one process of several | clients show what was written |
| retrieval index (`modules/rag`) | chunks of entities | index an entity, index an organization, search | chunk by chunk, in jobs that fail half way and are tried again | no entity of another organization; whole entities |
| job queues, notifications, mail (`jobs`, `modules/notifications`) | jobs; notification rows | queue, run, retry, stall; create, read, clean up | a job that failed after its effect runs again; processes stop under running jobs | every job is settled; nothing is lost, nothing doubled without cause |
| Google link (`modules/integrations/google`) | encrypted tokens of one Google account per user | connect, disconnect, refresh a token | a refresh writes back what it read | tokens of two accounts are never mixed |
| meetings (`modules/meetings`, calendar provider) | meeting rows, events at Google | create, update, generate a Meet link, delete; the cascade of the organization | a row and a remote event, nothing undone | rows and events in step |
| dashboard, system, health, utilities, start-up | none of their own | read; wire up | | |

The components interact through the database (members are read by every
authorization; organizations, projects and tasks cascade on deletion), through
Redis (cache, revocation, counters), through the queues (e-mails, notifications,
indexing) and by calls: almost every service ends in `activityService.logActivity`,
which writes the log of module AuditChain, many in `queueNotification`, and meetings
ask the Google link for a token in the middle of their own work.

## Modules

| module | models | proofs | checked through |
|---|---|---|---|
| `Membership` | organizations, members, invitations | `MembershipProofs` | `MCMembership` |
| `Sessions` | refresh sessions and their clean-up | `SessionsProofs` | `MCSessions` |
| `AgentLoop` | one run of the agent orchestrator | `AgentLoopProofs` | `MCAgentLoop` |
| `Tasks` | tasks and assignees of a project | `TasksProofs` | `MCTasks` |
| `Projects`, `OrganizationCache` | the read cache in front of projects, and in front of organizations | `AccessProofs` | `ReadCache`, `MCReadCache` |
| `TokenRevocation` | filter, set and denylist; the checks of tokens | `AccessProofs` | `MCTokenRevocation` |
| `RateLimit`, `TwoFactor` | the limiter; the second factor of one account | `AccessProofs` | `Gateway`, `MCGateway` |
| `Attachments`, `Teams`, `Comments` | files and rows; teams; comments, rooms and clients | `CollaborationProofs` | `Collaboration`, `MCCollaboration` |
| `AuditChain` | the activity log of an organization | `CollaborationProofs` | `Collaboration`, `MCCollaboration` |
| `GoogleLink` | linked Google accounts | `MeetingsProofs` | `Meetings`, `MCMeetings` |
| `Meetings` | meetings and events, over `GoogleLink` | `MeetingsProofs` | `MCMeetings` |
| `JobQueue` | the life of a job in BullMQ | `WorkersProofs` | `Workers`, `MCWorkers` |
| `Delivery` | abstract: what whoever queues a job may rely on | `WorkersProofs` | `MCWorkers` |
| `RagIndex` | the index and its handlers, over `JobQueue` | `WorkersProofs` | `Workers`, `MCWorkers` |
| `Workers` | the worker process with all handlers, notifications | `WorkersProofs` | `MCWorkers` |

There are two kinds of composition. `Meetings` and `Workers` compose parts that
interact: a meeting request runs steps of `GoogleLink` in the middle of its own, and
the handlers of `RagIndex` run as jobs of `JobQueue`, fail with them and die with
their process. `Gateway`, `Collaboration` and `ReadCache` put parts side by side that
never read each other's state; a variable (`part`, in `ReadCache` `side`), chosen in the
initial state, says which one moves. That explores each part completely and their (uninformative) product not at
all.

### Conventions

*Requests.* `req[r]` (`call`, `hit`, `op`, `areq`, `treq`, `creq`, `flow`, `run`) is
the local state of a handler: `pc` names the await it has reached, the other fields
what it has read or was given. An action is the code from one await to the next. A
handler that answers with an error before it has written anything changes nothing;
its read steps are merged with the check that would fail, and only handlers that fail
later have a `Reject` or `Fail` step.

*Merged awaits.* Consecutive reads are one step where only the last one is compared
with anything written later or where the row read cannot change in a way the handler
would notice. Such merges are marked in the modules.

*Transactions* take effect at their commit, where the constraints are evaluated;
their reads are separate, earlier steps, because READ COMMITTED gives every statement
its own snapshot. Row locks are modelled where they decide the outcome (`Teams`);
elsewhere they only order transactions, and the orders they exclude are the same up to
renaming as the orders they allow.

*Constraints* of `schema.prisma` are guards of the writes (`MemberInsertable`,
`Insertable`, `NameFree`, `Free`, the `P2002` step of `Tasks`).
`OrganizationMember.userId` is `@unique` in `schema.prisma:152` but no migration
creates that index; the models follow the schema.

*History variables* (`goal` of a clean-up job, `assigned`, `tampered`, `mark`, `own`,
`admitted`, `shown`, `proven`, `asked`, `wasInOrg`, `goneAt`, `written`, `lastAt`,
`forked`, `left`, `floor`, `asof`, `lost`, and `seen` of a log writer) only record the past for a property.

*Environment variables* are chosen in the initial state and never change: `calm`
(`Sessions`, `Projects`, `Attachments`), `orderly` (`OrganizationCache`), `solo`
(`Tasks`), `alone` (`TwoFactor`, `Teams`), `quiet` (`Comments`), `world`
(`GoogleLink`, `RagIndex`). In one case requests come one at a time and, except for
`solo` and `alone`, nothing fails; in the other anything overlaps. Two exceptions: in
a quiet `RagIndex` jobs come one at a time but runs still fail, processes still die
and entities are still edited, and `calm` in `Attachments` excludes only failures and
the deletion of the task. In a quiet `Meetings` no server fails, but the database may
refuse a row and the organization may be deleted between two requests. Properties that begin with these words say what the code
promises a client that waits for its answers, the others hold or fail for every
behaviour. One run thus covers both.

*Bounds.* Id pools and counters are finite. Where exhausting them stops the model
although the server would go on, the configuration says `CHECK_DEADLOCK FALSE`.

*Bug definitions.* `BugX` in front of `X` is `X` with a plausible mistake; with it in
place of `X` the property named with it in `PROJECT.json` fails.

### Membership

`orgs`, `members`, `invs` are the tables, `accounts` the users that exist. Sending
the e-mail of an invitation, `logActivity`, notifications and the deletion of the cache
keys of organizations follow the writes and touch none of these tables. A token is a
generation number, `expired` says whether `expiresAt` has passed and is set by
`Expire`.

Acceptance is three steps: `StartAccept` (the service looks the token up and
checks the user), `AcceptRead` (the transaction re-reads the invitation by id and
the membership), `AcceptCommit` (insert of the member, ACCEPTED for this invitation,
INVALIDATED for the other pending ones, subject to the unique constraint).

### Sessions

A row has a user, a state (unused, live, revoked, gone), whether it expired, the
session it replaced (`parent`) and the password generation at which the session it goes
back to was granted (`epoch`); the last two are history. A session is granted
(`Grant`) in one await and inserted in a later one (`CreateSession`): by a login
(`StartLogin`; a registration is one, with the user new in the same transaction), by
the redemption of an mfaToken (`RedeemChallenge`) or by an accepted invitation
(`AcceptInvitation`, from the commit of its transaction). `challenge` are the accounts
for which somebody holds an mfaToken that has not expired: `Challenge` hands one out
after the password was compared, nothing consumes it, and redeeming it does not look at
the password again. Hence `epoch` is the generation at the redemption, and what that
leaves open is listed under the further behaviours. `changePassword` is `UpdatePassword` and
`RevokeAll`; it can stop in between, unless `calm`. `AbandonChange` ends a change
when the generations are used up and is only an artefact of that bound. Clean-up
jobs run `FindBatch` and `DeleteBatch` until a batch comes back short; `goal` is what
was dead when the job began. The recurring job is never scheduled by the code
(`scheduleRecurringCleanupJob` has no caller), so nothing is assumed about its
fairness.

### AgentLoop

The model's answers are arbitrary batches of at most `MaxBatch` calls, or text. A
call is its signature (name and `JSON.stringify` of the arguments: two orders of the
same keys are two calls). `Refused` are the calls the policy or the registry never
allows; `Mutations` those it counts.

### TokenRevocation

Time is counted in ticks: `life[t]` and `deny[t]` are what is left of a token and of
its entry in the denylist. `bits` and `exact` are the two local structures of each
process; `Indexes` says which positions a token hashes to, so that tokens can collide.
`StartCheck` and `ExistsReply` are the middlewares and the socket handshake (they
differ in what they answer when Redis fails, which is `ExistsFails`), `StartLogout` and
`RevokeCurrent` the two callers of `revoke`, whose local part happens before its first
await and whose `setex` may fail with nothing but a log line. `StartLogoutDecoded` is
logout with a token that does not verify: the route asks for no authentication, the
token is only decoded, and any `jti` with any `exp` gets to `revoke`. `mark` says how an
entry was stored last ("stored", "decoded"). Logout's last branch, a `jti` without an
access token, is never taken: without `authenticate` on the route there is no `jti`. `Restart` empties a
process. Nothing else makes one forget: `prune` has no caller, and `clearLocalState`
only a test that simulates restarts.

### RateLimit

INCR and TTL are two steps, EXPIRE a third: commands of one pipeline may interleave
with those of others. All counts beyond the limit are one. `fresh` tells a decision
that falls into the window it counted in from one that comes after it. `Bypass` is an
error of Redis (the request passes, uncounted by `admitted`) or the end of the
process.

### TwoFactor

One account. A code is modelled by the secret it belongs to, and a user can produce
codes of the secrets `setup` has shown. `WriteEnable` writes the secret back that was
read before the code was verified; `FinishOp` before the write is a failed await.

### Attachments, Teams, Comments

`Attachments`: `After` is the order of the awaits of the three handlers; each `Step`
reads or writes a row or a file. `FileFails` may end a request anywhere, `DropTask`
cascades to rows but not to files. `files[d]` is the directory of instance `d`:
`UPLOAD_DIR` is below the working directory of the process (`attachment.storage.ts:74`),
`docker-compose.yml` runs `api_1` and `api_2` without a volume for it, and nginx hands a
request to either. A request keeps the instance it was handed to (`at`), `goneAt`
remembers which one deleted a row. An instance keeps its files when it restarts;
recreating its container, which loses them, is not modelled.

`Teams`: the transaction of `updateTeam` is `BeginUpdate` (the snapshot of
`deleteMany`), `LockRows` (waits for rows another transaction holds, deletes those
that are still there; rows the same users got meanwhile are other rows,
`AnswerAndSkip`) and `Commit` (inserts, renames, or rolls back on a constraint).
`MoveMember` lets people leave and rejoin the organization.

`Comments`: `view[s]` is what the client behind socket `s` shows, `Unknown` where it
has not been told. `io` is a variable of the process, without an adapter between
processes: a socket and a request each belong to one of `Servers`, and `Tell`, both
emits of a handler, reaches the sockets of its own (`Hears`). `CloseSocketServer` and
`RestartServer` are per process; `lastAt` remembers which one served the last change of
a comment. A client that leaves its last
room forgets, one that lists shows what is stored. `members` is chosen initially and
constant: what a removal from the organization changes is listed under the further
behaviours.

### AuditChain

SHA-256 is assumed to be free of collisions: a hash is the sequence of everything
hashed into it. A body is what is hashed (user, entity, action; neither the metadata
nor `createdAt` is). Rows are in the order of their inserts, which `createdAt` is taken
to agree with. Any number of handlers log at the same time; `seen` and `forked` record
the first row that was inserted after one its handler had not seen.

One change is made from outside the application: `Edit` replaces a row, `Remove` deletes
one, `Slip` puts one in front of another. The hash is not keyed, so the new row may
carry the old hash, its own one computed anew after any hash that is stored, or none at
all (then it is taken for one from before hash chaining). `Covered` says which of these
changes the code can find; what it cannot is listed under the further behaviours.
The route of the verification (`activity.routes.ts:58`) is declared after
`/:entityType/:entityId` (`:39`), which matches the same path first.

### Tasks

`updateTask` is `FindTask` (read, check status, validate assignees),
`DeleteAssignees` (the snapshot of the transaction's `deleteMany`),
`WriteAssignees` (insert, update, commit) or `DuplicateKey`, and `Notify`. Rows have
ids, so that a user whose row was deleted and inserted again has another row. `emails`
counts assignment e-mails per task and user; the in-app notification goes to the same
users except the task's creator. All `Users` are members of the organization:
`validateAssignees` rejects the others, and membership changes are Membership's. The
deletion of a project deletes its tasks as `deleteTask` does.

### Projects

A cache key is a project id or a list query. `Miss`, `Fetch`, `Set` are `getOrSet`;
a hit changes nothing. Deleting by pattern is deleting every list key, one at a
time and in any order with the project's own key (`Promise.all`). With `Faults`, and
unless `calm`, Redis may fail any call (the code logs and goes on) and a handler may
stop anywhere. `ChangeTasks` is the effect of module Tasks on `_count.tasks`. The
organization of the projects exists throughout.

### OrganizationCache

The keys are organizations (`org:<id>`) and users (`user:<id>:orgs`). `LookUp`,
`FetchRows`, `StoreEntry` are `getOrSet` again; each write is what its service read
(`StartWrite`), the write, and `DeleteKeys`, one command for all keys of that write,
whose failure is swallowed. In the beginning one organization exists, with its owner and
any of the other users as members; `MaxWrites` bounds the writes. Name and slug are one
number, which each creation and update makes a new one; `_count.projects` is left out.
Who may do what is in Membership: here every operation has been authorized.

### GoogleLink and Meetings

`account` is the row of a user with the Google account it names and the accounts its
two tokens belong to. Connecting is `StartConnect`, `Lookup`, `UpsertRead`,
`UpsertWrite`; disconnecting `StartDisconnect`, `FindRow`, `DeleteRow`; refreshing
`TokenOf` and the same two steps of the upsert. In the quiet world Google may omit the
refresh token at a consent, in the busy one it always returns it (the code asks with
`prompt=consent`); with both, keeping the old refresh token of another account is
possible, and the model says so by separating them.

A meeting request reads its row (`Start...`), asks for a token (`AskToken`, then steps
of `GoogleLink`), calls Google (`CreateEvent`, `UpdateEvent`, `DeleteEvent`,
`CallFails`) and writes (`WriteNew`, `WriteRow`, `DeleteMeeting`, `WriteFails`). A
deletion goes on when Google fails, everything else ends there. `WriteFails` is also
possible where nothing else fails: no handler checks that the task a meeting names
exists, and the foreign key refuses the row after the event was made.
`DeleteOrganization` is the cascade of the schema: the rows go, Google is not told.
`left` are the events that lost their row in one of these ways. What people do in
their calendars by hand is not modelled. `Reaches` says whether
the token is of the account that has the event.

### JobQueue, Delivery, RagIndex, Workers

`job[j]` is a job as BullMQ keeps it: attempts that failed, stalls, and `sync` for a
handler called within the request (`sync=true`), which is not tried again. `run[j]` is
its handler in the worker process and is lost in a `Crash`, which also stands for
`close(true)`. `Throws` may follow any call of a handler, before or after its effect.

A handler of `RagIndex` reads one entity (or the lists of an organization, as one
read), upserts one chunk per await and deletes the chunks beyond the last. Versions
count edits in the quiet world; in the busy one only lengths matter. Entities in `Logs`
are activity logs, which are never edited, and of which a batch reads the newest 500
(`rag.service.ts:260`): any `Recent` of them, and a run that is tried again may read
others, because new ones arrive. What a batch is to index is therefore what its last run
has read (`Due`, `asof`); a log it read in an earlier run may be left with some of
its chunks. Nothing in the
program queues an index job when an entity changes, and nothing queues
`delete-entity`.

`note[<<j, k>>]` is what the k-th run of job `j` wrote. `Delivery` knows only whether
a job is settled and how often its handler started; `JobQueue!Promise` is the mapping.

## Runs

Distinct states as TLC counts them.

| run | bounds | shows |
|---|---|---|
| `membership` | 2 users, 2 organizations, 2 invitations, 2 requests, 2 token generations; 743 000 states | one organization per user; the owner keeps the OWNER role; members were invited; deleted organizations stay empty; joining and accepting are one step |
| `sessions` | 1 user, 3 sessions, 2 requests, 1 job, batches of 1, calm or failing; 3.9 million | a session and its successor are never both live; clean-up deletes only dead rows, and all that were dead when it began; calm: tokens rotate once, a password change ends the sessions granted before it |
| `agent_loop` | 6 calls, 4 steps, 6 calls allowed, 3 mutations, batches of 3; 36 000 | bounded work, no repeats, mutation budget, termination |
| `tasks` | 2 users, 1 task, 2 updates, 3 writes, bodies that ask for DONE or CANCELLED; 1.5 million | the primary assignee is an assignee; solo: transitions along the table, no duplicate e-mails |
| `read_cache` | projects: 2 projects, 1 key, 1 list, 2 handlers; organizations: 2 organizations, 2 users, 2 handlers, 2 writes; one handler at a time or overlapping and failing; 1.04 million | one at a time: entries agree with the rows, as far as the deleted keys reach; always: the cache agrees with the database in the end |
| `revocation` | 2 tokens that collide in the filter, 2 processes, 2 requests, tokens of 2 ticks, entries of up to 3; 3.4 million | a stored revocation holds everywhere and outlives its token; a collision refuses nobody |
| `gateway` | limiter: 1 client, 2 requests, window of 2 ticks, limit 2; second factor: 3 secrets, 2 requests; 15 000 | no window admits more than its limit; a block ends; only verified secrets are on |
| `collaboration` | 2 files, 2 requests and 2 instances; 2 teams, 2 names, 2 people and 2 requests; 1 comment, 2 texts, 2 users (one a moderator), 2 requests, 1 socket that joins one room at a time, 2 processes; 2 log writers, 4 rows of which 3 are fetched and 1 may be a legacy row, 1 change from outside; 2.4 million | rows have files; teams hold who was asked for; clients show what was written; an untouched log fails only if it was forked, a covered change is found |
| `meetings` | 2 users, 2 Google accounts, 2 requests, 1 meeting, 2 events, quiet or busy; 2.6 million | accounts are never mixed; a Meet link has an event; quiet: rows and events are in step |
| `workers` | 2 jobs of any kind, 2 attempts, 1 stall, 2 faults, 2 organizations, 1 entity of up to 2 chunks and 2 versions, 1 activity log that a batch reads or does not (when quiet), batches of 1; 2.7 million | the index is isolated and never loses an entity; quiet: it shows one whole, current version; nothing is delivered twice without a lost run; unread notifications stay |
| `delivery` | 2 jobs, 1 organization, 1 entity and 1 activity log, 1 fault; 201 000 | `Workers` implements `Delivery`, liveness included |
| `rotation_race` | as `sessions`, batches of 2 | a violation: see the findings |

Why these bounds: the races of this code involve two handlers and one row; two token
generations tell an old token from a new one; three sessions are a token, its
successor and a second successor or an unrelated login; batches of one make a
clean-up job take several rounds; limits one below and one above the batch size make
batches straddle them; DONE and CANCELLED are the pair the status table forbids in
both directions. Two tokens with the same positions are the worst a Bloom filter can
do. An entry of three ticks for tokens of two is the relation of 900 s to 15 min plus
a delay. Two chunks are one that stays and one that becomes an orphan; two attempts
and one stall let a job fail, stall and succeed in one behaviour; a log next to another
entity lets one run of a batch read both and the next one only the other
(`LogsWhenQuiet` drops the log from the busy world, where it would be an entity like
any other that nobody edits). Two instances are the one that serves a request and
another one; three rows that are fetched are a row, the one it continues and the one
that continues it, and the fourth is beyond what is fetched. Two people with two
accounts can swap them. The worker runs two clean-up jobs at a time: that case for
sessions, like any number of users, rows and requests, is left to the proofs.

### Findings

The run `rotation_race` checks one sentence of the repository
(`auth-refresh.test.ts:60`, quoted in `PROJECT.json`) and TLC shows how the code
departs from it: two refreshes find the token live, and both rotate.

The models contain further behaviours that a sentence of the repository excludes or a
reader would not expect. Each was met with TLC while the modules were written; no run
is kept for them.

* A revoked invitation is accepted: accept reads PENDING, revoke commits, accept
  commits (`organization.repository.ts:489`).
* An invitation that was accepted turns PENDING again: re-invite or resend reads
  PENDING, the acceptance commits, the handler writes (`organization.service.ts:291`;
  `tests/integration/invitations.test.ts:910` "leaves pending invitations").
* A replaced token still joins: accept looks the token up, resend replaces it, the
  transaction re-reads by id (`organization.repository.ts:360`;
  `invitations.test.ts:1008` "resend invalidates the old token").
* A renewed invitation is marked EXPIRED: a lookup finds the date passed, resend
  renews it, the lookup writes (`organization.service.ts:686`; same test).
* An ADMIN changes an ADMIN: the check sees a MEMBER, the owner promotes the member,
  the request writes (`organization.service.ts:385`; `:373` "Only organization owners
  can modify admin members").
* A session outlives a password change: a login checks the old password, the change
  completes, the login inserts its session (`auth.service.ts:312`; `:311` "Invalidate
  all active refresh sessions").
* Without any overlap, an mfaToken that was handed out for the old password makes a
  session after the change, any number of times in its five minutes, and so does an access
  token of at most 15 minutes with which an invitation is accepted: neither path looks
  at the password again (`auth.service.ts:368`, `organization.service.ts:655`; same
  sentence).
* A user is e-mailed twice: two updates read the same assignees and add the same user
  (`task.service.ts:313`; `tasks-assignment.test.ts:820`).
* Overlapping updates that assign the same user end in a duplicate key: both
  transactions delete before either commits (`task.repository.ts:262`;
  `tasks-assignment.test.ts:683` "without duplicate key violations").
* Cached projects keep an old `_count.tasks` until they expire: tasks delete no cache
  entry (`task.service.ts:90`; `UNDERSTANDING.md:12` "automatic invalidation").
* A renamed or deleted organization keeps its old entry in the lists of its members until
  that expires: only the organization's own key is deleted (`organization.service.ts:187`,
  `:215`; same sentence). Its cached `_count.projects` is old after a project is created
  (`project.service.ts:86`), and projects of a deleted organization stay cached.
* A token that comes back after clean-up deleted its row is unknown, and no reuse is
  detected (`cleanup.service.ts:34`).
* Two handlers that log at the same time read the same latest row, and from then on
  verification fails on a log nobody touched (`activity.service.ts:24`). Removing one of
  the two rows makes it verify.
* Changes of the log that verification does not find: the last row is replaced (with its
  hash computed anew), or deleted; a row without `_security` is inserted anywhere, or
  stands in for the last one (`activity.service.ts:90`); metadata other than `_security`,
  or `createdAt`, is changed without changing the order; anything beyond the rows that are
  fetched (`:66` "no audit records have been inserted, modified, or deleted").
* Two updates of a task read TODO, one writes DONE and the other CANCELLED
  (`task.service.ts:300`).
* A reader fetches a project, a writer writes and invalidates, the reader stores what
  it fetched (`cache.ts:73`).
* When two-factor set-ups overlap, the verified earlier secret is written back over the
  one shown last (`auth.service.ts:349`).
* A revocation that fails in Redis holds only on the process that took it, until that
  restarts (`bloom.ts:117`).
* Logout with a token that does not verify stores the entry of the `jti` it states anew,
  for as long as it states; if that is shorter than before, other processes let the
  revoked token through again (`auth.service.ts:268`; `bloom.ts:138` "works across
  multiple backend instances").
* A deletion of an attachment that the other instance serves removes the row and finds no
  file, which stays for ever, and a download there answers 404 (`attachment.storage.ts:220`,
  `attachment.service.ts:127`).
* A client that is connected to the other instance than the one that serves a change of a
  comment is not told of it (`socket.ts:264`).
* A batch job ends well although no more than the newest 500 activity logs were indexed, and a
  log that was half indexed by a run that failed may no longer be among them when it is
  tried again (`rag.service.ts:260`).
* Two overlapping updates of a team leave the members of both
  (`team.repository.ts:83`).
* Events of overlapping requests arrive out of the order of their writes: a client may
  show the older text (`comment.service.ts:136`).
* A user who is removed from an organization stays in the rooms of its projects and
  tasks and goes on hearing their events: nothing takes a socket out of a room
  (`socket.ts:143`).
* A refresh of an access token that overlaps a disconnect brings the Google row back
  (`google.service.ts:237`).
* A meeting request that fails after its call to Google, or overlaps another, leaves an
  event without a row or a row without an event, or a row without the link that another
  one wrote (`meeting.service.ts:66`, `:305`). Without any failure or overlap, a meeting
  whose task does not exist leaves its event (`:124`), and a deleted organization leaves
  all of them (`schema.prisma:404`).
* Two index jobs of one entity that overlap leave chunks of two versions
  (`rag.worker.ts:7`).
* When `logActivity` throws, the change it was to log stays and its row is missing
  (`activity.service.ts:24`).

### Fairness

Safety runs assume none. `agent_loop` assumes that the loop goes on: every call of the
model has a timeout (`timeoutMs`) and the registry turns exceptions into results.
`read_cache` assumes that a handler that has started goes on or fails, and that Redis
expires entries, which `setex` guarantees; nothing is assumed about new requests.

`gateway` (for the limiter): time passes (weak fairness of `LimitTick`), and strong
fairness of INCR, TTL and EXPIRE for every client: Redis does not fail for ever and
the client keeps asking. The second is needed: a counter that lost its EXPIRE gets one
only from a later request of the same client. Nothing is assumed about `Bypass`.

`delivery`: weak fairness of each job's worker. BullMQ hands out waiting and delayed
jobs, a process that dies is restarted by its supervisor, and finds stalled jobs
(its default `stalledInterval`). Faults are bounded, runs are bounded by `attempts` and
`maxStalledCount`.

## Proofs

All proofs are checked by TLAPS for every value of the constants. Every invariant and
every action property that a passing run checks is a theorem; TLC checked the
strengthened invariants first, on the bounds of the runs.

* **Membership.** `Inv` is the type invariant, facts about the tables and a fact
  about each request. The properties alone are not inductive: that the owner stays
  depends on what a request that is about to write a role or remove a member knows
  (its target is not an owner, and since OWNER is never assigned nobody becomes one
  in between), and that members were invited on what an acceptance in flight has read.
  `ReqOK` states that knowledge per `pc`. From `Inv` follow `OneOrganizationPerUser`,
  `OwnerIsPinned`, `NobodyJoinsUninvited`, `DeletionIsFinal` and the action property
  `JoiningConsumesInvitation`.
* **Sessions.** `Inv` adds to the types that parents are used, dead and of the same
  user (`Lineage`), what a request holds (`ReqOK`) and what a job holds (`JobOK`:
  its batch is dead, its goal is dead or gone). The key lemma is that rows only move
  forward: live, revoked or expired, gone. Theorems `RotationReplaces`,
  `CleanupSparesUsable`, `CleanupRemovesAll`. With requests one at a time, `Sequential`
  holds as well: one request is at work, the session it is about to rotate has no
  successor yet, the password as of which it is to insert a session is the current one,
  and usable sessions go back to the current password unless a change has still to revoke
  them. From it
  follow `SequentialRotation` and `SequentialPasswordChange`: overlap is the only
  reason for the violation `rotation_race` shows.
* **AgentLoop.** The queue never exceeds what is left of the call limit, executed
  calls are in `signatures`, and the mutations that ran are counted. Theorems
  `WorkIsBounded`, `NoCallRepeats`, `MutationsAreBounded`.
* **Tasks.** `PrimaryAgrees` holds for any overlap, from the types alone: the write
  that sets the primary assignee inserts its row. `SequentialStatus` and
  `SequentialAlerts` state `SoloStatus` and `SoloAlertedOnce` for any number of users,
  tasks and requests, failures and deletions included: overlap is the only reason why
  they fail without `solo`. Their invariant `SeqInv` says that at most one update is
  at work, that until its commit what it has read is still true (`ReadIsCurrent`), and
  that after it the e-mails it owes are covered (`OwesEmails`).
* **Access** (`AccessProofs`: what stands between a request and the tables).
  *Rate limiter:* the counter pays for what was admitted and for the requests that
  counted in the present window and have not decided yet (`Paid`); that is what makes
  `WindowBound` inductive when INCR, TTL and EXPIRE of several requests interleave,
  fail, or come after the key has expired (`WindowIsBounded`).
  *Second factor:* `TotpInv` says that a secret which is enabled, or which an operation
  is about to write back as enabled, was proven by its owner, and with operations one
  at a time is the one shown last (`NobodyIsLockedOut`).
  *Read cache:* `CalmProjects` and `OrderlyOrganizations` say that one handler is at work,
  that what it is about to store is still what the rows say, and that every entry is, but
  for those the handler has still to delete (`ProjectReadsAreFresh`,
  `OrganizationReadsAreFresh`).
  *Revocation:* the invariant relates the four places a revocation can be: while `mark`
  is "stored", the entry lives at least as long as the token; a `setex` in flight
  for a token that verified carries a time to live no shorter than what is left of the
  token; what a process was
  asked to revoke is in its set and its filter. `TtlAssumption` (the default of
  `revoke` is not shorter than the life of a token) is what the password change rests
  on (`RevocationHolds`, `CollisionsAreHarmless`).
* **Collaboration.** One invariant per part. Files: a key in use belongs to one upload,
  the position of a request says whether its file, on the disk of its instance, and its
  row are there, and without failures a file without its row is one whose row another
  instance deleted (`FileInv`; `RowsHaveFiles`). Teams: names checked in an earlier await were members then
  (`wasInOrg`), and when requests come one at a time what the transaction deleted is
  all there was (`TeamInv`; `TeamsFollowRequests`). Comments: what a request is about to
  write is its author's to write, and what it is about to tell was written
  (`CommentInv`; `CommentEventsHold`); with one request at a time, what a client shows
  differs from the rows only in the comment that request has still to tell of, and in
  comments that another process changed last (`QuietInv`; `ClientsCatchUp`). Log: rows from before hash chaining come first,
  hashes grow along what a handler has seen, and an untouched log continues row by row up
  to `forked`, where a row repeats a previous hash that an earlier one has; a touched
  one has a fetched row that does not continue its predecessor, or does not fit its own hash,
  which no later row mends (`LogInv`; `UntouchedLogVerifies`, `TamperedLogFails`). Both hold
  for any number of handlers that log at the same time.
* **Meetings.** `Distinct` and `RowOK` (in the busy world the tokens of a row are of the
  account it names) are inductive together with what a flow in flight holds (`FlowOK`);
  `LinksNeverMix` follows. A Meet link goes with an event by the time a row is written
  (`MeetLinkHasEvent`). For `QuietStaysInStep` the invariant `InStep` says that one
  request is at work, that every event a row names exists except that of the row it is
  deleting (`NamedAlive`), that every event has a row, or is about to get one, or is in
  `left`: its deletion had no access, its row was refused or its organization deleted
  (`AliveNamed`), and that what the request has read
  is still so (`Knows`).
* **Workers.** `JobOK` bounds failures and stalls, from which `TypeCorrect` also gets that no
  handler is started more than `Attempts + MaxStalls` times (`WithinLimits`); `RunOK` says what a handler holds:
  entities of the organization of its job, rows that were read. Theorems
  `IndexIsIsolated`, `EntitiesStayFindable`, `UnreadIsKept`. For `DeliveredOnce`, `RowsOf`
  says which runs of a job have left a row: as many as were lost after their effect,
  and the present one from its write to its end, so that the count is right at every
  point where a run can throw or its process die. For `SequentialIndex`, `QuietOK` says
  that one job is pending, that until it is settled nothing is claimed of the index, and
  that its run accounts for every entity it covers: the index shows it whole, or it is
  in hand with its first chunks written, or it is still in the list the run has read
  (`Progress`). `WorkersImplementDelivery`: every behaviour of `Workers` satisfies the
  safety part of `Delivery`, by mapping each action to one of its steps or to a stutter.

The assumptions are those of the modules: `None` and its like are no user, no id, no
key and no row; the bounds are natural numbers; there is an organization to cache; the
statuses asked for are statuses; the default time to live is not shorter than a token's
life. No theorem has a hypothesis of its own: those about requests one at a time take that
from the environment variable of their module and hold of the specification as it
stands.

The type invariant of each module that has one is a theorem (`TypeCorrect`,
`TypesCorrect`, `GatewayTypeCorrect`, `RevocationTypeCorrect`, `CacheTypeCorrect`) or
part of an inductive invariant (`LogInv`).

Only model-checked: the liveness properties (`Terminates`, `CacheCatchesUp`,
`BlockEnds` and the liveness of `KeepsPromise`), and the violation. Out of the prover's
reach are liveness under fairness, ENABLED, and induction over what a recursive
definition computes.

## Not modelled

* `_count.projects` of a cached organization, and the deletion of an organization while
  its projects are cached (see the further behaviours).
* Dashboard, system and health endpoints only read. Utilities (encryption, pagination,
  formatting) and validation schemas keep no state.
* Sockets: events of modules other than comments, and the presence of users in several
  tabs.
* How many jobs a worker runs at once; embeddings and similarity (which chunks a search
  ranks first); projects, tasks and comments in the index, which are alike; `deleteEntity`,
  which nothing calls; the lists of a batch are one read.
* The arithmetic of RFC 6238; the headers of the rate limiter; the validation of
  attachments; which of several refusals a request gets.
* The free-standing calendar and meet endpoints, which keep no state here; start-up,
  configuration and deployment. The end of the worker process and of the socket server
  are actions.

## Plan

Done, in this order: Membership, Sessions, AgentLoop, AuditChain, Tasks, Projects;
TokenRevocation, RateLimit and TwoFactor; Attachments, Teams, Comments; GoogleLink and
Meetings; JobQueue, Delivery, RagIndex, Workers; OrganizationCache and ReadCache.

1. Proofs over what is modelled: the invariants and action properties are done; what
   is left are lemmas from which the liveness properties follow (that each step of a
   handler lowers a measure), so that only the fairness argument stays with TLC.
2. Membership that changes under `Comments`, and the events of the other modules.
3. An abstract session store in which rotation is atomic, and a register that
   `Projects` with its cache implements when handlers do not overlap.

-------------------------------- MODULE Comments --------------------------------
(***************************************************************************)
(* Comments of one task and the sockets their changes are announced to     *)
(* (src/modules/comments, src/config/socket.ts).  A request writes its     *)
(* row, logs the activity and queues a notification in further awaits, and *)
(* emits last.  A socket that is in a room stays there until it leaves or  *)
(* disconnects; whether its user is a member is asked once, when it joins. *)
(* io is a variable of the process and has no adapter: an emit reaches the *)
(* sockets of the process that served the request and no others, and       *)
(* docker-compose.yml runs two of them behind nginx.                       *)
(***************************************************************************)
EXTENDS Naturals

CONSTANTS
    Users, Moderators,   \* the latter are OWNER or ADMIN while they are members
    CommentIds, Texts,
    CommentRequests,     \* request slots
    Sockets,
    Servers,             \* processes of the API
    Nobody

ASSUME CommentAssumption ==
    /\ Moderators \subseteq Users
    /\ Nobody \notin Users \cup CommentIds \cup Servers
    /\ {"unknown", "deleted", "absent"} \cap Texts = {}

VARIABLES
    members,    \* environment: user ids of the organization's members
    taskRow,    \* the task is there
    comment,    \* rows of comments
    creq,       \* what each request is doing
    socket,     \* user, process, rooms and unfinished joins of each socket
    view,       \* what each socket's client shows for each comment
    up,         \* processes whose io is not null
    written,    \* history: what the author of each comment has written in it
    lastAt,     \* history, when quiet: the process that served the last change
                \* of each comment
    quiet       \* environment: requests come one at a time, nothing fails, the task stays

commentVars == <<members, taskRow, comment, creq, socket, view, up, written, lastAt, quiet>>

Rooms == {"task", "project"}
Unknown == "unknown"
Deleted == "deleted"
Absent == "absent"

(* text: what is stored; Absent before the row is there, Deleted after.    *)
Stored == Texts \cup {Absent, Deleted}
CommentRequest ==
    [pc : {"idle", "insert", "find", "write", "tell"},
     kind : {"none", "create", "update", "delete"}, comment : CommentIds \cup {Nobody},
     by : Users \cup {Nobody}, text : Stored, at : Servers \cup {Nobody}]
NewCommentRequest(pc, kind, c, by, text, at) ==
    [pc |-> pc, kind |-> kind, comment |-> c, by |-> by, text |-> text, at |-> at]
NoCommentRequest == NewCommentRequest("idle", "none", Nobody, Nobody, Absent, Nobody)
NewSocket(user, at, rooms, joining) ==
    [user |-> user, at |-> at, rooms |-> rooms, joining |-> joining]
NoSocket == NewSocket(Nobody, Nobody, {}, {})
NoView == [c \in CommentIds |-> Unknown]

(* An organization is never without its OWNER.                             *)
CommentInit ==
    /\ members \in {m \in SUBSET Users : m \cap Moderators # {}}
    /\ taskRow = TRUE
    /\ comment = [c \in CommentIds |-> [author |-> Nobody, text |-> Absent]]
    /\ creq = [r \in CommentRequests |-> NoCommentRequest]
    /\ socket = [s \in Sockets |-> NoSocket]
    /\ view = [s \in Sockets |-> NoView]
    /\ up = Servers
    /\ written = [c \in CommentIds |-> {}]
    /\ lastAt = [c \in CommentIds |-> Nobody]
    /\ quiet \in BOOLEAN

There(c) == comment[c].text \in Texts
Unused(c) == comment[c].text = Absent

AtStep(r, pc) == creq[r].pc = pc
Respond(r) == creq' = [creq EXCEPT ![r] = NoCommentRequest]
(* A request that has written knows what to emit.                          *)
Written(r, c) ==
    /\ creq' = [creq EXCEPT ![r] =
          NewCommentRequest("tell", "none", c, Nobody, creq[r].text, creq[r].at)]
    /\ lastAt' = IF quiet THEN [lastAt EXCEPT ![c] = creq[r].at] ELSE lastAt

-----------------------------------------------------------------------------
(* A member asks for a comment, a change of one, or its deletion; the      *)
(* first thing read is the task (validateTaskInOrg).  Any process may be   *)
(* handed the request.                                                     *)
StartComment(r, u, p) ==
    /\ AtStep(r, "idle")
    /\ quiet => \A x \in CommentRequests : AtStep(x, "idle")
    /\ p \in up
    /\ u \in members
    /\ taskRow
    /\ \/ \E t \in Texts :
             creq' = [creq EXCEPT ![r] = NewCommentRequest("insert", "create", Nobody, u, t, p)]
       \/ \E c \in CommentIds, t \in Texts :
             /\ ~Unused(c)
             /\ creq' = [creq EXCEPT ![r] = NewCommentRequest("find", "update", c, u, t, p)]
       \/ \E c \in CommentIds :
             /\ ~Unused(c)
             /\ creq' = [creq EXCEPT ![r] = NewCommentRequest("find", "delete", c, u, Deleted, p)]
    /\ UNCHANGED <<members, taskRow, comment, socket, view, up, written, lastAt, quiet>>

BugMayChange(q) == comment[q.comment].author = q.by \/ q.by \in Moderators

(* Only its author edits a comment; a moderator may delete it as well.     *)
MayChange(q) ==
    \/ comment[q.comment].author = q.by
    \/ q.kind = "delete" /\ q.by \in Moderators

(* findCommentById and the permission.                                     *)
FindComment(r) ==
    LET q == creq[r]
    IN  /\ AtStep(r, "find")
        /\ IF There(q.comment) /\ MayChange(q)
           THEN creq' = [creq EXCEPT ![r].pc = "write"]
           ELSE Respond(r)
        /\ UNCHANGED <<members, taskRow, comment, socket, view, up, written, lastAt, quiet>>

(* createComment, or its foreign key has no task any more.                 *)
InsertComment(r) ==
    LET q == creq[r]
    IN  /\ AtStep(r, "insert")
        /\ \/ /\ taskRow
              /\ \E c \in CommentIds :
                    /\ Unused(c)
                    /\ comment' = [comment EXCEPT ![c] = [author |-> q.by, text |-> q.text]]
                    /\ written' = [written EXCEPT ![c] = {q.text}]
                    /\ Written(r, c)
           \/ /\ ~taskRow \/ \A c \in CommentIds : ~Unused(c)
              /\ Respond(r)
              /\ UNCHANGED <<comment, written, lastAt>>
        /\ UNCHANGED <<members, taskRow, socket, view, up, quiet>>

(* The row an update or delete by id needs (P2025 without it).             *)
Writable(c) == There(c)

(* updateComment, deleteComment                                            *)
WriteComment(r) ==
    LET q == creq[r]
        c == q.comment
    IN  /\ AtStep(r, "write")
        /\ IF Writable(c)
           THEN /\ comment' = [comment EXCEPT ![c] = [author |-> @.author, text |-> q.text]]
                /\ written' = [written EXCEPT ![c] =
                      IF q.by = comment[c].author THEN @ \cup {q.text} ELSE @]
                /\ Written(r, c)
           ELSE Respond(r) /\ UNCHANGED <<comment, written, lastAt>>
        /\ UNCHANGED <<members, taskRow, socket, view, up, quiet>>

BugAnnounced == {"task"}

(* emitToTask and emitToProject.                                           *)
Announced == {"task", "project"}

(* The sockets of process p that are in a room of the comment.             *)
Hears(s, p) == p \in up /\ socket[s].at = p /\ socket[s].rooms \cap Announced # {}

(* logActivity and, for a new comment, queueNotification are done: what    *)
(* was written is emitted.                                                 *)
Tell(r) ==
    /\ AtStep(r, "tell")
    /\ view' = [s \in Sockets |->
          IF Hears(s, creq[r].at) THEN [view[s] EXCEPT ![creq[r].comment] = creq[r].text] ELSE view[s]]
    /\ Respond(r)
    /\ UNCHANGED <<members, taskRow, comment, socket, up, written, lastAt, quiet>>

(* An await throws; what is written stays, and is not announced.           *)
CommentFails(r) ==
    /\ ~quiet
    /\ ~AtStep(r, "idle")
    /\ Respond(r)
    /\ UNCHANGED <<members, taskRow, comment, socket, view, up, written, lastAt, quiet>>

-----------------------------------------------------------------------------
(* A client with a valid token connects, to whichever process.             *)
Connect(s, u, p) ==
    /\ p \in up
    /\ socket[s] = NoSocket
    /\ socket' = [socket EXCEPT ![s] = NewSocket(u, p, {}, {})]
    /\ UNCHANGED <<members, taskRow, comment, creq, view, up, written, lastAt, quiet>>

(* join_project, join_task: the user is a member now ...  Bound: a client  *)
(* joins one room at a time.                                               *)
CheckMember(s, x) ==
    /\ socket[s].joining = {}
    /\ socket[s].user \in members
    /\ socket' = [socket EXCEPT ![s].joining = {x}]
    /\ UNCHANGED <<members, taskRow, comment, creq, view, up, written, lastAt, quiet>>

(* ... and the room is joined once the project or the task is found.       *)
JoinRoom(s, x) ==
    /\ x \in socket[s].joining
    /\ socket' = [socket EXCEPT
          ![s].joining = @ \ {x},
          ![s].rooms = IF x = "task" /\ ~taskRow THEN @ ELSE @ \cup {x}]
    /\ UNCHANGED <<members, taskRow, comment, creq, view, up, written, lastAt, quiet>>

(* A client forgets what it showed when its last room is gone.             *)
LeaveRoom(s, x) ==
    /\ x \in socket[s].rooms
    /\ socket' = [socket EXCEPT ![s].rooms = @ \ {x}]
    /\ view' = [view EXCEPT ![s] = IF socket[s].rooms = {x} THEN NoView ELSE @]
    /\ UNCHANGED <<members, taskRow, comment, creq, up, written, lastAt, quiet>>

Disconnect(s) ==
    /\ socket[s] # NoSocket
    /\ socket' = [socket EXCEPT ![s] = NoSocket]
    /\ view' = [view EXCEPT ![s] = NoView]
    /\ UNCHANGED <<members, taskRow, comment, creq, up, written, lastAt, quiet>>

(* getComments for a client that is in a room: what it lists it shows.     *)
ListComments(s) ==
    /\ socket[s].rooms # {}
    /\ socket[s].user \in members
    /\ taskRow
    /\ view' = [view EXCEPT ![s] = [c \in CommentIds |-> comment[c].text]]
    /\ UNCHANGED <<members, taskRow, comment, creq, socket, up, written, lastAt, quiet>>

(* closeSocketServer: what requests that are under way emit goes nowhere.  *)
CloseSocketServer(p) ==
    /\ p \in up
    /\ up' = up \ {p}
    /\ socket' = [s \in Sockets |-> IF socket[s].at = p THEN NoSocket ELSE socket[s]]
    /\ view' = [s \in Sockets |-> IF socket[s].at = p THEN NoView ELSE view[s]]
    /\ UNCHANGED <<members, taskRow, comment, creq, written, lastAt, quiet>>

(* The process ends with its requests and a new one starts.                *)
RestartServer(p) ==
    /\ p \notin up
    /\ up' = up \cup {p}
    /\ creq' = [r \in CommentRequests |->
                   IF creq[r].at = p THEN NoCommentRequest ELSE creq[r]]
    /\ UNCHANGED <<members, taskRow, comment, socket, view, written, lastAt, quiet>>

-----------------------------------------------------------------------------
(* The task is deleted and its comments with it (Cascade), unannounced.    *)
RemoveTask ==
    /\ ~quiet
    /\ taskRow
    /\ taskRow' = FALSE
    /\ comment' = [c \in CommentIds |->
          IF There(c) THEN [author |-> comment[c].author, text |-> Deleted] ELSE comment[c]]
    /\ UNCHANGED <<members, creq, socket, view, up, written, lastAt, quiet>>

CommentNext ==
    \/ \E r \in CommentRequests :
          \/ \E u \in Users, p \in Servers : StartComment(r, u, p)
          \/ FindComment(r) \/ InsertComment(r) \/ WriteComment(r)
          \/ Tell(r) \/ CommentFails(r)
    \/ \E s \in Sockets :
          \/ \E u \in Users, p \in Servers : Connect(s, u, p)
          \/ \E x \in Rooms : CheckMember(s, x) \/ JoinRoom(s, x) \/ LeaveRoom(s, x)
          \/ Disconnect(s) \/ ListComments(s)
    \/ \E p \in Servers : CloseSocketServer(p) \/ RestartServer(p)
    \/ RemoveTask

-----------------------------------------------------------------------------
(* Rows, requests, sockets and what clients show keep their types.         *)
CommentTypeOK ==
    /\ members \subseteq Users
    /\ taskRow \in BOOLEAN /\ up \subseteq Servers /\ quiet \in BOOLEAN
    /\ comment \in [CommentIds -> [author : Users \cup {Nobody}, text : Stored]]
    /\ creq \in [CommentRequests -> CommentRequest]
    /\ socket \in [Sockets -> [user : Users \cup {Nobody}, at : Servers \cup {Nobody},
                               rooms : SUBSET Rooms, joining : SUBSET Rooms]]
    /\ view \in [Sockets -> [CommentIds -> Stored \cup {Unknown}]]
    /\ written \in [CommentIds -> SUBSET Stored]
    /\ lastAt \in [CommentIds -> Servers \cup {Nobody}]

(* What a client shows of a comment was there: a text its author wrote and *)
(* the database accepted, or a deletion that took place.  No request of    *)
(* another user, no update that lost its row and no failure before the     *)
(* emit shows it anything else.                                            *)
EventsAreTrue ==
    \A s \in Sockets, c \in CommentIds :
        /\ view[s][c] \in Texts => view[s][c] \in written[c]
        /\ view[s][c] = Deleted => comment[c].text = Deleted

(* Requests that come one at a time and do not fail: between them every    *)
(* client in a room shows each comment it knows of as it is stored,        *)
(* whichever room it is in and however it came and went meanwhile, unless  *)
(* another process than the client's served the last change: that emit     *)
(* does not reach it, and it shows the older text until it lists again.    *)
QuietEvents ==
    (quiet /\ \A r \in CommentRequests : AtStep(r, "idle")) =>
        \A s \in Sockets, c \in CommentIds :
            \/ view[s][c] \in {Unknown, comment[c].text}
            \/ lastAt[c] \in Servers \ {socket[s].at}
=============================================================================

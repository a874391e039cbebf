------------------------------ MODULE Attachments ------------------------------
(***************************************************************************)
(* Attachments of a task: a row in PostgreSQL and a file on disk, written  *)
(* and removed one after the other (src/modules/attachments).  Nothing is  *)
(* undone when a request fails or the process dies half way.  The rows are *)
(* shared; the disk is that of the instance that serves the request        *)
(* (docker-compose.yml runs api_1 and api_2 behind nginx, without a volume *)
(* for UPLOAD_DIR).  A disk keeps its files as long as its instance lasts, *)
(* restarts included.                                                      *)
(***************************************************************************)
EXTENDS Naturals

CONSTANTS
    Keys,      \* storage keys: randomUUID() makes each once
    Uploads,   \* request slots
    Disks,     \* instances of the API, each with an UPLOAD_DIR of its own
    NoKey

ASSUME NoKeyIsNone == NoKey \notin Keys \cup Disks

VARIABLES
    row,     \* rows of attachments, by storage key
    files,   \* keys with a file in the UPLOAD_DIR of each instance
    task,    \* the task is there
    areq,    \* what each request is about to do, and where it is served
    goneAt,  \* history: the instance that deleted the row of each key
    calm     \* environment: nothing fails and the task stays

fileVars == <<row, files, task, areq, goneAt, calm>>

BugAfter(kind, step) ==
    CASE step = "task" -> IF kind = "upload" THEN "row" ELSE "find"
      [] step = "row" -> IF kind = "upload" THEN "file" ELSE "unlink"
      [] step = "find" -> IF kind = "download" THEN "send" ELSE "row"
      [] step \in {"file", "unlink"} -> "log"
      [] OTHER -> "idle"

(* The awaits of uploadAttachment, downloadAttachment and deleteAttachment,*)
(* one after the other.                                                    *)
After(kind, step) ==
    CASE step = "task" -> IF kind = "upload" THEN "file" ELSE "find"
      [] step = "file" -> "row"
      [] step = "find" -> IF kind = "download" THEN "send" ELSE "row"
      [] step = "row" -> IF kind = "upload" THEN "log" ELSE "unlink"
      [] step = "unlink" -> "log"
      [] OTHER -> "idle"

Kinds == {"upload", "download", "delete"}
Steps == {"task", "file", "find", "row", "unlink", "send", "log"}
NewUpload(kind, key, step, at) == [kind |-> kind, key |-> key, step |-> step, at |-> at]
NoUpload == NewUpload("none", NoKey, "idle", NoKey)

FileInit ==
    /\ row = [k \in Keys |-> "unused"]
    /\ files = [d \in Disks |-> {}]
    /\ task = TRUE
    /\ areq = [r \in Uploads |-> NoUpload]
    /\ goneAt = [k \in Keys |-> NoKey]
    /\ calm \in BOOLEAN

Doing(r, step) == areq[r].step = step
Reject(r) == areq' = [areq EXCEPT ![r] = NoUpload]
Proceed(r) ==
    LET next == After(areq[r].kind, areq[r].step)
    IN  IF next = "idle" THEN Reject(r)
        ELSE areq' = [areq EXCEPT ![r] =
                 NewUpload(areq[r].kind, areq[r].key, next, areq[r].at)]

-----------------------------------------------------------------------------
(* A new file gets a key of its own; the others name any attachment.  Any  *)
(* instance may be handed the request.                                     *)
StartFile(r, kind, k, d) ==
    /\ areq[r] = NoUpload
    /\ kind = "upload" => /\ row[k] = "unused" /\ \A x \in Uploads : areq[x].key # k
                          /\ \A x \in Disks : k \notin files[x]
    /\ areq' = [areq EXCEPT ![r] = NewUpload(kind, k, "task", d)]
    /\ UNCHANGED <<row, files, task, goneAt, calm>>

(* findTaskInOrg                                                           *)
FindTask(r) ==
    /\ Doing(r, "task")
    /\ IF task THEN Proceed(r) ELSE Reject(r)
    /\ UNCHANGED <<row, files, task, goneAt, calm>>

(* saveAttachmentToDisk                                                    *)
SaveToDisk(r) ==
    /\ Doing(r, "file")
    /\ files' = [files EXCEPT ![areq[r].at] = @ \cup {areq[r].key}]
    /\ Proceed(r)
    /\ UNCHANGED <<row, task, goneAt, calm>>

(* createAttachment; a foreign key wants the task.                         *)
CreateAttachment(r) ==
    /\ Doing(r, "row")
    /\ areq[r].kind = "upload"
    /\ IF task
       THEN row' = [row EXCEPT ![areq[r].key] = "live"] /\ Proceed(r)
       ELSE Reject(r) /\ UNCHANGED row
    /\ UNCHANGED <<files, task, goneAt, calm>>

(* findAttachmentById; a download looks for the file as well, on the disk  *)
(* of its own instance.                                                    *)
FindAttachment(r) ==
    LET k == areq[r].key
    IN  /\ Doing(r, "find")
        /\ IF row[k] = "live" /\ (areq[r].kind = "download" => k \in files[areq[r].at])
           THEN Proceed(r)
           ELSE Reject(r)
        /\ UNCHANGED <<row, files, task, goneAt, calm>>

(* deleteAttachment, or P2025.                                             *)
DeleteAttachment(r) ==
    /\ Doing(r, "row")
    /\ areq[r].kind = "delete"
    /\ IF row[areq[r].key] = "live"
       THEN /\ row' = [row EXCEPT ![areq[r].key] = "gone"]
            /\ goneAt' = [goneAt EXCEPT ![areq[r].key] = areq[r].at]
            /\ Proceed(r)
       ELSE Reject(r) /\ UNCHANGED <<row, goneAt>>
    /\ UNCHANGED <<files, task, calm>>

(* deleteAttachmentFromDisk, on the instance's own disk: a missing file is *)
(* ignored, an error is logged and swallowed.                              *)
Unlink(r) ==
    /\ Doing(r, "unlink")
    /\ \/ files' = [files EXCEPT ![areq[r].at] = @ \ {areq[r].key}]
       \/ ~calm /\ UNCHANGED files
    /\ Proceed(r)
    /\ UNCHANGED <<row, task, goneAt, calm>>

(* logActivity, or res.download.                                           *)
LastStep(r) ==
    /\ Doing(r, "log") \/ Doing(r, "send")
    /\ Proceed(r)
    /\ UNCHANGED <<row, files, task, goneAt, calm>>

(* Any await throws, or the process dies: what is written stays.           *)
FileFails(r) ==
    /\ ~calm
    /\ areq[r] # NoUpload
    /\ Reject(r)
    /\ UNCHANGED <<row, files, task, goneAt, calm>>

(* The task is deleted and its rows with it (Cascade); no file is.         *)
DropTask ==
    /\ ~calm
    /\ task
    /\ task' = FALSE
    /\ row' = [k \in Keys |-> IF row[k] = "live" THEN "gone" ELSE row[k]]
    /\ UNCHANGED <<files, areq, goneAt, calm>>

FileNext ==
    \/ \E r \in Uploads :
          \/ \E kind \in Kinds, k \in Keys, d \in Disks : StartFile(r, kind, k, d)
          \/ FindTask(r) \/ SaveToDisk(r) \/ CreateAttachment(r) \/ FindAttachment(r)
          \/ DeleteAttachment(r) \/ Unlink(r) \/ LastStep(r) \/ FileFails(r)
    \/ DropTask

-----------------------------------------------------------------------------
(* Rows, files and requests keep their types.                              *)
FileTypeOK ==
    /\ row \in [Keys -> {"unused", "live", "gone"}]
    /\ files \in [Disks -> SUBSET Keys]
    /\ task \in BOOLEAN /\ calm \in BOOLEAN
    /\ goneAt \in [Keys -> Disks \cup {NoKey}]
    /\ areq \in [Uploads -> [kind : Kinds \cup {"none"}, key : Keys \cup {NoKey},
                             step : Steps \cup {"idle"}, at : Disks \cup {NoKey}]]

(* The file is written before the row and removed after it, so no failure, *)
(* crash or overlap of uploads and deletions leaves a row whose file is on *)
(* no disk.  When nothing fails and the task stays, a file outlives its    *)
(* row, once the requests are done, only because another instance deleted  *)
(* the row: that one looked for the file on its own disk.                  *)
FilesMatchRows ==
    /\ \A k \in Keys : row[k] = "live" => \E d \in Disks : k \in files[d]
    /\ (calm /\ \A r \in Uploads : areq[r] = NoUpload) =>
          \A d \in Disks : \A k \in files[d] :
              row[k] = "live" \/ (row[k] = "gone" /\ goneAt[k] \in Disks \ {d})
=============================================================================

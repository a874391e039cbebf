------------------------- MODULE CollaborationProofs -------------------------
(***************************************************************************)
(* Proofs about Collaboration, for any number of files, teams, comments,   *)
(* people and overlapping requests.  Each part has an invariant of its     *)
(* own, which the steps of the other parts leave alone.                    *)
(***************************************************************************)
EXTENDS Collaboration, SequenceTheorems, TLAPS

-----------------------------------------------------------------------------
(* Attachments.                                                            *)

Uploading(r) == areq[r].kind = "upload"
Inserting(r) == Uploading(r) /\ areq[r].step = "row"
Unlinking(r) == areq[r].kind = "delete" /\ areq[r].step = "unlink"

(* The steps each kind of request comes to.                                *)
StepsOf == [upload |-> {"task", "file", "row", "log"},
            download |-> {"task", "find", "send"},
            delete |-> {"task", "find", "row", "unlink", "log"},
            none |-> {"idle"}]

FileRequest == [kind : Kinds \cup {"none"}, key : Keys \cup {NoKey},
                step : Steps \cup {"idle"}, at : Disks \cup {NoKey}]

FileShape ==
    \A r \in Uploads :
        /\ areq[r].step \in StepsOf[areq[r].kind]
        /\ areq[r].kind # "none" => areq[r].key \in Keys /\ areq[r].at \in Disks

(* A key that is being uploaded is nobody else's upload, and has no row    *)
(* before its file is there; a file is removed after its row.              *)
FileOrder ==
    /\ \A r, x \in Uploads :
          (Uploading(r) /\ Uploading(x) /\ r # x) => areq[r].key # areq[x].key
    /\ \A r \in Uploads :
          (Uploading(r) /\ areq[r].step # "log") => row[areq[r].key] = "unused"
    /\ \A r \in Uploads : Inserting(r) => areq[r].key \in files[areq[r].at]
    /\ \A r \in Uploads : Unlinking(r) => row[areq[r].key] = "gone"
    /\ \A k \in Keys : row[k] = "live" => \E d \in Disks : k \in files[d]

(* When nothing fails, a file without a row has a request of its instance  *)
(* that will give it one or remove it, or lost its row on another.         *)
FileOwned ==
    calm =>
        /\ task
        /\ \A d \in Disks : \A k \in files[d] :
              \/ row[k] = "live"
              \/ row[k] = "gone" /\ goneAt[k] \in Disks \ {d}
              \/ \E r \in Uploads : /\ areq[r].key = k /\ areq[r].at = d
                                    /\ Inserting(r) \/ Unlinking(r)

FileInv == FileTypeOK /\ FileShape /\ FileOrder /\ FileOwned

USE DEF fileVars

(* A request in its new state is one.                                      *)
LEMMA NewUploadType ==
    ASSUME NEW kind \in Kinds \cup {"none"}, NEW key \in Keys \cup {NoKey},
           NEW step \in Steps \cup {"idle"}, NEW at \in Disks \cup {NoKey}
    PROVE  /\ NewUpload(kind, key, step, at) \in FileRequest
           /\ NewUpload(kind, key, step, at).kind = kind
           /\ NewUpload(kind, key, step, at).key = key
           /\ NewUpload(kind, key, step, at).step = step
           /\ NewUpload(kind, key, step, at).at = at
  BY DEF NewUpload, FileRequest

(* Initially there are no files.                                           *)
LEMMA FileInitInv == FileInit => FileInv
  BY DEF FileInit, FileInv, FileTypeOK, FileRequest, FileShape, FileOrder, FileOwned, NoUpload, NewUpload,
         StepsOf, Uploading, Inserting, Unlinking

(* What ends with an error or proceeds, as it concerns the other requests. *)
LEMMA RejectShape ==
    ASSUME FileTypeOK, FileShape, NEW r \in Uploads, Reject(r)
    PROVE  /\ areq' \in [Uploads -> FileRequest]
           /\ \A x \in Uploads \ {r} : areq'[x] = areq[x]
           /\ areq'[r].kind = "none" /\ areq'[r].step = "idle" /\ areq'[r].key = NoKey
           /\ FileShape'
  BY DEF FileTypeOK, FileRequest, FileShape, Reject, NoUpload, NewUpload, StepsOf

LEMMA ProceedShape ==
    ASSUME FileTypeOK, FileShape, NEW r \in Uploads, areq[r].step # "idle", Proceed(r)
    PROVE  /\ areq' \in [Uploads -> FileRequest]
           /\ \A x \in Uploads \ {r} : areq'[x] = areq[x]
           /\ \/ /\ areq'[r].kind = "none" /\ areq'[r].step = "idle" /\ areq'[r].key = NoKey
                 /\ areq[r].step \in {"log", "send"}
              \/ /\ areq'[r].kind = areq[r].kind /\ areq'[r].key = areq[r].key
                 /\ areq'[r].at = areq[r].at
                 /\ areq'[r].step = After(areq[r].kind, areq[r].step)
                 /\ areq'[r].step # "idle"
                 /\ areq[r].step \in {"task", "file", "find", "row", "unlink"}
           /\ FileShape'
<1> DEFINE kind == areq[r].kind
           next == After(kind, areq[r].step)
<1>1. /\ kind \in Kinds /\ areq[r].key \in Keys /\ areq[r].at \in Disks
      /\ areq[r].step \in StepsOf[kind] /\ areq[r].step \in Steps
  BY DEF FileTypeOK, FileShape, StepsOf, Kinds
<1>2. /\ next = "idle" <=> areq[r].step \in {"log", "send"}
      /\ next # "idle" => /\ next \in StepsOf[kind] /\ next \in Steps
                          /\ areq[r].step \in {"task", "file", "find", "row", "unlink"}
  <2>1. CASE kind = "upload"
    BY <1>1, <2>1 DEF After, StepsOf, Steps
  <2>2. CASE kind = "download"
    BY <1>1, <2>2 DEF After, StepsOf, Steps
  <2>3. CASE kind = "delete"
    BY <1>1, <2>3 DEF After, StepsOf, Steps
  <2> QED BY <1>1, <2>1, <2>2, <2>3 DEF Kinds
<1>3. CASE next = "idle"
  <2>1. Reject(r)
    BY <1>3 DEF Proceed
  <2> QED BY <2>1, <1>2, <1>3, RejectShape
<1>4. CASE next # "idle"
  <2>1. areq' = [areq EXCEPT ![r] = NewUpload(kind, areq[r].key, next, areq[r].at)]
    BY <1>4 DEF Proceed
  <2> DEFINE new == NewUpload(kind, areq[r].key, next, areq[r].at)
  <2>2. /\ new \in FileRequest
        /\ new.kind = kind /\ new.key = areq[r].key /\ new.step = next
        /\ new.at = areq[r].at
    BY <1>1, <1>2, <1>4, NewUploadType
  <2> HIDE DEF new, next
  <2>3. /\ areq' \in [Uploads -> FileRequest]
        /\ \A x \in Uploads \ {r} : areq'[x] = areq[x]
        /\ areq'[r] = new
    BY <2>1, <2>2 DEF FileTypeOK, FileRequest, new
  <2>4. FileShape'
    BY <2>2, <2>3, <1>1, <1>2, <1>4 DEF FileShape, Kinds
  <2>5. areq'[r].step = After(areq[r].kind, areq[r].step)
    BY <2>2, <2>3 DEF next
  <2> QED BY <2>2, <2>3, <2>4, <2>5, <1>2, <1>4
<1> QED BY <1>3, <1>4

(* A new request.                                                          *)
LEMMA StartFileStep ==
    ASSUME FileInv, NEW r \in Uploads, NEW kind \in Kinds, NEW k \in Keys, NEW d \in Disks,
           StartFile(r, kind, k, d)
    PROVE  FileInv'
<1> DEFINE new == NewUpload(kind, k, "task", d)
<1>1. /\ new \in FileRequest
      /\ new.kind = kind /\ new.key = k /\ new.step = "task" /\ new.at = d
  BY NewUploadType DEF Steps
<1>2. areq[r] = NoUpload /\ areq' = [areq EXCEPT ![r] = new]
      /\ UNCHANGED <<row, files, task, goneAt, calm>>
  BY DEF StartFile
<1>3. kind = "upload" => row[k] = "unused" /\ \A x \in Uploads : areq[x].key # k
  BY DEF StartFile
<1> HIDE DEF new
<1>4. /\ areq' \in [Uploads -> FileRequest]
      /\ \A x \in Uploads \ {r} : areq'[x] = areq[x]
      /\ areq'[r] = new
  BY <1>1, <1>2 DEF FileInv, FileTypeOK, FileRequest
<1>5. areq[r].kind = "none"
  BY <1>2 DEF NoUpload, NewUpload
<1>6. FileTypeOK' /\ FileShape'
  BY <1>1, <1>2, <1>4 DEF FileInv, FileTypeOK, FileRequest, FileShape, StepsOf, Kinds
<1>7. FileOrder'
  BY <1>1, <1>2, <1>3, <1>4 DEF FileInv, FileOrder, Uploading, Inserting, Unlinking
<1>8. FileOwned'
  <2>1. \A x \in Uploads : (Inserting(x) \/ Unlinking(x)) => x # r
    BY <1>5 DEF Inserting, Unlinking, Uploading
  <2>2. \A x \in Uploads : x # r =>
            /\ Inserting(x)' <=> Inserting(x)
            /\ Unlinking(x)' <=> Unlinking(x)
            /\ areq'[x].key = areq[x].key /\ areq'[x].at = areq[x].at
    BY <1>4 DEF Inserting, Unlinking, Uploading
  <2> QED BY <1>2, <2>1, <2>2 DEF FileInv, FileOwned
<1> QED BY <1>6, <1>7, <1>8 DEF FileInv

(* A request that ends, fails or proceeds without a row or a file.         *)
LEMMA QuietFileStep ==
    ASSUME FileInv, NEW r \in Uploads, UNCHANGED <<row, files, task, goneAt, calm>>,
           \/ Reject(r) /\ (calm => ~Inserting(r) /\ ~Unlinking(r))
           \/ Proceed(r) /\ areq[r].step \in {"task", "find", "log", "send"}
    PROVE  FileInv'
<1>1. /\ areq' \in [Uploads -> FileRequest]
      /\ \A x \in Uploads \ {r} : areq'[x] = areq[x]
      /\ \/ areq'[r].kind = "none"
         \/ /\ areq'[r].kind = areq[r].kind /\ areq'[r].key = areq[r].key
            /\ areq[r].step \in {"task", "find"}
            /\ areq'[r].step = After(areq[r].kind, areq[r].step)
      /\ FileShape'
  BY RejectShape, ProceedShape DEF FileInv
<1>2. calm => ~Inserting(r) /\ ~Unlinking(r)
  BY DEF Inserting, Unlinking
<1>3. Uploading(r)' => Uploading(r) /\ areq[r].step = "task" /\ areq'[r].step = "file"
  BY <1>1 DEF Uploading, After, FileInv, FileShape, StepsOf
<1>4. ~Inserting(r)' /\ ~Unlinking(r)'
  BY <1>1, <1>3 DEF Inserting, Unlinking, Uploading, After
<1>5. \A x \in Uploads : x # r =>
          /\ Uploading(x)' <=> Uploading(x)
          /\ Inserting(x)' <=> Inserting(x)
          /\ Unlinking(x)' <=> Unlinking(x)
          /\ areq'[x] = areq[x]
  BY <1>1 DEF Inserting, Unlinking, Uploading
<1>6. FileTypeOK'
  BY <1>1 DEF FileInv, FileTypeOK, FileRequest
<1>7. FileOrder'
  BY <1>1, <1>3, <1>4, <1>5 DEF FileInv, FileOrder, Uploading
<1>8. FileOwned'
  BY <1>2, <1>5 DEF FileInv, FileOwned
<1> QED BY <1>1, <1>6, <1>7, <1>8 DEF FileInv

(* The file is written before the row ...                                  *)
LEMMA SaveToDiskStep ==
    ASSUME FileInv, NEW r \in Uploads, SaveToDisk(r)  PROVE FileInv'
<1>1. /\ areq[r].step = "file" /\ Proceed(r) /\ files' = [files EXCEPT ![areq[r].at] = @ \cup {areq[r].key}]
      /\ UNCHANGED <<row, task, goneAt, calm>>
  BY DEF SaveToDisk, Doing
<1>2. areq[r].kind = "upload" /\ areq[r].key \in Keys /\ areq[r].at \in Disks
  BY <1>1 DEF FileInv, FileShape, FileTypeOK, StepsOf, Kinds
<1>3. /\ areq' \in [Uploads -> FileRequest]
      /\ \A x \in Uploads \ {r} : areq'[x] = areq[x]
      /\ areq'[r].kind = "upload" /\ areq'[r].key = areq[r].key /\ areq'[r].step = "row"
      /\ areq'[r].at = areq[r].at
      /\ FileShape'
  BY <1>1, <1>2, ProceedShape DEF FileInv, After
<1>4. \A x \in Uploads : x # r =>
          /\ Uploading(x)' <=> Uploading(x)
          /\ Inserting(x)' <=> Inserting(x)
          /\ Unlinking(x)' <=> Unlinking(x)
          /\ areq'[x] = areq[x]
  BY <1>3 DEF Inserting, Unlinking, Uploading
<1>5. Uploading(r) /\ Uploading(r)' /\ Inserting(r)' /\ ~Unlinking(r)'
      /\ ~Inserting(r) /\ ~Unlinking(r)
  BY <1>1, <1>2, <1>3 DEF Inserting, Unlinking, Uploading
<1>6. /\ files' \in [Disks -> SUBSET Keys]
      /\ \A d \in Disks : files'[d] = IF d = areq[r].at THEN files[d] \cup {areq[r].key}
                                     ELSE files[d]
  BY <1>1, <1>2 DEF FileInv, FileTypeOK
<1>7. FileTypeOK'
  BY <1>1, <1>3, <1>6 DEF FileInv, FileTypeOK, FileRequest
<1>8. FileOrder'
  <2>1. \A x \in Uploads : Inserting(x) => areq[x].at \in Disks
    BY DEF FileInv, FileShape, Inserting, Uploading
  <2> QED BY <1>1, <1>2, <1>3, <1>4, <1>5, <1>6, <2>1 DEF FileInv, FileOrder
<1>9. FileOwned'
  BY <1>1, <1>3, <1>4, <1>5, <1>6 DEF FileInv, FileOwned
<1> QED BY <1>3, <1>7, <1>8, <1>9 DEF FileInv

(* ... which then has it; without the task there is no row.                *)
LEMMA CreateAttachmentStep ==
    ASSUME FileInv, NEW r \in Uploads, CreateAttachment(r)  PROVE FileInv'
<1>1. /\ areq[r].step = "row" /\ areq[r].kind = "upload"
      /\ UNCHANGED <<files, task, goneAt, calm>>
  BY DEF CreateAttachment, Doing
<1>2. areq[r].key \in Keys /\ areq[r].at \in Disks /\ areq[r].key \in files[areq[r].at]
      /\ row[areq[r].key] = "unused"
  BY <1>1 DEF FileInv, FileShape, FileOrder, Inserting, Uploading
<1>3. CASE task
  <2> DEFINE k == areq[r].key
  <2>1. row' = [row EXCEPT ![k] = "live"] /\ Proceed(r)
    BY <1>3 DEF CreateAttachment
  <2>2. /\ areq' \in [Uploads -> FileRequest]
        /\ \A x \in Uploads \ {r} : areq'[x] = areq[x]
        /\ areq'[r].kind = "upload" /\ areq'[r].key = k /\ areq'[r].step = "log"
        /\ FileShape'
    BY <1>1, <2>1, ProceedShape DEF FileInv, After
  <2>3. \A x \in Uploads : x # r =>
            /\ Uploading(x)' <=> Uploading(x)
            /\ Inserting(x)' <=> Inserting(x)
            /\ Unlinking(x)' <=> Unlinking(x)
            /\ areq'[x] = areq[x]
            /\ Uploading(x) => areq[x].key # k
            /\ Unlinking(x) => areq[x].key # k
    BY <1>1, <1>2, <2>2 DEF FileInv, FileOrder, Inserting, Unlinking, Uploading
  <2>4. Uploading(r)' /\ ~Inserting(r)' /\ ~Unlinking(r)' /\ ~Unlinking(r) /\ Uploading(r)
    BY <1>1, <2>2 DEF Inserting, Unlinking, Uploading
  <2> HIDE DEF k
  <2>5. /\ row' \in [Keys -> {"unused", "live", "gone"}]
        /\ \A x \in Keys : row'[x] = IF x = k THEN "live" ELSE row[x]
        /\ k \in Keys
    BY <2>1, <1>2 DEF FileInv, FileTypeOK, FileRequest, k
  <2>6. FileTypeOK'
    BY <1>1, <2>2, <2>5 DEF FileInv, FileTypeOK, FileRequest
  <2>7. FileOrder'
    <3>1. \A x \in Uploads : Uploading(x) \/ Unlinking(x) => areq[x].key \in Keys
      BY DEF FileInv, FileShape, Uploading, Unlinking
    <3>2. k \in files[areq[r].at] /\ areq[r].at \in Disks /\ areq[r].key = k
      BY <1>2 DEF k
    <3> QED BY <1>1, <2>2, <2>3, <2>4, <2>5, <3>1, <3>2 DEF FileInv, FileOrder
  <2>8. FileOwned'
    <3>1. (\A d \in Disks : files[d] \subseteq Keys) /\ areq[r].key = k
      BY DEF FileInv, FileTypeOK, k
    <3>2. \A x \in Uploads : (x # r /\ (Inserting(x) \/ Unlinking(x))) => areq[x].key # k
      BY <2>3 DEF Inserting
    <3> QED BY <1>1, <2>3, <2>4, <2>5, <3>1, <3>2 DEF FileInv, FileOwned
  <2> QED BY <2>2, <2>6, <2>7, <2>8 DEF FileInv
<1>4. CASE ~task
  <2>1. Reject(r) /\ UNCHANGED row /\ ~calm
    BY <1>4 DEF CreateAttachment, FileInv, FileOwned
  <2> QED BY <2>1, <1>1, QuietFileStep
<1> QED BY <1>3, <1>4

(* The row is deleted before the file ...                                  *)
LEMMA DeleteAttachmentStep ==
    ASSUME FileInv, NEW r \in Uploads, DeleteAttachment(r)  PROVE FileInv'
<1>1. /\ areq[r].step = "row" /\ areq[r].kind = "delete" /\ UNCHANGED <<files, task, calm>>
  BY DEF DeleteAttachment, Doing
<1>2. areq[r].key \in Keys /\ areq[r].at \in Disks
  BY <1>1 DEF FileInv, FileShape
<1>3. CASE row[areq[r].key] = "live"
  <2> DEFINE k == areq[r].key
  <2>1. /\ row' = [row EXCEPT ![k] = "gone"] /\ Proceed(r)
        /\ goneAt' = [goneAt EXCEPT ![k] = areq[r].at]
    BY <1>3 DEF DeleteAttachment
  <2>2. /\ areq' \in [Uploads -> FileRequest]
        /\ \A x \in Uploads \ {r} : areq'[x] = areq[x]
        /\ areq'[r].kind = "delete" /\ areq'[r].key = k /\ areq'[r].step = "unlink"
        /\ areq'[r].at = areq[r].at
        /\ FileShape'
    BY <1>1, <2>1, ProceedShape DEF FileInv, After
  <2>3. \A x \in Uploads : x # r =>
            /\ Uploading(x)' <=> Uploading(x)
            /\ Inserting(x)' <=> Inserting(x)
            /\ Unlinking(x)' <=> Unlinking(x)
            /\ areq'[x] = areq[x]
            /\ (Uploading(x) /\ areq[x].step # "log") => areq[x].key # k
    BY <1>3, <2>2 DEF FileInv, FileOrder, Inserting, Unlinking, Uploading
  <2>4. ~Uploading(r)' /\ ~Inserting(r)' /\ Unlinking(r)' /\ ~Unlinking(r) /\ ~Uploading(r)
        /\ ~Inserting(r)
    BY <1>1, <2>2 DEF Inserting, Unlinking, Uploading
  <2>5. areq[r].key = k
    OBVIOUS
  <2> HIDE DEF k
  <2>6. /\ row' \in [Keys -> {"unused", "live", "gone"}]
        /\ \A x \in Keys : row'[x] = IF x = k THEN "gone" ELSE row[x]
        /\ goneAt' \in [Keys -> Disks \cup {NoKey}]
        /\ \A x \in Keys : goneAt'[x] = IF x = k THEN areq[r].at ELSE goneAt[x]
        /\ k \in Keys
    BY <2>1, <1>2 DEF FileInv, FileTypeOK, FileRequest, k
  <2>7. FileTypeOK'
    BY <1>1, <2>2, <2>6 DEF FileInv, FileTypeOK, FileRequest
  <2>8. FileOrder'
    <3>1. \A x \in Uploads : Uploading(x) \/ Unlinking(x) => areq[x].key \in Keys
      BY DEF FileInv, FileShape, Uploading, Unlinking
    <3> QED BY <1>1, <2>2, <2>3, <2>4, <2>6, <3>1 DEF FileInv, FileOrder
  <2>9. FileOwned'
    <3>1. \A d \in Disks : files[d] \subseteq Keys
      BY DEF FileInv, FileTypeOK
    <3> SUFFICES ASSUME calm, NEW d \in Disks, NEW x \in files[d]
                 PROVE  \/ row'[x] = "live"
                        \/ row'[x] = "gone" /\ goneAt'[x] \in Disks \ {d}
                        \/ \E y \in Uploads :
                              /\ areq'[y].key = x /\ areq'[y].at = d
                              /\ Inserting(y)' \/ Unlinking(y)'
      BY <1>1 DEF FileInv, FileOwned
    <3>2. x \in Keys
      BY <3>1
    <3>3. CASE x = k
      BY <1>2, <2>2, <2>4, <2>6, <3>3
    <3>4. CASE x # k
      BY <2>3, <2>4, <2>6, <3>2, <3>4 DEF FileInv, FileOwned
    <3> QED BY <3>3, <3>4
  <2> QED BY <2>2, <2>7, <2>8, <2>9 DEF FileInv
<1>4. CASE row[areq[r].key] # "live"
  <2>1. Reject(r) /\ UNCHANGED <<row, goneAt>> /\ ~Inserting(r) /\ ~Unlinking(r)
    BY <1>1, <1>4 DEF DeleteAttachment, Inserting, Unlinking, Uploading
  <2> QED BY <2>1, <1>1, QuietFileStep
<1> QED BY <1>3, <1>4

(* ... which no row needs any more.                                        *)
LEMMA UnlinkStep ==
    ASSUME FileInv, NEW r \in Uploads, Unlink(r)  PROVE FileInv'
<1> DEFINE k == areq[r].key
<1>1. /\ areq[r].step = "unlink" /\ Proceed(r)
      /\ UNCHANGED <<row, task, goneAt, calm>>
      /\ files' = [files EXCEPT ![areq[r].at] = @ \ {k}] \/ (~calm /\ files' = files)
  BY DEF Unlink, Doing
<1>2. areq[r].kind = "delete" /\ k \in Keys /\ areq[r].at \in Disks
  <2>1. areq[r].step \in StepsOf[areq[r].kind] /\ areq[r].kind \in Kinds \cup {"none"}
    BY DEF FileInv, FileShape, FileTypeOK
  <2>2. areq[r].kind = "delete"
    BY <1>1, <2>1 DEF StepsOf, Kinds
  <2> QED BY <2>2 DEF FileInv, FileShape
<1>3. row[k] = "gone" /\ Unlinking(r) /\ ~Inserting(r)
  BY <1>1, <1>2 DEF FileInv, FileOrder, Unlinking, Inserting
<1>4. /\ areq' \in [Uploads -> FileRequest]
      /\ \A x \in Uploads \ {r} : areq'[x] = areq[x]
      /\ areq'[r].kind = "delete" /\ areq'[r].step = "log"
      /\ FileShape'
  BY <1>1, <1>2, ProceedShape DEF FileInv, After
<1>5. \A x \in Uploads : x # r =>
          /\ Uploading(x)' <=> Uploading(x)
          /\ Inserting(x)' <=> Inserting(x)
          /\ Unlinking(x)' <=> Unlinking(x)
          /\ areq'[x] = areq[x]
          /\ Inserting(x) => areq[x].key # k
  BY <1>3, <1>4 DEF FileInv, FileOrder, Inserting, Unlinking, Uploading
<1>6. ~Uploading(r)' /\ ~Inserting(r)' /\ ~Unlinking(r)'
  BY <1>4 DEF Inserting, Unlinking, Uploading
<1>7. areq[r].key = k
  OBVIOUS
<1> HIDE DEF k
<1>8. /\ files' \in [Disks -> SUBSET Keys]
      /\ \A d \in Disks : files'[d] \subseteq files[d]
      /\ \A d \in Disks, x \in Keys : x # k => (x \in files'[d] <=> x \in files[d])
      /\ calm => k \notin files'[areq[r].at]
  BY <1>1, <1>2 DEF FileInv, FileTypeOK
<1>9. FileTypeOK'
  BY <1>1, <1>4, <1>8 DEF FileInv, FileTypeOK, FileRequest
<1>10. FileOrder'
  <2>1. \A x \in Uploads : Inserting(x) => areq[x].at \in Disks /\ areq[x].key \in Keys
    BY DEF FileInv, FileShape, Inserting, Uploading
  <2> QED BY <1>1, <1>3, <1>4, <1>5, <1>6, <1>8, <2>1 DEF FileInv, FileOrder
<1>11. FileOwned'
  BY <1>1, <1>4, <1>5, <1>6, <1>7, <1>8 DEF FileInv, FileOwned
<1> QED BY <1>4, <1>9, <1>10, <1>11 DEF FileInv

(* The task goes with its rows, and the files stay.                        *)
LEMMA DropTaskStep == ASSUME FileInv, DropTask  PROVE FileInv'
<1>1. /\ ~calm /\ task' = FALSE /\ UNCHANGED <<files, areq, goneAt, calm>>
      /\ row' = [k \in Keys |-> IF row[k] = "live" THEN "gone" ELSE row[k]]
  BY DEF DropTask
<1>2. /\ row' \in [Keys -> {"unused", "live", "gone"}]
      /\ \A k \in Keys : row'[k] = IF row[k] = "live" THEN "gone" ELSE row[k]
  BY <1>1 DEF FileInv, FileTypeOK, FileRequest
<1>3. \A x \in Uploads : Uploading(x) \/ Unlinking(x) => areq[x].key \in Keys
  BY DEF FileInv, FileShape, Uploading, Unlinking
<1>4. FileOrder'
  BY <1>1, <1>2, <1>3 DEF FileInv, FileOrder, Uploading, Inserting, Unlinking
<1> QED BY <1>1, <1>2, <1>4 DEF FileInv, FileTypeOK, FileRequest, FileShape, FileOwned

(* Every step of the attachments.                                          *)
LEMMA FileStep == ASSUME FileInv, FileNext  PROVE FileInv'
<1>1. ASSUME NEW r \in Uploads, FindTask(r)  PROVE FileInv'
  BY <1>1, QuietFileStep DEF FindTask, Doing, Inserting, Unlinking
<1>2. ASSUME NEW r \in Uploads, FindAttachment(r)  PROVE FileInv'
  BY <1>2, QuietFileStep DEF FindAttachment, Doing, Inserting, Unlinking
<1>3. ASSUME NEW r \in Uploads, LastStep(r)  PROVE FileInv'
  BY <1>3, QuietFileStep DEF LastStep, Doing
<1>4. ASSUME NEW r \in Uploads, FileFails(r)  PROVE FileInv'
  BY <1>4, QuietFileStep DEF FileFails
<1> QED BY <1>1, <1>2, <1>3, <1>4, StartFileStep, SaveToDiskStep, CreateAttachmentStep,
           DeleteAttachmentStep, UnlinkStep, DropTaskStep DEF FileNext

LEMMA FileInvariance == Spec => []FileInv
<1>1. Init => FileInv
  BY FileInitInv DEF Init
<1>2. FileInv /\ [Next]_collaborationVars => FileInv'
  <2> SUFFICES ASSUME FileInv, [Next]_collaborationVars  PROVE FileInv'
    OBVIOUS
  <2>1. CASE UNCHANGED fileVars
    BY <2>1 DEF FileInv, FileTypeOK, FileRequest, FileShape, FileOrder, FileOwned, Uploading, Inserting,
               Unlinking
  <2>2. CASE FileNext
    BY <2>2, FileStep
  <2> QED BY <2>1, <2>2 DEF Next, Files, Team, Comment, Log, collaborationVars
<1> QED BY <1>1, <1>2, PTL DEF Spec

(* Every row has its file on some disk, whatever fails and overlaps; and   *)
(* where nothing fails a file is left without its row only when another    *)
(* instance deleted the row.  For any number of instances.                 *)
THEOREM RowsHaveFiles == Spec => []FilesMatchRows
<1>1. FileInv => FilesMatchRows
  <2> SUFFICES ASSUME FileInv  PROVE FilesMatchRows
    OBVIOUS
  <2>1. (\A r \in Uploads : areq[r] = NoUpload) =>
            \A r \in Uploads : ~Inserting(r) /\ ~Unlinking(r)
    BY DEF NoUpload, NewUpload, Inserting, Unlinking, Uploading
  <2> QED BY <2>1 DEF FileInv, FileOrder, FileOwned, FilesMatchRows
<1> QED BY <1>1, FileInvariance, PTL

-----------------------------------------------------------------------------
(* Teams.                                                                  *)

(* Requests about a team that exists name it, and those that have checked  *)
(* the members ask for people who were in the organization by then.        *)
TeamChecked ==
    \A r \in TeamRequests :
        /\ treq[r].pc \in {"name", "begin", "lock", "write", "drop"} => treq[r].team \in TeamIds
        /\ (treq[r].pc = "members" /\ treq[r].kind # "create") => treq[r].team \in TeamIds
        /\ treq[r].pc \in {"insert", "begin", "lock", "write"} => treq[r].users \subseteq wasInOrg

(* Alone, a transaction deletes exactly the rows there are.                *)
TeamAlone ==
    alone =>
        /\ \A r, x \in TeamRequests : (r # x /\ treq[r].pc # "idle") => treq[x].pc = "idle"
        /\ \A r \in TeamRequests : treq[r].pc = "lock" => treq[r].seen = belongs[treq[r].team]
        /\ \A r \in TeamRequests : treq[r].pc = "write" => treq[r].gone = belongs[treq[r].team]
        /\ \A t \in TeamIds : belongs[t] = asked[t]

TeamInv ==
    /\ TeamTypeOK
    /\ TeamChecked
    /\ TeamAlone
    /\ \A t \in TeamIds : belongs[t] \subseteq wasInOrg

USE DEF teamVars

(* Initially there are no teams.                                           *)
LEMMA TeamInitInv == TeamInit => TeamInv
  BY NothingIsNone DEF TeamInit, TeamInv, TeamTypeOK, TeamChecked, TeamAlone, NoTeamRequest,
         NewTeamRequest, TeamRequest

(* A request that is answered or comes to its next step, and writes        *)
(* nothing.                                                                *)
LEMMA TeamRequestStep ==
    ASSUME TeamInv, NEW r \in TeamRequests, NEW new \in TeamRequest,
           treq' = [treq EXCEPT ![r] = new],
           UNCHANGED <<team, used, belongs, inOrg, wasInOrg, asked, alone>>,
           alone => \A x \in TeamRequests \ {r} : treq[x].pc = "idle",
           new.pc \in {"name", "begin", "lock", "write", "drop"} => new.team \in TeamIds,
           (new.pc = "members" /\ new.kind # "create") => new.team \in TeamIds,
           new.pc \in {"insert", "begin", "lock", "write"} => new.users \subseteq wasInOrg,
           (alone /\ new.pc = "lock") => new.seen = belongs[new.team],
           (alone /\ new.pc = "write") => new.gone = belongs[new.team]
    PROVE  TeamInv'
<1>1. /\ treq' \in [TeamRequests -> TeamRequest]
      /\ \A x \in TeamRequests : treq'[x] = IF x = r THEN new ELSE treq[x]
  BY DEF TeamInv, TeamTypeOK
<1>2. TeamTypeOK'
  BY <1>1 DEF TeamInv, TeamTypeOK
<1>3. TeamChecked'
  BY <1>1 DEF TeamInv, TeamChecked
<1>4. TeamAlone'
  BY <1>1 DEF TeamInv, TeamAlone
<1> QED BY <1>2, <1>3, <1>4 DEF TeamInv

(* An answer.                                                              *)
LEMMA NoTeamRequestType == NoTeamRequest \in TeamRequest /\ NoTeamRequest.pc = "idle"
  BY DEF NoTeamRequest, NewTeamRequest, TeamRequest

(* A request begins.                                                       *)
LEMMA StartTeamStep ==
    ASSUME TeamInv, NEW r \in TeamRequests, StartTeam(r)  PROVE TeamInv'
<1>1. /\ UNCHANGED <<team, used, belongs, inOrg, wasInOrg, asked, alone>>
      /\ alone => \A x \in TeamRequests \ {r} : treq[x].pc = "idle"
      /\ used \subseteq TeamIds
  BY DEF StartTeam, IsAt, TeamInv, TeamTypeOK
<1>2. ASSUME NEW name \in Names, NEW users \in SUBSET People,
             treq' = [treq EXCEPT ![r] =
                 NewTeamRequest("members", "create", Nothing, name, users, {}, {})]
      PROVE  TeamInv'
  <2> DEFINE new == NewTeamRequest("members", "create", Nothing, name, users, {}, {})
  <2>1. new \in TeamRequest /\ new.pc = "members" /\ new.kind = "create"
    BY DEF NewTeamRequest, TeamRequest
  <2> HIDE DEF new
  <2>2. treq' = [treq EXCEPT ![r] = new]
    BY <1>2 DEF new
  <2> QED BY <1>1, <2>1, <2>2, TeamRequestStep
<1>3. ASSUME NEW t \in used, NEW name \in Names \cup {Nothing}, NEW users \in SUBSET People,
             NEW pc \in {"members", "name"},
             treq' = [treq EXCEPT ![r] =
                 NewTeamRequest(pc, "update", t, name, users, {}, {})]
      PROVE  TeamInv'
  <2> DEFINE new == NewTeamRequest(pc, "update", t, name, users, {}, {})
  <2>1. new \in TeamRequest /\ new.pc = pc /\ new.kind = "update" /\ new.team = t
        /\ t \in TeamIds
    BY <1>1 DEF NewTeamRequest, TeamRequest
  <2> HIDE DEF new
  <2>2. treq' = [treq EXCEPT ![r] = new]
    BY <1>3 DEF new
  <2> QED BY <1>1, <2>1, <2>2, TeamRequestStep
<1>4. ASSUME NEW t \in used,
             treq' = [treq EXCEPT ![r] =
                 NewTeamRequest("drop", "delete", t, Nothing, {}, {}, {})]
      PROVE  TeamInv'
  <2> DEFINE new == NewTeamRequest("drop", "delete", t, Nothing, {}, {}, {})
  <2>1. new \in TeamRequest /\ new.pc = "drop" /\ new.team = t /\ t \in TeamIds
    BY <1>1 DEF NewTeamRequest, TeamRequest
  <2> HIDE DEF new
  <2>2. treq' = [treq EXCEPT ![r] = new]
    BY <1>4 DEF new
  <2> QED BY <1>1, <2>1, <2>2, TeamRequestStep
<1> QED BY <1>2, <1>3, <1>4 DEF StartTeam

(* A request goes on with what it has found.                               *)
LEMMA HoldStep ==
    ASSUME TeamInv, NEW r \in TeamRequests, treq[r].pc # "idle",
           UNCHANGED <<team, used, belongs, inOrg, wasInOrg, asked, alone>>,
           NEW pc \in {"members", "insert", "begin", "lock", "write"},
           NEW seen \in SUBSET People, NEW gone \in SUBSET People, Hold(r, pc, seen, gone),
           (pc = "insert" \/ treq[r].kind = "create") \/ treq[r].team \in TeamIds,
           pc \in {"begin", "lock", "write"} => treq[r].team \in TeamIds,
           pc # "members" => treq[r].users \subseteq wasInOrg,
           (alone /\ pc = "lock") => seen = belongs[treq[r].team],
           (alone /\ pc = "write") => gone = belongs[treq[r].team]
    PROVE  TeamInv'
<1> DEFINE q == treq[r]
           new == NewTeamRequest(pc, q.kind, q.team, q.name, q.users, seen, gone)
<1>1. /\ new \in TeamRequest /\ new.pc = pc /\ new.kind = q.kind /\ new.team = q.team
      /\ new.users = q.users /\ new.seen = seen /\ new.gone = gone
  BY DEF NewTeamRequest, TeamRequest, TeamInv, TeamTypeOK
<1>2. treq' = [treq EXCEPT ![r] = new]
  BY DEF Hold
<1>3. alone => \A x \in TeamRequests \ {r} : treq[x].pc = "idle"
  BY DEF TeamInv, TeamAlone
<1> HIDE DEF new
<1> QED BY <1>1, <1>2, <1>3, TeamRequestStep

LEMMA AnswerStep ==
    ASSUME TeamInv, NEW r \in TeamRequests, treq[r].pc # "idle", Answer(r),
           UNCHANGED <<team, used, belongs, inOrg, wasInOrg, asked, alone>>
    PROVE  TeamInv'
<1>1. alone => \A x \in TeamRequests \ {r} : treq[x].pc = "idle"
  BY DEF TeamInv, TeamAlone
<1> QED BY <1>1, NoTeamRequestType, TeamRequestStep DEF Answer

(* The checks.                                                             *)
LEMMA CheckStep ==
    ASSUME TeamInv, NEW r \in TeamRequests, FindName(r) \/ CheckMembers(r)  PROVE TeamInv'
<1>1. CASE FindName(r)
  <2>1. treq[r].pc = "name" /\ treq[r].team \in TeamIds
    BY <1>1 DEF FindName, IsAt, TeamInv, TeamChecked
  <2>2. UNCHANGED <<team, used, belongs, inOrg, wasInOrg, asked, alone>>
        /\ (Answer(r) \/ Hold(r, "members", {}, {}))
    BY <1>1 DEF FindName, MoveTo
  <2> QED BY <2>1, <2>2, HoldStep, AnswerStep
<1>2. CASE CheckMembers(r)
  <2>1. /\ treq[r].pc = "members"
        /\ UNCHANGED <<team, used, belongs, inOrg, wasInOrg, asked, alone>>
        /\ treq[r].kind # "create" => treq[r].team \in TeamIds
    BY <1>2 DEF CheckMembers, IsAt, TeamInv, TeamChecked
  <2>2. CASE AllMembers(treq[r].users)
    <3>1. treq[r].users \subseteq wasInOrg
      BY <2>2 DEF AllMembers, TeamInv, TeamTypeOK
    <3>2. CASE treq[r].kind = "create"
      <4>1. Hold(r, "insert", {}, {})
        BY <1>2, <2>2, <3>2 DEF CheckMembers, MoveTo
      <4> QED BY <2>1, <3>1, <4>1, HoldStep
    <3>3. CASE treq[r].kind # "create"
      <4>1. Hold(r, "begin", {}, {})
        BY <1>2, <2>2, <3>3 DEF CheckMembers, MoveTo
      <4> QED BY <2>1, <3>1, <3>3, <4>1, HoldStep
    <3> QED BY <3>2, <3>3
  <2>3. CASE ~AllMembers(treq[r].users)
    BY <1>2, <2>1, <2>3, AnswerStep DEF CheckMembers
  <2> QED BY <2>2, <2>3
<1> QED BY <1>1, <1>2

(* The statements of the transaction before its commit.                    *)
LEMMA TransactionStep ==
    ASSUME TeamInv, NEW r \in TeamRequests, BeginUpdate(r) \/ LockRows(r)  PROVE TeamInv'
<1>1. /\ treq[r].pc \in {"begin", "lock"} /\ treq[r].team \in TeamIds
      /\ treq[r].users \subseteq wasInOrg /\ treq[r] \in TeamRequest
      /\ belongs[treq[r].team] \in SUBSET People
      /\ UNCHANGED <<team, used, belongs, inOrg, wasInOrg, asked, alone>>
  BY DEF BeginUpdate, LockRows, IsAt, TeamInv, TeamChecked, TeamTypeOK
<1>2. CASE BeginUpdate(r)
  BY <1>1, <1>2, HoldStep DEF BeginUpdate, Visible
<1>3. CASE LockRows(r)
  <2>1. Hold(r, "write", {}, treq[r].seen \cap belongs[treq[r].team])
    BY <1>3 DEF LockRows
  <2>2. alone => treq[r].seen \cap belongs[treq[r].team] = belongs[treq[r].team]
    BY <1>3 DEF LockRows, IsAt, TeamInv, TeamAlone
  <2> DEFINE gone == treq[r].seen \cap belongs[treq[r].team]
  <2>3. /\ gone \in SUBSET People /\ {} \in SUBSET People
        /\ treq[r].pc # "idle" /\ "write" \in {"members", "insert", "begin", "lock", "write"}
        /\ Hold(r, "write", {}, gone) /\ (alone => gone = belongs[treq[r].team])
    BY <1>1, <2>1, <2>2
  <2> HIDE DEF gone
  <2> QED BY <1>1, <2>3, HoldStep
<1> QED BY <1>2, <1>3

(* Who leaves the others in their places, with rows to delete that are     *)
(* fewer than before, is done.                                             *)
LEMMA AnswerAndSkipType ==
    ASSUME TeamInv, NEW r \in TeamRequests, Answer(r) \/ AnswerAndSkip(r)
    PROVE  /\ treq' \in [TeamRequests -> TeamRequest]
           /\ treq'[r] = NoTeamRequest
           /\ \A x \in TeamRequests \ {r} :
                 /\ treq'[x].pc = treq[x].pc /\ treq'[x].kind = treq[x].kind
                 /\ treq'[x].team = treq[x].team /\ treq'[x].users = treq[x].users
<1>1. treq \in [TeamRequests -> TeamRequest]
  BY DEF TeamInv, TeamTypeOK
<1>2. CASE Answer(r)
  BY <1>1, <1>2, NoTeamRequestType DEF Answer
<1>3. CASE AnswerAndSkip(r)
  <2>1. \A q \in TeamRequest, gone \in SUBSET People :
            LET p == [q EXCEPT !.seen = @ \ gone]
            IN  /\ p \in TeamRequest /\ p.pc = q.pc /\ p.kind = q.kind
                /\ p.team = q.team /\ p.users = q.users
    BY DEF TeamRequest
  <2>2. \A x \in TeamRequests : treq[x] \in TeamRequest /\ treq[x].gone \in SUBSET People
    BY <1>1 DEF TeamRequest
  <2>3. \A x \in TeamRequests :
            treq'[x] = IF x = r THEN NoTeamRequest
                       ELSE IF x \in Others(r)
                       THEN [treq[x] EXCEPT !.seen = @ \ treq[r].gone]
                       ELSE treq[x]
    BY <1>3 DEF AnswerAndSkip
  <2>4. \A x \in TeamRequests : treq'[x] \in TeamRequest
    BY <2>1, <2>2, <2>3, NoTeamRequestType
  <2>5. treq' = [x \in TeamRequests |-> treq'[x]]
    BY <1>3 DEF AnswerAndSkip
  <2>6. treq' \in [TeamRequests -> TeamRequest]
    BY <2>4, <2>5
  <2>7. treq'[r] = NoTeamRequest
    BY <2>3
  <2>8. ASSUME NEW x \in TeamRequests \ {r}
        PROVE  /\ treq'[x].pc = treq[x].pc /\ treq'[x].kind = treq[x].kind
               /\ treq'[x].team = treq[x].team /\ treq'[x].users = treq[x].users
    <3>1. CASE x \in Others(r)
      <4>1. treq'[x] = [treq[x] EXCEPT !.seen = @ \ treq[r].gone]
        BY <2>3, <3>1
      <4>2. treq[x] \in TeamRequest /\ treq[r].gone \in SUBSET People
        BY <2>2
      <4> QED BY <2>1, <4>1, <4>2
    <3>2. CASE x \notin Others(r)
      BY <2>3, <3>2
    <3> QED BY <3>1, <3>2
  <2> QED BY <2>6, <2>7, <2>8
<1> QED BY <1>2, <1>3

(* What the three writes have in common.                                   *)
LEMMA TeamWriteStep ==
    ASSUME TeamInv, NEW r \in TeamRequests, treq[r].pc # "idle",
           Answer(r) \/ AnswerAndSkip(r),
           UNCHANGED <<inOrg, wasInOrg, alone>>,
           team' \in [TeamIds -> Names \cup {Nothing}], used' \subseteq TeamIds,
           NEW t \in TeamIds, NEW rows \in SUBSET People, NEW wanted \in SUBSET People,
           belongs' = [belongs EXCEPT ![t] = rows],
           asked' = [asked EXCEPT ![t] = wanted],
           rows \subseteq wasInOrg, alone => rows = wanted
    PROVE  TeamInv'
<1>1. /\ treq' \in [TeamRequests -> TeamRequest] /\ treq'[r] = NoTeamRequest
      /\ \A x \in TeamRequests \ {r} :
            /\ treq'[x].pc = treq[x].pc /\ treq'[x].kind = treq[x].kind
            /\ treq'[x].team = treq[x].team /\ treq'[x].users = treq[x].users
  BY AnswerAndSkipType
<1>2. /\ belongs' \in [TeamIds -> SUBSET People] /\ asked' \in [TeamIds -> SUBSET People]
      /\ \A x \in TeamIds : belongs'[x] = IF x = t THEN rows ELSE belongs[x]
      /\ \A x \in TeamIds : asked'[x] = IF x = t THEN wanted ELSE asked[x]
  BY DEF TeamInv, TeamTypeOK
<1>3. TeamTypeOK'
  BY <1>1, <1>2 DEF TeamInv, TeamTypeOK
<1>4. TeamChecked'
  BY <1>1, NoTeamRequestType DEF TeamInv, TeamChecked
<1>5. alone => \A x \in TeamRequests : treq'[x].pc = "idle"
  BY <1>1, NoTeamRequestType DEF TeamInv, TeamAlone
<1>6. TeamAlone'
  BY <1>2, <1>5 DEF TeamInv, TeamAlone
<1> QED BY <1>2, <1>3, <1>4, <1>6 DEF TeamInv

LEMMA InsertTeamStep ==
    ASSUME TeamInv, NEW r \in TeamRequests, InsertTeam(r)  PROVE TeamInv'
<1>1. /\ treq[r].pc = "insert" /\ Answer(r) /\ UNCHANGED <<inOrg, wasInOrg, alone>>
      /\ treq[r].users \subseteq wasInOrg /\ treq[r] \in TeamRequest
  BY DEF InsertTeam, IsAt, TeamInv, TeamChecked, TeamTypeOK
<1>2. CASE UNCHANGED <<team, used, belongs, asked>>
  BY <1>1, <1>2, AnswerStep
<1>3. ASSUME NEW t \in TeamIds \ used,
             /\ NameFree(Nothing, treq[r].name)
             /\ team' = [team EXCEPT ![t] = treq[r].name]
             /\ used' = used \cup {t}
             /\ belongs' = [belongs EXCEPT ![t] = treq[r].users]
             /\ asked' = [asked EXCEPT ![t] = treq[r].users]
      PROVE  TeamInv'
  <2>1. /\ team' \in [TeamIds -> Names \cup {Nothing}] /\ used' \subseteq TeamIds
        /\ treq[r].users \in SUBSET People
    BY <1>1, <1>3 DEF TeamInv, TeamTypeOK, TeamRequest
  <2> QED BY <1>1, <1>3, <2>1, TeamWriteStep
<1> QED BY <1>2, <1>3 DEF InsertTeam

LEMMA CommitStep ==
    ASSUME TeamInv, NEW r \in TeamRequests, Commit(r)  PROVE TeamInv'
<1> DEFINE q == treq[r]
           t == q.team
           rows == (belongs[t] \ q.gone) \cup q.users
<1>1. /\ q.pc = "write" /\ t \in TeamIds /\ q \in TeamRequest /\ q.users \subseteq wasInOrg
      /\ belongs[t] \subseteq wasInOrg /\ belongs[t] \in SUBSET People
      /\ UNCHANGED <<used, inOrg, wasInOrg, alone>>
      /\ used \subseteq TeamIds
  BY DEF Commit, IsAt, TeamInv, TeamChecked, TeamTypeOK
<1>2. CASE Answer(r) /\ UNCHANGED <<team, belongs, asked>>
  BY <1>1, <1>2, AnswerStep
<1>3. CASE /\ AnswerAndSkip(r)
           /\ belongs' = [belongs EXCEPT ![t] = rows]
           /\ team' = [team EXCEPT ![t] = IF q.name = Nothing THEN @ ELSE q.name]
           /\ asked' = [asked EXCEPT ![t] = q.users]
  <2>1. alone => rows = q.users
    BY <1>1 DEF TeamInv, TeamAlone
  <2>2. /\ rows \in SUBSET People /\ q.users \in SUBSET People /\ rows \subseteq wasInOrg
        /\ team' \in [TeamIds -> Names \cup {Nothing}]
    BY <1>1, <1>3 DEF TeamInv, TeamTypeOK, TeamRequest
  <2>3. treq[r].pc # "idle" /\ used' \subseteq TeamIds
    BY <1>1
  <2>4. PICK all \in SUBSET People, wanted \in SUBSET People :
            all = rows /\ wanted = q.users
    BY <2>2
  <2>5. /\ belongs' = [belongs EXCEPT ![t] = all] /\ asked' = [asked EXCEPT ![t] = wanted]
        /\ all \subseteq wasInOrg /\ (alone => all = wanted)
    BY <1>3, <2>1, <2>2, <2>4
  <2> HIDE DEF rows, q, t
  <2> QED BY <1>1, <1>3, <2>2, <2>3, <2>5, TeamWriteStep
<1> QED BY <1>2, <1>3 DEF Commit

LEMMA DeleteTeamStep ==
    ASSUME TeamInv, NEW r \in TeamRequests, DeleteTeam(r)  PROVE TeamInv'
<1> DEFINE t == treq[r].team
<1>1. /\ treq[r].pc = "drop" /\ t \in TeamIds /\ Answer(r)
      /\ UNCHANGED <<used, inOrg, wasInOrg, alone>> /\ used \subseteq TeamIds
      /\ team' = [team EXCEPT ![t] = Nothing]
      /\ belongs' = [belongs EXCEPT ![t] = {}]
      /\ asked' = [asked EXCEPT ![t] = {}]
  BY DEF DeleteTeam, IsAt, TeamInv, TeamChecked, TeamTypeOK
<1>2. team' \in [TeamIds -> Names \cup {Nothing}]
  BY <1>1 DEF TeamInv, TeamTypeOK
<1>3. PICK none \in SUBSET People : none = {}
  OBVIOUS
<1>4. /\ belongs' = [belongs EXCEPT ![t] = none] /\ asked' = [asked EXCEPT ![t] = none]
      /\ none \subseteq wasInOrg /\ treq[r].pc # "idle" /\ used' \subseteq TeamIds
  BY <1>1, <1>3
<1> HIDE DEF t
<1> QED BY <1>1, <1>2, <1>4, TeamWriteStep

(* People come and go; who once was a member stays one in wasInOrg.        *)
LEMMA MoveMemberStep ==
    ASSUME TeamInv, NEW u \in People, MoveMember(u)  PROVE TeamInv'
  BY DEF MoveMember, TeamInv, TeamTypeOK, TeamChecked, TeamAlone

LEMMA TeamInvariance == Spec => []TeamInv
<1>1. Init => TeamInv
  BY TeamInitInv DEF Init
<1>2. TeamInv /\ [Next]_collaborationVars => TeamInv'
  <2> SUFFICES ASSUME TeamInv, [Next]_collaborationVars  PROVE TeamInv'
    OBVIOUS
  <2>1. CASE UNCHANGED teamVars
    BY <2>1 DEF TeamInv, TeamTypeOK, TeamChecked, TeamAlone
  <2>2. CASE TeamNext
    BY <2>2, StartTeamStep, CheckStep, InsertTeamStep, TransactionStep, CommitStep,
       DeleteTeamStep, MoveMemberStep DEF TeamNext
  <2> QED BY <2>1, <2>2 DEF Next, Files, Team, Comment, Log, collaborationVars
<1> QED BY <1>1, <1>2, PTL DEF Spec

(* No overlap puts an outsider into a team; and for requests one at a time *)
(* the members of a team are those the last request asked for.             *)
THEOREM TeamsFollowRequests == Spec => []TeamsAsAsked
<1>1. TeamInv => TeamsAsAsked
  BY DEF TeamInv, TeamAlone, TeamsAsAsked
<1> QED BY <1>1, TeamInvariance, PTL

-----------------------------------------------------------------------------
(***************************************************************************)
(* Comments.  Nothing is announced that did not take place: a request      *)
(* carries, from its first read to its emit, a text or a deletion that is  *)
(* its author's to write.                                                  *)
(***************************************************************************)

(* What a request holds fits the comment it is about.                      *)
RequestTrue(q) ==
    /\ q.pc = "insert" => q.text \in Texts
    /\ q.pc \in {"find", "write"} =>
          /\ q.comment \in CommentIds
          /\ (q.kind = "update" /\ q.text \in Texts) \/ (q.kind = "delete" /\ q.text = Deleted)
    /\ q.pc = "write" =>
          /\ comment[q.comment].text # Absent
          /\ q.kind = "update" => q.by = comment[q.comment].author
    /\ q.pc = "tell" =>
          /\ q.comment \in CommentIds
          /\ q.text \in Texts => q.text \in written[q.comment]
          /\ q.text = Deleted => comment[q.comment].text = Deleted

(* What is stored was written, and an unused id has no history.            *)
StoredIsWritten ==
    \A c \in CommentIds :
        /\ comment[c].text \in Texts => comment[c].text \in written[c]
        /\ comment[c].text = Absent => written[c] = {}

(* The inductive invariant.                                                *)
CommentInv ==
    /\ CommentTypeOK
    /\ \A r \in CommentRequests : RequestTrue(creq[r])
    /\ StoredIsWritten
    /\ EventsAreTrue

LEMMA NamesApart ==
    /\ Unknown \notin Texts /\ Deleted \notin Texts /\ Absent \notin Texts
    /\ Unknown # Deleted /\ Absent # Deleted
  BY CommentAssumption DEF Unknown, Deleted, Absent

LEMMA NoCommentRequestType ==
    NoCommentRequest \in CommentRequest /\ NoCommentRequest.pc = "idle"
  BY DEF NoCommentRequest, NewCommentRequest, CommentRequest, Stored

(* A socket.                                                               *)
SocketRecord == [user : Users \cup {Nobody}, at : Servers \cup {Nobody},
                 rooms : SUBSET Rooms, joining : SUBSET Rooms]

LEMMA NoSocketType ==
    /\ NoSocket \in SocketRecord /\ NoSocket.rooms = {} /\ NoSocket.joining = {}
    /\ NoSocket.user = Nobody /\ NoSocket.at = Nobody
  BY DEF NoSocket, NewSocket, SocketRecord

LEMMA CommentInitInv == CommentInit => CommentInv
<1> SUFFICES ASSUME CommentInit  PROVE CommentInv
  OBVIOUS
<1>1. CommentTypeOK
  BY NoCommentRequestType, NoSocketType
     DEF CommentInit, CommentTypeOK, SocketRecord, NoView, Stored
<1>2. \A r \in CommentRequests : RequestTrue(creq[r])
  BY NoCommentRequestType DEF CommentInit, RequestTrue
<1>3. StoredIsWritten /\ EventsAreTrue
  BY NamesApart DEF CommentInit, StoredIsWritten, EventsAreTrue, NoView
<1> QED BY <1>1, <1>2, <1>3 DEF CommentInv

(* A request moves and no row does.                                        *)
LEMMA CommentRequestStep ==
    ASSUME CommentInv, NEW r \in CommentRequests, NEW new \in CommentRequest,
           creq' = [creq EXCEPT ![r] = new], RequestTrue(new),
           UNCHANGED <<members, taskRow, comment, socket, view, up, written, lastAt, quiet>>
    PROVE  CommentInv'
<1>1. /\ creq' \in [CommentRequests -> CommentRequest]
      /\ \A x \in CommentRequests : creq'[x] = IF x = r THEN new ELSE creq[x]
  BY DEF CommentInv, CommentTypeOK
<1>2. CommentTypeOK'
  BY <1>1 DEF CommentInv, CommentTypeOK
<1>3. \A x \in CommentRequests : RequestTrue(creq[x])'
  BY <1>1 DEF CommentInv, RequestTrue
<1>4. StoredIsWritten' /\ EventsAreTrue'
  BY DEF CommentInv, StoredIsWritten, EventsAreTrue
<1> QED BY <1>2, <1>3, <1>4 DEF CommentInv

LEMMA RespondStep ==
    ASSUME CommentInv, NEW r \in CommentRequests, Respond(r),
           UNCHANGED <<members, taskRow, comment, socket, view, up, written, lastAt, quiet>>
    PROVE  CommentInv'
<1>1. RequestTrue(NoCommentRequest)
  BY NoCommentRequestType DEF RequestTrue
<1> QED BY <1>1, NoCommentRequestType, CommentRequestStep DEF Respond

LEMMA StartCommentStep ==
    ASSUME CommentInv, NEW r \in CommentRequests, NEW u \in Users, NEW p \in Servers,
           StartComment(r, u, p)
    PROVE  CommentInv'
<1>1. UNCHANGED <<members, taskRow, comment, socket, view, up, written, lastAt, quiet>>
  BY DEF StartComment
<1>2. PICK new \in CommentRequest :
          creq' = [creq EXCEPT ![r] = new] /\ RequestTrue(new)
  <2>1. ASSUME NEW t \in Texts
        PROVE  LET n == NewCommentRequest("insert", "create", Nobody, u, t, p)
               IN  n \in CommentRequest /\ RequestTrue(n)
    BY DEF NewCommentRequest, CommentRequest, Stored, RequestTrue
  <2>2. ASSUME NEW c \in CommentIds, NEW t \in Texts
        PROVE  LET n == NewCommentRequest("find", "update", c, u, t, p)
               IN  n \in CommentRequest /\ RequestTrue(n)
    BY DEF NewCommentRequest, CommentRequest, Stored, RequestTrue
  <2>3. ASSUME NEW c \in CommentIds
        PROVE  LET n == NewCommentRequest("find", "delete", c, u, Deleted, p)
               IN  n \in CommentRequest /\ RequestTrue(n)
    BY DEF NewCommentRequest, CommentRequest, Stored, RequestTrue
  <2> QED BY <2>1, <2>2, <2>3 DEF StartComment
<1> QED BY <1>1, <1>2, CommentRequestStep

LEMMA FindCommentStep ==
    ASSUME CommentInv, NEW r \in CommentRequests, FindComment(r)  PROVE CommentInv'
<1>1. UNCHANGED <<members, taskRow, comment, socket, view, up, written, lastAt, quiet>>
  BY DEF FindComment
<1>2. CASE There(creq[r].comment) /\ MayChange(creq[r])
  <2> DEFINE q == creq[r]
             new == NewCommentRequest("write", q.kind, q.comment, q.by, q.text, q.at)
  <2>1. q \in CommentRequest /\ q.pc = "find" /\ RequestTrue(q)
    BY DEF FindComment, AtStep, CommentInv, CommentTypeOK
  <2>2. new \in CommentRequest /\ new = [q EXCEPT !.pc = "write"]
    BY <2>1 DEF NewCommentRequest, CommentRequest
  <2>3. creq' = [creq EXCEPT ![r] = new]
    BY <1>2, <2>2 DEF FindComment
  <2>4. RequestTrue(new)
    BY <1>2, <2>1, NamesApart DEF RequestTrue, NewCommentRequest, There, MayChange
  <2> HIDE DEF new, q
  <2> QED BY <1>1, <2>2, <2>3, <2>4, CommentRequestStep
<1>3. CASE ~(There(creq[r].comment) /\ MayChange(creq[r]))
  BY <1>1, <1>3, RespondStep DEF FindComment
<1> QED BY <1>2, <1>3

(* A row is written and its request goes on to the emit.                   *)
LEMMA CommentWriteStep ==
    ASSUME CommentInv, NEW r \in CommentRequests, NEW c \in CommentIds,
           NEW by \in Users \cup {Nobody}, NEW text \in Texts \cup {Deleted},
           NEW says \in SUBSET Stored, creq[r].text = text, Written(r, c),
           comment' = [comment EXCEPT ![c] = [author |-> by, text |-> text]],
           written' = [written EXCEPT ![c] = says],
           UNCHANGED <<members, taskRow, socket, view, up, quiet>>,
           comment[c].text = Absent \/ (comment[c].text \in Texts /\ by = comment[c].author),
           written[c] \subseteq says, text \in Texts => text \in says
    PROVE  CommentInv'
<1> DEFINE new == NewCommentRequest("tell", "none", c, Nobody, text, creq[r].at)
<1>1. /\ new \in CommentRequest /\ creq' = [creq EXCEPT ![r] = new]
      /\ new.pc = "tell" /\ new.comment = c /\ new.text = text
      /\ lastAt' \in [CommentIds -> Servers \cup {Nobody}]
  <2>1. creq[r].at \in Servers \cup {Nobody} /\ lastAt \in [CommentIds -> Servers \cup {Nobody}]
    BY DEF CommentInv, CommentTypeOK, CommentRequest
  <2> QED BY <2>1 DEF Written, NewCommentRequest, CommentRequest, Stored
<1> HIDE DEF new
<1>2. /\ creq' \in [CommentRequests -> CommentRequest]
      /\ \A x \in CommentRequests : creq'[x] = IF x = r THEN new ELSE creq[x]
  BY <1>1 DEF CommentInv, CommentTypeOK
<1>3. PICK rec \in [author : Users \cup {Nobody}, text : Stored] :
          rec = [author |-> by, text |-> text]
  BY DEF Stored
<1>4. /\ comment' \in [CommentIds -> [author : Users \cup {Nobody}, text : Stored]]
      /\ \A x \in CommentIds : comment'[x] = IF x = c THEN rec ELSE comment[x]
      /\ rec.author = by /\ rec.text = text
      /\ written' \in [CommentIds -> SUBSET Stored]
      /\ \A x \in CommentIds : written'[x] = IF x = c THEN says ELSE written[x]
  BY <1>3 DEF CommentInv, CommentTypeOK
<1>5. CommentTypeOK'
  BY <1>1, <1>2, <1>4 DEF CommentInv, CommentTypeOK
<1>6. \A x \in CommentRequests : RequestTrue(creq[x])'
  <2> SUFFICES ASSUME NEW x \in CommentRequests  PROVE RequestTrue(creq[x])'
    OBVIOUS
  <2>1. CASE x = r
    BY <1>1, <1>2, <1>4, <2>1 DEF RequestTrue
  <2>2. CASE x # r
    BY <1>2, <1>4, <2>2, NamesApart DEF CommentInv, RequestTrue, StoredIsWritten
  <2> QED BY <2>1, <2>2
<1>7. StoredIsWritten'
  BY <1>4, NamesApart DEF CommentInv, StoredIsWritten
<1>8. EventsAreTrue'
  BY <1>4, NamesApart DEF CommentInv, EventsAreTrue, StoredIsWritten
<1> QED BY <1>5, <1>6, <1>7, <1>8 DEF CommentInv

LEMMA InsertCommentStep ==
    ASSUME CommentInv, NEW r \in CommentRequests, InsertComment(r)  PROVE CommentInv'
<1>1. /\ creq[r] \in CommentRequest /\ creq[r].text \in Texts
      /\ UNCHANGED <<members, taskRow, socket, view, up, quiet>>
  BY DEF InsertComment, AtStep, CommentInv, CommentTypeOK, RequestTrue
<1>2. CASE Respond(r) /\ UNCHANGED <<comment, written, lastAt>>
  BY <1>1, <1>2, RespondStep
<1>3. ASSUME NEW c \in CommentIds, Unused(c), Written(r, c),
             comment' = [comment EXCEPT ![c] = [author |-> creq[r].by, text |-> creq[r].text]],
             written' = [written EXCEPT ![c] = {creq[r].text}]
      PROVE  CommentInv'
  <2>1. PICK by \in Users \cup {Nobody}, text \in Texts \cup {Deleted}, says \in SUBSET Stored :
            by = creq[r].by /\ text = creq[r].text /\ says = {creq[r].text}
    BY <1>1 DEF CommentRequest, Stored
  <2>2. /\ comment' = [comment EXCEPT ![c] = [author |-> by, text |-> text]]
        /\ written' = [written EXCEPT ![c] = says]
    BY <1>3, <2>1
  <2>3. /\ comment[c].text = Absent /\ written[c] \subseteq says /\ text \in says
        /\ creq[r].text = text
    BY <1>3, <2>1 DEF Unused, CommentInv, StoredIsWritten
  <2> QED BY <1>1, <1>3, <2>2, <2>3, CommentWriteStep
<1> QED BY <1>2, <1>3 DEF InsertComment

LEMMA WriteCommentStep ==
    ASSUME CommentInv, NEW r \in CommentRequests, WriteComment(r)  PROVE CommentInv'
<1> DEFINE c == creq[r].comment
<1>1. /\ creq[r] \in CommentRequest /\ c \in CommentIds
      /\ creq[r].text \in Texts => creq[r].by = comment[c].author
      /\ creq[r].text \in Texts \cup {Deleted}
      /\ comment[c] \in [author : Users \cup {Nobody}, text : Stored]
      /\ written[c] \in SUBSET Stored
      /\ UNCHANGED <<members, taskRow, socket, view, up, quiet>>
  BY NamesApart DEF WriteComment, AtStep, CommentInv, CommentTypeOK, RequestTrue
<1>2. CASE Writable(c)
  <2>1. PICK by \in Users \cup {Nobody}, text \in Texts \cup {Deleted}, says \in SUBSET Stored :
            /\ by = comment[c].author /\ text = creq[r].text
            /\ says = IF creq[r].by = comment[c].author
                      THEN written[c] \cup {creq[r].text} ELSE written[c]
    BY <1>1 DEF Stored
  <2>2. /\ comment' = [comment EXCEPT ![c] = [author |-> by, text |-> text]]
        /\ written' = [written EXCEPT ![c] = says]
        /\ Written(r, c)
    BY <1>1, <1>2, <2>1 DEF WriteComment, CommentInv, CommentTypeOK
  <2>3. /\ comment[c].text \in Texts /\ by = comment[c].author
        /\ written[c] \subseteq says /\ text \in Texts => text \in says
    BY <1>1, <1>2, <2>1 DEF Writable, There
  <2> HIDE DEF c
  <2> QED BY <1>1, <2>1, <2>2, <2>3, CommentWriteStep
<1>3. CASE ~Writable(c)
  BY <1>1, <1>3, RespondStep DEF WriteComment
<1> QED BY <1>2, <1>3

(* What clients show changes and no row does.                              *)
LEMMA ViewStep ==
    ASSUME CommentInv, UNCHANGED <<comment, written, lastAt>>,
           members' \subseteq Users, taskRow' \in BOOLEAN, up' \subseteq Servers,
           quiet' \in BOOLEAN, socket' \in [Sockets -> SocketRecord],
           view' \in [Sockets -> [CommentIds -> Stored \cup {Unknown}]],
           creq' \in [CommentRequests -> CommentRequest],
           \A x \in CommentRequests : creq'[x] \in {creq[x], NoCommentRequest},
           \A s \in Sockets, c \in CommentIds :
               \/ view'[s][c] \in {view[s][c], Unknown, comment[c].text}
               \/ /\ view'[s][c] \in Texts => view'[s][c] \in written[c]
                  /\ view'[s][c] = Deleted => comment[c].text = Deleted
    PROVE  CommentInv'
<1>1. CommentTypeOK'
  BY DEF CommentInv, CommentTypeOK, SocketRecord
<1>2. \A x \in CommentRequests : RequestTrue(creq[x])'
  BY NoCommentRequestType DEF CommentInv, RequestTrue
<1>3. StoredIsWritten'
  BY DEF CommentInv, StoredIsWritten
<1>4. EventsAreTrue'
  BY NamesApart DEF CommentInv, StoredIsWritten, EventsAreTrue
<1> QED BY <1>1, <1>2, <1>3, <1>4 DEF CommentInv

LEMMA TellStep ==
    ASSUME CommentInv, NEW r \in CommentRequests, Tell(r)  PROVE CommentInv'
<1> DEFINE c == creq[r].comment
           text == creq[r].text
<1>1. /\ c \in CommentIds /\ text \in Stored
      /\ text \in Texts => text \in written[c]
      /\ text = Deleted => comment[c].text = Deleted
      /\ UNCHANGED <<members, taskRow, comment, socket, up, written, lastAt, quiet>>
  BY DEF Tell, AtStep, CommentInv, CommentTypeOK, CommentRequest, RequestTrue
<1>2. /\ creq' \in [CommentRequests -> CommentRequest]
      /\ \A x \in CommentRequests : creq'[x] \in {creq[x], NoCommentRequest}
  BY NoCommentRequestType DEF Tell, Respond, CommentInv, CommentTypeOK
<1>3. \A s \in Sockets : /\ view'[s] \in [CommentIds -> Stored \cup {Unknown}]
                         /\ \A d \in CommentIds :
                               view'[s][d] = view[s][d] \/ (d = c /\ view'[s][d] = text)
  <2> SUFFICES ASSUME NEW s \in Sockets
               PROVE  /\ view'[s] \in [CommentIds -> Stored \cup {Unknown}]
                      /\ \A d \in CommentIds :
                            view'[s][d] = view[s][d] \/ (d = c /\ view'[s][d] = text)
    OBVIOUS
  <2>1. view[s] \in [CommentIds -> Stored \cup {Unknown}]
    BY DEF CommentInv, CommentTypeOK
  <2>2. view'[s] = view[s] \/ view'[s] = [view[s] EXCEPT ![c] = text]
    BY DEF Tell
  <2> HIDE DEF c, text
  <2> QED BY <1>1, <2>1, <2>2
<1>4. view' \in [Sockets -> [CommentIds -> Stored \cup {Unknown}]]
  BY <1>3 DEF Tell
<1>5. socket \in [Sockets -> SocketRecord]
  BY DEF CommentInv, CommentTypeOK, SocketRecord
<1> HIDE DEF c, text
<1> QED BY <1>1, <1>2, <1>3, <1>4, <1>5, ViewStep DEF CommentInv, CommentTypeOK

(* Clients come and go, enter and leave rooms, and list what is there.     *)
LEMMA SocketStep ==
    ASSUME CommentInv, NEW s \in Sockets,
           \/ \E u \in Users, p \in Servers : Connect(s, u, p)
           \/ \E x \in Rooms : CheckMember(s, x) \/ JoinRoom(s, x) \/ LeaveRoom(s, x)
           \/ Disconnect(s) \/ ListComments(s)
    PROVE  CommentInv'
<1> DEFINE Socket == SocketRecord
           View == [CommentIds -> Stored \cup {Unknown}]
<1>1. UNCHANGED <<members, taskRow, comment, creq, up, written, lastAt, quiet>>
  BY DEF Connect, CheckMember, JoinRoom, LeaveRoom, Disconnect, ListComments
<1>2. socket[s] \in Socket /\ view[s] \in View /\ socket \in [Sockets -> Socket]
      /\ view \in [Sockets -> View]
  BY DEF CommentInv, CommentTypeOK, SocketRecord
<1>3. socket' \in [Sockets -> Socket]
  <2>1. ASSUME NEW u \in Users, NEW p \in Servers, Connect(s, u, p)
        PROVE  socket' \in [Sockets -> Socket]
    BY <1>2, <2>1 DEF Connect, NewSocket, SocketRecord
  <2>2. ASSUME NEW x \in Rooms, CheckMember(s, x)  PROVE socket' \in [Sockets -> Socket]
    BY <1>2, <2>2 DEF CheckMember, SocketRecord
  <2>3. ASSUME NEW x \in Rooms, JoinRoom(s, x)  PROVE socket' \in [Sockets -> Socket]
    BY <1>2, <2>3 DEF JoinRoom, SocketRecord
  <2>4. ASSUME NEW x \in Rooms, LeaveRoom(s, x)  PROVE socket' \in [Sockets -> Socket]
    BY <1>2, <2>4 DEF LeaveRoom, SocketRecord
  <2>5. CASE Disconnect(s)
    BY <1>2, <2>5, NoSocketType DEF Disconnect
  <2>6. CASE ListComments(s)
    BY <1>2, <2>6 DEF ListComments
  <2> QED BY <2>1, <2>2, <2>3, <2>4, <2>5, <2>6
<1>4. NoView \in View /\ [c \in CommentIds |-> comment[c].text] \in View
  BY DEF NoView, CommentInv, CommentTypeOK
<1>5. PICK new \in View :
          /\ view' = [view EXCEPT ![s] = new]
          /\ \A c \in CommentIds : new[c] \in {view[s][c], Unknown, comment[c].text}
  <2>1. CASE view' = view
    BY <1>2, <2>1
  <2>2. CASE view' = [view EXCEPT ![s] = NoView]
    BY <1>4, <2>2 DEF NoView
  <2>3. CASE view' = [view EXCEPT ![s] = [c \in CommentIds |-> comment[c].text]]
    BY <1>4, <2>3
  <2>4. ASSUME NEW x \in Rooms, LeaveRoom(s, x)
        PROVE  view' = view \/ view' = [view EXCEPT ![s] = NoView]
    BY <1>2, <2>4 DEF LeaveRoom
  <2> QED BY <2>1, <2>2, <2>3, <2>4 DEF Connect, CheckMember, JoinRoom, Disconnect, ListComments
<1>6. /\ view' \in [Sockets -> View]
      /\ \A x \in Sockets, c \in CommentIds :
            view'[x][c] \in {view[x][c], Unknown, comment[c].text}
  BY <1>2, <1>5
<1> QED BY <1>1, <1>3, <1>6, ViewStep DEF CommentInv, CommentTypeOK

(* The server closes its sockets, or ends with its requests.               *)
LEMMA ServerStep ==
    ASSUME CommentInv, NEW p \in Servers, CloseSocketServer(p) \/ RestartServer(p)
    PROVE  CommentInv'
<1>1. NoView \in [CommentIds -> Stored \cup {Unknown}]
  BY DEF NoView
<1>2. CASE CloseSocketServer(p)
  <2>1. socket \in [Sockets -> SocketRecord]
    BY DEF CommentInv, CommentTypeOK, SocketRecord
  <2>2. socket' \in [Sockets -> SocketRecord]
    BY <1>2, <2>1, NoSocketType DEF CloseSocketServer
  <2> QED BY <1>1, <1>2, <2>2, ViewStep DEF CloseSocketServer, NoView, CommentInv, CommentTypeOK
<1>3. CASE RestartServer(p)
  <2>1. socket' \in [Sockets -> SocketRecord]
    BY <1>3 DEF RestartServer, CommentInv, CommentTypeOK, SocketRecord
  <2> QED
    BY <1>3, <2>1, NoCommentRequestType, ViewStep DEF RestartServer, CommentInv, CommentTypeOK
<1> QED BY <1>2, <1>3

(* The comments of a deleted task are deleted.                             *)
LEMMA RemoveTaskStep ==
    ASSUME CommentInv, RemoveTask  PROVE CommentInv'
<1>1. UNCHANGED <<members, creq, socket, view, up, written, lastAt, quiet>> /\ taskRow' = FALSE
  BY DEF RemoveTask
<1>2. /\ comment' \in [CommentIds -> [author : Users \cup {Nobody}, text : Stored]]
      /\ \A c \in CommentIds :
            /\ comment'[c].author = comment[c].author
            /\ comment'[c].text = IF comment[c].text \in Texts THEN Deleted ELSE comment[c].text
  BY DEF RemoveTask, There, Stored, CommentInv, CommentTypeOK
<1>3. CommentTypeOK'
  BY <1>1, <1>2 DEF CommentInv, CommentTypeOK
<1>4. \A x \in CommentRequests : RequestTrue(creq[x])'
  BY <1>1, <1>2, NamesApart DEF CommentInv, RequestTrue
<1>5. StoredIsWritten' /\ EventsAreTrue'
  BY <1>1, <1>2, NamesApart DEF CommentInv, StoredIsWritten, EventsAreTrue
<1> QED BY <1>3, <1>4, <1>5 DEF CommentInv

LEMMA CommentInvariance == Spec => []CommentInv
<1>1. Init => CommentInv
  BY CommentInitInv DEF Init
<1>2. CommentInv /\ [Next]_collaborationVars => CommentInv'
  <2> SUFFICES ASSUME CommentInv, [Next]_collaborationVars  PROVE CommentInv'
    OBVIOUS
  <2>1. CASE UNCHANGED commentVars
    BY <2>1 DEF commentVars, CommentInv, CommentTypeOK, RequestTrue, StoredIsWritten,
       EventsAreTrue
  <2>2. CASE CommentNext
    <3>1. ASSUME NEW r \in CommentRequests, CommentFails(r)  PROVE CommentInv'
      BY <3>1, RespondStep DEF CommentFails
    <3> QED BY <2>2, <3>1, StartCommentStep, FindCommentStep, InsertCommentStep,
       WriteCommentStep, TellStep, SocketStep, ServerStep, RemoveTaskStep DEF CommentNext
  <2> QED BY <2>1, <2>2 DEF Next, Files, Team, Comment, Log, collaborationVars
<1> QED BY <1>1, <1>2, PTL DEF Spec

(* Clients show of a comment what its author wrote and the database        *)
(* accepted, or a deletion that took place.                                *)
THEOREM CommentEventsHold == Spec => []EventsAreTrue
<1>1. CommentInv => EventsAreTrue
  BY DEF CommentInv
<1> QED BY <1>1, CommentInvariance, PTL

-----------------------------------------------------------------------------
(***************************************************************************)
(* Comments, for requests that come one at a time and do not fail.  A view *)
(* is stale only between the write of a request and its emit, or when the  *)
(* request was served by another process than the client's; and a client   *)
(* without a room shows nothing that could become stale.                   *)
(***************************************************************************)
Telling(c) == \E r \in CommentRequests : creq[r].pc = "tell" /\ creq[r].comment = c

QuietInv ==
    /\ \A r, x \in CommentRequests : creq[r].pc # "idle" /\ creq[x].pc # "idle" => r = x
    /\ \A r \in CommentRequests :
          creq[r].pc = "tell" =>
              /\ creq[r].text = comment[creq[r].comment].text
              /\ creq[r].at = lastAt[creq[r].comment]
    /\ \A r \in CommentRequests : creq[r].pc # "idle" => creq[r].at \in Servers
    /\ \A s \in Sockets, c \in CommentIds :
          \/ view[s][c] \in {Unknown, comment[c].text}
          \/ Telling(c)
          \/ lastAt[c] \in Servers \ {socket[s].at}
    /\ \A s \in Sockets :
          /\ socket[s] # NoSocket => socket[s].at \in up
          /\ socket[s].rooms = {} => \A c \in CommentIds : view[s][c] = Unknown

(* A request that has nothing to emit goes on, and nothing else changes.   *)
LEMMA QuietRequestStep ==
    ASSUME CommentInv, QuietInv, NEW r \in CommentRequests, NEW new,
           creq' = [creq EXCEPT ![r] = new], creq[r].pc # "tell", new.pc # "tell",
           new.pc # "idle" => new.at \in Servers,
           creq[r].pc # "idle" \/ \A x \in CommentRequests : creq[x].pc = "idle",
           UNCHANGED <<comment, socket, view, up, lastAt>>
    PROVE  QuietInv'
<1>1. \A x \in CommentRequests : creq'[x] = IF x = r THEN new ELSE creq[x]
  BY DEF CommentInv, CommentTypeOK
<1>2. \A c : Telling(c)' <=> Telling(c)
  BY <1>1 DEF Telling
<1> QED
  BY <1>1, <1>2 DEF QuietInv

LEMMA QuietStart ==
    ASSUME CommentInv, QuietInv, quiet, NEW r \in CommentRequests, NEW u \in Users,
           NEW p \in Servers, StartComment(r, u, p)
    PROVE  QuietInv'
<1>1. PICK new : /\ creq' = [creq EXCEPT ![r] = new] /\ new.pc \in {"insert", "find"}
                 /\ new.at = p
  <2>1. \A pc, kind, c, by, t, at : /\ NewCommentRequest(pc, kind, c, by, t, at).pc = pc
                                    /\ NewCommentRequest(pc, kind, c, by, t, at).at = at
    BY DEF NewCommentRequest
  <2>2. CASE \E t \in Texts :
            creq' = [creq EXCEPT ![r] = NewCommentRequest("insert", "create", Nobody, u, t, p)]
    <3>1. PICK t \in Texts : creq' = [creq EXCEPT ![r] = NewCommentRequest("insert", "create", Nobody, u, t, p)]
      BY <2>2
    <3>2. PICK new : new = NewCommentRequest("insert", "create", Nobody, u, t, p)
      OBVIOUS
    <3>3. creq' = [creq EXCEPT ![r] = new] /\ new.pc \in {"insert", "find"} /\ new.at = p
      BY <2>1, <3>1, <3>2
    <3> QED
      BY <3>3
  <2>3. CASE \E c \in CommentIds, t \in Texts :
            creq' = [creq EXCEPT ![r] = NewCommentRequest("find", "update", c, u, t, p)]
    <3>1. PICK c \in CommentIds, t \in Texts : creq' = [creq EXCEPT ![r] = NewCommentRequest("find", "update", c, u, t, p)]
      BY <2>3
    <3>2. PICK new : new = NewCommentRequest("find", "update", c, u, t, p)
      OBVIOUS
    <3>3. creq' = [creq EXCEPT ![r] = new] /\ new.pc \in {"insert", "find"} /\ new.at = p
      BY <2>1, <3>1, <3>2
    <3> QED
      BY <3>3
  <2>4. CASE \E c \in CommentIds :
            creq' = [creq EXCEPT ![r] = NewCommentRequest("find", "delete", c, u, Deleted, p)]
    <3>1. PICK c \in CommentIds : creq' = [creq EXCEPT ![r] = NewCommentRequest("find", "delete", c, u, Deleted, p)]
      BY <2>4
    <3>2. PICK new : new = NewCommentRequest("find", "delete", c, u, Deleted, p)
      OBVIOUS
    <3>3. creq' = [creq EXCEPT ![r] = new] /\ new.pc \in {"insert", "find"} /\ new.at = p
      BY <2>1, <3>1, <3>2
    <3> QED
      BY <3>3
  <2> QED
    BY <2>2, <2>3, <2>4 DEF StartComment
<1> QED
  BY <1>1, QuietRequestStep DEF StartComment, AtStep

LEMMA QuietRespond ==
    ASSUME CommentInv, QuietInv, NEW r \in CommentRequests, Respond(r),
           creq[r].pc \notin {"tell", "idle"}, UNCHANGED <<comment, socket, view, up, lastAt>>
    PROVE  QuietInv'
  BY NoCommentRequestType, QuietRequestStep DEF Respond

LEMMA QuietFind ==
    ASSUME CommentInv, QuietInv, NEW r \in CommentRequests, FindComment(r)
    PROVE  QuietInv'
<1>1. creq[r].pc = "find" /\ creq[r] \in CommentRequest /\ UNCHANGED <<comment, socket, view, up, lastAt>>
  BY DEF FindComment, AtStep, CommentInv, CommentTypeOK
<1>2. CASE There(creq[r].comment) /\ MayChange(creq[r])
  <2>1. PICK new : new = [creq[r] EXCEPT !.pc = "write"]
    OBVIOUS
  <2>2. new.pc = "write" /\ new.at \in Servers
    BY <1>1, <2>1 DEF CommentRequest, QuietInv
  <2>3. creq' = [creq EXCEPT ![r] = new]
    BY <1>2, <2>1 DEF FindComment
  <2> QED
    BY <1>1, <2>2, <2>3, QuietRequestStep
<1>3. CASE ~(There(creq[r].comment) /\ MayChange(creq[r]))
  BY <1>1, <1>3, QuietRespond DEF FindComment
<1> QED
  BY <1>2, <1>3

(* A row is written: what shows it is stale until the emit.                *)
LEMMA QuietWritten ==
    ASSUME CommentInv, QuietInv, quiet, NEW r \in CommentRequests, NEW c \in CommentIds,
           creq[r].pc \notin {"tell", "idle"}, Written(r, c), UNCHANGED <<socket, view, up>>,
           NEW by, comment' = [comment EXCEPT ![c] = [author |-> by, text |-> creq[r].text]]
    PROVE  QuietInv'
<1> PICK new : new = NewCommentRequest("tell", "none", c, Nobody, creq[r].text, creq[r].at)
  OBVIOUS
<1>1. /\ creq' = [creq EXCEPT ![r] = new]
      /\ new.pc = "tell" /\ new.comment = c /\ new.text = creq[r].text
      /\ new.at = creq[r].at /\ new.at \in Servers
      /\ \A d \in CommentIds : lastAt'[d] = IF d = c THEN new.at ELSE lastAt[d]
  BY DEF Written, NewCommentRequest, QuietInv, CommentInv, CommentTypeOK
<1>2. \A x \in CommentRequests : creq'[x] = IF x = r THEN new ELSE creq[x]
  BY <1>1 DEF CommentInv, CommentTypeOK
<1>3. /\ comment'[c].text = new.text
      /\ \A d \in CommentIds \ {c} : comment'[d] = comment[d]
  BY <1>1 DEF CommentInv, CommentTypeOK
<1>4. \A x \in CommentRequests \ {r} : creq[x].pc = "idle"
  BY DEF QuietInv
<1>5. Telling(c)' /\ \A d \in CommentIds : Telling(d) => Telling(d)'
  BY <1>1, <1>2 DEF Telling
<1>6. \A s \in Sockets, d \in CommentIds :
          \/ view'[s][d] \in {Unknown, comment'[d].text}
          \/ Telling(d)'
          \/ lastAt'[d] \in Servers \ {socket'[s].at}
  BY <1>1, <1>3, <1>5 DEF QuietInv
<1> QED
  BY <1>1, <1>2, <1>3, <1>4, <1>6 DEF QuietInv

LEMMA QuietInsert ==
    ASSUME CommentInv, QuietInv, quiet, NEW r \in CommentRequests, InsertComment(r)
    PROVE  QuietInv'
<1>1. creq[r].pc = "insert" /\ UNCHANGED <<socket, view, up>>
  BY DEF InsertComment, AtStep
<1>2. CASE Respond(r) /\ UNCHANGED <<comment, written, lastAt>>
  BY <1>1, <1>2, QuietRespond
<1>3. ASSUME NEW c \in CommentIds, Written(r, c),
             comment' = [comment EXCEPT ![c] = [author |-> creq[r].by, text |-> creq[r].text]]
      PROVE  QuietInv'
  BY <1>1, <1>3, QuietWritten
<1> QED
  BY <1>2, <1>3 DEF InsertComment

LEMMA QuietWrite ==
    ASSUME CommentInv, QuietInv, quiet, NEW r \in CommentRequests, WriteComment(r)
    PROVE  QuietInv'
<1>1. creq[r].pc = "write" /\ creq[r].comment \in CommentIds /\ UNCHANGED <<socket, view, up>>
  BY DEF WriteComment, AtStep, CommentInv, RequestTrue
<1>2. PICK c \in CommentIds : c = creq[r].comment
  BY <1>1
<1>3. CASE Writable(c)
  <2>1. PICK by : by = comment[c].author
    OBVIOUS
  <2>2. /\ comment' = [comment EXCEPT ![c] = [author |-> by, text |-> creq[r].text]]
        /\ Written(r, c)
    BY <1>2, <1>3, <2>1 DEF WriteComment, CommentInv, CommentTypeOK
  <2> QED
    BY <1>1, <2>2, QuietWritten
<1>4. CASE ~Writable(c)
  BY <1>1, <1>2, <1>4, QuietRespond DEF WriteComment
<1> QED
  BY <1>3, <1>4

(* The emit: whoever is in a room, on the same process, shows what is      *)
(* stored.                                                                 *)
LEMMA QuietTell ==
    ASSUME CommentInv, QuietInv, quiet, NEW r \in CommentRequests, Tell(r)
    PROVE  QuietInv'
<1>1. PICK c \in CommentIds : c = creq[r].comment
  BY DEF Tell, AtStep, CommentInv, RequestTrue
<1>2. /\ creq[r].pc = "tell" /\ creq[r].text = comment[c].text
      /\ creq[r].at = lastAt[c] /\ creq[r].at \in Servers
      /\ UNCHANGED <<comment, socket, up, lastAt>>
  BY <1>1 DEF Tell, AtStep, QuietInv
<1>3. /\ \A x \in CommentRequests : creq'[x].pc = "idle"
      /\ \A d \in CommentIds \ {c} : ~Telling(d)
  <2>1. \A x \in CommentRequests \ {r} : creq[x].pc = "idle"
    BY <1>2 DEF QuietInv
  <2>2. \A x \in CommentRequests : creq'[x] = IF x = r THEN NoCommentRequest ELSE creq[x]
    BY DEF Tell, Respond, CommentInv, CommentTypeOK
  <2> QED
    BY <1>1, <2>1, <2>2, NoCommentRequestType DEF Telling
<1>4. ASSUME NEW s \in Sockets
      PROVE  /\ \A d \in CommentIds : \/ view'[s][d] \in {Unknown, comment[d].text}
                                      \/ lastAt[d] \in Servers \ {socket[s].at}
             /\ socket[s].rooms = {} => \A d \in CommentIds : view'[s][d] = Unknown
  <2>1. /\ view[s] \in [CommentIds -> Stored \cup {Unknown}] /\ socket[s].rooms \subseteq Rooms
        /\ socket[s].rooms # {} => socket[s].at \in up
    BY NoSocketType DEF CommentInv, CommentTypeOK, QuietInv
  <2>2. CASE Hears(s, creq[r].at)
    <3>1. view'[s] = [view[s] EXCEPT ![c] = comment[c].text]
      BY <1>1, <1>2, <2>2 DEF Tell
    <3>2. socket[s].rooms # {}
      BY <2>2 DEF Hears
    <3> QED
      BY <1>3, <2>1, <3>1, <3>2 DEF QuietInv
  <2>3. CASE ~Hears(s, creq[r].at)
    <3>1. view'[s] = view[s]
      BY <2>3 DEF Tell
    <3>2. socket[s].rooms = {} \/ socket[s].at # creq[r].at
      BY <2>1, <2>3 DEF Hears, Announced, Rooms
    <3> QED
      BY <1>2, <1>3, <3>1, <3>2 DEF QuietInv
  <2> QED
    BY <2>2, <2>3
<1> QED
  BY <1>2, <1>3, <1>4 DEF QuietInv

(* Clients come and go, enter and leave rooms, and list what is there.     *)
LEMMA QuietSocket ==
    ASSUME CommentInv, QuietInv, NEW s \in Sockets,
           \/ \E u \in Users, p \in Servers : Connect(s, u, p)
           \/ \E x \in Rooms : CheckMember(s, x) \/ JoinRoom(s, x) \/ LeaveRoom(s, x)
           \/ Disconnect(s) \/ ListComments(s)
    PROVE  QuietInv'
<1>1. UNCHANGED <<comment, creq, up, lastAt>> /\ \A c : Telling(c)' <=> Telling(c)
  BY DEF Connect, CheckMember, JoinRoom, LeaveRoom, Disconnect, ListComments, Telling
<1>2. /\ socket[s] \in SocketRecord
      /\ view[s] \in [CommentIds -> Stored \cup {Unknown}]
      /\ socket \in [Sockets -> SocketRecord]
      /\ view \in [Sockets -> [CommentIds -> Stored \cup {Unknown}]]
  BY DEF CommentInv, CommentTypeOK, SocketRecord
<1>3. NoSocket.rooms = {} /\ NoSocket.joining = {} /\ NoSocket.user = Nobody
      /\ \A c \in CommentIds : NoView[c] = Unknown
  BY NoSocketType DEF NoView
<1>4. \A x \in Sockets \ {s} : socket'[x] = socket[x] /\ view'[x] = view[x]
  BY <1>2 DEF Connect, CheckMember, JoinRoom, LeaveRoom, Disconnect, ListComments
<1>5. /\ \A c \in CommentIds : \/ view'[s][c] \in {Unknown, comment[c].text}
                               \/ Telling(c)
                               \/ lastAt[c] \in Servers \ {socket'[s].at}
      /\ socket'[s] # NoSocket => socket'[s].at \in up
      /\ socket'[s].rooms = {} => \A c \in CommentIds : view'[s][c] = Unknown
  <2> DEFINE same == socket'[s].at = socket[s].at /\ socket[s] # NoSocket
  <2>1. ASSUME NEW u \in Users, NEW p \in Servers, Connect(s, u, p)
        PROVE  socket'[s].at \in up /\ socket[s].rooms = {} /\ view' = view
    BY <1>2, <1>3, <2>1 DEF Connect, NewSocket
  <2>2. ASSUME NEW x \in Rooms, CheckMember(s, x)
        PROVE  same /\ socket'[s].rooms = socket[s].rooms /\ view' = view
    <3>1. socket[s] # NoSocket
      BY <1>3, <2>2, CommentAssumption DEF CheckMember, CommentInv, CommentTypeOK
    <3> QED
      BY <1>2, <2>2, <3>1 DEF CheckMember, SocketRecord
  <2>3. ASSUME NEW x \in Rooms, JoinRoom(s, x)
        PROVE  same /\ socket[s].rooms \subseteq socket'[s].rooms /\ view' = view
    <3>1. socket[s] # NoSocket
      BY <1>3, <2>3 DEF JoinRoom
    <3>2. socket[s].rooms \subseteq socket'[s].rooms /\ socket'[s].at = socket[s].at
      BY <1>2, <2>3 DEF JoinRoom, SocketRecord
    <3> QED
      BY <2>3, <3>1, <3>2 DEF JoinRoom
  <2>4. ASSUME NEW x \in Rooms, LeaveRoom(s, x)
        PROVE  /\ same /\ socket[s].rooms # {}
               /\ view'[s] = NoView \/ (socket'[s].rooms # {} /\ view'[s] = view[s])
    <3>1. x \in socket[s].rooms /\ socket[s] # NoSocket
      BY <1>3, <2>4 DEF LeaveRoom
    <3>4. socket'[s].at = socket[s].at
      BY <1>2, <2>4 DEF LeaveRoom, SocketRecord
    <3>2. CASE socket[s].rooms = {x}
      BY <1>2, <2>4, <3>1, <3>2, <3>4 DEF LeaveRoom
    <3>3. CASE socket[s].rooms # {x}
      <4>1. socket'[s].rooms = socket[s].rooms \ {x}
        BY <1>2, <2>4 DEF LeaveRoom, SocketRecord
      <4> QED
        BY <1>2, <2>4, <3>1, <3>3, <3>4, <4>1 DEF LeaveRoom
    <3> QED
      BY <3>2, <3>3
  <2>5. CASE Disconnect(s)
    BY <1>2, <1>3, <2>5 DEF Disconnect
  <2>6. CASE ListComments(s)
    <3>1. socket' = socket /\ socket[s].rooms # {}
      BY <1>3, <2>6 DEF ListComments
    <3>2. \A c \in CommentIds : view'[s][c] = comment[c].text
      BY <1>2, <2>6 DEF ListComments
    <3> QED
      BY <3>1, <3>2 DEF QuietInv
  <2> QED
    BY <1>3, <2>1, <2>2, <2>3, <2>4, <2>5, <2>6 DEF QuietInv
<1> QED
  BY <1>1, <1>4, <1>5 DEF QuietInv

LEMMA QuietServer ==
    ASSUME CommentInv, QuietInv, NEW p \in Servers, CloseSocketServer(p) \/ RestartServer(p)
    PROVE  QuietInv'
<1>1. NoSocket.rooms = {} /\ \A c \in CommentIds : NoView[c] = Unknown
  BY NoSocketType DEF NoView
<1>2. CASE CloseSocketServer(p)
  <2>1. /\ UNCHANGED <<comment, creq, lastAt>> /\ up' = up \ {p}
        /\ \A s \in Sockets : \/ socket'[s] = NoSocket /\ view'[s] = NoView
                             \/ /\ socket[s].at # p
                                /\ socket'[s] = socket[s] /\ view'[s] = view[s]
    BY <1>2 DEF CloseSocketServer
  <2>2. \A c \in CommentIds : Telling(c)' <=> Telling(c)
    BY <2>1 DEF Telling
  <2> QED
    BY <1>1, <2>1, <2>2 DEF QuietInv
<1>3. CASE RestartServer(p)
  <2>1. /\ UNCHANGED <<comment, socket, view, lastAt>> /\ up' = up \cup {p} /\ p \notin up
        /\ \A r \in CommentRequests : \/ creq'[r] = creq[r] /\ creq[r].at # p
                                      \/ creq[r].at = p /\ creq'[r].pc = "idle"
    <3>1. creq' = [r \in CommentRequests |->
                     IF creq[r].at = p THEN NoCommentRequest ELSE creq[r]]
      BY <1>3 DEF RestartServer
    <3>2. \A r \in CommentRequests :
              creq'[r] = IF creq[r].at = p THEN NoCommentRequest ELSE creq[r]
      BY <3>1
    <3>3. \A r \in CommentRequests : \/ creq'[r] = creq[r] /\ creq[r].at # p
                                     \/ creq[r].at = p /\ creq'[r].pc = "idle"
      BY <3>2, NoCommentRequestType
    <3> QED
      BY <1>3, <3>3 DEF RestartServer
  <2>2. \A c \in CommentIds : Telling(c) => Telling(c)' \/ lastAt[c] = p
    BY <2>1 DEF Telling, QuietInv
  <2>3. ASSUME NEW s \in Sockets, NEW c \in CommentIds
        PROVE  \/ view[s][c] \in {Unknown, comment[c].text}
               \/ Telling(c)'
               \/ lastAt[c] \in Servers \ {socket[s].at}
    <3>1. CASE socket[s] = NoSocket
      BY <1>1, <3>1 DEF QuietInv
    <3>2. CASE socket[s] # NoSocket
      BY <2>1, <2>2, <3>2 DEF QuietInv
    <3> QED
      BY <3>1, <3>2
  <2> QED
    BY <2>1, <2>3 DEF QuietInv
<1> QED
  BY <1>2, <1>3

LEMMA QuietNext ==
    ASSUME CommentInv, quiet => QuietInv, CommentNext PROVE (quiet => QuietInv)'
<1>1. quiet' = quiet
  BY DEF CommentNext, StartComment, FindComment, InsertComment, WriteComment, Tell, CommentFails,
     Connect, CheckMember, JoinRoom, LeaveRoom, Disconnect, ListComments, CloseSocketServer,
     RestartServer, RemoveTask
<1>2. ASSUME quiet PROVE QuietInv'
  <2>1. ~RemoveTask /\ \A r \in CommentRequests : ~CommentFails(r)
    BY <1>2 DEF RemoveTask, CommentFails
  <2> QED
    BY <1>2, <2>1, QuietStart, QuietFind, QuietInsert, QuietWrite, QuietTell, QuietSocket,
       QuietServer DEF CommentNext
<1> QED
  BY <1>1, <1>2

(* The clients of src/config/socket.ts, for requests that come one at a    *)
(* time and do not fail: whatever rooms a client entered and left, and     *)
(* whenever it listed the comments, between requests it shows each comment *)
(* it knows of as the database has it, if its own process served the last  *)
(* change.  For any number of processes.                                   *)
THEOREM ClientsCatchUp == Spec => []QuietEvents
<1>1. Init => CommentInv /\ (quiet => QuietInv)
  BY CommentInitInv, NoCommentRequestType, NoSocketType
     DEF Init, CommentInit, QuietInv, NoView
<1>2. CommentInv /\ (quiet => QuietInv) /\ CommentInv' /\ [Next]_collaborationVars =>
          (quiet => QuietInv)'
  <2> SUFFICES ASSUME CommentInv, quiet => QuietInv, [Next]_collaborationVars
               PROVE  (quiet => QuietInv)'
    OBVIOUS
  <2>1. CASE UNCHANGED commentVars
    BY <2>1 DEF commentVars, QuietInv, Telling
  <2>2. CASE CommentNext
    BY <2>2, QuietNext
  <2> QED
    BY <2>1, <2>2 DEF Next, Files, Team, Comment, Log, collaborationVars
<1>3. (quiet => QuietInv) => QuietEvents
  BY DEF QuietInv, QuietEvents, AtStep, Telling
<1> QED
  BY <1>1, <1>2, <1>3, CommentInvariance, PTL DEF Spec

-----------------------------------------------------------------------------
(***************************************************************************)
(* The activity log.  While nobody tampers, hashes grow from row to row as *)
(* long as every handler inserts behind the row it has seen; the first row *)
(* that is inserted behind another one continues a shorter hash.           *)
(***************************************************************************)
LogRow == [legacy : BOOLEAN, body : Bodies, prevHash : Seq(Bodies), hash : Seq(Bodies)]

LegacyFirst(s) ==
    \A i \in 1..Len(s) : s[i].legacy => s[i].hash = <<>> /\ \A j \in 1..i : s[j].legacy

HashBefore(s, i) == IF i = 1 THEN <<>> ELSE s[i - 1].hash

(* Row i continues the chain and says what was hashed.                     *)
Continues(s, i) ==
    s[i].prevHash = HashBefore(s, i) /\ s[i].hash = HashOf(s[i].prevHash, s[i].body)

WriterRecord == [pc : {"idle", "insert"}, prevHash : Seq(Bodies), seen : Nat]

(* Rows up to the first fork continue the chain, and that one does not.    *)
ForkShape ==
    /\ forked \in 0..Len(logs)
    /\ forked # 0 => ~logs[forked].legacy /\ ~Continues(logs, forked)
    /\ \A i \in 1..Len(logs) :
          (~logs[i].legacy /\ (forked = 0 \/ i < forked)) => Continues(logs, i)

(* Until then every hash is longer than those before it.                   *)
HashesGrow ==
    forked = 0 =>
        \A j \in 1..Len(logs) : ~logs[j].legacy =>
            /\ Len(logs[j].hash) > 0
            /\ \A i \in 1..(j - 1) : Len(logs[i].hash) < Len(logs[j].hash)

(* A handler holds the hash of the last row it has seen, and those that    *)
(* came since are chained.                                                 *)
WritersHold ==
    \A r \in Writers : writer[r].pc = "insert" =>
        /\ writer[r].seen <= Len(logs)
        /\ writer[r].prevHash = HashBefore(logs, writer[r].seen + 1)
        /\ \A j \in (writer[r].seen + 1)..Len(logs) : ~logs[j].legacy

(* Row m is the last chained one before row i; 0: there is none.           *)
LastChained(s, i, m) ==
    /\ m # 0 => ~s[m].legacy
    /\ \A j \in (m + 1)..(i - 1) : s[j].legacy
HashAt(s, m) == IF m = 0 THEN <<>> ELSE s[m].hash

BrokenAt(s, i, m) ==
    /\ i <= Fetch /\ ~s[i].legacy /\ LastChained(s, i, m)
    /\ ~(s[i].prevHash = HashAt(s, m) /\ s[i].hash = HashOf(s[i].prevHash, s[i].body))
Broken(s) == \E i \in 1..Len(s) : \E m \in 0..(i - 1) : BrokenAt(s, i, m)

(* The inductive invariant.                                                *)
LogInv ==
    /\ logs \in Seq(LogRow)
    /\ writer \in [Writers -> WriterRecord]
    /\ forked \in Nat
    /\ tampered \in {"no", "covered", "other"}
    /\ tampered = "no" => LegacyFirst(logs) /\ ForkShape /\ HashesGrow /\ WritersHold
    /\ tampered = "covered" => Broken(logs)

(* What the loop of verifyAuditChainIntegrity expects is the hash of the   *)
(* row before.                                                             *)
LEMMA ExpectedIsBefore ==
    ASSUME NEW s \in Seq(LogRow), LegacyFirst(s), NEW i \in 1..Len(s)
    PROVE  ExpectedPrevHash(s, i) = HashBefore(s, i)
<1> DEFINE before == {j \in 1..(i - 1) : ~s[j].legacy}
<1>1. i \in Nat /\ i >= 1 /\ i <= Len(s) /\ Len(s) \in Nat
  OBVIOUS
<1>2. ExpectedPrevHash(s, i) = IF before = {} THEN <<>>
                               ELSE s[CHOOSE j \in before : \A k \in before : k <= j].hash
  BY DEF ExpectedPrevHash
<1>3. CASE i = 1
  BY <1>2, <1>3 DEF HashBefore
<1>4. CASE i # 1 /\ s[i - 1].legacy
  <2>1. i - 1 \in 1..Len(s)
    BY <1>1, <1>4
  <2>2. s[i - 1].hash = <<>> /\ \A j \in 1..(i - 1) : s[j].legacy
    BY <1>4, <2>1 DEF LegacyFirst
  <2> QED
    BY <1>2, <1>4, <2>2 DEF HashBefore
<1>5. CASE i # 1 /\ ~s[i - 1].legacy
  <2>1. i - 1 \in before /\ \A k \in before : k \in Nat /\ k <= i - 1
    BY <1>1, <1>5
  <2> HIDE DEF before
  <2>2. (CHOOSE j \in before : \A k \in before : k <= j) = i - 1
    <3>1. PICK m : m = CHOOSE j \in before : \A k \in before : k <= j
      OBVIOUS
    <3>2. m \in before /\ \A k \in before : k <= m
      BY <2>1, <3>1
    <3>3. m <= i - 1 /\ i - 1 <= m /\ m \in Nat
      BY <2>1, <3>2
    <3> QED
      BY <1>1, <3>1, <3>3
  <2> QED
    BY <1>2, <1>5, <2>1, <2>2 DEF HashBefore
<1> QED
  BY <1>3, <1>4, <1>5

LEMMA ExpectedIsLast ==
    ASSUME NEW s \in Seq(LogRow), NEW i \in 1..Len(s), NEW m \in 0..(i - 1), LastChained(s, i, m)
    PROVE  ExpectedPrevHash(s, i) = HashAt(s, m)
<1> DEFINE before == {j \in 1..(i - 1) : ~s[j].legacy}
<1>1. ExpectedPrevHash(s, i) = IF before = {} THEN <<>>
                               ELSE s[CHOOSE j \in before : \A k \in before : k <= j].hash
  BY DEF ExpectedPrevHash
<1>2. i \in Nat /\ m \in Nat /\ m <= i - 1
  OBVIOUS
<1>3. CASE m = 0
  <2>1. before = {}
    BY <1>2, <1>3 DEF LastChained
  <2> QED
    BY <1>1, <1>3, <2>1 DEF HashAt
<1>4. CASE m # 0
  <2>1. m \in before
    BY <1>2, <1>4 DEF LastChained
  <2>2. \A k \in before : k \in Nat /\ k <= m
    <3> SUFFICES ASSUME NEW k \in before, k > m PROVE FALSE
      BY <1>2
    <3>1. k \in (m + 1)..(i - 1) /\ ~s[k].legacy
      BY <1>2
    <3> QED
      BY <3>1 DEF LastChained
  <2> HIDE DEF before
  <2>3. PICK c : c = CHOOSE j \in before : \A k \in before : k <= j
    OBVIOUS
  <2>4. c \in before /\ \A k \in before : k <= c
    BY <2>1, <2>2, <2>3
  <2>5. c = m
    <3>1. c \in Nat /\ c <= m /\ m <= c
      BY <2>1, <2>2, <2>4
    <3> QED
      BY <1>2, <3>1
  <2> QED
    BY <1>1, <1>4, <2>1, <2>3, <2>5 DEF HashAt
<1> QED
  BY <1>3, <1>4

(* What is fetched is the beginning of the log.                            *)
LEMMA FetchedRows ==
    ASSUME logs \in Seq(LogRow)
    PROVE  /\ Fetched \in Seq(LogRow)
           /\ \A i : i \in 1..Len(Fetched) <=> (i \in 1..Len(logs) /\ i <= Fetch)
           /\ \A i \in 1..Len(Fetched) : Fetched[i] = logs[i]
<1>1. PICK n \in Nat : n = IF Len(logs) < Fetch THEN Len(logs) ELSE Fetch
  BY BoundsAssumption
<1>2. n <= Len(logs) /\ Len(logs) \in Nat /\ Fetch \in Nat
  BY <1>1, BoundsAssumption
<1>3. Fetched = SubSeq(logs, 1, n)
  BY <1>1 DEF Fetched
<1>4. /\ Fetched \in Seq(LogRow) /\ Len(Fetched) = n
      /\ \A i \in 1..n : Fetched[i] = logs[i]
  BY <1>2, <1>3
<1> QED
  BY <1>1, <1>2, <1>4

LEMMA FetchedLegacy ==
    ASSUME logs \in Seq(LogRow), LegacyFirst(logs)
    PROVE  /\ LegacyFirst(Fetched)
           /\ Valid(Fetched) <=> \A i \in 1..Len(logs) :
                  i <= Fetch /\ ~logs[i].legacy => Continues(logs, i)
<1> PICK s \in Seq(LogRow) : s = Fetched
  BY FetchedRows
<1>1. /\ \A i : i \in 1..Len(s) <=> (i \in 1..Len(logs) /\ i <= Fetch)
      /\ \A i \in 1..Len(s) : s[i] = logs[i]
  BY FetchedRows
<1>2. \A i \in 1..Len(s) : \A j \in 1..i : j \in 1..Len(s)
  OBVIOUS
<1>3. LegacyFirst(s)
  BY <1>1, <1>2 DEF LegacyFirst
<1>4. ASSUME NEW i \in 1..Len(s)
      PROVE  Continues(logs, i) <=> /\ s[i].prevHash = ExpectedPrevHash(s, i)
                                    /\ s[i].hash = HashOf(s[i].prevHash, s[i].body)
  <2>1. ExpectedPrevHash(s, i) = HashBefore(s, i)
    BY <1>3, ExpectedIsBefore
  <2>2. i # 1 => i - 1 \in 1..Len(s)
    OBVIOUS
  <2>3. HashBefore(s, i) = HashBefore(logs, i)
    BY <1>1, <2>2 DEF HashBefore
  <2> QED
    BY <1>1, <2>1, <2>3 DEF Continues
<1>5. Valid(s) <=> \A i \in 1..Len(s) : ~s[i].legacy => Continues(logs, i)
  BY <1>4 DEF Valid
<1> QED
  BY <1>1, <1>3, <1>5

(* A log that is broken somewhere does not verify.                         *)
LEMMA BrokenFails ==
    ASSUME logs \in Seq(LogRow), Broken(logs) PROVE ~Valid(Fetched)
<1>1. PICK i \in 1..Len(logs) : \E m \in 0..(i - 1) : BrokenAt(logs, i, m)
  BY DEF Broken
<1>2. PICK m \in 0..(i - 1) : BrokenAt(logs, i, m)
  BY <1>1
<1> PICK s \in Seq(LogRow) : s = Fetched
  BY FetchedRows
<1>3. /\ \A k : k \in 1..Len(s) <=> (k \in 1..Len(logs) /\ k <= Fetch)
      /\ \A k \in 1..Len(s) : s[k] = logs[k]
  BY FetchedRows
<1>4. i \in 1..Len(s) /\ \A k \in 1..i : k \in 1..Len(s) /\ s[k] = logs[k]
  <2>1. i \in 1..Len(s)
    BY <1>2, <1>3 DEF BrokenAt
  <2> QED
    BY <1>3, <2>1
<1>5. LastChained(s, i, m) /\ HashAt(s, m) = HashAt(logs, m)
  <2>1. m # 0 => m \in 1..i
    OBVIOUS
  <2>2. \A k \in (m + 1)..(i - 1) : k \in 1..i
    OBVIOUS
  <2> QED
    BY <1>2, <1>4, <2>1, <2>2 DEF BrokenAt, LastChained, HashAt
<1>6. ExpectedPrevHash(s, i) = HashAt(logs, m)
  BY <1>4, <1>5, ExpectedIsLast
<1>7. s[i] = logs[i] /\ ~s[i].legacy
      /\ ~(s[i].prevHash = HashAt(logs, m) /\ s[i].hash = HashOf(s[i].prevHash, s[i].body))
  BY <1>2, <1>4 DEF BrokenAt
<1> QED
  BY <1>4, <1>6, <1>7 DEF Valid

(* Appending mends nothing.                                                *)
LEMMA StaysBroken ==
    ASSUME logs \in Seq(LogRow), NEW s \in Seq(LogRow), Broken(logs),
           Len(s) = Len(logs) + 1, \A i \in 1..Len(logs) : s[i] = logs[i]
    PROVE  Broken(s)
<1>1. PICK i \in 1..Len(logs) : \E m \in 0..(i - 1) : BrokenAt(logs, i, m)
  BY DEF Broken
<1>2. PICK m \in 0..(i - 1) : BrokenAt(logs, i, m)
  BY <1>1
<1>3. \A k \in 1..i : k \in 1..Len(logs) /\ s[k] = logs[k]
  OBVIOUS
<1>4. LastChained(s, i, m) /\ HashAt(s, m) = HashAt(logs, m)
  <2>1. m # 0 => m \in 1..i
    OBVIOUS
  <2>2. \A k \in (m + 1)..(i - 1) : k \in 1..i
    OBVIOUS
  <2> QED
    BY <1>2, <1>3, <2>1, <2>2 DEF BrokenAt, LastChained, HashAt
<1>5. BrokenAt(s, i, m)
  BY <1>2, <1>3, <1>4 DEF BrokenAt
<1>6. i \in 1..Len(s)
  OBVIOUS
<1> QED
  BY <1>5, <1>6 DEF Broken

(* A row is appended.                                                      *)
LEMMA InsertLogStep ==
    ASSUME LogInv, NEW r \in Writers, InsertLog(r) PROVE LogInv'
<1>1. PICK w \in WriterRecord : w = writer[r]
  BY DEF LogInv
<1>2. PICK p \in Seq(Bodies) : p = w.prevHash
  BY DEF WriterRecord
<1>3. PICK k \in Nat : k = w.seen
  BY DEF WriterRecord
<1>4. PICK n \in Nat : n = Len(logs)
  BY DEF LogInv
<1>5. PICK b \in Bodies : logs' = Append(logs, Chained(b, p, HashOf(p, b)))
  BY <1>1, <1>2 DEF InsertLog
<1>6. PICK new \in LogRow : new = Chained(b, p, HashOf(p, b))
  <2>1. HashOf(p, b) \in Seq(Bodies)
    BY DEF HashOf
  <2> QED
    BY <2>1 DEF Chained, LogRow
<1>7. ~new.legacy /\ new.body = b /\ new.prevHash = p /\ new.hash = HashOf(p, b)
  BY <1>6 DEF Chained
<1>8. Len(new.hash) = Len(p) + 1 /\ Len(p) \in Nat
  BY <1>7, AppendProperties DEF HashOf
<1>9. /\ logs' \in Seq(LogRow) /\ Len(logs') = n + 1 /\ logs'[n + 1] = new
      /\ \A i \in 1..n : logs'[i] = logs[i] /\ logs[i] \in LogRow
  BY <1>4, <1>5, <1>6 DEF LogInv
<1>10. /\ forked' = IF forked = 0 /\ k # n THEN n + 1 ELSE forked
       /\ tampered' = tampered /\ w.pc = "insert"
  BY <1>1, <1>3, <1>4 DEF InsertLog
<1>11. /\ writer' \in [Writers -> WriterRecord]
       /\ \A x \in Writers : writer'[x].pc = "insert" => writer'[x] = writer[x]
  BY DEF InsertLog, NoWriter, LogInv, WriterRecord
<1>12. \A i \in 1..n : /\ HashBefore(logs', i) = HashBefore(logs, i)
                       /\ Continues(logs', i) <=> Continues(logs, i)
  <2> SUFFICES ASSUME NEW i \in 1..n PROVE /\ HashBefore(logs', i) = HashBefore(logs, i)
                                           /\ Continues(logs', i) <=> Continues(logs, i)
    OBVIOUS
  <2>1. i # 1 => i - 1 \in 1..n
    OBVIOUS
  <2>2. HashBefore(logs', i) = HashBefore(logs, i)
    BY <1>9, <2>1 DEF HashBefore
  <2> QED
    BY <1>9, <2>2 DEF Continues
<1>13. HashBefore(logs', n + 1) = HashBefore(logs, n + 1)
  <2>1. n + 1 # 1 => n \in 1..n /\ (n + 1) - 1 = n
    OBVIOUS
  <2> QED
    BY <1>9, <2>1 DEF HashBefore
<1>14. ASSUME tampered = "no"
       PROVE  (LegacyFirst(logs) /\ ForkShape /\ HashesGrow /\ WritersHold)'
  <2>1. /\ k <= n /\ p = HashBefore(logs, k + 1)
        /\ \A j \in (k + 1)..n : ~logs[j].legacy
    BY <1>1, <1>2, <1>3, <1>4, <1>10, <1>14 DEF LogInv, WritersHold
  <2>2. LegacyFirst(logs')
    <3> SUFFICES ASSUME NEW i \in 1..Len(logs'), logs'[i].legacy
                 PROVE  logs'[i].hash = <<>> /\ \A j \in 1..i : logs'[j].legacy
      BY DEF LegacyFirst
    <3>1. i \in 1..n /\ \A j \in 1..i : j \in 1..n
      BY <1>7, <1>9
    <3>2. logs[i].hash = <<>> /\ \A j \in 1..i : logs[j].legacy
      BY <1>4, <1>9, <1>14, <3>1 DEF LogInv, LegacyFirst
    <3> QED
      BY <1>9, <3>1, <3>2
  <2>3. WritersHold'
    <3> SUFFICES ASSUME NEW x \in Writers, writer'[x].pc = "insert"
                 PROVE  /\ writer'[x].seen <= Len(logs')
                        /\ writer'[x].prevHash = HashBefore(logs', writer'[x].seen + 1)
                        /\ \A j \in (writer'[x].seen + 1)..Len(logs') : ~logs'[j].legacy
      BY DEF WritersHold
    <3>1. PICK z \in WriterRecord : z = writer[x] /\ z = writer'[x]
      BY <1>11 DEF LogInv
    <3>2. PICK q \in Nat : q = z.seen
      BY DEF WriterRecord
    <3>3. /\ q <= n /\ z.prevHash = HashBefore(logs, q + 1)
          /\ \A j \in (q + 1)..n : ~logs[j].legacy
      BY <1>4, <1>14, <3>1, <3>2 DEF LogInv, WritersHold
    <3>4. HashBefore(logs', q + 1) = HashBefore(logs, q + 1)
      <4>1. q + 1 \in 1..n \/ q + 1 = n + 1
        BY <3>3
      <4> QED
        BY <1>12, <1>13, <4>1
    <3>5. \A j \in (q + 1)..(n + 1) : ~logs'[j].legacy
      <4> SUFFICES ASSUME NEW j \in (q + 1)..(n + 1) PROVE ~logs'[j].legacy
        OBVIOUS
      <4>1. CASE j = n + 1
        BY <1>7, <1>9, <4>1
      <4>2. CASE j # n + 1
        BY <1>9, <3>3, <4>2
      <4> QED
        BY <4>1, <4>2
    <3> QED
      BY <1>9, <3>1, <3>2, <3>3, <3>4, <3>5
  <2>4. \A i \in 1..(n + 1) : i \in 1..n \/ i = n + 1
    OBVIOUS
  <2>5. CASE forked # 0
    <3>1. forked' = forked /\ forked \in 1..n
      BY <1>4, <1>10, <1>14, <2>5 DEF LogInv, ForkShape
    <3>2. ForkShape'
      <4>1. ~logs'[forked].legacy /\ ~Continues(logs', forked)
        BY <1>9, <1>12, <1>14, <2>5, <3>1 DEF LogInv, ForkShape
      <4>2. ASSUME NEW i \in 1..(n + 1), ~logs'[i].legacy, i < forked
            PROVE  Continues(logs', i)
        <5>1. i \in 1..n
          BY <3>1, <4>2
        <5> QED
          BY <1>4, <1>9, <1>12, <1>14, <4>2, <5>1 DEF LogInv, ForkShape
      <4>3. forked' \in 0..(n + 1)
        BY <3>1
      <4> QED
        BY <1>9, <2>5, <3>1, <4>1, <4>2, <4>3 DEF ForkShape
    <3> QED
      BY <2>2, <2>3, <2>5, <3>1, <3>2 DEF HashesGrow
  <2>6. CASE forked = 0 /\ k = n
    <3>1. forked' = 0
      BY <1>10, <2>6
    <3>2. Continues(logs', n + 1)
      BY <1>7, <1>9, <1>13, <2>1, <2>6 DEF Continues
    <3>3. ForkShape'
      <4>1. ASSUME NEW i \in 1..(n + 1), ~logs'[i].legacy PROVE Continues(logs', i)
        <5>1. CASE i \in 1..n
          BY <1>4, <1>9, <1>12, <1>14, <2>6, <4>1, <5>1 DEF LogInv, ForkShape
        <5> QED
          BY <2>4, <3>2, <5>1
      <4>2. forked' \in 0..(n + 1)
        BY <3>1
      <4> QED
        BY <1>9, <3>1, <4>1, <4>2 DEF ForkShape
    <3>4. \A i \in 1..n : Len(logs[i].hash) < Len(p) + 1
      <4> SUFFICES ASSUME NEW i \in 1..n PROVE Len(logs[i].hash) < Len(p) + 1
        OBVIOUS
      <4>1. n \in 1..n /\ n + 1 # 1 /\ (n + 1) - 1 = n
        OBVIOUS
      <4>2. p = logs[n].hash
        BY <2>1, <2>6, <4>1 DEF HashBefore
      <4>3. logs[i].hash \in Seq(Bodies) /\ Len(logs[i].hash) \in Nat
        BY <1>9 DEF LogRow
      <4>4. CASE logs[n].legacy
        <5>1. logs[i].legacy
          BY <1>4, <1>14, <4>1, <4>4 DEF LogInv, LegacyFirst
        <5>2. logs[i].hash = <<>>
          BY <1>4, <1>14, <5>1 DEF LogInv, LegacyFirst
        <5> QED
          BY <1>8, <5>2
      <4>5. CASE ~logs[n].legacy /\ i # n
        <5>1. i \in 1..(n - 1)
          BY <4>5
        <5>2. Len(logs[i].hash) < Len(logs[n].hash)
          BY <1>4, <1>14, <2>6, <4>1, <4>5, <5>1 DEF LogInv, HashesGrow
        <5> QED
          BY <1>8, <4>2, <4>3, <5>2
      <4>6. CASE i = n
        BY <1>8, <4>2, <4>6
      <4> QED
        BY <4>4, <4>5, <4>6
    <3>5. HashesGrow'
      <4> SUFFICES ASSUME NEW j \in 1..(n + 1), ~logs'[j].legacy
                   PROVE  /\ Len(logs'[j].hash) > 0
                          /\ \A i \in 1..(j - 1) : Len(logs'[i].hash) < Len(logs'[j].hash)
        BY <1>9 DEF HashesGrow
      <4>1. CASE j = n + 1
        <5>1. \A i \in 1..(j - 1) : i \in 1..n
          BY <4>1
        <5> QED
          BY <1>7, <1>8, <1>9, <3>4, <4>1, <5>1
      <4>2. CASE j \in 1..n
        <5>1. \A i \in 1..(j - 1) : i \in 1..n
          BY <4>2
        <5> QED
          BY <1>4, <1>9, <1>14, <2>6, <4>2, <5>1 DEF LogInv, HashesGrow
      <4> QED
        BY <2>4, <4>1, <4>2
    <3> QED
      BY <2>2, <2>3, <3>3, <3>5
  <2>7. CASE forked = 0 /\ k # n
    <3>1. forked' = n + 1 /\ k < n
      BY <1>10, <2>1, <2>7
    <3>2. ~Continues(logs', n + 1)
      <4>1. n \in 1..n /\ n + 1 # 1 /\ (n + 1) - 1 = n /\ n \in (k + 1)..n
        BY <3>1
      <4>2. HashBefore(logs', n + 1) = logs[n].hash
        BY <1>13, <4>1 DEF HashBefore
      <4>3. ~logs[n].legacy
        BY <2>1, <4>1
      <4>4. Len(p) < Len(logs[n].hash)
        <5>1. CASE k = 0
          <6>1. p = <<>>
            BY <2>1, <5>1 DEF HashBefore
          <6> QED
            BY <1>4, <1>14, <2>7, <4>1, <4>3, <6>1 DEF LogInv, HashesGrow
        <5>2. CASE k # 0
          <6>1. k \in 1..(n - 1) /\ k + 1 # 1 /\ (k + 1) - 1 = k
            BY <3>1, <5>2
          <6>2. p = logs[k].hash
            BY <2>1, <6>1 DEF HashBefore
          <6> QED
            BY <1>4, <1>14, <2>7, <4>1, <4>3, <6>1, <6>2 DEF LogInv, HashesGrow
        <5> QED
          BY <5>1, <5>2
      <4>5. p # logs[n].hash
        BY <1>8, <4>4
      <4> QED
        BY <1>7, <1>9, <4>2, <4>5 DEF Continues
    <3>3. ForkShape'
      <4>1. ASSUME NEW i \in 1..(n + 1), ~logs'[i].legacy, i < n + 1 PROVE Continues(logs', i)
        <5>1. i \in 1..n
          BY <4>1
        <5> QED
          BY <1>4, <1>9, <1>12, <1>14, <2>7, <4>1, <5>1 DEF LogInv, ForkShape
      <4>2. forked' \in 0..(n + 1) /\ forked' # 0
        BY <3>1
      <4> QED
        BY <1>7, <1>9, <3>1, <3>2, <4>1, <4>2 DEF ForkShape
    <3>4. HashesGrow'
      BY <3>1 DEF HashesGrow
    <3> QED
      BY <2>2, <2>3, <3>3, <3>4
  <2> QED
    BY <2>5, <2>6, <2>7
<1>15. ASSUME tampered = "covered" PROVE Broken(logs')
  <2>1. logs \in Seq(LogRow) /\ Broken(logs)
    BY <1>15 DEF LogInv
  <2>2. PICK s \in Seq(LogRow) : s = logs'
    BY <1>9
  <2>3. Len(s) = Len(logs) + 1 /\ \A i \in 1..Len(logs) : s[i] = logs[i]
    BY <1>4, <1>9, <2>2
  <2> QED
    BY <2>1, <2>2, <2>3, StaysBroken
<1>16. forked' \in Nat
  BY <1>10 DEF LogInv
<1> QED
  BY <1>9, <1>10, <1>11, <1>14, <1>15, <1>16 DEF LogInv

LEMMA FindLatestStep ==
    ASSUME LogInv, NEW r \in Writers, FindLatest(r) \/ LogFails(r) PROVE LogInv'
<1>1. UNCHANGED <<logs, forked, tampered>>
  BY DEF FindLatest, LogFails
<1>2. PICK n \in Nat : n = Len(logs)
  BY DEF LogInv
<1>3. PrevHash \in Seq(Bodies) /\ PrevHash = HashBefore(logs, n + 1)
  <2>1. CASE n = 0
    <3>1. logs = <<>>
      BY <1>2, <2>1, EmptySeq DEF LogInv
    <3> QED
      BY <2>1, <3>1 DEF PrevHash, HashBefore
  <2>2. CASE n # 0
    <3>1. logs[n] \in LogRow /\ logs # <<>> /\ n + 1 # 1 /\ (n + 1) - 1 = n
      BY <1>2, <2>2 DEF LogInv
    <3> QED
      BY <1>2, <3>1 DEF PrevHash, HashBefore, LogRow
  <2> QED
    BY <2>1, <2>2
<1>4. PICK w \in WriterRecord :
          /\ writer' = [writer EXCEPT ![r] = w]
          /\ w.pc = "insert" => w.prevHash = PrevHash /\ w.seen = n
  <2>1. CASE FindLatest(r)
    <3>1. PICK p \in Seq(Bodies) : p = PrevHash
      BY <1>3
    <3>2. PICK w : w = [pc |-> "insert", prevHash |-> p, seen |-> n]
      OBVIOUS
    <3>3. w \in WriterRecord /\ w.prevHash = p /\ w.seen = n
      BY <3>2 DEF WriterRecord
    <3>4. writer' = [writer EXCEPT ![r] = w]
      BY <1>2, <2>1, <3>1, <3>2 DEF FindLatest
    <3> QED
      BY <3>1, <3>3, <3>4
  <2>2. CASE LogFails(r)
    <3>1. PICK w : w = NoWriter
      OBVIOUS
    <3>2. w \in WriterRecord /\ w.pc = "idle"
      BY <3>1 DEF NoWriter, WriterRecord
    <3>3. writer' = [writer EXCEPT ![r] = w]
      BY <2>2, <3>1 DEF LogFails
    <3> QED
      BY <3>2, <3>3
  <2> QED
    BY <2>1, <2>2
<1>5. /\ writer' \in [Writers -> WriterRecord]
      /\ \A x \in Writers : writer'[x] = IF x = r THEN w ELSE writer[x]
  BY <1>4 DEF LogInv
<1>6. WritersHold => WritersHold'
  <2> SUFFICES ASSUME WritersHold, NEW x \in Writers, writer'[x].pc = "insert"
               PROVE  /\ writer'[x].seen <= Len(logs)
                      /\ writer'[x].prevHash = HashBefore(logs, writer'[x].seen + 1)
                      /\ \A j \in (writer'[x].seen + 1)..Len(logs) : ~logs[j].legacy
    BY <1>1 DEF WritersHold
  <2>1. CASE x = r
    <3>1. writer'[x].seen = n /\ writer'[x].prevHash = PrevHash
      BY <1>4, <1>5, <2>1
    <3>2. \A j \in (n + 1)..n : FALSE
      OBVIOUS
    <3> QED
      BY <1>2, <1>3, <3>1, <3>2
  <2>2. CASE x # r
    BY <1>5, <2>2 DEF WritersHold
  <2> QED
    BY <2>1, <2>2
<1> QED
  BY <1>1, <1>5, <1>6 DEF LogInv, ForkShape, HashesGrow

(* What tampering with a covered row starts from: row i and the next one   *)
(* continue the chain.                                                     *)
LEMMA CoveredRows ==
    ASSUME LogInv, tampered = "no", NEW i \in 1..Len(logs), Covered(i)
    PROVE  /\ ~logs[i].legacy /\ i + 1 \in 1..Len(logs) /\ i + 1 <= Fetch
           /\ ~logs[i + 1].legacy /\ logs[i + 1].prevHash = logs[i].hash
           /\ logs[i].hash = Append(logs[i].prevHash, logs[i].body)
           /\ logs[i].hash # logs[i].prevHash
           /\ logs[i] \in LogRow
           /\ \E m \in 0..(i - 1) : LastChained(logs, i, m) /\ HashAt(logs, m) = logs[i].prevHash
<1>1. logs \in Seq(LogRow) /\ LegacyFirst(logs) /\ Len(logs) \in Nat /\ Fetch \in Nat
  BY BoundsAssumption DEF LogInv
<1>2. Valid(Fetched) /\ ~logs[i].legacy /\ i < Len(logs) /\ i < Fetch
  BY DEF Covered
<1>3. i + 1 \in 1..Len(logs) /\ i + 1 <= Fetch /\ i <= Fetch /\ i \in 1..(i + 1) /\ i + 1 # 1
      /\ (i + 1) - 1 = i
  BY <1>1, <1>2
<1>4. ~logs[i + 1].legacy
  BY <1>1, <1>2, <1>3 DEF LegacyFirst
<1>5. Continues(logs, i) /\ Continues(logs, i + 1)
  BY <1>1, <1>2, <1>3, <1>4, FetchedLegacy
<1>6. logs[i + 1].prevHash = logs[i].hash
  BY <1>3, <1>5 DEF Continues, HashBefore
<1>7. logs[i].hash = Append(logs[i].prevHash, logs[i].body)
  BY <1>5 DEF Continues, HashOf
<1>8. logs[i] \in LogRow
  BY <1>1
<1>9. logs[i].hash # logs[i].prevHash
  <2>1. logs[i].prevHash \in Seq(Bodies) /\ logs[i].body \in Bodies
    BY <1>8 DEF LogRow
  <2> QED
    BY <1>7, <2>1, AppendProperties
<1>10. PICK m \in 0..(i - 1) : LastChained(logs, i, m) /\ HashAt(logs, m) = HashBefore(logs, i)
  <2>1. CASE i = 1
    <3>1. LastChained(logs, i, 0) /\ HashAt(logs, 0) = HashBefore(logs, i)
      BY <2>1 DEF LastChained, HashAt, HashBefore
    <3> QED
      BY <2>1, <3>1
  <2>2. CASE i # 1 /\ logs[i - 1].legacy
    <3>1. i - 1 \in 1..Len(logs)
      BY <1>1, <2>2
    <3>2. logs[i - 1].hash = <<>> /\ \A j \in 1..(i - 1) : logs[j].legacy
      BY <1>1, <2>2, <3>1 DEF LegacyFirst
    <3>3. LastChained(logs, i, 0) /\ HashAt(logs, 0) = HashBefore(logs, i)
      BY <2>2, <3>2 DEF LastChained, HashAt, HashBefore
    <3> QED
      BY <3>3
  <2>3. CASE i # 1 /\ ~logs[i - 1].legacy
    <3>1. i - 1 \in 0..(i - 1) /\ i - 1 # 0 /\ \A j \in ((i - 1) + 1)..(i - 1) : FALSE
      BY <2>3
    <3>2. LastChained(logs, i, i - 1) /\ HashAt(logs, i - 1) = HashBefore(logs, i)
      BY <2>3, <3>1 DEF LastChained, HashAt, HashBefore
    <3> QED
      BY <3>1, <3>2
  <2> QED
    BY <2>1, <2>2, <2>3
<1>11. HashAt(logs, m) = logs[i].prevHash
  BY <1>5, <1>10 DEF Continues
<1> QED
  BY <1>2, <1>3, <1>4, <1>6, <1>7, <1>8, <1>9, <1>10, <1>11

(* A forged row has the type of one.                                       *)
LEMMA ForgedType ==
    ASSUME LogInv, NEW h \in Seq(Bodies) PROVE Forged(h) \subseteq LogRow
<1>1. \A b \in Bodies : Legacy(b) \in LogRow
  BY DEF Legacy, LogRow
<1>2. StoredHashes \subseteq Seq(Bodies)
  <2>1. \A i \in 1..Len(logs) : logs[i].hash \in Seq(Bodies)
    <3> TAKE i \in 1..Len(logs)
    <3>1. logs[i] \in LogRow
      BY DEF LogInv
    <3> QED
      BY <3>1 DEF LogRow
  <2>2. <<>> \in Seq(Bodies)
    OBVIOUS
  <2> QED
    BY <2>1, <2>2 DEF StoredHashes
<1>3. \A b \in Bodies, p \in Seq(Bodies), g \in Seq(Bodies) : Chained(b, p, g) \in LogRow
  BY DEF Chained, LogRow
<1>4. \A b \in Bodies, p \in Seq(Bodies) : HashOf(p, b) \in Seq(Bodies)
  BY DEF HashOf
<1> QED
  BY <1>1, <1>2, <1>3, <1>4 DEF Forged

(* What follows from a change that leaves the log broken, if it is covered.*)
LEMMA TamperStep ==
    ASSUME LogInv, NEW covered \in BOOLEAN, Tamper(covered), logs' \in Seq(LogRow),
           covered => Broken(logs')
    PROVE  LogInv'
  BY DEF Tamper, LogInv

(* A covered row is replaced: it does not fit its own hash, or the next    *)
(* one does not continue it.                                               *)
LEMMA EditStep ==
    ASSUME LogInv, NEW i \in 1..Len(logs), Edit(i) PROVE LogInv'
<1>1. logs \in Seq(LogRow) /\ logs[i] \in LogRow /\ tampered = "no" /\ Len(logs) \in Nat
  BY DEF LogInv, Edit, Tamper
<1>2. logs[i].hash \in Seq(Bodies)
  BY <1>1 DEF LogRow
<1>3. PICK entry \in LogRow : entry # logs[i] /\ logs' = [logs EXCEPT ![i] = entry]
  BY <1>2, ForgedType DEF Edit
<1>4. /\ logs' \in Seq(LogRow) /\ Len(logs') = Len(logs)
      /\ \A j \in 1..Len(logs) : logs'[j] = IF j = i THEN entry ELSE logs[j]
  BY <1>1, <1>3, ExceptSeq
<1>5. ASSUME Covered(i) PROVE Broken(logs')
  <2>1. /\ ~logs[i].legacy /\ i + 1 \in 1..Len(logs) /\ i + 1 <= Fetch
        /\ ~logs[i + 1].legacy /\ logs[i + 1].prevHash = logs[i].hash
        /\ logs[i].hash = Append(logs[i].prevHash, logs[i].body)
        /\ logs[i].hash # logs[i].prevHash
    BY <1>1, <1>5, CoveredRows
  <2>2. PICK m \in 0..(i - 1) :
            LastChained(logs, i, m) /\ HashAt(logs, m) = logs[i].prevHash
    BY <1>1, <1>5, CoveredRows
  <2>3. /\ m # 0 => m \in 1..Len(logs) /\ m # i
        /\ \A j \in (m + 1)..(i - 1) : j \in 1..Len(logs) /\ j # i
        /\ m \in 0..((i + 1) - 1) /\ i + 1 # i /\ i <= Fetch
    <3>1. PICK n \in Nat : n = Len(logs)
      BY <1>1
    <3>2. i \in 1..n
      BY <3>1
    <3>3. m # 0 => m \in 1..n /\ m # i
      BY <3>2
    <3>4. \A j \in (m + 1)..(i - 1) : j \in 1..n /\ j # i
      BY <3>2
    <3>5. m \in 0..((i + 1) - 1) /\ i + 1 # i
      BY <3>2
    <3>6. i <= Fetch
      BY <2>1, <3>2, BoundsAssumption
    <3> QED
      BY <3>1, <3>3, <3>4, <3>5, <3>6
  <2>4. LastChained(logs', i, m) /\ HashAt(logs', m) = logs[i].prevHash
    BY <1>4, <2>2, <2>3 DEF LastChained, HashAt
  <2>5. logs'[i] = entry /\ logs'[i + 1] = logs[i + 1]
    BY <1>4, <2>1, <2>3
  <2>6. CASE entry.legacy
    <3>1. LastChained(logs', i + 1, m)
      <4>1. \A j \in (m + 1)..((i + 1) - 1) : j \in (m + 1)..(i - 1) \/ j = i
        OBVIOUS
      <4> QED
        BY <2>4, <2>5, <2>6, <4>1 DEF LastChained
    <3>2. BrokenAt(logs', i + 1, m)
      BY <2>1, <2>4, <2>5, <3>1 DEF BrokenAt
    <3> QED
      BY <1>4, <2>1, <2>3, <3>2 DEF Broken
  <2>7. CASE ~entry.legacy
    <3>1. LastChained(logs', i + 1, i) /\ HashAt(logs', i) = entry.hash
      <4>1. \A j \in (i + 1)..((i + 1) - 1) : FALSE
        OBVIOUS
      <4>2. i # 0
        OBVIOUS
      <4> QED
        BY <2>5, <2>7, <4>1, <4>2 DEF LastChained, HashAt
    <3>2. ~(/\ entry.prevHash = logs[i].prevHash /\ entry.hash = Append(entry.prevHash, entry.body)
            /\ logs[i + 1].prevHash = entry.hash)
      <4> SUFFICES ASSUME entry.prevHash = logs[i].prevHash,
                          entry.hash = Append(entry.prevHash, entry.body),
                          logs[i + 1].prevHash = entry.hash
                   PROVE  FALSE
        OBVIOUS
      <4>1. entry.hash = logs[i].hash /\ entry.legacy = logs[i].legacy
        BY <1>1, <1>3, <2>1, <2>7 DEF LogRow
      <4>2. /\ logs[i].prevHash \in Seq(Bodies) /\ logs[i].body \in Bodies
            /\ entry.body \in Bodies
        BY <1>1, <1>3 DEF LogRow
      <4>3. Append(logs[i].prevHash, entry.body) = Append(logs[i].prevHash, logs[i].body)
        BY <2>1, <4>1
      <4>4. entry.body = logs[i].body
        <5>1. \A q \in Seq(Bodies), b \in Bodies, c \in Bodies :
                  Append(q, b) = Append(q, c) => b = c
          <6>1. SUFFICES ASSUME NEW q \in Seq(Bodies), NEW b \in Bodies, NEW c \in Bodies,
                                Append(q, b) = Append(q, c)
                         PROVE  b = c
            OBVIOUS
          <6>2. Append(q, b)[Len(q) + 1] = b /\ Append(q, c)[Len(q) + 1] = c
            BY AppendProperties
          <6> QED
            BY <6>1, <6>2
        <5> QED
          BY <4>2, <4>3, <5>1
      <4>5. \A p \in LogRow :
              p = [legacy |-> p.legacy, body |-> p.body,
                   prevHash |-> p.prevHash, hash |-> p.hash]
        BY DEF LogRow
      <4>6. entry = logs[i]
        BY <1>1, <1>3, <4>1, <4>4, <4>5
      <4> QED
        BY <1>3, <4>6
    <3>3. BrokenAt(logs', i, m) \/ BrokenAt(logs', i + 1, i)
      BY <2>1, <2>3, <2>4, <2>5, <2>7, <3>1, <3>2 DEF BrokenAt, HashOf
    <3>4. i \in 0..((i + 1) - 1)
      OBVIOUS
    <3> QED
      BY <1>4, <2>1, <3>3, <3>4 DEF Broken
  <2> QED
    BY <2>6, <2>7
<1>6. Covered(i) \in BOOLEAN /\ Tamper(Covered(i))
  BY DEF Edit, Covered, Valid
<1> QED
  BY <1>4, <1>5, <1>6, TamperStep

(* The successor of a deleted row has lost its predecessor.                *)
LEMMA RemoveStep ==
    ASSUME LogInv, NEW i \in 1..Len(logs), Remove(i) PROVE LogInv'
<1>1. PICK n \in Nat : n = Len(logs)
  BY DEF LogInv
<1>2. /\ logs \in Seq(LogRow) /\ tampered = "no" /\ i \in 1..n
      /\ \A j \in 1..n : logs[j] \in LogRow
  BY <1>1 DEF LogInv, Remove, Tamper
<1>3. /\ logs' \in Seq(LogRow) /\ Len(logs') = n - 1
      /\ \A j \in 1..(n - 1) : logs'[j] = IF j < i THEN logs[j] ELSE logs[j + 1]
  <2>1. logs' = [j \in 1..(n - 1) |-> IF j < i THEN logs[j] ELSE logs[j + 1]]
    BY <1>1 DEF Remove
  <2>2. \A j \in 1..(n - 1) : (IF j < i THEN logs[j] ELSE logs[j + 1]) \in LogRow
    BY <1>2
  <2>3. n - 1 \in Nat
    BY <1>2
  <2>4. logs' \in [1..(n - 1) -> LogRow]
    BY <2>1, <2>2
  <2> QED
    BY <2>1, <2>3, <2>4
<1>4. ASSUME Covered(i) PROVE Broken(logs')
  <2>1. /\ i + 1 \in 1..n /\ i + 1 <= Fetch /\ Fetch \in Nat
        /\ ~logs[i + 1].legacy /\ logs[i + 1].prevHash = logs[i].hash
        /\ logs[i].hash # logs[i].prevHash
    BY <1>1, <1>2, <1>4, CoveredRows, BoundsAssumption
  <2>2. PICK m \in 0..(i - 1) :
            LastChained(logs, i, m) /\ HashAt(logs, m) = logs[i].prevHash
    BY <1>2, <1>4, CoveredRows
  <2>3. /\ m # 0 => m \in 1..(n - 1) /\ m < i
        /\ \A j \in (m + 1)..(i - 1) : j \in 1..(n - 1) /\ j < i
        /\ i \in 1..(n - 1) /\ i <= Fetch
    BY <1>2, <2>1
  <2>4. LastChained(logs', i, m) /\ HashAt(logs', m) = logs[i].prevHash
    BY <1>3, <2>2, <2>3 DEF LastChained, HashAt
  <2>5. logs'[i] = logs[i + 1]
    BY <1>3, <2>3
  <2>6. BrokenAt(logs', i, m)
    BY <2>1, <2>3, <2>4, <2>5 DEF BrokenAt
  <2> QED
    BY <1>3, <2>3, <2>6 DEF Broken
<1>5. Covered(i) \in BOOLEAN /\ Tamper(Covered(i))
  BY DEF Remove, Covered, Valid
<1> QED
  BY <1>3, <1>4, <1>5, TamperStep

(* A chained row that is slipped in does not fit its own hash, or the row  *)
(* behind it does not continue it.                                         *)
LEMMA SlipStep ==
    ASSUME LogInv, NEW i \in 1..Len(logs), NEW entry \in LogRow, Slip(i, entry) PROVE LogInv'
<1>1. PICK n \in Nat : n = Len(logs)
  BY DEF LogInv
<1>2. /\ logs \in Seq(LogRow) /\ tampered = "no" /\ i \in 1..n
      /\ \A j \in 1..n : logs[j] \in LogRow
  BY <1>1 DEF LogInv, Slip, Tamper
<1>3. /\ logs' \in Seq(LogRow) /\ Len(logs') = n + 1
      /\ \A j \in 1..(n + 1) :
            logs'[j] = IF j < i THEN logs[j] ELSE IF j = i THEN entry ELSE logs[j - 1]
  <2>1. logs' = [j \in 1..(n + 1) |->
                   IF j < i THEN logs[j] ELSE IF j = i THEN entry ELSE logs[j - 1]]
    BY <1>1 DEF Slip
  <2>2. \A j \in 1..(n + 1) :
            (IF j < i THEN logs[j] ELSE IF j = i THEN entry ELSE logs[j - 1]) \in LogRow
    BY <1>2
  <2>3. logs' \in [1..(n + 1) -> LogRow]
    BY <2>1, <2>2
  <2> QED
    BY <2>1, <2>3
<1>4. ASSUME ~entry.legacy, Covered(i) PROVE Broken(logs')
  <2>1. /\ ~logs[i].legacy /\ i + 1 <= Fetch /\ Fetch \in Nat
    BY <1>1, <1>2, <1>4, CoveredRows, BoundsAssumption
  <2>2. PICK m \in 0..(i - 1) :
            LastChained(logs, i, m) /\ HashAt(logs, m) = logs[i].prevHash
    BY <1>2, <1>4, CoveredRows
  <2>3. /\ m # 0 => m \in 1..(n + 1) /\ m < i
        /\ \A j \in (m + 1)..(i - 1) : j \in 1..(n + 1) /\ j < i
        /\ i \in 1..(n + 1) /\ i + 1 \in 1..(n + 1) /\ ~(i + 1 < i) /\ i + 1 # i
        /\ (i + 1) - 1 = i /\ i <= Fetch
    BY <1>2, <2>1
  <2>4. LastChained(logs', i, m) /\ HashAt(logs', m) = logs[i].prevHash
    BY <1>3, <2>2, <2>3 DEF LastChained, HashAt
  <2>5. logs'[i] = entry /\ logs'[i + 1] = logs[i]
    BY <1>3, <2>3
  <2>6. LastChained(logs', i + 1, i) /\ HashAt(logs', i) = entry.hash
    <3>1. \A j \in (i + 1)..((i + 1) - 1) : FALSE
      OBVIOUS
    <3>2. i # 0
      OBVIOUS
    <3> QED
      BY <1>4, <2>5, <3>1, <3>2 DEF LastChained, HashAt
  <2>7. Append(entry.prevHash, entry.body) # entry.prevHash
    <3>1. entry.prevHash \in Seq(Bodies) /\ entry.body \in Bodies
      BY DEF LogRow
    <3> QED
      BY <3>1, AppendProperties
  <2>8. BrokenAt(logs', i, m) \/ BrokenAt(logs', i + 1, i)
    BY <1>4, <2>1, <2>3, <2>4, <2>5, <2>6, <2>7 DEF BrokenAt, HashOf
  <2>9. i \in 0..((i + 1) - 1)
    OBVIOUS
  <2> QED
    BY <1>3, <2>3, <2>8, <2>9 DEF Broken
<1>5. (~entry.legacy /\ Covered(i)) \in BOOLEAN /\ Tamper(~entry.legacy /\ Covered(i))
  BY DEF Slip, Covered, Valid
<1> QED
  BY <1>3, <1>4, <1>5, TamperStep

LEMMA LogInitInv == LogInit => LogInv
<1> SUFFICES ASSUME LogInit PROVE LogInv
  OBVIOUS
<1>1. PICK n \in 0..MaxLegacy : logs \in [1..n -> {Legacy(b) : b \in Bodies}]
  BY DEF LogInit
<1>2. n \in Nat
  BY BoundsAssumption
<1>3. \A b \in Bodies : Legacy(b) \in LogRow /\ Legacy(b).legacy /\ Legacy(b).hash = <<>>
  BY DEF Legacy, LogRow
<1>4. logs \in [1..n -> LogRow] /\ \A i \in 1..n : logs[i].legacy /\ logs[i].hash = <<>>
  BY <1>1, <1>3
<1>5. logs \in Seq(LogRow) /\ Len(logs) = n
  BY <1>2, <1>4
<1>6. forked = 0 /\ tampered = "no"
  BY DEF LogInit
<1>7. LegacyFirst(logs) /\ ForkShape /\ HashesGrow
  BY <1>2, <1>4, <1>5, <1>6 DEF LegacyFirst, ForkShape, HashesGrow
<1>8. NoWriter \in WriterRecord /\ NoWriter.pc = "idle"
  BY DEF NoWriter, WriterRecord
<1>9. writer \in [Writers -> WriterRecord] /\ WritersHold
  BY <1>8 DEF LogInit, WritersHold
<1> QED
  BY <1>5, <1>6, <1>7, <1>9 DEF LogInv

LEMMA LogInvariance == Spec => []LogInv
<1>1. Init => LogInv
  BY LogInitInv DEF Init
<1>2. LogInv /\ [Next]_collaborationVars => LogInv'
  <2> SUFFICES ASSUME LogInv, [Next]_collaborationVars PROVE LogInv'
    OBVIOUS
  <2>1. CASE UNCHANGED logVars
    BY <2>1 DEF logVars, LogInv, ForkShape, HashesGrow, WritersHold
  <2>2. CASE LogNext
    <3>1. ASSUME NEW i \in 1..Len(logs), NEW entry \in Forged(logs[i].prevHash), Slip(i, entry)
          PROVE  LogInv'
      <4>1. logs[i] \in LogRow
        BY DEF LogInv
      <4>2. entry \in LogRow
        BY <4>1, ForgedType DEF LogRow
      <4> QED
        BY <3>1, <4>2, SlipStep
    <3> QED
      BY <2>2, <3>1, FindLatestStep, InsertLogStep, EditStep, RemoveStep DEF LogNext
  <2> QED
    BY <2>1, <2>2 DEF Next, Files, Team, Comment, Log, collaborationVars
<1> QED
  BY <1>1, <1>2, PTL DEF Spec

(* "Confirms that no audit records have been inserted, modified, or        *)
(* deleted out-of-band" (activity.service.ts:66): what any number of       *)
(* handlers have written verifies, however long the log and whatever of it *)
(* verification fetches, exactly if none of the rows fetched was inserted  *)
(* after one its handler had not seen.                                     *)
THEOREM UntouchedLogVerifies == Spec => []UntouchedVerifies
<1>1. LogInv => UntouchedVerifies
  <2> SUFFICES ASSUME LogInv, tampered = "no"
               PROVE  Valid(Fetched) <=> forked \notin 1..Fetch
    BY DEF UntouchedVerifies
  <2>1. logs \in Seq(LogRow) /\ LegacyFirst(logs) /\ ForkShape /\ forked \in Nat
        /\ Len(logs) \in Nat /\ Fetch \in Nat
    BY BoundsAssumption DEF LogInv
  <2>2. Valid(Fetched) <=> \A i \in 1..Len(logs) :
            i <= Fetch /\ ~logs[i].legacy => Continues(logs, i)
    BY <2>1, FetchedLegacy
  <2>3. CASE forked \in 1..Fetch
    <3>1. forked \in 1..Len(logs) /\ forked <= Fetch /\ forked # 0
      BY <2>1, <2>3 DEF ForkShape
    <3> QED
      BY <2>1, <2>2, <2>3, <3>1 DEF ForkShape
  <2>4. CASE forked \notin 1..Fetch
    <3>1. \A i \in 1..Len(logs) : i <= Fetch => forked = 0 \/ i < forked
      BY <2>1, <2>4
    <3> QED
      BY <2>1, <2>2, <2>4, <3>1 DEF ForkShape
  <2> QED
    BY <2>3, <2>4
<1> QED
  BY <1>1, LogInvariance, PTL

(* The same sentence read the other way: in a log that verified, a chained *)
(* row that was replaced, deleted or slipped in front of another one that  *)
(* is fetched is found, whoever logs before and afterwards, and although   *)
(* hashes can be computed anew.                                            *)
THEOREM TamperedLogFails == Spec => []TamperingIsFound
<1>1. LogInv => TamperingIsFound
  BY BrokenFails DEF LogInv, TamperingIsFound
<1> QED
  BY <1>1, LogInvariance, PTL

-----------------------------------------------------------------------------
(* Rows, requests, sockets and views keep their types.                     *)
THEOREM TypesCorrect == Spec => [](FileTypeOK /\ TeamTypeOK /\ CommentTypeOK)
<1>1. FileInv /\ TeamInv /\ CommentInv => FileTypeOK /\ TeamTypeOK /\ CommentTypeOK
  BY DEF FileInv, TeamInv, CommentInv
<1> QED BY <1>1, FileInvariance, TeamInvariance, CommentInvariance, PTL
=============================================================================

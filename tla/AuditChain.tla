----------------------------- MODULE AuditChain -----------------------------
(***************************************************************************)
(* The hash-chained activity log of one organization:                      *)
(* src/modules/activity/activity.service.ts.  Every handler that changes   *)
(* an organization, a project, a task, ... ends in logActivity, which      *)
(* reads the latest row in one await and inserts its successor in another. *)
(*                                                                         *)
(* A body is what is hashed besides the previous hash (user, entity,       *)
(* action).  SHA-256 is taken to be free of collisions: the hash of a row  *)
(* is the sequence of bodies that were hashed into it, 64 zeroes are <<>>. *)
(* Rows are kept in the order of createdAt, which is taken to be that of   *)
(* the inserts.                                                            *)
(*                                                                         *)
(* Definitions named Bug... are plausible mistakes in the definition that  *)
(* follows them; nothing uses them.                                        *)
(***************************************************************************)
EXTENDS Naturals, Sequences

CONSTANTS
    Bodies,     \* what rows may say
    Writers,    \* handlers that log at the same time
    MaxLegacy,  \* bound: rows from before hash chaining
    MaxLogs,    \* bound: rows written
    Fetch       \* rows findAllForVerification fetches

ASSUME BoundsAssumption == MaxLegacy \in Nat /\ MaxLogs \in Nat /\ Fetch \in Nat

VARIABLES
    logs,     \* activity_logs of the organization
    writer,   \* what each handler is doing; history: how many rows it has seen
    forked,   \* history: the first row inserted after one its handler had not seen; 0: none
    tampered  \* history: whether the log was changed out-of-band, and how

logVars == <<logs, writer, forked, tampered>>

Chained(body, prevHash, hash) ==
    [legacy |-> FALSE, body |-> body, prevHash |-> prevHash, hash |-> hash]
Legacy(body) == [legacy |-> TRUE, body |-> body, prevHash |-> <<>>, hash |-> <<>>]

HashOf(prevHash, body) == Append(prevHash, body)

NoWriter == [pc |-> "idle", prevHash |-> <<>>, seen |-> 0]

LogInit ==
    /\ \E n \in 0..MaxLegacy : logs \in [1..n -> {Legacy(b) : b \in Bodies}]
    /\ writer = [r \in Writers |-> NoWriter]
    /\ forked = 0
    /\ tampered = "no"

-----------------------------------------------------------------------------
(* logActivity.                                                            *)

BugPrevHash == IF Len(logs) < 2 THEN <<>> ELSE logs[Len(logs) - 1].hash

(* findLatestByOrganization and what logActivity takes from it.            *)
PrevHash == IF logs = <<>> THEN <<>> ELSE logs[Len(logs)].hash

FindLatest(r) ==
    /\ writer[r].pc = "idle"
    /\ writer' = [writer EXCEPT ![r] =
                    [pc |-> "insert", prevHash |-> PrevHash, seen |-> Len(logs)]]
    /\ UNCHANGED <<logs, forked, tampered>>

InsertLog(r) ==
    /\ writer[r].pc = "insert"
    /\ Len(logs) < MaxLogs
    /\ \E b \in Bodies :
           logs' = Append(logs, Chained(b, writer[r].prevHash, HashOf(writer[r].prevHash, b)))
    /\ forked' = IF forked = 0 /\ writer[r].seen # Len(logs) THEN Len(logs) + 1 ELSE forked
    /\ writer' = [writer EXCEPT ![r] = NoWriter]
    /\ UNCHANGED tampered

(* The insert throws: the handler's change stays, the row is missing.      *)
LogFails(r) ==
    /\ writer[r].pc = "insert"
    /\ writer' = [writer EXCEPT ![r] = NoWriter]
    /\ UNCHANGED <<logs, forked, tampered>>

-----------------------------------------------------------------------------
(* verifyAuditChainIntegrity.                                              *)

Fetched == SubSeq(logs, 1, IF Len(logs) < Fetch THEN Len(logs) ELSE Fetch)

(* The hash the loop expects in front of row i: that of the last chained   *)
(* row before it.                                                          *)
ExpectedPrevHash(s, i) ==
    LET before == {j \in 1..(i - 1) : ~s[j].legacy}
    IN  IF before = {} THEN <<>>
        ELSE s[CHOOSE j \in before : \A k \in before : k <= j].hash

BugValid(s) ==
    \A i \in 1..Len(s) : ~s[i].legacy => s[i].prevHash = ExpectedPrevHash(s, i)

Valid(s) ==
    \A i \in 1..Len(s) : ~s[i].legacy =>
        /\ s[i].prevHash = ExpectedPrevHash(s, i)
        /\ s[i].hash = HashOf(s[i].prevHash, s[i].body)

-----------------------------------------------------------------------------
(* Out-of-band changes of the log (external).  The hash is not keyed, so   *)
(* who writes to the table can compute one, and need not give a row any.   *)
(* Bounds: one change; a row that is written anew continues a hash that is *)
(* stored, and has the hash of the row it replaces or its own.             *)

StoredHashes == {<<>>} \cup {logs[i].hash : i \in 1..Len(logs)}
Forged(hash) ==
    {Legacy(b) : b \in Bodies}
    \cup {Chained(b, p, hash) : b \in Bodies, p \in StoredHashes}
    \cup {Chained(b, p, HashOf(p, b)) : b \in Bodies, p \in StoredHashes}

(* The log verified, and row i is followed by another one among those that *)
(* are fetched.                                                            *)
Covered(i) == Valid(Fetched) /\ ~logs[i].legacy /\ i < Len(logs) /\ i < Fetch
Tamper(covered) ==
    /\ tampered = "no"
    /\ tampered' = IF covered THEN "covered" ELSE "other"
    /\ UNCHANGED <<writer, forked>>

Edit(i) ==
    /\ \E row \in Forged(logs[i].hash) \ {logs[i]} : logs' = [logs EXCEPT ![i] = row]
    /\ Tamper(Covered(i))

Remove(i) ==
    /\ logs' = [j \in 1..(Len(logs) - 1) |-> IF j < i THEN logs[j] ELSE logs[j + 1]]
    /\ Tamper(Covered(i))

(* A row comes to stand before row i.                                      *)
Slip(i, row) ==
    /\ Len(logs) < MaxLogs
    /\ logs' = [j \in 1..(Len(logs) + 1) |->
                  IF j < i THEN logs[j] ELSE IF j = i THEN row ELSE logs[j - 1]]
    /\ Tamper(~row.legacy /\ Covered(i))

LogNext ==
    \/ \E r \in Writers : FindLatest(r) \/ InsertLog(r) \/ LogFails(r)
    \/ \E i \in 1..Len(logs) :
          Edit(i) \/ Remove(i) \/ \E row \in Forged(logs[i].prevHash) : Slip(i, row)

LogSpec == LogInit /\ [][LogNext]_logVars

-----------------------------------------------------------------------------
(* Properties.                                                             *)

(* "Confirms that no audit records have been inserted, modified, or        *)
(* deleted out-of-band" (activity.service.ts:66), for a log that only the  *)
(* application has written, legacy rows and failed inserts included: it    *)
(* verifies unless, among the rows that are fetched, one was inserted      *)
(* after another handler's row that its own handler had not seen           *)
(* (activity.service.ts:24).  Such a log fails, for ever, although nobody  *)
(* touched it.                                                             *)
UntouchedVerifies ==
    tampered = "no" => (Valid(Fetched) <=> forked \notin 1..Fetch)

(* The same sentence read the other way, as far as it holds: when the log  *)
(* verified, and a chained row was replaced, deleted or added in front of  *)
(* another one that is fetched, its own hash computed anew or not,         *)
(* verification fails, whoever logs afterwards.  It need not fail when the *)
(* last row is replaced or deleted, or a row without a hash is slipped in: *)
(* the loop skips that one (activity.service.ts:90).                       *)
TamperingIsFound == tampered = "covered" => ~Valid(Fetched)
=============================================================================

------------------------------ MODULE GoogleLink ------------------------------
(***************************************************************************)
(* The link of a user to a Google account: google_accounts as connecting,  *)
(* disconnecting and the refresh of an access token read and write it      *)
(* (src/modules/integrations/google/google.service.ts and .repository.ts). *)
(*                                                                         *)
(* Each await is a step.  getValidAccessToken is called by other services  *)
(* (Meetings): it ends in "ready" with the Google account the token is of, *)
(* or back in "idle" when it throws.                                       *)
(***************************************************************************)
EXTENDS Naturals

CONSTANTS
    Users,
    Googles,    \* Google accounts
    Requests,   \* request slots
    None

ASSUME GoogleNone == None \notin Users /\ None \notin Googles

VARIABLES
    account,  \* row of each user; google = None: there is none
    flow,     \* what each request does with a link
    world     \* environment: "quiet" or "busy"

linkVars == <<account, flow, world>>

(* quiet: requests come one at a time and nothing fails; Google may omit   *)
(* the refresh token at a consent.  busy: everything overlaps and fails;   *)
(* Google returns a refresh token every time (the code asks for that with  *)
(* prompt=consent).                                                        *)
Quiet == world = "quiet"

(* access, refresh: the Google account the stored tokens are of.           *)
MaybeGoogle == Googles \cup {None}
Row == [google : MaybeGoogle, access : MaybeGoogle, refresh : MaybeGoogle, stale : BOOLEAN]
NewRow(g, access, refresh, stale) ==
    [google |-> g, access |-> access, refresh |-> refresh, stale |-> stale]
NoRow == NewRow(None, None, None, FALSE)

Flow == [pc : {"idle", "lookup", "read", "upsert", "find", "delete", "ready"},
         goal : {"none", "connect", "disconnect", "token"},
         user : Users \cup {None}, google : MaybeGoogle, access : MaybeGoogle,
         refresh : MaybeGoogle, kept : MaybeGoogle]
NewFlow(pc, goal, u, g, access, refresh, kept) ==
    [pc |-> pc, goal |-> goal, user |-> u, google |-> g, access |-> access,
     refresh |-> refresh, kept |-> kept]
NoFlow == NewFlow("idle", "none", None, None, None, None, None)

LinkInit ==
    /\ account = [u \in Users |-> NoRow]
    /\ flow = [r \in Requests |-> NoFlow]
    /\ world \in {"quiet", "busy"}

Idle(r) == flow[r].pc = "idle"
Goto(r, f) == flow' = [flow EXCEPT ![r] = f]
At(r, pc) == flow[r].pc = pc
Ahead(r, pc) ==
    Goto(r, NewFlow(pc, flow[r].goal, flow[r].user, flow[r].google, flow[r].access,
                    flow[r].refresh, flow[r].kept))

(* Any await may throw: the request ends with an error and undoes nothing. *)
Throws(r) ==
    /\ ~Quiet
    /\ flow[r].pc \notin {"idle", "ready"}
    /\ Goto(r, NoFlow)
    /\ UNCHANGED <<account, world>>

-----------------------------------------------------------------------------
(* handleCallback: the code is exchanged and the profile fetched, before   *)
(* anything is read ...                                                    *)
StartConnect(r, u) ==
    /\ Idle(r)
    /\ \E g \in Googles, refresh \in MaybeGoogle :
           /\ refresh = g \/ (refresh = None /\ Quiet)
           /\ Goto(r, NewFlow("lookup", "connect", u, g, g, refresh, None))
    /\ UNCHANGED <<account, world>>

(* ... findByGoogleId: another user has that account ...                   *)
Lookup(r) ==
    /\ At(r, "lookup")
    /\ IF \E u \in Users \ {flow[r].user} : account[u].google = flow[r].google
       THEN Goto(r, NoFlow)
       ELSE Ahead(r, "read")
    /\ UNCHANGED <<account, world>>

(* ... upsertConnection: the refresh token there is, for when Google       *)
(* returned none ...                                                       *)
UpsertRead(r) ==
    /\ At(r, "read")
    /\ Goto(r, NewFlow("upsert", flow[r].goal, flow[r].user, flow[r].google,
                       flow[r].access, flow[r].refresh, account[flow[r].user].refresh))
    /\ UNCHANGED <<account, world>>

(* googleId is unique.                                                     *)
BugFree(u, g) == TRUE

Free(u, g) == \A v \in Users \ {u} : account[v].google # g

(* What the upsert leaves: the row is created, or every field of it set.   *)
Upserted(old, f) ==
    NewRow(f.google, f.access,
           IF f.refresh = None /\ old.google # None THEN f.kept ELSE f.refresh, FALSE)

(* ... and the upsert, or P2002.                                           *)
UpsertWrite(r) ==
    LET f == flow[r]
        u == f.user
    IN  /\ At(r, "upsert")
        /\ \/ /\ Free(u, f.google)
              /\ account' = [account EXCEPT ![u] = Upserted(@, f)]
              /\ IF f.goal = "connect"
                 THEN Goto(r, NoFlow)
                 ELSE Ahead(r, "ready")
           \/ /\ ~Free(u, f.google)
              /\ Goto(r, NoFlow)
              /\ UNCHANGED account
        /\ UNCHANGED world

-----------------------------------------------------------------------------
(* disconnect: no row, no disconnect; else the token is revoked at Google, *)
(* as far as Google answers,                                               *)
StartDisconnect(r, u) ==
    /\ Idle(r)
    /\ account[u].google # None
    /\ Goto(r, NewFlow("find", "disconnect", u, None, None, None, None))
    /\ UNCHANGED <<account, world>>

(* and deleteByUserId looks for the row again                              *)
FindRow(r) ==
    /\ At(r, "find")
    /\ IF account[flow[r].user].google = None
       THEN Goto(r, NoFlow)
       ELSE Ahead(r, "delete")
    /\ UNCHANGED <<account, world>>

(* and deletes it (P2025 when it is gone by now).                          *)
DeleteRow(r) ==
    LET u == flow[r].user
    IN  /\ At(r, "delete")
        /\ account' = [account EXCEPT ![u] = NoRow]
        /\ Goto(r, NoFlow)
        /\ UNCHANGED world

-----------------------------------------------------------------------------
(* getValidAccessToken: the row has a token that is good for a minute more *)
(* or a refresh token; Google answers to that with a new access token, and *)
(* perhaps a refresh token of the same account, and both are upserted over *)
(* whatever row there is.                                                  *)
HasToken(u) == account[u].google # None /\ (account[u].stale => account[u].refresh # None)
TokenOf(u) ==
    LET row == account[u]
    IN  IF row.stale
        THEN NewFlow("upsert", "token", u, row.google, row.refresh, row.refresh, None)
        ELSE NewFlow("ready", "token", u, row.google, row.access, None, None)

(* An hour passes: the access token in the row is about to expire.         *)
GoStale(u) ==
    /\ account[u].google # None
    /\ ~account[u].stale
    /\ account' = [account EXCEPT ![u] = NewRow(@.google, @.access, @.refresh, TRUE)]
    /\ UNCHANGED <<flow, world>>

(* The steps of a request that do not depend on who called.                *)
LinkStep(r) ==
    \/ Throws(r)
    \/ Lookup(r) \/ UpsertRead(r) \/ UpsertWrite(r)
    \/ FindRow(r) \/ DeleteRow(r)

-----------------------------------------------------------------------------
(* Rows and flows keep their types.                               *)
LinkTypeOK ==
    /\ account \in [Users -> Row]
    /\ flow \in [Requests -> Flow]
    /\ world \in {"quiet", "busy"}

(* "Verify Google Account is not already linked to another application     *)
(* user" (google.service.ts:137): the check precedes the write by several  *)
(* awaits, and a refresh writes back an account that was read earlier; all *)
(* the same no Google account is ever linked to two users.  And when       *)
(* Google returns a refresh token at every consent, both tokens of a row   *)
(* are of the Google account the row names, and so are those a request     *)
(* uses: connections and refreshes that overlap never mix two accounts.    *)
AccountsApart ==
    /\ \A u, v \in Users :
          (u # v /\ account[u].google # None) => account[u].google # account[v].google
    /\ ~Quiet =>
          /\ \A u \in Users : /\ account[u].refresh = account[u].google
                              /\ account[u].access = account[u].google
          /\ \A r \in Requests : flow[r].access = flow[r].google
=============================================================================

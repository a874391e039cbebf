--------------------------------- MODULE Teams ---------------------------------
(***************************************************************************)
(* Teams of an organization and their members (src/modules/teams).  Each   *)
(* await is a step; the transaction of updateTeam runs at PostgreSQL's     *)
(* default isolation, so each of its statements sees what is committed     *)
(* when it starts and waits for rows another transaction has deleted.      *)
(***************************************************************************)
EXTENDS Naturals

CONSTANTS
    TeamIds, Names, People,
    TeamRequests,   \* request slots
    Nothing

ASSUME NothingIsNone == Nothing \notin TeamIds \cup Names

VARIABLES
    team,      \* name of each team; Nothing: there is none
    used,      \* ids taken
    belongs,   \* committed rows of team_members
    inOrg,     \* members of the organization
    wasInOrg,  \* history: all who ever were
    asked,     \* history: members the last request to succeed wanted
    treq,      \* what each request is doing
    alone      \* environment: requests come one at a time

teamVars == <<team, used, belongs, inOrg, wasInOrg, asked, treq, alone>>

(* users: the member ids of the request.  seen: rows the deletion of the   *)
(* transaction found; gone: those it deleted and holds.                    *)
TeamRequest ==
    [pc : {"idle", "name", "members", "insert", "begin", "lock", "write", "drop"},
     kind : {"none", "create", "update", "delete"}, team : TeamIds \cup {Nothing},
     name : Names \cup {Nothing}, users : SUBSET People, seen : SUBSET People,
     gone : SUBSET People]
NewTeamRequest(pc, kind, t, name, users, seen, gone) ==
    [pc |-> pc, kind |-> kind, team |-> t, name |-> name, users |-> users,
     seen |-> seen, gone |-> gone]
NoTeamRequest == NewTeamRequest("idle", "none", Nothing, Nothing, {}, {}, {})

TeamInit ==
    /\ team = [t \in TeamIds |-> Nothing]
    /\ used = {}
    /\ belongs = [t \in TeamIds |-> {}]
    /\ inOrg = People \ {CHOOSE u \in People : TRUE}   \* one is an outsider
    /\ wasInOrg = inOrg
    /\ asked = [t \in TeamIds |-> {}]
    /\ treq = [r \in TeamRequests |-> NoTeamRequest]
    /\ alone \in BOOLEAN

IsAt(r, pc) == treq[r].pc = pc
Answer(r) == treq' = [treq EXCEPT ![r] = NoTeamRequest]
Hold(r, pc, seen, gone) ==
    treq' = [treq EXCEPT ![r] =
        NewTeamRequest(pc, @.kind, @.team, @.name, @.users, seen, gone)]
MoveTo(r, pc) == Hold(r, pc, {}, {})
Live(t) == team[t] # Nothing

-----------------------------------------------------------------------------
Taken(name) == \E t \in TeamIds : team[t] = name

(* A request starts with its first read: findByName for a new team,        *)
(* findById for an existing one, and with 409 or 404 nothing more happens. *)
(* An update with no name leaves it; every update names its members.       *)
StartTeam(r) ==
    /\ IsAt(r, "idle")
    /\ alone => \A x \in TeamRequests : IsAt(x, "idle")
    /\ \/ \E name \in Names, users \in SUBSET People :
             /\ ~Taken(name)
             /\ treq' = [treq EXCEPT ![r] =
                   NewTeamRequest("members", "create", Nothing, name, users, {}, {})]
       \/ \E t \in used, name \in Names \cup {Nothing}, users \in SUBSET People :
             /\ Live(t)
             /\ treq' = [treq EXCEPT ![r] =
                   NewTeamRequest(IF name \in {Nothing, team[t]} THEN "members" ELSE "name",
                                  "update", t, name, users, {}, {})]
       \/ \E t \in used :
             /\ Live(t)
             /\ treq' = [treq EXCEPT ![r] =
                   NewTeamRequest("drop", "delete", t, Nothing, {}, {}, {})]
    /\ UNCHANGED <<team, used, belongs, inOrg, wasInOrg, asked, alone>>

(* findByName for a team that is to be renamed.                            *)
FindName(r) ==
    /\ IsAt(r, "name")
    /\ IF Taken(treq[r].name) THEN Answer(r) ELSE MoveTo(r, "members")
    /\ UNCHANGED <<team, used, belongs, inOrg, wasInOrg, asked, alone>>

BugAllMembers(users) == users = {} \/ users \cap inOrg # {}

AllMembers(users) == users \subseteq inOrg

(* validateMemberUserIds                                                   *)
CheckMembers(r) ==
    /\ IsAt(r, "members")
    /\ IF AllMembers(treq[r].users)
       THEN MoveTo(r, IF treq[r].kind = "create" THEN "insert" ELSE "begin")
       ELSE Answer(r)
    /\ UNCHANGED <<team, used, belongs, inOrg, wasInOrg, asked, alone>>

(* The name is unique in the organization.                                 *)
NameFree(t, name) == name = Nothing \/ \A x \in TeamIds \ {t} : team[x] # name

(* createTeam: the team with its members, or P2002.                        *)
InsertTeam(r) ==
    LET q == treq[r]
    IN  /\ IsAt(r, "insert")
        /\ \/ /\ NameFree(Nothing, q.name)
              /\ \E t \in TeamIds \ used :
                    /\ team' = [team EXCEPT ![t] = q.name]
                    /\ used' = used \cup {t}
                    /\ belongs' = [belongs EXCEPT ![t] = q.users]
                    /\ asked' = [asked EXCEPT ![t] = q.users]
           \/ /\ ~NameFree(Nothing, q.name) \/ used = TeamIds
              /\ UNCHANGED <<team, used, belongs, asked>>
        /\ Answer(r)
        /\ UNCHANGED <<inOrg, wasInOrg, alone>>

-----------------------------------------------------------------------------
(* What the deletion of a transaction finds: the rows committed by now.    *)
Visible(t) == belongs[t]

(* deleteMany starts ...                                                   *)
BeginUpdate(r) ==
    /\ IsAt(r, "begin")
    /\ Hold(r, "lock", Visible(treq[r].team), {})
    /\ UNCHANGED <<team, used, belongs, inOrg, wasInOrg, asked, alone>>

Others(r) == {x \in TeamRequests \ {r} : treq[x].team = treq[r].team}

(* ... waits for the rows another transaction holds, and deletes those of  *)
(* the rows it found that are still there.                                 *)
LockRows(r) ==
    LET q == treq[r]
    IN  /\ IsAt(r, "lock")
        /\ \A x \in Others(r) : treq[x].gone \cap q.seen = {}
        /\ Hold(r, "write", {}, q.seen \cap belongs[q.team])
        /\ UNCHANGED <<team, used, belongs, inOrg, wasInOrg, asked, alone>>

(* A row found by a deletion that waits, but deleted by now, is skipped:   *)
(* the row the same user has got since is another one.                     *)
AnswerAndSkip(r) ==
    treq' = [x \in TeamRequests |->
        IF x = r THEN NoTeamRequest
        ELSE IF x \in Others(r) THEN [treq[x] EXCEPT !.seen = @ \ treq[r].gone]
        ELSE treq[x]]

(* createMany, the update of the team and the commit; or, when a row, the  *)
(* team or the name is in the way, all of it is rolled back.               *)
Commit(r) ==
    LET q == treq[r]
        t == q.team
        kept == belongs[t] \ q.gone
    IN  /\ IsAt(r, "write")
        /\ IF Live(t) /\ kept \cap q.users = {} /\ NameFree(t, q.name)
           THEN /\ belongs' = [belongs EXCEPT ![t] = kept \cup q.users]
                /\ team' = [team EXCEPT ![t] = IF q.name = Nothing THEN @ ELSE q.name]
                /\ asked' = [asked EXCEPT ![t] = q.users]
                /\ AnswerAndSkip(r)
           ELSE Answer(r) /\ UNCHANGED <<team, belongs, asked>>
        /\ UNCHANGED <<used, inOrg, wasInOrg, alone>>

(* deleteTeam: the rows of its members go with it (Cascade), so it waits   *)
(* for who holds some; or P2025.                                           *)
DeleteTeam(r) ==
    LET t == treq[r].team
    IN  /\ IsAt(r, "drop")
        /\ \A x \in Others(r) : treq[x].gone = {}
        /\ team' = [team EXCEPT ![t] = Nothing]
        /\ belongs' = [belongs EXCEPT ![t] = {}]
        /\ asked' = [asked EXCEPT ![t] = {}]
        /\ Answer(r)
        /\ UNCHANGED <<used, inOrg, wasInOrg, alone>>

(* People leave and join the organization; team_members is not touched.    *)
MoveMember(u) ==
    /\ inOrg' = IF u \in inOrg THEN inOrg \ {u} ELSE inOrg \cup {u}
    /\ u \in wasInOrg
    /\ UNCHANGED <<team, used, belongs, wasInOrg, asked, treq, alone>>

TeamNext ==
    \/ \E r \in TeamRequests :
          \/ StartTeam(r) \/ FindName(r) \/ CheckMembers(r)
          \/ InsertTeam(r) \/ BeginUpdate(r) \/ LockRows(r) \/ Commit(r) \/ DeleteTeam(r)
    \/ \E u \in People : MoveMember(u)

-----------------------------------------------------------------------------
(* Teams, rows and requests keep their types.                              *)
TeamTypeOK ==
    /\ team \in [TeamIds -> Names \cup {Nothing}]
    /\ used \subseteq TeamIds
    /\ belongs \in [TeamIds -> SUBSET People] /\ asked \in [TeamIds -> SUBSET People]
    /\ inOrg \subseteq wasInOrg /\ wasInOrg \subseteq People
    /\ alone \in BOOLEAN
    /\ treq \in [TeamRequests -> TeamRequest]

(* Nobody is in a team who was never in the organization: ids from outside *)
(* are refused as a whole, whatever overlaps.  And one request at a time:  *)
(* the members of a team are those the last request that succeeded asked   *)
(* for.  (Two updates that overlap may leave the members of both.)         *)
TeamsAsAsked ==
    /\ \A t \in TeamIds : belongs[t] \subseteq wasInOrg
    /\ alone => \A t \in TeamIds : Live(t) => belongs[t] = asked[t]
=============================================================================

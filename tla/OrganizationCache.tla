--------------------------- MODULE OrganizationCache ---------------------------
(***************************************************************************)
(* The cached reads of organizations (getOrganizationById and              *)
(* getUserOrganizations of src/modules/organizations/organization.service  *)
(* .ts) and the writes that change what they show.  Redis holds org:<id>   *)
(* under the id of the organization and user:<id>:orgs under the id of the *)
(* user; every write deletes some of these keys in a later await, and not  *)
(* always all it makes stale.                                              *)
(*                                                                         *)
(* Who may do what, and invitations, are in Membership: here an operation  *)
(* is what it reads to decide, its write, and the keys it deletes.  Name   *)
(* and slug are one number; a slug that is taken is a refusal.             *)
(***************************************************************************)
EXTENDS Naturals, FiniteSets

CONSTANTS
    Orgs,         \* ids organizations can get; also their cache keys
    People,       \* users; also the cache keys of their lists
    OrgRequests,  \* handlers that can run at the same time
    MaxWrites,    \* bound: writes
    Nothing

ASSUME OrgCacheConstants ==
    /\ Orgs # {} /\ Orgs \cap People = {} /\ Nothing \notin Orgs \cup People
    /\ MaxWrites \in Nat

VARIABLES
    org,      \* organizations: state, and the number that is name and slug
    member,   \* the row of each user in organization_members
    entry,    \* Redis: what is stored under each key
    oreq,     \* what each handler is doing
    writes,   \* how many writes there were
    orderly   \* environment: handlers run one at a time and nothing fails

orgVars == <<org, member, entry, oreq, writes, orderly>>

(* A VIEWER is cached as a MEMBER is.                                      *)
Roles == {"OWNER", "ADMIN", "MEMBER"}
Membership(o, role) == [org |-> o, role |-> role]
NoMembership == Membership(Nothing, "MEMBER")

Row(state, name) == [state |-> state, name |-> name]
Exists(o) == org[o].state = "live"
MembersOf(o) == {u \in People : member[u].org = o}

(* What a fetcher makes of the rows: an organization with its number of    *)
(* members, or the list of the organizations of a user, which is a list    *)
(* also when it is empty.                                                  *)
Shown(k) ==
    IF k \in Orgs
    THEN [name |-> org[k].name, members |-> Cardinality(MembersOf(k))]
    ELSE [org |-> member[k].org, role |-> member[k].role,
          name |-> IF member[k].org = Nothing THEN 0 ELSE org[member[k].org].name]

NewOrgRequest(pc, k, o, u, value, stale) ==
    [pc |-> pc, key |-> k, org |-> o, user |-> u, value |-> value, stale |-> stale]
Writing(pc, o, u) == NewOrgRequest(pc, Nothing, o, u, Nothing, {})
Deleting(keys) == NewOrgRequest("del", Nothing, Nothing, Nothing, Nothing, keys)
NoOrgRequest == Writing("idle", Nothing, Nothing)

(* One organization with its owner and any other members; Redis is empty.  *)
OrgInit ==
    /\ LET first == CHOOSE o \in Orgs : TRUE
           owner == CHOOSE u \in People : TRUE
       IN  /\ org = [o \in Orgs |-> Row(IF o = first THEN "live" ELSE "unused", 0)]
           /\ member \in [People -> {NoMembership} \cup {Membership(first, x) : x \in Roles}]
           /\ \A u \in People : member[u].role = "OWNER" <=> u = owner
    /\ entry = [k \in Orgs \cup People |-> Nothing]
    /\ oreq = [r \in OrgRequests |-> NoOrgRequest]
    /\ writes = 0
    /\ orderly \in BOOLEAN

Becomes(r, new) == oreq' = [oreq EXCEPT ![r] = new]
Answer(r) == Becomes(r, NoOrgRequest)
Arrives(r, new) ==
    /\ oreq[r] = NoOrgRequest
    /\ orderly => \A x \in OrgRequests : oreq[x] = NoOrgRequest
    /\ Becomes(r, new)
    /\ UNCHANGED <<org, member, entry, writes, orderly>>

-----------------------------------------------------------------------------
(* getOrSet: a key that is not there, or an error of Redis ...             *)
LookUp(r, k) ==
    /\ entry[k] = Nothing \/ ~orderly
    /\ Arrives(r, NewOrgRequest("fetch", k, Nothing, Nothing, Nothing, {}))

(* ... the fetcher, NotFound without the organization ...                  *)
FetchRows(r) ==
    LET k == oreq[r].key
    IN  /\ oreq[r].pc = "fetch"
        /\ IF k \in Orgs /\ ~Exists(k)
           THEN Answer(r)
           ELSE Becomes(r, NewOrgRequest("set", k, Nothing, Nothing, Shown(k), {}))
        /\ UNCHANGED <<org, member, entry, writes, orderly>>

(* ... and setex.                                                          *)
StoreEntry(r) ==
    /\ oreq[r].pc = "set"
    /\ entry' = [entry EXCEPT ![oreq[r].key] = oreq[r].value]
    /\ Answer(r)
    /\ UNCHANGED <<org, member, writes, orderly>>

(* CACHE_TTL is over.                                                      *)
ExpireEntry(k) ==
    /\ entry[k] # Nothing
    /\ entry' = [entry EXCEPT ![k] = Nothing]
    /\ UNCHANGED <<org, member, oreq, writes, orderly>>

-----------------------------------------------------------------------------
(* What an operation reads before it writes.                               *)
StartWrite(r) ==
    \/ \E u \in People :
          member[u] = NoMembership /\ Arrives(r, Writing("create", Nothing, u))
    \/ \E o \in Orgs, pc \in {"rename", "delete"} :
          Exists(o) /\ Arrives(r, Writing(pc, o, Nothing))
    \/ \E o \in Orgs, u \in People :
          member[u] = NoMembership /\ Exists(o) /\ Arrives(r, Writing("accept", o, u))
    \/ \E u \in People, pc \in {"role", "remove"} :
          /\ member[u].org # Nothing /\ member[u].role # "OWNER"
          /\ Arrives(r, Writing(pc, member[u].org, u))

(* The write has been made, and the keys are to be deleted.                *)
Wrote(r, pc, keys) ==
    /\ oreq[r].pc = pc
    /\ writes < MaxWrites
    /\ writes' = writes + 1
    /\ Becomes(r, Deleting(keys))
    /\ UNCHANGED <<entry, orderly>>

Joins(u, o, role) == member' = [member EXCEPT ![u] = Membership(o, role)]

(* OWNER is never assigned.                                                *)
Assigned(u, o) == \E role \in Roles \ {"OWNER"} : Joins(u, o, role)

(* createOrganizationWithOwner; a user has one membership.                 *)
createOrganization(r) ==
    LET u == oreq[r].user
    IN  /\ Wrote(r, "create", {u})
        /\ member[u] = NoMembership
        /\ \E o \in Orgs :
              /\ org[o].state = "unused"
              /\ org' = [org EXCEPT ![o] = Row("live", writes')]
              /\ Joins(u, o, "OWNER")

updateOrganization(r) ==
    LET o == oreq[r].org
    IN  /\ Wrote(r, "rename", {o})
        /\ Exists(o)
        /\ org' = [org EXCEPT ![o] = Row("live", writes')]
        /\ UNCHANGED member

(* The memberships go with the organization (Cascade).                     *)
deleteOrganization(r) ==
    LET o == oreq[r].org
    IN  /\ Wrote(r, "delete", {o})
        /\ Exists(o)
        /\ org' = [org EXCEPT ![o] = Row("gone", 0)]
        /\ member' = [u \in People |-> IF u \in MembersOf(o) THEN NoMembership ELSE member[u]]

(* The transaction that accepts an invitation.                             *)
acceptInvitation(r) ==
    LET q == oreq[r]
    IN  /\ Wrote(r, "accept", {q.user, q.org})
        /\ member[q.user] = NoMembership /\ Exists(q.org)
        /\ Assigned(q.user, q.org)
        /\ UNCHANGED org

BugMemberKeys(o, u) == {o}

(* The keys of a change of one member.                                     *)
MemberKeys(o, u) == {u, o}

updateMemberRole(r) ==
    LET q == oreq[r]
    IN  /\ Wrote(r, "role", MemberKeys(q.org, q.user))
        /\ member[q.user].org = q.org
        /\ Assigned(q.user, q.org)
        /\ UNCHANGED org

removeMember(r) ==
    LET q == oreq[r]
    IN  /\ Wrote(r, "remove", MemberKeys(q.org, q.user))
        /\ member[q.user].org = q.org
        /\ member' = [member EXCEPT ![q.user] = NoMembership]
        /\ UNCHANGED org

(* The slug is taken, which is only known to the database (409 or P2002);  *)
(* the row is gone (P2025), or there is one in the way; or the bound is    *)
(* reached.                                                                *)
Refused(r) ==
    LET q == oreq[r]
    IN  /\ \/ q.pc \in {"create", "rename"}
           \/ q.pc = "delete" /\ ~Exists(q.org)
           \/ q.pc = "accept" /\ (member[q.user] # NoMembership \/ ~Exists(q.org))
           \/ q.pc \in {"role", "remove"} /\ member[q.user].org # q.org
           \/ q.pc \in {"delete", "accept", "role", "remove"} /\ writes = MaxWrites
        /\ Answer(r)
        /\ UNCHANGED <<org, member, entry, writes, orderly>>

(* cache.del: one command for all keys; its error is logged and swallowed. *)
DeleteKeys(r) ==
    /\ oreq[r].pc = "del"
    /\ \/ entry' = [k \in Orgs \cup People |->
                       IF k \in oreq[r].stale THEN Nothing ELSE entry[k]]
       \/ ~orderly /\ UNCHANGED entry
    /\ Answer(r)
    /\ UNCHANGED <<org, member, writes, orderly>>

(* The process dies, or the database fails.                                *)
OrgFails(r) ==
    /\ ~orderly
    /\ oreq[r] # NoOrgRequest
    /\ Answer(r)
    /\ UNCHANGED <<org, member, entry, writes, orderly>>

(* What a handler does once it has started.                                *)
OrgStep(r) ==
    \/ FetchRows(r) \/ StoreEntry(r)
    \/ createOrganization(r) \/ updateOrganization(r) \/ deleteOrganization(r)
    \/ acceptInvitation(r) \/ updateMemberRole(r) \/ removeMember(r)
    \/ Refused(r) \/ DeleteKeys(r) \/ OrgFails(r)

OrgNext ==
    \/ \E r \in OrgRequests :
          \/ \E k \in Orgs \cup People : LookUp(r, k)
          \/ StartWrite(r) \/ OrgStep(r)
    \/ \E k \in Orgs \cup People : ExpireEntry(k)

(* Handlers run to their end and entries expire.                           *)
OrgFairness ==
    /\ \A r \in OrgRequests : WF_orgVars(OrgStep(r))
    /\ \A k \in Orgs \cup People : WF_orgVars(ExpireEntry(k))

-----------------------------------------------------------------------------
(* Rows, entries and handlers keep their types.                            *)
OrgTypeOK ==
    /\ org \in [Orgs -> [state : {"unused", "live", "gone"}, name : 0..MaxWrites]]
    /\ member \in [People -> [org : Orgs \cup {Nothing}, role : Roles]]
    /\ writes \in 0..MaxWrites /\ orderly \in BOOLEAN
    /\ \A r \in OrgRequests : oreq[r].stale \subseteq Orgs \cup People

(* "automatic invalidation" (UNDERSTANDING.md:12; "cache invalidation upon *)
(* organization update", tests/integration/cache.test.ts:139), as far as   *)
(* the deleted keys reach, for handlers that run one at a time while       *)
(* nothing fails: what is stored of an organization is what its row says,  *)
(* its number of members included, and what is stored of a user is the     *)
(* organization and role the user has, unless that organization was        *)
(* deleted since.  (Its name in a user's list may be an old one: no write  *)
(* to an organization deletes the lists of its members.)                   *)
OrderlyReadsAreFresh ==
    orderly => \A k \in Orgs \cup People :
        entry[k] # Nothing /\ (\A r \in OrgRequests : k \notin oreq[r].stale) =>
            IF k \in Orgs THEN Exists(k) /\ entry[k] = Shown(k)
            ELSE \/ entry[k].org = member[k].org /\ entry[k].role = member[k].role
                 \/ entry[k].org # Nothing /\ org[entry[k].org].state = "gone"

(* What is stored is what the rows say.                                    *)
OrganizationsAgree == \A k \in Orgs \cup People : entry[k] \in {Nothing, Shown(k)}
=============================================================================

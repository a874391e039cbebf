----------------------------- MODULE Membership -----------------------------
(***************************************************************************)
(* Organizations, their members and their invitations, as the handlers of  *)
(* src/modules/organizations (and the registration handler of              *)
(* src/modules/auth) read and write them.                                  *)
(*                                                                         *)
(* A request is a process.  Every `await' on PostgreSQL is one atomic      *)
(* step, so what a handler read may be stale when it writes.  Interactive  *)
(* transactions run at READ COMMITTED, Prisma's default: a read inside one *)
(* takes no lock, and its writes become visible, with the unique and the   *)
(* foreign-key constraints checked, in the step that commits.              *)
(*                                                                         *)
(* A person is identified with the e-mail address: the column is unique    *)
(* and no handler changes it.  Any check that fails and any await that     *)
(* throws ends the request without a write: the one action Reject.         *)
(*                                                                         *)
(* Definitions named Bug... are plausible mistakes in the definition that  *)
(* follows them.  Nothing uses them; substituting one must break the       *)
(* property that guards against it.                                        *)
(***************************************************************************)
EXTENDS Naturals, FiniteSets

CONSTANTS
    Users,           \* people, each with one e-mail address
    Orgs,            \* supply of organization ids
    Invs,            \* supply of invitation ids
    Requests,        \* request slots: how many handlers run at once
    AssignableRoles, \* roles an invitation or a role change may carry
    MaxToken,        \* bound: how often one invitation gets a token
    None             \* null

Roles == {"OWNER", "ADMIN", "MEMBER", "VIEWER"}

ASSUME RolesAssumption == AssignableRoles \subseteq Roles \ {"OWNER"}
ASSUME TokenAssumption == MaxToken \in Nat
ASSUME NoneAssumption == None \notin Users /\ None \notin Orgs /\ None \notin Invs

VARIABLES
    accounts,  \* rows of users
    orgs,      \* rows of organizations, by id
    members,   \* rows of organization_members
    invs,      \* rows of organization_invitations, by id
    req        \* what each request slot is doing, with its local variables

vars == <<accounts, orgs, members, invs, req>>

OrgStates == {"UNUSED", "LIVE", "DELETED"}
Statuses == {"PENDING", "ACCEPTED", "REVOKED", "EXPIRED", "INVALIDATED"}
RowStates == Statuses \cup {"UNUSED", "DELETED"}
PCs == {"idle", "register", "createOrganization", "deleteOrganization",
        "addMember", "findPending", "createInvitation", "refreshInvitation",
        "findMember.update", "updateMemberRole", "findMember.remove", "removeMember",
        "resend.read", "resend.write", "revoke.read", "revoke.write",
        "accept.read", "accept.commit", "markExpired"}

Org == [state : OrgStates, owner : Users \cup {None}]
Member == [org : Orgs, user : Users, role : Roles]
Invitation == [status : RowStates, org : Orgs \cup {None}, email : Users \cup {None},
               role : AssignableRoles \cup {None}, token : 0..MaxToken, expired : BOOLEAN]
Request == [pc : PCs, actor : Users \cup {None}, callerRole : Roles \cup {None},
            org : Orgs \cup {None}, target : Users \cup {None},
            role : AssignableRoles \cup {None}, inv : Invs \cup {None}, token : 0..MaxToken]

(* Locals of a handler: pc is the await it is suspended at.                *)
Locals(pc, actor, callerRole, org, target, role, inv, token) ==
    [pc |-> pc, actor |-> actor, callerRole |-> callerRole, org |-> org,
     target |-> target, role |-> role, inv |-> inv, token |-> token]

IdleRequest == Locals("idle", None, None, None, None, None, None, 0)

NoInvitation == [status |-> "UNUSED", org |-> None, email |-> None, role |-> None,
                 token |-> 0, expired |-> FALSE]

Init ==
    /\ accounts = {}
    /\ orgs = [o \in Orgs |-> [state |-> "UNUSED", owner |-> None]]
    /\ members = {}
    /\ invs = [i \in Invs |-> NoInvitation]
    /\ req = [r \in Requests |-> IdleRequest]

-----------------------------------------------------------------------------
(* Queries of OrganizationRepository.                                      *)

Live(o) == orgs[o].state = "LIVE"
Exists(i) == invs[i].status \in Statuses

findMember(o, u) == {m \in members : m.org = o /\ m.user = u}

findUserMembership(u) == {m \in members : m.user = u}

findPendingInvitation(o, e) ==
    {i \in Invs : invs[i].org = o /\ invs[i].email = e /\ invs[i].status = "PENDING"}

(* The check-then-insert of the handlers without the constraint on userId  *)
(* that the schema declares.                                               *)
BugInsertableNoUnique(o, u) == Live(o) /\ findMember(o, u) = {}

(* An INSERT into organization_members passes its constraints: the         *)
(* organization exists (foreign key) and userId is @unique.                *)
MemberInsertable(o, u) == Live(o) /\ findUserMembership(u) = {}

-----------------------------------------------------------------------------
(* Request bookkeeping.                                                    *)

Begin(r, q) == req[r].pc = "idle" /\ req' = [req EXCEPT ![r] = q]
At(r, pc) == req[r].pc = pc
Goto(r, pc) == req' = [req EXCEPT ![r].pc = pc]
Finish(r) == req' = [req EXCEPT ![r] = IdleRequest]

(* authorizeOrgRole: the caller's row is read from the database, once, and *)
(* its role stays with the request as callerRole.                          *)
Authorize(r, u, o, allowed, pc, target, role, inv) ==
    \E m \in findMember(o, u) :
        /\ m.role \in allowed
        /\ Begin(r, Locals(pc, u, m.role, o, target, role, inv, 0))

Managers == {"OWNER", "ADMIN"}

(* A check of the handler failed, or an await of it threw (a constraint, a *)
(* row that is gone, a lost connection): an error response, no write.      *)
Reject(r) ==
    /\ ~At(r, "idle")
    /\ Finish(r)
    /\ UNCHANGED <<accounts, orgs, members, invs>>

-----------------------------------------------------------------------------
(* Registration and organizations.                                         *)

(* The organization and its OWNER row, in one transaction; userId is       *)
(* @unique for this row too.                                               *)
InsertOrganization(o, u) ==
    /\ orgs[o].state = "UNUSED"
    /\ findUserMembership(u) = {}
    /\ orgs' = [orgs EXCEPT ![o] = [state |-> "LIVE", owner |-> u]]
    /\ members' = members \cup {[org |-> o, user |-> u, role |-> "OWNER"]}

(* AuthService.register: the address has no account yet ...                *)
StartRegister(r) ==
    /\ \E u \in Users \ accounts :
           Begin(r, Locals("register", None, None, None, u, None, None, 0))
    /\ UNCHANGED <<accounts, orgs, members, invs>>

(* ... and one transaction inserts user, organization and OWNER row.       *)
Register(r) ==
    /\ At(r, "register")
    /\ req[r].target \notin accounts
    /\ accounts' = accounts \cup {req[r].target}
    /\ \E o \in Orgs : InsertOrganization(o, req[r].target)
    /\ Finish(r)
    /\ UNCHANGED invs

StartCreateOrganization(r) ==
    /\ \E u \in accounts :
           /\ findUserMembership(u) = {}
           /\ Begin(r, Locals("createOrganization", None, None, None, u, None, None, 0))
    /\ UNCHANGED <<accounts, orgs, members, invs>>

(* The transaction checks the membership again, then inserts.              *)
CreateOrganization(r) ==
    /\ At(r, "createOrganization")
    /\ \E o \in Orgs : InsertOrganization(o, req[r].target)
    /\ Finish(r)
    /\ UNCHANGED <<accounts, invs>>

StartDeleteOrganization(r) ==
    /\ \E u \in Users, o \in Orgs :
           Authorize(r, u, o, {"OWNER"}, "deleteOrganization", None, None, None)
    /\ UNCHANGED <<accounts, orgs, members, invs>>

BugDeleteOrganization(r) ==
    /\ At(r, "deleteOrganization")
    /\ Live(req[r].org)
    /\ orgs' = [orgs EXCEPT ![req[r].org].state = "DELETED"]
    /\ members' = members
    /\ invs' = [i \in Invs |-> IF invs[i].org = req[r].org
                               THEN [invs[i] EXCEPT !.status = "DELETED"] ELSE invs[i]]
    /\ Finish(r)
    /\ UNCHANGED accounts

(* DELETE cascades to organization_members and organization_invitations.   *)
DeleteOrganization(r) ==
    /\ At(r, "deleteOrganization")
    /\ Live(req[r].org)
    /\ orgs' = [orgs EXCEPT ![req[r].org].state = "DELETED"]
    /\ members' = {m \in members : m.org # req[r].org}
    /\ invs' = [i \in Invs |-> IF invs[i].org = req[r].org
                               THEN [invs[i] EXCEPT !.status = "DELETED"] ELSE invs[i]]
    /\ Finish(r)
    /\ UNCHANGED accounts

-----------------------------------------------------------------------------
(* Members: change a role, remove.                                         *)

StartUpdateMemberRole(r) ==
    /\ \E u, t \in Users, o \in Orgs, role \in AssignableRoles :
           Authorize(r, u, o, Managers, "findMember.update", t, role, None)
    /\ UNCHANGED <<accounts, orgs, members, invs>>

BugCheckUpdateMemberRole(r) ==
    /\ At(r, "findMember.update")
    /\ \E m \in findMember(req[r].org, req[r].target) :
           ("ADMIN" \in {m.role, req[r].role}) => (req[r].callerRole = "OWNER")
    /\ Goto(r, "updateMemberRole")
    /\ UNCHANGED <<accounts, orgs, members, invs>>

(* The target exists, is not the owner, and no ADMIN is made or touched    *)
(* unless the caller was OWNER.                                            *)
CheckUpdateMemberRole(r) ==
    /\ At(r, "findMember.update")
    /\ \E m \in findMember(req[r].org, req[r].target) :
           /\ m.role # "OWNER"
           /\ ("ADMIN" \in {m.role, req[r].role}) => (req[r].callerRole = "OWNER")
    /\ Goto(r, "updateMemberRole")
    /\ UNCHANGED <<accounts, orgs, members, invs>>

(* UPDATE by (organizationId, userId), whatever the row says by now.       *)
UpdateMemberRole(r) ==
    /\ At(r, "updateMemberRole")
    /\ LET row == findMember(req[r].org, req[r].target)
       IN  /\ row # {}
           /\ members' = (members \ row) \cup
                 {[org |-> req[r].org, user |-> req[r].target, role |-> req[r].role]}
    /\ Finish(r)
    /\ UNCHANGED <<accounts, orgs, invs>>

StartRemoveMember(r) ==
    /\ \E u, t \in Users, o \in Orgs :
           Authorize(r, u, o, Managers, "findMember.remove", t, None, None)
    /\ UNCHANGED <<accounts, orgs, members, invs>>

CheckRemoveMember(r) ==
    /\ At(r, "findMember.remove")
    /\ \E m \in findMember(req[r].org, req[r].target) :
           /\ m.role # "OWNER"
           /\ m.role = "ADMIN" => req[r].callerRole = "OWNER"
    /\ Goto(r, "removeMember")
    /\ UNCHANGED <<accounts, orgs, members, invs>>

RemoveMember(r) ==
    /\ At(r, "removeMember")
    /\ findMember(req[r].org, req[r].target) # {}
    /\ members' = members \ findMember(req[r].org, req[r].target)
    /\ Finish(r)
    /\ UNCHANGED <<accounts, orgs, invs>>

-----------------------------------------------------------------------------
(* Invitations: add or refresh, resend, revoke, expire.                    *)

StartAddMember(r) ==
    /\ \E u, e \in Users, o \in Orgs, role \in AssignableRoles :
           Authorize(r, u, o, Managers, "addMember", e, role, None)
    /\ UNCHANGED <<accounts, orgs, members, invs>>

(* The organization exists and the invitee belongs to no organization.     *)
CheckAddMember(r) ==
    /\ At(r, "addMember")
    /\ Live(req[r].org)
    /\ findUserMembership(req[r].target) = {}
    /\ Goto(r, "findPending")
    /\ UNCHANGED <<accounts, orgs, members, invs>>

(* One open invitation for the address is reused, else a row is created.   *)
FindPending(r) ==
    LET open == findPendingInvitation(req[r].org, req[r].target)
    IN  /\ At(r, "findPending")
        /\ \/ open = {} /\ Goto(r, "createInvitation")
           \/ \E i \in open : req' = [req EXCEPT ![r] =
                 Locals("refreshInvitation", @.actor, @.callerRole, @.org, @.target, @.role, i, 0)]
        /\ UNCHANGED <<accounts, orgs, members, invs>>

BugCreateInvitation(r) ==
    /\ At(r, "createInvitation")
    /\ MemberInsertable(req[r].org, req[r].target)
    /\ members' = members \cup {[org |-> req[r].org, user |-> req[r].target, role |-> req[r].role]}
    /\ Finish(r)
    /\ UNCHANGED <<accounts, orgs, invs>>

CreateInvitation(r) ==
    /\ At(r, "createInvitation")
    /\ Live(req[r].org)
    /\ MaxToken > 0
    /\ \E i \in Invs :
           /\ invs[i].status = "UNUSED"
           /\ invs' = [invs EXCEPT ![i] =
                 [status |-> "PENDING", org |-> req[r].org, email |-> req[r].target,
                  role |-> req[r].role, token |-> 1, expired |-> FALSE]]
    /\ Finish(r)
    /\ UNCHANGED <<accounts, orgs, members>>

(* updateInvitation with a fresh token hash and another seven days.        *)
Reissue(i, status, role) ==
    /\ Exists(i)
    /\ invs[i].token < MaxToken
    /\ invs' = [invs EXCEPT ![i] =
          [status |-> status, org |-> @.org, email |-> @.email, role |-> role,
           token |-> @.token + 1, expired |-> FALSE]]

(* Role, token, expiry, and status PENDING, unconditionally.               *)
RefreshInvitation(r) ==
    /\ At(r, "refreshInvitation")
    /\ Reissue(req[r].inv, "PENDING", req[r].role)
    /\ Finish(r)
    /\ UNCHANGED <<accounts, orgs, members>>

StartOnInvitation(r, pc) ==
    /\ \E u \in Users, o \in Orgs, i \in Invs :
           /\ invs[i].status # "UNUSED"
           /\ Authorize(r, u, o, Managers, pc, None, None, i)
    /\ UNCHANGED <<accounts, orgs, members, invs>>

(* findInvitationById: of this organization, and still PENDING.            *)
CheckInvitation(r, pc, next) ==
    /\ At(r, pc)
    /\ invs[req[r].inv].org = req[r].org
    /\ invs[req[r].inv].status = "PENDING"
    /\ Goto(r, next)
    /\ UNCHANGED <<accounts, orgs, members, invs>>

ResendInvitation(r) ==
    /\ At(r, "resend.write")
    /\ Reissue(req[r].inv, invs[req[r].inv].status, invs[req[r].inv].role)
    /\ Finish(r)
    /\ UNCHANGED <<accounts, orgs, members>>

RevokeInvitation(r) ==
    /\ At(r, "revoke.write")
    /\ Exists(req[r].inv)
    /\ invs' = [invs EXCEPT ![req[r].inv].status = "REVOKED"]
    /\ Finish(r)
    /\ UNCHANGED <<accounts, orgs, members>>

(* getInvitationByToken and acceptInvitation find the invitation PENDING   *)
(* but past its date; a second await then writes EXPIRED.                  *)
FindExpired(r) ==
    /\ \E i \in Invs :
           /\ invs[i].status = "PENDING"
           /\ invs[i].expired
           /\ Begin(r, Locals("markExpired", None, None, None, None, None, i, 0))
    /\ UNCHANGED <<accounts, orgs, members, invs>>

MarkExpired(r) ==
    /\ At(r, "markExpired")
    /\ Exists(req[r].inv)
    /\ invs' = [invs EXCEPT ![req[r].inv].status = "EXPIRED"]
    /\ Finish(r)
    /\ UNCHANGED <<accounts, orgs, members>>

(* Seven days pass for one invitation.                                     *)
Expire(i) ==
    /\ invs[i].status = "PENDING"
    /\ ~invs[i].expired
    /\ invs' = [invs EXCEPT ![i].expired = TRUE]
    /\ UNCHANGED <<accounts, orgs, members, req>>

-----------------------------------------------------------------------------
(* Accepting an invitation.                                                *)

(* The token names a PENDING, unexpired invitation; an existing account    *)
(* must be signed in as the recipient, a new one brings a password.        *)
StartAccept(r) ==
    /\ \E i \in Invs :
           /\ invs[i].status = "PENDING"
           /\ ~invs[i].expired
           /\ Begin(r, Locals("accept.read",
                 IF invs[i].email \in accounts THEN invs[i].email ELSE None, None,
                 invs[i].org, invs[i].email, invs[i].role, i, invs[i].token))
    /\ UNCHANGED <<accounts, orgs, members, invs>>

(* First statement of acceptInvitationTransaction.  An expired invitation  *)
(* is marked and the throw rolls the mark back: Reject.                    *)
AcceptRead(r) ==
    /\ At(r, "accept.read")
    /\ invs[req[r].inv].status = "PENDING"
    /\ ~invs[req[r].inv].expired
    /\ Goto(r, "accept.commit")
    /\ UNCHANGED <<accounts, orgs, members, invs>>

BugAcceptedRows(inv, email) ==
    [i \in Invs |-> IF invs[i].email = email /\ invs[i].status = "PENDING"
                    THEN [invs[i] EXCEPT !.status = "INVALIDATED"] ELSE invs[i]]

(* This invitation ACCEPTED, every other PENDING one of the address        *)
(* INVALIDATED.                                                            *)
AcceptedRows(inv, email) ==
    [i \in Invs |->
        CASE i = inv -> [invs[i] EXCEPT !.status = "ACCEPTED"]
          [] i # inv /\ invs[i].email = email /\ invs[i].status = "PENDING"
               -> [invs[i] EXCEPT !.status = "INVALIDATED"]
          [] OTHER -> invs[i]]

(* The rest of the transaction.  role, org and email are those read before *)
(* it began; the account is created if it is still missing.                *)
AcceptCommit(r) ==
    LET q == req[r]
    IN  /\ At(r, "accept.commit")
        /\ Exists(q.inv)
        /\ q.target \notin accounts => q.actor = None
        /\ MemberInsertable(q.org, q.target)
        /\ accounts' = accounts \cup {q.target}
        /\ members' = members \cup {[org |-> q.org, user |-> q.target, role |-> q.role]}
        /\ invs' = AcceptedRows(q.inv, q.target)
        /\ Finish(r)
        /\ UNCHANGED orgs

-----------------------------------------------------------------------------
Step(r) ==
    \/ Reject(r)
    \/ StartRegister(r) \/ Register(r)
    \/ StartCreateOrganization(r) \/ CreateOrganization(r)
    \/ StartDeleteOrganization(r) \/ DeleteOrganization(r)
    \/ StartUpdateMemberRole(r) \/ CheckUpdateMemberRole(r) \/ UpdateMemberRole(r)
    \/ StartRemoveMember(r) \/ CheckRemoveMember(r) \/ RemoveMember(r)
    \/ StartAddMember(r) \/ CheckAddMember(r) \/ FindPending(r)
    \/ CreateInvitation(r) \/ RefreshInvitation(r)
    \/ StartOnInvitation(r, "resend.read") \/ StartOnInvitation(r, "revoke.read")
    \/ CheckInvitation(r, "resend.read", "resend.write")
    \/ CheckInvitation(r, "revoke.read", "revoke.write")
    \/ ResendInvitation(r) \/ RevokeInvitation(r)
    \/ FindExpired(r) \/ MarkExpired(r)
    \/ StartAccept(r) \/ AcceptRead(r) \/ AcceptCommit(r)

Next == (\E r \in Requests : Step(r)) \/ (\E i \in Invs : Expire(i))

Spec == Init /\ [][Next]_vars

-----------------------------------------------------------------------------
(* Properties.                                                             *)

(* Every table and every request's locals keep their type.                 *)
TypeOK ==
    /\ accounts \subseteq Users
    /\ orgs \in [Orgs -> Org]
    /\ members \subseteq Member
    /\ invs \in [Invs -> Invitation]
    /\ req \in [Requests -> Request]

(* The single-organization invariant: whatever requests overlap            *)
(* (registrations, organization creations, acceptances), a user never has  *)
(* two membership rows.                                                    *)
SingleOrganization ==
    \A m, n \in members : m.user = n.user => m = n

(* An organization never loses, shares or replaces its owner: while it     *)
(* exists exactly its ownerId holds the OWNER role, although role changes  *)
(* and removals act on a role they read earlier.                           *)
OwnerPinned ==
    \A o \in Orgs : Live(o) =>
        {m.user : m \in {n \in members : n.org = o /\ n.role = "OWNER"}} = {orgs[o].owner}

(* Nobody is made a member by force: a member who is not the owner was     *)
(* invited to this very organization, whatever happened to the invitation  *)
(* since.                                                                  *)
MembersWereInvited ==
    \A m \in members : m.role # "OWNER" =>
        \E i \in Invs : Exists(i) /\ invs[i].org = m.org /\ invs[i].email = m.user

(* A deleted organization stays empty: no handler that began before the    *)
(* deletion puts a member or an invitation back.                           *)
DeletedIsEmpty ==
    /\ \A m \in members : Live(m.org)
    /\ \A i \in Invs : Exists(i) => Live(invs[i].org)

(* A step adds no membership row except for a member whose role changes,   *)
(* for the owner of an organization created in the step, or for the        *)
(* addressee of an invitation to the organization that is now ACCEPTED.    *)
JoinStep ==
    \A m \in members' \ members :
        \/ \E n \in members : n.org = m.org /\ n.user = m.user
        \/ m.role = "OWNER" /\ ~Live(m.org)
        \/ \E i \in Invs : /\ invs'[i].status = "ACCEPTED"
                           /\ invs[i].org = m.org
                           /\ invs[i].email = m.user

(* Joining consumes an invitation: acceptInvitationTransaction inserts the *)
(* membership and marks an invitation to that organization and address     *)
(* ACCEPTED together, although organization, address and role were read    *)
(* in earlier steps and other handlers rewrote the row since.              *)
JoiningAccepts == [][JoinStep]_vars

=============================================================================

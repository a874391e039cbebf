-------------------------- MODULE MembershipProofs --------------------------
(***************************************************************************)
(* Proofs, for any number of users, organizations, invitations and         *)
(* overlapping requests, of the safety properties of Membership.           *)
(*                                                                         *)
(* None of them is inductive alone.  Inv adds what a request in flight     *)
(* still knows (ReqOK): it names rows that were created and keep their     *)
(* owner, organization and address, and a role change or a removal past    *)
(* its check is not aimed at an owner.                                     *)
(***************************************************************************)
EXTENDS Membership, TLAPS

PcsWithOrg == {"deleteOrganization", "addMember", "findPending", "createInvitation",
               "refreshInvitation", "findMember.update", "updateMemberRole",
               "findMember.remove", "removeMember", "resend.read", "resend.write",
               "revoke.read", "revoke.write", "accept.read", "accept.commit"}
PcsWithTarget == {"register", "createOrganization", "addMember", "findPending",
                  "createInvitation", "refreshInvitation", "findMember.update",
                  "updateMemberRole", "findMember.remove", "removeMember",
                  "accept.read", "accept.commit"}
PcsWithRole == {"addMember", "findPending", "createInvitation", "refreshInvitation",
                "findMember.update", "updateMemberRole", "accept.read", "accept.commit"}
PcsWithInv == {"refreshInvitation", "resend.read", "resend.write", "revoke.read",
               "revoke.write", "accept.read", "accept.commit", "markExpired"}

(* What a request in flight knows of the tables, whatever ran meanwhile.   *)
ReqOK(q) ==
    /\ q.pc \in PcsWithOrg => q.org \in Orgs
    /\ q.org \in Orgs => orgs[q.org].state # "UNUSED"
    /\ q.pc \in PcsWithTarget => q.target \in Users
    /\ q.pc \in PcsWithRole => q.role \in AssignableRoles
    /\ q.pc \in PcsWithInv => q.inv \in Invs
    /\ q.pc \in {"updateMemberRole", "removeMember"} => q.target # orgs[q.org].owner
    /\ q.pc \in {"accept.read", "accept.commit"} =>
           /\ invs[q.inv].status # "UNUSED"
           /\ invs[q.inv].org = q.org
           /\ invs[q.inv].email = q.target

(* A live organization has its owner's row.                                *)
OwnerRows ==
    \A o \in Orgs : Live(o) =>
        /\ orgs[o].owner \in Users
        /\ [org |-> o, user |-> orgs[o].owner, role |-> "OWNER"] \in members

(* Members are in live organizations and only the owner is OWNER.          *)
MemberRows ==
    \A m \in members : Live(m.org) /\ (m.role = "OWNER" <=> m.user = orgs[m.org].owner)

(* Used invitation rows are complete; existing ones are in live            *)
(* organizations.                                                          *)
InvRows ==
    \A i \in Invs :
        /\ invs[i].status = "UNUSED" => invs[i].org = None
        /\ invs[i].status # "UNUSED" =>
               /\ invs[i].org \in Orgs
               /\ invs[i].email \in Users
               /\ invs[i].role \in AssignableRoles
               /\ orgs[invs[i].org].state # "UNUSED"
        /\ Exists(i) => Live(invs[i].org)

TableType ==
    /\ accounts \subseteq Users
    /\ orgs \in [Orgs -> Org]
    /\ members \subseteq Member
    /\ invs \in [Invs -> Invitation]

TableInv ==
    /\ SingleOrganization
    /\ OwnerRows
    /\ MemberRows
    /\ InvRows
    /\ MembersWereInvited

(* The inductive invariant.                                                *)
Inv ==
    /\ TypeOK
    /\ TableInv
    /\ \A r \in Requests : ReqOK(req[r])

(* Rows once created keep owner, organization and address.                 *)
OrgsGrow ==
    \A o \in Orgs : orgs[o].state # "UNUSED" =>
        orgs'[o].state # "UNUSED" /\ orgs'[o].owner = orgs[o].owner

InvsGrow ==
    \A i \in Invs : invs[i].status # "UNUSED" =>
        /\ invs'[i].status # "UNUSED"
        /\ invs'[i].org = invs[i].org
        /\ invs'[i].email = invs[i].email

-----------------------------------------------------------------------------
(* The idle request carries nothing.                                       *)
LEMMA IdleOK == IdleRequest \in Request /\ ReqOK(IdleRequest)
  BY NoneAssumption, TokenAssumption
  DEF Locals, IdleRequest, Request, PCs, ReqOK, PcsWithOrg, PcsWithTarget, PcsWithRole, PcsWithInv

(* A step that only changes what one request holds keeps Inv when the new  *)
(* locals are right.                                                       *)
LEMMA ReqStep ==
    ASSUME Inv, NEW r \in Requests, NEW q, q \in Request, ReqOK(q),
           req' = [req EXCEPT ![r] = q], UNCHANGED <<accounts, orgs, members, invs>>
    PROVE  Inv'
<1>1. TypeOK'
  BY DEF Inv, TypeOK
<1>2. TableInv'
  BY DEF Inv, TableInv, SingleOrganization, OwnerRows, MemberRows, InvRows,
         MembersWereInvited, Live, Exists
<1>3. ASSUME NEW s \in Requests PROVE ReqOK(req[s])'
  <2>1. CASE s = r
    <3>1. req'[s] = q
      BY <2>1 DEF Inv, TypeOK
    <3> QED
      BY <3>1 DEF ReqOK
  <2>2. CASE s # r
    <3>1. req'[s] = req[s] /\ ReqOK(req[s])
      BY <2>2 DEF Inv, TypeOK
    <3> QED
      BY <3>1 DEF ReqOK
  <2> QED
    BY <2>1, <2>2
<1> QED
  BY <1>1, <1>2, <1>3 DEF Inv

(* A step that writes tables and ends its request keeps Inv when the       *)
(* tables stay right and no created row loses its identity.                *)
LEMMA WriteStep ==
    ASSUME Inv, NEW r \in Requests, Finish(r), TableType', TableInv', OrgsGrow, InvsGrow
    PROVE  Inv'
<1>1. TypeOK'
  BY IdleOK DEF Inv, TypeOK, TableType, Finish
<1>2. ASSUME NEW s \in Requests PROVE ReqOK(req[s])'
  <2>1. CASE s = r
    <3>1. req'[s] = IdleRequest
      BY <2>1 DEF Inv, TypeOK, Finish
    <3> QED
      BY <3>1, NoneAssumption DEF ReqOK, IdleRequest, Locals, PcsWithOrg, PcsWithTarget, PcsWithRole, PcsWithInv
  <2>2. CASE s # r
    <3>1. req'[s] = req[s] /\ ReqOK(req[s])
      BY <2>2 DEF Inv, TypeOK, Finish
    <3>2. req[s].pc \in {"updateMemberRole", "removeMember"} => req[s].org \in Orgs
      BY <3>1 DEF ReqOK, PcsWithOrg
    <3>3. req[s].pc \in {"accept.read", "accept.commit"} => req[s].inv \in Invs
      BY <3>1 DEF ReqOK, PcsWithInv
    <3> QED
      BY <3>1, <3>2, <3>3 DEF ReqOK, OrgsGrow, InvsGrow
  <2> QED
    BY <2>1, <2>2
<1> QED
  BY <1>1, <1>2 DEF Inv

-----------------------------------------------------------------------------
(* Steps that change no table.                                             *)

(* A request authorized on an organization starts with right locals.       *)
LEMMA AuthorizeStep ==
    ASSUME Inv, NEW r \in Requests, NEW u \in Users, NEW o \in Orgs, NEW allowed,
           NEW pc \in PCs, NEW t \in Users \cup {None}, NEW role \in AssignableRoles \cup {None},
           NEW i \in Invs \cup {None},
           pc \in PcsWithTarget => t \in Users,
           pc \in PcsWithRole => role \in AssignableRoles,
           pc \in PcsWithInv => i \in Invs,
           pc \notin {"updateMemberRole", "removeMember", "accept.read", "accept.commit"},
           Authorize(r, u, o, allowed, pc, t, role, i),
           UNCHANGED <<accounts, orgs, members, invs>>
    PROVE  Inv'
<1> DEFINE q(m) == Locals(pc, u, m.role, o, t, role, i, 0)
<1>1. PICK m \in members : m.org = o /\ m.user = u /\ req' = [req EXCEPT ![r] = q(m)]
  BY DEF Authorize, findMember, Begin
<1>2. m.role \in Roles
  BY DEF Inv, TypeOK, Member
<1>3. q(m) \in Request
  BY <1>2, TokenAssumption DEF Request, Locals
<1>4. orgs[o].state # "UNUSED"
  BY <1>1 DEF Inv, TableInv, MemberRows, Live
<1>5. ReqOK(q(m))
  BY <1>4 DEF ReqOK, Locals
<1> QED
  BY <1>1, <1>3, <1>5, ReqStep

(* A request that moves to its next await keeps its locals.                *)
LEMMA GotoStep ==
    ASSUME Inv, NEW r \in Requests, NEW pc \in PCs, Goto(r, pc),
           ReqOK([req[r] EXCEPT !.pc = pc]), UNCHANGED <<accounts, orgs, members, invs>>
    PROVE  Inv'
<1> DEFINE q == [req[r] EXCEPT !.pc = pc]
<1>1. req[r] \in Request
  BY DEF Inv, TypeOK
<1>2. q \in Request
  BY <1>1 DEF Request
<1>3. req' = [req EXCEPT ![r] = q]
  BY <1>1 DEF Goto
<1> QED
  BY <1>2, <1>3, ReqStep

LEMMA RejectInv == ASSUME Inv, NEW r \in Requests, Reject(r) PROVE Inv'
  BY IdleOK, ReqStep DEF Reject, Finish

LEMMA StartRegisterInv == ASSUME Inv, NEW r \in Requests, StartRegister(r) PROVE Inv'
<1>1. PICK u \in Users : Begin(r, Locals("register", None, None, None, u, None, None, 0))
  BY DEF StartRegister
<1> DEFINE q == Locals("register", None, None, None, u, None, None, 0)
<1>2. q \in Request /\ ReqOK(q)
  BY NoneAssumption, TokenAssumption
  DEF Locals, IdleRequest, Request, PCs, ReqOK, PcsWithOrg, PcsWithTarget, PcsWithRole, PcsWithInv
<1> QED
  BY <1>1, <1>2, ReqStep DEF StartRegister, Begin

LEMMA StartCreateOrganizationInv ==
    ASSUME Inv, NEW r \in Requests, StartCreateOrganization(r) PROVE Inv'
<1>1. PICK u \in Users : Begin(r, Locals("createOrganization", None, None, None, u, None, None, 0))
  BY DEF StartCreateOrganization, Inv, TypeOK
<1> DEFINE q == Locals("createOrganization", None, None, None, u, None, None, 0)
<1>2. q \in Request /\ ReqOK(q)
  BY NoneAssumption, TokenAssumption
  DEF Locals, IdleRequest, Request, PCs, ReqOK, PcsWithOrg, PcsWithTarget, PcsWithRole, PcsWithInv
<1> QED
  BY <1>1, <1>2, ReqStep DEF StartCreateOrganization, Begin

LEMMA StartDeleteOrganizationInv ==
    ASSUME Inv, NEW r \in Requests, StartDeleteOrganization(r) PROVE Inv'
<1>1. PICK u \in Users, o \in Orgs :
          Authorize(r, u, o, {"OWNER"}, "deleteOrganization", None, None, None)
  BY DEF StartDeleteOrganization
<1>2. /\ "deleteOrganization" \in PCs
      /\ "deleteOrganization" \notin PcsWithTarget \cup PcsWithRole \cup PcsWithInv
  BY DEF PCs, PcsWithTarget, PcsWithRole, PcsWithInv
<1> QED
  BY <1>1, <1>2, AuthorizeStep DEF StartDeleteOrganization

LEMMA StartUpdateMemberRoleInv ==
    ASSUME Inv, NEW r \in Requests, StartUpdateMemberRole(r) PROVE Inv'
<1>1. PICK u \in Users, t \in Users, o \in Orgs, role \in AssignableRoles :
          Authorize(r, u, o, Managers, "findMember.update", t, role, None)
  BY DEF StartUpdateMemberRole
<1>2. "findMember.update" \in PCs /\ "findMember.update" \notin PcsWithInv
  BY DEF PCs, PcsWithInv
<1> QED
  BY <1>1, <1>2, AuthorizeStep DEF StartUpdateMemberRole

LEMMA StartRemoveMemberInv ==
    ASSUME Inv, NEW r \in Requests, StartRemoveMember(r) PROVE Inv'
<1>1. PICK u \in Users, t \in Users, o \in Orgs :
          Authorize(r, u, o, Managers, "findMember.remove", t, None, None)
  BY DEF StartRemoveMember
<1>2. "findMember.remove" \in PCs /\ "findMember.remove" \notin PcsWithInv \cup PcsWithRole
  BY DEF PCs, PcsWithInv, PcsWithRole
<1> QED
  BY <1>1, <1>2, AuthorizeStep DEF StartRemoveMember

LEMMA StartAddMemberInv ==
    ASSUME Inv, NEW r \in Requests, StartAddMember(r) PROVE Inv'
<1>1. PICK u \in Users, t \in Users, o \in Orgs, role \in AssignableRoles :
          Authorize(r, u, o, Managers, "addMember", t, role, None)
  BY DEF StartAddMember
<1>2. "addMember" \in PCs /\ "addMember" \notin PcsWithInv
  BY DEF PCs, PcsWithInv
<1> QED
  BY <1>1, <1>2, AuthorizeStep DEF StartAddMember

LEMMA StartOnInvitationInv ==
    ASSUME Inv, NEW r \in Requests, NEW pc \in {"resend.read", "revoke.read"},
           StartOnInvitation(r, pc)
    PROVE  Inv'
<1>1. PICK u \in Users, o \in Orgs, i \in Invs :
          Authorize(r, u, o, Managers, pc, None, None, i)
  BY DEF StartOnInvitation
<1>2. pc \in PCs /\ pc \notin PcsWithTarget \cup PcsWithRole
  BY DEF PCs, PcsWithTarget, PcsWithRole
<1> QED
  BY <1>1, <1>2, AuthorizeStep DEF StartOnInvitation

(* The check of a role change or a removal reads a row that is not OWNER,  *)
(* so the write it leads to is not aimed at the owner.                     *)
LEMMA CheckMemberInv ==
    ASSUME Inv, NEW r \in Requests,
           \/ CheckUpdateMemberRole(r)
           \/ CheckRemoveMember(r)
    PROVE  Inv'
<1>1. req[r] \in Request /\ ReqOK(req[r])
  BY DEF Inv, TypeOK
<1>2. PICK m \in members : m.org = req[r].org /\ m.user = req[r].target /\ m.role # "OWNER"
  BY DEF CheckUpdateMemberRole, CheckRemoveMember, findMember
<1>3. req[r].target # orgs[req[r].org].owner
  BY <1>2 DEF Inv, TableInv, MemberRows
<1>4. CASE CheckUpdateMemberRole(r)
  <2>1. ReqOK([req[r] EXCEPT !.pc = "updateMemberRole"])
    BY <1>1, <1>3, <1>4
    DEF CheckUpdateMemberRole, At, Request, ReqOK, PcsWithOrg, PcsWithTarget, PcsWithRole, PcsWithInv
  <2> QED
    BY <2>1, <1>4, GotoStep DEF CheckUpdateMemberRole, PCs
<1>5. CASE CheckRemoveMember(r)
  <2>1. ReqOK([req[r] EXCEPT !.pc = "removeMember"])
    BY <1>1, <1>3, <1>5
    DEF CheckRemoveMember, At, Request, ReqOK, PcsWithOrg, PcsWithTarget, PcsWithRole, PcsWithInv
  <2> QED
    BY <2>1, <1>5, GotoStep DEF CheckRemoveMember, PCs
<1> QED
  BY <1>4, <1>5

LEMMA CheckAddMemberInv == ASSUME Inv, NEW r \in Requests, CheckAddMember(r) PROVE Inv'
<1>1. req[r] \in Request /\ ReqOK(req[r])
  BY DEF Inv, TypeOK
<1>2. ReqOK([req[r] EXCEPT !.pc = "findPending"])
  BY <1>1
  DEF CheckAddMember, At, Request, ReqOK, PcsWithOrg, PcsWithTarget, PcsWithRole, PcsWithInv
<1> QED
  BY <1>2, GotoStep DEF CheckAddMember, PCs

LEMMA FindPendingInv == ASSUME Inv, NEW r \in Requests, FindPending(r) PROVE Inv'
<1>1. req[r] \in Request /\ ReqOK(req[r])
  BY DEF Inv, TypeOK
<1>2. CASE Goto(r, "createInvitation")
  <2>1. ReqOK([req[r] EXCEPT !.pc = "createInvitation"])
    BY <1>1
    DEF FindPending, At, Request, ReqOK, PcsWithOrg, PcsWithTarget, PcsWithRole, PcsWithInv
  <2> QED
    BY <2>1, <1>2, GotoStep DEF FindPending, PCs
<1>3. CASE ~Goto(r, "createInvitation")
  <2> DEFINE q(i) == Locals("refreshInvitation", req[r].actor, req[r].callerRole, req[r].org,
                            req[r].target, req[r].role, i, 0)
  <2>1. PICK i \in Invs : req' = [req EXCEPT ![r] = q(i)]
    BY <1>3 DEF FindPending, findPendingInvitation, Inv, TypeOK
  <2>2. q(i) \in Request
    BY <1>1, TokenAssumption DEF Request, Locals, PCs
  <2>3. ReqOK(q(i))
    BY <1>1
    DEF FindPending, At, Locals, Request, ReqOK, PcsWithOrg, PcsWithTarget, PcsWithRole, PcsWithInv
  <2> QED
    BY <2>1, <2>2, <2>3, ReqStep DEF FindPending
<1> QED
  BY <1>2, <1>3

LEMMA CheckInvitationInv ==
    ASSUME Inv, NEW r \in Requests, NEW pc \in {"resend.read", "revoke.read"},
           NEW next \in {"resend.write", "revoke.write"}, CheckInvitation(r, pc, next)
    PROVE  Inv'
<1>1. req[r] \in Request /\ ReqOK(req[r])
  BY DEF Inv, TypeOK
<1>2. ReqOK([req[r] EXCEPT !.pc = next])
  BY <1>1
  DEF CheckInvitation, At, Request, ReqOK, PcsWithOrg, PcsWithTarget, PcsWithRole, PcsWithInv
<1> QED
  BY <1>2, GotoStep DEF CheckInvitation, PCs

LEMMA FindExpiredInv == ASSUME Inv, NEW r \in Requests, FindExpired(r) PROVE Inv'
<1>1. PICK i \in Invs : Begin(r, Locals("markExpired", None, None, None, None, None, i, 0))
  BY DEF FindExpired
<1> DEFINE q == Locals("markExpired", None, None, None, None, None, i, 0)
<1>2. q \in Request /\ ReqOK(q)
  BY NoneAssumption, TokenAssumption
  DEF Locals, Request, PCs, ReqOK, PcsWithOrg, PcsWithTarget, PcsWithRole, PcsWithInv
<1> QED
  BY <1>1, <1>2, ReqStep DEF FindExpired, Begin

LEMMA StartAcceptInv == ASSUME Inv, NEW r \in Requests, StartAccept(r) PROVE Inv'
<1> DEFINE actor(i) == IF invs[i].email \in accounts THEN invs[i].email ELSE None
           q(i) == Locals("accept.read", actor(i), None, invs[i].org, invs[i].email,
                          invs[i].role, i, invs[i].token)
<1>1. PICK i \in Invs : invs[i].status = "PENDING" /\ req' = [req EXCEPT ![r] = q(i)]
  BY DEF StartAccept, Begin
<1>2. invs[i] \in Invitation
  BY DEF Inv, TypeOK
<1>3. /\ invs[i].org \in Orgs /\ invs[i].email \in Users /\ invs[i].role \in AssignableRoles
      /\ orgs[invs[i].org].state # "UNUSED"
  BY <1>1 DEF Inv, TableInv, InvRows
<1>4. q(i) \in Request
  BY <1>2, <1>3 DEF Locals, Request, PCs, Invitation
<1>5. ReqOK(q(i))
  BY <1>1, <1>3 DEF Locals, ReqOK
<1> QED
  BY <1>1, <1>4, <1>5, ReqStep DEF StartAccept

LEMMA AcceptReadInv == ASSUME Inv, NEW r \in Requests, AcceptRead(r) PROVE Inv'
<1>1. req[r] \in Request /\ ReqOK(req[r])
  BY DEF Inv, TypeOK
<1>2. ReqOK([req[r] EXCEPT !.pc = "accept.commit"])
  BY <1>1
  DEF AcceptRead, At, Request, ReqOK, PcsWithOrg, PcsWithTarget, PcsWithRole, PcsWithInv
<1> QED
  BY <1>2, GotoStep DEF AcceptRead, PCs

-----------------------------------------------------------------------------
(* Steps that write tables.                                                *)

(* A fresh organization with its owner's row, for a user without one.      *)
LEMMA InsertOrganizationInv ==
    ASSUME Inv, NEW r \in Requests, NEW u \in Users, NEW o \in Orgs,
           InsertOrganization(o, u),
           accounts' \subseteq Users, invs' = invs, Finish(r)
    PROVE  Inv'
<1> DEFINE new == [org |-> o, user |-> u, role |-> "OWNER"]
<1>1. /\ orgs[o].state = "UNUSED"
      /\ orgs' = [orgs EXCEPT ![o] = [state |-> "LIVE", owner |-> u]]
      /\ members' = members \cup {new}
  BY DEF InsertOrganization
<1>2. /\ \A x \in Orgs : x # o => orgs'[x] = orgs[x]
      /\ orgs'[o] = [state |-> "LIVE", owner |-> u]
      /\ orgs' \in [Orgs -> Org]
  BY <1>1 DEF Inv, TypeOK, Org, OrgStates
<1>3. TableType'
  BY <1>1, <1>2 DEF Inv, TypeOK, TableType, Member, Roles
<1>4. \A m \in members : m.org # o /\ m.user # u /\ m.org \in Orgs
  BY <1>1 DEF Inv, TypeOK, Member, TableInv, MemberRows, Live, findUserMembership, InsertOrganization
<1>5. SingleOrganization'
  BY <1>1, <1>4 DEF Inv, TableInv, SingleOrganization
<1>6. OwnerRows'
  BY <1>1, <1>2 DEF Inv, TableInv, OwnerRows, Live
<1>7. MemberRows'
  BY <1>1, <1>2, <1>4 DEF Inv, TableInv, MemberRows, Live
<1>8. InvRows'
  BY <1>1, <1>2 DEF Inv, TableInv, InvRows, Live, Exists
<1>9. MembersWereInvited'
  BY <1>1 DEF Inv, TableInv, MembersWereInvited, Exists
<1>10. OrgsGrow /\ InvsGrow
  BY <1>1, <1>2 DEF OrgsGrow, InvsGrow
<1> QED
  BY <1>3, <1>5, <1>6, <1>7, <1>8, <1>9, <1>10, WriteStep DEF TableInv

LEMMA CreateOrganizationInv ==
    ASSUME Inv, NEW r \in Requests, CreateOrganization(r) PROVE Inv'
<1>1. req[r].target \in Users
  BY DEF Inv, ReqOK, CreateOrganization, At, PcsWithTarget
<1> QED
  BY <1>1, InsertOrganizationInv DEF CreateOrganization, Inv, TypeOK

LEMMA RegisterInv == ASSUME Inv, NEW r \in Requests, Register(r) PROVE Inv'
<1>1. req[r].target \in Users
  BY DEF Inv, ReqOK, Register, At, PcsWithTarget
<1> QED
  BY <1>1, InsertOrganizationInv DEF Register, Inv, TypeOK

LEMMA DeleteOrganizationInv ==
    ASSUME Inv, NEW r \in Requests, DeleteOrganization(r) PROVE Inv'
<1> DEFINE o == req[r].org
<1>1. o \in Orgs
  BY DEF Inv, ReqOK, DeleteOrganization, At, PcsWithOrg
<1>2. /\ orgs' \in [Orgs -> Org]
      /\ orgs'[o].state = "DELETED" /\ orgs'[o].owner = orgs[o].owner
      /\ \A x \in Orgs : x # o => orgs'[x] = orgs[x]
  BY <1>1 DEF DeleteOrganization, Inv, TypeOK, Org, OrgStates
<1>3. /\ members' = {m \in members : m.org # o}
      /\ accounts' = accounts
  BY DEF DeleteOrganization
<1>4. ASSUME NEW i \in Invs
      PROVE  /\ invs'[i] \in Invitation
             /\ invs[i].org = o => invs'[i].status = "DELETED"
             /\ invs[i].org # o => invs'[i] = invs[i]
             /\ invs'[i].org = invs[i].org /\ invs'[i].email = invs[i].email
             /\ invs'[i].role = invs[i].role
  <2>1. invs[i] \in Invitation
    BY DEF Inv, TypeOK
  <2>2. invs'[i] = IF invs[i].org = o THEN [invs[i] EXCEPT !.status = "DELETED"] ELSE invs[i]
    BY DEF DeleteOrganization
  <2> QED
    BY <2>1, <2>2 DEF Invitation, RowStates
<1>5. invs' \in [Invs -> Invitation]
  BY <1>4 DEF DeleteOrganization
<1>6. TableType'
  BY <1>2, <1>3, <1>5 DEF TableType, Inv, TypeOK
<1>7. SingleOrganization'
  BY <1>3 DEF Inv, TableInv, SingleOrganization
<1>8. OwnerRows'
  BY <1>2, <1>3 DEF Inv, TableInv, OwnerRows, Live
<1>9. MemberRows'
  BY <1>2, <1>3 DEF Inv, TableInv, MemberRows, Live, TypeOK, Member
<1>10. InvRows'
  <2> SUFFICES ASSUME NEW i \in Invs
               PROVE  /\ invs'[i].status = "UNUSED" => invs'[i].org = None
                      /\ invs'[i].status # "UNUSED" =>
                             /\ invs'[i].org \in Orgs
                             /\ invs'[i].email \in Users
                             /\ invs'[i].role \in AssignableRoles
                             /\ orgs'[invs'[i].org].state # "UNUSED"
                      /\ Exists(i)' => Live(invs[i].org)'
    BY DEF InvRows
  <2>1. CASE invs[i].org = o
    <3>1. invs[i].org \in Orgs
      BY <2>1, <1>1
    <3>2. invs[i].status # "UNUSED"
      BY <2>1, <3>1, NoneAssumption DEF Inv, TableInv, InvRows
    <3> QED
      BY <2>1, <1>2, <1>4, <3>2 DEF Inv, TableInv, InvRows, Exists, Statuses
  <2>2. CASE invs[i].org # o
    BY <2>2, <1>2, <1>4 DEF Inv, TableInv, InvRows, Exists, Live, Statuses
  <2> QED
    BY <2>1, <2>2
<1>11. MembersWereInvited'
  BY <1>3, <1>4 DEF Inv, TableInv, MembersWereInvited, Exists
<1>12. OrgsGrow /\ InvsGrow
  BY <1>2, <1>4 DEF OrgsGrow, InvsGrow
<1> QED
  BY <1>6, <1>7, <1>8, <1>9, <1>10, <1>11, <1>12, WriteStep DEF TableInv, DeleteOrganization

LEMMA UpdateMemberRoleInv ==
    ASSUME Inv, NEW r \in Requests, UpdateMemberRole(r) PROVE Inv'
<1> DEFINE q == req[r]
           row == findMember(q.org, q.target)
           new == [org |-> q.org, user |-> q.target, role |-> q.role]
<1>1. /\ q.org \in Orgs /\ q.target \in Users /\ q.role \in AssignableRoles
      /\ q.target # orgs[q.org].owner
  BY DEF Inv, ReqOK, UpdateMemberRole, At, PcsWithOrg, PcsWithTarget, PcsWithRole
<1>2. PICK old \in members : old.org = q.org /\ old.user = q.target
  BY DEF UpdateMemberRole, findMember
<1>3. /\ members' = (members \ row) \cup {new}
      /\ UNCHANGED <<accounts, orgs, invs>>
  BY DEF UpdateMemberRole
<1>4. new \in Member /\ q.role # "OWNER"
  BY <1>1, RolesAssumption DEF Member
<1>5. TableType'
  BY <1>3, <1>4 DEF Inv, TypeOK, TableType
<1>6. \A m \in members' : m = new \/ (m \in members /\ m \notin row)
  BY <1>3
<1>7. \A m \in members : m.user = q.target => m \in row
  BY <1>2 DEF Inv, TableInv, SingleOrganization, findMember
<1>8. SingleOrganization'
  BY <1>6, <1>7 DEF Inv, TableInv, SingleOrganization
<1>9. OwnerRows'
  <2> SUFFICES ASSUME NEW o \in Orgs, Live(o)
               PROVE  /\ orgs[o].owner \in Users
                      /\ [org |-> o, user |-> orgs[o].owner, role |-> "OWNER"] \in members'
    BY <1>3 DEF OwnerRows, Live
  <2> DEFINE own == [org |-> o, user |-> orgs[o].owner, role |-> "OWNER"]
  <2>1. own \in members /\ orgs[o].owner \in Users
    BY DEF Inv, TableInv, OwnerRows
  <2>2. own \notin row
    BY <1>1 DEF findMember
  <2> QED
    BY <2>1, <2>2, <1>3
<1>10. MemberRows'
  BY <1>1, <1>2, <1>3, <1>4, <1>6 DEF Inv, TableInv, MemberRows, Live
<1>11. InvRows'
  BY <1>3 DEF Inv, TableInv, InvRows, Live, Exists
<1>12. MembersWereInvited'
  <2>1. old.role # "OWNER"
    BY <1>1, <1>2 DEF Inv, TableInv, MemberRows
  <2> QED
    BY <2>1, <1>2, <1>3, <1>6 DEF Inv, TableInv, MembersWereInvited, Exists
<1>13. OrgsGrow /\ InvsGrow
  BY <1>3 DEF OrgsGrow, InvsGrow
<1> QED
  BY <1>5, <1>8, <1>9, <1>10, <1>11, <1>12, <1>13, WriteStep DEF TableInv, UpdateMemberRole

LEMMA RemoveMemberInv == ASSUME Inv, NEW r \in Requests, RemoveMember(r) PROVE Inv'
<1> DEFINE q == req[r]
           row == findMember(q.org, q.target)
<1>1. q.target # orgs[q.org].owner
  BY DEF Inv, ReqOK, RemoveMember, At
<1>2. members' = members \ row /\ UNCHANGED <<accounts, orgs, invs>>
  BY DEF RemoveMember
<1>3. TableType'
  BY <1>2 DEF Inv, TypeOK, TableType
<1>4. SingleOrganization' /\ MemberRows' /\ InvRows' /\ MembersWereInvited'
  BY <1>2 DEF Inv, TableInv, SingleOrganization, MemberRows, InvRows, MembersWereInvited, Live, Exists
<1>5. OwnerRows'
  <2> SUFFICES ASSUME NEW o \in Orgs, Live(o)
               PROVE  /\ orgs[o].owner \in Users
                      /\ [org |-> o, user |-> orgs[o].owner, role |-> "OWNER"] \in members'
    BY <1>2 DEF OwnerRows, Live
  <2> DEFINE own == [org |-> o, user |-> orgs[o].owner, role |-> "OWNER"]
  <2>1. own \in members /\ orgs[o].owner \in Users
    BY DEF Inv, TableInv, OwnerRows
  <2>2. own \notin row
    BY <1>1 DEF findMember
  <2> QED
    BY <2>1, <2>2, <1>2
<1>6. OrgsGrow /\ InvsGrow
  BY <1>2 DEF OrgsGrow, InvsGrow
<1> QED
  BY <1>3, <1>4, <1>5, <1>6, WriteStep DEF TableInv, RemoveMember

(* Rewriting invitation rows without touching their identity is harmless.  *)
LEMMA InvitationRows ==
    ASSUME Inv, UNCHANGED <<accounts, orgs, members>>, invs' \in [Invs -> Invitation],
           \A i \in Invs : \/ invs'[i] = invs[i]
                           \/ /\ Exists(i) /\ Exists(i)'
                              /\ invs'[i].org = invs[i].org
                              /\ invs'[i].email = invs[i].email
                              /\ invs'[i].role \in AssignableRoles
    PROVE  TableType' /\ TableInv' /\ OrgsGrow /\ InvsGrow
<1>1. TableType'
  BY DEF Inv, TypeOK, TableType
<1>2. SingleOrganization' /\ OwnerRows' /\ MemberRows'
  BY DEF Inv, TableInv, SingleOrganization, OwnerRows, MemberRows, Live
<1>3. InvRows'
  BY DEF Inv, TableInv, InvRows, Live, Exists, Statuses
<1>4. MembersWereInvited'
  BY DEF Inv, TableInv, MembersWereInvited, Exists
<1>5. OrgsGrow /\ InvsGrow
  BY DEF OrgsGrow, InvsGrow, Exists, Statuses
<1> QED
  BY <1>1, <1>2, <1>3, <1>4, <1>5 DEF TableInv

LEMMA ReissueInv ==
    ASSUME Inv, NEW r \in Requests, NEW i \in Invs, NEW status \in Statuses,
           NEW role \in AssignableRoles, Reissue(i, status, role), Finish(r),
           UNCHANGED <<accounts, orgs, members>>
    PROVE  Inv'
<1>1. invs[i] \in Invitation /\ Exists(i) /\ invs[i].token < MaxToken
  BY DEF Reissue, Inv, TypeOK
<1> DEFINE new == [status |-> status, org |-> invs[i].org, email |-> invs[i].email, role |-> role,
                   token |-> invs[i].token + 1, expired |-> FALSE]
<1>2. new \in Invitation
  BY <1>1, TokenAssumption DEF Invitation, RowStates
<1>3. /\ invs' = [invs EXCEPT ![i] = new]
      /\ invs \in [Invs -> Invitation]
  BY DEF Reissue, Inv, TypeOK
<1>4. invs' \in [Invs -> Invitation] /\ invs'[i] = new
  BY <1>2, <1>3
<1>5. \A j \in Invs : j # i => invs'[j] = invs[j]
  BY <1>3
<1> QED
  BY <1>1, <1>4, <1>5, InvitationRows, WriteStep DEF Exists

LEMMA RefreshInvitationInv ==
    ASSUME Inv, NEW r \in Requests, RefreshInvitation(r) PROVE Inv'
<1>1. req[r].inv \in Invs /\ req[r].role \in AssignableRoles
  BY DEF Inv, ReqOK, RefreshInvitation, At, PcsWithInv, PcsWithRole
<1> QED
  BY <1>1, ReissueInv DEF RefreshInvitation, Statuses

LEMMA ResendInvitationInv ==
    ASSUME Inv, NEW r \in Requests, ResendInvitation(r) PROVE Inv'
<1>1. req[r].inv \in Invs
  BY DEF Inv, ReqOK, ResendInvitation, At, PcsWithInv
<1>2. invs[req[r].inv].status \in Statuses /\ invs[req[r].inv].role \in AssignableRoles
  BY <1>1 DEF ResendInvitation, Reissue, Exists, Statuses, Inv, TableInv, InvRows
<1> QED
  BY <1>1, <1>2, ReissueInv DEF ResendInvitation

(* Revoke, mark expired, pass the date: one row changes status or date.    *)
LEMMA StatusRow ==
    ASSUME Inv, NEW i \in Invs, NEW row \in Invitation, Exists(i), row.status \in Statuses,
           row.org = invs[i].org, row.email = invs[i].email, row.role = invs[i].role,
           invs' = [invs EXCEPT ![i] = row], UNCHANGED <<accounts, orgs, members>>
    PROVE  TableType' /\ TableInv' /\ OrgsGrow /\ InvsGrow
<1>1. row.role \in AssignableRoles
  BY DEF Inv, TableInv, InvRows, Exists, Statuses
<1>2. invs' \in [Invs -> Invitation] /\ invs'[i] = row
  BY DEF Inv, TypeOK
<1>3. \A j \in Invs : j # i => invs'[j] = invs[j]
  BY DEF Inv, TypeOK
<1> QED
  BY <1>1, <1>2, <1>3, InvitationRows DEF Exists

LEMMA StatusWriteInv ==
    ASSUME Inv, NEW r \in Requests, RevokeInvitation(r) \/ MarkExpired(r) PROVE Inv'
<1>1. PICK i \in Invs : i = req[r].inv
  BY DEF Inv, ReqOK, RevokeInvitation, MarkExpired, At, PcsWithInv
<1>2. PICK st \in {"REVOKED", "EXPIRED"} : invs' = [invs EXCEPT ![i].status = st]
  BY <1>1 DEF RevokeInvitation, MarkExpired
<1> DEFINE row == [invs[i] EXCEPT !.status = st]
<1>3. invs[i] \in Invitation /\ Exists(i)
  BY <1>1 DEF Inv, TypeOK, RevokeInvitation, MarkExpired
<1>4. /\ row \in Invitation /\ row.status = st /\ row.org = invs[i].org
      /\ row.email = invs[i].email /\ row.role = invs[i].role
  BY <1>3 DEF Invitation, RowStates, Statuses
<1>5. invs' = [invs EXCEPT ![i] = row]
  BY <1>2
<1>6. TableType' /\ TableInv' /\ OrgsGrow /\ InvsGrow
  BY <1>3, <1>4, <1>5, StatusRow DEF RevokeInvitation, MarkExpired, Statuses
<1> QED
  BY <1>6, WriteStep DEF RevokeInvitation, MarkExpired

LEMMA ExpireInv == ASSUME Inv, NEW i \in Invs, Expire(i) PROVE Inv'
<1> DEFINE row == [invs[i] EXCEPT !.expired = TRUE]
<1>1. invs[i] \in Invitation /\ Exists(i) /\ invs[i].status \in Statuses
  BY DEF Inv, TypeOK, Expire, Exists, Statuses
<1>2. /\ row \in Invitation /\ row.status = invs[i].status /\ row.org = invs[i].org
      /\ row.email = invs[i].email /\ row.role = invs[i].role
  BY <1>1 DEF Invitation
<1>3. invs' = [invs EXCEPT ![i] = row]
  BY DEF Expire
<1>4. TableType' /\ TableInv' /\ OrgsGrow /\ InvsGrow
  BY <1>1, <1>2, <1>3, StatusRow DEF Expire
<1>5. req' = req
  BY DEF Expire
<1>6. TypeOK'
  BY <1>4, <1>5 DEF TableType, TypeOK, Inv
<1>7. ASSUME NEW s \in Requests PROVE ReqOK(req[s])'
  <2>1. ReqOK(req[s])
    BY DEF Inv
  <2>2. req[s].pc \in {"updateMemberRole", "removeMember"} => req[s].org \in Orgs
    BY <2>1 DEF ReqOK, PcsWithOrg
  <2>3. req[s].pc \in {"accept.read", "accept.commit"} => req[s].inv \in Invs
    BY <2>1 DEF ReqOK, PcsWithInv
  <2> QED
    BY <1>4, <1>5, <2>1, <2>2, <2>3 DEF ReqOK, OrgsGrow, InvsGrow
<1> QED
  BY <1>4, <1>6, <1>7 DEF Inv

LEMMA CreateInvitationInv ==
    ASSUME Inv, NEW r \in Requests, CreateInvitation(r) PROVE Inv'
<1>1. PICK q \in Request : q = req[r]
  BY DEF Inv, TypeOK
<1>2. q.org \in Orgs /\ q.target \in Users /\ q.role \in AssignableRoles /\ Live(q.org)
  BY <1>1 DEF Inv, ReqOK, CreateInvitation, At, PcsWithOrg, PcsWithTarget, PcsWithRole
<1> DEFINE new == [status |-> "PENDING", org |-> q.org, email |-> q.target,
                   role |-> q.role, token |-> 1, expired |-> FALSE]
<1>3. PICK i \in Invs : invs[i].status = "UNUSED" /\ invs' = [invs EXCEPT ![i] = new]
  BY <1>1 DEF CreateInvitation
<1>4. new \in Invitation
  BY <1>2, TokenAssumption DEF CreateInvitation, Invitation, RowStates, Statuses
<1>5. /\ invs' \in [Invs -> Invitation] /\ invs'[i] = new
      /\ \A j \in Invs : j # i => invs'[j] = invs[j]
  BY <1>3, <1>4 DEF Inv, TypeOK
<1>6. UNCHANGED <<accounts, orgs, members>>
  BY DEF CreateInvitation
<1>7. TableType'
  BY <1>5, <1>6 DEF Inv, TypeOK, TableType
<1>8. SingleOrganization' /\ OwnerRows' /\ MemberRows'
  BY <1>6 DEF Inv, TableInv, SingleOrganization, OwnerRows, MemberRows, Live
<1>9. InvRows'
  BY <1>2, <1>5, <1>6 DEF Inv, TableInv, InvRows, Live, Exists
<1>10. MembersWereInvited'
  BY <1>3, <1>5, <1>6 DEF Inv, TableInv, MembersWereInvited, Exists, Statuses
<1>11. OrgsGrow /\ InvsGrow
  BY <1>3, <1>5, <1>6 DEF OrgsGrow, InvsGrow
<1> QED
  BY <1>7, <1>8, <1>9, <1>10, <1>11, WriteStep DEF TableInv, CreateInvitation

LEMMA AcceptCommitInv == ASSUME Inv, NEW r \in Requests, AcceptCommit(r) PROVE Inv'
<1>1. PICK q \in Request : q = req[r]
  BY DEF Inv, TypeOK
<1>2. /\ q.org \in Orgs /\ q.target \in Users /\ q.role \in AssignableRoles /\ q.inv \in Invs
      /\ invs[q.inv].org = q.org /\ invs[q.inv].email = q.target
  BY <1>1 DEF Inv, ReqOK, AcceptCommit, At, PcsWithOrg, PcsWithTarget, PcsWithRole, PcsWithInv
<1> DEFINE new == [org |-> q.org, user |-> q.target, role |-> q.role]
<1>3. /\ Live(q.org) /\ \A m \in members : m.user # q.target
      /\ Exists(q.inv)
      /\ members' = members \cup {new}
      /\ accounts' = accounts \cup {q.target}
      /\ orgs' = orgs
  BY <1>1 DEF AcceptCommit, MemberInsertable, findUserMembership
<1>4. ASSUME NEW i \in Invs
      PROVE  /\ invs'[i] \in Invitation
             /\ invs'[i].org = invs[i].org /\ invs'[i].email = invs[i].email
             /\ invs'[i].role = invs[i].role
             /\ invs'[i].status = "UNUSED" <=> invs[i].status = "UNUSED"
             /\ Exists(i)' <=> Exists(i)
  <2>1. invs[i] \in Invitation
    BY DEF Inv, TypeOK
  <2>2. \/ i = q.inv /\ invs'[i] = [invs[i] EXCEPT !.status = "ACCEPTED"]
        \/ invs[i].status = "PENDING" /\ invs'[i] = [invs[i] EXCEPT !.status = "INVALIDATED"]
        \/ invs'[i] = invs[i]
    BY <1>1 DEF AcceptCommit, AcceptedRows
  <2> QED
    BY <1>3, <2>1, <2>2 DEF Invitation, RowStates, Exists, Statuses
<1>5. invs' \in [Invs -> Invitation]
  BY <1>4 DEF AcceptCommit, AcceptedRows
<1>6. new \in Member /\ new.role # "OWNER"
  BY <1>2, RolesAssumption DEF Member
<1>7. TableType'
  BY <1>2, <1>3, <1>5, <1>6 DEF Inv, TypeOK, TableType
<1>8. SingleOrganization'
  BY <1>3 DEF Inv, TableInv, SingleOrganization
<1>9. OwnerRows'
  BY <1>3 DEF Inv, TableInv, OwnerRows, Live
<1>10. MemberRows'
  <2>1. orgs[q.org].owner # q.target
    BY <1>2, <1>3 DEF Inv, TableInv, OwnerRows
  <2> QED
    BY <2>1, <1>3, <1>6 DEF Inv, TableInv, MemberRows, Live
<1>11. InvRows'
  BY <1>3, <1>4 DEF Inv, TableInv, InvRows, Live
<1>12. MembersWereInvited'
  BY <1>2, <1>3, <1>4 DEF Inv, TableInv, MembersWereInvited
<1>13. OrgsGrow /\ InvsGrow
  BY <1>3, <1>4 DEF OrgsGrow, InvsGrow
<1> QED
  BY <1>7, <1>8, <1>9, <1>10, <1>11, <1>12, <1>13, WriteStep DEF TableInv, AcceptCommit

-----------------------------------------------------------------------------
(* The empty database satisfies Inv.                                       *)
LEMMA InitInv == Init => Inv
<1> SUFFICES ASSUME Init PROVE Inv
  OBVIOUS
<1>1. NoInvitation \in Invitation
  BY TokenAssumption DEF NoInvitation, Invitation, RowStates
<1>2. TypeOK
  BY <1>1, IdleOK DEF Init, TypeOK, Org, OrgStates
<1>3. TableInv
  BY DEF Init, TableInv, SingleOrganization, OwnerRows, MemberRows, InvRows, MembersWereInvited,
         Live, Exists, NoInvitation, Statuses
<1>4. \A r \in Requests : ReqOK(req[r])
  BY IdleOK DEF Init
<1> QED
  BY <1>2, <1>3, <1>4 DEF Inv

(* Every step of every handler keeps Inv.                                  *)
LEMMA NextInv == Inv /\ [Next]_vars => Inv'
<1> SUFFICES ASSUME Inv, [Next]_vars PROVE Inv'
  OBVIOUS
<1>1. ASSUME NEW r \in Requests, Step(r) PROVE Inv'
  <2>1. CASE Reject(r)
    BY <2>1, RejectInv
  <2>2. CASE StartRegister(r) \/ Register(r)
    BY <2>2, StartRegisterInv, RegisterInv
  <2>3. CASE StartCreateOrganization(r) \/ CreateOrganization(r)
    BY <2>3, StartCreateOrganizationInv, CreateOrganizationInv
  <2>4. CASE StartDeleteOrganization(r) \/ DeleteOrganization(r)
    BY <2>4, StartDeleteOrganizationInv, DeleteOrganizationInv
  <2>5. CASE StartUpdateMemberRole(r) \/ CheckUpdateMemberRole(r) \/ UpdateMemberRole(r)
    BY <2>5, StartUpdateMemberRoleInv, CheckMemberInv, UpdateMemberRoleInv
  <2>6. CASE StartRemoveMember(r) \/ CheckRemoveMember(r) \/ RemoveMember(r)
    BY <2>6, StartRemoveMemberInv, CheckMemberInv, RemoveMemberInv
  <2>7. CASE StartAddMember(r) \/ CheckAddMember(r) \/ FindPending(r)
    BY <2>7, StartAddMemberInv, CheckAddMemberInv, FindPendingInv
  <2>8. CASE CreateInvitation(r) \/ RefreshInvitation(r)
    BY <2>8, CreateInvitationInv, RefreshInvitationInv
  <2>9. CASE StartOnInvitation(r, "resend.read") \/ StartOnInvitation(r, "revoke.read")
    BY <2>9, StartOnInvitationInv
  <2>10. CASE \/ CheckInvitation(r, "resend.read", "resend.write")
              \/ CheckInvitation(r, "revoke.read", "revoke.write")
    BY <2>10, CheckInvitationInv
  <2>11. CASE ResendInvitation(r) \/ RevokeInvitation(r)
    BY <2>11, ResendInvitationInv, StatusWriteInv
  <2>12. CASE FindExpired(r) \/ MarkExpired(r)
    BY <2>12, FindExpiredInv, StatusWriteInv
  <2>13. CASE StartAccept(r) \/ AcceptRead(r) \/ AcceptCommit(r)
    BY <2>13, StartAcceptInv, AcceptReadInv, AcceptCommitInv
  <2> QED
    BY <1>1, <2>1, <2>2, <2>3, <2>4, <2>5, <2>6, <2>7, <2>8, <2>9, <2>10, <2>11, <2>12, <2>13
    DEF Step
<1>2. ASSUME NEW i \in Invs, Expire(i) PROVE Inv'
  BY <1>2, ExpireInv
<1>3. CASE UNCHANGED vars
  BY <1>3 DEF vars, Inv, TypeOK, TableInv, SingleOrganization, OwnerRows, MemberRows, InvRows,
             MembersWereInvited, Live, Exists, ReqOK
<1> QED
  BY <1>1, <1>2, <1>3 DEF Next

(* Inv holds in every reachable state.                                     *)
THEOREM Invariance == Spec => []Inv
  BY InitInv, NextInv, PTL DEF Spec

(* Tables and request locals keep their types, for any number of           *)
(* overlapping handlers.                                                   *)
THEOREM TypeCorrect == Spec => []TypeOK
<1>1. Inv => TypeOK
  BY DEF Inv
<1> QED
  BY <1>1, Invariance, PTL

(* No user is ever a member of two organizations.                          *)
THEOREM OneOrganizationPerUser == Spec => []SingleOrganization
<1>1. Inv => SingleOrganization
  BY DEF Inv, TableInv
<1> QED
  BY <1>1, Invariance, PTL

(* An organization keeps exactly its owner in the OWNER role, although     *)
(* role changes and removals act on a role read in an earlier step.        *)
THEOREM OwnerIsPinned == Spec => []OwnerPinned
<1>1. Inv => OwnerPinned
  <2> SUFFICES ASSUME Inv, NEW o \in Orgs, Live(o)
               PROVE  {m.user : m \in {n \in members : n.org = o /\ n.role = "OWNER"}}
                          = {orgs[o].owner}
    BY DEF OwnerPinned
  <2> DEFINE own == [org |-> o, user |-> orgs[o].owner, role |-> "OWNER"]
             owners == {n \in members : n.org = o /\ n.role = "OWNER"}
  <2>1. own \in owners
    BY DEF Inv, TableInv, OwnerRows
  <2>2. \A m \in owners : m.user = orgs[o].owner
    BY DEF Inv, TableInv, MemberRows
  <2> QED
    BY <2>1, <2>2
<1> QED
  BY <1>1, Invariance, PTL

(* Whoever is a member without being the owner was invited there.          *)
THEOREM NobodyJoinsUninvited == Spec => []MembersWereInvited
<1>1. Inv => MembersWereInvited
  BY DEF Inv, TableInv
<1> QED
  BY <1>1, Invariance, PTL

(* No handler started before a deletion puts rows back after it.           *)
THEOREM DeletionIsFinal == Spec => []DeletedIsEmpty
<1>1. Inv => DeletedIsEmpty
  BY DEF Inv, TableInv, MemberRows, InvRows, DeletedIsEmpty
<1> QED
  BY <1>1, Invariance, PTL

(* Joining an organization always consumes an invitation to it.            *)
THEOREM JoiningConsumesInvitation == Spec => JoiningAccepts
<1>1. Inv /\ [Next]_vars => [JoinStep]_vars
  <2> SUFFICES ASSUME Inv, Next PROVE JoinStep
    OBVIOUS
  <2>1. ASSUME NEW r \in Requests, Register(r) \/ CreateOrganization(r) PROVE JoinStep
    <3>1. PICK o \in Orgs : InsertOrganization(o, req[r].target)
      BY <2>1 DEF Register, CreateOrganization
    <3> QED
      BY <3>1 DEF InsertOrganization, JoinStep, Live
  <2>2. ASSUME NEW r \in Requests, UpdateMemberRole(r) PROVE JoinStep
    BY <2>2 DEF UpdateMemberRole, findMember, JoinStep
  <2>3. ASSUME NEW r \in Requests, AcceptCommit(r) PROVE JoinStep
    <3>1. PICK q \in Request : q = req[r]
      BY DEF Inv, TypeOK
    <3>2. q.inv \in Invs /\ invs[q.inv].org = q.org /\ invs[q.inv].email = q.target
      BY <2>3, <3>1 DEF Inv, ReqOK, AcceptCommit, At, PcsWithInv
    <3>3. invs[q.inv] \in Invitation
      BY <3>2 DEF Inv, TypeOK
    <3>4. invs'[q.inv] = [invs[q.inv] EXCEPT !.status = "ACCEPTED"]
      BY <2>3, <3>1, <3>2 DEF AcceptCommit, AcceptedRows
    <3>5. invs'[q.inv].status = "ACCEPTED"
      BY <3>3, <3>4 DEF Invitation
    <3>6. members' = members \cup {[org |-> q.org, user |-> q.target, role |-> q.role]}
      BY <2>3, <3>1 DEF AcceptCommit
    <3> QED
      BY <3>2, <3>5, <3>6 DEF JoinStep
  <2>4. CASE members' \subseteq members
    BY <2>4 DEF JoinStep
  <2>5. ASSUME NEW r \in Requests, Step(r),
               ~Register(r), ~CreateOrganization(r), ~UpdateMemberRole(r), ~AcceptCommit(r)
        PROVE  members' \subseteq members
    BY <2>5 DEF Step, Reject, StartRegister, StartCreateOrganization, StartDeleteOrganization,
        DeleteOrganization, StartUpdateMemberRole, CheckUpdateMemberRole, StartRemoveMember,
        CheckRemoveMember, RemoveMember, StartAddMember, CheckAddMember, FindPending,
        CreateInvitation, RefreshInvitation, StartOnInvitation, CheckInvitation,
        ResendInvitation, RevokeInvitation, FindExpired, MarkExpired, StartAccept, AcceptRead
  <2>6. ASSUME NEW i \in Invs, Expire(i) PROVE members' \subseteq members
    BY <2>6 DEF Expire
  <2> QED
    BY <2>1, <2>2, <2>3, <2>4, <2>5, <2>6 DEF Next
<1> QED
  BY <1>1, Invariance, PTL DEF Spec, JoiningAccepts
=============================================================================

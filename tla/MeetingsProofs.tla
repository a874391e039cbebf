---------------------------- MODULE MeetingsProofs ----------------------------
(***************************************************************************)
(* Proofs about Meetings and GoogleLink, for any users, Google accounts,   *)
(* meetings, events and concurrent requests.                               *)
(***************************************************************************)
EXTENDS Meetings, TLAPS

-----------------------------------------------------------------------------
(* The link to a Google account.                                           *)

(* Busy: both tokens are of the account the row names.                     *)
RowOK(w) == ~Quiet => w.refresh = w.google /\ w.access = w.google

Connecting(f) == f.pc \in {"lookup", "read", "upsert"}

(* A flow that is to write a row has an account to write, and busy also a  *)
(* refresh token of it.                                                    *)
FlowOK(f) ==
    /\ Connecting(f) \/ f.pc \in {"find", "delete"} => f.user \in Users
    /\ Connecting(f) => f.google \in Googles
    /\ ~Quiet => f.access = f.google /\ (Connecting(f) => f.refresh = f.google)

Distinct ==
    \A u, v \in Users :
        (u # v /\ account[u].google # None) => account[u].google # account[v].google

LinkInv ==
    /\ LinkTypeOK
    /\ Distinct
    /\ \A u \in Users : RowOK(account[u])
    /\ \A r \in Requests : FlowOK(flow[r])

LEMMA NoFlowOK == NoFlow \in Flow /\ FlowOK(NoFlow) /\ NoFlow.pc = "idle"
  BY DEF NoFlow, NewFlow, Flow, MaybeGoogle, FlowOK, Connecting

LEMMA NoRowOK == NoRow \in Row /\ RowOK(NoRow) /\ NoRow.google = None
  BY DEF NoRow, NewRow, Row, MaybeGoogle, RowOK

LEMMA InitLink == LinkInit => LinkInv
  BY NoFlowOK, NoRowOK DEF LinkInit, LinkInv, LinkTypeOK, Distinct

LEMMA SameLink == ASSUME LinkInv, UNCHANGED linkVars PROVE LinkInv'
  BY DEF linkVars, LinkInv, LinkTypeOK, Distinct, RowOK, FlowOK, Quiet

(* A flow goes on, and perhaps the row of one user is written.             *)
LEMMA FlowStep ==
    ASSUME LinkInv, NEW r \in Requests, NEW f \in Flow, FlowOK(f), Goto(r, f),
           UNCHANGED <<account, world>>
    PROVE  LinkInv'
<1>1. flow' \in [Requests -> Flow] /\ \A x \in Requests : FlowOK(flow'[x])
  BY DEF Goto, LinkInv, LinkTypeOK
<1> QED
  BY <1>1 DEF LinkInv, LinkTypeOK, Distinct, RowOK, FlowOK, Quiet

LEMMA RowStep ==
    ASSUME LinkInv, NEW u \in Users, NEW w \in Row, RowOK(w), UNCHANGED world,
           account' = [account EXCEPT ![u] = w],
           w.google = None \/ Free(u, w.google),
           flow' \in [Requests -> Flow], \A x \in Requests : FlowOK(flow'[x])
    PROVE  LinkInv'
<1>1. account'[u] = w /\ \A v \in Users \ {u} : account'[v] = account[v]
  BY DEF LinkInv, LinkTypeOK
<1>2. LinkTypeOK'
  BY DEF LinkInv, LinkTypeOK
<1>3. Distinct'
  BY <1>1 DEF LinkInv, Distinct, Free
<1>4. \A v \in Users : RowOK(account[v])'
  BY <1>1 DEF LinkInv, RowOK, Quiet
<1>5. \A x \in Requests : FlowOK(flow[x])'
  BY DEF FlowOK, Quiet
<1> QED
  BY <1>2, <1>3, <1>4, <1>5 DEF LinkInv

(* A request that keeps its locals.                                        *)
LEMMA AheadOK ==
    ASSUME LinkInv, NEW r \in Requests,
           NEW pc \in {"idle", "lookup", "read", "upsert", "find", "delete", "ready"},
           \/ pc \in {"read", "ready"} /\ Connecting(flow[r])
           \/ pc = "delete" /\ flow[r].pc = "find"
    PROVE  LET f == NewFlow(pc, flow[r].goal, flow[r].user, flow[r].google, flow[r].access,
                            flow[r].refresh, flow[r].kept)
           IN  f \in Flow /\ FlowOK(f)
<1> DEFINE f == NewFlow(pc, flow[r].goal, flow[r].user, flow[r].google, flow[r].access,
                        flow[r].refresh, flow[r].kept)
<1>1. flow[r] \in Flow /\ FlowOK(flow[r])
  BY DEF LinkInv, LinkTypeOK
<1>2. /\ f \in Flow /\ f.pc = pc /\ f.user = flow[r].user /\ f.google = flow[r].google
      /\ f.access = flow[r].access /\ f.refresh = flow[r].refresh
  BY <1>1 DEF NewFlow, Flow
<1> HIDE DEF f
<1>3. FlowOK(f)
  BY <1>1, <1>2 DEF FlowOK, Connecting
<1> QED
  BY <1>2, <1>3 DEF f

LEMMA StartConnectOK ==
    ASSUME LinkInv, NEW r \in Requests, NEW u \in Users, StartConnect(r, u) PROVE LinkInv'
<1>1. PICK g \in Googles, refresh \in MaybeGoogle :
          /\ refresh = g \/ (refresh = None /\ Quiet)
          /\ Goto(r, NewFlow("lookup", "connect", u, g, g, refresh, None))
  BY DEF StartConnect
<1> DEFINE f == NewFlow("lookup", "connect", u, g, g, refresh, None)
<1>2. /\ f \in Flow /\ f.pc = "lookup" /\ f.user = u /\ f.google = g
      /\ f.access = g /\ f.refresh = refresh
  BY DEF NewFlow, Flow, MaybeGoogle
<1> HIDE DEF f
<1>3. FlowOK(f)
  BY <1>1, <1>2 DEF FlowOK, Connecting
<1> QED
  BY <1>1, <1>2, <1>3, FlowStep DEF StartConnect, f

LEMMA StartDisconnectOK ==
    ASSUME LinkInv, NEW r \in Requests, NEW u \in Users, StartDisconnect(r, u) PROVE LinkInv'
<1> DEFINE f == NewFlow("find", "disconnect", u, None, None, None, None)
<1>1. f \in Flow /\ FlowOK(f)
  BY DEF NewFlow, Flow, MaybeGoogle, FlowOK, Connecting
<1>2. Goto(r, f) /\ UNCHANGED <<account, world>>
  BY DEF StartDisconnect
<1> HIDE DEF f
<1> QED
  BY <1>1, <1>2, FlowStep

LEMMA UpsertReadOK == ASSUME LinkInv, NEW r \in Requests, UpsertRead(r) PROVE LinkInv'
<1> DEFINE f == NewFlow("upsert", flow[r].goal, flow[r].user, flow[r].google,
                        flow[r].access, flow[r].refresh, account[flow[r].user].refresh)
<1>1. flow[r] \in Flow /\ FlowOK(flow[r]) /\ flow[r].pc = "read"
  BY DEF LinkInv, LinkTypeOK, UpsertRead, At
<1>2. account[flow[r].user].refresh \in MaybeGoogle
  BY <1>1 DEF FlowOK, Connecting, LinkInv, LinkTypeOK, Row
<1>3. /\ f \in Flow /\ f.pc = "upsert" /\ f.user = flow[r].user /\ f.google = flow[r].google
      /\ f.access = flow[r].access /\ f.refresh = flow[r].refresh
  BY <1>1, <1>2 DEF NewFlow, Flow
<1>4. Goto(r, f) /\ UNCHANGED <<account, world>>
  BY DEF UpsertRead
<1> HIDE DEF f
<1>5. FlowOK(f)
  BY <1>1, <1>3 DEF FlowOK, Connecting
<1> QED
  BY <1>3, <1>4, <1>5, FlowStep

(* The row that is written: the unique constraint keeps accounts distinct, *)
(* and a refresh token Google returned is never mixed with a kept one.     *)
LEMMA UpsertWriteOK == ASSUME LinkInv, NEW r \in Requests, UpsertWrite(r) PROVE LinkInv'
<1> DEFINE f == flow[r]
<1>1. f \in Flow /\ FlowOK(f) /\ f.pc = "upsert" /\ world' = world
  BY DEF LinkInv, LinkTypeOK, UpsertWrite, At
<1>2. PICK u \in Users : u = f.user
  BY <1>1 DEF FlowOK, Connecting
<1>3. CASE ~Free(u, f.google)
  BY <1>2, <1>3, NoFlowOK, FlowStep DEF UpsertWrite
<1>4. CASE Free(u, f.google)
  <2> DEFINE w == Upserted(account[u], f)
  <2>1. account' = [account EXCEPT ![u] = w]
    BY <1>2, <1>4 DEF UpsertWrite
  <2>2. /\ w \in Row /\ w.google = f.google /\ w.access = f.access
        /\ w.refresh = IF f.refresh = None /\ account[u].google # None THEN f.kept ELSE f.refresh
    BY <1>1 DEF Upserted, NewRow, Row, Flow
  <2> HIDE DEF w
  <2>3. RowOK(w)
    BY <1>1, <2>2, GoogleNone DEF RowOK, FlowOK, Connecting
  <2>4. PICK g \in Flow : FlowOK(g) /\ Goto(r, g)
    <3>1. CASE f.goal = "connect"
      BY <1>2, <1>4, <3>1, NoFlowOK DEF UpsertWrite
    <3>2. CASE f.goal # "connect"
      <4>1. Ahead(r, "ready") /\ Connecting(flow[r])
        BY <1>1, <1>2, <1>4, <3>2 DEF UpsertWrite, Connecting
      <4> QED
        BY <4>1, AheadOK DEF Ahead
    <3> QED
      BY <3>1, <3>2
  <2>5. flow' \in [Requests -> Flow] /\ \A x \in Requests : FlowOK(flow'[x])
    BY <2>4 DEF Goto, LinkInv, LinkTypeOK
  <2> QED
    BY <1>1, <1>4, <2>1, <2>2, <2>3, <2>5, RowStep
<1> QED
  BY <1>3, <1>4

LEMMA DeleteRowOK == ASSUME LinkInv, NEW r \in Requests, DeleteRow(r) PROVE LinkInv'
<1>1. flow[r].user \in Users
  BY DEF LinkInv, FlowOK, DeleteRow, At
<1>2. flow' \in [Requests -> Flow] /\ \A x \in Requests : FlowOK(flow'[x])
  BY NoFlowOK DEF DeleteRow, Goto, LinkInv, LinkTypeOK
<1> QED
  BY <1>1, <1>2, NoRowOK, RowStep DEF DeleteRow

LEMMA LinkStepOK == ASSUME LinkInv, NEW r \in Requests, LinkStep(r) PROVE LinkInv'
<1>1. CASE Throws(r)
  BY <1>1, NoFlowOK, FlowStep DEF Throws
<1>2. CASE Lookup(r)
  <2>1. Connecting(flow[r])
    BY <1>2 DEF Lookup, At, Connecting
  <2> QED
    BY <1>2, <2>1, NoFlowOK, AheadOK, FlowStep DEF Lookup, Ahead
<1>3. CASE FindRow(r)
  BY <1>3, NoFlowOK, AheadOK, FlowStep DEF FindRow, Ahead, At
<1> QED
  BY <1>1, <1>2, <1>3, UpsertReadOK, UpsertWriteOK, DeleteRowOK DEF LinkStep

(* A token of the user's row.                                              *)
LEMMA TokenOK ==
    ASSUME LinkInv, NEW r \in Requests, NEW u \in Users, HasToken(u), Goto(r, TokenOf(u)),
           UNCHANGED <<account, world>>
    PROVE  LinkInv'
<1> DEFINE f == TokenOf(u)
<1>1. account[u] \in Row /\ RowOK(account[u]) /\ account[u].google \in Googles
  BY DEF LinkInv, LinkTypeOK, HasToken, Row, MaybeGoogle
<1>2. CASE account[u].stale
  <2>1. f = NewFlow("upsert", "token", u, account[u].google, account[u].refresh,
                    account[u].refresh, None)
    BY <1>2 DEF TokenOf
  <2>2. /\ f \in Flow /\ f.pc = "upsert" /\ f.user = u /\ f.google = account[u].google
        /\ f.access = account[u].refresh /\ f.refresh = account[u].refresh
    BY <1>1, <2>1 DEF NewFlow, Flow, Row, MaybeGoogle
  <2> HIDE DEF f
  <2>3. FlowOK(f)
    BY <1>1, <2>2 DEF FlowOK, RowOK, Connecting
  <2> QED
    BY <2>2, <2>3, FlowStep DEF f
<1>3. CASE ~account[u].stale
  <2>1. f = NewFlow("ready", "token", u, account[u].google, account[u].access, None, None)
    BY <1>3 DEF TokenOf
  <2>2. /\ f \in Flow /\ f.pc = "ready" /\ f.user = u /\ f.google = account[u].google
        /\ f.access = account[u].access
    BY <1>1, <2>1 DEF NewFlow, Flow, Row, MaybeGoogle
  <2> HIDE DEF f
  <2>3. FlowOK(f)
    BY <1>1, <2>2 DEF FlowOK, RowOK, Connecting
  <2> QED
    BY <2>2, <2>3, FlowStep DEF f
<1> QED
  BY <1>2, <1>3

LEMMA GoStaleOK == ASSUME LinkInv, NEW u \in Users, GoStale(u) PROVE LinkInv'
<1> DEFINE w == NewRow(account[u].google, account[u].access, account[u].refresh, TRUE)
<1>1. account[u] \in Row /\ RowOK(account[u])
  BY DEF LinkInv, LinkTypeOK
<1>2. /\ w \in Row /\ w.google = account[u].google
      /\ w.access = account[u].access /\ w.refresh = account[u].refresh
  BY <1>1 DEF NewRow, Row
<1>3. account' = [account EXCEPT ![u] = w] /\ UNCHANGED <<flow, world>>
  BY DEF GoStale
<1> HIDE DEF w
<1>4. RowOK(w) /\ Free(u, w.google)
  BY <1>1, <1>2 DEF RowOK, Free, LinkInv, Distinct, GoStale
<1>5. flow' \in [Requests -> Flow] /\ \A x \in Requests : FlowOK(flow'[x])
  BY <1>3 DEF LinkInv, LinkTypeOK
<1> QED
  BY <1>2, <1>3, <1>4, <1>5, RowStep

LEMMA ReleaseOK ==
    ASSUME LinkInv, NEW r \in Requests, Release(r), UNCHANGED <<account, world>> PROVE LinkInv'
  BY NoFlowOK, FlowStep DEF Release, Goto

-----------------------------------------------------------------------------
(* Rows and requests.                                                      *)

(* What a request in flight knows: a Meet link goes with an event by the   *)
(* time the row is written.                                                *)
ReqOK(q) ==
    /\ q.pc # "idle" => q.user \in Users /\ (q.kind # "create" => q.id \in Ids)
    /\ q.kind = "delete" /\ q.pc \in {"token", "call"} => q.event \in Events
    /\ q.pc = "write" /\ q.kind # "delete" /\ q.meet => q.event # None

Inv ==
    /\ LinkInv
    /\ TypeOK
    /\ MeetHasEvent
    /\ \A r \in Requests : ReqOK(req[r])

LEMMA NoRequestOK == NoRequest \in Request /\ ReqOK(NoRequest) /\ NoRequest.pc = "idle"
  BY DEF NoRequest, NewRequest, Request, ReqOK

LEMMA InitInv == Init => Inv
<1> SUFFICES ASSUME Init PROVE Inv
  OBVIOUS
<1>1. LinkInv
  BY InitLink DEF Init
<1>2. [state |-> "unused", google |-> None] \in Event
  BY DEF Event, MaybeGoogle
<1>3. /\ NewMeeting("unused", None, None, FALSE) \in Meeting
      /\ NewMeeting("unused", None, None, FALSE).meet = FALSE
  BY DEF NewMeeting, Meeting
<1>4. TypeOK
  BY <1>1, <1>2, <1>3, NoRequestOK DEF Init, LinkInv, TypeOK
<1>5. MeetHasEvent
  BY <1>3 DEF Init, MeetHasEvent
<1> QED
  BY <1>1, <1>4, <1>5, NoRequestOK DEF Init, Inv

(* A request begins, goes on or ends, without a write to a row.            *)
LEMMA ReqStep ==
    ASSUME Inv, NEW r \in Requests, NEW q \in Request, ReqOK(q), Begin(r, q),
           UNCHANGED meeting, event' \in [Events -> Event], left' \subseteq Events, LinkInv'
    PROVE  Inv'
<1>1. TypeOK'
  BY DEF Inv, LinkInv, TypeOK, Begin
<1>2. MeetHasEvent'
  BY DEF Inv, MeetHasEvent
<1>3. \A x \in Requests : ReqOK(req'[x])
  BY DEF Inv, TypeOK, Begin
<1> QED
  BY <1>1, <1>2, <1>3 DEF Inv

(* A request writes a row and ends.                                        *)
LEMMA WriteStep ==
    ASSUME Inv, NEW r \in Requests, End(r), UNCHANGED <<event, left, linkVars>>,
           NEW m \in Ids, NEW w \in Meeting, meeting' = [meeting EXCEPT ![m] = w],
           w.meet => w.event # None
    PROVE  Inv'
<1>1. LinkInv'
  BY SameLink DEF Inv
<1>2. TypeOK'
  BY <1>1, NoRequestOK DEF Inv, LinkInv, TypeOK, End
<1>3. MeetHasEvent'
  BY DEF Inv, TypeOK, MeetHasEvent
<1>4. \A x \in Requests : ReqOK(req'[x])
  BY NoRequestOK DEF Inv, TypeOK, End
<1> QED
  BY <1>1, <1>2, <1>3, <1>4 DEF Inv

(* The next stage of a request.                                            *)
LEMMA StageOK ==
    ASSUME Inv, NEW r \in Requests, req[r].pc \in {"token", "call"},
           NEW pc \in {"call", "write"}, Step(r, pc),
           pc = "write" => req[r].kind = "delete" \/ req[r].event # None
    PROVE  \E q \in Request :
               /\ ReqOK(q) /\ Begin(r, q) /\ q.pc = pc /\ q.kind = req[r].kind
               /\ q.id = req[r].id /\ q.event = req[r].event
<1> DEFINE q == NewRequest(pc, req[r].kind, req[r].user, req[r].id, req[r].event, req[r].meet)
<1>1. req[r] \in Request /\ ReqOK(req[r])
  BY DEF Inv, TypeOK
<1>2. /\ q \in Request /\ q.pc = pc /\ q.kind = req[r].kind /\ q.user = req[r].user
      /\ q.id = req[r].id /\ q.event = req[r].event /\ q.meet = req[r].meet
  BY <1>1 DEF NewRequest, Request
<1>3. Begin(r, q)
  BY DEF Step
<1> HIDE DEF q
<1>4. ReqOK(q)
  BY <1>1, <1>2 DEF ReqOK
<1> QED
  BY <1>2, <1>3, <1>4

LEMMA LeaveType ==
    ASSUME Inv, NEW r \in Requests, req[r].kind = "delete", req[r].pc \in {"token", "call"},
           Leave({req[r].event})
    PROVE  left' \subseteq Events
  BY DEF Inv, ReqOK, TypeOK, Leave

(* What a request has read when it begins: its row, and that there is an   *)
(* event to ask Google for.                                                *)
Fresh(q) ==
    /\ q.pc \in {"token", "write"}
    /\ q.pc = "write" => q.event = None
    /\ q.kind = "create" => UnusedId /\ q.event = None
    /\ q.kind # "create" => Live(q.id) /\ q.event = meeting[q.id].event

LEMMA StartFacts ==
    ASSUME Inv, NEW r \in Requests,
           StartCreate(r) \/ StartUpdate(r) \/ StartLink(r) \/ StartDelete(r)
    PROVE  \E q \in Request : ReqOK(q) /\ Begin(r, q) /\ Fresh(q)
<1>1. CASE StartCreate(r)
  <2>1. PICK u \in Users, pc \in {"token", "write"}, meet \in BOOLEAN :
            /\ meet => pc = "token"
            /\ Begin(r, NewRequest(pc, "create", u, None, None, meet))
    BY <1>1 DEF StartCreate
  <2> DEFINE q == NewRequest(pc, "create", u, None, None, meet)
  <2>2. /\ q \in Request /\ q.pc = pc /\ q.kind = "create" /\ q.user = u
        /\ q.event = None /\ q.meet = meet
    BY DEF NewRequest, Request
  <2>3. Begin(r, q)
    BY <2>1
  <2> HIDE DEF q
  <2>4. ReqOK(q)
    BY <2>1, <2>2 DEF ReqOK
  <2>5. Fresh(q)
    BY <1>1, <2>2 DEF Fresh, StartCreate
  <2> QED
    BY <2>2, <2>3, <2>4, <2>5
<1>2. CASE StartUpdate(r)
  <2>1. PICK u \in Users, m \in Ids, wanted \in BOOLEAN, meet \in BOOLEAN :
            /\ Live(m)
            /\ meet => wanted
            /\ Begin(r, NewRequest(NextAfterRead(meeting[m].event, wanted), "update", u, m,
                                   meeting[m].event, MeetAfter(meeting[m], wanted, meet)))
    BY <1>2 DEF StartUpdate
  <2> DEFINE pc == NextAfterRead(meeting[m].event, wanted)
  <2> DEFINE link == MeetAfter(meeting[m], wanted, meet)
  <2> DEFINE q == NewRequest(pc, "update", u, m, meeting[m].event, link)
  <2>2. /\ pc \in {"token", "write"} /\ link \in BOOLEAN
        /\ pc = "write" => meeting[m].event = None /\ ~link
    BY <2>1 DEF Inv, MeetHasEvent, TypeOK, Meeting, NextAfterRead, MeetAfter
  <2>3. Begin(r, q)
    BY <2>1
  <2> HIDE DEF pc, link
  <2>4. /\ q \in Request /\ q.pc = pc /\ q.kind = "update" /\ q.user = u /\ q.id = m
        /\ q.event = meeting[m].event /\ q.meet = link
    BY <2>2 DEF Inv, TypeOK, Meeting, NewRequest, Request
  <2> HIDE DEF q
  <2>5. ReqOK(q) /\ Fresh(q)
    BY <2>1, <2>2, <2>4 DEF ReqOK, Fresh
  <2> QED
    BY <2>3, <2>4, <2>5
<1>3. CASE StartLink(r)
  <2>1. PICK u \in Users, m \in Ids :
            /\ Live(m)
            /\ Begin(r, NewRequest("token", "link", u, m, meeting[m].event, TRUE))
    BY <1>3 DEF StartLink
  <2> DEFINE q == NewRequest("token", "link", u, m, meeting[m].event, TRUE)
  <2>2. /\ q \in Request /\ q.pc = "token" /\ q.kind = "link" /\ q.user = u /\ q.id = m
        /\ q.event = meeting[m].event
    BY DEF Inv, TypeOK, Meeting, NewRequest, Request
  <2>3. Begin(r, q)
    BY <2>1
  <2> HIDE DEF q
  <2>4. ReqOK(q) /\ Fresh(q)
    BY <2>1, <2>2 DEF ReqOK, Fresh
  <2> QED
    BY <2>2, <2>3, <2>4
<1>4. CASE StartDelete(r)
  <2>1. PICK u \in Users, m \in Ids, pc \in {"token", "write"} :
            /\ Live(m)
            /\ pc = IF meeting[m].event = None THEN "write" ELSE "token"
            /\ Begin(r, NewRequest(pc, "delete", u, m, meeting[m].event, FALSE))
    BY <1>4 DEF StartDelete, Deletion
  <2> DEFINE q == NewRequest(pc, "delete", u, m, meeting[m].event, FALSE)
  <2>2. /\ q \in Request /\ q.pc = pc /\ q.kind = "delete" /\ q.user = u /\ q.id = m
        /\ q.event = meeting[m].event
    BY DEF Inv, TypeOK, Meeting, NewRequest, Request
  <2>3. Begin(r, q)
    BY <2>1
  <2> HIDE DEF q
  <2>4. ReqOK(q) /\ Fresh(q)
    BY <2>1, <2>2 DEF ReqOK, Fresh, Inv, TypeOK, Meeting
  <2> QED
    BY <2>2, <2>3, <2>4
<1> QED
  BY <1>1, <1>2, <1>3, <1>4

LEMMA StartOK ==
    ASSUME Inv, NEW r \in Requests,
           StartCreate(r) \/ StartUpdate(r) \/ StartLink(r) \/ StartDelete(r)
    PROVE  Inv'
<1>1. PICK q \in Request : ReqOK(q) /\ Begin(r, q)
  BY StartFacts
<1>2. UNCHANGED <<linkVars, meeting, event, left>>
  BY DEF StartCreate, StartUpdate, StartLink, StartDelete, Deletion
<1>3. LinkInv'
  BY <1>2, SameLink DEF Inv
<1> QED
  BY <1>1, <1>2, <1>3, ReqStep DEF Inv, TypeOK

LEMMA EndOK ==
    ASSUME Inv, NEW r \in Requests, End(r), UNCHANGED meeting, left' \subseteq Events,
           event' \in [Events -> Event], LinkInv'
    PROVE  Inv'
  BY NoRequestOK, ReqStep DEF End, Begin, Inv, TypeOK

LEMMA AbortOK ==
    ASSUME Inv, NEW r \in Requests, req[r].pc \in {"token", "call"}, Abort(r),
           UNCHANGED <<meeting, event>>, LinkInv'
    PROVE  Inv'
<1>1. event' \in [Events -> Event]
  BY DEF Inv, TypeOK
<1>2. CASE req[r].kind = "delete"
  <2>1. Step(r, "write") /\ Leave({req[r].event})
    BY <1>2 DEF Abort
  <2>2. left' \subseteq Events
    BY <1>2, <2>1, LeaveType
  <2> QED
    BY <1>1, <1>2, <2>1, <2>2, StageOK, ReqStep
<1>3. CASE req[r].kind # "delete"
  BY <1>1, <1>3, EndOK DEF Abort, Inv, TypeOK
<1> QED
  BY <1>2, <1>3

LEMMA AskTokenOK == ASSUME Inv, NEW r \in Requests, AskToken(r) PROVE Inv'
<1>1. LinkInv'
  BY TokenOK DEF AskToken, Inv, ReqOK
<1> QED
  BY <1>1, StageOK, ReqStep DEF AskToken, Inv, TypeOK

LEMMA CreateEventOK == ASSUME Inv, NEW r \in Requests, CreateEvent(r) PROVE Inv'
<1>1. PICK e \in Events :
          /\ event' = [event EXCEPT ![e] = [state |-> "live", google |-> flow[r].access]]
          /\ \/ Begin(r, NewRequest("write", req[r].kind, req[r].user, req[r].id, e, req[r].meet))
             \/ End(r)
  BY DEF CreateEvent
<1>2. LinkInv' /\ UNCHANGED <<meeting, left>>
  BY ReleaseOK DEF CreateEvent, Inv
<1>3. [state |-> "live", google |-> flow[r].access] \in Event
  BY DEF Inv, LinkInv, LinkTypeOK, Flow, Event, MaybeGoogle
<1>4. event' \in [Events -> Event]
  BY <1>1, <1>3 DEF Inv, TypeOK
<1>5. CASE End(r)
  BY <1>2, <1>4, <1>5, EndOK DEF Inv, TypeOK
<1>6. CASE ~End(r)
  <2> DEFINE q == NewRequest("write", req[r].kind, req[r].user, req[r].id, e, req[r].meet)
  <2>1. req[r] \in Request /\ ReqOK(req[r]) /\ req[r].pc = "call"
    BY DEF Inv, TypeOK, CreateEvent
  <2>2. /\ q \in Request /\ q.pc = "write" /\ q.kind = req[r].kind /\ q.user = req[r].user
        /\ q.id = req[r].id /\ q.event = e
    BY <2>1 DEF NewRequest, Request
  <2>3. Begin(r, q)
    BY <1>1, <1>6
  <2> HIDE DEF q
  <2>4. ReqOK(q)
    BY <2>1, <2>2, MeetingNone DEF ReqOK
  <2> QED
    BY <1>2, <1>4, <2>2, <2>3, <2>4, ReqStep DEF Inv, TypeOK
<1> QED
  BY <1>5, <1>6

LEMMA UpdateEventOK == ASSUME Inv, NEW r \in Requests, UpdateEvent(r) PROVE Inv'
<1>1. LinkInv' /\ UNCHANGED <<meeting, event, left>>
  BY ReleaseOK DEF UpdateEvent, Inv
<1>2. CASE Reaches(r)
  BY <1>1, <1>2, StageOK, ReqStep DEF UpdateEvent, Inv, TypeOK
<1>3. CASE ~Reaches(r)
  BY <1>1, <1>3, EndOK DEF UpdateEvent, Inv, TypeOK
<1> QED
  BY <1>2, <1>3

LEMMA DeleteEventOK == ASSUME Inv, NEW r \in Requests, DeleteEvent(r) PROVE Inv'
<1>1. LinkInv' /\ UNCHANGED meeting /\ req[r].pc = "call" /\ req[r].kind = "delete"
  BY ReleaseOK DEF DeleteEvent, Inv
<1>2. event' \in [Events -> Event] /\ left' \subseteq Events
  <2>1. CASE Reaches(r)
    <3> DEFINE w == [state |-> "gone", google |-> event[req[r].event].google]
    <3>1. req[r].event \in Events
      BY <1>1 DEF Inv, ReqOK
    <3>2. w \in Event
      BY <3>1 DEF Inv, TypeOK, Event
    <3>3. event' = [event EXCEPT ![req[r].event] = w] /\ left' = left
      BY <2>1 DEF DeleteEvent
    <3> HIDE DEF w
    <3> QED
      BY <3>2, <3>3 DEF Inv, TypeOK
  <2>2. CASE ~Reaches(r)
    BY <1>1, <2>2, LeaveType DEF DeleteEvent, Inv, TypeOK
  <2> QED
    BY <2>1, <2>2
<1>3. Step(r, "write")
  BY DEF DeleteEvent
<1> QED
  BY <1>1, <1>2, <1>3, StageOK, ReqStep

LEMMA WriteNewOK == ASSUME Inv, NEW r \in Requests, WriteNew(r) PROVE Inv'
<1>1. PICK m \in Ids, u \in {req[r].user, None} :
          meeting' = [meeting EXCEPT ![m] = NewMeeting("live", u, req[r].event, req[r].meet)]
  BY DEF WriteNew
<1> DEFINE w == NewMeeting("live", u, req[r].event, req[r].meet)
<1>2. req[r] \in Request /\ ReqOK(req[r]) /\ req[r].pc = "write" /\ req[r].kind = "create"
  BY DEF WriteNew, Inv, TypeOK
<1>3. w \in Meeting /\ w.event = req[r].event /\ w.meet = req[r].meet
  BY <1>2 DEF NewMeeting, Meeting, Request
<1> HIDE DEF w
<1>4. w.meet => w.event # None
  BY <1>2, <1>3 DEF ReqOK
<1> QED
  BY <1>1, <1>3, <1>4, WriteStep DEF WriteNew, w

LEMMA WriteRowOK == ASSUME Inv, NEW r \in Requests, WriteRow(r) PROVE Inv'
<1> DEFINE m == req[r].id
<1>1. /\ req[r] \in Request /\ ReqOK(req[r]) /\ req[r].pc = "write"
      /\ req[r].kind \in {"update", "link"} /\ m \in Ids
  BY DEF WriteRow, Inv, TypeOK, ReqOK
<1>2. CASE Live(m)
  <2> DEFINE w == Written(meeting[m], req[r])
  <2>1. w \in Meeting /\ w.event = req[r].event /\ w.meet = req[r].meet
    BY <1>1 DEF Written, NewMeeting, Request, Inv, TypeOK, Meeting
  <2>2. meeting' = [meeting EXCEPT ![m] = w]
    BY <1>2 DEF WriteRow
  <2> HIDE DEF w
  <2>3. w.meet => w.event # None
    BY <1>1, <2>1 DEF ReqOK
  <2> QED
    BY <1>1, <2>1, <2>2, <2>3, WriteStep DEF WriteRow
<1>3. CASE ~Live(m)
  <2>1. LinkInv'
    BY SameLink DEF WriteRow, Inv
  <2> QED
    BY <1>3, <2>1, EndOK DEF WriteRow, Inv, TypeOK
<1> QED
  BY <1>2, <1>3

LEMMA DeleteMeetingOK == ASSUME Inv, NEW r \in Requests, DeleteMeeting(r) PROVE Inv'
<1> DEFINE m == req[r].id
<1>1. m \in Ids
  BY DEF DeleteMeeting, Inv, ReqOK
<1> DEFINE w == NewMeeting("gone", meeting[m].creator, None, FALSE)
<1>2. w \in Meeting /\ ~w.meet
  BY <1>1 DEF NewMeeting, Inv, TypeOK, Meeting
<1>3. meeting' = [meeting EXCEPT ![m] = w]
  BY DEF DeleteMeeting
<1> HIDE DEF w
<1> QED
  BY <1>1, <1>2, <1>3, WriteStep DEF DeleteMeeting

LEMMA NamedType == Inv => Named \subseteq Events
  BY DEF Inv, TypeOK, Meeting, Named

LEMMA WriteFailsOK == ASSUME Inv, NEW r \in Requests, WriteFails(r) PROVE Inv'
<1>1. LinkInv'
  BY SameLink DEF WriteFails, Inv
<1>2. left' \subseteq Events
  BY DEF WriteFails, Leave, Inv, TypeOK, Request
<1>3. End(r) /\ UNCHANGED <<meeting, event>>
  BY DEF WriteFails
<1> QED
  BY <1>1, <1>2, <1>3, EndOK DEF Inv, TypeOK

LEMMA DeleteOrganizationOK == ASSUME Inv, DeleteOrganization PROVE Inv'
<1> DEFINE w == NewMeeting("gone", None, None, FALSE)
<1>1. w \in Meeting /\ w.meet = FALSE
  BY DEF NewMeeting, Meeting
<1>2. meeting' = [m \in Ids |-> w] /\ UNCHANGED <<linkVars, event, req>>
  BY DEF DeleteOrganization
<1> HIDE DEF w
<1>3. LinkInv'
  BY <1>2, SameLink DEF Inv
<1>4. left' \subseteq Events
  BY NamedType DEF DeleteOrganization, Leave, Inv, TypeOK
<1>5. TypeOK' /\ MeetHasEvent'
  BY <1>1, <1>2, <1>3, <1>4 DEF Inv, LinkInv, TypeOK, MeetHasEvent
<1> QED
  BY <1>2, <1>3, <1>5 DEF Inv

LEMMA LinksOK == ASSUME Inv, NEW r \in Requests, Links(r) PROVE Inv'
<1>1. LinkInv'
  BY LinkStepOK, StartConnectOK, StartDisconnectOK DEF Links, Inv
<1> QED
  BY <1>1 DEF Links, Inv, LinkInv, TypeOK, MeetHasEvent

LEMMA NextInv == Inv /\ [Next]_vars => Inv'
<1> SUFFICES ASSUME Inv, [Next]_vars PROVE Inv'
  OBVIOUS
<1>1. CASE UNCHANGED vars
  <2>1. LinkInv'
    BY <1>1, SameLink DEF vars, Inv
  <2> QED
    BY <1>1, <2>1 DEF vars, Inv, LinkInv, TypeOK, MeetHasEvent
<1>2. ASSUME NEW r \in Requests, NoToken(r) \/ TokenLost(r) PROVE Inv'
  BY <1>2, SameLink, AbortOK DEF NoToken, TokenLost, Inv
<1>3. ASSUME NEW r \in Requests, CallFails(r) PROVE Inv'
  BY <1>3, ReleaseOK, AbortOK DEF CallFails, Inv
<1>4. ASSUME NEW r \in Requests, Abandon(r) PROVE Inv'
  BY <1>4, ReleaseOK, EndOK DEF Abandon, Inv, TypeOK
<1>5. ASSUME NEW u \in Users, GoStale(u), UNCHANGED <<meeting, event, req, left>> PROVE Inv'
  BY <1>5, GoStaleOK DEF Inv, LinkInv, TypeOK, MeetHasEvent
<1> QED
  BY <1>1, <1>2, <1>3, <1>4, <1>5, LinksOK, StartOK, AskTokenOK, CreateEventOK,
     UpdateEventOK, DeleteEventOK, WriteNewOK, WriteRowOK, DeleteMeetingOK,
     WriteFailsOK, DeleteOrganizationOK
  DEF Next

LEMMA Invariance == Spec => []Inv
  BY InitInv, NextInv, PTL DEF Spec

(* Links, rows, events and requests keep their types.                      *)
THEOREM TypeCorrect == Spec => []TypeOK
<1>1. Inv => TypeOK
  BY DEF Inv
<1> QED
  BY <1>1, Invariance, PTL

(* google.service.ts:137: no Google account is linked to two users, and    *)
(* overlapping connections and refreshes never mix two accounts, for any   *)
(* number of either.                                                       *)
THEOREM LinksNeverMix == Spec => []AccountsApart
<1>1. Inv => AccountsApart
  BY DEF Inv, LinkInv, Distinct, RowOK, FlowOK, AccountsApart
<1> QED
  BY <1>1, Invariance, PTL

(* A meeting never shows a Meet link without an event, whatever overlaps.  *)
THEOREM MeetLinkHasEvent == Spec => []MeetHasEvent
<1>1. Inv => MeetHasEvent
  BY DEF Inv
<1> QED
  BY <1>1, Invariance, PTL

-----------------------------------------------------------------------------
(* Quiet: requests that come one at a time.                                *)

Engaged(r) == req[r].pc # "idle" \/ ~Idle(r)
OneEngaged == \A r, x \in Requests : Engaged(r) /\ Engaged(x) => r = x

(* A row that is not live names no event; no two rows name the same one,   *)
(* nor one that was never created.                                         *)
RowsOK ==
    /\ \A m \in Ids : ~Live(m) => meeting[m].event = None
    /\ \A m, n \in Ids :
           (meeting[m].event = meeting[n].event /\ meeting[m].event # None) => m = n
    /\ \A m \in Ids : meeting[m].event # None => event[meeting[m].event].state # "unused"

Writes(r) == req[r].pc = "write"
Deletes(r) == req[r].kind = "delete"

(* Every named event exists, but for that of a row about to be deleted.    *)
NamedAlive ==
    \A m \in Ids : meeting[m].event # None =>
        \/ event[meeting[m].event].state = "live"
        \/ \E r \in Requests : Writes(r) /\ Deletes(r) /\ req[r].id = m

(* Every event has a row, or is about to get one, or was left behind.      *)
AliveNamed ==
    \A e \in Events : event[e].state = "live" =>
        \/ e \in left
        \/ \E m \in Ids : meeting[m].event = e
        \/ \E r \in Requests : Writes(r) /\ ~Deletes(r) /\ req[r].event = e

(* What a request read of its row is still so; what it is about to write   *)
(* is an event of its own.                                                 *)
Agrees(q) == Live(q.id) /\ meeting[q.id].event = q.event
Knows(q) ==
    /\ q.pc # "idle" /\ q.kind = "create" => UnusedId
    /\ q.pc \in {"token", "call"} =>
           IF q.kind = "create" THEN q.event = None ELSE Agrees(q)
    /\ q.pc = "write" /\ q.kind = "delete" =>
           /\ Agrees(q)
           /\ q.event # None => event[q.event].state # "live" \/ q.event \in left
    /\ q.pc = "write" /\ q.kind \notin {"create", "delete"} =>
           Live(q.id) /\ meeting[q.id].event \in {None, q.event}
    /\ q.pc = "write" /\ q.kind # "delete" /\ q.event # None =>
           /\ event[q.event].state = "live"
           /\ \A m \in Ids : meeting[m].event = q.event => q.kind # "create" /\ m = q.id

InStep ==
    /\ OneEngaged
    /\ RowsOK
    /\ NamedAlive
    /\ AliveNamed
    /\ \A r \in Requests : Knows(req[r])

(* Only request r moves.                                                   *)
Alone(r) ==
    \A x \in Requests \ {r} : ~Engaged(x) /\ req'[x] = req[x] /\ flow'[x] = flow[x]

LEMMA AloneStep ==
    ASSUME InStep, NEW r \in Requests, Alone(r),
           RowsOK', NamedAlive', AliveNamed', Knows(req[r])'
    PROVE  InStep'
<1>1. OneEngaged'
  BY DEF OneEngaged, Alone, Engaged, Idle
<1>2. \A x \in Requests : Knows(req[x])'
  <2> SUFFICES ASSUME NEW x \in Requests \ {r} PROVE Knows(req[x])'
    OBVIOUS
  <2>1. req'[x].pc = "idle"
    BY DEF Alone, Engaged
  <2> QED
    BY <2>1 DEF Knows
<1> QED
  BY <1>1, <1>2 DEF InStep

(* Nothing but the link of a request moves.                                *)
LEMMA LinkOnly ==
    ASSUME InStep, NEW r \in Requests, Alone(r), UNCHANGED <<meeting, event, req, left>>
    PROVE  InStep'
<1>1. RowsOK' /\ NamedAlive' /\ AliveNamed'
  BY DEF InStep, RowsOK, NamedAlive, AliveNamed, Live, Writes, Deletes
<1>2. Knows(req[r])'
  BY DEF InStep, Knows, Agrees, Live, UnusedId
<1> QED
  BY <1>1, <1>2, AloneStep

(* A request that is not about to write a row goes on, or ends.            *)
LEMMA StageStep ==
    ASSUME InStep, NEW r \in Requests, Alone(r), ~Writes(r), UNCHANGED <<meeting, event>>,
           left \subseteq left', Knows(req[r])'
    PROVE  InStep'
<1>1. \A x \in Requests : ~Writes(x)
  BY DEF Alone, Engaged, Writes
<1>2. RowsOK'
  BY DEF InStep, RowsOK, Live
<1>3. NamedAlive'
  BY <1>1 DEF InStep, NamedAlive
<1>4. AliveNamed'
  BY <1>1 DEF InStep, AliveNamed
<1> QED
  BY <1>2, <1>3, <1>4, AloneStep

LEMMA OthersAlone ==
    ASSUME Inv, InStep, NEW r \in Requests, Engaged(r) \/ (Quiet /\ SlotFree(r)),
           NEW q, NEW f, req' = [req EXCEPT ![r] = q], flow' = [flow EXCEPT ![r] = f]
    PROVE  Alone(r) /\ req'[r] = q
BY DEF InStep, OneEngaged, Engaged, SlotFree, OneByOne, Resting, Alone, Inv, TypeOK, LinkTypeOK

LEMMA KnowsIdle == ASSUME NEW r \in Requests, req'[r] = NoRequest PROVE Knows(req[r])'
  BY NoRequestOK DEF Knows

LEMMA EndInStep ==
    ASSUME Inv, InStep, NEW r \in Requests, End(r), ~Writes(r), req[r].pc # "idle",
           flow' = flow \/ Release(r), UNCHANGED <<meeting, event, left>>
    PROVE  InStep'
<1>1. \E f : flow' = [flow EXCEPT ![r] = f]
  <2>1. flow = [flow EXCEPT ![r] = flow[r]]
    BY DEF Inv, TypeOK, LinkTypeOK
  <2> QED
    BY <2>1 DEF Release
<1>2. Alone(r) /\ req'[r] = NoRequest
  BY <1>1, OthersAlone DEF End, Engaged
<1> QED
  BY <1>2, KnowsIdle, StageStep

LEMMA StartInStep ==
    ASSUME Inv, InStep, Quiet, NEW r \in Requests,
           StartCreate(r) \/ StartUpdate(r) \/ StartLink(r) \/ StartDelete(r)
    PROVE  InStep'
<1>1. PICK q \in Request : ReqOK(q) /\ Begin(r, q) /\ Fresh(q)
  BY StartFacts
<1>2. SlotFree(r) /\ UNCHANGED <<linkVars, meeting, event, left>>
  BY DEF StartCreate, StartUpdate, StartLink, StartDelete, Deletion
<1>3. flow' = [flow EXCEPT ![r] = flow[r]]
  BY <1>2 DEF linkVars, Inv, TypeOK, LinkTypeOK
<1>4. Alone(r) /\ req'[r] = q
  BY <1>1, <1>2, <1>3, OthersAlone DEF Begin
<1>5. ~Writes(r)
  BY <1>2 DEF SlotFree, OneByOne, Resting, Writes
<1>6. Knows(req[r])'
  BY <1>1, <1>2, <1>4 DEF Fresh, Knows, Agrees, Live, UnusedId
<1> QED
  BY <1>2, <1>4, <1>5, <1>6, StageStep

(* A call to Google that changes no event.                                 *)
LEMMA StageInStep ==
    ASSUME Inv, InStep, NEW r \in Requests, req[r].pc \in {"token", "call"},
           NEW pc \in {"call", "write"}, Step(r, pc), NEW f, flow' = [flow EXCEPT ![r] = f],
           UNCHANGED <<meeting, event>>,
           pc = "call" \/ (Deletes(r) /\ req[r].event # None /\ Leave({req[r].event}) /\ Quiet)
               \/ (~Deletes(r) /\ Reaches(r)),
           pc = "write" => Deletes(r) \/ req[r].event # None,
           left' = left \/ Leave({req[r].event})
    PROVE  InStep'
<1>1. PICK q \in Request :
          /\ ReqOK(q) /\ Begin(r, q) /\ q.pc = pc /\ q.kind = req[r].kind
          /\ q.id = req[r].id /\ q.event = req[r].event
  BY StageOK DEF Deletes
<1>2. Alone(r) /\ req'[r] = q
  BY <1>1, OthersAlone DEF Begin, Engaged
<1>3. left \subseteq left' /\ ~Writes(r) /\ Knows(req[r])
  BY DEF Leave, Writes, InStep
<1>4. Knows(req[r])'
  <2>1. CASE pc = "call"
    BY <1>1, <1>2, <1>3, <2>1 DEF Knows, Agrees, Live, UnusedId
  <2>2. CASE pc = "write" /\ Deletes(r) /\ req[r].event # None /\ Leave({req[r].event}) /\ Quiet
    <3>1. req[r].event \in left'
      BY <2>2 DEF Leave
    <3> QED
      BY <1>1, <1>2, <1>3, <2>2, <3>1 DEF Knows, Agrees, Live, Deletes
  <2>3. CASE pc = "write" /\ ~Deletes(r) /\ req[r].event # None /\ Reaches(r)
    <3>1. Agrees(req[r]) /\ req[r].kind # "create" /\ req[r].id \in Ids
      BY <1>3, <2>3 DEF Knows, Deletes, Inv, ReqOK
    <3>2. \A m \in Ids : meeting[m].event = req[r].event => m = req[r].id
      BY <2>3, <3>1 DEF Agrees, InStep, RowsOK
    <3> QED
      BY <1>1, <1>2, <2>3, <3>1, <3>2 DEF Knows, Agrees, Live, Deletes, Reaches
  <2> QED
    BY <2>1, <2>2, <2>3
<1> QED
  BY <1>2, <1>3, <1>4, StageStep

LEMMA AbortInStep ==
    ASSUME Inv, InStep, Quiet, NEW r \in Requests, req[r].pc \in {"token", "call"}, Abort(r),
           UNCHANGED <<linkVars, meeting, event>>
    PROVE  InStep'
<1>1. flow' = [flow EXCEPT ![r] = flow[r]]
  BY DEF linkVars, Inv, TypeOK, LinkTypeOK
<1>2. CASE Deletes(r)
  <2>1. req[r].event # None
    BY <1>2, MeetingNone DEF Inv, ReqOK, Deletes
  <2> QED
    BY <1>1, <1>2, <2>1, StageInStep DEF Abort, Deletes
<1>3. CASE ~Deletes(r)
  BY <1>3, EndInStep DEF Abort, Deletes, Writes, linkVars
<1> QED
  BY <1>2, <1>3

LEMMA UpdateEventInStep ==
    ASSUME Inv, InStep, Quiet, NEW r \in Requests, UpdateEvent(r) PROVE InStep'
<1>1. CASE Reaches(r)
  BY <1>1, StageInStep DEF UpdateEvent, Release, Deletes
<1>2. CASE ~Reaches(r)
  BY <1>2, EndInStep DEF UpdateEvent, Writes
<1> QED
  BY <1>1, <1>2

(* The event of a deletion goes, or is left behind.                        *)
LEMMA DeleteEventInStep ==
    ASSUME Inv, InStep, Quiet, NEW r \in Requests, DeleteEvent(r) PROVE InStep'
<1> DEFINE e == req[r].event
<1>1. /\ req[r].pc = "call" /\ Deletes(r) /\ Step(r, "write") /\ UNCHANGED meeting
      /\ flow' = [flow EXCEPT ![r] = NoFlow]
  BY DEF DeleteEvent, Release, Deletes
<1>2. e \in Events /\ e # None
  BY <1>1, MeetingNone DEF Inv, ReqOK, Deletes
<1>3. CASE ~Reaches(r)
  BY <1>1, <1>2, <1>3, StageInStep DEF DeleteEvent
<1>4. CASE Reaches(r)
  <2> DEFINE w == [state |-> "gone", google |-> event[e].google]
  <2>1. event' = [event EXCEPT ![e] = w] /\ left' = left
    BY <1>4 DEF DeleteEvent
  <2>2. w.state = "gone"
    OBVIOUS
  <2> HIDE DEF w
  <2>3. event'[e] = w /\ \A x \in Events \ {e} : event'[x] = event[x]
    BY <1>2, <2>1 DEF Inv, TypeOK
  <2>4. PICK q \in Request :
            /\ Begin(r, q) /\ q.pc = "write" /\ q.kind = "delete"
            /\ q.id = req[r].id /\ q.event = e
    BY <1>1, StageOK DEF Deletes
  <2>5. Alone(r) /\ req'[r] = q
    BY <1>1, <2>4, OthersAlone DEF Begin, Engaged
  <2>6. Agrees(req[r]) /\ req[r].id \in Ids
    BY <1>1 DEF InStep, Knows, Deletes, Inv, ReqOK
  <2>7. \A x \in Requests : ~Writes(x)
    BY <1>1, <2>5 DEF Alone, Engaged, Writes
  <2>8. \A m \in Ids : meeting[m].event \in Events \cup {None}
    BY DEF Inv, TypeOK, Meeting
  <2>9. RowsOK'
    BY <1>1, <2>2, <2>3, <2>8 DEF InStep, RowsOK, Live
  <2>10. NamedAlive'
    <3> SUFFICES ASSUME NEW m \in Ids, meeting[m].event # None,
                        event'[meeting[m].event].state # "live"
                 PROVE  \E x \in Requests : (Writes(x) /\ Deletes(x) /\ req[x].id = m)'
      BY <1>1 DEF NamedAlive
    <3>1. event[meeting[m].event].state = "live"
      BY <2>7 DEF InStep, NamedAlive
    <3>2. meeting[m].event = e
      BY <2>3, <2>8, <3>1
    <3>3. m = req[r].id
      BY <1>2, <2>6, <3>2 DEF InStep, RowsOK, Agrees
    <3> QED
      BY <2>4, <2>5, <3>3 DEF Writes, Deletes
  <2>11. AliveNamed'
    BY <1>1, <2>1, <2>2, <2>3, <2>7 DEF InStep, AliveNamed
  <2>12. Knows(req[r])'
    BY <1>1, <2>2, <2>3, <2>4, <2>5, <2>6 DEF Knows, Agrees, Live
  <2> QED
    BY <2>5, <2>9, <2>10, <2>11, <2>12, AloneStep
<1> QED
  BY <1>3, <1>4

(* A new event waits for its row.                                          *)
LEMMA CreateEventInStep ==
    ASSUME Inv, InStep, Quiet, NEW r \in Requests, CreateEvent(r) PROVE InStep'
<1>1. PICK e \in Events :
          /\ event[e].state = "unused"
          /\ event' = [event EXCEPT ![e] = [state |-> "live", google |-> flow[r].access]]
          /\ Begin(r, NewRequest("write", req[r].kind, req[r].user, req[r].id, e, req[r].meet))
  BY DEF CreateEvent
<1>2. /\ req[r].pc = "call" /\ ~Deletes(r) /\ req[r].event = None /\ UNCHANGED <<meeting, left>>
      /\ flow' = [flow EXCEPT ![r] = NoFlow]
  BY DEF CreateEvent, Release, Deletes
<1>3. event'[e].state = "live" /\ \A x \in Events \ {e} : event'[x] = event[x]
  BY <1>1 DEF Inv, TypeOK
<1> DEFINE q == NewRequest("write", req[r].kind, req[r].user, req[r].id, e, req[r].meet)
<1>4. Begin(r, q) /\ q.pc = "write" /\ q.kind = req[r].kind /\ q.id = req[r].id /\ q.event = e
  BY <1>1 DEF NewRequest
<1> HIDE DEF q
<1>5. Alone(r) /\ req'[r] = q
  BY <1>2, <1>4, OthersAlone DEF Begin, Engaged
<1>6. \A x \in Requests : ~Writes(x)
  BY <1>2, <1>5 DEF Alone, Engaged, Writes
<1>7. \A m \in Ids : meeting[m].event \in Events \cup {None} /\ meeting[m].event # e
  BY <1>1, MeetingNone DEF Inv, TypeOK, Meeting, InStep, RowsOK
<1>8. RowsOK'
  BY <1>2, <1>3, <1>7 DEF InStep, RowsOK, Live
<1>9. NamedAlive'
  BY <1>2, <1>3, <1>6, <1>7 DEF InStep, NamedAlive
<1>10. AliveNamed'
  <2> SUFFICES ASSUME NEW x \in Events, event'[x].state = "live", x \notin left,
                      \A m \in Ids : meeting[m].event # x
               PROVE  \E y \in Requests : (Writes(y) /\ ~Deletes(y))' /\ req'[y].event = x
    BY <1>2 DEF AliveNamed
  <2>1. x = e
    BY <1>3, <1>6 DEF InStep, AliveNamed
  <2> QED
    BY <1>2, <1>4, <1>5, <2>1 DEF Writes, Deletes
<1>11. Knows(req[r])'
  <2>1. Knows(req[r])
    BY DEF InStep
  <2> QED
    BY <1>2, <1>3, <1>4, <1>5, <1>7, <2>1 DEF Knows, Agrees, Live, UnusedId, Deletes
<1> QED
  BY <1>5, <1>8, <1>9, <1>10, <1>11, AloneStep

(* What request r may write to row m: an event of its own, and not in the  *)
(* place of one that exists and was not left behind.                       *)
Replaces(r, m, w) ==
    /\ w.state # "live" => w.event = None
    /\ w.event # None => /\ event[w.event].state = "live"
                         /\ \A n \in Ids \ {m} : meeting[n].event # w.event
    /\ Deletes(r) => m = req[r].id
    /\ \A e \in Events :
           /\ event[e].state = "live" /\ e \notin left
           /\ e = meeting[m].event \/ (~Deletes(r) /\ e = req[r].event)
           => w.event = e

LEMMA RowInStep ==
    ASSUME Inv, InStep, NEW r \in Requests, Writes(r), End(r), UNCHANGED <<event, left, flow>>,
           NEW m \in Ids, NEW w, meeting' = [meeting EXCEPT ![m] = w],
           Replaces(r, m, w)
    PROVE  InStep'
<1>1. flow' = [flow EXCEPT ![r] = flow[r]]
  BY DEF Inv, TypeOK, LinkTypeOK
<1>2. Alone(r) /\ req'[r] = NoRequest
  BY <1>1, OthersAlone DEF End, Engaged, Writes
<1>3. meeting'[m] = w /\ \A n \in Ids \ {m} : meeting'[n] = meeting[n]
  BY DEF Inv, TypeOK
<1>4. \A x \in Requests \ {r} : ~Writes(x)
  BY <1>2 DEF Alone, Engaged, Writes
<1>5. RowsOK'
  BY <1>3 DEF Replaces, InStep, RowsOK, Live
<1>6. NamedAlive'
  <2> SUFFICES ASSUME NEW n \in Ids \ {m}, meeting[n].event # None
               PROVE  event[meeting[n].event].state = "live"
    BY <1>3 DEF Replaces, NamedAlive
  <2> QED
    BY <1>4 DEF Replaces, InStep, NamedAlive
<1>7. AliveNamed'
  <2> SUFFICES ASSUME NEW e \in Events, event[e].state = "live", e \notin left
               PROVE  \E n \in Ids : meeting'[n].event = e
    BY DEF AliveNamed
  <2>1. \/ \E n \in Ids : meeting[n].event = e
        \/ ~Deletes(r) /\ req[r].event = e
    BY <1>4 DEF InStep, AliveNamed
  <2> QED
    BY <1>3, <2>1 DEF Replaces
<1> QED
  BY <1>2, <1>5, <1>6, <1>7, KnowsIdle, AloneStep

LEMMA WriteNewInStep ==
    ASSUME Inv, InStep, NEW r \in Requests, WriteNew(r) PROVE InStep'
<1>1. PICK m \in Ids, u \in {req[r].user, None} :
          /\ meeting[m].state = "unused"
          /\ meeting' = [meeting EXCEPT ![m] = NewMeeting("live", u, req[r].event, req[r].meet)]
  BY DEF WriteNew
<1> DEFINE w == NewMeeting("live", u, req[r].event, req[r].meet)
<1>2. w.state = "live" /\ w.event = req[r].event
  BY DEF NewMeeting
<1>3. meeting' = [meeting EXCEPT ![m] = w]
  BY <1>1
<1> HIDE DEF w
<1>4. /\ Writes(r) /\ End(r) /\ UNCHANGED <<event, left, flow>> /\ ~Deletes(r)
      /\ req[r].kind = "create" /\ Knows(req[r])
  BY DEF WriteNew, Writes, Deletes, linkVars, InStep
<1>5. meeting[m].event = None
  BY <1>1 DEF InStep, RowsOK, Live
<1>6. w.event # None => /\ event[w.event].state = "live"
                        /\ \A n \in Ids \ {m} : meeting[n].event # w.event
  BY <1>2, <1>4 DEF Knows, Writes
<1>7. Replaces(r, m, w)
  BY <1>2, <1>4, <1>5, <1>6, MeetingNone DEF Replaces
<1> QED
  BY <1>3, <1>4, <1>7, RowInStep

LEMMA WriteRowInStep ==
    ASSUME Inv, InStep, NEW r \in Requests, WriteRow(r) PROVE InStep'
<1>1. /\ Writes(r) /\ End(r) /\ UNCHANGED <<event, left, flow>> /\ ~Deletes(r)
      /\ req[r].kind \notin {"create", "delete"} /\ Knows(req[r])
  BY DEF WriteRow, Writes, Deletes, linkVars, InStep
<1>2. PICK m \in Ids : m = req[r].id
  BY <1>1 DEF Writes, Inv, ReqOK
<1> DEFINE w == Written(meeting[m], req[r])
<1>3. w.state = "live" /\ w.event = req[r].event
  BY DEF Written, NewMeeting
<1>4. Live(m) /\ meeting[m].event \in {None, req[r].event}
  BY <1>1, <1>2 DEF Knows, Writes
<1>5. meeting' = [meeting EXCEPT ![m] = w]
  BY <1>2, <1>4 DEF WriteRow
<1> HIDE DEF w
<1>6. w.event # None => /\ event[w.event].state = "live"
                        /\ \A n \in Ids \ {m} : meeting[n].event # w.event
  BY <1>1, <1>2, <1>3 DEF Knows, Writes
<1>7. Replaces(r, m, w)
  BY <1>1, <1>3, <1>4, <1>6, MeetingNone DEF Replaces
<1> QED
  BY <1>1, <1>5, <1>7, RowInStep

LEMMA DeleteMeetingInStep ==
    ASSUME Inv, InStep, NEW r \in Requests, DeleteMeeting(r) PROVE InStep'
<1>1. /\ Writes(r) /\ End(r) /\ UNCHANGED <<event, left, flow>> /\ Deletes(r)
      /\ Knows(req[r])
  BY DEF DeleteMeeting, Writes, Deletes, linkVars, InStep
<1>2. PICK m \in Ids : m = req[r].id
  BY <1>1 DEF Writes, Deletes, Inv, ReqOK
<1> DEFINE w == NewMeeting("gone", meeting[m].creator, None, FALSE)
<1>3. w.state = "gone" /\ w.event = None
  BY DEF NewMeeting
<1>4. meeting' = [meeting EXCEPT ![m] = w]
  BY <1>2 DEF DeleteMeeting
<1> HIDE DEF w
<1>5. \A e \in Events : event[e].state = "live" /\ e \notin left => e # meeting[m].event
  BY <1>1, <1>2, MeetingNone DEF Knows, Agrees, Writes, Deletes
<1>6. Replaces(r, m, w)
  BY <1>1, <1>2, <1>3, <1>5 DEF Replaces
<1> QED
  BY <1>1, <1>4, <1>6, RowInStep

(* The row of a creation or an update is refused: its event is left, if no *)
(* row names it.                                                           *)
LEMMA WriteFailsInStep ==
    ASSUME Inv, InStep, Quiet, NEW r \in Requests, WriteFails(r) PROVE InStep'
<1>1. /\ Writes(r) /\ ~Deletes(r) /\ End(r) /\ UNCHANGED <<meeting, event, flow>>
      /\ left' = left \cup ({req[r].event} \ (Named \cup {None}))
  BY DEF WriteFails, Writes, Deletes, Leave, linkVars
<1>2. flow' = [flow EXCEPT ![r] = flow[r]]
  BY <1>1 DEF Inv, TypeOK, LinkTypeOK
<1>3. Alone(r) /\ req'[r] = NoRequest
  BY <1>1, <1>2, OthersAlone DEF End, Engaged, Writes
<1>4. \A x \in Requests \ {r} : ~Writes(x)
  BY <1>3 DEF Alone, Engaged, Writes
<1>5. RowsOK'
  BY <1>1 DEF InStep, RowsOK, Live
<1>6. NamedAlive'
  BY <1>1, <1>4 DEF InStep, NamedAlive
<1>7. AliveNamed'
  <2> SUFFICES ASSUME NEW e \in Events, event[e].state = "live", e \notin left',
                      \A m \in Ids : meeting[m].event # e
               PROVE  FALSE
    BY <1>1 DEF AliveNamed
  <2>1. req[r].event = e
    BY <1>1, <1>4 DEF InStep, AliveNamed
  <2>2. e \notin Named \cup {None}
    BY MeetingNone DEF Named
  <2> QED
    BY <1>1, <2>1, <2>2
<1> QED
  BY <1>3, <1>5, <1>6, <1>7, KnowsIdle, AloneStep

(* Every row goes; every event that had one is left.                       *)
LEMMA DeleteOrganizationInStep ==
    ASSUME Inv, InStep, Quiet, DeleteOrganization PROVE InStep'
<1>1. \A r \in Requests : ~Engaged(r) /\ ~Writes(r) /\ req[r].pc = "idle"
  BY DEF DeleteOrganization, OneByOne, Resting, Engaged, Writes
<1>2. UNCHANGED <<linkVars, event, req>> /\ left' = left \cup Named
  BY DEF DeleteOrganization, Leave
<1>3. \A m \in Ids : meeting'[m].state = "gone" /\ meeting'[m].event = None
  BY DEF DeleteOrganization, NewMeeting
<1>4. OneEngaged' /\ \A r \in Requests : Knows(req[r])'
  BY <1>1, <1>2 DEF OneEngaged, Engaged, Idle, Knows, linkVars
<1>5. RowsOK' /\ NamedAlive'
  BY <1>3 DEF RowsOK, NamedAlive, Live
<1>6. AliveNamed'
  <2> SUFFICES ASSUME NEW e \in Events, event[e].state = "live" PROVE e \in left'
    BY <1>2 DEF AliveNamed
  <2>1. e \in left \/ \E m \in Ids : meeting[m].event = e
    BY <1>1 DEF InStep, AliveNamed
  <2> QED
    BY <1>2, <2>1, MeetingNone DEF Named
<1> QED
  BY <1>4, <1>5, <1>6 DEF InStep

LEMMA LinksInStep ==
    ASSUME Inv, InStep, Quiet, NEW r \in Requests, Links(r) PROVE InStep'
<1>1. PICK f : flow' = [flow EXCEPT ![r] = f]
  BY DEF Links, LinkStep, Throws, Lookup, UpsertRead, UpsertWrite, FindRow, DeleteRow,
         StartConnect, StartDisconnect, Ahead, Goto
<1>2. Engaged(r) \/ (Quiet /\ SlotFree(r))
  BY DEF Links, LinkStep, Throws, Lookup, UpsertRead, UpsertWrite, FindRow, DeleteRow, At,
         Engaged, Idle
<1>3. UNCHANGED <<meeting, event, req, left>>
  BY DEF Links
<1>4. req' = [req EXCEPT ![r] = req[r]]
  BY <1>3 DEF Inv, TypeOK
<1>5. Alone(r)
  BY <1>1, <1>2, <1>4, OthersAlone
<1> QED
  BY <1>3, <1>5, LinkOnly

LEMMA AskTokenInStep ==
    ASSUME Inv, InStep, NEW r \in Requests, AskToken(r) PROVE InStep'
  BY StageInStep DEF AskToken, Goto

LEMMA AbandonInStep ==
    ASSUME Inv, InStep, NEW r \in Requests, Abandon(r) PROVE InStep'
<1>1. req[r].pc = "call"
  BY DEF Abandon, InStep, Knows
<1> QED
  BY <1>1, EndInStep DEF Abandon, Writes

LEMMA SameInStep ==
    ASSUME InStep, UNCHANGED <<flow, meeting, event, req, left>> PROVE InStep'
<1>1. OneEngaged' /\ RowsOK' /\ NamedAlive' /\ AliveNamed'
  BY DEF InStep, OneEngaged, Engaged, Idle, RowsOK, NamedAlive, AliveNamed, Live, Writes, Deletes
<1>2. \A r \in Requests : Knows(req[r])'
  BY DEF InStep, Knows, Agrees, Live, UnusedId
<1> QED
  BY <1>1, <1>2 DEF InStep

LEMMA InitInStep == Init => InStep
<1> SUFFICES ASSUME Init PROVE InStep
  OBVIOUS
<1>1. \A r \in Requests : req[r].pc = "idle" /\ flow[r].pc = "idle"
  BY NoRequestOK, NoFlowOK DEF Init, LinkInit
<1>2. \A m \in Ids : meeting[m].state = "unused" /\ meeting[m].event = None
  BY DEF Init, NewMeeting
<1>3. \A e \in Events : event[e].state = "unused"
  BY DEF Init
<1> QED
  BY <1>1, <1>2, <1>3
  DEF InStep, OneEngaged, Engaged, Idle, RowsOK, NamedAlive, AliveNamed, Knows, Live

LEMMA NextInStep == Inv /\ (Quiet => InStep) /\ [Next]_vars => (Quiet => InStep)'
<1> SUFFICES ASSUME Inv, InStep, Quiet, [Next]_vars PROVE InStep'
  <2>1. [Next]_vars => world' = world
    BY DEF vars, linkVars, Next, Links, LinkStep, Throws, Lookup, UpsertRead, UpsertWrite, FindRow,
           DeleteRow, StartConnect, StartDisconnect, GoStale, StartCreate, StartUpdate,
           StartLink, StartDelete, Deletion, AskToken, NoToken, TokenLost, CreateEvent,
           UpdateEvent, DeleteEvent, CallFails, Abandon, WriteNew, WriteRow, DeleteMeeting,
           WriteFails, DeleteOrganization
  <2> QED
    BY <2>1 DEF Quiet
<1>1. CASE UNCHANGED vars
  BY <1>1, SameInStep DEF vars, linkVars
<1>2. ASSUME NEW r \in Requests, NoToken(r) \/ TokenLost(r) PROVE InStep'
  BY <1>2, AbortInStep DEF NoToken, TokenLost
<1>3. ASSUME NEW r \in Requests, CallFails(r) PROVE InStep'
  BY <1>3 DEF CallFails
<1>4. ASSUME NEW u \in Users, GoStale(u), UNCHANGED <<meeting, event, req, left>> PROVE InStep'
  BY <1>4, SameInStep DEF GoStale
<1> QED
  BY <1>1, <1>2, <1>3, <1>4, LinksInStep, StartInStep, AskTokenInStep, CreateEventInStep,
     UpdateEventInStep, DeleteEventInStep, AbandonInStep, WriteNewInStep, WriteRowInStep,
     DeleteMeetingInStep, WriteFailsInStep, DeleteOrganizationInStep
  DEF Next

(* Requests that come one at a time keep rows and calendars in step, for   *)
(* any number of meetings: the event a row names exists, and an event      *)
(* without a row is one whose deletion had no access to the calendar,      *)
(* whose row named a task that does not exist, or whose organization was   *)
(* deleted.                                                                *)
THEOREM QuietStaysInStep == Spec => []QuietInStep
<1>1. Inv /\ (Quiet => InStep) => QuietInStep
  <2> SUFFICES ASSUME Inv, InStep, \A r \in Requests : req[r].pc = "idle"
               PROVE  LET alive == {e \in Events : event[e].state = "live"}
                      IN  Named \subseteq alive /\ alive \subseteq Named \cup left
    BY DEF QuietInStep
  <2> QED
    BY MeetingNone DEF Named, Inv, TypeOK, Meeting, InStep, NamedAlive, AliveNamed, Writes
<1>2. Spec => [](Quiet => InStep)
  <2>1. Init => (Quiet => InStep)
    BY InitInStep
  <2> QED
    BY <2>1, NextInStep, Invariance, PTL DEF Spec
<1> QED
  BY <1>1, <1>2, Invariance, PTL
=============================================================================

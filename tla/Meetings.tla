------------------------------- MODULE Meetings -------------------------------
(***************************************************************************)
(* Meetings and their calendar events: src/modules/meetings/meeting.service*)
(* .ts keeps a row in PostgreSQL and an event in the Google calendar of    *)
(* whoever makes the request, through the provider of src/modules/calendar *)
(* and the access token of GoogleLink.                                     *)
(*                                                                         *)
(* A request reads the row, gets a token, calls Google and writes the row; *)
(* each of these is an await, nothing holds a lock and no step undoes one  *)
(* before it.  The meetings are those of one organization, which can be    *)
(* deleted.                                                                *)
(***************************************************************************)
EXTENDS GoogleLink

CONSTANTS
    Ids,      \* supply of meeting ids
    Events    \* supply of event ids

ASSUME MeetingNone == None \notin Ids /\ None \notin Events

VARIABLES
    meeting,  \* rows of meetings
    event,    \* events at Google, by id
    req,      \* what each request does with a meeting
    left      \* history: events that lost their row, or never got it (when quiet)

vars == <<linkVars, meeting, event, req, left>>

(* creator: remembered when it is quiet.                                   *)
Meeting == [state : {"unused", "live", "gone"}, creator : Users \cup {None},
            event : Events \cup {None}, meet : BOOLEAN]
NewMeeting(state, u, e, meet) == [state |-> state, creator |-> u, event |-> e, meet |-> meet]
Event == [state : {"unused", "live", "gone"}, google : Googles \cup {None}]

Request == [pc : {"idle", "token", "call", "write"},
            kind : {"none", "create", "update", "link", "delete"},
            user : Users \cup {None}, id : Ids \cup {None},
            event : Events \cup {None}, meet : BOOLEAN]
NewRequest(pc, kind, u, m, e, meet) ==
    [pc |-> pc, kind |-> kind, user |-> u, id |-> m, event |-> e, meet |-> meet]
NoRequest == NewRequest("idle", "none", None, None, None, FALSE)

Init ==
    /\ LinkInit
    /\ meeting = [m \in Ids |-> NewMeeting("unused", None, None, FALSE)]
    /\ event = [e \in Events |-> [state |-> "unused", google |-> None]]
    /\ req = [r \in Requests |-> NoRequest]
    /\ left = {}

-----------------------------------------------------------------------------
Live(m) == meeting[m].state = "live"

(* A slot is free; when it is quiet, all of them, and people touch only    *)
(* the meetings they created.                                              *)
Resting(r) == req[r].pc = "idle" /\ Idle(r)
OneByOne == Quiet => \A r \in Requests : Resting(r)
SlotFree(r) == Resting(r) /\ OneByOne
Allowed(u, m) == Quiet => meeting[m].creator = u

Begin(r, q) == req' = [req EXCEPT ![r] = q]
End(r) == req' = [req EXCEPT ![r] = NoRequest]
Release(r) == flow' = [flow EXCEPT ![r] = NoFlow]
Step(r, pc) ==
    Begin(r, NewRequest(pc, req[r].kind, req[r].user, req[r].id, req[r].event, req[r].meet))

UnusedId == \E m \in Ids : meeting[m].state = "unused"
UnusedEvent == \E e \in Events : event[e].state = "unused"

(* createMeeting, with or without an event.                                *)
StartCreate(r) ==
    /\ SlotFree(r)
    /\ UnusedId
    /\ \E u \in Users, pc \in {"token", "write"}, meet \in BOOLEAN :
           /\ meet => pc = "token"
           /\ Begin(r, NewRequest(pc, "create", u, None, None, meet))
    /\ UNCHANGED <<linkVars, meeting, event, left>>

(* Google is called to update the event the row had when it was read, or   *)
(* to create one that is wanted.                                           *)
NextAfterRead(e, wanted) == IF e # None \/ wanted THEN "token" ELSE "write"

(* An event that is created decides anew whether there is a Meet link; one *)
(* that is updated can only add it.                                        *)
MeetAfter(old, wanted, meet) ==
    IF old.event = None /\ wanted THEN meet ELSE old.meet \/ (old.event # None /\ meet)

(* updateMeeting, which may ask for an event, or for one with a Meet link. *)
StartUpdate(r) ==
    /\ SlotFree(r)
    /\ \E u \in Users, m \in Ids, wanted, meet \in BOOLEAN :
           /\ Live(m) /\ Allowed(u, m)
           /\ meet => wanted
           /\ Begin(r, NewRequest(NextAfterRead(meeting[m].event, wanted), "update", u, m,
                                  meeting[m].event, MeetAfter(meeting[m], wanted, meet)))
    /\ UNCHANGED <<linkVars, meeting, event, left>>

(* generateMeetLink                                                        *)
StartLink(r) ==
    /\ SlotFree(r)
    /\ \E u \in Users, m \in Ids :
           /\ Live(m) /\ Allowed(u, m)
           /\ Begin(r, NewRequest("token", "link", u, m, meeting[m].event, TRUE))
    /\ UNCHANGED <<linkVars, meeting, event, left>>

Deletion(r, pc(_)) ==
    /\ SlotFree(r)
    /\ \E u \in Users, m \in Ids :
           /\ Live(m) /\ Allowed(u, m)
           /\ Begin(r, NewRequest(pc(m), "delete", u, m, meeting[m].event, FALSE))
    /\ UNCHANGED <<linkVars, meeting, event, left>>

BugDeleteRowOnly(r) == Deletion(r, LAMBDA m : "write")

(* deleteMeeting; a meeting that is gone already answers deleted.          *)
StartDelete(r) ==
    Deletion(r, LAMBDA m : IF meeting[m].event = None THEN "write" ELSE "token")

-----------------------------------------------------------------------------
(* The provider asks for a token ...                                       *)
AskToken(r) ==
    /\ req[r].pc = "token"
    /\ Idle(r)
    /\ HasToken(req[r].user)
    /\ Goto(r, TokenOf(req[r].user))
    /\ Step(r, "call")
    /\ UNCHANGED <<account, world, meeting, event, left>>

Leave(events) == left' = IF Quiet THEN left \cup events ELSE left

(* A failure on the way to Google, or in its answer, ends the request;     *)
(* a deletion logs it and goes on to the row.                              *)
Abort(r) ==
    IF req[r].kind = "delete"
    THEN Step(r, "write") /\ Leave({req[r].event})
    ELSE End(r) /\ UNCHANGED left

(* ... there is no usable row (or the scope was not granted) ...           *)
NoToken(r) ==
    /\ req[r].pc = "token"
    /\ ~HasToken(req[r].user) \/ ~Quiet
    /\ Abort(r)
    /\ UNCHANGED <<linkVars, meeting, event>>

(* ... or getting one threw.                                               *)
TokenLost(r) ==
    /\ req[r].pc = "call"
    /\ Idle(r)
    /\ Abort(r)
    /\ UNCHANGED <<linkVars, meeting, event>>

Reaches(r) == event[req[r].event].state = "live"
              /\ event[req[r].event].google = flow[r].access

(* POST: an event in the calendar of the token's account.                  *)
CreateEvent(r) ==
    /\ req[r].pc = "call"
    /\ At(r, "ready")
    /\ req[r].kind # "delete"
    /\ req[r].event = None
    /\ \E e \in Events :
           /\ event[e].state = "unused"
           /\ event' = [event EXCEPT ![e] = [state |-> "live", google |-> flow[r].access]]
           /\ \/ Begin(r, NewRequest("write", req[r].kind, req[r].user, req[r].id, e,
                                     req[r].meet))
              \/ ~Quiet /\ End(r)
    /\ Release(r)
    /\ UNCHANGED <<account, world, meeting, left>>

(* The supply of ids or of events is used up, or the organization is gone: *)
(* the request is dropped.                                                 *)
Abandon(r) ==
    /\ \/ req[r].pc = "write" /\ req[r].kind = "create" /\ ~UnusedId
       \/ /\ req[r].pc = "call" /\ At(r, "ready")
          /\ req[r].kind # "delete" /\ req[r].event = None /\ ~UnusedEvent
    /\ End(r)
    /\ Release(r)
    /\ UNCHANGED <<account, world, meeting, event, left>>

(* PATCH: of an event that calendar has; 404 otherwise.                    *)
UpdateEvent(r) ==
    /\ req[r].pc = "call"
    /\ At(r, "ready")
    /\ req[r].kind # "delete"
    /\ req[r].event # None
    /\ IF Reaches(r) THEN Step(r, "write") ELSE End(r)
    /\ Release(r)
    /\ UNCHANGED <<account, world, meeting, event, left>>

(* DELETE: 404 and 410 count as success.                                   *)
DeleteEvent(r) ==
    /\ req[r].pc = "call"
    /\ At(r, "ready")
    /\ req[r].kind = "delete"
    /\ IF Reaches(r)
       THEN event' = [event EXCEPT ![req[r].event] = [state |-> "gone", google |-> @.google]]
            /\ UNCHANGED left
       ELSE UNCHANGED event /\ Leave({req[r].event})
    /\ Step(r, "write")
    /\ Release(r)
    /\ UNCHANGED <<account, world, meeting>>

(* Google answers with an error and has done nothing.                      *)
CallFails(r) ==
    /\ ~Quiet
    /\ req[r].pc = "call"
    /\ At(r, "ready")
    /\ Abort(r)
    /\ Release(r)
    /\ UNCHANGED <<account, world, meeting, event>>

-----------------------------------------------------------------------------
(* repo.create                                                             *)
WriteNew(r) ==
    /\ req[r].pc = "write"
    /\ req[r].kind = "create"
    /\ \E m \in Ids :
           /\ meeting[m].state = "unused"
           /\ meeting' = [meeting EXCEPT ![m] =
                 NewMeeting("live", IF Quiet THEN req[r].user ELSE None, req[r].event,
                            req[r].meet)]
    /\ End(r)
    /\ UNCHANGED <<linkVars, event, left>>

BugWritten(old, q) == NewMeeting("live", old.creator, q.event, old.meet \/ q.meet)

(* The event and Meet fields of the row become what the request computed   *)
(* from the row it read.                                                   *)
Written(old, q) == NewMeeting("live", old.creator, q.event, q.meet)

(* repo.update, or P2025 when the row is gone.                             *)
WriteRow(r) ==
    /\ req[r].pc = "write"
    /\ req[r].kind \in {"update", "link"}
    /\ meeting' = IF Live(req[r].id)
                  THEN [meeting EXCEPT ![req[r].id] = Written(@, req[r])]
                  ELSE meeting
    /\ End(r)
    /\ UNCHANGED <<linkVars, event, left>>

(* repo.delete: deleteMany, no error when the row is gone.                 *)
DeleteMeeting(r) ==
    /\ req[r].pc = "write"
    /\ req[r].kind = "delete"
    /\ meeting' = [meeting EXCEPT ![req[r].id] = NewMeeting("gone", @.creator, None, FALSE)]
    /\ End(r)
    /\ UNCHANGED <<linkVars, event, left>>

(* Events that some row names.                                             *)
Named == {meeting[m].event : m \in Ids} \ {None}

(* The database fails; or it refuses the row, since nothing has checked    *)
(* that the task which a creation or an update asks for exists.  An event  *)
(* made for the row is there already.                                      *)
WriteFails(r) ==
    /\ ~Quiet \/ req[r].kind \in {"create", "update"}
    /\ req[r].pc = "write"
    /\ Leave({req[r].event} \ (Named \cup {None}))
    /\ End(r)
    /\ UNCHANGED <<linkVars, meeting, event>>

(* The organization is deleted and its meetings with it, by the cascade of *)
(* the schema: Google is not told.  No id is left to create a meeting in.  *)
DeleteOrganization ==
    /\ OneByOne
    /\ \E m \in Ids : meeting[m].state # "gone"
    /\ meeting' = [m \in Ids |-> NewMeeting("gone", None, None, FALSE)]
    /\ Leave(Named)
    /\ UNCHANGED <<linkVars, event, req>>

-----------------------------------------------------------------------------
Links(r) ==
    /\ \/ LinkStep(r)
       \/ SlotFree(r) /\ \E u \in Users : StartConnect(r, u) \/ StartDisconnect(r, u)
    /\ UNCHANGED <<meeting, event, req, left>>

Next ==
    \/ \E r \in Requests :
          \/ Links(r)
          \/ StartCreate(r) \/ StartUpdate(r) \/ StartLink(r) \/ StartDelete(r)
          \/ AskToken(r) \/ NoToken(r) \/ TokenLost(r)
          \/ CreateEvent(r) \/ UpdateEvent(r) \/ DeleteEvent(r) \/ CallFails(r)
          \/ Abandon(r)
          \/ WriteNew(r) \/ WriteRow(r) \/ DeleteMeeting(r) \/ WriteFails(r)
    \/ \E u \in Users : GoStale(u) /\ UNCHANGED <<meeting, event, req, left>>
    \/ DeleteOrganization

Spec == Init /\ [][Next]_vars

-----------------------------------------------------------------------------
(* Links, rows, events and requests keep their types.                      *)
TypeOK ==
    /\ LinkTypeOK
    /\ meeting \in [Ids -> Meeting]
    /\ event \in [Events -> Event]
    /\ req \in [Requests -> Request]
    /\ left \subseteq Events

(* A meeting never shows a Meet link without a calendar event, although    *)
(* updates write back what they read before a Meet link was generated.     *)
MeetHasEvent == \A m \in Ids : meeting[m].meet => meeting[m].event # None

(* Rows and calendars in step, when requests come one at a time, no server *)
(* fails and people touch only what they created: between requests the     *)
(* event a row names exists.  An event without a row is one whose deletion *)
(* had no access to the calendar (disconnected, or connected to another    *)
(* account), whose row named a task that does not exist, or whose          *)
(* organization was deleted: the code has no other way to lose one.        *)
QuietInStep ==
    (Quiet /\ \A r \in Requests : req[r].pc = "idle") =>
        LET alive == {e \in Events : event[e].state = "live"}
        IN  Named \subseteq alive /\ alive \subseteq Named \cup left
=============================================================================

------------------------------ MODULE RateLimit ------------------------------
(***************************************************************************)
(* The fixed-window rate limiter of src/middlewares/rate-limit.middleware  *)
(* .ts: INCR and TTL in one pipeline, EXPIRE in a second round trip when   *)
(* the counter has no expiry yet.  The commands of two requests may        *)
(* interleave; every reply may be an error, and a process may stop between *)
(* two commands.  On any error the request passes.                         *)
(***************************************************************************)
EXTENDS Integers

CONSTANTS
    Clients,      \* identifiers the key generator yields
    Hits,         \* requests in flight
    Window,       \* windowSeconds, in ticks
    MaxRequests   \* maxRequests

ASSUME LimitAssumption == Window \in Nat \ {0} /\ MaxRequests \in Nat \ {0}

VARIABLES
    key,       \* counter of each client in Redis; count 0: there is no key
    hit,       \* what the limiter is doing for each request in flight
    admitted   \* history: requests let through by the count of the present key

limitVars == <<key, hit, admitted>>

NoExpiry == -1
Missing == -2
Key == [count : 0..(MaxRequests + 1), ttl : {NoExpiry} \cup 0..Window]
Hit == [pc : {"idle", "ttl", "expire"}, client : Clients, count : 0..(MaxRequests + 1),
        fresh : BOOLEAN]
NoKey == [count |-> 0, ttl |-> 0]
NoHit(c) == [pc |-> "idle", client |-> c, count |-> 0, fresh |-> FALSE]

LimitInit ==
    /\ key = [c \in Clients |-> NoKey]
    /\ hit \in [Hits -> {NoHit(c) : c \in Clients}]
    /\ admitted = [c \in Clients |-> 0]

-----------------------------------------------------------------------------
(* All counts past the limit are alike.                                    *)
Next1(n) == IF n > MaxRequests THEN n ELSE n + 1

(* INCR: a key that was missing begins without an expiry.                  *)
Increment(h, c) ==
    LET n == Next1(key[c].count)
    IN  /\ hit[h].pc = "idle"
        /\ key' = [key EXCEPT ![c] =
              [count |-> n, ttl |-> IF @.count = 0 THEN NoExpiry ELSE @.ttl]]
        /\ hit' = [hit EXCEPT ![h] =
              [pc |-> "ttl", client |-> c, count |-> n, fresh |-> TRUE]]
        /\ UNCHANGED admitted

BugOver(n) == n > MaxRequests + 1

Over(n) == n > MaxRequests

(* 429, or next(); only what this key admitted is counted.                 *)
Decide(h) ==
    /\ hit' = [hit EXCEPT ![h] = NoHit(@.client)]
    /\ admitted' = [admitted EXCEPT ![hit[h].client] =
          IF Over(hit[h].count) \/ ~hit[h].fresh THEN @ ELSE @ + 1]

Ttl(c) == IF key[c].count = 0 THEN Missing ELSE key[c].ttl

BugNeedsExpiry(t) == t # Missing

NeedsExpiry(t) == t = NoExpiry

(* TTL, and the reply to the pipeline.                                     *)
ReadTtl(h) ==
    /\ hit[h].pc = "ttl"
    /\ \/ /\ NeedsExpiry(Ttl(hit[h].client))
          /\ hit' = [hit EXCEPT ![h] =
                [pc |-> "expire", client |-> @.client, count |-> @.count, fresh |-> @.fresh]]
          /\ UNCHANGED admitted
       \/ ~NeedsExpiry(Ttl(hit[h].client)) /\ Decide(h)
    /\ UNCHANGED key

(* EXPIRE: without effect on a key that is gone.                           *)
SetExpire(h) ==
    /\ hit[h].pc = "expire"
    /\ key' = [key EXCEPT ![hit[h].client] =
          IF @.count = 0 THEN @ ELSE [count |-> @.count, ttl |-> Window]]
    /\ Decide(h)

(* A command failed (the request passes, whatever its count) or the        *)
(* process stopped; INCR stays done.                                       *)
Bypass(h) ==
    /\ hit[h].pc # "idle"
    /\ hit' = [hit EXCEPT ![h] = NoHit(@.client)]
    /\ UNCHANGED <<key, admitted>>

(* Redis removes a key whose time is over.                                 *)
Ends(c) == key[c].count > 0 /\ key[c].ttl = 1
LimitTick ==
    /\ \E c \in Clients : key[c].ttl > 0
    /\ key' = [c \in Clients |->
          IF Ends(c) THEN NoKey
          ELSE [count |-> key[c].count,
                ttl |-> IF key[c].ttl > 0 THEN key[c].ttl - 1 ELSE key[c].ttl]]
    /\ admitted' = [c \in Clients |-> IF Ends(c) THEN 0 ELSE admitted[c]]
    /\ hit' = [h \in Hits |->
          [pc |-> hit[h].pc, client |-> hit[h].client, count |-> hit[h].count,
           fresh |-> hit[h].fresh /\ ~Ends(hit[h].client)]]

LimitNext ==
    \/ \E h \in Hits : ReadTtl(h) \/ SetExpire(h) \/ Bypass(h)
    \/ \E h \in Hits, c \in Clients : Increment(h, c)
    \/ LimitTick

(* Time passes; Redis does not fail for ever; every client keeps asking.   *)
LimitFairness ==
    /\ WF_limitVars(LimitTick)
    /\ \A h \in Hits, c \in Clients :
           /\ SF_limitVars(Increment(h, c))
           /\ SF_limitVars(hit[h].client = c /\ ReadTtl(h))
           /\ SF_limitVars(hit[h].client = c /\ SetExpire(h))

LimitSpec == LimitInit /\ [][LimitNext]_limitVars

-----------------------------------------------------------------------------
(* Counters and requests keep their types.                                 *)
LimitTypeOK ==
    /\ key \in [Clients -> Key]
    /\ hit \in [Hits -> Hit]
    /\ admitted \in [Clients -> Nat]

(* "200 requests / minute" (rate-limit.middleware.ts:99): from the first   *)
(* request of a window until Redis drops the counter, no more than         *)
(* maxRequests pass by their count, however the commands of concurrent     *)
(* requests interleave and although a decision may come after the window   *)
(* it counted in.                                                          *)
WindowBound == \A c \in Clients : admitted[c] <= MaxRequests

(* A counter that lost its EXPIRE (rate-limit.middleware.ts:65) does not   *)
(* block its client for ever, and asking again while blocked does not push *)
(* the end of the window away: the counter goes.                           *)
BlockEnds == \A c \in Clients : (key[c].count > MaxRequests) ~> (key[c].count = 0)
=============================================================================

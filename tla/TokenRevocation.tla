--------------------------- MODULE TokenRevocation ---------------------------
(***************************************************************************)
(* Revocation of access tokens: src/utils/bloom.ts (a Bloom filter and an  *)
(* exact set in every server process, a denylist with a time to live in    *)
(* Redis), the three places that consult it (authenticate and              *)
(* optionalAuthenticate of src/middlewares/auth.middleware.ts, the socket  *)
(* handshake of src/config/socket.ts) and the two that write it (logout    *)
(* and changePassword of src/modules/auth/auth.service.ts).                *)
(*                                                                         *)
(* Time is counted in ticks: every token and every denylist entry has the  *)
(* number of ticks it still lives.  A command to Redis is one step; it may *)
(* fail.  A process may restart and then knows nothing.                    *)
(***************************************************************************)
EXTENDS Naturals

CONSTANTS
    Tokens,      \* access tokens, by jti
    Instances,   \* server processes
    Calls,       \* request slots
    Bits,        \* positions of the Bloom filter
    Indexes,     \* Indexes[t]: the positions the jti of t hashes to
    Lifetime,    \* JWT_EXPIRES_IN, in ticks
    DefaultTtl,  \* ttlSeconds of revoke when the caller gives none, in ticks
    Absent

ASSUME IndexesAssumption == Indexes \in [Tokens -> SUBSET Bits]
ASSUME LifetimeAssumption == Lifetime \in Nat \ {0}
(* The default of revoke (900 s) is not shorter than the life of a token   *)
(* (JWT_EXPIRES_IN, 15m by default).                                       *)
ASSUME TtlAssumption == DefaultTtl \in Nat /\ DefaultTtl >= Lifetime
ASSUME RevocationNone == Absent \notin Tokens /\ Absent \notin Instances

VARIABLES
    life,    \* ticks until each token expires
    deny,    \* ticks until the denylist entry of each token ends; 0: no entry
    bits,    \* bits set in each process's Bloom filter
    exact,   \* authoritativeSet of each process
    call,    \* what each request slot is doing
    mark,    \* history: was the token to be revoked; did Redis store that, and
             \* last with the ttl of a token that verified or of one that did not
    own      \* history: tokens each process was asked to revoke since its start

revocationVars == <<life, deny, bits, exact, call, mark, own>>

Call == [pc : {"idle", "exists", "accepted", "refused", "setex"},
         kind : {"required", "optional", "logout", "decoded"}, at : Instances \cup {Absent},
         token : Tokens \cup {Absent}, ttl : 0..DefaultTtl, known : BOOLEAN]
NewCall(pc, kind, i, t, ttl, known) ==
    [pc |-> pc, kind |-> kind, at |-> i, token |-> t, ttl |-> ttl, known |-> known]
NoCall == NewCall("idle", "required", Absent, Absent, 0, FALSE)

RevocationInit ==
    /\ life = [t \in Tokens |-> Lifetime]
    /\ deny = [t \in Tokens |-> 0]
    /\ bits = [i \in Instances |-> {}]
    /\ exact = [i \in Instances |-> {}]
    /\ call = [r \in Calls |-> NoCall]
    /\ mark = [t \in Tokens |-> "none"]
    /\ own = [i \in Instances |-> {}]

-----------------------------------------------------------------------------
(* BloomFilter.has and isRevoked: a hit counts when the set confirms it.   *)
BloomHas(i, t) == Indexes[t] \subseteq bits[i]

BugIsRevoked(i, t) == BloomHas(i, t)

IsRevoked(i, t) == BloomHas(i, t) /\ t \in exact[i]

Remember(i, t) ==
    /\ bits' = [bits EXCEPT ![i] = @ \cup Indexes[t]]
    /\ exact' = [exact EXCEPT ![i] = @ \cup {t}]

(* What process i has reason to refuse: Redis confirmed the revocation, or *)
(* it took the revocation itself.                                          *)
Known(i, t) == mark[t] = "stored" \/ t \in own[i]

(* authenticate, optionalAuthenticate, handshake: the signature and exp    *)
(* are verified; a local hit refuses at once, else Redis is asked.         *)
StartCheck(r) ==
    /\ call[r].pc = "idle"
    /\ \E i \in Instances, t \in Tokens, kind \in {"required", "optional"} :
           /\ life[t] > 0
           /\ call' = [call EXCEPT ![r] =
                 NewCall(IF IsRevoked(i, t) THEN "refused" ELSE "exists",
                         kind, i, t, 0, Known(i, t))]
    /\ UNCHANGED <<life, deny, bits, exact, mark, own>>

(* redis.exists answered: a hit is remembered and refused.  A revocation   *)
(* counts as known when it was in force from the beginning of the check to *)
(* this answer.                                                            *)
Reply(r, pc) ==
    call' = [call EXCEPT ![r] =
                NewCall(pc, call[r].kind, call[r].at, call[r].token, 0,
                        call[r].known /\ mark[call[r].token] = "stored")]

ExistsReply(r) ==
    LET i == call[r].at
        t == call[r].token
    IN  /\ call[r].pc = "exists"
        /\ \/ /\ deny[t] > 0
              /\ Remember(i, t)
              /\ Reply(r, "refused")
           \/ /\ deny[t] = 0
              /\ Reply(r, "accepted")
              /\ UNCHANGED <<bits, exact>>
        /\ UNCHANGED <<life, deny, mark, own>>

(* redis.exists failed: 503 or AUTH_SERVICE_UNAVAILABLE; without           *)
(* authentication the optional check goes on anonymously.                  *)
ExistsFails(r) ==
    /\ call[r].pc = "exists"
    /\ call' = [call EXCEPT ![r] = NoCall]
    /\ UNCHANGED <<life, deny, bits, exact, mark, own>>

-----------------------------------------------------------------------------
(* revoke(jti, ttl) of a request on process i: the local state changes     *)
(* before the first await.                                                 *)
Revoking(r, kind, i, t, ttl) ==
    /\ Remember(i, t)
    /\ call' = [call EXCEPT ![r] = NewCall("setex", kind, i, t, ttl, FALSE)]
    /\ mark' = [mark EXCEPT ![t] = IF @ = "none" THEN "asked" ELSE @]
    /\ own' = [own EXCEPT ![i] = @ \cup {t}]
    /\ UNCHANGED <<life, deny>>

BugLogoutTtl(t) == life[t] - 1

(* exp minus now, for a token that verifies.                               *)
LogoutTtl(t) == life[t]

(* logout: a token that expired has nothing left to revoke.                *)
StartLogout(r) ==
    /\ call[r].pc = "idle"
    /\ \E i \in Instances, t \in Tokens :
           life[t] > 0 /\ Revoking(r, "logout", i, t, LogoutTtl(t))

(* logout with a token that does not verify: it is only decoded, and the   *)
(* jti and the exp it carries, which nothing vouches for, give the entry   *)
(* its key and its time to live.  Bound: a ttl up to DefaultTtl.           *)
StartLogoutDecoded(r) ==
    /\ call[r].pc = "idle"
    /\ \E i \in Instances, t \in Tokens, ttl \in 1..DefaultTtl :
           Revoking(r, "decoded", i, t, ttl)

(* changePassword, after authenticate let the request through: the token   *)
(* it came with is revoked, without a ttl.                                 *)
RevokeCurrent(r) ==
    /\ call[r].pc = "accepted"
    /\ call[r].kind = "required"
    /\ Revoking(r, "required", call[r].at, call[r].token, DefaultTtl)

Setex(r) ==
    /\ call[r].pc = "setex"
    /\ deny' = [deny EXCEPT ![call[r].token] = call[r].ttl]
    /\ mark' = [mark EXCEPT ![call[r].token] =
                    IF call[r].kind = "decoded" THEN "decoded" ELSE "stored"]
    /\ call' = [call EXCEPT ![r] = NoCall]
    /\ UNCHANGED <<life, bits, exact, own>>

(* The error of setex is logged and nothing else.                          *)
SetexFails(r) ==
    /\ call[r].pc = "setex"
    /\ call' = [call EXCEPT ![r] = NoCall]
    /\ UNCHANGED <<life, deny, bits, exact, mark, own>>

FinishCall(r) ==
    /\ call[r].pc \in {"accepted", "refused"}
    /\ call' = [call EXCEPT ![r] = NoCall]
    /\ UNCHANGED <<life, deny, bits, exact, mark, own>>

(* A process restarts, or clearLocalState: filter, set and requests go.    *)
Restart(i) ==
    /\ bits' = [bits EXCEPT ![i] = {}]
    /\ exact' = [exact EXCEPT ![i] = {}]
    /\ own' = [own EXCEPT ![i] = {}]
    /\ call' = [r \in Calls |-> IF call[r].at = i THEN NoCall ELSE call[r]]
    /\ UNCHANGED <<life, deny, mark>>

(* One tick of time: tokens and entries of Redis grow older.               *)
Less(n) == IF n = 0 THEN 0 ELSE n - 1
Tick ==
    /\ \E t \in Tokens : life[t] > 0 \/ deny[t] > 0
    /\ life' = [t \in Tokens |-> Less(life[t])]
    /\ deny' = [t \in Tokens |-> Less(deny[t])]
    /\ UNCHANGED <<bits, exact, call, mark, own>>

RevocationStep(r) ==
    \/ StartCheck(r) \/ ExistsReply(r) \/ ExistsFails(r)
    \/ StartLogout(r) \/ StartLogoutDecoded(r) \/ RevokeCurrent(r)
    \/ Setex(r) \/ SetexFails(r) \/ FinishCall(r)

RevocationNext ==
    \/ \E r \in Calls : RevocationStep(r)
    \/ \E i \in Instances : Restart(i)
    \/ Tick

RevocationSpec == RevocationInit /\ [][RevocationNext]_revocationVars

-----------------------------------------------------------------------------
(* Filters, denylist and requests keep their types.                        *)
RevocationTypeOK ==
    /\ life \in [Tokens -> 0..Lifetime]
    /\ deny \in [Tokens -> 0..DefaultTtl]
    /\ bits \in [Instances -> SUBSET Bits]
    /\ exact \in [Instances -> SUBSET Tokens]
    /\ call \in [Calls -> Call]
    /\ mark \in [Tokens -> {"none", "asked", "stored", "decoded"}]
    /\ own \in [Instances -> SUBSET Tokens]

(* "Survives process restarts and works across multiple backend instances" *)
(* (bloom.ts:138), as far as it is so: while Redis holds the revocation of *)
(* a token as it was stored last for a token that verified, a check, on    *)
(* any process and after any restarts, does not let the token through      *)
(* while it is alive; and neither does the process that took a revocation, *)
(* although Redis failed.  The entry must outlive the token, whatever      *)
(* delays lie between computing its time to live and storing it.  What is  *)
(* left out is what the code does not give: logout with a token that does  *)
(* not verify (auth.service.ts:268-281) stores the entry anew with the     *)
(* time to live that token states, and when that is the shorter one, other *)
(* processes let the revoked token through again.                          *)
RevokedIsRefused ==
    \A r \in Calls :
        (call[r].pc = "accepted" /\ call[r].known) => life[call[r].token] = 0

(* "eliminating false-positive logouts" (bloom.ts:102): a collision in the *)
(* Bloom filter refuses nobody; only tokens that a request asked to revoke *)
(* are.                                                                    *)
OnlyRevokedAreRefused ==
    \A r \in Calls : call[r].pc = "refused" => mark[call[r].token] # "none"
=============================================================================

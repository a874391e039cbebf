----------------------------- MODULE AccessProofs -----------------------------
(***************************************************************************)
(* Proofs about what stands between a request and the tables: the rate     *)
(* limiter and the second factor (Gateway), the read cache (ReadCache),    *)
(* and the revocation of access tokens (TokenRevocation).  The three       *)
(* specifications share no variable; nothing here composes them.           *)
(***************************************************************************)
EXTENDS Gateway, ReadCache, TokenRevocation, FiniteSetTheorems, TLAPS

-----------------------------------------------------------------------------
(* The rate limiter and the second factor.                                 *)

(* Requests the present key of a client counted and may still let through. *)
Undecided(c) ==
    {h \in Hits : hit[h].client = c /\ hit[h].fresh /\ hit[h].count <= MaxRequests}

(* The counter pays for what was let through and what may yet be.          *)
Paid(c) ==
    /\ IsFiniteSet(Undecided(c))
    /\ admitted[c] + Cardinality(Undecided(c)) <= key[c].count
    /\ admitted[c] + Cardinality(Undecided(c)) <= MaxRequests

LimitInv ==
    /\ LimitTypeOK
    /\ \A h \in Hits : hit[h].pc = "idle" => ~hit[h].fresh
    /\ \A c \in Clients : Paid(c)

LEMMA NoHitType == \A c \in Clients : NoHit(c) \in Hit /\ NoHit(c).pc = "idle" /\ ~NoHit(c).fresh
  BY LimitAssumption DEF NoHit, Hit

(* Nothing happened to a client.                                           *)
LEMMA SamePaid ==
    ASSUME NEW c \in Clients, Paid(c), admitted'[c] = admitted[c], key'[c].count = key[c].count,
           Undecided(c)' = Undecided(c)
    PROVE  Paid(c)'
  BY DEF Paid

LEMMA InitLimitInv == LimitInit => LimitInv
<1> SUFFICES ASSUME LimitInit PROVE LimitInv
  OBVIOUS
<1>1. \A h \in Hits : \E c \in Clients : hit[h] = NoHit(c)
  BY DEF LimitInit
<1>2. hit \in [Hits -> Hit] /\ \A h \in Hits : ~hit[h].fresh
  BY <1>1, NoHitType DEF LimitInit
<1>3. LimitTypeOK
  BY <1>2, LimitAssumption DEF LimitInit, LimitTypeOK, NoKey, Key
<1>4. ASSUME NEW c \in Clients PROVE Paid(c)
  <2>1. Undecided(c) = {}
    BY <1>2 DEF Undecided
  <2>2. admitted[c] = 0 /\ key[c].count = 0
    BY DEF LimitInit, NoKey
  <2> QED
    BY <2>1, <2>2, FS_EmptySet, LimitAssumption DEF Paid
<1> QED
  BY <1>2, <1>3, <1>4 DEF LimitInv

(* INCR: one more of the budget is spent on the request that counted.      *)
LEMMA IncrementInv ==
    ASSUME LimitInv, NEW h \in Hits, NEW c \in Clients, Increment(h, c)
    PROVE  LimitInv'
<1> DEFINE n == Next1(key[c].count)
<1> DEFINE new == [pc |-> "ttl", client |-> c, count |-> n, fresh |-> TRUE]
<1> DEFINE k == [count |-> n, ttl |-> IF key[c].count = 0 THEN NoExpiry ELSE key[c].ttl]
<1>1. /\ key[c].count \in 0..(MaxRequests + 1)
      /\ key[c].ttl \in {NoExpiry} \cup 0..Window
  BY DEF LimitInv, LimitTypeOK, Key
<1>2. /\ n \in 0..(MaxRequests + 1) /\ n >= key[c].count
      /\ n <= MaxRequests => n = key[c].count + 1
  BY <1>1, LimitAssumption DEF Next1
<1>3. /\ hit[h].pc = "idle" /\ ~hit[h].fresh
      /\ key' = [key EXCEPT ![c] = k] /\ hit' = [hit EXCEPT ![h] = new] /\ admitted' = admitted
  BY DEF Increment, LimitInv
<1>4. k \in Key /\ new \in Hit /\ k.count = n
  BY <1>1, <1>2 DEF Key, Hit
<1>5. new.client = c /\ new.count = n /\ new.fresh /\ new.pc # "idle"
  OBVIOUS
<1> HIDE DEF n, new, k
<1>6. /\ key'[c] = k /\ hit'[h] = new
      /\ \A d \in Clients \ {c} : key'[d] = key[d]
      /\ \A x \in Hits \ {h} : hit'[x] = hit[x]
  BY <1>3 DEF LimitInv, LimitTypeOK
<1>7. LimitTypeOK' /\ \A x \in Hits : hit'[x].pc = "idle" => ~hit'[x].fresh
  BY <1>3, <1>4, <1>5, <1>6 DEF LimitInv, LimitTypeOK
<1>8. ASSUME NEW d \in Clients \ {c} PROVE Paid(d)'
  <2>1. Undecided(d)' = Undecided(d)
    BY <1>3, <1>5, <1>6 DEF Undecided
  <2> QED
    BY <1>3, <1>6, <2>1, SamePaid DEF LimitInv
<1>9. Paid(c)'
  <2>1. Paid(c) /\ admitted[c] \in Nat /\ MaxRequests \in Nat /\ n \in Nat /\ key[c].count \in Nat
    BY <1>1, <1>2, LimitAssumption DEF LimitInv, LimitTypeOK
  <2>2. Cardinality(Undecided(c)) \in Nat
    BY <2>1, FS_CardinalityType DEF Paid
  <2>3. key'[c].count = n /\ admitted'[c] = admitted[c]
    BY <1>3, <1>4, <1>6
  <2>4. CASE n <= MaxRequests
    <3>1. Undecided(c)' = Undecided(c) \cup {h} /\ h \notin Undecided(c)
      BY <1>3, <1>5, <1>6, <2>4 DEF Undecided
    <3>2. /\ IsFiniteSet(Undecided(c)')
          /\ Cardinality(Undecided(c)') = Cardinality(Undecided(c)) + 1
      BY <2>1, <3>1, FS_AddElement DEF Paid
    <3> QED
      BY <1>2, <2>1, <2>2, <2>3, <2>4, <3>2 DEF Paid
  <2>5. CASE ~(n <= MaxRequests)
    <3>1. Undecided(c)' = Undecided(c)
      BY <1>3, <1>5, <1>6, <2>5 DEF Undecided
    <3> QED
      BY <1>2, <2>1, <2>2, <2>3, <3>1 DEF Paid
  <2> QED
    BY <2>4, <2>5
<1> QED
  BY <1>7, <1>8, <1>9 DEF LimitInv

(* The limiter is done with a request, which passes or does not.           *)
LEMMA DoneInv ==
    ASSUME LimitInv, NEW h \in Hits, hit[h].pc # "idle", Decide(h) \/ Bypass(h),
           key' \in [Clients -> Key], \A c \in Clients : key'[c].count = key[c].count
    PROVE  LimitInv'
<1>0. PICK c \in Clients : c = hit[h].client
  BY DEF LimitInv, LimitTypeOK, Hit
<1>1. c \in Clients /\ c = hit[h].client /\ hit' = [hit EXCEPT ![h] = NoHit(c)]
  BY <1>0 DEF Decide, Bypass
<1>2. /\ \A d \in Clients \ {c} : admitted'[d] = admitted[d]
      /\ admitted' \in [Clients -> Nat]
      /\ \/ admitted'[c] = admitted[c]
         \/ h \in Undecided(c) /\ admitted'[c] = admitted[c] + 1
  <2>1. CASE Bypass(h)
    BY <2>1 DEF Bypass, LimitInv, LimitTypeOK
  <2>2. CASE Decide(h)
    <3>1. hit[h].count \in 0..(MaxRequests + 1) /\ admitted[c] \in Nat
      BY <1>1 DEF LimitInv, LimitTypeOK, Hit
    <3>2. CASE Over(hit[h].count) \/ ~hit[h].fresh
      <4>1. admitted' = [admitted EXCEPT ![c] = @]
        BY <1>1, <2>2, <3>2 DEF Decide
      <4> QED
        BY <4>1 DEF LimitInv, LimitTypeOK
    <3>3. CASE ~(Over(hit[h].count) \/ ~hit[h].fresh)
      <4>1. admitted' = [admitted EXCEPT ![c] = @ + 1]
        BY <1>1, <2>2, <3>3 DEF Decide
      <4>2. h \in Undecided(c)
        BY <1>1, <3>1, <3>3, LimitAssumption DEF Over, Undecided
      <4> QED
        BY <1>1, <3>1, <4>1, <4>2 DEF LimitInv, LimitTypeOK
    <3> QED
      BY <3>2, <3>3
  <2> QED
    BY <2>1, <2>2
<1>3. /\ hit'[h] = NoHit(c)
      /\ \A x \in Hits \ {h} : hit'[x] = hit[x]
  BY <1>1 DEF LimitInv, LimitTypeOK
<1>4. LimitTypeOK' /\ \A x \in Hits : hit'[x].pc = "idle" => ~hit'[x].fresh
  BY <1>1, <1>2, <1>3, NoHitType DEF LimitInv, LimitTypeOK
<1>5. \A d \in Clients : Undecided(d)' = Undecided(d) \ {h}
  BY <1>1, <1>3, NoHitType DEF Undecided
<1>6. \A d \in Clients \ {c} : h \notin Undecided(d)
  BY <1>1 DEF Undecided
<1>7. ASSUME NEW d \in Clients \ {c} PROVE Paid(d)'
  <2>1. Undecided(d)' = Undecided(d)
    <3>1. Undecided(d) \ {h} = Undecided(d)
      BY <1>6
    <3> QED
      BY <1>5, <3>1
  <2> QED
    BY <1>2, <2>1, SamePaid DEF LimitInv
<1>8. Paid(c)'
  <2>1. Paid(c) /\ admitted[c] \in Nat /\ key[c].count \in Nat /\ MaxRequests \in Nat
    BY <1>1, LimitAssumption DEF LimitInv, LimitTypeOK, Key
  <2>2. Cardinality(Undecided(c)) \in Nat
    BY <2>1, FS_CardinalityType DEF Paid
  <2>3. /\ IsFiniteSet(Undecided(c)')
        /\ Cardinality(Undecided(c)') =
               IF h \in Undecided(c) THEN Cardinality(Undecided(c)) - 1 ELSE Cardinality(Undecided(c))
    BY <1>1, <1>5, <2>1, FS_RemoveElement DEF Paid
  <2> QED
    BY <1>1, <1>2, <2>1, <2>2, <2>3 DEF Paid
<1> QED
  BY <1>4, <1>7, <1>8 DEF LimitInv

(* A command that only moves the request on.                               *)
LEMMA WaitInv ==
    ASSUME LimitInv, NEW h \in Hits, hit[h].pc = "ttl", UNCHANGED <<key, admitted>>,
           hit' = [hit EXCEPT ![h] =
               [pc |-> "expire", client |-> @.client, count |-> @.count, fresh |-> @.fresh]]
    PROVE  LimitInv'
<1> DEFINE new == [pc |-> "expire", client |-> hit[h].client, count |-> hit[h].count,
                   fresh |-> hit[h].fresh]
<1>1. /\ new \in Hit /\ new.pc # "idle" /\ new.client = hit[h].client
      /\ new.count = hit[h].count /\ new.fresh = hit[h].fresh
  BY DEF LimitInv, LimitTypeOK, Hit
<1>2. hit' = [hit EXCEPT ![h] = new]
  OBVIOUS
<1> HIDE DEF new
<1>3. hit'[h] = new /\ \A x \in Hits \ {h} : hit'[x] = hit[x]
  BY <1>2 DEF LimitInv, LimitTypeOK
<1>4. LimitTypeOK' /\ \A x \in Hits : hit'[x].pc = "idle" => ~hit'[x].fresh
  BY <1>1, <1>2, <1>3 DEF LimitInv, LimitTypeOK
<1>5. \A c \in Clients : Undecided(c)' = Undecided(c)
  BY <1>1, <1>3 DEF Undecided
<1>6. \A c \in Clients : Paid(c)'
  BY <1>5, SamePaid DEF LimitInv
<1> QED
  BY <1>4, <1>6 DEF LimitInv

LEMMA ReadTtlInv == ASSUME LimitInv, NEW h \in Hits, ReadTtl(h) PROVE LimitInv'
<1>1. CASE NeedsExpiry(Ttl(hit[h].client))
  BY <1>1, WaitInv DEF ReadTtl
<1>2. CASE ~NeedsExpiry(Ttl(hit[h].client))
  <2>1. hit[h].pc # "idle" /\ Decide(h) /\ key' = key
    BY <1>2 DEF ReadTtl
  <2>2. key' \in [Clients -> Key]
    BY <2>1 DEF LimitInv, LimitTypeOK
  <2> QED
    BY <2>1, <2>2, DoneInv
<1> QED
  BY <1>1, <1>2

LEMMA SetExpireInv == ASSUME LimitInv, NEW h \in Hits, SetExpire(h) PROVE LimitInv'
<1> DEFINE k == [count |-> key[hit[h].client].count, ttl |-> Window]
<1>1. hit[h].client \in Clients /\ hit[h].pc # "idle" /\ Decide(h)
  BY DEF LimitInv, LimitTypeOK, Hit, SetExpire
<1>2. k \in Key /\ k.count = key[hit[h].client].count
  BY <1>1, LimitAssumption DEF LimitInv, LimitTypeOK, Key
<1>3. key' = [key EXCEPT ![hit[h].client] = IF @.count = 0 THEN @ ELSE k]
  BY DEF SetExpire
<1> HIDE DEF k
<1>4. key' \in [Clients -> Key] /\ \A c \in Clients : key'[c].count = key[c].count
  BY <1>1, <1>2, <1>3 DEF LimitInv, LimitTypeOK
<1> QED
  BY <1>1, <1>4, DoneInv

LEMMA BypassInv == ASSUME LimitInv, NEW h \in Hits, Bypass(h) PROVE LimitInv'
<1>1. hit[h].pc # "idle" /\ key' = key
  BY DEF Bypass
<1> QED
  BY <1>1, DoneInv DEF LimitInv, LimitTypeOK

(* A key that goes takes what it counted along.                            *)
LEMMA LimitTickInv == ASSUME LimitInv, LimitTick PROVE LimitInv'
<1>1. ASSUME NEW c \in Clients
      PROVE  /\ key'[c] \in Key /\ admitted'[c] \in Nat
             /\ Ends(c) => admitted'[c] = 0 /\ key'[c].count = 0
             /\ ~Ends(c) => admitted'[c] = admitted[c] /\ key'[c].count = key[c].count
  <2>1. key[c] \in Key /\ admitted[c] \in Nat
    BY DEF LimitInv, LimitTypeOK
  <2>2. CASE Ends(c)
    BY <2>2, LimitAssumption DEF LimitTick, NoKey, Key
  <2>3. CASE ~Ends(c)
    <3> DEFINE k == [count |-> key[c].count,
                     ttl |-> IF key[c].ttl > 0 THEN key[c].ttl - 1 ELSE key[c].ttl]
    <3>1. k \in Key /\ k.count = key[c].count
      BY <2>1, LimitAssumption DEF Key, NoExpiry
    <3>2. key'[c] = k /\ admitted'[c] = admitted[c]
      BY <2>3 DEF LimitTick
    <3> HIDE DEF k
    <3> QED
      BY <2>1, <2>3, <3>1, <3>2
  <2> QED
    BY <2>2, <2>3
<1>2. ASSUME NEW h \in Hits
      PROVE  /\ hit'[h] \in Hit /\ hit'[h].pc = hit[h].pc /\ hit'[h].client = hit[h].client
             /\ hit'[h].count = hit[h].count
             /\ hit'[h].fresh = (hit[h].fresh /\ ~Ends(hit[h].client))
  <2>1. hit'[h] = [pc |-> hit[h].pc, client |-> hit[h].client, count |-> hit[h].count,
                   fresh |-> hit[h].fresh /\ ~Ends(hit[h].client)]
    BY DEF LimitTick
  <2>2. hit[h] \in Hit
    BY DEF LimitInv, LimitTypeOK
  <2> QED
    BY <2>1, <2>2 DEF Hit
<1>3. LimitTypeOK'
  BY <1>1, <1>2 DEF LimitTypeOK, LimitTick
<1>4. \A h \in Hits : hit'[h].pc = "idle" => ~hit'[h].fresh
  BY <1>2 DEF LimitInv
<1>5. ASSUME NEW c \in Clients PROVE Paid(c)'
  <2>1. CASE Ends(c)
    <3>1. Undecided(c)' = {}
      BY <1>2, <2>1 DEF Undecided
    <3> QED
      BY <1>1, <2>1, <3>1, FS_EmptySet, LimitAssumption DEF Paid
  <2>2. CASE ~Ends(c)
    <3>1. Undecided(c)' = Undecided(c)
      BY <1>2, <2>2 DEF Undecided
    <3> QED
      BY <1>1, <2>2, <3>1, SamePaid DEF LimitInv
  <2> QED
    BY <2>1, <2>2
<1> QED
  BY <1>3, <1>4, <1>5 DEF LimitInv

LEMMA NextLimitInv == LimitInv /\ [LimitNext]_limitVars => LimitInv'
<1> SUFFICES ASSUME LimitInv, [LimitNext]_limitVars PROVE LimitInv'
  OBVIOUS
<1>1. CASE UNCHANGED limitVars
  BY <1>1, SamePaid DEF limitVars, LimitInv, LimitTypeOK, Undecided
<1>2. CASE LimitNext
  BY <1>2, ReadTtlInv, SetExpireInv, BypassInv, IncrementInv, LimitTickInv DEF LimitNext
<1> QED
  BY <1>1, <1>2

-----------------------------------------------------------------------------
(* The second factor.                                                      *)

Working(q) == q.pc \notin {"idle", "in"}

(* What a request knows of a secret somebody proved to hold.               *)
SeenProven(q) == (q.passed \/ q.pc = "enable") => q.seen \in proven

(* One request at a time never leaves the secret shown last.               *)
OneSecret ==
    /\ \A o, x \in Operations : Working(op[o]) /\ Working(op[x]) => o = x
    /\ totp.secret # NoSecret => totp.secret = shown.last
    /\ \A o \in Operations : op[o].pc = "enable" => op[o].seen = shown.last

TotpInv ==
    /\ TotpTypeOK
    /\ totp.enabled => totp.secret \in proven
    /\ \A o \in Operations : SeenProven(op[o])
    /\ alone => OneSecret

LEMMA NewOpType ==
    ASSUME NEW pc \in {"idle", "setup", "enable", "disable", "session", "in"},
           NEW seen \in Secrets \cup {NoSecret}, NEW passed \in BOOLEAN
    PROVE  /\ NewOp(pc, seen, passed) \in Op /\ NewOp(pc, seen, passed).pc = pc
           /\ NewOp(pc, seen, passed).seen = seen /\ NewOp(pc, seen, passed).passed = passed
  BY DEF NewOp, Op

LEMMA NoOpType == NoOp \in Op /\ NoOp.pc = "idle" /\ ~NoOp.passed
  BY DEF NoOp, NewOp, Op

LEMMA InitTotpInv == TotpInit => TotpInv
  BY NoOpType DEF TotpInit, TotpInv, TotpTypeOK, SeenProven, OneSecret, Working

(* A request moves on; of the account only what was proven may grow.       *)
LEMMA OpStep ==
    ASSUME TotpInv, NEW o \in Operations, NEW q \in Op, op' = [op EXCEPT ![o] = q],
           UNCHANGED <<totp, shown, alone>>, proven \subseteq proven', proven' \subseteq Secrets,
           (q.passed \/ q.pc = "enable") => q.seen \in proven',
           alone => \/ ~Working(q) \/ Working(op[o])
                    \/ \A x \in Operations : ~Working(op[x]),
           (alone /\ q.pc = "enable") => q.seen = shown.last
    PROVE  TotpInv'
<1>1. op'[o] = q /\ \A x \in Operations \ {o} : op'[x] = op[x]
  BY DEF TotpInv, TotpTypeOK
<1>2. TotpTypeOK' /\ (totp.enabled => totp.secret \in proven)'
  BY DEF TotpInv, TotpTypeOK
<1>3. \A x \in Operations : SeenProven(op[x])'
  BY <1>1 DEF TotpInv, SeenProven
<1>4. alone' => OneSecret'
  BY <1>1 DEF TotpInv, OneSecret, Working
<1> QED
  BY <1>2, <1>3, <1>4 DEF TotpInv

(* A request ends, and may write the row before it does.                   *)
LEMMA WriteStep ==
    ASSUME TotpInv, NEW o \in Operations, EndOp(o), UNCHANGED <<proven, alone>>,
           TotpTypeOK', totp'.enabled => totp'.secret \in proven,
           alone => /\ totp'.secret # NoSecret => totp'.secret = shown'.last
                    /\ shown' = shown \/ Working(op[o])
    PROVE  TotpInv'
<1>1. op'[o] = NoOp /\ \A x \in Operations \ {o} : op'[x] = op[x]
  BY DEF EndOp, TotpInv, TotpTypeOK
<1>2. \A x \in Operations : SeenProven(op[x])'
  BY <1>1, NoOpType DEF TotpInv, SeenProven
<1>3. ASSUME alone PROVE OneSecret'
  <2>1. \A x, y \in Operations : Working(op[x])' /\ Working(op[y])' => x = y
    BY <1>1, <1>3, NoOpType DEF TotpInv, OneSecret, Working
  <2>2. ASSUME NEW x \in Operations, op'[x].pc = "enable" PROVE op'[x].seen = shown'.last
    <3>1. x # o /\ op'[x] = op[x] /\ Working(op[x])
      BY <1>1, <2>2, NoOpType DEF Working
    <3>2. shown' = shown
      BY <1>3, <3>1 DEF TotpInv, OneSecret
    <3> QED
      BY <1>3, <2>2, <3>1, <3>2 DEF TotpInv, OneSecret
  <2> QED
    BY <1>3, <2>1, <2>2 DEF OneSecret
<1> QED
  BY <1>2, <1>3 DEF TotpInv

LEMMA BeginInv ==
    ASSUME TotpInv, NEW o \in Operations,
           \/ StartSetup(o) \/ StartVerify(o) \/ StartDisable(o)
           \/ StartPlainLogin(o) \/ StartMfaLogin(o)
    PROVE  TotpInv'
<1>1. PICK pc \in {"setup", "enable", "disable", "session"},
           seen \in {NoSecret, totp.secret}, passed \in BOOLEAN :
          /\ BeginOp(o, pc, seen, passed) /\ UNCHANGED <<totp, shown, alone>>
          /\ passed => totp.enabled /\ seen = totp.secret
          /\ pc = "enable" => totp.secret # NoSecret /\ seen = totp.secret
          /\ proven' = IF pc = "enable" THEN proven \cup {totp.secret} ELSE proven
  BY DEF StartSetup, StartVerify, StartDisable, StartPlainLogin, StartMfaLogin
<1> DEFINE q == NewOp(pc, seen, passed)
<1>2. seen \in Secrets \cup {NoSecret} /\ totp.secret \in Secrets \cup {NoSecret}
  BY DEF TotpInv, TotpTypeOK
<1>3. q \in Op /\ q.pc = pc /\ q.seen = seen /\ q.passed = passed
  BY <1>2, NewOpType
<1>4. /\ op' = [op EXCEPT ![o] = q]
      /\ alone => \A x \in Operations : ~Working(op[x])
  BY <1>1 DEF BeginOp, Working
<1> HIDE DEF q
<1>5. proven \subseteq proven' /\ proven' \subseteq Secrets
  BY <1>1, <1>2 DEF TotpInv, TotpTypeOK
<1>6. (q.passed \/ q.pc = "enable") => q.seen \in proven'
  BY <1>1, <1>3, <1>5 DEF TotpInv
<1>7. (alone /\ q.pc = "enable") => q.seen = shown.last
  BY <1>1, <1>3 DEF TotpInv, OneSecret
<1> QED
  BY <1>1, <1>3, <1>4, <1>5, <1>6, <1>7, OpStep

LEMMA OpenSessionInv == ASSUME TotpInv, NEW o \in Operations, OpenSession(o) PROVE TotpInv'
<1> DEFINE q == NewOp("in", op[o].seen, op[o].passed)
<1>1. op[o] \in Op
  BY DEF TotpInv, TotpTypeOK
<1>2. q \in Op /\ q.pc = "in" /\ q.seen = op[o].seen /\ q.passed = op[o].passed
  BY <1>1, NewOpType DEF Op
<1>3. op' = [op EXCEPT ![o] = q] /\ UNCHANGED <<totp, shown, proven, alone>>
  BY DEF OpenSession
<1> HIDE DEF q
<1>4. (q.passed \/ q.pc = "enable") => q.seen \in proven'
  BY <1>2, <1>3 DEF TotpInv, SeenProven
<1>5. ~Working(q) /\ proven' \subseteq Secrets
  BY <1>2, <1>3 DEF Working, TotpInv, TotpTypeOK
<1> QED
  BY <1>2, <1>3, <1>4, <1>5, OpStep

LEMMA WriteInv ==
    ASSUME TotpInv, NEW o \in Operations,
           WriteSetup(o) \/ WriteEnable(o) \/ WriteDisable(o) \/ FinishOp(o)
    PROVE  TotpInv'
<1>1. EndOp(o) /\ UNCHANGED <<proven, alone>>
  BY DEF WriteSetup, WriteEnable, WriteDisable, FinishOp
<1>2. op' \in [Operations -> Op]
  BY <1>1, NoOpType DEF EndOp, TotpInv, TotpTypeOK
<1>3. CASE WriteSetup(o)
  <2>1. PICK s \in Secrets : /\ totp' = [secret |-> s, enabled |-> FALSE]
                             /\ shown' = [all |-> shown.all \cup {s}, last |-> s]
    BY <1>3 DEF WriteSetup
  <2>2. TotpTypeOK'
    BY <1>1, <1>2, <2>1 DEF TotpInv, TotpTypeOK
  <2> QED
    BY <1>1, <1>3, <2>1, <2>2, WriteStep DEF WriteSetup, Working
<1>4. CASE WriteEnable(o)
  <2>1. op[o] \in Op /\ op[o].pc = "enable"
    BY <1>4 DEF WriteEnable, TotpInv, TotpTypeOK
  <2>2. totp' = [secret |-> op[o].seen, enabled |-> TRUE] /\ shown' = shown
    BY <1>4 DEF WriteEnable
  <2>3. op[o].seen \in proven /\ (alone => op[o].seen = shown.last)
    BY <2>1 DEF TotpInv, SeenProven, OneSecret
  <2>4. TotpTypeOK'
    BY <1>1, <1>2, <2>1, <2>2 DEF TotpInv, TotpTypeOK, Op
  <2> QED
    BY <1>1, <2>2, <2>3, <2>4, WriteStep
<1>5. CASE WriteDisable(o)
  <2>1. totp' = [secret |-> NoSecret, enabled |-> FALSE] /\ shown' = shown
    BY <1>5 DEF WriteDisable
  <2>2. TotpTypeOK'
    BY <1>1, <1>2, <2>1 DEF TotpInv, TotpTypeOK
  <2> QED
    BY <1>1, <2>1, <2>2, WriteStep
<1>6. CASE FinishOp(o)
  <2>1. UNCHANGED <<totp, shown>>
    BY <1>6 DEF FinishOp
  <2>2. TotpTypeOK'
    BY <1>1, <1>2, <2>1 DEF TotpInv, TotpTypeOK
  <2> QED
    BY <1>1, <2>1, <2>2, WriteStep DEF TotpInv, OneSecret
<1> QED
  BY <1>3, <1>4, <1>5, <1>6

LEMMA NextTotpInv == TotpInv /\ [TotpNext]_totpVars => TotpInv'
<1> SUFFICES ASSUME TotpInv, [TotpNext]_totpVars PROVE TotpInv'
  OBVIOUS
<1>1. CASE UNCHANGED totpVars
  BY <1>1 DEF totpVars, TotpInv, TotpTypeOK, SeenProven, OneSecret, Working
<1>2. CASE TotpNext
  BY <1>2, BeginInv, OpenSessionInv, WriteInv DEF TotpNext
<1> QED
  BY <1>1, <1>2

-----------------------------------------------------------------------------
(* Both parts, of which one moves.                                         *)
LEMMA GatewayInvariance == GatewaySpec => [](LimitInv /\ TotpInv)
<1>1. GatewayInit => LimitInv /\ TotpInv
  BY InitLimitInv, InitTotpInv DEF GatewayInit
<1>2. LimitInv /\ TotpInv /\ [GatewayNext]_gatewayVars => (LimitInv /\ TotpInv)'
  <2>1. [GatewayNext]_gatewayVars => [LimitNext]_limitVars /\ [TotpNext]_totpVars
    BY DEF GatewayNext, Limit, Totp, gatewayVars
  <2> QED
    BY <2>1, NextLimitInv, NextTotpInv
<1> QED
  BY <1>1, <1>2, PTL DEF GatewaySpec

(* Counters, requests and the account's row keep their types.              *)
THEOREM GatewayTypeCorrect == GatewaySpec => []GatewayTypeOK
<1>1. LimitInv /\ TotpInv => GatewayTypeOK
  BY DEF LimitInv, TotpInv, GatewayTypeOK
<1> QED
  BY <1>1, GatewayInvariance, PTL

(* rate-limit.middleware.ts:99: for any number of clients and concurrent   *)
(* requests, any window and any limit, one counter lets through at most    *)
(* maxRequests.                                                            *)
THEOREM WindowIsBounded == GatewaySpec => []WindowBound
<1>1. LimitInv => WindowBound
  <2> SUFFICES ASSUME LimitInv, NEW c \in Clients PROVE admitted[c] <= MaxRequests
    BY DEF WindowBound
  <2>1. Paid(c) /\ admitted[c] \in Nat /\ MaxRequests \in Nat
    BY LimitAssumption DEF LimitInv, LimitTypeOK
  <2>2. Cardinality(Undecided(c)) \in Nat
    BY <2>1, FS_CardinalityType DEF Paid
  <2> QED
    BY <2>1, <2>2 DEF Paid
<1> QED
  BY <1>1, GatewayInvariance, PTL

(* For any supply of secrets and any interleaving of setups, verifications *)
(* and logins, the second factor is only ever on with a secret somebody    *)
(* proved to hold.                                                         *)
THEOREM NobodyIsLockedOut == GatewaySpec => []EnabledIsProven
<1>1. TotpInv => EnabledIsProven
  <2> SUFFICES ASSUME TotpInv PROVE EnabledIsProven
    OBVIOUS
  <2>1. totp.enabled => totp.secret \in proven /\ totp.secret # NoSecret
    BY SecretAssumption DEF TotpInv, TotpTypeOK
  <2> QED
    BY <2>1 DEF TotpInv, SeenProven, OneSecret, EnabledIsProven
<1> QED
  BY <1>1, GatewayInvariance, PTL

-----------------------------------------------------------------------------
(* The cache in front of projects.                                         *)

Lists == UNION {[S -> Project] : S \in SUBSET Ids}

Handler ==
    [pc : {"idle", "fetch", "set", "create", "update", "invalidate"}, id : Keys \cup {None},
     name : Names \cup {None}, value : {None} \cup Project \cup Lists, stale : SUBSET Keys]

(* What a handler holds: only what it will use.                            *)
HandlerOK(q) ==
    /\ q.pc \in {"fetch", "set"} => q.id \in Keys
    /\ q.pc = "update" => q.id \in Ids
    /\ q.pc = "create" => q.name \in Names
    /\ q.pc # "invalidate" => q.stale = {}
    /\ IF q.pc = "set" THEN q.value \in Stored(q.id) ELSE q.value = None

ProjectInv ==
    /\ db \in [Ids -> Project \cup {None}]
    /\ cache = [k \in Keys |-> cache[k]]
    /\ \A k \in Keys : cache[k] = None \/ cache[k] \in Stored(k)
    /\ unused \subseteq Ids \ Live
    /\ req \in [Requests -> Handler]
    /\ \A r \in Requests : HandlerOK(req[r])

(* v is what the database says under key k, up to the number of tasks.     *)
FreshProject(k, v) ==
    IF k \in Ids THEN k \in Live /\ SameProject(v, db[k])
    ELSE DOMAIN v = Live /\ \A p \in Live : SameProject(v[p], db[p])

FreshCache ==
    \A k \in Keys :
        cache[k] # None /\ (\A r \in Requests : k \notin req[r].stale) => FreshProject(k, cache[k])

(* One handler at a time: what it is about to store is still so.           *)
CalmProjects ==
    /\ \A r, x \in Requests : req[r].pc # "idle" /\ req[x].pc # "idle" => r = x
    /\ \A r \in Requests : req[r].pc = "set" => FreshProject(req[r].id, req[r].value)
    /\ FreshCache

LEMMA HandlerFields ==
    /\ Idle.pc = "idle" /\ Idle.id = None /\ Idle.name = None
    /\ Idle.value = None /\ Idle.stale = {} /\ Idle \in Handler /\ HandlerOK(Idle)
    /\ \A pc \in {"fetch", "create", "update"}, id \in Keys \cup {None},
          name \in Names \cup {None} :
          /\ At(pc, id, name).pc = pc /\ At(pc, id, name).id = id
          /\ At(pc, id, name).name = name /\ At(pc, id, name).value = None
          /\ At(pc, id, name).stale = {} /\ At(pc, id, name) \in Handler
    /\ \A keys \in SUBSET Keys :
          /\ Invalidating(keys).pc = "invalidate" /\ Invalidating(keys).value = None
          /\ Invalidating(keys).stale = keys /\ Invalidating(keys) \in Handler
          /\ HandlerOK(Invalidating(keys))
  BY DEF Idle, At, Invalidating, Handler, HandlerOK

(* A handler goes on.                                                      *)
LEMMA HandlerStep ==
    ASSUME ProjectInv, NEW r \in Requests, NEW q \in Handler, HandlerOK(q),
           req' = [req EXCEPT ![r] = q],
           db' \in [Ids -> Project \cup {None}], unused' \subseteq Ids \ Live',
           cache' = [k \in Keys |-> cache'[k]],
           \A k \in Keys : cache'[k] = None \/ cache'[k] \in Stored(k)
    PROVE  ProjectInv'
<1>1. req' \in [Requests -> Handler] /\ \A x \in Requests : HandlerOK(req'[x])
  BY DEF ProjectInv
<1> QED
  BY <1>1 DEF ProjectInv

LEMMA CalmStep ==
    ASSUME ProjectInv, CalmProjects, NEW r \in Requests,
           \A x \in Requests \ {r} : req[x].pc = "idle",
           NEW q \in Handler, req' = [req EXCEPT ![r] = q],
           q.pc = "set" => FreshProject(q.id, q.value)',
           \A k \in Keys : cache'[k] # None /\ k \notin q.stale => FreshProject(k, cache[k])'
    PROVE  CalmProjects'
<1>1. req'[r] = q /\ \A x \in Requests \ {r} : req'[x] = req[x]
  BY DEF ProjectInv
<1>2. \A x \in Requests : req'[x].pc = "set" => FreshProject(req[x].id, req[x].value)'
  BY <1>1
<1>3. FreshCache'
  BY <1>1 DEF FreshCache
<1> QED
  BY <1>1, <1>2, <1>3 DEF CalmProjects

LEMMA OthersAtRest ==
    ASSUME CalmProjects, NEW r \in Requests,
           req[r].pc # "idle" \/ \A x \in Requests : req[x].pc = "idle"
    PROVE  \A x \in Requests \ {r} : req[x].pc = "idle"
  BY DEF CalmProjects

(* Where there was nothing to delete, every entry was fresh.               *)
LEMMA WasFresh ==
    ASSUME ProjectInv, CalmProjects, NEW r \in Requests, req[r].pc # "invalidate",
           \A x \in Requests \ {r} : req[x].pc = "idle"
    PROVE  \A k \in Keys : cache[k] # None => FreshProject(k, cache[k])
  BY DEF ProjectInv, HandlerOK, CalmProjects, FreshCache

LEMMA SameFresh ==
    ASSUME UNCHANGED db, NEW k, NEW v PROVE FreshProject(k, v)' = FreshProject(k, v)
  BY DEF FreshProject, Live, SameProject

(* A handler goes on and nothing is written.                               *)
LEMMA QuietHandler ==
    ASSUME ProjectInv, calm => CalmProjects, NEW r \in Requests, NEW q \in Handler, HandlerOK(q),
           req' = [req EXCEPT ![r] = q], UNCHANGED <<db, cache, unused, calm>>,
           calm => req[r].pc # "idle" \/ \A x \in Requests : req[x].pc = "idle",
           req[r].pc # "invalidate" \/ ~calm, q.pc # "invalidate",
           q.pc = "set" => FreshProject(q.id, q.value)
    PROVE  ProjectInv' /\ (calm => CalmProjects)'
<1>1. ProjectInv'
  BY HandlerStep DEF ProjectInv, Live
<1>2. ASSUME calm PROVE CalmProjects'
  <2>1. \A x \in Requests \ {r} : req[x].pc = "idle"
    BY <1>2, OthersAtRest
  <2>2. \A k \in Keys : cache[k] # None => FreshProject(k, cache[k])
    BY <1>2, <2>1, WasFresh
  <2>3. \A k \in Keys : cache'[k] # None /\ k \notin q.stale => FreshProject(k, cache[k])'
    BY <2>2 DEF FreshProject, Live, SameProject
  <2>4. q.pc = "set" => FreshProject(q.id, q.value)'
    BY SameFresh
  <2> QED
    BY <1>2, <2>1, <2>3, <2>4, CalmStep
<1> QED
  BY <1>1, <1>2

LEMMA ResponseFresh ==
    ASSUME ProjectInv, NEW k \in Keys, Response(k) # None
    PROVE  Response(k) \in Stored(k) /\ FreshProject(k, Response(k))
<1>1. CASE k \in Ids
  BY <1>1 DEF Response, ProjectInv, Stored, FreshProject, Live, SameProject
<1>2. CASE k \notin Ids
  <2> DEFINE v == [p \in Live |-> db[p]]
  <2>1. Response(k) = v /\ Live \subseteq Ids
    BY <1>2 DEF Response, Live
  <2>2. v \in [Live -> Project]
    BY DEF Live, ProjectInv
  <2>3. v \in Stored(k)
    BY <1>2, <2>1, <2>2 DEF Stored
  <2>4. FreshProject(k, v)
    BY <1>2 DEF FreshProject, SameProject
  <2> QED
    BY <2>1, <2>3, <2>4
<1> QED
  BY <1>1, <1>2

LEMMA ReadInv ==
    ASSUME ProjectInv, calm => CalmProjects, calm' = calm, NEW r \in Requests,
           \/ \E k \in Keys : Miss(r, k)
           \/ Fetch(r) \/ Reject(r) \/ Fail(r)
           \/ \E n \in Names : StartCreate(r, n)
           \/ \E p \in Ids, n \in Names \cup {None} : StartUpdate(r, p, n)
    PROVE  ProjectInv' /\ (calm => CalmProjects)'
<1>1. CASE \E k \in Keys : Miss(r, k)
  <2>1. PICK k \in Keys : Miss(r, k)
    BY <1>1
  <2>2. PICK q : q = At("fetch", k, None)
    OBVIOUS
  <2>3. q \in Handler /\ q.pc = "fetch" /\ HandlerOK(q)
    BY <2>2, HandlerFields DEF HandlerOK
  <2> QED
    BY <2>1, <2>2, <2>3, QuietHandler DEF Miss, Free
<1>2. CASE Fetch(r)
  <2>1. req[r] \in Handler /\ HandlerOK(req[r]) /\ req[r].pc = "fetch" /\ req[r].id \in Keys
    BY <1>2 DEF ProjectInv, HandlerOK, Fetch
  <2>2. CASE Response(req[r].id) = None
    BY <1>2, <2>1, <2>2, HandlerFields, QuietHandler DEF Fetch
  <2>3. CASE Response(req[r].id) # None
    <3>1. PICK v : v = Response(req[r].id)
      OBVIOUS
    <3>2. PICK q : q = [req[r] EXCEPT !.pc = "set", !.value = v]
      OBVIOUS
    <3>3. v \in Stored(req[r].id) /\ FreshProject(req[r].id, v) /\ v \in Project \cup Lists
      BY <2>1, <2>3, <3>1, ResponseFresh DEF Stored, Lists
    <3>4. q \in Handler /\ q.pc = "set" /\ q.id = req[r].id /\ q.value = v /\ q.stale = {}
      BY <2>1, <3>2, <3>3 DEF Handler, HandlerOK
    <3>5. HandlerOK(q)
      BY <2>1, <3>3, <3>4 DEF HandlerOK
    <3>6. req' = [req EXCEPT ![r] = q]
      BY <1>2, <2>3, <3>1, <3>2 DEF Fetch
    <3> QED
      BY <1>2, <2>1, <3>3, <3>4, <3>5, <3>6, QuietHandler DEF Fetch
  <2> QED
    BY <2>2, <2>3
<1>3. CASE Reject(r)
  BY <1>3, HandlerFields, QuietHandler DEF Reject
<1>4. CASE Fail(r)
  BY <1>4, HandlerFields, QuietHandler DEF Fail, Faulty
<1>5. CASE \E n \in Names : StartCreate(r, n)
  <2>1. PICK n \in Names : StartCreate(r, n)
    BY <1>5
  <2>2. PICK q : q = At("create", None, n)
    OBVIOUS
  <2>3. q \in Handler /\ q.pc = "create" /\ HandlerOK(q)
    BY <2>2, HandlerFields DEF HandlerOK
  <2> QED
    BY <2>1, <2>2, <2>3, QuietHandler DEF StartCreate, Free
<1>6. CASE \E p \in Ids, n \in Names \cup {None} : StartUpdate(r, p, n)
  <2>1. PICK p \in Ids, n \in Names \cup {None} : StartUpdate(r, p, n)
    BY <1>6
  <2>2. PICK q : q = At("update", p, n)
    OBVIOUS
  <2>3. q \in Handler /\ q.pc = "update" /\ HandlerOK(q)
    BY <2>2, HandlerFields DEF HandlerOK, Keys
  <2> QED
    BY <2>1, <2>2, <2>3, QuietHandler DEF StartUpdate, Free
<1> QED
  BY <1>1, <1>2, <1>3, <1>4, <1>5, <1>6

(* An entry is stored or goes.                                             *)
LEMMA EntryInv ==
    ASSUME ProjectInv, calm => CalmProjects, calm' = calm, NEW k \in Keys, NEW v,
           v = None \/ v \in Stored(k), cache' = [cache EXCEPT ![k] = v], UNCHANGED <<db, unused>>
    PROVE  /\ cache' = [x \in Keys |-> cache'[x]]
           /\ \A x \in Keys : cache'[x] = None \/ cache'[x] \in Stored(x)
           /\ cache'[k] = v /\ \A x \in Keys \ {k} : cache'[x] = cache[x]
  BY DEF ProjectInv

LEMMA SetInv ==
    ASSUME ProjectInv, calm => CalmProjects, calm' = calm, NEW r \in Requests, Set(r)
    PROVE  ProjectInv' /\ (calm => CalmProjects)'
<1> PICK k \in Keys : k = req[r].id
  BY DEF Set, ProjectInv, HandlerOK
<1> PICK v \in Stored(k) : v = req[r].value
  BY DEF Set, ProjectInv, HandlerOK
<1>1. /\ k = req[r].id /\ v = req[r].value /\ req[r].pc = "set"
      /\ cache' = [cache EXCEPT ![k] = v]
      /\ req' = [req EXCEPT ![r] = Idle] /\ UNCHANGED <<db, unused>>
  BY DEF Set
<1>2. /\ cache' = [x \in Keys |-> cache'[x]]
      /\ \A x \in Keys : cache'[x] = None \/ cache'[x] \in Stored(x)
      /\ cache'[k] = v /\ \A x \in Keys \ {k} : cache'[x] = cache[x]
  BY <1>1, EntryInv
<1>3. ProjectInv'
  BY <1>1, <1>2, HandlerFields, HandlerStep DEF ProjectInv, Live
<1>4. ASSUME calm PROVE CalmProjects'
  <2>1. \A x \in Requests \ {r} : req[x].pc = "idle"
    BY <1>1, <1>4, OthersAtRest
  <2>2. \A x \in Keys : cache[x] # None => FreshProject(x, cache[x])
    BY <1>1, <1>4, <2>1, WasFresh
  <2>3. FreshProject(k, v)
    BY <1>1, <1>4 DEF CalmProjects
  <2>4. \A x \in Keys : cache'[x] # None => FreshProject(x, cache[x])'
    BY <1>1, <1>2, <2>2, <2>3 DEF FreshProject, Live, SameProject
  <2> QED
    BY <1>1, <1>4, <2>1, <2>4, HandlerFields, CalmStep
<1> QED
  BY <1>3, <1>4

LEMMA InvalidateInv ==
    ASSUME ProjectInv, calm => CalmProjects, calm' = calm, NEW r \in Requests, NEW k \in Keys,
           Invalidate(r, k)
    PROVE  ProjectInv' /\ (calm => CalmProjects)'
<1>1. req[r] \in Handler /\ req[r].pc = "invalidate" /\ k \in req[r].stale
  BY DEF Invalidate, ProjectInv
<1>2. PICK q \in Handler :
          /\ req' = [req EXCEPT ![r] = q] /\ HandlerOK(q) /\ q.pc # "set"
          /\ q.stale = req[r].stale \ {k}
  <2>1. CASE req[r].stale = {k}
    <3>1. req' = [req EXCEPT ![r] = Idle] /\ req[r].stale \ {k} = {}
      BY <2>1 DEF Invalidate
    <3>2. Idle \in Handler /\ HandlerOK(Idle) /\ Idle.pc # "set" /\ Idle.stale = {}
      BY HandlerFields
    <3> QED
      BY <3>1, <3>2
  <2>2. CASE req[r].stale # {k}
    <3>1. req[r].stale \ {k} \in SUBSET Keys
      BY <1>1 DEF Handler
    <3>2. req' = [req EXCEPT ![r] = Invalidating(req[r].stale \ {k})]
      BY <2>2 DEF Invalidate
    <3> QED
      BY <3>1, <3>2, HandlerFields
  <2> QED
    BY <2>1, <2>2
<1>3. UNCHANGED <<db, unused>>
  BY DEF Invalidate
<1>4. /\ cache' = [x \in Keys |-> cache'[x]]
      /\ \A x \in Keys : cache'[x] = None \/ cache'[x] \in Stored(x)
      /\ \A x \in Keys \ {k} : cache'[x] = cache[x]
      /\ cache'[k] = None \/ ~calm
  <2>1. CASE cache' = [cache EXCEPT ![k] = None]
    BY <1>3, <2>1, EntryInv
  <2>2. CASE Faulty /\ UNCHANGED cache
    BY <2>2 DEF Faulty, ProjectInv
  <2> QED
    BY <2>1, <2>2 DEF Invalidate
<1>5. ProjectInv'
  BY <1>2, <1>3, <1>4, HandlerStep DEF ProjectInv, Live
<1>6. ASSUME calm PROVE CalmProjects'
  <2>1. \A x \in Requests \ {r} : req[x].pc = "idle"
    BY <1>1, <1>6, OthersAtRest
  <2>2. \A x \in Requests \ {r} : req[x].stale = {}
    BY <2>1 DEF ProjectInv, HandlerOK
  <2>3. \A x \in Keys : cache[x] # None /\ x \notin req[r].stale => FreshProject(x, cache[x])
    BY <1>6, <2>2 DEF CalmProjects, FreshCache
  <2>4. \A x \in Keys : cache'[x] # None /\ x \notin q.stale => FreshProject(x, cache[x])'
    BY <1>2, <1>3, <1>4, <1>6, <2>3 DEF FreshProject, Live, SameProject
  <2> QED
    BY <1>2, <1>6, <2>1, <2>4, CalmStep
<1> QED
  BY <1>5, <1>6

LEMMA ExpireInv ==
    ASSUME ProjectInv, calm => CalmProjects, calm' = calm, NEW k \in Keys, Expire(k)
    PROVE  ProjectInv' /\ (calm => CalmProjects)'
<1>1. cache' = [cache EXCEPT ![k] = None] /\ UNCHANGED <<db, unused, req>>
  BY DEF Expire
<1>2. /\ cache' = [x \in Keys |-> cache'[x]]
      /\ \A x \in Keys : cache'[x] = None \/ cache'[x] \in Stored(x)
      /\ cache'[k] = None /\ \A x \in Keys \ {k} : cache'[x] = cache[x]
  BY <1>1, EntryInv
<1>3. ProjectInv'
  BY <1>1, <1>2 DEF ProjectInv, Live
<1>4. ASSUME calm PROVE CalmProjects'
  BY <1>1, <1>2, <1>4 DEF CalmProjects, FreshCache, FreshProject, Live, SameProject
<1> QED
  BY <1>3, <1>4

(* A write: what it makes stale is deleted next.                           *)
LEMMA ProjectWriteInv ==
    ASSUME ProjectInv, calm => CalmProjects, calm' = calm, NEW r \in Requests,
           calm => req[r].pc # "idle" \/ \A x \in Requests : req[x].pc = "idle",
           req[r].pc # "invalidate", UNCHANGED cache, unused' \subseteq unused,
           NEW p \in Ids, NEW w \in Project \cup {None}, db' = [db EXCEPT ![p] = w],
           w # None => p \notin unused',
           NEW stale \in SUBSET Keys, Queries \subseteq stale, p \in Live => p \in stale,
           req' = [req EXCEPT ![r] = Invalidating(stale)]
    PROVE  ProjectInv' /\ (calm => CalmProjects)'
<1>1. PICK q \in Handler : /\ q = Invalidating(stale) /\ HandlerOK(q)
                           /\ q.pc = "invalidate" /\ q.stale = stale
  BY HandlerFields
<1>2. db'[p] = w /\ \A x \in Ids \ {p} : db'[x] = db[x]
  BY DEF ProjectInv
<1>3. ProjectInv'
  <2>1. db' \in [Ids -> Project \cup {None}]
    BY DEF ProjectInv
  <2>2. unused' \subseteq Ids \ Live'
    BY <1>2 DEF ProjectInv, Live
  <2> QED
    BY <1>1, <2>1, <2>2, HandlerStep DEF ProjectInv
<1>4. ASSUME calm PROVE CalmProjects'
  <2>1. \A x \in Requests \ {r} : req[x].pc = "idle"
    BY <1>4, OthersAtRest
  <2>2. \A k \in Keys : cache[k] # None => FreshProject(k, cache[k])
    BY <1>4, <2>1, WasFresh
  <2>3. ASSUME NEW k \in Keys, cache'[k] # None, k \notin stale PROVE FreshProject(k, cache[k])'
    <3>1. k \in Ids /\ k \in Live /\ SameProject(cache[k], db[k])
      BY <2>2, <2>3 DEF Keys, FreshProject
    <3>2. k # p
      BY <2>3, <3>1
    <3> QED
      BY <1>2, <3>1, <3>2 DEF FreshProject, Live, SameProject
  <2> QED
    BY <1>1, <1>4, <2>1, <2>3, CalmStep
<1> QED
  BY <1>3, <1>4

LEMMA StaleKeysType == \A p \in Ids : /\ StaleKeys(p) \in SUBSET Keys /\ p \in StaleKeys(p)
                                      /\ Queries \subseteq StaleKeys(p)
  BY DEF StaleKeys, Keys

LEMMA CreateProjectInv ==
    ASSUME ProjectInv, calm => CalmProjects, calm' = calm, NEW r \in Requests, NEW p \in Ids,
           createProject(r, p)
    PROVE  ProjectInv' /\ (calm => CalmProjects)'
<1>1. PICK w : w = [key |-> req[r].name, content |-> 0, tasks |-> 0]
  OBVIOUS
<1>2. req[r].name \in Names /\ req[r].pc = "create"
  BY DEF createProject, ProjectInv, HandlerOK
<1>3. w \in Project
  BY <1>1, <1>2, BoundsAssumption DEF Project
<1>4. p \notin Live /\ unused' = unused \ {p}
  BY DEF createProject, ProjectInv
<1>5. db' = [db EXCEPT ![p] = w] /\ UNCHANGED cache
      /\ req' = [req EXCEPT ![r] = Invalidating(Queries)]
  BY <1>1 DEF createProject
<1>6. Queries \in SUBSET Keys
  BY DEF Keys
<1> QED
  BY <1>2, <1>3, <1>4, <1>5, <1>6, ProjectWriteInv

LEMMA UpdateProjectInv ==
    ASSUME ProjectInv, calm => CalmProjects, calm' = calm, NEW r \in Requests, updateProject(r)
    PROVE  ProjectInv' /\ (calm => CalmProjects)'
<1>1. PICK p \in Ids : p = req[r].id
  BY DEF updateProject, ProjectInv, HandlerOK
<1>2. req[r] \in Handler /\ db[p] \in Project /\ p \in Live /\ req[r].pc = "update"
  BY <1>1 DEF updateProject, ProjectInv, Live
<1>3. PICK w : w = [db[p] EXCEPT !.content = db[p].content + 1, !.key = NewKey(r)]
  OBVIOUS
<1>4. NewKey(r) \in Names /\ db[p].content + 1 \in 0..MaxContent
  BY <1>1, <1>2, BoundsAssumption DEF NewKey, Handler, Project, updateProject
<1>5. w \in Project
  BY <1>2, <1>3, <1>4 DEF Project
<1>6. /\ db' = [db EXCEPT ![p].content = db[p].content + 1, ![p].key = NewKey(r)]
      /\ UNCHANGED <<cache, unused>>
      /\ req' = [req EXCEPT ![r] = Invalidating(StaleKeys(p))]
  BY <1>1 DEF updateProject
<1>8. db' = [db EXCEPT ![p] = w]
  BY <1>2, <1>3, <1>6 DEF ProjectInv, Project
<1>7. p \notin unused
  BY <1>2 DEF ProjectInv
<1> QED
  BY <1>2, <1>5, <1>6, <1>7, <1>8, StaleKeysType, ProjectWriteInv

LEMMA DeleteProjectInv ==
    ASSUME ProjectInv, calm => CalmProjects, calm' = calm, NEW r \in Requests, NEW p \in Ids,
           deleteProject(r, p)
    PROVE  ProjectInv' /\ (calm => CalmProjects)'
<1>1. /\ req[r].pc = "idle" /\ (calm => \A x \in Requests : req[x].pc = "idle")
      /\ db' = [db EXCEPT ![p] = None] /\ UNCHANGED <<cache, unused>>
      /\ req' = [req EXCEPT ![r] = Invalidating(StaleKeys(p))]
  BY DEF deleteProject, Free
<1> QED
  BY <1>1, StaleKeysType, ProjectWriteInv

(* The number of tasks changes under the cache, and nothing else does.     *)
LEMMA ChangeTasksInv ==
    ASSUME ProjectInv, calm => CalmProjects, calm' = calm, NEW p \in Ids, ChangeTasks(p)
    PROVE  ProjectInv' /\ (calm => CalmProjects)'
<1>1. db[p] \in Project /\ UNCHANGED <<cache, unused, req>>
  BY DEF ChangeTasks, ProjectInv, Live
<1>2. PICK w : w = [db[p] EXCEPT !.tasks = @ + 1]
  OBVIOUS
<1>3. db' = [db EXCEPT ![p] = w]
  BY <1>2 DEF ChangeTasks
<1>4. db[p].tasks + 1 \in 0..MaxTasks
  BY <1>1, BoundsAssumption DEF ChangeTasks, Project
<1>5. w \in Project /\ w.key = db[p].key /\ w.content = db[p].content
  BY <1>1, <1>2, <1>4 DEF Project
<1>6. db'[p] = w /\ \A x \in Ids \ {p} : db'[x] = db[x]
  BY <1>3 DEF ProjectInv
<1>7. Live' = Live
  BY <1>1, <1>5, <1>6, NullAssumption DEF Live
<1>8. \A k, v : FreshProject(k, v) => FreshProject(k, v)'
  BY <1>5, <1>6, <1>7 DEF FreshProject, SameProject, Live
<1>9. ProjectInv'
  BY <1>1, <1>3, <1>5, <1>7 DEF ProjectInv
<1>10. ASSUME calm PROVE CalmProjects'
  BY <1>1, <1>8, <1>10 DEF CalmProjects, FreshCache
<1> QED
  BY <1>9, <1>10

LEMMA InitProjects == Init => ProjectInv /\ (calm => CalmProjects)
<1> SUFFICES ASSUME Init PROVE ProjectInv /\ CalmProjects
  OBVIOUS
<1>1. \A r \in Requests : req[r] = Idle
  BY DEF Init
<1>2. \A k \in Keys : cache[k] = None
  BY DEF Init
<1>3. ProjectInv
  BY <1>1, <1>2, HandlerFields DEF Init, ProjectInv, Live
<1>4. CalmProjects
  BY <1>1, <1>2, HandlerFields DEF CalmProjects, FreshCache
<1> QED
  BY <1>3, <1>4

LEMMA NextProjects ==
    ProjectInv /\ (calm => CalmProjects) /\ [Next]_vars => ProjectInv' /\ (calm => CalmProjects)'
<1> SUFFICES ASSUME ProjectInv, calm => CalmProjects, [Next]_vars
             PROVE  ProjectInv' /\ (calm => CalmProjects)'
  OBVIOUS
<1>1. CASE UNCHANGED vars
  BY <1>1 DEF vars, ProjectInv, CalmProjects, FreshCache, FreshProject, SameProject, Live
<1>2. CASE Next
  BY <1>2, ReadInv, SetInv, InvalidateInv, ExpireInv, CreateProjectInv, UpdateProjectInv,
     DeleteProjectInv, ChangeTasksInv
  DEF Next, Step
<1> QED
  BY <1>1, <1>2

-----------------------------------------------------------------------------
(* The cache in front of organizations.                                    *)

OrgKeys == Orgs \cup People

(* What a handler holds: only what it will use.                            *)
OrgHandlerOK(q) ==
    /\ q.pc \in {"fetch", "set"} => q.key \in OrgKeys
    /\ q.pc \in {"rename", "delete", "accept", "role", "remove"} => q.org \in Orgs
    /\ q.pc \in {"create", "accept", "role", "remove"} => q.user \in People
    /\ q.stale \subseteq OrgKeys
    /\ q.pc # "del" => q.stale = {}

OrganizationRows ==
    /\ org \in [Orgs -> [state : {"unused", "live", "gone"}, name : 0..MaxWrites]]
    /\ member \in [People -> [org : Orgs \cup {Nothing}, role : Roles]]
    /\ writes \in 0..MaxWrites

OrganizationInv ==
    /\ OrganizationRows
    /\ entry = [k \in OrgKeys |-> entry[k]]
    /\ oreq = [r \in OrgRequests |-> oreq[r]]
    /\ \A r \in OrgRequests : OrgHandlerOK(oreq[r])

(* v is what the rows say under key k, up to the name in a user's list and *)
(* to organizations that are gone.                                         *)
FreshRows(k, v) ==
    IF k \in Orgs THEN Exists(k) /\ v = Shown(k)
    ELSE \/ v.org = member[k].org /\ v.role = member[k].role
         \/ v.org \in Orgs /\ org[v.org].state = "gone"

FreshEntries ==
    \A k \in OrgKeys :
        entry[k] # Nothing /\ (\A r \in OrgRequests : k \notin oreq[r].stale) =>
            FreshRows(k, entry[k])

(* One handler at a time: what it is about to store is still so.           *)
OrderlyOrganizations ==
    /\ \A r, x \in OrgRequests : oreq[r] # NoOrgRequest /\ oreq[x] # NoOrgRequest => r = x
    /\ \A r \in OrgRequests : oreq[r].pc = "set" => FreshRows(oreq[r].key, oreq[r].value)
    /\ FreshEntries

LEMMA OrgHandlerFields ==
    /\ \A pc, k, o, u, v, s :
          /\ NewOrgRequest(pc, k, o, u, v, s).pc = pc /\ NewOrgRequest(pc, k, o, u, v, s).key = k
          /\ NewOrgRequest(pc, k, o, u, v, s).org = o /\ NewOrgRequest(pc, k, o, u, v, s).user = u
          /\ NewOrgRequest(pc, k, o, u, v, s).value = v
          /\ NewOrgRequest(pc, k, o, u, v, s).stale = s
    /\ NoOrgRequest.pc = "idle" /\ NoOrgRequest.stale = {} /\ OrgHandlerOK(NoOrgRequest)
    /\ \A keys \in SUBSET OrgKeys :
          /\ Deleting(keys).pc = "del" /\ Deleting(keys).stale = keys /\ OrgHandlerOK(Deleting(keys))
  BY DEF NewOrgRequest, NoOrgRequest, Writing, Deleting, OrgHandlerOK

LEMMA OrgHandlerStep ==
    ASSUME OrganizationInv, NEW r \in OrgRequests, NEW q, OrgHandlerOK(q), Becomes(r, q),
           OrganizationRows', entry' = [k \in OrgKeys |-> entry'[k]]
    PROVE  /\ OrganizationInv'
           /\ oreq'[r] = q /\ \A x \in OrgRequests \ {r} : oreq'[x] = oreq[x]
  BY DEF OrganizationInv, Becomes

LEMMA OrderlyStep ==
    ASSUME OrganizationInv, OrderlyOrganizations, NEW r \in OrgRequests,
           \A x \in OrgRequests \ {r} : oreq[x] = NoOrgRequest,
           NEW q, Becomes(r, q),
           q.pc = "set" => FreshRows(q.key, q.value)',
           \A k \in OrgKeys : entry'[k] # Nothing /\ k \notin q.stale => FreshRows(k, entry[k])'
    PROVE  OrderlyOrganizations'
<1>1. oreq'[r] = q /\ \A x \in OrgRequests \ {r} : oreq'[x] = NoOrgRequest
  BY DEF OrganizationInv, Becomes
<1>2. ASSUME NEW x \in OrgRequests, oreq'[x].pc = "set"
      PROVE  FreshRows(oreq[x].key, oreq[x].value)'
  BY <1>1, <1>2, OrgHandlerFields
<1>3. FreshEntries'
  BY <1>1 DEF FreshEntries
<1> QED
  BY <1>1, <1>2, <1>3 DEF OrderlyOrganizations

LEMMA OthersHaveNoRequest ==
    ASSUME OrderlyOrganizations, NEW r \in OrgRequests,
           oreq[r] # NoOrgRequest \/ \A x \in OrgRequests : oreq[x] = NoOrgRequest
    PROVE  \A x \in OrgRequests \ {r} : oreq[x] = NoOrgRequest
  BY DEF OrderlyOrganizations

(* Where there was nothing to delete, every entry was fresh.               *)
LEMMA EntriesWereFresh ==
    ASSUME OrganizationInv, OrderlyOrganizations, NEW r \in OrgRequests, oreq[r].pc # "del",
           \A x \in OrgRequests \ {r} : oreq[x] = NoOrgRequest
    PROVE  \A k \in OrgKeys : entry[k] # Nothing => FreshRows(k, entry[k])
<1>1. \A x \in OrgRequests : oreq[x].stale = {}
  BY OrgHandlerFields DEF OrganizationInv, OrgHandlerOK
<1> QED
  BY <1>1 DEF OrderlyOrganizations, FreshEntries

LEMMA RowsSame ==
    ASSUME UNCHANGED <<org, member>>
    PROVE  \A k, v : FreshRows(k, v)' = FreshRows(k, v)
  BY DEF FreshRows, Exists, Shown, MembersOf

(* A handler goes on and nothing is written.                               *)
LEMMA QuietOrgHandler ==
    ASSUME OrganizationInv, orderly => OrderlyOrganizations, NEW r \in OrgRequests,
           NEW q, OrgHandlerOK(q), Becomes(r, q),
           UNCHANGED <<org, member, entry, writes, orderly>>,
           orderly => oreq[r] # NoOrgRequest \/ \A x \in OrgRequests : oreq[x] = NoOrgRequest,
           oreq[r].pc # "del" \/ ~orderly, q.pc # "del",
           q.pc = "set" => FreshRows(q.key, q.value)
    PROVE  OrganizationInv' /\ (orderly => OrderlyOrganizations)'
<1>1. OrganizationInv'
  <2>1. OrganizationRows' /\ entry' = [k \in OrgKeys |-> entry'[k]]
    BY DEF OrganizationInv, OrganizationRows
  <2> QED
    BY <2>1, OrgHandlerStep
<1>2. ASSUME orderly PROVE OrderlyOrganizations'
  <2>1. \A x \in OrgRequests \ {r} : oreq[x] = NoOrgRequest
    BY <1>2, OthersHaveNoRequest
  <2>2. \A k \in OrgKeys : entry[k] # Nothing => FreshRows(k, entry[k])
    BY <1>2, <2>1, EntriesWereFresh
  <2>3. \A k \in OrgKeys : entry'[k] # Nothing => FreshRows(k, entry[k])'
    BY <2>2 DEF FreshRows, Exists, Shown, MembersOf
  <2>4. q.pc = "set" => FreshRows(q.key, q.value)'
    BY RowsSame
  <2> QED
    BY <1>2, <2>1, <2>3, <2>4, OrderlyStep
<1> QED
  BY <1>1, <1>2

LEMMA ArrivalInv ==
    ASSUME OrganizationInv, orderly => OrderlyOrganizations, NEW r \in OrgRequests, NEW q,
           Arrives(r, q), OrgHandlerOK(q), q.pc \notin {"set", "del"}
    PROVE  OrganizationInv' /\ (orderly => OrderlyOrganizations)'
<1>1. oreq[r].pc # "del"
  BY OrgHandlerFields DEF Arrives
<1> QED
  BY <1>1, QuietOrgHandler DEF Arrives

LEMMA LookUpInv ==
    ASSUME OrganizationInv, orderly => OrderlyOrganizations, NEW r \in OrgRequests,
           NEW k \in Orgs \cup People, LookUp(r, k)
    PROVE  OrganizationInv' /\ (orderly => OrderlyOrganizations)'
<1>1. PICK q : q = NewOrgRequest("fetch", k, Nothing, Nothing, Nothing, {})
  OBVIOUS
<1>2. OrgHandlerOK(q) /\ q.pc = "fetch"
  BY <1>1 DEF NewOrgRequest, OrgHandlerOK, OrgKeys
<1>3. Arrives(r, q)
  BY <1>1 DEF LookUp
<1> QED
  BY <1>2, <1>3, ArrivalInv

LEMMA WritingOK ==
    ASSUME NEW pc \in {"create", "rename", "delete", "accept", "role", "remove"}, NEW o, NEW u,
           pc # "create" => o \in Orgs, pc \notin {"rename", "delete"} => u \in People
    PROVE  OrgHandlerOK(Writing(pc, o, u)) /\ Writing(pc, o, u).pc = pc
  BY DEF OrgHandlerOK, Writing, NewOrgRequest

LEMMA StartWriteInv ==
    ASSUME OrganizationInv, orderly => OrderlyOrganizations, NEW r \in OrgRequests, StartWrite(r)
    PROVE  OrganizationInv' /\ (orderly => OrderlyOrganizations)'
<1>1. ASSUME NEW pc \in {"create", "rename", "delete", "accept", "role", "remove"}, NEW o, NEW u,
             pc # "create" => o \in Orgs, pc \notin {"rename", "delete"} => u \in People,
             Arrives(r, Writing(pc, o, u))
      PROVE  OrganizationInv' /\ (orderly => OrderlyOrganizations)'
  <2>1. PICK q : q = Writing(pc, o, u)
    OBVIOUS
  <2>2. OrgHandlerOK(q) /\ q.pc = pc
    BY <1>1, <2>1, WritingOK
  <2> QED
    BY <1>1, <2>1, <2>2, ArrivalInv
<1>2. CASE \E u \in People :
              member[u] = NoMembership /\ Arrives(r, Writing("create", Nothing, u))
  BY <1>1, <1>2
<1>3. CASE \E o \in Orgs, pc \in {"rename", "delete"} :
              Exists(o) /\ Arrives(r, Writing(pc, o, Nothing))
  BY <1>1, <1>3
<1>4. CASE \E o \in Orgs, u \in People :
              member[u] = NoMembership /\ Exists(o) /\ Arrives(r, Writing("accept", o, u))
  BY <1>1, <1>4
<1>5. CASE \E u \in People, pc \in {"role", "remove"} :
              /\ member[u].org # Nothing /\ member[u].role # "OWNER"
              /\ Arrives(r, Writing(pc, member[u].org, u))
  <2>1. PICK u \in People, pc \in {"role", "remove"} :
            member[u].org # Nothing /\ Arrives(r, Writing(pc, member[u].org, u))
    BY <1>5
  <2>2. member[u].org \in Orgs
    BY <2>1 DEF OrganizationInv, OrganizationRows
  <2> QED
    BY <1>1, <2>1, <2>2
<1> QED
  BY <1>2, <1>3, <1>4, <1>5 DEF StartWrite

LEMMA FetchRowsInv ==
    ASSUME OrganizationInv, orderly => OrderlyOrganizations, NEW r \in OrgRequests, FetchRows(r)
    PROVE  OrganizationInv' /\ (orderly => OrderlyOrganizations)'
<1>1. PICK k \in OrgKeys : k = oreq[r].key
  BY DEF FetchRows, OrganizationInv, OrgHandlerOK
<1>2. oreq[r].pc = "fetch" /\ oreq[r] # NoOrgRequest
  BY OrgHandlerFields DEF FetchRows
<1>3. CASE k \in Orgs /\ ~Exists(k)
  BY <1>1, <1>2, <1>3, OrgHandlerFields, QuietOrgHandler DEF FetchRows, Answer
<1>4. CASE ~(k \in Orgs /\ ~Exists(k))
  <2>1. PICK v : v = Shown(k)
    OBVIOUS
  <2>2. PICK q : q = NewOrgRequest("set", k, Nothing, Nothing, v, {})
    OBVIOUS
  <2>3. q.pc = "set" /\ q.key = k /\ q.value = v /\ OrgHandlerOK(q)
    BY <2>2 DEF NewOrgRequest, OrgHandlerOK
  <2>4. FreshRows(k, v)
    BY <1>4, <2>1 DEF FreshRows, Shown
  <2>5. Becomes(r, q)
    BY <1>1, <1>4, <2>1, <2>2 DEF FetchRows
  <2> QED
    BY <1>2, <2>3, <2>4, <2>5, QuietOrgHandler DEF FetchRows
<1> QED
  BY <1>3, <1>4

LEMMA GiveUpInv ==
    ASSUME OrganizationInv, orderly => OrderlyOrganizations, NEW r \in OrgRequests,
           Refused(r) \/ OrgFails(r)
    PROVE  OrganizationInv' /\ (orderly => OrderlyOrganizations)'
<1>1. CASE Refused(r)
  <2>1. oreq[r].pc \notin {"del", "idle"}
    BY <1>1 DEF Refused
  <2> QED
    BY <1>1, <2>1, OrgHandlerFields, QuietOrgHandler DEF Refused, Answer
<1>2. CASE OrgFails(r)
  BY <1>2, OrgHandlerFields, QuietOrgHandler DEF OrgFails, Answer
<1> QED
  BY <1>1, <1>2

LEMMA StoreEntryInv ==
    ASSUME OrganizationInv, orderly => OrderlyOrganizations, NEW r \in OrgRequests, StoreEntry(r)
    PROVE  OrganizationInv' /\ (orderly => OrderlyOrganizations)'
<1>1. PICK k \in OrgKeys : k = oreq[r].key
  BY DEF StoreEntry, OrganizationInv, OrgHandlerOK
<1>2. PICK v : v = oreq[r].value
  OBVIOUS
<1>3. /\ oreq[r].pc = "set" /\ entry' = [entry EXCEPT ![k] = v] /\ Becomes(r, NoOrgRequest)
      /\ UNCHANGED <<org, member, writes, orderly>>
  BY <1>1, <1>2 DEF StoreEntry, Answer
<1>4. /\ entry' = [x \in OrgKeys |-> entry'[x]]
      /\ entry'[k] = v /\ \A x \in OrgKeys \ {k} : entry'[x] = entry[x]
  BY <1>3 DEF OrganizationInv
<1>5. OrganizationInv'
  <2>1. OrganizationRows'
    BY <1>3 DEF OrganizationInv, OrganizationRows
  <2> QED
    BY <1>3, <1>4, <2>1, OrgHandlerFields, OrgHandlerStep
<1>6. ASSUME orderly PROVE OrderlyOrganizations'
  <2>1. \A x \in OrgRequests \ {r} : oreq[x] = NoOrgRequest
    BY <1>3, <1>6, OrgHandlerFields, OthersHaveNoRequest
  <2>2. \A x \in OrgKeys : entry[x] # Nothing => FreshRows(x, entry[x])
    BY <1>3, <1>6, <2>1, EntriesWereFresh
  <2>3. FreshRows(k, v)
    BY <1>1, <1>2, <1>3, <1>6 DEF OrderlyOrganizations
  <2>4. \A x \in OrgKeys : entry'[x] # Nothing => FreshRows(x, entry[x])'
    BY <1>3, <1>4, <2>2, <2>3 DEF FreshRows, Exists, Shown, MembersOf
  <2> QED
    BY <1>3, <1>6, <2>1, <2>4, OrgHandlerFields, OrderlyStep
<1> QED
  BY <1>3, <1>5, <1>6

LEMMA DeleteKeysInv ==
    ASSUME OrganizationInv, orderly => OrderlyOrganizations, NEW r \in OrgRequests, DeleteKeys(r)
    PROVE  OrganizationInv' /\ (orderly => OrderlyOrganizations)'
<1>1. /\ oreq[r].pc = "del" /\ Becomes(r, NoOrgRequest)
      /\ UNCHANGED <<org, member, writes, orderly>>
  BY DEF DeleteKeys, Answer
<1>2. /\ entry' = [x \in OrgKeys |-> entry'[x]]
      /\ orderly => \A x \in OrgKeys : entry'[x] = IF x \in oreq[r].stale THEN Nothing ELSE entry[x]
  BY DEF DeleteKeys, OrganizationInv, OrgKeys
<1>3. OrganizationInv'
  <2>1. OrganizationRows'
    BY <1>1 DEF OrganizationInv, OrganizationRows
  <2> QED
    BY <1>1, <1>2, <2>1, OrgHandlerFields, OrgHandlerStep
<1>4. ASSUME orderly PROVE OrderlyOrganizations'
  <2>1. \A x \in OrgRequests \ {r} : oreq[x] = NoOrgRequest
    BY <1>1, <1>4, OrgHandlerFields, OthersHaveNoRequest
  <2>2. \A x \in OrgKeys : entry[x] # Nothing /\ x \notin oreq[r].stale => FreshRows(x, entry[x])
    BY <1>4, <2>1, OrgHandlerFields DEF OrderlyOrganizations, FreshEntries
  <2>3. \A x \in OrgKeys : entry'[x] # Nothing => FreshRows(x, entry[x])'
    BY <1>1, <1>2, <1>4, <2>2 DEF FreshRows, Exists, Shown, MembersOf
  <2> QED
    BY <1>1, <1>4, <2>1, <2>3, OrgHandlerFields, OrderlyStep
<1> QED
  BY <1>1, <1>3, <1>4

LEMMA ExpireEntryInv ==
    ASSUME OrganizationInv, orderly => OrderlyOrganizations, NEW k \in Orgs \cup People,
           ExpireEntry(k)
    PROVE  OrganizationInv' /\ (orderly => OrderlyOrganizations)'
<1>1. entry' = [entry EXCEPT ![k] = Nothing] /\ UNCHANGED <<org, member, oreq, writes, orderly>>
  BY DEF ExpireEntry
<1>2. /\ entry' = [x \in OrgKeys |-> entry'[x]]
      /\ entry'[k] = Nothing /\ \A x \in OrgKeys \ {k} : entry'[x] = entry[x]
  BY <1>1 DEF OrganizationInv, OrgKeys
<1>3. OrganizationInv'
  BY <1>1, <1>2 DEF OrganizationInv, OrganizationRows
<1>4. ASSUME orderly PROVE OrderlyOrganizations'
  BY <1>1, <1>2, <1>4
     DEF OrderlyOrganizations, FreshEntries, FreshRows, Exists, Shown, MembersOf
<1> QED
  BY <1>1, <1>3, <1>4

-----------------------------------------------------------------------------
(* A write: what it makes stale is deleted next.                           *)
LEMMA OrgWriteInv ==
    ASSUME OrganizationInv, orderly => OrderlyOrganizations, NEW r \in OrgRequests,
           NEW pc \in {"create", "rename", "delete", "accept", "role", "remove"},
           NEW keys \in SUBSET OrgKeys, Wrote(r, pc, keys), OrganizationRows',
           \A k \in OrgKeys \ keys : \A v : FreshRows(k, v) => FreshRows(k, v)'
    PROVE  OrganizationInv' /\ (orderly => OrderlyOrganizations)'
<1>1. /\ oreq[r].pc = pc /\ oreq[r] # NoOrgRequest
      /\ Becomes(r, Deleting(keys)) /\ UNCHANGED <<entry, orderly>>
  BY OrgHandlerFields DEF Wrote
<1>2. PICK q : q = Deleting(keys)
  OBVIOUS
<1>3. OrgHandlerOK(q) /\ q.pc = "del" /\ q.stale = keys
  BY <1>2, OrgHandlerFields
<1>4. OrganizationInv'
  <2>1. entry' = [k \in OrgKeys |-> entry'[k]]
    BY <1>1 DEF OrganizationInv
  <2> QED
    BY <1>1, <1>2, <1>3, <2>1, OrgHandlerStep
<1>5. ASSUME orderly PROVE OrderlyOrganizations'
  <2>1. \A x \in OrgRequests \ {r} : oreq[x] = NoOrgRequest
    BY <1>1, <1>5, OthersHaveNoRequest
  <2>2. \A k \in OrgKeys : entry[k] # Nothing => FreshRows(k, entry[k])
    BY <1>1, <1>5, <2>1, EntriesWereFresh
  <2>3. ASSUME NEW k \in OrgKeys, entry'[k] # Nothing, k \notin q.stale
        PROVE  FreshRows(k, entry[k])'
    <3>1. PICK v : v = entry[k]
      OBVIOUS
    <3>2. FreshRows(k, v)'
      BY <1>1, <1>3, <2>2, <2>3, <3>1
    <3>3. v = entry'[k]
      BY <1>1, <3>1
    <3> QED
      BY <3>2, <3>3 DEF FreshRows
  <2> QED
    BY <1>1, <1>2, <1>3, <1>5, <2>1, <2>3, OrderlyStep
<1> QED
  BY <1>1, <1>4, <1>5

(* An entry of another organization, or of another user, stays fresh.      *)
LEMMA MemberChangeFresh ==
    ASSUME OrganizationRows, NEW u \in People, NEW m \in [org : Orgs \cup {Nothing}, role : Roles],
           member' = [member EXCEPT ![u] = m], UNCHANGED org,
           NEW o \in Orgs, member[u].org \in {o, Nothing}, m.org \in {o, Nothing}
    PROVE  \A k \in OrgKeys \ {u, o} : \A v : FreshRows(k, v) => FreshRows(k, v)'
<1> SUFFICES ASSUME NEW k \in OrgKeys \ {u, o}, NEW v, FreshRows(k, v) PROVE FreshRows(k, v)'
  OBVIOUS
<1>1. CASE k \in Orgs
  <2>1. MembersOf(k)' = MembersOf(k)
    BY <1>1, OrgCacheConstants DEF MembersOf, OrganizationRows
  <2> QED
    BY <1>1, <2>1 DEF FreshRows, Exists, Shown
<1>2. CASE k \in People \ Orgs
  BY <1>2 DEF FreshRows, OrganizationRows
<1> QED
  BY <1>1, <1>2 DEF OrgKeys

LEMMA MemberWriteInv ==
    ASSUME OrganizationInv, orderly => OrderlyOrganizations, NEW r \in OrgRequests,
           acceptInvitation(r) \/ updateMemberRole(r) \/ removeMember(r)
    PROVE  OrganizationInv' /\ (orderly => OrderlyOrganizations)'
<1>1. PICK pc \in {"accept", "role", "remove"} : Wrote(r, pc, {oreq[r].user, oreq[r].org})
  BY DEF acceptInvitation, updateMemberRole, removeMember, MemberKeys
<1>2. oreq[r].org \in Orgs /\ oreq[r].user \in People
  BY <1>1 DEF Wrote, OrganizationInv, OrgHandlerOK
<1>3. PICK o \in Orgs, u \in People : o = oreq[r].org /\ u = oreq[r].user
  BY <1>2
<1>4. PICK m \in [org : Orgs \cup {Nothing}, role : Roles] :
          /\ member' = [member EXCEPT ![u] = m]
          /\ m.org \in {o, Nothing} /\ member[u].org \in {o, Nothing} /\ UNCHANGED org
  <2>1. NoMembership \in [org : Orgs \cup {Nothing}, role : Roles] /\ NoMembership.org = Nothing
    BY DEF NoMembership, Membership, Roles
  <2>2. \A x \in Roles : /\ Membership(o, x) \in [org : Orgs \cup {Nothing}, role : Roles]
                         /\ Membership(o, x).org = o
    BY DEF Membership
  <2>3. CASE acceptInvitation(r)
    BY <1>3, <2>1, <2>2, <2>3 DEF acceptInvitation, Assigned, Joins
  <2>4. CASE updateMemberRole(r)
    BY <1>3, <2>1, <2>2, <2>4 DEF updateMemberRole, Assigned, Joins
  <2>5. CASE removeMember(r)
    BY <1>3, <2>1, <2>5 DEF removeMember
  <2> QED
    BY <2>3, <2>4, <2>5
<1>5. OrganizationRows'
  <2>1. writes' \in 0..MaxWrites
    BY <1>1, OrgCacheConstants DEF Wrote, OrganizationInv, OrganizationRows
  <2> QED
    BY <1>4, <2>1 DEF OrganizationInv, OrganizationRows
<1>6. \A k \in OrgKeys \ {u, o} : \A v : FreshRows(k, v) => FreshRows(k, v)'
  BY <1>4, MemberChangeFresh DEF OrganizationInv
<1>7. {u, o} \in SUBSET OrgKeys /\ Wrote(r, pc, {u, o})
  BY <1>1, <1>3 DEF OrgKeys
<1> QED
  BY <1>5, <1>6, <1>7, OrgWriteInv

LEMMA CreateOrganizationInv ==
    ASSUME OrganizationInv, orderly => OrderlyOrganizations, NEW r \in OrgRequests,
           createOrganization(r)
    PROVE  OrganizationInv' /\ (orderly => OrderlyOrganizations)'
<1>1. PICK u \in People : u = oreq[r].user
  BY DEF createOrganization, Wrote, OrganizationInv, OrgHandlerOK
<1>2. PICK o \in Orgs :
          /\ org[o].state = "unused" /\ org' = [org EXCEPT ![o] = Row("live", writes')]
          /\ member[u] = NoMembership /\ member' = [member EXCEPT ![u] = Membership(o, "OWNER")]
          /\ Wrote(r, "create", {u})
  BY <1>1 DEF createOrganization, Joins
<1>3. writes' \in 0..MaxWrites
  BY <1>2, OrgCacheConstants DEF Wrote, OrganizationInv, OrganizationRows
<1>4. OrganizationRows'
  <2>1. Row("live", writes') \in [state : {"unused", "live", "gone"}, name : 0..MaxWrites]
    BY <1>3 DEF Row
  <2>2. Membership(o, "OWNER") \in [org : Orgs \cup {Nothing}, role : Roles]
    BY DEF Membership, Roles
  <2> QED
    BY <1>2, <1>3, <2>1, <2>2 DEF OrganizationInv, OrganizationRows
<1>5. ASSUME NEW k \in OrgKeys \ {u}, NEW v, FreshRows(k, v) PROVE FreshRows(k, v)'
  <2>1. \A x \in Orgs \ {o} : org'[x] = org[x]
    BY <1>2 DEF OrganizationInv, OrganizationRows
  <2>2. \A x \in People \ {u} : member'[x] = member[x]
    BY <1>2 DEF OrganizationInv, OrganizationRows
  <2>3. CASE k \in Orgs
    <3>1. k # o
      BY <1>2, <1>5, <2>3 DEF FreshRows, Exists
    <3>2. member[u].org = Nothing /\ member'[u].org = o
      BY <1>2 DEF OrganizationInv, OrganizationRows, NoMembership, Membership
    <3>3. MembersOf(k)' = MembersOf(k)
      BY <2>2, <2>3, <3>1, <3>2, OrgCacheConstants DEF MembersOf
    <3> QED
      BY <1>5, <2>1, <2>3, <3>1, <3>3 DEF FreshRows, Exists, Shown
  <2>4. CASE k \in People \ Orgs
    <3>1. \A x \in Orgs : org[x].state = "gone" => org'[x].state = "gone"
      BY <1>2, <2>1
    <3> QED
      BY <1>5, <2>2, <2>4, <3>1 DEF FreshRows
  <2> QED
    BY <2>3, <2>4 DEF OrgKeys
<1>6. {u} \in SUBSET OrgKeys
  BY DEF OrgKeys
<1> QED
  BY <1>2, <1>4, <1>5, <1>6, OrgWriteInv

LEMMA UpdateOrganizationInv ==
    ASSUME OrganizationInv, orderly => OrderlyOrganizations, NEW r \in OrgRequests,
           updateOrganization(r)
    PROVE  OrganizationInv' /\ (orderly => OrderlyOrganizations)'
<1>1. PICK o \in Orgs : o = oreq[r].org
  BY DEF updateOrganization, Wrote, OrganizationInv, OrgHandlerOK
<1>2. /\ Wrote(r, "rename", {o}) /\ org[o].state = "live" /\ UNCHANGED member
      /\ org' = [org EXCEPT ![o] = Row("live", writes')]
  BY <1>1 DEF updateOrganization, Exists
<1>3. writes' \in 0..MaxWrites
  BY <1>2, OrgCacheConstants DEF Wrote, OrganizationInv, OrganizationRows
<1>4. OrganizationRows'
  <2>1. Row("live", writes') \in [state : {"unused", "live", "gone"}, name : 0..MaxWrites]
    BY <1>3 DEF Row
  <2> QED
    BY <1>2, <1>3, <2>1 DEF OrganizationInv, OrganizationRows
<1>5. ASSUME NEW k \in OrgKeys \ {o}, NEW v, FreshRows(k, v) PROVE FreshRows(k, v)'
  <2>1. \A x \in Orgs \ {o} : org'[x] = org[x]
    BY <1>2 DEF OrganizationInv, OrganizationRows
  <2> QED
    BY <1>2, <1>5, <2>1 DEF FreshRows, Exists, Shown, MembersOf
<1>6. {o} \in SUBSET OrgKeys
  BY DEF OrgKeys
<1> QED
  BY <1>2, <1>4, <1>5, <1>6, OrgWriteInv

LEMMA DeleteOrganizationInv ==
    ASSUME OrganizationInv, orderly => OrderlyOrganizations, NEW r \in OrgRequests,
           deleteOrganization(r)
    PROVE  OrganizationInv' /\ (orderly => OrderlyOrganizations)'
<1>1. PICK o \in Orgs : o = oreq[r].org
  BY DEF deleteOrganization, Wrote, OrganizationInv, OrgHandlerOK
<1>2. /\ Wrote(r, "delete", {o}) /\ org[o].state = "live"
      /\ org' = [org EXCEPT ![o] = Row("gone", 0)]
      /\ member' = [u \in People |-> IF member[u].org = o THEN NoMembership ELSE member[u]]
  BY <1>1 DEF deleteOrganization, Exists, MembersOf
<1>3. NoMembership \in [org : Orgs \cup {Nothing}, role : Roles] /\ NoMembership.org = Nothing
  BY DEF NoMembership, Membership, Roles
<1>4. OrganizationRows'
  <2>1. writes' \in 0..MaxWrites
    BY <1>2, OrgCacheConstants DEF Wrote, OrganizationInv, OrganizationRows
  <2>2. Row("gone", 0) \in [state : {"unused", "live", "gone"}, name : 0..MaxWrites]
    BY OrgCacheConstants DEF Row
  <2>3. org' \in [Orgs -> [state : {"unused", "live", "gone"}, name : 0..MaxWrites]]
    BY <1>2, <2>2 DEF OrganizationInv, OrganizationRows
  <2>4. member' \in [People -> [org : Orgs \cup {Nothing}, role : Roles]]
    BY <1>2, <1>3 DEF OrganizationInv, OrganizationRows
  <2> QED
    BY <2>1, <2>3, <2>4 DEF OrganizationRows
<1>5. ASSUME NEW k \in OrgKeys \ {o}, NEW v, FreshRows(k, v) PROVE FreshRows(k, v)'
  <2>1. org'[o].state = "gone" /\ \A x \in Orgs \ {o} : org'[x] = org[x]
    BY <1>2 DEF OrganizationInv, OrganizationRows, Row
  <2>2. CASE k \in Orgs
    <3>1. MembersOf(k)' = MembersOf(k)
      BY <1>2, <1>3, <1>5, <2>2, OrgCacheConstants DEF MembersOf
    <3> QED
      BY <1>5, <2>1, <2>2, <3>1 DEF FreshRows, Exists, Shown
  <2>3. CASE k \in People \ Orgs
    <3>1. CASE member[k].org = o /\ v.org = o
      BY <2>1, <2>3, <3>1 DEF FreshRows
    <3>2. CASE member[k].org # o /\ v.org = member[k].org /\ v.role = member[k].role
      BY <1>2, <2>3, <3>2 DEF FreshRows
    <3>3. CASE v.org \in Orgs /\ org[v.org].state = "gone"
      <4>1. org'[v.org].state = "gone"
        BY <2>1, <3>3
      <4> QED
        BY <2>3, <3>3, <4>1 DEF FreshRows
    <3> QED
      BY <1>5, <2>3, <3>1, <3>2, <3>3 DEF FreshRows
  <2> QED
    BY <2>2, <2>3 DEF OrgKeys
<1>6. {o} \in SUBSET OrgKeys
  BY DEF OrgKeys
<1> QED
  BY <1>2, <1>4, <1>5, <1>6, OrgWriteInv

-----------------------------------------------------------------------------
LEMMA InitOrganizations == OrgInit => OrganizationInv /\ (orderly => OrderlyOrganizations)
<1> SUFFICES ASSUME OrgInit PROVE OrganizationInv /\ OrderlyOrganizations
  OBVIOUS
<1>1. PICK first \in Orgs :
          /\ org = [o \in Orgs |-> Row(IF o = first THEN "live" ELSE "unused", 0)]
          /\ member \in [People -> {NoMembership} \cup {Membership(first, x) : x \in Roles}]
  <2>1. (CHOOSE o \in Orgs : TRUE) \in Orgs
    BY OrgCacheConstants
  <2> QED
    BY <2>1 DEF OrgInit
<1>2. OrganizationRows
  <2>1. \A s \in {"unused", "live", "gone"} :
            Row(s, 0) \in [state : {"unused", "live", "gone"}, name : 0..MaxWrites]
    BY OrgCacheConstants DEF Row
  <2>2. NoMembership \in [org : Orgs \cup {Nothing}, role : Roles]
    BY DEF NoMembership, Membership, Roles
  <2>3. \A x \in Roles : Membership(first, x) \in [org : Orgs \cup {Nothing}, role : Roles]
    BY DEF Membership
  <2>4. org \in [Orgs -> [state : {"unused", "live", "gone"}, name : 0..MaxWrites]]
    BY <1>1, <2>1
  <2>5. member \in [People -> [org : Orgs \cup {Nothing}, role : Roles]]
    BY <1>1, <2>2, <2>3
  <2> QED
    BY <2>4, <2>5, OrgCacheConstants DEF OrgInit, OrganizationRows
<1>3. \A r \in OrgRequests : oreq[r] = NoOrgRequest
  BY DEF OrgInit
<1>4. entry = [k \in OrgKeys |-> entry[k]] /\ \A k \in OrgKeys : entry[k] = Nothing
  BY DEF OrgInit, OrgKeys
<1>5. OrganizationInv
  BY <1>2, <1>3, <1>4, OrgHandlerFields DEF OrgInit, OrganizationInv
<1>6. OrderlyOrganizations
  BY <1>3, <1>4, OrgHandlerFields DEF OrderlyOrganizations, FreshEntries
<1> QED
  BY <1>5, <1>6

LEMMA NextOrganizations ==
    OrganizationInv /\ (orderly => OrderlyOrganizations) /\ [OrgNext]_orgVars =>
        OrganizationInv' /\ (orderly => OrderlyOrganizations)'
<1> SUFFICES ASSUME OrganizationInv, orderly => OrderlyOrganizations, [OrgNext]_orgVars
             PROVE  OrganizationInv' /\ (orderly => OrderlyOrganizations)'
  OBVIOUS
<1>1. CASE UNCHANGED orgVars
  <2>1. UNCHANGED <<org, member, entry, oreq, writes, orderly>>
    BY <1>1 DEF orgVars
  <2>2. OrganizationInv'
    BY <2>1 DEF OrganizationInv, OrganizationRows
  <2>3. ASSUME orderly PROVE OrderlyOrganizations'
    <3>1. FreshEntries' /\ \A r \in OrgRequests :
              oreq'[r].pc = "set" => FreshRows(oreq[r].key, oreq[r].value)'
      BY <2>1, <2>3 DEF OrderlyOrganizations, FreshEntries, FreshRows, Exists, Shown, MembersOf
    <3> QED
      BY <2>1, <2>3, <3>1 DEF OrderlyOrganizations
  <2> QED
    BY <2>1, <2>2, <2>3
<1>2. CASE OrgNext
  BY <1>2, LookUpInv, StartWriteInv, FetchRowsInv, StoreEntryInv, CreateOrganizationInv,
     UpdateOrganizationInv, DeleteOrganizationInv, MemberWriteInv, GiveUpInv, DeleteKeysInv,
     ExpireEntryInv
  DEF OrgNext, OrgStep
<1> QED
  BY <1>1, <1>2

-----------------------------------------------------------------------------
(* What holds of the two caches at any time, and with handlers one at a    *)
(* time.                                                                   *)
LEMMA ProjectInvariance == CacheSpec => [](ProjectInv /\ (calm => CalmProjects))
<1>1. CacheInit => ProjectInv /\ (calm => CalmProjects)
  BY InitProjects DEF CacheInit
<1>2. ProjectInv /\ (calm => CalmProjects) /\ [CacheNext]_cacheVars =>
          ProjectInv' /\ (calm => CalmProjects)'
  BY NextProjects DEF CacheNext, ProjectPart, OrganizationPart, cacheVars, vars
<1> QED
  BY <1>1, <1>2, PTL DEF CacheSpec

LEMMA OrganizationInvariance ==
    CacheSpec => [](OrganizationInv /\ (orderly => OrderlyOrganizations))
<1>1. CacheInit => OrganizationInv /\ (orderly => OrderlyOrganizations)
  BY InitOrganizations DEF CacheInit
<1>2. OrganizationInv /\ (orderly => OrderlyOrganizations) /\ [CacheNext]_cacheVars =>
          OrganizationInv' /\ (orderly => OrderlyOrganizations)'
  BY NextOrganizations DEF CacheNext, ProjectPart, OrganizationPart, cacheVars, orgVars
<1> QED
  BY <1>1, <1>2, PTL DEF CacheSpec

(* Rows, entries and handlers keep their types, and under a key only what  *)
(* belongs there is ever stored.                                           *)
THEOREM CacheTypeCorrect == CacheSpec => [](TypeOK /\ OrgTypeOK)
<1>1. CacheInit => orderly \in BOOLEAN
  BY DEF CacheInit, OrgInit
<1>2. [CacheNext]_cacheVars => UNCHANGED orderly
  BY DEF CacheNext, ProjectPart, OrganizationPart, cacheVars, orgVars, OrgNext, OrgStep, LookUp,
         StartWrite, Arrives, Wrote, FetchRows, StoreEntry, createOrganization,
         updateOrganization, deleteOrganization, acceptInvitation, updateMemberRole,
         removeMember, Refused, DeleteKeys, OrgFails, ExpireEntry
<1>3. orderly \in BOOLEAN /\ [CacheNext]_cacheVars => (orderly \in BOOLEAN)'
  BY <1>2
<1>4. ProjectInv => TypeOK
  BY DEF ProjectInv, TypeOK, HandlerOK, Handler, Request
<1>5. OrganizationInv /\ orderly \in BOOLEAN => OrgTypeOK
  BY DEF OrganizationInv, OrganizationRows, OrgHandlerOK, OrgTypeOK, OrgKeys
<1> QED
  BY <1>1, <1>3, <1>4, <1>5, ProjectInvariance, OrganizationInvariance, PTL DEF CacheSpec

(* "automatic invalidation" of the cached reads of projects (getProjectById*)
(* and getProjects of project.service.ts), for any projects, queries and   *)
(* handlers that run one at a time while nothing fails.                    *)
THEOREM ProjectReadsAreFresh == CacheSpec => []CalmCacheIsFresh
<1>1. ProjectInv /\ (calm => CalmProjects) => CalmCacheIsFresh
  BY DEF CalmCacheIsFresh, CalmProjects, FreshCache, FreshProject
<1> QED
  BY <1>1, ProjectInvariance, PTL

(* "automatic invalidation" of what is cached of organizations and of a    *)
(* user's organizations (organization.service.ts), for handlers that run   *)
(* one at a time while nothing fails.                                      *)
THEOREM OrganizationReadsAreFresh == CacheSpec => []OrderlyReadsAreFresh
<1>1. OrganizationInv /\ (orderly => OrderlyOrganizations) => OrderlyReadsAreFresh
  BY OrgCacheConstants
     DEF OrderlyReadsAreFresh, OrderlyOrganizations, FreshEntries, FreshRows, OrgKeys
<1> QED
  BY <1>1, OrganizationInvariance, PTL

-----------------------------------------------------------------------------
(* The revocation of access tokens, for any tokens, processes, requests,   *)
(* hash functions and lifetimes.                                           *)

USE DEF revocationVars

(* A request at work has a token and a process.                            *)
Busy == \A r \in Calls :
    call[r].pc # "idle" => call[r].token \in Tokens /\ call[r].at \in Instances

(* What a process was asked to revoke it finds locally.                    *)
OwnIsLocal ==
    \A i \in Instances, t \in Tokens :
        t \in own[i] => t \in exact[i] /\ Indexes[t] \subseteq bits[i]

(* A stored entry lives at least as long as its token, and so does one     *)
(* that is about to be stored.                                             *)
Outlives ==
    /\ \A t \in Tokens : mark[t] = "stored" => deny[t] >= life[t]
    /\ \A r \in Calls : call[r].pc = "setex" /\ call[r].kind # "decoded"
                            => call[r].ttl >= life[call[r].token]

(* Nothing is remembered or stored of a token nobody asked to revoke.      *)
OnlyAsked ==
    /\ \A i \in Instances, t \in Tokens : t \in exact[i] => mark[t] # "none"
    /\ \A t \in Tokens : deny[t] > 0 => mark[t] # "none"
    /\ \A r \in Calls : call[r].pc = "setex" => mark[call[r].token] # "none"

Inv ==
    /\ RevocationTypeOK
    /\ Busy
    /\ OwnIsLocal
    /\ Outlives
    /\ OnlyAsked
    /\ RevokedIsRefused
    /\ OnlyRevokedAreRefused

USE DEF Inv, Busy, OwnIsLocal, Outlives, OnlyAsked, RevokedIsRefused,
        OnlyRevokedAreRefused, RevocationTypeOK

(* An idle slot says nothing.                                              *)
LEMMA IdleCall == NoCall \in Call /\ NoCall.pc = "idle"
  BY TtlAssumption DEF NoCall, NewCall, Call

(* Initially nothing is revoked.                                           *)
LEMMA InitInv == RevocationInit => Inv
  BY IdleCall, LifetimeAssumption, TtlAssumption DEF RevocationInit

(* A check begins.                                                         *)
LEMMA StartCheckStep ==
    ASSUME Inv, NEW r \in Calls, StartCheck(r)  PROVE Inv'
<1>1. PICK i \in Instances, t \in Tokens, kind \in {"required", "optional"} :
          /\ life[t] > 0
          /\ call' = [call EXCEPT ![r] =
                NewCall(IF IsRevoked(i, t) THEN "refused" ELSE "exists",
                        kind, i, t, 0, Known(i, t))]
  BY DEF StartCheck
<1>2. UNCHANGED <<life, deny, bits, exact, mark, own>>
  BY DEF StartCheck
<1>3. Known(i, t) \in BOOLEAN
  BY DEF Known
<1> DEFINE new == NewCall(IF IsRevoked(i, t) THEN "refused" ELSE "exists",
                          kind, i, t, 0, Known(i, t))
<1>4. /\ new \in Call /\ new.at = i /\ new.token = t /\ new.known = Known(i, t)
      /\ new.pc = IF IsRevoked(i, t) THEN "refused" ELSE "exists"
  BY <1>3, TtlAssumption DEF NewCall, Call
<1>5. new.pc = "refused" => mark[t] # "none"
  BY <1>4 DEF IsRevoked
<1>6. new.pc # "accepted" /\ new.pc # "setex"
  BY <1>4
<1>7. \A x \in Calls : call'[x] = IF x = r THEN new ELSE call[x]
  BY <1>1
<1>8. call' \in [Calls -> Call]
  BY <1>1, <1>4
<1> HIDE DEF new
<1> QED BY <1>2, <1>4, <1>5, <1>6, <1>7, <1>8

(* Redis has answered.                                                     *)
LEMMA ExistsReplyStep ==
    ASSUME Inv, NEW r \in Calls, ExistsReply(r)  PROVE Inv'
<1> DEFINE i == call[r].at
           t == call[r].token
           known == call[r].known /\ mark[t] = "stored"
           answer(pc) == NewCall(pc, call[r].kind, i, t, 0, known)
<1>1. call[r].pc = "exists" /\ call[r] \in Call /\ i \in Instances /\ t \in Tokens
  BY DEF ExistsReply
<1>2. UNCHANGED <<life, deny, mark, own>>
  BY DEF ExistsReply
<1>3. \A pc \in {"accepted", "refused"} :
          /\ answer(pc) \in Call /\ answer(pc).pc = pc /\ answer(pc).token = t
          /\ answer(pc).at = i /\ answer(pc).known = known
  BY <1>1, TtlAssumption DEF NewCall, Call
<1>4. CASE deny[t] > 0 /\ Remember(i, t) /\ Reply(r, "refused")
  <2>1. mark[t] # "none"
    BY <1>1, <1>4
  <2>2. call' = [call EXCEPT ![r] = answer("refused")]
    BY <1>4 DEF Reply
  <2>3. bits' = [bits EXCEPT ![i] = @ \cup Indexes[t]] /\ exact' = [exact EXCEPT ![i] = @ \cup {t}]
    BY <1>4 DEF Remember
  <2> DEFINE new == answer("refused")
  <2>4. new \in Call /\ new.pc = "refused" /\ new.token = t /\ new.at = i
    BY <1>3
  <2> HIDE DEF answer, new
  <2>5. /\ call' \in [Calls -> Call]
        /\ \A x \in Calls : call'[x] = IF x = r THEN new ELSE call[x]
    BY <2>2, <2>4 DEF new
  <2>6. /\ bits' \in [Instances -> SUBSET Bits] /\ exact' \in [Instances -> SUBSET Tokens]
        /\ \A k \in Instances : bits[k] \subseteq bits'[k] /\ exact[k] \subseteq exact'[k]
        /\ \A k \in Instances, v \in Tokens : v \in exact'[k] => v \in exact[k] \/ v = t
    BY <2>3, <1>1, IndexesAssumption
  <2>7. OwnIsLocal'
    BY <1>2, <2>6
  <2>8. OnlyAsked' /\ Busy' /\ Outlives'
    BY <1>1, <1>2, <2>1, <2>4, <2>5, <2>6
  <2>9. RevokedIsRefused' /\ OnlyRevokedAreRefused' /\ RevocationTypeOK'
    BY <1>1, <1>2, <2>1, <2>4, <2>5, <2>6
  <2> QED BY <2>7, <2>8, <2>9
<1>5. CASE deny[t] = 0 /\ Reply(r, "accepted") /\ UNCHANGED <<bits, exact>>
  <2>1. known => life[t] = 0
    BY <1>1, <1>5
  <2>2. call' = [call EXCEPT ![r] = answer("accepted")]
    BY <1>5 DEF Reply
  <2> DEFINE new == answer("accepted")
  <2>3. new \in Call /\ new.pc = "accepted" /\ new.token = t /\ new.at = i
        /\ new.known = known
    BY <1>3
  <2> HIDE DEF answer, new, known
  <2>4. /\ call' \in [Calls -> Call]
        /\ \A x \in Calls : call'[x] = IF x = r THEN new ELSE call[x]
    BY <2>2, <2>3 DEF new
  <2> QED BY <1>1, <1>2, <1>5, <2>1, <2>3, <2>4
<1> QED BY <1>4, <1>5 DEF ExistsReply

(* A revocation begins: with a time to live that covers the token's life,  *)
(* unless the token was only decoded.                                      *)
LEMMA RevokingStep ==
    ASSUME Inv, NEW r \in Calls, NEW kind \in {"required", "logout", "decoded"},
           NEW i \in Instances, NEW t \in Tokens, NEW ttl \in 0..DefaultTtl,
           kind # "decoded" => ttl >= life[t], Revoking(r, kind, i, t, ttl)
    PROVE  Inv'
<1> DEFINE new == NewCall("setex", kind, i, t, ttl, FALSE)
<1>1. new \in Call /\ new.pc = "setex" /\ new.token = t /\ new.at = i /\ new.ttl = ttl
      /\ new.kind = kind
  BY DEF NewCall, Call
<1> HIDE DEF new
<1>2. /\ call' \in [Calls -> Call]
      /\ \A x \in Calls : call'[x] = IF x = r THEN new ELSE call[x]
  BY <1>1 DEF Revoking, new
<1>3. UNCHANGED <<life, deny>>
  BY DEF Revoking
<1>4. /\ bits' = [bits EXCEPT ![i] = @ \cup Indexes[t]]
      /\ exact' = [exact EXCEPT ![i] = @ \cup {t}]
      /\ own' = [own EXCEPT ![i] = @ \cup {t}]
      /\ mark' = [mark EXCEPT ![t] = IF @ = "none" THEN "asked" ELSE @]
  BY DEF Revoking, Remember
<1>5. /\ bits' \in [Instances -> SUBSET Bits] /\ exact' \in [Instances -> SUBSET Tokens]
      /\ own' \in [Instances -> SUBSET Tokens]
      /\ mark' \in [Tokens -> {"none", "asked", "stored", "decoded"}]
  BY <1>4, IndexesAssumption
<1>6. /\ \A k \in Instances, v \in Tokens : v \in exact'[k] <=> v \in exact[k] \/ (k = i /\ v = t)
      /\ \A k \in Instances, v \in Tokens : v \in own'[k] <=> v \in own[k] \/ (k = i /\ v = t)
      /\ \A k \in Instances : bits[k] \subseteq bits'[k]
      /\ Indexes[t] \subseteq bits'[i]
  BY <1>4
<1>7. /\ mark'[t] # "none"
      /\ \A v \in Tokens : mark[v] # "none" => mark'[v] # "none"
      /\ \A v \in Tokens : mark[v] = "stored" <=> mark'[v] = "stored"
  BY <1>4
<1>8. OwnIsLocal'
  BY <1>6
<1>9. Busy' /\ Outlives'
  BY <1>1, <1>2, <1>3, <1>7
<1>10. OnlyAsked' /\ RevokedIsRefused' /\ OnlyRevokedAreRefused'
  BY <1>1, <1>2, <1>3, <1>6, <1>7
<1> QED BY <1>2, <1>3, <1>5, <1>8, <1>9, <1>10

(* logout and changePassword give such a time.                             *)
LEMMA StartRevokingStep ==
    ASSUME Inv, NEW r \in Calls,
           StartLogout(r) \/ StartLogoutDecoded(r) \/ RevokeCurrent(r)
    PROVE  Inv'
<1>1. CASE StartLogout(r)
  <2>1. PICK i \in Instances, t \in Tokens :
            life[t] > 0 /\ Revoking(r, "logout", i, t, LogoutTtl(t))
    BY <1>1 DEF StartLogout
  <2>2. LogoutTtl(t) \in 0..DefaultTtl /\ LogoutTtl(t) >= life[t]
    BY TtlAssumption, LifetimeAssumption DEF LogoutTtl
  <2> QED BY <2>1, <2>2, RevokingStep
<1>2. CASE RevokeCurrent(r)
  <2>1. /\ call[r].at \in Instances /\ call[r].token \in Tokens
        /\ Revoking(r, "required", call[r].at, call[r].token, DefaultTtl)
    BY <1>2 DEF RevokeCurrent
  <2>2. DefaultTtl \in 0..DefaultTtl /\ DefaultTtl >= life[call[r].token]
    BY <2>1, TtlAssumption, LifetimeAssumption
  <2> QED BY <2>1, <2>2, RevokingStep
<1>3. CASE StartLogoutDecoded(r)
  <2>1. PICK i \in Instances, t \in Tokens, ttl \in 1..DefaultTtl :
            Revoking(r, "decoded", i, t, ttl)
    BY <1>3 DEF StartLogoutDecoded
  <2>2. ttl \in 0..DefaultTtl
    BY TtlAssumption
  <2> QED BY <2>1, <2>2, RevokingStep
<1> QED BY <1>1, <1>2, <1>3

(* The entry is stored.                                                    *)
LEMMA SetexStep ==
    ASSUME Inv, NEW r \in Calls, Setex(r)  PROVE Inv'
<1> DEFINE t == call[r].token
           stored == IF call[r].kind = "decoded" THEN "decoded" ELSE "stored"
<1>1. /\ t \in Tokens /\ call[r].ttl \in 0..DefaultTtl
      /\ stored \in {"stored", "decoded"}
      /\ stored = "stored" => call[r].ttl >= life[t]
  BY DEF Setex, Call
<1>2. /\ deny' = [deny EXCEPT ![t] = call[r].ttl]
      /\ mark' = [mark EXCEPT ![t] = stored]
      /\ UNCHANGED <<life, bits, exact, own>>
  BY DEF Setex
<1>3. /\ call' \in [Calls -> Call]
      /\ \A x \in Calls : call'[x] = IF x = r THEN NoCall ELSE call[x]
  BY IdleCall DEF Setex
<1> HIDE DEF t, stored
<1>4. /\ \A v \in Tokens : mark'[v] = IF v = t THEN stored ELSE mark[v]
      /\ \A v \in Tokens : deny'[v] = IF v = t THEN call[r].ttl ELSE deny[v]
  BY <1>1, <1>2
<1>5. RevocationTypeOK' /\ Busy' /\ OwnIsLocal'
  BY <1>1, <1>2, <1>3, IdleCall
<1>6. Outlives'
  BY <1>1, <1>2, <1>3, <1>4, IdleCall
<1>7. OnlyAsked' /\ RevokedIsRefused' /\ OnlyRevokedAreRefused'
  BY <1>1, <1>2, <1>3, <1>4, IdleCall
<1> QED BY <1>5, <1>6, <1>7

(* A request ends and leaves everything as it is.                          *)
LEMMA EndStep ==
    ASSUME Inv, NEW r \in Calls, ExistsFails(r) \/ SetexFails(r) \/ FinishCall(r)
    PROVE  Inv'
<1>1. /\ call' = [call EXCEPT ![r] = NoCall]
      /\ UNCHANGED <<life, deny, bits, exact, mark, own>>
  BY DEF ExistsFails, SetexFails, FinishCall
<1>2. /\ call' \in [Calls -> Call]
      /\ \A x \in Calls : call'[x] = NoCall \/ call'[x] = call[x]
  BY <1>1, IdleCall
<1> QED BY <1>1, <1>2, IdleCall

(* A process forgets what it knew and what it was doing.                   *)
LEMMA RestartStep ==
    ASSUME Inv, NEW i \in Instances, Restart(i)  PROVE Inv'
<1>1. /\ bits' = [bits EXCEPT ![i] = {}] /\ exact' = [exact EXCEPT ![i] = {}]
      /\ own' = [own EXCEPT ![i] = {}] /\ UNCHANGED <<life, deny, mark>>
  BY DEF Restart
<1>2. /\ call' \in [Calls -> Call]
      /\ \A x \in Calls : call'[x] = NoCall \/ call'[x] = call[x]
  BY IdleCall DEF Restart
<1>3. /\ bits' \in [Instances -> SUBSET Bits] /\ exact' \in [Instances -> SUBSET Tokens]
      /\ own' \in [Instances -> SUBSET Tokens]
      /\ \A k \in Instances : exact'[k] \subseteq exact[k]
  BY <1>1
<1>4. OwnIsLocal'
  BY <1>1
<1>5. Busy' /\ Outlives' /\ OnlyAsked'
  BY <1>1, <1>2, <1>3, IdleCall
<1>6. RevokedIsRefused' /\ OnlyRevokedAreRefused'
  BY <1>1, <1>2, IdleCall
<1> QED BY <1>1, <1>2, <1>3, <1>4, <1>5, <1>6

(* Tokens and entries grow older together.                                 *)
LEMMA TickStep == ASSUME Inv, Tick  PROVE Inv'
<1>1. /\ life' = [t \in Tokens |-> Less(life[t])] /\ deny' = [t \in Tokens |-> Less(deny[t])]
      /\ UNCHANGED <<bits, exact, call, mark, own>>
  BY DEF Tick
<1>2. \A t \in Tokens : life[t] \in 0..Lifetime /\ deny[t] \in 0..DefaultTtl
  OBVIOUS
<1>3. \A t \in Tokens :
          /\ life'[t] = Less(life[t]) /\ deny'[t] = Less(deny[t])
          /\ life'[t] <= life[t] /\ deny'[t] <= deny[t]
          /\ life'[t] \in Nat /\ deny'[t] \in Nat
          /\ deny[t] >= life[t] => deny'[t] >= life'[t]
  <2> TAKE t \in Tokens
  <2>1. life[t] \in Nat /\ deny[t] \in Nat
    BY <1>2, LifetimeAssumption, TtlAssumption
  <2> QED BY <1>1, <2>1 DEF Less
<1>4. life' \in [Tokens -> 0..Lifetime] /\ deny' \in [Tokens -> 0..DefaultTtl]
  <2>1. \A t \in Tokens : Less(life[t]) \in 0..Lifetime /\ Less(deny[t]) \in 0..DefaultTtl
    <3> TAKE t \in Tokens
    <3>1. life[t] \in 0..Lifetime /\ deny[t] \in 0..DefaultTtl
      BY <1>2
    <3> QED BY <3>1, LifetimeAssumption, TtlAssumption DEF Less
  <2> QED BY <1>1, <2>1
<1>5. RevocationTypeOK' /\ Busy' /\ OwnIsLocal'
  BY <1>1, <1>4
<1>6. Outlives'
  <2>1. \A r \in Calls : call[r].pc = "setex" =>
            call[r].token \in Tokens /\ call[r].ttl \in Nat
    BY TtlAssumption DEF Call
  <2> QED BY <1>1, <1>2, <1>3, <2>1
<1>7. OnlyAsked'
  BY <1>1, <1>2, <1>3
<1>8. RevokedIsRefused' /\ OnlyRevokedAreRefused'
  BY <1>1, <1>2, <1>3
<1> QED BY <1>5, <1>6, <1>7, <1>8

(* Inv is an invariant.                                                    *)
LEMMA Invariance == RevocationSpec => []Inv
<1>1. Inv /\ [RevocationNext]_revocationVars => Inv'
  <2> SUFFICES ASSUME Inv, [RevocationNext]_revocationVars  PROVE Inv'
    OBVIOUS
  <2>1. ASSUME NEW r \in Calls, RevocationStep(r)  PROVE Inv'
    BY <2>1, StartCheckStep, ExistsReplyStep, StartRevokingStep, SetexStep, EndStep
       DEF RevocationStep
  <2>2. CASE UNCHANGED revocationVars
    BY <2>2
  <2> QED BY <2>1, <2>2, RestartStep, TickStep DEF RevocationNext
<1> QED BY <1>1, InitInv, PTL DEF RevocationSpec

-----------------------------------------------------------------------------
(* Filters, denylist and requests keep their types, whatever fails.        *)
THEOREM RevocationTypeCorrect == RevocationSpec => []RevocationTypeOK
  BY Invariance, PTL

(* bloom.ts:138: for every life of a token and default time to live that   *)
(* is not shorter, any delays, restarts and failures of Redis, a check     *)
(* during which Redis holds the revocation as it was stored last for a     *)
(* token that verified (or a check on the process that took a revocation)  *)
(* lets no living token through.  A logout with a token that is only       *)
(* decoded ends that (auth.service.ts:268-281).                            *)
THEOREM RevocationHolds == RevocationSpec => []RevokedIsRefused
  BY Invariance, PTL

(* bloom.ts:102: for every hash function, collisions refuse nobody.        *)
THEOREM CollisionsAreHarmless == RevocationSpec => []OnlyRevokedAreRefused
  BY Invariance, PTL
===============================================================================

------------------------------ MODULE TwoFactor ------------------------------
(***************************************************************************)
(* Two-factor authentication of one account: setup2fa, verifyAndEnable2fa, *)
(* disable2fa, login and verifyMfaLogin of src/modules/auth/auth.service   *)
(* .ts over totpSecret and totpEnabled of the user's row.  Every operation *)
(* reads the row, and writes what follows from what it read in a later     *)
(* await.  A code is one of a secret's codes for the current time step or  *)
(* a neighbour of it (src/utils/totp.ts); a user enters codes of secrets   *)
(* that setup has shown.                                                   *)
(***************************************************************************)
EXTENDS Naturals

CONSTANTS
    Secrets,     \* supply of secrets generateSecret draws from
    Operations,  \* request slots
    NoSecret

ASSUME SecretAssumption == NoSecret \notin Secrets

VARIABLES
    totp,    \* totpSecret and totpEnabled of the row
    shown,   \* history: secrets returned by setup, with the last one
    proven,  \* history: secrets a code was verified for
    op,      \* what each request slot is doing
    alone    \* environment: whether requests come one at a time

totpVars == <<totp, shown, proven, op, alone>>

Op == [pc : {"idle", "setup", "enable", "disable", "session", "in"},
       seen : Secrets \cup {NoSecret}, passed : BOOLEAN]
NewOp(pc, seen, passed) == [pc |-> pc, seen |-> seen, passed |-> passed]
NoOp == NewOp("idle", NoSecret, FALSE)

TotpInit ==
    /\ totp = [secret |-> NoSecret, enabled |-> FALSE]
    /\ shown = [all |-> {}, last |-> NoSecret]
    /\ proven = {}
    /\ op = [o \in Operations |-> NoOp]
    /\ alone \in BOOLEAN

BeginOp(o, pc, seen, passed) ==
    /\ op[o].pc = "idle"
    /\ alone => \A x \in Operations : op[x].pc \in {"idle", "in"}
    /\ op' = [op EXCEPT ![o] = NewOp(pc, seen, passed)]

EndOp(o) == op' = [op EXCEPT ![o] = NoOp]

(* verifyTotpCode: one of the secret's codes, for a secret the user has.   *)
CodeFor(secret) == secret \in shown.all

-----------------------------------------------------------------------------
StartSetup(o) ==
    /\ BeginOp(o, "setup", NoSecret, FALSE)
    /\ UNCHANGED <<totp, shown, proven, alone>>

(* A new secret, not enabled, whatever was there.                          *)
WriteSetup(o) ==
    /\ op[o].pc = "setup"
    /\ \E s \in Secrets \ shown.all :
           /\ totp' = [secret |-> s, enabled |-> FALSE]
           /\ shown' = [all |-> shown.all \cup {s}, last |-> s]
    /\ EndOp(o)
    /\ UNCHANGED <<proven, alone>>

StartVerify(o) ==
    /\ totp.secret # NoSecret
    /\ CodeFor(totp.secret)
    /\ BeginOp(o, "enable", totp.secret, FALSE)
    /\ proven' = proven \cup {totp.secret}
    /\ UNCHANGED <<totp, shown, alone>>

BugWriteEnable(o) ==
    /\ op[o].pc = "enable"
    /\ totp' = [secret |-> totp.secret, enabled |-> TRUE]
    /\ EndOp(o)
    /\ UNCHANGED <<shown, proven, alone>>

(* The secret that was read is written again, and enabled.                 *)
WriteEnable(o) ==
    /\ op[o].pc = "enable"
    /\ totp' = [secret |-> op[o].seen, enabled |-> TRUE]
    /\ EndOp(o)
    /\ UNCHANGED <<shown, proven, alone>>

StartDisable(o) ==
    /\ totp.enabled
    /\ totp.secret # NoSecret
    /\ CodeFor(totp.secret)
    /\ BeginOp(o, "disable", totp.secret, FALSE)
    /\ UNCHANGED <<totp, shown, proven, alone>>

WriteDisable(o) ==
    /\ op[o].pc = "disable"
    /\ totp' = [secret |-> NoSecret, enabled |-> FALSE]
    /\ EndOp(o)
    /\ UNCHANGED <<shown, proven, alone>>

(* login without a second factor: the row read has it off.  With it on the *)
(* answer is a challenge and nothing changes.                              *)
StartPlainLogin(o) ==
    /\ ~totp.enabled
    /\ BeginOp(o, "session", NoSecret, FALSE)
    /\ UNCHANGED <<totp, shown, proven, alone>>

(* verifyMfaLogin, with the challenge of an earlier login.                 *)
StartMfaLogin(o) ==
    /\ totp.enabled
    /\ totp.secret # NoSecret
    /\ CodeFor(totp.secret)
    /\ BeginOp(o, "session", totp.secret, TRUE)
    /\ UNCHANGED <<totp, shown, proven, alone>>

(* createRefreshSession                                                    *)
OpenSession(o) ==
    /\ op[o].pc = "session"
    /\ op' = [op EXCEPT ![o] = NewOp("in", @.seen, @.passed)]
    /\ UNCHANGED <<totp, shown, proven, alone>>

(* The response is sent; or an await threw.                                *)
FinishOp(o) ==
    /\ op[o].pc # "idle"
    /\ EndOp(o)
    /\ UNCHANGED <<totp, shown, proven, alone>>

TotpNext == \E o \in Operations :
    \/ StartSetup(o) \/ WriteSetup(o)
    \/ StartVerify(o) \/ WriteEnable(o)
    \/ StartDisable(o) \/ WriteDisable(o)
    \/ StartPlainLogin(o) \/ StartMfaLogin(o) \/ OpenSession(o)
    \/ FinishOp(o)

TotpSpec == TotpInit /\ [][TotpNext]_totpVars

-----------------------------------------------------------------------------
(* The row and the requests keep their types.                              *)
TotpTypeOK ==
    /\ totp \in [secret : Secrets \cup {NoSecret}, enabled : BOOLEAN]
    /\ shown \in [all : SUBSET Secrets, last : Secrets \cup {NoSecret}]
    /\ proven \subseteq Secrets
    /\ op \in [Operations -> Op]
    /\ alone \in BOOLEAN

(* Nobody is locked out by a secret no authenticator holds: two-factor     *)
(* authentication is only ever on with a secret a code was verified for,   *)
(* although setup may replace the secret between the verification and the  *)
(* write that enables it, and sessions opened with a second factor passed  *)
(* such a secret.  For requests that come one at a time it is also the     *)
(* secret the user was shown last.                                         *)
EnabledIsProven ==
    /\ totp.enabled => totp.secret \in proven
    /\ \A o \in Operations : op[o].passed => op[o].seen \in proven
    /\ (alone /\ totp.enabled) => totp.secret = shown.last
=============================================================================

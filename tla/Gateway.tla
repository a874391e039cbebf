------------------------------- MODULE Gateway -------------------------------
(***************************************************************************)
(* What stands before the operations of an account: the rate limiter of    *)
(* the authentication routes, and the second factor of a login.  They keep *)
(* separate state and never read each other's, so a behaviour of this      *)
(* module is a behaviour of one of them with the other at rest.            *)
(***************************************************************************)
EXTENDS RateLimit, TwoFactor

VARIABLE part   \* environment: the part that is exercised

gatewayVars == <<limitVars, totpVars, part>>

GatewayInit ==
    /\ LimitInit /\ TotpInit
    /\ part \in {"limit", "totp"}

Limit ==
    /\ part = "limit"
    /\ LimitNext
    /\ UNCHANGED <<totpVars, part>>

Totp ==
    /\ part = "totp"
    /\ TotpNext
    /\ UNCHANGED <<limitVars, part>>

GatewayNext == Limit \/ Totp

(* The limiter's fairness, when the limiter is what moves.                 *)
GatewaySpec == GatewayInit /\ [][GatewayNext]_gatewayVars /\ (part = "limit" => LimitFairness)

-----------------------------------------------------------------------------
(* Both parts keep their types.                                            *)
GatewayTypeOK == LimitTypeOK /\ TotpTypeOK
=============================================================================

------------------------------ MODULE MCGateway ------------------------------
(* Model-checking instance of Gateway.                                     *)
EXTENDS Gateway
=============================================================================

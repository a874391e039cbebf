----------------------------- MODULE MCReadCache -----------------------------
(* A model-checking instance of ReadCache.                                 *)
EXTENDS ReadCache
=============================================================================

------------------------------ MODULE MCCache ------------------------------
(* Model-checks Cache: two callers that may ask for the same of two keys,   *)
(* and a fallback store with room for one.                                 *)
EXTENDS Cache
=============================================================================

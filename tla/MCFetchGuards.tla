--------------------------- MODULE MCFetchGuards -----------------------------
(* FetchGuards for TLC: a bucket and a breaker per key.                     *)
EXTENDS FetchGuards
=============================================================================

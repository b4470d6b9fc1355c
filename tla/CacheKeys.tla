------------------------------ MODULE CacheKeys ------------------------------
(* The keys, for the modules that are about the same ones. *)
CONSTANT Keys     \* the cache keys
=============================================================================

---------------------------- MODULE MCCacheStack -----------------------------
(* CacheStack for TLC: the calls and the keys are interchangeable.          *)
EXTENDS CacheStack, TLC

Symmetry == Permutations(Ops) \cup Permutations(Keys)
=============================================================================

-------------------------- MODULE MCCacheConnection ---------------------------
(* Small instances of CacheConnection. *)
EXTENDS CacheConnection, TLC

Symmetry == Permutations(Tasks)
=============================================================================

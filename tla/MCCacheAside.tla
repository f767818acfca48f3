---------------------------- MODULE MCCacheAside ----------------------------
(* Two browsers and a handler that changes the catalog. *)
EXTENDS CacheAside, TLC

CONSTANTS r1, r2, w1

ReaderSymmetry == Permutations({r1, r2})
==============================================================================

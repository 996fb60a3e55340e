--------------------------- MODULE MCCacheCallers ---------------------------
(* Instance of CacheCallers for TLC: twice as many keys as the cache has   *)
(* room for, two callers, a clock that outlives the shorter lifetime.      *)
EXTENDS CacheCallers

(* One and two seconds; products that wrap around to a negative duration   *)
(* and to one second.                                                      *)
MCTTLs == {1, 2, 5, 9}
=============================================================================

--------------------------- MODULE MCCacheQueues ---------------------------
(* CacheQueues on small instances.                                         *)
EXTENDS CacheQueues, TLC

CONSTANTS m1, m2, m3

MshrSymmetry == Permutations(Mshr)
=============================================================================

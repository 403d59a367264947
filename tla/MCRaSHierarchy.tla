-------------------------- MODULE MCRaSHierarchy --------------------------
(* RaSHierarchy on small instances.                                       *)
EXTENDS RaSHierarchy, TLC

CONSTANTS a1, a2, v0, v1

One == [l \in Level |-> 1]
Two == [l \in Level |-> 2]
Three == [l \in Level |-> 3]
Both == [l \in Level |-> TRUE]
\* What steps depend on: all but the histories of the fill policy.
NoHistory == <<blk, mshr, wb, resp, mem, latest, stale, failed>>
AddrSymmetry == Permutations({a1, a2})
============================================================================

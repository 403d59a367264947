--------------------------- MODULE MCSharedBlock ---------------------------
(* SharedBlock for TLC: three L1 caches, of which one may stay unused.         *)
EXTENDS SharedBlock, TLC

CONSTANTS c1, c2, c3

\* The cores make ops[1], ops[2] and ops[3] accesses, and no cache evicts.
Plain(ops) ==
    [readOnly |-> {}, prefetching |-> {}, noFillFlags |-> BOOLEAN,
     evicting |-> {}, victimBusy |-> FALSE, fullBuffers |-> FALSE,
     maxOps |-> (c1 :> ops[1] @@ c2 :> ops[2] @@ c3 :> ops[3])]

\* Two cores with two accesses each; the L2 evicts.
Two == [Plain(<<2, 2, 0>>) EXCEPT !.evicting = {L2}]

\* Every cache evicts, and victims may be busy.
Busy == [Plain(<<2, 1, 0>>) EXCEPT !.evicting = {c1, c2, L2}, !.victimBusy = TRUE]

\* Three cores with one access each; the L2 evicts.
Three == [Plain(<<1, 1, 1>>) EXCEPT !.evicting = {L2}]

\* Two cores that never ask for a fill, and prefetches of what the first accesses.
Prefetching ==
    [Plain(<<2, 1, 0>>) EXCEPT !.prefetching = {c1}, !.noFillFlags = {TRUE},
                               !.evicting = {c1, c2, L2}]

\* An instruction cache besides two data caches.
Icache == [Plain(<<1, 1, 2>>) EXCEPT !.readOnly = {c3}, !.evicting = {c3, L2}]

Systems == {Two, Busy, Three, Prefetching, Icache}

\* The write buffers are full of other blocks.
Full == {[Plain(<<2, 2, 0>>) EXCEPT !.noFillFlags = {TRUE}, !.fullBuffers = TRUE]}
=============================================================================

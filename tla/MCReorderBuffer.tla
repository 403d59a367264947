-------------------------- MODULE MCReorderBuffer --------------------------
(* ReorderBuffer for TLC: what the programs consist of.                        *)
EXTENDS ReorderBuffer

Program(kinds, n) ==
    [Kinds |-> kinds, snoops |-> FALSE, tcWrites |-> FALSE, MaxInsts |-> n]

\* Loads behind branches that may be mispredicted.
Branches == Program({"load", "branch"}, 4)

\* Memory-order violations, forwarding, faults, and instructions that squash
\* everything behind them, while other caches invalidate blocks.
Mixed == [Program({"load", "store", "branch", "squashafter"}, 3)
             EXCEPT !.snoops = TRUE]

\* Traps, instructions that execute at the head, and writes of the thread
\* context from outside.
Traps == [Program({"load", "nonspec"}, 3) EXCEPT !.tcWrites = TRUE]

Programs == {Branches, Mixed, Traps}
OnlyBranches == {Branches}
=============================================================================

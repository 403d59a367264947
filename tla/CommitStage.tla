---------------------------- MODULE CommitStage ----------------------------
(***************************************************************************)
(* The commit stage, which drives the reorder buffer: what a cycle of it    *)
(* does, as a function of the state in which it begins and of the           *)
(* instructions that rename brings.  The variables are those of the core,   *)
(* ReorderBuffer has its actions.                                           *)
(***************************************************************************)
EXTENDS ROB

CONSTANTS
    numEntries,   \* entries of the ROB
    commitWidth,  \* instructions committed per cycle
    renameWidth,  \* instructions renamed per cycle
    rasAll, rasLoad, rasSpec,  \* the protection mode of the core
    Scenarios     \* the programs and the events around them

Scenario ==
    [Kinds    : SUBSET ({"load", "store", "branch"} \cup Special),
                         \* the kinds of instruction the program contains
     snoops   : BOOLEAN, \* other caches may invalidate blocks this core has read
     tcWrites : BOOLEAN, \* the thread context may be written from outside
     MaxInsts : Nat]     \* bound: instructions the program brings in

ASSUME CommitAssumption ==
    /\ {numEntries, commitWidth, renameWidth} \subseteq Nat \ {0}
    /\ Scenarios \subseteq Scenario
    /\ {rasAll, rasLoad, rasSpec} \subseteq BOOLEAN
    \* BaseCPU panics unless at most one mode is enabled.
    /\ ~(rasAll /\ rasLoad) /\ ~(rasAll /\ rasSpec) /\ ~(rasLoad /\ rasSpec)

VARIABLES
    scenario,        \* fixed in the initial state
    rob,             \* the instructions in the ROB, oldest first
    nextSeq,         \* sequence number of the next instruction
    squashIt,        \* position of the squash walk, 0 when done squashing
    squashedSeqNum,  \* the walk squashes the instructions younger than this
    commitStatus, trapSquash, tcSquash,
    squashAfterInst, \* the instruction that asked for a squash behind it, or 0
    youngestSeqNum, lastCommitedSeqNum,
    toCommit,        \* what IEW has written for commit in this cycle
    fromIEW,         \* what it wrote in the last one
    lqHead,          \* a load committed last cycle is still in the load queue
    storesToWB,      \* committed stores that have not been written back
    shb              \* the accesses sent to the SHB, in order

Kinds == scenario.Kinds
snoops == scenario.snoops
tcWrites == scenario.tcWrites
MaxInsts == scenario.MaxInsts

\* IEW drops what is younger than doneSeqNum: the load/store queue marks its
\* entries squashed, the instruction queue lets the others flow to commit.
iewSquash(r, doneSeqNum) ==
    [k \in DOMAIN r |->
        IF r[k].sn <= doneSeqNum THEN r[k]
        ELSE [(IF isMemRef(r[k]) THEN setSquashed(r[k], doneSeqNum) ELSE r[k])
                 EXCEPT !.canCommit = @ \/ r[k].st # "executed",
                        !.st = IF @ = "executed" THEN @ ELSE "dropped"]]

-----------------------------------------------------------------------------
(* The stages of a cycle.  The record c also has the status of commit, the    *)
(* pending squashes, and squash, the number it tells IEW to squash from.      *)

\* Squash every instruction of the thread.
squashAll(c) ==
    LET sn == IF c.rob = << >> THEN c.last ELSE c.rob[1].sn - 1
    IN robSquash([c EXCEPT !.youngest = c.last], sn)

\* Faulty variant: squashAfterInst is not reset.
pendingSquashesKeepAfter(c) ==
    IF c.trap THEN [squashAll(c) EXCEPT !.trap = FALSE]
    ELSE IF c.tc THEN [squashAll(c) EXCEPT !.tc = FALSE]
    ELSE IF c.status = "SquashAfterPending" THEN squashAll(c)
    ELSE c

\* The squashes that were pending when the cycle began.
pendingSquashes(c) ==
    IF c.trap THEN [squashAll(c) EXCEPT !.trap = FALSE]
    ELSE IF c.tc THEN [squashAll(c) EXCEPT !.tc = FALSE]
    ELSE IF c.status = "SquashAfterPending"
    THEN [squashAll(c) EXCEPT !.after = 0]
    ELSE c

\* The squash IEW asked for, unless a trap or an older squash supersedes it.
squashFromIEW(c) ==
    LET sn == fromIEW.sn - (IF fromIEW.includeSquashInst THEN 1 ELSE 0)
    IN IF fromIEW.squash /\ c.status # "TrapPending" /\ fromIEW.sn <= c.youngest
       THEN robSquash([c EXCEPT !.youngest = sn], sn)
       ELSE c

\* The renamed instructions enter the ROB.
getInsts(c, kinds) ==
    IF kinds = << >> THEN c
    ELSE [c EXCEPT !.rob = @ \o [j \in DOMAIN kinds |->
                                    NewInst(nextSeq + j - 1, kinds[j])],
                   !.youngest = nextSeq + Len(kinds) - 1]

\* Try to commit the head; the fields num and stop belong to commitInsts.
commitHead(c) ==
    LET head == c.rob[1]
        waits == c.num > 0 \/ storesToWB > 0
    IN IF head.st # "executed"
       THEN IF waits THEN [c EXCEPT !.stop = TRUE]
            ELSE [c EXCEPT !.rob[1] = [@ EXCEPT !.canCommit = FALSE,
                                                !.st = "released"],
                           !.stop = TRUE]
       ELSE IF head.fault # "none"
       THEN [c EXCEPT !.stop = TRUE,
                      !.status = IF waits THEN @ ELSE "TrapPending"]
       ELSE [retireHead(c) EXCEPT
                !.last = head.sn, !.num = @ + 1,
                !.lq = @ \/ head.kind = "load",
                !.stores = IF head.kind = "store" THEN @ + 1 ELSE @,
                !.status = IF head.kind = "squashafter"
                           THEN "SquashAfterPending" ELSE @,
                !.after = IF head.kind = "squashafter" THEN head.sn ELSE @]

commitInst(c) ==
    IF \/ c.stop \/ c.num = commitWidth \/ c.status # "Running"
       \/ c.rob = << >> \/ ~c.rob[1].canCommit
    THEN [c EXCEPT !.stop = TRUE]
    ELSE IF c.rob[1].squashed THEN retireHead(c)
    ELSE commitHead(c)

\* Squashed instructions leave without using commit bandwidth.
commitInsts(c) ==
    LET loop[n \in 0..Len(c.rob)] == IF n = 0 THEN c ELSE commitInst(loop[n - 1])
    IN  loop[Len(c.rob)]

\* Faulty variant: the scan comes first.
markCompletedInstsLast(c) ==
    LET v == updateVisibleState(c)
    IN [v EXCEPT !.rob = [k \in DOMAIN v.rob |->
                             IF v.rob[k].sn \in fromIEW.insts /\ ~v.rob[k].squashed
                             THEN [v.rob[k] EXCEPT !.canCommit = TRUE]
                             ELSE v.rob[k]]]

\* Mark what IEW finished as ready, then look for accesses that became safe.
markCompletedInsts(c) ==
    updateVisibleState(
        [c EXCEPT !.rob = [k \in DOMAIN c.rob |->
                              IF c.rob[k].sn \in fromIEW.insts /\ ~c.rob[k].squashed
                              THEN [c.rob[k] EXCEPT !.canCommit = TRUE]
                              ELSE c.rob[k]]])

\* Faulty variant: the end of the walk goes unnoticed.
continueSquashForever(c) == IF c.status # "ROBSquashing" THEN c ELSE doSquash(c)

\* The walk goes on, or was finished in an earlier cycle.
continueSquash(c) ==
    IF c.status # "ROBSquashing" THEN c
    ELSE IF doneSquashing(c) THEN [c EXCEPT !.status = "Running"]
    ELSE doSquash(c)

\* A cycle of commit.
tick(kinds) ==
    LET c0 == [rob |-> rob, it |-> squashIt, sq |-> squashedSeqNum,
               status |-> commitStatus, trap |-> trapSquash, tc |-> tcSquash,
               after |-> squashAfterInst,
               youngest |-> youngestSeqNum, last |-> lastCommitedSeqNum,
               shb |-> shb, lq |-> FALSE, stores |-> storesToWB, squash |-> {},
               num |-> 0, stop |-> FALSE]
        c1 == squashFromIEW(pendingSquashes(continueSquash(c0)))
        c2 == IF c1.status = "ROBSquashing" THEN c1
              ELSE commitInsts(IF c1.status = "TrapPending" THEN c1
                               ELSE getInsts(c1, kinds))
    IN markCompletedInsts(c2)

\* What rename may bring: at most renameWidth instructions for the free entries
\* of the ROB.  (What arrives during a squash is squashed, and left out.)
renamed ==
    {<< >>} \cup
    UNION {[1..n -> Kinds] : n \in {m \in 1..renameWidth :
                                      /\ Len(rob) + m <= numEntries
                                      /\ nextSeq + m <= MaxInsts + 1}}

=============================================================================

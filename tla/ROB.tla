-------------------------------- MODULE ROB --------------------------------
(***************************************************************************)
(* The reorder buffer of one thread: the instructions it holds, the squash  *)
(* walk, and updateVisibleState, which finds the accesses that became safe. *)
(* Its operations work on a record c that a cycle of commit threads through *)
(* its stages: c.rob, the instructions, oldest first; c.it, the position of *)
(* the squash walk, 0 when done squashing; c.sq, the number the walk        *)
(* squashes from; c.shb, what was sent to the SHB; and the fields that      *)
(* CommitStage adds.                                                        *)
(***************************************************************************)
EXTENDS Naturals, Sequences

CONSTANTS
    squashWidth,  \* instructions the squash walk marks per cycle
    robInsert     \* updateVisibleState marks and inserts accesses

ASSUME RobAssumption == squashWidth \in Nat \ {0} /\ robInsert \in BOOLEAN

\* "nonspec" stands for the instructions that execute only at the head of the
\* ROB, "squashafter" for those of them that also squash everything behind.
\* Read barriers and atomics, which updateVisibleState does not list although they
\* too are ready to commit at dispatch, are left out: see the README.
Special == {"nonspec", "squashafter"}

\* A new dynamic instruction.  st is its progress: "waiting", "dispatched"
\* (special ones), "released" (by commit, to execute at the head), "sent" (a
\* load without its data yet), "executed", or "dropped" (squashed in the
\* instruction queue before it executed).
NewInst(sn, kind) ==
    [sn |-> sn, kind |-> kind, st |-> "waiting", canCommit |-> FALSE,
     squashed |-> FALSE, from |-> {}, fault |-> "none", SHTpkt |-> FALSE,
     SHTinserted |-> FALSE, PrevInstsCompleted |-> FALSE, noFill |-> FALSE]

isMemRef(i) == i.kind \in {"load", "store"}

\* i is squashed; from remembers the number that the squash started from.
setSquashed(i, sn) ==
    [i EXCEPT !.squashed = TRUE, !.from = IF i.squashed THEN @ ELSE {sn}]

-----------------------------------------------------------------------------
doneSquashing(c) == c.it = 0

\* One cycle of the squash walk, from the tail towards the head: it is done when
\* it meets an instruction that the squash spares, or the head.
doSquash(c) ==
    LET upto == IF c.it > squashWidth THEN c.it - squashWidth ELSE 0
    IN [c EXCEPT !.rob = [k \in DOMAIN c.rob |->
                             IF k \in upto + 1 .. c.it /\ c.rob[k].sn > c.sq
                             THEN [setSquashed(c.rob[k], c.sq)
                                      EXCEPT !.canCommit = TRUE]
                             ELSE c.rob[k]],
                 !.it = IF upto = 0 THEN 0
                        ELSE IF c.rob[upto].sn <= c.sq THEN 0 ELSE upto]

\* Faulty variant: commit goes on during the walk.
robSquashRunning(c, sn) ==
    IF c.rob = << >> THEN [c EXCEPT !.squash = {sn}]
    ELSE doSquash([c EXCEPT !.squash = {sn}, !.it = Len(c.rob), !.sq = sn])

\* Start squashing what is younger than sn, and tell IEW to do so.
robSquash(c, sn) ==
    LET told == [c EXCEPT !.status = "ROBSquashing", !.squash = {sn}]
    IN IF c.rob = << >> THEN told
       ELSE doSquash([told EXCEPT !.it = Len(c.rob), !.sq = sn])

\* Faulty variant: branches are not waited for.
completedAnyBranch(i) ==
    \/ i.kind = "branch" /\ ~i.squashed
    \/ i.canCommit /\ i.fault = "none" /\ ~i.squashed /\ i.kind \notin Special

\* The instruction lets younger accesses count as safe.
completed(i) ==
    i.canCommit /\ i.fault = "none" /\ ~i.squashed /\ i.kind \notin Special

\* Scan the ROB in order: an access behind completed instructions only is
\* marked, and sent to the SHB once it has a packet and no walk is running.
isVisible(c, k) ==
    /\ robInsert /\ isMemRef(c.rob[k])
    /\ \A h \in 1..k - 1 : completed(c.rob[h])

\* Faulty variant: the access is sent in every cycle.
isInsertedAgain(c, k) ==
    isVisible(c, k) /\ c.rob[k].SHTpkt /\ doneSquashing(c)

\* Faulty variant: the mark has to be there when the scan begins.
isInsertedLate(c, k) ==
    /\ isVisible(c, k) /\ c.rob[k].PrevInstsCompleted
    /\ c.rob[k].SHTpkt /\ ~c.rob[k].SHTinserted /\ doneSquashing(c)

isInserted(c, k) ==
    /\ isVisible(c, k)
    /\ c.rob[k].SHTpkt /\ ~c.rob[k].SHTinserted /\ doneSquashing(c)

updateVisibleState(c) ==
    LET sendSHBinfo[k \in 0..Len(c.rob)] ==
            IF k = 0 THEN c.shb
            ELSE IF ~isInserted(c, k) THEN sendSHBinfo[k - 1]
            ELSE Append(sendSHBinfo[k - 1],
                        [sn |-> c.rob[k].sn, from |-> c.rob[k].from])
    IN [c EXCEPT
          !.rob = [k \in DOMAIN c.rob |->
                      [c.rob[k] EXCEPT
                         !.PrevInstsCompleted = @ \/ isVisible(c, k),
                         !.SHTinserted = @ \/ isInserted(c, k)]],
          !.shb = sendSHBinfo[Len(c.rob)]]

\* The head leaves the ROB.
retireHead(c) == [c EXCEPT !.rob = Tail(@)]

=============================================================================

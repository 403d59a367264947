--------------------------- MODULE ReorderBuffer ---------------------------
(***************************************************************************)
(* How the out-of-order core decides which memory accesses are safe: the   *)
(* reorder buffer (ROB) with its squash walk and updateVisibleState, the   *)
(* commit stage that drives it, and the part of IEW (issue, execute,       *)
(* writeback) and of the load/store queue that executes instructions,      *)
(* raises squashes and chooses between a fill and a no-fill request.       *)
(*                                                                         *)
(* One thread.  A cycle is any number of IEW steps followed by CommitTick: *)
(* IEW ticks before commit, commit sees what IEW wrote one cycle earlier   *)
(* (iewToCommitDelay = 1), and IEW handles a squash of commit before it    *)
(* executes anything in the next cycle (commitToIEWDelay = 1).  Addresses, *)
(* registers and data are left out: whether a branch was mispredicted, an  *)
(* access faults, or a store overlaps a younger load is any outcome.       *)
(***************************************************************************)
EXTENDS CommitStage

vars == <<scenario, rob, nextSeq, squashIt, squashedSeqNum, commitStatus, trapSquash,
          tcSquash, squashAfterInst, youngestSeqNum, lastCommitedSeqNum,
          toCommit, fromIEW, lqHead, storesToWB, shb>>

commitVars == <<scenario, nextSeq, squashIt, squashedSeqNum, commitStatus, trapSquash,
                tcSquash, squashAfterInst, youngestSeqNum, lastCommitedSeqNum,
                fromIEW, lqHead, shb>>

\* An empty slot of the time buffer from IEW to commit.
NoSignal == [insts |-> {}, squash |-> FALSE, sn |-> 0, includeSquashInst |-> FALSE]

Init ==
    /\ scenario \in Scenarios
    /\ rob = << >> /\ nextSeq = 1
    /\ squashIt = 0 /\ squashedSeqNum = 0
    /\ commitStatus = "Running" /\ trapSquash = FALSE /\ tcSquash = FALSE
    /\ squashAfterInst = 0
    /\ youngestSeqNum = 0 /\ lastCommitedSeqNum = 0
    /\ toCommit = NoSignal /\ fromIEW = NoSignal
    /\ lqHead = FALSE /\ storesToWB = 0
    /\ shb = << >>

-----------------------------------------------------------------------------
(* IEW and the load/store queue *)

\* The instruction at k can be executed: it is neither executed nor squashed.
canExecute(k) == rob[k].st = "waiting" /\ ~rob[k].squashed

instToCommit(sig, i) == [sig EXCEPT !.insts = @ \cup {i.sn}]

\* An older squash of the same cycle wins.
squashDueToBranch(sig, i) ==
    IF sig.squash /\ i.sn >= sig.sn THEN sig
    ELSE [sig EXCEPT !.squash = TRUE, !.sn = i.sn, !.includeSquashInst = FALSE]

squashDueToMemOrder(sig, violator) ==
    IF sig.squash /\ violator.sn > sig.sn THEN sig
    ELSE [sig EXCEPT !.squash = TRUE, !.sn = violator.sn,
                     !.includeSquashInst = TRUE]

\* An instruction that may only execute at the head is ready to commit as soon
\* as it is dispatched, so that commit notices it there.
Dispatch(k) ==
    /\ canExecute(k) /\ rob[k].kind \in Special
    /\ rob' = [rob EXCEPT ![k].st = "dispatched", ![k].canCommit = TRUE]
    /\ UNCHANGED <<commitVars, toCommit, storesToWB>>

ExecuteSpecial(k) ==
    /\ rob[k].st = "released" /\ ~rob[k].squashed
    /\ \E f \in {"none", "fault"} :
          rob' = [rob EXCEPT ![k].st = "executed", ![k].fault = f]
    /\ toCommit' = instToCommit(toCommit, rob[k])
    /\ UNCHANGED <<commitVars, storesToWB>>

ExecuteBranch(k) ==
    /\ canExecute(k) /\ rob[k].kind = "branch"
    /\ rob' = [rob EXCEPT ![k].st = "executed"]
    /\ LET sig == instToCommit(toCommit, rob[k])
       IN \/ toCommit' = sig
          \/ toCommit' = squashDueToBranch(sig, rob[k])
    /\ UNCHANGED <<commitVars, storesToWB>>

\* A load in the load queue that has read, or is reading, the cache.
effAddrValid(i) ==
    /\ i.kind = "load" /\ ~i.squashed
    /\ i.st \in {"sent", "executed"} /\ i.fault # "fault"

\* The younger loads a store may find in conflict: those, and the loads that have
\* their address and wait to be sent (again), any of which may be at hand.
violators(k) ==
    {j \in k + 1 .. Len(rob) :
        \/ effAddrValid(rob[j])
        \/ canExecute(j) /\ rob[j].kind = "load"}

\* A violation is not handled when an older instruction already squashes.
ExecuteStore(k) ==
    /\ canExecute(k) /\ rob[k].kind = "store"
    /\ LET sig == instToCommit(toCommit, rob[k])
       IN \/ /\ rob' = [rob EXCEPT ![k].st = "executed", ![k].fault = "fault"]
             /\ toCommit' = sig
          \/ /\ rob' = [rob EXCEPT ![k].st = "executed"]
             /\ \/ toCommit' = sig
                \/ \E j \in violators(k) :
                      toCommit' = IF sig.squash /\ sig.sn <= rob[k].sn THEN sig
                                  ELSE squashDueToMemOrder(sig, rob[j])
    /\ UNCHANGED <<commitVars, storesToWB>>

\* Whether the request of an access is marked NO_FILL.
addRequest(i) ==
    \/ rasAll
    \/ rasLoad /\ i.kind = "load"
    \/ rasSpec /\ i.kind = "load" /\ ~i.PrevInstsCompleted

\* A load faults in translation, or is forwarded the data of an older store
\* without a packet, or builds its packets (and SHTpkt) and sends them.
ExecuteLoad(k) ==
    /\ canExecute(k) /\ rob[k].kind = "load"
    /\ \/ /\ rob' = [rob EXCEPT ![k].st = "executed", ![k].fault = "fault",
                                ![k].noFill = addRequest(rob[k])]
          /\ toCommit' = instToCommit(toCommit, rob[k])
       \/ /\ \/ storesToWB > 0
             \/ \E h \in 1..k - 1 : rob[h].kind = "store" /\ rob[h].st = "executed"
          /\ rob' = [rob EXCEPT ![k].st = "sent", ![k].noFill = addRequest(rob[k])]
          /\ UNCHANGED toCommit
       \/ /\ rob' = [rob EXCEPT ![k].st = "sent", ![k].SHTpkt = TRUE,
                                ![k].noFill = addRequest(rob[k])]
          /\ UNCHANGED toCommit
    /\ UNCHANGED <<commitVars, storesToWB>>

\* The data of a load arrives; that of a squashed load is ignored.
writeback(k) ==
    /\ rob[k].st = "sent" /\ ~rob[k].squashed
    /\ rob' = [rob EXCEPT ![k].st = "executed"]
    /\ toCommit' = instToCommit(toCommit, rob[k])
    /\ UNCHANGED <<commitVars, storesToWB>>

\* An invalidation hits a load that is not the oldest of the load queue: under
\* TSO this load and every younger one with an address executes again.
checkSnoop(k) ==
    /\ snoops
    /\ effAddrValid(rob[k])
    /\ lqHead \/ \E h \in 1..k - 1 : rob[h].kind = "load"
    /\ rob' = [j \in DOMAIN rob |->
                  IF j >= k /\ effAddrValid(rob[j])
                  THEN [rob[j] EXCEPT !.fault = "reexec"] ELSE rob[j]]
    /\ UNCHANGED <<commitVars, toCommit, storesToWB>>

writebackStores ==
    /\ storesToWB > 0
    /\ storesToWB' = storesToWB - 1
    /\ UNCHANGED <<rob, commitVars, toCommit>>

-----------------------------------------------------------------------------
(* Cycles of commit, and events *)

CommitTick ==
    \E kinds \in renamed :
       LET c == tick(kinds)
       IN /\ kinds # << >> => c.youngest = nextSeq + Len(kinds) - 1
          /\ rob' = IF c.squash = {} THEN c.rob
                    ELSE iewSquash(c.rob, CHOOSE sn \in c.squash : TRUE)
          /\ nextSeq' = nextSeq + Len(kinds)
          /\ squashIt' = c.it /\ squashedSeqNum' = c.sq
          /\ commitStatus' = c.status
          /\ trapSquash' = c.trap /\ tcSquash' = c.tc
          /\ squashAfterInst' = c.after
          /\ youngestSeqNum' = c.youngest /\ lastCommitedSeqNum' = c.last
          /\ fromIEW' = toCommit /\ toCommit' = NoSignal
          /\ lqHead' = c.lq /\ storesToWB' = c.stores
          /\ shb' = c.shb
          /\ UNCHANGED scenario

\* The latency of a trap has passed.
processTrapEvent ==
    /\ commitStatus = "TrapPending" /\ ~trapSquash
    /\ trapSquash' = TRUE
    /\ UNCHANGED <<scenario, rob, nextSeq, squashIt, squashedSeqNum, commitStatus,
                   tcSquash, squashAfterInst, youngestSeqNum, lastCommitedSeqNum,
                   toCommit, fromIEW, lqHead, storesToWB, shb>>

\* The thread context is written from outside, no trap being in flight.
generateTCEvent ==
    /\ tcWrites /\ ~tcSquash /\ commitStatus # "TrapPending"
    /\ tcSquash' = TRUE
    /\ UNCHANGED <<scenario, rob, nextSeq, squashIt, squashedSeqNum, commitStatus,
                   trapSquash, squashAfterInst, youngestSeqNum, lastCommitedSeqNum,
                   toCommit, fromIEW, lqHead, storesToWB, shb>>

\* What IEW and the load/store queue do for the instruction at k.
Execute(k) ==
    \/ Dispatch(k) \/ ExecuteSpecial(k) \/ ExecuteBranch(k)
    \/ ExecuteStore(k) \/ ExecuteLoad(k) \/ writeback(k)

Next ==
    \/ \E k \in DOMAIN rob : Execute(k) \/ checkSnoop(k)
    \/ writebackStores \/ CommitTick \/ processTrapEvent \/ generateTCEvent

Spec == Init /\ [][Next]_vars

\* A cycle of commit would change nothing.
quiet ==
    LET c == tick(<< >>)
    IN /\ renamed = {<< >>} /\ toCommit = NoSignal /\ fromIEW = NoSignal /\ ~lqHead
       /\ ~c.lq /\ c.squash = {}
       /\ <<c.rob, c.it, c.status, c.trap, c.tc, c.after, c.shb, c.stores>>
          = <<rob, squashIt, commitStatus, trapSquash, tcSquash, squashAfterInst,
              shb, storesToWB>>

\* The core does not stop while it has work: it ticks, what can execute does, the
\* memory system answers, and a scheduled trap event happens.  (With Spec, this
\* is weak fairness of all these steps together.)
idle ==
    /\ quiet /\ storesToWB = 0
    /\ commitStatus = "TrapPending" => trapSquash
    /\ \A k \in DOMAIN rob : \/ rob[k].squashed
                             \/ rob[k].st \in {"dispatched", "executed", "dropped"}
Fairness == []<>idle \/ []<><<TRUE>>_vars

FairSpec == Spec /\ Fairness

-----------------------------------------------------------------------------
(* Properties *)

\* The variables stay in their types.
TypeOK ==
    /\ Len(rob) <= numEntries
    /\ \A k \in DOMAIN rob :
          /\ rob[k].sn \in 1..MaxInsts /\ rob[k].kind \in Kinds
          /\ rob[k].fault \in {"none", "fault", "reexec"}
          /\ k > 1 => rob[k - 1].sn < rob[k].sn
    /\ squashIt \in 0..Len(rob) /\ squashedSeqNum \in 0..MaxInsts
    /\ commitStatus \in {"Running", "ROBSquashing", "TrapPending",
                         "SquashAfterPending"}
    /\ squashIt > 0 => commitStatus = "ROBSquashing"
    /\ {trapSquash, tcSquash, lqHead} \subseteq BOOLEAN
    /\ {youngestSeqNum, lastCommitedSeqNum, squashAfterInst} \subseteq 0..MaxInsts
    /\ storesToWB \in Nat

\* A request that was let fill the cache, and an access that was sent to the
\* SHB, is never undone by a misprediction, a memory-order violation or a fault
\* of an older instruction: no squash that IEW raises reaches it, and nothing
\* older ends up with a fault (other than the replay a snoop forces).
SafeIsNeverUndone ==
    \A k \in DOMAIN rob :
       LET i == rob[k]
       IN \/ i.kind = "load" /\ i.st \in {"sent", "executed"} /\ ~i.noFill
          \/ i.SHTinserted
          => /\ \A sig \in {toCommit, fromIEW} :
                   sig.squash => \/ i.sn < sig.sn
                                 \/ i.sn = sig.sn /\ ~sig.includeSquashInst
                                 \/ i.squashed
             /\ \A h \in 1..k - 1 : rob[h].fault # "fault"

\* PrevInstsCompleted of an access in flight says exactly that every older
\* instruction is complete, however completions, commits, squashes and new
\* instructions interleave; only a replay forced by a snoop may come after it.
FlagIsExact ==
    \A k \in DOMAIN rob :
       isMemRef(rob[k]) /\ ~rob[k].squashed =>
          /\ (\A h \in 1..k - 1 : completed(rob[h])) => rob[k].PrevInstsCompleted
          /\ rob[k].PrevInstsCompleted =>
                \A h \in 1..k - 1 :
                   completed(rob[h]) \/ rob[h].fault = "reexec"

\* The SHB receives accesses in program order and each at most once, although
\* they execute out of order and the scan runs every cycle.  Of the accesses one
\* squash removes at most one still reaches it: the oldest, which the scan meets
\* right behind the squashing instruction.
SHBInProgramOrder ==
    \A a, b \in DOMAIN shb : a < b =>
        /\ shb[a].sn < shb[b].sn
        /\ shb[a].from # {} => shb[a].from # shb[b].from

\* A load that sent a packet and commits was sent to the SHB before, although
\* the scan runs after commit in each cycle.  It is missed only when it commits
\* in the cycle that first lets it be seen: while an instruction that executes
\* at the head, or the remains of a squash, was still in front of it.
CommittedLoadIsInserted ==
    [][\A k \in DOMAIN rob :
          /\ rob[k].sn \in lastCommitedSeqNum + 1 .. lastCommitedSeqNum'
          /\ ~rob[k].squashed /\ rob[k].SHTpkt
          => \/ rob[k].SHTinserted
             \/ \E h \in 1..k - 1 : rob[h].kind \in Special \/ rob[h].squashed]_vars

\* With RaS-Spec a load is marked NO_FILL only while it is speculative: when it
\* is sent with the mark, some older instruction is not complete.
NoFillIsSpeculative ==
    [][\A k \in DOMAIN rob :
          /\ rasSpec /\ canExecute(k)
          /\ k \in DOMAIN rob' /\ rob'[k].sn = rob[k].sn
          /\ rob'[k].st = "sent" /\ rob'[k].noFill
          => \E h \in 1..k - 1 : ~completed(rob[h])]_vars

\* No instruction stays in the ROB for ever: it is committed or squashed, whatever
\* mixture of squashes, traps and late completions it meets, unless the thread
\* context is written again and again.  The squash walk makes what it marks ready
\* "so that it can drain out of the pipeline".
RobDrains ==
    <>[]~tcSquash =>
        \A sn \in UNION {1..s.MaxInsts : s \in Scenarios} :
            []<>~\E k \in DOMAIN rob : rob[k].sn = sn

\* The assertions of commit hold whatever comes first.  commitHead meets an
\* unexecuted instruction only if it is one that executes at the head, although
\* the instruction queue marks what it squashes as ready to commit before the
\* walk of the ROB has reached it.  A squash for the thread context and a trap
\* are never pending together (commit, squashFromTC).  No earlier request to
\* squash behind an instruction is outstanding when another commits
\* (squashAfter).
AssertsHold ==
    [][/\ rob # << >> /\ commitStatus = "Running" =>
              \/ rob[1].st = "executed" \/ rob[1].squashed \/ ~rob[1].canCommit
              \/ rob[1].kind \in Special
       /\ tcSquash => ~trapSquash /\ commitStatus # "TrapPending"
       /\ squashAfterInst' # squashAfterInst /\ squashAfterInst' # 0
              => squashAfterInst = 0]_vars

=============================================================================

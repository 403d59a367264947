----------------------------- MODULE IssueStage -----------------------------
(***************************************************************************)
(* How the out-of-order core brings an instruction from rename to commit:  *)
(* the dispatch part of IEW (issue, execute, writeback) with its skid      *)
(* buffer, the instruction queue (IQ) with its dependency graph and ready  *)
(* lists, the memory dependence unit, the pool of functional units, and    *)
(* the load/store queue (LSQ) as far as it sends instructions back to the  *)
(* IQ.  ReorderBuffer.tla has the commit side; here commit is reduced to   *)
(* the signals that IEW reads.                                             *)
(*                                                                         *)
(* One thread.  A cycle is rename, IEW's tick, and commit, in the order    *)
(* the CPU ticks them; the loops of IEW's tick take a step per iteration   *)
(* and nothing else happens between them (stage).  Events (a functional    *)
(* unit completes, a page walk ends, data returns, the cache asks for a    *)
(* retry, a store is written) happen between two cycles.  Signals from IEW *)
(* and commit are read one cycle later.                                    *)
(*                                                                         *)
(* An instruction is its sequence number.  The program is straight-line; a *)
(* squash fetches it again from the instruction it restarts at, with new   *)
(* sequence numbers and the same physical registers, the earliest reuse    *)
(* the rename map allows.  Addresses and data are left out: whether a      *)
(* branch was mispredicted, an access faults, waits for its translation,   *)
(* overlaps an older store or was overtaken is any outcome.                *)
(***************************************************************************)
EXTENDS Integers, Sequences, FiniteSets, SequencesExt, FiniteSetsExt

CONSTANTS
    Programs,       \* what the core executes: insts, a sequence of [op, src], with
                    \* bounds on the squashes it raises, the requests the cache
                    \* refuses and the cycles in which rename has nothing to send
    numEntries,     \* entries of the IQ
    LQEntries, SQEntries,
    renameWidth, dispatchWidth,
    totalWidth,     \* instructions issued per cycle
    fetchToRenameDelay, \* cycles from fetch, through decode, to rename
    renameToIEWDelay,
    cacheLoadPorts, \* loads sent to the cache per cycle
    squashWidth     \* instructions the ROB marks per cycle

Ops == {"alu", "mul", "branch", "load", "strictload", "store", "atomic",
        "barrier", "nonspec"}

ASSUME IssueAssumption ==
    /\ {numEntries, LQEntries, SQEntries, renameWidth, dispatchWidth, totalWidth,
        fetchToRenameDelay, renameToIEWDelay, cacheLoadPorts, squashWidth} \subseteq Nat \ {0}
    /\ \A p \in Programs :
           /\ {p.squashes, p.refusals, p.bubbles} \subseteq Nat
           /\ \A k \in DOMAIN p.insts :
                  p.insts[k].op \in Ops /\ p.insts[k].src \subseteq 1..(k - 1)

VARIABLES
    program,  \* fixed in the initial state
    stage,    \* what happens next in this cycle
    rename,   \* [stalled, pipe, next, gen, refill, bubbles]: its stall flag, the
              \* groups on their way to IEW, the next instruction, how often it was
              \* squashed, the cycles until fetch has reached it again
    dispatch, \* [status, insts, skid, block, unblock, num]
    iq,       \* the instruction queue
    memDep,   \* the memory dependence unit
    fu,       \* [unitBusy, toBeFreed, completions]: one unit per class
    inst,     \* the status bits of the instructions, each as a set
    lsq,      \* the load/store queue
    toCommit, \* [insts, squash, sn, include]: what IEW writes in this cycle
    commit,   \* the ROB and what commit knows
    signal,   \* [squash, robSquashing, done, next, nonSpec]: commit to IEW
    sched,    \* [it, issued]: the place in the list that a loop goes through
    failed    \* the assertions of the code that have failed

vars == <<program, stage, rename, dispatch, iq, memDep, fu, inst, lsq, toCommit,
          commit, signal, sched, failed>>

N == Len(program.insts)
Pos(sn) == ((sn - 1) % N) + 1
Op(sn) == program.insts[Pos(sn)].op
Src(sn) == program.insts[Pos(sn)].src

isLoad(sn) == Op(sn) \in {"load", "strictload"}
isStore(sn) == Op(sn) = "store"
isAtomic(sn) == Op(sn) = "atomic"
isMemRef(sn) == isLoad(sn) \/ isStore(sn) \/ isAtomic(sn)
isBarrier(sn) == Op(sn) = "barrier"
hasDest(sn) == Op(sn) \notin {"branch", "store", "barrier"}

\* The instructions that wait for commit to release them at the head.
isNonSpec(sn) == Op(sn) \in {"atomic", "barrier", "nonspec"}

\* The class whose ready list and functional unit an instruction uses.
opClass(sn) ==
    CASE Op(sn) \in {"alu", "branch", "nonspec"} -> "IntAlu"
      [] Op(sn) = "mul" -> "IntDiv"
      [] isLoad(sn) -> "MemRead"
      [] isStore(sn) \/ isAtomic(sn) -> "MemWrite"
      [] isBarrier(sn) -> "No_OpClass"

skidBufferMax == (renameToIEWDelay + 1) * renameWidth

Fails(name, condition) == IF condition THEN {} ELSE {name}

NoInsts == [insts |-> << >>, squash |-> FALSE, sn |-> 0, include |-> FALSE]
NoSignal == [squash |-> FALSE, robSquashing |-> FALSE, done |-> 0, next |-> 0,
             nonSpec |-> 0]

Init ==
    /\ program \in Programs
    /\ stage = "events"
    /\ rename = [stalled |-> FALSE, next |-> 1, gen |-> 0,
                 refill |-> 0, bubbles |-> 0,
                 pipe |-> [k \in 1..renameToIEWDelay |-> << >>]]
    /\ dispatch = [status |-> "Running", insts |-> << >>, skid |-> << >>,
                   block |-> FALSE, unblock |-> FALSE, num |-> 0]
    /\ iq = [instList |-> << >>, freeEntries |-> numEntries, nonSpecInsts |-> {},
             ready |-> {}, listOrder |-> << >>,
             dependGraph |-> [r \in 1..N |-> {}], regScoreboard |-> {},
             deferred |-> {}, blocked |-> {}, retry |-> {}, toExecute |-> << >>]
    /\ memDep = [hash |-> {}, deps |-> {}, regsReady |-> {},
                 barrierSNs |-> {}, toReplay |-> {}]
    /\ fu = [unitBusy |-> {}, toBeFreed |-> {}, completions |-> {}]
    /\ inst = [issued |-> {}, executed |-> {}, squashed |-> {}, fault |-> {},
               memOpDone |-> {}, canCommit |-> {}, atCommit |-> {},
               translated |-> {}, effAddrValid |-> {}, waited |-> {}, raised |-> 0]
    /\ lsq = [loads |-> {}, stores |-> {}, canWB |-> {}, sent |-> 0,
              storeBlocked |-> FALSE, outstanding |-> {},
              stallingStore |-> 0, stallingLoad |-> 0, cacheBlocked |-> FALSE,
              usedLoadPorts |-> 0, refusals |-> 0]
    /\ toCommit = NoInsts
    /\ commit = [rob |-> {}, walk |-> {}, youngest |-> 0, status |-> "Running",
                 trap |-> FALSE, last |-> 0, arriving |-> << >>, fromIEW |-> NoInsts]
    /\ signal = NoSignal
    /\ sched = [it |-> 1, issued |-> 0]
    /\ failed = {}

-----------------------------------------------------------------------------
(* The ready lists.  listOrder holds, oldest first, one entry per class that   *)
(* has ready instructions, with the oldest of them.                            *)

Ready(q, class) == {x \in q.ready : opClass(x) = class}
OnList(q, class) == \E k \in DOMAIN q.listOrder : q.listOrder[k].class = class
readyIt(q, class) == CHOOSE k \in DOMAIN q.listOrder : q.listOrder[k].class = class
Entry(q, class) == [class |-> class, oldest |-> Min(Ready(q, class))]

addToOrderList(q, class) ==
    LET younger == {k \in DOMAIN q.listOrder :
                        q.listOrder[k].oldest > Entry(q, class).oldest}
        at == Min(younger \cup {Len(q.listOrder) + 1})
    IN  [q EXCEPT !.listOrder = InsertAt(@, at, Entry(q, class))]

addReadyMemInst(q0, sn) ==
    LET q == [q0 EXCEPT !.ready = @ \cup {sn}]
        c == opClass(sn)
    IN  IF ~OnList(q, c) THEN addToOrderList(q, c)
        ELSE IF Min(Ready(q, c)) < q.listOrder[readyIt(q, c)].oldest
        THEN addToOrderList([q EXCEPT !.listOrder = RemoveAt(@, readyIt(q, c))], c)
        ELSE q

\* Several of them in turn; the ready lists do not depend on the order.
AddReady(q, S) == FoldLeft(addReadyMemInst, q, SetToSortSeq(S, LAMBDA x, y : x > y))

-----------------------------------------------------------------------------
(* The memory dependence unit: hash is the instructions it knows, deps the     *)
(* pairs <<producer, dependent>>.                                              *)

memDeps(m, sn) == {d[1] : d \in {e \in m.deps : e[2] = sn}}

hashInsert(m, sn) ==
    [m EXCEPT !.hash = @ \cup {sn},
              !.barrierSNs = IF isBarrier(sn) THEN @ \cup {sn} ELSE @]

\* The stores that the dependence predictor may name: the last one inserted in
\* a store set, until it issues; an atomic also later, because the predictor is
\* told that no store has issued.  Which one it is depends on the history of
\* violations.
Predicted ==
    {x \in memDep.hash : isAtomic(x) \/ (isStore(x) /\ x \notin inst.issued)}

\* What a new access waits for: every barrier, or else the predicted store.
producingStores ==
    IF memDep.barrierSNs # {} THEN {memDep.barrierSNs}
    ELSE {{}} \cup {{x} : x \in Predicted}

\* completeInst: the dependents that become ready and the unit without sn.
memDepWoken(sn) ==
    {x \in memDep.regsReady : memDeps(memDep, x) = {sn}}
memDepCompleted(sn) ==
    [memDep EXCEPT !.hash = @ \ {sn}, !.regsReady = @ \ {sn},
                   !.deps = {d \in @ : d[1] # sn}, !.barrierSNs = @ \ {sn}]

\* Faulty variant: a squashed load is still replayed.
memDepSquashNoReplay(m, done) ==
    [m EXCEPT !.hash = {x \in @ : x <= done}, !.regsReady = {x \in @ : x <= done},
              !.barrierSNs = {x \in @ : x <= done},
              !.deps = {d \in @ : d[2] <= done}]

memDepSquash(m, done) ==
    [m EXCEPT !.hash = {x \in @ : x <= done}, !.regsReady = {x \in @ : x <= done},
              !.barrierSNs = {x \in @ : x <= done}, !.toReplay = {x \in @ : x <= done},
              !.deps = {d \in @ : d[2] <= done}]

\* All waiting loads are replayed, whatever each of them waits for.
replay(q) ==
    /\ iq' = AddReady(q, memDep.toReplay)
    /\ memDep' = [memDep EXCEPT !.toReplay = {}]
    /\ failed' = failed \cup Fails("findInHash", memDep.toReplay \subseteq memDep.hash)
          \cup Fails("ready twice", memDep.toReplay \cap q.ready = {})

-----------------------------------------------------------------------------
(* Rename, and the marking of what has not reached the ROB *)

\* A cycle begins.  IEW's block and unblock signals of the last cycle arrive.
\* On a squash fetch marks everything in flight that is not in the ROB, rename
\* drops what it holds and starts again; otherwise it sends a group, unless it
\* is stalled.
RenameTick ==
    /\ stage = "events"
    /\ LET stalled == (rename.stalled \/ dispatch.block) /\ ~dispatch.unblock
           InFlight == UNION {Range(rename.pipe[k]) : k \in DOMAIN rename.pipe}
                          \cup Range(dispatch.insts) \cup Range(dispatch.skid)
                          \cup {x \in Range(iq.instList) : x > commit.last}
           most == IF stalled \/ rename.refill > 0 THEN 0
                   ELSE Min({renameWidth, N + 1 - rename.next})
           Sent(n) == [k \in 1..n |-> rename.gen * N + rename.next + k - 1]
       IN  /\ failed' = failed \cup Fails("assert(stalls.iew)",
                            dispatch.unblock => rename.stalled \/ dispatch.block)
           /\ dispatch' = [dispatch EXCEPT !.insts = @ \o rename.pipe[1],
                               !.block = FALSE, !.unblock = FALSE, !.num = 0]
           /\ commit' = [commit EXCEPT !.arriving = rename.pipe[renameToIEWDelay]]
           /\ IF signal.squash
              THEN /\ rename' = [rename EXCEPT !.stalled = stalled,
                                     !.next = signal.next, !.gen = @ + 1,
                                     !.refill = fetchToRenameDelay,
                                     !.pipe = Append(Tail(@), << >>)]
                   /\ inst' = [inst EXCEPT !.squashed = @ \cup
                                   (InFlight \ (commit.rob \cup commit.walk))]
              ELSE /\ \E n \in 0..most :
                          /\ n < most => rename.bubbles < program.bubbles
                          /\ rename' = [rename EXCEPT !.stalled = stalled,
                                 !.next = @ + n, !.refill = Max({0, @ - 1}),
                                 !.bubbles = IF n < most THEN @ + 1 ELSE @,
                                 !.pipe = Append(Tail(@), Sent(n))]
                   /\ UNCHANGED inst
    /\ stage' = "signals"
    /\ UNCHANGED <<program, iq, memDep, fu, lsq, toCommit, signal, sched>>

-----------------------------------------------------------------------------
(* The squash of IEW's queues *)

\* doSquash takes the instructions from the tail of instList.
Squashed(done) ==
    LET kept == {k \in DOMAIN iq.instList : iq.instList[k] <= done}
        from == IF kept = {} THEN 1 ELSE Max(kept) + 1
    IN  {iq.instList[k] : k \in from..Len(iq.instList)}

\* Faulty variant: an issued access that is not complete keeps its entry.
FreedUnissued(done) == {x \in Squashed(done) : x \notin inst.issued}

\* Those that still have an entry of the IQ.
Freed(done) ==
    {x \in Squashed(done) :
        x \notin inst.issued \/ (isMemRef(x) /\ x \notin inst.memOpDone)}

doSquash(done) ==
    [iq EXCEPT !.instList = SelectSeq(@, LAMBDA x : x \notin Squashed(done)),
               !.freeEntries = @ + Cardinality(Freed(done)),
               !.nonSpecInsts = @ \ Freed(done),
               !.dependGraph = [r \in DOMAIN @ |-> @[r] \ Freed(done)]]

\* What doSquash asserts.  An instruction that waited for a register is still
\* in the chain of the register, or the chain is empty; no one waits for the
\* result of a squashed instruction; a released instruction that waits for
\* nothing but commit is a memory reference or has faulted.
doSquashFails(done) ==
    Fails("DependencyGraph::remove", \A w \in inst.waited :
              w[1] \in Freed(done) /\ w[1] \notin iq.dependGraph[w[2]] =>
                  \A y \in iq.dependGraph[w[2]] : y \in Freed(done) /\ y > w[1])
    \cup Fails("dependGraph.empty", \A x \in Squashed(done) :
              hasDest(x) => \A y \in iq.dependGraph[Pos(x)] : y \in Freed(done) /\ y > x)
    \cup Fails("nonSpecInsts", \A x \in Freed(done) :
              isNonSpec(x) => x \in iq.nonSpecInsts \/ x \in inst.fault \/ isMemRef(x))

\* The LSQ drops its younger entries; a committed store stops the scan.
lsqSquashed(done) ==
    {x \in lsq.loads : x > done} \cup {x \in lsq.stores \ lsq.canWB : x > done}

lsqSquash(done) ==
    LET unstall == lsq.stallingLoad > done
    IN  [lsq EXCEPT !.loads = @ \ lsqSquashed(done), !.stores = @ \ lsqSquashed(done),
                    !.stallingStore = IF unstall THEN 0 ELSE @,
                    !.stallingLoad = IF unstall THEN 0 ELSE @]

\* Faulty variant: they stay where they are.
cacheUnblockedOnly(q) == q

\* Accesses that the cache had refused are tried again.
cacheUnblocked(q) == [q EXCEPT !.retry = @ \cup q.blocked, !.blocked = {}]

\* Of the LSQ's per-cycle state: loads that found no port are retried.
lsqTick(q) ==
    IF lsq.usedLoadPorts = cacheLoadPorts /\ ~lsq.cacheBlocked
    THEN cacheUnblocked(q) ELSE q

squash(done) ==
    /\ iq' = lsqTick(doSquash(done))
    /\ memDep' = memDepSquash(memDep, done)
    /\ inst' = [inst EXCEPT !.squashed = @ \cup Freed(done) \cup lsqSquashed(done),
                            !.issued = @ \cup Freed(done)]
    /\ lsq' = [lsqSquash(done) EXCEPT !.usedLoadPorts = 0]
    /\ failed' = failed \cup doSquashFails(done)
          \cup Fails("stalled", lsq.stallingStore \in lsqSquashed(done)
                                    => lsq.stallingLoad > done)

-----------------------------------------------------------------------------
(* Dispatch *)

skidInsert(d) == [d EXCEPT !.skid = @ \o d.insts, !.insts = << >>]

block(d) ==
    [skidInsert(d) EXCEPT !.status = "Blocked",
        !.block = @ \/ d.status \notin {"Blocked", "Unblocking"}]

unblock(d) ==
    IF d.skid # << >> THEN d ELSE [d EXCEPT !.unblock = TRUE, !.status = "Running"]

SkidFails(d) == Fails("Skidbuffer Exceeded Max Size", Len(d.skid) <= skidBufferMax)

checkStall == signal.robSquashing \/ iq.freeEntries = 0

\* IEW's tick up to dispatch: the ports and the functional units marked in the
\* last cycle become free, then the signals of commit are handled.
checkSignalsAndUpdate ==
    /\ stage = "signals"
    /\ fu' = [fu EXCEPT !.unitBusy = @ \ fu.toBeFreed, !.toBeFreed = {}]
    /\ IF signal.squash
       THEN /\ squash(signal.done)
            /\ dispatch' = [dispatch EXCEPT !.insts = << >>, !.skid = << >>,
                   !.unblock = @ \/ dispatch.status \in {"Blocked", "Unblocking"},
                   !.status = "Squashing"]
       ELSE /\ LET d == IF signal.robSquashing
                        THEN [dispatch EXCEPT !.status = "Squashing", !.insts = << >>]
                        ELSE dispatch
               IN  /\ dispatch' =
                          CASE checkStall -> block(d)
                            [] ~checkStall /\ d.status = "Blocked" ->
                                   unblock([d EXCEPT !.status = "Unblocking"])
                            [] ~checkStall /\ d.status = "Squashing" ->
                                   [d EXCEPT !.status = "Running"]
                            [] OTHER -> d
                   /\ failed' = failed \cup SkidFails(dispatch')
                          \cup Fails("assert(!skidsEmpty())",
                                 dispatch'.status = "Unblocking" => dispatch'.skid # << >>)
            /\ iq' = lsqTick(iq)
            /\ lsq' = [lsq EXCEPT !.usedLoadPorts = 0]
            /\ UNCHANGED <<memDep, inst>>
    /\ stage' = "dispatch"
    /\ UNCHANGED <<program, rename, toCommit, commit, signal, sched>>

\* Where dispatchInsts takes instructions from.
ToDispatch == IF dispatch.status = "Unblocking" THEN dispatch.skid ELSE dispatch.insts

PopDispatched(d) ==
    [IF d.status = "Unblocking" THEN [d EXCEPT !.skid = Tail(@)]
     ELSE [d EXCEPT !.insts = Tail(@)] EXCEPT !.num = @ + 1]

\* The stage after dispatch.
Execute == IF iq.toExecute = << >> THEN "writeback" ELSE "execute"

dispatching ==
    /\ stage = "dispatch"
    /\ dispatch.status \in {"Running", "Unblocking"}
    /\ ToDispatch # << >> /\ dispatch.num < dispatchWidth

queuesFull(sn) ==
    \/ iq.freeEntries = 0
    \/ isLoad(sn) /\ Cardinality(lsq.loads) >= LQEntries
    \/ (isStore(sn) \/ isAtomic(sn)) /\ Cardinality(lsq.stores) >= SQEntries

lsqInsert(sn) ==
    lsq' = CASE isLoad(sn) -> [lsq EXCEPT !.loads = @ \cup {sn}]
             [] isStore(sn) \/ isAtomic(sn) -> [lsq EXCEPT !.stores = @ \cup {sn}]
             [] OTHER -> lsq

\* The result register of sn becomes unavailable.
addToProducers(q, sn) ==
    IF hasDest(sn) THEN [q EXCEPT !.regScoreboard = @ \ {Pos(sn)}] ELSE q

ProducerFails(sn) ==
    Fails("Dependency graph not empty", hasDest(sn) => iq.dependGraph[Pos(sn)] = {})

takeEntry(q, sn) ==
    [q EXCEPT !.instList = Append(@, sn), !.freeEntries = @ - 1]

\* insert: sn joins the chains of the registers it waits for; an access also
\* waits for the stores or barriers found in the hash.
insert(sn) ==
    LET waits == Src(sn) \ iq.regScoreboard
        q == addToProducers([takeEntry(iq, sn) EXCEPT
                 !.dependGraph = [r \in DOMAIN @ |->
                                     IF r \in waits THEN @[r] \cup {sn} ELSE @[r]]], sn)
        m == hashInsert(memDep, sn)
    IN  /\ inst' = [inst EXCEPT !.waited = @ \cup {<<sn, r>> : r \in waits}]
        /\ IF isMemRef(sn)
           THEN \E stores \in producingStores :
                    LET entries == stores \cap memDep.hash
                    IN  /\ memDep' = [m EXCEPT
                               !.deps = @ \cup {<<e, sn>> : e \in entries},
                               !.regsReady = IF waits = {} THEN @ \cup {sn} ELSE @]
                        /\ iq' = IF entries = {} /\ waits = {}
                                 THEN addReadyMemInst(q, sn) ELSE q
           ELSE /\ iq' = IF waits = {} THEN addReadyMemInst(q, sn) ELSE q
                /\ UNCHANGED memDep

\* insertNonSpec and insertBarrier: sn waits for commit only.
insertNonSpec(sn) ==
    /\ iq' = [addToProducers(takeEntry(iq, sn), sn) EXCEPT !.nonSpecInsts = @ \cup {sn}]
    /\ memDep' = IF isMemRef(sn) \/ isBarrier(sn) THEN hashInsert(memDep, sn) ELSE memDep
    /\ inst' = [inst EXCEPT !.canCommit = @ \cup {sn}]

dispatchInst ==
    /\ dispatching
    /\ LET sn == Head(ToDispatch)
       IN  \/ /\ sn \in inst.squashed
              /\ dispatch' = PopDispatched(dispatch)
              /\ UNCHANGED <<stage, iq, memDep, inst, lsq, failed>>
           \/ /\ sn \notin inst.squashed /\ queuesFull(sn)
              /\ dispatch' = [block(dispatch) EXCEPT !.unblock = FALSE]
              /\ failed' = failed \cup SkidFails(dispatch')
              /\ stage' = Execute
              /\ UNCHANGED <<iq, memDep, inst, lsq>>
           \/ /\ sn \notin inst.squashed /\ ~queuesFull(sn)
              /\ IF isNonSpec(sn) THEN insertNonSpec(sn) ELSE insert(sn)
              /\ lsqInsert(sn)
              /\ failed' = failed \cup ProducerFails(sn)
              /\ dispatch' = PopDispatched(dispatch)
              /\ UNCHANGED stage
    /\ UNCHANGED <<program, rename, fu, toCommit, commit, signal, sched>>

\* The end of dispatch: what does not fit the width stays in the skid buffer,
\* and a skid buffer that has become empty ends the block.
dispatchDone ==
    /\ stage = "dispatch" /\ ~dispatching
    /\ LET d == IF dispatch.status \in {"Running", "Unblocking"} /\ ToDispatch # << >>
                THEN [block(dispatch) EXCEPT !.unblock = FALSE] ELSE dispatch
           valid == Range(d.insts) \ inst.squashed # {}
       IN  /\ dispatch' = IF dispatch.status = "Unblocking"
                          THEN unblock(IF valid THEN skidInsert(d) ELSE d)
                          ELSE d
           /\ failed' = failed \cup SkidFails(dispatch')
    /\ stage' = Execute
    /\ UNCHANGED <<program, rename, iq, memDep, fu, inst, lsq, toCommit, commit,
                   signal, sched>>

-----------------------------------------------------------------------------
(* Execute *)

executing(sn) == stage = "execute" /\ sn = Head(iq.toExecute)

getInstToExecute == [iq EXCEPT !.toExecute = Tail(@)]

\* IEW's slot for commit; an older squash of the same cycle wins.
instToCommit(sn) == [toCommit EXCEPT !.insts = Append(@, sn)]

squashDueToBranch(c, sn) ==
    IF c.squash /\ sn >= c.sn THEN c
    ELSE [c EXCEPT !.squash = TRUE, !.sn = sn, !.include = FALSE]

squashDueToMemOrder(c, sn) ==
    IF c.squash /\ sn > c.sn THEN c
    ELSE [c EXCEPT !.squash = TRUE, !.sn = sn, !.include = TRUE]

\* Nothing older has already redirected fetch in this cycle.
mayRedirect(sn) ==
    /\ ~toCommit.squash \/ toCommit.sn > sn
    /\ inst.raised < program.squashes

executedInst(i, sn) == [i EXCEPT !.executed = @ \cup {sn}]
raise(i) == [i EXCEPT !.raised = @ + 1]

\* A squashed instruction is only marked.
executeSquashed(sn) ==
    /\ executing(sn) /\ sn \in inst.squashed
    /\ iq' = getInstToExecute
    /\ inst' = [executedInst(inst, sn) EXCEPT !.canCommit = @ \cup {sn}]
    /\ UNCHANGED <<memDep, lsq, toCommit>>

\* Not a memory reference; a branch may turn out mispredicted.
executeInst(sn) ==
    /\ executing(sn) /\ sn \notin inst.squashed /\ ~isMemRef(sn)
    /\ iq' = getInstToExecute
    /\ \/ /\ inst' = executedInst(inst, sn)
          /\ toCommit' = instToCommit(sn)
       \/ /\ Op(sn) = "branch" /\ mayRedirect(sn)
          /\ inst' = raise(executedInst(inst, sn))
          /\ toCommit' = squashDueToBranch(instToCommit(sn), sn)
    /\ UNCHANGED <<memDep, lsq>>

executingMem(sn) == executing(sn) /\ sn \notin inst.squashed /\ isMemRef(sn)

\* A page walk is going on.
deferMemInst(sn) ==
    /\ executingMem(sn) /\ sn \notin inst.translated
    /\ iq' = [getInstToExecute EXCEPT !.deferred = @ \cup {sn}]
    /\ UNCHANGED <<memDep, inst, lsq, toCommit>>

\* The access faults: commit will see it, nobody is woken.
executeFault(sn) ==
    /\ executingMem(sn) /\ ~isAtomic(sn) /\ inst.raised < program.squashes
    /\ iq' = getInstToExecute
    /\ inst' = raise([executedInst(inst, sn) EXCEPT !.fault = @ \cup {sn}])
    /\ toCommit' = instToCommit(sn)
    /\ UNCHANGED <<memDep, lsq>>

\* LSQUnit::read refuses a strictly ordered load until it is at the head of the
\* load queue and of the ROB; it goes to commit without having executed.
mustWaitForCommit(sn) ==
    Op(sn) = "strictload" /\ (sn # Min(lsq.loads) \/ sn \notin inst.atCommit)

rescheduleMemInst(sn) ==
    /\ iq' = getInstToExecute
    /\ memDep' = [memDep EXCEPT !.toReplay = @ \cup {sn}]
    /\ inst' = [inst EXCEPT !.issued = @ \ {sn}, !.translated = @ \ {sn},
                            !.effAddrValid = @ \ {sn}]

executeStrictLoad(sn) ==
    /\ executingMem(sn) /\ mustWaitForCommit(sn)
    /\ rescheduleMemInst(sn)
    /\ toCommit' = instToCommit(sn)
    /\ UNCHANGED lsq

addressKnown(i, sn) == [i EXCEPT !.effAddrValid = @ \cup {sn}]
reading(sn) == executingMem(sn) /\ isLoad(sn) /\ ~mustWaitForCommit(sn)

\* The older stores a load may overlap: they have data and are not yet sent.
OlderStores(sn) ==
    {x \in lsq.stores \ {lsq.sent} :
        x < sn /\ x \in (inst.executed \ inst.fault) \cup lsq.canWB}

\* An older store has part of the data: the load waits until it is written.
\* Only the oldest of the waiting loads is remembered.
stallLoad(sn) ==
    /\ reading(sn)
    /\ \E store \in OlderStores(sn) :
           lsq' = IF lsq.stallingLoad # 0 /\ sn >= lsq.stallingLoad THEN lsq
                  ELSE [lsq EXCEPT !.stallingStore = store, !.stallingLoad = sn]
    /\ rescheduleMemInst(sn)
    /\ UNCHANGED toCommit

\* An older store has all of the data.
forwardLoad(sn) ==
    /\ reading(sn) /\ \E store \in OlderStores(sn) : ~isAtomic(store)
    /\ iq' = getInstToExecute
    /\ lsq' = [lsq EXCEPT !.outstanding = @ \cup {sn}]
    /\ inst' = addressKnown(inst, sn)
    /\ UNCHANGED <<memDep, toCommit>>

cachePortAvailable == lsq.usedLoadPorts < cacheLoadPorts

\* trySendPacket: the cache takes the request, or refuses it and is blocked, or
\* is not asked.
blockMemInst(sn) ==
    /\ iq' = [getInstToExecute EXCEPT !.blocked = @ \cup {sn}]
    /\ inst' = addressKnown([inst EXCEPT !.issued = @ \ {sn}], sn)

sendLoad(sn) ==
    /\ reading(sn)
    /\ \/ /\ ~lsq.cacheBlocked /\ cachePortAvailable
          /\ iq' = getInstToExecute
          /\ lsq' = [lsq EXCEPT !.outstanding = @ \cup {sn}, !.usedLoadPorts = @ + 1]
          /\ inst' = addressKnown(inst, sn)
       \/ /\ ~lsq.cacheBlocked /\ cachePortAvailable /\ lsq.refusals < program.refusals
          /\ lsq' = [lsq EXCEPT !.cacheBlocked = TRUE, !.refusals = @ + 1]
          /\ blockMemInst(sn)
       \/ /\ lsq.cacheBlocked \/ ~cachePortAvailable
          /\ blockMemInst(sn)
          /\ UNCHANGED lsq
    /\ UNCHANGED <<memDep, toCommit>>

\* The younger loads that went ahead of the store.
Overtaking(sn) ==
    {x \in lsq.loads : x > sn /\ x \in inst.effAddrValid /\ Op(x) # "strictload"}

executeStore(sn) ==
    /\ executingMem(sn) /\ isStore(sn)
    /\ iq' = getInstToExecute
    /\ \/ /\ inst' = executedInst(inst, sn)
          /\ toCommit' = instToCommit(sn)
       \/ /\ mayRedirect(sn)
          /\ \E violator \in Overtaking(sn) :
                 toCommit' = squashDueToMemOrder(instToCommit(sn), violator)
          /\ inst' = raise(executedInst(inst, sn))
    /\ UNCHANGED <<memDep, lsq>>

\* An atomic is sent like a committed store and completes with its response; it
\* too may find that a younger load went ahead of it.
executeAtomic(sn) ==
    /\ executingMem(sn) /\ isAtomic(sn)
    /\ iq' = getInstToExecute
    /\ lsq' = [lsq EXCEPT !.canWB = @ \cup {sn}]
    /\ \/ UNCHANGED <<inst, toCommit>>
       \/ /\ mayRedirect(sn)
          /\ \E violator \in Overtaking(sn) :
                 toCommit' = squashDueToMemOrder(toCommit, violator)
          /\ inst' = raise(inst)
    /\ UNCHANGED memDep

executeInsts ==
    /\ \E sn \in Range(iq.toExecute) :
           \/ executeSquashed(sn) \/ executeInst(sn) \/ deferMemInst(sn)
           \/ executeFault(sn) \/ executeStrictLoad(sn) \/ stallLoad(sn)
           \/ forwardLoad(sn) \/ sendLoad(sn) \/ executeStore(sn) \/ executeAtomic(sn)
    /\ stage' = IF Len(iq.toExecute) = 1 THEN "writeback" ELSE "execute"
    /\ UNCHANGED <<program, rename, dispatch, fu, commit, signal, sched, failed>>

-----------------------------------------------------------------------------
(* Writeback *)

\* Faulty variant: one register is enough.
WokenByOne(sn) == IF hasDest(sn) THEN iq.dependGraph[Pos(sn)] ELSE {}

\* The chain of sn's result register is woken: those of it that wait for no
\* other register.
Woken(sn) ==
    IF hasDest(sn)
    THEN {x \in iq.dependGraph[Pos(sn)] :
              \A r \in DOMAIN iq.dependGraph : x \in iq.dependGraph[r] => r = Pos(sn)}
    ELSE {}

\* A memory reference is complete in the memory dependence unit and gives up its
\* entry; then the consumers of its result are woken.
wakeDependents(sn) ==
    LET completes == isMemRef(sn) \/ isBarrier(sn)
        released == IF completes THEN memDepWoken(sn) ELSE {}
        m == IF completes THEN memDepCompleted(sn) ELSE memDep
        now == {x \in Woken(sn) : isMemRef(x) => memDeps(m, x) = {}}
        q == [iq EXCEPT !.freeEntries = IF isMemRef(sn) THEN @ + 1 ELSE @,
                 !.dependGraph = IF hasDest(sn) THEN [@ EXCEPT ![Pos(sn)] = {}] ELSE @,
                 !.regScoreboard = IF hasDest(sn) THEN @ \cup {Pos(sn)} ELSE @]
    IN  /\ iq' = AddReady(AddReady(q, released), now)
        /\ memDep' = [m EXCEPT !.regsReady = @ \cup {x \in Woken(sn) : isMemRef(x)}]
        /\ inst' = [inst EXCEPT !.memOpDone = IF isMemRef(sn) THEN @ \cup {sn} ELSE @]
        /\ failed' = failed
              \cup Fails("findInHash", completes => sn \in memDep.hash)
              \cup Fails("findInHash", \A x \in Woken(sn) : isMemRef(x) => x \in m.hash)
              \cup Fails("ready twice", (released \cup now) \cap iq.ready = {})

\* The k-th instruction IEW has for commit in this cycle.
writebackInsts ==
    /\ stage = "writeback" /\ sched.it <= Len(toCommit.insts)
    /\ LET sn == toCommit.insts[sched.it]
       IN  IF sn \notin inst.squashed /\ sn \in inst.executed /\ sn \notin inst.fault
           THEN wakeDependents(sn)
           ELSE UNCHANGED <<iq, memDep, inst, failed>>
    /\ sched' = [sched EXCEPT !.it = @ + 1]
    /\ UNCHANGED <<program, stage, rename, dispatch, fu, lsq, toCommit, commit, signal>>

\* The beginning of scheduleReadyInsts: deferred accesses whose translation is
\* complete or that are squashed, and those the cache had refused, are ready.
writebackDone ==
    /\ stage = "writeback" /\ sched.it > Len(toCommit.insts)
    /\ LET deferred == iq.deferred \cap (inst.translated \cup inst.squashed)
       IN  /\ iq' = AddReady([iq EXCEPT !.deferred = @ \ deferred, !.retry = {}],
                             deferred \cup iq.retry)
           /\ failed' = failed
                 \cup Fails("ready twice", (deferred \cup iq.retry) \cap iq.ready = {})
    /\ stage' = "schedule"
    /\ sched' = [sched EXCEPT !.it = 1]
    /\ UNCHANGED <<program, rename, dispatch, memDep, fu, inst, lsq, toCommit, commit,
                   signal>>

-----------------------------------------------------------------------------
(* Scheduling *)

scheduling ==
    stage = "schedule" /\ sched.issued < totalWidth /\ sched.it <= Len(iq.listOrder)

\* The top of a ready list leaves it.  moveToYoungerInst looks for the place of
\* the next one behind the entry of the old one.
popReady(sn, it) ==
    LET c == opClass(sn)
        q == [iq EXCEPT !.ready = @ \ {sn}]
        later == {k \in (it + 1)..Len(q.listOrder) :
                      q.listOrder[k].oldest >= Entry(q, c).oldest}
        at == Min(later \cup {Len(q.listOrder) + 1})
    IN  [q EXCEPT !.listOrder =
            RemoveAt(IF Ready(q, c) = {} THEN @ ELSE InsertAt(@, at, Entry(q, c)), it)]

\* getUnit: the class needs no unit, or its unit is free.
unitFree(class) == class \notin fu.unitBusy

\* A unit with a latency above one is not pipelined and is freed when it
\* completes; the others are freed in the next cycle.
getUnit(sn) ==
    LET class == opClass(sn)
    IN  CASE class = "No_OpClass" -> fu
          [] class = "IntDiv" -> [fu EXCEPT !.unitBusy = @ \cup {class},
                                            !.completions = @ \cup {sn}]
          [] OTHER -> [fu EXCEPT !.unitBusy = @ \cup {class},
                                 !.toBeFreed = @ \cup {class}]

issue(q, sn) ==
    [q EXCEPT !.toExecute = IF opClass(sn) = "IntDiv" THEN @ ELSE Append(@, sn),
              !.freeEntries = IF isMemRef(sn) THEN @ ELSE @ + 1]

\* One entry of listOrder.
scheduleReadyInsts ==
    /\ scheduling
    /\ LET entry == iq.listOrder[sched.it]
           sn == Min(Ready(iq, entry.class))
       IN  \/ /\ sn \in inst.squashed
              /\ iq' = popReady(sn, sched.it)
              /\ UNCHANGED <<fu, inst, sched>>
           \/ /\ sn \notin inst.squashed /\ unitFree(entry.class)
              /\ iq' = issue(popReady(sn, sched.it), sn)
              /\ fu' = getUnit(sn)
              /\ inst' = [inst EXCEPT !.issued = @ \cup {sn}]
              /\ sched' = [sched EXCEPT !.issued = @ + 1]
           \/ /\ sn \notin inst.squashed /\ ~unitFree(entry.class)
              /\ sched' = [sched EXCEPT !.it = @ + 1]
              /\ UNCHANGED <<iq, fu, inst>>
    /\ failed' = failed \cup Fails("oldestInst",
                     iq.listOrder[sched.it].oldest
                         = Min(Ready(iq, iq.listOrder[sched.it].class)))
    /\ UNCHANGED <<program, stage, rename, dispatch, memDep, lsq, toCommit, commit,
                   signal>>

-----------------------------------------------------------------------------
(* The rest of IEW's tick *)

\* Committed stores are sent in order, one at a time (needsTSO).
storeWB == Min(lsq.canWB)

\* The cache takes the store, which replays a load that waits for it, or
\* refuses it.
sendStore(q) ==
    \/ /\ lsq' = [lsq EXCEPT !.sent = storeWB, !.storeBlocked = FALSE, !.cacheBlocked = FALSE,
                     !.stallingStore = IF @ = storeWB THEN 0 ELSE @,
                     !.stallingLoad = IF lsq.stallingStore = storeWB THEN 0 ELSE @]
       /\ IF lsq.stallingStore = storeWB THEN replay(q)
          ELSE iq' = q /\ UNCHANGED <<memDep, failed>>
    \/ /\ lsq.refusals < program.refusals
       /\ lsq' = [lsq EXCEPT !.storeBlocked = TRUE, !.cacheBlocked = TRUE,
                             !.refusals = @ + 1]
       /\ iq' = q
       /\ UNCHANGED <<memDep, failed>>

writebackStores ==
    /\ stage = "schedule" /\ ~scheduling
    /\ \/ /\ lsq.canWB # {} /\ lsq.sent = 0 /\ ~lsq.cacheBlocked
          /\ sendStore(iq)
       \/ /\ lsq.canWB # {} /\ lsq.sent = 0 /\ lsq.cacheBlocked
          /\ lsq' = [lsq EXCEPT !.storeBlocked = TRUE]
          /\ UNCHANGED <<iq, memDep, failed>>
       \/ /\ lsq.canWB = {} \/ lsq.sent # 0
          /\ UNCHANGED <<lsq, iq, memDep, failed>>
    /\ stage' = "finish"
    /\ sched' = [it |-> 1, issued |-> 0]
    /\ UNCHANGED <<program, rename, dispatch, fu, inst, toCommit, commit, signal>>

\* Nothing refers to a retired instruction any more.
forget(i, sn) ==
    [i EXCEPT !.issued = @ \ {sn}, !.executed = @ \ {sn}, !.memOpDone = @ \ {sn},
              !.canCommit = @ \ {sn}, !.atCommit = @ \ {sn}, !.translated = @ \ {sn},
              !.effAddrValid = @ \ {sn}, !.waited = {w \in @ : w[1] # sn}]

\* What commit retired leaves the IQ and the load queue; a store may be sent.
commitInsts(done) ==
    /\ lsq' = [lsq EXCEPT !.canWB = @ \cup {x \in lsq.stores : x <= done},
                          !.loads = {x \in @ : x > done}]
    /\ iq' = [iq EXCEPT !.instList = SelectSeq(@, LAMBDA x : x > done)]
    /\ inst' = forget(inst, done)
    /\ UNCHANGED <<memDep, failed>>

scheduleNonSpec(sn) ==
    /\ iq' = addReadyMemInst([iq EXCEPT !.nonSpecInsts = @ \ {sn}], sn)
    /\ inst' = [inst EXCEPT !.atCommit = @ \cup {sn}]
    /\ failed' = failed
          \cup Fails("inst_it != nonSpecInsts.end()", sn \in iq.nonSpecInsts)
          \cup Fails("findInHash", isMemRef(sn) => sn \in memDep.hash)
    /\ UNCHANGED <<memDep, lsq>>

finish ==
    /\ stage = "finish"
    /\ \/ /\ signal.done # 0 /\ ~signal.squash /\ ~signal.robSquashing
          /\ commitInsts(signal.done)
       \/ /\ signal.nonSpec # 0 /\ Op(signal.nonSpec) = "strictload"
          /\ replay(iq)
          /\ inst' = [inst EXCEPT !.atCommit = @ \cup {signal.nonSpec}]
          /\ UNCHANGED lsq
       \/ /\ signal.nonSpec # 0 /\ Op(signal.nonSpec) # "strictload"
          /\ scheduleNonSpec(signal.nonSpec)
       \/ /\ signal.done = 0 \/ signal.squash \/ signal.robSquashing
          /\ signal.nonSpec = 0
          /\ UNCHANGED <<iq, memDep, inst, lsq, failed>>
    /\ stage' = "commit"
    /\ UNCHANGED <<program, rename, dispatch, fu, toCommit, commit, signal, sched>>

-----------------------------------------------------------------------------
(* Commit, as IEW sees it.  It retires one instruction per cycle. *)

\* The ROB marks the youngest of the instructions it has to squash.
Batch(S) == {x \in S : Cardinality({y \in S : y > x}) < squashWidth}

\* The end of commit's tick: what IEW wrote in the last cycle is marked, and the
\* time buffers advance.
EndOfTick(c, squashed, cleared, s) ==
    /\ commit' = [c EXCEPT !.fromIEW = toCommit, !.arriving = << >>]
    /\ inst' = [inst EXCEPT !.squashed = @ \cup squashed,
                   !.canCommit = (@ \ cleared)
                       \cup ((Range(commit.fromIEW.insts) \cap c.rob) \ inst.squashed)]
    /\ toCommit' = NoInsts
    /\ signal' = s

\* The ROB squashes all above done, after the batch that this tick has marked
\* of an earlier squash.
robSquash(done, youngest, restart) ==
    LET earlier == Batch(commit.walk)
        younger == {x \in commit.rob : x > done}
        walk == (commit.walk \ earlier) \cup younger
    IN  EndOfTick([commit EXCEPT !.rob = @ \ younger, !.walk = walk \ Batch(walk),
                                 !.youngest = youngest, !.status = "ROBSquashing",
                                 !.trap = FALSE],
                  earlier \cup Batch(walk), {},
                  [NoSignal EXCEPT !.squash = TRUE, !.robSquashing = TRUE,
                                   !.done = done, !.next = restart])

\* squashAll: the head has faulted and is fetched again after the handler.
squashFromTrap ==
    /\ commit.trap
    /\ robSquash(Min(commit.rob) - 1, commit.last, Pos(Min(commit.rob)))
    /\ UNCHANGED failed

\* Of several requests the one of the oldest instruction is taken.
squashFromIEW ==
    /\ ~commit.trap
    /\ commit.fromIEW.squash /\ commit.status # "TrapPending"
    /\ commit.fromIEW.sn <= commit.youngest
    /\ LET sn == commit.fromIEW.sn
       IN  IF commit.fromIEW.include THEN robSquash(sn - 1, sn - 1, Pos(sn))
           ELSE robSquash(sn, sn, Pos(sn) + 1)
    /\ UNCHANGED failed

noSquash ==
    /\ ~commit.trap
    /\ ~commit.fromIEW.squash \/ commit.status = "TrapPending"
          \/ commit.fromIEW.sn > commit.youngest

robWalk ==
    /\ noSquash /\ commit.status = "ROBSquashing" /\ commit.walk # {}
    /\ EndOfTick([commit EXCEPT !.walk = @ \ Batch(commit.walk)], Batch(commit.walk), {},
                 [NoSignal EXCEPT !.robSquashing = TRUE])
    /\ UNCHANGED failed

\* Nothing is accepted or retired while a trap is pending.
trapPending ==
    /\ noSquash /\ commit.status = "TrapPending"
    /\ EndOfTick(commit, {}, {}, NoSignal)
    /\ UNCHANGED failed

getInsts ==
    LET new == SelectSeq(commit.arriving, LAMBDA x : x \notin inst.squashed)
    IN  [commit EXCEPT !.rob = @ \cup Range(new), !.status = "Running",
                       !.youngest = IF new = << >> THEN @ ELSE Last(new)]

\* The head is retired; or, not yet executed, released once all stores are
\* written; or, faulted, it traps.
commitHead(c) ==
    LET head == Min(c.rob)
    IN  \/ /\ c.rob # {} => head \notin inst.canCommit
           /\ EndOfTick(c, {}, {}, NoSignal)
           /\ UNCHANGED failed
        \/ /\ c.rob # {} /\ head \in inst.canCommit \ inst.executed
           /\ IF lsq.canWB # {} THEN EndOfTick(c, {}, {}, NoSignal)
              ELSE EndOfTick(c, {}, {head}, [NoSignal EXCEPT !.nonSpec = head])
           /\ failed' = failed \cup Fails("un-executed instruction",
                                          isNonSpec(head) \/ Op(head) = "strictload")
        \/ /\ c.rob # {} /\ head \in inst.canCommit \cap inst.fault
           /\ IF lsq.canWB # {} THEN EndOfTick(c, {}, {}, NoSignal)
              ELSE EndOfTick([c EXCEPT !.status = "TrapPending"], {}, {}, NoSignal)
           /\ UNCHANGED failed
        \/ /\ c.rob # {} /\ head \in (inst.canCommit \cap inst.executed) \ inst.fault
           /\ EndOfTick([c EXCEPT !.rob = @ \ {head}, !.last = head], {}, {},
                        [NoSignal EXCEPT !.done = head])
           /\ UNCHANGED failed

commitTick ==
    /\ stage = "commit"
    /\ \/ squashFromTrap
       \/ squashFromIEW
       \/ robWalk
       \/ trapPending
       \/ /\ noSquash
          /\ commit.status # "TrapPending" /\ commit.walk = {}
          /\ commitHead(getInsts)
    /\ stage' = "events"
    /\ UNCHANGED <<program, rename, dispatch, iq, memDep, fu, lsq, sched>>

-----------------------------------------------------------------------------
(* What happens between two cycles *)

processFUCompletion ==
    /\ stage = "events"
    /\ \E sn \in fu.completions :
           /\ iq' = [iq EXCEPT !.toExecute = Append(@, sn)]
           /\ fu' = [fu EXCEPT !.completions = @ \ {sn},
                               !.toBeFreed = @ \cup {opClass(sn)}]
    /\ UNCHANGED <<program, stage, rename, dispatch, memDep, inst, lsq, toCommit,
                   commit, signal, sched, failed>>

finishTranslation ==
    /\ stage = "events"
    /\ \E sn \in iq.deferred \ inst.translated :
           inst' = [inst EXCEPT !.translated = @ \cup {sn}]
    /\ UNCHANGED <<program, stage, rename, dispatch, iq, memDep, fu, lsq, toCommit,
                   commit, signal, sched, failed>>

\* The data of a load: a squashed one is ignored.
writeback ==
    /\ stage = "events"
    /\ \E sn \in lsq.outstanding :
           /\ lsq' = [lsq EXCEPT !.outstanding = @ \ {sn}]
           /\ IF sn \in inst.squashed THEN UNCHANGED <<inst, toCommit>>
              ELSE /\ inst' = executedInst(inst, sn)
                   /\ toCommit' = instToCommit(sn)
    /\ UNCHANGED <<program, stage, rename, dispatch, iq, memDep, fu, commit, signal,
                   sched, failed>>

\* The response to a store; an atomic has its result with it.
completeStore ==
    /\ stage = "events" /\ lsq.sent # 0
    /\ lsq' = [lsq EXCEPT !.canWB = @ \ {lsq.sent}, !.stores = @ \ {lsq.sent}, !.sent = 0]
    /\ IF isAtomic(lsq.sent)
       THEN inst' = executedInst(inst, lsq.sent) /\ toCommit' = instToCommit(lsq.sent)
       ELSE UNCHANGED <<inst, toCommit>>
    /\ UNCHANGED <<program, stage, rename, dispatch, iq, memDep, fu, commit, signal,
                   sched, failed>>

recvReqRetry ==
    /\ stage = "events" /\ lsq.cacheBlocked
    /\ IF lsq.storeBlocked THEN sendStore(cacheUnblocked(iq))
       ELSE /\ iq' = cacheUnblocked(iq)
            /\ lsq' = [lsq EXCEPT !.cacheBlocked = FALSE]
            /\ UNCHANGED <<memDep, failed>>
    /\ UNCHANGED <<program, stage, rename, dispatch, fu, inst, toCommit, commit, signal,
                   sched>>

processTrapEvent ==
    /\ stage = "events" /\ commit.status = "TrapPending" /\ ~commit.trap
    /\ commit' = [commit EXCEPT !.trap = TRUE]
    /\ UNCHANGED <<program, stage, rename, dispatch, iq, memDep, fu, inst, lsq, toCommit,
                   signal, sched, failed>>

IEWTick ==
    \/ checkSignalsAndUpdate \/ dispatchInst \/ dispatchDone
    \/ executeInsts \/ writebackInsts \/ writebackDone
    \/ scheduleReadyInsts \/ writebackStores \/ finish

Events ==
    \/ processFUCompletion \/ finishTranslation \/ writeback \/ completeStore
    \/ recvReqRetry \/ processTrapEvent

Next == RenameTick \/ IEWTick \/ commitTick \/ Events

\* The core ticks, and scheduled events happen.
Fairness ==
    /\ WF_vars(RenameTick \/ IEWTick \/ commitTick)
    /\ SF_vars(Events)

Spec == Init /\ [][Next]_vars /\ Fairness

-----------------------------------------------------------------------------
(* Properties *)

committed == IF commit.last = 0 THEN 0 ELSE Pos(commit.last)

\* The assertions of rename, IEW, the IQ with its dependency graph, the memory
\* dependence unit, the LSQ and commit hold.
NoAssertFails == failed = {}

\* Between two cycles the count of free entries of the IQ is exact, and every
\* instruction in it that is not squashed and not executed is in exactly one of
\* the places from which it goes on: none is lost and none goes on twice.
Places(x) ==
    <<\E r \in DOMAIN iq.dependGraph : x \in iq.dependGraph[r] \/ memDeps(memDep, x) # {},
      x \in iq.nonSpecInsts, x \in iq.ready, x \in Range(iq.toExecute),
      x \in fu.completions, x \in iq.deferred, x \in iq.blocked, x \in iq.retry,
      x \in memDep.toReplay, x \in lsq.outstanding, x \in lsq.canWB>>

Occupied == {x \in Range(iq.instList) :
                x \notin inst.issued \/ (isMemRef(x) /\ x \notin inst.memOpDone)}

EntriesAccounted ==
    stage = "events" =>
        /\ iq.freeEntries = numEntries - Cardinality(Occupied)
        /\ \A x \in Range(iq.instList) \ (inst.squashed \cup inst.executed) :
               x > commit.last => Cardinality({k \in DOMAIN Places(x) : Places(x)[k]}) = 1

\* An instruction on its way to commit that executes, or has executed, read
\* results that exist: each source is committed or has executed without fault in
\* the same ROB; and no access goes ahead of an older barrier.
InExecution ==
    (commit.rob \ inst.squashed) \cap
        (Range(iq.toExecute) \cup fu.completions \cup lsq.outstanding \cup inst.executed)

OperandsReady ==
    \A x \in InExecution :
        /\ \A r \in Src(x) :
               r <= committed
                   \/ \E y \in commit.rob : Pos(y) = r /\ y \in inst.executed \ inst.fault
        /\ isMemRef(x) => \A y \in commit.rob :
                              y < x /\ isBarrier(y) => y \in inst.executed

\* Every program runs to its end.
AllRetire == <>(committed = N)

=============================================================================

---------------------------- MODULE SharedBlock ----------------------------
(***************************************************************************)
(* One block in a multicore: the L1 caches of several cores on a coherent  *)
(* crossbar, the L2 below it, and memory (mem/cache/{base,cache,mshr}.cc,  *)
(* mem/coherent_xbar.cc).  A request snoops the other L1 caches while it is *)
(* being sent; a cache with a request in flight defers the snoop to its     *)
(* response; modified data passes from cache to cache; stores to shared     *)
(* copies upgrade them.  On top of this work the no-fill accesses, which    *)
(* use a temporary block and evict it at once.                              *)
(*                                                                         *)
(* All accesses are of one security domain.  The other blocks appear by     *)
(* what they do to this one: they evict it, they make its allocation fail,  *)
(* or they fill the write buffer.  A block's value counts the stores        *)
(* performed on it, each of which changes only a part of the block.         *)
(*                                                                         *)
(* The configuration of the system and what happens to it is a scenario,    *)
(* chosen at the start and fixed from then on.                              *)
(***************************************************************************)
EXTENDS Integers, Sequences, FiniteSets, SequencesExt

CONSTANTS
    L1,             \* the L1 caches
    L2,             \* the cache below the crossbar
    Scenarios

Cache == L1 \cup {L2}

Scenario ==
    [readOnly    : SUBSET L1,     \* the instruction caches among the L1 caches
     prefetching : SUBSET L1,     \* the L1 caches with an SHB
     noFillFlags : SUBSET BOOLEAN,  \* the no-fill flags the cores set
     evicting    : SUBSET Cache,  \* the caches that evict the block for others
     victimBusy  : BOOLEAN,  \* may a victim be the block of an outstanding upgrade?
     fullBuffers : BOOLEAN,  \* may the write buffers be full of other blocks?
     maxOps      : [L1 -> Nat]]   \* bound on the accesses of each core

ASSUME SharedAssumption == L2 \notin L1 /\ Scenarios \subseteq Scenario

VARIABLES
    scenario,
    blk,        \* blk[n]: the block in the tags of cache n
    mshr,       \* mshr[n]: the MSHR of the block, or NoMSHR
    wb,         \* wb[n]: the entries of the block in the write buffer
    resp,       \* resp[n]: the response on its way to n, or NoResp
    mem,        \* the value in memory
    issued,     \* issued[c]: number of accesses of c
    seen,       \* history: seen[c], the newest value c has read or written
    wanted,     \* history: the L1 caches a filling access or prefetch used
    failed      \* the asserts and panics that have fired

vars == <<scenario, blk, mshr, wb, resp, mem, issued, seen, wanted, failed>>

\* An instruction cache writes clean blocks back (writeback_clean), and does not
\* honour no-fill requests; the data caches and the L2 do.
readOnly == scenario.readOnly
writebackClean == scenario.readOnly
nofillEn == Cache \ scenario.readOnly

NoBlk == [valid |-> FALSE, readable |-> FALSE, writable |-> FALSE,
          dirty |-> FALSE, val |-> 0]
NoMSHR == [targets |-> <<>>]
NoResp == [none |-> TRUE]
HasMSHR(n) == mshr[n] # NoMSHR

Init ==
    /\ scenario \in Scenarios
    /\ blk = [n \in Cache |-> NoBlk]
    /\ mshr = [n \in Cache |-> NoMSHR]
    /\ wb = [n \in Cache |-> <<>>]
    /\ resp = [n \in Cache |-> NoResp]
    /\ mem = 0
    /\ issued = [c \in L1 |-> 0]
    /\ seen = [c \in L1 |-> 0]
    /\ wanted = {}
    /\ failed = {}

Failing(name, cond) == IF cond THEN {name} ELSE {}

-----------------------------------------------------------------------------
(* Packets.  A target of an MSHR is a packet with its source: "CPU" for an   *)
(* access of the core or a request of a cache above, "Pf", or "Snoop".       *)

cmdNeedsWritable(cmd) == cmd \in {"Store", "ReadExReq", "UpgradeReq"}
responseCommand(cmd) ==
    CASE cmd = "ReadExReq" -> "ReadExResp"
      [] cmd = "UpgradeReq" -> "UpgradeResp"
      [] OTHER -> "ReadResp"
isRead(r) == r.cmd # "UpgradeResp"      \* of a response: it carries data

Packet(cmd, from, noFill) ==
    [src |-> "CPU", cmd |-> cmd, from |-> from, mayNotFill |-> noFill,
     hasSharers |-> FALSE, since |-> 0, promised |-> FALSE]
SnoopTarget(p, will_respond) ==
    [p EXCEPT !.src = "Snoop", !.hasSharers = FALSE, !.promised = will_respond]
Response(p, v, sharers, responding, noFillLower) ==
    [cmd |-> responseCommand(p.cmd), val |-> v, hasSharers |-> sharers,
     cacheResponding |-> responding, noFillLower |-> noFillLower]

-----------------------------------------------------------------------------
(* MSHRs. *)

needsWritable(ts) ==
    \E i \in 1..Len(ts) : ts[i].src # "Snoop" /\ cmdNeedsWritable(ts[i].cmd)

\* populateFlags: the no-fill flag of a list of targets.
populateFlags(ts) ==
    \A i \in 1..Len(ts) : ts[i].src # "Snoop" => ts[i].mayNotFill

\* allocateMissBuffer: a cache without no-fill support clears the flag.
allocateMissBuffer(n, t) ==
    [inService |-> FALSE, targets |-> <<t>>, deferredTargets |-> <<>>,
     mayNotFill |-> t.mayNotFill /\ n \in nofillEn, pendingModified |-> FALSE,
     postInvalidate |-> FALSE, postDowngrade |-> FALSE, isForward |-> FALSE]

\* Faulty variant: an access joins a miss that a snoop has already taken the block from.
mustDeferStoresOnly(m, t) ==
    \/ m.deferredTargets # <<>>
    \/ /\ m.inService /\ cmdNeedsWritable(t.cmd)
       /\ ~m.pendingModified \/ m.postDowngrade \/ m.postInvalidate \/ m.isForward
mustDefer(m, t) ==
    \/ m.deferredTargets # <<>>
    \/ /\ m.inService
       /\ \/ m.postInvalidate
          \/ /\ cmdNeedsWritable(t.cmd)
             /\ ~m.pendingModified \/ m.postDowngrade \/ m.isForward

allocateTarget(m, t) ==
    IF mustDefer(m, t)
    THEN [m EXCEPT !.deferredTargets = Append(@, t)]
    ELSE [m EXCEPT !.targets = Append(@, t),
                   !.mayNotFill = @ /\ t.mayNotFill]

markInService(m, pending_modified_resp, forward) ==
    [m EXCEPT !.inService = TRUE, !.isForward = forward,
              !.pendingModified = needsWritable(m.targets) \/ pending_modified_resp,
              !.postInvalidate = FALSE, !.postDowngrade = FALSE]

updateMayNotFill(m) == [m EXCEPT !.mayNotFill = FALSE]

\* A writable response lets the deferred targets be served with the others.
promoteWritable(m, b) ==
    IF /\ b.writable /\ needsWritable(m.deferredTargets)
       /\ ~m.postInvalidate /\ ~m.postDowngrade
    THEN [m EXCEPT !.targets = @ \o m.deferredTargets, !.deferredTargets = <<>>]
    ELSE m

\* A response that invalidates serves the first access and the snoops only.
isSnoop(t) == t.src = "Snoop"
isAccess(t) == t.src # "Snoop"
extractServiceableTargets(m, r) ==
    IF r.cmd = "ReadRespWithInvalidate"
    THEN <<Head(m.targets)>> \o SelectSeq(Tail(m.targets), isSnoop)
    ELSE m.targets
remainingTargets(m, r) ==
    (IF r.cmd = "ReadRespWithInvalidate"
     THEN SelectSeq(Tail(m.targets), isAccess) ELSE <<>>) \o m.deferredTargets

\* The targets that were not served make the MSHR pending again.
promoteDeferredTargets(m, ts) ==
    IF ts = <<>> THEN NoMSHR
    ELSE [m EXCEPT !.targets = ts, !.deferredTargets = <<>>,
                   !.inService = FALSE, !.mayNotFill = populateFlags(ts)]

-----------------------------------------------------------------------------
(* Snoops.  Each operator gives what the snoop of packet p leaves behind and *)
(* what it tells the sender: hasSharers, cacheResponding,                    *)
(* responderHadWritable, and the response it sends, if any.                  *)

\* Faulty variant: an invalidation clears the valid bit only.
invalidateValidBit(b) == [b EXCEPT !.valid = FALSE]
invalidateBlock(b) == NoBlk

\* Faulty variant: a read snoop leaves the block writable.
downgradeNothing(b) == b
downgrade(b) == [b EXCEPT !.writable = FALSE]

\* handleSnoop on block b.
SnoopBlk(b, p, pending_inval) ==
    LET invalidate == cmdNeedsWritable(p.cmd)
        reply == Response(p, b.val, ~invalidate, TRUE, FALSE)
    IN  [blk |-> IF invalidate THEN invalidateBlock(b) ELSE downgrade(b),
         hasSharers |-> b.valid /\ ~invalidate,
         cacheResponding |-> b.valid /\ b.dirty,
         responderHadWritable |-> b.valid /\ b.dirty /\ invalidate /\ b.writable,
         reply |-> IF ~(b.valid /\ b.dirty) THEN NoResp
                   ELSE IF reply.cmd = "ReadResp" /\ pending_inval
                   THEN [reply EXCEPT !.cmd = "ReadRespWithInvalidate"]
                   ELSE reply]

\* Faulty variant: a cache that has promised the block away promises it again.
SnoopMSHRTwice(m, p) ==
    [mshr |-> [m EXCEPT !.targets = Append(@, SnoopTarget(p, m.pendingModified)),
                        !.postInvalidate = @ \/ cmdNeedsWritable(p.cmd),
                        !.postDowngrade = @ \/ ~cmdNeedsWritable(p.cmd)],
     hasSharers |-> ~cmdNeedsWritable(p.cmd),
     cacheResponding |-> m.pendingModified, done |-> m.pendingModified]

\* MSHR::handleSnoop of an MSHR in service: its request precedes the snoop.
SnoopMSHR(m, p) ==
    LET invalidate == cmdNeedsWritable(p.cmd)
        responds == m.pendingModified /\ ~m.postInvalidate
    IN  [mshr |-> IF m.postInvalidate THEN m
                  ELSE [m EXCEPT
                          !.targets = IF m.pendingModified \/ invalidate
                                      THEN Append(@, SnoopTarget(p, responds))
                                      ELSE @,
                          !.postInvalidate = invalidate,
                          !.postDowngrade = @ \/ ~invalidate],
         hasSharers |-> ~invalidate /\ ~m.postInvalidate,
         cacheResponding |-> responds,
         done |-> responds \/ m.postInvalidate]

\* The write buffer answers for a block it still holds; an invalidation
\* discards the writeback.
SnoopWB(w, p) ==
    LET invalidate == cmdNeedsWritable(p.cmd)
        e == Head(w)
        responds == w # <<>> /\ e.cmd = "WritebackDirty"
    IN  [wb |-> IF w = <<>> THEN w
                ELSE IF invalidate THEN Tail(w)
                ELSE [w EXCEPT ![1].hasSharers = TRUE],
         hasSharers |-> w # <<>> /\ ~invalidate,
         cacheResponding |-> responds,
         responderHadWritable |-> responds /\ ~e.hasSharers,
         reply |-> IF responds THEN Response(p, e.val, ~invalidate, TRUE, FALSE)
                   ELSE NoResp]

\* Cache::recvTimingSnoopReq of L1 cache s: the MSHR first, then the write
\* buffer, then the block.
recvTimingSnoopReq(s, p) ==
    LET inService == HasMSHR(s) /\ mshr[s].inService
        m == SnoopMSHR(mshr[s], p)
        w == SnoopWB(wb[s], p)
        b == SnoopBlk(blk[s], p, FALSE)
    IN  IF inService /\ m.done
        THEN [blk |-> blk[s], mshr |-> m.mshr, wb |-> wb[s],
              hasSharers |-> m.hasSharers,
              cacheResponding |-> m.cacheResponding,
              responderHadWritable |-> m.cacheResponding, reply |-> NoResp]
        ELSE [blk |-> IF blk[s].valid THEN b.blk ELSE blk[s],
              mshr |-> IF inService THEN m.mshr ELSE mshr[s],
              wb |-> w.wb,
              hasSharers |-> \/ inService /\ m.hasSharers
                             \/ w.hasSharers \/ b.hasSharers,
              cacheResponding |-> w.cacheResponding \/ b.cacheResponding,
              responderHadWritable |-> \/ w.responderHadWritable
                                       \/ b.responderHadWritable,
              reply |-> IF w.reply # NoResp THEN w.reply ELSE b.reply]

\* The snoop of an eviction: does L1 cache s still use the block?
blockCached(s) == HasMSHR(s) \/ wb[s] # <<>> \/ blk[s].valid
isCachedAbove(n) == n = L2 /\ \E s \in L1 : blockCached(s)

-----------------------------------------------------------------------------
(* Evictions. *)

evictCmd(n, b) ==
    CASE b.dirty -> "WritebackDirty"
      [] ~b.dirty /\ n \in writebackClean -> "WritebackClean"
      [] OTHER -> "CleanEvict"

\* Faulty variant: the eviction of a temporary block may fill below.
EvictPktFills(n, b, no_fill, m) ==
    [cmd |-> evictCmd(n, b), val |-> b.val, from |-> n,
     hasSharers |-> evictCmd(n, b) # "CleanEvict" /\ ~b.writable,
     mayNotFill |-> FALSE, late |-> m # NoMSHR]

\* evictBlock, of a block with MSHR m or NoMSHR.  An entry of the write buffer
\* is late when it is younger than the MSHR of its block.
EvictPkt(n, b, no_fill, m) ==
    [cmd |-> evictCmd(n, b), val |-> b.val, from |-> n,
     hasSharers |-> evictCmd(n, b) # "CleanEvict" /\ ~b.writable,
     mayNotFill |-> no_fill, late |-> m # NoMSHR]

\* doWritebacks: what the eviction of block b of cache n adds to the write
\* buffer.
doWritebacks(n, b, no_fill, m) ==
    IF ~b.dirty /\ isCachedAbove(n) THEN <<>>
    ELSE <<EvictPkt(n, b, no_fill, m)>>

-----------------------------------------------------------------------------
(* The value of the block. *)

\* The copies whose holder has to write them back or pass them on.
ModifiedVals ==
    {blk[n].val : n \in {n \in Cache : blk[n].valid /\ blk[n].dirty}}
    \cup UNION {{wb[n][i].val : i \in {i \in 1..Len(wb[n]) :
                                wb[n][i].cmd = "WritebackDirty"}} : n \in Cache}
    \cup {IF isRead(resp[n]) THEN resp[n].val ELSE blk[n].val :
             n \in {n \in Cache : /\ resp[n] # NoResp
                                  /\ resp[n].cacheResponding
                                  /\ ~resp[n].hasSharers}}
CurrentVal == IF ModifiedVals = {} THEN mem ELSE Max(ModifiedVals)

-----------------------------------------------------------------------------
(* Accesses. *)

\* access: does block b satisfy packet p?
accessHit(b, p) ==
    b.valid /\ IF cmdNeedsWritable(p.cmd) THEN b.writable ELSE b.readable

\* satisfyRequest for the request t of a cache above, from block b of the L2:
\* the block and the response.  A deferred response answers after a miss.
satisfyRequest(b, t, deferred, noFillLower) ==
    LET exclusive == b.writable /\ ~t.hasSharers /\ t.cmd # "ReadCleanReq"
        passDirty == b.dirty /\ (cmdNeedsWritable(t.cmd) \/ (exclusive /\ ~deferred))
        sharers == ~cmdNeedsWritable(t.cmd) /\ (~exclusive \/ (b.dirty /\ deferred))
    IN  [blk |-> IF passDirty THEN [b EXCEPT !.dirty = FALSE] ELSE b,
         reply |-> Response(t, b.val, sharers, passDirty, noFillLower)]

\* satisfyRequest for an access of the core.
satisfyAccess(b, t) ==
    IF t.cmd = "Store" THEN [b EXCEPT !.val = @ + 1, !.dirty = TRUE] ELSE b

\* handleTimingReqMiss: coalesce, or allocate an MSHR.  A write miss to a
\* valid block makes it unreadable.
handleTimingReqMiss(n, t) ==
    IF HasMSHR(n) THEN [mshr |-> allocateTarget(mshr[n], t), blk |-> blk[n]]
    ELSE [mshr |-> allocateMissBuffer(n, t),
          blk |-> [blk[n] EXCEPT !.readable = FALSE]]

\* recvPfAck in the L2.  An ack that is not block aligned finds no MSHR.
recvPfAck(aligned) ==
    IF aligned /\ HasMSHR(L2) THEN updateMayNotFill(mshr[L2]) ELSE mshr[L2]

accessing(c, op, noFill) ==
    /\ issued[c] < scenario.maxOps[c]
    /\ c \in readOnly => op = "Load" /\ ~noFill
    /\ issued' = [issued EXCEPT ![c] = @ + 1]
    /\ wanted' = IF noFill THEN wanted ELSE wanted \cup {c}

\* The core's access hits in its L1.
Hit(c, op, noFill) ==
    LET t == Packet(op, c, noFill)
        b == satisfyAccess(blk[c], t)
    IN  /\ accessing(c, op, noFill)
        /\ accessHit(blk[c], t)
        /\ blk' = [blk EXCEPT ![c] = b]
        /\ seen' = [seen EXCEPT ![c] = b.val]
        /\ UNCHANGED <<scenario, mshr, wb, resp, mem, failed>>

\* The access misses.  A filling one that joins a no-fill miss sends an ack.
Miss(c, op, noFill, aligned) ==
    LET t == [Packet(op, c, noFill) EXCEPT !.since = CurrentVal]
        r == handleTimingReqMiss(c, t)
        ack == HasMSHR(c) /\ mshr[c].mayNotFill /\ ~noFill
    IN  /\ accessing(c, op, noFill)
        /\ ~accessHit(blk[c], t)
        /\ mshr' = [mshr EXCEPT ![c] = r.mshr,
                               ![L2] = IF ack THEN recvPfAck(aligned) ELSE @]
        /\ blk' = [blk EXCEPT ![c] = r.blk]
        /\ failed' = failed \cup
               Failing("write miss", /\ ~HasMSHR(c) /\ blk[c].valid
                                     /\ op # "Store" \/ blk[c].writable)
        /\ UNCHANGED <<scenario, wb, resp, mem, seen>>

\* getNextQueueEntry takes a prefetch of the block from the SHB: it allocates
\* an MSHR (which SendMSHR sends at once, or later if the crossbar is busy), or
\* lets an outstanding no-fill miss fill, here and in the L2.
Prefetch(c) ==
    LET t == [Packet("HardPFReq", c, FALSE) EXCEPT !.src = "Pf"]
    IN  /\ c \in scenario.prefetching
        /\ wanted' = wanted \cup {c}
        /\ IF HasMSHR(c)
           THEN mshr' = [mshr EXCEPT ![c] = updateMayNotFill(@),
                                     ![L2] = recvPfAck(TRUE)]
           ELSE /\ ~blk[c].valid /\ wb[c] = <<>>
                /\ mshr' = [mshr EXCEPT ![c] = allocateMissBuffer(c, t)]
        /\ UNCHANGED <<scenario, blk, wb, resp, mem, issued, seen, failed>>

-----------------------------------------------------------------------------
(* Requests. *)

\* createMissPacket: the request of cache n for its first target.
isForwarded(n) == ~blk[n].valid /\ Head(mshr[n].targets).cmd = "UpgradeReq"
createMissPacket(n) ==
    LET t == Head(mshr[n].targets)
        write == needsWritable(mshr[n].targets)
    IN  [Packet(CASE isForwarded(n) \/ blk[n].valid -> "UpgradeReq"
                  [] write /\ ~blk[n].valid -> "ReadExReq"
                  [] n \in readOnly -> "ReadCleanReq"
                  [] OTHER -> "ReadSharedReq",
                n, t.mayNotFill)
         EXCEPT !.hasSharers = t.hasSharers /\ ~write]
createMissPacketFails(n) ==
    Failing("upgrade of a writable block, or for a read",
            blk[n].valid /\ (~needsWritable(mshr[n].targets) \/ blk[n].writable))

\* Faulty variant: a miss does not wait for writebacks.
maySendMSHRAnyTime(n) == HasMSHR(n) /\ ~mshr[n].inService
\* Faulty variant: nothing is sent for a block the cache already holds.
maySendMSHRNotHeld(n) ==
    HasMSHR(n) /\ ~mshr[n].inService /\ wb[n] = <<>> /\ ~blk[n].valid

\* getNextQueueEntry: a miss waits for the writebacks of its block, unless the
\* write buffer is full and the writeback is the younger one.
maySendMSHR(n) ==
    /\ HasMSHR(n) /\ ~mshr[n].inService
    /\ \A i \in 1..Len(wb[n]) : scenario.fullBuffers /\ wb[n][i].late

\* recvTimingReq of the L2.
L2Access(p) ==
    LET hit == satisfyRequest(blk[L2], p, FALSE, FALSE)
        miss == handleTimingReqMiss(L2, p)
    IN  IF accessHit(blk[L2], p)
        THEN [blk |-> hit.blk, mshr |-> mshr[L2], reply |-> hit.reply]
        ELSE [blk |-> miss.blk, mshr |-> miss.mshr, reply |-> NoResp]

\* An L1 sends its request.  The crossbar snoops the other L1 caches; if one of
\* them responds the L2 does nothing, else the L2 hits or misses.
SendMSHR(c) ==
    LET p == createMissPacket(c)
        snoop == [s \in L1 \ {c} |-> recvTimingSnoopReq(s, p)]
        sharers == \E s \in L1 \ {c} : snoop[s].hasSharers
        responders == {s \in L1 \ {c} : snoop[s].cacheResponding}
        replies == {snoop[s].reply : s \in L1 \ {c}} \ {NoResp}
        l2 == IF responders # {}
              THEN [blk |-> blk[L2], mshr |-> mshr[L2], reply |-> NoResp]
              ELSE L2Access([p EXCEPT !.hasSharers = sharers])
        r == IF replies # {} THEN CHOOSE x \in replies : TRUE ELSE l2.reply
        modified == IF responders # {} THEN ~sharers
                    ELSE l2.reply # NoResp /\ l2.reply.cacheResponding
                           /\ ~l2.reply.hasSharers
    IN  /\ maySendMSHR(c)
        /\ blk' = [n \in Cache |-> CASE n = c -> blk[c] [] n = L2 -> l2.blk
                                     [] OTHER -> snoop[n].blk]
        /\ mshr' = [n \in Cache |->
                       CASE n = c -> markInService(mshr[c], modified, FALSE)
                         [] n = L2 -> l2.mshr
                         [] OTHER -> snoop[n].mshr]
        /\ wb' = [n \in Cache |-> IF n \in {c, L2} THEN wb[n] ELSE snoop[n].wb]
        /\ resp' = [resp EXCEPT ![c] = r]
        /\ failed' = failed \cup createMissPacketFails(c)
                \cup Failing("two caches respond", Cardinality(responders) > 1)
        /\ UNCHANGED <<scenario, mem, issued, seen, wanted>>

\* The L2 sends its request; memory, or the crossbar for an upgrade, answers.
L2SendMSHR ==
    LET p == createMissPacket(L2)
    IN  /\ maySendMSHR(L2)
        /\ mshr' = [mshr EXCEPT ![L2] = markInService(@, FALSE, isForwarded(L2))]
        /\ resp' = [resp EXCEPT ![L2] = Response(p, mem, p.hasSharers, FALSE, FALSE)]
        /\ failed' = failed \cup createMissPacketFails(L2)
        /\ UNCHANGED <<scenario, blk, wb, mem, issued, seen, wanted>>

-----------------------------------------------------------------------------
(* Writebacks. *)

\* A clean eviction e goes no further when another L1 still uses the block, or
\* when the L2 evicts or misses it too.
sinkPacket(e) == \E s \in L1 \ {e.from} : blockCached(s)
isDropped(e) ==
    /\ e.cmd # "WritebackDirty"
    /\ \/ sinkPacket(e) \/ wb[L2] # <<>> \/ HasMSHR(L2)
       \/ e.cmd = "CleanEvict" /\ blk[L2].valid

\* The L2 receives the eviction e.  A WritebackDirty takes the place of a
\* writeback of the L2's own.  A writeback updates the block the L2 has, or one
\* it allocates; else it is passed on, as is a CleanEvict.
L2Writeback(e, found) ==
    LET own == IF wb[L2] = <<>> THEN <<>> ELSE Tail(wb[L2])
        b == blk[L2]
        stored == /\ e.cmd # "CleanEvict"
                  /\ b.valid \/ (found /\ ~(L2 \in nofillEn /\ e.mayNotFill))
    IN  /\ blk' = IF stored /\ ~isDropped(e)
                  THEN [blk EXCEPT ![L2] =
                          [valid |-> TRUE, val |-> e.val,
                           dirty |-> b.dirty \/ e.cmd = "WritebackDirty",
                           readable |-> b.readable \/ ~b.valid,
                           writable |-> b.writable \/ ~e.hasSharers]]
                  ELSE blk
        /\ wb' = [wb EXCEPT ![e.from] = Tail(@),
                           ![L2] = CASE isDropped(e) -> @
                                     [] stored /\ ~isDropped(e) -> own
                                     [] OTHER ->
                                          Append(own, [e EXCEPT !.late = HasMSHR(L2)])]
        /\ failed' = failed
             \cup Failing("eviction meets a clean eviction",
                          /\ e.cmd = "WritebackDirty" \/ ~sinkPacket(e)
                          /\ wb[L2] # <<>> /\ Head(wb[L2]).cmd = "CleanEvict")
             \cup Failing("writeback to an outstanding miss",
                          ~stored /\ ~isDropped(e) /\ HasMSHR(L2))

\* Does allocateBlock find a victim in cache n?  handleEvictions refuses one
\* with an outstanding upgrade, which a read-only cache never has.
VictimFound(n) == IF scenario.victimBusy /\ n \notin readOnly THEN BOOLEAN ELSE {TRUE}

\* An L1 sends an entry of its write buffer.
SendWB(c) ==
    /\ wb[c] # <<>>
    /\ \E found \in VictimFound(L2) : L2Writeback(Head(wb[c]), found)
    /\ UNCHANGED <<scenario, mshr, resp, mem, issued, seen, wanted>>

\* Memory after packet p of a write buffer: it ignores what is clean.
memAccess(p) == IF p.cmd = "WritebackDirty" THEN p.val ELSE mem

\* The L2 sends an entry of its write buffer to memory.
L2SendWB ==
    /\ wb[L2] # <<>>
    /\ mem' = memAccess(Head(wb[L2]))
    /\ wb' = [wb EXCEPT ![L2] = Tail(@)]
    /\ UNCHANGED <<scenario, blk, mshr, resp, issued, seen, wanted, failed>>

\* handleEvictions: another block takes the place of this one.
Evict(n) ==
    /\ n \in scenario.evicting /\ blk[n].valid /\ ~HasMSHR(n)
    /\ wb' = [wb EXCEPT ![n] = @ \o doWritebacks(n, blk[n], FALSE, NoMSHR)]
    /\ blk' = [blk EXCEPT ![n] = NoBlk]
    /\ UNCHANGED <<scenario, mshr, resp, mem, issued, seen, wanted, failed>>

-----------------------------------------------------------------------------
(* Responses. *)

\* handleFill: the state response r gives to block b, in the tags or temporary.
handleFill(b, r) ==
    [valid |-> TRUE, readable |-> TRUE,
     writable |-> b.writable \/ ~r.hasSharers,
     dirty |-> b.dirty \/ (~r.hasSharers /\ r.cacheResponding),
     val |-> IF isRead(r) THEN r.val ELSE b.val]

\* serviceMSHRTargets, for one target t.  s holds the block, the replies sent
\* to the L1 caches, what the core has seen, and what has failed.
serviceTarget(n, m, r, noFillLower, s, t) ==
    LET snoop == SnoopBlk(s.blk, t, m.postInvalidate)
        req == satisfyRequest(s.blk, t, TRUE, noFillLower)
        acc == satisfyAccess(s.blk, t)
        reply(x) == [s.reply EXCEPT ![t.from] = x]
    IN  CASE t.src = "Pf" -> s
          [] t.src = "Snoop" ->
               [s EXCEPT !.blk = IF s.blk.valid THEN snoop.blk ELSE s.blk,
                         !.reply = IF snoop.reply = NoResp THEN @
                                   ELSE reply(snoop.reply),
                         !.failed = @ \cup Failing("deferred snoop misses",
                                                   ~s.blk.valid)]
          [] t.src = "CPU" /\ n \in L1 ->
               [s EXCEPT !.blk = acc, !.seen = acc.val,
                         !.failed = @ \cup Failing("store to a block not writable",
                                       t.cmd = "Store" /\ ~s.blk.writable)]
          [] t.src = "CPU" /\ n = L2 /\ s.blk.valid ->
               [s EXCEPT !.blk = req.blk, !.reply = reply(req.reply)]
          [] t.src = "CPU" /\ n = L2 /\ ~s.blk.valid ->
               [s EXCEPT !.reply = reply(Response(t, 0, r.hasSharers,
                                                  r.cacheResponding, FALSE)),
                         !.failed = @ \cup Failing("no data to forward",
                                                   t.cmd # "UpgradeReq")]

\* recvTimingResp: fill, serve the targets, apply the snoops that came in the
\* meantime, make what is left pending again, evict a temporary block.
RecvTimingResp(n, found) ==
    LET r == resp[n]
        fill == ~mshr[n].isForward
        temp == /\ fill /\ ~blk[n].valid
                /\ mshr[n].mayNotFill \/ r.noFillLower \/ ~found
        filled == IF fill THEN handleFill(blk[n], r) ELSE blk[n]
        m == promoteWritable(mshr[n], filled)
        Serve(s, t) == serviceTarget(n, m, r, r.noFillLower \/ temp, s, t)
        served == FoldLeft(Serve,
                           [blk |-> filled, reply |-> [resp EXCEPT ![n] = NoResp],
                            seen |-> IF n = L2 THEN 0 ELSE seen[n], failed |-> {}],
                           extractServiceableTargets(m, r))
        snooped ==
            CASE r.cmd = "ReadRespWithInvalidate" \/ m.postInvalidate ->
                   invalidateBlock(served.blk)
              [] ~m.postInvalidate /\ m.postDowngrade /\ served.blk.valid ->
                   downgrade(served.blk)
              [] OTHER -> served.blk
        m2 == promoteDeferredTargets(m, remainingTargets(m, r))
        last == IF m2 = NoMSHR THEN snooped ELSE [snooped EXCEPT !.readable = FALSE]
    IN  /\ r # NoResp
        /\ blk' = [blk EXCEPT ![n] = IF temp THEN NoBlk ELSE last]
        /\ mshr' = [mshr EXCEPT ![n] = m2]
        /\ wb' = [wb EXCEPT ![n] = IF temp /\ last.valid
                                   THEN @ \o doWritebacks(n, last, TRUE, m2) ELSE @]
        /\ resp' = served.reply
        /\ seen' = IF n = L2 THEN seen ELSE [seen EXCEPT ![n] = served.seen]
        /\ failed' = failed \cup served.failed
             \cup Failing("write to the line of a fill", fill /\ wb[n] # <<>>)
             \cup Failing("no data for a fill",
                          fill /\ ~blk[n].valid /\ ~isRead(r))
             \cup Failing("tempBlock without nofill", temp /\ n \notin nofillEn)
             \cup Failing("promoteWritable", /\ m # mshr[n]
                                             /\ needsWritable(mshr[n].targets))
             \cup Failing("dirty response in a read-only cache",
                          n \in readOnly /\ filled.dirty)
        /\ UNCHANGED <<scenario, mem, issued, wanted>>

-----------------------------------------------------------------------------
Next ==
    \/ \E c \in L1, op \in {"Load", "Store"}, noFill \in scenario.noFillFlags :
         \/ Hit(c, op, noFill)
         \/ \E aligned \in BOOLEAN : Miss(c, op, noFill, aligned)
    \/ \E c \in L1 : Prefetch(c) \/ SendMSHR(c) \/ SendWB(c)
    \/ L2SendMSHR \/ L2SendWB
    \/ \E n \in Cache : \/ Evict(n)
                         \/ \E found \in VictimFound(n) : RecvTimingResp(n, found)

Spec == Init /\ [][Next]_vars

\* A cache keeps sending what its queues hold, as sendDeferredPacket reschedules
\* its event until they are empty, and a port delivers every response it has
\* queued.  Each of these steps disables itself, so this is weak fairness of
\* SendMSHR, RecvTimingResp and SendWB.
Fairness ==
    \A n \in Cache : /\ []<>~maySendMSHR(n)
                     /\ []<>(resp[n] = NoResp)
                     /\ []<>(wb[n] = <<>>)
FairSpec == Spec /\ Fairness

-----------------------------------------------------------------------------
(* Properties. *)

Blk == [valid : BOOLEAN, readable : BOOLEAN, writable : BOOLEAN,
        dirty : BOOLEAN, val : Nat]

\* Types; block states are those of MOESI, and the flags of an MSHR exist only
\* with its targets.
TypeOK ==
    /\ blk \in [Cache -> Blk]
    /\ \A n \in Cache : ~blk[n].valid => blk[n] = NoBlk
    /\ \A n \in Cache : HasMSHR(n) => mshr[n].targets # <<>>
    /\ \A n \in Cache : resp[n] # NoResp => HasMSHR(n) /\ mshr[n].inService
    /\ \A c \in L1 : issued[c] \in 0..scenario.maxOps[c]
    /\ mem \in Nat /\ seen \in [L1 -> Nat]
    /\ wanted \subseteq L1

\* A writable copy in an L1 is the only copy in the L1 caches: no other tags
\* hold the block, no other write buffer has it, and no response that another
\* cache will use past its arrival carries it.
SingleWriter ==
    \A c, d \in L1 : c # d /\ blk[c].valid /\ blk[c].writable =>
        /\ ~blk[d].valid
        /\ \A i \in 1..Len(wb[d]) : wb[d][i].cmd = "CleanEvict"
        /\ resp[d] # NoResp /\ isRead(resp[d]) =>
             mshr[d].postInvalidate \/ resp[d].cmd = "ReadRespWithInvalidate"

\* None of the asserts and panics on the paths of the model fires.  At any moment
\* a cache that holds the block and has a miss of it outstanding is upgrading a
\* copy it may only read, as handleEvictions asserts of a victim it gives up on.
NoAssertFails ==
    /\ failed = {}
    /\ \A n \in Cache : blk[n].valid /\ HasMSHR(n) =>
           ~blk[n].writable /\ needsWritable(mshr[n].targets)

\* Every request that has been sent is owed exactly one answer, by one party:
\* the response is on its way, or the L2 has the request as a target, or one
\* other L1 has promised to respond when its own miss completes.  A request not
\* yet sent is owed none.
Owed(c) ==
    (IF resp[c] = NoResp THEN {} ELSE {<<"resp">>})
    \cup (IF HasMSHR(L2)
          THEN LET ts == mshr[L2].targets \o mshr[L2].deferredTargets
               IN  {<<"L2", i>> : i \in {i \in 1..Len(ts) : ts[i].from = c}}
          ELSE {})
    \cup UNION {{<<d, i>> : i \in {i \in 1..Len(mshr[d].targets) :
                    mshr[d].targets[i].promised /\ mshr[d].targets[i].from = c}}
               : d \in L1}
OneAnswer ==
    \A c \in L1 : Cardinality(Owed(c)) =
                  IF HasMSHR(c) /\ mshr[c].inService THEN 1 ELSE 0

\* No-fill accesses leave no copy behind: an L1 holds the block only if a
\* filling access or a prefetch of its own core asked for it, and the L2 only if
\* one of some core did.
NoFillLeavesNoTrace ==
    /\ \A c \in L1 : blk[c].valid => c \in wanted
    /\ blk[L2].valid => wanted # {}

\* The caches implement one block with one value: see AtomicBlock.
waiting(c) ==
    IF HasMSHR(c)
    THEN LET ts == SelectSeq(mshr[c].targets \o mshr[c].deferredTargets,
                             LAMBDA t : t.src = "CPU")
         IN  [i \in 1..Len(ts) |-> [op |-> ts[i].cmd, since |-> ts[i].since]]
    ELSE <<>>
Atomic == INSTANCE AtomicBlock WITH
    Core <- L1, val <- CurrentVal, queue <- [c \in L1 |-> waiting(c)], seen <- seen
ImplementsAtomicBlock == Atomic!Spec

\* Every access a core has made is performed, however its cache's requests,
\* deferred snoops, second requests and no-fill evictions interleave with those
\* of the other caches, and although each snoop may take the block away before
\* all of the accesses that wait for it are served.
AccessesPerformed == \A c \in L1 : []<>(waiting(c) = <<>>)

-----------------------------------------------------------------------------
(* What a comment and two asserts of the code say, and what happens when the   *)
(* write buffers are full.                                                    *)

\* The writeback of a block goes before a request for it, "to preserve the dirty
\* data", so "when handling a fill, we should have no writes to this line", and
\* no writeback reaches a cache with a miss of its block outstanding.
WritebackGoesFirst ==
    {"write to the line of a fill", "writeback to an outstanding miss"}
        \cap failed = {}

=============================================================================

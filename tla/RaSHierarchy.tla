---------------------------- MODULE RaSHierarchy ----------------------------
(***************************************************************************)
(* A core's data path through two RaS caches: the L1 data cache, the L2    *)
(* and the memory below (mem/cache/{base,cache,mshr}.cc).  The module      *)
(* follows an access through both caches: hit, MSHR allocation and         *)
(* coalescing, the request downstream, the response, the fill or the       *)
(* temporary block of a no-fill access, the eviction and its writeback.    *)
(*                                                                         *)
(* One core uses the path, so no other cache snoops it.  Then memory and   *)
(* the L2 hand out every block writable, and the paths for upgrades,       *)
(* shared responses and deferred snoops are not reached.  Packets are      *)
(* whole blocks, so a value stands for the data of a block.  The ready     *)
(* times of queue entries are abstracted: any pending entry may be the one *)
(* at the head of its ready list.                                          *)
(***************************************************************************)
EXTENDS Integers, Sequences, FiniteSets, SequencesExt

CONSTANTS
    Addr,           \* block addresses
    Val,            \* block contents
    InitVal,        \* what memory holds at first
    ways,           \* ways[l]: blocks level l holds
    mshrs,          \* mshrs[l]: MSHRs of level l
    writeBuffers,   \* writeBuffers[l]: write buffers of level l
    tgtsPerMSHR,    \* targets an L1 MSHR takes
    demandReserve,  \* L1 MSHRs prefetches leave to demand misses
    nofillEn,       \* nofillEn[l]: level l honours no-fill requests
    pfAckEn,        \* pfAckEn[l]: level l lets a prefetch hit turn a no-fill
                    \* MSHR into a filling one
    prefetches      \* does the L1 have an SHB?

Level == {1, 2}

ASSUME HierarchyAssumption ==
    /\ InitVal \in Val
    /\ ways \in [Level -> Nat \ {0}]
    /\ mshrs \in [Level -> Nat \ {0}]
    /\ writeBuffers \in [Level -> Nat \ {0}]
    \* with one target per MSHR the cache never blocks for its targets
    /\ tgtsPerMSHR \in Nat \ {0, 1} /\ demandReserve \in Nat
    /\ nofillEn \in [Level -> BOOLEAN] /\ pfAckEn \in [Level -> BOOLEAN]
    \* an unprotected L1 above a protected L2 panics in handleFill
    /\ nofillEn[2] => nofillEn[1]
    /\ prefetches \in BOOLEAN

VARIABLES
    blk,        \* blk[l][a]: the block of a in level l
    mshr,       \* mshr[l][a]: the MSHR of a in level l, or NoMSHR
    wb,         \* wb[l]: the write buffer of level l
    resp,       \* resp[a]: the response for a on its way to the L1, or NoResp
    mem,        \* memory contents
    latest,     \* history: the value of the last store accepted
    wanted,     \* history: addresses some access or prefetch may fill
    evicted,    \* history: addresses the L2 evicted since the L1 asked for them
    stale,      \* history: has a load returned an old value?
    failed      \* the asserts and panics that have fired

vars == <<blk, mshr, wb, resp, mem, latest, wanted, evicted, stale, failed>>

NoBlk == [valid |-> FALSE, dirty |-> FALSE, val |-> InitVal]
Block(d, v) == [valid |-> TRUE, dirty |-> d, val |-> v]
NoMSHR == [targets |-> <<>>]
NoResp == [none |-> TRUE]

\* A target: a load carries the value it must return, a store the value it
\* writes.  "Read" and "ReadEx" come from the cache above.
Target == [op : {"Load", "Store", "Pf", "Read", "ReadEx"},
           mayNotFill : BOOLEAN, val : Val]
Writes(t) == t.op \in {"Store", "ReadEx"}

HasMSHR(l, a) == mshr[l][a] # NoMSHR
HasWB(l, a) == \E i \in 1..Len(wb[l]) : wb[l][i].addr = a
Allocated(l) == Cardinality({a \in Addr : HasMSHR(l, a)})
NumTargets(m) == Len(m.targets) + Len(m.deferredTargets)

\* The causes of setBlocked: no MSHR, no write buffer or no target left.
isBlocked(l) ==
    \/ Allocated(l) >= mshrs[l]
    \/ Len(wb[l]) >= writeBuffers[l]
    \/ l = 1 /\ \E a \in Addr : HasMSHR(1, a) /\ NumTargets(mshr[1][a]) >= tgtsPerMSHR

Init ==
    /\ blk = [l \in Level |-> [a \in Addr |-> NoBlk]]
    /\ mshr = [l \in Level |-> [a \in Addr |-> NoMSHR]]
    /\ wb = [l \in Level |-> <<>>]
    /\ resp = [a \in Addr |-> NoResp]
    /\ mem = [a \in Addr |-> InitVal]
    /\ latest = [a \in Addr |-> InitVal]
    /\ wanted = {} /\ evicted = {}
    /\ stale = FALSE
    /\ failed = {}

-----------------------------------------------------------------------------
(* MSHRs. *)

\* allocateMissBuffer: a level without no-fill support clears the flag.
NewMSHR(l, t) ==
    [inService |-> FALSE, targets |-> <<t>>, deferredTargets |-> <<>>,
     mayNotFill |-> t.mayNotFill /\ nofillEn[l], pendingModified |-> FALSE]

\* allocateTarget: a write waits behind an outstanding read, and everything
\* waits behind a deferred target.
allocateTargetOvertaking(m, t) ==                           \* faulty variant
    IF m.inService /\ Writes(t) /\ ~m.pendingModified
    THEN [m EXCEPT !.deferredTargets = Append(@, t)]
    ELSE [m EXCEPT !.targets = Append(@, t),
                   !.mayNotFill = @ /\ t.mayNotFill]
allocateTarget(m, t) ==
    IF m.deferredTargets # <<>> \/ (m.inService /\ Writes(t) /\ ~m.pendingModified)
    THEN [m EXCEPT !.deferredTargets = Append(@, t)]
    ELSE [m EXCEPT !.targets = Append(@, t),
                   !.mayNotFill = @ /\ t.mayNotFill]

needsWritable(m) == \E i \in 1..Len(m.targets) : Writes(m.targets[i])

markInService(m, pending_modified_resp) ==
    [m EXCEPT !.inService = TRUE,
              !.pendingModified = needsWritable(m) \/ pending_modified_resp]

updateMayNotFill(m) == [m EXCEPT !.mayNotFill = FALSE]

\* recvPfAck in the L2 for an ack sent by the L1: the L2's MSHRs afterwards.
\* The MSHR is looked up with the address of the access, which finds it only
\* if the access is to the first byte of the block.
recvPfAck(a, aligned) ==
    IF aligned /\ pfAckEn[2] /\ HasMSHR(2, a)
    THEN [mshr[2] EXCEPT ![a] = updateMayNotFill(@)]
    ELSE mshr[2]

-----------------------------------------------------------------------------
(* Evictions and write buffers. *)

\* evictBlock: a writeback for a dirty block, a CleanEvict for a clean one.
EvictPktFills(a, b, no_fill) ==                             \* faulty variant
    [addr |-> a, cmd |-> IF b.dirty THEN "WritebackDirty" ELSE "CleanEvict",
     val |-> b.val, mayNotFill |-> FALSE]
EvictPktClean(a, b, no_fill) ==                             \* faulty variant
    [addr |-> a, cmd |-> IF b.dirty THEN "WritebackDirty" ELSE "WritebackClean",
     val |-> b.val, mayNotFill |-> no_fill]
EvictPkt(a, b, no_fill) ==
    [addr |-> a, cmd |-> IF b.dirty THEN "WritebackDirty" ELSE "CleanEvict",
     val |-> b.val, mayNotFill |-> no_fill]

\* The snoop of isCachedAbove; the core above the L1 holds no blocks.
isCachedAbove(l, a) ==
    l = 2 /\ (HasMSHR(1, a) \/ HasWB(1, a) \/ blk[1][a].valid)

\* doWritebacks: what the evictions pkts of level l add to its write buffer.
doWritebacksNotAbove(l, pkts) ==                            \* faulty variant
    SelectSeq(pkts, LAMBDA p : ~isCachedAbove(l, p.addr))
doWritebacks(l, pkts) ==
    SelectSeq(pkts, LAMBDA p :
                 ~(p.cmd = "CleanEvict" /\ isCachedAbove(l, p.addr)))

\* getVictim picks a way: the set of modelled blocks to evict.  Any resident block
\* or a free way, because the order of the touches is left to TagStore.tla.
Victims(l) ==
    LET resident == {a \in Addr : blk[l][a].valid}
    IN  {{a} : a \in resident}
            \cup IF Cardinality(resident) < ways[l] THEN {{}} ELSE {}

\* allocateBlock gives up when an MSHR is outstanding for the victim.
CanEvict(l, evict_blks) == \A v \in evict_blks : ~HasMSHR(l, v)
EvictedPkts(l, evict_blks) ==
    SetToSeq({EvictPkt(v, blk[l][v], FALSE) : v \in evict_blks})
insertBlock(l, evict_blks, a, b) ==
    [x \in Addr |-> IF x = a THEN b ELSE IF x \in evict_blks THEN NoBlk
                                         ELSE blk[l][x]]

Failing(name, cond) == IF cond THEN {name} ELSE {}

-----------------------------------------------------------------------------
(* The core accesses the L1. *)

\* Nothing in the system holds or moves the block.
Absent(a) ==
    /\ \A l \in Level : ~blk[l][a].valid /\ ~HasMSHR(l, a) /\ ~HasWB(l, a)
    /\ resp[a] = NoResp

\* The history of an accepted access.
Accept(a, t) ==
    /\ latest' = IF t.op = "Store" THEN [latest EXCEPT ![a] = t.val] ELSE latest
    /\ wanted' = IF ~t.mayNotFill THEN wanted \cup {a}
                 ELSE IF Absent(a) THEN wanted \ {a} ELSE wanted

accessHit(a, t) ==
    /\ blk[1][a].valid
    /\ IF t.op = "Store"
       THEN blk' = [blk EXCEPT ![1][a] = Block(TRUE, t.val)] /\ UNCHANGED stale
       ELSE stale' = (stale \/ blk[1][a].val # t.val) /\ UNCHANGED blk
    /\ UNCHANGED <<mshr, evicted>>

\* MSHR hit: a filling access to a no-fill MSHR tells the L2 first.
coalesce(a, t, aligned) ==
    /\ ~blk[1][a].valid /\ HasMSHR(1, a)
    /\ LET ack == mshr[1][a].mayNotFill /\ ~t.mayNotFill
       IN  mshr' = [mshr EXCEPT ![1][a] = allocateTarget(@, t),
                                ![2] = IF ack THEN recvPfAck(a, aligned) ELSE @]
    /\ UNCHANGED <<blk, evicted, stale>>

allocateMiss(a, t) ==
    /\ ~blk[1][a].valid /\ ~HasMSHR(1, a)
    /\ mshr' = [mshr EXCEPT ![1][a] = NewMSHR(1, t)]
    /\ evicted' = evicted \ {a}
    /\ UNCHANGED <<blk, stale>>

recvTimingReq(a, t, aligned) ==
    /\ ~isBlocked(1)
    /\ Accept(a, t)
    /\ accessHit(a, t) \/ coalesce(a, t, aligned) \/ allocateMiss(a, t)
    /\ UNCHANGED <<wb, resp, mem, failed>>

CoreLoad(a, noFill, aligned) ==
    recvTimingReq(a, [op |-> "Load", mayNotFill |-> noFill, val |-> latest[a]],
                  aligned)
CoreStore(a, noFill, aligned, v) ==
    recvTimingReq(a, [op |-> "Store", mayNotFill |-> noFill, val |-> v], aligned)

-----------------------------------------------------------------------------
(* The L2 receives what the L1 sends.  Each operator gives the state of the *)
(* L2 after the call; the L1's own state is changed by the caller.          *)

\* A write that waits in the write buffer goes before a miss to its block.
noConflict(l, a) == FALSE                                   \* faulty variant
findPending(l, a) == HasWB(l, a)

\* A read hits: a dirty block passes its ownership up with the data.  m is the
\* L1's MSHR, which is in service once the L2 took the request.
L2Hit(a, m) ==
    /\ blk[2][a].valid
    /\ blk' = [blk EXCEPT ![2][a].dirty = FALSE]
    /\ resp' = [resp EXCEPT ![a] = [val |-> blk[2][a].val,
                                    cacheResponding |-> blk[2][a].dirty,
                                    noFillLower |-> FALSE]]
    /\ mshr' = [mshr EXCEPT ![1][a] = markInService(m, blk[2][a].dirty)]

\* createMissPacket: the request takes its no-fill flag from the request of
\* the first target.
MissPkt(m) ==
    [op |-> IF needsWritable(m) THEN "ReadEx" ELSE "Read",
     mayNotFill |-> m.targets[1].mayNotFill, val |-> InitVal]

L2Miss(a, m) ==
    /\ ~blk[2][a].valid
    /\ mshr' = [mshr EXCEPT ![1][a] = markInService(m, FALSE),
                            ![2][a] = IF HasMSHR(2, a)
                                      THEN allocateTarget(@, MissPkt(m))
                                      ELSE NewMSHR(2, MissPkt(m))]
    /\ UNCHANGED <<blk, resp>>

\* sendMSHRQueuePacket of the L1, for a pending MSHR with no writeback of the
\* block before it.  A blocked L2 refuses; the L1 tries again on the retry.
L1SendMSHR(a) ==
    /\ HasMSHR(1, a) /\ ~mshr[1][a].inService
    /\ ~findPending(1, a)
    /\ ~isBlocked(2)
    /\ L2Hit(a, mshr[1][a]) \/ L2Miss(a, mshr[1][a])
    /\ UNCHANGED <<wb, mem, latest, wanted, evicted, stale, failed>>

\* getNextQueueEntry of the L1 finds no entry and takes a prefetch of the SHB.
canPrefetch == Allocated(1) < mshrs[1] - (1 + demandReserve)

\* The prefetch gets an MSHR that is sent at once, unless the L2 is blocked.
prefetchMiss(a) ==
    /\ ~blk[1][a].valid /\ ~HasMSHR(1, a) /\ ~HasWB(1, a)
    /\ LET m == NewMSHR(1, [op |-> "Pf", mayNotFill |-> FALSE, val |-> InitVal])
       IN  IF isBlocked(2)
           THEN mshr' = [mshr EXCEPT ![1][a] = m] /\ UNCHANGED <<blk, resp>>
           ELSE L2Hit(a, m) \/ L2Miss(a, m)
    /\ evicted' = evicted \ {a}

\* The prefetch meets an MSHR of the block, which may fill from now on; the
\* L2 is told.
prefetchAck(a) ==
    /\ ~blk[1][a].valid /\ HasMSHR(1, a) /\ pfAckEn[1]
    /\ mshr' = [mshr EXCEPT ![1][a] = updateMayNotFill(@),
                            ![2] = recvPfAck(a, TRUE)]
    /\ UNCHANGED <<blk, resp, evicted>>

Prefetch(a) ==
    /\ prefetches /\ canPrefetch /\ ~isBlocked(1)
    /\ prefetchMiss(a) \/ prefetchAck(a)
    /\ wanted' = wanted \cup {a}
    /\ UNCHANGED <<wb, mem, latest, stale, failed>>

\* sendWriteQueuePacket of the L1: a writeback or CleanEvict arrives in the
\* L2.  A writeback first discards the L2's own eviction of the block; then it
\* updates the L2's block, takes a new one, or goes on towards memory.
L1SendWB(i) ==
    /\ i \in 1..Len(wb[1])
    /\ ~isBlocked(2)
    /\ LET p == wb[1][i]
           a == p.addr
           clean == p.cmd = "CleanEvict"
           own == SelectSeq(wb[2], LAMBDA e : e.addr = a)
           rest == IF clean THEN wb[2]
                            ELSE SelectSeq(wb[2], LAMBDA e : e.addr # a)
           L2Buffer(buf) == [wb EXCEPT ![1] = RemoveAt(@, i), ![2] = buf]
           satisfied ==
             /\ clean /\ (own # <<>> \/ blk[2][a].valid \/ HasMSHR(2, a))
             /\ wb' = L2Buffer(rest)
             /\ UNCHANGED <<blk, evicted>>
           overwrite ==
             /\ ~clean /\ blk[2][a].valid
             /\ blk' = [blk EXCEPT ![2][a] = Block(TRUE, p.val)]
             /\ wb' = L2Buffer(rest)
             /\ UNCHANGED evicted
           allocate(evict_blks) ==
             /\ ~clean /\ ~blk[2][a].valid
             /\ ~(nofillEn[2] /\ p.mayNotFill) /\ CanEvict(2, evict_blks)
             /\ blk' = [blk EXCEPT ![2] = insertBlock(2, evict_blks, a,
                                                      Block(TRUE, p.val))]
             /\ evicted' = evicted \cup evict_blks
             /\ wb' = L2Buffer(rest \o doWritebacks(2, EvictedPkts(2, evict_blks)))
           forward(evict_blks) ==
             /\ ~blk[2][a].valid
             /\ IF clean THEN own = <<>> /\ ~HasMSHR(2, a)
                ELSE (nofillEn[2] /\ p.mayNotFill) \/ ~CanEvict(2, evict_blks)
             /\ wb' = L2Buffer(Append(rest, p))
             /\ UNCHANGED <<blk, evicted>>
       IN  /\ \/ satisfied
              \/ overwrite
              \/ \E evict_blks \in Victims(2) : allocate(evict_blks) \/ forward(evict_blks)
           /\ failed' = failed
                \cup Failing("assert wbPkt->isWriteback()",
                             \E e \in Range(own) : e.cmd # "WritebackDirty")
                \cup Failing("assert !pkt->isWriteback()",
                             ~clean /\ ~blk[2][a].valid /\ HasMSHR(2, a))
    /\ UNCHANGED <<mshr, resp, mem, latest, wanted, stale>>

-----------------------------------------------------------------------------
(* The L2 and memory. *)

L2SendMSHR(a) ==
    /\ HasMSHR(2, a) /\ ~mshr[2][a].inService
    /\ ~findPending(2, a)
    /\ mshr' = [mshr EXCEPT ![2][a] = markInService(@, FALSE)]
    /\ UNCHANGED <<blk, wb, resp, mem, latest, wanted, evicted, stale, failed>>

\* Memory after packet p of a write buffer: it ignores what is clean.
memAccess(p) ==
    IF p.cmd = "WritebackDirty" THEN [mem EXCEPT ![p.addr] = p.val] ELSE mem

L2SendWBKeepsEntry(i) ==                                    \* faulty variant
    /\ i \in 1..Len(wb[2])
    /\ mem' = memAccess(wb[2][i])
    /\ UNCHANGED <<blk, mshr, wb, resp, latest, wanted, evicted, stale, failed>>
L2SendWB(i) ==
    /\ i \in 1..Len(wb[2])
    /\ mem' = memAccess(wb[2][i])
    /\ wb' = [wb EXCEPT ![2] = RemoveAt(@, i)]
    /\ UNCHANGED <<blk, mshr, resp, latest, wanted, evicted, stale, failed>>

-----------------------------------------------------------------------------
(* Responses. *)

\* handleFill: the block already here, a new block, or the temporary block,
\* which is evicted when the targets are served.
\* fills says whether the response may fill level l.
FillBlock(l, a, evict_blks, fills, b) ==
    IF blk[l][a].valid
    THEN [temp |-> FALSE, pkts |-> <<>>,
          blks |-> [blk[l] EXCEPT ![a] = Block(@.dirty \/ b.dirty, b.val)]]
    ELSE IF fills /\ CanEvict(l, evict_blks)
    THEN [temp |-> FALSE, blks |-> insertBlock(l, evict_blks, a, b),
          pkts |-> EvictedPkts(l, evict_blks)]
    ELSE [temp |-> TRUE, blks |-> blk[l], pkts |-> <<EvictPkt(a, b, TRUE)>>]

\* The asserts and panics a fill of level l meets.
FillFailures(l, a, evict_blks, f) ==
    Failing("assert !writeBuffer.findMatch()", HasWB(l, a))
    \cup Failing("assert on the victim's MSHR", ~CanEvict(l, evict_blks))
    \cup Failing("panic tempBlock without nofill", f.temp /\ ~nofillEn[l])

\* recvTimingResp in the L2: memory answers with its present contents.  The
\* target of the L1 is answered from the block.
L2RecvTimingResp(a) ==
    /\ HasMSHR(2, a) /\ mshr[2][a].inService
    /\ \E evict_blks \in IF mshr[2][a].mayNotFill THEN {{}} ELSE Victims(2) :
         LET f == FillBlock(2, a, evict_blks, ~mshr[2][a].mayNotFill,
                            Block(FALSE, mem[a]))
         IN  /\ blk' = [blk EXCEPT ![2] = f.blks]
             /\ evicted' = evicted \cup evict_blks
             /\ wb' = [wb EXCEPT ![2] = @ \o doWritebacks(2, f.pkts)]
             /\ resp' = [resp EXCEPT ![a] = [val |-> mem[a],
                                             cacheResponding |-> FALSE,
                                             noFillLower |-> f.temp]]
             /\ failed' = failed \cup FillFailures(2, a, evict_blks, f)
    /\ mshr' = [mshr EXCEPT ![2][a] = NoMSHR]
    /\ UNCHANGED <<mem, latest, wanted, stale>>

\* serviceMSHRTargets: the value of the block before target i of ts, when it
\* was v before the first.
ValBefore(ts, i, v) ==
    LET stores == {j \in 1..(i - 1) : ts[j].op = "Store"}
    IN  IF stores = {} THEN v ELSE ts[Max(stores)].val

\* May response r fill the L1?
allow_fill_above(m, r) == ~m.mayNotFill                     \* faulty variant
allow_fill(m, r) == ~m.mayNotFill /\ ~r.noFillLower

\* recvTimingResp in the L1: fill or temporary block; the deferred targets
\* are promoted (the block is writable) and all targets served in order; a
\* temporary block is evicted at once.
L1RecvTimingResp(a) ==
    LET m == mshr[1][a]
        r == resp[a]
        ts == m.targets \o m.deferredTargets
        fills == allow_fill(m, r)
        n == Len(ts) + 1
        stores == \E i \in 1..Len(ts) : ts[i].op = "Store"
        b == Block(r.cacheResponding \/ stores, ValBefore(ts, n, r.val))
    IN  /\ r # NoResp
        /\ \E evict_blks \in IF fills THEN Victims(1) ELSE {{}} :
             LET f == FillBlock(1, a, evict_blks, fills, b)
             IN  /\ blk' = [blk EXCEPT ![1] = f.blks]
                 /\ wb' = [wb EXCEPT ![1] = @ \o doWritebacks(1, f.pkts)]
                 /\ failed' = failed \cup FillFailures(1, a, evict_blks, f)
                      \cup Failing("assert !targets.needsWritable",
                              m.deferredTargets # <<>> /\ needsWritable(m))
        /\ stale' = (stale \/ \E i \in 1..Len(ts) :
                        ts[i].op = "Load" /\ ts[i].val # ValBefore(ts, i, r.val))
        /\ mshr' = [mshr EXCEPT ![1][a] = NoMSHR]
        /\ resp' = [resp EXCEPT ![a] = NoResp]
        /\ UNCHANGED <<mem, latest, wanted, evicted>>

-----------------------------------------------------------------------------
Next ==
    \/ \E a \in Addr, noFill, aligned \in BOOLEAN : CoreLoad(a, noFill, aligned)
    \/ \E a \in Addr, noFill, aligned \in BOOLEAN, v \in Val :
         CoreStore(a, noFill, aligned, v)
    \/ \E a \in Addr : Prefetch(a)
    \/ \E a \in Addr : L1SendMSHR(a)
    \/ \E i \in 1..Len(wb[1]) : L1SendWB(i)
    \/ \E a \in Addr : L2SendMSHR(a)
    \/ \E i \in 1..Len(wb[2]) : L2SendWB(i)
    \/ \E a \in Addr : L2RecvTimingResp(a)
    \/ \E a \in Addr : L1RecvTimingResp(a)

Spec == Init /\ [][Next]_vars

\* Each queue keeps running its send event and sends its entries in the order
\* of their ready times, again after every retry; memory answers.
Fairness ==
    \A a \in Addr :
        /\ SF_vars(L1SendMSHR(a))
        /\ SF_vars(\E i \in 1..Len(wb[1]) : wb[1][i].addr = a /\ L1SendWB(i))
        /\ WF_vars(L2SendMSHR(a))
        /\ WF_vars(\E i \in 1..Len(wb[2]) : wb[2][i].addr = a /\ L2SendWB(i))
        /\ WF_vars(L2RecvTimingResp(a))
        /\ WF_vars(L1RecvTimingResp(a))
FairSpec == Spec /\ Fairness

-----------------------------------------------------------------------------
(* Properties. *)

MSHRType ==
    [inService : BOOLEAN, targets : Seq(Target), deferredTargets : Seq(Target),
     mayNotFill : BOOLEAN, pendingModified : BOOLEAN]
WBType == [addr : Addr, cmd : {"WritebackDirty", "CleanEvict"}, val : Val,
           mayNotFill : BOOLEAN]

TypeOK ==
    /\ blk \in [Level -> [Addr -> [valid : BOOLEAN, dirty : BOOLEAN, val : Val]]]
    /\ \A l \in Level, a \in Addr : HasMSHR(l, a) => mshr[l][a] \in MSHRType
    /\ \A l \in Level : wb[l] \in Seq(WBType)
    /\ resp \in [Addr -> [val : Val, cacheResponding : BOOLEAN,
                          noFillLower : BOOLEAN] \cup {NoResp}]
    /\ mem \in [Addr -> Val] /\ latest \in [Addr -> Val]
    /\ wanted \subseteq Addr /\ stale \in BOOLEAN /\ failed \subseteq STRING

\* A load returns the value of the last store to its block that the L1
\* accepted before it, however hits, coalescing, no-fill responses, temporary
\* blocks and writebacks of both levels interleave.
LoadsReturnLatest == ~stale

\* None of the asserts and panics of the path fires.
NoAssertFails == failed = {}

\* A block that only no-fill accesses asked for, since it was last absent
\* from the path, is in neither cache: temporary blocks and their writebacks
\* leave no trace in the tags.
NoFillLeavesNoTrace ==
    \A l \in Level, a \in Addr : blk[l][a].valid /\ nofillEn[l] => a \in wanted

\* The L1 fills a block only from an answer that the L2 keeps the block of: a
\* block of the L1 is in the L2, unless the L2 evicted it since the L1 asked
\* for it (NO_FILL_LOWER of packet.hh, set by handleFill and copied upwards).
FillKeepsInclusion ==
    nofillEn[1] =>
        \A a \in Addr : blk[1][a].valid => blk[2][a].valid \/ a \in evicted

\* The modified copies of a block, wherever they are on the path.
DirtyCopies(a) ==
    {[at |-> <<"blk", l>>, val |-> blk[l][a].val] :
        l \in {l \in Level : blk[l][a].valid /\ blk[l][a].dirty}}
    \cup UNION {{[at |-> <<"wb", l, i>>, val |-> wb[l][i].val] :
                    i \in {i \in 1..Len(wb[l]) :
                        wb[l][i].addr = a /\ wb[l][i].cmd = "WritebackDirty"}} :
                l \in Level}
    \cup {[at |-> <<"resp">>, val |-> resp[a].val] :
            r \in {r \in {resp[a]} : r # NoResp /\ r.cacheResponding}}

\* The values of the copies on the path, and the stores that wait in the L1.
CleanCopies(a) ==
    {blk[l][a].val : l \in {l \in Level : blk[l][a].valid}}
    \cup {r.val : r \in {resp[a]} \ {NoResp}}
WaitingStores(a) ==
    IF HasMSHR(1, a)
    THEN SelectSeq(mshr[1][a].targets \o mshr[1][a].deferredTargets,
                   LAMBDA t : t.op = "Store")
    ELSE <<>>

\* The newest value of a block is never lost: the modified copy has it, or,
\* when there is none, memory and every clean copy.  Stores that wait in the
\* L1's MSHR come after it (allocateTarget, serviceMSHRTargets, evictBlock).  At
\* most one place has to write the block back: satisfyRequest hands the
\* ownership up, writebacks hand it down, none copies it.
NewestNotLost ==
    \A a \in Addr :
        /\ Cardinality(DirtyCopies(a)) <= 1
        /\ IF WaitingStores(a) # <<>> THEN Last(WaitingStores(a)).val = latest[a]
           ELSE IF DirtyCopies(a) # {} THEN \A c \in DirtyCopies(a) : c.val = latest[a]
           ELSE mem[a] = latest[a] /\ CleanCopies(a) \subseteq {latest[a]}

\* Every miss is answered, although a blocked L2 refuses requests, misses wait
\* for writebacks and writebacks for a free buffer below (sendDeferredPacket).
MissesAnswered == \A a \in Addr : []<>~HasMSHR(1, a)

\* A cache that blocked its port unblocks it again (clearBlocked), whatever
\* the reasons are that set in while it was blocked.
BlockedEnds == \A l \in Level : []<>~isBlocked(l)
=============================================================================

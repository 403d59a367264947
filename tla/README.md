# The RaS cache in TLA+

The repository is a gem5 simulator whose classic caches are changed into
*Random and Safe* (RaS) caches: an access that must not be visible in the cache
is served without filling it (*no-fill*), and a prefetcher, the *SHB*, fills
random blocks near the accesses that are known to be safe. This directory
models the caches as the simulator runs them in its timing mode, and the part of
the out-of-order core that decides which accesses are safe. All source paths
below are relative to `src/gem5/src`.

Contents: [the system](#the-system), [modules](#modules-and-their-relation-to-the-code),
[runs](#what-the-runs-check), [fairness](#fairness), [proofs](#what-is-proved),
[limits](#what-is-only-model-checked-and-what-is-not-modelled), [plan](#plan).

## The system

| Part | Source | State | Operations |
|---|---|---|---|
| SHB prefetcher | `mem/cache/prefetch/shb.{cc,hh}` | buffer of the last `shbSize` accesses, next issue time | `notifySHB`, `getPacket`, `nextPrefetchReadyTime` |
| Request queue of a cache | `mem/packet_queue.cc`, `CacheReqPacketQueue` in `mem/cache/base.cc` | send event, waiting-for-retry flag | `schedSendEvent`, `processSendEvent`, `sendDeferredPacket`, `retry` |
| MSHR queue, write buffer | `mem/cache/{queue.hh,mshr_queue,write_queue}` | allocated and ready entries, the reserve | `allocate`, `markInService`, `deallocate`, `markPending`, `canPrefetch` |
| CPU-side port | `mem/cache/base.{hh,cc}` | mask of blocking causes, blocked, retry owed, retry event | `setBlocked`, `clearBlocked`, `tryTiming`, `recvTimingReq`, `processSendRetry` |
| BaseCache | `mem/cache/base.{hh,cc}` | tags, temporary block, queues | `recvTimingReq`, `access`, `handleTimingReqMiss`, `getNextQueueEntry`, `recvTimingResp`, `handleFill`, `evictBlock`, `recvPfAck` |
| Cache | `mem/cache/cache.cc` | (of BaseCache) | `satisfyRequest`, `createMissPacket`, `serviceMSHRTargets`, `doWritebacks`, `evictBlock`, snoops |
| MSHR | `mem/cache/mshr.{cc,hh}` | targets, deferred targets, flags | `allocateTarget`, `markInService`, `extractServiceableTargets`, `promoteDeferredTargets`, `handleSnoop` |
| Tags, indexing, replacement | `mem/cache/tags/{base,base_set_assoc,new_rand_tag}.*`, `tags/indexing_policies/*`, `replacement_policies/{lru,random}_rp.cc` | blocks with domain and index, last touches | `findBlock`, `accessBlock`, `findVictim`, `insertBlock`, `invalidate` |
| RandomFill, Queued | `mem/cache/prefetch/{random_fill,queued}.*` | prefetch queue | `notify`, `getPacket`, `insert` |
| Packets, requests | `mem/{packet,request}.hh` | NO_FILL, MAY_NOT_FILL, NO_FILL_LOWER, responder flags | |
| Crossbar | `mem/coherent_xbar.cc` | layers, snoop filter | routing, snoops, prefetch acks |
| Load-store queue | `cpu/o3/lsq*.hh`, `cpu/base_dyn_inst_impl.hh` | accesses, no-fill decision | `addRequest`, `sendSHBinfo`, forwarding, `checkSnoop`, violations |
| Reorder buffer | `cpu/o3/rob_impl.hh` | instructions in order, squash walk, safe flags | `insertInst`, `retireHead`, `squash`, `doSquash`, `updateVisibleState` |
| Commit stage | `cpu/o3/commit_impl.hh` | status, pending traps and squashes | `tick`, `commit`, `commitHead`, `squashAfter`, `squashFromTC`, `generateTCEvent` |
| Issue, execute, writeback | `cpu/o3/{iew,inst_queue,mem_dep_unit}_impl.hh`, `dep_graph.hh`, `fu_pool.cc` | skid buffer, instruction queue with its register graph and ready lists, dependence unit, functional units, signal to commit | `dispatchInsts`, `executeInsts`, `writebackInsts`, `scheduleReadyInsts`, `squash`, replays and retries |

How the parts interact. The core sends an access to the L1 with its no-fill
flag. A hit is served at once. A miss takes an MSHR, or joins the MSHR of its
block as a further target. The request queue sends MSHRs and writebacks down
when its event runs, and with nothing to send asks the SHB for a prefetch.
The L2 does the same towards memory. The response fills the block or, for a
no-fill MSHR, goes through the *temporary block*, which is written back as soon
as the targets are served. A level that did not fill says so in the response
(NO_FILL_LOWER), and the level above does not fill either. A prefetch that
meets a no-fill MSHR turns it into a filling one and sends a *prefetch ack*
down so that the L2 does the same. Each cache refuses requests when it has no
MSHR, write buffer or target left, and owes the refused requestor a retry.

The L1 caches of several cores and the L2 meet at a crossbar, which shows every
request to the other L1 caches before it passes it on. A cache with the block
answers; a cache with a request for the block in flight *defers* the snoop to its
own response; stores to shared copies are upgrades, which a snoop can turn into
reads. In the core, the reorder buffer marks in every cycle the accesses all of
whose predecessors are complete. A marked access is *safe*: its request may
fill, and it is sent to the SHB.

What makes this hard: the order of targets in an MSHR and of a miss and a
writeback of the same block; acks that overtake, or are overtaken by, the
response they are about; a write buffer that overflows into a reserve because a
response cannot be refused; retries that are cancelled by blocking again; a
prefetcher that has no event of its own and lives on the wake-ups of the
request queue; promises to answer that depend on answers of others; an upgrade
overtaken by an invalidation; a squash that takes several cycles to walk the
reorder buffer while completions, commits and the scan for safe accesses go on.
`PROJECT.json` lists these hazards, each at its line.

What correctness means here: loads return the last store; exactly one place
owns modified data and its newest value is never dropped; no-fill accesses leave
nothing in the tags; the L1 fills only what the L2 keeps; no assert of the
queues, the port or the fill fails; the wake-up of the request queue and the
retry of a requestor are never lost; every miss is answered; a shared block
behaves as one value whatever the caches do with their copies; what was treated
as safe is never undone by an older instruction.

## Modules and their relation to the code

Definitions have the names of the functions they model; `map` in `PROJECT.json`
gives the lines. Definitions marked "faulty variant" are not used by any action:
each is a plausible wrong version of the definition after it, used to confirm
that a property notices the difference.

**`SHB`** is the prefetcher with the event that drives it. `shb` is the deque,
newest entry first; `curTick`, `readyTime` and `sendEvent` are ticks; `misses`
holds the ready times of the MSHRs on the ready list and `outstanding` counts
those sent and unanswered. Its actions are the handlers that touch this state:
`recvTimingReq` (a hit or miss, with the SHB insertion of stores),
`recvSHBinfo` (the reorder buffer's insertion), `recvTimingResp` (an answered
MSHR leaves, or waits again with its deferred targets, and the queue is
rescheduled), `processSendEvent` (`sendMiss`, `sendPrefetch`, `sendNothing`, or
held back by a conflicting snoop response), `retry`, and the clock, which never
passes a scheduled event. `DrawnReadyTimes` is the set of results of the loop
that draws intervals in random mode.

**`CacheQueues`** is the flow control of one cache. An MSHR is its number of
targets, the write buffer its number of entries, `port` the mask of blocking
causes, the port and its retry event. An action is a whole handler, with all
the blocking and unblocking it does: `recvTimingReq` (refused, or a hit, a
write into the write buffer, a coalesced miss or a new miss, each with the
evictions it may cause), `processSendRetry` (the requestor sends again from
inside it), `sendMSHRQueuePacket`, `sendWriteQueuePacket`, `prefetch`,
`handleSnoop`, `recvTimingResp`. `shared` says whether other caches share
blocks: then snoops add targets, and a response may leave targets behind.

**`RaSHierarchy`** composes an L1 data cache, an L2 and memory on the path of
one core: `blk` (tags and data), `mshr` (targets, deferred targets, no-fill
flag, in service), `wb`, the response on its way up, and `mem`. Sending a
request is one step with its reception, as in the code, where `sendTimingReq`
calls the receiver. Actions: `CoreLoad`, `CoreStore`, `Prefetch`, `L1SendMSHR`
(with the L2's hit, miss or coalescing), `L1SendWB` (with the L2's handling of
writebacks and clean evictions), `L2SendMSHR`, `L2SendWB`, `L2RecvTimingResp`,
`L1RecvTimingResp` (fill or temporary block, all targets in order, evictions).
The asserts and panics on these paths are recorded in `failed`. Because only
one core uses the path, memory and the L2 always hand out writable blocks.

**`SharedBlock`** is one block in a multicore: per cache the block with its
readable, writable and dirty bits, its MSHR with targets, deferred targets and
the flags a snoop leaves (`postInvalidate`, `postDowngrade`, `pendingModified`),
the block's entries in the write buffer and the response on its way. `SendMSHR`
is the whole delivery of a request: it chooses the command
(`createMissPacket`), snoops the other caches (`SnoopMSHR`, the write buffers,
the tags) and, unless one of them responds, ends with the L2's hit, miss or
coalescing. `RecvTimingResp` fills or uses the temporary block, promotes and
serves targets in order, snoops among them included, and evicts the temporary
block. `SendWB`, `L2SendMSHR`, `L2SendWB`, `Evict`, `Prefetch`, `Hit` and `Miss`
are the others. Other blocks appear by what they do: they evict this one, find a
victim busy, or fill the write buffers. A value counts the stores performed.

**`AtomicBlock`** is what the cores are promised: one value, accesses of a core
performed in order, stores on the current value, loads never older than what
their core has seen. `SharedBlock` implements it with the mapping
`val <- CurrentVal` (the value of the owner), `queue <- waiting` (the targets of
the core's own accesses) and `seen`.

**`ROB`**, **`CommitStage`** and **`ReorderBuffer`** are one thread of the
out-of-order core: the operations of the reorder buffer, a cycle of commit, and the
state machine with the steps of IEW and of the load/store queue. `rob` holds the
instructions, oldest first, with their progress, `canCommit`, `squashed`, fault
and the flags of the RaS extension (`PrevInstsCompleted`, `SHTpkt`,
`SHTinserted`); `from` is a history variable, the number that the squash of the
instruction started from; `squashIt` is the position of the squash walk. `CommitTick` is
one cycle of commit in the order of the code: squashes that are pending, the
walk, or committing up to `commitWidth` instructions, then the instructions of
rename, marking what completed, and `updateVisibleState`. Between ticks
`Execute` runs an instruction in any order (a branch may be mispredicted, a load
may fault, be forwarded or be sent, a store may find a younger load that went
too early) and `checkSnoop`, `writebackStores`, `processTrapEvent` and
`generateTCEvent` are events from outside.

**`IssueStage`** is the way of an instruction from rename to commit: dispatch
with its skid buffer, the instruction queue, the memory dependence unit, the
functional units and the part of the load/store queue that sends instructions
back. `stage` orders the steps of a cycle as the CPU does; the loops of IEW take
one step per iteration, and completions, translations, data, retries and traps
happen between cycles. `inst` holds the status bits. A squash fetches the program
again with new sequence numbers and the same registers. Commit is reduced to what
IEW sees of it; rename does not count free entries, so it sends at least as early
as the code, and the dependence predictor may name any older store.

**`TagStore`** is the tag store of one cache with the calls `BaseCache` makes:
`Access` (lookup, touch unless no-fill, miss), `RecvTimingResp` (`handleFill`
with `allocateBlock`: victim, refusal of a victim with an upgrade outstanding,
insertion), `Writeback`, `HandleSnoop`. Definitions with `setAssoc` in their
name are the set-associative tags, those with `newRand` are NewRandTag; `repl` is
the replacement data of LRU or Random.

`SharedBlock`, `ReorderBuffer` and `TagStore` take a set of *scenarios*, records
of the configuration and of what the environment may do. One is chosen in the
initial state and never changes, so that one run covers several systems.

`MCSHB`, `MCCacheQueues`, `MCRaSHierarchy`, `MCSharedBlock`, `MCReorderBuffer`,
`MCIssueStage` and `MCTagStore` give the modules small instances; `SHBProofs`,
`CacheQueuesProofs`, `TagStoreProofs` and `ReorderBufferProofs` hold theorems. The
last rests on `ReorderBufferInv`, which defines its invariant, and on the lemmas of
`ReorderBufferSquash`, `ReorderBufferCommit` and `ReorderBufferMark`.

## What the runs check

| Run | Configuration | Checks | Distinct states |
|---|---|---|---|
| `shb` | `SHB.cfg` | the SHB and its send event, constant interval | 64 447 |
| `queues_shared` | `QueuesShared.cfg` | blocking, retries, asserts, prefetches, with snoops | 1 940 |
| `queues_private` | `QueuesPrivate.cfg` | the write-buffer reserve; refused requestors return | 1 080 |
| `queues_targets` | `QueuesTargets.cfg` | a violation, see below | |
| `ras_coherence` | `RaSCoherence.cfg` | values and ownership, two blocks, two values, three targets | 984 000 |
| `ras_fill` | `RaSFill.cfg` | the fill policy with prefetches and acks; misses are answered, blocking ends | 69 000 |
| `shared` | `Shared.cfg` | the coherence protocol and its refinement of `AtomicBlock`, with liveness | 265 000 |
| `shared_full` | `SharedFull.cfg` | a violation, see below | |
| `rob` | `Rob.cfg` | which accesses count as safe; the ROB drains | 182 000 |
| `rob_no_sfill` | `RobNoSfill.cfg` | a violation, see below | |
| `issue` | `Issue.cfg` | five programs from rename to commit: asserts, entries, operands, termination | 611 994 |
| `tags` | `Tags.cfg` | lookup, uniqueness and replacement in the tags | 59 501 |

What the properties say:

- `HoldsLatestAccesses`: the SHB holds the last `shbSize` accesses, newest
  first. `PrefetchesNearAccess`: a prefetch is an aligned block in the
  window, and the domain, of an access the SHB holds. `WakeupNotLost`: once the
  queue is scheduled or waits for a retry it stays so. `SlotNotMissed`: the event is never
  in the past nor beyond the next issue slot. `MissWakesQueue`: a waiting miss
  has the queue scheduled in time for it. `EventXorRetry`: nothing that arrives
  while a refused send waits for its retry schedules the queue.
- `MaskExact`: a blocking cause is set exactly when its resource is exhausted.
  `RetryNotLost`: a refused requestor is owed a retry, scheduled when the port
  is open. `WriteBufferFits`: the reserve suffices. `PrefetchNeverBlocks`: a
  prefetch never blocks the cache. `RefusedIsRetried`: a refused requestor is
  accepted in the end.
- `LoadsReturnLatest`, `NewestNotLost` (with at most one owner of modified data):
  coherence on the path.
  `NoFillLeavesNoTrace`: a block is in the tags only if a filling access, a
  writeback of a filled block or a prefetch wanted it. `FillKeepsInclusion`: a
  block the L1 fills is in the L2, unless the L2 evicted it since.
  `MissesAnswered`, `BlockedEnds`: liveness.
- `ImplementsAtomicBlock`: the refinement. `SingleWriter`: a writable copy is
  alone, responses in flight and write buffers included. `OneAnswer`: a request
  that was sent is owed exactly one answer, by one party. `AccessesPerformed`:
  every access is performed. `NoFillLeavesNoTrace` as above, for several cores;
  `NoAssertFails` includes that a miss on a held block is always an upgrade.
- `SafeIsNeverUndone`: no squash that an older instruction raises, and no fault of
  one, reaches an access that was let fill or was sent to the SHB.
  `FlagIsExact`: `PrevInstsCompleted` is set if, and until a snoop forces a replay
  only if, all older instructions are complete. `SHBInProgramOrder`: the SHB gets
  accesses in order, once, and at most one per squash that is then squashed.
  `CommittedLoadIsInserted`: a load that commits was sent to the SHB, apart from
  one case stated with the property. `AssertsHold`: the assertions of commit.
  `RobDrains`: every instruction leaves the ROB.
- `EntriesAccounted`: the count of free entries is exact, and an instruction that
  waits does so in exactly one place. `OperandsReady`: what executes has its
  operands, and no access passes an older barrier. `AllRetire`: every program runs
  to its end. It does not cover rename's own stalls (see the simplifications): a
  stall there that never ended would not be seen.
- `BlocksFound`: a lookup finds each valid block, none is held twice, and
  NewRandTag holds one block of an index. `ReplacesOldestUnpinned`: the victim.

**Divergences.** `queues_targets` shows that an MSHR can take more accesses
than `tgts_per_mshr`, which `mem/cache/Cache.py:103` documents as the "Max
number of accesses per MSHR": `mem/cache/base.cc:331` tests for equality, and a
snoop target, added without a test, steps over it.

`shared_full` shows two no-fill cores reaching a failing assert when the write
buffer is full of other blocks. A no-fill miss with deferred targets becomes
pending again while the eviction of its temporary block is queued behind it;
with a full buffer `getNextQueueEntry` sends the older of the two, the miss, and
its fill meets the writeback. `mem/cache/base.cc:1616` says "When handling a fill,
we should have no writes to this line."

`rob_no_sfill` shows that with RaS-Spec and without `robInsert` a load with nothing
before it is sent as no-fill: `updateVisibleState` sets the flag that
`addRequest` reads only under `robInsert`, which `cpu/BaseCPU.py:156` documents as
"Enable SHB Insertion from ROB".

### Bounds

- `SHB`: three addresses in two windows, one of them not at a block boundary,
  and two domains; a buffer of two entries, which fills and drops; `LastTick`
  covers at least two issue slots and a forward latency longer than a slot, so
  both orders of "next miss" and "next prefetch" occur.
- `CacheQueues`: three MSHRs leave room for one prefetch besides a demand miss
  and the entry `canPrefetch` keeps free; two write buffers make full,
  overflowing and empty differ. In `queues_private` `MaxTargets` and `MaxWB` are
  beyond what the code reaches; in the shared runs they cut off the unbounded
  growth that the divergence above allows.
- `RaSHierarchy`: two blocks on one way force every eviction; two values tell a
  stale load from a fresh one, and `ras_fill`, which is not about values, uses one.
  Three MSHRs are the least with which `canPrefetch` holds. Three targets in
  `ras_coherence` allow a read in service, a deferred store, and an access after
  it. Write buffers of one entry in `ras_fill` make both levels block. `VIEW`
  leaves out histories that no property of `ras_coherence` reads; addresses are
  symmetric where no liveness is checked.
- `SharedBlock`: two cores with two accesses each reach upgrades that race, deferred
  snoops and second requests; three cores with one access each chains of deferred
  snoops; the other scenarios add evictions everywhere with busy victims,
  prefetches that meet no-fill misses, and an instruction cache. Accesses are
  bounded by `maxOps`, so the system may stop and deadlock is not checked.
- `ReorderBuffer`: four instructions with a walk of one instruction per cycle make
  a squash last three cycles; two are renamed and committed per cycle. The
  scenarios are loads behind branches; all kinds with snoops; traps and writes
  of the thread context. The program is finite (`MaxInsts`), so the core may stop.
- `IssueStage`: an instruction queue of two entries and load and store queues of
  one make every queue full; one unit per class and widths of one or two; per
  program, bounds on the squashes it raises, the requests the cache refuses and
  the cycles in which rename sends nothing. Since one load issues per cycle the
  cache ports do not run out.
- `TagStore`: three blocks for two ways force replacement; five ticks, of which
  events may share one, let three touches be ordered and tie; two domains use the
  same blocks; for NewRandTag three blocks share an index. An address is a block
  number of at most `AddrBits` bits.

## Fairness

`CacheQueues`: the cache's own events run (weak fairness of the two sends) and
what is below answers (weak fairness of the response). The retry event is
scheduled one tick ahead; blocking within that tick cancels it, and it is
scheduled again when the cache unblocks. Since the refused requestor sends
nothing meanwhile, this cannot repeat for ever: strong fairness of
`processSendRetry`.

`RaSHierarchy`: ready lists are ordered by ready time and an entry refused by
the level below is retried after every retry of that level, so an entry that can
be sent again and again is sent: strong fairness of the L1's sends, weak
fairness of the L2's, whose receiver, the memory, never refuses, and of the
responses. Nothing is assumed of the core or the prefetcher.

`SharedBlock`: a cache keeps sending what its queues hold, because
`sendDeferredPacket` reschedules itself until they are empty, and ports deliver the
responses they have queued. Each of these steps disables itself, so weak fairness
is written as "infinitely often not enabled".

`ReorderBuffer`: the core ticks while anything changes, ready instructions execute,
memory answers and a scheduled trap happens: unless the core is idle for ever from
some time on, it takes steps for ever. `RobDrains` excludes that the thread context
is written for ever again, since each such write restarts the squash.

`IssueStage`: the core ticks (weak fairness), and scheduled events, which only
happen between cycles, happen (strong fairness of all events together).

## What is proved

The theorems hold for every value of the constants that satisfies the `ASSUME`
of the module: any buffer, block and window size, interval, latency, clock,
number of MSHRs, write buffers and targets, any geometry of the tags, any size
and width of the reorder buffer, and any program. Each module proves an inductive
invariant and derives the properties from it.

| Module | Invariant | Properties proved |
|---|---|---|
| `SHBProofs` | `SHBSafe` | `TypeOK`, `HoldsLatestAccesses`, `PrefetchesNearAccess`, `SlotNotMissed`, `EventXorRetry`, `WakeupNotLost`, `MissWakesQueue` |
| `CacheQueuesProofs` | `QueuesSafe` | `TypeOK`, `MaskExact`, `RetryNotLost`, `NoAssertFails`, `WriteBufferFits`, `PrefetchNeverBlocks` |
| `TagStoreProofs` | `TagSafe` | `TypeOK`, `BlocksFound`, `NoAssertFails`, `ReplacesOldestUnpinned` |
| `ReorderBufferProofs` | `RobSafe` | `FlagIsExact`, `SafeIsNeverUndone`, `SHBInProgramOrder`, `CommittedLoadIsInserted`, `AssertsHold` |

`SHBProofs`. The inductive invariant `SHBInv` adds to the types that the buffer
is the newest part of the history of notified accesses (without it a prefetch
cannot be related to an access), that every entry is aligned, that the event is
within the next slot, that an event and a pending retry exclude each other, and
that a sent, unanswered miss implies one of them (otherwise a response that
re-queues an MSHR could find the queue asleep). `SHBWakeup` is an action property from the same invariant. `SHBMissWakes`
needs a second one: the event is no later than the ready time of any waiting miss,
or than the time until which a snoop response or a payload holds the queue.
The arithmetic of windows and slots rests on lemmas about division with
remainder.

`CacheQueuesProofs`. `QInv` adds to the types the *wiring* of the port (blocked
when the mask is not empty; a retry scheduled only when open and owed), the
relation of each cause to its resource, and `ReserveCovers`: without sharing,
write-buffer entries in use plus MSHRs in use never exceed the write buffers plus
the MSHRs. The last is why the reserve suffices: an accepted request adds at
most two to this sum while both queues have room, and a response that adds a
writeback frees its MSHR. `WriteBufferFits` alone is not inductive.
`QueuesPrefetchNeverBlocks` is an action property.

`TagStoreProofs`. `TagInv` says of every valid block that its tag, index and
domain are those of one address and domain whose possible entries contain it, that
a miss on it is a store it waits for, and that its replacement data are those of
its last use; that no two valid blocks are for the same address, nor, in
NewRandTag, have the same index; and that the MSHRs are for distinct blocks.
`BlocksFound` follows because regenerating the address of a block from its position
inverts the indexing. `TagReplaces` is an action property. `TagAssumption` asks of
NewRandTag that there is one domain and that tag and index bits together give the
address back, which is what its bit masks are for.

`ReorderBufferProofs`. `RobInv`, defined in `ReorderBufferInv`, describes the state
between two cycles of commit:

- `Chain`: sequence numbers grow along the ROB; an instruction is ready to commit
  only when it has ended, unless it executes at the head; everything older than a
  marked access has ended without a fault and is not special, and a squash of
  something older reaches the access too.
- `WalkOK`, `ToldOK`: an instruction that is squashed in the instruction queue but not
  in the ROB, or the reverse, lies in front of the walk; nothing that the walk will
  reach is spared; IEW has done its part for everything younger than
  `squashedSeqNum`.
- `Reported`, `Raised`, `WasRaised`: what IEW reports has executed; a squash it
  raises comes from a branch or a store that the squash spares and that is not yet
  ready to commit. This is why a squash never reaches a marked access: the cause
  would have to be older, and everything older is ready.
- `ShbOK`, `Seen`: what the SHB was sent, against the instructions still in the ROB,
  and that the scan has marked, and sent, all it could.
- `PendingOK`, `CountOK`: the pending traps and squashes; numbers in use.

A cycle is proved stage by stage on the record that `tick` threads through its
stages (`StageOK`): the walk, pending squashes and the squash from IEW
(`ReorderBufferSquash`), rename and the loop of `commitInsts`
(`ReorderBufferCommit`), marking, the scan, and IEW's own squash
(`ReorderBufferMark`). These modules extend `CommitStage` only, so they do not
depend on the actions. The steps of IEW and of the load/store queue change one
instruction at a time and are instances of `OneStepOK` in `ReorderBufferProofs`,
which puts the stages and the steps together.
`RobFlagIsExact` and `RobCommittedLoadIsInserted` assume `robInsert`,
`RobSafeIsNeverUndone` that one of the three modes is on, and `RobAssertsHold` that no
program combines writes of the thread context with squash-after instructions (see
the simplifications below); each is false without its assumption.

Induction. The provers cannot instantiate an induction theorem, so the proofs take
the least counterexample of a set of numbers: the loops of `commitInsts` and
`updateVisibleState`, recursive functions in the model, are shown to exist and to
keep their invariant in this way. The lemmas about the loops name what they need,
that a set of natural numbers has a least element (`WellOrdered`), as a hypothesis;
`NatWellOrdered` proves it from the library and discharges it.

## What is only model-checked, and what is not modelled

Only model-checked: everything about `RaSHierarchy`, `SharedBlock` (with its
refinement of `AtomicBlock`) and `IssueStage`; the type invariant and
`NoFillIsSpeculative` of `ReorderBuffer`; and liveness (the prover does not
handle fairness).

Simplifications within the modelled parts:

- Ready times exist in `SHB` only; the other modules let any ready entry be first.
- `SharedBlock` has one domain and no cache maintenance, atomic or uncacheable
  accesses; the crossbar has no snoop filter, as in the RaS configurations. A
  response from a peer cache carries no NO_FILL_LOWER, so an L1 may hold a block
  the L2 lacks, and no property says otherwise. `SendMSHR` sends, snoops and is
  accepted in one step. In the code (`mem/coherent_xbar.cc:236-318`) the other L1
  caches are snooped before a blocked L2 refuses the request, and are snooped again
  when it is retried; the refusal after the snoops is not modelled. It happens only
  to a request that no L1 answers, so no data is in flight for it: the first snoops
  invalidate or downgrade copies, or are deferred by a miss, earlier than here, and
  the retry repeats them. In the scenario with an
  instruction cache the L2 always finds a victim: `handleFill` panics
  (`mem/cache/base.cc:1629`) if it does not, because the instruction cache does
  not enable no-fill.
- `ReorderBuffer` is one thread with the ordering of x86. Interrupts, draining,
  transactions, strictly ordered loads, atomic operations and store conditionals
  are left out, and so are `PrevBrsResolved`, `PrevInstsCommitted` and
  `PrevBrsCommitted`, which no decision reads. The kinds of `Special` stand
  for all that is ready to commit before it executes. The scan
  (`cpu/o3/rob_impl.hh:646-648`) does not list read barriers and atomics, which
  `cpu/o3/iew_impl.hh:1033` and `:1076-1079` treat so too. On x86 the read barrier
  that is not a full one, LFENCE, serialises, so that nothing younger enters the ROB
  before it has left, and there are no atomics; where a load may follow a pure read
  barrier it would count as safe earlier than here. A load whose address is known
  and that waits to be sent is not told apart from one that waits to execute:
  `violators` has both. A branch on
  the wrong path is dropped when IEW is squashed. Stores reach the SHB through
  the cache, not through the ROB. The oldest access behind a mispredicted branch
  may be sent to the SHB although it is being squashed, and a replay forced by a
  snoop may undo a safe load: the properties say so. Writes of the thread context
  are not combined with squash-after instructions: `squashFromTC`
  (`cpu/o3/commit_impl.hh:654`) leaves `squashAfterInst` set, and the next
  squash-after instruction fails its assert.
- `IssueStage` is one thread under the ordering of x86, with one store in flight
  and one instruction committed per cycle; faults of atomics, store conditionals
  and transactions are left out. Rename stalls on IEW's signals only: its stalls for
  free entries of the ROB, the IQ and the LSQ and for registers, and its
  serialisation (`cpu/o3/rename_impl.hh:1231-1259`), are left out, so the queues
  fill up in dispatch, and `AllRetire` says nothing of those stalls.
- `TagStore` has one security state. NewRandTag is checked with one domain:
  `NewRandTag::findBlock` does not compare domains, so a response for one domain
  that finds the block of another fails the assert of `handleFill`
  (`mem/cache/base.cc:1658`). The RaS configurations have NewRandTag commented out.

Not modelled: cache maintenance operations; the write allocator, compression,
uncacheable data; the tags, indexing and replacement policies the RaS
configurations do not use; the RandomFill and Queued prefetchers; the layers of the
crossbar; atomic and functional accesses; checkpoints and draining. The rest of
the simulator (instruction sets, devices, other CPU models, Ruby)
is the unmodified base.

## Plan

1. Proofs: types and `NewestNotLost` of `RaSHierarchy` for any number of addresses;
   `SingleWriter` and `OneAnswer` of `SharedBlock` for any number of cores, then the
   initial-state and step conditions of the refinement of `AtomicBlock`;
   `EntriesAccounted` of `IssueStage`.
2. `RandomFill` and `Queued`: window within the page, bounded queue, pending
   translations.
3. Cache maintenance operations and two domains in `SharedBlock`.

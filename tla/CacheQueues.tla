---------------------------- MODULE CacheQueues ----------------------------
(***************************************************************************)
(* Flow control of one cache: the MSHR queue and the write buffer          *)
(* (mem/cache/{queue.hh,mshr_queue,write_queue}), the mask of blocking     *)
(* causes in BaseCache and the CPU-side port that refuses requests while   *)
(* the mask is set and owes the requestor a retry (mem/cache/base.{hh,cc}).*)
(*                                                                         *)
(* What an access needs of the queues is all that matters here: addresses, *)
(* data and ready times are left out, an MSHR is the number of its targets *)
(* and the write buffer the number of its entries.                         *)
(***************************************************************************)
EXTENDS Integers, FiniteSets

CONSTANTS
    Mshr,           \* the entries of the MSHR queue
    None,           \* not an entry
    writeBuffers,   \* entries of the write buffer besides the reserve
    numTarget,      \* targets an MSHR takes before the cache blocks
    demandReserve,  \* MSHRs prefetches leave to demand misses
    shared,         \* do other caches share blocks?  Then snoops arrive, and
                    \* a response may leave targets that need another request
    MaxTargets,     \* bound: targets of one MSHR; the code has none once snoop
                    \* targets took their number past numTarget
    MaxSnoops,      \* bound: snoop targets one MSHR takes on
    MaxWB           \* bound: entries of the write buffer; the code's own is
                    \* writeBuffers + Cardinality(Mshr)

ASSUME QueuesAssumption ==
    /\ IsFiniteSet(Mshr) /\ Mshr # {} /\ None \notin Mshr
    /\ writeBuffers \in Nat \ {0} /\ numTarget \in Nat \ {0}
    /\ demandReserve \in Nat /\ shared \in BOOLEAN
    /\ MaxTargets \in Nat /\ MaxSnoops \in Nat /\ MaxWB \in Nat

VARIABLES
    numTargets,     \* targets of each MSHR; 0: on the free list
    inService,      \* MSHRs sent downstream
    snoops,         \* bound: snoop targets each MSHR took on
    wbAllocated,    \* entries of the write buffer in use
    noTargetMSHR,   \* the MSHR that blocked the cache by its targets, or None
    port,           \* mask of causes and CPU-side port, see PortType
    waiting         \* the requestor was refused and waits for a retry

vars == <<numTargets, inService, snoops, wbAllocated, noTargetMSHR, port, waiting>>

BlockedCause == {"NoMSHRs", "NoWBBuffers", "NoTargets"}
PortType == [mask : SUBSET BlockedCause, blocked : BOOLEAN,
             mustSendRetry : BOOLEAN, sendRetryEvent : BOOLEAN,
             failed : BOOLEAN]      \* has an assert fired?

Allocated(nt) == {m \in Mshr : nt[m] > 0}
mshrsFullLate(nt) == Cardinality(Allocated(nt)) > Cardinality(Mshr) \* faulty variant
mshrsFull(nt) == Cardinality(Allocated(nt)) >= Cardinality(Mshr)
wbFullLate(n) == n > writeBuffers                           \* faulty variant
wbFull(n) == n >= writeBuffers

Init ==
    /\ numTargets = [m \in Mshr |-> 0]
    /\ inService = {}
    /\ snoops = [m \in Mshr |-> 0]
    /\ wbAllocated = 0
    /\ noTargetMSHR = None
    /\ port = [mask |-> {}, blocked |-> FALSE, mustSendRetry |-> FALSE,
               sendRetryEvent |-> FALSE, failed |-> FALSE]
    /\ waiting = FALSE

-----------------------------------------------------------------------------
(* Blocking and unblocking: the port after the call. *)

\* The first cause blocks the port, which cancels a scheduled retry but still
\* owes it.
setBlockedForgetting(p, cause) ==                           \* faulty variant
    [p EXCEPT !.mask = @ \cup {cause}, !.blocked = TRUE,
              !.sendRetryEvent = FALSE,
              !.mustSendRetry = @ /\ ~p.sendRetryEvent]
setBlocked(p, cause) ==
    IF p.mask = {}
    THEN [mask |-> {cause}, blocked |-> TRUE,
          mustSendRetry |-> p.mustSendRetry \/ p.sendRetryEvent,
          sendRetryEvent |-> FALSE,
          failed |-> p.failed \/ p.blocked]
    ELSE [p EXCEPT !.mask = @ \cup {cause}]

\* The last cause to go unblocks the port, which schedules the retry it owes;
\* the event must not be scheduled already.
clearBlockedSilently(p, cause) ==                           \* faulty variant
    [p EXCEPT !.mask = @ \ {cause}, !.blocked = p.mask \ {cause} # {}]
clearBlocked(p, cause) ==
    IF p.mask \ {cause} = {}
    THEN [mask |-> {}, blocked |-> FALSE,
          mustSendRetry |-> p.mustSendRetry,
          sendRetryEvent |-> p.mustSendRetry \/ p.sendRetryEvent,
          failed |-> p.failed \/ ~p.blocked
                     \/ (p.mustSendRetry /\ p.sendRetryEvent)]
    ELSE [p EXCEPT !.mask = @ \ {cause}]

\* The port after the write buffer went from n to k entries, k >= n
\* (allocateWriteBuffer) or k < n (markInService).
afterAllocate(p, k) == IF wbFull(k) THEN setBlocked(p, "NoWBBuffers") ELSE p
afterMarkInService(p, n, k) ==
    IF wbFull(n) /\ ~wbFull(k) THEN clearBlocked(p, "NoWBBuffers") ELSE p

-----------------------------------------------------------------------------
(* Requests from above. *)

\* An access served by the tags alone, or dropped.
hit(p) ==
    /\ port' = p
    /\ UNCHANGED <<numTargets, inService, snoops, wbAllocated, noTargetMSHR>>

\* An access that puts entries into the write buffer: the victim of a
\* writeback's allocation, a writeback passed on, an uncacheable write with
\* the block it flushes.  A writeback may first discard an entry.
write(p) ==
    \E discarded \in {0, 1}, added \in {0, 1, 2} :
        /\ discarded <= wbAllocated /\ discarded + added <= 2
        /\ wbAllocated' = wbAllocated - discarded + added
        /\ LET q == afterMarkInService(p, wbAllocated, wbAllocated - discarded)
           IN  port' = IF added = 0 THEN q ELSE afterAllocate(q, wbAllocated')
        /\ UNCHANGED <<numTargets, inService, snoops, noTargetMSHR>>

\* An access that joins the targets of MSHR m.
coalesceUnchecked(p) ==                                     \* faulty variant
    \E m \in Allocated(numTargets) :
        /\ numTargets[m] < MaxTargets
        /\ numTargets' = [numTargets EXCEPT ![m] = @ + 1]
        /\ noTargetMSHR' = IF numTargets'[m] = numTarget THEN m ELSE noTargetMSHR
        /\ port' = p
        /\ UNCHANGED <<inService, snoops, wbAllocated>>
coalesce(p) ==
    \E m \in Allocated(numTargets) :
        /\ numTargets[m] < MaxTargets
        /\ numTargets' = [numTargets EXCEPT ![m] = @ + 1]
        /\ IF numTargets'[m] = numTarget
           THEN noTargetMSHR' = m /\ port' = setBlocked(p, "NoTargets")
           ELSE port' = p /\ UNCHANGED noTargetMSHR
        /\ UNCHANGED <<inService, snoops, wbAllocated>>

\* allocateMissBuffer takes the free entry m.
allocateMSHR(p, m) ==
    /\ numTargets' = [numTargets EXCEPT ![m] = 1]
    /\ port' = IF mshrsFull(numTargets') THEN setBlocked(p, "NoMSHRs") ELSE p
    /\ UNCHANGED noTargetMSHR

\* A miss; an uncacheable read also flushes the block it finds.
miss(p) ==
    IF Allocated(numTargets) = Mshr
    THEN /\ port' = [p EXCEPT !.failed = TRUE]     \* assert(!freeList.empty())
         /\ UNCHANGED <<numTargets, inService, snoops, wbAllocated, noTargetMSHR>>
    ELSE \E m \in Mshr \ Allocated(numTargets), flushed \in {0, 1} :
            /\ wbAllocated' = wbAllocated + flushed
            /\ LET q == IF flushed = 0 THEN p ELSE afterAllocate(p, wbAllocated')
               IN  allocateMSHR(q, m)
            /\ UNCHANGED <<inService, snoops>>

access(p) == hit(p) \/ write(p) \/ coalesce(p) \/ miss(p)

\* tryTiming lets a request in, or refuses it and remembers to send a retry.
tryTiming(p) ==
    IF p.blocked \/ p.mustSendRetry
    THEN /\ port' = [p EXCEPT !.mustSendRetry = TRUE]
         /\ waiting' = TRUE
         /\ UNCHANGED <<numTargets, inService, snoops, wbAllocated, noTargetMSHR>>
    ELSE /\ access(p)
         /\ waiting' = FALSE

recvTimingReq ==
    /\ ~waiting
    /\ tryTiming(port)

\* The retry makes the requestor send again at once.
processSendRetry ==
    /\ port.sendRetryEvent
    /\ tryTiming([port EXCEPT !.sendRetryEvent = FALSE, !.mustSendRetry = FALSE])

-----------------------------------------------------------------------------
(* Sends, snoops and responses. *)

sendMSHRQueuePacket(m) ==
    /\ m \in Allocated(numTargets) \ inService
    /\ inService' = inService \cup {m}
    /\ UNCHANGED <<numTargets, snoops, wbAllocated, noTargetMSHR, port, waiting>>

sendWriteQueuePacketUnchecked ==                            \* faulty variant
    /\ wbAllocated' = wbAllocated - 1
    /\ port' = afterMarkInService(port, wbAllocated, wbAllocated')
    /\ UNCHANGED <<numTargets, inService, snoops, noTargetMSHR, waiting>>
sendWriteQueuePacket ==
    /\ wbAllocated > 0
    /\ wbAllocated' = wbAllocated - 1
    /\ port' = afterMarkInService(port, wbAllocated, wbAllocated')
    /\ UNCHANGED <<numTargets, inService, snoops, noTargetMSHR, waiting>>

\* getNextQueueEntry allocates an MSHR for a prefetch; the send that follows
\* succeeds or leaves it pending.
canPrefetchAlways == TRUE                                   \* faulty variant
canPrefetch ==
    Cardinality(Allocated(numTargets)) < Cardinality(Mshr) - (1 + demandReserve)
prefetch ==
    /\ canPrefetch /\ port.mask = {}
    /\ \E m \in Mshr \ Allocated(numTargets), sent \in BOOLEAN :
         /\ allocateMSHR(port, m)
         /\ inService' = IF sent THEN inService \cup {m} ELSE inService
    /\ UNCHANGED <<snoops, wbAllocated, waiting>>

\* A snoop of another cache is kept as a target; numTarget is not checked.
handleSnoop(m) ==
    /\ shared /\ m \in inService
    /\ snoops[m] < MaxSnoops
    /\ snoops' = [snoops EXCEPT ![m] = @ + 1]
    /\ numTargets' = [numTargets EXCEPT ![m] = @ + 1]
    /\ UNCHANGED <<inService, wbAllocated, noTargetMSHR, port, waiting>>

\* A response serves at least one target.  The targets it leaves need another
\* request: the MSHR is pending again.  Otherwise it is freed.  The fill evicts
\* a block, or the temporary block is evicted, or neither.
recvTimingResp(m) ==
    /\ m \in inService
    /\ LET cleared == m = noTargetMSHR
           p == IF cleared THEN clearBlocked(port, "NoTargets") ELSE port
       IN  /\ noTargetMSHR' = IF cleared THEN None ELSE noTargetMSHR
           /\ \E left \in 0..(numTargets[m] - 1), evicted \in {0, 1} :
                /\ left > 0 => shared
                /\ numTargets' = [numTargets EXCEPT ![m] = left]
                /\ wbAllocated' = wbAllocated + evicted
                /\ evicted = 1 => wbAllocated < MaxWB
                /\ LET q == IF mshrsFull(numTargets) /\ ~mshrsFull(numTargets')
                            THEN clearBlocked(p, "NoMSHRs") ELSE p
                   IN  port' = IF evicted = 0 THEN q ELSE afterAllocate(q, wbAllocated')
    /\ inService' = inService \ {m}
    /\ snoops' = [snoops EXCEPT ![m] = 0]
    /\ UNCHANGED waiting

Next ==
    \/ recvTimingReq
    \/ processSendRetry
    \/ \E m \in Mshr : sendMSHRQueuePacket(m)
    \/ sendWriteQueuePacket
    \/ prefetch
    \/ \E m \in Mshr : handleSnoop(m)
    \/ \E m \in Mshr : recvTimingResp(m)

Spec == Init /\ [][Next]_vars

\* The cache's own events run, and what is below it takes its packets and
\* answers.  The retry event fires one tick after it was scheduled, so not
\* every one of its schedulings can be cancelled in between.
Fairness ==
    /\ SF_vars(processSendRetry)
    /\ WF_vars(sendWriteQueuePacket)
    /\ \A m \in Mshr : WF_vars(sendMSHRQueuePacket(m)) /\ WF_vars(recvTimingResp(m))
FairSpec == Spec /\ Fairness

-----------------------------------------------------------------------------
(* Properties. *)

TypeOK ==
    /\ numTargets \in [Mshr -> Nat]
    /\ inService \subseteq Allocated(numTargets)
    /\ snoops \in [Mshr -> Nat]
    /\ wbAllocated \in Nat
    /\ noTargetMSHR \in Mshr \cup {None}
    /\ port \in PortType
    /\ waiting \in BOOLEAN

\* The mask says exactly what is exhausted, although causes set in and go
\* while others hold, and the port is blocked exactly while the mask is set.
MaskExact ==
    /\ "NoMSHRs" \in port.mask <=> mshrsFull(numTargets)
    /\ "NoWBBuffers" \in port.mask <=> wbFull(wbAllocated)
    /\ "NoTargets" \in port.mask <=> noTargetMSHR # None
    /\ noTargetMSHR # None => numTargets[noTargetMSHR] > 0
    /\ port.blocked <=> port.mask # {}

\* A refused requestor is owed a retry, and the retry comes: its event is
\* scheduled, or will be when the port unblocks (setBlocked cancels a
\* scheduled one, clearBlocked schedules it again).
RetryNotLost ==
    /\ waiting => port.mustSendRetry
    /\ port.mustSendRetry => (port.sendRetryEvent <=> ~port.blocked)
    /\ port.sendRetryEvent => port.mustSendRetry

\* No assert of the queues and the port fires: the free list is not empty
\* when an MSHR is taken, the port is blocked and unblocked in turn, and no
\* retry is sent or scheduled twice.
NoAssertFails == ~port.failed

\* The reserve of the write buffer suffices when a response completes its
\* MSHR: the assert on the free list in WriteQueue::allocate holds.
WriteBufferFits ==
    ~shared => wbAllocated <= writeBuffers + Cardinality(Mshr)

\* Prefetches alone never block the cache: they leave an MSHR, and
\* demandReserve more, to the core (canPrefetch).
PrefetchNeverBlocks ==
    [][prefetch => port'.mask = {}]_vars

\* tgts_per_mshr is the "Max number of accesses per MSHR" (Cache.py), whatever
\* snoops the MSHR also holds.
AccessesBounded == \A m \in Mshr : numTargets[m] - snoops[m] <= numTarget

\* A refused requestor is let in again.
RefusedIsRetried == waiting ~> ~waiting
=============================================================================

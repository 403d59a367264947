-------------------------------- MODULE SHB --------------------------------
(***************************************************************************)
(* The SHB prefetcher of a RaS cache (mem/cache/prefetch/shb.{cc,hh})      *)
(* together with the event that drives it: the send event of the cache's   *)
(* memory-side request queue (mem/packet_queue.cc, CacheReqPacketQueue in  *)
(* mem/cache/base.cc).  The SHB keeps the last shbSize accesses it was     *)
(* told of; whenever the request queue runs and has no miss to send, the   *)
(* cache takes from it a prefetch for a random block of the window around  *)
(* a random one of those accesses.                                         *)
(*                                                                         *)
(* Time is counted in ticks.  The random draws of random_mt are            *)
(* existential choices.                                                    *)
(***************************************************************************)
EXTENDS Integers, Sequences, FiniteSets

CONSTANTS
    Addr,               \* the byte addresses accesses use, a finite set
    DomainID,           \* the security domains of the accesses
    blkSize, blkNum,    \* bytes per block, blocks per SHB window
    shbSize,            \* capacity of the SHB
    shbIssue,           \* 1: constant issue rate, 2: random intervals
    issueInterval,      \* (least) number of cycles between prefetches
    maxIssueInterval,   \* largest number of cycles between them, mode 2
    clockPeriod,        \* ticks per cycle
    forwardLatency,     \* ticks between a miss and its MSHR being ready
    snoopLatency,       \* ticks a conflicting snoop response may hold the queue
    payloadDelay,       \* ticks a response's payload may take to arrive
    shbInsertSt,        \* do stores enter the SHB when they access the cache?
    LastTick,           \* bound: the model stops the clock here
    MaxMisses           \* MSHRs: misses waiting or sent

ASSUME SHBAssumption ==
    /\ Addr \subseteq Nat
    /\ blkSize \in Nat \ {0} /\ blkNum \in Nat \ {0}
    /\ shbSize \in Nat \ {0}
    /\ shbIssue \in {1, 2}
    /\ issueInterval \in Nat \ {0} /\ maxIssueInterval \in Nat
    \* the panic of the constructor
    /\ shbIssue = 2 => issueInterval < maxIssueInterval
    /\ clockPeriod \in Nat \ {0}
    /\ forwardLatency \in Nat /\ snoopLatency \in Nat
    /\ payloadDelay \in Nat
    /\ shbInsertSt \in BOOLEAN
    /\ LastTick \in Nat /\ MaxMisses \in Nat

VARIABLES
    curTick,        \* simulated time
    shb,            \* the buffer, newest entry first
    readyTime,      \* next issue time in mode 2
    sendEvent,      \* when the request queue runs next, or NoEvent
    waitingOnRetry, \* the queue's last send was refused
    misses,         \* ready times of the MSHRs not yet sent, readyList order
    outstanding,    \* number of MSHRs sent and not answered
    pfPkt,          \* the prefetch taken in the last step, or NoPkt
    notified        \* history: the accesses last notified, newest first

vars == <<curTick, shb, readyTime, sendEvent, waitingOnRetry, misses,
          outstanding, pfPkt, notified>>

NoEvent == -1
NoPkt == [addr |-> -1]
Access == [addr : Addr, domainID : DomainID]

shbReqInfo == [addr : Nat, domainID : DomainID]

\* The window of an address: blkNum blocks, aligned to the window size.
WindowBase(a) == a - (a % (blkNum * blkSize))
AlignAddr(a) == a - (a % blkSize)

Init ==
    /\ curTick = 0
    /\ shb = <<>>
    /\ readyTime = 0
    /\ sendEvent = NoEvent
    /\ waitingOnRetry = FALSE
    /\ misses = <<>>
    /\ outstanding = 0
    /\ pfPkt = NoPkt
    /\ notified = <<>>

-----------------------------------------------------------------------------
(* The SHB itself. *)

\* The entries left after pop_back made room in a full buffer.
PopFront(q) == IF Len(q) = shbSize THEN Tail(q) ELSE q      \* faulty variant
PopNone(q) == q                                             \* faulty variant
MakeRoom(q) == IF Len(q) = shbSize THEN SubSeq(q, 1, shbSize - 1) ELSE q

Latest(q) == SubSeq(q, 1, IF Len(q) > shbSize THEN shbSize ELSE Len(q))

notifySHB(p) ==
    /\ shb' = <<[addr |-> AlignAddr(p.addr), domainID |-> p.domainID]>>
              \o MakeRoom(shb)
    /\ notified' = Latest(<<p>> \o notified)

\* The packets getPacket may build: entry and offset are drawn at random.
getPacketNoRounding ==                                      \* faulty variant
    {[addr |-> shb[i].addr + k * blkSize,
      domainID |-> shb[i].domainID] : i \in 1..Len(shb), k \in 0..(blkNum - 1)}
getPacket ==
    {[addr |-> WindowBase(shb[i].addr) + k * blkSize,
      domainID |-> shb[i].domainID] : i \in 1..Len(shb), k \in 0..(blkNum - 1)}

\* Mode 1: the next multiple of the issue interval after curTick.
issue_tick == issueInterval * clockPeriod
NextSlot == curTick - (curTick % issue_tick) + issue_tick

\* Mode 2: the loop adds random cycle counts to a time r until the sum exceeds
\* curTick.  n draws add up to any count in n * issueInterval ..
\* n * maxIssueInterval; PassedCycles are the sums the loop goes on from.
PassedCycles(r) ==
    {j \in 0..(curTick - r) :
        /\ r + j * clockPeriod <= curTick
        /\ \E n \in 0..j : n * issueInterval <= j /\ j <= n * maxIssueInterval}
DrawnReadyTimes(r) ==
    IF r > curTick THEN {r}
    ELSE {t \in {r + (j + c) * clockPeriod :
                    j \in PassedCycles(r), c \in issueInterval..maxIssueInterval} :
            t > curTick}

\* The times nextPrefetchReadyTime may return.
nextPrefetchReadyTime ==
    IF shbIssue = 1 THEN {NextSlot} ELSE DrawnReadyTimes(readyTime)

\* The member readyTime is only written in mode 2.
drawReadyTime(t) == readyTime' = IF shbIssue = 2 THEN t ELSE readyTime

-----------------------------------------------------------------------------
(* The send event of the request queue. *)

EarlierOf(t, u) == IF t < u THEN t ELSE u
LaterOf(t, u) == IF t > u THEN t ELSE u

\* The event after schedSendEvent(when) when ev was scheduled before.
schedAlways(ev, when) ==                                    \* faulty variant
    LET w == LaterOf(when, curTick + 1)
    IN  IF ev = NoEvent THEN w ELSE EarlierOf(ev, w)
schedSendEvent(ev, when) ==
    LET w == LaterOf(when, curTick + 1)
    IN  IF waitingOnRetry THEN ev
        ELSE IF ev = NoEvent THEN w ELSE EarlierOf(ev, w)

freeMSHR == Len(misses) + outstanding < MaxMisses

\* recvTimingReq: access() may insert a store into the SHB, a miss allocates
\* an MSHR and schedules its send, and the next prefetch is scheduled.
recvTimingReq(p, isWrite, isMiss) ==
    /\ isMiss => freeMSHR
    /\ IF isWrite /\ shbInsertSt
       THEN notifySHB(p)
       ELSE UNCHANGED <<shb, notified>>
    /\ misses' = IF isMiss THEN Append(misses, curTick + forwardLatency)
                           ELSE misses
    /\ \E t \in nextPrefetchReadyTime :
         /\ drawReadyTime(t)
         /\ LET ev == IF isMiss
                      THEN schedSendEvent(sendEvent, curTick + forwardLatency)
                      ELSE sendEvent
            IN  sendEvent' = schedSendEvent(ev, t)
    /\ pfPkt' = NoPkt
    /\ UNCHANGED <<curTick, waitingOnRetry, outstanding>>

\* recvSHBinfo: the reorder buffer inserts the address of an access.
recvSHBinfo(p) ==
    /\ notifySHB(p)
    /\ pfPkt' = NoPkt
    /\ UNCHANGED <<curTick, readyTime, sendEvent, waitingOnRetry, misses,
                   outstanding>>

\* addToReadyList puts an entry behind those ready at its time or before.
markPending(when) ==
    \E i \in 0..Len(misses) :
        /\ \A j \in 1..i : misses[j] <= when
        /\ \A j \in (i + 1)..Len(misses) : misses[j] > when
        /\ misses' = SubSeq(misses, 1, i) \o <<when>>
                         \o SubSeq(misses, i + 1, Len(misses))

\* The end of recvTimingResp: deferred targets make the MSHR pending again,
\* ready when the first of them is, and schedule its send; otherwise it is freed and, if the cache may prefetch
\* then, the next prefetch is scheduled.  That time is after this cycle's
\* clock edge, the earliest the code would schedule it.
recvTimingResp(deferred, mayPrefetch) ==
    /\ outstanding > 0
    /\ outstanding' = outstanding - 1
    /\ \/ /\ deferred
          /\ \E when \in curTick..(curTick + forwardLatency) : markPending(when)
          /\ \E delay \in 0..payloadDelay :
               sendEvent' = schedSendEvent(sendEvent, curTick + delay)
          /\ UNCHANGED readyTime
       \/ /\ ~deferred /\ mayPrefetch
          /\ \E t \in nextPrefetchReadyTime :
               drawReadyTime(t) /\ sendEvent' = schedSendEvent(sendEvent, t)
          /\ UNCHANGED misses
       \/ /\ ~deferred /\ ~mayPrefetch
          /\ UNCHANGED <<misses, sendEvent, readyTime>>
    /\ pfPkt' = NoPkt
    /\ UNCHANGED <<curTick, shb, waitingOnRetry, notified>>

\* nextQueueReadyTime, given the MSHRs left and the prefetcher's answer
missesFirst(ms, t) == IF ms = <<>> THEN t ELSE Head(ms)     \* faulty variant
prefetchOnly(ms, t) == t                                    \* faulty variant
nextQueueReadyTime(ms, t) == IF ms = <<>> THEN t ELSE EarlierOf(Head(ms), t)

\* The end of sendDeferredPacket: after a refused send the queue waits for a
\* retry, otherwise the next send is scheduled.  A snoop response to the same
\* block holds the entry back and schedules the send after itself.
Outcome == {"accepted", "refused", "held"}
endSendUnscheduled(outcome) ==                              \* faulty variant
    /\ waitingOnRetry' = (outcome = "refused")
    /\ IF outcome = "accepted"
       THEN \E t \in nextPrefetchReadyTime :
              /\ drawReadyTime(t)
              /\ sendEvent' = LaterOf(nextQueueReadyTime(misses', t), curTick + 1)
       ELSE sendEvent' = NoEvent /\ UNCHANGED readyTime
endSend(outcome) ==
    /\ waitingOnRetry' = (outcome = "refused")
    /\ CASE outcome = "accepted" ->
              \E t \in nextPrefetchReadyTime :
                /\ drawReadyTime(t)
                /\ sendEvent' = LaterOf(nextQueueReadyTime(misses', t), curTick + 1)
         [] outcome = "held" ->
              /\ \E when \in 0..snoopLatency :
                   sendEvent' = LaterOf(curTick + when, curTick + 1)
              /\ UNCHANGED readyTime
         [] outcome = "refused" ->
              /\ sendEvent' = NoEvent
              /\ UNCHANGED readyTime

missReady == misses # <<>> /\ Head(misses) <= curTick

\* sendDeferredPacket finds a ready miss.
sendMiss(outcome) ==
    /\ missReady
    /\ misses' = IF outcome = "accepted" THEN Tail(misses) ELSE misses
    /\ outstanding' = IF outcome = "accepted" THEN outstanding + 1 ELSE outstanding
    /\ pfPkt' = NoPkt
    /\ endSend(outcome)

\* It finds none and takes a prefetch that gets an MSHR of its own.
sendPrefetch(outcome) ==
    /\ ~missReady
    /\ freeMSHR
    /\ pfPkt' \in getPacket
    /\ misses' = IF outcome = "accepted" THEN misses ELSE <<curTick>> \o misses
    /\ outstanding' = IF outcome = "accepted" THEN outstanding + 1 ELSE outstanding
    /\ endSend(outcome)

\* It finds no entry: the prefetch taken is dropped because its block is
\* present or already requested, the SHB is empty, or the cache may not
\* prefetch because it is blocked or short of MSHRs.
sendNothing ==
    /\ ~missReady
    /\ pfPkt' \in getPacket \cup {NoPkt}
    /\ UNCHANGED <<misses, outstanding>>
    /\ endSend("accepted")

sendDeferredPacket ==
    /\ \/ \E outcome \in Outcome : sendMiss(outcome)
       \/ \E outcome \in Outcome : sendPrefetch(outcome)
       \/ sendNothing
    /\ UNCHANGED <<curTick, shb, notified>>

processSendEvent ==
    /\ sendEvent = curTick
    /\ sendDeferredPacket

retry ==
    /\ waitingOnRetry
    /\ sendDeferredPacket

\* Simulated time advances once the events of this tick ran.
advance ==
    /\ curTick < LastTick
    /\ sendEvent # curTick
    /\ curTick' = curTick + 1
    /\ pfPkt' = NoPkt
    /\ UNCHANGED <<shb, readyTime, sendEvent, waitingOnRetry, misses, outstanding,
                   notified>>

Next ==
    \/ \E p \in Access, isWrite, isMiss \in BOOLEAN :
         recvTimingReq(p, isWrite, isMiss)
    \/ \E p \in Access : recvSHBinfo(p)
    \/ \E deferred, mayPrefetch \in BOOLEAN : recvTimingResp(deferred, mayPrefetch)
    \/ processSendEvent
    \/ retry
    \/ advance

Spec == Init /\ [][Next]_vars

-----------------------------------------------------------------------------
(* Properties. *)

TypeOK ==
    /\ curTick \in Nat
    /\ shb \in Seq(shbReqInfo) /\ Len(shb) <= shbSize
    /\ readyTime \in Nat
    /\ sendEvent \in Nat \cup {NoEvent}
    /\ waitingOnRetry \in BOOLEAN
    /\ misses \in Seq(Nat) /\ outstanding \in Nat
    /\ pfPkt \in [addr : Nat, domainID : DomainID] \cup {NoPkt}
    /\ notified \in Seq(Access)

\* The SHB holds the blocks of the shbSize accesses notified last, newest
\* first, with their domains (notifySHB, which drops the oldest when full).
HoldsLatestAccesses ==
    /\ Len(shb) = Len(notified)
    /\ \A i \in 1..Len(shb) :
         /\ shb[i].addr \div blkSize = notified[i].addr \div blkSize
         /\ shb[i].addr % blkSize = 0
         /\ shb[i].domainID = notified[i].domainID

\* A prefetch is for a block of the window of an access among the last shbSize
\* notified, in the domain of that access (getPacket rounds the address down
\* to the window and adds a block offset below blkNum).
PrefetchesNearAccess ==
    pfPkt # NoPkt =>
        \E i \in 1..Len(notified) :
            /\ WindowBase(pfPkt.addr) = WindowBase(notified[i].addr)
            /\ pfPkt.addr % blkSize = 0
            /\ pfPkt.domainID = notified[i].domainID

\* The queue will run again: by its event or by a retry.
HasWakeup == sendEvent # NoEvent \/ waitingOnRetry

\* The send event is never lost: once scheduled, the queue always has an event
\* to come or a retry to wait for (processSendEvent and retry reschedule it on
\* every path through sendDeferredPacket).
WakeupNotLost == [][HasWakeup => HasWakeup']_vars

\* However misses, responses and notifications arrive while a refused send waits
\* for its retry, none of them puts the queue's event back: the event would run
\* the queue against the retry, where packet_queue.cc asserts !waitingOnRetry.
EventXorRetry == ~(waitingOnRetry /\ sendEvent # NoEvent)

\* The prefetcher is not starved of its slots: the send event is at most one
\* issue slot away, or as far as a snoop response holds the queue, however
\* misses, retries and notifications interleave.  It is never in the past.
SlotNotMissed ==
    sendEvent # NoEvent =>
        /\ curTick <= sendEvent
        /\ shbIssue = 1 => sendEvent <= LaterOf(NextSlot, curTick + snoopLatency)
        /\ shbIssue = 2 => sendEvent <= LaterOf(LaterOf(readyTime, curTick + 1),
                                                curTick + snoopLatency)

\* A waiting miss is sent no later than its ready time, unless the queue waits
\* for a retry, a snoop response or a payload: the event is at or before it.
MissWakesQueue ==
    misses # <<>> /\ sendEvent # NoEvent =>
        \/ sendEvent <= Head(misses)
        \/ sendEvent <= curTick + LaterOf(1, LaterOf(snoopLatency, payloadDelay))
=============================================================================

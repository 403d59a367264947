----------------------------- MODULE SHBProofs -----------------------------
(* What holds of the SHB and of its send event for every window, buffer    *)
(* size, issue mode and clock.                                             *)
EXTENDS SHB, TLAPS

\* The provers of the leaves that name none, in the order in which they are tried.
USE SMTT(60), Z3T(60), ZenonT(60)

-----------------------------------------------------------------------------
(* Arithmetic of blocks and windows. *)

\* Quotient and remainder are unique.
LEMMA DivisionUnique ==
    ASSUME NEW w \in Nat \ {0}, NEW q \in Int, NEW r \in 0..(w - 1),
           NEW p \in Int, NEW s \in 0..(w - 1), q * w + r = p * w + s
    PROVE  q = p /\ r = s
<1>1. (q - p) * w = s - r
  BY Z3T(60)
<1>2. q - p >= 1 => (q - p) * w >= w
  BY Z3T(60)
<1>3. q - p <= -1 => (q - p) * w <= -w
  BY Z3T(60)
<1>4. q = p
  BY <1>1, <1>2, <1>3, Z3T(60)
<1> QED
  BY <1>4, Z3T(60)

LEMMA DivMod ==
    ASSUME NEW w \in Nat \ {0}, NEW a \in Nat
    PROVE  /\ a \div w \in Nat /\ a % w \in 0..(w - 1)
           /\ a = (a \div w) * w + (a % w)
  BY Z3T(60)

\* Adding less than w to a multiple of w does not change the quotient.
LEMMA ModOfSum ==
    ASSUME NEW w \in Nat \ {0}, NEW q \in Nat, NEW r \in 0..(w - 1)
    PROVE  (q * w + r) % w = r /\ (q * w + r) \div w = q
<1> DEFINE a == q * w + r
<1>1. a \in Nat
  BY Z3T(60)
<1>2. PICK p \in Nat, s \in 0..(w - 1) :
         p = a \div w /\ s = a % w /\ a = p * w + s
  <2>1. /\ a \div w \in Nat /\ a % w \in 0..(w - 1)
        /\ a = (a \div w) * w + (a % w)
    BY <1>1, DivMod, ZenonT(60)
  <2> HIDE DEF a
  <2> QED
    BY <2>1, ZenonT(60)
<1>3. q * w + r = p * w + s
  BY <1>2, ZenonT(60)
<1>4. q = p /\ r = s
  <2>1. q \in Int /\ p \in Int
    BY Z3T(60)
  <2> QED
    BY <2>1, <1>3, DivisionUnique
<1> QED
  BY <1>2, <1>4, ZenonT(60)

\* WindowBase rounds down to a multiple of the window size.
LEMMA WindowMultiple ==
    ASSUME NEW a \in Nat
    PROVE  \E p \in Nat, s \in 0..(blkNum * blkSize - 1) :
             /\ a = p * (blkNum * blkSize) + s
             /\ WindowBase(a) = p * (blkNum * blkSize)
<1> DEFINE W == blkNum * blkSize
<1>1. W \in Nat \ {0}
  BY SHBAssumption, Z3T(60)
<1>2. /\ a \div W \in Nat /\ a % W \in 0..(W - 1)
      /\ a = (a \div W) * W + (a % W)
  BY <1>1, DivMod, ZenonT(60)
<1>3. WindowBase(a) = a - (a % W)
  BY DEF WindowBase
<1> HIDE DEF W
<1>4. PICK p \in Nat, s \in 0..(W - 1) : a = p * W + s /\ s = a % W
  BY <1>2, ZenonT(60)
<1>5. WindowBase(a) = p * W
  <2>1. p * W \in Nat
    BY <1>1, Z3T(60)
  <2> QED
    BY <2>1, <1>1, <1>3, <1>4, Z3T(60)
<1> QED
  BY <1>4, <1>5, ZenonT(60) DEF W

\* The same for the window of a multiple of it plus less than it.
LEMMA WindowOfSum ==
    ASSUME NEW p \in Nat, NEW s \in 0..(blkNum * blkSize - 1)
    PROVE  WindowBase(p * (blkNum * blkSize) + s) = p * (blkNum * blkSize)
<1> DEFINE W == blkNum * blkSize
<1>1. W \in Nat \ {0}
  BY SHBAssumption, Z3T(60)
<1>2. (p * W + s) % W = s
  BY <1>1, ModOfSum, ZenonT(60)
<1>3. p * W \in Nat
  BY <1>1, Z3T(60)
<1> QED
  BY <1>1, <1>2, <1>3, Z3T(60) DEF WindowBase

\* Blocks of a window: p windows and k blocks make p * blkNum + k blocks.
LEMMA BlocksOfWindow ==
    ASSUME NEW p \in Nat, NEW k \in Nat
    PROVE  p * (blkNum * blkSize) + k * blkSize = (p * blkNum + k) * blkSize
  BY SHBAssumption, Z3T(60)

\* The first byte of a block lies in the window of every byte of the block.
LEMMA WindowOfBlock ==
    ASSUME NEW a \in Nat
    PROVE  AlignAddr(a) \in Nat /\ WindowBase(AlignAddr(a)) = WindowBase(a)
<1> DEFINE W == blkNum * blkSize
<1>0. W \in Nat \ {0} /\ blkSize \in Nat \ {0} /\ blkNum \in Nat
  BY SHBAssumption, Z3T(60)
<1>1. PICK p \in Nat, s \in 0..(W - 1) : a = p * W + s /\ WindowBase(a) = p * W
  BY WindowMultiple, ZenonT(60)
<1>2. PICK t \in Nat, u \in 0..(blkSize - 1) : s = t * blkSize + u
  <2>1. s \in Nat
    BY <1>0, Z3T(60)
  <2>2. /\ s \div blkSize \in Nat /\ s % blkSize \in 0..(blkSize - 1)
        /\ s = (s \div blkSize) * blkSize + (s % blkSize)
    BY <2>1, <1>0, DivMod, ZenonT(60)
  <2> QED
    BY <2>2, ZenonT(60)
<1>3. a = (p * blkNum + t) * blkSize + u
  <2>1. p * W \in Nat /\ t * blkSize \in Nat
    BY <1>0, Z3T(60)
  <2>2. a = (p * W + t * blkSize) + u
    BY <2>1, <1>0, <1>1, <1>2, Z3T(60)
  <2> QED
    BY <2>2, BlocksOfWindow, ZenonT(60)
<1>4. p * blkNum + t \in Nat
  BY <1>0, Z3T(60)
<1>5. a % blkSize = u
  BY <1>0, <1>3, <1>4, ModOfSum, ZenonT(60)
<1>6. p * W \in Nat /\ t * blkSize \in Nat /\ t * blkSize \in 0..(W - 1)
  BY <1>0, <1>2, Z3T(60)
<1> HIDE DEF W
<1>7. AlignAddr(a) = p * W + t * blkSize
  <2>1. PICK x \in Nat, y \in Nat : x = p * W /\ y = t * blkSize
    BY <1>6, ZenonT(60)
  <2>2. a = x + (y + u)
    BY <2>1, <1>1, <1>2, ZenonT(60)
  <2>3. AlignAddr(a) = x + y
    BY <2>2, <1>0, <1>5, Z3T(60) DEF AlignAddr
  <2> QED
    BY <2>1, <2>3, ZenonT(60)
<1>8. WindowBase(p * W + t * blkSize) = p * W
  BY <1>6, WindowOfSum, ZenonT(60) DEF W
<1> QED
  BY <1>1, <1>6, <1>7, <1>8, Z3T(60)

\* Rounding to the block keeps the block and is a multiple of its size.
LEMMA BlockOfAlign ==
    ASSUME NEW a \in Nat
    PROVE  AlignAddr(a) % blkSize = 0 /\ AlignAddr(a) \div blkSize = a \div blkSize
<1>1. blkSize \in Nat \ {0}
  BY SHBAssumption, ZenonT(60)
<1>2. PICK q \in Nat, r \in 0..(blkSize - 1) :
        a = q * blkSize + r /\ q = a \div blkSize /\ r = a % blkSize
  BY <1>1, DivMod, ZenonT(60)
<1>3. AlignAddr(a) = q * blkSize + 0
  <2>1. q * blkSize \in Nat
    BY <1>1, Z3T(60)
  <2> QED
    BY <2>1, <1>1, <1>2, Z3T(60) DEF AlignAddr
<1>4. 0 \in 0..(blkSize - 1)
  BY <1>1, Z3T(60)
<1>5. (q * blkSize + 0) % blkSize = 0 /\ (q * blkSize + 0) \div blkSize = q
  BY <1>1, <1>4, ModOfSum, ZenonT(60)
<1> QED
  BY <1>2, <1>3, <1>5, ZenonT(60)

\* An aligned address is the first byte of every byte of its block.
LEMMA SameBlock ==
    ASSUME NEW a \in Nat, NEW b \in Nat, b % blkSize = 0,
           b \div blkSize = a \div blkSize
    PROVE  b = AlignAddr(a)
<1>1. blkSize \in Nat \ {0}
  BY SHBAssumption, ZenonT(60)
<1>2. PICK q \in Nat, r \in 0..(blkSize - 1) :
        a = q * blkSize + r /\ q = a \div blkSize /\ r = a % blkSize
  BY <1>1, DivMod, ZenonT(60)
<1>3. b = (b \div blkSize) * blkSize + (b % blkSize)
  BY <1>1, DivMod, ZenonT(60)
<1>4. PICK x \in Nat : x = q * blkSize
  BY <1>1, Z3T(60)
<1>5. a = x + r /\ b = x + 0
  BY <1>2, <1>3, <1>4, ZenonT(60)
<1> QED
  BY <1>1, <1>2, <1>5, Z3T(60) DEF AlignAddr

\* Any block of a window has that window, and is aligned.
LEMMA BlockOfWindow ==
    ASSUME NEW a \in Nat, NEW k \in 0..(blkNum - 1)
    PROVE  /\ WindowBase(a) + k * blkSize \in Nat
           /\ WindowBase(WindowBase(a) + k * blkSize) = WindowBase(a)
           /\ (WindowBase(a) + k * blkSize) % blkSize = 0
<1> DEFINE W == blkNum * blkSize
<1>0. W \in Nat \ {0} /\ blkSize \in Nat \ {0} /\ blkNum \in Nat
  BY SHBAssumption, Z3T(60)
<1>1. PICK p \in Nat, s \in 0..(W - 1) : a = p * W + s /\ WindowBase(a) = p * W
  BY WindowMultiple, ZenonT(60)
<1>2. k \in Nat /\ k + 1 <= blkNum
  BY <1>0, Z3T(60)
<1>3. p * W \in Nat /\ k * blkSize \in Nat /\ k * blkSize \in 0..(W - 1)
  <2>1. (k + 1) * blkSize <= W
    BY <1>0, <1>2, Z3T(60)
  <2>2. k * blkSize + blkSize = (k + 1) * blkSize
    BY <1>0, <1>2, Z3T(60)
  <2>3. p * W \in Nat /\ k * blkSize \in Nat
    BY <1>0, <1>2, Z3T(60)
  <2> HIDE DEF W
  <2> QED
    BY <2>1, <2>2, <2>3, <1>0, Z3T(60)
<1>4. WindowBase(p * W + k * blkSize) = p * W
  BY <1>3, WindowOfSum, ZenonT(60)
<1>5. (p * W + k * blkSize) % blkSize = 0
  <2>1. p * W + k * blkSize = (p * blkNum + k) * blkSize
    BY <1>2, BlocksOfWindow, ZenonT(60)
  <2>2. p * blkNum + k \in Nat /\ 0 \in 0..(blkSize - 1)
    BY <1>0, <1>2, Z3T(60)
  <2>3. (p * blkNum + k) * blkSize = (p * blkNum + k) * blkSize + 0
    BY <1>0, <2>2, Z3T(60)
  <2> QED
    BY <2>1, <2>2, <2>3, <1>0, ModOfSum
<1> HIDE DEF W
<1> QED
  BY <1>1, <1>3, <1>4, <1>5, Z3T(60)

-----------------------------------------------------------------------------
(* Issue times. *)

\* The next multiple of i after c.
LEMMA NextMultiple ==
    ASSUME NEW c \in Nat, NEW i \in Nat \ {0}
    PROVE  c - (c % i) + i \in Nat /\ c - (c % i) + i > c
<1>1. PICK q \in Nat, r \in 0..(i - 1) : c = q * i + r /\ r = c % i
  BY DivMod, ZenonT(60)
<1>2. q * i \in Nat
  BY Z3T(60)
<1> QED
  BY <1>1, <1>2, Z3T(60)

\* A slot of mode 1 lies after the present.
LEMMA SlotAfterNow ==
    ASSUME curTick \in Nat
    PROVE  NextSlot \in Nat /\ NextSlot > curTick
<1>1. issue_tick \in Nat \ {0}
  BY SHBAssumption, Z3T(60) DEF issue_tick
<1> QED
  BY <1>1, NextMultiple, ZenonT(60) DEF NextSlot

\* Every time the prefetcher answers lies after the present, in both modes.
LEMMA ReadyTimeLater ==
    ASSUME curTick \in Nat, readyTime \in Nat, NEW t \in nextPrefetchReadyTime
    PROVE  /\ t \in Nat /\ t > curTick
           /\ shbIssue = 1 => t = NextSlot
           /\ shbIssue = 2 => t >= readyTime
<1>1. CASE shbIssue = 1
  BY <1>1, SlotAfterNow DEF nextPrefetchReadyTime
<1>2. CASE shbIssue = 2
  <2>1. t \in DrawnReadyTimes(readyTime)
    BY <1>2 DEF nextPrefetchReadyTime
  <2>2. CASE readyTime > curTick
    BY <2>1, <2>2, <1>2, Z3T(60) DEF DrawnReadyTimes
  <2>3. CASE ~(readyTime > curTick)
    <3>1. PICK j \in PassedCycles(readyTime), c \in issueInterval..maxIssueInterval :
            t = readyTime + (j + c) * clockPeriod /\ t > curTick
      BY <2>1, <2>3, Z3T(60) DEF DrawnReadyTimes
    <3>2. j \in Nat /\ c \in Nat /\ clockPeriod \in Nat
      BY SHBAssumption, Z3T(60) DEF PassedCycles
    <3>3. (j + c) * clockPeriod \in Nat
      BY <3>2, Z3T(60)
    <3> QED
      BY <3>1, <3>3, <1>2, Z3T(60)
  <2> QED
    BY <2>2, <2>3, ZenonT(60)
<1> QED
  BY <1>1, <1>2, SHBAssumption, ZenonT(60)

\* The slots of mode 1 move forward with time.
LEMMA SlotsMonotone ==
    ASSUME NEW c \in Nat, NEW i \in Nat \ {0}
    PROVE  c - (c % i) + i <= (c + 1) - ((c + 1) % i) + i
<1>1. PICK q \in Nat, r \in 0..(i - 1) : c = q * i + r /\ r = c % i
  BY DivMod, ZenonT(60)
<1>2. PICK p \in Nat, s \in 0..(i - 1) : c + 1 = p * i + s /\ s = (c + 1) % i
  <2>1. c + 1 \in Nat
    OBVIOUS
  <2> QED
    BY <2>1, DivMod, ZenonT(60)
<1>3. q * i \in Nat /\ p * i \in Nat
  BY Z3T(60)
<1>4. p >= q
  <2>1. SUFFICES ASSUME p <= q - 1 PROVE FALSE
    BY Z3T(60)
  <2>2. p * i <= (q - 1) * i
    BY <2>1, Z3T(60)
  <2>3. (q - 1) * i = q * i - i
    BY Z3T(60)
  <2> QED
    BY <2>2, <2>3, <1>1, <1>2, <1>3, Z3T(60)
<1>5. p * i >= q * i
  BY <1>4, Z3T(60)
<1> QED
  BY <1>1, <1>2, <1>3, <1>5, Z3T(60)

-----------------------------------------------------------------------------
(* The inductive invariant: the buffer and its history agree, the queue has *)
(* either an event or a retry to come, surely once it sent a request.       *)

SentWakes == outstanding > 0 => HasWakeup

SHBInv ==
    /\ TypeOK
    /\ HoldsLatestAccesses
    /\ PrefetchesNearAccess
    /\ EventXorRetry
    /\ SlotNotMissed
    /\ SentWakes

\* Making room drops the oldest entry of a full buffer only.
LEMMA MakeRoomFacts ==
    ASSUME NEW S, NEW q \in Seq(S), Len(q) <= shbSize
    PROVE  /\ MakeRoom(q) \in Seq(S)
           /\ Len(MakeRoom(q)) = IF Len(q) = shbSize THEN shbSize - 1 ELSE Len(q)
           /\ \A i \in 1..Len(MakeRoom(q)) : MakeRoom(q)[i] = q[i]
<1>1. shbSize \in Nat \ {0}
  BY SHBAssumption, ZenonT(60)
<1>2. CASE Len(q) = shbSize
  BY <1>1, <1>2 DEF MakeRoom
<1>3. CASE Len(q) # shbSize
  BY <1>1, <1>3, ZenonT(60) DEF MakeRoom
<1> QED
  BY <1>2, <1>3, ZenonT(60)

\* What an insertion makes of the buffer and of its history.
LEMMA NotifyKeepsHistory ==
    ASSUME TypeOK, HoldsLatestAccesses, NEW p \in Access, notifySHB(p)
    PROVE  /\ shb' \in Seq(shbReqInfo) /\ Len(shb') <= shbSize
           /\ notified' \in Seq(Access)
           /\ HoldsLatestAccesses'
<1> DEFINE e == [addr |-> AlignAddr(p.addr), domainID |-> p.domainID]
           m == MakeRoom(shb)
<1>1. shbSize \in Nat \ {0} /\ p.addr \in Nat
  BY SHBAssumption, ZenonT(60) DEF Access
<1>2. e \in shbReqInfo
  BY <1>1, WindowOfBlock, ZenonT(60) DEF shbReqInfo, Access
<1>3. /\ m \in Seq(shbReqInfo)
      /\ Len(m) = IF Len(shb) = shbSize THEN shbSize - 1 ELSE Len(shb)
      /\ \A i \in 1..Len(m) : m[i] = shb[i]
  BY MakeRoomFacts, ZenonT(60) DEF TypeOK
<1>4. shb' = <<e>> \o m
  BY ZenonT(60) DEF notifySHB
<1>5. /\ e.addr % blkSize = 0
      /\ e.addr \div blkSize = p.addr \div blkSize
      /\ e.domainID = p.domainID
  BY <1>1, BlockOfAlign, ZenonT(60)
<1> HIDE DEF e, m
<1>6. /\ shb' \in Seq(shbReqInfo) /\ Len(shb') = Len(m) + 1
      /\ shb'[1] = e /\ \A i \in 2..Len(shb') : shb'[i] = m[i - 1]
  BY <1>2, <1>3, <1>4
<1> DEFINE n == <<p>> \o notified
<1>7. /\ n \in Seq(Access) /\ Len(n) = Len(notified) + 1
      /\ n[1] = p /\ \A i \in 2..Len(n) : n[i] = notified[i - 1]
  BY DEF TypeOK
<1>8. notified' = Latest(n)
  BY ZenonT(60) DEF notifySHB
<1> HIDE DEF n
<1>9. /\ notified' \in Seq(Access)
      /\ Len(notified') = IF Len(n) > shbSize THEN shbSize ELSE Len(n)
      /\ \A i \in 1..Len(notified') : notified'[i] = n[i]
  BY <1>1, <1>7, <1>8 DEF Latest
<1>10. Len(shb) = Len(notified) /\ Len(shb) \in Nat /\ Len(shb) <= shbSize
  BY DEF HoldsLatestAccesses, TypeOK
<1>11. Len(shb') <= shbSize /\ Len(shb') = Len(notified')
  BY <1>1, <1>3, <1>6, <1>7, <1>9, <1>10
<1>12. /\ Len(m) \in Nat /\ Len(shb) \in Nat /\ Len(m) <= Len(shb)
       /\ Len(shb') = Len(m) + 1
  BY <1>1, <1>3, <1>6, <1>10
<1>13. ASSUME NEW i \in 1..Len(shb')
       PROVE  /\ shb'[i].addr \div blkSize = notified'[i].addr \div blkSize
              /\ shb'[i].addr % blkSize = 0
              /\ shb'[i].domainID = notified'[i].domainID
  <2>1. CASE i = 1
    BY <2>1, <1>5, <1>6, <1>7, <1>9, <1>11, ZenonT(60)
  <2>2. CASE i # 1
    <3>1. i \in 2..Len(shb') /\ i - 1 \in 1..Len(m) /\ i - 1 \in 1..Len(shb)
      BY <2>2, <1>12
    <3>2. shb'[i] = shb[i - 1]
      BY <3>1, <1>3, <1>6, ZenonT(60)
    <3>3. notified'[i] = notified[i - 1]
      BY <3>1, <1>7, <1>9, <1>10, <1>11
    <3> QED
      BY <3>1, <3>2, <3>3, ZenonT(60) DEF HoldsLatestAccesses
  <2> QED
    BY <2>1, <2>2, ZenonT(60)
<1> QED
  BY <1>6, <1>9, <1>11, <1>13, ZenonT(60) DEF HoldsLatestAccesses

\* Scheduling only ever moves the event earlier, never into the past.
LEMMA SchedFacts ==
    ASSUME curTick \in Nat, waitingOnRetry \in BOOLEAN,
           NEW ev \in Nat \cup {NoEvent}, NEW when \in Nat,
           ev # NoEvent => curTick <= ev
    PROVE  LET r == schedSendEvent(ev, when) IN
           /\ waitingOnRetry => r = ev
           /\ ~waitingOnRetry => /\ r \in Nat /\ curTick <= r
                                 /\ r <= LaterOf(when, curTick + 1)
                                 /\ ev # NoEvent => r <= ev
  BY DEF schedSendEvent, NoEvent, EarlierOf, LaterOf

\* The bound of SlotNotMissed on the send event.
SlotBound ==
    LaterOf(IF shbIssue = 1 THEN NextSlot ELSE LaterOf(readyTime, curTick + 1),
            curTick + snoopLatency)

LEMMA SlotBoundFacts ==
    ASSUME curTick \in Nat, readyTime \in Nat
    PROVE  /\ SlotBound \in Nat
           /\ SlotNotMissed <=>
                (sendEvent # NoEvent => curTick <= sendEvent /\ sendEvent <= SlotBound)
<1>1. NextSlot \in Nat
  BY SlotAfterNow
<1> QED
  BY <1>1, SHBAssumption DEF SlotBound, SlotNotMissed, LaterOf

LEMMA RecvTimingReqStep ==
    ASSUME SHBInv, NEW p \in Access, NEW isWrite \in BOOLEAN,
           NEW isMiss \in BOOLEAN, recvTimingReq(p, isWrite, isMiss)
    PROVE  SHBInv'
<1> USE DEF SHBInv
<1>1. /\ shb' \in Seq(shbReqInfo) /\ Len(shb') <= shbSize
      /\ notified' \in Seq(Access)
      /\ HoldsLatestAccesses'
  <2>1. CASE isWrite /\ shbInsertSt
    BY <2>1, NotifyKeepsHistory, ZenonT(60) DEF recvTimingReq
  <2>2. CASE ~(isWrite /\ shbInsertSt)
    BY <2>2, ZenonT(60) DEF recvTimingReq, HoldsLatestAccesses, TypeOK
  <2> QED
    BY <2>1, <2>2, ZenonT(60)
<1>2. forwardLatency \in Nat /\ snoopLatency \in Nat /\ shbIssue \in {1, 2}
  BY SHBAssumption, ZenonT(60)
<1>3. misses' \in Seq(Nat)
  BY <1>2 DEF recvTimingReq, TypeOK
<1>4. PrefetchesNearAccess' /\ pfPkt' = NoPkt
  BY ZenonT(60) DEF recvTimingReq, PrefetchesNearAccess
<1>5. UNCHANGED <<curTick, waitingOnRetry, outstanding>> /\ curTick \in Nat
      /\ waitingOnRetry \in BOOLEAN /\ readyTime \in Nat
      /\ sendEvent \in Nat \cup {NoEvent}
  BY ZenonT(60) DEF recvTimingReq, TypeOK
<1>6. sendEvent # NoEvent => curTick <= sendEvent /\ sendEvent <= SlotBound
  BY <1>5, SlotBoundFacts, ZenonT(60)
<1>7. PICK t \in nextPrefetchReadyTime :
        /\ drawReadyTime(t)
        /\ sendEvent' = schedSendEvent(
             IF isMiss THEN schedSendEvent(sendEvent, curTick + forwardLatency)
                       ELSE sendEvent, t)
  BY ZenonT(60) DEF recvTimingReq
<1>8. /\ t \in Nat /\ t > curTick
      /\ shbIssue = 1 => t = NextSlot
      /\ shbIssue = 2 => t >= readyTime
  BY <1>5, <1>7, ReadyTimeLater, ZenonT(60)
<1>9. readyTime' \in Nat /\ (shbIssue = 2 => readyTime' = t)
  BY <1>5, <1>7, <1>8, ZenonT(60) DEF drawReadyTime
<1> DEFINE ev == IF isMiss THEN schedSendEvent(sendEvent, curTick + forwardLatency)
                           ELSE sendEvent
<1>10. /\ waitingOnRetry => ev = sendEvent
       /\ ev \in Nat \cup {NoEvent} /\ (ev # NoEvent => curTick <= ev)
  <2>1. curTick + forwardLatency \in Nat
    BY <1>2, <1>5
  <2> QED
    BY <2>1, <1>5, <1>6, SchedFacts, ZenonT(60)
<1>11. sendEvent' = schedSendEvent(ev, t)
  BY <1>7, ZenonT(60)
<1> HIDE DEF ev
<1>12. /\ waitingOnRetry => sendEvent' = sendEvent
       /\ ~waitingOnRetry => /\ sendEvent' \in Nat /\ curTick <= sendEvent'
                             /\ sendEvent' <= LaterOf(t, curTick + 1)
  BY <1>5, <1>8, <1>10, <1>11, SchedFacts, ZenonT(60)
<1>13. EventXorRetry'
  BY <1>5, <1>12, ZenonT(60) DEF EventXorRetry, NoEvent
<1>14. TypeOK'
  BY <1>1, <1>3, <1>4, <1>5, <1>9, <1>12, ZenonT(60) DEF TypeOK
<1>15. SlotNotMissed'
  <2>1. NextSlot' = NextSlot
    BY <1>5, ZenonT(60) DEF NextSlot, issue_tick
  <2>2. CASE waitingOnRetry
    BY <2>2, <1>5, <1>12, ZenonT(60) DEF EventXorRetry, SlotNotMissed
  <2>3. CASE ~waitingOnRetry
    BY <2>1, <2>3, <1>2, <1>5, <1>8, <1>9, <1>12 DEF SlotNotMissed, LaterOf
  <2> QED
    BY <2>2, <2>3, <1>5, ZenonT(60)
<1>16. SentWakes'
  BY <1>5, <1>12 DEF SentWakes, HasWakeup, NoEvent
<1> QED
  BY <1>1, <1>4, <1>13, <1>14, <1>15, <1>16, ZenonT(60)

\* An access schedules the queue unless it waits for a retry.
LEMMA RecvSchedules ==
    ASSUME SHBInv, NEW p \in Access, NEW isWrite \in BOOLEAN,
           NEW isMiss \in BOOLEAN, recvTimingReq(p, isWrite, isMiss),
           ~waitingOnRetry
    PROVE  sendEvent' # NoEvent
<1>1. /\ curTick \in Nat /\ readyTime \in Nat /\ forwardLatency \in Nat
      /\ sendEvent \in Nat \cup {NoEvent}
  BY SHBAssumption, ZenonT(60) DEF SHBInv, TypeOK
<1>2. PICK t \in nextPrefetchReadyTime,
           ev \in {sendEvent, schedSendEvent(sendEvent, curTick + forwardLatency)} :
        sendEvent' = schedSendEvent(ev, t)
  BY ZenonT(60) DEF recvTimingReq
<1>3. t \in Nat
  BY <1>1, ReadyTimeLater, ZenonT(60)
<1> QED
  BY <1>1, <1>2, <1>3 DEF schedSendEvent, NoEvent, EarlierOf, LaterOf

\* The end of a send leaves an event within reach, or a retry to wait for.
LEMMA EndSendStep ==
    ASSUME TypeOK, NEW outcome \in Outcome, endSend(outcome),
           misses' \in Seq(Nat), UNCHANGED curTick
    PROVE  /\ readyTime' \in Nat /\ waitingOnRetry' \in BOOLEAN
           /\ sendEvent' \in Nat \cup {NoEvent}
           /\ EventXorRetry' /\ SlotNotMissed'
           /\ HasWakeup'
<1>1. snoopLatency \in Nat /\ shbIssue \in {1, 2}
  BY SHBAssumption, ZenonT(60)
<1>2. curTick \in Nat /\ readyTime \in Nat /\ NextSlot' = NextSlot
  BY ZenonT(60) DEF TypeOK, NextSlot, issue_tick
<1>3. CASE outcome = "accepted"
  <2>1. PICK t \in nextPrefetchReadyTime :
          /\ drawReadyTime(t)
          /\ sendEvent' = LaterOf(nextQueueReadyTime(misses', t), curTick + 1)
    BY <1>3 DEF endSend
  <2>2. /\ t \in Nat /\ t > curTick
        /\ shbIssue = 1 => t = NextSlot
        /\ shbIssue = 2 => t >= readyTime
    BY <1>2, ReadyTimeLater, ZenonT(60)
  <2>3. readyTime' \in Nat /\ (shbIssue = 2 => readyTime' = t)
    BY <1>2, <2>1, <2>2, ZenonT(60) DEF drawReadyTime
  <2>4. /\ sendEvent' \in Nat /\ sendEvent' > curTick
        /\ sendEvent' <= t
    <3>1. nextQueueReadyTime(misses', t) \in Nat /\ nextQueueReadyTime(misses', t) <= t
      BY <2>2 DEF nextQueueReadyTime, EarlierOf
    <3> QED
      BY <3>1, <2>1, <2>2, <1>2 DEF LaterOf
  <2>5. waitingOnRetry' = FALSE
    BY <1>3, ZenonT(60) DEF endSend
  <2>6. SlotNotMissed'
    BY <2>2, <2>3, <2>4, <1>1, <1>2 DEF SlotNotMissed, LaterOf
  <2>7. sendEvent' # NoEvent
    BY <2>4 DEF NoEvent
  <2> QED
    BY <2>3, <2>4, <2>5, <2>6, <2>7, ZenonT(60) DEF EventXorRetry, HasWakeup
<1>4. CASE outcome = "held"
  <2>1. PICK when \in 0..snoopLatency :
          sendEvent' = LaterOf(curTick + when, curTick + 1)
    BY <1>4 DEF endSend
  <2>2. UNCHANGED readyTime /\ waitingOnRetry' = FALSE
    BY <1>4, ZenonT(60) DEF endSend
  <2>3. /\ sendEvent' \in Nat /\ sendEvent' > curTick
        /\ sendEvent' <= LaterOf(curTick + snoopLatency, curTick + 1)
    BY <2>1, <1>1, <1>2 DEF LaterOf
  <2>4. NextSlot \in Nat /\ NextSlot > curTick
    BY <1>2, SlotAfterNow
  <2>5. SlotNotMissed'
    BY <2>2, <2>3, <2>4, <1>1, <1>2 DEF SlotNotMissed, LaterOf
  <2>6. sendEvent' # NoEvent
    BY <2>3 DEF NoEvent
  <2> QED
    BY <2>2, <2>3, <2>5, <2>6, <1>2, ZenonT(60) DEF EventXorRetry, HasWakeup
<1>5. CASE outcome = "refused"
  BY <1>5, <1>2, ZenonT(60) DEF endSend, EventXorRetry, SlotNotMissed, HasWakeup
<1> QED
  BY <1>3, <1>4, <1>5, ZenonT(60) DEF Outcome

\* A packet of getPacket is near an access, as far as the buffer is accurate.
LEMMA GetPacketNear ==
    ASSUME TypeOK, HoldsLatestAccesses, NEW pkt \in getPacket
    PROVE  /\ pkt \in [addr : Nat, domainID : DomainID]
           /\ \E i \in 1..Len(notified) :
                /\ WindowBase(pkt.addr) = WindowBase(notified[i].addr)
                /\ pkt.addr % blkSize = 0
                /\ pkt.domainID = notified[i].domainID
<1>1. PICK i \in 1..Len(shb), k \in 0..(blkNum - 1) :
        pkt = [addr |-> WindowBase(shb[i].addr) + k * blkSize,
               domainID |-> shb[i].domainID]
  BY DEF getPacket
<1>2. shb[i].addr \in Nat /\ shb[i].domainID \in DomainID
  <2>1. shb[i] \in shbReqInfo
    BY DEF TypeOK
  <2> QED
    BY <2>1, ZenonT(60) DEF shbReqInfo
<1>3. i \in 1..Len(notified) /\ notified[i].addr \in Nat
  <2>1. i \in 1..Len(notified)
    BY ZenonT(60) DEF HoldsLatestAccesses
  <2>2. notified[i] \in Access
    BY <2>1 DEF TypeOK
  <2> QED
    BY <2>1, <2>2, SHBAssumption, ZenonT(60) DEF Access
<1>4. /\ pkt.addr \in Nat
      /\ WindowBase(pkt.addr) = WindowBase(shb[i].addr)
      /\ pkt.addr % blkSize = 0
  BY <1>1, <1>2, BlockOfWindow, ZenonT(60)
<1>5. WindowBase(shb[i].addr) = WindowBase(notified[i].addr)
  <2>1. WindowBase(AlignAddr(notified[i].addr)) = WindowBase(notified[i].addr)
    BY <1>3, WindowOfBlock, ZenonT(60)
  <2>2. shb[i].addr = AlignAddr(notified[i].addr)
    <3>1. /\ shb[i].addr % blkSize = 0
          /\ shb[i].addr \div blkSize = notified[i].addr \div blkSize
      BY ZenonT(60) DEF HoldsLatestAccesses
    <3> QED
      BY <3>1, <1>2, <1>3, SameBlock, ZenonT(60)
  <2> QED
    BY <2>1, <2>2, ZenonT(60)
<1>6. pkt.domainID = notified[i].domainID /\ pkt.domainID \in DomainID
  BY <1>1, <1>2, ZenonT(60) DEF HoldsLatestAccesses
<1> QED
  BY <1>1, <1>3, <1>4, <1>5, <1>6, ZenonT(60)

LEMMA SendStep ==
    ASSUME SHBInv, sendDeferredPacket
    PROVE  SHBInv' /\ HasWakeup'
<1> USE DEF SHBInv
<1>1. UNCHANGED <<curTick, shb, notified>>
  BY ZenonT(60) DEF sendDeferredPacket
<1>2. curTick \in Nat
  BY ZenonT(60) DEF TypeOK
<1>3. HoldsLatestAccesses'
  BY <1>1, ZenonT(60) DEF HoldsLatestAccesses
<1>4. PICK outcome \in Outcome :
        /\ endSend(outcome)
        /\ misses' \in Seq(Nat) /\ outstanding' \in Nat
        /\ pfPkt' \in getPacket \cup {NoPkt}
  <2>1. misses \in Seq(Nat) /\ outstanding \in Nat
    BY ZenonT(60) DEF TypeOK
  <2>2. ASSUME NEW outcome \in Outcome, sendMiss(outcome)
        PROVE  /\ misses' \in Seq(Nat) /\ outstanding' \in Nat
               /\ endSend(outcome) /\ pfPkt' = NoPkt
    BY <2>1, <2>2 DEF sendMiss, missReady
  <2>3. ASSUME NEW outcome \in Outcome, sendPrefetch(outcome)
        PROVE  /\ misses' \in Seq(Nat) /\ outstanding' \in Nat
               /\ endSend(outcome) /\ pfPkt' \in getPacket
    BY <2>1, <2>3, <1>2 DEF sendPrefetch
  <2>4. ASSUME sendNothing
        PROVE  /\ misses' \in Seq(Nat) /\ outstanding' \in Nat /\ endSend("accepted")
               /\ pfPkt' \in getPacket \cup {NoPkt} /\ "accepted" \in Outcome
    BY <2>1, <2>4 DEF sendNothing, Outcome
  <2> QED
    BY <2>2, <2>3, <2>4, ZenonT(60) DEF sendDeferredPacket
<1>5. misses' \in Seq(Nat) /\ outstanding' \in Nat
  BY <1>4
<1>6. /\ pfPkt' \in [addr : Nat, domainID : DomainID] \cup {NoPkt}
      /\ PrefetchesNearAccess'
  BY <1>1, <1>4, GetPacketNear, ZenonT(60) DEF PrefetchesNearAccess, WindowBase
<1>7. /\ readyTime' \in Nat /\ waitingOnRetry' \in BOOLEAN
      /\ sendEvent' \in Nat \cup {NoEvent}
      /\ EventXorRetry' /\ SlotNotMissed' /\ HasWakeup'
  BY <1>1, <1>4, <1>5, EndSendStep, ZenonT(60)
<1>8. TypeOK'
  BY <1>1, <1>5, <1>6, <1>7, ZenonT(60) DEF TypeOK
<1>9. SentWakes'
  BY <1>7 DEF SentWakes
<1> QED
  BY <1>3, <1>6, <1>7, <1>8, <1>9, ZenonT(60)

\* A response finds the queue awake, and can only bring its event forward.
LEMMA RecvTimingRespStep ==
    ASSUME SHBInv, NEW deferred \in BOOLEAN, NEW mayPrefetch \in BOOLEAN,
           recvTimingResp(deferred, mayPrefetch)
    PROVE  SHBInv' /\ HasWakeup'
<1> USE DEF SHBInv
<1>1. /\ UNCHANGED <<curTick, shb, waitingOnRetry, notified>>
      /\ outstanding > 0 /\ outstanding' = outstanding - 1 /\ pfPkt' = NoPkt
  BY ZenonT(60) DEF recvTimingResp
<1>2. /\ curTick \in Nat /\ readyTime \in Nat /\ misses \in Seq(Nat)
      /\ outstanding \in Nat /\ sendEvent \in Nat \cup {NoEvent}
      /\ waitingOnRetry \in BOOLEAN /\ NextSlot' = NextSlot
      /\ forwardLatency \in Nat /\ payloadDelay \in Nat /\ snoopLatency \in Nat
  BY <1>1, SHBAssumption, ZenonT(60) DEF TypeOK, NextSlot, issue_tick
<1>3. HasWakeup
  BY <1>1 DEF SentWakes
<1>4. HoldsLatestAccesses' /\ PrefetchesNearAccess'
  BY <1>1, ZenonT(60) DEF HoldsLatestAccesses, PrefetchesNearAccess
\* the event, when it is there, is at most as late as before
<1>5. /\ misses' \in Seq(Nat) /\ readyTime' \in Nat /\ readyTime' >= readyTime
      /\ waitingOnRetry => sendEvent' = sendEvent
      /\ ~waitingOnRetry => /\ sendEvent' \in Nat /\ curTick <= sendEvent'
                            /\ sendEvent' <= sendEvent
  <2>0. ~waitingOnRetry => sendEvent \in Nat /\ sendEvent # NoEvent /\ curTick <= sendEvent
    BY <1>2, <1>3, ZenonT(60) DEF HasWakeup, NoEvent, SlotNotMissed
  <2>00. sendEvent # NoEvent => curTick <= sendEvent
    BY ZenonT(60) DEF SlotNotMissed
  <2>1. CASE deferred
    <3>1. PICK when \in curTick..(curTick + forwardLatency) : markPending(when)
      BY <2>1, ZenonT(60) DEF recvTimingResp
    <3>2. when \in Nat
      BY <1>2
    <3>3. misses' \in Seq(Nat)
      BY <3>1, <3>2, <1>2 DEF markPending
    <3>4. PICK delay \in 0..payloadDelay :
            sendEvent' = schedSendEvent(sendEvent, curTick + delay)
      BY <2>1, ZenonT(60) DEF recvTimingResp
    <3>5. curTick + delay \in Nat
      BY <1>2
    <3>6. readyTime' = readyTime
      BY <2>1, ZenonT(60) DEF recvTimingResp
    <3>7. /\ waitingOnRetry => sendEvent' = sendEvent
          /\ ~waitingOnRetry => /\ sendEvent' \in Nat /\ curTick <= sendEvent'
                                /\ sendEvent' <= sendEvent
      BY <2>0, <2>00, <3>4, <3>5, <1>2, SchedFacts, ZenonT(60)
    <3> QED
      BY <3>3, <3>6, <3>7, <1>2
  <2>2. CASE ~deferred /\ mayPrefetch
    <3>1. PICK t \in nextPrefetchReadyTime :
            drawReadyTime(t) /\ sendEvent' = schedSendEvent(sendEvent, t)
      BY <2>2, ZenonT(60) DEF recvTimingResp
    <3>2. t \in Nat /\ (shbIssue = 2 => t >= readyTime)
      BY <1>2, ReadyTimeLater, ZenonT(60)
    <3>3. readyTime' \in Nat /\ readyTime' >= readyTime
      BY <3>1, <3>2, <1>2 DEF drawReadyTime
    <3>4. /\ waitingOnRetry => sendEvent' = sendEvent
          /\ ~waitingOnRetry => /\ sendEvent' \in Nat /\ curTick <= sendEvent'
                                /\ sendEvent' <= sendEvent
      BY <2>0, <2>00, <3>1, <3>2, <1>2, SchedFacts, ZenonT(60)
    <3>5. misses' = misses
      BY <2>2, ZenonT(60) DEF recvTimingResp
    <3> QED
      BY <3>3, <3>4, <3>5, <1>2, ZenonT(60)
  <2>3. CASE ~deferred /\ ~mayPrefetch
    <3>1. UNCHANGED <<misses, sendEvent, readyTime>>
      BY <2>3, ZenonT(60) DEF recvTimingResp
    <3> QED
      BY <3>1, <2>0, <1>2
  <2> QED
    BY <2>1, <2>2, <2>3, ZenonT(60)
<1>6. HasWakeup' /\ EventXorRetry'
  BY <1>1, <1>3, <1>5 DEF HasWakeup, EventXorRetry, NoEvent
<1>7. TypeOK'
  BY <1>1, <1>2, <1>5 DEF TypeOK
<1>8. SlotNotMissed'
  <2>1. CASE waitingOnRetry
    BY <2>1, <1>1, <1>5, ZenonT(60) DEF EventXorRetry, SlotNotMissed
  <2>2. CASE ~waitingOnRetry
    <3>1. sendEvent \in Nat /\ sendEvent # NoEvent
      BY <2>2, <1>2, <1>3, ZenonT(60) DEF HasWakeup
    <3>2. NextSlot \in Nat
      BY <1>2, SlotAfterNow, ZenonT(60)
    <3> QED
      BY <2>2, <3>1, <3>2, <1>1, <1>2, <1>5 DEF SlotNotMissed, LaterOf
  <2> QED
    BY <2>1, <2>2, <1>2, ZenonT(60)
<1> QED
  BY <1>4, <1>6, <1>7, <1>8, ZenonT(60) DEF SentWakes

LEMMA AdvanceStep ==
    ASSUME SHBInv, advance
    PROVE  SHBInv'
<1> USE DEF SHBInv
<1>1. /\ curTick' = curTick + 1 /\ pfPkt' = NoPkt /\ sendEvent # curTick
      /\ UNCHANGED <<shb, readyTime, sendEvent, waitingOnRetry, misses, outstanding,
                     notified>>
  BY ZenonT(60) DEF advance
<1>2. curTick \in Nat /\ readyTime \in Nat /\ sendEvent \in Nat \cup {NoEvent}
  BY ZenonT(60) DEF TypeOK
<1>3. TypeOK'
  BY <1>1, <1>2 DEF TypeOK
<1>4. HoldsLatestAccesses' /\ PrefetchesNearAccess' /\ EventXorRetry' /\ SentWakes'
  BY <1>1, ZenonT(60) DEF HoldsLatestAccesses, PrefetchesNearAccess, EventXorRetry,
     SentWakes, HasWakeup
<1>5. SlotNotMissed'
  <2>1. NextSlot <= NextSlot'
    <3>1. issue_tick \in Nat \ {0}
      BY SHBAssumption, Z3T(60) DEF issue_tick
    <3> QED
      BY <3>1, <1>1, <1>2, SlotsMonotone, ZenonT(60) DEF NextSlot, issue_tick
  <2>2. NextSlot \in Nat /\ NextSlot' \in Nat
    <3>1. NextSlot \in Nat
      BY <1>2, SlotAfterNow
    <3>2. curTick' \in Nat
      BY <1>1, <1>2
    <3>3. issue_tick \in Nat \ {0} /\ NextSlot' = curTick' - (curTick' % issue_tick) + issue_tick
      BY SHBAssumption, Z3T(60) DEF issue_tick, NextSlot
    <3>4. NextSlot' \in Nat
      BY <3>2, <3>3, NextMultiple, ZenonT(60)
    <3> QED
      BY <3>1, <3>4
  <2>3. snoopLatency \in Nat
    BY SHBAssumption, ZenonT(60)
  <2> QED
    BY <1>1, <1>2, <2>1, <2>2, <2>3 DEF SlotNotMissed, LaterOf, NoEvent
<1> QED
  BY <1>3, <1>4, <1>5

\* No step breaks the invariant of the buffer and its send event.
LEMMA SHBInvStep == SHBInv /\ [Next]_vars => SHBInv'
<1> SUFFICES ASSUME SHBInv, [Next]_vars PROVE SHBInv'
  OBVIOUS
<1>1. ASSUME NEW p \in Access, NEW isWrite \in BOOLEAN, NEW isMiss \in BOOLEAN,
             recvTimingReq(p, isWrite, isMiss)
      PROVE  SHBInv'
  BY <1>1, RecvTimingReqStep
<1>2. ASSUME NEW p \in Access, recvSHBinfo(p)
      PROVE  SHBInv'
  <2> USE <1>2 DEF SHBInv
  <2>1. /\ shb' \in Seq(shbReqInfo) /\ Len(shb') <= shbSize
        /\ notified' \in Seq(Access) /\ HoldsLatestAccesses'
    BY NotifyKeepsHistory, ZenonT(60) DEF recvSHBinfo
  <2>2. TypeOK' /\ PrefetchesNearAccess'
    BY <2>1, ZenonT(60) DEF recvSHBinfo, TypeOK, PrefetchesNearAccess
  <2>3. EventXorRetry' /\ SlotNotMissed' /\ SentWakes'
    BY ZenonT(60) DEF recvSHBinfo, EventXorRetry, SlotNotMissed, NextSlot,
       issue_tick, SentWakes, HasWakeup
  <2> QED
    BY <2>1, <2>2, <2>3, ZenonT(60)
<1>3. CASE processSendEvent
  BY <1>3, SendStep DEF processSendEvent
<1>4. CASE retry
  BY <1>4, SendStep DEF retry
<1>5. CASE advance
  BY <1>5, AdvanceStep
<1>6. ASSUME NEW deferred \in BOOLEAN, NEW mayPrefetch \in BOOLEAN,
             recvTimingResp(deferred, mayPrefetch)
      PROVE  SHBInv'
  BY <1>6, RecvTimingRespStep
<1>7. CASE UNCHANGED vars
  BY <1>7, ZenonT(60) DEF SHBInv, TypeOK, HoldsLatestAccesses, PrefetchesNearAccess,
     EventXorRetry, SlotNotMissed, NextSlot, issue_tick, SentWakes, HasWakeup, vars
<1> QED
  BY <1>1, <1>2, <1>3, <1>4, <1>5, <1>6, <1>7, ZenonT(60) DEF Next

\* The buffer holds the latest accesses, every prefetch is near one of them,
\* and the send event stays within one issue slot: for every configuration.
THEOREM SHBSafe == Spec => []SHBInv
<1>1. Init => SHBInv
  <2> SUFFICES ASSUME Init PROVE SHBInv
    OBVIOUS
  <2>1. TypeOK
    <3>1. shb \in Seq(shbReqInfo) /\ misses \in Seq(Nat) /\ notified \in Seq(Access)
      BY DEF Init
    <3>2. Len(shb) <= shbSize
      BY SHBAssumption DEF Init
    <3>3. waitingOnRetry \in BOOLEAN
      BY ZenonT(60) DEF Init
    <3>4. curTick \in Nat /\ readyTime \in Nat /\ outstanding \in Nat
      BY DEF Init
    <3> QED
      BY <3>1, <3>2, <3>3, <3>4, ZenonT(60) DEF Init, TypeOK
  <2>2. HoldsLatestAccesses
    BY DEF Init, HoldsLatestAccesses
  <2>3. PrefetchesNearAccess /\ SlotNotMissed /\ EventXorRetry
    BY ZenonT(60) DEF Init, PrefetchesNearAccess, SlotNotMissed, EventXorRetry
  <2>4. SentWakes
    BY DEF Init, SentWakes
  <2> QED
    BY <2>1, <2>2, <2>3, <2>4 DEF SHBInv
<1>2. SHBInv /\ [Next]_vars => SHBInv'
  BY SHBInvStep
<1> QED
  BY <1>1, <1>2, PTL DEF Spec

\* The buffer never exceeds shbSize and the state is well typed.
THEOREM SHBTyped == Spec => []TypeOK
  BY SHBSafe, PTL DEF SHBInv

\* The buffer is the last shbSize accesses notified, whatever its size.
THEOREM SHBHolds == Spec => []HoldsLatestAccesses
  BY SHBSafe, PTL DEF SHBInv

\* The request queue never has a send event while it waits for a retry.
THEOREM SHBEventXorRetry == Spec => []EventXorRetry
  BY SHBSafe, PTL DEF SHBInv

\* Prefetches stay in the window and the domain of a recent access.
THEOREM SHBNear == Spec => []PrefetchesNearAccess
  BY SHBSafe, PTL DEF SHBInv

\* Demand traffic never pushes the prefetcher's next run beyond its slot.
THEOREM SHBSlot == Spec => []SlotNotMissed
  BY SHBSafe, PTL DEF SHBInv

\* No step loses the queue's wake-up.
THEOREM SHBWakeup == Spec => WakeupNotLost
<1>1. SHBInv /\ [Next]_vars => [HasWakeup => HasWakeup']_vars
  <2> SUFFICES ASSUME SHBInv, Next, HasWakeup PROVE HasWakeup'
    BY ZenonT(60) DEF HasWakeup, vars
  <2>1. ASSUME NEW p \in Access, NEW isWrite \in BOOLEAN, NEW isMiss \in BOOLEAN,
               recvTimingReq(p, isWrite, isMiss)
        PROVE  HasWakeup'
    <3>1. SHBInv'
      BY <2>1, RecvTimingReqStep
    <3>2. CASE waitingOnRetry
      BY <2>1, <3>2, ZenonT(60) DEF recvTimingReq, HasWakeup
    <3>3. CASE ~waitingOnRetry
      <4>1. sendEvent' # NoEvent
        BY <2>1, <3>3, RecvSchedules
      <4> QED
        BY <4>1 DEF HasWakeup
    <3> QED
      BY <3>2, <3>3
  <2>2. ASSUME NEW p \in Access, recvSHBinfo(p)
        PROVE  HasWakeup'
    BY <2>2 DEF recvSHBinfo, HasWakeup
  <2>3. CASE processSendEvent \/ retry
    BY <2>3, SendStep DEF processSendEvent, retry
  <2>4. CASE advance
    BY <2>4 DEF advance, HasWakeup
  <2>5. ASSUME NEW deferred \in BOOLEAN, NEW mayPrefetch \in BOOLEAN,
               recvTimingResp(deferred, mayPrefetch)
        PROVE  HasWakeup'
    BY <2>5, RecvTimingRespStep
  <2> QED
    BY <2>1, <2>2, <2>3, <2>4, <2>5, ZenonT(60) DEF Next
<1> QED
  BY <1>1, SHBSafe, PTL DEF Spec, WakeupNotLost

-----------------------------------------------------------------------------
(* Misses waiting for their send. *)

\* How long a snoop response, a payload or the next cycle may hold a miss.
HoldBound == LaterOf(1, LaterOf(snoopLatency, payloadDelay))

\* What MissWakesQueue needs to be inductive: a waiting miss has a wake-up.
MissInv ==
    /\ SHBInv
    /\ misses # <<>> => HasWakeup
    /\ MissWakesQueue

LEMMA HoldBoundFacts ==
    /\ HoldBound \in Nat /\ 1 <= HoldBound
    /\ snoopLatency <= HoldBound /\ payloadDelay <= HoldBound
    /\ MissWakesQueue <=> (misses # <<>> /\ sendEvent # NoEvent =>
                             sendEvent <= Head(misses) \/ sendEvent <= curTick + HoldBound)
  BY SHBAssumption DEF HoldBound, LaterOf, MissWakesQueue

\* A new miss goes behind the waiting ones and schedules its own send.
LEMMA RecvTimingReqWakes ==
    ASSUME MissInv, NEW p \in Access, NEW isWrite \in BOOLEAN,
           NEW isMiss \in BOOLEAN, recvTimingReq(p, isWrite, isMiss)
    PROVE  MissInv'
<1> USE DEF MissInv
<1>1. SHBInv'
  BY RecvTimingReqStep
<1>2. /\ curTick \in Nat /\ misses \in Seq(Nat) /\ readyTime \in Nat
      /\ sendEvent \in Nat \cup {NoEvent} /\ waitingOnRetry \in BOOLEAN
      /\ forwardLatency \in Nat
      /\ sendEvent # NoEvent => curTick <= sendEvent
      /\ waitingOnRetry => sendEvent = NoEvent
      /\ UNCHANGED <<curTick, waitingOnRetry>>
  BY SHBAssumption, ZenonT(60) DEF SHBInv, TypeOK, SlotNotMissed, EventXorRetry,
     recvTimingReq
<1> DEFINE w == curTick + forwardLatency
           ev == IF isMiss THEN schedSendEvent(sendEvent, w) ELSE sendEvent
<1>3. PICK t \in nextPrefetchReadyTime : sendEvent' = schedSendEvent(ev, t)
  BY ZenonT(60) DEF recvTimingReq
<1>4. t \in Nat /\ w \in Nat
  BY <1>2, ReadyTimeLater
<1>5. CASE waitingOnRetry
  <2>1. sendEvent' = NoEvent
    BY <1>2, <1>3, <1>5, ZenonT(60) DEF schedSendEvent
  <2> QED
    BY <2>1, <1>1, <1>2, <1>5, ZenonT(60) DEF HasWakeup, MissWakesQueue
<1>6. CASE ~waitingOnRetry
  <2>1. /\ ev \in Nat \cup {NoEvent} /\ (ev # NoEvent => curTick <= ev)
        /\ sendEvent # NoEvent => ev # NoEvent /\ ev <= sendEvent
        /\ isMiss => ev # NoEvent /\ ev <= LaterOf(w, curTick + 1)
    BY <1>2, <1>4, <1>6 DEF schedSendEvent, NoEvent, EarlierOf, LaterOf
  <2>2. sendEvent' \in Nat /\ (ev # NoEvent => sendEvent' <= ev)
    <3> HIDE DEF ev
    <3> QED
      BY <1>2, <1>3, <1>4, <1>6, <2>1, SchedFacts, ZenonT(60)
  <2> HIDE DEF ev
  <2>3. misses' # <<>> => misses # <<>> \/ isMiss
    BY ZenonT(60) DEF recvTimingReq
  <2>4. HasWakeup'
    BY <2>2 DEF HasWakeup, NoEvent
  <2>5. CASE misses # <<>>
    <3>1. Head(misses') = Head(misses) /\ Head(misses) \in Nat
      BY <2>5, <1>2, <1>4 DEF recvTimingReq
    <3>2. sendEvent # NoEvent
      BY <2>5, <1>6 DEF HasWakeup
    <3>3. sendEvent' <= sendEvent /\ sendEvent \in Nat
      BY <3>2, <2>1, <2>2, <1>2
    <3>4. sendEvent <= Head(misses) \/ sendEvent <= curTick + HoldBound
      BY <2>5, <3>2, HoldBoundFacts, ZenonT(60)
    <3>5. sendEvent' <= Head(misses') \/ sendEvent' <= curTick' + HoldBound
      BY <3>1, <3>3, <3>4, <2>2, <1>2, HoldBoundFacts
    <3> QED
      BY <3>5, <1>1, <2>4, ZenonT(60) DEF MissWakesQueue, HoldBound
  <2>6. CASE misses = <<>> /\ isMiss
    <3>1. Head(misses') = w
      BY <2>6, <1>2, <1>4 DEF recvTimingReq
    <3>2. sendEvent' <= LaterOf(w, curTick + 1)
      BY <2>6, <2>1, <2>2, <1>2, <1>4 DEF LaterOf
    <3>3. sendEvent' <= w \/ sendEvent' <= curTick' + HoldBound
      BY <3>2, <2>2, <1>2, <1>4, HoldBoundFacts DEF LaterOf
    <3> QED
      BY <3>1, <3>3, <1>1, <2>4, ZenonT(60) DEF MissWakesQueue, HoldBound
  <2>7. CASE misses = <<>> /\ ~isMiss
    BY <2>7, <2>3, <1>1, ZenonT(60) DEF MissWakesQueue
  <2> QED
    BY <2>5, <2>6, <2>7, ZenonT(60)
<1> QED
  BY <1>2, <1>5, <1>6, ZenonT(60)

\* After a send the event is at the next waiting miss or within the bound.
LEMMA SendWakes ==
    ASSUME MissInv, sendDeferredPacket
    PROVE  MissInv'
<1> USE DEF MissInv
<1>1. SHBInv' /\ HasWakeup'
  BY SendStep
<1>2. PICK outcome \in Outcome : endSend(outcome)
  BY ZenonT(60) DEF sendDeferredPacket, sendMiss, sendPrefetch, sendNothing, Outcome
<1>3. /\ curTick \in Nat /\ readyTime \in Nat /\ misses' \in Seq(Nat)
      /\ curTick' = curTick /\ snoopLatency \in Nat
  BY <1>1, SHBAssumption, ZenonT(60) DEF SHBInv, TypeOK, sendDeferredPacket
<1>4. CASE outcome = "accepted"
  <2>1. PICK t \in nextPrefetchReadyTime :
          sendEvent' = LaterOf(nextQueueReadyTime(misses', t), curTick + 1)
    BY <1>2, <1>4 DEF endSend
  <2>2. t \in Nat
    BY <1>3, ReadyTimeLater
  <2>3. misses' # <<>> => Head(misses') \in Nat
    BY <1>3
  <2>4. misses' # <<>> => \/ sendEvent' <= Head(misses')
                          \/ sendEvent' <= curTick' + HoldBound
    BY <2>1, <2>2, <2>3, <1>3, HoldBoundFacts
       DEF nextQueueReadyTime, EarlierOf, LaterOf
  <2> QED
    BY <2>4, <1>1, ZenonT(60) DEF MissWakesQueue, HoldBound
<1>5. CASE outcome = "held"
  <2>1. PICK when \in 0..snoopLatency :
          sendEvent' = LaterOf(curTick + when, curTick + 1)
    BY <1>2, <1>5 DEF endSend
  <2>2. sendEvent' <= curTick' + HoldBound
    BY <2>1, <1>3, HoldBoundFacts DEF LaterOf
  <2> QED
    BY <2>2, <1>1, ZenonT(60) DEF MissWakesQueue, HoldBound
<1>6. CASE outcome = "refused"
  BY <1>1, <1>2, <1>6 DEF endSend, MissWakesQueue
<1> QED
  BY <1>4, <1>5, <1>6, ZenonT(60) DEF Outcome

\* A response may put a miss back at the head of the queue: the event it
\* schedules then is one payload away.
LEMMA RecvTimingRespWakes ==
    ASSUME MissInv, NEW deferred \in BOOLEAN, NEW mayPrefetch \in BOOLEAN,
           recvTimingResp(deferred, mayPrefetch)
    PROVE  MissInv'
<1> USE DEF MissInv
<1>1. SHBInv' /\ HasWakeup'
  BY RecvTimingRespStep
<1>2. /\ curTick \in Nat /\ readyTime \in Nat /\ misses \in Seq(Nat)
      /\ sendEvent \in Nat \cup {NoEvent} /\ waitingOnRetry \in BOOLEAN
      /\ sendEvent' \in Nat \cup {NoEvent} /\ payloadDelay \in Nat
      /\ sendEvent # NoEvent => curTick <= sendEvent
      /\ waitingOnRetry' => sendEvent' = NoEvent
      /\ UNCHANGED <<curTick, waitingOnRetry>>
  BY <1>1, SHBAssumption, ZenonT(60) DEF SHBInv, TypeOK, SlotNotMissed,
     EventXorRetry, recvTimingResp
<1>3. CASE waitingOnRetry
  BY <1>1, <1>2, <1>3, ZenonT(60) DEF MissWakesQueue
<1>4. CASE ~waitingOnRetry /\ deferred
  <2>1. PICK delay \in 0..payloadDelay :
          sendEvent' = schedSendEvent(sendEvent, curTick + delay)
    BY <1>4, ZenonT(60) DEF recvTimingResp
  <2>2. sendEvent' <= LaterOf(curTick + delay, curTick + 1)
    <3>1. curTick + delay \in Nat
      BY <1>2
    <3> QED
      BY <3>1, <2>1, <1>2, <1>4, SchedFacts, ZenonT(60)
  <2>3. sendEvent' <= curTick' + HoldBound
    BY <2>2, <1>1, <1>2, <1>4, HoldBoundFacts DEF LaterOf, HasWakeup
  <2> QED
    BY <2>3, <1>1, ZenonT(60) DEF MissWakesQueue, HoldBound
<1>5. CASE ~waitingOnRetry /\ ~deferred
  <2>1. misses' = misses
    BY <1>5, ZenonT(60) DEF recvTimingResp
  <2>2. sendEvent # NoEvent => sendEvent' \in Nat /\ sendEvent' <= sendEvent
    <3>1. CASE mayPrefetch
      <4>1. PICK t \in nextPrefetchReadyTime : sendEvent' = schedSendEvent(sendEvent, t)
        BY <1>5, <3>1, ZenonT(60) DEF recvTimingResp
      <4> QED
        BY <4>1, <1>2, <1>5, ReadyTimeLater, SchedFacts, ZenonT(60)
    <3>2. CASE ~mayPrefetch
      BY <1>2, <1>5, <3>2 DEF recvTimingResp
    <3> QED
      BY <3>1, <3>2
  <2>3. CASE misses = <<>>
    BY <2>1, <2>3, <1>1, ZenonT(60) DEF MissWakesQueue
  <2>4. CASE misses # <<>>
    <3>1. sendEvent # NoEvent
      BY <2>4, <1>5 DEF HasWakeup
    <3>2. sendEvent <= Head(misses) \/ sendEvent <= curTick + HoldBound
      BY <2>4, <3>1, HoldBoundFacts, ZenonT(60)
    <3>3. sendEvent' <= Head(misses') \/ sendEvent' <= curTick' + HoldBound
      <4>1. Head(misses) \in Nat /\ sendEvent \in Nat
        BY <2>4, <3>1, <1>2
      <4> QED
        BY <4>1, <3>1, <3>2, <2>1, <2>2, <1>2, HoldBoundFacts
    <3> QED
      BY <3>3, <1>1, ZenonT(60) DEF MissWakesQueue, HoldBound
  <2> QED
    BY <2>3, <2>4, ZenonT(60)
<1> QED
  BY <1>2, <1>3, <1>4, <1>5, ZenonT(60)

\* A waiting miss is sent at its ready time, or within the time a snoop
\* response or a payload holds the queue: for every set of latencies.
THEOREM SHBMissWakes == Spec => []MissWakesQueue
<1>1. Init => misses = <<>>
  BY DEF Init
<1>2. SHBInv /\ MissInv /\ [Next]_vars => MissInv'
  <2> SUFFICES ASSUME MissInv, [Next]_vars PROVE MissInv'
    OBVIOUS
  <2>1. ASSUME NEW p \in Access, NEW isWrite \in BOOLEAN, NEW isMiss \in BOOLEAN,
               recvTimingReq(p, isWrite, isMiss)
        PROVE  MissInv'
    BY <2>1, RecvTimingReqWakes
  <2>2. ASSUME NEW p \in Access, recvSHBinfo(p), SHBInv'
        PROVE  MissInv'
    BY <2>2, ZenonT(60) DEF recvSHBinfo, MissInv, MissWakesQueue, HasWakeup
  <2>3. CASE processSendEvent \/ retry
    BY <2>3, SendWakes DEF processSendEvent, retry
  <2>4. CASE advance /\ SHBInv'
    <3>1. /\ curTick \in Nat /\ sendEvent \in Nat \cup {NoEvent}
          /\ curTick' = curTick + 1
          /\ UNCHANGED <<misses, sendEvent, waitingOnRetry>>
      BY <2>4, ZenonT(60) DEF advance, MissInv, SHBInv, TypeOK
    <3>2. misses # <<>> /\ sendEvent # NoEvent =>
             sendEvent <= Head(misses) \/ sendEvent <= curTick + HoldBound
      BY HoldBoundFacts, ZenonT(60) DEF MissInv
    <3>3. misses # <<>> /\ sendEvent # NoEvent =>
             sendEvent <= Head(misses) \/ sendEvent <= curTick' + HoldBound
      BY <3>1, <3>2, HoldBoundFacts
    <3> QED
      BY <2>4, <3>1, <3>3, ZenonT(60) DEF MissInv, MissWakesQueue, HoldBound,
         HasWakeup
  <2>5. ASSUME NEW deferred \in BOOLEAN, NEW mayPrefetch \in BOOLEAN,
               recvTimingResp(deferred, mayPrefetch)
        PROVE  MissInv'
    BY <2>5, RecvTimingRespWakes
  <2>6. CASE UNCHANGED vars /\ SHBInv'
    BY <2>6, ZenonT(60) DEF vars, MissInv, MissWakesQueue, HasWakeup
  <2>7. SHBInv'
    BY SHBInvStep DEF MissInv
  <2> QED
    BY <2>1, <2>2, <2>3, <2>4, <2>5, <2>6, <2>7, ZenonT(60) DEF Next
<1>3. SHBInv /\ misses = <<>> => MissInv
  BY DEF MissInv, MissWakesQueue
<1>4. MissInv => MissWakesQueue
  BY DEF MissInv
<1> QED
  BY <1>1, <1>2, <1>3, <1>4, SHBSafe, PTL DEF Spec
=============================================================================

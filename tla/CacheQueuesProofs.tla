------------------------- MODULE CacheQueuesProofs -------------------------
(***************************************************************************)
(* Proofs about CacheQueues for every number of MSHRs, write buffers and   *)
(* targets: the mask of blocking causes is exact, no retry is lost, no     *)
(* assert fails, and the reserve of the write buffer suffices.             *)
(***************************************************************************)
EXTENDS CacheQueues, FiniteSetTheorems, TLAPS

\* The provers of the leaves that name none, in the order in which they are tried.
USE SMTT(60), Z3T(60), ZenonT(60)

\* What the port is at all times, whatever the causes are.
Wired(p) ==
    /\ p \in PortType
    /\ p.blocked <=> p.mask # {}
    /\ p.mustSendRetry => (p.sendRetryEvent <=> ~p.blocked)
    /\ p.sendRetryEvent => p.mustSendRetry
    /\ ~p.failed

\* Every MSHR may still put one entry into the write buffer, and there is room
\* for it: the strengthening that makes WriteBufferFits inductive.
ReserveCovers ==
    ~shared => wbAllocated + Cardinality(Allocated(numTargets))
                   <= writeBuffers + Cardinality(Mshr)

Causes(p, nt, n, ntm) ==
    /\ "NoMSHRs" \in p.mask <=> mshrsFull(nt)
    /\ "NoWBBuffers" \in p.mask <=> wbFull(n)
    /\ "NoTargets" \in p.mask <=> ntm # None
    /\ ntm # None => nt[ntm] > 0

StateType ==
    /\ numTargets \in [Mshr -> Nat]
    /\ inService \subseteq Allocated(numTargets)
    /\ snoops \in [Mshr -> Nat]
    /\ wbAllocated \in Nat
    /\ noTargetMSHR \in Mshr \cup {None}
    /\ waiting \in BOOLEAN

QInv ==
    /\ StateType
    /\ Wired(port)
    /\ Causes(port, numTargets, wbAllocated, noTargetMSHR)
    /\ waiting => port.mustSendRetry
    /\ ReserveCovers

-----------------------------------------------------------------------------
(* The port. *)

\* Blocking for a cause adds it to the mask and keeps the port consistent
\* (setBlocked and the port's setBlocked).
LEMMA SetBlockedWired ==
    ASSUME NEW p, Wired(p), NEW c \in BlockedCause
    PROVE  /\ Wired(setBlocked(p, c))
           /\ setBlocked(p, c).mask = p.mask \cup {c}
           /\ setBlocked(p, c).mustSendRetry = p.mustSendRetry
<1>1. CASE p.mask = {}
    <2>1. setBlocked(p, c) =
             [mask |-> {c}, blocked |-> TRUE,
              mustSendRetry |-> p.mustSendRetry \/ p.sendRetryEvent,
              sendRetryEvent |-> FALSE, failed |-> p.failed \/ p.blocked]
        BY <1>1 DEF setBlocked
    <2>2. p.mustSendRetry \in BOOLEAN /\ p.sendRetryEvent \in BOOLEAN
        BY ZenonT(60) DEF Wired, PortType
    <2>3. (p.mustSendRetry \/ p.sendRetryEvent) = p.mustSendRetry
        BY <2>2, ZenonT(60) DEF Wired
    <2>4. (p.failed \/ p.blocked) = FALSE
        BY <1>1, ZenonT(60) DEF Wired
    <2>. QED  BY <2>1, <2>2, <2>3, <2>4, <1>1 DEF Wired, PortType
<1>2. CASE p.mask # {}
    <2>1. setBlocked(p, c) = [p EXCEPT !.mask = @ \cup {c}]
        BY <1>2, ZenonT(60) DEF setBlocked
    <2>. QED  BY <2>1, <1>2 DEF Wired, PortType
<1>. QED  BY <1>1, <1>2, ZenonT(60)

\* Clearing a cause that is set removes it and keeps the port consistent: the
\* port was blocked, so no retry event was scheduled.
LEMMA ClearBlockedWired ==
    ASSUME NEW p, Wired(p), NEW c \in p.mask
    PROVE  /\ Wired(clearBlocked(p, c))
           /\ clearBlocked(p, c).mask = p.mask \ {c}
           /\ clearBlocked(p, c).mustSendRetry = p.mustSendRetry
<1>0. p.blocked /\ (p.mustSendRetry => ~p.sendRetryEvent) /\ ~p.sendRetryEvent
    BY ZenonT(60) DEF Wired
<1>1. CASE p.mask \ {c} = {}
    <2>1. clearBlocked(p, c) =
             [mask |-> {}, blocked |-> FALSE,
              mustSendRetry |-> p.mustSendRetry,
              sendRetryEvent |-> p.mustSendRetry \/ p.sendRetryEvent,
              failed |-> p.failed \/ ~p.blocked
                         \/ (p.mustSendRetry /\ p.sendRetryEvent)]
        BY <1>1 DEF clearBlocked
    <2>2. p.mustSendRetry \in BOOLEAN
        BY ZenonT(60) DEF Wired, PortType
    <2>3. (p.mustSendRetry \/ p.sendRetryEvent) = p.mustSendRetry
        BY <2>2, <1>0
    <2>4. (p.failed \/ ~p.blocked \/ (p.mustSendRetry /\ p.sendRetryEvent)) = FALSE
        BY <1>0, ZenonT(60) DEF Wired
    <2>. QED  BY <2>1, <2>2, <2>3, <2>4, <1>1 DEF Wired, PortType
<1>2. CASE p.mask \ {c} # {}
    <2>1. clearBlocked(p, c) = [p EXCEPT !.mask = @ \ {c}]
        BY <1>2, ZenonT(60) DEF clearBlocked
    <2>. QED  BY <2>1, <1>2, <1>0, ZenonT(60) DEF Wired, PortType
<1>. QED  BY <1>1, <1>2, ZenonT(60)

-----------------------------------------------------------------------------
(* Counting MSHRs. *)

\* The MSHRs in use are a finite set, and the queue is full exactly when none
\* is free (Queue::isFull with no reserve).
LEMMA Counting ==
    ASSUME NEW nt
    PROVE  /\ IsFiniteSet(Allocated(nt))
           /\ Cardinality(Allocated(nt)) \in Nat /\ Cardinality(Mshr) \in Nat
           /\ Cardinality(Allocated(nt)) <= Cardinality(Mshr)
           /\ mshrsFull(nt) <=> Allocated(nt) = Mshr
<1>1. Allocated(nt) \in SUBSET Mshr  BY DEF Allocated
<1>2. IsFiniteSet(Mshr)  BY QueuesAssumption
<1>3. /\ IsFiniteSet(Allocated(nt))
      /\ Cardinality(Allocated(nt)) <= Cardinality(Mshr)
      /\ Cardinality(Mshr) = Cardinality(Allocated(nt)) => Mshr = Allocated(nt)
    BY <1>1, <1>2, FS_Subset, ZenonT(60)
<1>4. Cardinality(Allocated(nt)) \in Nat /\ Cardinality(Mshr) \in Nat
    BY <1>2, <1>3, FS_CardinalityType, ZenonT(60)
<1>. QED  BY <1>3, <1>4 DEF mshrsFull

\* Taking a free entry adds one to the count (MSHRQueue::allocate).
LEMMA CountAllocate ==
    ASSUME NEW nt \in [Mshr -> Nat], NEW m \in Mshr, nt[m] = 0,
           NEW k \in Nat, k > 0
    PROVE  /\ Allocated([nt EXCEPT ![m] = k]) = Allocated(nt) \cup {m}
           /\ Cardinality(Allocated([nt EXCEPT ![m] = k]))
                = Cardinality(Allocated(nt)) + 1
<1>1. Allocated([nt EXCEPT ![m] = k]) = Allocated(nt) \cup {m} /\ m \notin Allocated(nt)
    BY DEF Allocated
<1>2. IsFiniteSet(Allocated(nt))  BY Counting, ZenonT(60)
<1>. QED  BY <1>1, <1>2, FS_AddElement, ZenonT(60)

\* Freeing an entry takes one away (Queue::deallocate).
LEMMA CountFree ==
    ASSUME NEW nt \in [Mshr -> Nat], NEW m \in Mshr, nt[m] > 0
    PROVE  /\ Allocated([nt EXCEPT ![m] = 0]) = Allocated(nt) \ {m}
           /\ Cardinality(Allocated([nt EXCEPT ![m] = 0]))
                = Cardinality(Allocated(nt)) - 1
<1>1. Allocated([nt EXCEPT ![m] = 0]) = Allocated(nt) \ {m} /\ m \in Allocated(nt)
    BY DEF Allocated
<1>2. IsFiniteSet(Allocated(nt))  BY Counting, ZenonT(60)
<1>. QED  BY <1>1, <1>2, FS_RemoveElement, ZenonT(60)

\* Changing the number of targets of an entry in use frees and takes none
\* (allocateTarget, handleSnoop, a response that leaves targets).
LEMMA CountKeep ==
    ASSUME NEW nt \in [Mshr -> Nat], NEW m \in Mshr, nt[m] > 0,
           NEW k \in Nat, k > 0
    PROVE  Allocated([nt EXCEPT ![m] = k]) = Allocated(nt)
BY ZenonT(60) DEF Allocated

-----------------------------------------------------------------------------
(* The write buffer and the mask. *)

\* Putting entries into the write buffer keeps the port consistent and the
\* cause of the write buffer exact.
LEMMA AfterAllocate ==
    ASSUME NEW p, Wired(p), NEW n \in Nat, NEW k \in Nat, n <= k,
           "NoWBBuffers" \in p.mask <=> wbFull(n)
    PROVE  /\ Wired(afterAllocate(p, k))
           /\ "NoWBBuffers" \in afterAllocate(p, k).mask <=> wbFull(k)
           /\ afterAllocate(p, k).mask \ {"NoWBBuffers"} = p.mask \ {"NoWBBuffers"}
           /\ afterAllocate(p, k).mustSendRetry = p.mustSendRetry
<1>1. CASE wbFull(k)
    BY <1>1, SetBlockedWired DEF afterAllocate, BlockedCause
<1>2. CASE ~wbFull(k)
    <2>1. ~wbFull(n)  BY <1>2, QueuesAssumption DEF wbFull
    <2>. QED  BY <1>2, <2>1, ZenonT(60) DEF afterAllocate
<1>. QED  BY <1>1, <1>2, ZenonT(60)

\* Sending an entry keeps the port consistent and the cause exact.
LEMMA AfterMarkInService ==
    ASSUME NEW p, Wired(p), NEW n \in Nat, NEW k \in Nat, k <= n,
           "NoWBBuffers" \in p.mask <=> wbFull(n)
    PROVE  /\ Wired(afterMarkInService(p, n, k))
           /\ "NoWBBuffers" \in afterMarkInService(p, n, k).mask <=> wbFull(k)
           /\ afterMarkInService(p, n, k).mask \ {"NoWBBuffers"}
                = p.mask \ {"NoWBBuffers"}
           /\ afterMarkInService(p, n, k).mustSendRetry = p.mustSendRetry
<1>1. CASE wbFull(n) /\ ~wbFull(k)
    BY <1>1, ClearBlockedWired DEF afterMarkInService
<1>2. CASE ~(wbFull(n) /\ ~wbFull(k))
    <2>1. wbFull(n) <=> wbFull(k)
        BY <1>2, QueuesAssumption DEF wbFull
    <2>. QED  BY <1>2, <2>1, ZenonT(60) DEF afterMarkInService
<1>. QED  BY <1>1, <1>2, ZenonT(60)

-----------------------------------------------------------------------------
(* Steps. *)

\* The queues start empty and the port open.
LEMMA QInit == Init => QInv
<1>. SUFFICES ASSUME Init PROVE QInv  OBVIOUS
<1>1. Allocated(numTargets) = {}  BY DEF Init, Allocated
<1>2. ~mshrsFull(numTargets)  BY <1>1, Counting, QueuesAssumption, ZenonT(60)
<1>3. StateType  BY ZenonT(60) DEF Init, StateType, Allocated
<1>4. Wired(port)  BY ZenonT(60) DEF Init, Wired, PortType
<1>5. Causes(port, numTargets, wbAllocated, noTargetMSHR)
    BY <1>2, QueuesAssumption DEF Init, Causes, wbFull
<1>6. ReserveCovers
    BY <1>1, Counting, FS_EmptySet, QueuesAssumption DEF Init, ReserveCovers
<1>7. waiting => port.mustSendRetry  BY ZenonT(60) DEF Init
<1>. QED  BY <1>3, <1>4, <1>5, <1>6, <1>7 DEF QInv

\* An open port means that nothing is exhausted.
LEMMA OpenPort ==
    ASSUME QInv, NEW p, Wired(p), ~p.blocked, p.mask = port.mask
    PROVE  /\ p.mask = {}
           /\ ~mshrsFull(numTargets) /\ ~wbFull(wbAllocated) /\ noTargetMSHR = None
           /\ wbAllocated < writeBuffers
           /\ Cardinality(Allocated(numTargets)) < Cardinality(Mshr)
           /\ wbAllocated \in Nat /\ numTargets \in [Mshr -> Nat]
<1>1. p.mask = {}  BY ZenonT(60) DEF Wired
<1>2. ~mshrsFull(numTargets) /\ ~wbFull(wbAllocated) /\ noTargetMSHR = None
    BY <1>1, ZenonT(60) DEF QInv, Causes
<1>. QED  BY <1>1, <1>2, Counting, QueuesAssumption DEF QInv, StateType, wbFull, mshrsFull

\* Taking an MSHR when the port is open: mask and count stay exact.
LEMMA AllocateStep ==
    ASSUME QInv, NEW q, Wired(q), NEW m \in Mshr \ Allocated(numTargets),
           ~mshrsFull(numTargets), "NoMSHRs" \notin q.mask,
           allocateMSHR(q, m)
    PROVE  /\ numTargets' \in [Mshr -> Nat]
           /\ Allocated(numTargets') = Allocated(numTargets) \cup {m}
           /\ Cardinality(Allocated(numTargets'))
                = Cardinality(Allocated(numTargets)) + 1
           /\ Wired(port')
           /\ "NoMSHRs" \in port'.mask <=> mshrsFull(numTargets')
           /\ port'.mask \ {"NoMSHRs"} = q.mask
           /\ port'.mustSendRetry = q.mustSendRetry
           /\ noTargetMSHR' = noTargetMSHR
<1>1. numTargets \in [Mshr -> Nat]  BY ZenonT(60) DEF QInv, StateType
<1>2. numTargets[m] = 0  BY <1>1 DEF Allocated
<1>3. numTargets' = [numTargets EXCEPT ![m] = 1]  BY ZenonT(60) DEF allocateMSHR
<1>4. 1 \in Nat /\ 1 > 0  OBVIOUS
<1>5. /\ Allocated(numTargets') = Allocated(numTargets) \cup {m}
      /\ Cardinality(Allocated(numTargets')) = Cardinality(Allocated(numTargets)) + 1
    BY <1>1, <1>2, <1>3, <1>4, CountAllocate, ZenonT(60)
<1>a. numTargets' \in [Mshr -> Nat] /\ noTargetMSHR' = noTargetMSHR
    BY <1>1, <1>3 DEF allocateMSHR
<1>6. CASE mshrsFull(numTargets')
    <2>1. port' = setBlocked(q, "NoMSHRs")  BY <1>6 DEF allocateMSHR
    <2>2. "NoMSHRs" \in BlockedCause  BY DEF BlockedCause
    <2>3. /\ Wired(port') /\ port'.mask = q.mask \cup {"NoMSHRs"}
          /\ port'.mustSendRetry = q.mustSendRetry
        BY <2>1, <2>2, SetBlockedWired, ZenonT(60)
    <2>4. port'.mask \ {"NoMSHRs"} = q.mask /\ "NoMSHRs" \in port'.mask
        BY <2>3, ZenonT(60)
    <2>. QED  BY <1>a, <1>5, <1>6, <2>3, <2>4, ZenonT(60)
<1>7. CASE ~mshrsFull(numTargets')
    <2>1. port' = q  BY <1>7 DEF allocateMSHR
    <2>2. q.mask \ {"NoMSHRs"} = q.mask  OBVIOUS
    <2>. QED  BY <1>a, <1>5, <1>7, <2>1, <2>2, ZenonT(60)
<1>. QED  BY <1>6, <1>7, ZenonT(60)

\* An accepted access keeps the invariant.  It adds at most two entries to
\* the queues, for which the open port guarantees room.
LEMMA AccessStep ==
    ASSUME QInv, NEW p, Wired(p), ~p.blocked, p.mask = port.mask,
           access(p), waiting' = FALSE
    PROVE  QInv'
<1>0. /\ p.mask = {}
      /\ ~mshrsFull(numTargets) /\ ~wbFull(wbAllocated) /\ noTargetMSHR = None
      /\ wbAllocated < writeBuffers
      /\ Cardinality(Allocated(numTargets)) < Cardinality(Mshr)
      /\ wbAllocated \in Nat /\ numTargets \in [Mshr -> Nat]
    BY OpenPort, ZenonT(60)
<1>a. /\ Cardinality(Allocated(numTargets)) \in Nat /\ Cardinality(Mshr) \in Nat
      /\ writeBuffers \in Nat
    BY Counting, QueuesAssumption, ZenonT(60)
<1>1. CASE hit(p)
    <2>1. StateType' /\ ReserveCovers'
        BY <1>1, ZenonT(60) DEF QInv, StateType, ReserveCovers, hit
    <2>2. Wired(port')  BY <1>1 DEF hit
    <2>3. Causes(port', numTargets', wbAllocated', noTargetMSHR')
        BY <1>1, <1>0, ZenonT(60) DEF hit, Causes
    <2>. QED  BY <2>1, <2>2, <2>3, ZenonT(60) DEF QInv, Causes, Wired
<1>2. CASE write(p)
    <2>1. PICK discarded \in {0, 1}, added \in {0, 1, 2} :
            /\ discarded <= wbAllocated /\ discarded + added <= 2
            /\ wbAllocated' = wbAllocated - discarded + added
            /\ port' = LET q == afterMarkInService(p, wbAllocated, wbAllocated - discarded)
                       IN  IF added = 0 THEN q ELSE afterAllocate(q, wbAllocated')
            /\ UNCHANGED <<numTargets, inService, snoops, noTargetMSHR>>
        BY <1>2, ZenonT(60) DEF write
    <2>. DEFINE k == wbAllocated - discarded
                q == afterMarkInService(p, wbAllocated, k)
    <2>2. k \in Nat /\ wbAllocated' \in Nat /\ k <= wbAllocated'
          /\ wbAllocated' <= wbAllocated + 2
        BY <2>1, <1>0
    <2>3. "NoWBBuffers" \in p.mask <=> wbFull(wbAllocated)
        BY <1>0, ZenonT(60)
    <2>4. /\ Wired(q) /\ ("NoWBBuffers" \in q.mask <=> wbFull(k))
          /\ q.mask \ {"NoWBBuffers"} = p.mask \ {"NoWBBuffers"}
        <3>1. k \in Nat /\ k <= wbAllocated  BY <2>2, <2>1, <1>0
        <3>. HIDE DEF k
        <3>. QED  BY <3>1, <2>3, <1>0, AfterMarkInService
    <2>5. port' = IF added = 0 THEN q ELSE afterAllocate(q, wbAllocated')
        BY <2>1, ZenonT(60)
    <2>6. added = 0 => wbAllocated' = k
        BY <2>1, <2>2, <1>0
    <2>. HIDE DEF k, q
    <2>7. /\ Wired(port') /\ ("NoWBBuffers" \in port'.mask <=> wbFull(wbAllocated'))
          /\ port'.mask \ {"NoWBBuffers"} = {}
        <3>1. CASE added = 0
            BY <3>1, <2>4, <2>5, <2>6, <1>0, ZenonT(60)
        <3>2. CASE added # 0
            BY <3>2, <2>2, <2>4, <2>5, <1>0, AfterAllocate, ZenonT(60)
        <3>. QED  BY <3>1, <3>2, ZenonT(60)
    <2>8. StateType'
        BY <2>1, <2>2, ZenonT(60) DEF QInv, StateType
    <2>9. Causes(port', numTargets', wbAllocated', noTargetMSHR')
        BY <2>7, <2>1, <1>0 DEF Causes
    <2>10. ReserveCovers'
        BY <2>1, <2>2, <1>0, <1>a DEF ReserveCovers
    <2>. QED  BY <2>7, <2>8, <2>9, <2>10, ZenonT(60) DEF QInv, Causes, Wired
<1>3. CASE coalesce(p)
    <2>1. PICK m \in Allocated(numTargets) :
            /\ numTargets' = [numTargets EXCEPT ![m] = numTargets[m] + 1]
            /\ IF numTargets'[m] = numTarget
               THEN noTargetMSHR' = m /\ port' = setBlocked(p, "NoTargets")
               ELSE port' = p /\ noTargetMSHR' = noTargetMSHR
            /\ UNCHANGED <<inService, snoops, wbAllocated>>
        BY <1>3, ZenonT(60) DEF coalesce
    <2>2. m \in Mshr /\ numTargets[m] > 0 /\ numTargets[m] + 1 \in Nat
          /\ numTargets[m] + 1 > 0
        BY <1>0 DEF Allocated
    <2>3. numTargets' \in [Mshr -> Nat] /\ Allocated(numTargets') = Allocated(numTargets)
        BY <2>1, <2>2, <1>0, CountKeep, ZenonT(60)
    <2>4. ~mshrsFull(numTargets')
        BY <2>3, <1>0, ZenonT(60) DEF mshrsFull
    <2>5. StateType'
        <3>1. noTargetMSHR' \in Mshr \cup {None}  BY <2>1, <2>2, <1>0, ZenonT(60)
        <3>. QED  BY <2>1, <2>3, <3>1, ZenonT(60) DEF QInv, StateType
    <2>6. ReserveCovers'  BY <2>1, <2>3, ZenonT(60) DEF QInv, ReserveCovers
    <2>7. Wired(port') /\ Causes(port', numTargets', wbAllocated', noTargetMSHR')
        <3>1. CASE numTargets'[m] = numTarget
            <4>1. noTargetMSHR' = m /\ port' = setBlocked(p, "NoTargets")
                BY <3>1, <2>1, ZenonT(60)
            <4>2. Wired(port') /\ port'.mask = {"NoTargets"}
                BY <4>1, <1>0, SetBlockedWired DEF BlockedCause
            <4>3. m # None /\ numTargets'[m] > 0
                BY <2>1, <2>2, <1>0, QueuesAssumption, ZenonT(60)
            <4>. QED  BY <4>1, <4>2, <4>3, <2>1, <2>4, <1>0, ZenonT(60) DEF Causes
        <3>2. CASE numTargets'[m] # numTarget
            BY <3>2, <2>1, <2>4, <1>0, ZenonT(60) DEF Causes
        <3>. QED  BY <3>1, <3>2, ZenonT(60)
    <2>. QED  BY <2>5, <2>6, <2>7, ZenonT(60) DEF QInv
<1>4. CASE miss(p)
    <2>0. Allocated(numTargets) # Mshr  BY <1>0, Counting, ZenonT(60)
    <2>1. PICK m \in Mshr \ Allocated(numTargets), flushed \in {0, 1} :
            /\ wbAllocated' = wbAllocated + flushed
            /\ allocateMSHR(IF flushed = 0 THEN p ELSE afterAllocate(p, wbAllocated'), m)
            /\ UNCHANGED <<inService, snoops>>
        BY <1>4, <2>0 DEF miss
    <2>. DEFINE q == IF flushed = 0 THEN p ELSE afterAllocate(p, wbAllocated')
    <2>2. wbAllocated' \in Nat /\ wbAllocated <= wbAllocated'
          /\ wbAllocated' <= wbAllocated + 1
        BY <2>1, <1>0
    <2>3. /\ Wired(q) /\ ("NoWBBuffers" \in q.mask <=> wbFull(wbAllocated'))
          /\ q.mask \ {"NoWBBuffers"} = {}
        <3>1. CASE flushed = 0
            BY <3>1, <2>1, <1>0
        <3>2. CASE flushed # 0
            BY <3>2, <2>2, <1>0, AfterAllocate
        <3>. QED  BY <3>1, <3>2, ZenonT(60)
    <2>4. allocateMSHR(q, m)  BY <2>1, ZenonT(60)
    <2>. HIDE DEF q
    <2>5. /\ numTargets' \in [Mshr -> Nat]
          /\ Allocated(numTargets') = Allocated(numTargets) \cup {m}
          /\ Cardinality(Allocated(numTargets')) = Cardinality(Allocated(numTargets)) + 1
          /\ Wired(port')
          /\ "NoMSHRs" \in port'.mask <=> mshrsFull(numTargets')
          /\ port'.mask \ {"NoMSHRs"} = q.mask
          /\ noTargetMSHR' = noTargetMSHR
        BY <2>3, <2>4, <1>0, AllocateStep
    <2>6. StateType'
        BY <2>1, <2>2, <2>5, ZenonT(60) DEF QInv, StateType
    <2>7. Causes(port', numTargets', wbAllocated', noTargetMSHR')
        BY <2>3, <2>5, <1>0 DEF Causes
    <2>8. ReserveCovers'
        BY <2>2, <2>5, <1>0, <1>a DEF ReserveCovers
    <2>. QED  BY <2>5, <2>6, <2>7, <2>8, ZenonT(60) DEF QInv
<1>. QED  BY <1>1, <1>2, <1>3, <1>4 DEF access

\* A request is accepted or refused; a refused requestor is owed a retry.
LEMMA RecvTimingReqStep == QInv /\ recvTimingReq => QInv'
<1>. SUFFICES ASSUME QInv, recvTimingReq PROVE QInv'  OBVIOUS
<1>0. Wired(port)  BY DEF QInv
<1>1. CASE port.blocked \/ port.mustSendRetry
    <2>1. /\ port' = [port EXCEPT !.mustSendRetry = TRUE]
          /\ waiting' = TRUE
          /\ UNCHANGED <<numTargets, inService, snoops, wbAllocated, noTargetMSHR>>
        BY <1>1 DEF recvTimingReq, tryTiming
    <2>2. Wired(port')  BY <2>1, <1>0, <1>1, ZenonT(60) DEF Wired, PortType
    <2>3. port'.mask = port.mask /\ port'.mustSendRetry
        BY <2>1, <1>0 DEF Wired, PortType
    <2>4. StateType' /\ ReserveCovers'
        BY <2>1, ZenonT(60) DEF QInv, StateType, ReserveCovers
    <2>5. Causes(port', numTargets', wbAllocated', noTargetMSHR')
        BY <2>1, <2>3, ZenonT(60) DEF QInv, Causes
    <2>. QED  BY <2>2, <2>3, <2>4, <2>5, ZenonT(60) DEF QInv
<1>2. CASE ~(port.blocked \/ port.mustSendRetry)
    <2>1. access(port) /\ waiting' = FALSE
        BY <1>2 DEF recvTimingReq, tryTiming
    <2>. QED  BY <2>1, <1>0, <1>2, AccessStep, ZenonT(60)
<1>. QED  BY <1>1, <1>2

\* A retry finds the port open, and the request sent again is accepted.
LEMMA ProcessSendRetryStep == QInv /\ processSendRetry => QInv'
<1>. SUFFICES ASSUME QInv, processSendRetry PROVE QInv'  OBVIOUS
<1>. DEFINE p == [port EXCEPT !.sendRetryEvent = FALSE, !.mustSendRetry = FALSE]
<1>1. Wired(port) /\ port.sendRetryEvent /\ tryTiming(p)
    BY DEF QInv, processSendRetry
<1>2. ~port.blocked  BY <1>1 DEF Wired
<1>3. /\ p.blocked = port.blocked /\ p.mask = port.mask
      /\ p.mustSendRetry = FALSE
    BY <1>1 DEF Wired, PortType
<1>4. Wired(p)  BY <1>1, <1>2, ZenonT(60) DEF Wired, PortType
<1>. HIDE DEF p
<1>5. access(p) /\ waiting' = FALSE
    BY <1>1, <1>2, <1>3 DEF tryTiming
<1>. QED  BY <1>2, <1>3, <1>4, <1>5, AccessStep, ZenonT(60)

LEMMA SendStep ==
    QInv /\ ((\E m \in Mshr : sendMSHRQueuePacket(m)) \/ sendWriteQueuePacket) => QInv'
<1>1. ASSUME QInv, NEW m \in Mshr, sendMSHRQueuePacket(m)
      PROVE  QInv'
    <2>1. StateType'
        BY <1>1, ZenonT(60) DEF sendMSHRQueuePacket, QInv, StateType
    <2>2. /\ Wired(port') /\ ReserveCovers' /\ (waiting' => port'.mustSendRetry)
          /\ Causes(port', numTargets', wbAllocated', noTargetMSHR')
        BY <1>1, ZenonT(60) DEF sendMSHRQueuePacket, QInv, ReserveCovers
    <2>. QED  BY <2>1, <2>2 DEF QInv
<1>2. ASSUME QInv, sendWriteQueuePacket
      PROVE  QInv'
    <2>1. /\ wbAllocated \in Nat /\ wbAllocated > 0 /\ wbAllocated' = wbAllocated - 1
          /\ port' = afterMarkInService(port, wbAllocated, wbAllocated')
          /\ UNCHANGED <<numTargets, inService, snoops, noTargetMSHR, waiting>>
        BY <1>2, ZenonT(60) DEF sendWriteQueuePacket, QInv, StateType
    <2>2. wbAllocated' \in Nat /\ wbAllocated' <= wbAllocated  BY <2>1
    <2>3. Wired(port) /\ ("NoWBBuffers" \in port.mask <=> wbFull(wbAllocated))
        BY <1>2, ZenonT(60) DEF QInv, Causes
    <2>4. /\ Wired(port') /\ ("NoWBBuffers" \in port'.mask <=> wbFull(wbAllocated'))
          /\ port'.mask \ {"NoWBBuffers"} = port.mask \ {"NoWBBuffers"}
          /\ port'.mustSendRetry = port.mustSendRetry
        BY <2>1, <2>2, <2>3, AfterMarkInService
    <2>5. StateType'  BY <1>2, <2>1, <2>2, ZenonT(60) DEF QInv, StateType
    <2>6. Causes(port', numTargets', wbAllocated', noTargetMSHR')
        BY <1>2, <2>1, <2>4, ZenonT(60) DEF QInv, Causes
    <2>7. ReserveCovers'
        BY <1>2, <2>1, <2>2, Counting, QueuesAssumption DEF QInv, ReserveCovers
    <2>. QED  BY <1>2, <2>1, <2>4, <2>5, <2>6, <2>7, ZenonT(60) DEF QInv
<1>. QED  BY <1>1, <1>2

\* A prefetch leaves the port open.
LEMMA PrefetchStep == QInv /\ prefetch => QInv' /\ port'.mask = {}
<1>. SUFFICES ASSUME QInv, prefetch PROVE QInv' /\ port'.mask = {}  OBVIOUS
<1>0. Wired(port) /\ port.mask = {} /\ ~port.blocked
    BY ZenonT(60) DEF QInv, prefetch, Wired
<1>1. /\ ~mshrsFull(numTargets) /\ noTargetMSHR = None
      /\ wbAllocated < writeBuffers /\ wbAllocated \in Nat
    BY <1>0, OpenPort, ZenonT(60)
<1>2. PICK m \in Mshr \ Allocated(numTargets), sent \in BOOLEAN :
        /\ allocateMSHR(port, m)
        /\ inService' = IF sent THEN inService \cup {m} ELSE inService
    BY ZenonT(60) DEF prefetch
<1>3. UNCHANGED <<snoops, wbAllocated, waiting>>  BY ZenonT(60) DEF prefetch
<1>4. /\ numTargets' \in [Mshr -> Nat]
      /\ Allocated(numTargets') = Allocated(numTargets) \cup {m}
      /\ Cardinality(Allocated(numTargets')) = Cardinality(Allocated(numTargets)) + 1
      /\ Wired(port')
      /\ "NoMSHRs" \in port'.mask <=> mshrsFull(numTargets')
      /\ port'.mask \ {"NoMSHRs"} = port.mask
      /\ port'.mustSendRetry = port.mustSendRetry
      /\ noTargetMSHR' = noTargetMSHR
    BY <1>0, <1>1, <1>2, AllocateStep, ZenonT(60)
<1>5. /\ Cardinality(Allocated(numTargets)) \in Nat /\ Cardinality(Mshr) \in Nat
      /\ writeBuffers \in Nat /\ demandReserve \in Nat
    BY Counting, QueuesAssumption, ZenonT(60)
<1>6. Cardinality(Allocated(numTargets)) < Cardinality(Mshr) - (1 + demandReserve)
    BY ZenonT(60) DEF prefetch, canPrefetch
<1>7. ~mshrsFull(numTargets')
    BY <1>4, <1>5, <1>6 DEF mshrsFull
<1>8. port'.mask = {}  BY <1>4, <1>7, <1>0, ZenonT(60)
<1>9. StateType'  BY <1>2, <1>3, <1>4, ZenonT(60) DEF QInv, StateType
<1>10. Causes(port', numTargets', wbAllocated', noTargetMSHR')
    BY <1>1, <1>3, <1>4, <1>5, <1>7, <1>8 DEF Causes, wbFull
<1>11. ReserveCovers'
    BY <1>1, <1>3, <1>4, <1>5, <1>6 DEF ReserveCovers
<1>. QED  BY <1>3, <1>4, <1>8, <1>9, <1>10, <1>11, ZenonT(60) DEF QInv

\* A snoop target changes no count of entries.
LEMMA SnoopStep == QInv /\ (\E m \in Mshr : handleSnoop(m)) => QInv'
<1>. SUFFICES ASSUME QInv, NEW m \in Mshr, handleSnoop(m) PROVE QInv'  OBVIOUS
<1>1. /\ numTargets \in [Mshr -> Nat] /\ snoops \in [Mshr -> Nat]
      /\ m \in Allocated(numTargets)
      /\ snoops' = [snoops EXCEPT ![m] = snoops[m] + 1]
      /\ numTargets' = [numTargets EXCEPT ![m] = numTargets[m] + 1]
      /\ UNCHANGED <<inService, wbAllocated, noTargetMSHR, port, waiting>>
    BY ZenonT(60) DEF QInv, StateType, handleSnoop
<1>2. numTargets[m] > 0 /\ numTargets[m] + 1 \in Nat /\ numTargets[m] + 1 > 0
    BY <1>1 DEF Allocated
<1>3. Allocated(numTargets') = Allocated(numTargets)
    BY <1>1, <1>2, CountKeep, ZenonT(60)
<1>4. numTargets' \in [Mshr -> Nat] /\ snoops' \in [Mshr -> Nat]
    BY <1>1
<1>5. StateType'  BY <1>1, <1>3, <1>4, ZenonT(60) DEF QInv, StateType
<1>6. mshrsFull(numTargets') <=> mshrsFull(numTargets)
    BY <1>3 DEF mshrsFull
<1>7. noTargetMSHR' # None => numTargets'[noTargetMSHR'] > 0
    BY <1>1, <1>2, ZenonT(60) DEF QInv, StateType, Causes
<1>8. Causes(port', numTargets', wbAllocated', noTargetMSHR')
    BY <1>1, <1>6, <1>7, ZenonT(60) DEF QInv, Causes
<1>9. ReserveCovers' /\ Wired(port') /\ (waiting' => port'.mustSendRetry)
    BY <1>1, <1>3, ZenonT(60) DEF QInv, ReserveCovers
<1>. QED  BY <1>5, <1>8, <1>9, ZenonT(60) DEF QInv

\* A response takes the causes away that end with it, and the block it evicts
\* finds the room its MSHR kept for it.
LEMMA RecvTimingRespStep == QInv /\ (\E m \in Mshr : recvTimingResp(m)) => QInv'
<1>. SUFFICES ASSUME QInv, NEW m \in Mshr, recvTimingResp(m) PROVE QInv'  OBVIOUS
<1>. DEFINE cleared == m = noTargetMSHR
            p == IF cleared THEN clearBlocked(port, "NoTargets") ELSE port
            q == IF mshrsFull(numTargets) /\ ~mshrsFull(numTargets')
                 THEN clearBlocked(p, "NoMSHRs") ELSE p
<1>1. /\ numTargets \in [Mshr -> Nat] /\ snoops \in [Mshr -> Nat]
      /\ wbAllocated \in Nat /\ noTargetMSHR \in Mshr \cup {None}
      /\ inService \subseteq Allocated(numTargets)
      /\ Wired(port) /\ Causes(port, numTargets, wbAllocated, noTargetMSHR)
      /\ m \in inService /\ waiting \in BOOLEAN /\ None \notin Mshr
    BY QueuesAssumption, ZenonT(60) DEF QInv, StateType, recvTimingResp
<1>2. PICK left \in 0..(numTargets[m] - 1), evicted \in {0, 1} :
        /\ left > 0 => shared
        /\ numTargets' = [numTargets EXCEPT ![m] = left]
        /\ wbAllocated' = wbAllocated + evicted
        /\ port' = IF evicted = 0 THEN q ELSE afterAllocate(q, wbAllocated')
    BY ZenonT(60) DEF recvTimingResp
<1>3. /\ inService' = inService \ {m} /\ snoops' = [snoops EXCEPT ![m] = 0]
      /\ noTargetMSHR' = IF cleared THEN None ELSE noTargetMSHR
      /\ waiting' = waiting
    BY ZenonT(60) DEF recvTimingResp
<1>4. numTargets[m] \in Nat /\ numTargets[m] > 0 /\ left \in Nat
    BY <1>1, <1>2 DEF Allocated
<1>5. numTargets' \in [Mshr -> Nat] /\ snoops' \in [Mshr -> Nat]
      /\ wbAllocated' \in Nat /\ wbAllocated <= wbAllocated'
    BY <1>1, <1>2, <1>3, <1>4
<1>6. Allocated(numTargets') \subseteq Allocated(numTargets)
      /\ Allocated(numTargets) \ {m} \subseteq Allocated(numTargets')
    BY <1>1, <1>2, <1>4, ZenonT(60) DEF Allocated
<1>7. mshrsFull(numTargets') => mshrsFull(numTargets)
    BY <1>6, Counting, ZenonT(60) DEF Allocated
<1>8. /\ Wired(p) /\ p.mask = port.mask \ (IF cleared THEN {"NoTargets"} ELSE {})
      /\ p.mustSendRetry = port.mustSendRetry
    <2>1. CASE cleared
        <3>1. "NoTargets" \in port.mask  BY <1>1, <2>1, ZenonT(60) DEF Causes
        <3>. QED  BY <1>1, <2>1, <3>1, ClearBlockedWired, ZenonT(60)
    <2>2. CASE ~cleared
        BY <1>1, <2>2, ZenonT(60)
    <2>. QED  BY <2>1, <2>2, ZenonT(60)
<1>9. /\ "NoMSHRs" \in p.mask <=> mshrsFull(numTargets)
      /\ "NoWBBuffers" \in p.mask <=> wbFull(wbAllocated)
      /\ "NoTargets" \in p.mask <=> noTargetMSHR' # None
    BY <1>1, <1>3, <1>8, ZenonT(60) DEF Causes
<1>. HIDE DEF p
<1>10. /\ Wired(q) /\ p.mask \ {"NoMSHRs"} = q.mask \ {"NoMSHRs"}
       /\ "NoMSHRs" \in q.mask <=> mshrsFull(numTargets')
       /\ q.mustSendRetry = port.mustSendRetry
    <2>1. CASE mshrsFull(numTargets) /\ ~mshrsFull(numTargets')
        BY <1>8, <1>9, <2>1, ClearBlockedWired
    <2>2. CASE ~(mshrsFull(numTargets) /\ ~mshrsFull(numTargets'))
        BY <1>7, <1>8, <1>9, <2>2, ZenonT(60)
    <2>. QED  BY <2>1, <2>2, ZenonT(60)
<1>11. /\ "NoWBBuffers" \in q.mask <=> wbFull(wbAllocated)
       /\ "NoTargets" \in q.mask <=> noTargetMSHR' # None
    BY <1>9, <1>10, ZenonT(60)
<1>. HIDE DEF q
<1>12. /\ Wired(port') /\ port'.mask \ {"NoWBBuffers"} = q.mask \ {"NoWBBuffers"}
       /\ "NoWBBuffers" \in port'.mask <=> wbFull(wbAllocated')
       /\ port'.mustSendRetry = port.mustSendRetry
    <2>1. CASE evicted = 0
        BY <1>1, <1>2, <1>10, <1>11, <2>1
    <2>2. CASE evicted = 1
        <3>1. port' = afterAllocate(q, wbAllocated')  BY <1>2, <2>2
        <3>. QED  BY <1>1, <1>5, <1>10, <1>11, <3>1, AfterAllocate, ZenonT(60)
    <2>. QED  BY <2>1, <2>2, ZenonT(60)
<1>13. noTargetMSHR' # None => numTargets'[noTargetMSHR'] > 0
    BY <1>1, <1>2, <1>3, ZenonT(60) DEF Causes
<1>14. Causes(port', numTargets', wbAllocated', noTargetMSHR')
    BY <1>10, <1>11, <1>12, <1>13, ZenonT(60) DEF Causes
<1>15. StateType'
    <2>1. noTargetMSHR' \in Mshr \cup {None}  BY <1>1, <1>3, ZenonT(60)
    <2>2. inService' \subseteq Allocated(numTargets')  BY <1>1, <1>3, <1>6, ZenonT(60)
    <2>. QED  BY <1>1, <1>3, <1>5, <2>1, <2>2, ZenonT(60) DEF StateType
<1>16. ReserveCovers'
    <2>. SUFFICES ASSUME ~shared
                  PROVE  wbAllocated' + Cardinality(Allocated(numTargets'))
                            <= writeBuffers + Cardinality(Mshr)
        BY ZenonT(60) DEF ReserveCovers
    <2>0. left = 0  BY <1>2, <1>4
    <2>1. numTargets' = [numTargets EXCEPT ![m] = 0]  BY <1>2, <2>0
    <2>2. Cardinality(Allocated(numTargets'))
            = Cardinality(Allocated(numTargets)) - 1
        BY <1>1, <1>4, <2>1, CountFree, ZenonT(60)
    <2>3. wbAllocated + Cardinality(Allocated(numTargets))
            <= writeBuffers + Cardinality(Mshr)
        BY ZenonT(60) DEF QInv, ReserveCovers
    <2>. QED  BY <1>1, <1>2, <2>2, <2>3, Counting, QueuesAssumption
<1>. QED  BY <1>3, <1>12, <1>14, <1>15, <1>16, ZenonT(60) DEF QInv

-----------------------------------------------------------------------------
(* The theorems. *)

\* QInv is an invariant: the mask, the port and the counts agree after every
\* request, retry, send, prefetch, snoop and response.
THEOREM QueuesSafe == Spec => []QInv
<1>1. QInv /\ [Next]_vars => QInv'
    <2>. SUFFICES ASSUME QInv, [Next]_vars PROVE QInv'  OBVIOUS
    <2>1. CASE recvTimingReq  BY <2>1, RecvTimingReqStep
    <2>2. CASE processSendRetry  BY <2>2, ProcessSendRetryStep
    <2>3. CASE (\E m \in Mshr : sendMSHRQueuePacket(m)) \/ sendWriteQueuePacket
        BY <2>3, SendStep
    <2>4. CASE prefetch  BY <2>4, PrefetchStep
    <2>5. CASE \E m \in Mshr : handleSnoop(m)  BY <2>5, SnoopStep
    <2>6. CASE \E m \in Mshr : recvTimingResp(m)  BY <2>6, RecvTimingRespStep
    <2>7. CASE UNCHANGED vars
        BY <2>7, ZenonT(60) DEF vars, QInv, StateType, ReserveCovers
    <2>. QED  BY <2>1, <2>2, <2>3, <2>4, <2>5, <2>6, <2>7, ZenonT(60) DEF Next
<1>. QED  BY <1>1, QInit, PTL DEF Spec

\* Queues, mask and port keep their types, and only allocated MSHRs are in
\* service, for every size of the queues.
THEOREM QueuesTyped == Spec => []TypeOK
<1>1. QInv => TypeOK  BY ZenonT(60) DEF QInv, StateType, Wired, TypeOK
<1>. QED  BY <1>1, QueuesSafe, PTL

\* The mask of setBlocked and clearBlocked names exactly the exhausted
\* resources, for every size of the queues.
THEOREM QueuesMaskExact == Spec => []MaskExact
<1>1. QInv => MaskExact  BY ZenonT(60) DEF QInv, Causes, Wired, MaskExact
<1>. QED  BY <1>1, QueuesSafe, PTL

\* The port never forgets a retry it owes, for every size of the queues.
THEOREM QueuesRetryNotLost == Spec => []RetryNotLost
<1>1. QInv => RetryNotLost  BY ZenonT(60) DEF QInv, Wired, RetryNotLost
<1>. QED  BY <1>1, QueuesSafe, PTL

\* The asserts of the MSHR queue and of the port hold, for every size.
THEOREM QueuesNoAssertFails == Spec => []NoAssertFails
<1>1. QInv => NoAssertFails  BY ZenonT(60) DEF QInv, Wired, NoAssertFails
<1>. QED  BY <1>1, QueuesSafe, PTL

\* One reserved write-buffer entry per MSHR (BaseCache's constructor) is
\* enough where every response completes its MSHR.
THEOREM QueuesWriteBufferFits == Spec => []WriteBufferFits
<1>1. QInv => WriteBufferFits
    BY Counting, QueuesAssumption DEF QInv, StateType, ReserveCovers, WriteBufferFits
<1>. QED  BY <1>1, QueuesSafe, PTL

\* canPrefetch keeps prefetches from blocking the cache, for every reserve.
THEOREM QueuesPrefetchNeverBlocks == Spec => PrefetchNeverBlocks
<1>1. QInv /\ [Next]_vars => [prefetch => port'.mask = {}]_vars
    BY PrefetchStep
<1>. QED  BY <1>1, QueuesSafe, PTL DEF Spec, PrefetchNeverBlocks
=============================================================================

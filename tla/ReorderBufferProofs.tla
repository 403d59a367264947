------------------------ MODULE ReorderBufferProofs -------------------------
(* What holds of the reorder buffer and of commit for every size, width and    *)
(* protection mode, every program and every interleaving of IEW with commit.   *)
EXTENDS ReorderBuffer, ReorderBufferCommit, ReorderBufferMark

\* The provers of the leaves that name none, in the order in which they are tried.
USE SMTT(60), Z3T(60), ZenonT(60)

-----------------------------------------------------------------------------
(* The steps of IEW, of the load/store queue and of the events from outside. *)

\* w is i after a step of IEW or of the load/store queue.
StepTo(i, w) ==
    /\ InstOK(w) /\ Further(i, w)
    /\ w.PrevInstsCompleted = i.PrevInstsCompleted /\ w.SHTinserted = i.SHTinserted
    /\ completed(w) => completed(i)
    /\ i.kind \notin Special => w.canCommit = i.canCommit
    /\ i.canCommit => w.SHTpkt = i.SHTpkt
    /\ i.kind \notin Special /\ i.st \in Ended /\ i.fault # "fault" => w.fault # "fault"

StepsTo(r, q) ==
    /\ q \in Seq(Inst) /\ DOMAIN q = DOMAIN r
    /\ \A k \in DOMAIN r : StepTo(r[k], q[k])

\* An instruction that does nothing.
LEMMA StepToSelf ==
    ASSUME NEW i, InstOK(i)
    PROVE  StepTo(i, i)
BY ZenonT(60) DEF StepTo, Further

\* Steps of IEW keep the order and the meaning of the flags.
LEMMA StepsChain ==
    ASSUME NEW r, NEW q, Chain(r), StepsTo(r, q)
    PROVE  Chain(q)
<1>1. \A k \in DOMAIN r : StepTo(r[k], q[k])
  BY DEF StepsTo
<1>2. ASSUME NEW h \in DOMAIN r, NEW k \in DOMAIN r, h < k
      PROVE  PairOK(q[h], q[k])
  <2>1. PairOK(r[h], r[k])
    BY <1>2 DEF Chain
  <2>2. StepTo(r[h], q[h]) /\ StepTo(r[k], q[k])
    BY <1>1
  <2>3. PICK h0, k0, h1, k1 : h0 = r[h] /\ k0 = r[k] /\ h1 = q[h] /\ k1 = q[k]
    OBVIOUS
  <2>4. PairOK(h0, k0) /\ StepTo(h0, h1) /\ StepTo(k0, k1)
    BY <2>1, <2>2, <2>3
  <2>5. /\ h1.sn = h0.sn /\ h1.kind = h0.kind /\ h1.squashed = h0.squashed
        /\ k1.sn = k0.sn /\ k1.squashed = k0.squashed
        /\ k1.PrevInstsCompleted = k0.PrevInstsCompleted
        /\ h0.kind \notin Special => h1.canCommit = h0.canCommit
        /\ h0.st \in Ended => h1.st = h0.st
        /\ h0.kind \notin Special /\ h0.st \in Ended /\ h0.fault # "fault"
              => h1.fault # "fault"
    BY <2>4, ZenonT(60) DEF StepTo, Further
  <2>6. PairOK(h1, k1)
    BY <2>4, <2>5 DEF PairOK
  <2> QED
    BY <2>3, <2>6
<1> QED
  BY <1>1, <1>2, ZenonT(60) DEF Chain, StepsTo, StepTo

\* Steps of IEW make nothing visible that the scan has not seen.
LEMMA StepsSeen ==
    ASSUME NEW r, NEW q, NEW it, Chain(r), StepsTo(r, q), Seen(r, it)
    PROVE  Seen(q, it)
<1>1. \A k \in DOMAIN r : StepTo(r[k], q[k])
  BY DEF StepsTo
<1>2. ASSUME robInsert, NEW k \in DOMAIN r, isMemRef(q[k]), ~q[k].squashed, Ready(q, k)
      PROVE  /\ q[k].PrevInstsCompleted
             /\ q[k].SHTpkt /\ q[k].canCommit /\ it = 0 => q[k].SHTinserted
  <2>1. StepTo(r[k], q[k])
    BY <1>1
  <2>2. isMemRef(r[k]) /\ ~r[k].squashed /\ r[k].kind \notin Special
    BY <2>1, <1>2, ZenonT(60) DEF StepTo, Further, isMemRef, Special
  <2>3. Ready(r, k)
    <3>1. \A h \in 1..k - 1 : h \in DOMAIN r
      BY RobFacts
    <3> QED
      BY <3>1, <1>1, <1>2, ZenonT(60) DEF Ready, StepTo
  <2>4. /\ r[k].PrevInstsCompleted
        /\ r[k].SHTpkt /\ r[k].canCommit /\ it = 0 => r[k].SHTinserted
    BY <1>2, <2>2, <2>3, ZenonT(60) DEF Seen
  <2> QED
    BY <2>1, <2>2, <2>4, ZenonT(60) DEF StepTo
<1> QED
  BY <1>2, ZenonT(60) DEF Seen, StepsTo

\* Steps of IEW keep the cause of a squash.
LEMMA StepsRaised ==
    ASSUME NEW r, NEW q, StepsTo(r, q)
    PROVE  /\ \A sig, insts : Raised(r, sig, insts) => Raised(q, sig, insts)
           /\ \A sig : WasRaised(r, sig) => WasRaised(q, sig)
<1>1. DOMAIN q = DOMAIN r
      /\ \A k \in DOMAIN r :
            /\ q[k].sn = r[k].sn /\ q[k].kind = r[k].kind
            /\ q[k].squashed = r[k].squashed
            /\ r[k].kind \in {"branch", "store"} => q[k].canCommit = r[k].canCommit
  BY ZenonT(60) DEF StepsTo, StepTo, Further, Special
<1>2. ASSUME NEW sig, NEW insts, Raised(r, sig, insts)
      PROVE  Raised(q, sig, insts)
  BY <1>1, <1>2, ZenonT(60) DEF Raised, Spares
<1>3. ASSUME NEW sig, WasRaised(r, sig) PROVE WasRaised(q, sig)
  BY <1>1, <1>3, ZenonT(60) DEF WasRaised, Spares
<1> QED
  BY <1>2, <1>3

\* A step that changes the instructions, and what IEW has written for commit.
LEMMA StepsOK ==
    ASSUME RobInv, StepsTo(rob, rob'), UNCHANGED commitVars, storesToWB' \in Nat,
           toCommit' \in Signal, \A s \in toCommit'.insts : s < nextSeq,
           Reported(rob', toCommit'.insts), Raised(rob', toCommit', fromIEW.insts)
    PROVE  RobInv'
<1>1. /\ scenario' = scenario /\ nextSeq' = nextSeq /\ squashIt' = squashIt
      /\ squashedSeqNum' = squashedSeqNum /\ commitStatus' = commitStatus
      /\ trapSquash' = trapSquash /\ tcSquash' = tcSquash
      /\ squashAfterInst' = squashAfterInst /\ youngestSeqNum' = youngestSeqNum
      /\ lastCommitedSeqNum' = lastCommitedSeqNum /\ fromIEW' = fromIEW
      /\ lqHead' = lqHead /\ shb' = shb
  BY ZenonT(60) DEF commitVars
<1>2. /\ scenario \in Scenarios
      /\ Begin \in Cycle /\ lqHead \in BOOLEAN /\ nextSeq \in Nat \ {0}
      /\ fromIEW \in Signal /\ \A s \in fromIEW.insts : s < nextSeq
      /\ Chain(rob) /\ WalkOK(Begin) /\ ToldOK(Begin) /\ ShbOK(Begin)
      /\ PendingOK(Begin) /\ CountOK(Begin, nextSeq)
      /\ Reported(rob, fromIEW.insts) /\ WasRaised(rob, fromIEW)
      /\ Seen(rob, squashIt)
  BY ZenonT(60) DEF RobInv
<1>3. /\ rob' \in Seq(Inst) /\ DOMAIN rob' = DOMAIN rob
      /\ \A k \in DOMAIN rob : StepTo(rob[k], rob'[k])
  BY DEF StepsTo
<1>4. Begin' \in Cycle
  <2>1. /\ squashIt \in Nat /\ squashedSeqNum \in Nat /\ commitStatus \in Status
        /\ trapSquash \in BOOLEAN /\ tcSquash \in BOOLEAN /\ squashAfterInst \in Nat
        /\ youngestSeqNum \in Nat /\ lastCommitedSeqNum \in Nat /\ shb \in Seq(Entry)
    BY <1>2, ZenonT(60) DEF Cycle, Begin
  <2> QED
    BY <2>1, <1>1, <1>3, ZenonT(60) DEF Cycle, Begin
<1>5. PICK c, d : c = Begin /\ d = Begin'
  OBVIOUS
<1>6. /\ c.rob = rob /\ d.rob = rob' /\ d.it = c.it /\ d.sq = c.sq /\ d.status = c.status
      /\ d.trap = c.trap /\ d.tc = c.tc /\ d.after = c.after
      /\ d.youngest = c.youngest /\ d.last = c.last /\ d.squash = c.squash
      /\ d.shb = c.shb /\ d.it = squashIt
  BY <1>1, <1>5, ZenonT(60) DEF Begin
<1>7. Kept(c, d)
  <2>1. Len(rob') = Len(rob)
    <3>1. rob \in Seq(Inst)
      BY <1>2, ZenonT(60) DEF Chain
    <3> QED
      BY <3>1, <1>3
  <2> QED
    BY <2>1, <1>2, <1>3, <1>4, <1>5, <1>6 DEF Kept, StepTo
<1>8. Chain(c.rob) /\ WalkOK(c) /\ ToldOK(c) /\ ShbOK(c) /\ CountOK(c, nextSeq)
      /\ PendingOK(c)
  BY <1>2, <1>5, <1>6, ZenonT(60)
<1>9. WalkOK(d) /\ ToldOK(d) /\ CountOK(d, nextSeq)
  BY <1>6, <1>7, <1>8, KeptWalkOK, KeptToldOK, KeptCountOK, ZenonT(60)
<1>10. ShbOK(d)
  <2>1. \A a \in DOMAIN c.shb : SentOK(c.shb[a], d.rob)
    BY <1>7, <1>8, KeptSentOK, ZenonT(60) DEF ShbOK
  <2> QED
    BY <2>1, <1>6, <1>8, ZenonT(60) DEF ShbOK
<1>11. Chain(rob') /\ Seen(rob', squashIt) /\ WasRaised(rob', fromIEW)
  BY <1>2, StepsChain, StepsSeen, StepsRaised, ZenonT(60)
<1>12. Reported(rob', fromIEW.insts)
  BY <1>2, <1>6, <1>7, KeptReported, ZenonT(60)
<1>13. PendingOK(Begin)' /\ CountOK(Begin, nextSeq)'
  <2>1. Kinds' = Kinds /\ tcWrites' = tcWrites
    BY <1>1, ZenonT(60) DEF Kinds, tcWrites
  <2>2. PendingOK(Begin)'
    BY <2>1, <1>5, <1>6, <1>8, ZenonT(60) DEF PendingOK
  <2>3. CountOK(Begin, nextSeq)'
    BY <2>1, <1>1, <1>5, <1>9, ZenonT(60) DEF CountOK
  <2> QED
    BY <2>2, <2>3
<1>14. /\ Chain(rob)' /\ WalkOK(Begin)' /\ ToldOK(Begin)' /\ ShbOK(Begin)'
       /\ Seen(rob, squashIt)' /\ Reported(rob, fromIEW.insts)' /\ WasRaised(rob, fromIEW)'
       /\ Reported(rob, toCommit.insts)' /\ Raised(rob, toCommit, fromIEW.insts)'
  BY <1>1, <1>5, <1>9, <1>10, <1>11, <1>12, ZenonT(60)
<1> QED
  BY <1>1, <1>2, <1>4, <1>13, <1>14, ZenonT(60) DEF RobInv

\* The step of one instruction.  IEW may report it, and then may raise a squash
\* that it is the cause of.
Signals(i, sig, new) ==
    /\ new \in Signal
    /\ new.insts = sig.insts \cup {i.sn}
    /\ new.squash =>
          \/ sig.squash /\ new.sn = sig.sn /\ new.includeSquashInst = sig.includeSquashInst
          \/ /\ Spares(new, i) /\ i.kind \in {"branch", "store"}
             /\ i.st = "waiting" /\ ~i.squashed

\* A step of one instruction, and what IEW writes for it, keep the invariant.
LEMMA OneStepOK ==
    ASSUME RobInv, NEW k \in DOMAIN rob, NEW w, rob' = [rob EXCEPT ![k] = w],
           StepTo(rob[k], w), UNCHANGED commitVars, storesToWB' = storesToWB,
           \/ toCommit' = toCommit
           \/ w.st = "executed" /\ Signals(rob[k], toCommit, toCommit')
    PROVE  RobInv'
<1>1. /\ Chain(rob) /\ toCommit \in Signal /\ fromIEW \in Signal
      /\ \A s \in toCommit.insts : s < nextSeq
      /\ Reported(rob, toCommit.insts) /\ Reported(rob, fromIEW.insts)
      /\ Raised(rob, toCommit, fromIEW.insts) /\ storesToWB \in Nat
      /\ CountOK(Begin, nextSeq)
  BY ZenonT(60) DEF RobInv, Cycle, Begin
<1>2. /\ rob \in Seq(Inst) /\ DOMAIN rob = 1..Len(rob) /\ Len(rob) \in Nat
      /\ \A j \in DOMAIN rob : InstOK(rob[j])
  BY <1>1, RobFacts, ZenonT(60) DEF Chain
<1>3. w \in Inst
  BY ZenonT(60) DEF StepTo, InstOK
<1>4. /\ rob' \in Seq(Inst) /\ DOMAIN rob' = DOMAIN rob
      /\ rob'[k] = w /\ \A j \in DOMAIN rob : j # k => rob'[j] = rob[j]
  BY <1>2, <1>3
<1>5. StepsTo(rob, rob')
  BY <1>2, <1>4, StepToSelf, ZenonT(60) DEF StepsTo
<1>6. /\ \A j \in DOMAIN rob :
            /\ rob'[j].sn = rob[j].sn
            /\ rob[j].st = "executed" => rob'[j].st = "executed"
  BY <1>5, ZenonT(60) DEF StepsTo, StepTo, Further, Ended
<1>7. CASE toCommit' = toCommit
  <2>1. Reported(rob', toCommit'.insts)
    BY <1>1, <1>4, <1>6, <1>7, ZenonT(60) DEF Reported
  <2>2. Raised(rob', toCommit', fromIEW.insts)
    BY <1>1, <1>5, <1>7, StepsRaised, ZenonT(60)
  <2>3. toCommit' \in Signal /\ \A s \in toCommit'.insts : s < nextSeq
    BY <1>1, <1>7, ZenonT(60)
  <2> QED
    BY <1>1, <1>5, <2>1, <2>2, <2>3, StepsOK
<1>8. CASE w.st = "executed" /\ Signals(rob[k], toCommit, toCommit')
  <2>1. /\ toCommit' \in Signal /\ toCommit'.insts = toCommit.insts \cup {rob[k].sn}
    BY <1>8, ZenonT(60) DEF Signals
  <2>2. ASSUME NEW j \in DOMAIN rob, rob[j].sn = rob[k].sn PROVE j = k
    <3>1. ~(j < k) /\ ~(k < j)
      <4>1. /\ j < k => rob[j].sn < rob[k].sn
            /\ k < j => rob[k].sn < rob[j].sn
        BY <1>1, RobFacts, ZenonT(60)
      <4>2. rob[j].sn \in Nat
        BY <1>2, ZenonT(60) DEF InstOK, Inst
      <4> QED
        BY <4>1, <4>2, <2>2
    <3> QED
      BY <3>1, <1>2
  <2>3. Reported(rob', toCommit'.insts)
    <3>1. ASSUME NEW j \in DOMAIN rob, rob[j].sn \in toCommit.insts \cup {rob[k].sn}
          PROVE  rob'[j].st = "executed"
      <4>1. CASE rob[j].sn \in toCommit.insts
        BY <4>1, <1>1, <1>6, ZenonT(60) DEF Reported
      <4>2. CASE rob[j].sn = rob[k].sn
        BY <4>2, <2>2, <1>4, <1>8, ZenonT(60)
      <4> QED
        BY <3>1, <4>1, <4>2, ZenonT(60)
    <3> QED
      BY <3>1, <2>1, <1>4, <1>6, ZenonT(60) DEF Reported
  <2>4. \A s \in toCommit'.insts : s < nextSeq
    <3>1. rob[k].sn < nextSeq
      BY <1>1, ZenonT(60) DEF CountOK, Begin
    <3> QED
      BY <3>1, <2>1, <1>1, ZenonT(60)
  <2>5. Raised(rob', toCommit', fromIEW.insts)
    <3>1. ASSUME toCommit'.squash PROVE Raised(rob', toCommit', fromIEW.insts)
      <4>1. CASE /\ toCommit.squash /\ toCommit'.sn = toCommit.sn
                 /\ toCommit'.includeSquashInst = toCommit.includeSquashInst
        <5>1. PICK j \in DOMAIN rob :
                 /\ Spares(toCommit, rob[j]) /\ rob[j].kind \in {"branch", "store"}
                 /\ ~rob[j].squashed /\ ~rob[j].canCommit
                 /\ rob[j].sn \in toCommit.insts /\ rob[j].sn \notin fromIEW.insts
          BY <4>1, <1>1, ZenonT(60) DEF Raised
        <5>2. Raised(rob, toCommit', fromIEW.insts)
          BY <4>1, <5>1, <2>1, ZenonT(60) DEF Raised, Spares
        <5> QED
          BY <5>2, <1>5, StepsRaised, ZenonT(60)
      <4>2. CASE /\ Spares(toCommit', rob[k]) /\ rob[k].kind \in {"branch", "store"}
                 /\ rob[k].st = "waiting" /\ ~rob[k].squashed
        <5>1. ~rob[k].canCommit
          BY <4>2, <1>2, ZenonT(60) DEF InstOK, Special, Ended
        <5>2. rob[k].sn \notin fromIEW.insts
          BY <4>2, <1>1, ZenonT(60) DEF Reported
        <5>3. Raised(rob, toCommit', fromIEW.insts)
          BY <4>2, <5>1, <5>2, <2>1, ZenonT(60) DEF Raised
        <5> QED
          BY <5>3, <1>5, StepsRaised, ZenonT(60)
      <4> QED
        BY <3>1, <4>1, <4>2, <1>8, ZenonT(60) DEF Signals
    <3> QED
      BY <3>1, ZenonT(60) DEF Raised
  <2> QED
    BY <1>1, <1>5, <2>1, <2>3, <2>4, <2>5, StepsOK
<1> QED
  BY <1>7, <1>8

\* What IEW writes for an instruction that has executed.
LEMMA InstToCommitFacts ==
    ASSUME NEW sig \in Signal, NEW i \in Inst
    PROVE  LET new == instToCommit(sig, i)
           IN  /\ new \in Signal /\ new.insts = sig.insts \cup {i.sn}
               /\ new.squash = sig.squash /\ new.sn = sig.sn
               /\ new.includeSquashInst = sig.includeSquashInst
               /\ Signals(i, sig, new)
<1> DEFINE S == sig.insts \cup {i.sn}
           new == [sig EXCEPT !.insts = S]
<1>1. instToCommit(sig, i) = new
  BY DEF instToCommit, Signal
<1>2. S \in SUBSET Nat
  BY DEF Signal, Inst
<1>3. S = sig.insts \cup {i.sn}
  OBVIOUS
<1> HIDE DEF S
<1>4. /\ new \in Signal /\ new.insts = S
      /\ new.squash = sig.squash /\ new.sn = sig.sn
      /\ new.includeSquashInst = sig.includeSquashInst
  BY <1>2 DEF Signal
<1> HIDE DEF new
<1>5. Signals(i, sig, new)
  BY <1>3, <1>4, ZenonT(60) DEF Signals
<1> QED
  BY <1>1, <1>3, <1>4, <1>5

\* An instruction that executes changes in nothing else.
LEMMA ExecutedType ==
    ASSUME NEW i \in Inst, NEW w, w = [i EXCEPT !.st = "executed"]
    PROVE  /\ w \in Inst /\ w.sn = i.sn /\ w.kind = i.kind /\ w.squashed = i.squashed
           /\ w.from = i.from /\ w.canCommit = i.canCommit /\ w.st = "executed"
           /\ w.PrevInstsCompleted = i.PrevInstsCompleted /\ w.SHTinserted = i.SHTinserted
           /\ w.fault = i.fault /\ w.SHTpkt = i.SHTpkt
BY ZenonT(60) DEF Inst, Progress

\* An instruction that executes, or a load that is sent.
LEMMA ExecutedFacts ==
    ASSUME NEW i, InstOK(i), ~i.squashed, i.st \in {"waiting", "released", "sent"},
           NEW w \in Inst, w.sn = i.sn, w.kind = i.kind, w.squashed = i.squashed,
           w.from = i.from, w.canCommit = i.canCommit,
           w.PrevInstsCompleted = i.PrevInstsCompleted, w.SHTinserted = i.SHTinserted,
           w.st \in {"executed", "sent"},
           w.fault = i.fault \/ w.fault \in {"none", "fault"},
           w.SHTpkt = i.SHTpkt \/ (i.kind = "load" /\ i.st = "waiting"),
           Protected /\ w.kind = "load" /\ ~w.noFill => w.PrevInstsCompleted
    PROVE  StepTo(i, w)
<1>1. i.canCommit => i.kind \in Special
  BY ZenonT(60) DEF InstOK, Ended
<1>2. InstOK(w)
  <2>1. w.canCommit /\ w.kind \notin Special /\ ~w.squashed => w.st \in Ended
    BY <1>1, ZenonT(60)
  <2>2. w.fault = "reexec" \/ w.SHTpkt
          => w.kind = "load" /\ w.st \in {"sent", "executed", "dropped"}
    BY ZenonT(60) DEF InstOK
  <2>3. /\ w.PrevInstsCompleted => isMemRef(w)
        /\ w.SHTinserted => w.PrevInstsCompleted
    BY ZenonT(60) DEF InstOK, isMemRef
  <2>4. (w.from # {} <=> w.squashed) /\ \A s \in w.from : s < w.sn /\ w.from = {s}
    BY ZenonT(60) DEF InstOK
  <2> QED
    BY <2>1, <2>2, <2>3, <2>4, ZenonT(60) DEF InstOK
<1>3. Further(i, w)
  BY ZenonT(60) DEF Further, HalfSquashed, Ended
<1>4. completed(w) => completed(i)
  BY <1>1, ZenonT(60) DEF completed
<1>5. i.canCommit => w.SHTpkt = i.SHTpkt
  BY <1>1, ZenonT(60) DEF Special
<1> QED
  BY <1>2, <1>3, <1>4, <1>5, ZenonT(60) DEF StepTo, Ended

\* What the steps need of the invariant.
LEMMA InvFacts ==
    ASSUME RobInv
    PROVE  /\ Chain(rob) /\ rob \in Seq(Inst) /\ toCommit \in Signal
           /\ \A k \in DOMAIN rob : rob[k] \in Inst /\ InstOK(rob[k])
<1>1. Chain(rob) /\ toCommit \in Signal
  BY ZenonT(60) DEF RobInv
<1> QED
  BY <1>1, RobFacts, ZenonT(60) DEF Chain

\* Dispatch keeps the invariant.
LEMMA DispatchOK ==
    ASSUME RobInv, NEW k \in DOMAIN rob, Dispatch(k)
    PROVE  RobInv'
<1> DEFINE i == rob[k]
           w == [i EXCEPT !.st = "dispatched", !.canCommit = TRUE]
<1>1. /\ i \in Inst /\ InstOK(i) /\ i.st = "waiting" /\ ~i.squashed /\ i.kind \in Special
      /\ rob \in Seq(Inst)
  BY InvFacts DEF Dispatch, canExecute
<1>2. rob' = [rob EXCEPT ![k] = w]
  BY <1>1, ZenonT(60) DEF Dispatch
<1> HIDE DEF i
<1>3. /\ w \in Inst /\ w.sn = i.sn /\ w.kind = i.kind /\ w.squashed = i.squashed
      /\ w.from = i.from /\ w.canCommit = TRUE /\ w.st = "dispatched"
      /\ w.PrevInstsCompleted = i.PrevInstsCompleted /\ w.SHTinserted = i.SHTinserted
      /\ w.fault = i.fault /\ w.SHTpkt = i.SHTpkt /\ w.noFill = i.noFill
  BY <1>1, ZenonT(60) DEF Inst, Progress
<1> HIDE DEF w
<1>4. i.kind # "load" /\ i.fault # "reexec" /\ ~i.SHTpkt
  BY <1>1, ZenonT(60) DEF Special, InstOK
<1>5. InstOK(w)
  BY <1>1, <1>3, <1>4, ZenonT(60) DEF InstOK, isMemRef
<1>6. Further(i, w)
  BY <1>1, <1>3, ZenonT(60) DEF Further, HalfSquashed, Ended
<1>7. StepTo(i, w)
  BY <1>1, <1>3, <1>5, <1>6, ZenonT(60) DEF StepTo, completed
<1> QED
  BY <1>2, <1>7, OneStepOK, ZenonT(60) DEF Dispatch, i

\* ExecuteSpecial keeps the invariant.
LEMMA ExecuteSpecialOK ==
    ASSUME RobInv, NEW k \in DOMAIN rob, ExecuteSpecial(k)
    PROVE  RobInv'
<1>1. PICK f \in {"none", "fault"} :
         rob' = [rob EXCEPT ![k].st = "executed", ![k].fault = f]
  BY ZenonT(60) DEF ExecuteSpecial
<1> DEFINE i == rob[k]
           w == [i EXCEPT !.st = "executed", !.fault = f]
<1>2. /\ i \in Inst /\ InstOK(i) /\ i.st = "released" /\ ~i.squashed
      /\ rob \in Seq(Inst) /\ toCommit \in Signal
  BY InvFacts DEF ExecuteSpecial
<1>3. rob' = [rob EXCEPT ![k] = w]
  BY <1>1, <1>2, ZenonT(60)
<1>4. Signals(i, toCommit, toCommit')
  BY <1>2, InstToCommitFacts, ZenonT(60) DEF ExecuteSpecial
<1> HIDE DEF i
<1>5. /\ w \in Inst /\ w.sn = i.sn /\ w.kind = i.kind /\ w.squashed = i.squashed
      /\ w.from = i.from /\ w.canCommit = i.canCommit /\ w.st = "executed"
      /\ w.PrevInstsCompleted = i.PrevInstsCompleted /\ w.SHTinserted = i.SHTinserted
      /\ w.fault = f /\ w.SHTpkt = i.SHTpkt
  BY <1>2, ZenonT(60) DEF Inst, Progress
<1> HIDE DEF w
<1>6. i.kind # "load"
  BY <1>2, ZenonT(60) DEF InstOK, Special
<1>7. StepTo(i, w)
  BY <1>2, <1>5, <1>6, ExecutedFacts, ZenonT(60)
<1> QED
  BY <1>3, <1>4, <1>5, <1>7, OneStepOK, ZenonT(60) DEF ExecuteSpecial, i

\* ExecuteBranch keeps the invariant: a mispredicted branch spares itself.
LEMMA ExecuteBranchOK ==
    ASSUME RobInv, NEW k \in DOMAIN rob, ExecuteBranch(k)
    PROVE  RobInv'
<1> DEFINE i == rob[k]
           w == [i EXCEPT !.st = "executed"]
           sig == instToCommit(toCommit, i)
<1>1. /\ i \in Inst /\ InstOK(i) /\ i.st = "waiting" /\ ~i.squashed /\ i.kind = "branch"
      /\ rob \in Seq(Inst) /\ toCommit \in Signal
  BY InvFacts DEF ExecuteBranch, canExecute
<1>2. rob' = [rob EXCEPT ![k] = w]
  BY <1>1 DEF ExecuteBranch
<1>3. /\ sig \in Signal /\ sig.insts = toCommit.insts \cup {i.sn}
      /\ sig.squash = toCommit.squash /\ sig.sn = toCommit.sn
      /\ sig.includeSquashInst = toCommit.includeSquashInst
      /\ Signals(i, toCommit, sig)
  BY <1>1, InstToCommitFacts, ZenonT(60)
<1>4. toCommit' = sig \/ toCommit' = squashDueToBranch(sig, i)
  BY DEF ExecuteBranch
<1> HIDE DEF i, sig
<1>5. Signals(i, toCommit, toCommit')
  <2>1. CASE toCommit' = sig
    BY <2>1, <1>3
  <2>2. CASE toCommit' # sig
    <3> DEFINE new == [sig EXCEPT !.squash = TRUE, !.sn = i.sn,
                                  !.includeSquashInst = FALSE]
    <3>1. toCommit' = new
      BY <2>2, <1>4 DEF squashDueToBranch
    <3>2. i.sn \in Nat
      BY <1>1 DEF Inst
    <3>3. /\ new \in Signal /\ new.insts = sig.insts
          /\ new.sn = i.sn /\ new.includeSquashInst = FALSE
      BY <3>2, <1>3, ZenonT(60) DEF Signal
    <3> HIDE DEF new
    <3> QED
      BY <3>1, <3>3, <1>1, <1>3, ZenonT(60) DEF Signals, Spares
  <2> QED
    BY <2>1, <2>2
<1>6. /\ w \in Inst /\ w.sn = i.sn /\ w.kind = i.kind /\ w.squashed = i.squashed
      /\ w.from = i.from /\ w.canCommit = i.canCommit /\ w.st = "executed"
      /\ w.PrevInstsCompleted = i.PrevInstsCompleted /\ w.SHTinserted = i.SHTinserted
      /\ w.fault = i.fault /\ w.SHTpkt = i.SHTpkt
  BY <1>1, ExecutedType, ZenonT(60)
<1> HIDE DEF w
<1>7. StepTo(i, w)
  BY <1>1, <1>6, ExecutedFacts, ZenonT(60)
<1> QED
  BY <1>2, <1>5, <1>6, <1>7, OneStepOK, ZenonT(60) DEF ExecuteBranch, i

\* ExecuteStore keeps the invariant: the load it finds in conflict is younger.
LEMMA ExecuteStoreOK ==
    ASSUME RobInv, NEW k \in DOMAIN rob, ExecuteStore(k)
    PROVE  RobInv'
<1> DEFINE i == rob[k]
           w == [i EXCEPT !.st = "executed"]
           v == [i EXCEPT !.st = "executed", !.fault = "fault"]
           sig == instToCommit(toCommit, i)
<1>1. /\ i \in Inst /\ InstOK(i) /\ i.st = "waiting" /\ ~i.squashed /\ i.kind = "store"
      /\ rob \in Seq(Inst) /\ toCommit \in Signal /\ Chain(rob)
  BY InvFacts, ZenonT(60) DEF ExecuteStore, canExecute
<1>2. /\ sig \in Signal /\ sig.insts = toCommit.insts \cup {i.sn}
      /\ sig.squash = toCommit.squash /\ sig.sn = toCommit.sn
      /\ sig.includeSquashInst = toCommit.includeSquashInst
      /\ Signals(i, toCommit, sig)
  BY <1>1, InstToCommitFacts, ZenonT(60)
<1>3. \/ rob' = [rob EXCEPT ![k] = v] /\ toCommit' = sig
      \/ rob' = [rob EXCEPT ![k] = w] /\ toCommit' = sig
      \/ /\ rob' = [rob EXCEPT ![k] = w]
         /\ \E j \in violators(k) :
               toCommit' = sig \/ toCommit' = squashDueToMemOrder(sig, rob[j])
  <2>1. \/ /\ rob' = [rob EXCEPT ![k].st = "executed", ![k].fault = "fault"]
           /\ toCommit' = sig
        \/ rob' = [rob EXCEPT ![k].st = "executed"] /\ toCommit' = sig
        \/ /\ rob' = [rob EXCEPT ![k].st = "executed"]
           /\ \E j \in violators(k) :
                 toCommit' = sig \/ toCommit' = squashDueToMemOrder(sig, rob[j])
    BY ZenonT(60) DEF ExecuteStore
  <2>2. /\ [rob EXCEPT ![k].st = "executed", ![k].fault = "fault"]
           = [rob EXCEPT ![k] = v]
        /\ [rob EXCEPT ![k].st = "executed"] = [rob EXCEPT ![k] = w]
    BY <1>1, ZenonT(60)
  <2> QED
    BY <2>1, <2>2, ZenonT(60)
<1>4. ASSUME NEW j \in violators(k) PROVE rob[j].sn \in Nat /\ i.sn < rob[j].sn
  <2>1. j \in DOMAIN rob /\ k < j
    BY <1>1, RobFacts DEF violators
  <2> QED
    BY <2>1, <1>1, RobFacts, ZenonT(60) DEF Inst
<1> HIDE DEF i, sig
<1>5. Signals(i, toCommit, toCommit')
  <2>1. CASE toCommit' = sig
    BY <2>1, <1>2
  <2>2. CASE toCommit' # sig
    <3>1. PICK j \in violators(k) : toCommit' = squashDueToMemOrder(sig, rob[j])
      BY <2>2, <1>3
    <3> DEFINE new == [sig EXCEPT !.squash = TRUE, !.sn = rob[j].sn,
                                  !.includeSquashInst = TRUE]
    <3>2. toCommit' = new
      BY <2>2, <3>1 DEF squashDueToMemOrder
    <3>3. new \in Signal /\ new.insts = sig.insts /\ new.sn = rob[j].sn
      BY <1>2, <1>4, ZenonT(60) DEF Signal
    <3> HIDE DEF new
    <3> QED
      BY <3>2, <3>3, <1>1, <1>2, <1>4, ZenonT(60) DEF Signals, Spares
  <2> QED
    BY <2>1, <2>2
<1>6. /\ w \in Inst /\ w.sn = i.sn /\ w.kind = i.kind /\ w.squashed = i.squashed
      /\ w.from = i.from /\ w.canCommit = i.canCommit /\ w.st = "executed"
      /\ w.PrevInstsCompleted = i.PrevInstsCompleted /\ w.SHTinserted = i.SHTinserted
      /\ w.fault = i.fault /\ w.SHTpkt = i.SHTpkt
  BY <1>1, ZenonT(60) DEF Inst, Progress
<1>7. /\ v \in Inst /\ v.sn = i.sn /\ v.kind = i.kind /\ v.squashed = i.squashed
      /\ v.from = i.from /\ v.canCommit = i.canCommit /\ v.st = "executed"
      /\ v.PrevInstsCompleted = i.PrevInstsCompleted /\ v.SHTinserted = i.SHTinserted
      /\ v.fault = "fault" /\ v.SHTpkt = i.SHTpkt
  BY <1>1, ZenonT(60) DEF Inst, Progress
<1> HIDE DEF w, v
<1>8. StepTo(i, w)
  BY <1>1, <1>6, ExecutedFacts, ZenonT(60)
<1>9. StepTo(i, v)
  BY <1>1, <1>7, ExecutedFacts, ZenonT(60)
<1>10. UNCHANGED commitVars /\ storesToWB' = storesToWB
  BY ZenonT(60) DEF ExecuteStore
<1>11. CASE rob' = [rob EXCEPT ![k] = v]
  BY <1>5, <1>7, <1>9, <1>10, <1>11, OneStepOK, ZenonT(60) DEF i
<1>12. CASE rob' = [rob EXCEPT ![k] = w]
  BY <1>5, <1>6, <1>8, <1>10, <1>12, OneStepOK, ZenonT(60) DEF i
<1> QED
  BY <1>3, <1>11, <1>12

\* ExecuteLoad keeps the invariant: it fills only when it is marked.
LEMMA ExecuteLoadOK ==
    ASSUME RobInv, NEW k \in DOMAIN rob, ExecuteLoad(k)
    PROVE  RobInv'
<1>1. addRequest(rob[k]) \in BOOLEAN
  BY ZenonT(60) DEF addRequest
<1>2. PICK b \in BOOLEAN : addRequest(rob[k]) = b
  BY <1>1, ZenonT(60)
<1> DEFINE i == rob[k]
           u == [i EXCEPT !.st = "executed", !.fault = "fault", !.noFill = b]
           v == [i EXCEPT !.st = "sent", !.noFill = b]
           w == [i EXCEPT !.st = "sent", !.SHTpkt = TRUE, !.noFill = b]
<1>3. /\ i \in Inst /\ InstOK(i) /\ i.st = "waiting" /\ ~i.squashed /\ i.kind = "load"
      /\ rob \in Seq(Inst) /\ toCommit \in Signal
  BY InvFacts, ZenonT(60) DEF ExecuteLoad, canExecute
<1>4. Protected /\ ~b => i.PrevInstsCompleted
  BY <1>2, <1>3, ZenonT(60) DEF addRequest, Protected
<1>5. Signals(i, toCommit, instToCommit(toCommit, i))
  BY <1>3, InstToCommitFacts, ZenonT(60)
<1>6. \/ rob' = [rob EXCEPT ![k] = u] /\ Signals(i, toCommit, toCommit')
      \/ rob' = [rob EXCEPT ![k] = v] /\ toCommit' = toCommit
      \/ rob' = [rob EXCEPT ![k] = w] /\ toCommit' = toCommit
  <2>1. \/ /\ rob' = [rob EXCEPT ![k].st = "executed", ![k].fault = "fault",
                                 ![k].noFill = b]
           /\ toCommit' = instToCommit(toCommit, i)
        \/ /\ rob' = [rob EXCEPT ![k].st = "sent", ![k].noFill = b]
           /\ toCommit' = toCommit
        \/ /\ rob' = [rob EXCEPT ![k].st = "sent", ![k].SHTpkt = TRUE, ![k].noFill = b]
           /\ toCommit' = toCommit
    BY <1>2, ZenonT(60) DEF ExecuteLoad
  <2>2. [rob EXCEPT ![k].st = "executed", ![k].fault = "fault", ![k].noFill = b]
        = [rob EXCEPT ![k] = u]
    BY <1>3, ZenonT(60)
  <2>3. [rob EXCEPT ![k].st = "sent", ![k].noFill = b] = [rob EXCEPT ![k] = v]
    BY <1>3, ZenonT(60)
  <2>4. [rob EXCEPT ![k].st = "sent", ![k].SHTpkt = TRUE, ![k].noFill = b]
        = [rob EXCEPT ![k] = w]
    BY <1>3, ZenonT(60)
  <2> HIDE DEF u, v, w, i
  <2> QED
    BY <2>1, <2>2, <2>3, <2>4, <1>5, ZenonT(60)
<1> HIDE DEF i
<1>7. /\ u \in Inst /\ u.sn = i.sn /\ u.kind = i.kind /\ u.squashed = i.squashed
      /\ u.from = i.from /\ u.canCommit = i.canCommit /\ u.st = "executed"
      /\ u.PrevInstsCompleted = i.PrevInstsCompleted /\ u.SHTinserted = i.SHTinserted
      /\ u.fault = "fault" /\ u.SHTpkt = i.SHTpkt /\ u.noFill = b
  BY <1>3, ZenonT(60) DEF Inst, Progress
<1>8. /\ v \in Inst /\ v.sn = i.sn /\ v.kind = i.kind /\ v.squashed = i.squashed
      /\ v.from = i.from /\ v.canCommit = i.canCommit /\ v.st = "sent"
      /\ v.PrevInstsCompleted = i.PrevInstsCompleted /\ v.SHTinserted = i.SHTinserted
      /\ v.fault = i.fault /\ v.SHTpkt = i.SHTpkt /\ v.noFill = b
  BY <1>3, ZenonT(60) DEF Inst, Progress
<1>9. /\ w \in Inst /\ w.sn = i.sn /\ w.kind = i.kind /\ w.squashed = i.squashed
      /\ w.from = i.from /\ w.canCommit = i.canCommit /\ w.st = "sent"
      /\ w.PrevInstsCompleted = i.PrevInstsCompleted /\ w.SHTinserted = i.SHTinserted
      /\ w.fault = i.fault /\ w.noFill = b
  BY <1>3, ZenonT(60) DEF Inst, Progress
<1> HIDE DEF u, v, w
<1>10. StepTo(i, u)
  BY <1>3, <1>4, <1>7, ExecutedFacts, ZenonT(60)
<1>11. StepTo(i, v)
  BY <1>3, <1>4, <1>8, ExecutedFacts, ZenonT(60)
<1>12. StepTo(i, w)
  BY <1>3, <1>4, <1>9, ExecutedFacts
<1>13. UNCHANGED commitVars /\ storesToWB' = storesToWB
  BY ZenonT(60) DEF ExecuteLoad
<1>14. CASE rob' = [rob EXCEPT ![k] = u] /\ Signals(i, toCommit, toCommit')
  BY <1>7, <1>10, <1>13, <1>14, OneStepOK, ZenonT(60) DEF i
<1>15. CASE rob' = [rob EXCEPT ![k] = v] /\ toCommit' = toCommit
  BY <1>11, <1>13, <1>15, OneStepOK, ZenonT(60) DEF i
<1>16. CASE rob' = [rob EXCEPT ![k] = w] /\ toCommit' = toCommit
  BY <1>12, <1>13, <1>16, OneStepOK, ZenonT(60) DEF i
<1> QED
  BY <1>6, <1>14, <1>15, <1>16, ZenonT(60)

\* writeback keeps the invariant.
LEMMA WritebackOK ==
    ASSUME RobInv, NEW k \in DOMAIN rob, writeback(k)
    PROVE  RobInv'
<1> DEFINE i == rob[k]
           w == [i EXCEPT !.st = "executed"]
<1>1. /\ i \in Inst /\ InstOK(i) /\ i.st = "sent" /\ ~i.squashed
      /\ rob \in Seq(Inst) /\ toCommit \in Signal
  BY InvFacts DEF writeback
<1>2. rob' = [rob EXCEPT ![k] = w]
  BY <1>1 DEF writeback
<1>3. Signals(i, toCommit, toCommit')
  BY <1>1, InstToCommitFacts DEF writeback
<1> HIDE DEF i
<1>4. /\ w \in Inst /\ w.sn = i.sn /\ w.kind = i.kind /\ w.squashed = i.squashed
      /\ w.from = i.from /\ w.canCommit = i.canCommit /\ w.st = "executed"
      /\ w.PrevInstsCompleted = i.PrevInstsCompleted /\ w.SHTinserted = i.SHTinserted
      /\ w.fault = i.fault /\ w.SHTpkt = i.SHTpkt /\ w.noFill = i.noFill
  BY <1>1 DEF Inst, Progress
<1> HIDE DEF w
<1>5. Protected /\ w.kind = "load" /\ ~w.noFill => w.PrevInstsCompleted
  BY <1>1, <1>4, ZenonT(60) DEF InstOK
<1>6. StepTo(i, w)
  BY <1>1, <1>4, <1>5, ExecutedFacts, ZenonT(60)
<1> QED
  BY <1>2, <1>3, <1>4, <1>6, OneStepOK, ZenonT(60) DEF writeback, i

\* A load that a snoop makes execute again.
LEMMA ReplayFacts ==
    ASSUME NEW i, InstOK(i), effAddrValid(i)
    PROVE  StepTo(i, [i EXCEPT !.fault = "reexec"])
<1> DEFINE w == [i EXCEPT !.fault = "reexec"]
<1>1. i \in Inst /\ i.kind = "load" /\ i.st \in {"sent", "executed"} /\ ~i.squashed
  BY ZenonT(60) DEF InstOK, effAddrValid
<1>2. /\ w \in Inst /\ w.sn = i.sn /\ w.kind = i.kind /\ w.squashed = i.squashed
      /\ w.from = i.from /\ w.canCommit = i.canCommit /\ w.st = i.st
      /\ w.PrevInstsCompleted = i.PrevInstsCompleted /\ w.SHTinserted = i.SHTinserted
      /\ w.fault = "reexec" /\ w.SHTpkt = i.SHTpkt /\ w.noFill = i.noFill
  BY <1>1 DEF Inst
<1> HIDE DEF w
<1>3. InstOK(w)
  BY <1>1, <1>2, ZenonT(60) DEF InstOK, isMemRef
<1>4. Further(i, w)
  BY <1>1, <1>2, ZenonT(60) DEF Further, HalfSquashed
<1>5. ~completed(w)
  BY <1>2 DEF completed
<1>6. StepTo(i, w)
  BY <1>2, <1>3, <1>4, <1>5, ZenonT(60) DEF StepTo
<1> QED
  BY <1>6 DEF w

\* checkSnoop keeps the invariant.
LEMMA CheckSnoopOK ==
    ASSUME RobInv, NEW k \in DOMAIN rob, checkSnoop(k)
    PROVE  RobInv'
<1>1. /\ Chain(rob) /\ rob \in Seq(Inst) /\ toCommit \in Signal
      /\ \A j \in DOMAIN rob : rob[j] \in Inst /\ InstOK(rob[j])
  BY InvFacts
<1>2. /\ \A s \in toCommit.insts : s < nextSeq
      /\ Reported(rob, toCommit.insts) /\ Raised(rob, toCommit, fromIEW.insts)
      /\ storesToWB \in Nat
  BY ZenonT(60) DEF RobInv, Cycle, Begin
<1>3. /\ UNCHANGED commitVars /\ toCommit' = toCommit /\ storesToWB' = storesToWB
      /\ rob' = [j \in DOMAIN rob |->
                    IF j >= k /\ effAddrValid(rob[j])
                    THEN [rob[j] EXCEPT !.fault = "reexec"] ELSE rob[j]]
  BY DEF checkSnoop
<1>4. /\ DOMAIN rob' = DOMAIN rob
      /\ \A j \in DOMAIN rob :
            rob'[j] = rob[j] \/ (/\ effAddrValid(rob[j])
                                 /\ rob'[j] = [rob[j] EXCEPT !.fault = "reexec"])
  BY <1>3
<1>5. \A j \in DOMAIN rob : StepTo(rob[j], rob'[j])
  BY <1>1, <1>4, StepToSelf, ReplayFacts
<1>6. rob' \in Seq(Inst)
  <2>1. DOMAIN rob = 1..Len(rob) /\ Len(rob) \in Nat
    BY <1>1
  <2>2. \A j \in 1..Len(rob) : rob'[j] \in Inst
    BY <1>5, <2>1, ZenonT(60) DEF StepTo, InstOK
  <2>3. rob' = [j \in 1..Len(rob) |-> rob'[j]]
    BY <1>3, <2>1
  <2> QED
    BY <2>1, <2>2, <2>3
<1>7. StepsTo(rob, rob')
  BY <1>4, <1>5, <1>6 DEF StepsTo
<1>8. Reported(rob', toCommit'.insts)
  <2>1. \A j \in DOMAIN rob : /\ rob'[j].sn = rob[j].sn
                              /\ rob[j].st = "executed" => rob'[j].st = "executed"
    BY <1>5, ZenonT(60) DEF StepTo, Further, Ended
  <2> QED
    BY <2>1, <1>2, <1>3, <1>4, ZenonT(60) DEF Reported
<1>9. Raised(rob', toCommit', fromIEW.insts)
  BY <1>1, <1>2, <1>3, <1>7, StepsRaised, ZenonT(60)
<1> QED
  BY <1>1, <1>2, <1>3, <1>7, <1>8, <1>9, StepsOK

\* writebackStores keeps the invariant.
LEMMA WritebackStoresOK ==
    ASSUME RobInv, writebackStores
    PROVE  RobInv'
<1>1. /\ Chain(rob) /\ rob \in Seq(Inst) /\ toCommit \in Signal
      /\ \A j \in DOMAIN rob : rob[j] \in Inst /\ InstOK(rob[j])
  BY InvFacts
<1>2. /\ \A s \in toCommit.insts : s < nextSeq
      /\ Reported(rob, toCommit.insts) /\ Raised(rob, toCommit, fromIEW.insts)
      /\ storesToWB \in Nat
  BY ZenonT(60) DEF RobInv, Cycle, Begin
<1>3. /\ UNCHANGED commitVars /\ toCommit' = toCommit /\ rob' = rob
      /\ storesToWB' \in Nat
  BY <1>2 DEF writebackStores
<1>4. StepsTo(rob, rob')
  BY <1>1, <1>3, StepToSelf DEF StepsTo
<1> QED
  BY <1>1, <1>2, <1>3, <1>4, StepsOK

\* A trap or a write from outside only marks the squash as pending.
LEMMA MarkedPendingOK ==
    ASSUME RobInv, NEW t \in BOOLEAN, NEW u \in BOOLEAN,
           t => commitStatus = "TrapPending",
           u => commitStatus # "TrapPending" /\ tcWrites,
           trapSquash' = t, tcSquash' = u,
           UNCHANGED <<scenario, rob, nextSeq, squashIt, squashedSeqNum, commitStatus,
                       squashAfterInst, youngestSeqNum, lastCommitedSeqNum,
                       toCommit, fromIEW, lqHead, storesToWB, shb>>
    PROVE  RobInv'
<1>1. PICK d : d = Begin'
  OBVIOUS
<1>2. /\ Begin \in Cycle /\ Chain(rob) /\ WalkOK(Begin) /\ ToldOK(Begin) /\ ShbOK(Begin)
      /\ PendingOK(Begin) /\ CountOK(Begin, nextSeq)
  BY ZenonT(60) DEF RobInv
<1>3. d = [rob |-> rob, it |-> squashIt, sq |-> squashedSeqNum,
           status |-> commitStatus, trap |-> t, tc |-> u, after |-> squashAfterInst,
           youngest |-> youngestSeqNum, last |-> lastCommitedSeqNum,
           shb |-> shb, lq |-> FALSE, stores |-> storesToWB, squash |-> {},
           num |-> 0, stop |-> FALSE]
  BY <1>1, ZenonT(60) DEF Begin
<1> DEFINE c == Begin
<1>4. /\ d \in Cycle /\ d.rob = c.rob /\ d.it = c.it /\ d.sq = c.sq
      /\ d.status = c.status /\ d.trap = t /\ d.tc = u /\ d.after = c.after
      /\ d.youngest = c.youngest /\ d.last = c.last /\ d.shb = c.shb
      /\ d.squash = c.squash
  <2>1. /\ d.rob = c.rob /\ d.it = c.it /\ d.sq = c.sq
        /\ d.status = c.status /\ d.trap = t /\ d.tc = u /\ d.after = c.after
        /\ d.youngest = c.youngest /\ d.last = c.last /\ d.shb = c.shb
        /\ d.squash = c.squash
    BY <1>3, ZenonT(60) DEF Begin
  <2>2. /\ rob \in Seq(Inst) /\ squashIt \in Nat /\ squashedSeqNum \in Nat
        /\ commitStatus \in Status /\ squashAfterInst \in Nat /\ youngestSeqNum \in Nat
        /\ lastCommitedSeqNum \in Nat /\ shb \in Seq(Entry) /\ storesToWB \in Nat
    BY <1>2, ZenonT(60) DEF Cycle, Begin
  <2>3. d \in Cycle
    BY <1>3, <2>2, ZenonT(60) DEF Cycle
  <2> QED
    BY <2>1, <2>3, ZenonT(60)
<1>5. c = Begin /\ c.status = commitStatus
  BY ZenonT(60) DEF Begin
<1> HIDE DEF c
<1>6. WalkOK(d)
  <2>1. \A k \in DOMAIN c.rob : ToWalk(d, k) <=> ToWalk(c, k)
    BY <1>4, ZenonT(60) DEF ToWalk
  <2>2. \A k \in DOMAIN c.rob : \A s \in c.rob[k].from : \A j \in 1..k - 1 :
           c.rob[j].sn > s => c.rob[j].squashed \/ ToWalk(d, j)
    <3>1. \A j : ToWalk(d, j) <=> ToWalk(c, j)
      BY <1>4, ZenonT(60) DEF ToWalk
    <3> QED
      BY <3>1, <1>2, <1>5, ZenonT(60) DEF WalkOK
  <2> QED
    BY <1>2, <1>4, <1>5, <2>1, <2>2, ZenonT(60) DEF WalkOK
<1>7. ToldOK(d) /\ ShbOK(d)
  <2>1. ToldOK(d)
    BY <1>2, <1>4, <1>5, ZenonT(60) DEF ToldOK
  <2>2. ShbOK(d)
    BY <1>2, <1>4, <1>5, ZenonT(60) DEF ShbOK
  <2> QED
    BY <2>1, <2>2, ZenonT(60)
<1>8. PendingOK(d)
  BY <1>2, <1>4, <1>5, ZenonT(60) DEF PendingOK
<1>9. CountOK(d, nextSeq)
  BY <1>2, <1>4, <1>5, ZenonT(60) DEF CountOK
<1>10. Kinds' = Kinds /\ tcWrites' = tcWrites
  BY DEF Kinds, tcWrites
<1>11. (Begin \in Cycle)' /\ WalkOK(Begin)' /\ ToldOK(Begin)' /\ ShbOK(Begin)'
  BY <1>1, <1>4, <1>6, <1>7, ZenonT(60)
<1>12. PendingOK(Begin)' /\ CountOK(Begin, nextSeq)'
  BY <1>1, <1>8, <1>9, <1>10 DEF PendingOK, CountOK
<1>13. Seen(rob, squashIt)' /\ Chain(rob)'
  BY ZenonT(60) DEF RobInv
<1> QED
  BY <1>11, <1>12, <1>13, ZenonT(60) DEF RobInv

\* processTrapEvent keeps the invariant.
LEMMA ProcessTrapEventOK ==
    ASSUME RobInv, processTrapEvent
    PROVE  RobInv'
<1>1. PendingOK(Begin) /\ tcSquash \in BOOLEAN
  BY ZenonT(60) DEF RobInv, Begin, Cycle
<1>2. tcSquash => commitStatus # "TrapPending" /\ tcWrites
  BY <1>1, ZenonT(60) DEF PendingOK, Begin
<1> QED
  BY <1>1, <1>2, MarkedPendingOK, ZenonT(60) DEF processTrapEvent

\* generateTCEvent keeps the invariant.
LEMMA GenerateTCEventOK ==
    ASSUME RobInv, generateTCEvent
    PROVE  RobInv'
<1>1. PendingOK(Begin) /\ trapSquash \in BOOLEAN
  BY ZenonT(60) DEF RobInv, Begin, Cycle
<1>2. trapSquash => commitStatus = "TrapPending"
  BY <1>1, ZenonT(60) DEF PendingOK, Begin
<1> QED
  BY <1>1, <1>2, MarkedPendingOK, ZenonT(60) DEF generateTCEvent

\* So does a step that changes nothing.
LEMMA StutterOK ==
    ASSUME RobInv, UNCHANGED vars
    PROVE  RobInv'
<1>1. PendingOK(Begin) /\ trapSquash \in BOOLEAN /\ tcSquash \in BOOLEAN
  BY ZenonT(60) DEF RobInv, Begin, Cycle
<1>2. /\ trapSquash => commitStatus = "TrapPending"
      /\ tcSquash => commitStatus # "TrapPending" /\ tcWrites
  BY <1>1, ZenonT(60) DEF PendingOK, Begin
<1> QED
  BY <1>1, <1>2, MarkedPendingOK DEF vars

-----------------------------------------------------------------------------
(* A cycle of commit. *)

\* Later numbers are free too.
LEMMA StageLater ==
    ASSUME NEW c, NEW n \in Nat, NEW m \in Nat, n <= m, StageOK(c, n)
    PROVE  StageOK(c, m)
<1>1. c \in Cycle /\ Chain(c.rob) /\ CountOK(c, n)
  BY DEF StageOK
<1>2. /\ c.last \in Nat
      /\ \A k \in DOMAIN c.rob : c.rob[k].sn \in Nat
      /\ \A a \in DOMAIN c.shb : c.shb[a].sn \in Nat
  <2>1. \A k \in DOMAIN c.rob : c.rob[k].sn \in Nat
    BY <1>1, RobFacts DEF Inst
  <2>2. c.last \in Nat /\ c.shb \in Seq(Entry)
    BY <1>1 DEF Cycle
  <2>3. \A a \in DOMAIN c.shb : c.shb[a] \in Entry
    BY <2>2
  <2> QED
    BY <2>1, <2>2, <2>3 DEF Entry
<1>3. CountOK(c, m)
  BY <1>1, <1>2 DEF CountOK
<1> QED
  BY <1>3, ZenonT(60) DEF StageOK

\* The stages of a cycle: c1 after the squashes at its beginning; d with what was
\* renamed, unless a squash or a trap is under way; c2 after m instructions left.
Stages(c1, d, c2, m, kinds) ==
    /\ Settled(c1) /\ Fresh(c1) /\ StageOK(c1, nextSeq)
    /\ tick(kinds) = markCompletedInsts(c2)
    /\ StageOK(c2, nextSeq + Len(kinds)) /\ PendingOK(c2)
    /\ IF c1.status = "ROBSquashing" THEN c2 = c1
       ELSE /\ \/ d = c1 /\ c1.status = "TrapPending"
               \/ GotInsts(c1, d, kinds)
            /\ Chain(d.rob) /\ CommitShape(d, c2, m)

\* Every cycle of commit goes through these stages.
LEMMA TickStages ==
    ASSUME WellOrdered, RobInv, NEW kinds \in renamed
    PROVE  \E c1, d, c2 : \E m \in Nat : Stages(c1, d, c2, m, kinds)
<1> DEFINE a == continueSquash(Begin)
           b == pendingSquashes(a)
           c1 == squashFromIEW(b)
           g == getInsts(c1, kinds)
           d == IF c1.status = "TrapPending" THEN c1 ELSE g
           c2 == IF c1.status = "ROBSquashing" THEN c1 ELSE commitInsts(d)
           n == nextSeq + Len(kinds)
<1>1. /\ StageOK(Begin, nextSeq) /\ PendingOK(Begin) /\ Spared(Begin)
      /\ Fresh(Begin) /\ nextSeq \in Nat
      /\ Begin.rob = rob /\ Begin.it = squashIt /\ Begin.squash = {}
      /\ Begin.after = squashAfterInst
  BY BeginOK
<1>2. Raised(rob, toCommit, fromIEW.insts) /\ fromIEW \in Signal
      /\ scenario \in Scenarios /\ nextSeq \in Nat \ {0}
  BY ZenonT(60) DEF RobInv
<1>3. Len(kinds) \in Nat /\ n \in Nat /\ nextSeq <= n
  BY <1>1, <1>2, RenamedFacts
<1>4. tick(kinds) = markCompletedInsts(c2)
  BY ZenonT(60) DEF tick, Begin
<1> HIDE DEF n
<1>5. StageOK(a, nextSeq) /\ PendingOK(a) /\ Spared(a) /\ Fresh(a)
  BY <1>1, <1>2, ContinueSquashOK, ZenonT(60)
<1> HIDE DEF a
<1>6. StageOK(b, nextSeq) /\ Settled(b) /\ Spared(b) /\ Fresh(b)
  BY <1>1, <1>5, PendingSquashesOK
<1> HIDE DEF b
<1>7. StageOK(c1, nextSeq) /\ Settled(c1) /\ Fresh(c1)
  BY <1>1, <1>2, <1>6, SquashFromIEWOK, ZenonT(60)
<1> HIDE DEF c1
<1>8. StageOK(c1, n)
  BY <1>1, <1>3, <1>7, StageLater
<1>9. CASE c1.status = "ROBSquashing"
  <2>1. c2 = c1
    BY <1>9
  <2>2. PendingOK(c1)
    BY <1>7, <1>9 DEF Settled, PendingOK
  <2> QED
    BY <1>4, <1>7, <1>8, <1>9, <2>1, <2>2, ZenonT(60) DEF Stages, n
<1>10. CASE c1.status # "ROBSquashing"
  <2>1. c1.squash = {} /\ c1.stop = FALSE
    BY <1>7, <1>10 DEF Fresh
  <2>2. GotInsts(c1, g, kinds)
    BY <1>2, <1>7, GetInstsStep DEF StageOK
  <2>3. (d = c1 /\ c1.status = "TrapPending") \/ GotInsts(c1, d, kinds)
    BY <2>2
  <2>4. /\ StageOK(d, n) /\ d.status = c1.status /\ d.squash = {} /\ d.stop = FALSE
        /\ d.trap = c1.trap /\ d.tc = c1.tc /\ d.after = c1.after
    <3>1. CASE c1.status = "TrapPending"
      BY <3>1, <1>8, <2>1
    <3>2. CASE c1.status # "TrapPending"
      <4>1. c1.status = "Running"
        BY <3>2, <1>7, <1>10 DEF Settled
      <4>2. d = g
        BY <3>2
      <4>3. StageOK(g, nextSeq + Len(kinds))
        BY <4>1, <2>1, <2>2, <1>7, GetInstsOK
      <4>4. /\ g.status = c1.status /\ g.squash = {} /\ g.stop = FALSE
            /\ g.trap = c1.trap /\ g.tc = c1.tc /\ g.after = c1.after
        BY <2>1, <2>2, ZenonT(60) DEF GotInsts
      <4> HIDE DEF g, d
      <4> QED
        BY <4>2, <4>3, <4>4 DEF n
    <3> QED
      BY <3>1, <3>2, ZenonT(60)
  <2>5. c2 = commitInsts(d)
    BY <1>10
  <2> HIDE DEF d, c2
  <2>6. PICK m \in Nat :
           /\ CommitShape(d, c2, m)
           /\ m > 0 /\ m < Len(d.rob) /\ d.rob[m].squashed => ~d.rob[m + 1].squashed
    BY <2>4, <2>5, CommitInstsShape, ZenonT(60) DEF StageOK
  <2>7. StageOK(c2, n)
    BY <2>4, <2>6, <1>3, <1>10, CommitInstsOK, ZenonT(60)
  <2>8. PendingOK(c2)
    <3>1. c2.trap = FALSE /\ c2.tc = FALSE
      BY <2>4, <2>6, <1>7, ZenonT(60) DEF CommitShape, Settled
    <3>2. ASSUME c2.after # 0
          PROVE  (c2.status = "SquashAfterPending" \/ tcWrites) /\ "squashafter" \in Kinds
      <4>1. CASE c2.after = d.after
        BY <4>1, <3>2, <2>4, <1>7 DEF Settled
      <4>2. ASSUME c2.status = "SquashAfterPending",
                   NEW h \in 1..m, d.rob[h].kind = "squashafter"
            PROVE  (c2.status = "SquashAfterPending" \/ tcWrites) /\ "squashafter" \in Kinds
        <5>1. d.rob \in Seq(Inst) /\ m \in 0..Len(d.rob)
          BY <2>4, <2>6, ZenonT(60) DEF StageOK, Cycle, CommitShape
        <5>2. h \in DOMAIN d.rob
          BY <5>1
        <5> QED
          BY <4>2, <5>2, <2>4 DEF StageOK, CountOK
      <4> QED
        BY <4>1, <4>2, <2>6 DEF CommitShape
    <3> QED
      BY <3>1, <3>2 DEF PendingOK
  <2>9. Chain(d.rob)
    BY <2>4, ZenonT(60) DEF StageOK
  <2>10. Stages(c1, d, c2, m, kinds)
    BY <2>3, <2>6, <2>7, <2>8, <2>9, <1>4, <1>7, <1>10, ZenonT(60) DEF Stages, n
  <2> QED
    BY <2>10
<1> QED
  BY <1>9, <1>10

-----------------------------------------------------------------------------
(* The steps. *)

\* A cycle of commit keeps the invariant.
LEMMA CommitTickOK ==
    ASSUME WellOrdered, RobInv, CommitTick
    PROVE  RobInv'
<1>1. PICK kinds \in renamed :
         LET c == tick(kinds)
         IN /\ rob' = IF c.squash = {} THEN c.rob
                      ELSE iewSquash(c.rob, CHOOSE sn \in c.squash : TRUE)
            /\ nextSeq' = nextSeq + Len(kinds)
            /\ squashIt' = c.it /\ squashedSeqNum' = c.sq
            /\ commitStatus' = c.status
            /\ trapSquash' = c.trap /\ tcSquash' = c.tc
            /\ squashAfterInst' = c.after
            /\ youngestSeqNum' = c.youngest /\ lastCommitedSeqNum' = c.last
            /\ fromIEW' = toCommit /\ toCommit' = NoSignal
            /\ lqHead' = c.lq /\ storesToWB' = c.stores
            /\ shb' = c.shb
            /\ scenario' = scenario
  BY ZenonT(60) DEF CommitTick
<1> DEFINE c == tick(kinds)
           n == nextSeq + Len(kinds)
<1>2. PICK c1, g, c2 : \E m \in Nat : Stages(c1, g, c2, m, kinds)
  BY TickStages
<1>3. c = markCompletedInsts(c2) /\ StageOK(c2, n) /\ PendingOK(c2)
  BY <1>2, ZenonT(60) DEF Stages
<1>4. /\ scenario \in Scenarios /\ nextSeq \in Nat \ {0} /\ toCommit \in Signal
      /\ \A s \in toCommit.insts : s < nextSeq
  BY ZenonT(60) DEF RobInv
<1>5. Len(kinds) \in Nat /\ n \in Nat \ {0} /\ nextSeq <= n
  BY <1>4, RenamedFacts
<1>6. StageOK(c, n) /\ Seen(c.rob, c.it) /\ PendingOK(c)
  BY <1>3, <1>5, MarkCompletedInstsOK, ZenonT(60)
<1> HIDE DEF c, n
<1>7. c \in Cycle /\ Chain(c.rob) /\ ToldOK(c)
  BY <1>6 DEF StageOK
<1>8. rob' \in Seq(Inst)
  <2>1. CASE c.squash = {}
    BY <2>1, <1>1, <1>7, ZenonT(60) DEF Cycle, c
  <2>2. CASE c.squash # {}
    <3>1. PICK s : s = CHOOSE sn \in c.squash : TRUE
      OBVIOUS
    <3>2. s \in Nat
      <4>1. c.squash \in SUBSET Nat
        BY <1>7 DEF Cycle
      <4> QED
        BY <2>2, <3>1, <4>1
    <3>3. rob' = iewSquash(c.rob, s)
      BY <2>2, <3>1, <1>1 DEF c
    <3> QED
      BY <3>2, <3>3, <1>7, IewSquashType
  <2> QED
    BY <2>1, <2>2
<1>9. EndsAs(c, Begin')
  <2>1. /\ c.it \in Nat /\ c.sq \in Nat /\ c.status \in Status /\ c.trap \in BOOLEAN
        /\ c.tc \in BOOLEAN /\ c.after \in Nat /\ c.youngest \in Nat /\ c.last \in Nat
        /\ c.shb \in Seq(Entry) /\ c.stores \in Nat /\ c.lq \in BOOLEAN
    BY <1>7 DEF Cycle
  <2>2. /\ squashIt' = c.it /\ squashedSeqNum' = c.sq /\ commitStatus' = c.status
        /\ trapSquash' = c.trap /\ tcSquash' = c.tc /\ squashAfterInst' = c.after
        /\ youngestSeqNum' = c.youngest /\ lastCommitedSeqNum' = c.last
        /\ shb' = c.shb /\ storesToWB' = c.stores
        /\ rob' = IF c.squash = {} THEN c.rob
                  ELSE iewSquash(c.rob, CHOOSE sn \in c.squash : TRUE)
    BY <1>1, ZenonT(60) DEF c
  <2>3. Begin' \in Cycle
    BY <2>1, <2>2, <1>8 DEF Cycle, Begin
  <2>4. /\ Begin'.rob = rob' /\ Begin'.it = squashIt' /\ Begin'.sq = squashedSeqNum'
        /\ Begin'.status = commitStatus' /\ Begin'.trap = trapSquash'
        /\ Begin'.tc = tcSquash' /\ Begin'.after = squashAfterInst'
        /\ Begin'.youngest = youngestSeqNum' /\ Begin'.last = lastCommitedSeqNum'
        /\ Begin'.shb = shb' /\ Begin'.squash = {}
    BY ZenonT(60) DEF Begin
  <2> QED
    BY <2>2, <2>3, <2>4, ZenonT(60) DEF EndsAs
<1>10. PICK d : d = Begin'
  OBVIOUS
<1>11. /\ d.rob = rob' /\ d.it = squashIt' /\ d \in Cycle
  BY <1>9, <1>10, ZenonT(60) DEF Begin, EndsAs
<1>12. /\ Chain(d.rob) /\ WalkOK(d) /\ ToldOK(d) /\ ShbOK(d)
       /\ PendingOK(d) /\ CountOK(d, n) /\ Reported(d.rob, toCommit.insts)
       /\ WasRaised(d.rob, toCommit) /\ Seen(d.rob, d.it)
  BY <1>5, <1>6, <1>9, <1>10, EndOK
<1>13. scenario' = scenario /\ nextSeq' = n /\ fromIEW' = toCommit /\ toCommit' = NoSignal
       /\ lqHead' \in BOOLEAN
  <2>1. c.lq \in BOOLEAN
    BY <1>7 DEF Cycle
  <2> QED
    BY <2>1, <1>1, ZenonT(60) DEF c, n
<1>14. PendingOK(Begin)'
  <2>1. Kinds' = Kinds /\ tcWrites' = tcWrites
    BY <1>13 DEF Kinds, tcWrites
  <2> QED
    BY <2>1, <1>10, <1>12 DEF PendingOK
<1>15. CountOK(Begin, nextSeq)'
  <2>1. Kinds' = Kinds
    BY <1>13 DEF Kinds
  <2> QED
    BY <2>1, <1>10, <1>12, <1>13, ZenonT(60) DEF CountOK
<1>16. /\ Chain(rob)' /\ WalkOK(Begin)' /\ ToldOK(Begin)' /\ ShbOK(Begin)'
       /\ Seen(rob, squashIt)' /\ Reported(rob, fromIEW.insts)' /\ WasRaised(rob, fromIEW)'
  BY <1>10, <1>11, <1>12, <1>13, ZenonT(60)
<1>17. Reported(rob, toCommit.insts)' /\ Raised(rob, toCommit, fromIEW.insts)'
  BY <1>13, ZenonT(60) DEF Reported, Raised, NoSignal
<1>18. NoSignal \in Signal /\ NoSignal.insts = {}
  BY DEF NoSignal, Signal
<1>19. (\A s \in toCommit.insts \cup fromIEW.insts : s < nextSeq)'
  <2>1. toCommit.insts \subseteq Nat
    BY <1>4 DEF Signal
  <2> QED
    BY <2>1, <1>4, <1>5, <1>13, <1>18
<1>20. /\ scenario' \in Scenarios /\ Begin' \in Cycle /\ lqHead' \in BOOLEAN
       /\ nextSeq' \in Nat \ {0} /\ toCommit' \in Signal /\ fromIEW' \in Signal
  BY <1>4, <1>5, <1>10, <1>11, <1>13, <1>18, ZenonT(60)
<1> QED
  BY <1>14, <1>15, <1>16, <1>17, <1>19, <1>20, ZenonT(60) DEF RobInv

-----------------------------------------------------------------------------
(* The invariant holds. *)

\* The invariant holds initially.
LEMMA RobInit ==
    ASSUME Init
    PROVE  RobInv
<1> USE DEF Init
<1>1. << >> \in Seq(Inst) /\ << >> \in Seq(Entry) /\ Len(<< >>) = 0 /\ DOMAIN << >> = {}
  OBVIOUS
<1>2. Begin \in Cycle
  BY <1>1, ZenonT(60) DEF Cycle, Begin, Status
<1>3. NoSignal \in Signal /\ NoSignal.insts = {} /\ NoSignal.squash = FALSE
  BY ZenonT(60) DEF NoSignal, Signal
<1>4. Chain(rob)
  BY <1>1 DEF Chain
<1>5. WalkOK(Begin) /\ ToldOK(Begin) /\ ShbOK(Begin)
  <2>1. PICK c : c = Begin
    OBVIOUS
  <2>2. /\ c.rob = << >> /\ c.it = 0 /\ c.status = "Running" /\ c.shb = << >>
        /\ c.squash = {}
    BY <2>1, ZenonT(60) DEF Begin
  <2> QED
    BY <1>1, <2>1, <2>2 DEF WalkOK, ToldOK, ShbOK, InOrder
<1>6. PendingOK(Begin)
  BY ZenonT(60) DEF PendingOK, Begin
<1>7. CountOK(Begin, nextSeq)
  BY <1>1 DEF CountOK, Begin
<1>8. /\ Reported(rob, toCommit.insts) /\ Reported(rob, fromIEW.insts)
      /\ Raised(rob, toCommit, fromIEW.insts) /\ WasRaised(rob, fromIEW)
      /\ Seen(rob, squashIt)
  BY <1>1, <1>3, ZenonT(60) DEF Reported, Raised, WasRaised, Seen
<1>9. /\ scenario \in Scenarios /\ lqHead \in BOOLEAN /\ nextSeq \in Nat \ {0}
      /\ toCommit \in Signal /\ fromIEW \in Signal
      /\ \A s \in toCommit.insts \cup fromIEW.insts : s < nextSeq
  <2>1. lqHead \in BOOLEAN
    BY ZenonT(60)
  <2>2. nextSeq \in Nat \ {0}
    <3>1. nextSeq = 1
      BY ZenonT(60)
    <3> HIDE DEF Init
    <3> QED
      BY <3>1
  <2>3. \A s \in toCommit.insts \cup fromIEW.insts : s < nextSeq
    BY <1>3, ZenonT(60)
  <2>4. toCommit \in Signal /\ fromIEW \in Signal
    BY <1>3, ZenonT(60)
  <2> QED
    BY <2>1, <2>2, <2>3, <2>4
<1> QED
  BY <1>2, <1>4, <1>5, <1>6, <1>7, <1>8, <1>9, ZenonT(60) DEF RobInv

\* Every step keeps the invariant.
LEMMA RobStep ==
    ASSUME WellOrdered, RobInv, [Next]_vars
    PROVE  RobInv'
<1>1. ASSUME NEW k \in DOMAIN rob, Execute(k) PROVE RobInv'
  BY <1>1, DispatchOK, ExecuteSpecialOK, ExecuteBranchOK, ExecuteStoreOK,
     ExecuteLoadOK, WritebackOK DEF Execute
<1>2. ASSUME NEW k \in DOMAIN rob, checkSnoop(k) PROVE RobInv'
  BY <1>2, CheckSnoopOK
<1>3. CASE writebackStores
  BY <1>3, WritebackStoresOK
<1>4. CASE CommitTick
  BY <1>4, CommitTickOK
<1>5. CASE processTrapEvent
  BY <1>5, ProcessTrapEventOK
<1>6. CASE generateTCEvent
  BY <1>6, GenerateTCEventOK
<1>7. CASE UNCHANGED vars
  BY <1>7, StutterOK
<1> QED
  BY <1>1, <1>2, <1>3, <1>4, <1>5, <1>6, <1>7, ZenonT(60) DEF Next


\* The scan at the end of a cycle changes only the instructions and the SHB.
LEMMA MarkCompletedInstsFields ==
    ASSUME NEW c \in Cycle
    PROVE  LET d == markCompletedInsts(c)
           IN  d.last = c.last /\ d.after = c.after
<1> DEFINE a == markReady(c)
<1>1. markCompletedInsts(c) = updateVisibleState(a)
  BY DEF markCompletedInsts, markReady, ready
<1>2. a.last = c.last /\ a.after = c.after /\ DOMAIN a = DOMAIN c
  BY DEF markReady, Cycle
<1> HIDE DEF a
<1>3. PICK r, q : updateVisibleState(a) = [a EXCEPT !.rob = r, !.shb = q]
  BY ZenonT(60) DEF updateVisibleState
<1>4. {"last", "after"} \subseteq DOMAIN a
  BY <1>2 DEF Cycle
<1> QED
  BY <1>1, <1>2, <1>3, <1>4

\* What a cycle leaves in lastCommitedSeqNum and squashAfterInst.
LEMMA TickLeaves ==
    ASSUME WellOrdered, RobInv, CommitTick
    PROVE  \E kinds \in renamed : \E c1, d, c2 : \E m \in Nat :
              /\ Stages(c1, d, c2, m, kinds)
              /\ lastCommitedSeqNum' = c2.last /\ squashAfterInst' = c2.after
<1>1. PICK kinds \in renamed :
         lastCommitedSeqNum' = tick(kinds).last /\ squashAfterInst' = tick(kinds).after
  BY ZenonT(60) DEF CommitTick
<1>2. PICK c1, d, c2 : \E m \in Nat : Stages(c1, d, c2, m, kinds)
  BY TickStages
<1>3. tick(kinds) = markCompletedInsts(c2) /\ c2 \in Cycle
  BY <1>2, ZenonT(60) DEF Stages, StageOK
<1> QED
  BY <1>1, <1>2, <1>3, MarkCompletedInstsFields

\* The assertions that a cycle of commit makes.
LEMMA AssertsStep ==
    ASSUME WellOrdered, RobInv, [Next]_vars,
           \A s \in Scenarios : ~(s.tcWrites /\ "squashafter" \in s.Kinds)
    PROVE  /\ rob # << >> /\ commitStatus = "Running" =>
                 \/ rob[1].st = "executed" \/ rob[1].squashed \/ ~rob[1].canCommit
                 \/ rob[1].kind \in Special
           /\ tcSquash => ~trapSquash /\ commitStatus # "TrapPending"
           /\ squashAfterInst' # squashAfterInst /\ squashAfterInst' # 0
                 => squashAfterInst = 0
<1>1. /\ Chain(rob) /\ WalkOK(Begin) /\ PendingOK(Begin) /\ scenario \in Scenarios
  BY ZenonT(60) DEF RobInv
<1>2. ASSUME rob # << >>, commitStatus = "Running"
      PROVE  \/ rob[1].st = "executed" \/ rob[1].squashed \/ ~rob[1].canCommit
             \/ rob[1].kind \in Special
  <2>1. 1 \in DOMAIN rob /\ InstOK(rob[1])
    <3>1. rob \in Seq(Inst)
      BY <1>1 DEF Chain
    <3>2. 1 \in DOMAIN rob
      BY <3>1, <1>2
    <3> QED
      BY <3>2, <1>1 DEF Chain
  <2>2. ~HalfSquashed(rob[1])
    <3>1. PICK c : c = Begin
      OBVIOUS
    <3>2. c.rob = rob /\ c.status = "Running"
      BY <3>1, <1>2, ZenonT(60) DEF Begin
    <3> QED
      BY <3>1, <3>2, <1>1, <2>1, ZenonT(60) DEF WalkOK, ToWalk
  <2> QED
    BY <2>1, <2>2, ZenonT(60) DEF InstOK, HalfSquashed, Ended
<1>3. tcSquash => ~trapSquash /\ commitStatus # "TrapPending"
  BY <1>1, ZenonT(60) DEF PendingOK, Begin
<1>4. ~(tcWrites /\ "squashafter" \in Kinds)
  BY <1>1, ZenonT(60) DEF tcWrites, Kinds
<1>5. CASE CommitTick
  <2>1. PICK kinds \in renamed : \E c1, d, c2 : \E m \in Nat :
           Stages(c1, d, c2, m, kinds) /\ squashAfterInst' = c2.after
    BY <1>5, TickLeaves
  <2> PICK c1, d, c2 : \E m \in Nat :
         Stages(c1, d, c2, m, kinds) /\ squashAfterInst' = c2.after
    BY <2>1
  <2>2. Settled(c1) /\ Fresh(c1)
    BY <2>1, ZenonT(60) DEF Stages
  <2>3. c1.after = 0
    BY <2>2, <1>4 DEF Settled
  <2>4. CASE c1.status = "ROBSquashing"
    BY <2>1, <2>3, <2>4, <1>2, <1>3, ZenonT(60) DEF Stages
  <2>5. CASE c1.status # "ROBSquashing"
    BY <2>2, <2>3, <2>5, <1>2, <1>3 DEF Fresh
  <2> QED
    BY <2>4, <2>5, ZenonT(60)
<1>6. CASE ~CommitTick
  <2>1. squashAfterInst' = squashAfterInst
    BY <1>6, ZenonT(60) DEF Next, vars, Execute, Dispatch, ExecuteSpecial,
       ExecuteBranch, ExecuteStore, ExecuteLoad, writeback, checkSnoop,
       writebackStores, processTrapEvent, generateTCEvent, commitVars
  <2> QED
    BY <2>1, <1>2, <1>3, ZenonT(60)
<1> QED
  BY <1>5, <1>6, ZenonT(60)

\* A load that commits, with no special or squashed instruction in front of it.
LEMMA CommitsStep ==
    ASSUME WellOrdered, RobInv, [Next]_vars, robInsert, NEW k \in DOMAIN rob,
           rob[k].sn \in lastCommitedSeqNum + 1 .. lastCommitedSeqNum',
           ~rob[k].squashed, rob[k].SHTpkt,
           \A h \in 1..k - 1 : rob[h].kind \notin Special /\ ~rob[h].squashed
    PROVE  rob[k].SHTinserted
<1>1. /\ Chain(rob) /\ Seen(rob, squashIt) /\ Begin \in Cycle
  BY ZenonT(60) DEF RobInv
<1>2. lastCommitedSeqNum \in Nat
  BY <1>1, ZenonT(60) DEF Cycle, Begin
<1>3. /\ DOMAIN rob = 1..Len(rob) /\ Len(rob) \in Nat
      /\ rob[k].sn \in Nat /\ InstOK(rob[k])
  BY <1>1, RobFacts, ZenonT(60) DEF Chain, Inst
<1>4. CommitTick
  <2>1. lastCommitedSeqNum' # lastCommitedSeqNum
    BY <1>2, <1>3
  <2> QED
    BY <2>1, ZenonT(60) DEF Next, vars, Execute, Dispatch, ExecuteSpecial,
       ExecuteBranch, ExecuteStore, ExecuteLoad, writeback, checkSnoop,
       writebackStores, processTrapEvent, generateTCEvent, commitVars
<1>5. PICK kinds \in renamed : \E c1, d, c2 : \E m \in Nat :
         Stages(c1, d, c2, m, kinds) /\ lastCommitedSeqNum' = c2.last
  BY <1>4, TickLeaves, ZenonT(60)
<1> PICK c1, d, c2 : \E m \in Nat :
       Stages(c1, d, c2, m, kinds) /\ lastCommitedSeqNum' = c2.last
  BY <1>5, ZenonT(60)
<1> PICK m \in Nat : Stages(c1, d, c2, m, kinds) /\ lastCommitedSeqNum' = c2.last
  BY ZenonT(60)
<1>6. Fresh(c1) /\ StageOK(c1, nextSeq)
  BY <1>5, ZenonT(60) DEF Stages
<1>7. c1.status # "ROBSquashing" /\ c1.last = lastCommitedSeqNum
  <2>1. c1.last = lastCommitedSeqNum
    BY <1>6, ZenonT(60) DEF Fresh
  <2>2. CASE c1.status = "ROBSquashing"
    <3>1. c2 = c1
      BY <2>2, ZenonT(60) DEF Stages
    <3> QED
      BY <2>1, <3>1, <1>2, <1>3
  <2> QED
    BY <2>1, <2>2, ZenonT(60)
<1>8. c1.rob = rob /\ c1.it = squashIt
  BY <1>6, <1>7, ZenonT(60) DEF Fresh
<1>9. /\ (d = c1 /\ c1.status = "TrapPending") \/ GotInsts(c1, d, kinds)
      /\ Chain(d.rob) /\ CommitShape(d, c2, m)
  BY <1>5, <1>7, ZenonT(60) DEF Stages
<1>10. /\ DOMAIN rob \subseteq DOMAIN d.rob
       /\ \A h \in DOMAIN rob : d.rob[h] = rob[h]
  <2>1. CASE d = c1
    BY <2>1, <1>8, ZenonT(60)
  <2>2. CASE GotInsts(c1, d, kinds)
    <3>1. Len(kinds) \in Nat
      BY RenamedFacts, ZenonT(60) DEF RobInv
    <3>2. c1.rob \in Seq(Inst)
      BY <1>6, ZenonT(60) DEF StageOK, Cycle
    <3>3. /\ DOMAIN c1.rob \subseteq DOMAIN d.rob
          /\ \A h \in DOMAIN c1.rob : d.rob[h] = c1.rob[h]
      BY <2>2, <3>1, <3>2, <1>9, GotInstsPrefix, ZenonT(60)
    <3> QED
      BY <3>3, <1>8, ZenonT(60)
  <2> QED
    BY <2>1, <2>2, <1>9, ZenonT(60)
<1>11. d.last = lastCommitedSeqNum
  BY <1>7, <1>9, ZenonT(60) DEF GotInsts
<1>12. rob[k].sn > d.last /\ ~(rob[k].sn > c2.last)
  <2>a. lastCommitedSeqNum' \in Nat
    BY <1>9, ZenonT(60) DEF CommitShape, Cycle
  <2>1. rob[k].sn > lastCommitedSeqNum /\ ~(rob[k].sn > lastCommitedSeqNum')
    BY <2>a, <1>2, <1>3
  <2> QED
    BY <2>1, <1>11, ZenonT(60)
<1>13. \A h \in 1..k : h \in DOMAIN rob /\ Leaves(rob[h])
  BY <1>2, <1>3, <1>9, <1>10, <1>11, <1>12, CommittedLeaves, ZenonT(60)
<1>14. Ready(rob, k) /\ rob[k].canCommit
  <2>1. k \in 1..k /\ \A h \in 1..k - 1 : h \in 1..k
    BY <1>3
  <2>2. rob[k].canCommit
    BY <2>1, <1>13, ZenonT(60) DEF Leaves
  <2>3. ASSUME NEW h \in 1..k - 1 PROVE completed(rob[h])
    BY <2>1, <1>13, ZenonT(60) DEF Leaves, completed
  <2> QED
    BY <2>2, <2>3, ZenonT(60) DEF Ready
<1>15. squashIt = 0
  <2>1. c1.it > 0 => c1.status = "ROBSquashing"
    BY <1>6, ZenonT(60) DEF StageOK, WalkOK
  <2>2. c1.it \in Nat
    BY <1>6, ZenonT(60) DEF StageOK, Cycle
  <2> QED
    BY <2>1, <2>2, <1>7, <1>8
<1>16. isMemRef(rob[k])
  BY <1>3, ZenonT(60) DEF InstOK, isMemRef
<1> QED
  BY <1>1, <1>14, <1>15, <1>16, ZenonT(60) DEF Seen

-----------------------------------------------------------------------------
(* What follows from the invariant. *)

\* The flag of an access in flight, from the invariant.
LEMMA FlagsAreExact ==
    ASSUME RobInv, robInsert
    PROVE  FlagIsExact
<1> SUFFICES ASSUME NEW k \in DOMAIN rob,
                    isMemRef(rob[k]), ~rob[k].squashed
             PROVE  /\ (\A h \in 1..k - 1 : completed(rob[h]))
                          => rob[k].PrevInstsCompleted
                    /\ rob[k].PrevInstsCompleted =>
                          \A h \in 1..k - 1 :
                             completed(rob[h]) \/ rob[h].fault = "reexec"
  BY ZenonT(60) DEF FlagIsExact
<1>1. Seen(rob, squashIt) /\ Chain(rob)
  BY ZenonT(60) DEF RobInv
<1>2. (\A h \in 1..k - 1 : completed(rob[h])) => rob[k].PrevInstsCompleted
  BY <1>1, ZenonT(60) DEF Seen, Ready
<1>3. ASSUME rob[k].PrevInstsCompleted, NEW h \in 1..k - 1
      PROVE  completed(rob[h]) \/ rob[h].fault = "reexec"
  <2>1. h \in DOMAIN rob /\ h < k /\ rob[h] \in Inst
    BY <1>1, RobFacts
  <2>2. PairOK(rob[h], rob[k])
    BY <1>1, <2>1 DEF Chain
  <2> QED
    BY <1>3, <2>1, <2>2, ZenonT(60) DEF PairOK, completed, Inst
<1> QED
  BY <1>2, <1>3, ZenonT(60)

\* What was let fill, or was sent to the SHB, is not undone: from the invariant.
LEMMA SafeStaysSafe ==
    ASSUME RobInv, Protected
    PROVE  SafeIsNeverUndone
<1> SUFFICES ASSUME NEW k \in DOMAIN rob,
                    \/ /\ rob[k].kind = "load" /\ rob[k].st \in {"sent", "executed"}
                       /\ ~rob[k].noFill
                    \/ rob[k].SHTinserted
             PROVE  /\ \A sig \in {toCommit, fromIEW} :
                          sig.squash => \/ rob[k].sn < sig.sn
                                        \/ rob[k].sn = sig.sn /\ ~sig.includeSquashInst
                                        \/ rob[k].squashed
                    /\ \A h \in 1..k - 1 : rob[h].fault # "fault"
  BY ZenonT(60) DEF SafeIsNeverUndone
<1>1. /\ Chain(rob) /\ toCommit \in Signal /\ fromIEW \in Signal
      /\ Raised(rob, toCommit, fromIEW.insts) /\ WasRaised(rob, fromIEW)
  BY ZenonT(60) DEF RobInv
<1>2. DOMAIN rob = 1..Len(rob) /\ Len(rob) \in Nat
      /\ \A j \in DOMAIN rob : rob[j].sn \in Nat /\ InstOK(rob[j])
  BY <1>1, RobFacts, ZenonT(60) DEF Chain, Inst
<1>3. rob[k].PrevInstsCompleted
  BY <1>2, ZenonT(60) DEF InstOK
<1>4. ASSUME NEW h \in DOMAIN rob, h < k
      PROVE  /\ rob[h].canCommit /\ rob[h].fault # "fault"
             /\ rob[h].squashed => rob[k].squashed
  BY <1>1, <1>3, <1>4, ZenonT(60) DEF Chain, PairOK
<1>5. ASSUME NEW sig \in Signal, NEW j \in DOMAIN rob, Spares(sig, rob[j]), ~(j < k)
      PROVE  Spares(sig, rob[k])
  <2>1. CASE j = k
    BY <2>1, <1>5, ZenonT(60)
  <2>2. CASE k < j
    <3>1. rob[k].sn < rob[j].sn
      BY <2>2, <1>1, ZenonT(60) DEF Chain, PairOK
    <3>2. sig.sn \in Nat
      BY DEF Signal
    <3> QED
      BY <3>1, <3>2, <1>2, <1>5 DEF Spares
  <2> QED
    <3>1. j = k \/ k < j
      BY <1>2, <1>5
    <3> QED
      BY <3>1, <2>1, <2>2, ZenonT(60)
<1>6. ASSUME toCommit.squash PROVE Spares(toCommit, rob[k])
  <2>1. PICK j \in DOMAIN rob : Spares(toCommit, rob[j]) /\ ~rob[j].canCommit
    BY <1>1, <1>6, ZenonT(60) DEF Raised
  <2> QED
    BY <2>1, <1>1, <1>4, <1>5, ZenonT(60)
<1>7. ASSUME fromIEW.squash PROVE Spares(fromIEW, rob[k]) \/ rob[k].squashed
  <2>1. PICK j \in DOMAIN rob :
           Spares(fromIEW, rob[j]) /\ (rob[j].squashed \/ ~rob[j].canCommit)
    BY <1>1, <1>7, ZenonT(60) DEF WasRaised
  <2> QED
    BY <2>1, <1>1, <1>4, <1>5, ZenonT(60)
<1>8. \A h \in 1..k - 1 : rob[h].fault # "fault"
  BY <1>2, <1>4
<1> QED
  BY <1>6, <1>7, <1>8, ZenonT(60) DEF Spares

\* The order of the SHB, from the invariant.
LEMMA SentInOrder ==
    ASSUME RobInv
    PROVE  SHBInProgramOrder
<1>1. InOrder(Begin.shb) /\ Begin.shb = shb
  BY ZenonT(60) DEF RobInv, ShbOK, Begin
<1>2. InOrder(shb)
  BY <1>1
<1> QED
  BY <1>2 DEF InOrder, SHBInProgramOrder

-----------------------------------------------------------------------------
(* The theorems. *)

LOCAL INSTANCE WellFoundedInduction

\* A set of naturals has a least element.
LEMMA NatWellOrdered == WellOrdered
<1> SUFFICES ASSUME NEW S \in SUBSET Nat, S # {}
             PROVE  \E x \in S : \A y \in S : x <= y
  BY DEF WellOrdered
<1>1. IsWellFoundedOn(OpToRel(<, Nat), Nat)
  BY NatLessThanWellFounded, ZenonT(60)
<1>2. PICK x \in S : \A y \in S : ~(<<y, x>> \in OpToRel(<, Nat))
  BY <1>1, WFMin, ZenonT(60)
<1>3. \A y \in S : ~(y < x)
  BY <1>2, ZenonT(60) DEF OpToRel
<1> QED
  BY <1>3

\* Whatever the sizes, the widths, the protection mode and the program, every
\* reachable state of the reorder buffer satisfies the invariant: program order,
\* what the flags of an instruction mean, where a squash walk stands, what IEW
\* was told, what was raised, and what the SHB was sent.
THEOREM RobSafe == Spec => []RobInv
<1>1. Init => RobInv
  BY RobInit
<1>2. RobInv /\ [Next]_vars => RobInv'
  BY RobStep, NatWellOrdered
<1> QED
  BY <1>1, <1>2, PTL DEF Spec

\* For every program: when the ROB feeds the SHB, PrevInstsCompleted of an access
\* in flight says exactly that everything older is complete.
THEOREM RobFlagIsExact == Spec => [](robInsert => FlagIsExact)
<1>1. RobInv => (robInsert => FlagIsExact)
  BY FlagsAreExact
<1> QED
  BY <1>1, RobSafe, PTL

\* For every program, in every protection mode: a load that was let fill the
\* cache, and an access that was sent to the SHB, is never undone by a squash
\* that IEW raises, nor by a fault of an older instruction.
THEOREM RobSafeIsNeverUndone == Spec => [](Protected => SafeIsNeverUndone)
<1>1. RobInv => (Protected => SafeIsNeverUndone)
  BY SafeStaysSafe
<1> QED
  BY <1>1, RobSafe, PTL

\* For every program: the SHB receives accesses in program order, each at most
\* once, and at most one of those that a squash removes.
THEOREM RobSHBInProgramOrder == Spec => []SHBInProgramOrder
<1>1. RobInv => SHBInProgramOrder
  BY SentInOrder
<1> QED
  BY <1>1, RobSafe, PTL

\* For every program in which the thread context is not written while an
\* instruction that squashes behind itself may be in flight, the assertions of
\* commit hold.
THEOREM RobAssertsHold ==
    ASSUME \A s \in Scenarios : ~(s.tcWrites /\ "squashafter" \in s.Kinds)
    PROVE  Spec => AssertsHold
<1> DEFINE A == /\ rob # << >> /\ commitStatus = "Running" =>
                      \/ rob[1].st = "executed" \/ rob[1].squashed \/ ~rob[1].canCommit
                      \/ rob[1].kind \in Special
                /\ tcSquash => ~trapSquash /\ commitStatus # "TrapPending"
                /\ squashAfterInst' # squashAfterInst /\ squashAfterInst' # 0
                      => squashAfterInst = 0
<1>1. RobInv /\ [Next]_vars => A
  BY AssertsStep, NatWellOrdered, ZenonT(60)
<1>2. AssertsHold <=> [][A]_vars
  BY DEF AssertsHold
<1> HIDE DEF A
<1> QED
  BY <1>1, <1>2, RobSafe, PTL DEF Spec

\* For every program: when the ROB feeds the SHB, a load that sent a packet and
\* commits was sent to the SHB before, unless it commits right behind an
\* instruction that executes at the head or the remains of a squash.
THEOREM RobCommittedLoadIsInserted ==
    ASSUME robInsert
    PROVE  Spec => CommittedLoadIsInserted
<1> DEFINE A == \A k \in DOMAIN rob :
                   /\ rob[k].sn \in lastCommitedSeqNum + 1 .. lastCommitedSeqNum'
                   /\ ~rob[k].squashed /\ rob[k].SHTpkt
                   => \/ rob[k].SHTinserted
                      \/ \E h \in 1..k - 1 : rob[h].kind \in Special \/ rob[h].squashed
<1>1. RobInv /\ [Next]_vars => A
  BY CommitsStep, NatWellOrdered, ZenonT(60)
<1>2. CommittedLoadIsInserted <=> [][A]_vars
  BY DEF CommittedLoadIsInserted
<1> HIDE DEF A
<1> QED
  BY <1>1, <1>2, RobSafe, PTL DEF Spec

=============================================================================

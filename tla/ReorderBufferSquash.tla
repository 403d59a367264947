------------------------ MODULE ReorderBufferSquash -------------------------
(* The first stages of a cycle of commit keep the invariant: the squash walk and *)
(* the squashes that start it.                                                  *)
EXTENDS ReorderBufferInv

\* The provers of the leaves that name none, in the order in which they are tried.
USE SMTT(60), Z3T(60), ZenonT(60)

-----------------------------------------------------------------------------
(* The ROB. *)

\* The length and the elements of the ROB.
LEMMA RobFacts ==
    ASSUME NEW r, Chain(r)
    PROVE  /\ Len(r) \in Nat /\ DOMAIN r = 1..Len(r)
           /\ \A k \in DOMAIN r : r[k] \in Inst /\ InstOK(r[k])
           /\ \A h, k \in DOMAIN r : h < k => r[h].sn < r[k].sn
           /\ \A h, k \in DOMAIN r : r[h].sn < r[k].sn => h < k
           /\ r # << >> <=> Len(r) > 0
           /\ r # << >> => 1 \in DOMAIN r /\ \A k \in DOMAIN r : r[1].sn <= r[k].sn
<1>1. r \in Seq(Inst) /\ Len(r) \in Nat /\ DOMAIN r = 1..Len(r)
  BY DEF Chain
<1>2. \A k \in DOMAIN r : r[k] \in Inst /\ InstOK(r[k])
  BY <1>1 DEF Chain
<1>3. \A k \in DOMAIN r : r[k].sn \in Nat
  BY <1>2, ZenonT(60) DEF Inst
<1>4. \A h, k \in DOMAIN r : h < k => r[h].sn < r[k].sn
  BY ZenonT(60) DEF Chain, PairOK
<1>5. \A h, k \in DOMAIN r : r[h].sn < r[k].sn => h < k
  BY <1>1, <1>3, <1>4
<1>6. r # << >> <=> Len(r) > 0
  BY <1>1
<1> QED
  BY <1>1, <1>2, <1>3, <1>4, <1>5, <1>6

-----------------------------------------------------------------------------
(* The walk. *)

walked(i, s) == [setSquashed(i, s) EXCEPT !.canCommit = TRUE]

\* What the walk does to one instruction.
WalkedTo(i, w, s) ==
    /\ w \in Inst /\ InstOK(w)
    /\ w.squashed /\ w.canCommit
    /\ w.from = IF i.squashed THEN i.from ELSE {s}
    /\ w.sn = i.sn /\ w.kind = i.kind /\ w.st = i.st /\ w.fault = i.fault
    /\ w.SHTpkt = i.SHTpkt /\ w.SHTinserted = i.SHTinserted
    /\ w.PrevInstsCompleted = i.PrevInstsCompleted /\ w.noFill = i.noFill

\* One instruction that the walk marks: what changes of it and what does not.
LEMMA WalkedFacts ==
    ASSUME NEW i, InstOK(i), NEW s \in Nat, s < i.sn
    PROVE  WalkedTo(i, walked(i, s), s)
<1> DEFINE w == walked(i, s)
<1>1. i \in Inst
  BY ZenonT(60) DEF InstOK
<1>2. /\ w \in Inst
      /\ w.squashed = TRUE /\ w.canCommit = TRUE
      /\ w.from = IF i.squashed THEN i.from ELSE {s}
      /\ w.sn = i.sn /\ w.kind = i.kind /\ w.st = i.st /\ w.fault = i.fault
      /\ w.SHTpkt = i.SHTpkt /\ w.SHTinserted = i.SHTinserted
      /\ w.PrevInstsCompleted = i.PrevInstsCompleted /\ w.noFill = i.noFill
  BY <1>1, ZenonT(60) DEF walked, setSquashed, Inst
<1> HIDE DEF w
<1>3. \A t \in w.from : t < w.sn /\ w.from = {t}
  BY <1>2 DEF InstOK
<1>4. w.from # {} <=> w.squashed
  BY <1>2, ZenonT(60) DEF InstOK
<1>5. InstOK(w)
  BY <1>2, <1>3, <1>4, ZenonT(60) DEF InstOK, isMemRef
<1> QED
  BY <1>2, <1>5, ZenonT(60) DEF w, WalkedTo

\* A cycle of the walk that comes down to position upto marks the instruction at k.
Met(c, k, upto) == k > upto /\ k <= c.it /\ c.rob[k].sn > c.sq

\* d is c after a cycle of the walk, which has come down to position upto.
WalkStep(c, d, upto) ==
    /\ d \in Cycle
    /\ Len(d.rob) = Len(c.rob)
    /\ \A k \in DOMAIN c.rob :
          d.rob[k] = IF Met(c, k, upto) THEN walked(c.rob[k], c.sq) ELSE c.rob[k]
    /\ \A k \in DOMAIN c.rob :
          k <= c.it /\ c.rob[k].sn > c.sq => k > upto \/ k <= d.it
    /\ d.it <= c.it
    /\ d.sq = c.sq /\ d.status = c.status /\ d.trap = c.trap /\ d.tc = c.tc
    /\ d.after = c.after /\ d.youngest = c.youngest /\ d.last = c.last
    /\ d.shb = c.shb /\ d.lq = c.lq /\ d.stores = c.stores
    /\ d.squash = c.squash /\ d.num = c.num /\ d.stop = c.stop

\* A cycle of the walk marks the instructions between its position and where it
\* stops, and finishes when nothing younger than squashedSeqNum is left.
LEMMA DoSquashStep ==
    ASSUME NEW c \in Cycle, Chain(c.rob), c.it <= Len(c.rob)
    PROVE  \E upto \in Nat : WalkStep(c, doSquash(c), upto)
<1> DEFINE upto == IF c.it > squashWidth THEN c.it - squashWidth ELSE 0
           rob1 == [k \in DOMAIN c.rob |->
                       IF k \in upto + 1 .. c.it /\ c.rob[k].sn > c.sq
                       THEN walked(c.rob[k], c.sq) ELSE c.rob[k]]
           it1 == IF upto = 0 THEN 0 ELSE IF c.rob[upto].sn <= c.sq THEN 0 ELSE upto
<1>1. /\ c.it \in Nat /\ c.sq \in Nat /\ squashWidth \in Nat \ {0}
      /\ Len(c.rob) \in Nat /\ DOMAIN c.rob = 1..Len(c.rob)
  BY RobFacts, RobAssumption, ZenonT(60) DEF Cycle
<1>2. \A k \in DOMAIN c.rob : c.rob[k].sn \in Nat
  BY RobFacts, ZenonT(60) DEF Inst
<1>3. doSquash(c) = [c EXCEPT !.rob = rob1, !.it = it1]
  BY ZenonT(60) DEF doSquash, walked
<1>4. upto \in Nat /\ upto <= c.it
  BY <1>1
<1> HIDE DEF upto
<1>5. it1 \in Nat /\ it1 <= c.it
  <2>1. it1 = 0 \/ it1 = upto
    BY ZenonT(60)
  <2> QED
    BY <1>1, <1>4, <2>1
<1>6. ASSUME NEW k \in DOMAIN c.rob, k <= c.it, c.rob[k].sn > c.sq
      PROVE  k > upto \/ k <= it1
  <2>1. k < upto => upto \in DOMAIN c.rob /\ c.rob[k].sn < c.rob[upto].sn
    BY <1>1, <1>4, RobFacts
  <2> QED
    BY <1>1, <1>2, <1>4, <1>6, <2>1
<1>7. \A k \in DOMAIN c.rob :
         rob1[k] = IF Met(c, k, upto) THEN walked(c.rob[k], c.sq) ELSE c.rob[k]
  BY <1>1, <1>4 DEF Met
<1>8. rob1 \in Seq(Inst) /\ Len(rob1) = Len(c.rob)
  <2>1. ASSUME NEW k \in DOMAIN c.rob PROVE rob1[k] \in Inst
    <3>1. c.rob[k] \in Inst /\ InstOK(c.rob[k])
      BY RobFacts, ZenonT(60)
    <3>2. c.rob[k].sn > c.sq => walked(c.rob[k], c.sq) \in Inst
      BY <1>1, <1>2, <3>1, WalkedFacts, ZenonT(60) DEF WalkedTo
    <3> QED
      BY <3>1, <3>2, ZenonT(60)
  <2>2. rob1 \in [1..Len(c.rob) -> Inst]
    BY <2>1, <1>1, ZenonT(60)
  <2> HIDE DEF rob1
  <2> QED
    BY <2>2, <1>1
<1> HIDE DEF rob1, it1
<1>9. WalkStep(c, [c EXCEPT !.rob = rob1, !.it = it1], upto)
  BY <1>5, <1>6, <1>7, <1>8, ZenonT(60) DEF WalkStep, Cycle
<1> QED
  BY <1>3, <1>4, <1>9

\* A cycle of the walk leaves the ROB as long as it was.
LEMMA WalkLength ==
    ASSUME NEW c \in Cycle, NEW d, NEW upto \in Nat, WalkStep(c, d, upto),
           Chain(c.rob)
    PROVE  /\ DOMAIN d.rob = DOMAIN c.rob /\ DOMAIN c.rob = 1..Len(c.rob)
           /\ Len(c.rob) \in Nat
<1>1. c.rob \in Seq(Inst) /\ d.rob \in Seq(Inst) /\ Len(d.rob) = Len(c.rob)
  BY ZenonT(60) DEF WalkStep, Cycle
<1> QED
  BY <1>1

\* It marks an instruction that it meets and leaves the others.
LEMMA WalkInst ==
    ASSUME NEW c \in Cycle, NEW d, NEW upto \in Nat, WalkStep(c, d, upto),
           Chain(c.rob)
    PROVE  \A k \in DOMAIN c.rob :
              /\ c.rob[k] \in Inst /\ InstOK(c.rob[k])
              /\ Met(c, k, upto) => /\ c.rob[k].sn > c.sq
                                    /\ WalkedTo(c.rob[k], d.rob[k], c.sq)
              /\ ~Met(c, k, upto) => d.rob[k] = c.rob[k]
<1>1. c.sq \in Nat
  BY ZenonT(60) DEF Cycle
<1>2. ASSUME NEW k \in DOMAIN c.rob
      PROVE  c.rob[k] \in Inst /\ InstOK(c.rob[k]) /\ c.rob[k].sn \in Nat
  BY RobFacts, ZenonT(60) DEF Inst
<1>3. ASSUME NEW k \in DOMAIN c.rob, Met(c, k, upto)
      PROVE  c.rob[k].sn > c.sq /\ WalkedTo(c.rob[k], d.rob[k], c.sq)
  <2>1. c.rob[k].sn > c.sq /\ d.rob[k] = walked(c.rob[k], c.sq)
    BY <1>3, ZenonT(60) DEF WalkStep, Met
  <2>2. c.sq < c.rob[k].sn
    BY <2>1, <1>1, <1>2
  <2>3. WalkedTo(c.rob[k], walked(c.rob[k], c.sq), c.sq)
    BY <2>2, <1>1, <1>2, WalkedFacts, ZenonT(60)
  <2> QED
    BY <2>1, <2>3, ZenonT(60)
<1>4. ASSUME NEW k \in DOMAIN c.rob, ~Met(c, k, upto)
      PROVE  d.rob[k] = c.rob[k]
  BY <1>4, ZenonT(60) DEF WalkStep
<1> QED
  BY <1>2, <1>3, <1>4, ZenonT(60)

\* It leaves what an instruction is and how far it has come.
LEMMA WalkKeeps ==
    ASSUME NEW c \in Cycle, NEW d, NEW upto \in Nat, WalkStep(c, d, upto),
           Chain(c.rob)
    PROVE  \A k \in DOMAIN c.rob :
              /\ d.rob[k].sn = c.rob[k].sn /\ d.rob[k].kind = c.rob[k].kind
              /\ d.rob[k].st = c.rob[k].st /\ d.rob[k].fault = c.rob[k].fault
<1>1. ASSUME NEW k \in DOMAIN c.rob, Met(c, k, upto)
      PROVE  /\ d.rob[k].sn = c.rob[k].sn /\ d.rob[k].kind = c.rob[k].kind
             /\ d.rob[k].st = c.rob[k].st /\ d.rob[k].fault = c.rob[k].fault
  <2>1. WalkedTo(c.rob[k], d.rob[k], c.sq)
    BY <1>1, WalkInst, ZenonT(60)
  <2> QED
    BY <2>1 DEF WalkedTo
<1> QED
  BY <1>1, WalkInst, ZenonT(60)

\* It leaves the flags of the RaS extension.
LEMMA WalkKeepsFlags ==
    ASSUME NEW c \in Cycle, NEW d, NEW upto \in Nat, WalkStep(c, d, upto),
           Chain(c.rob)
    PROVE  \A k \in DOMAIN c.rob :
              /\ d.rob[k].SHTpkt = c.rob[k].SHTpkt
              /\ d.rob[k].SHTinserted = c.rob[k].SHTinserted
              /\ d.rob[k].PrevInstsCompleted = c.rob[k].PrevInstsCompleted
<1>1. ASSUME NEW k \in DOMAIN c.rob, Met(c, k, upto)
      PROVE  /\ d.rob[k].SHTpkt = c.rob[k].SHTpkt
             /\ d.rob[k].SHTinserted = c.rob[k].SHTinserted
             /\ d.rob[k].PrevInstsCompleted = c.rob[k].PrevInstsCompleted
  <2>1. WalkedTo(c.rob[k], d.rob[k], c.sq)
    BY <1>1, WalkInst, ZenonT(60)
  <2> QED
    BY <2>1 DEF WalkedTo
<1> QED
  BY <1>1, WalkInst, ZenonT(60)

\* It squashes what it meets and nothing else.
LEMMA WalkMarks ==
    ASSUME NEW c \in Cycle, NEW d, NEW upto \in Nat, WalkStep(c, d, upto),
           Chain(c.rob)
    PROVE  \A k \in DOMAIN c.rob :
              /\ d.rob[k] \in Inst /\ InstOK(d.rob[k])
              /\ c.rob[k].squashed =>
                    d.rob[k].squashed /\ d.rob[k].from = c.rob[k].from
              /\ c.rob[k].canCommit => d.rob[k].canCommit
              /\ Met(c, k, upto) =>
                    /\ d.rob[k].squashed /\ d.rob[k].canCommit
                    /\ ~c.rob[k].squashed => d.rob[k].from = {c.sq}
              /\ ~Met(c, k, upto) => d.rob[k] = c.rob[k]
<1>1. ASSUME NEW k \in DOMAIN c.rob, Met(c, k, upto)
      PROVE  /\ d.rob[k] \in Inst /\ InstOK(d.rob[k])
             /\ d.rob[k].squashed /\ d.rob[k].canCommit
             /\ d.rob[k].from = IF c.rob[k].squashed THEN c.rob[k].from ELSE {c.sq}
  <2>1. WalkedTo(c.rob[k], d.rob[k], c.sq)
    BY <1>1, WalkInst, ZenonT(60)
  <2> QED
    BY <2>1 DEF WalkedTo
<1>2. ASSUME NEW k \in DOMAIN c.rob, ~Met(c, k, upto)
      PROVE  d.rob[k] = c.rob[k] /\ d.rob[k] \in Inst /\ InstOK(d.rob[k])
  BY <1>2, WalkInst, ZenonT(60)
<1> QED
  BY <1>1, <1>2

\* The walk keeps the order and the meaning of the flags.
LEMMA WalkChain ==
    ASSUME NEW c \in Cycle, NEW d, NEW upto \in Nat, WalkStep(c, d, upto),
           Chain(c.rob), WalkOK(c), ToldOK(c), c.status = "ROBSquashing"
    PROVE  Chain(d.rob)
<1>1. /\ DOMAIN d.rob = DOMAIN c.rob
      /\ \A k \in DOMAIN d.rob : InstOK(d.rob[k])
      /\ \A k \in DOMAIN c.rob : c.rob[k] \in Inst
  BY WalkLength, WalkInst, WalkMarks, ZenonT(60)
<1>a. d.rob \in Seq(Inst) /\ c.sq \in Nat
  BY ZenonT(60) DEF WalkStep, Cycle
<1>b. \A k \in DOMAIN c.rob : c.rob[k].sn \in Nat
  BY <1>1, ZenonT(60) DEF Inst
<1>2. ASSUME NEW h \in DOMAIN c.rob, NEW k \in DOMAIN c.rob, h < k
      PROVE  PairOK(d.rob[h], d.rob[k])
  <2>1. PairOK(c.rob[h], c.rob[k])
    BY <1>2, ZenonT(60) DEF Chain
  <2>a. /\ d.rob[h].sn = c.rob[h].sn /\ d.rob[h].kind = c.rob[h].kind
        /\ d.rob[h].st = c.rob[h].st /\ d.rob[h].fault = c.rob[h].fault
        /\ c.rob[h].canCommit => d.rob[h].canCommit
        /\ d.rob[k].sn = c.rob[k].sn
        /\ c.rob[k].squashed => d.rob[k].squashed
        /\ d.rob[k].PrevInstsCompleted = c.rob[k].PrevInstsCompleted
    <3>1. /\ d.rob[h].sn = c.rob[h].sn /\ d.rob[h].kind = c.rob[h].kind
          /\ d.rob[h].st = c.rob[h].st /\ d.rob[h].fault = c.rob[h].fault
          /\ d.rob[k].sn = c.rob[k].sn
      BY WalkKeeps, ZenonT(60)
    <3>2. d.rob[k].PrevInstsCompleted = c.rob[k].PrevInstsCompleted
      BY WalkKeepsFlags, ZenonT(60)
    <3>3. /\ c.rob[h].canCommit => d.rob[h].canCommit
          /\ c.rob[k].squashed => d.rob[k].squashed
      BY WalkMarks, ZenonT(60)
    <3> QED
      BY <3>1, <3>2, <3>3, ZenonT(60)
  <2>2. CASE ~Met(c, h, upto)
    BY <2>1, <2>2, <2>a, WalkMarks DEF PairOK
  <2>3. CASE Met(c, h, upto) /\ k <= c.it
    <3>1. Met(c, k, upto)
      BY <2>1, <2>3, <1>2, <1>a, <1>b, WalkLength DEF Met, PairOK
    <3> QED
      BY <2>1, <2>3, <3>1, <2>a, WalkMarks DEF PairOK
  <2>4. CASE Met(c, h, upto) /\ ~(k <= c.it)
    <3>1. c.rob[k].sn > c.sq
      <4>1. c.rob[h].sn > c.sq
        BY <2>4, WalkInst, ZenonT(60)
      <4> QED
        BY <4>1, <2>1, <1>a, <1>b DEF PairOK
    <3>2. isMemRef(c.rob[k]) => c.rob[k].squashed
      <4>1. CASE c.squash = {}
        BY <4>1, <3>1, ZenonT(60) DEF ToldOK
      <4>2. CASE c.squash # {}
        <5>1. c.rob # << >>
          BY WalkLength
        <5> QED
          BY <4>2, <3>1, <2>4, <5>1, ZenonT(60) DEF ToldOK
      <4> QED
        BY <4>1, <4>2, ZenonT(60)
    <3>3. c.rob[k].PrevInstsCompleted => isMemRef(c.rob[k])
      BY RobFacts DEF InstOK
    <3> QED
      BY <2>1, <2>4, <3>2, <3>3, <2>a DEF PairOK
  <2> QED
    BY <2>2, <2>3, <2>4, ZenonT(60)
<1> QED
  BY <1>1, <1>a, <1>2, ZenonT(60) DEF Chain

\* The walk leaves nothing half squashed behind it.
LEMMA WalkWalkOK ==
    ASSUME NEW c \in Cycle, NEW d, NEW upto \in Nat, WalkStep(c, d, upto),
           Chain(c.rob), WalkOK(c), c.status = "ROBSquashing"
    PROVE  WalkOK(d)
<1>1. /\ d.status = "ROBSquashing" /\ d.sq = c.sq /\ d.last = c.last
      /\ d.youngest = c.youngest /\ d.it <= c.it /\ Len(d.rob) = Len(c.rob)
      /\ d.it \in Nat /\ c.it \in Nat
  BY ZenonT(60) DEF WalkStep, Cycle
<1>2. /\ DOMAIN d.rob = DOMAIN c.rob /\ DOMAIN c.rob = 1..Len(c.rob)
      /\ Len(c.rob) \in Nat
  BY WalkLength, ZenonT(60)
<1>3. ASSUME NEW j \in DOMAIN c.rob, ToWalk(c, j)
      PROVE  (d.rob[j].squashed /\ d.rob[j].canCommit) \/ ToWalk(d, j)
  <2>1. j <= c.it /\ c.rob[j].sn > c.sq
    BY <1>3, ZenonT(60) DEF ToWalk
  <2>2. CASE j > upto
    BY <2>1, <2>2, WalkMarks, ZenonT(60) DEF Met
  <2>3. CASE j <= d.it
    BY <2>1, <2>3, <1>1, WalkKeeps, ZenonT(60) DEF ToWalk
  <2> QED
    BY <2>1, <2>2, <2>3, ZenonT(60) DEF WalkStep
<1>4. ASSUME NEW k \in DOMAIN c.rob, HalfSquashed(d.rob[k])
      PROVE  ToWalk(d, k)
  <2>1. ~Met(c, k, upto)
    BY <1>4, WalkMarks, ZenonT(60) DEF HalfSquashed
  <2>2. d.rob[k] = c.rob[k]
    BY <2>1, WalkMarks
  <2>3. ToWalk(c, k)
    BY <2>2, <1>4, ZenonT(60) DEF WalkOK
  <2> QED
    BY <1>3, <1>4, <2>3, ZenonT(60) DEF HalfSquashed
<1>5. ASSUME NEW k \in DOMAIN c.rob, NEW s \in d.rob[k].from, NEW j \in 1..k - 1,
             d.rob[j].sn > s
      PROVE  d.rob[j].squashed \/ ToWalk(d, j)
  <2>1. j \in DOMAIN c.rob /\ j < k /\ d.rob[j].sn = c.rob[j].sn
    BY <1>2, <1>5, WalkKeeps
  <2>2. CASE c.rob[k].squashed \/ ~Met(c, k, upto)
    <3>1. d.rob[k].from = c.rob[k].from
      BY <2>2, WalkMarks, ZenonT(60)
    <3>2. c.rob[j].squashed \/ ToWalk(c, j)
      BY <3>1, <2>1, <1>5, ZenonT(60) DEF WalkOK
    <3> QED
      BY <3>2, <2>1, <1>3, WalkMarks, ZenonT(60)
  <2>3. CASE ~c.rob[k].squashed /\ Met(c, k, upto)
    <3>1. s = c.sq
      BY <2>3, <1>5, WalkMarks
    <3>2. ToWalk(c, j)
      BY <3>1, <2>1, <2>3, <1>1, <1>2, <1>5 DEF ToWalk, Met
    <3> QED
      BY <3>2, <2>1, <1>3, ZenonT(60)
  <2> QED
    BY <2>2, <2>3, ZenonT(60)
<1>6. \A k \in DOMAIN c.rob : d.rob[k].sn = c.rob[k].sn /\ c.rob[k].sn > c.last
  BY WalkKeeps DEF WalkOK
<1>7. d.rob # << >> => /\ c.rob # << >> /\ 1 \in DOMAIN c.rob
                       /\ d.rob[1].sn = c.rob[1].sn
  BY <1>1, <1>2, WalkKeeps
<1>8. c.rob # << >> => c.youngest <= c.sq /\ c.rob[1].sn <= c.sq + 1
  BY ZenonT(60) DEF WalkOK
<1>9. d.it <= Len(d.rob)
  BY <1>1, <1>2 DEF WalkOK
<1> QED
  BY <1>1, <1>2, <1>4, <1>5, <1>6, <1>7, <1>8, <1>9, ZenonT(60) DEF WalkOK

\* The walk leaves what IEW was told.
LEMMA WalkToldOK ==
    ASSUME NEW c \in Cycle, NEW d, NEW upto \in Nat, WalkStep(c, d, upto),
           Chain(c.rob), ToldOK(c), c.status = "ROBSquashing"
    PROVE  ToldOK(d)
<1>1. d.status = "ROBSquashing" /\ d.sq = c.sq /\ d.squash = c.squash
  BY ZenonT(60) DEF WalkStep
<1>2. DOMAIN d.rob = DOMAIN c.rob
  BY WalkLength, ZenonT(60)
<1>3. ASSUME c.squash = {}, NEW k \in DOMAIN c.rob, d.rob[k].sn > c.sq
      PROVE  d.rob[k].st \in Ended /\ (isMemRef(d.rob[k]) => d.rob[k].squashed)
  <2>1. c.rob[k].st \in Ended /\ (isMemRef(c.rob[k]) => c.rob[k].squashed)
    BY <1>3, WalkKeeps DEF ToldOK
  <2> QED
    BY <2>1, WalkKeeps, WalkMarks DEF isMemRef
<1>4. ASSUME c.squash # {}, d.rob # << >>
      PROVE  c.rob # << >> /\ c.squash = {c.sq}
  <2>1. c.rob \in Seq(Inst) /\ d.rob \in Seq(Inst) /\ Len(d.rob) = Len(c.rob)
    BY ZenonT(60) DEF WalkStep, Cycle
  <2>2. c.rob # << >>
    BY <1>4, <2>1
  <2> QED
    BY <1>4, <2>2, ZenonT(60) DEF ToldOK
<1>5. ASSUME c.squash # {}, NEW k \in DOMAIN c.rob, d.rob[k].sn > c.sq
      PROVE  d.rob[k].squashed \/ k <= d.it
  <2>1. c.rob[k].squashed \/ k <= c.it
    BY <1>5, WalkKeeps DEF ToldOK
  <2>2. CASE c.rob[k].squashed
    BY <2>2, WalkMarks, ZenonT(60)
  <2>3. CASE k <= c.it
    <3>1. k > upto \/ k <= d.it
      BY <2>3, <1>5, WalkKeeps, ZenonT(60) DEF WalkStep
    <3> QED
      BY <3>1, <2>3, <1>5, WalkMarks DEF Met
  <2> QED
    BY <2>1, <2>2, <2>3, ZenonT(60)
<1> QED
  BY <1>1, <1>2, <1>3, <1>4, <1>5, ZenonT(60) DEF ToldOK

\* The walk agrees with what the SHB was sent.
LEMMA WalkSentOK ==
    ASSUME NEW c \in Cycle, NEW d, NEW upto \in Nat, WalkStep(c, d, upto),
           Chain(c.rob), WalkOK(c), c.status = "ROBSquashing",
           NEW e \in Entry, SentOK(e, c.rob)
    PROVE  SentOK(e, d.rob)
<1>1. /\ DOMAIN d.rob = DOMAIN c.rob /\ DOMAIN c.rob = 1..Len(c.rob)
      /\ Len(c.rob) \in Nat
      /\ \A k \in DOMAIN c.rob :
            /\ d.rob[k].sn = c.rob[k].sn /\ d.rob[k].st = c.rob[k].st
            /\ d.rob[k].SHTpkt = c.rob[k].SHTpkt
            /\ d.rob[k].SHTinserted = c.rob[k].SHTinserted
            /\ c.rob[k].squashed => d.rob[k].squashed
  <2>1. \A k \in DOMAIN c.rob :
            d.rob[k].sn = c.rob[k].sn /\ d.rob[k].st = c.rob[k].st
    BY WalkKeeps, ZenonT(60)
  <2>2. \A k \in DOMAIN c.rob : /\ d.rob[k].SHTpkt = c.rob[k].SHTpkt
                                /\ d.rob[k].SHTinserted = c.rob[k].SHTinserted
    BY WalkKeepsFlags, ZenonT(60)
  <2>3. \A k \in DOMAIN c.rob : c.rob[k].squashed => d.rob[k].squashed
    BY WalkMarks, ZenonT(60)
  <2> QED
    BY <2>1, <2>2, <2>3, WalkLength, ZenonT(60)
<1>2. /\ \A k \in DOMAIN c.rob : c.rob[k].sn \in Nat
      /\ e.sn \in Nat /\ c.sq \in Nat
  BY WalkInst, ZenonT(60) DEF Inst, Entry, Cycle
<1>3. ASSUME NEW j \in DOMAIN c.rob, e.from # {}, c.rob[j].from = e.from
      PROVE  c.rob[j].squashed /\ d.rob[j].from = e.from
  <2>1. c.rob[j].squashed
    BY <1>3, RobFacts, ZenonT(60) DEF InstOK
  <2> QED
    BY <2>1, <1>3, WalkMarks, ZenonT(60)
<1>4. \/ \E j \in DOMAIN d.rob : d.rob[j].sn = e.sn /\ (e.from # {} => d.rob[j].from = e.from)
      \/ \A k \in DOMAIN d.rob : d.rob[k].sn > e.sn
  BY <1>1, <1>3, ZenonT(60) DEF SentOK
<1>5. ASSUME NEW s \in e.from, NEW k \in DOMAIN c.rob,
             d.rob[k].from = e.from, d.rob[k].sn > e.sn
      PROVE  \E j \in 1..k - 1 : d.rob[j].squashed /\ d.rob[j].sn > s
  <2>1. CASE c.rob[k].from = e.from
    <3>1. PICK j \in 1..k - 1 : c.rob[j].squashed /\ c.rob[j].sn > s
      BY <2>1, <1>1, <1>5, ZenonT(60) DEF SentOK
    <3>2. j \in DOMAIN c.rob
      BY <1>1
    <3> QED
      BY <3>1, <3>2, <1>1, ZenonT(60)
  <2>2. CASE c.rob[k].from # e.from
    <3>1. ~c.rob[k].squashed /\ e.from = {c.sq}
      BY <2>2, <1>5, WalkMarks
    <3>2. s = c.sq /\ s < e.sn
      BY <3>1, ZenonT(60) DEF SentOK
    <3>3. c.rob # << >> /\ 1 \in DOMAIN c.rob
      BY <1>1
    <3>4. c.rob[1].sn <= c.sq + 1
      BY <3>3, ZenonT(60) DEF WalkOK
    <3>5. ~(c.rob[1].sn > e.sn)
      BY <3>2, <3>3, <3>4, <1>2
    <3>6. PICK j \in DOMAIN c.rob : c.rob[j].sn = e.sn /\ c.rob[j].from = e.from
      BY <3>1, <3>3, <3>5, ZenonT(60) DEF SentOK
    <3>7. c.rob[j].squashed /\ c.rob[j].sn > s
      BY <3>1, <3>2, <3>6, <1>2, <1>3, ZenonT(60)
    <3>8. c.rob[j].sn < c.rob[k].sn
      BY <3>6, <1>1, <1>5, ZenonT(60)
    <3>9. ~(k < j) /\ k # j
      <4>1. \A h, i \in DOMAIN c.rob : h < i => c.rob[h].sn < c.rob[i].sn
        BY RobFacts, ZenonT(60)
      <4> QED
        BY <4>1, <3>8, <1>2
    <3>10. j \in 1..k - 1
      BY <3>9, <1>1
    <3> QED
      BY <3>7, <3>10, <1>1, ZenonT(60)
  <2> QED
    BY <2>1, <2>2, ZenonT(60)
<1>6. \A k \in DOMAIN d.rob : d.rob[k].sn <= e.sn =>
         d.rob[k].st # "waiting" /\ (d.rob[k].SHTpkt => d.rob[k].SHTinserted)
  BY <1>1, ZenonT(60) DEF SentOK
<1>7. \A s \in e.from : s < e.sn /\ e.from = {s}
  BY ZenonT(60) DEF SentOK
<1> QED
  BY <1>1, <1>4, <1>5, <1>6, <1>7, ZenonT(60) DEF SentOK

\* A cycle of the walk keeps what holds between the stages.
LEMMA DoSquashOK ==
    ASSUME NEW c, NEW n \in Nat, StageOK(c, n), c.status = "ROBSquashing"
    PROVE  /\ StageOK(doSquash(c), n)
           /\ \E upto \in Nat : WalkStep(c, doSquash(c), upto)
<1> DEFINE d == doSquash(c)
<1>1. /\ c \in Cycle /\ Chain(c.rob) /\ WalkOK(c) /\ ToldOK(c) /\ ShbOK(c)
      /\ CountOK(c, n) /\ Raising(c)
      /\ Reported(c.rob, toCommit.insts) /\ Reported(c.rob, fromIEW.insts)
  BY ZenonT(60) DEF StageOK
<1>2. PICK upto \in Nat : WalkStep(c, d, upto)
  BY <1>1, DoSquashStep, ZenonT(60) DEF WalkOK
<1> HIDE DEF d
<1>3. d \in Cycle /\ d.shb = c.shb /\ d.last = c.last /\ d.status = "ROBSquashing"
  BY <1>2, ZenonT(60) DEF WalkStep
<1>4. Chain(d.rob) /\ WalkOK(d) /\ ToldOK(d)
  BY <1>1, <1>2, WalkChain, WalkWalkOK, WalkToldOK, ZenonT(60)
<1>5. ShbOK(d)
  <2>1. \A a \in DOMAIN c.shb : c.shb[a] \in Entry
    <3>1. c.shb \in Seq(Entry)
      BY <1>1, ZenonT(60) DEF Cycle
    <3> QED
      BY <3>1
  <2>2. \A a \in DOMAIN c.shb : SentOK(c.shb[a], d.rob)
    BY <2>1, <1>1, <1>2, WalkSentOK, ZenonT(60) DEF ShbOK
  <2> QED
    BY <2>2, <1>1, <1>3, ZenonT(60) DEF ShbOK
<1>6. /\ DOMAIN d.rob = DOMAIN c.rob
      /\ \A k \in DOMAIN c.rob :
            /\ d.rob[k].sn = c.rob[k].sn /\ d.rob[k].kind = c.rob[k].kind
            /\ d.rob[k].st = c.rob[k].st
            /\ d.rob[k].squashed \/ d.rob[k] = c.rob[k]
  <2>1. DOMAIN d.rob = DOMAIN c.rob
    BY <1>1, <1>2, WalkLength, ZenonT(60)
  <2>2. \A k \in DOMAIN c.rob :
            /\ d.rob[k].sn = c.rob[k].sn /\ d.rob[k].kind = c.rob[k].kind
            /\ d.rob[k].st = c.rob[k].st
    BY <1>1, <1>2, WalkKeeps, ZenonT(60)
  <2>3. \A k \in DOMAIN c.rob : d.rob[k].squashed \/ d.rob[k] = c.rob[k]
    BY <1>1, <1>2, WalkMarks, ZenonT(60)
  <2> QED
    BY <2>1, <2>2, <2>3, ZenonT(60)
<1>7. CountOK(d, n)
  BY <1>1, <1>3, <1>6, ZenonT(60) DEF CountOK
<1>8. Reported(d.rob, toCommit.insts) /\ Reported(d.rob, fromIEW.insts)
  BY <1>1, <1>6, ZenonT(60) DEF Reported
<1>9. Raising(d)
  BY <1>1, <1>3, <1>6 DEF Raising, Spares
<1> QED
  BY <1>2, <1>3, <1>4, <1>5, <1>7, <1>8, <1>9, ZenonT(60) DEF StageOK, d

-----------------------------------------------------------------------------
(* The beginning of a squash. *)

\* Where a squash from sn may start: not behind what an unfinished walk has still
\* to reach, and in front of everything or behind an instruction of the ROB.
MaySquash(c, sn) ==
    /\ \A k \in DOMAIN c.rob : ToWalk(c, k) => c.rob[k].sn > sn
    /\ c.rob # << >> => c.rob[1].sn <= sn + 1

\* What a squash leaves alone.
SameButSquash(c, d) ==
    /\ d.trap = c.trap /\ d.tc = c.tc /\ d.after = c.after /\ d.last = c.last
    /\ d.lq = c.lq /\ d.stores = c.stores /\ d.num = c.num /\ d.stop = c.stop
    /\ d.shb = c.shb /\ DOMAIN d.rob = DOMAIN c.rob
    /\ \A k \in DOMAIN c.rob : d.rob[k].sn = c.rob[k].sn

\* A squash that spares everything up to sn keeps the invariant of a stage.
LEMMA RobSquashOK ==
    ASSUME NEW c, NEW n \in Nat, StageOK(c, n), NEW sn \in Nat, NEW y \in Nat,
           y <= sn, MaySquash(c, sn)
    PROVE  LET d == robSquash([c EXCEPT !.youngest = y], sn)
           IN  StageOK(d, n) /\ d.status = "ROBSquashing" /\ SameButSquash(c, d)
<1> DEFINE d == robSquash([c EXCEPT !.youngest = y], sn)
           told == [[c EXCEPT !.youngest = y] EXCEPT !.status = "ROBSquashing",
                                                     !.squash = {sn}]
           b == IF c.rob = << >> THEN told
                ELSE [told EXCEPT !.it = Len(c.rob), !.sq = sn]
<1>1. /\ c \in Cycle /\ Chain(c.rob) /\ WalkOK(c) /\ ToldOK(c) /\ ShbOK(c)
      /\ CountOK(c, n) /\ Raising(c)
      /\ Reported(c.rob, toCommit.insts) /\ Reported(c.rob, fromIEW.insts)
  BY ZenonT(60) DEF StageOK
<1>2. Len(c.rob) \in Nat /\ DOMAIN c.rob = 1..Len(c.rob)
  BY <1>1, RobFacts, ZenonT(60)
<1>3. /\ b \in Cycle /\ b.rob = c.rob /\ b.youngest = y
      /\ b.status = "ROBSquashing" /\ b.squash = {sn}
      /\ b.it = IF c.rob = << >> THEN c.it ELSE Len(c.rob)
      /\ b.sq = IF c.rob = << >> THEN c.sq ELSE sn
      /\ SameButSquash(c, b)
  BY <1>1, <1>2, ZenonT(60) DEF Cycle, Status, SameButSquash
<1>4. d = IF c.rob = << >> THEN b ELSE doSquash(b)
  BY <1>1, ZenonT(60) DEF robSquash, Cycle
<1> HIDE DEF b, d
<1>5. StageOK(b, n)
  <2>1. WalkOK(b)
    <3>1. ASSUME NEW k \in DOMAIN c.rob, ToWalk(c, k) PROVE ToWalk(b, k)
      BY <3>1, <1>2, <1>3 DEF ToWalk, MaySquash
    <3>2. \A k \in DOMAIN b.rob :
             /\ b.rob[k].sn > b.last
             /\ HalfSquashed(b.rob[k]) => ToWalk(b, k)
      BY <3>1, <1>1, <1>3, ZenonT(60) DEF WalkOK, SameButSquash
    <3>3. ASSUME NEW k \in DOMAIN b.rob, NEW s \in b.rob[k].from,
                 NEW j \in 1..k - 1, b.rob[j].sn > s
          PROVE  b.rob[j].squashed \/ ToWalk(b, j)
      <4>1. j \in DOMAIN c.rob
        BY <1>2, <1>3
      <4>2. c.rob[j].squashed \/ ToWalk(c, j)
        BY <3>3, <1>1, <1>3, ZenonT(60) DEF WalkOK
      <4> QED
        BY <4>1, <4>2, <3>1, <1>3, ZenonT(60)
    <3>4. b.it <= Len(b.rob) /\ (b.rob # << >> => b.youngest <= b.sq /\ b.rob[1].sn <= b.sq + 1)
      BY <1>1, <1>2, <1>3 DEF WalkOK, MaySquash
    <3> QED
      BY <3>2, <3>3, <3>4, <1>3, ZenonT(60) DEF WalkOK
  <2>2. ToldOK(b)
    BY <1>2, <1>3 DEF ToldOK
  <2>3. ShbOK(b) /\ CountOK(b, n) /\ Raising(b)
    BY <1>1, <1>3, ZenonT(60) DEF ShbOK, CountOK, Raising, SameButSquash
  <2> QED
    BY <2>1, <2>2, <2>3, <1>1, <1>3, ZenonT(60) DEF StageOK
<1>6. CASE c.rob = << >>
  BY <1>3, <1>4, <1>5, <1>6, ZenonT(60) DEF d
<1>7. CASE c.rob # << >>
  <2>1. StageOK(d, n) /\ \E upto \in Nat : WalkStep(b, d, upto)
    BY <1>3, <1>4, <1>5, <1>7, DoSquashOK, ZenonT(60)
  <2>2. PICK upto \in Nat : WalkStep(b, d, upto)
    BY <2>1, ZenonT(60)
  <2>3. /\ DOMAIN d.rob = DOMAIN c.rob
        /\ \A k \in DOMAIN c.rob : d.rob[k].sn = c.rob[k].sn
    BY <2>2, <1>1, <1>3, WalkLength, WalkKeeps
  <2>4. d.status = "ROBSquashing" /\ SameButSquash(c, d)
    BY <2>2, <2>3, <1>3, ZenonT(60) DEF WalkStep, SameButSquash
  <2> QED
    BY <2>1, <2>4, ZenonT(60) DEF d
<1> QED
  BY <1>6, <1>7, ZenonT(60)

\* squashAll starts in front of the head.
LEMMA SquashAllOK ==
    ASSUME NEW c, NEW n \in Nat, StageOK(c, n)
    PROVE  LET d == squashAll(c)
           IN  StageOK(d, n) /\ d.status = "ROBSquashing" /\ SameButSquash(c, d)
<1> DEFINE sn == IF c.rob = << >> THEN c.last ELSE c.rob[1].sn - 1
<1>1. c \in Cycle /\ Chain(c.rob) /\ WalkOK(c)
  BY ZenonT(60) DEF StageOK
<1>2. c.last \in Nat /\ \A k \in DOMAIN c.rob : c.rob[k].sn \in Nat \ {0}
  BY <1>1, RobFacts, ZenonT(60) DEF Cycle, Inst
<1>3. c.rob # << >> => /\ 1 \in DOMAIN c.rob /\ c.rob[1].sn > c.last
                       /\ \A k \in DOMAIN c.rob : c.rob[1].sn <= c.rob[k].sn
  BY <1>1, RobFacts, ZenonT(60) DEF WalkOK
<1>4. sn \in Nat /\ c.last <= sn
  BY <1>2, <1>3
<1>5. MaySquash(c, sn)
  <2>1. CASE c.rob = << >>
    BY <2>1 DEF MaySquash
  <2>2. CASE c.rob # << >>
    BY <2>2, <1>2, <1>3 DEF MaySquash
  <2> QED
    BY <2>1, <2>2, ZenonT(60)
<1>6. squashAll(c) = robSquash([c EXCEPT !.youngest = c.last], sn)
  BY DEF squashAll
<1> HIDE DEF sn
<1> QED
  BY <1>2, <1>4, <1>5, <1>6, RobSquashOK

-----------------------------------------------------------------------------
(* The squashes at the beginning of a cycle. *)

\* The squash of the last cycle spares an instruction of the ROB.
Spared(c) == fromIEW.squash => \E j \in DOMAIN c.rob : Spares(fromIEW, c.rob[j])

\* What a cycle has not touched before it commits anything.
Fresh(c) ==
    /\ c.lq = FALSE /\ c.stores = storesToWB /\ c.num = 0 /\ c.stop = FALSE
    /\ c.last = lastCommitedSeqNum /\ c.shb = shb
    /\ c.status # "ROBSquashing" =>
          c.rob = rob /\ c.it = squashIt /\ c.after = squashAfterInst /\ c.squash = {}

\* The invariant holds of the record that a cycle starts from.
LEMMA BeginOK ==
    ASSUME RobInv
    PROVE  /\ StageOK(Begin, nextSeq) /\ PendingOK(Begin) /\ Spared(Begin)
           /\ Fresh(Begin) /\ nextSeq \in Nat
           /\ Begin.rob = rob /\ Begin.it = squashIt /\ Begin.squash = {}
           /\ Begin.after = squashAfterInst
<1>1. /\ Begin.rob = rob /\ Begin.it = squashIt /\ Begin.squash = {}
      /\ Begin.after = squashAfterInst
  BY ZenonT(60) DEF Begin
<1>2. Raising(Begin)
  BY <1>1, ZenonT(60) DEF RobInv, Raising, Raised
<1>3. Spared(Begin)
  BY <1>1, ZenonT(60) DEF RobInv, WasRaised, Spared
<1>4. Fresh(Begin)
  BY ZenonT(60) DEF Fresh, Begin
<1> QED
  BY <1>1, <1>2, <1>3, <1>4, ZenonT(60) DEF RobInv, StageOK

\* continueSquash: the walk goes on, or commit runs again.
LEMMA ContinueSquashOK ==
    ASSUME NEW c, NEW n \in Nat, StageOK(c, n), PendingOK(c), Spared(c), Fresh(c),
           Raised(rob, toCommit, fromIEW.insts), c.rob = rob, c.it = squashIt,
           c.after = squashAfterInst, c.squash = {}
    PROVE  LET d == continueSquash(c)
           IN  StageOK(d, n) /\ PendingOK(d) /\ Spared(d) /\ Fresh(d)
<1>1. CASE c.status # "ROBSquashing"
  BY <1>1 DEF continueSquash
<1>2. CASE c.status = "ROBSquashing" /\ c.it # 0
  <2> DEFINE d == doSquash(c)
  <2>1. continueSquash(c) = d
    BY <1>2 DEF continueSquash, doneSquashing
  <2>2. StageOK(d, n) /\ \E upto \in Nat : WalkStep(c, d, upto)
    BY <1>2, DoSquashOK, ZenonT(60)
  <2> HIDE DEF d
  <2>3. PICK upto \in Nat : WalkStep(c, d, upto)
    BY <2>2, ZenonT(60)
  <2>4. PendingOK(d) /\ Fresh(d)
    BY <1>2, <2>3, ZenonT(60) DEF WalkStep, PendingOK, Fresh
  <2>5. /\ DOMAIN d.rob = DOMAIN c.rob
        /\ \A k \in DOMAIN c.rob : d.rob[k].sn = c.rob[k].sn
    BY <2>3, WalkLength, WalkKeeps DEF StageOK
  <2>6. Spared(d)
    BY <2>5, ZenonT(60) DEF Spared, Spares
  <2> QED
    BY <2>1, <2>2, <2>4, <2>6, ZenonT(60)
<1>3. CASE c.status = "ROBSquashing" /\ c.it = 0
  <2> DEFINE d == [c EXCEPT !.status = "Running"]
  <2>1. continueSquash(c) = d
    BY <1>3 DEF continueSquash, doneSquashing
  <2>2. /\ d \in Cycle /\ d.rob = c.rob /\ d.status = "Running" /\ d.it = 0
        /\ d.trap = c.trap /\ d.tc = c.tc /\ d.after = c.after
        /\ d.last = c.last /\ d.lq = c.lq /\ d.stores = c.stores
        /\ d.squash = c.squash /\ d.num = c.num /\ d.stop = c.stop
        /\ d.shb = c.shb
    BY <1>3, ZenonT(60) DEF StageOK, Cycle, Status
  <2> HIDE DEF d
  <2>3. \A k \in DOMAIN c.rob : ~ToWalk(c, k)
    BY <1>3, RobFacts DEF ToWalk, StageOK
  <2>4. WalkOK(d)
    <3>1. ASSUME NEW k \in DOMAIN c.rob, NEW s \in c.rob[k].from, NEW j \in 1..k - 1,
                 c.rob[j].sn > s
          PROVE  c.rob[j].squashed
      <4>1. j \in DOMAIN c.rob
        BY RobFacts DEF StageOK
      <4> QED
        BY <3>1, <4>1, <2>3, ZenonT(60) DEF WalkOK, StageOK
    <3>2. \A k \in DOMAIN c.rob : c.rob[k].sn > c.last /\ ~HalfSquashed(c.rob[k])
      BY <2>3, ZenonT(60) DEF WalkOK, StageOK
    <3>3. d.it <= Len(d.rob)
      BY <2>2, RobFacts DEF StageOK
    <3> QED
      BY <2>2, <3>1, <3>2, <3>3 DEF WalkOK
  <2>5. ToldOK(d) /\ ShbOK(d) /\ CountOK(d, n) /\ Raising(d)
    BY <2>2, ZenonT(60) DEF ToldOK, ShbOK, CountOK, Raising, Raised, StageOK
  <2>6. PendingOK(d) /\ Spared(d) /\ Fresh(d)
    BY <1>3, <2>2, ZenonT(60) DEF PendingOK, Spared, Fresh
  <2> QED
    BY <2>1, <2>2, <2>4, <2>5, <2>6, ZenonT(60) DEF StageOK
<1> QED
  BY <1>1, <1>2, <1>3, ZenonT(60)

\* No squash of an earlier cycle is pending any more.
Settled(c) ==
    /\ c.trap = FALSE /\ c.tc = FALSE
    /\ c.status \in {"Running", "TrapPending", "ROBSquashing"}
    /\ c.after # 0 => tcWrites /\ "squashafter" \in Kinds

\* The squash of a trap, of the thread context or behind an instruction.
LEMMA PendingSquashesOK ==
    ASSUME NEW c, NEW n \in Nat, StageOK(c, n), PendingOK(c), Spared(c), Fresh(c)
    PROVE  LET d == pendingSquashes(c)
           IN  StageOK(d, n) /\ Settled(d) /\ Spared(d) /\ Fresh(d)
<1> DEFINE a == squashAll(c)
           d == pendingSquashes(c)
<1>1. StageOK(a, n) /\ a.status = "ROBSquashing" /\ SameButSquash(c, a)
  BY SquashAllOK, ZenonT(60)
<1>2. a \in Cycle /\ c \in Cycle
  BY <1>1, ZenonT(60) DEF StageOK
<1>3. Spared(a)
  BY <1>1, ZenonT(60) DEF Spared, Spares, SameButSquash
<1>4. Fresh(a)
  BY <1>1, ZenonT(60) DEF Fresh, SameButSquash
<1>5. d = IF c.trap THEN [a EXCEPT !.trap = FALSE]
          ELSE IF c.tc THEN [a EXCEPT !.tc = FALSE]
          ELSE IF c.status = "SquashAfterPending" THEN [a EXCEPT !.after = 0]
          ELSE c
  BY DEF pendingSquashes
<1> HIDE DEF a, d
<1>6. CASE d = c /\ ~c.trap /\ ~c.tc /\ c.status # "SquashAfterPending"
  BY <1>2, <1>6, ZenonT(60) DEF Settled, PendingOK, Cycle, Status, d
<1>7. CASE c.trap \/ c.tc \/ c.status = "SquashAfterPending"
  <2>1. /\ d \in Cycle /\ d.rob = a.rob /\ d.it = a.it /\ d.sq = a.sq
        /\ d.status = a.status /\ d.youngest = a.youngest /\ d.last = a.last
        /\ d.shb = a.shb /\ d.lq = a.lq /\ d.stores = a.stores
        /\ d.squash = a.squash /\ d.num = a.num /\ d.stop = a.stop
    BY <1>2, <1>5, <1>7, ZenonT(60) DEF Cycle
  <2>2. StageOK(d, n)
    <3>1. WalkOK(d)
      BY <1>1, <2>1, ZenonT(60) DEF StageOK, WalkOK, ToWalk
    <3>2. ToldOK(d) /\ ShbOK(d) /\ CountOK(d, n) /\ Raising(d)
      BY <1>1, <2>1, ZenonT(60) DEF StageOK, ToldOK, ShbOK, CountOK, Raising
    <3> QED
      BY <1>1, <2>1, <3>1, <3>2, ZenonT(60) DEF StageOK
  <2>3. Spared(d) /\ Fresh(d)
    BY <1>1, <1>3, <1>4, <2>1, ZenonT(60) DEF Spared, Fresh
  <2>4. Settled(d)
    <3>1. d.trap = FALSE /\ d.tc = FALSE
      BY <1>1, <1>2, <1>5, <1>7, ZenonT(60) DEF SameButSquash, PendingOK, Cycle
    <3>2. d.after # 0 => tcWrites /\ "squashafter" \in Kinds
      BY <1>1, <1>2, <1>5, <1>7, ZenonT(60) DEF SameButSquash, PendingOK, Cycle
    <3> QED
      BY <3>1, <3>2, <1>1, <2>1, ZenonT(60) DEF Settled
  <2> QED
    BY <2>2, <2>3, <2>4, ZenonT(60) DEF d
<1> QED
  BY <1>5, <1>6, <1>7, ZenonT(60)

\* The squash of a branch or a store that IEW reported.
LEMMA SquashFromIEWOK ==
    ASSUME NEW c, NEW n \in Nat, StageOK(c, n), Settled(c), Spared(c), Fresh(c),
           fromIEW \in Signal
    PROVE  LET d == squashFromIEW(c)
           IN  StageOK(d, n) /\ Settled(d) /\ Fresh(d)
<1> DEFINE d == squashFromIEW(c)
           sn == fromIEW.sn - (IF fromIEW.includeSquashInst THEN 1 ELSE 0)
           goes == /\ fromIEW.squash /\ c.status # "TrapPending"
                   /\ fromIEW.sn <= c.youngest
<1>1. d = IF goes THEN robSquash([c EXCEPT !.youngest = sn], sn) ELSE c
  BY DEF squashFromIEW
<1>2. CASE ~goes
  BY <1>1, <1>2, ZenonT(60)
<1>3. CASE goes
  <2>1. c \in Cycle /\ Chain(c.rob) /\ WalkOK(c) /\ c.sq \in Nat /\ c.youngest \in Nat
    BY ZenonT(60) DEF StageOK, Cycle
  <2>2. \A k \in DOMAIN c.rob : c.rob[k].sn \in Nat \ {0}
    BY <2>1, RobFacts, ZenonT(60) DEF Inst
  <2>3. PICK j \in DOMAIN c.rob : Spares(fromIEW, c.rob[j])
    BY <1>3, ZenonT(60) DEF Spared
  <2>4. fromIEW.sn \in Nat /\ sn \in Nat /\ c.rob[j].sn <= sn /\ sn <= fromIEW.sn
    BY <2>2, <2>3 DEF Spares, Signal
  <2>5. c.rob # << >> /\ 1 \in DOMAIN c.rob /\ c.rob[1].sn <= c.rob[j].sn
    BY <2>1, <2>3, RobFacts
  <2> HIDE DEF sn
  <2>6. MaySquash(c, sn)
    <3>1. c.rob[1].sn <= sn + 1
      BY <2>2, <2>4, <2>5
    <3>2. ASSUME NEW k \in DOMAIN c.rob, ToWalk(c, k)
          PROVE  c.rob[k].sn > sn
      <4>1. c.youngest <= c.sq /\ c.rob[k].sn > c.sq
        BY <2>1, <2>5, <3>2, ZenonT(60) DEF WalkOK, ToWalk
      <4> QED
        BY <4>1, <1>3, <2>1, <2>2, <2>4
    <3> QED
      BY <3>1, <3>2, ZenonT(60) DEF MaySquash
  <2>7. StageOK(d, n) /\ d.status = "ROBSquashing" /\ SameButSquash(c, d)
    BY <1>1, <1>3, <2>4, <2>6, RobSquashOK
  <2>8. Settled(d) /\ Fresh(d)
    BY <2>7, ZenonT(60) DEF Settled, Fresh, SameButSquash
  <2> QED
    BY <2>7, <2>8, ZenonT(60)
<1> QED
  BY <1>2, <1>3, ZenonT(60)

=============================================================================

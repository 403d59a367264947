------------------------- MODULE ReorderBufferMark --------------------------
(* The last stages of a cycle keep the invariant: marking, the scan for safe    *)
(* accesses and the squash of IEW.                                              *)
EXTENDS ReorderBufferSquash

\* The provers of the leaves that name none, in the order in which they are tried.
USE SMTT(60), Z3T(60), ZenonT(60)

-----------------------------------------------------------------------------
(* What IEW does with the squash that a cycle told it of. *)

\* What becomes of one instruction that is younger than s.
dropped(i, s) ==
    [(IF isMemRef(i) THEN setSquashed(i, s) ELSE i)
        EXCEPT !.canCommit = @ \/ i.st # "executed",
               !.st = IF @ = "executed" THEN @ ELSE "dropped"]

DroppedTo(i, w, s) ==
    /\ InstOK(w)
    /\ w.sn = i.sn /\ w.kind = i.kind /\ w.fault = i.fault /\ w.SHTpkt = i.SHTpkt
    /\ w.SHTinserted = i.SHTinserted /\ w.PrevInstsCompleted = i.PrevInstsCompleted
    /\ w.st = (IF i.st = "executed" THEN "executed" ELSE "dropped")
    /\ i.canCommit \/ i.st # "executed" => w.canCommit
    /\ w.canCommit => i.canCommit \/ i.st # "executed"
    /\ i.squashed => w.squashed /\ w.from = i.from
    /\ ~i.squashed => IF isMemRef(i) THEN w.squashed /\ w.from = {s}
                      ELSE ~w.squashed /\ w.from = i.from

\* One instruction that IEW squashes.
LEMMA DroppedFacts ==
    ASSUME NEW i, InstOK(i), NEW s \in Nat, s < i.sn
    PROVE  DroppedTo(i, dropped(i, s), s)
<1>1. i \in Inst
  BY ZenonT(60) DEF InstOK
<1> DEFINE b == IF isMemRef(i) THEN setSquashed(i, s) ELSE i
           y == b.canCommit \/ i.st # "executed"
           z == IF b.st = "executed" THEN b.st ELSE "dropped"
           w == [b EXCEPT !.canCommit = y, !.st = z]
<1>2. /\ b \in Inst /\ b.sn = i.sn /\ b.kind = i.kind /\ b.fault = i.fault
      /\ b.st = i.st /\ b.canCommit = i.canCommit
      /\ b.SHTpkt = i.SHTpkt /\ b.SHTinserted = i.SHTinserted
      /\ b.PrevInstsCompleted = i.PrevInstsCompleted /\ b.noFill = i.noFill
      /\ i.squashed => b.squashed /\ b.from = i.from
      /\ ~i.squashed => IF isMemRef(i) THEN b.squashed /\ b.from = {s}
                        ELSE ~b.squashed /\ b.from = i.from
  <2>1. CASE isMemRef(i)
    <3> DEFINE v == setSquashed(i, s)
    <3>1. /\ v \in Inst /\ v.sn = i.sn /\ v.kind = i.kind /\ v.fault = i.fault
          /\ v.st = i.st /\ v.canCommit = i.canCommit
          /\ v.SHTpkt = i.SHTpkt /\ v.SHTinserted = i.SHTinserted
          /\ v.PrevInstsCompleted = i.PrevInstsCompleted /\ v.noFill = i.noFill
          /\ v.squashed = TRUE /\ v.from = IF i.squashed THEN i.from ELSE {s}
      BY <1>1, ZenonT(60) DEF setSquashed, Inst
    <3>2. b = v
      BY <2>1
    <3> HIDE DEF v, b
    <3> QED
      BY <2>1, <3>1, <3>2, ZenonT(60)
  <2>2. CASE ~isMemRef(i)
    <3>1. b = i
      BY <2>2
    <3> HIDE DEF b
    <3> QED
      BY <2>2, <3>1, <1>1, ZenonT(60)
  <2> QED
    BY <2>1, <2>2, ZenonT(60)
<1>3. dropped(i, s) = w
  <2> HIDE DEF b
  <2> QED
    BY <1>2, ZenonT(60) DEF dropped, b, Inst
<1> HIDE DEF b
<1>4. /\ y \in BOOLEAN /\ z \in Progress
      /\ z = IF i.st = "executed" THEN "executed" ELSE "dropped"
      /\ y <=> i.canCommit \/ i.st # "executed"
  BY <1>2, ZenonT(60) DEF Inst, Progress
<1> HIDE DEF y, z
<1>5. /\ w \in Inst /\ w.sn = b.sn /\ w.kind = b.kind /\ w.fault = b.fault
      /\ w.SHTpkt = b.SHTpkt /\ w.SHTinserted = b.SHTinserted
      /\ w.PrevInstsCompleted = b.PrevInstsCompleted /\ w.noFill = b.noFill
      /\ w.squashed = b.squashed /\ w.from = b.from
  BY <1>2, <1>4, ZenonT(60) DEF Inst
<1>6. w.canCommit = y /\ w.st = z
  BY <1>2, <1>4, ZenonT(60) DEF Inst
<1> HIDE DEF w
<1>7. (w.from # {} <=> w.squashed) /\ \A t \in w.from : t < w.sn /\ w.from = {t}
  <2>1. CASE i.squashed
    BY <2>1, <1>2, <1>5 DEF InstOK
  <2>2. CASE ~i.squashed /\ isMemRef(i)
    BY <2>2, <1>2, <1>5, ZenonT(60)
  <2>3. CASE ~i.squashed /\ ~isMemRef(i)
    BY <2>3, <1>2, <1>5, ZenonT(60) DEF InstOK
  <2> QED
    BY <2>1, <2>2, <2>3, ZenonT(60)
<1>8. w.st \in Ended
  BY <1>4, <1>6, ZenonT(60) DEF Ended
<1>9. InstOK(w)
  <2>1. w.fault = "reexec" \/ w.SHTpkt
          => w.kind = "load" /\ w.st \in {"sent", "executed", "dropped"}
    BY <1>2, <1>5, <1>8, ZenonT(60) DEF InstOK, Ended
  <2>2. /\ w.PrevInstsCompleted => isMemRef(w)
        /\ w.SHTinserted => w.PrevInstsCompleted
    BY <1>2, <1>5, ZenonT(60) DEF InstOK, isMemRef
  <2>3. Protected /\ w.kind = "load" /\ w.st \in {"sent", "executed"} /\ ~w.noFill
          => w.PrevInstsCompleted
    BY <1>2, <1>4, <1>5, <1>6, ZenonT(60) DEF InstOK
  <2>4. w.st \notin {"dispatched", "released"}
    BY <1>8 DEF Ended
  <2>5. w \in Inst
    BY <1>5, ZenonT(60)
  <2> QED
    BY <2>1, <2>2, <2>3, <2>4, <2>5, <1>7, <1>8, ZenonT(60) DEF InstOK
<1>10. DroppedTo(i, w, s)
  BY <1>2, <1>4, <1>5, <1>6, <1>9, ZenonT(60) DEF DroppedTo
<1> QED
  BY <1>3, <1>10

\* The squash of IEW leaves a sequence of instructions.
LEMMA IewSquashType ==
    ASSUME NEW r, Chain(r), NEW s \in Nat
    PROVE  iewSquash(r, s) \in Seq(Inst)
<1> DEFINE q == iewSquash(r, s)
<1>1. Len(r) \in Nat /\ DOMAIN r = 1..Len(r)
  BY RobFacts, ZenonT(60)
<1>2. ASSUME NEW k \in DOMAIN r PROVE q[k] \in Inst
  <2>1. InstOK(r[k]) /\ r[k] \in Inst /\ r[k].sn \in Nat
    <3>1. InstOK(r[k]) /\ r[k] \in Inst
      BY RobFacts, ZenonT(60)
    <3> QED
      BY <3>1, ZenonT(60) DEF Inst
  <2>2. q[k] = IF r[k].sn <= s THEN r[k] ELSE dropped(r[k], s)
    BY ZenonT(60) DEF iewSquash, dropped
  <2>3. ASSUME ~(r[k].sn <= s) PROVE dropped(r[k], s) \in Inst
    <3>1. DroppedTo(r[k], dropped(r[k], s), s)
      BY <2>1, <2>3, DroppedFacts
    <3> QED
      BY <3>1, ZenonT(60) DEF DroppedTo, InstOK
  <2> HIDE DEF q
  <2> QED
    BY <2>1, <2>2, <2>3, ZenonT(60)
<1>3. DOMAIN q = DOMAIN r /\ q = [k \in DOMAIN q |-> q[k]]
  BY ZenonT(60) DEF iewSquash
<1> HIDE DEF q
<1>4. q \in [1..Len(r) -> Inst]
  BY <1>1, <1>2, <1>3
<1>5. q \in Seq(Inst)
  BY <1>1, <1>4
<1> QED
  BY <1>5 DEF q

\* d is c at the end of a cycle, when IEW has done its part.
EndsAs(c, d) ==
    /\ d \in Cycle
    /\ d.rob = IF c.squash = {} THEN c.rob
               ELSE iewSquash(c.rob, CHOOSE sn \in c.squash : TRUE)
    /\ d.it = c.it /\ d.sq = c.sq /\ d.status = c.status /\ d.trap = c.trap
    /\ d.tc = c.tc /\ d.after = c.after /\ d.youngest = c.youngest
    /\ d.last = c.last /\ d.shb = c.shb /\ d.squash = {}

\* IEW squashes what is younger than the number that the walk starts from.
Dropped(c, d) ==
    /\ DOMAIN d.rob = DOMAIN c.rob
    /\ \A k \in DOMAIN c.rob : IF c.rob[k].sn <= c.sq THEN d.rob[k] = c.rob[k]
                               ELSE DroppedTo(c.rob[k], d.rob[k], c.sq)

\* The end of a cycle that tells IEW of a squash.
LEMMA EndDrops ==
    ASSUME NEW c \in Cycle, Chain(c.rob), ToldOK(c), c.squash # {}, NEW d, EndsAs(c, d)
    PROVE  Dropped(c, d) /\ c.status = "ROBSquashing"
<1>1. c.status = "ROBSquashing" /\ (c.rob # << >> => c.squash = {c.sq})
  BY ZenonT(60) DEF ToldOK
<1>2. PICK s : s = CHOOSE sn \in c.squash : TRUE
  OBVIOUS
<1>3. c.rob # << >> => s = c.sq
  BY <1>1, <1>2, ZenonT(60)
<1>4. d.rob = iewSquash(c.rob, s)
  BY <1>2, ZenonT(60) DEF EndsAs
<1>5. DOMAIN d.rob = DOMAIN c.rob
  BY <1>4, ZenonT(60) DEF iewSquash
<1>6. ASSUME NEW k \in DOMAIN c.rob
      PROVE  IF c.rob[k].sn <= c.sq THEN d.rob[k] = c.rob[k]
             ELSE DroppedTo(c.rob[k], d.rob[k], c.sq)
  <2>1. c.rob # << >> /\ s = c.sq
    BY <1>3
  <2>2. d.rob[k] = IF c.rob[k].sn <= c.sq THEN c.rob[k] ELSE dropped(c.rob[k], c.sq)
    BY <1>4, <2>1, ZenonT(60) DEF iewSquash, dropped
  <2>3. c.rob[k].sn \in Nat /\ c.sq \in Nat /\ InstOK(c.rob[k])
    <3>1. c.rob[k] \in Inst /\ InstOK(c.rob[k]) /\ c.sq \in Nat
      BY RobFacts, ZenonT(60) DEF Cycle
    <3> QED
      BY <3>1, ZenonT(60) DEF Inst
  <2>4. CASE c.rob[k].sn <= c.sq
    BY <2>2, <2>4, ZenonT(60)
  <2>5. CASE ~(c.rob[k].sn <= c.sq)
    <3>1. c.sq < c.rob[k].sn
      BY <2>3, <2>5
    <3>2. DroppedTo(c.rob[k], dropped(c.rob[k], c.sq), c.sq)
      BY <2>3, <3>1, DroppedFacts, ZenonT(60)
    <3> QED
      BY <2>2, <2>5, <3>2, ZenonT(60)
  <2> QED
    BY <2>4, <2>5, ZenonT(60)
<1> QED
  BY <1>1, <1>5, <1>6, ZenonT(60) DEF Dropped

\* Both views of an instruction before and after IEW has dropped what is younger.
LEMMA DroppedViews ==
    ASSUME NEW c \in Cycle, Chain(c.rob), NEW d, Dropped(c, d)
    PROVE  /\ DOMAIN c.rob = 1..Len(c.rob) /\ Len(c.rob) \in Nat /\ c.sq \in Nat
           /\ \A k \in DOMAIN c.rob :
                 /\ InstOK(c.rob[k]) /\ InstOK(d.rob[k]) /\ c.rob[k].sn \in Nat
                 /\ d.rob[k].sn = c.rob[k].sn /\ d.rob[k].kind = c.rob[k].kind
                 /\ d.rob[k].fault = c.rob[k].fault
                 /\ d.rob[k].SHTpkt = c.rob[k].SHTpkt
                 /\ d.rob[k].SHTinserted = c.rob[k].SHTinserted
                 /\ d.rob[k].PrevInstsCompleted = c.rob[k].PrevInstsCompleted
                 /\ c.rob[k].squashed => d.rob[k].squashed
                 /\ c.rob[k].squashed => d.rob[k].from = c.rob[k].from
                 /\ c.rob[k].canCommit => d.rob[k].canCommit
                 /\ c.rob[k].st = "executed" => d.rob[k].st = "executed"
                 /\ d.rob[k] = c.rob[k] \/ d.rob[k].st \in Ended
                 /\ d.rob[k].from = c.rob[k].from
                    \/ (d.rob[k].from = {c.sq} /\ c.rob[k].sn > c.sq)
                 /\ d.rob[k].squashed =>
                       c.rob[k].squashed \/ (isMemRef(c.rob[k]) /\ c.rob[k].sn > c.sq)
                 /\ c.rob[k].sn > c.sq =>
                       /\ d.rob[k].st \in Ended
                       /\ isMemRef(c.rob[k]) => d.rob[k].squashed
<1>1. DOMAIN c.rob = 1..Len(c.rob) /\ Len(c.rob) \in Nat /\ c.sq \in Nat
  BY RobFacts, ZenonT(60) DEF Cycle
<1>2. ASSUME NEW k \in DOMAIN c.rob
      PROVE  /\ InstOK(c.rob[k]) /\ InstOK(d.rob[k]) /\ c.rob[k].sn \in Nat
             /\ d.rob[k].sn = c.rob[k].sn /\ d.rob[k].kind = c.rob[k].kind
             /\ d.rob[k].fault = c.rob[k].fault
             /\ d.rob[k].SHTpkt = c.rob[k].SHTpkt
             /\ d.rob[k].SHTinserted = c.rob[k].SHTinserted
             /\ d.rob[k].PrevInstsCompleted = c.rob[k].PrevInstsCompleted
             /\ c.rob[k].squashed => d.rob[k].squashed
             /\ c.rob[k].squashed => d.rob[k].from = c.rob[k].from
             /\ c.rob[k].canCommit => d.rob[k].canCommit
             /\ c.rob[k].st = "executed" => d.rob[k].st = "executed"
             /\ d.rob[k] = c.rob[k] \/ d.rob[k].st \in Ended
             /\ d.rob[k].from = c.rob[k].from
                \/ (d.rob[k].from = {c.sq} /\ c.rob[k].sn > c.sq)
             /\ d.rob[k].squashed =>
                   c.rob[k].squashed \/ (isMemRef(c.rob[k]) /\ c.rob[k].sn > c.sq)
             /\ c.rob[k].sn > c.sq =>
                   /\ d.rob[k].st \in Ended
                   /\ isMemRef(c.rob[k]) => d.rob[k].squashed
  <2> DEFINE i == c.rob[k]
             w == d.rob[k]
  <2>1. InstOK(i) /\ i.sn \in Nat
    <3>1. i \in Inst /\ InstOK(i)
      BY RobFacts, ZenonT(60)
    <3> QED
      BY <3>1, ZenonT(60) DEF Inst
  <2>2. IF i.sn <= c.sq THEN w = i ELSE DroppedTo(i, w, c.sq)
    BY ZenonT(60) DEF Dropped
  <2> HIDE DEF i, w
  <2>3. CASE i.sn <= c.sq
    <3>1. ~(i.sn > c.sq) /\ w = i
      BY <2>1, <2>2, <2>3, <1>1
    <3> QED
      BY <3>1, <2>1, ZenonT(60) DEF i, w
  <2>4. CASE ~(i.sn <= c.sq)
    <3>1. i.sn > c.sq /\ DroppedTo(i, w, c.sq)
      BY <2>1, <2>2, <2>4, <1>1
    <3>2. w.st \in Ended
      BY <3>1, ZenonT(60) DEF DroppedTo, Ended
    <3>3. isMemRef(i) => w.squashed
      BY <3>1, ZenonT(60) DEF DroppedTo
    <3>4. w.squashed => i.squashed \/ isMemRef(i)
      BY <3>1, ZenonT(60) DEF DroppedTo
    <3>5. w.from = i.from \/ w.from = {c.sq}
      BY <3>1, ZenonT(60) DEF DroppedTo
    <3>6. /\ InstOK(w)
          /\ w.sn = i.sn /\ w.kind = i.kind /\ w.fault = i.fault /\ w.SHTpkt = i.SHTpkt
          /\ w.SHTinserted = i.SHTinserted /\ w.PrevInstsCompleted = i.PrevInstsCompleted
          /\ i.squashed => w.squashed /\ w.from = i.from
          /\ i.canCommit => w.canCommit
          /\ i.st = "executed" => w.st = "executed"
      BY <3>1, ZenonT(60) DEF DroppedTo
    <3> QED
      BY <2>1, <3>1, <3>2, <3>3, <3>4, <3>5, <3>6, ZenonT(60) DEF i, w
  <2> QED
    BY <2>3, <2>4, ZenonT(60)
<1> QED
  BY <1>1, <1>2, ZenonT(60)

\* What IEW drops stays what it is.
LEMMA DroppedSame ==
    ASSUME NEW c \in Cycle, Chain(c.rob), NEW d, Dropped(c, d)
    PROVE  /\ DOMAIN d.rob = DOMAIN c.rob
           /\ \A k \in DOMAIN c.rob :
                 /\ d.rob[k].sn = c.rob[k].sn /\ d.rob[k].kind = c.rob[k].kind
                 /\ c.rob[k].squashed => d.rob[k].squashed
                 /\ c.rob[k].st = "executed" => d.rob[k].st = "executed"
<1>1. DOMAIN d.rob = DOMAIN c.rob
  BY ZenonT(60) DEF Dropped
<1> QED
  BY <1>1, DroppedViews

\* The numbers of what IEW drops, and of the squash that drops it.
LEMMA DroppedNumbers ==
    ASSUME NEW c \in Cycle, Chain(c.rob), NEW d, Dropped(c, d)
    PROVE  \A k \in DOMAIN c.rob :
              /\ d.rob[k].sn = c.rob[k].sn
              /\ d.rob[k].PrevInstsCompleted = c.rob[k].PrevInstsCompleted
              /\ d.rob[k].from = c.rob[k].from \/ d.rob[k].from = {c.sq}
BY DroppedViews

\* What IEW drops keeps the order and the meaning of the flags.
LEMMA DropChain ==
    ASSUME NEW c \in Cycle, Chain(c.rob), NEW d \in Cycle, Dropped(c, d)
    PROVE  Chain(d.rob)
<1>1. ASSUME NEW h \in DOMAIN c.rob, NEW k \in DOMAIN c.rob, h < k
      PROVE  PairOK(d.rob[h], d.rob[k])
  <2>1. PairOK(c.rob[h], c.rob[k])
    BY <1>1, ZenonT(60) DEF Chain
  <2>2. d.rob[h].sn < d.rob[k].sn
    BY <2>1, DroppedViews DEF PairOK
  <2>3. ASSUME d.rob[k].PrevInstsCompleted
        PROVE  /\ d.rob[h].kind \notin Special /\ d.rob[h].canCommit
               /\ d.rob[h].st \in Ended /\ d.rob[h].fault # "fault"
               /\ d.rob[h].squashed => d.rob[k].squashed
    <3>1. /\ c.rob[k].PrevInstsCompleted
          /\ c.rob[h].kind \notin Special /\ c.rob[h].canCommit
          /\ c.rob[h].st \in Ended /\ c.rob[h].fault # "fault"
          /\ c.rob[h].squashed => c.rob[k].squashed
      <4>1. c.rob[k].PrevInstsCompleted
        BY <2>3, DroppedNumbers
      <4> QED
        BY <4>1, <2>1, ZenonT(60) DEF PairOK
    <3>2. d.rob[h].kind \notin Special /\ d.rob[h].canCommit /\ d.rob[h].fault # "fault"
      BY <3>1, DroppedViews
    <3>3. d.rob[h].st \in Ended
      BY <3>1, DroppedViews, ZenonT(60)
    <3>4. ASSUME d.rob[h].squashed PROVE d.rob[k].squashed
      <4>1. CASE c.rob[h].squashed
        BY <4>1, <3>1, DroppedViews, ZenonT(60)
      <4>2. CASE c.rob[h].sn > c.sq
        <5>1. isMemRef(c.rob[k])
          <6>1. InstOK(c.rob[k])
            BY DroppedViews, ZenonT(60)
          <6> QED
            BY <6>1, <3>1, ZenonT(60) DEF InstOK
        <5>2. c.rob[k].sn > c.sq
          <6>1. c.rob[h].sn \in Nat /\ c.rob[k].sn \in Nat /\ c.sq \in Nat
            BY DroppedViews, ZenonT(60)
          <6> QED
            BY <6>1, <4>2, <2>1 DEF PairOK
        <5> QED
          BY <5>1, <5>2, DroppedViews, ZenonT(60)
      <4> QED
        BY <3>4, <4>1, <4>2, DroppedViews, ZenonT(60)
    <3> QED
      BY <3>2, <3>3, <3>4, ZenonT(60)
  <2> QED
    BY <2>2, <2>3, ZenonT(60) DEF PairOK
<1>2. DOMAIN d.rob = DOMAIN c.rob /\ \A k \in DOMAIN c.rob : InstOK(d.rob[k])
  BY DroppedViews, ZenonT(60) DEF Dropped
<1>3. d.rob \in Seq(Inst)
  BY ZenonT(60) DEF Cycle
<1> QED
  BY <1>1, <1>2, <1>3, ZenonT(60) DEF Chain

\* What IEW drops is what the walk has still to come to.
LEMMA DropWalkOK ==
    ASSUME NEW c \in Cycle, Chain(c.rob), WalkOK(c), ToldOK(c), c.squash # {},
           NEW d, EndsAs(c, d), Dropped(c, d), c.status = "ROBSquashing"
    PROVE  WalkOK(d) /\ ToldOK(d)
<1>1. /\ d.it = c.it /\ d.sq = c.sq /\ d.status = c.status /\ d.youngest = c.youngest
      /\ d.last = c.last /\ d.squash = {} /\ d \in Cycle /\ DOMAIN d.rob = DOMAIN c.rob
  BY ZenonT(60) DEF EndsAs, Dropped
<1>2. Len(d.rob) = Len(c.rob) /\ (d.rob # << >> <=> c.rob # << >>)
      /\ (c.rob # << >> => 1 \in DOMAIN c.rob)
  <2>1. d.rob \in Seq(Inst) /\ c.rob \in Seq(Inst) /\ DOMAIN d.rob = DOMAIN c.rob
    BY <1>1, ZenonT(60) DEF Cycle
  <2> QED
    BY <2>1
<1>3. \A k \in DOMAIN c.rob : ToWalk(d, k) <=> ToWalk(c, k)
  BY <1>1, DroppedViews DEF ToWalk
<1>4. ASSUME NEW k \in DOMAIN c.rob, c.rob[k].sn > c.sq, ~ToWalk(c, k)
      PROVE  c.rob[k].squashed /\ c.rob[k].canCommit
  <2>1. c.rob # << >>
    OBVIOUS
  <2>2. c.rob[k].squashed
    BY <1>4, <2>1, ZenonT(60) DEF ToldOK, ToWalk
  <2> QED
    BY <1>4, <2>2, ZenonT(60) DEF WalkOK, HalfSquashed
<1>5. ASSUME NEW k \in DOMAIN c.rob, HalfSquashed(d.rob[k]), ~ToWalk(c, k)
      PROVE  FALSE
  <2>1. CASE c.rob[k].sn > c.sq
    <3>1. d.rob[k].squashed /\ d.rob[k].canCommit
      BY <2>1, <1>4, <1>5, DroppedViews, ZenonT(60)
    <3> QED
      BY <3>1, <1>5, ZenonT(60) DEF HalfSquashed
  <2>2. CASE ~(c.rob[k].sn > c.sq)
    <3>1. d.rob[k] = c.rob[k]
      <4>1. c.rob[k].sn <= c.sq
        <5>1. c.rob[k].sn \in Nat /\ c.sq \in Nat
          BY RobFacts, ZenonT(60) DEF Inst, Cycle
        <5> QED
          BY <2>2, <5>1
      <4> QED
        BY <4>1, ZenonT(60) DEF Dropped
    <3> QED
      BY <3>1, <1>5, ZenonT(60) DEF WalkOK
  <2> QED
    BY <2>1, <2>2, ZenonT(60)
<1>6. ASSUME NEW k \in DOMAIN c.rob, NEW s \in d.rob[k].from, NEW j \in 1..k - 1,
             d.rob[j].sn > s
      PROVE  d.rob[j].squashed \/ ToWalk(d, j)
  <2>1. j \in DOMAIN c.rob
    BY DroppedViews
  <2>2. CASE d.rob[k].from = c.rob[k].from
    <3>1. c.rob[j].squashed \/ ToWalk(c, j)
      <4>1. c.rob[j].sn > s /\ s \in c.rob[k].from
        BY <2>1, <2>2, <1>6, DroppedNumbers
      <4> QED
        BY <4>1, ZenonT(60) DEF WalkOK
    <3> QED
      BY <3>1, <2>1, <1>3, DroppedViews, ZenonT(60)
  <2>3. CASE d.rob[k].from = {c.sq}
    <3>1. c.rob[j].sn > c.sq
      <4>1. s = c.sq
        BY <2>3, <1>6, ZenonT(60)
      <4> QED
        BY <4>1, <2>1, <1>6, DroppedNumbers
    <3>2. c.rob[j].squashed \/ ToWalk(c, j)
      BY <2>1, <3>1, <1>4, ZenonT(60)
    <3> QED
      BY <3>2, <2>1, <1>3, DroppedViews, ZenonT(60)
  <2> QED
    BY <2>2, <2>3, DroppedNumbers
<1>7. \A k \in DOMAIN c.rob : d.rob[k].sn > d.last
  <2>1. \A k \in DOMAIN c.rob : c.rob[k].sn > c.last
    BY ZenonT(60) DEF WalkOK
  <2> QED
    BY <2>1, <1>1, DroppedNumbers
<1>8. d.it <= Len(d.rob) /\ (d.it > 0 => d.status = "ROBSquashing")
  BY <1>1, <1>2, ZenonT(60) DEF WalkOK
<1>9. d.rob # << >> => d.youngest <= d.sq /\ d.rob[1].sn <= d.sq + 1
  <2>1. c.rob # << >> => c.youngest <= c.sq /\ c.rob[1].sn <= c.sq + 1
    BY ZenonT(60) DEF WalkOK
  <2> QED
    BY <2>1, <1>1, <1>2, DroppedNumbers
<1>10. WalkOK(d)
  BY <1>1, <1>3, <1>5, <1>6, <1>7, <1>8, <1>9, ZenonT(60) DEF WalkOK
<1>11. \A k \in DOMAIN c.rob : d.rob[k].sn > c.sq =>
          d.rob[k].st \in Ended /\ (isMemRef(d.rob[k]) => d.rob[k].squashed)
  BY DroppedViews DEF isMemRef
<1>12. ToldOK(d)
  BY <1>1, <1>11, ZenonT(60) DEF ToldOK
<1> QED
  BY <1>10, <1>12

\* What IEW drops agrees with what the SHB was sent.
LEMMA DropSentOK ==
    ASSUME NEW c \in Cycle, Chain(c.rob), WalkOK(c), NEW d, Dropped(c, d),
           c.status = "ROBSquashing", NEW e \in Entry, SentOK(e, c.rob)
    PROVE  SentOK(e, d.rob)
<1>1. /\ DOMAIN d.rob = DOMAIN c.rob /\ DOMAIN c.rob = 1..Len(c.rob)
      /\ Len(c.rob) \in Nat
      /\ \A k \in DOMAIN c.rob :
            /\ d.rob[k].sn = c.rob[k].sn
            /\ d.rob[k].SHTpkt = c.rob[k].SHTpkt
            /\ d.rob[k].SHTinserted = c.rob[k].SHTinserted
            /\ c.rob[k].squashed => d.rob[k].squashed
  BY DroppedViews DEF Dropped
<1>2. /\ \A k \in DOMAIN c.rob : c.rob[k].sn \in Nat
      /\ e.sn \in Nat /\ c.sq \in Nat
  BY DroppedViews, ZenonT(60) DEF Entry
<1>3. ASSUME NEW j \in DOMAIN c.rob, e.from # {}, c.rob[j].from = e.from
      PROVE  c.rob[j].squashed /\ d.rob[j].from = e.from
  <2>1. c.rob[j].squashed
    BY <1>3, DroppedViews, ZenonT(60) DEF InstOK
  <2> QED
    BY <2>1, <1>3, DroppedViews, ZenonT(60)
<1>4. \/ \E j \in DOMAIN d.rob : d.rob[j].sn = e.sn /\ (e.from # {} => d.rob[j].from = e.from)
      \/ \A k \in DOMAIN d.rob : d.rob[k].sn > e.sn
  BY <1>1, <1>3, ZenonT(60) DEF SentOK
<1>5. ASSUME NEW s \in e.from, NEW k \in DOMAIN c.rob,
             d.rob[k].from = e.from, d.rob[k].sn > e.sn
      PROVE  \E j \in 1..k - 1 : d.rob[j].squashed /\ d.rob[j].sn > s
  <2>1. CASE c.rob[k].from = e.from
    <3>1. PICK j \in 1..k - 1 : c.rob[j].squashed /\ c.rob[j].sn > s
      BY <2>1, <1>1, <1>5, ZenonT(60) DEF SentOK
    <3>2. j \in DOMAIN c.rob
      BY <1>1
    <3> QED
      BY <3>1, <3>2, <1>1, ZenonT(60)
  <2>2. CASE c.rob[k].from # e.from
    <3>1. e.from = {c.sq}
      BY <2>2, <1>5, DroppedNumbers
    <3>2. s = c.sq /\ s < e.sn
      BY <3>1, ZenonT(60) DEF SentOK
    <3>3. c.rob # << >> /\ 1 \in DOMAIN c.rob
      BY <1>1
    <3>4. c.rob[1].sn <= c.sq + 1
      BY <3>3, ZenonT(60) DEF WalkOK
    <3>5. ~(c.rob[1].sn > e.sn)
      BY <3>2, <3>3, <3>4, <1>2
    <3>6. PICK j \in DOMAIN c.rob : c.rob[j].sn = e.sn /\ c.rob[j].from = e.from
      BY <3>1, <3>3, <3>5, ZenonT(60) DEF SentOK
    <3>7. c.rob[j].squashed /\ c.rob[j].sn > s
      BY <3>1, <3>2, <3>6, <1>2, <1>3, ZenonT(60)
    <3>8. c.rob[j].sn < c.rob[k].sn
      BY <3>6, <1>1, <1>5, ZenonT(60)
    <3>9. ~(k < j) /\ k # j
      <4>1. \A h, i \in DOMAIN c.rob : h < i => c.rob[h].sn < c.rob[i].sn
        BY RobFacts, ZenonT(60)
      <4> QED
        BY <4>1, <3>8, <1>2
    <3>10. j \in 1..k - 1
      BY <3>9, <1>1
    <3> QED
      BY <3>7, <3>10, <1>1, ZenonT(60)
  <2> QED
    BY <2>1, <2>2, ZenonT(60)
<1>6. \A k \in DOMAIN d.rob : d.rob[k].sn <= e.sn =>
         d.rob[k].st # "waiting" /\ (d.rob[k].SHTpkt => d.rob[k].SHTinserted)
  <2>1. ASSUME NEW k \in DOMAIN c.rob, c.rob[k].sn <= e.sn
        PROVE  d.rob[k].st # "waiting"
    <3>1. c.rob[k].st # "waiting"
      BY <2>1, ZenonT(60) DEF SentOK
    <3>2. d.rob[k] = c.rob[k] \/ d.rob[k].st \in Ended
      BY DroppedViews, ZenonT(60)
    <3> QED
      BY <3>1, <3>2, ZenonT(60) DEF Ended
  <2> QED
    BY <2>1, <1>1, ZenonT(60) DEF SentOK
<1>7. \A s \in e.from : s < e.sn /\ e.from = {s}
  BY ZenonT(60) DEF SentOK
<1> QED
  BY <1>1, <1>4, <1>5, <1>6, <1>7, ZenonT(60) DEF SentOK

\* What holds when a cycle is over.
LEMMA EndOK ==
    ASSUME NEW c, NEW n \in Nat, StageOK(c, n), Seen(c.rob, c.it), PendingOK(c),
           NEW d, EndsAs(c, d)
    PROVE  /\ Chain(d.rob) /\ WalkOK(d) /\ ToldOK(d) /\ ShbOK(d)
           /\ PendingOK(d) /\ CountOK(d, n) /\ Reported(d.rob, toCommit.insts)
           /\ WasRaised(d.rob, toCommit) /\ Seen(d.rob, d.it)
<1>1. /\ c \in Cycle /\ Chain(c.rob) /\ WalkOK(c) /\ ToldOK(c) /\ ShbOK(c)
      /\ CountOK(c, n) /\ Raising(c) /\ Reported(c.rob, toCommit.insts)
  BY ZenonT(60) DEF StageOK
<1>2. /\ d.it = c.it /\ d.sq = c.sq /\ d.status = c.status /\ d.youngest = c.youngest
      /\ d.last = c.last /\ d.squash = {} /\ d \in Cycle /\ d.shb = c.shb
      /\ d.trap = c.trap /\ d.tc = c.tc /\ d.after = c.after
  BY ZenonT(60) DEF EndsAs
<1>3. PendingOK(d)
  BY <1>2, ZenonT(60) DEF PendingOK
<1>4. CASE c.squash = {}
  <2>1. d.rob = c.rob
    BY <1>4, ZenonT(60) DEF EndsAs
  <2>2. WalkOK(d) /\ ToldOK(d)
    <3>1. \A k \in DOMAIN c.rob : ToWalk(d, k) <=> ToWalk(c, k)
      BY <1>2, <2>1, ZenonT(60) DEF ToWalk
    <3>2. WalkOK(d)
      <4>1. \A k \in DOMAIN c.rob : \A s \in c.rob[k].from : \A j \in 1..k - 1 :
               c.rob[j].sn > s => c.rob[j].squashed \/ ToWalk(d, j)
        BY <1>1, <1>2, <2>1, ZenonT(60) DEF WalkOK, ToWalk
      <4> QED
        BY <1>1, <1>2, <2>1, <3>1, <4>1, ZenonT(60) DEF WalkOK
    <3> QED
      BY <1>1, <1>2, <1>4, <2>1, <3>2, ZenonT(60) DEF ToldOK
  <2>3. ShbOK(d) /\ CountOK(d, n)
    BY <1>1, <1>2, <2>1, ZenonT(60) DEF ShbOK, CountOK
  <2>4. WasRaised(d.rob, toCommit)
    BY <1>1, <2>1, ZenonT(60) DEF Raising, WasRaised
  <2> QED
    BY <1>1, <1>2, <1>3, <2>1, <2>2, <2>3, <2>4, ZenonT(60)
<1>5. CASE c.squash # {}
  <2>1. Dropped(c, d) /\ c.status = "ROBSquashing"
    BY <1>1, <1>5, EndDrops, ZenonT(60)
  <2>2. Chain(d.rob) /\ WalkOK(d) /\ ToldOK(d)
    BY <1>1, <1>2, <1>5, <2>1, DropChain, DropWalkOK, ZenonT(60)
  <2>3. ShbOK(d)
    <3>1. \A a \in DOMAIN c.shb : c.shb[a] \in Entry
      <4>1. c.shb \in Seq(Entry)
        BY <1>1, ZenonT(60) DEF Cycle
      <4> QED
        BY <4>1
    <3>2. \A a \in DOMAIN c.shb : SentOK(c.shb[a], d.rob)
      BY <3>1, <2>1, <1>1, DropSentOK, ZenonT(60) DEF ShbOK
    <3> QED
      BY <3>2, <1>1, <1>2, ZenonT(60) DEF ShbOK
  <2>4. /\ DOMAIN d.rob = DOMAIN c.rob
        /\ \A k \in DOMAIN c.rob :
              /\ d.rob[k].sn = c.rob[k].sn /\ d.rob[k].kind = c.rob[k].kind
              /\ c.rob[k].squashed => d.rob[k].squashed
              /\ c.rob[k].st = "executed" => d.rob[k].st = "executed"
    BY <1>1, <2>1, DroppedSame, ZenonT(60)
  <2>5. CountOK(d, n)
    BY <2>4, <1>1, <1>2, ZenonT(60) DEF CountOK
  <2>6. Reported(d.rob, toCommit.insts)
    BY <2>4, <1>1, ZenonT(60) DEF Reported
  <2>7. WasRaised(d.rob, toCommit)
    <3>1. ASSUME NEW j \in DOMAIN c.rob, c.rob[j].sn \in toCommit.insts,
                 ~c.rob[j].canCommit
          PROVE  ~d.rob[j].canCommit
      <4>1. c.rob[j].st = "executed"
        BY <3>1, <1>1, ZenonT(60) DEF Reported
      <4> QED
        BY <4>1, <3>1, <2>1, ZenonT(60) DEF Dropped, DroppedTo
    <3> QED
      BY <3>1, <2>4, <1>1, ZenonT(60) DEF Raising, WasRaised, Spares
  <2>8. Seen(d.rob, d.it)
    <3>1. ASSUME robInsert, NEW k \in DOMAIN c.rob, isMemRef(d.rob[k]),
                 ~d.rob[k].squashed, Ready(d.rob, k)
          PROVE  /\ d.rob[k].PrevInstsCompleted
                 /\ d.rob[k].SHTpkt /\ d.rob[k].canCommit /\ d.it = 0
                       => d.rob[k].SHTinserted
      <4>1. isMemRef(c.rob[k])
        BY <3>1, <2>4, ZenonT(60) DEF isMemRef
      <4>2. ~(c.rob[k].sn > c.sq)
        BY <4>1, <3>1, <2>1, <1>1, DroppedViews, ZenonT(60)
      <4>3. \A h \in 1..k : h \in DOMAIN c.rob /\ c.rob[h].sn <= c.sq
        <5>1. k \in Nat /\ DOMAIN c.rob = 1..Len(c.rob) /\ Len(c.rob) \in Nat /\ c.sq \in Nat
              /\ \A h \in DOMAIN c.rob : c.rob[h].sn \in Nat
          <6>1. DOMAIN c.rob = 1..Len(c.rob) /\ Len(c.rob) \in Nat /\ c.sq \in Nat
                /\ \A h \in DOMAIN c.rob : c.rob[h].sn \in Nat
            BY <2>1, <1>1, DroppedViews, ZenonT(60)
          <6> QED
            BY <6>1
        <5>2. \A h \in DOMAIN c.rob : h < k => c.rob[h].sn < c.rob[k].sn
          BY <1>1, RobFacts, ZenonT(60)
        <5> QED
          BY <5>1, <5>2, <4>2
      <4>4. k \in 1..k /\ \A h \in 1..k - 1 : h \in 1..k
        <5>1. DOMAIN c.rob = 1..Len(c.rob) /\ Len(c.rob) \in Nat
          BY <2>1, <1>1, DroppedViews, ZenonT(60)
        <5> QED
          BY <5>1
      <4>5. d.rob[k] = c.rob[k] /\ \A h \in 1..k - 1 : d.rob[h] = c.rob[h]
        BY <4>3, <4>4, <2>1, ZenonT(60) DEF Dropped
      <4>6. Ready(c.rob, k)
        BY <4>5, <3>1, ZenonT(60) DEF Ready
      <4> QED
        BY <4>5, <4>6, <3>1, <1>2, ZenonT(60) DEF Seen
    <3> QED
      BY <3>1, <2>4, ZenonT(60) DEF Seen
  <2> QED
    BY <1>3, <2>2, <2>3, <2>5, <2>6, <2>7, <2>8, ZenonT(60)
<1> QED
  BY <1>4, <1>5, ZenonT(60)

-----------------------------------------------------------------------------
(* Steps that neither squash an instruction nor move the walk. *)

\* w is i, perhaps further on.
Further(i, w) ==
    /\ w.sn = i.sn /\ w.kind = i.kind /\ w.squashed = i.squashed /\ w.from = i.from
    /\ HalfSquashed(w) => HalfSquashed(i)
    /\ i.st # "waiting" => /\ w.st # "waiting"
                           /\ (i.SHTpkt => i.SHTinserted) => (w.SHTpkt => w.SHTinserted)
    /\ i.st \in Ended => w.st = i.st

Kept(c, d) ==
    /\ c \in Cycle /\ d \in Cycle /\ Len(d.rob) = Len(c.rob)
    /\ \A k \in DOMAIN c.rob : Further(c.rob[k], d.rob[k])
    /\ d.it = c.it /\ d.sq = c.sq /\ d.status = c.status
    /\ d.youngest = c.youngest /\ d.last = c.last /\ d.squash = c.squash

\* A stage that only takes instructions further keeps the walk right.
LEMMA KeptWalkOK ==
    ASSUME NEW c, NEW d, Kept(c, d), Chain(c.rob), WalkOK(c)
    PROVE  WalkOK(d)
<1>1. /\ DOMAIN c.rob = 1..Len(c.rob) /\ Len(c.rob) \in Nat
      /\ DOMAIN d.rob = DOMAIN c.rob /\ (d.rob # << >> <=> c.rob # << >>)
      /\ c.rob # << >> => 1 \in DOMAIN c.rob
  <2>1. d.rob \in Seq(Inst) /\ c.rob \in Seq(Inst) /\ Len(d.rob) = Len(c.rob)
    BY ZenonT(60) DEF Kept, Cycle
  <2> QED
    BY <2>1
<1>2. /\ d.it = c.it /\ d.sq = c.sq /\ d.status = c.status /\ Len(d.rob) = Len(c.rob)
      /\ d.youngest = c.youngest /\ d.last = c.last
  BY ZenonT(60) DEF Kept
<1>3. \A k \in DOMAIN c.rob :
         /\ d.rob[k].sn = c.rob[k].sn /\ d.rob[k].squashed = c.rob[k].squashed
         /\ d.rob[k].from = c.rob[k].from
         /\ HalfSquashed(d.rob[k]) => HalfSquashed(c.rob[k])
         /\ ToWalk(d, k) <=> ToWalk(c, k)
  BY <1>2, ZenonT(60) DEF Kept, Further, ToWalk
<1>4. \A k \in DOMAIN d.rob :
          /\ d.rob[k].sn > d.last
          /\ HalfSquashed(d.rob[k]) => ToWalk(d, k)
  BY <1>1, <1>2, <1>3, ZenonT(60) DEF WalkOK
<1>5. ASSUME NEW k \in DOMAIN d.rob, NEW s \in d.rob[k].from, NEW j \in 1..k - 1,
             d.rob[j].sn > s
      PROVE  d.rob[j].squashed \/ ToWalk(d, j)
  <2>1. j \in DOMAIN c.rob /\ k \in DOMAIN c.rob /\ s \in c.rob[k].from
    BY <1>1, <1>3
  <2>2. c.rob[j].squashed \/ ToWalk(c, j)
    BY <2>1, <1>3, <1>5, ZenonT(60) DEF WalkOK
  <2> QED
    BY <2>1, <2>2, <1>3, ZenonT(60)
<1>6. d.it <= Len(d.rob) /\ (d.it > 0 => d.status = "ROBSquashing")
  BY <1>2, ZenonT(60) DEF WalkOK
<1>7. d.status = "ROBSquashing" /\ d.rob # << >> =>
          d.youngest <= d.sq /\ d.rob[1].sn <= d.sq + 1
  BY <1>1, <1>2, <1>3, ZenonT(60) DEF WalkOK
<1> QED
  BY <1>4, <1>5, <1>6, <1>7, ZenonT(60) DEF WalkOK

\* It keeps what IEW was told.
LEMMA KeptToldOK ==
    ASSUME NEW c, NEW d, Kept(c, d), Chain(c.rob), ToldOK(c)
    PROVE  ToldOK(d)
<1>1. /\ DOMAIN d.rob = DOMAIN c.rob /\ (d.rob # << >> <=> c.rob # << >>)
  <2>1. d.rob \in Seq(Inst) /\ c.rob \in Seq(Inst) /\ Len(d.rob) = Len(c.rob)
    BY ZenonT(60) DEF Kept, Cycle
  <2> QED
    BY <2>1
<1>2. d.it = c.it /\ d.sq = c.sq /\ d.status = c.status /\ d.squash = c.squash
  BY ZenonT(60) DEF Kept
<1>3. \A k \in DOMAIN c.rob :
         /\ d.rob[k].sn = c.rob[k].sn /\ d.rob[k].squashed = c.rob[k].squashed
         /\ isMemRef(d.rob[k]) <=> isMemRef(c.rob[k])
         /\ c.rob[k].st \in Ended => d.rob[k].st = c.rob[k].st
  BY ZenonT(60) DEF Kept, Further, isMemRef
<1>4. CASE c.squash = {} /\ c.status = "ROBSquashing"
  BY <1>1, <1>2, <1>3, <1>4, ZenonT(60) DEF ToldOK
<1>5. CASE c.squash # {}
  BY <1>1, <1>2, <1>3, <1>5, ZenonT(60) DEF ToldOK
<1> QED
  BY <1>2, <1>4, <1>5, ZenonT(60) DEF ToldOK

\* It agrees with what the SHB was sent.
LEMMA KeptSentOK ==
    ASSUME NEW c, NEW d, Kept(c, d), Chain(c.rob), NEW e, SentOK(e, c.rob)
    PROVE  SentOK(e, d.rob)
<1>1. /\ DOMAIN d.rob = DOMAIN c.rob /\ DOMAIN c.rob = 1..Len(c.rob)
      /\ Len(c.rob) \in Nat
  <2>1. d.rob \in Seq(Inst) /\ c.rob \in Seq(Inst) /\ Len(d.rob) = Len(c.rob)
    BY ZenonT(60) DEF Kept, Cycle
  <2> QED
    BY <2>1
<1>2. \A k \in DOMAIN c.rob :
         /\ d.rob[k].sn = c.rob[k].sn /\ d.rob[k].squashed = c.rob[k].squashed
         /\ d.rob[k].from = c.rob[k].from
         /\ c.rob[k].st # "waiting" =>
               /\ d.rob[k].st # "waiting"
               /\ (c.rob[k].SHTpkt => c.rob[k].SHTinserted) =>
                     (d.rob[k].SHTpkt => d.rob[k].SHTinserted)
  BY ZenonT(60) DEF Kept, Further
<1>3. \A k \in DOMAIN d.rob : d.rob[k].sn <= e.sn =>
         d.rob[k].st # "waiting" /\ (d.rob[k].SHTpkt => d.rob[k].SHTinserted)
  BY <1>1, <1>2, ZenonT(60) DEF SentOK
<1>4. \/ \E j \in DOMAIN d.rob : d.rob[j].sn = e.sn /\ (e.from # {} => d.rob[j].from = e.from)
      \/ \A k \in DOMAIN d.rob : d.rob[k].sn > e.sn
  BY <1>1, <1>2, ZenonT(60) DEF SentOK
<1>5. ASSUME NEW s \in e.from, NEW k \in DOMAIN d.rob,
             d.rob[k].from = e.from, d.rob[k].sn > e.sn
      PROVE  \E j \in 1..k - 1 : d.rob[j].squashed /\ d.rob[j].sn > s
  <2>1. PICK j \in 1..k - 1 : c.rob[j].squashed /\ c.rob[j].sn > s
    BY <1>1, <1>2, <1>5, ZenonT(60) DEF SentOK
  <2>2. j \in DOMAIN c.rob
    BY <1>1
  <2> QED
    BY <2>1, <2>2, <1>2, ZenonT(60)
<1>6. \A s \in e.from : s < e.sn /\ e.from = {s}
  BY ZenonT(60) DEF SentOK
<1> QED
  BY <1>3, <1>4, <1>5, <1>6, ZenonT(60) DEF SentOK

\* It keeps what IEW reported.
LEMMA KeptReported ==
    ASSUME NEW c, NEW d, Kept(c, d), NEW S, Reported(c.rob, S)
    PROVE  Reported(d.rob, S)
<1>1. DOMAIN d.rob = DOMAIN c.rob
  <2>1. d.rob \in Seq(Inst) /\ c.rob \in Seq(Inst) /\ Len(d.rob) = Len(c.rob)
    BY ZenonT(60) DEF Kept, Cycle
  <2> QED
    BY <2>1
<1>2. \A k \in DOMAIN c.rob :
         /\ d.rob[k].sn = c.rob[k].sn
         /\ c.rob[k].st = "executed" => d.rob[k].st = "executed"
  BY ZenonT(60) DEF Kept, Further, Ended
<1> QED
  BY <1>1, <1>2, ZenonT(60) DEF Reported

\* It keeps the numbers.
LEMMA KeptCountOK ==
    ASSUME NEW c, NEW d, Kept(c, d), d.shb = c.shb, NEW n, CountOK(c, n)
    PROVE  CountOK(d, n)
<1>1. DOMAIN d.rob = DOMAIN c.rob
  <2>1. d.rob \in Seq(Inst) /\ c.rob \in Seq(Inst) /\ Len(d.rob) = Len(c.rob)
    BY ZenonT(60) DEF Kept, Cycle
  <2> QED
    BY <2>1
<1>2. \A k \in DOMAIN c.rob : d.rob[k].sn = c.rob[k].sn /\ d.rob[k].kind = c.rob[k].kind
  BY ZenonT(60) DEF Kept, Further
<1> QED
  BY <1>1, <1>2, ZenonT(60) DEF CountOK, Kept

-----------------------------------------------------------------------------
(* What IEW has finished is marked, then the scan looks for safe accesses. *)

\* An instruction that IEW has finished is ready to commit.
ready(i) == IF i.sn \in fromIEW.insts /\ ~i.squashed
            THEN [i EXCEPT !.canCommit = TRUE] ELSE i

markReady(c) == [c EXCEPT !.rob = [k \in DOMAIN c.rob |-> ready(c.rob[k])]]

ReadyTo(i, w) ==
    /\ InstOK(w) /\ Further(i, w)
    /\ i.canCommit \/ (i.sn \in fromIEW.insts /\ ~i.squashed) => w.canCommit
    /\ w.canCommit => i.canCommit \/ (i.sn \in fromIEW.insts /\ ~i.squashed)
    /\ w.fault = i.fault /\ w.st = i.st
    /\ w.PrevInstsCompleted = i.PrevInstsCompleted
    /\ w.SHTpkt = i.SHTpkt /\ w.SHTinserted = i.SHTinserted

\* A record with another ROB, or with other entries sent to the SHB too.
LEMMA OtherRob ==
    ASSUME NEW c \in Cycle, NEW r \in Seq(Inst)
    PROVE  [c EXCEPT !.rob = r] \in Cycle
BY ZenonT(60) DEF Cycle

SameBut(c, d, r, q) ==
    /\ d \in Cycle /\ d.rob = r /\ d.shb = q
    /\ d.it = c.it /\ d.sq = c.sq /\ d.status = c.status /\ d.trap = c.trap
    /\ d.tc = c.tc /\ d.after = c.after /\ d.youngest = c.youngest
    /\ d.last = c.last /\ d.squash = c.squash

\* A record with other instructions and another SHB has the other fields unchanged.
LEMMA OtherRobAndShb ==
    ASSUME NEW c \in Cycle, NEW r \in Seq(Inst), NEW q \in Seq(Entry)
    PROVE  SameBut(c, [c EXCEPT !.rob = r, !.shb = q], r, q)
BY ZenonT(60) DEF Cycle, SameBut

\* An instruction that becomes ready to commit.
LEMMA SetCanCommit ==
    ASSUME NEW i \in Inst
    PROVE  LET v == [i EXCEPT !.canCommit = TRUE]
           IN  /\ v \in Inst /\ v.sn = i.sn /\ v.kind = i.kind /\ v.st = i.st
               /\ v.squashed = i.squashed /\ v.from = i.from /\ v.fault = i.fault
               /\ v.SHTpkt = i.SHTpkt /\ v.SHTinserted = i.SHTinserted
               /\ v.PrevInstsCompleted = i.PrevInstsCompleted /\ v.noFill = i.noFill
               /\ v.canCommit = TRUE
BY ZenonT(60) DEF Inst

\* One instruction.
LEMMA ReadyFacts ==
    ASSUME NEW i, InstOK(i), i.sn \in fromIEW.insts => i.st = "executed"
    PROVE  ReadyTo(i, ready(i))
<1> DEFINE w == ready(i)
<1>1. i \in Inst
  BY ZenonT(60) DEF InstOK
<1> DEFINE now == i.sn \in fromIEW.insts /\ ~i.squashed
<1>2. CASE now
  <2> DEFINE v == [i EXCEPT !.canCommit = TRUE]
  <2>1. w = v
    BY <1>2 DEF ready
  <2>2. /\ v \in Inst /\ v.sn = i.sn /\ v.kind = i.kind /\ v.st = i.st
        /\ v.squashed = i.squashed /\ v.from = i.from /\ v.fault = i.fault
        /\ v.SHTpkt = i.SHTpkt /\ v.SHTinserted = i.SHTinserted
        /\ v.PrevInstsCompleted = i.PrevInstsCompleted /\ v.noFill = i.noFill
        /\ v.canCommit = TRUE
    BY <1>1, SetCanCommit
  <2> HIDE DEF v
  <2>3. v.st = "executed"
    BY <1>2, <2>2, ZenonT(60)
  <2>4. InstOK(v)
    BY <2>2, <2>3, ZenonT(60) DEF InstOK, isMemRef, Ended
  <2>5. HalfSquashed(v) => HalfSquashed(i)
    BY <2>2, ZenonT(60) DEF HalfSquashed
  <2>6. Further(i, v)
    BY <2>2, <2>5, ZenonT(60) DEF Further
  <2>7. ReadyTo(i, v)
    BY <1>2, <2>2, <2>4, <2>6, ZenonT(60) DEF ReadyTo
  <2> QED
    BY <2>1, <2>7
<1>3. CASE ~now
  <2>1. ready(i) = i
    BY <1>3 DEF ready
  <2>2. ReadyTo(i, i)
    BY <1>3, ZenonT(60) DEF ReadyTo, Further
  <2> QED
    BY <2>1, <2>2
<1> QED
  BY <1>2, <1>3, ZenonT(60)

\* Marking keeps what holds between the stages.
LEMMA MarkReadyOK ==
    ASSUME NEW c, NEW n \in Nat, StageOK(c, n)
    PROVE  /\ StageOK(markReady(c), n)
           /\ markReady(c).squash = c.squash /\ markReady(c).status = c.status
           /\ markReady(c).trap = c.trap /\ markReady(c).tc = c.tc
           /\ markReady(c).after = c.after
<1> DEFINE d == markReady(c)
<1>1. /\ c \in Cycle /\ Chain(c.rob) /\ WalkOK(c) /\ ToldOK(c) /\ ShbOK(c)
      /\ CountOK(c, n) /\ Raising(c)
      /\ Reported(c.rob, toCommit.insts) /\ Reported(c.rob, fromIEW.insts)
  BY ZenonT(60) DEF StageOK
<1>2. Len(c.rob) \in Nat /\ DOMAIN c.rob = 1..Len(c.rob)
  BY <1>1, RobFacts, ZenonT(60)
<1>3. \A k \in DOMAIN c.rob : ReadyTo(c.rob[k], ready(c.rob[k]))
  <2>1. \A k \in DOMAIN c.rob : InstOK(c.rob[k])
    BY <1>1, ZenonT(60) DEF Chain
  <2> QED
    BY <2>1, <1>1, ReadyFacts, ZenonT(60) DEF Reported
<1>4. d.rob = [k \in DOMAIN c.rob |-> ready(c.rob[k])]
  BY <1>1, ZenonT(60) DEF markReady, Cycle
<1>5. /\ d.it = c.it /\ d.sq = c.sq /\ d.status = c.status /\ d.trap = c.trap
      /\ d.tc = c.tc /\ d.after = c.after /\ d.youngest = c.youngest
      /\ d.last = c.last /\ d.shb = c.shb /\ d.squash = c.squash
      /\ d.lq = c.lq /\ d.stores = c.stores /\ d.num = c.num /\ d.stop = c.stop
  BY <1>1, ZenonT(60) DEF markReady, Cycle
<1>6. /\ d.rob \in Seq(Inst) /\ Len(d.rob) = Len(c.rob) /\ DOMAIN d.rob = DOMAIN c.rob
  <2>1. \A k \in DOMAIN c.rob : ready(c.rob[k]) \in Inst
    BY <1>3, ZenonT(60) DEF ReadyTo, InstOK
  <2>2. d.rob \in [1..Len(c.rob) -> Inst]
    BY <2>1, <1>2, <1>4, ZenonT(60)
  <2> HIDE DEF d
  <2> QED
    BY <2>2, <1>2
<1>7. d \in Cycle
  <2> DEFINE r == [k \in DOMAIN c.rob |-> ready(c.rob[k])]
  <2>1. d = [c EXCEPT !.rob = r]
    BY DEF markReady
  <2>2. r \in Seq(Inst)
    BY <1>4, <1>6, ZenonT(60)
  <2> HIDE DEF d, r
  <2>3. c \in Cycle
    BY <1>1, ZenonT(60)
  <2>4. [c EXCEPT !.rob = r] \in Cycle
    BY <2>2, <2>3, OtherRob
  <2> QED
    BY <2>1, <2>4
<1> HIDE DEF d
<1>8. \A k \in DOMAIN c.rob : ReadyTo(c.rob[k], d.rob[k])
  BY <1>3, <1>4, ZenonT(60)
<1>9. Kept(c, d)
  BY <1>1, <1>5, <1>6, <1>7, <1>8, ZenonT(60) DEF Kept, ReadyTo
<1>10. Chain(d.rob)
  <2>1. ASSUME NEW h \in DOMAIN c.rob, NEW k \in DOMAIN c.rob, h < k
        PROVE  PairOK(d.rob[h], d.rob[k])
    <3>1. PairOK(c.rob[h], c.rob[k])
      BY <2>1, <1>1, ZenonT(60) DEF Chain
    <3>2. /\ ReadyTo(c.rob[h], d.rob[h]) /\ ReadyTo(c.rob[k], d.rob[k])
      BY <1>8, ZenonT(60)
    <3>3. PICK h0, k0, h1, k1 :
             /\ h0 = c.rob[h] /\ k0 = c.rob[k] /\ h1 = d.rob[h] /\ k1 = d.rob[k]
      OBVIOUS
    <3>4. PairOK(h0, k0) /\ ReadyTo(h0, h1) /\ ReadyTo(k0, k1)
      BY <3>1, <3>2, <3>3, ZenonT(60)
    <3>5. PairOK(h1, k1)
      BY <3>4, ZenonT(60) DEF PairOK, ReadyTo, Further
    <3> QED
      BY <3>3, <3>5, ZenonT(60)
  <2> QED
    BY <2>1, <1>6, <1>8, ZenonT(60) DEF Chain, ReadyTo
<1>11. ShbOK(d)
  <2>1. \A a \in DOMAIN c.shb : SentOK(c.shb[a], d.rob)
    BY <1>1, <1>9, KeptSentOK, ZenonT(60) DEF ShbOK
  <2> QED
    BY <2>1, <1>1, <1>5, ZenonT(60) DEF ShbOK
<1>12. Raising(d)
  <2>1. \A k \in DOMAIN c.rob :
           /\ d.rob[k].sn = c.rob[k].sn /\ d.rob[k].kind = c.rob[k].kind
           /\ d.rob[k].squashed = c.rob[k].squashed
           /\ d.rob[k].canCommit => c.rob[k].canCommit \/ c.rob[k].sn \in fromIEW.insts
    BY <1>8, ZenonT(60) DEF ReadyTo, Further
  <2> QED
    BY <2>1, <1>1, <1>5, <1>6 DEF Raising, Spares
<1>13. WalkOK(d) /\ ToldOK(d) /\ CountOK(d, n)
  BY <1>1, <1>5, <1>9, KeptWalkOK, KeptToldOK, KeptCountOK, ZenonT(60)
<1>14. Reported(d.rob, toCommit.insts) /\ Reported(d.rob, fromIEW.insts)
  BY <1>1, <1>9, KeptReported, ZenonT(60)
<1>15. StageOK(d, n)
  BY <1>7, <1>10, <1>11, <1>12, <1>13, <1>14, ZenonT(60) DEF StageOK
<1> QED
  BY <1>5, <1>15, ZenonT(60) DEF d

\* What the scan sends for an instruction, and to the SHB up to each position.
sent(i) == [sn |-> i.sn, from |-> i.from]

Scans(c, N, f) ==
    f = [k \in 0..N |-> IF k = 0 THEN c.shb
                        ELSE IF ~isInserted(c, k) THEN f[k - 1]
                        ELSE Append(f[k - 1], sent(c.rob[k]))]

\* The scan of updateVisibleState is a function.
LEMMA ScansExist ==
    ASSUME WellOrdered, NEW c, NEW N \in Nat
    PROVE  \E f : Scans(c, N, f)
<1> DEFINE Bad == {n \in Nat : ~\E f : Scans(c, n, f)}
           more(k, q) == IF ~isInserted(c, k) THEN q ELSE Append(q, sent(c.rob[k]))
<1>1. ASSUME Bad # {} PROVE FALSE
  <2>1. PICK x \in Bad : \A y \in Bad : x <= y
    <3>1. Bad \in SUBSET Nat
      OBVIOUS
    <3> HIDE DEF Bad
    <3> QED
      BY <1>1, <3>1 DEF WellOrdered
  <2>2. CASE x = 0
    <3>1. Scans(c, 0, [n \in 0..0 |-> c.shb])
      BY DEF Scans
    <3> QED
      BY <3>1, <2>2, <2>1
  <2>3. CASE x # 0
    <3>1. x - 1 \in Nat /\ x - 1 \notin Bad
      BY <2>1, <2>3
    <3>2. PICK f : Scans(c, x - 1, f)
      BY <3>1
    <3>3. f = [n \in 0..x - 1 |-> IF n = 0 THEN c.shb ELSE more(n, f[n - 1])]
      BY <3>2, ZenonT(60) DEF Scans
    <3> HIDE DEF more
    <3> DEFINE g == [n \in 0..x |-> IF n = x THEN more(n, f[n - 1]) ELSE f[n]]
    <3>4. \A n \in 0..x : g[n] = IF n = 0 THEN c.shb ELSE more(n, g[n - 1])
      BY <3>3, <2>3, <2>1
    <3>5. g = [n \in 0..x |-> g[n]]
      OBVIOUS
    <3> HIDE DEF g
    <3>6. [n \in 0..x |-> g[n]] =
          [n \in 0..x |-> IF n = 0 THEN c.shb ELSE more(n, g[n - 1])]
      BY <3>4, ZenonT(60)
    <3>7. Scans(c, x, g)
      BY <3>5, <3>6, ZenonT(60) DEF Scans, more
    <3> QED
      BY <3>7, <2>1
  <2> QED
    BY <2>2, <2>3
<1> QED
  BY <1>1

\* What has been sent when the scan has passed position n.
ScanInv(c, q, n) ==
    /\ q \in Seq(Entry) /\ InOrder(q)
    /\ \A a \in DOMAIN q :
          \/ \E b \in DOMAIN c.shb : q[a] = c.shb[b]
          \/ \E k \in DOMAIN c.rob : k <= n /\ isInserted(c, k) /\ q[a] = sent(c.rob[k])

\* One position of the scan keeps what was sent in program order.
LEMMA ScanStep ==
    ASSUME NEW c \in Cycle, Chain(c.rob), ShbOK(c), NEW q, NEW n \in Nat,
           ScanInv(c, q, n), n + 1 \in DOMAIN c.rob, isInserted(c, n + 1)
    PROVE  ScanInv(c, Append(q, sent(c.rob[n + 1])), n + 1)
<1> DEFINE e == sent(c.rob[n + 1])
           p == Append(q, e)
<1>1. q \in Seq(Entry) /\ InOrder(q)
  BY ZenonT(60) DEF ScanInv
<1>2. c.rob[n + 1] \in Inst /\ InstOK(c.rob[n + 1])
  BY RobFacts, ZenonT(60)
<1>3. e.sn = c.rob[n + 1].sn /\ e.from = c.rob[n + 1].from /\ e \in Entry
  BY <1>2, ZenonT(60) DEF sent, Inst, Entry
<1>4. ASSUME NEW a \in DOMAIN q
      PROVE  q[a].sn < e.sn /\ (q[a].from # {} => q[a].from # e.from)
  <2>1. CASE \E b \in DOMAIN c.shb : q[a] = c.shb[b]
    <3>1. SentOK(q[a], c.rob) /\ q[a] \in Entry
      BY <2>1, <1>1 DEF ShbOK
    <3>2. ~(c.rob[n + 1].sn <= q[a].sn)
      BY <3>1, ZenonT(60) DEF SentOK, isInserted
    <3>3. q[a].sn \in Nat /\ c.rob[n + 1].sn \in Nat
      BY <3>1, <1>2, ZenonT(60) DEF Entry, Inst
    <3>4. q[a].sn < e.sn
      BY <3>2, <3>3, <1>3
    <3>5. ASSUME q[a].from # {}, q[a].from = e.from PROVE FALSE
      <4>1. PICK s \in q[a].from : TRUE
        BY <3>5, ZenonT(60)
      <4>2. PICK j \in 1..(n + 1) - 1 : c.rob[j].squashed
        BY <4>1, <3>1, <3>4, <3>5, <1>3, ZenonT(60) DEF SentOK
      <4>3. ~c.rob[j].squashed
        BY <4>2, ZenonT(60) DEF isInserted, isVisible, completed
      <4> QED
        BY <4>2, <4>3, ZenonT(60)
    <3> QED
      BY <3>4, <3>5, ZenonT(60)
  <2>2. ASSUME NEW k \in DOMAIN c.rob, k <= n, q[a] = sent(c.rob[k])
        PROVE  q[a].sn < e.sn /\ (q[a].from # {} => q[a].from # e.from)
    <3>1. q[a].sn = c.rob[k].sn /\ q[a].from = c.rob[k].from
      BY <2>2 DEF sent
    <3>2. k \in 1..(n + 1) - 1 /\ k < n + 1
      BY <2>2, RobFacts
    <3>3. c.rob[k].sn < c.rob[n + 1].sn
      BY <3>2, RobFacts, ZenonT(60)
    <3>4. ~c.rob[k].squashed
      BY <3>2, ZenonT(60) DEF isInserted, isVisible, completed
    <3>5. c.rob[k].from = {}
      BY <3>4, RobFacts, ZenonT(60) DEF InstOK
    <3> QED
      BY <3>1, <3>3, <3>5, <1>3, ZenonT(60)
  <2> QED
    BY <2>1, <2>2, ZenonT(60) DEF ScanInv
<1> HIDE DEF e
<1>5. /\ p \in Seq(Entry) /\ Len(p) = Len(q) + 1 /\ Len(q) \in Nat
      /\ DOMAIN q = 1..Len(q) /\ DOMAIN p = 1..Len(q) + 1
      /\ \A a \in DOMAIN q : p[a] = q[a]
      /\ p[Len(q) + 1] = e
  BY <1>1, <1>3
<1> HIDE DEF p
<1>6. \A a \in DOMAIN p : a \in DOMAIN q \/ a = Len(q) + 1
  BY <1>5
<1>7. InOrder(p)
  <2>1. ASSUME NEW a \in DOMAIN p, NEW b \in DOMAIN p, a < b
        PROVE  p[a].sn < p[b].sn /\ (p[a].from # {} => p[a].from # p[b].from)
    <3>1. a \in DOMAIN q
      BY <2>1, <1>5
    <3>2. CASE b \in DOMAIN q
      BY <3>1, <3>2, <2>1, <1>1, <1>5 DEF InOrder
    <3>3. CASE b = Len(q) + 1
      BY <3>1, <3>3, <1>4, <1>5, ZenonT(60)
    <3> QED
      BY <3>2, <3>3, <1>6, ZenonT(60)
  <2> QED
    BY <2>1, ZenonT(60) DEF InOrder
<1>8. ASSUME NEW a \in DOMAIN p
      PROVE  \/ \E b \in DOMAIN c.shb : p[a] = c.shb[b]
             \/ \E k \in DOMAIN c.rob : /\ k <= n + 1 /\ isInserted(c, k)
                                        /\ p[a] = sent(c.rob[k])
  <2>1. CASE a \in DOMAIN q
    <3>1. CASE \E b \in DOMAIN c.shb : q[a] = c.shb[b]
      BY <3>1, <2>1, <1>5, ZenonT(60)
    <3>2. ASSUME NEW k \in DOMAIN c.rob, k <= n, isInserted(c, k), q[a] = sent(c.rob[k])
          PROVE  /\ k <= n + 1 /\ isInserted(c, k) /\ p[a] = sent(c.rob[k])
      <4>1. k \in Nat
        BY RobFacts
      <4> QED
        BY <3>2, <4>1, <2>1, <1>5
    <3> QED
      BY <3>1, <3>2, <2>1, ZenonT(60) DEF ScanInv
  <2>2. CASE a = Len(q) + 1
    <3>1. p[a] = sent(c.rob[n + 1]) /\ n + 1 <= n + 1
      BY <2>2, <1>5 DEF e
    <3> QED
      BY <3>1, ZenonT(60)
  <2> QED
    BY <2>1, <2>2, <1>6, ZenonT(60)
<1>9. ScanInv(c, p, n + 1)
  BY <1>5, <1>7, <1>8, ZenonT(60) DEF ScanInv
<1> QED
  BY <1>9, ZenonT(60) DEF p, e

\* What the scan makes of the instruction at k.
visible(c, k) ==
    [c.rob[k] EXCEPT !.PrevInstsCompleted = @ \/ isVisible(c, k),
                     !.SHTinserted = @ \/ isInserted(c, k)]

\* The whole scan.
LEMMA ScanOK ==
    ASSUME WellOrdered, NEW c \in Cycle, Chain(c.rob), ShbOK(c)
    PROVE  \E q : /\ ScanInv(c, q, Len(c.rob))
                  /\ updateVisibleState(c) =
                        [c EXCEPT !.rob = [k \in DOMAIN c.rob |-> visible(c, k)],
                                  !.shb = q]
<1>1. Len(c.rob) \in Nat /\ DOMAIN c.rob = 1..Len(c.rob)
  BY RobFacts, ZenonT(60)
<1> DEFINE f == CHOOSE f : f = [k \in 0..Len(c.rob) |->
                                   IF k = 0 THEN c.shb
                                   ELSE IF ~isInserted(c, k) THEN f[k - 1]
                                   ELSE Append(f[k - 1],
                                               [sn |-> c.rob[k].sn, from |-> c.rob[k].from])]
           Bad == {n \in 0..Len(c.rob) : ~ScanInv(c, f[n], n)}
<1>2. updateVisibleState(c) =
         [c EXCEPT !.rob = [k \in DOMAIN c.rob |-> visible(c, k)],
                   !.shb = f[Len(c.rob)]]
  BY DEF updateVisibleState, visible
<1>3. Scans(c, Len(c.rob), f)
  <2>1. \E g : g = [k \in 0..Len(c.rob) |->
                       IF k = 0 THEN c.shb
                       ELSE IF ~isInserted(c, k) THEN g[k - 1]
                       ELSE Append(g[k - 1],
                                   [sn |-> c.rob[k].sn, from |-> c.rob[k].from])]
    BY <1>1, ScansExist, ZenonT(60) DEF Scans, sent
  <2> QED
    BY <2>1, ZenonT(60) DEF Scans, sent
<1> HIDE DEF f
<1>4. /\ f[0] = c.shb
      /\ \A k \in 1..Len(c.rob) :
            /\ ~isInserted(c, k) => f[k] = f[k - 1]
            /\ isInserted(c, k) => f[k] = Append(f[k - 1], sent(c.rob[k]))
  <2> DEFINE more(k, q) == IF ~isInserted(c, k) THEN q
                           ELSE Append(q, sent(c.rob[k]))
  <2>1. PICK N \in Nat : N = Len(c.rob)
    BY <1>1
  <2>2. f = [k \in 0..N |-> IF k = 0 THEN c.shb ELSE more(k, f[k - 1])]
    BY <1>3, <2>1, ZenonT(60) DEF Scans
  <2> HIDE DEF more
  <2>3. f[0] = c.shb /\ \A k \in 1..N : f[k] = more(k, f[k - 1])
    BY <2>2
  <2> QED
    BY <2>1, <2>3, ZenonT(60) DEF more
<1>5. ASSUME Bad # {} PROVE FALSE
  <2>1. PICK x \in Bad : \A y \in Bad : x <= y
    <3>1. Bad \in SUBSET Nat
      BY <1>1
    <3> HIDE DEF Bad
    <3> QED
      BY <1>5, <3>1 DEF WellOrdered
  <2>2. CASE x = 0
    <3>1. c.shb \in Seq(Entry) /\ InOrder(c.shb)
      BY ZenonT(60) DEF ShbOK, Cycle
    <3>2. ScanInv(c, c.shb, 0)
      BY <3>1, ZenonT(60) DEF ScanInv
    <3> QED
      BY <3>2, <2>1, <2>2, <1>4, ZenonT(60)
  <2>3. CASE x # 0
    <3>1. PICK n \in Nat : x = n + 1 /\ n \notin Bad /\ n \in 0..Len(c.rob)
                           /\ x \in DOMAIN c.rob /\ x \in 1..Len(c.rob) /\ n = x - 1
      <4>1. /\ x = (x - 1) + 1 /\ x - 1 \in Nat /\ x - 1 \notin Bad
            /\ x - 1 \in 0..Len(c.rob) /\ x \in 1..Len(c.rob)
        BY <2>1, <2>3, <1>1
      <4> HIDE DEF Bad
      <4> QED
        BY <4>1, <1>1, ZenonT(60)
    <3>2. ScanInv(c, f[n], n)
      BY <3>1, ZenonT(60)
    <3>3. CASE ~isInserted(c, x)
      <4>1. f[x] = f[n]
        BY <3>1, <3>3, <1>4, ZenonT(60)
      <4>2. ScanInv(c, f[n], x)
        <5>1. \A k \in DOMAIN c.rob : k <= n => k <= x
          BY <3>1, <1>1
        <5> QED
          BY <5>1, <3>2, ZenonT(60) DEF ScanInv
      <4> QED
        BY <4>1, <4>2, <2>1, ZenonT(60)
    <3>4. CASE isInserted(c, x)
      <4>1. f[x] = Append(f[n], sent(c.rob[x]))
        BY <3>1, <3>4, <1>4, ZenonT(60)
      <4>2. ScanInv(c, Append(f[n], sent(c.rob[n + 1])), n + 1)
        BY <3>1, <3>2, <3>4, ScanStep, ZenonT(60)
      <4>3. ScanInv(c, f[x], x)
        BY <4>1, <4>2, <3>1, ZenonT(60)
      <4> QED
        BY <4>3, <2>1, ZenonT(60)
    <3> QED
      BY <3>3, <3>4
  <2> QED
    BY <2>2, <2>3
<1>6. ScanInv(c, f[Len(c.rob)], Len(c.rob))
  BY <1>1, <1>5
<1> QED
  BY <1>2, <1>6, ZenonT(60)

VisibleTo(c, k, w) ==
    /\ InstOK(w) /\ Further(c.rob[k], w)
    /\ w.canCommit = c.rob[k].canCommit /\ w.fault = c.rob[k].fault
    /\ w.st = c.rob[k].st /\ w.SHTpkt = c.rob[k].SHTpkt
    /\ w.PrevInstsCompleted <=> c.rob[k].PrevInstsCompleted \/ isVisible(c, k)
    /\ w.SHTinserted <=> c.rob[k].SHTinserted \/ isInserted(c, k)

\* One instruction before and after the scan.
LEMMA VisibleFacts ==
    ASSUME NEW c, NEW k, InstOK(c.rob[k])
    PROVE  VisibleTo(c, k, visible(c, k))
<1> DEFINE i == c.rob[k]
           w == visible(c, k)
           p == i.PrevInstsCompleted \/ isVisible(c, k)
           t == i.SHTinserted \/ isInserted(c, k)
<1>1. i \in Inst /\ InstOK(i)
  BY ZenonT(60) DEF InstOK
<1>2. w = [i EXCEPT !.PrevInstsCompleted = p, !.SHTinserted = t]
  BY <1>1, ZenonT(60) DEF visible, Inst
<1>3. p \in BOOLEAN /\ t \in BOOLEAN
  OBVIOUS
<1>4. (isVisible(c, k) => isMemRef(i)) /\ (isInserted(c, k) => isVisible(c, k))
  BY ZenonT(60) DEF isVisible, isInserted
<1>5. /\ p <=> i.PrevInstsCompleted \/ isVisible(c, k)
      /\ t <=> i.SHTinserted \/ isInserted(c, k)
  OBVIOUS
<1> HIDE DEF p, t, i
<1> DEFINE v == [i EXCEPT !.PrevInstsCompleted = p, !.SHTinserted = t]
<1>6. /\ v \in Inst /\ v.sn = i.sn /\ v.kind = i.kind /\ v.st = i.st
      /\ v.squashed = i.squashed /\ v.from = i.from /\ v.fault = i.fault
      /\ v.SHTpkt = i.SHTpkt /\ v.noFill = i.noFill
      /\ v.canCommit = i.canCommit
  BY <1>1, <1>3, ZenonT(60) DEF Inst
<1>7. v.PrevInstsCompleted = p /\ v.SHTinserted = t
  BY <1>1, <1>3 DEF Inst
<1> HIDE DEF v
<1>8. InstOK(v)
  BY <1>1, <1>4, <1>5, <1>6, <1>7, ZenonT(60) DEF InstOK, isMemRef
<1>9. HalfSquashed(v) => HalfSquashed(i)
  BY <1>6, ZenonT(60) DEF HalfSquashed
<1>10. Further(i, v)
  BY <1>5, <1>6, <1>7, <1>9, ZenonT(60) DEF Further
<1>11. VisibleTo(c, k, v)
  BY <1>5, <1>6, <1>7, <1>8, <1>10, ZenonT(60) DEF VisibleTo, i
<1> QED
  BY <1>2, <1>11 DEF v

\* The scan keeps what holds between the stages, and sees what can be seen.
LEMMA UpdateVisibleStateOK ==
    ASSUME WellOrdered, NEW c, NEW n \in Nat, StageOK(c, n)
    PROVE  LET d == updateVisibleState(c)
           IN  /\ StageOK(d, n) /\ Seen(d.rob, d.it)
               /\ d.squash = c.squash /\ d.status = c.status
               /\ d.trap = c.trap /\ d.tc = c.tc /\ d.after = c.after
<1> DEFINE d == updateVisibleState(c)
           r == [k \in DOMAIN c.rob |-> visible(c, k)]
<1>1. /\ c \in Cycle /\ Chain(c.rob) /\ WalkOK(c) /\ ToldOK(c) /\ ShbOK(c)
      /\ CountOK(c, n) /\ Raising(c)
      /\ Reported(c.rob, toCommit.insts) /\ Reported(c.rob, fromIEW.insts)
  BY ZenonT(60) DEF StageOK
<1>2. Len(c.rob) \in Nat /\ DOMAIN c.rob = 1..Len(c.rob)
  BY <1>1, RobFacts, ZenonT(60)
<1>3. PICK q : ScanInv(c, q, Len(c.rob)) /\ d = [c EXCEPT !.rob = r, !.shb = q]
  BY <1>1, ScanOK, ZenonT(60)
<1>4. \A k \in DOMAIN c.rob : VisibleTo(c, k, visible(c, k))
  <2>1. \A k \in DOMAIN c.rob : InstOK(c.rob[k])
    BY <1>1, RobFacts, ZenonT(60)
  <2> QED
    BY <2>1, VisibleFacts, ZenonT(60)
<1>5. \A k \in DOMAIN c.rob : VisibleTo(c, k, r[k])
  BY <1>4
<1>6. r \in Seq(Inst) /\ Len(r) = Len(c.rob) /\ DOMAIN r = DOMAIN c.rob
  <2>1. \A k \in DOMAIN c.rob : visible(c, k) \in Inst
    BY <1>4, ZenonT(60) DEF VisibleTo, InstOK
  <2>2. r \in [1..Len(c.rob) -> Inst]
    BY <2>1, <1>2
  <2> HIDE DEF r
  <2> QED
    BY <2>2, <1>2
<1> HIDE DEF d, r
<1>7. /\ d \in Cycle /\ d.rob = r /\ d.shb = q
      /\ d.it = c.it /\ d.sq = c.sq /\ d.status = c.status /\ d.trap = c.trap
      /\ d.tc = c.tc /\ d.after = c.after /\ d.youngest = c.youngest
      /\ d.last = c.last /\ d.squash = c.squash
  <2>1. q \in Seq(Entry) /\ c \in Cycle /\ r \in Seq(Inst)
    BY <1>1, <1>3, <1>6, ZenonT(60) DEF ScanInv
  <2>2. SameBut(c, d, r, q)
    BY <2>1, <1>3, OtherRobAndShb, ZenonT(60)
  <2> QED
    BY <2>2, ZenonT(60) DEF SameBut
<1>8. DOMAIN d.rob = DOMAIN c.rob /\ Len(d.rob) = Len(c.rob)
  BY <1>6, <1>7, ZenonT(60)
<1>9. \A k \in DOMAIN c.rob : VisibleTo(c, k, d.rob[k])
  BY <1>5, <1>7, ZenonT(60)
<1>10. Kept(c, d)
  BY <1>1, <1>7, <1>8, <1>9, ZenonT(60) DEF Kept, VisibleTo
<1>11. \A k \in DOMAIN c.rob : completed(d.rob[k]) <=> completed(c.rob[k])
  BY <1>9, ZenonT(60) DEF VisibleTo, Further, completed
<1>12. Chain(d.rob)
  <2>1. ASSUME NEW h \in DOMAIN c.rob, NEW k \in DOMAIN c.rob, h < k
        PROVE  PairOK(d.rob[h], d.rob[k])
    <3>1. PairOK(c.rob[h], c.rob[k])
      BY <2>1, <1>1, ZenonT(60) DEF Chain
    <3>2. VisibleTo(c, h, d.rob[h]) /\ VisibleTo(c, k, d.rob[k])
      BY <1>9, ZenonT(60)
    <3>3. InstOK(c.rob[h])
      BY <1>1, RobFacts, ZenonT(60)
    <3>4. isVisible(c, k) => completed(c.rob[h])
      <4>1. h \in 1..k - 1
        BY <2>1, <1>2
      <4> QED
        BY <4>1, ZenonT(60) DEF isVisible
    <3>5. completed(c.rob[h]) =>
             /\ c.rob[h].kind \notin Special /\ c.rob[h].canCommit
             /\ c.rob[h].st \in Ended /\ c.rob[h].fault # "fault"
             /\ ~c.rob[h].squashed
      BY <3>3, ZenonT(60) DEF completed, InstOK
    <3>6. PICK h0, k0, h1, k1 :
             /\ h0 = c.rob[h] /\ k0 = c.rob[k] /\ h1 = d.rob[h] /\ k1 = d.rob[k]
      OBVIOUS
    <3>7. /\ h1.sn = h0.sn /\ h1.kind = h0.kind /\ h1.canCommit = h0.canCommit
          /\ h1.st = h0.st /\ h1.fault = h0.fault /\ h1.squashed = h0.squashed
          /\ k1.sn = k0.sn /\ k1.squashed = k0.squashed
          /\ k1.PrevInstsCompleted => k0.PrevInstsCompleted \/ isVisible(c, k)
      BY <3>2, <3>6, ZenonT(60) DEF VisibleTo, Further
    <3>8. PairOK(h1, k1)
      BY <3>1, <3>4, <3>5, <3>6, <3>7, ZenonT(60) DEF PairOK
    <3> QED
      BY <3>6, <3>8, ZenonT(60)
  <2>2. \A k \in DOMAIN c.rob : InstOK(d.rob[k])
    BY <1>9, ZenonT(60) DEF VisibleTo
  <2> QED
    BY <2>1, <2>2, <1>6, <1>7, <1>8, ZenonT(60) DEF Chain
<1>13. ASSUME NEW k \in DOMAIN c.rob, isInserted(c, k)
       PROVE  SentOK(sent(c.rob[k]), d.rob)
  <2> DEFINE e == sent(c.rob[k])
  <2>1. e.sn = c.rob[k].sn /\ e.from = c.rob[k].from /\ e.sn \in Nat
    <3>1. c.rob[k].sn \in Nat
      BY <1>1, RobFacts, ZenonT(60) DEF Inst
    <3> QED
      BY <3>1, ZenonT(60) DEF sent
  <2> HIDE DEF e
  <2>2. InstOK(c.rob[k]) /\ c.rob[k].SHTpkt /\ isVisible(c, k) /\ c.it = 0
    BY <1>1, <1>13, RobFacts, ZenonT(60) DEF isInserted, doneSquashing
  <2>3. \A j \in DOMAIN c.rob : d.rob[j].sn = c.rob[j].sn /\ d.rob[j].sn \in Nat
                                /\ d.rob[j].from = c.rob[j].from
    <3>1. \A j \in DOMAIN c.rob : c.rob[j].sn \in Nat
      BY <1>1, RobFacts, ZenonT(60) DEF Inst
    <3> QED
      BY <3>1, <1>9, ZenonT(60) DEF VisibleTo, Further
  <2>4. ASSUME NEW j \in DOMAIN c.rob, d.rob[j].sn <= e.sn
        PROVE  d.rob[j].st # "waiting" /\ (d.rob[j].SHTpkt => d.rob[j].SHTinserted)
    <3>1. VisibleTo(c, j, d.rob[j]) /\ InstOK(c.rob[j])
      BY <1>1, <1>9, RobFacts, ZenonT(60)
    <3>2. CASE j = k
      BY <3>1, <3>2, <2>2, <1>13, ZenonT(60) DEF VisibleTo, InstOK
    <3>3. CASE j < k
      <4>1. j \in 1..k - 1 /\ \A h \in 1..j - 1 : h \in 1..k - 1
        BY <3>3, <1>2
      <4>2. completed(c.rob[j]) /\ \A h \in 1..j - 1 : completed(c.rob[h])
        BY <4>1, <2>2, ZenonT(60) DEF isVisible
      <4>3. c.rob[j].st \in Ended
        BY <4>2, <3>1, ZenonT(60) DEF completed, InstOK
      <4>4. isMemRef(c.rob[j]) => isVisible(c, j)
        BY <4>2, <2>2, ZenonT(60) DEF isVisible
      <4>5. c.rob[j].SHTpkt => isMemRef(c.rob[j])
        BY <3>1, ZenonT(60) DEF InstOK, isMemRef
      <4>6. c.rob[j].SHTpkt => c.rob[j].SHTinserted \/ isInserted(c, j)
        BY <4>4, <4>5, <2>2, ZenonT(60) DEF isInserted, doneSquashing
      <4> QED
        BY <4>3, <4>6, <3>1, ZenonT(60) DEF VisibleTo, Ended
    <3>4. ~(k < j)
      <4>1. k < j => c.rob[k].sn < c.rob[j].sn
        BY <1>1, RobFacts, ZenonT(60)
      <4> QED
        BY <4>1, <2>1, <2>3, <2>4
    <3> QED
      BY <3>2, <3>3, <3>4, <1>2
  <2>5. d.rob[k].sn = e.sn /\ d.rob[k].from = e.from
    BY <2>1, <2>3, ZenonT(60)
  <2>6. \A s \in e.from : s < e.sn /\ e.from = {s}
    BY <2>1, <2>2, ZenonT(60) DEF InstOK
  <2>7. ASSUME NEW s \in e.from, NEW j \in DOMAIN d.rob, d.rob[j].sn > e.sn
        PROVE  \E h \in 1..j - 1 : d.rob[h].squashed /\ d.rob[h].sn > s
    <3>1. k < j
      <4>1. j < k => c.rob[j].sn < c.rob[k].sn
        BY <1>1, <1>8, RobFacts, ZenonT(60)
      <4> QED
        BY <4>1, <2>1, <2>3, <2>7, <1>2, <1>8
    <3>2. k \in 1..j - 1
      BY <3>1, <1>2, <1>8
    <3>3. d.rob[k].squashed
      <4>1. c.rob[k].squashed
        BY <2>1, <2>2, <2>7, ZenonT(60) DEF InstOK
      <4> QED
        BY <4>1, <1>9, ZenonT(60) DEF VisibleTo, Further
    <3>4. d.rob[k].sn > s
      <4>1. s \in Nat
        BY <2>1, <2>2, ZenonT(60) DEF InstOK, Inst
      <4> QED
        BY <4>1, <2>5, <2>6, <2>1, ZenonT(60)
    <3> QED
      BY <3>2, <3>3, <3>4, ZenonT(60)
  <2>8. SentOK(e, d.rob)
    BY <2>4, <2>5, <2>6, <2>7, <1>8, ZenonT(60) DEF SentOK
  <2> QED
    BY <2>8 DEF e
<1>14. ShbOK(d)
  <2>1. \A b \in DOMAIN c.shb : SentOK(c.shb[b], d.rob)
    BY <1>1, <1>10, KeptSentOK, ZenonT(60) DEF ShbOK
  <2>2. \A a \in DOMAIN q : SentOK(q[a], d.rob)
    BY <2>1, <1>3, <1>13, ZenonT(60) DEF ScanInv
  <2> QED
    BY <2>2, <1>3, <1>7, ZenonT(60) DEF ShbOK, ScanInv
<1>15. CountOK(d, n)
  <2>1. \A k \in DOMAIN c.rob : d.rob[k].sn = c.rob[k].sn /\ d.rob[k].kind = c.rob[k].kind
    BY <1>9, ZenonT(60) DEF VisibleTo, Further
  <2>2. \A a \in DOMAIN q : q[a].sn < n
    <3>1. \A k \in DOMAIN c.rob : sent(c.rob[k]).sn = c.rob[k].sn
      BY ZenonT(60) DEF sent
    <3> QED
      BY <3>1, <1>1, <1>3, ZenonT(60) DEF ScanInv, CountOK
  <2> QED
    BY <2>1, <2>2, <1>1, <1>7, <1>8, ZenonT(60) DEF CountOK
<1>16. Raising(d)
  <2>1. \A k \in DOMAIN c.rob :
           /\ d.rob[k].sn = c.rob[k].sn /\ d.rob[k].kind = c.rob[k].kind
           /\ d.rob[k].squashed = c.rob[k].squashed
           /\ d.rob[k].canCommit = c.rob[k].canCommit
    BY <1>9, ZenonT(60) DEF VisibleTo, Further
  <2> QED
    BY <2>1, <1>1, <1>7, <1>8 DEF Raising, Spares
<1>17. WalkOK(d) /\ ToldOK(d)
  BY <1>1, <1>10, KeptWalkOK, KeptToldOK, ZenonT(60)
<1>18. Reported(d.rob, toCommit.insts) /\ Reported(d.rob, fromIEW.insts)
  BY <1>1, <1>10, KeptReported, ZenonT(60)
<1>19. Seen(d.rob, d.it)
  <2>1. ASSUME robInsert, NEW k \in DOMAIN c.rob, isMemRef(d.rob[k]), Ready(d.rob, k)
        PROVE  /\ d.rob[k].PrevInstsCompleted
               /\ d.rob[k].SHTpkt /\ d.it = 0 => d.rob[k].SHTinserted
    <3>1. VisibleTo(c, k, d.rob[k])
      BY <1>9
    <3>2. \A h \in 1..k - 1 : h \in DOMAIN c.rob
      BY <1>2
    <3>3. isVisible(c, k)
      BY <2>1, <3>1, <3>2, <1>11, ZenonT(60) DEF isVisible, Ready, VisibleTo,
         Further, isMemRef
    <3>4. d.rob[k].PrevInstsCompleted
      BY <3>1, <3>3, ZenonT(60) DEF VisibleTo
    <3>5. d.rob[k].SHTpkt /\ d.it = 0 => d.rob[k].SHTinserted
      BY <3>1, <3>3, <1>7, ZenonT(60) DEF VisibleTo, isInserted, doneSquashing
    <3> QED
      BY <3>4, <3>5, ZenonT(60)
  <2> QED
    BY <2>1, <1>8, ZenonT(60) DEF Seen
<1>20. StageOK(d, n)
  BY <1>7, <1>12, <1>14, <1>15, <1>16, <1>17, <1>18, ZenonT(60) DEF StageOK
<1> QED
  BY <1>7, <1>19, <1>20, ZenonT(60) DEF d

\* Marking and scan together.
LEMMA MarkCompletedInstsOK ==
    ASSUME WellOrdered, NEW c, NEW n \in Nat, StageOK(c, n), PendingOK(c)
    PROVE  LET d == markCompletedInsts(c)
           IN  /\ StageOK(d, n) /\ Seen(d.rob, d.it) /\ PendingOK(d)
               /\ d.squash = c.squash /\ d.status = c.status
<1> DEFINE a == markReady(c)
           d == updateVisibleState(a)
<1>1. markCompletedInsts(c) = d
  BY DEF markCompletedInsts, markReady, ready
<1>2. /\ StageOK(a, n) /\ a.squash = c.squash /\ a.status = c.status
      /\ a.trap = c.trap /\ a.tc = c.tc /\ a.after = c.after
  BY MarkReadyOK, ZenonT(60)
<1> HIDE DEF a
<1>3. /\ StageOK(d, n) /\ Seen(d.rob, d.it)
      /\ d.squash = a.squash /\ d.status = a.status
      /\ d.trap = a.trap /\ d.tc = a.tc /\ d.after = a.after
  BY <1>2, UpdateVisibleStateOK, ZenonT(60)
<1> HIDE DEF d
<1>4. PendingOK(d)
  BY <1>2, <1>3, ZenonT(60) DEF PendingOK
<1> QED
  BY <1>1, <1>2, <1>3, <1>4, ZenonT(60)

=============================================================================

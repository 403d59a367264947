------------------------ MODULE ReorderBufferCommit -------------------------
(* What rename brings into the ROB, and the loop of commitInsts, keep the        *)
(* invariant.                                                                   *)
EXTENDS ReorderBufferSquash

\* The provers of the leaves that name none, in the order in which they are tried.
USE SMTT(60), Z3T(60), ZenonT(60)

-----------------------------------------------------------------------------
(* Renamed instructions. *)

\* A new instruction.
LEMMA NewInstFacts ==
    ASSUME NEW sn \in Nat \ {0}, NEW kind \in Kind
    PROVE  LET i == NewInst(sn, kind)
           IN  /\ i \in Inst /\ InstOK(i)
               /\ i.sn = sn /\ i.kind = kind /\ i.st = "waiting" /\ i.from = {}
               /\ ~i.canCommit /\ ~i.squashed /\ ~i.PrevInstsCompleted /\ ~i.SHTpkt
<1> DEFINE i == NewInst(sn, kind)
<1>1. /\ i \in Inst
      /\ i.sn = sn /\ i.kind = kind /\ i.st = "waiting" /\ i.from = {}
      /\ i.canCommit = FALSE /\ i.squashed = FALSE /\ i.PrevInstsCompleted = FALSE
      /\ i.SHTpkt = FALSE /\ i.fault = "none" /\ i.SHTinserted = FALSE
  BY ZenonT(60) DEF NewInst, Inst, Progress
<1> HIDE DEF i
<1>2. InstOK(i)
  BY <1>1, ZenonT(60) DEF InstOK
<1> QED
  BY <1>1, <1>2, ZenonT(60) DEF i

\* The kinds of a scenario are kinds of instructions.
LEMMA RenamedFacts ==
    ASSUME scenario \in Scenarios, NEW kinds \in renamed
    PROVE  /\ Kinds \subseteq Kind /\ Len(kinds) \in Nat
           /\ DOMAIN kinds = 1..Len(kinds)
           /\ \A j \in DOMAIN kinds : kinds[j] \in Kinds
           /\ kinds # << >> => Len(kinds) > 0 /\ nextSeq + Len(kinds) <= MaxInsts + 1
                               /\ Len(rob) + Len(kinds) <= numEntries
           /\ kinds = << >> => Len(kinds) = 0
<1>1. scenario \in Scenario
  BY CommitAssumption
<1>2. Kinds \subseteq Kind
  BY <1>1 DEF Scenario, Kinds, Kind, Special
<1>3. CASE kinds = << >>
  BY <1>2, <1>3
<1>4. CASE kinds # << >>
  <2>1. PICK m \in 1..renameWidth :
           /\ kinds \in [1..m -> Kinds] /\ nextSeq + m <= MaxInsts + 1
           /\ Len(rob) + m <= numEntries
    BY <1>4, ZenonT(60) DEF renamed
  <2>2. m \in Nat /\ m > 0
    BY <2>1, CommitAssumption
  <2>3. kinds \in Seq(Kinds) /\ Len(kinds) = m
    BY <2>1, <2>2
  <2> QED
    BY <1>2, <1>4, <2>1, <2>2, <2>3, ZenonT(60)
<1> QED
  BY <1>3, <1>4, ZenonT(60)

\* What the renamed instructions change.
GotInsts(c, d, kinds) ==
    /\ d \in Cycle
    /\ Len(d.rob) = Len(c.rob) + Len(kinds)
    /\ \A k \in DOMAIN d.rob :
          IF k <= Len(c.rob) THEN d.rob[k] = c.rob[k]
          ELSE /\ k - Len(c.rob) \in 1..Len(kinds)
               /\ d.rob[k] = NewInst(nextSeq + (k - Len(c.rob)) - 1,
                                     kinds[k - Len(c.rob)])
    /\ d.it = c.it /\ d.sq = c.sq /\ d.status = c.status /\ d.trap = c.trap
    /\ d.tc = c.tc /\ d.after = c.after /\ d.last = c.last
    /\ d.shb = c.shb /\ d.lq = c.lq /\ d.stores = c.stores
    /\ d.squash = c.squash /\ d.num = c.num /\ d.stop = c.stop

\* getInsts puts the renamed instructions behind the others.
LEMMA GetInstsStep ==
    ASSUME scenario \in Scenarios, nextSeq \in Nat \ {0}, NEW kinds \in renamed,
           NEW c \in Cycle
    PROVE  GotInsts(c, getInsts(c, kinds), kinds)
<1>1. /\ Kinds \subseteq Kind /\ Len(kinds) \in Nat /\ DOMAIN kinds = 1..Len(kinds)
      /\ \A j \in DOMAIN kinds : kinds[j] \in Kinds
      /\ kinds # << >> => Len(kinds) > 0
      /\ kinds = << >> => Len(kinds) = 0
  BY RenamedFacts, ZenonT(60)
<1>2. c.rob \in Seq(Inst) /\ Len(c.rob) \in Nat
  BY DEF Cycle
<1>3. CASE kinds = << >>
  BY <1>1, <1>2, <1>3 DEF getInsts, GotInsts
<1>4. CASE kinds # << >>
  <2> DEFINE new == [j \in DOMAIN kinds |-> NewInst(nextSeq + j - 1, kinds[j])]
             y == nextSeq + Len(kinds) - 1
  <2>1. getInsts(c, kinds) = [c EXCEPT !.rob = c.rob \o new, !.youngest = y]
    BY <1>4 DEF getInsts, Cycle
  <2>2. \A j \in DOMAIN kinds : NewInst(nextSeq + j - 1, kinds[j]) \in Inst
    <3>1. \A j \in DOMAIN kinds : nextSeq + j - 1 \in Nat \ {0} /\ kinds[j] \in Kind
      BY <1>1
    <3> QED
      BY <3>1, NewInstFacts, ZenonT(60)
  <2>3. new \in [1..Len(kinds) -> Inst]
    BY <1>1, <2>2, ZenonT(60)
  <2>4. \A j \in 1..Len(kinds) : new[j] = NewInst(nextSeq + j - 1, kinds[j])
    BY <1>1, ZenonT(60)
  <2>5. y \in Nat
    BY <1>1
  <2> HIDE DEF new, y
  <2>6. new \in Seq(Inst) /\ Len(new) = Len(kinds)
    BY <2>3, <1>1
  <2>7. /\ c.rob \o new \in Seq(Inst) /\ Len(c.rob \o new) = Len(c.rob) + Len(kinds)
        /\ \A k \in 1..Len(c.rob) + Len(kinds) :
              (c.rob \o new)[k] = IF k <= Len(c.rob) THEN c.rob[k]
                                  ELSE new[k - Len(c.rob)]
    BY <1>1, <1>2, <2>6
  <2>8. \A k \in 1..Len(c.rob) + Len(kinds) :
           k > Len(c.rob) => k - Len(c.rob) \in 1..Len(kinds)
    BY <1>1, <1>2
  <2> DEFINE r == c.rob \o new
  <2>9. /\ r \in Seq(Inst) /\ Len(r) = Len(c.rob) + Len(kinds)
        /\ DOMAIN r = 1..Len(c.rob) + Len(kinds)
        /\ \A k \in DOMAIN r :
              IF k <= Len(c.rob) THEN r[k] = c.rob[k]
              ELSE /\ k - Len(c.rob) \in 1..Len(kinds)
                   /\ r[k] = NewInst(nextSeq + (k - Len(c.rob)) - 1,
                                     kinds[k - Len(c.rob)])
    <3>1. /\ r \in Seq(Inst) /\ Len(r) = Len(c.rob) + Len(kinds)
          /\ DOMAIN r = 1..Len(c.rob) + Len(kinds)
      BY <1>1, <1>2, <2>7
    <3>2. ASSUME NEW k \in DOMAIN r, ~(k <= Len(c.rob))
          PROVE  /\ k - Len(c.rob) \in 1..Len(kinds)
                 /\ r[k] = NewInst(nextSeq + (k - Len(c.rob)) - 1,
                                   kinds[k - Len(c.rob)])
      <4>1. PICK j \in 1..Len(kinds) : j = k - Len(c.rob)
        BY <1>1, <1>2, <2>8, <3>1, <3>2
      <4>2. r[k] = new[j]
        BY <2>7, <3>1, <3>2, <4>1, ZenonT(60)
      <4> QED
        BY <2>4, <4>1, <4>2, ZenonT(60)
    <3>3. \A k \in DOMAIN r : k <= Len(c.rob) => r[k] = c.rob[k]
      BY <2>7, <3>1, ZenonT(60)
    <3> HIDE DEF r
    <3> QED
      BY <3>1, <3>2, <3>3, ZenonT(60)
  <2> HIDE DEF r
  <2>10. GotInsts(c, [c EXCEPT !.rob = r, !.youngest = y], kinds)
    BY <2>5, <2>9, ZenonT(60) DEF GotInsts, Cycle
  <2> QED
    BY <2>1, <2>10 DEF r
<1> QED
  BY <1>3, <1>4

\* getInsts keeps the invariant of a stage when no squash is under way.
LEMMA GetInstsOK ==
    ASSUME RobInv, NEW kinds \in renamed, NEW c, StageOK(c, nextSeq),
           c.status = "Running", c.squash = {}, NEW d, GotInsts(c, d, kinds)
    PROVE  StageOK(d, nextSeq + Len(kinds))
<1> DEFINE n == nextSeq + Len(kinds)
           L == Len(c.rob)
<1>1. /\ c \in Cycle /\ Chain(c.rob) /\ WalkOK(c) /\ ShbOK(c)
      /\ CountOK(c, nextSeq) /\ Raising(c)
      /\ Reported(c.rob, toCommit.insts) /\ Reported(c.rob, fromIEW.insts)
  BY ZenonT(60) DEF StageOK
<1>2. /\ scenario \in Scenarios /\ nextSeq \in Nat \ {0}
      /\ \A s \in toCommit.insts \cup fromIEW.insts : s < nextSeq
      /\ toCommit.insts \subseteq Nat /\ fromIEW.insts \subseteq Nat
  BY ZenonT(60) DEF RobInv, Signal
<1>3. /\ Kinds \subseteq Kind /\ Len(kinds) \in Nat /\ n \in Nat /\ nextSeq <= n
      /\ \A j \in 1..Len(kinds) : kinds[j] \in Kinds
  BY <1>2, RenamedFacts
<1>4. /\ L \in Nat /\ DOMAIN c.rob = 1..L
      /\ d \in Cycle /\ d.rob \in Seq(Inst) /\ Len(d.rob) = L + Len(kinds)
      /\ DOMAIN d.rob = 1..L + Len(kinds)
      /\ d.status = "Running" /\ d.squash = {} /\ d.it = c.it /\ d.shb = c.shb
      /\ d.last = c.last
  BY <1>1, <1>3, RobFacts DEF GotInsts, Cycle
<1>a. \A k \in DOMAIN d.rob :
         IF k <= L THEN d.rob[k] = c.rob[k]
         ELSE /\ k - L \in 1..Len(kinds)
              /\ d.rob[k] = NewInst(nextSeq + (k - L) - 1, kinds[k - L])
  BY ZenonT(60) DEF GotInsts
<1>b. n = nextSeq + Len(kinds)
  OBVIOUS
<1> HIDE DEF n, L
<1>5. \A k \in 1..L : k \in DOMAIN d.rob /\ d.rob[k] = c.rob[k]
  BY <1>3, <1>4, <1>a
<1>6. ASSUME NEW k \in DOMAIN d.rob, ~(k \in 1..L)
      PROVE  /\ InstOK(d.rob[k]) /\ d.rob[k].sn = nextSeq + (k - L) - 1
             /\ d.rob[k].sn \in Nat /\ d.rob[k].sn >= nextSeq /\ d.rob[k].sn < n
             /\ d.rob[k].kind \in Kinds /\ d.rob[k].st = "waiting"
             /\ d.rob[k].from = {}
             /\ ~d.rob[k].canCommit /\ ~d.rob[k].squashed
             /\ ~d.rob[k].PrevInstsCompleted
  <2>1. /\ k - L \in 1..Len(kinds)
        /\ d.rob[k] = NewInst(nextSeq + (k - L) - 1, kinds[k - L])
    BY <1>4, <1>6, <1>a
  <2>2. PICK j \in 1..Len(kinds) : j = k - L
    BY <2>1, ZenonT(60)
  <2>3. PICK sn \in Nat \ {0} : sn = nextSeq + j - 1
    BY <1>2, <1>3
  <2>4. sn >= nextSeq /\ sn < n
    BY <1>2, <1>3, <1>b, <2>3
  <2>5. kinds[j] \in Kinds /\ kinds[j] \in Kind
    BY <1>3, ZenonT(60)
  <2>6. d.rob[k] = NewInst(sn, kinds[j])
    BY <2>1, <2>2, <2>3, ZenonT(60)
  <2> QED
    BY <2>2, <2>3, <2>4, <2>5, <2>6, NewInstFacts
<1>7. \A k \in 1..L : /\ c.rob[k].sn \in Nat /\ c.rob[k].sn < nextSeq
                      /\ c.rob[k].kind \in Kinds
  BY <1>1, <1>4, RobFacts, ZenonT(60) DEF CountOK, Inst
<1>8. Chain(d.rob)
  <2>1. \A k \in DOMAIN d.rob : InstOK(d.rob[k])
    BY <1>1, <1>4, <1>5, <1>6, ZenonT(60) DEF Chain
  <2>2. ASSUME NEW h \in DOMAIN d.rob, NEW k \in DOMAIN d.rob, h < k
        PROVE  PairOK(d.rob[h], d.rob[k])
    <3>1. CASE k \in 1..L
      BY <1>1, <1>4, <1>5, <2>2, <3>1 DEF Chain
    <3>2. CASE ~(k \in 1..L)
      <4>1. d.rob[h].sn < d.rob[k].sn
        <5>1. CASE h \in 1..L
          BY <5>1, <1>2, <1>5, <1>6, <1>7, <3>2
        <5>2. CASE ~(h \in 1..L)
          <6>1. d.rob[h].sn = nextSeq + (h - L) - 1 /\ d.rob[k].sn = nextSeq + (k - L) - 1
            BY <5>2, <3>2, <1>6, ZenonT(60)
          <6> QED
            BY <6>1, <1>2, <1>3, <1>4, <2>2
        <5> QED
          BY <5>1, <5>2, ZenonT(60)
      <4> QED
        BY <4>1, <3>2, <1>6, ZenonT(60) DEF PairOK
    <3> QED
      BY <3>1, <3>2, ZenonT(60)
  <2> QED
    BY <2>1, <2>2, <1>4, ZenonT(60) DEF Chain
<1>9. WalkOK(d)
  <2>1. c.it = 0 /\ c.last \in Nat /\ c.last < nextSeq
    BY <1>1 DEF WalkOK, Cycle, CountOK
  <2>2. \A k \in 1..L : /\ ~ToWalk(c, k) /\ c.rob[k].sn > c.last
                        /\ ~HalfSquashed(c.rob[k])
    BY <1>1, <1>4, ZenonT(60) DEF WalkOK, ToWalk
  <2>3. ASSUME NEW k \in DOMAIN d.rob
        PROVE  d.rob[k].sn > d.last /\ ~HalfSquashed(d.rob[k])
    <3>1. CASE k \in 1..L
      BY <3>1, <1>4, <1>5, <2>2, ZenonT(60)
    <3>2. CASE ~(k \in 1..L)
      <4>1. d.rob[k].sn \in Nat /\ d.rob[k].sn >= nextSeq /\ d.rob[k].st = "waiting"
            /\ ~d.rob[k].squashed
        BY <3>2, <1>6, ZenonT(60)
      <4> QED
        BY <4>1, <1>2, <1>4, <2>1 DEF HalfSquashed
    <3> QED
      BY <3>1, <3>2, ZenonT(60)
  <2>4. ASSUME NEW k \in DOMAIN d.rob, NEW s \in d.rob[k].from, NEW j \in 1..k - 1,
               d.rob[j].sn > s
        PROVE  d.rob[j].squashed
    <3>1. k \in 1..L /\ j \in 1..L
      BY <1>4, <1>6
    <3> QED
      BY <3>1, <2>2, <2>4, <1>1, <1>4, <1>5, ZenonT(60) DEF WalkOK
  <2> QED
    BY <1>4, <2>1, <2>3, <2>4 DEF WalkOK
<1>10. ToldOK(d)
  BY <1>4, ZenonT(60) DEF ToldOK
<1>11. ShbOK(d)
  <2>1. ASSUME NEW a \in DOMAIN c.shb PROVE SentOK(c.shb[a], d.rob)
    <3>1. PICK e \in Entry : e = c.shb[a]
      BY <1>1 DEF Cycle
    <3>2. e.sn \in Nat /\ e.sn < nextSeq /\ SentOK(e, c.rob)
      BY <1>1, <3>1, ZenonT(60) DEF CountOK, ShbOK, Entry
    <3>3. \A k \in DOMAIN d.rob : ~(k \in 1..L) => ~(d.rob[k].sn <= e.sn) /\ d.rob[k].sn > e.sn
      BY <1>2, <1>6, <3>2
    <3>4. ASSUME NEW s \in e.from, NEW k \in DOMAIN d.rob,
                 d.rob[k].from = e.from, d.rob[k].sn > e.sn
          PROVE  \E j \in 1..k - 1 : d.rob[j].squashed /\ d.rob[j].sn > s
      <4>1. k \in 1..L
        BY <1>6, <3>4, ZenonT(60)
      <4>a. \A j \in 1..k - 1 : j \in 1..L
        BY <4>1, <1>4
      <4>2. PICK j \in 1..k - 1 : c.rob[j].squashed /\ c.rob[j].sn > s
        BY <4>1, <3>2, <3>4, <1>4, <1>5, ZenonT(60) DEF SentOK
      <4> QED
        BY <4>a, <4>2, <1>5, ZenonT(60)
    <3>5. SentOK(e, d.rob)
      <4>1. \A k \in DOMAIN d.rob : d.rob[k].sn <= e.sn =>
               d.rob[k].st # "waiting" /\ (d.rob[k].SHTpkt => d.rob[k].SHTinserted)
        BY <1>4, <1>5, <3>2, <3>3, ZenonT(60) DEF SentOK
      <4>2. \/ \E j \in DOMAIN d.rob : d.rob[j].sn = e.sn /\ (e.from # {} => d.rob[j].from = e.from)
            \/ \A k \in DOMAIN d.rob : d.rob[k].sn > e.sn
        BY <1>4, <1>5, <3>2, <3>3, ZenonT(60) DEF SentOK
      <4>3. \A s \in e.from : s < e.sn /\ e.from = {s}
        BY <3>2, ZenonT(60) DEF SentOK
      <4> QED
        BY <3>4, <4>1, <4>2, <4>3, ZenonT(60) DEF SentOK
    <3> QED
      BY <3>1, <3>5, ZenonT(60)
  <2> QED
    BY <2>1, <1>1, <1>4, ZenonT(60) DEF ShbOK
<1>12. CountOK(d, n)
  <2>1. \A a \in DOMAIN c.shb : c.shb[a].sn \in Nat
    <3>1. c.shb \in Seq(Entry)
      BY <1>1, ZenonT(60) DEF Cycle
    <3>2. \A a \in DOMAIN c.shb : c.shb[a] \in Entry
      BY <3>1
    <3> QED
      BY <3>2, ZenonT(60) DEF Entry
  <2>2. \A k \in DOMAIN d.rob : d.rob[k].sn < n /\ d.rob[k].kind \in Kinds
    BY <1>2, <1>3, <1>5, <1>6, <1>7
  <2>3. c.last \in Nat
    BY <1>1, ZenonT(60) DEF Cycle
  <2> HIDE DEF n
  <2> QED
    BY <2>1, <2>2, <2>3, <1>1, <1>2, <1>3, <1>4 DEF CountOK
<1>13. Reported(d.rob, toCommit.insts) /\ Reported(d.rob, fromIEW.insts)
  <2>1. \A k \in DOMAIN d.rob : ~(k \in 1..L) =>
           d.rob[k].sn \notin toCommit.insts /\ d.rob[k].sn \notin fromIEW.insts
    BY <1>2, <1>6
  <2> QED
    BY <2>1, <1>1, <1>4, <1>5, ZenonT(60) DEF Reported
<1>14. Raising(d)
  BY <1>1, <1>4, <1>5, ZenonT(60) DEF Raising
<1> QED
  BY <1>4, <1>8, <1>9, <1>10, <1>11, <1>12, <1>13, <1>14, ZenonT(60) DEF StageOK, n

-----------------------------------------------------------------------------
(* The loop of commitInsts. *)

\* The states of the loop of commitInsts.
Iterates(c, N, f) ==
    f = [n \in 0..N |-> IF n = 0 THEN c ELSE commitInst(f[n - 1])]

\* Every record can be iterated on: the loop of commitInsts is a function.
LEMMA IteratesExist ==
    ASSUME WellOrdered, NEW c, NEW N \in Nat
    PROVE  \E f : Iterates(c, N, f)
<1> DEFINE Bad == {n \in Nat : ~\E f : Iterates(c, n, f)}
<1>1. ASSUME Bad # {} PROVE FALSE
  <2>1. PICK x \in Bad : \A y \in Bad : x <= y
    <3>1. Bad \in SUBSET Nat
      OBVIOUS
    <3> HIDE DEF Bad
    <3> QED
      BY <1>1, <3>1 DEF WellOrdered
  <2>2. CASE x = 0
    <3>1. Iterates(c, 0, [n \in 0..0 |-> c])
      BY DEF Iterates
    <3> QED
      BY <3>1, <2>2, <2>1
  <2>3. CASE x # 0
    <3>1. x - 1 \in Nat /\ x - 1 \notin Bad
      BY <2>1, <2>3
    <3>2. PICK f : Iterates(c, x - 1, f)
      BY <3>1
    <3> DEFINE g == [n \in 0..x |-> IF n = x THEN commitInst(f[n - 1]) ELSE f[n]]
    <3>3. Iterates(c, x, g)
      <4>1. \A n \in 0..x : g[n] = IF n = 0 THEN c ELSE commitInst(g[n - 1])
        BY <3>2, <2>3, <2>1 DEF Iterates
      <4>2. g = [n \in 0..x |-> g[n]]
        OBVIOUS
      <4> HIDE DEF g
      <4>3. [n \in 0..x |-> g[n]] =
            [n \in 0..x |-> IF n = 0 THEN c ELSE commitInst(g[n - 1])]
        BY <4>1, ZenonT(60)
      <4> QED
        BY <4>2, <4>3, ZenonT(60) DEF Iterates
    <3> QED
      BY <3>3, <2>1, ZenonT(60)
  <2> QED
    BY <2>2, <2>3
<1> QED
  BY <1>1

\* commitInsts is the last of these iterates.
LEMMA CommitInstsIterates ==
    ASSUME WellOrdered, NEW c, Len(c.rob) \in Nat
    PROVE  \E f : Iterates(c, Len(c.rob), f) /\ commitInsts(c) = f[Len(c.rob)]
<1> DEFINE loop == CHOOSE f : f = [n \in 0..Len(c.rob) |-> IF n = 0 THEN c ELSE commitInst(f[n - 1])]
<1>1. commitInsts(c) = loop[Len(c.rob)]
  BY DEF commitInsts
<1>2. \E f : f = [n \in 0..Len(c.rob) |-> IF n = 0 THEN c ELSE commitInst(f[n - 1])]
  BY IteratesExist, ZenonT(60) DEF Iterates
<1>3. Iterates(c, Len(c.rob), loop)
  BY <1>2, ZenonT(60) DEF Iterates
<1> QED
  BY <1>1, <1>3, ZenonT(60)

\* i leaves the ROB.
Leaves(i) == i.canCommit /\ (i.squashed \/ (i.fault = "none" /\ i.st = "executed"))

\* i is released, to execute at the head of the ROB.
Released(i, w) ==
    /\ i.kind \in Special /\ ~i.squashed /\ i.st # "executed"
    /\ w = [i EXCEPT !.canCommit = FALSE, !.st = "released"]

\* c is d after the first m instructions have left.
CommitShape(d, c, m) ==
    /\ c \in Cycle /\ m \in 0..Len(d.rob) /\ Len(c.rob) = Len(d.rob) - m
    /\ \A k \in 1..Len(c.rob) : \/ c.rob[k] = d.rob[k + m]
                                \/ k = 1 /\ Released(d.rob[m + 1], c.rob[1])
    /\ \A h \in 1..m : Leaves(d.rob[h])
    /\ c.last = d.last \/ \E h \in 1..m : c.last = d.rob[h].sn
    /\ c.it = d.it /\ c.sq = d.sq /\ c.trap = d.trap /\ c.tc = d.tc
    /\ c.youngest = d.youngest /\ c.shb = d.shb /\ c.squash = d.squash
    /\ \/ c.status = d.status
       \/ d.status = "Running" /\ c.status \in {"TrapPending", "SquashAfterPending"}
    /\ \/ c.after = d.after
       \/ /\ d.status = "Running" /\ c.status = "SquashAfterPending"
          /\ \E h \in 1..m : d.rob[h].kind = "squashafter"
    /\ m > 0 => d.status = "Running"

\* The loop stops in front of a squashed instruction only if it has not just
\* taken one out.
LoopInv(d, c, n) ==
    \E m \in Nat :
       /\ CommitShape(d, c, m)
       /\ ~c.stop => m = n /\ \A k \in 1..Len(c.rob) : c.rob[k] = d.rob[k + m]
       /\ m > 0 /\ d.rob[m].squashed =>
             IF c.stop THEN m < Len(d.rob) => ~d.rob[m + 1].squashed
             ELSE c.num # commitWidth /\ c.status = "Running"

\* e is c after its head has left.
HeadLeft(c, e) ==
    /\ e \in Cycle /\ e.rob = Tail(c.rob) /\ c.rob # << >> /\ Leaves(c.rob[1])
    /\ e.last = c.last \/ e.last = c.rob[1].sn
    /\ e.it = c.it /\ e.sq = c.sq /\ e.trap = c.trap /\ e.tc = c.tc
    /\ e.youngest = c.youngest /\ e.shb = c.shb /\ e.squash = c.squash
    /\ \/ e.after = c.after /\ e.status = c.status
       \/ e.status = "SquashAfterPending" /\ c.rob[1].kind = "squashafter"

\* The head leaves.
LEMMA RetireHeadStep ==
    ASSUME NEW d \in Cycle, NEW c, NEW m \in Nat, CommitShape(d, c, m),
           \A k \in 1..Len(c.rob) : c.rob[k] = d.rob[k + m],
           d.status = "Running", NEW e, HeadLeft(c, e)
    PROVE  /\ CommitShape(d, e, m + 1)
           /\ \A k \in 1..Len(e.rob) : e.rob[k] = d.rob[k + (m + 1)]
           /\ c.rob[1] = d.rob[m + 1]
<1>a. /\ e \in Cycle /\ e.rob = Tail(c.rob) /\ c.rob # << >> /\ Leaves(c.rob[1])
      /\ e.last = c.last \/ e.last = c.rob[1].sn
  BY ZenonT(60) DEF HeadLeft
<1>1. /\ c.rob \in Seq(Inst) /\ Len(c.rob) \in Nat /\ Len(c.rob) > 0
      /\ d.rob \in Seq(Inst) /\ Len(d.rob) \in Nat
      /\ Len(c.rob) = Len(d.rob) - m
  <2>1. c.rob \in Seq(Inst) /\ d.rob \in Seq(Inst)
    BY ZenonT(60) DEF CommitShape, Cycle
  <2>2. Len(c.rob) = Len(d.rob) - m
    BY ZenonT(60) DEF CommitShape
  <2> QED
    BY <1>a, <2>1, <2>2
<1>2. /\ Len(e.rob) = Len(c.rob) - 1 /\ Len(e.rob) = Len(d.rob) - (m + 1)
      /\ \A k \in 1..Len(e.rob) : e.rob[k] = c.rob[k + 1]
  BY <1>a, <1>1
<1>3. \A k \in 1..Len(e.rob) : k + 1 \in 1..Len(c.rob) /\ (k + 1) + m = k + (m + 1)
  BY <1>1, <1>2
<1>4. \A k \in 1..Len(e.rob) : e.rob[k] = d.rob[k + (m + 1)]
  <2>1. ASSUME NEW k \in 1..Len(e.rob) PROVE e.rob[k] = d.rob[k + (m + 1)]
    <3>1. c.rob[k + 1] = d.rob[(k + 1) + m]
      BY <1>3, ZenonT(60)
    <3> QED
      BY <3>1, <1>2, <1>3, ZenonT(60)
  <2> QED
    BY <2>1, ZenonT(60)
<1>5. c.rob[1] = d.rob[m + 1]
  <2>1. 1 \in 1..Len(c.rob) /\ 1 + m = m + 1
    BY <1>1
  <2> QED
    BY <2>1, ZenonT(60)
<1>6. m + 1 \in 0..Len(d.rob) /\ 1..m + 1 = (1..m) \cup {m + 1}
  BY <1>1
<1>7. \A h \in 1..m + 1 : Leaves(d.rob[h])
  BY <1>a, <1>5, <1>6, ZenonT(60) DEF CommitShape
<1>8. e.last = d.last \/ \E h \in 1..m + 1 : e.last = d.rob[h].sn
  BY <1>a, <1>5, <1>6 DEF CommitShape
<1>9. \/ e.after = d.after
      \/ /\ e.status = "SquashAfterPending"
         /\ \E h \in 1..m + 1 : d.rob[h].kind = "squashafter"
  BY <1>5, <1>6 DEF CommitShape, HeadLeft
<1>10. \/ e.status = d.status
       \/ e.status \in {"TrapPending", "SquashAfterPending"}
  BY ZenonT(60) DEF CommitShape, HeadLeft
<1>11. e.it = d.it /\ e.sq = d.sq /\ e.trap = d.trap /\ e.tc = d.tc
       /\ e.youngest = d.youngest /\ e.shb = d.shb /\ e.squash = d.squash
  BY ZenonT(60) DEF CommitShape, HeadLeft
<1> QED
  BY <1>a, <1>2, <1>4, <1>5, <1>6, <1>7, <1>8, <1>9, <1>10, <1>11, ZenonT(60) DEF
     CommitShape

\* One turn of the loop.
LEMMA CommitInstStep ==
    ASSUME NEW d \in Cycle, Chain(d.rob), WalkOK(d), NEW c, NEW n \in Nat,
           LoopInv(d, c, n)
    PROVE  LoopInv(d, commitInst(c), n + 1)
<1> DEFINE e == commitInst(c)
<1>1. PICK m \in Nat :
         /\ CommitShape(d, c, m)
         /\ ~c.stop => m = n /\ \A k \in 1..Len(c.rob) : c.rob[k] = d.rob[k + m]
         /\ m > 0 /\ d.rob[m].squashed =>
               IF c.stop THEN m < Len(d.rob) => ~d.rob[m + 1].squashed
               ELSE c.num # commitWidth /\ c.status = "Running"
  BY ZenonT(60) DEF LoopInv
<1>2. /\ c \in Cycle /\ c.rob \in Seq(Inst) /\ d.rob \in Seq(Inst)
      /\ m \in 0..Len(d.rob) /\ Len(c.rob) = Len(d.rob) - m
  BY <1>1, ZenonT(60) DEF CommitShape, Cycle
<1>a. Len(c.rob) \in Nat /\ Len(d.rob) \in Nat
  BY <1>2
<1> DEFINE idle0 == \/ c.stop \/ c.num = commitWidth \/ c.status # "Running"
                    \/ c.rob = << >> \/ ~c.rob[1].canCommit
<1>3. CASE idle0
  <2>1. e = [c EXCEPT !.stop = TRUE]
    BY <1>3, ZenonT(60) DEF commitInst
  <2>2. /\ e \in Cycle /\ e.rob = c.rob /\ e.stop = TRUE
        /\ e.it = c.it /\ e.sq = c.sq /\ e.trap = c.trap /\ e.tc = c.tc
        /\ e.youngest = c.youngest /\ e.shb = c.shb /\ e.squash = c.squash
        /\ e.status = c.status /\ e.after = c.after /\ e.last = c.last
    BY <1>2, <2>1, ZenonT(60) DEF Cycle
  <2> HIDE DEF e
  <2>3. CommitShape(d, e, m)
    BY <1>1, <2>2 DEF CommitShape
  <2>4. ASSUME m > 0, d.rob[m].squashed, m < Len(d.rob)
        PROVE  ~d.rob[m + 1].squashed
    <3>1. CASE c.stop
      BY <3>1, <2>4, <1>1, ZenonT(60)
    <3>2. CASE ~c.stop
      <4>1. c.num # commitWidth /\ c.status = "Running" /\ c.rob # << >>
        BY <3>2, <2>4, <1>1, <1>2, <1>a
      <4>2. ~c.rob[1].canCommit
        BY <4>1, <3>2, <1>3, ZenonT(60)
      <4>3. c.rob[1] = d.rob[m + 1]
        <5>1. 1 \in 1..Len(c.rob) /\ 1 + m = m + 1
          BY <2>4, <1>2, <1>a
        <5> QED
          BY <5>1, <3>2, <1>1, ZenonT(60)
      <4>4. d.status = "Running" /\ m + 1 \in DOMAIN d.rob
        BY <2>4, <1>1, <1>2, <1>a DEF CommitShape
      <4>5. ~HalfSquashed(d.rob[m + 1])
        BY <4>4, ZenonT(60) DEF WalkOK, ToWalk
      <4> QED
        BY <4>2, <4>3, <4>5, ZenonT(60) DEF HalfSquashed
    <3> QED
      BY <3>1, <3>2, ZenonT(60)
  <2>5. LoopInv(d, e, n + 1)
    BY <2>2, <2>3, <2>4, ZenonT(60) DEF LoopInv
  <2> QED
    BY <2>5 DEF e
<1>4. CASE ~idle0
  <2>1. /\ ~c.stop /\ c.num # commitWidth /\ c.status = "Running" /\ c.rob # << >>
        /\ c.rob[1].canCommit
        /\ m = n /\ \A k \in 1..Len(c.rob) : c.rob[k] = d.rob[k + m]
        /\ e = IF c.rob[1].squashed THEN retireHead(c) ELSE commitHead(c)
    BY <1>1, <1>4, ZenonT(60) DEF commitInst
  <2>2. d.status = "Running"
    BY <2>1, <1>1, ZenonT(60) DEF CommitShape
  <2>3. 1 \in 1..Len(c.rob) /\ m + 1 \in DOMAIN d.rob /\ m < Len(d.rob)
    BY <2>1, <1>2, <1>a
  <2>4. c.rob[1] = d.rob[m + 1] /\ InstOK(c.rob[1]) /\ c.rob[1] \in Inst
    <3>1. 1 + m = m + 1
      OBVIOUS
    <3>2. c.rob[1] = d.rob[m + 1]
      BY <3>1, <2>1, <2>3, ZenonT(60)
    <3>3. InstOK(d.rob[m + 1])
      BY <2>3, ZenonT(60) DEF Chain
    <3> QED
      BY <3>2, <3>3, ZenonT(60) DEF InstOK
  <2>5. CASE c.rob[1].squashed
    <3>1. e = [c EXCEPT !.rob = Tail(c.rob)]
      BY <1>2, <2>1, <2>5, ZenonT(60) DEF retireHead, Cycle
    <3>2. Tail(c.rob) \in Seq(Inst)
      BY <1>2, <2>1
    <3>3. /\ e \in Cycle /\ e.rob = Tail(c.rob) /\ e.stop = c.stop /\ e.num = c.num
          /\ e.it = c.it /\ e.sq = c.sq /\ e.trap = c.trap /\ e.tc = c.tc
          /\ e.youngest = c.youngest /\ e.shb = c.shb /\ e.squash = c.squash
          /\ e.status = c.status /\ e.after = c.after /\ e.last = c.last
      BY <1>2, <3>1, <3>2, ZenonT(60) DEF Cycle
    <3>4. Leaves(c.rob[1])
      BY <2>1, <2>5, ZenonT(60) DEF Leaves
    <3> HIDE DEF e
    <3>5. /\ CommitShape(d, e, m + 1)
          /\ \A k \in 1..Len(e.rob) : e.rob[k] = d.rob[k + (m + 1)]
      <4>1. HeadLeft(c, e)
        BY <2>1, <3>3, <3>4, ZenonT(60) DEF HeadLeft
      <4> QED
        BY <1>1, <2>1, <2>2, <4>1, RetireHeadStep
    <3>6. LoopInv(d, e, n + 1)
      <4>1. m + 1 \in Nat /\ m + 1 = n + 1 /\ ~e.stop /\ e.num # commitWidth
            /\ e.status = "Running"
        BY <2>1, <3>3
      <4> QED
        BY <4>1, <3>5, ZenonT(60) DEF LoopInv
    <3> QED
      BY <3>6 DEF e
  <2>6. CASE ~c.rob[1].squashed
    <3> DEFINE head == c.rob[1]
               waits == c.num > 0 \/ storesToWB > 0
    <3>1. e = commitHead(c)
      BY <2>1, <2>6, ZenonT(60)
    <3>2. CASE head.st = "executed" /\ head.fault = "none"
      <4> DEFINE rc == retireHead(c)
                 num1 == rc.num + 1
                 lq1 == rc.lq \/ head.kind = "load"
                 stores1 == IF head.kind = "store" THEN rc.stores + 1 ELSE rc.stores
                 status1 == IF head.kind = "squashafter" THEN "SquashAfterPending"
                            ELSE rc.status
                 after1 == IF head.kind = "squashafter" THEN head.sn ELSE rc.after
      <4>1. Tail(c.rob) \in Seq(Inst) /\ head.sn \in Nat
        BY <1>2, <2>1, <2>4 DEF Inst
      <4>b. /\ rc \in Cycle /\ rc.rob = Tail(c.rob) /\ rc.stop = c.stop
            /\ rc.it = c.it /\ rc.sq = c.sq /\ rc.trap = c.trap /\ rc.tc = c.tc
            /\ rc.youngest = c.youngest /\ rc.shb = c.shb /\ rc.squash = c.squash
            /\ rc.status = c.status /\ rc.after = c.after
        BY <1>2, <4>1, ZenonT(60) DEF retireHead, Cycle
      <4>2. e = [rc EXCEPT !.last = head.sn, !.num = num1, !.lq = lq1,
                           !.stores = stores1, !.status = status1, !.after = after1]
        BY <3>1, <3>2, <4>b, ZenonT(60) DEF commitHead, Cycle
      <4> HIDE DEF rc
      <4>c. /\ num1 \in Nat /\ lq1 \in BOOLEAN /\ stores1 \in Nat
            /\ status1 \in Status /\ after1 \in Nat
        <5>1. /\ rc.num \in Nat /\ rc.lq \in BOOLEAN /\ rc.stores \in Nat
              /\ rc.status \in Status /\ rc.after \in Nat
          BY <4>b, ZenonT(60) DEF Cycle
        <5>2. lq1 \in BOOLEAN
          OBVIOUS
        <5>3. status1 \in Status
          BY <5>1, ZenonT(60) DEF Status
        <5>4. num1 \in Nat /\ stores1 \in Nat /\ after1 \in Nat
          BY <4>1, <5>1
        <5> QED
          BY <5>2, <5>3, <5>4, ZenonT(60)
      <4>d. /\ status1 = IF head.kind = "squashafter" THEN "SquashAfterPending"
                         ELSE c.status
            /\ after1 = IF head.kind = "squashafter" THEN head.sn ELSE c.after
        BY <4>b, ZenonT(60)
      <4> HIDE DEF num1, lq1, stores1, status1, after1
      <4>3. /\ e \in Cycle /\ e.rob = Tail(c.rob) /\ e.stop = c.stop
            /\ e.it = c.it /\ e.sq = c.sq /\ e.trap = c.trap /\ e.tc = c.tc
            /\ e.youngest = c.youngest /\ e.shb = c.shb /\ e.squash = c.squash
            /\ e.status = status1 /\ e.after = after1 /\ e.last = head.sn
        <5>1. /\ e.rob = rc.rob /\ e.stop = rc.stop
              /\ e.it = rc.it /\ e.sq = rc.sq /\ e.trap = rc.trap /\ e.tc = rc.tc
              /\ e.youngest = rc.youngest /\ e.shb = rc.shb /\ e.squash = rc.squash
              /\ e.status = status1 /\ e.after = after1 /\ e.last = head.sn
          BY <4>2, <4>b, ZenonT(60) DEF Cycle
        <5>2. e \in Cycle
          <6>1. rc \in Cycle /\ head.sn \in Nat
            BY <4>1, <4>b, ZenonT(60)
          <6> HIDE DEF head, e
          <6> QED
            BY <4>2, <4>c, <6>1, ZenonT(60) DEF Cycle
        <5> QED
          BY <4>b, <5>1, <5>2, ZenonT(60)
      <4>4. Leaves(c.rob[1])
        BY <2>1, <3>2, ZenonT(60) DEF Leaves
      <4> HIDE DEF e
      <4>a. /\ e.last = c.last \/ e.last = c.rob[1].sn
            /\ e.status = c.status \/ e.status = "SquashAfterPending"
            /\ \/ e.after = c.after /\ e.status = c.status
               \/ e.status = "SquashAfterPending" /\ c.rob[1].kind = "squashafter"
        BY <4>3, <4>d, ZenonT(60)
      <4>5. /\ CommitShape(d, e, m + 1)
            /\ \A k \in 1..Len(e.rob) : e.rob[k] = d.rob[k + (m + 1)]
        <5>1. HeadLeft(c, e)
          BY <2>1, <4>3, <4>a, <4>4, ZenonT(60) DEF HeadLeft
        <5> QED
          BY <1>1, <2>1, <2>2, <5>1, RetireHeadStep
      <4>6. LoopInv(d, e, n + 1)
        <5>1. m + 1 \in Nat /\ m + 1 = n + 1 /\ ~e.stop /\ ~d.rob[m + 1].squashed
          BY <2>1, <2>4, <2>6, <4>3
        <5> QED
          BY <5>1, <4>5, ZenonT(60) DEF LoopInv
      <4> QED
        BY <4>6 DEF e
    <3>3. CASE head.st = "executed" /\ head.fault # "none"
      <4>1. e = [c EXCEPT !.stop = TRUE, !.status = IF waits THEN @ ELSE "TrapPending"]
        BY <3>1, <3>3, ZenonT(60) DEF commitHead
      <4>2. /\ e \in Cycle /\ e.rob = c.rob /\ e.stop = TRUE
            /\ e.it = c.it /\ e.sq = c.sq /\ e.trap = c.trap /\ e.tc = c.tc
            /\ e.youngest = c.youngest /\ e.shb = c.shb /\ e.squash = c.squash
            /\ e.status = (IF waits THEN c.status ELSE "TrapPending")
            /\ e.after = c.after /\ e.last = c.last
        BY <1>2, <4>1, ZenonT(60) DEF Cycle, Status
      <4> HIDE DEF e
      <4>3. c.after = d.after /\ (e.status = d.status \/ e.status = "TrapPending")
        BY <2>1, <2>2, <4>2, <1>1, ZenonT(60) DEF CommitShape
      <4>4. CommitShape(d, e, m)
        <5> HIDE DEF waits
        <5> QED
          BY <1>1, <2>2, <4>2, <4>3 DEF CommitShape
      <4>5. LoopInv(d, e, n + 1)
        BY <2>4, <2>6, <4>2, <4>4, ZenonT(60) DEF LoopInv
      <4> QED
        BY <4>5 DEF e
    <3>4. CASE head.st # "executed" /\ waits
      <4>1. e = [c EXCEPT !.stop = TRUE]
        BY <3>1, <3>4, ZenonT(60) DEF commitHead
      <4>2. /\ e \in Cycle /\ e.rob = c.rob /\ e.stop = TRUE
            /\ e.it = c.it /\ e.sq = c.sq /\ e.trap = c.trap /\ e.tc = c.tc
            /\ e.youngest = c.youngest /\ e.shb = c.shb /\ e.squash = c.squash
            /\ e.status = c.status /\ e.after = c.after /\ e.last = c.last
        BY <1>2, <4>1, ZenonT(60) DEF Cycle
      <4> HIDE DEF e
      <4>4. CommitShape(d, e, m)
        BY <1>1, <4>2 DEF CommitShape
      <4>5. LoopInv(d, e, n + 1)
        BY <2>4, <2>6, <4>2, <4>4, ZenonT(60) DEF LoopInv
      <4> QED
        BY <4>5 DEF e
    <3>5. CASE head.st # "executed" /\ ~waits
      <4>1. head.kind \in Special
        <5>1. head.kind \notin Special => head.st = "dropped"
          BY <2>1, <2>4, <2>6, <3>5, ZenonT(60) DEF InstOK, Ended
        <5>2. ~HalfSquashed(d.rob[m + 1])
          BY <2>2, <2>3, ZenonT(60) DEF WalkOK, ToWalk
        <5> QED
          BY <5>1, <5>2, <2>4, <2>6, ZenonT(60) DEF HalfSquashed
      <4> DEFINE w == [head EXCEPT !.canCommit = FALSE, !.st = "released"]
                 r == [c.rob EXCEPT ![1] = w]
      <4>2. e = [c EXCEPT !.rob = r, !.stop = TRUE]
        BY <3>1, <3>5, <1>2, <2>3, <2>4, ZenonT(60) DEF commitHead, Cycle, Inst
      <4>3. w \in Inst
        BY <2>4, ZenonT(60) DEF Inst, Progress
      <4>4. Released(d.rob[m + 1], w)
        BY <2>4, <2>6, <3>5, <4>1 DEF Released
      <4> HIDE DEF w
      <4>5. /\ r \in Seq(Inst) /\ Len(r) = Len(c.rob) /\ r[1] = w
            /\ \A k \in 1..Len(c.rob) : k # 1 => r[k] = c.rob[k]
        BY <1>2, <1>a, <2>3, <4>3
      <4> HIDE DEF r
      <4>6. /\ e \in Cycle /\ e.rob = r /\ e.stop = TRUE
            /\ e.it = c.it /\ e.sq = c.sq /\ e.trap = c.trap /\ e.tc = c.tc
            /\ e.youngest = c.youngest /\ e.shb = c.shb /\ e.squash = c.squash
            /\ e.status = c.status /\ e.after = c.after /\ e.last = c.last
        BY <1>2, <4>2, <4>5, ZenonT(60) DEF Cycle
      <4> HIDE DEF e
      <4>7. \A k \in 1..Len(e.rob) : \/ e.rob[k] = d.rob[k + m]
                                     \/ k = 1 /\ Released(d.rob[m + 1], e.rob[1])
        <5>1. Len(e.rob) = Len(c.rob) /\ e.rob[1] = w
              /\ \A k \in 1..Len(c.rob) : k # 1 => e.rob[k] = c.rob[k]
          BY <4>5, <4>6, ZenonT(60)
        <5>2. ASSUME NEW k \in 1..Len(c.rob)
              PROVE  \/ e.rob[k] = d.rob[k + m]
                     \/ k = 1 /\ Released(d.rob[m + 1], e.rob[1])
          <6>1. CASE k = 1
            BY <6>1, <5>1, <4>4, ZenonT(60)
          <6>2. CASE k # 1
            BY <6>2, <5>1, <2>1, ZenonT(60)
          <6> QED
            BY <6>1, <6>2, ZenonT(60)
        <5> QED
          BY <5>1, <5>2, ZenonT(60)
      <4>8. CommitShape(d, e, m)
        BY <1>1, <4>5, <4>6, <4>7 DEF CommitShape
      <4>9. LoopInv(d, e, n + 1)
        BY <2>4, <2>6, <4>6, <4>8, ZenonT(60) DEF LoopInv
      <4> QED
        BY <4>9 DEF e
    <3> QED
      BY <3>2, <3>3, <3>4, <3>5, ZenonT(60)
  <2> QED
    BY <2>5, <2>6, ZenonT(60)
<1> QED
  BY <1>3, <1>4, ZenonT(60)

\* The whole loop.
LEMMA CommitInstsShape ==
    ASSUME WellOrdered, NEW d \in Cycle, Chain(d.rob), WalkOK(d), d.stop = FALSE
    PROVE  \E m \in Nat :
              /\ CommitShape(d, commitInsts(d), m)
              /\ m > 0 /\ m < Len(d.rob) /\ d.rob[m].squashed
                    => ~d.rob[m + 1].squashed
<1> DEFINE N == Len(d.rob)
<1>1. N \in Nat /\ d.rob \in Seq(Inst)
  BY DEF Cycle
<1>2. PICK f : Iterates(d, N, f) /\ commitInsts(d) = f[N]
  BY <1>1, CommitInstsIterates, ZenonT(60)
<1>3. /\ f[0] = d
      /\ \A n \in 1..N : f[n] = commitInst(f[n - 1])
  <2>1. \A n \in 0..N : f[n] = IF n = 0 THEN d ELSE commitInst(f[n - 1])
    BY <1>2, ZenonT(60) DEF Iterates
  <2>2. 0 \in 0..N /\ \A n \in 1..N : n \in 0..N /\ n # 0
    BY <1>1
  <2> QED
    BY <2>1, <2>2, ZenonT(60)
<1>4. LoopInv(d, d, 0)
  <2>1. \A k \in 1..Len(d.rob) : d.rob[k] = d.rob[k + 0]
    BY <1>1
  <2>2. CommitShape(d, d, 0)
    BY <1>1, <2>1 DEF CommitShape
  <2> QED
    BY <2>1, <2>2 DEF LoopInv
<1> HIDE DEF N
<1>5. \A n \in 0..N : LoopInv(d, f[n], n)
  <2> DEFINE Bad == {n \in 0..N : ~LoopInv(d, f[n], n)}
  <2>1. ASSUME Bad # {} PROVE FALSE
    <3>1. Bad \in SUBSET Nat
      BY <1>1
    <3>2. PICK x \in Bad : \A y \in Bad : x <= y
      <4> HIDE DEF Bad
      <4> QED
        BY <2>1, <3>1 DEF WellOrdered
    <3>3. x # 0
      BY <1>3, <1>4, <3>2, ZenonT(60)
    <3>4. x - 1 \in 0..N /\ x - 1 \notin Bad /\ x \in 1..N
      BY <1>1, <3>2, <3>3
    <3>5. LoopInv(d, f[x - 1], x - 1) /\ x - 1 \in Nat
      BY <3>4
    <3>6. LoopInv(d, commitInst(f[x - 1]), (x - 1) + 1)
      BY <3>5, CommitInstStep, ZenonT(60)
    <3>7. (x - 1) + 1 = x /\ f[x] = commitInst(f[x - 1])
      BY <1>3, <3>4
    <3> QED
      BY <3>2, <3>6, <3>7, ZenonT(60)
  <2> QED
    BY <2>1
<1>6. LoopInv(d, commitInsts(d), N)
  BY <1>1, <1>2, <1>5
<1>7. PICK m \in Nat :
         /\ CommitShape(d, commitInsts(d), m)
         /\ ~commitInsts(d).stop => m = N
         /\ m > 0 /\ d.rob[m].squashed =>
               (commitInsts(d).stop => (m < Len(d.rob) => ~d.rob[m + 1].squashed))
  BY <1>6, ZenonT(60) DEF LoopInv
<1> QED
  BY <1>1, <1>7 DEF N

\* What an instruction that is released for execution at the head keeps.
LEMMA ReleasedFacts ==
    ASSUME NEW i, NEW w, InstOK(i), Released(i, w)
    PROVE  /\ InstOK(w) /\ w.sn = i.sn /\ w.kind = i.kind /\ w.from = i.from
           /\ w.st = "released" /\ w.SHTpkt = i.SHTpkt
           /\ w.SHTinserted = i.SHTinserted /\ ~w.squashed /\ ~w.canCommit
           /\ w.PrevInstsCompleted = i.PrevInstsCompleted /\ w.fault = i.fault
<1>1. /\ i \in Inst /\ i.kind \in Special /\ ~i.squashed
      /\ i.kind # "load" /\ ~isMemRef(i)
  BY ZenonT(60) DEF InstOK, Released, Special, isMemRef
<1>2. /\ w \in Inst /\ w.sn = i.sn /\ w.kind = i.kind /\ w.from = i.from
      /\ w.st = "released" /\ w.SHTpkt = i.SHTpkt
      /\ w.SHTinserted = i.SHTinserted /\ w.squashed = i.squashed
      /\ w.canCommit = FALSE
      /\ w.PrevInstsCompleted = i.PrevInstsCompleted /\ w.fault = i.fault
  BY <1>1, ZenonT(60) DEF Released, Inst, Progress
<1>3. InstOK(w)
  BY <1>1, <1>2, ZenonT(60) DEF InstOK, isMemRef
<1> QED
  BY <1>1, <1>2, <1>3, ZenonT(60)

\* Between the stages, after the loop.
LEMMA CommitInstsOK ==
    ASSUME NEW d, NEW n \in Nat, StageOK(d, n), d.status # "ROBSquashing",
           d.squash = {}, NEW c, NEW m \in Nat, CommitShape(d, c, m),
           m > 0 /\ m < Len(d.rob) /\ d.rob[m].squashed => ~d.rob[m + 1].squashed
    PROVE  StageOK(c, n)
<1>1. /\ d \in Cycle /\ Chain(d.rob) /\ WalkOK(d) /\ ShbOK(d)
      /\ CountOK(d, n) /\ Raising(d)
      /\ Reported(d.rob, toCommit.insts) /\ Reported(d.rob, fromIEW.insts)
  BY ZenonT(60) DEF StageOK
<1>2. /\ c \in Cycle /\ c.rob \in Seq(Inst)
      /\ m \in 0..Len(d.rob) /\ Len(c.rob) = Len(d.rob) - m
      /\ c.status # "ROBSquashing" /\ c.squash = {} /\ c.it = d.it /\ c.shb = d.shb
  BY ZenonT(60) DEF CommitShape, Cycle
<1>3. /\ Len(d.rob) \in Nat /\ DOMAIN d.rob = 1..Len(d.rob)
      /\ Len(c.rob) \in Nat /\ DOMAIN c.rob = 1..Len(c.rob)
      /\ \A k \in DOMAIN c.rob : k + m \in DOMAIN d.rob
  <2>1. Len(d.rob) \in Nat /\ DOMAIN d.rob = 1..Len(d.rob)
    BY <1>1, RobFacts, ZenonT(60)
  <2>2. Len(c.rob) \in Nat /\ DOMAIN c.rob = 1..Len(c.rob)
    BY <1>2
  <2> QED
    BY <1>2, <2>1, <2>2
<1>4. ASSUME NEW k \in DOMAIN c.rob
      PROVE  /\ InstOK(d.rob[k + m]) /\ InstOK(c.rob[k])
             /\ c.rob[k].sn = d.rob[k + m].sn /\ c.rob[k].kind = d.rob[k + m].kind
             /\ c.rob[k].from = d.rob[k + m].from
             /\ c.rob[k].squashed = d.rob[k + m].squashed
             /\ c.rob[k].PrevInstsCompleted = d.rob[k + m].PrevInstsCompleted
             /\ c.rob[k].SHTpkt = d.rob[k + m].SHTpkt
             /\ c.rob[k].SHTinserted = d.rob[k + m].SHTinserted
             /\ \/ c.rob[k] = d.rob[k + m]
                \/ /\ k = 1 /\ c.rob[k].st = "released" /\ c.rob[k].kind \in Special
                   /\ ~c.rob[k].squashed /\ d.rob[k + m].st # "executed"
  <2>1. k + m \in DOMAIN d.rob /\ InstOK(d.rob[k + m])
    BY <1>1, <1>3, ZenonT(60) DEF Chain
  <2>2. \/ c.rob[k] = d.rob[k + m]
        \/ k = 1 /\ Released(d.rob[k + m], c.rob[k])
    <3>1. k \in 1..Len(c.rob) /\ (k = 1 => k + m = m + 1)
      BY <1>3
    <3> QED
      BY <3>1, ZenonT(60) DEF CommitShape
  <2>3. PICK i : i = d.rob[k + m]
    OBVIOUS
  <2>4. PICK w : w = c.rob[k]
    OBVIOUS
  <2>5. CASE w = i
    BY <2>1, <2>3, <2>4, <2>5, ZenonT(60)
  <2>6. CASE k = 1 /\ Released(i, w)
    <3>1. InstOK(i)
      BY <2>1, <2>3, ZenonT(60)
    <3>2. /\ InstOK(w) /\ w.sn = i.sn /\ w.kind = i.kind /\ w.from = i.from
          /\ w.st = "released" /\ w.SHTpkt = i.SHTpkt
          /\ w.SHTinserted = i.SHTinserted /\ ~w.squashed
          /\ w.PrevInstsCompleted = i.PrevInstsCompleted
      BY <2>6, <3>1, ReleasedFacts
    <3>3. i.kind \in Special /\ ~i.squashed /\ i.st # "executed"
      BY <2>6, ZenonT(60) DEF Released
    <3>4. i.squashed \in BOOLEAN /\ w.squashed \in BOOLEAN
      BY <3>1, <3>2, ZenonT(60) DEF InstOK, Inst
    <3>5. i.squashed = w.squashed
      BY <3>2, <3>3, <3>4, ZenonT(60)
    <3> QED
      BY <2>3, <2>4, <2>6, <3>1, <3>2, <3>3, <3>5, ZenonT(60)
  <2> QED
    BY <2>2, <2>3, <2>4, <2>5, <2>6, ZenonT(60)
<1>5. \A k \in DOMAIN d.rob : d.rob[k].sn \in Nat
  BY <1>1, RobFacts, ZenonT(60) DEF Inst
<1>6. Chain(c.rob)
  <2>1. ASSUME NEW h \in DOMAIN c.rob, NEW k \in DOMAIN c.rob, h < k
        PROVE  PairOK(c.rob[h], c.rob[k])
    <3>1. h + m \in DOMAIN d.rob /\ k + m \in DOMAIN d.rob /\ h + m < k + m
      BY <1>3, <2>1
    <3>2. PairOK(d.rob[h + m], d.rob[k + m])
      BY <3>1, <1>1, ZenonT(60) DEF Chain
    <3>3. c.rob[k] = d.rob[k + m] \/ ~c.rob[k].PrevInstsCompleted
      BY <1>3, <1>4, <2>1
    <3> QED
      BY <3>2, <3>3, <1>4, ZenonT(60) DEF PairOK
  <2> QED
    BY <1>2, <1>4, <2>1, ZenonT(60) DEF Chain
<1>7. \A k \in DOMAIN d.rob : ~ToWalk(d, k)
  BY ZenonT(60) DEF ToWalk
<1>8. ASSUME NEW k \in DOMAIN d.rob, NEW s \in d.rob[k].from, NEW j \in DOMAIN d.rob,
             j < k, d.rob[j].sn > s
      PROVE  d.rob[j].squashed
  <2>1. j \in 1..k - 1
    BY <1>3, <1>8
  <2> QED
    BY <2>1, <1>1, <1>7, <1>8, ZenonT(60) DEF WalkOK
<1>9. WalkOK(c)
  <2>1. ASSUME NEW k \in DOMAIN c.rob
        PROVE  c.rob[k].sn > c.last
    <3>1. k + m \in DOMAIN d.rob /\ d.rob[k + m].sn > d.last
      BY <1>1, <1>3, ZenonT(60) DEF WalkOK
    <3>2. \A h \in 1..m : d.rob[h].sn < d.rob[k + m].sn
      <4>1. \A h \in 1..m : h \in DOMAIN d.rob /\ h < k + m
        BY <1>2, <1>3
      <4> QED
        BY <4>1, <3>1, <1>1, RobFacts, ZenonT(60)
    <3>3. \A h \in 1..m : d.rob[h].sn \in Nat
      <4>1. \A h \in 1..m : h \in DOMAIN d.rob
        BY <1>2, <1>3
      <4> QED
        BY <4>1, <1>5, ZenonT(60)
    <3> QED
      BY <3>1, <3>2, <3>3, <1>4, <1>5, ZenonT(60) DEF CommitShape
  <2>2. ASSUME NEW k \in DOMAIN c.rob
        PROVE  ~HalfSquashed(c.rob[k])
    <3>1. ~HalfSquashed(d.rob[k + m])
      BY <1>1, <1>3, <1>7, ZenonT(60) DEF WalkOK
    <3> QED
      BY <3>1, <1>4, ZenonT(60) DEF HalfSquashed
  <2>3. ASSUME NEW k \in DOMAIN c.rob, NEW s \in c.rob[k].from, NEW j \in 1..k - 1,
               c.rob[j].sn > s
        PROVE  c.rob[j].squashed
    <3>1. j \in DOMAIN c.rob /\ j + m \in DOMAIN d.rob /\ k + m \in DOMAIN d.rob
          /\ j + m < k + m
      <4>1. j \in DOMAIN c.rob /\ j \in Nat /\ k \in Nat /\ j < k
        BY <1>3
      <4>2. j + m < k + m
        BY <4>1, <1>3
      <4> QED
        BY <4>1, <4>2, <1>3, ZenonT(60)
    <3>2. d.rob[j + m].squashed
      BY <3>1, <2>3, <1>4, <1>8, ZenonT(60)
    <3> QED
      BY <3>1, <3>2, <1>4, ZenonT(60)
  <2>4. d.it = 0
    BY <1>1 DEF WalkOK, Cycle
  <2>5. c.it <= Len(c.rob) /\ ~(c.it > 0)
    BY <1>2, <1>3, <2>4
  <2> QED
    BY <1>2, <2>1, <2>2, <2>3, <2>5, ZenonT(60) DEF WalkOK
<1>10. ToldOK(c)
  BY <1>2, ZenonT(60) DEF ToldOK
<1>11. ASSUME NEW e \in Entry, SentOK(e, d.rob)
       PROVE  SentOK(e, c.rob)
  <2>1. \A k \in DOMAIN c.rob : c.rob[k].sn <= e.sn =>
           c.rob[k].st # "waiting" /\ (c.rob[k].SHTpkt => c.rob[k].SHTinserted)
    <3>1. ASSUME NEW k \in DOMAIN c.rob, c.rob[k].sn <= e.sn
          PROVE  c.rob[k].st # "waiting" /\ (c.rob[k].SHTpkt => c.rob[k].SHTinserted)
      <4>1. k + m \in DOMAIN d.rob /\ d.rob[k + m].sn <= e.sn
        BY <3>1, <1>3, <1>4, ZenonT(60)
      <4>2. d.rob[k + m].st # "waiting" /\ (d.rob[k + m].SHTpkt => d.rob[k + m].SHTinserted)
        BY <4>1, <1>11, ZenonT(60) DEF SentOK
      <4>3. c.rob[k].st # "waiting"
        BY <4>2, <1>4, ZenonT(60)
      <4> QED
        BY <4>2, <4>3, <1>4, ZenonT(60)
    <3> QED
      BY <3>1, ZenonT(60)
  <2>2. \/ \E j \in DOMAIN c.rob : c.rob[j].sn = e.sn /\ (e.from # {} => c.rob[j].from = e.from)
        \/ \A k \in DOMAIN c.rob : c.rob[k].sn > e.sn
    <3>1. CASE \A k \in DOMAIN d.rob : d.rob[k].sn > e.sn
      BY <3>1, <1>3, <1>4, ZenonT(60)
    <3>2. ASSUME NEW j \in DOMAIN d.rob, d.rob[j].sn = e.sn,
                 e.from # {} => d.rob[j].from = e.from
          PROVE  \/ \E i \in DOMAIN c.rob : c.rob[i].sn = e.sn /\ (e.from # {} => c.rob[i].from = e.from)
                 \/ \A k \in DOMAIN c.rob : c.rob[k].sn > e.sn
      <4>1. CASE j > m
        <5>1. PICK i \in DOMAIN c.rob : i + m = j
          <6>1. j - m \in DOMAIN c.rob /\ (j - m) + m = j
            BY <4>1, <1>2, <1>3
          <6> QED
            BY <6>1, ZenonT(60)
        <5> QED
          BY <5>1, <3>2, <1>4
      <4>2. CASE ~(j > m)
        <5>1. \A k \in DOMAIN c.rob : d.rob[j].sn < d.rob[k + m].sn
          <6>1. \A k \in DOMAIN c.rob : j < k + m /\ k + m \in DOMAIN d.rob
            BY <4>2, <1>3
          <6> QED
            BY <6>1, <1>1, RobFacts, ZenonT(60)
        <5> QED
          BY <5>1, <3>2, <1>3, <1>4, <1>5, ZenonT(60)
      <4> QED
        BY <4>1, <4>2, ZenonT(60)
    <3> QED
      BY <3>1, <3>2, <1>11, ZenonT(60) DEF SentOK
  <2>3. ASSUME NEW s \in e.from, NEW k \in DOMAIN c.rob,
               c.rob[k].from = e.from, c.rob[k].sn > e.sn
        PROVE  \E j \in 1..k - 1 : c.rob[j].squashed /\ c.rob[j].sn > s
    <3>1. k + m \in DOMAIN d.rob /\ d.rob[k + m].from = e.from /\ d.rob[k + m].sn > e.sn
      BY <1>3, <1>4, <2>3, ZenonT(60)
    <3>2. PICK j \in 1..(k + m) - 1 : d.rob[j].squashed /\ d.rob[j].sn > s
      BY <3>1, <1>11, ZenonT(60) DEF SentOK
    <3>3. j \in DOMAIN d.rob
      BY <1>3, <3>1
    <3>4. CASE j > m
      <4>1. PICK i \in 1..k - 1 : i + m = j
        <5>1. j - m \in 1..k - 1 /\ (j - m) + m = j
          BY <3>4, <1>2, <1>3
        <5> QED
          BY <5>1, ZenonT(60)
      <4>2. i \in DOMAIN c.rob
        BY <1>3
      <4> QED
        BY <4>1, <4>2, <3>2, <1>4, ZenonT(60)
    <3>5. CASE ~(j > m)
      <4>1. /\ m \in DOMAIN d.rob /\ m + 1 \in DOMAIN d.rob /\ m > 0 /\ m < Len(d.rob)
            /\ m < k + m /\ (m = j \/ j < m) /\ (m + 1 < k + m \/ m + 1 = k + m)
        <5>1. k \in Nat /\ k >= 1 /\ j \in Nat /\ j >= 1 /\ j <= m /\ k + m <= Len(d.rob)
          <6>1. k + m \in 1..Len(d.rob) /\ j \in 1..Len(d.rob) /\ k \in 1..Len(c.rob)
            BY <3>1, <3>3, <1>3, ZenonT(60)
          <6> QED
            BY <6>1, <3>5, <1>3
        <5>2. m > 0 /\ m < Len(d.rob) /\ m < k + m
          BY <5>1, <1>3
        <5>3. (m = j \/ j < m) /\ (m + 1 < k + m \/ m + 1 = k + m)
          BY <5>1
        <5>4. m \in 1..Len(d.rob) /\ m + 1 \in 1..Len(d.rob)
          BY <5>1, <5>2, <1>3
        <5> QED
          BY <5>2, <5>3, <5>4, <1>3, ZenonT(60)
      <4>2. d.rob[m].sn > s /\ d.rob[m + 1].sn > s
        <5>1. \A i \in DOMAIN d.rob : j < i => d.rob[j].sn < d.rob[i].sn
          BY <3>3, <1>1, RobFacts, ZenonT(60)
        <5>2. s \in Nat
          BY ZenonT(60) DEF Entry
        <5>3. m = j \/ d.rob[j].sn < d.rob[m].sn
          BY <5>1, <4>1, ZenonT(60)
        <5>4. j < m + 1
          BY <3>5, <3>3, <1>2, <1>3
        <5>5. d.rob[j].sn < d.rob[m + 1].sn
          BY <5>1, <5>4, <4>1, ZenonT(60)
        <5>6. /\ d.rob[j].sn \in Nat /\ d.rob[m].sn \in Nat /\ d.rob[m + 1].sn \in Nat
              /\ d.rob[j].sn > s
          BY <4>1, <3>2, <3>3, <1>5, ZenonT(60)
        <5> QED
          BY <5>2, <5>3, <5>5, <5>6
      <4>3. d.rob[m].squashed
        BY <4>1, <4>2, <3>1, <1>8, ZenonT(60)
      <4>4. d.rob[m + 1].squashed
        <5>1. CASE m + 1 < k + m
          BY <5>1, <4>1, <4>2, <3>1, <1>8, ZenonT(60)
        <5>2. CASE m + 1 = k + m
          BY <5>2, <3>1, <1>4, <2>3, ZenonT(60) DEF InstOK
        <5> QED
          BY <5>1, <5>2, <4>1, ZenonT(60)
      <4> QED
        BY <4>1, <4>3, <4>4, ZenonT(60)
    <3> QED
      BY <3>4, <3>5, ZenonT(60)
  <2>4. \A s \in e.from : s < e.sn /\ e.from = {s}
    BY <1>11, ZenonT(60) DEF SentOK
  <2> QED
    BY <2>1, <2>2, <2>3, <2>4, ZenonT(60) DEF SentOK
<1>12. ShbOK(c)
  <2>1. \A a \in DOMAIN d.shb : d.shb[a] \in Entry
    <3>1. d.shb \in Seq(Entry)
      BY <1>1, ZenonT(60) DEF Cycle
    <3> QED
      BY <3>1
  <2> QED
    BY <2>1, <1>1, <1>2, <1>11, ZenonT(60) DEF ShbOK
<1>13. CountOK(c, n)
  <2>1. c.last < n
    <3>1. \A h \in 1..m : h \in DOMAIN d.rob
      BY <1>2, <1>3
    <3> QED
      BY <3>1, <1>1, ZenonT(60) DEF CommitShape, CountOK
  <2>2. \A k \in DOMAIN c.rob : c.rob[k].sn < n /\ c.rob[k].kind \in Kinds
    BY <1>1, <1>3, <1>4, ZenonT(60) DEF CountOK
  <2> QED
    BY <2>1, <2>2, <1>1, <1>2, ZenonT(60) DEF CountOK
<1>14. Reported(c.rob, toCommit.insts) /\ Reported(c.rob, fromIEW.insts)
  <2>1. ASSUME NEW S, Reported(d.rob, S), NEW k \in DOMAIN c.rob, c.rob[k].sn \in S
        PROVE  c.rob[k].st = "executed"
    <3>1. d.rob[k + m].st = "executed"
      BY <2>1, <1>3, <1>4, ZenonT(60) DEF Reported
    <3> QED
      BY <3>1, <1>4, ZenonT(60)
  <2> QED
    BY <2>1, <1>1, ZenonT(60) DEF Reported
<1>15. Raising(c)
  <2>1. ASSUME toCommit.squash PROVE Raising(c)
    <3>1. PICK j \in DOMAIN d.rob :
             /\ Spares(toCommit, d.rob[j]) /\ d.rob[j].kind \in {"branch", "store"}
             /\ d.rob[j].sn \in toCommit.insts /\ d.rob[j].sn \notin fromIEW.insts
             /\ ~d.rob[j].squashed /\ ~d.rob[j].canCommit
      BY <2>1, <1>1, ZenonT(60) DEF Raising
    <3>2. j > m
      <4>1. ~(j \in 1..m)
        BY <3>1, ZenonT(60) DEF CommitShape, Leaves
      <4> QED
        BY <4>1, <1>2, <1>3
    <3>3. PICK i \in DOMAIN c.rob : i + m = j
      <4>1. j - m \in DOMAIN c.rob /\ (j - m) + m = j
        BY <3>2, <1>2, <1>3
      <4> QED
        BY <4>1, ZenonT(60)
    <3>4. c.rob[i] = d.rob[j]
      BY <3>1, <3>3, <1>4, ZenonT(60) DEF Special
    <3> QED
      BY <3>1, <3>4, ZenonT(60) DEF Raising
  <2> QED
    BY <2>1, ZenonT(60) DEF Raising
<1> QED
  BY <1>2, <1>6, <1>9, <1>10, <1>12, <1>13, <1>14, <1>15, ZenonT(60) DEF StageOK

\* What was in the ROB stays in front of what is put behind it.
LEMMA GotInstsPrefix ==
    ASSUME NEW c, c.rob \in Seq(Inst), NEW d, Chain(d.rob),
           NEW kinds, Len(kinds) \in Nat, GotInsts(c, d, kinds)
    PROVE  /\ DOMAIN c.rob \subseteq DOMAIN d.rob
           /\ \A h \in DOMAIN c.rob : d.rob[h] = c.rob[h]
<1>1. Len(d.rob) = Len(c.rob) + Len(kinds)
  BY ZenonT(60) DEF GotInsts
<1>2. DOMAIN c.rob = 1..Len(c.rob) /\ Len(c.rob) \in Nat
  OBVIOUS
<1>3. DOMAIN d.rob = 1..Len(d.rob)
  BY RobFacts, ZenonT(60)
<1>4. \A h \in DOMAIN c.rob : h \in DOMAIN d.rob /\ h <= Len(c.rob)
  BY <1>1, <1>2, <1>3
<1>5. \A h \in DOMAIN d.rob : h <= Len(c.rob) => d.rob[h] = c.rob[h]
  BY ZenonT(60) DEF GotInsts
<1> QED
  BY <1>4, <1>5, ZenonT(60)

\* An instruction whose number was committed leaves, and so does what is older.
LEMMA CommittedLeaves ==
    ASSUME NEW r, NEW k \in DOMAIN r, DOMAIN r = 1..Len(r), Len(r) \in Nat,
           NEW d, Chain(d.rob), NEW c, NEW m \in Nat, CommitShape(d, c, m),
           DOMAIN r \subseteq DOMAIN d.rob, \A h \in DOMAIN r : d.rob[h] = r[h],
           d.last \in Nat, r[k].sn > d.last, ~(r[k].sn > c.last)
    PROVE  \A h \in 1..k : h \in DOMAIN r /\ Leaves(r[h])
<1>1. k \in DOMAIN d.rob /\ d.rob[k] = r[k]
  BY ZenonT(60)
<1>2. \A h \in DOMAIN d.rob : d.rob[h].sn \in Nat
  BY RobFacts, ZenonT(60) DEF Inst
<1>3. PICK j \in 1..m : c.last = d.rob[j].sn
  BY ZenonT(60) DEF CommitShape
<1>4. m \in 0..Len(d.rob) /\ \A h \in 1..m : Leaves(d.rob[h])
  BY ZenonT(60) DEF CommitShape
<1>5. DOMAIN d.rob = 1..Len(d.rob) /\ Len(d.rob) \in Nat
  BY RobFacts, ZenonT(60)
<1>6. j \in DOMAIN d.rob /\ j <= m /\ j \in Nat
  BY <1>4, <1>5
<1>7. ~(d.rob[j].sn < d.rob[k].sn)
  BY <1>1, <1>2, <1>3, <1>6
<1>8. ~(j < k)
  BY <1>1, <1>6, <1>7, RobFacts, ZenonT(60)
<1>9. \A h \in 1..k : h \in 1..m /\ h \in DOMAIN r
  BY <1>6, <1>8
<1> QED
  BY <1>4, <1>9, ZenonT(60)

=============================================================================

--------------------------- MODULE TagStoreProofs ---------------------------
(* What holds of the tags for every number of sets and ways, both policies,    *)
(* every set of addresses and domains and every number of MSHRs.               *)
EXTENDS TagStore, FiniteSetTheorems, WellFoundedInduction, TLAPS

\* The provers of the leaves that name none, in the order in which they are tried.
USE SMTT(60), Z3T(60), ZenonT(60)

-----------------------------------------------------------------------------
(* The inductive invariant. *)

\* The block b of the entry e is where the indexing puts block a of domain d.
AtHome(b, e, a, d) ==
    /\ e \in getPossibleEntries(a)
    /\ b.tag = extractTag(a) /\ b.index = extractIndex(a) /\ b.domainID = d

\* A valid block is at home, a miss on it is a store it waits for, only such a
\* miss makes it unreadable, and its replacement data are those of its last use.
BlockInv(e) ==
    blk[e].valid =>
        /\ owner(e) \in Addr \X Domain
        /\ AtHome(blk[e], e, owner(e)[1], owner(e)[2])
        /\ \A m \in mshr : <<m.addr, m.domainID>> = owner(e)
                              => m.write /\ ~blk[e].writable
        /\ blk[e].readable \/ \E m \in mshr : <<m.addr, m.domainID>> = owner(e)
        /\ blk[e].repl > 0
        /\ LRU => blk[e].repl = used[owner(e)]

\* No two blocks are for the same address and domain, nor have the same index.
Distinct(e, f) ==
    blk[e].valid /\ blk[f].valid /\ e # f =>
        /\ owner(e) # owner(f)
        /\ NewRand => blk[e].index # blk[f].index

TagInv ==
    /\ scenario \in Scenarios
    /\ TypeOK
    /\ used \in [Addr \X Domain -> Nat]
    /\ \A e \in Entry : BlockInv(e)
    /\ \A e, f \in Entry : Distinct(e, f)
    /\ \A m, n \in mshr : m.addr = n.addr /\ m.domainID = n.domainID => m = n
    /\ failed = {}

-----------------------------------------------------------------------------
(* Least elements, division and indexing. *)

LEMMA LeastOf ==
    ASSUME NEW S \in SUBSET Nat, S # {}
    PROVE  \E x \in S : \A y \in S : x <= y
<1>1. IsWellFoundedOn(OpToRel(<, Nat), Nat)
  BY NatLessThanWellFounded, ZenonT(60)
<1>2. PICK x \in S : \A y \in S : ~(<<y, x>> \in OpToRel(<, Nat))
  BY <1>1, WFMin, ZenonT(60)
<1>3. \A y \in S : ~(y < x)
  BY <1>2, ZenonT(60) DEF OpToRel
<1> QED
  BY <1>3

LEMMA MinFacts ==
    ASSUME NEW S \in SUBSET Nat, S # {}
    PROVE  Min(S) \in S /\ \A y \in S : Min(S) <= y
  BY LeastOf, ZenonT(60) DEF Min

\* Some entry of a set is the least recently touched.
LEMMA LeastTouched ==
    ASSUME TypeOK, NEW S \in SUBSET Entry, S # {}
    PROVE  \E e \in S : \A f \in S : blk[e].repl <= blk[f].repl
<1>1. \A e \in S : blk[e].repl \in Nat
  BY ZenonT(60) DEF TypeOK
<1> DEFINE R == {blk[e].repl : e \in S}
<1>2. R \in SUBSET Nat /\ R # {}
  BY <1>1, ZenonT(60)
<1>3. \E x \in R : \A y \in R : x <= y
  <2> HIDE DEF R
  <2> QED
    BY <1>2, LeastOf
<1> QED
  BY <1>3, ZenonT(60)

\* The numbers of a scenario.
LEMMA ScenarioFacts ==
    ASSUME scenario \in Scenarios
    PROVE  /\ numSets \in Nat \ {0} /\ scenario.assoc \in Nat \ {0}
           /\ numBlocks \in Nat \ {0} /\ Entry \subseteq Nat /\ Entry # {}
           /\ None \notin Entry
           /\ Addr \subseteq Nat /\ Domain \subseteq Nat
           /\ scenario.MaxTick \in Nat \ {0}
<1>1. /\ scenario.numSets \in Nat \ {0} /\ scenario.assoc \in Nat \ {0}
      /\ scenario.Addr \subseteq Nat /\ scenario.Domain \subseteq Nat
      /\ scenario.MaxTick \in Nat \ {0}
  BY TagAssumption, ZenonT(60)
<1>2. numBlocks \in Nat \ {0}
  <2>1. \A x, y \in Nat \ {0} : x * y \in Nat \ {0}
    BY Z3T(60)
  <2> QED
    BY <2>1, <1>1, ZenonT(60) DEF numBlocks, numSets
<1>3. Entry \subseteq Nat /\ Entry # {} /\ None \notin Entry
  BY <1>2 DEF Entry, None
<1> QED
  BY <1>1, <1>2, <1>3, ZenonT(60) DEF numSets, Addr, Domain

LEMMA DivMod ==
    ASSUME NEW w \in Nat \ {0}, NEW a \in Nat
    PROVE  (a \div w) * w + (a % w) = a
  BY Z3T(60)

\* The address of a block at home is the one it was placed for.
LEMMA RegenerateAtHome ==
    ASSUME scenario \in Scenarios, NEW a \in Addr, NEW e \in getPossibleEntries(a),
           NEW b, b.tag = extractTag(a), NewRand => b.index = extractIndex(a)
    PROVE  regenerateBlkAddr(b, e) = a
<1>1. CASE NewRand
  <2>1. b.tag = a \div 2 ^ scenario.nbits
    BY <1>1 DEF extractTag, newRandTag
  <2>2. b.index = a % (scenario.numSets * scenario.assoc * 2 ^ scenario.nbits)
    BY <1>1, ZenonT(60) DEF extractIndex, numBlocks, numSets
  <2>3. bitOr((a \div 2 ^ scenario.nbits) * 2 ^ scenario.nbits,
              a % (scenario.numSets * scenario.assoc * 2 ^ scenario.nbits)) = a
    BY <1>1, TagAssumption, ZenonT(60) DEF NewRand, Addr
  <2>4. bitOr(b.tag * 2 ^ scenario.nbits, b.index) = a
    BY <2>1, <2>2, <2>3, ZenonT(60)
  <2> QED
    BY <1>1, <2>4, ZenonT(60) DEF regenerateBlkAddr, newRandAddr
<1>2. CASE ~NewRand
  <2>1. b.tag = a \div numSets /\ getSet(e) = a % numSets
    BY <1>2, ZenonT(60) DEF extractTag, setAssocTag, getPossibleEntries, extractSet
  <2>2. (a \div numSets) * numSets + (a % numSets) = a
    BY DivMod, ScenarioFacts, ZenonT(60)
  <2> QED
    BY <1>2, <2>1, <2>2, ZenonT(60) DEF regenerateBlkAddr, setAssocAddr
<1> QED
  BY <1>1, <1>2

\* A lookup finds the block of the address and the domain, if there is one.
LEMMA Lookup ==
    ASSUME TagInv, NEW a \in Addr, NEW d \in Domain
    PROVE  \/ /\ findBlock(a, d) = None
              /\ \A f \in Entry : blk[f].valid => owner(f) # <<a, d>>
           \/ /\ findBlock(a, d) \in Entry /\ findBlock(a, d) # None
              /\ blk[findBlock(a, d)].valid
              /\ owner(findBlock(a, d)) = <<a, d>>
<1> DEFINE hits == IF NewRand THEN newRandHits(a) ELSE setAssocHits(a, d)
<1>0. scenario \in Scenarios /\ hits \subseteq Entry
  BY ZenonT(60) DEF TagInv, newRandHits, setAssocHits, getPossibleEntries
<1>1. ASSUME NEW f \in hits
      PROVE  blk[f].valid /\ owner(f) = <<a, d>>
  <2>1. f \in getPossibleEntries(a) /\ f \in Entry /\ blk[f].valid
    BY <1>0, ZenonT(60) DEF newRandHits, setAssocHits
  <2>2. blk[f].tag = extractTag(a) /\ (NewRand => blk[f].index = extractIndex(a))
    BY ZenonT(60) DEF newRandHits, setAssocHits
  <2>3. regenerateBlkAddr(blk[f], f) = a
    BY <1>0, <2>1, <2>2, RegenerateAtHome, ZenonT(60)
  <2>4. blk[f].domainID = d
    <3>1. CASE NewRand
      <4>1. blk[f].domainID \in Domain
        BY <2>1, ZenonT(60) DEF TagInv, BlockInv, owner
      <4> QED
        BY <1>0, <3>1, <4>1, TagAssumption, ZenonT(60) DEF NewRand, Domain
    <3>2. CASE ~NewRand
      BY <3>2, ZenonT(60) DEF setAssocHits
    <3> QED
      BY <3>1, <3>2, ZenonT(60)
  <2> QED
    BY <2>1, <2>3, <2>4, ZenonT(60) DEF owner
<1>2. ASSUME NEW f \in Entry, blk[f].valid, owner(f) = <<a, d>>
      PROVE  f \in hits
  <2>1. AtHome(blk[f], f, a, d)
    BY <1>2 DEF TagInv, BlockInv
  <2> QED
    BY <1>2, <2>1, ZenonT(60) DEF AtHome, newRandHits, setAssocHits
<1>3. findBlock(a, d) = IF hits = {} THEN None ELSE Min(hits)
  BY ZenonT(60) DEF findBlock
<1> HIDE DEF hits
<1>4. CASE hits = {}
  BY <1>2, <1>3, <1>4, ZenonT(60)
<1>5. CASE hits # {}
  <2>1. Min(hits) \in hits
    BY <1>0, <1>5, MinFacts, ScenarioFacts, ZenonT(60)
  <2> QED
    BY <1>0, <1>1, <1>3, <1>5, <2>1, ScenarioFacts, ZenonT(60)
<1> QED
  BY <1>4, <1>5, ZenonT(60)

-----------------------------------------------------------------------------
(* Victims and fills. *)

\* Every set has an entry.
LEMMA SetHasEntries ==
    ASSUME scenario \in Scenarios, NEW a \in Addr
    PROVE  getPossibleEntries(a) \in SUBSET Entry /\ getPossibleEntries(a) # {}
<1>1. getPossibleEntries(a) \in SUBSET Entry
  BY DEF getPossibleEntries
<1>2. numSets \in Nat \ {0} /\ scenario.assoc \in Nat \ {0} /\ a \in Nat
  BY ScenarioFacts, ZenonT(60)
<1> DEFINE s == extractSet(a)
           e == s * scenario.assoc
<1>3. s \in 0..(numSets - 1)
  BY <1>2, Z3T(60) DEF extractSet
<1> HIDE DEF s
<1>4. e \in 0..(numSets * scenario.assoc - 1)
  BY <1>2, <1>3, Z3T(60)
<1>5. e \div scenario.assoc = s
  BY <1>2, <1>3, Z3T(60)
<1>6. getSet(e) = extractSet(a) /\ e \in Entry
  BY <1>4, <1>5, ZenonT(60) DEF getSet, Entry, numBlocks, s
<1> QED
  BY <1>1, <1>6, ZenonT(60) DEF getPossibleEntries

\* A victim is where the new block may be, no other block has its index, and it
\* is valid only if its whole set is and none was touched before it.
LEMMA VictimFacts ==
    ASSUME TagInv, NEW a \in Addr, NEW v \in findVictim(a)
    PROVE  /\ v \in Entry /\ v \in getPossibleEntries(a)
           /\ NewRand => \A f \in Entry \ {v} :
                            blk[f].valid => blk[f].index # extractIndex(a)
           /\ ~NewRand /\ blk[v].valid =>
                 \A f \in getPossibleEntries(a) :
                    blk[f].valid /\ (LRU => blk[v].repl <= blk[f].repl)
<1>1. /\ TypeOK /\ scenario \in Scenarios
      /\ \A e \in Entry : BlockInv(e) /\ \A f \in Entry : Distinct(e, f)
  BY ZenonT(60) DEF TagInv
<1>2. \A e \in Entry : blk[e].repl \in Nat /\ (blk[e].valid <=> blk[e].repl > 0)
  BY <1>1 DEF TypeOK, BlockInv
<1> DEFINE cands == getPossibleEntries(a)
<1>3. cands \in SUBSET Entry /\ cands # {} /\ Entry \subseteq Nat
  BY <1>1, SetHasEntries, ScenarioFacts, ZenonT(60)
<1>4. CASE NewRand
  <2>1. cands = Entry
    BY <1>4 DEF getPossibleEntries
  <2>2. v \in IF matchIndex(a) = {} THEN Entry ELSE matchIndex(a)
    BY <1>4 DEF findVictim, newRandVictim
  <2>3. v \in Entry
    BY <2>2, ZenonT(60) DEF matchIndex
  <2>4. ASSUME NEW f \in Entry \ {v}, blk[f].valid, blk[f].index = extractIndex(a)
        PROVE  FALSE
    <3>1. f \in matchIndex(a)
      BY <2>4, ZenonT(60) DEF matchIndex
    <3>2. blk[v].valid /\ blk[v].index = extractIndex(a)
      BY <3>1, <2>2, ZenonT(60) DEF matchIndex
    <3> QED
      BY <1>1, <1>4, <2>3, <2>4, <3>2, ZenonT(60) DEF Distinct
  <2> QED
    BY <1>4, <2>1, <2>3, <2>4, ZenonT(60)
<1>5. CASE ~NewRand /\ LRU
  <2> DEFINE least == {e \in cands : \A f \in cands : blk[e].repl <= blk[f].repl}
  <2>1. v = Min(least)
    BY <1>5, ZenonT(60) DEF findVictim, setAssocVictim, lruVictim
  <2>2. least \in SUBSET Nat /\ least # {}
    <3>1. \E e \in cands : \A f \in cands : blk[e].repl <= blk[f].repl
      <4> HIDE DEF cands
      <4> QED
        BY <1>1, <1>3, LeastTouched, ZenonT(60)
    <3> QED
      BY <1>3, <3>1, ZenonT(60)
  <2>3. v \in least
    <3> HIDE DEF least
    <3> QED
      BY <2>1, <2>2, MinFacts
  <2> HIDE DEF cands
  <2>4. v \in cands /\ \A f \in cands : blk[v].repl <= blk[f].repl
    BY <2>3
  <2>5. blk[v].valid => \A f \in cands : blk[f].valid
    BY <1>2, <1>3, <2>4
  <2> QED
    BY <1>3, <1>5, <2>4, <2>5, ZenonT(60) DEF cands
<1>6. CASE ~NewRand /\ ~LRU
  <2> DEFINE free == {e \in cands : blk[e].repl = 0}
  <2>1. v \in IF free = {} THEN cands ELSE {Min(free)}
    BY <1>6, ZenonT(60) DEF findVictim, setAssocVictim, randomVictim
  <2>2. free # {} => Min(free) \in free
    <3>1. free \in SUBSET Nat
      BY <1>3, ZenonT(60)
    <3> HIDE DEF free
    <3> QED
      BY <3>1, MinFacts
  <2>3. v \in cands /\ (v \in free \/ free = {})
    BY <2>1, <2>2, ZenonT(60)
  <2> HIDE DEF cands
  <2>4. blk[v].valid => \A f \in cands : blk[f].valid
    BY <1>2, <1>3, <2>3
  <2> QED
    BY <1>3, <1>6, <2>3, <2>4, ZenonT(60) DEF cands
<1> QED
  BY <1>4, <1>5, <1>6, ZenonT(60)

\* The indexing of a behaviour does not change.
LEMMA SameIndexing ==
    ASSUME scenario' = scenario
    PROVE  /\ Entry' = Entry /\ Addr' = Addr /\ Domain' = Domain
           /\ NewRand' = NewRand /\ LRU' = LRU
           /\ \A a : /\ extractTag(a)' = extractTag(a)
                     /\ extractIndex(a)' = extractIndex(a)
                     /\ getPossibleEntries(a)' = getPossibleEntries(a)
           /\ \A e : owner(e)' = <<regenerateBlkAddr(blk'[e], e), blk'[e].domainID>>
<1>1. /\ Entry' = Entry /\ Addr' = Addr /\ Domain' = Domain
      /\ NewRand' = NewRand /\ LRU' = LRU /\ numSets' = numSets
      /\ numBlocks' = numBlocks
  BY ZenonT(60) DEF Entry, Addr, Domain, NewRand, LRU, numSets, numBlocks
<1>2. \A a : /\ extractTag(a)' = extractTag(a) /\ extractIndex(a)' = extractIndex(a)
             /\ getPossibleEntries(a)' = getPossibleEntries(a)
  BY <1>1, ZenonT(60) DEF extractTag, newRandTag, setAssocTag, extractIndex, getPossibleEntries,
                     getSet, extractSet
<1>3. \A e : owner(e)' = <<regenerateBlkAddr(blk'[e], e), blk'[e].domainID>>
  BY <1>1, ZenonT(60) DEF owner, regenerateBlkAddr, newRandAddr, setAssocAddr, getSet
<1> QED
  BY <1>1, <1>2, <1>3, ZenonT(60)

\* The entry f holds the same block after a step, or none before and after.
SameBlock(f) ==
    /\ blk'[f].valid = blk[f].valid /\ blk'[f].tag = blk[f].tag
    /\ blk'[f].index = blk[f].index /\ blk'[f].domainID = blk[f].domainID

LEMMA SameBlockFacts ==
    ASSUME TagInv, scenario' = scenario, NEW f \in Entry, SameBlock(f)
    PROVE  /\ owner(f)' = owner(f)
           /\ blk[f].valid => AtHome(blk[f], f, owner(f)[1], owner(f)[2])'
<1>1. regenerateBlkAddr(blk'[f], f) = regenerateBlkAddr(blk[f], f)
  BY ZenonT(60) DEF SameBlock, regenerateBlkAddr, newRandAddr, setAssocAddr
<1>2. owner(f)' = owner(f)
  BY <1>1, SameIndexing, ZenonT(60) DEF SameBlock, owner
<1>3. ASSUME blk[f].valid
      PROVE  AtHome(blk[f], f, owner(f)[1], owner(f)[2])'
  <2>1. AtHome(blk[f], f, owner(f)[1], owner(f)[2])
    BY <1>3, ZenonT(60) DEF TagInv, BlockInv
  <2> QED
    BY <2>1, <1>2, SameIndexing, ZenonT(60) DEF AtHome, SameBlock
<1> QED
  BY <1>2, <1>3, ZenonT(60)

\* A step that changes no entry's block keeps the blocks distinct.
LEMMA KeptDistinct ==
    ASSUME TagInv, scenario' = scenario, NEW e \in Entry, NEW f \in Entry,
           SameBlock(e) \/ ~blk'[e].valid, SameBlock(f) \/ ~blk'[f].valid
    PROVE  Distinct(e, f)'
<1> SUFFICES ASSUME blk'[e].valid, blk'[f].valid, e # f
             PROVE  owner(e)' # owner(f)' /\ (NewRand => blk'[e].index # blk'[f].index)
  BY SameIndexing, ZenonT(60) DEF Distinct
<1>1. owner(e)' = owner(e) /\ owner(f)' = owner(f)
  BY SameBlockFacts, ZenonT(60)
<1>2. Distinct(e, f) /\ blk[e].valid /\ blk[f].valid
  BY ZenonT(60) DEF TagInv, SameBlock
<1> QED
  BY <1>1, <1>2, ZenonT(60) DEF Distinct, SameBlock

\* A new block is put where no other is, at the index of no other.
LEMMA FilledBlocks ==
    ASSUME TagInv, scenario' = scenario, NEW a \in Addr, NEW d \in Domain,
           \A f \in Entry : blk[f].valid => owner(f) # <<a, d>>,
           NEW v \in Entry, v \in findVictim(a), blk'[v].tag = extractTag(a),
           blk'[v].index = extractIndex(a), blk'[v].domainID = d,
           \A f \in Entry \ {v} : blk'[f] = blk[f]
    PROVE  /\ owner(v)' = <<a, d>>
           /\ AtHome(blk[v], v, owner(v)[1], owner(v)[2])'
           /\ \A e, f \in Entry : Distinct(e, f)'
<1>1. v \in getPossibleEntries(a) /\ scenario \in Scenarios
  BY VictimFacts, ZenonT(60) DEF TagInv
<1>2. \A f \in Entry \ {v} : SameBlock(f)
  BY ZenonT(60) DEF SameBlock
<1>3. regenerateBlkAddr(blk'[v], v) = a
  BY <1>1, RegenerateAtHome, ZenonT(60)
<1>4. owner(v)' = <<a, d>>
  BY <1>3, SameIndexing, ZenonT(60)
<1>5. AtHome(blk[v], v, owner(v)[1], owner(v)[2])'
  BY <1>1, <1>2, <1>4, SameIndexing DEF AtHome
<1>6. ASSUME NEW e \in Entry \ {v}, blk'[e].valid
      PROVE  owner(e)' # owner(v)' /\ (NewRand => blk'[e].index # blk'[v].index)
  <2>1. owner(e)' = owner(e) /\ blk'[e] = blk[e]
    BY <1>2, SameBlockFacts, ZenonT(60)
  <2>2. NewRand => blk[e].index # extractIndex(a)
    BY <1>6, <2>1, VictimFacts, ZenonT(60)
  <2> QED
    BY <1>2, <1>4, <1>6, <2>1, <2>2, ZenonT(60)
<1>7. ASSUME NEW e \in Entry, NEW f \in Entry
      PROVE  Distinct(e, f)'
  <2>1. CASE e # v /\ f # v
    BY <1>2, <2>1, KeptDistinct, ZenonT(60)
  <2>2. CASE e = v \/ f = v
    BY <1>6, <2>2, SameIndexing DEF Distinct
  <2> QED
    BY <2>1, <2>2, ZenonT(60)
<1> QED
  BY <1>4, <1>5, <1>7, ZenonT(60)

\* Time passes within its bound.
LEMMA TickFacts ==
    ASSUME TagInv, Tick, scenario' = scenario
    PROVE  tick' \in 1..scenario.MaxTick /\ tick' \in Nat /\ tick' > 0
  BY ScenarioFacts DEF TagInv, TypeOK, Tick

-----------------------------------------------------------------------------
(* The steps. *)

\* An MSHR on the block of the entry e.
MissOn(m, e) == <<m.addr, m.domainID>> = owner(e)

BlkType ==
    [valid : BOOLEAN, tag : {0} \cup {extractTag(a) : a \in Addr},
     index : {0} \cup {extractIndex(a) : a \in Addr}, domainID : Nat,
     readable : BOOLEAN, writable : BOOLEAN, repl : Nat]

LEMMA TypeFacts ==
    ASSUME TagInv
    PROVE  /\ blk \in [Entry -> BlkType]
           /\ \A e \in Entry : ~blk[e].valid => blk[e].repl = 0
           /\ mshr \subseteq [addr : Addr, domainID : Domain, write : BOOLEAN,
                              mayNotFill : BOOLEAN]
           /\ tick \in 1..scenario.MaxTick
           /\ scenario \in Scenarios /\ used \in [Addr \X Domain -> Nat]
           /\ failed = {}
  BY ZenonT(60) DEF TagInv, TypeOK, BlkType

LEMMA TypeNext ==
    ASSUME scenario' = scenario, blk' \in [Entry -> BlkType],
           \A e \in Entry : ~blk'[e].valid => blk'[e].repl = 0,
           mshr' \subseteq [addr : Addr, domainID : Domain, write : BOOLEAN,
                            mayNotFill : BOOLEAN],
           tick' \in 1..scenario.MaxTick
    PROVE  TypeOK'
<1>1. {extractTag(a) : a \in Addr}' = {extractTag(a) : a \in Addr}
  BY SameIndexing, ZenonT(60)
<1>2. {extractIndex(a) : a \in Addr}' = {extractIndex(a) : a \in Addr}
  BY SameIndexing, ZenonT(60)
<1> QED
  BY <1>1, <1>2, SameIndexing, ZenonT(60) DEF TypeOK, BlkType

\* What a step that keeps every block must respect: the rights and the
\* replacement data of the blocks, and their misses.
LEMMA KeepStep ==
    ASSUME TagInv, scenario' = scenario, blk' \in [Entry -> BlkType],
           \A f \in Entry : SameBlock(f),
           mshr' \subseteq [addr : Addr, domainID : Domain, write : BOOLEAN,
                            mayNotFill : BOOLEAN],
           \A m, n \in mshr' : m.addr = n.addr /\ m.domainID = n.domainID => m = n,
           tick' \in 1..scenario.MaxTick, used' \in [Addr \X Domain -> Nat],
           failed' = {},
           \A f \in Entry : blk[f].valid =>
              /\ \A m \in mshr' : MissOn(m, f) => m.write /\ ~blk'[f].writable
              /\ blk'[f].readable \/ \E m \in mshr' : MissOn(m, f)
              /\ blk'[f].repl > 0
              /\ LRU => blk'[f].repl = used'[owner(f)],
           \A f \in Entry : ~blk[f].valid => blk'[f].repl = 0
    PROVE  TagInv'
<1>1. TypeOK'
  BY TypeNext, ZenonT(60) DEF SameBlock
<1>2. scenario' \in Scenarios' /\ used' \in [Addr' \X Domain' -> Nat] /\ Entry' = Entry
  BY SameIndexing, ZenonT(60) DEF TagInv
<1>3. \A e, f \in Entry : Distinct(e, f)'
  BY KeptDistinct, ZenonT(60)
<1>4. ASSUME NEW f \in Entry
      PROVE  BlockInv(f)'
  <2> SUFFICES ASSUME blk'[f].valid
               PROVE  BlockInv(f)'
    BY ZenonT(60) DEF BlockInv
  <2>1. SameBlock(f) /\ blk[f].valid /\ owner(f)' = owner(f)
        /\ AtHome(blk[f], f, owner(f)[1], owner(f)[2])'
    BY SameBlockFacts, ZenonT(60) DEF SameBlock
  <2>2. owner(f)' \in Addr' \X Domain'
    BY <2>1, SameIndexing, ZenonT(60) DEF TagInv, BlockInv
  <2>3. LRU' = LRU
    BY SameIndexing, ZenonT(60)
  <2> QED
    BY <2>1, <2>2, <2>3, ZenonT(60) DEF BlockInv, MissOn
<1> QED
  BY <1>1, <1>2, <1>3, <1>4, ZenonT(60) DEF TagInv

MSHRType == [addr : Addr, domainID : Domain, write : BOOLEAN, mayNotFill : BOOLEAN]

\* What Access does to the MSHRs, and what it leaves true of them: an access
\* that hits leaves them alone; one that misses finds its MSHR or allocates one.
AccessMSHR(a, d, write, noFill, hit) ==
    IF hit THEN mshr' = mshr
    ELSE IF findMatch(a, d) = {}
    THEN mshr' = mshr \cup {[addr |-> a, domainID |-> d,
                             write |-> write, mayNotFill |-> noFill]}
    ELSE mshr' = {IF m \in findMatch(a, d)
                  THEN [m EXCEPT !.mayNotFill = @ /\ noFill] ELSE m : m \in mshr}

MSHRsAfter(a, d, write, hit) ==
    /\ mshr' \subseteq MSHRType
    /\ \A m, n \in mshr' : m.addr = n.addr /\ m.domainID = n.domainID => m = n
    /\ \A m \in mshr : \E n \in mshr' : n.addr = m.addr /\ n.domainID = m.domainID
    /\ \A n \in mshr' :
          \/ \E m \in mshr : /\ n.addr = m.addr /\ n.domainID = m.domainID
                             /\ n.write = m.write
          \/ /\ n.addr = a /\ n.domainID = d /\ n.write = write
             /\ ~hit /\ findMatch(a, d) = {}
    /\ ~hit => \E n \in mshr' : n.addr = a /\ n.domainID = d

LEMMA AccessMSHRs ==
    ASSUME TagInv, NEW a \in Addr, NEW d \in Domain, NEW write \in BOOLEAN,
           NEW noFill \in BOOLEAN, NEW hit \in BOOLEAN,
           AccessMSHR(a, d, write, noFill, hit)
    PROVE  MSHRsAfter(a, d, write, hit)
<1> USE DEF AccessMSHR, MSHRsAfter
<1>1. /\ mshr \subseteq MSHRType
      /\ \A m, n \in mshr : m.addr = n.addr /\ m.domainID = n.domainID => m = n
  BY ZenonT(60) DEF TagInv, TypeOK, MSHRType
<1>2. CASE hit
  BY <1>1, <1>2, ZenonT(60)
<1>3. CASE ~hit /\ findMatch(a, d) = {}
  <2> DEFINE n == [addr |-> a, domainID |-> d, write |-> write, mayNotFill |-> noFill]
  <2>1. mshr' = mshr \cup {n}
    BY <1>3
  <2>2. n \in MSHRType /\ n.addr = a /\ n.domainID = d /\ n.write = write
    BY DEF MSHRType
  <2>3. \A m \in mshr : ~(m.addr = a /\ m.domainID = d)
    BY <1>3 DEF findMatch
  <2> HIDE DEF n
  <2> QED
    BY <1>1, <1>3, <2>1, <2>2, <2>3
<1>4. CASE ~hit /\ findMatch(a, d) # {}
  <2> DEFINE t(m) == IF m \in findMatch(a, d)
                     THEN [m EXCEPT !.mayNotFill = @ /\ noFill] ELSE m
  <2>1. mshr' = {t(m) : m \in mshr}
    BY <1>4
  <2>2. ASSUME NEW m \in mshr
        PROVE  /\ t(m) \in MSHRType /\ t(m).addr = m.addr /\ t(m).domainID = m.domainID
               /\ t(m).write = m.write
    BY <1>1 DEF MSHRType
  <2>3. \E m \in mshr : m.addr = a /\ m.domainID = d
    BY <1>4 DEF findMatch
  <2> HIDE DEF t
  <2> QED
    BY <1>1, <1>4, <2>1, <2>2, <2>3
<1> QED
  BY <1>2, <1>3, <1>4, ZenonT(60)

\* A load or a store changes rights, replacement data and MSHRs, but no block.
LEMMA AccessStep ==
    ASSUME TagInv, NEW a \in Addr, NEW d \in Domain, NEW write \in BOOLEAN,
           NEW noFill \in BOOLEAN, Access(a, d, write, noFill)
    PROVE  TagInv' /\ \A f \in Entry : SameBlock(f)
<1> DEFINE e == findBlock(a, d)
           b == accessBlock(e, noFill)
           hit == e # None /\ b.readable /\ (write => b.writable)
<1>1. /\ blk \in [Entry -> BlkType] /\ tick \in 1..scenario.MaxTick
      /\ scenario \in Scenarios /\ used \in [Addr \X Domain -> Nat] /\ failed = {}
      /\ \A f \in Entry : BlockInv(f)
      /\ \A f \in Entry : ~blk[f].valid => blk[f].repl = 0
      /\ \A f, g \in Entry : Distinct(f, g)
  BY TypeFacts, ZenonT(60) DEF TagInv
<1>2. scenario' = scenario /\ tick' \in 1..scenario.MaxTick /\ tick' \in Nat /\ tick' > 0
  BY TickFacts, ZenonT(60) DEF Access
<1>3. \/ /\ e = None
         /\ \A f \in Entry : blk[f].valid => owner(f) # <<a, d>>
      \/ /\ e \in Entry /\ e # None
         /\ blk[e].valid /\ owner(e) = <<a, d>>
  BY Lookup, ZenonT(60)
<1>4. MSHRsAfter(a, d, write, hit)
  <2>1. hit \in BOOLEAN
    OBVIOUS
  <2>2. AccessMSHR(a, d, write, noFill, hit)
    BY ZenonT(60) DEF Access, AccessMSHR
  <2> HIDE DEF hit
  <2> QED
    BY <2>1, <2>2, AccessMSHRs
<1>5. CASE e = None
  <2>1. blk' = blk /\ used' = used
    BY <1>5, ZenonT(60) DEF Access
  <2>2. failed' = {}
    BY <1>1, <1>5, ZenonT(60) DEF Access, Failing
  <2>3. \A f \in Entry : SameBlock(f)
    BY <2>1 DEF SameBlock
  <2>4. ASSUME NEW f \in Entry, blk[f].valid
        PROVE  /\ \A m \in mshr' : MissOn(m, f) => m.write /\ ~blk'[f].writable
               /\ blk'[f].readable \/ \E m \in mshr' : MissOn(m, f)
               /\ blk'[f].repl > 0
               /\ LRU => blk'[f].repl = used'[owner(f)]
    <3>1. owner(f) # <<a, d>>
      BY <1>3, <1>5, <2>4, ZenonT(60)
    <3> QED
      BY <1>1, <1>4, <2>1, <2>4, <3>1 DEF BlockInv, MissOn, MSHRsAfter
  <2> HIDE DEF e, hit, b
  <2>5. TagInv'
    BY <1>1, <1>2, <1>4, <2>1, <2>2, <2>3, <2>4, KeepStep, ZenonT(60) DEF MSHRsAfter,
       MSHRType
  <2> QED
    BY <2>3, <2>5
<1>6. CASE e # None
  <2>1. e \in Entry /\ blk[e].valid /\ owner(e) = <<a, d>>
    BY <1>3, <1>6, ZenonT(60)
  <2>2. /\ b \in BlkType /\ b.valid = blk[e].valid /\ b.tag = blk[e].tag /\ b.index = blk[e].index
        /\ b.domainID = blk[e].domainID /\ b.readable = blk[e].readable
        /\ b.writable = blk[e].writable
        /\ b.repl = IF LRU /\ ~noFill THEN tick' ELSE blk[e].repl
    <3>1. blk[e] \in BlkType
      BY <1>1, <2>1, ZenonT(60)
    <3> QED
      BY <1>2, <2>1, <3>1, ZenonT(60) DEF accessBlock, touch, BlkType
  <2> DEFINE c == [b EXCEPT !.readable = @ /\ (write => b.writable)]
  <2>3. blk' = [blk EXCEPT ![e] = c]
    BY <1>6, ZenonT(60) DEF Access
  <2>4. used' = IF noFill THEN used ELSE [used EXCEPT ![<<a, d>>] = tick']
    BY <1>6, ZenonT(60) DEF Access, use
  <2>5. failed' = Failing("miss on a valid block is a store that may not write",
                      e # None /\ ~hit /\ findMatch(a, d) = {} /\ ~(write /\ ~b.writable))
    BY <1>1, ZenonT(60) DEF Access
  <2> HIDE DEF b
  <2>6. /\ c \in BlkType /\ c.valid = b.valid /\ c.tag = b.tag /\ c.index = b.index
        /\ c.domainID = b.domainID /\ c.writable = b.writable /\ c.repl = b.repl
        /\ c.readable <=> b.readable /\ (write => b.writable)
    BY <2>2, ZenonT(60) DEF BlkType
  <2> HIDE DEF c, e
  <2>7. blk' \in [Entry -> BlkType] /\ blk'[e] = c
        /\ \A f \in Entry \ {e} : blk'[f] = blk[f]
    BY <1>1, <2>1, <2>3, <2>6, ZenonT(60)
  <2>8. \A f \in Entry : SameBlock(f)
    BY <2>1, <2>2, <2>6, <2>7, ZenonT(60) DEF SameBlock
  <2>9. used' \in [Addr \X Domain -> Nat]
    BY <1>1, <1>2, <2>4, ZenonT(60)
\* with no miss outstanding the block is readable
  <2>10. findMatch(a, d) = {} => blk[e].readable
    BY <1>1, <2>1 DEF BlockInv, findMatch
  <2>11. failed' = {}
    BY <2>2, <2>5, <2>10, ZenonT(60) DEF Failing
  <2>12. ASSUME NEW f \in Entry, blk[f].valid
         PROVE  /\ \A m \in mshr' : MissOn(m, f) => m.write /\ ~blk'[f].writable
                /\ blk'[f].readable \/ \E m \in mshr' : MissOn(m, f)
                /\ blk'[f].repl > 0
                /\ LRU => blk'[f].repl = used'[owner(f)]
    <3>1. CASE f # e
      <4>1. owner(f) # <<a, d>> /\ owner(f) \in Addr \X Domain
        BY <1>1, <2>1, <2>12, <3>1 DEF Distinct, BlockInv
      <4>2. blk'[f] = blk[f] /\ used'[owner(f)] = used[owner(f)]
        BY <1>1, <2>4, <2>7, <3>1, <4>1, ZenonT(60)
      <4>3. BlockInv(f)
        BY <1>1, ZenonT(60)
      <4> QED
        BY <1>4, <2>12, <4>1, <4>2, <4>3 DEF BlockInv, MissOn, MSHRsAfter
    <3>2. CASE f = e
      <4>1. BlockInv(e) /\ <<a, d>> \in Addr \X Domain
        BY <1>1, <2>1, ZenonT(60)
      <4>2. blk'[e] = c
        BY <2>7
      <4>3. c.repl > 0 /\ (LRU => c.repl = used'[<<a, d>>])
        BY <1>1, <1>2, <2>1, <2>2, <2>4, <2>6, <4>1 DEF BlockInv, BlkType
      <4>4. c.readable \/ \E m \in mshr' : MissOn(m, e)
        BY <1>4, <2>1, <2>2, <2>6, ZenonT(60) DEF MissOn, MSHRsAfter
      <4>5. ASSUME NEW m \in mshr', MissOn(m, e)
            PROVE  m.write /\ ~c.writable
        <5>1. CASE \E n \in mshr : /\ m.addr = n.addr /\ m.domainID = n.domainID
                                   /\ m.write = n.write
          BY <5>1, <2>1, <2>2, <2>6, <4>1, <4>5, ZenonT(60) DEF BlockInv, MissOn
        <5>2. CASE m.write = write /\ ~hit /\ findMatch(a, d) = {}
          BY <5>2, <2>2, <2>6, <2>10, <1>6, ZenonT(60)
        <5> QED
          BY <1>4, <5>1, <5>2, ZenonT(60) DEF MSHRsAfter
      <4> QED
        BY <2>1, <3>2, <4>2, <4>3, <4>4, <4>5, ZenonT(60)
    <3> QED
      BY <3>1, <3>2, ZenonT(60)
  <2>13. \A f \in Entry : ~blk[f].valid => blk'[f].repl = 0
    BY <1>1, <2>1, <2>7, ZenonT(60)
  <2> HIDE DEF hit
  <2>14. TagInv'
    BY <1>1, <1>2, <1>4, <2>7, <2>8, <2>9, <2>11, <2>12, <2>13, KeepStep, ZenonT(60)
       DEF MSHRsAfter, MSHRType
  <2> QED
    BY <2>8, <2>14
<1> QED
  BY <1>5, <1>6

\* What ReplacesOldestUnpinned says of the entry e.
ReplacedOldest(e) ==
    /\ blk[e].valid /\ blk'[e].valid
    /\ <<blk[e].tag, blk[e].index, blk[e].domainID>> #
          <<blk'[e].tag, blk'[e].index, blk'[e].domainID>>
    => /\ missesOf(e) = {}
       /\ ~NewRand => \A f \in getPossibleEntries(owner(e)[1]) :
             /\ blk[f].valid
             /\ LRU => used[owner(e)] <= used[owner(f)]

LEMMA SameNotReplaced ==
    ASSUME NEW e, SameBlock(e) \/ ~blk'[e].valid
    PROVE  ReplacedOldest(e)
  BY ZenonT(60) DEF SameBlock, ReplacedOldest

\* The misses on the block of an entry.
LEMMA MissesOfFacts ==
    ASSUME NEW e, NEW m
    PROVE  m \in missesOf(e) <=> m \in mshr /\ MissOn(m, e)
  BY DEF missesOf, findMatch, MissOn, owner

\* The asserts on the victim hold when the block is not in the tags.
LEMMA NoVictimFails ==
    ASSUME TagInv, NEW a \in Addr, NEW d \in Domain, NEW v \in findVictim(a),
           \A f \in Entry : blk[f].valid => owner(f) # <<a, d>>
    PROVE  findVictimFails(a) = {} /\ handleEvictionsFails(v) = {}
<1>1. v \in Entry /\ scenario \in Scenarios
      /\ \A e \in Entry : BlockInv(e) /\ \A f \in Entry : Distinct(e, f)
  BY VictimFacts, ZenonT(60) DEF TagInv
<1>2. handleEvictionsFails(v) = {}
  <2>1. ~(blk[v].valid /\ \E m \in missesOf(v) : blk[v].writable \/ ~m.write)
    BY <1>1, MissesOfFacts DEF BlockInv, MissOn
  <2> QED
    BY <2>1, ZenonT(60) DEF handleEvictionsFails, Failing
<1>3. ~(NewRand /\ Cardinality(matchIndex(a)) > 1)
  <2> SUFFICES ASSUME NewRand PROVE ~(Cardinality(matchIndex(a)) > 1)
    OBVIOUS
  <2>1. CASE matchIndex(a) = {}
    BY <2>1, FS_EmptySet
  <2>2. CASE matchIndex(a) # {}
    <3>1. PICK x : x \in matchIndex(a)
      BY <2>2
    <3>2. \A y \in matchIndex(a) : y = x
      BY <1>1, <3>1, ZenonT(60) DEF matchIndex, Distinct
    <3>3. matchIndex(a) = {x}
      BY <3>1, <3>2
    <3>4. Cardinality({x}) = 1
      BY FS_Singleton, ZenonT(60)
    <3> QED
      BY <3>3, <3>4
  <2> QED
    BY <2>1, <2>2
<1>4. ~(NewRand /\ \E e \in matchIndex(a) : blk[e].tag = extractTag(a))
  <2> SUFFICES ASSUME NewRand, NEW e \in matchIndex(a), blk[e].tag = extractTag(a)
               PROVE  FALSE
    OBVIOUS
  <2>1. e \in Entry /\ blk[e].valid /\ blk[e].index = extractIndex(a)
    BY ZenonT(60) DEF matchIndex
  <2>2. e \in getPossibleEntries(a)
    BY <2>1, ZenonT(60) DEF getPossibleEntries
  <2>3. regenerateBlkAddr(blk[e], e) = a
    BY <1>1, <2>1, <2>2, RegenerateAtHome, ZenonT(60)
  <2>4. blk[e].domainID \in Domain
    BY <1>1, <2>1, ZenonT(60) DEF BlockInv, owner
  <2>5. blk[e].domainID = d
    BY <1>1, <2>4, TagAssumption, ZenonT(60) DEF NewRand, Domain
  <2> QED
    BY <2>1, <2>3, <2>5, ZenonT(60) DEF owner
<1> QED
  BY <1>2, <1>3, <1>4, ZenonT(60) DEF findVictimFails, Failing

\* A block that is not in the tags gets a place, and no miss on it is left.
LEMMA AllocateStep ==
    ASSUME TagInv, NEW a \in Addr, NEW d \in Domain, NEW hasSharers \in BOOLEAN,
           NEW filling \in BOOLEAN, allocateBlock(a, d, hasSharers, filling),
           scenario' = scenario, Tick, findBlock(a, d) = None,
           mshr' \subseteq mshr,
           \A m \in mshr : m \in mshr' \/ <<m.addr, m.domainID>> = <<a, d>>,
           \A m \in mshr' : <<m.addr, m.domainID>> # <<a, d>>
    PROVE  TagInv' /\ \A e \in Entry : ReplacedOldest(e)
<1>1. /\ blk \in [Entry -> BlkType] /\ used \in [Addr \X Domain -> Nat] /\ failed = {}
      /\ \A f \in Entry : BlockInv(f)
      /\ \A f \in Entry : ~blk[f].valid => blk[f].repl = 0
      /\ \A f, g \in Entry : Distinct(f, g)
      /\ mshr' \subseteq MSHRType
      /\ \A m, n \in mshr' : m.addr = n.addr /\ m.domainID = n.domainID => m = n
      /\ scenario \in Scenarios
  BY TypeFacts, ZenonT(60) DEF TagInv, MSHRType
<1>2. tick' \in 1..scenario.MaxTick /\ tick' \in Nat /\ tick' > 0
  BY TickFacts
<1>3. \A f \in Entry : blk[f].valid => owner(f) # <<a, d>>
  BY Lookup, ZenonT(60)
<1> DEFINE b == [insertBlock(a, d) EXCEPT !.writable = ~hasSharers]
<1>4. PICK v \in findVictim(a) :
         /\ failed' = failed \cup findVictimFails(a) \cup handleEvictionsFails(v)
               \cup IF filling /\ handleEvictions(v) THEN handleFillFails(a, d, b, v) ELSE {}
         /\ IF handleEvictions(v)
            THEN blk' = [blk EXCEPT ![v] = b] /\ used' = use(a, d, forget(v))
            ELSE UNCHANGED <<blk, used>>
  BY ZenonT(60) DEF allocateBlock
<1>5. v \in Entry /\ v \in getPossibleEntries(a)
  BY VictimFacts, ZenonT(60)
<1>6. /\ b \in BlkType /\ b.valid = TRUE /\ b.tag = extractTag(a)
      /\ b.index = extractIndex(a) /\ b.domainID = d /\ b.readable = TRUE
      /\ b.repl = IF LRU THEN tick' ELSE 1
  <2>1. d \in Nat
    BY <1>1, ScenarioFacts, ZenonT(60)
  <2> QED
    BY <1>2, <2>1, ZenonT(60) DEF insertBlock, reset, BlkType
<1>7. handleFillFails(a, d, b, v) = {}
  <2>1. regenerateBlkAddr(b, v) = a
    BY <1>1, <1>5, <1>6, RegenerateAtHome, ZenonT(60)
  <2> QED
    BY <1>6, <2>1, ZenonT(60) DEF handleFillFails, Failing
<1> HIDE DEF b
<1>8. failed' = {}
  BY <1>1, <1>3, <1>4, <1>7, NoVictimFails, ZenonT(60)
<1>9. CASE ~handleEvictions(v)
  <2>1. blk' = blk /\ used' = used
    BY <1>4, <1>9, ZenonT(60)
  <2>2. \A f \in Entry : SameBlock(f)
    BY <2>1 DEF SameBlock
  <2>3. ASSUME NEW f \in Entry, blk[f].valid
        PROVE  /\ \A m \in mshr' : MissOn(m, f) => m.write /\ ~blk'[f].writable
               /\ blk'[f].readable \/ \E m \in mshr' : MissOn(m, f)
               /\ blk'[f].repl > 0
               /\ LRU => blk'[f].repl = used'[owner(f)]
    BY <1>1, <1>3, <2>1, <2>3, ZenonT(60) DEF BlockInv, MissOn
  <2>4. TagInv'
    BY <1>1, <1>2, <1>8, <2>1, <2>2, <2>3, KeepStep, ZenonT(60) DEF MSHRType
  <2> QED
    BY <2>2, <2>4, SameNotReplaced, ZenonT(60)
<1>10. CASE handleEvictions(v)
  <2>1. blk' = [blk EXCEPT ![v] = b] /\ used' = use(a, d, forget(v))
    BY <1>4, <1>10, ZenonT(60)
  <2>2. /\ blk'[v] = b /\ owner(v)' = <<a, d>>
        /\ AtHome(blk[v], v, owner(v)[1], owner(v)[2])'
        /\ \A f \in Entry \ {v} : blk'[f] = blk[f] /\ SameBlock(f)
        /\ \A e, f \in Entry : Distinct(e, f)'
    <3>1. blk'[v] = b /\ \A f \in Entry \ {v} : blk'[f] = blk[f]
      BY <1>1, <1>5, <2>1, ZenonT(60)
    <3>2. /\ blk'[v].tag = extractTag(a) /\ blk'[v].index = extractIndex(a)
          /\ blk'[v].domainID = d
      BY <1>6, <3>1, ZenonT(60)
    <3>3. /\ owner(v)' = <<a, d>>
          /\ AtHome(blk[v], v, owner(v)[1], owner(v)[2])'
          /\ \A e, f \in Entry : Distinct(e, f)'
      BY <1>3, <1>5, <3>1, <3>2, FilledBlocks, ZenonT(60)
    <3> QED
      BY <3>1, <3>3, ZenonT(60) DEF SameBlock
  <2>3. blk' \in [Entry -> BlkType]
    BY <1>1, <1>5, <1>6, <2>1, ZenonT(60)
  <2>4. TypeOK'
    <3>1. \A f \in Entry : ~blk'[f].valid => blk'[f].repl = 0
      BY <1>1, <1>6, <2>2, ZenonT(60)
    <3> QED
      BY <1>1, <1>2, <2>3, <3>1, TypeNext, ZenonT(60) DEF MSHRType
  <2>5. /\ used' \in [Addr \X Domain -> Nat] /\ used'[<<a, d>>] = tick'
        /\ \A f \in Entry \ {v} : blk[f].valid => used'[owner(f)] = used[owner(f)]
    <3>1. <<a, d>> \in Addr \X Domain
      OBVIOUS
    <3>2. /\ forget(v) \in [Addr \X Domain -> Nat]
          /\ \A f \in Entry \ {v} : blk[f].valid => forget(v)[owner(f)] = used[owner(f)]
      BY <1>1, <1>5, ZenonT(60) DEF forget, Distinct, BlockInv
    <3>3. used' = [forget(v) EXCEPT ![<<a, d>>] = tick']
      BY <2>1 DEF use
    <3>4. \A f \in Entry : blk[f].valid => owner(f) \in Addr \X Domain
      BY <1>1, ZenonT(60) DEF BlockInv
    <3> QED
      BY <1>2, <1>3, <3>1, <3>2, <3>3, <3>4, ZenonT(60)
  <2>6. ASSUME NEW f \in Entry PROVE BlockInv(f)'
    <3> SUFFICES ASSUME blk'[f].valid PROVE BlockInv(f)'
      BY ZenonT(60) DEF BlockInv
    <3>1. CASE f = v
      <4>1. owner(f)' \in Addr' \X Domain' /\ LRU' = LRU
        BY <2>2, <3>1, SameIndexing
      <4>2. \A m \in mshr' : <<m.addr, m.domainID>> # owner(f)'
        BY <2>2, <3>1, ZenonT(60)
      <4>3. blk'[f].readable /\ blk'[f].repl > 0 /\ (LRU => blk'[f].repl = used'[owner(f)'])
        BY <1>2, <1>6, <2>2, <2>5, <3>1
      <4>4. AtHome(blk[f], f, owner(f)[1], owner(f)[2])'
        BY <2>2, <3>1, ZenonT(60)
      <4> QED
        BY <4>1, <4>2, <4>3, <4>4, ZenonT(60) DEF BlockInv
    <3>2. CASE f # v
      <4>1. blk'[f] = blk[f] /\ SameBlock(f) /\ blk[f].valid
        BY <2>2, <3>2, ZenonT(60)
      <4>2. owner(f)' = owner(f) /\ AtHome(blk[f], f, owner(f)[1], owner(f)[2])'
        BY <4>1, SameBlockFacts, ZenonT(60)
      <4>3. owner(f)' \in Addr' \X Domain' /\ LRU' = LRU
        BY <1>1, <4>1, <4>2, SameIndexing, ZenonT(60) DEF BlockInv
      <4>4. used'[owner(f)] = used[owner(f)] /\ owner(f) # <<a, d>>
        BY <1>3, <2>5, <3>2, <4>1, ZenonT(60)
      <4>5. /\ \A m \in mshr' : MissOn(m, f) => m.write /\ ~blk[f].writable
            /\ blk[f].readable \/ \E m \in mshr' : MissOn(m, f)
            /\ blk[f].repl > 0 /\ (LRU => blk[f].repl = used[owner(f)])
        BY <1>1, <4>1, <4>4, ZenonT(60) DEF BlockInv, MissOn
      <4> QED
        BY <4>1, <4>2, <4>3, <4>4, <4>5, ZenonT(60) DEF BlockInv, MissOn
    <3> QED
      BY <3>1, <3>2
  <2>7. TagInv'
    BY <1>1, <1>8, <2>2, <2>4, <2>5, <2>6, SameIndexing, ZenonT(60) DEF TagInv
  <2>8. ASSUME NEW e \in Entry PROVE ReplacedOldest(e)
    <3>1. CASE e # v
      BY <2>2, <3>1, SameNotReplaced, ZenonT(60)
    <3>2. CASE e = v /\ blk[v].valid
      <4>1. missesOf(v) = {}
        BY <1>10, <3>2 DEF handleEvictions
      <4>2. BlockInv(v) /\ AtHome(blk[v], v, owner(v)[1], owner(v)[2])
        BY <1>1, <1>5, <3>2, ZenonT(60) DEF BlockInv
      <4>3. ~NewRand => getPossibleEntries(owner(v)[1]) = getPossibleEntries(a)
        BY <1>5, <4>2, ZenonT(60) DEF AtHome, getPossibleEntries
      <4>4. ~NewRand => \A f \in getPossibleEntries(a) :
                           /\ blk[f].valid /\ (LRU => blk[v].repl <= blk[f].repl)
        BY <3>2, VictimFacts, ZenonT(60)
      <4>5. \A f \in getPossibleEntries(a) : f \in Entry
        BY ZenonT(60) DEF getPossibleEntries
      <4>6. ~NewRand => \A f \in getPossibleEntries(a) :
                           /\ blk[f].valid /\ (LRU => used[owner(v)] <= used[owner(f)])
        BY <1>1, <1>5, <3>2, <4>4, <4>5, ZenonT(60) DEF BlockInv
      <4> QED
        BY <3>2, <4>1, <4>3, <4>6, ZenonT(60) DEF ReplacedOldest
    <3>3. CASE e = v /\ ~blk[v].valid
      BY <3>3, ZenonT(60) DEF ReplacedOldest
    <3> QED
      BY <3>1, <3>2, <3>3, ZenonT(60)
  <2> QED
    BY <2>7, <2>8
<1> QED
  BY <1>9, <1>10

\* The response gives a present block its rights, or a place to a new one.
LEMMA RecvTimingRespStep ==
    ASSUME TagInv, NEW m \in mshr, NEW hasSharers \in BOOLEAN,
           NEW noFillLower \in BOOLEAN, RecvTimingResp(m, hasSharers, noFillLower)
    PROVE  TagInv' /\ \A e \in Entry : ReplacedOldest(e)
<1> DEFINE a == m.addr
           d == m.domainID
           e == findBlock(a, d)
<1>1. /\ blk \in [Entry -> BlkType] /\ used \in [Addr \X Domain -> Nat] /\ failed = {}
      /\ \A f \in Entry : BlockInv(f)
      /\ \A f \in Entry : ~blk[f].valid => blk[f].repl = 0
      /\ \A f, g \in Entry : Distinct(f, g)
      /\ mshr \subseteq MSHRType
      /\ \A x, n \in mshr : x.addr = n.addr /\ x.domainID = n.domainID => x = n
      /\ scenario \in Scenarios
  BY TypeFacts, ZenonT(60) DEF TagInv, MSHRType
<1>2. /\ scenario' = scenario /\ Tick /\ (m.write => ~hasSharers)
      /\ mshr' = mshr \ {m}
  BY ZenonT(60) DEF RecvTimingResp
<1>3. tick' \in 1..scenario.MaxTick
  BY <1>2, TickFacts
<1>4. a \in Addr /\ d \in Domain
  BY <1>1, ZenonT(60) DEF MSHRType
<1>5. /\ mshr' \subseteq MSHRType
      /\ \A x, n \in mshr' : x.addr = n.addr /\ x.domainID = n.domainID => x = n
      /\ \A x \in mshr : x \in mshr' \/ <<x.addr, x.domainID>> = <<a, d>>
      /\ \A x \in mshr' : <<x.addr, x.domainID>> # <<a, d>>
      /\ mshr' \subseteq mshr
  BY <1>1, <1>2, ZenonT(60)
<1>6. \/ /\ e = None
         /\ \A f \in Entry : blk[f].valid => owner(f) # <<a, d>>
      \/ /\ e \in Entry /\ e # None
         /\ blk[e].valid /\ owner(e) = <<a, d>>
  BY <1>4, Lookup, ZenonT(60)
<1>7. CASE e # None
  <2>1. e \in Entry /\ blk[e].valid /\ owner(e) = <<a, d>> /\ blk[e] \in BlkType
    BY <1>1, <1>6, <1>7, ZenonT(60)
  <2>2. /\ blk' = [blk EXCEPT ![e].readable = TRUE, ![e].writable = @ \/ ~hasSharers]
        /\ failed' = handleFillFails(a, d, blk[e], e)
        /\ used' = used
    BY <1>1, <1>7, ZenonT(60) DEF RecvTimingResp
  <2>3. failed' = {}
    BY <2>1, <2>2, ZenonT(60) DEF handleFillFails, Failing, owner
  <2> HIDE DEF e, a, d
  <2>4. /\ blk' \in [Entry -> BlkType] /\ blk'[e].valid = blk[e].valid
        /\ blk'[e].tag = blk[e].tag /\ blk'[e].index = blk[e].index
        /\ blk'[e].domainID = blk[e].domainID /\ blk'[e].readable = TRUE
        /\ blk'[e].repl = blk[e].repl
        /\ \A f \in Entry \ {e} : blk'[f] = blk[f]
    BY <1>1, <2>1, <2>2, ZenonT(60) DEF BlkType
  <2>5. \A f \in Entry : SameBlock(f)
    BY <2>1, <2>4, ZenonT(60) DEF SameBlock
  <2>6. ASSUME NEW f \in Entry, blk[f].valid
        PROVE  /\ \A x \in mshr' : MissOn(x, f) => x.write /\ ~blk'[f].writable
               /\ blk'[f].readable \/ \E x \in mshr' : MissOn(x, f)
               /\ blk'[f].repl > 0
               /\ LRU => blk'[f].repl = used'[owner(f)]
    <3>1. BlockInv(f)
      BY <1>1, ZenonT(60)
    <3>2. CASE f = e
      BY <1>5, <2>1, <2>2, <2>4, <2>6, <3>1, <3>2, ZenonT(60) DEF BlockInv, MissOn
    <3>3. CASE f # e
      <4>1. owner(f) # <<a, d>> /\ blk'[f] = blk[f]
        BY <1>1, <2>1, <2>4, <2>6, <3>3 DEF Distinct
      <4> QED
        BY <1>5, <2>2, <2>6, <3>1, <4>1, ZenonT(60) DEF BlockInv, MissOn
    <3> QED
      BY <3>2, <3>3, ZenonT(60)
  <2>7. \A f \in Entry : ~blk[f].valid => blk'[f].repl = 0
    BY <1>1, <2>1, <2>4, ZenonT(60)
  <2>8. TagInv'
    BY <1>1, <1>2, <1>3, <1>5, <2>2, <2>3, <2>4, <2>5, <2>6, <2>7, KeepStep,
       ZenonT(60) DEF MSHRType
  <2> QED
    BY <2>5, <2>8, SameNotReplaced
<1>8. CASE e = None /\ (m.mayNotFill \/ noFillLower)
  <2>1. blk' = blk /\ used' = used /\ failed' = failed
    BY <1>8, ZenonT(60) DEF RecvTimingResp
  <2>2. \A f \in Entry : SameBlock(f)
    BY <2>1 DEF SameBlock
  <2>3. ASSUME NEW f \in Entry, blk[f].valid
        PROVE  /\ \A x \in mshr' : MissOn(x, f) => x.write /\ ~blk'[f].writable
               /\ blk'[f].readable \/ \E x \in mshr' : MissOn(x, f)
               /\ blk'[f].repl > 0
               /\ LRU => blk'[f].repl = used'[owner(f)]
    <3>1. owner(f) # <<a, d>> /\ BlockInv(f)
      BY <1>1, <1>6, <1>8, <2>3, ZenonT(60)
    <3> HIDE DEF a, d
    <3> QED
      BY <1>5, <2>1, <2>3, <3>1, ZenonT(60) DEF BlockInv, MissOn
  <2> HIDE DEF e, a, d
  <2>4. TagInv'
    BY <1>1, <1>2, <1>3, <1>5, <2>1, <2>2, <2>3, KeepStep, ZenonT(60) DEF MSHRType
  <2> QED
    BY <2>2, <2>4, SameNotReplaced
<1>9. CASE e = None /\ ~(m.mayNotFill \/ noFillLower)
  <2>1. allocateBlock(a, d, hasSharers, TRUE)
    BY <1>9, ZenonT(60) DEF RecvTimingResp
  <2>2. findBlock(a, d) = None
    BY <1>9
  <2> HIDE DEF e, a, d
  <2>3. PICK fill \in BOOLEAN : fill = TRUE
    BY ZenonT(60)
  <2>4. allocateBlock(a, d, hasSharers, fill)
    BY <2>1, <2>3, ZenonT(60)
  <2> QED
    BY <1>2, <1>4, <1>5, <2>2, <2>4, AllocateStep
<1> QED
  BY <1>7, <1>8, <1>9

\* A writeback from above is written into the block, gets a place, or is dropped.
LEMMA WritebackStep ==
    ASSUME TagInv, NEW a \in Addr, NEW d \in Domain, NEW hasSharers \in BOOLEAN,
           NEW noFill \in BOOLEAN, Writeback(a, d, hasSharers, noFill)
    PROVE  TagInv' /\ \A e \in Entry : ReplacedOldest(e)
<1> DEFINE e == findBlock(a, d)
           dropped == findMatch(a, d) # {}
<1>1. /\ blk \in [Entry -> BlkType] /\ used \in [Addr \X Domain -> Nat] /\ failed = {}
      /\ \A f \in Entry : BlockInv(f)
      /\ \A f \in Entry : ~blk[f].valid => blk[f].repl = 0
      /\ \A f, g \in Entry : Distinct(f, g)
      /\ mshr \subseteq MSHRType
      /\ \A x, n \in mshr : x.addr = n.addr /\ x.domainID = n.domainID => x = n
      /\ scenario \in Scenarios
  BY TypeFacts, ZenonT(60) DEF TagInv, MSHRType
<1>2. /\ scenario' = scenario /\ Tick /\ mshr' = mshr
  BY ZenonT(60) DEF Writeback
<1>3. tick' \in 1..scenario.MaxTick /\ tick' \in Nat /\ tick' > 0
  BY <1>2, TickFacts
<1>4. \/ /\ e = None
         /\ \A f \in Entry : blk[f].valid => owner(f) # <<a, d>>
      \/ /\ e \in Entry /\ e # None
         /\ blk[e].valid /\ owner(e) = <<a, d>>
  BY Lookup, ZenonT(60)
<1>5. CASE e # None
  <2>1. e \in Entry /\ blk[e].valid /\ owner(e) = <<a, d>> /\ blk[e] \in BlkType
    BY <1>1, <1>4, <1>5, ZenonT(60)
  <2> DEFINE b == [accessBlock(e, noFill) EXCEPT !.writable = @ \/ ~(hasSharers \/ dropped)]
  <2>2. /\ blk' = [blk EXCEPT ![e] = b] /\ failed' = {}
        /\ used' = IF noFill THEN used ELSE [used EXCEPT ![<<a, d>>] = tick']
    BY <1>1, <1>5, ZenonT(60) DEF Writeback, use
  <2>3. /\ b \in BlkType /\ b.valid = blk[e].valid
        /\ b.tag = blk[e].tag /\ b.index = blk[e].index
        /\ b.domainID = blk[e].domainID /\ b.readable = blk[e].readable
        /\ b.writable => blk[e].writable \/ ~dropped
        /\ b.repl = IF LRU /\ ~noFill THEN tick' ELSE blk[e].repl
    BY <1>3, <2>1, ZenonT(60) DEF BlkType, accessBlock, touch
  <2> HIDE DEF e, b
  <2>4. /\ blk' \in [Entry -> BlkType] /\ blk'[e] = b
        /\ \A f \in Entry \ {e} : blk'[f] = blk[f]
        /\ used' \in [Addr \X Domain -> Nat]
    BY <1>1, <1>3, <2>1, <2>2, <2>3, ZenonT(60)
  <2>5. \A f \in Entry : SameBlock(f)
    BY <2>1, <2>3, <2>4, ZenonT(60) DEF SameBlock
  <2>6. ASSUME NEW f \in Entry, blk[f].valid
        PROVE  /\ \A x \in mshr' : MissOn(x, f) => x.write /\ ~blk'[f].writable
               /\ blk'[f].readable \/ \E x \in mshr' : MissOn(x, f)
               /\ blk'[f].repl > 0
               /\ LRU => blk'[f].repl = used'[owner(f)]
    <3>1. BlockInv(f) /\ owner(f) \in Addr \X Domain
      BY <1>1, <2>6, ZenonT(60) DEF BlockInv
    <3>2. CASE f = e
      <4>1. ~dropped => \A x \in mshr : ~MissOn(x, e)
        BY <2>1 DEF findMatch, MissOn
      <4>2. b.repl > 0 /\ (LRU => b.repl = used'[<<a, d>>])
        BY <1>1, <1>3, <2>1, <2>2, <2>3, <3>1, <3>2, ZenonT(60) DEF BlockInv
      <4> HIDE DEF dropped
      <4>3. \A x \in mshr : MissOn(x, e) => x.write /\ ~b.writable
        BY <2>1, <2>3, <3>1, <3>2, <4>1, ZenonT(60) DEF BlockInv, MissOn
      <4>4. b.readable \/ \E x \in mshr : MissOn(x, e)
        BY <2>1, <2>3, <3>1, <3>2, ZenonT(60) DEF BlockInv, MissOn
      <4> QED
        BY <1>2, <2>1, <2>4, <3>2, <4>2, <4>3, <4>4, ZenonT(60)
    <3>3. CASE f # e
      <4>1. owner(f) # <<a, d>> /\ blk'[f] = blk[f]
        BY <1>1, <2>1, <2>4, <2>6, <3>3 DEF Distinct
      <4>2. used'[owner(f)] = used[owner(f)]
        BY <1>1, <2>2, <3>1, <4>1, ZenonT(60)
      <4> QED
        BY <1>2, <2>6, <3>1, <4>1, <4>2, ZenonT(60) DEF BlockInv, MissOn
    <3> QED
      BY <3>2, <3>3, ZenonT(60)
  <2>7. \A f \in Entry : ~blk[f].valid => blk'[f].repl = 0
    BY <1>1, <2>1, <2>4, ZenonT(60)
  <2>8. TagInv'
    BY <1>1, <1>2, <1>3, <2>2, <2>4, <2>5, <2>6, <2>7, KeepStep, ZenonT(60) DEF
       MSHRType
  <2> QED
    BY <2>5, <2>8, SameNotReplaced
<1>6. CASE e = None /\ (dropped \/ noFill)
  <2>1. blk' = blk /\ used' = used /\ failed' = failed
    BY <1>6, ZenonT(60) DEF Writeback
  <2>2. \A f \in Entry : SameBlock(f)
    BY <2>1 DEF SameBlock
  <2>3. ASSUME NEW f \in Entry, blk[f].valid
        PROVE  /\ \A x \in mshr' : MissOn(x, f) => x.write /\ ~blk'[f].writable
               /\ blk'[f].readable \/ \E x \in mshr' : MissOn(x, f)
               /\ blk'[f].repl > 0
               /\ LRU => blk'[f].repl = used'[owner(f)]
    BY <1>1, <1>2, <2>1, <2>3, ZenonT(60) DEF BlockInv, MissOn
  <2> HIDE DEF e, dropped
  <2>4. TagInv'
    BY <1>1, <1>2, <1>3, <2>1, <2>2, <2>3, KeepStep, ZenonT(60) DEF MSHRType
  <2> QED
    BY <2>2, <2>4, SameNotReplaced
<1>7. CASE e = None /\ ~(dropped \/ noFill)
  <2>1. allocateBlock(a, d, hasSharers, FALSE)
    BY <1>7, ZenonT(60) DEF Writeback
  <2>2. findBlock(a, d) = None
    BY <1>7
  <2>3. \A x \in mshr' : <<x.addr, x.domainID>> # <<a, d>>
    BY <1>2, <1>7 DEF findMatch
  <2>4. mshr' \subseteq mshr /\ \A x \in mshr : x \in mshr'
    BY <1>2
  <2> HIDE DEF e, dropped
  <2>5. PICK fill \in BOOLEAN : fill = FALSE
    BY ZenonT(60)
  <2>6. allocateBlock(a, d, hasSharers, fill)
    BY <2>1, <2>5, ZenonT(60)
  <2> QED
    BY <1>2, <2>2, <2>3, <2>4, <2>6, AllocateStep
<1> QED
  BY <1>5, <1>6, <1>7

\* A snoop takes a block or its right to write away.
LEMMA HandleSnoopStep ==
    ASSUME TagInv, NEW e \in Entry, NEW inv \in BOOLEAN, HandleSnoop(e, inv)
    PROVE  TagInv' /\ \A f \in Entry : ReplacedOldest(f)
<1>1. /\ blk \in [Entry -> BlkType] /\ used \in [Addr \X Domain -> Nat] /\ failed = {}
      /\ \A f \in Entry : BlockInv(f)
      /\ \A f \in Entry : ~blk[f].valid => blk[f].repl = 0
      /\ \A f, g \in Entry : Distinct(f, g)
      /\ mshr \subseteq MSHRType
      /\ \A x, n \in mshr : x.addr = n.addr /\ x.domainID = n.domainID => x = n
      /\ scenario \in Scenarios /\ tick \in 1..scenario.MaxTick
  BY TypeFacts, ZenonT(60) DEF TagInv, MSHRType
<1>2. /\ scenario' = scenario /\ mshr' = mshr /\ tick' = tick /\ failed' = failed
      /\ blk[e].valid /\ blk[e] \in BlkType
  BY <1>1, ZenonT(60) DEF HandleSnoop
<1>3. CASE ~inv
  <2>1. /\ blk' = [blk EXCEPT ![e] = [@ EXCEPT !.writable = FALSE]] /\ used' = used
    BY <1>3 DEF HandleSnoop
  <2>2. /\ blk' \in [Entry -> BlkType] /\ blk'[e].valid = blk[e].valid
        /\ blk'[e].tag = blk[e].tag /\ blk'[e].index = blk[e].index
        /\ blk'[e].domainID = blk[e].domainID /\ blk'[e].readable = blk[e].readable
        /\ blk'[e].repl = blk[e].repl /\ ~blk'[e].writable
        /\ \A f \in Entry \ {e} : blk'[f] = blk[f]
    BY <1>1, <1>2, <2>1, ZenonT(60) DEF BlkType
  <2>3. \A f \in Entry : SameBlock(f)
    BY <2>2, ZenonT(60) DEF SameBlock
  <2>4. ASSUME NEW f \in Entry, blk[f].valid
        PROVE  /\ \A x \in mshr' : MissOn(x, f) => x.write /\ ~blk'[f].writable
               /\ blk'[f].readable \/ \E x \in mshr' : MissOn(x, f)
               /\ blk'[f].repl > 0
               /\ LRU => blk'[f].repl = used'[owner(f)]
    BY <1>1, <1>2, <2>1, <2>2, <2>4 DEF BlockInv, MissOn
  <2>5. \A f \in Entry : ~blk[f].valid => blk'[f].repl = 0
    BY <1>1, <1>2, <2>2, ZenonT(60)
  <2>6. TagInv'
    BY <1>1, <1>2, <2>1, <2>2, <2>3, <2>4, <2>5, KeepStep, ZenonT(60) DEF MSHRType
  <2> QED
    BY <2>3, <2>6, SameNotReplaced
<1>4. CASE inv
  <2>1. blk' = [blk EXCEPT ![e] = InvalidBlk] /\ used' = [used EXCEPT ![owner(e)] = 0]
    BY <1>2, <1>4 DEF HandleSnoop, invalidate, forget
  <2>2. InvalidBlk \in BlkType /\ InvalidBlk.valid = FALSE /\ InvalidBlk.repl = 0
    BY ZenonT(60) DEF InvalidBlk, BlkType
  <2>3. /\ blk' \in [Entry -> BlkType] /\ ~blk'[e].valid /\ blk'[e].repl = 0
        /\ \A f \in Entry \ {e} : blk'[f] = blk[f] /\ SameBlock(f)
    <3>1. blk' \in [Entry -> BlkType] /\ blk'[e] = InvalidBlk
          /\ \A f \in Entry \ {e} : blk'[f] = blk[f]
      BY <1>1, <2>1, <2>2, ZenonT(60)
    <3> QED
      BY <2>2, <3>1, ZenonT(60) DEF SameBlock
  <2>4. owner(e) \in Addr \X Domain
    BY <1>1, <1>2, ZenonT(60) DEF BlockInv
  <2>5. /\ used' \in [Addr \X Domain -> Nat]
        /\ \A f \in Entry \ {e} : blk[f].valid => used'[owner(f)] = used[owner(f)]
    BY <1>1, <1>2, <2>1, <2>4, ZenonT(60) DEF Distinct, BlockInv
  <2>6. TypeOK'
    <3>1. \A f \in Entry : ~blk'[f].valid => blk'[f].repl = 0
      BY <1>1, <2>3, ZenonT(60)
    <3> QED
      BY <1>1, <1>2, <2>3, <3>1, TypeNext, ZenonT(60) DEF MSHRType
  <2>7. \A f, g \in Entry : Distinct(f, g)'
    BY <1>2, <2>3, KeptDistinct, ZenonT(60)
  <2>8. ASSUME NEW f \in Entry PROVE BlockInv(f)'
    <3> SUFFICES ASSUME blk'[f].valid PROVE BlockInv(f)'
      BY ZenonT(60) DEF BlockInv
    <3>1. f # e /\ blk'[f] = blk[f] /\ SameBlock(f) /\ BlockInv(f)
      BY <1>1, <2>3, ZenonT(60)
    <3>2. owner(f)' = owner(f) /\ AtHome(blk[f], f, owner(f)[1], owner(f)[2])'
      BY <1>2, <3>1, SameBlockFacts, ZenonT(60)
    <3>3. owner(f)' \in Addr' \X Domain' /\ LRU' = LRU
      BY <1>2, <3>1, <3>2, SameIndexing, ZenonT(60) DEF BlockInv
    <3>4. used'[owner(f)] = used[owner(f)]
      BY <2>5, <3>1, ZenonT(60)
    <3> QED
      BY <1>2, <3>1, <3>2, <3>3, <3>4, ZenonT(60) DEF BlockInv
  <2>9. TagInv'
    BY <1>1, <1>2, <2>5, <2>6, <2>7, <2>8, SameIndexing, ZenonT(60) DEF TagInv
  <2> QED
    BY <2>3, <2>9, SameNotReplaced
<1> QED
  BY <1>3, <1>4

LEMMA StutterStep ==
    ASSUME TagInv, UNCHANGED vars
    PROVE  TagInv' /\ \A e \in Entry : ReplacedOldest(e)
<1>1. /\ scenario' = scenario /\ blk' = blk /\ mshr' = mshr /\ tick' = tick
      /\ used' = used /\ failed' = failed
  BY DEF vars
<1>2. \A f \in Entry : SameBlock(f)
  BY <1>1 DEF SameBlock
<1>3. /\ blk \in [Entry -> BlkType] /\ used \in [Addr \X Domain -> Nat] /\ failed = {}
      /\ \A f \in Entry : BlockInv(f)
      /\ \A f \in Entry : ~blk[f].valid => blk[f].repl = 0
      /\ mshr \subseteq MSHRType
      /\ \A x, n \in mshr : x.addr = n.addr /\ x.domainID = n.domainID => x = n
      /\ scenario \in Scenarios /\ tick \in 1..scenario.MaxTick
  BY TypeFacts, ZenonT(60) DEF TagInv, MSHRType
<1>4. TagInv'
  BY <1>1, <1>2, <1>3, KeepStep, ZenonT(60) DEF MSHRType, BlockInv, MissOn
<1> QED
  BY <1>2, <1>4, SameNotReplaced

LEMMA TagStep ==
    ASSUME TagInv, [Next]_vars
    PROVE  TagInv' /\ \A e \in Entry : ReplacedOldest(e)
<1>1. ASSUME NEW a \in Addr, NEW d \in Domain, NEW write \in BOOLEAN,
             NEW noFill \in BOOLEAN, Access(a, d, write, noFill)
      PROVE  TagInv' /\ \A e \in Entry : ReplacedOldest(e)
  BY <1>1, AccessStep, SameNotReplaced
<1>2. ASSUME NEW m \in mshr, NEW hasSharers \in BOOLEAN, NEW noFillLower \in BOOLEAN,
             RecvTimingResp(m, hasSharers, noFillLower)
      PROVE  TagInv' /\ \A e \in Entry : ReplacedOldest(e)
  BY <1>2, RecvTimingRespStep
<1>3. ASSUME NEW a \in Addr, NEW d \in Domain, NEW hasSharers \in BOOLEAN,
             NEW noFill \in BOOLEAN, Writeback(a, d, hasSharers, noFill)
      PROVE  TagInv' /\ \A e \in Entry : ReplacedOldest(e)
  BY <1>3, WritebackStep
<1>4. ASSUME NEW e \in Entry, NEW inv \in BOOLEAN, HandleSnoop(e, inv)
      PROVE  TagInv' /\ \A f \in Entry : ReplacedOldest(f)
  BY <1>4, HandleSnoopStep
<1>5. CASE UNCHANGED vars
  BY <1>5, StutterStep
<1> QED
  BY <1>1, <1>2, <1>3, <1>4, <1>5, ZenonT(60) DEF Next

-----------------------------------------------------------------------------
(* The theorems. *)

\* The inductive invariant of the tags.
THEOREM TagSafe == Spec => []TagInv
<1>1. Init => TagInv
  <2> SUFFICES ASSUME Init PROVE TagInv
    OBVIOUS
  <2>1. /\ scenario \in Scenarios /\ blk = [e \in Entry |-> InvalidBlk]
        /\ mshr = {} /\ tick = 1 /\ used = [k \in Addr \X Domain |-> 0] /\ failed = {}
    BY DEF Init
  <2>2. InvalidBlk \in BlkType /\ InvalidBlk.valid = FALSE /\ InvalidBlk.repl = 0
    BY ZenonT(60) DEF InvalidBlk, BlkType
  <2>3. \A e \in Entry : blk[e] = InvalidBlk
    BY <2>1
  <2>4. TypeOK
    BY <2>1, <2>2, <2>3, ScenarioFacts DEF TypeOK, BlkType
  <2>5. \A e \in Entry : BlockInv(e) /\ \A f \in Entry : Distinct(e, f)
    BY <2>2, <2>3, ZenonT(60) DEF BlockInv, Distinct
  <2> QED
    BY <2>1, <2>4, <2>5 DEF TagInv
<1>2. TagInv /\ [Next]_vars => TagInv'
  BY TagStep
<1> QED
  BY <1>1, <1>2, PTL DEF Spec

\* The state stays in its types.
THEOREM TagTyped == Spec => []TypeOK
  BY TagSafe, PTL DEF TagInv

\* For every geometry, a lookup finds each valid block under its own address and
\* domain, and NewRandTag has at most one block of an index.
THEOREM TagBlocksFound == Spec => []BlocksFound
<1>1. TagInv => BlocksFound
  <2> SUFFICES ASSUME TagInv, NEW e \in Entry, blk[e].valid
               PROVE  /\ findBlock(owner(e)[1], owner(e)[2]) = e
                      /\ NewRand => \A f \in Entry \ {e} :
                                        blk[f].valid => blk[f].index # blk[e].index
    BY ZenonT(60) DEF BlocksFound
  <2>1. \A f \in Entry : Distinct(e, f)
    BY ZenonT(60) DEF TagInv
  <2>2. PICK a \in Addr, d \in Domain : owner(e) = <<a, d>>
    BY DEF TagInv, BlockInv
  <2>3. findBlock(a, d) \in Entry /\ blk[findBlock(a, d)].valid
        /\ owner(findBlock(a, d)) = <<a, d>>
    BY <2>2, Lookup, ZenonT(60)
  <2>4. findBlock(a, d) = e
    BY <2>1, <2>2, <2>3, ZenonT(60) DEF Distinct
  <2> QED
    BY <2>1, <2>2, <2>4 DEF Distinct
<1> QED
  BY <1>1, TagSafe, PTL

\* For every geometry and number of MSHRs none of the asserts on lookups,
\* victims, evictions and fills fires.
THEOREM TagNoAssertFails == Spec => []NoAssertFails
<1>1. TagInv => NoAssertFails
  BY DEF TagInv, NoAssertFails
<1> QED
  BY <1>1, TagSafe, PTL

\* For every geometry a fill evicts a valid block only from a full set, without
\* an upgrade outstanding, and under LRU the one used longest ago by a request
\* that may fill.
THEOREM TagReplaces == Spec => ReplacesOldestUnpinned
<1>1. TagInv /\ [Next]_vars =>
        [\A e \in Entry :
          /\ blk[e].valid /\ blk'[e].valid
          /\ <<blk[e].tag, blk[e].index, blk[e].domainID>> #
                <<blk'[e].tag, blk'[e].index, blk'[e].domainID>>
          => /\ missesOf(e) = {}
             /\ ~NewRand => \A f \in getPossibleEntries(owner(e)[1]) :
                   /\ blk[f].valid
                   /\ LRU => used[owner(e)] <= used[owner(f)]]_vars
  BY TagStep, ZenonT(60) DEF ReplacedOldest
<1> QED
  BY <1>1, TagSafe, PTL DEF Spec, ReplacesOldestUnpinned
=============================================================================

------------------------------ MODULE TagStore ------------------------------
(* The tags of one cache: lookup, replacement and insertion of blocks that     *)
(* belong to domains, for the set-associative tags the RaS configurations use   *)
(* and for NewRandTag, the fully associative tags with a remapped index         *)
(* (src/mem/cache/tags), driven by the calls BaseCache makes (base.cc).         *)
(*                                                                            *)
(* An address is a block number (setShift is 0) and there is one security       *)
(* state.  Data, the dirty bit and the packets an eviction sends are those of    *)
(* RaSHierarchy and SharedBlock; so are targets that an MSHR defers.            *)
EXTENDS Naturals, FiniteSets, FiniteSetsExt

CONSTANTS
    Scenarios  \* the tag stores to check, each a record: the class tags, the
               \* policy repl, numSets, assoc, nbits, the sets Addr and Domain of
               \* what is accessed, the bounds mshrs and MaxTick

VARIABLES
    scenario,  \* the tag store of this behaviour
    blk,       \* entry |-> its CacheBlk with its replacement data
    mshr,      \* the misses outstanding
    tick,      \* curTick()
    used,      \* block and domain |-> when a filling request last used the block
               \* that is in the tags, 0 if none is (history)
    failed     \* the asserts that have fired

vars == <<scenario, blk, mshr, tick, used, failed>>

NewRand == scenario.tags = "NewRandTag"
LRU == scenario.repl = "LRU"
numSets == scenario.numSets
numBlocks == numSets * scenario.assoc
Addr == scenario.Addr
Domain == scenario.Domain
Entry == 0..numBlocks - 1

\* No entry: the null pointer of findBlock.
None == numBlocks

InvalidBlk == [valid |-> FALSE, tag |-> 0, index |-> 0, domainID |-> 0,
               readable |-> FALSE, writable |-> FALSE, repl |-> 0]

Init ==
    /\ scenario \in Scenarios
    /\ blk = [e \in Entry |-> InvalidBlk]
    /\ mshr = {} /\ tick = 1
    /\ used = [k \in Addr \X Domain |-> 0]
    /\ failed = {}

-----------------------------------------------------------------------------
(* Indexing: SetAssociative, and NewRandIdx, whose tag and index bits overlap.  *)

extractSet(a) == a % numSets
setAssocTag(a) == a \div numSets
newRandTag(a) == a \div 2 ^ scenario.nbits
extractTag(a) == IF NewRand THEN newRandTag(a) ELSE setAssocTag(a)
extractIndex(a) == IF NewRand THEN a % (numBlocks * 2 ^ scenario.nbits) ELSE 0

\* x | y for addresses of the model.
AddrBits == 8
bit(x, i) == (x \div 2 ^ i) % 2
bitOr(x, y) ==
    MapThenSumSet(LAMBDA i : IF bit(x, i) + bit(y, i) > 0 THEN 2 ^ i ELSE 0,
                  0..AddrBits - 1)

\* NewRandTag is for caches of one domain.  The number of blocks is a power of
\* two, so the bits of tag and index that overlap agree and cover the address.
ASSUME TagAssumption ==
    \A s \in Scenarios :
        /\ s.numSets \in Nat \ {0} /\ s.assoc \in Nat \ {0}
        /\ s.Addr \subseteq Nat /\ s.Domain \subseteq Nat
        /\ s.mshrs \in Nat /\ s.MaxTick \in Nat \ {0}
        /\ s.tags = "NewRandTag" =>
              /\ \A c, d \in s.Domain : c = d
              /\ \A a \in s.Addr :
                    bitOr((a \div 2 ^ s.nbits) * 2 ^ s.nbits,
                          a % (s.numSets * s.assoc * 2 ^ s.nbits)) = a

\* The address of a block, from its tag and its position or its index bits.
getSet(e) == e \div scenario.assoc
setAssocAddr(b, e) == b.tag * numSets + getSet(e)
newRandAddr(b) == bitOr(b.tag * 2 ^ scenario.nbits, b.index)
regenerateBlkAddr(b, e) == IF NewRand THEN newRandAddr(b) ELSE setAssocAddr(b, e)

getPossibleEntries(a) ==
    IF NewRand THEN Entry ELSE {e \in Entry : getSet(e) = extractSet(a)}

\* Faulty variant: the domain is not compared.
setAssocHitsOfAny(a, d) ==
    {e \in getPossibleEntries(a) : blk[e].valid /\ blk[e].tag = extractTag(a)}
\* The entries that hold block a of domain d; NewRandTag does not compare domains.
setAssocHits(a, d) ==
    {e \in getPossibleEntries(a) :
        blk[e].valid /\ blk[e].tag = extractTag(a) /\ blk[e].domainID = d}
newRandHits(a) ==
    {e \in getPossibleEntries(a) :
        blk[e].valid /\ blk[e].tag = extractTag(a) /\ blk[e].index = extractIndex(a)}
findBlock(a, d) ==
    LET hits == IF NewRand THEN newRandHits(a) ELSE setAssocHits(a, d)
    IN  IF hits = {} THEN None ELSE Min(hits)

-----------------------------------------------------------------------------
(* Replacement.  The field repl is the last touch of LRU, and 1 for the valid   *)
(* mark of Random.                                                            *)

touch(b) == IF LRU THEN [b EXCEPT !.repl = tick'] ELSE b
reset(b) == [b EXCEPT !.repl = IF LRU THEN tick' ELSE 1]

\* Faulty variant: the replacement data survive the block.
invalidateTag(e) == [InvalidBlk EXCEPT !.repl = blk[e].repl]
invalidate(e) == InvalidBlk

\* The entries a policy may choose: the first of the least recently touched; the
\* first invalid one, or any.
lruVictim(cands) ==
    {Min({e \in cands : \A f \in cands : blk[e].repl <= blk[f].repl})}
randomVictim(cands) ==
    LET free == {e \in cands : blk[e].repl = 0}
    IN  IF free = {} THEN cands ELSE {Min(free)}
setAssocVictim(a) ==
    IF LRU THEN lruVictim(getPossibleEntries(a)) ELSE randomVictim(getPossibleEntries(a))

\* NewRandTag replaces the block that has the index, or a random one.
matchIndex(a) == {e \in Entry : blk[e].valid /\ blk[e].index = extractIndex(a)}
newRandVictimAny(a) == Entry  \* faulty variant
newRandVictim(a) == IF matchIndex(a) = {} THEN Entry ELSE matchIndex(a)

findVictim(a) == IF NewRand THEN newRandVictim(a) ELSE setAssocVictim(a)

Failing(name, cond) == IF cond THEN {name} ELSE {}
findVictimFails(a) ==
    Failing("one block per index", NewRand /\ Cardinality(matchIndex(a)) > 1)
    \cup Failing("victim is the block itself",
                 NewRand /\ \E e \in matchIndex(a) : blk[e].tag = extractTag(a))

insertBlock(a, d) ==
    reset([valid |-> TRUE, tag |-> extractTag(a), index |-> extractIndex(a),
           domainID |-> d, readable |-> TRUE, writable |-> FALSE, repl |-> 0])

-----------------------------------------------------------------------------
(* What BaseCache does with the tags. *)

findMatch(a, d) == {m \in mshr : m.addr = a /\ m.domainID = d}

\* The misses outstanding on the block of an entry.
missesOf(e) == findMatch(regenerateBlkAddr(blk[e], e), blk[e].domainID)

\* Whether the victim may be evicted: no upgrade of it is outstanding.
handleEvictions(v) == blk[v].valid => missesOf(v) = {}
handleEvictionsFails(v) ==
    Failing("miss on a victim is an upgrade",
            blk[v].valid /\ \E m \in missesOf(v) : blk[v].writable \/ ~m.write)

\* Time passes between two events, or not.
Tick == tick' \in {tick, tick + 1} /\ tick' <= scenario.MaxTick

\* The address and the domain an entry is for.
owner(e) == <<regenerateBlkAddr(blk[e], e), blk[e].domainID>>

\* A filling request uses a block; a block leaves the tags.
use(a, d, old) == [old EXCEPT ![<<a, d>>] = tick']
forget(e) == IF blk[e].valid THEN [used EXCEPT ![owner(e)] = 0] ELSE used

\* The asserts of handleFill about the block b in the entry e.
handleFillFails(a, d, b, e) ==
    Failing("domain of the block", b.domainID # d)
    \cup Failing("address of the block", regenerateBlkAddr(b, e) # a)

\* The tags and the uses after block a of domain d was offered a place, writable
\* unless there are sharers; filling tells handleFill from a writeback.
allocateBlock(a, d, hasSharers, filling) ==
    \E v \in findVictim(a) :
        LET b == [insertBlock(a, d) EXCEPT !.writable = ~hasSharers]
        IN  /\ failed' = failed \cup findVictimFails(a) \cup handleEvictionsFails(v)
                  \cup IF filling /\ handleEvictions(v) THEN handleFillFails(a, d, b, v) ELSE {}
            /\ IF handleEvictions(v)
               THEN /\ blk' = [blk EXCEPT ![v] = b]
                    /\ used' = use(a, d, forget(v))
               ELSE UNCHANGED <<blk, used>>

\* Faulty variant: every access touches the block it finds.
accessBlockTouch(e, noFill) == touch(blk[e])
\* No-fill requests do not change the replacement state.
accessBlock(e, noFill) == IF noFill THEN blk[e] ELSE touch(blk[e])

\* A load or a store: access, and handleTimingReqMiss unless it hits.  A store to
\* a block that may only be read makes it unreadable until the upgrade.  A store
\* that a pending load would defer is left to SharedBlock.
Access(a, d, write, noFill) ==
    LET e    == findBlock(a, d)
        b    == accessBlock(e, noFill)
        hit  == e # None /\ b.readable /\ (write => b.writable)
    IN  /\ Tick
        /\ IF e = None THEN UNCHANGED <<blk, used>>
           ELSE /\ blk' = [blk EXCEPT ![e] =
                              [b EXCEPT !.readable = @ /\ (write => b.writable)]]
                /\ used' = IF noFill THEN used ELSE use(a, d, used)
        /\ IF hit THEN mshr' = mshr
           ELSE IF findMatch(a, d) = {}
           THEN /\ Cardinality(mshr) < scenario.mshrs
                /\ mshr' = mshr \cup {[addr |-> a, domainID |-> d,
                                       write |-> write, mayNotFill |-> noFill]}
           ELSE /\ \A m \in findMatch(a, d) : write => m.write
                /\ mshr' = {IF m \in findMatch(a, d)
                            THEN [m EXCEPT !.mayNotFill = @ /\ noFill] ELSE m : m \in mshr}
        /\ failed' = failed \cup
              Failing("miss on a valid block is a store that may not write",
                      e # None /\ ~hit /\ findMatch(a, d) = {} /\ ~(write /\ ~b.writable))
        /\ UNCHANGED scenario

\* A response: the lookup of recvTimingResp and handleFill.  A block without a
\* place in the tags passes through the temporary block.
RecvTimingResp(m, hasSharers, noFillLower) ==
    LET a == m.addr
        d == m.domainID
        e == findBlock(a, d)
    IN  /\ Tick
        /\ m.write => ~hasSharers
        /\ mshr' = mshr \ {m}
        /\ IF e # None
           THEN /\ blk' = [blk EXCEPT ![e].readable = TRUE,
                                      ![e].writable = @ \/ ~hasSharers]
                /\ failed' = failed \cup handleFillFails(a, d, blk[e], e)
                /\ used' = used
           ELSE IF m.mayNotFill \/ noFillLower THEN UNCHANGED <<blk, used, failed>>
           ELSE allocateBlock(a, d, hasSharers, TRUE)
        /\ UNCHANGED scenario

\* The writeback of a cache above that leaves the block to this one alone, or
\* to it and others.  It is written into the block or gets a new one, unless it
\* may not fill.  One that meets a miss is a WritebackClean (SharedBlock shows
\* when a WritebackDirty meets one) and is dropped after the access.
Writeback(a, d, hasSharers, noFill) ==
    LET e == findBlock(a, d)
        dropped == findMatch(a, d) # {}
    IN  /\ Tick
        /\ IF e # None
           THEN /\ blk' = [blk EXCEPT ![e] = [accessBlock(e, noFill) EXCEPT
                                                !.writable = @ \/ ~(hasSharers \/ dropped)]]
                /\ used' = IF noFill THEN used ELSE use(a, d, used)
                /\ UNCHANGED failed
           ELSE IF dropped \/ noFill THEN UNCHANGED <<blk, used, failed>>
           ELSE allocateBlock(a, d, hasSharers, FALSE)
        /\ UNCHANGED <<scenario, mshr>>

\* A snoop takes the block away or the right to write it.
HandleSnoop(e, inv) ==
    /\ blk[e].valid
    /\ blk' = [blk EXCEPT ![e] = IF inv THEN invalidate(e)
                                 ELSE [@ EXCEPT !.writable = FALSE]]
    /\ used' = IF inv THEN forget(e) ELSE used
    /\ UNCHANGED <<scenario, mshr, tick, failed>>

Next ==
    \/ \E a \in Addr, d \in Domain, write, noFill \in BOOLEAN : Access(a, d, write, noFill)
    \/ \E m \in mshr, hasSharers, noFillLower \in BOOLEAN :
          RecvTimingResp(m, hasSharers, noFillLower)
    \/ \E a \in Addr, d \in Domain, hasSharers, noFill \in BOOLEAN :
          Writeback(a, d, hasSharers, noFill)
    \/ \E e \in Entry, inv \in BOOLEAN : HandleSnoop(e, inv)

Spec == Init /\ [][Next]_vars

-----------------------------------------------------------------------------
(* Properties. *)

TypeOK ==
    /\ blk \in [Entry -> [valid : BOOLEAN, tag : {0} \cup {extractTag(a) : a \in Addr},
                          index : {0} \cup {extractIndex(a) : a \in Addr},
                          domainID : Nat,
                          readable : BOOLEAN, writable : BOOLEAN, repl : Nat]]
    /\ \A e \in Entry : ~blk[e].valid => blk[e].repl = 0
    /\ mshr \subseteq [addr : Addr, domainID : Domain, write : BOOLEAN,
                       mayNotFill : BOOLEAN]
    /\ tick \in 1..scenario.MaxTick

\* Every valid block is the one a lookup of its own address in its own domain
\* finds, so no block is held twice, whatever was evicted, remapped or refilled
\* in between; and NewRandTag holds at most one block of an index.
BlocksFound ==
    \A e \in Entry : blk[e].valid =>
        /\ findBlock(owner(e)[1], owner(e)[2]) = e
        /\ NewRand => \A f \in Entry \ {e} :
                          blk[f].valid => blk[f].index # blk[e].index

\* None of the asserts of handleTimingReqMiss, findVictim, handleEvictions and
\* handleFill fires, however misses, evictions and snoops interleave.
NoAssertFails == failed = {}

\* A fill replaces a valid block only if no upgrade of it is outstanding and no
\* place of its set is free, and under LRU only if no other block of the set was
\* used longer ago by a request that may fill: neither no-fill requests nor
\* invalidated blocks leave a trace in the choice.
ReplacesOldestUnpinned ==
    [][\A e \in Entry :
          /\ blk[e].valid /\ blk'[e].valid
          /\ <<blk[e].tag, blk[e].index, blk[e].domainID>> #
                <<blk'[e].tag, blk'[e].index, blk'[e].domainID>>
          => /\ missesOf(e) = {}
             /\ ~NewRand => \A f \in getPossibleEntries(owner(e)[1]) :
                   /\ blk[f].valid
                   /\ LRU => used[owner(e)] <= used[owner(f)]]_vars
=============================================================================

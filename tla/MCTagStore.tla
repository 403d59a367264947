----------------------------- MODULE MCTagStore -----------------------------
(* TagStore on small instances.                                            *)
EXTENDS TagStore

\* The L1 instruction cache: LRU, three blocks of one set of two ways.
Lru == [tags |-> "BaseSetAssoc", repl |-> "LRU", numSets |-> 2, assoc |-> 2,
        nbits |-> 0, Addr |-> {0, 2, 4}, Domain |-> {1}, mshrs |-> 2, MaxTick |-> 5]

\* The other caches: random replacement, blocks that two domains use.
Domains == [tags |-> "BaseSetAssoc", repl |-> "Random", numSets |-> 1, assoc |-> 2,
            nbits |-> 0, Addr |-> {0, 1, 2}, Domain |-> {1, 2}, mshrs |-> 2,
            MaxTick |-> 1]

\* Two sets with two blocks for one of them.
Sets == [tags |-> "BaseSetAssoc", repl |-> "LRU", numSets |-> 2, assoc |-> 1,
         nbits |-> 0, Addr |-> {0, 1, 3}, Domain |-> {1}, mshrs |-> 2, MaxTick |-> 2]

\* NewRandTag with two entries and four indices; blocks 1, 5 and 9 share one.
Remapped == [tags |-> "NewRandTag", repl |-> "Random", numSets |-> 1, assoc |-> 2,
             nbits |-> 1, Addr |-> {1, 5, 9, 2, 3}, Domain |-> {1}, mshrs |-> 2,
             MaxTick |-> 1]

Stores == {Lru, Domains, Sets, Remapped}
=============================================================================

----------------------------- MODULE AtomicBlock -----------------------------
(***************************************************************************)
(* What the caches promise the cores about one block.  The block has one   *)
(* value, which counts the stores performed on it.  A core's accesses wait  *)
(* in the order the core issued them and are performed in that order, one   *)
(* or several at a time.  A store is performed on the current value.  A     *)
(* load may return a value that has been overwritten since the load was     *)
(* accepted, but never one older than what its core has already seen.       *)
(***************************************************************************)
EXTENDS Integers, Sequences, FiniteSets

CONSTANT Core

VARIABLES
    val,    \* the value of the block
    queue,  \* queue[c]: the accesses of c that are accepted, not performed
    seen    \* seen[c]: the newest value c has read or written

vars == <<val, queue, seen>>

Op == {"Load", "Store"}

Init ==
    /\ val = 0
    /\ queue = [c \in Core |-> <<>>]
    /\ seen = [c \in Core |-> 0]

\* An access waits; since is the value of the block at this moment.
Accept(c, op) ==
    /\ queue' = [queue EXCEPT ![c] = Append(@, [op |-> op, since |-> val])]
    /\ UNCHANGED <<val, seen>>

\* An access of a core that waits for nothing is performed at once.
Hit(c, op) ==
    /\ queue[c] = <<>>
    /\ val' = IF op = "Store" THEN val + 1 ELSE val
    /\ seen' = [seen EXCEPT ![c] = val']
    /\ UNCHANGED queue

\* The first n waiting accesses of c are performed.
Perform(c, n) ==
    LET stores == {i \in 1..n : queue[c][i].op = "Store"}
        since == queue[c][n].since
    IN  /\ queue' = [queue EXCEPT ![c] = SubSeq(@, n + 1, Len(@))]
        /\ val' = val + Cardinality(stores)
        /\ \E v \in IF stores = {} THEN since..val ELSE {val'} :
             /\ v >= seen[c]
             /\ seen' = [seen EXCEPT ![c] = v]

Next ==
    \E c \in Core :
        \/ \E op \in Op : Accept(c, op) \/ Hit(c, op)
        \/ \E n \in 1..Len(queue[c]) : Perform(c, n)

Spec == Init /\ [][Next]_vars
=============================================================================

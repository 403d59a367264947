-------------------------- MODULE ReorderBufferInv --------------------------
(* The inductive invariant of the reorder buffer and of commit, and the shape of *)
(* the record that a cycle of commit threads through its stages.                *)
EXTENDS CommitStage, Integers, TLAPS

-----------------------------------------------------------------------------
(* Types. *)

Kind == {"load", "store", "branch", "nonspec", "squashafter"}
Progress == {"waiting", "dispatched", "released", "sent", "executed", "dropped"}
Status == {"Running", "ROBSquashing", "TrapPending", "SquashAfterPending"}

Inst == [sn : Nat \ {0}, kind : Kind, st : Progress, canCommit : BOOLEAN,
         squashed : BOOLEAN, from : SUBSET Nat,
         fault : {"none", "fault", "reexec"}, SHTpkt : BOOLEAN,
         SHTinserted : BOOLEAN, PrevInstsCompleted : BOOLEAN, noFill : BOOLEAN]

Signal == [insts : SUBSET Nat, squash : BOOLEAN, sn : Nat,
           includeSquashInst : BOOLEAN]

Entry == [sn : Nat \ {0}, from : SUBSET Nat]

\* The record that a cycle of commit threads through its stages.
Cycle == [rob : Seq(Inst), it : Nat, sq : Nat, status : Status, trap : BOOLEAN,
          tc : BOOLEAN, after : Nat, youngest : Nat, last : Nat,
          shb : Seq(Entry), lq : BOOLEAN, stores : Nat, squash : SUBSET Nat,
          num : Nat, stop : BOOLEAN]

\* The record at the beginning of a cycle.
Begin == [rob |-> rob, it |-> squashIt, sq |-> squashedSeqNum,
          status |-> commitStatus, trap |-> trapSquash, tc |-> tcSquash,
          after |-> squashAfterInst,
          youngest |-> youngestSeqNum, last |-> lastCommitedSeqNum,
          shb |-> shb, lq |-> FALSE, stores |-> storesToWB, squash |-> {},
          num |-> 0, stop |-> FALSE]

-----------------------------------------------------------------------------
(* The inductive invariant. *)

\* The core is in one of its protection modes.
Protected == rasAll \/ rasLoad \/ rasSpec

Ended == {"executed", "dropped"}

\* One instruction.  It is ready to commit only when it has ended, unless it
\* executes at the head; only a load that was sent is replayed or has a packet;
\* only an access is marked; what is sent to fill, or to the SHB, was marked.
InstOK(i) ==
    /\ i \in Inst
    /\ i.canCommit /\ i.kind \notin Special /\ ~i.squashed => i.st \in Ended
    /\ i.st \in {"dispatched", "released"} => i.kind \in Special
    /\ i.fault = "reexec" \/ i.SHTpkt
          => i.kind = "load" /\ i.st \in {"sent", "executed", "dropped"}
    /\ i.PrevInstsCompleted => isMemRef(i)
    /\ i.SHTinserted => i.PrevInstsCompleted
    /\ Protected /\ i.kind = "load" /\ i.st \in {"sent", "executed"} /\ ~i.noFill
          => i.PrevInstsCompleted
    /\ i.from # {} <=> i.squashed
    /\ \A s \in i.from : s < i.sn /\ i.from = {s}

\* h is older than k.  Behind a marked access everything has ended without a
\* fault, and a squash of what is older reaches the access too.
PairOK(h, k) ==
    /\ h.sn < k.sn
    /\ k.PrevInstsCompleted =>
          /\ h.kind \notin Special /\ h.canCommit /\ h.st \in Ended
          /\ h.fault # "fault"
          /\ h.squashed => k.squashed

Chain(r) ==
    /\ r \in Seq(Inst)
    /\ \A k \in DOMAIN r : InstOK(r[k])
    /\ \A h, k \in DOMAIN r : h < k => PairOK(r[h], r[k])

\* The walk has still to come to the instruction at k.
ToWalk(c, k) ==
    c.status = "ROBSquashing" /\ k <= c.it /\ c.rob[k].sn > c.sq

\* The squash of an instruction is half done.
HalfSquashed(i) == \/ i.st = "dropped" /\ ~i.squashed
                   \/ i.squashed /\ ~i.canCommit

\* The walk of the ROB.  Nothing is left half squashed outside of it; a squash
\* takes everything behind the number it starts from.
WalkOK(c) ==
    /\ c.it <= Len(c.rob) /\ (c.it > 0 => c.status = "ROBSquashing")
    /\ \A k \in DOMAIN c.rob :
          /\ c.rob[k].sn > c.last
          /\ HalfSquashed(c.rob[k]) => ToWalk(c, k)
          /\ \A s \in c.rob[k].from : \A j \in 1..k - 1 :
                c.rob[j].sn > s => c.rob[j].squashed \/ ToWalk(c, j)
    /\ c.status = "ROBSquashing" /\ c.rob # << >> =>
          c.youngest <= c.sq /\ c.rob[1].sn <= c.sq + 1

\* IEW has done its part of the squash that the walk is for, or is going to.
ToldOK(c) ==
    /\ c.squash = {} /\ c.status = "ROBSquashing" =>
          \A k \in DOMAIN c.rob : c.rob[k].sn > c.sq =>
             /\ c.rob[k].st \in Ended
             /\ isMemRef(c.rob[k]) => c.rob[k].squashed
    /\ c.squash # {} =>
          /\ c.status = "ROBSquashing"
          /\ c.rob # << >> =>
                /\ c.squash = {c.sq}
                /\ \A k \in DOMAIN c.rob : c.rob[k].sn > c.sq =>
                      c.rob[k].squashed \/ k <= c.it

\* What was sent to the SHB, against the instructions still in the ROB.
SentOK(e, r) ==
    /\ \A k \in DOMAIN r : r[k].sn <= e.sn =>
          /\ r[k].st # "waiting"
          /\ r[k].SHTpkt => r[k].SHTinserted
    /\ \/ \E j \in DOMAIN r : r[j].sn = e.sn /\ (e.from # {} => r[j].from = e.from)
       \/ \A k \in DOMAIN r : r[k].sn > e.sn
    /\ \A s \in e.from : s < e.sn /\ e.from = {s}
    /\ \A s \in e.from : \A k \in DOMAIN r :
          r[k].from = e.from /\ r[k].sn > e.sn =>
             \E j \in 1..k - 1 : r[j].squashed /\ r[j].sn > s

InOrder(q) ==
    \A a, b \in DOMAIN q : a < b =>
        /\ q[a].sn < q[b].sn
        /\ q[a].from # {} => q[a].from # q[b].from

ShbOK(c) ==
    /\ InOrder(c.shb)
    /\ \A a \in DOMAIN c.shb : SentOK(c.shb[a], c.rob)

\* What IEW reports has executed.
Reported(r, S) == \A k \in DOMAIN r : r[k].sn \in S => r[k].st = "executed"

\* The squash of sig spares i.
Spares(sig, i) == i.sn < sig.sn \/ (i.sn = sig.sn /\ ~sig.includeSquashInst)

\* A squash is raised by a branch or a store that it spares and that is not ready
\* to commit yet (insts: what becomes ready in this cycle), or is squashed.
Raised(r, sig, insts) ==
    sig.squash =>
        \E j \in DOMAIN r : /\ Spares(sig, r[j]) /\ r[j].kind \in {"branch", "store"}
                            /\ ~r[j].squashed /\ ~r[j].canCommit
                            /\ r[j].sn \in sig.insts /\ r[j].sn \notin insts
WasRaised(r, sig) ==
    sig.squash =>
        \E j \in DOMAIN r : /\ Spares(sig, r[j]) /\ r[j].kind \in {"branch", "store"}
                            /\ r[j].squashed \/ ~r[j].canCommit

\* The instructions older than position k are complete.
Ready(r, k) == \A h \in 1..k - 1 : completed(r[h])

\* The scan has seen what can be seen.
Seen(r, it) ==
    robInsert =>
        \A k \in DOMAIN r :
           isMemRef(r[k]) /\ ~r[k].squashed /\ Ready(r, k) =>
              /\ r[k].PrevInstsCompleted
              /\ r[k].SHTpkt /\ r[k].canCommit /\ it = 0 => r[k].SHTinserted

\* Pending squashes.
PendingOK(c) ==
    /\ c.trap => c.status = "TrapPending"
    /\ c.tc => c.status # "TrapPending" /\ tcWrites
    /\ c.after # 0 => /\ c.status = "SquashAfterPending" \/ tcWrites
                      /\ "squashafter" \in Kinds

\* The program counts on.
CountOK(c, n) ==
    /\ c.last < n
    /\ \A k \in DOMAIN c.rob : c.rob[k].sn < n /\ c.rob[k].kind \in Kinds
    /\ \A a \in DOMAIN c.shb : c.shb[a].sn < n

RobInv ==
    /\ scenario \in Scenarios
    /\ Begin \in Cycle /\ lqHead \in BOOLEAN /\ nextSeq \in Nat \ {0}
    /\ toCommit \in Signal /\ fromIEW \in Signal
    /\ \A s \in toCommit.insts \cup fromIEW.insts : s < nextSeq
    /\ Chain(rob)
    /\ WalkOK(Begin) /\ ToldOK(Begin) /\ ShbOK(Begin)
    /\ PendingOK(Begin) /\ CountOK(Begin, nextSeq)
    /\ Reported(rob, toCommit.insts) /\ Reported(rob, fromIEW.insts)
    /\ Raised(rob, toCommit, fromIEW.insts) /\ WasRaised(rob, fromIEW)
    /\ Seen(rob, squashIt)

\* The squash that IEW raised in this cycle has its cause in the ROB, not yet
\* ready to commit; or the walk has come to it.
Raising(c) ==
    toCommit.squash =>
        \E j \in DOMAIN c.rob :
           /\ Spares(toCommit, c.rob[j]) /\ c.rob[j].kind \in {"branch", "store"}
           /\ c.rob[j].sn \in toCommit.insts /\ c.rob[j].sn \notin fromIEW.insts
           /\ c.rob[j].squashed => c.status = "ROBSquashing"
           /\ c.rob[j].squashed \/ ~c.rob[j].canCommit

\* What holds between the stages of a cycle; n is the next sequence number.
StageOK(c, n) ==
    /\ c \in Cycle /\ Chain(c.rob)
    /\ WalkOK(c) /\ ToldOK(c) /\ ShbOK(c) /\ CountOK(c, n)
    /\ Reported(c.rob, toCommit.insts) /\ Reported(c.rob, fromIEW.insts)
    /\ Raising(c)

\* A set of naturals has a least element: what the lemmas about loops assume and
\* NatWellOrdered proves, once, where the induction theorems are in scope.
WellOrdered == \A S \in SUBSET Nat : S # {} => \E x \in S : \A y \in S : x <= y

=============================================================================

---------------------------- MODULE MCIssueStage ----------------------------
(***************************************************************************)
(* Small programs for IssueStage.tla.  In each of them some instructions   *)
(* have to wait for different reasons while the others go on.              *)
(***************************************************************************)
EXTENDS IssueStage

I(op, src) == [op |-> op, src |-> src]

P(insts, squashes, refusals, bubbles) ==
    [insts |-> insts, squashes |-> squashes, refusals |-> refusals, bubbles |-> bubbles]

\* A load that may pass, overlap or be overtaken by a slow store.
StoreToLoad == <<I("mul", {}), I("store", {1}), I("load", {}), I("alu", {1, 3})>>

\* A load for which commit has to release the core, behind a store.
StrictLoad == <<I("store", {}), I("strictload", {}), I("load", {}), I("alu", {2})>>

\* A barrier between two loads, and a branch that waits for the first.
Barrier == <<I("load", {}), I("barrier", {}), I("load", {}), I("branch", {1})>>

\* A wrong path with a slow instruction, an atomic and a load.
WrongPath == <<I("branch", {}), I("mul", {}), I("atomic", {}), I("load", {2})>>

\* Two instructions for the same busy unit, one that waits for two results, and
\* one that is not speculative.
BusyUnit == <<I("mul", {}), I("load", {}), I("alu", {1, 2}), I("nonspec", {}),
              I("mul", {3})>>

MCPrograms ==
    {P(StoreToLoad, 1, 1, 0), P(StrictLoad, 1, 2, 0), P(Barrier, 2, 1, 1),
     P(WrongPath, 2, 0, 1), P(BusyUnit, 1, 0, 1)}

=============================================================================

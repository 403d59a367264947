CONSTANTS
    c1 = c1
    c2 = c2
    c3 = c3
    L1 = {c1, c2, c3}
    L2 = L2
    Scenarios <- Systems
SPECIFICATION FairSpec
INVARIANTS
    OneAnswer
    NoAssertFails
    SingleWriter
    NoFillLeavesNoTrace
PROPERTIES
    ImplementsAtomicBlock
    AccessesPerformed
CHECK_DEADLOCK FALSE

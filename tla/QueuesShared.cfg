CONSTANTS
    m1 = m1
    m2 = m2
    m3 = m3
    None = None
    Mshr = {m1, m2, m3}
    writeBuffers = 2
    numTarget = 2
    demandReserve = 0
    shared = TRUE
    MaxTargets = 3
    MaxSnoops = 1
    MaxWB = 4
SYMMETRY MshrSymmetry
SPECIFICATION Spec
INVARIANTS
    TypeOK
    MaskExact
    RetryNotLost
    NoAssertFails
PROPERTIES
    PrefetchNeverBlocks

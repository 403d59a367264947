CONSTANTS
    a1 = a1
    a2 = a2
    v0 = v0
    v1 = v1
    Addr = {a1, a2}
    Val = {v0}
    InitVal = v0
    ways <- One
    mshrs <- Three
    writeBuffers <- One
    tgtsPerMSHR = 2
    demandReserve = 0
    nofillEn <- Both
    pfAckEn <- Both
    prefetches = TRUE
SPECIFICATION FairSpec
INVARIANTS
    NoFillLeavesNoTrace
    FillKeepsInclusion
PROPERTIES
    MissesAnswered
    BlockedEnds

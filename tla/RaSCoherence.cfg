CONSTANTS
    a1 = a1
    a2 = a2
    v0 = v0
    v1 = v1
    Addr = {a1, a2}
    Val = {v0, v1}
    InitVal = v0
    ways <- One
    mshrs <- Two
    writeBuffers <- Two
    tgtsPerMSHR = 3
    demandReserve = 0
    nofillEn <- Both
    pfAckEn <- Both
    prefetches = FALSE
SYMMETRY AddrSymmetry
VIEW NoHistory
SPECIFICATION Spec
INVARIANTS
    LoadsReturnLatest
    NoAssertFails
    NewestNotLost

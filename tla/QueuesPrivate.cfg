CONSTANTS
    m1 = m1
    m2 = m2
    m3 = m3
    None = None
    Mshr = {m1, m2, m3}
    writeBuffers = 2
    numTarget = 3
    demandReserve = 0
    shared = FALSE
    MaxTargets = 9
    MaxSnoops = 0
    MaxWB = 9
SPECIFICATION FairSpec
INVARIANTS
    WriteBufferFits
PROPERTIES
    RefusedIsRetried

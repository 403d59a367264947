CONSTANTS
    Addr <- MCAddr
    DomainID = {d1, d2}
    blkSize = 2
    blkNum = 2
    shbSize = 2
    shbIssue = 1
    issueInterval = 3
    maxIssueInterval = 4
    clockPeriod = 1
    forwardLatency = 4
    snoopLatency = 2
    payloadDelay = 1
    shbInsertSt = TRUE
    LastTick = 8
    MaxMisses = 2
SPECIFICATION Spec
INVARIANTS
    TypeOK
    HoldsLatestAccesses
    PrefetchesNearAccess
    EventXorRetry
    SlotNotMissed
    MissWakesQueue
PROPERTIES
    WakeupNotLost

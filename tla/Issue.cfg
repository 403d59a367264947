SPECIFICATION Spec
CONSTANTS
    Programs <- MCPrograms
    numEntries = 2
    LQEntries = 1
    SQEntries = 1
    renameWidth = 1
    dispatchWidth = 1
    totalWidth = 2
    fetchToRenameDelay = 2
    renameToIEWDelay = 2
    cacheLoadPorts = 1
    squashWidth = 1
INVARIANTS
    NoAssertFails
    EntriesAccounted
    OperandsReady
PROPERTY
    AllRetire

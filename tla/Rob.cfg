CONSTANTS
    numEntries = 4
    commitWidth = 2
    squashWidth = 1
    renameWidth = 2
    rasAll = FALSE
    rasLoad = FALSE
    rasSpec = TRUE
    robInsert = TRUE
    Scenarios <- Programs
SPECIFICATION FairSpec
INVARIANTS
    SafeIsNeverUndone
    FlagIsExact
    SHBInProgramOrder
PROPERTIES
    CommittedLoadIsInserted
    AssertsHold
    RobDrains
CHECK_DEADLOCK FALSE

\* The mode of --no_sfill: updateVisibleState neither marks nor inserts.
CONSTANTS
    numEntries = 4
    commitWidth = 2
    squashWidth = 1
    renameWidth = 2
    rasAll = FALSE
    rasLoad = FALSE
    rasSpec = TRUE
    robInsert = FALSE
    Scenarios <- OnlyBranches
SPECIFICATION Spec
PROPERTIES NoFillIsSpeculative
CHECK_DEADLOCK FALSE

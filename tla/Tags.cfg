CONSTANTS
    Scenarios <- Stores
SPECIFICATION Spec
INVARIANTS
    BlocksFound
    NoAssertFails
PROPERTIES
    ReplacesOldestUnpinned

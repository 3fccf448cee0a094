SPECIFICATION Spec
CONSTANTS
    Last = 4
    StorageErrors = TRUE
INVARIANTS TypeOK InPlaybackOrder MissingOnlyIfAlone
CHECK_DEADLOCK FALSE

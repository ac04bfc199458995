SPECIFICATION FairSpec
CONSTANTS
    MaxForks = 2
INVARIANTS
    NoOrphanAfterQuit
    ServedWhole
PROPERTIES
    ShellSettles
CHECK_DEADLOCK FALSE

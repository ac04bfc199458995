SPECIFICATION FairIngestion
CONSTANTS
    Names = {1, 2}
    Scans = {"page", "blank", "noise", "void", "huge"}
    Empty = {"void"}
    Oversized = {"huge"}
    Undecodable = {"noise"}
    Unaligned = {"blank"}
    Absent = Absent
    Stable = 2
    MaxWrites = 2
    MaxFailures = 1
    MaxDays = 1
    MaxUpgrades = 1
INVARIANTS
    JobsBacked
    RejectedForCause
PROPERTIES
    FilesSettle
CHECK_DEADLOCK FALSE

SPECIFICATION FairSpec
CONSTANTS
    None = None
    Payloads <- SomePayloads
    Requests = {"r1", "r2"}
    Artifacts = {"source"}
    Source = "source"
    Importers = {"i1", "i2"}
    Mode = "scanner_webhook"
    MaxPast = 0
    MaxFuture = 0
    RetentionDays = 1
    ArtifactDays = 1
    MaxDay = 1
    MaxFaults = 1
\* The system rests once every receipt is decided and every import has ended.
CHECK_DEADLOCK FALSE
INVARIANTS
    OneReviewPerRevision
    EvidenceKept
    PurgedKeepsNothing
PROPERTIES
    EvidenceSettles

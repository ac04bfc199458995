SPECIFICATION FairSpec
CONSTANTS
    None = None
    p1 = p1
    p2 = p2
    w1 = w1
    w2 = w2
    Jobs = {p1, p2}
    Workers = {w1, w2}
    Limits = {1, 2}
    MaxFaults = 1
    MaxReplays = 1
\* The system rests once every page and every event has ended.
CHECK_DEADLOCK FALSE
INVARIANTS
    ResultsSound
PROPERTIES
    FinalJobsStay
    WorkEnds

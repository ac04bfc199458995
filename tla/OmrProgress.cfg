SPECIFICATION FairSpec
CONSTANTS
    s1 = s1
    s2 = s2
    f1 = f1
    f2 = f2
    None = None
    Sheets = {s1, s2}
    Forms = {f1}
    Templates = {t1}
    Users = {u1}
    RetentionDays = 1
    MaxAttempts = 2
    MaxDay = 0
    MaxQueue = 2
    MaxFaults = 1
\* The system rests once every sheet is decided and no day is left.
CHECK_DEADLOCK FALSE
PROPERTIES
    SheetsSettle

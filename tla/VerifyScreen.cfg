SPECIFICATION FairSpec
CONSTANTS
    SheetOrder <- AllSheets
    Users = {"ann", "bob"}
    Date <- TwoDays
    Ranges <- DayRanges
    Binding <- Mixed
    Owner <- Owners
    Clean = {"s1", "s2", "s3"}
    Earlier <- EarlierOrders
    None = None
    Mode = "scanner_shadow"
    MaxGestures = 4
    MaxFaults = 1
INVARIANTS
    DecisionsCarryTheirSheet
PROPERTIES
    OnlyDecidedLeave
    ActionsEnd
CHECK_DEADLOCK FALSE

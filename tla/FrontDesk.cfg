SPECIFICATION FairSpec
CONSTANTS
    Prisoners = {"ann"}
    MaxOrders = 2
    MaxCalls = 2
    Catalogues <- TwoCatalogues
    Opening <- Affordable
    None = None
    MaxAsked = 3
    MaxTyped = 2
    MaxEvents = 1
INVARIANTS
    QuotedIsOwed
    SettledOnce
PROPERTIES
    QueueCatchesUp
CHECK_DEADLOCK FALSE

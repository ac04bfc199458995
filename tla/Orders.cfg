SPECIFICATION Spec
CONSTANTS
    None = None
    u1 = u1
    u2 = u2
    c1 = c1
    c2 = c2
    o1 = o1
    o2 = o2
    r1 = r1
    Users = {u1, u2}
    Clients = {c1, c2}
    OrderIds = {o1, o2}
    Dates = {"d1"}
    Routes = {"issued", "scanner", "relative"}
    Refs = {r1}
    Carts <- EachOnce
    MenuRows <- RetiringMenuRows
    Policies <- TwoLimits
    Topups = {1}
    Edits <- SomeEdits
    Syncs <- SomeSyncs
    MaxVnd = 2
    MaxRows <- OneTopup
    Indexes <- AllIndexes
CONSTRAINT Bounds
SYMMETRY Alike
INVARIANTS
    LedgerExplainsBalance
    SupersedeTrail
    SettlementIsWhole
    OneActivePerChannel
    OrdersAndLedgerAgree
    
PROPERTIES
    AccountLedgerSpec
    PricedAtCommit
    DebitsOnlyActive

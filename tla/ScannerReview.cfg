SPECIFICATION ReviewSpec
CONSTANTS
    Items = {1, 2}
    Nothing = Nothing
    Catalogue <- SomeCatalogue
    Unaccented <- SomeAccents
    IdLength = 2
    RoomMaxLength = 2
    QuantityMax = 3
    CandidateLimit = 1
    MinimumScore = 82
    MinimumMargin = 8
    RowShapes <- SomeRows
    Pages <- SomePages
    Identities = {"unread", "id", "id_and_room"}
    Junk = 9
    MaxRows = 2
    MaxQuantity = 2
    Quantities = {1, 2}
    MaxSteps = 2
INVARIANTS
    ReasonAskedWhenNeeded
    ReadyIsConfirmable
    RecognitionSound
CHECK_DEADLOCK FALSE

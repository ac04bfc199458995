SPECIFICATION FormsSpec
CONSTANTS
    Unset = Unset
    u1 = u1
    u2 = u2
    j1 = j1
    j2 = j2
    l1 = l1
    l2 = l2
    Users = {u1, u2}
    Places <- TwoPlaces
    Labels = {l1, l2}
    Admins = {"a1"}
    Jobs = {j1, j2}
    MaxCode = 3
    Capacity = 2
    MaxBatch = 2
    MaxItems = 3
    MaxTemplates = 2
    MaxBatches = 1
    MaxChanges = 2
SYMMETRY Symmetric
INVARIANTS
    PrintedRowsStay
PROPERTIES
    BatchIsCurrent
\* A run stops when the bounds are reached.
CHECK_DEADLOCK FALSE

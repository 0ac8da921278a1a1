CONSTANTS
    a1 = a1
    a2 = a2
    k1 = k1
    k2 = k2
    None = None
    Operators = {o1}
    Approvals = {a1, a2}
    Commands = {k1, k2, free}
    CommandOf <- RequestedFor
    Gated = {k1, k2}
    Serial = TRUE
    MayFail = TRUE
    MayCrash = TRUE
    MaxEvents = 6
    MaxFree = 1
CHECK_DEADLOCK FALSE
SPECIFICATION Spec
SYMMETRY ApprovalSymmetry
INVARIANTS
    LedgerTellsOneStory
PROPERTIES
    IsDecideOnce

CONSTANTS
    None = None
    Events = {e1, e2, e3, e4, e5}
    Serial = TRUE
    MayFail = TRUE
    MayCrash = TRUE
CHECK_DEADLOCK FALSE
SPECIFICATION Spec
SYMMETRY EventSymmetry
INVARIANTS
    ReadableIsChained
    ReturnedIsOnRecord
PROPERTIES
    IsAppendOnlyLog

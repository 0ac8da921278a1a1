CONSTANTS
    None = None
    Writers = {w1, w2}
    Ids = {x, y, z}
    Names = {report, log}
    Payloads = {p1, p2}
    Serial = TRUE
    MayFail = TRUE
    MayCrash = TRUE
    MaxLines = 3
CHECK_DEADLOCK FALSE
SPECIFICATION Spec
INVARIANTS
    
    ListedIsWhole

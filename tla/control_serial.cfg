CONSTANTS
    r1 = r1
    r2 = r2
    active = active
    Obs = Obs
    x = x
    y = y
    cycle = cycle
    None = None
    Runs = {r1, r2}
    Modes = {Obs, active}
    Contexts = {x, y}
    Cycles = {cycle}
    Calls = {c1, c2, c3}
    OccurredAt <- OneClock
    ApprovedAt <- OneClock
    LastTime = 1
    Commands <- SerialCommands
    Threads = 1
    MayFail = TRUE
    MayCrash = TRUE
CHECK_DEADLOCK FALSE
SPECIFICATION Spec
SYMMETRY CallSymmetry
INVARIANTS
    
    ReceiptIsApproved
    ModeBackedByReceipt
    
    ShownIsHeld

    

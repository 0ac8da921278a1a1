CONSTANTS
    r1 = r1
    r2 = r2
    active = active
    Obs = Obs
    x = x
    y = y
    cycle = cycle
    None = None
    Runs = {r1, r2}
    Modes = {Obs, active}
    Contexts = {x, y}
    Cycles = {cycle}
    Calls = {c1, c2}
    Commands <- RaceCommands
    Threads = 2
    MayFail = FALSE
    MayCrash = TRUE
CHECK_DEADLOCK FALSE
SPECIFICATION FairSpec
INVARIANTS
    StartedUnderApproval
PROPERTIES
    StartedIsClosed

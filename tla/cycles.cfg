CONSTANTS
    None = None
    NaN = NaN
    MaxLost = 1
    pytest = pytest
    docker = docker
    AllowedTools = {pytest}
    Cycles <- RunCycles
    Target = 2
    MaxCycles = 4
CHECK_DEADLOCK FALSE
SPECIFICATION Spec
INVARIANTS
    TypeOK
    BaselineIsLastAccepted
    AcceptedScoresNeverDrop
    ThirdCrashStops
    MilestoneCountsAccepted
    StopsArePersisted
    AcceptedIsClean

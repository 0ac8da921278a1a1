CONSTANTS
    c1 = c1
    c2 = c2
    i1 = i1
    a = a
    b = b
    None = None
    Torn = Torn
    Paths <- Two
    Parent <- Nested
    Contents <- AnyContent
    Requests <- EveryRecovery
    AgentWaits = TRUE
    MayFail = TRUE
    MayCrash = TRUE
SPECIFICATION Spec
SYMMETRY ContentSymmetry
INVARIANTS
    TypeOK
    SnapshotsAreWhole
    RestoredIsTarget
    ReportedEvidenceHolds

    

CONSTANTS
    Nothing = Nothing
    MayFail = TRUE
    MayCrash = TRUE
    MaxRecords = 4
CHECK_DEADLOCK FALSE
SPECIFICATION ViewSpec
INVARIANTS
    ViewTypeOK
    
    IncidentIsDetailed
    RolledBackIsRestored

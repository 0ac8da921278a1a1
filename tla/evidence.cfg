CONSTANTS
    None = None
    Torn = Torn
    Events = {c1, c2}
    Manifests = {m1, m2}
    EntriesPerBatch = 2
    MaxEntries = 5
    Serial = TRUE
    MayFail = TRUE
    MayCrash = TRUE
CHECK_DEADLOCK FALSE
SPECIFICATION EvidenceSpec
SYMMETRY CycleSymmetry
INVARIANTS
    EvidenceTypeOK
    WindowIsOwn
    
PROPERTIES
    ProvenStays

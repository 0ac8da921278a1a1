CONSTANTS
    Runs <- SomeRuns
    Ids <- SomeIds
    SnapshotIds <- MilestoneIds
    Names <- SomeNames
    MaxFiles = 1
SPECIFICATION LayoutSpec
INVARIANTS
    LayoutTypeOK
    

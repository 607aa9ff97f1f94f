CONSTANTS
    HDR = 2
    Pages = 90
    Updates <- AllUpdates
    MaxCuts = 3
    MaxFaults = 1
SPECIFICATION FairSpec
INVARIANTS
    TypeOK
    SourceSurvives
    FinalizedIsWhole
PROPERTY UpdateEnds
CHECK_DEADLOCK FALSE

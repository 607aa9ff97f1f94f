CONSTANTS
    N = 2
    Devices <- AllDevices
SPECIFICATION FairSpec
INVARIANTS
    TypeOK
    BootsOnlyCompleteImage
    SwapHasImage
    CompleteMeansSaved
PROPERTY SavingEnds

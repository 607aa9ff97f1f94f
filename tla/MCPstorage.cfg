CONSTANTS
    ImagePages = 2
    OtherPages = 1
    QueueSize = 2
    PendingCount = 2
    Stores <- ImageStores
    Clears <- ImageClears
    MaxAccept = 4
    MaxForeign = 1
SPECIFICATION Spec
INVARIANTS
    TypeOK
    SettledInOrder
    ReportedStoreIsInFlash
    NoStoreOnOldImage
    NoLostWakeup
PROPERTY ImplementsContract

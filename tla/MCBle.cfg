CONSTANTS
    Size = 10
    WORD = 2
    ACCUM = 4
    THRESHOLD = 2
    POOL = 2
    Peers <- AllPeers
    MaxDrops = 2
    MaxTimeouts = 1
    MaxFails = 1
    MaxEvents = 3
SPECIFICATION FairSpec
CHECK_DEADLOCK FALSE
INVARIANTS
    TypeOK
    StreamIsPrefix
    ReceivedIsStored
PROPERTIES
    TransferEnds

CONSTANTS
    Last = 6
    Hosts <- AllHosts
    SEQ = 4
    MAX_BUFFERS = 4
    POOL = 4
    SCHED = 3
    Noise = {"invalid", "other", "overlong"}
    MaxNoise = 1
    LineMax = 4
SPECIFICATION FairSpec
CHECK_DEADLOCK FALSE
INVARIANTS
    TypeOK
    ReceiverListens
PROPERTIES
    ImplementsStream
    TransferCompletes

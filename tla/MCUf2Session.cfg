CONSTANTS
    PageBlocks = 2
    AppPages = 2
    BootPages = 2
    MAX_BLOCKS = 5
    Vectors <- AppVectors
    BootImages = {"N"}
    GoodFiles <- AllFiles
    Devices <- AllDevices
SPECIFICATION FairSpec
INVARIANTS
    TypeOK
    StartsOldOrNew
    GoodFileAccepted
    BootloaderIsWhole
PROPERTIES
    FlashChangesOnlyUnmarked
    AckedIsInstalled
    CompletesBetweenCommands
    CompletionHappens

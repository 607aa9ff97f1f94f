CONSTANTS
    ImagePages = 2
    OtherPages = 1
    QueueSize = 2
    PendingCount = 1
    Stores <- SettingsStores
    Clears <- SettingsClear
    MaxAccept = 3
    MaxForeign = 2
SPECIFICATION FairSpec
PROPERTY EveryRequestSettles

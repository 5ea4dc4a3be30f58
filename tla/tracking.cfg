SPECIFICATION FairSpec
CONSTANTS
    Cn0Samples = 2
    MaxFail = 2
    PullIn = 1
    SyncLimit = 5
    Extend = 3
    MaxSilent = 3
    MaxSymbols = 2
    MaxMessages = 2
INVARIANTS
    TypeOK
    NoSilentLoss
PROPERTIES
    SilentSatelliteDropped
    WideTrackingEnds

SPECIFICATION FairSpec
CONSTANTS
    MaxDwells = 3
    Configs <- AllConfigs
    MaxStops = 2
    MaxQueue = 2
INVARIANTS
    TypeOK
    SingleSearch
    FreshStart
    VerdictIsForTarget
PROPERTIES
    AcquisitionEnds
    ImplementsChannelFsm
CHECK_DEADLOCK FALSE

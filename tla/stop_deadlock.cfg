SPECIFICATION FairSpec
CONSTANTS
    MaxDwells = 2
    Configs <- PlainConfigs
    MaxStops = 1
    MaxQueue = 2
PROPERTY StopReturns
CHECK_DEADLOCK FALSE

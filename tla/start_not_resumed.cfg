SPECIFICATION FairSpec
CONSTANTS
    NChannels = 1
    MaxAcq = 1
    NSats = 2
    Repeat = {}
    ByPort = {}
    Bands <- SingleBand
    Primary <- SingleBand
    Glonass = {}
    AssistedBy <- NoAssistance
    BandOf <- SingleBandOf
    FixedSat <- NoneFixed
    AssistDual = FALSE
    Agnss = FALSE
    VisibleLists <- NoVisible
    Commands <- StandbyCommands
    MaxCommands = 2
PROPERTY StartResumes

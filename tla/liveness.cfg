SPECIFICATION FairSpec
CONSTANTS
    NChannels = 3
    MaxAcq = 1
    NSats = 4
    Repeat = {}
    ByPort = {1}
    Bands <- SingleBand
    Primary <- SingleBand
    Glonass = {}
    AssistedBy <- NoAssistance
    BandOf <- SingleBandOf
    FixedSat <- FirstFixed
    AssistDual = FALSE
    Agnss = FALSE
    VisibleLists <- NoVisible
    Commands <- StopCommands
    MaxCommands = 1
INVARIANTS
    AcqCountExact
    AcquisitionsLimited
    FlowgraphViewAgrees
    ChannelBlocksAgree
    FixedSatellitesReserved
PROPERTIES
    NoOvertaking
    NoStarvation
    StopReached

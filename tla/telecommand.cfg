SPECIFICATION Spec
CONSTANTS
    NChannels = 2
    MaxAcq = 1
    NSats = 3
    Repeat = {}
    ByPort = {}
    Bands <- SingleBand
    Primary <- SingleBand
    Glonass = {}
    AssistedBy <- NoAssistance
    BandOf <- SingleBandOf
    FixedSat <- NoneFixed
    AssistDual = FALSE
    Agnss = TRUE
    VisibleLists <- SomeVisible
    Commands <- AllCommands
    MaxCommands = 2
INVARIANTS
    TypeOK
    SignalsConserved
    ListsHaveNoDuplicates
    SearchFindsSignal
PROPERTY NoStartInStandby

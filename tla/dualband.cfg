SPECIFICATION Spec
CONSTANTS
    NChannels = 4
    MaxAcq = 2
    NSats = 3
    Repeat = {0, 1}
    ByPort = {2}
    Bands <- DualBands
    Primary <- DualPrimary
    Glonass = {}
    AssistedBy <- DualAssistance
    BandOf <- DualBandOf
    FixedSat <- PrimaryFixed
    AssistDual = TRUE
    Agnss = FALSE
    VisibleLists <- NoVisible
    Commands <- NoCommands
    MaxCommands = 0
INVARIANTS
    SignalsConserved
    AssistedOnce

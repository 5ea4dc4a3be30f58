SPECIFICATION Spec
CONSTANTS
    Sats <- TwoSats
    MaxPages = 8
    ErrorLimit = 6
    Misreads = TRUE
    Reassigns = TRUE
INVARIANT TypeOK
PROPERTIES
    IntactPagesPublished
    ImplementsPageStream

SPECIFICATION Spec
CONSTANTS
    Sats <- TwoSats
    MaxPages = 4
    ErrorLimit = 6
    Misreads = FALSE
    Reassigns = TRUE
PROPERTY PublishedIsNew

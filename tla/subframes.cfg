SPECIFICATION Spec
CONSTANTS
    PRNs <- OneSatellite
    MaxSubframes = 2
    MaxBurst = 15
    Duplicates = TRUE
INVARIANTS
    SubframesGenuine
    IndexAgrees
    Resynchronises

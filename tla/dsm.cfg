SPECIFICATION FairSpec
CONSTANTS
    Schedule <- SameLength
    PublicKeys <- Keys
    Overlap = TRUE
INVARIANTS
    TypeOK
    ProcessedIsWhole
    NeverThrows
PROPERTY EventuallyVerified

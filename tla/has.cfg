SPECIFICATION Spec
CONSTANTS
    Mids <- TwoMids
    PidsOf <- SomeRows
    SizesOf <- SomeSizes
    FirstParity = 4
    Window = 1
    Jitter = 1
    Gap = 2
INVARIANTS
    TypeOK
    MessageIsWhole
    NeverStuck
    PublishedOnce
PROPERTY FreshPagesKept

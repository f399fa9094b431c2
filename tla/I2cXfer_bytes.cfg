CONSTANTS
    Transfers <- PairsOfKinds
    Retries = 3
    ReadValues <- Lengths
    CanTimeout = TRUE
SPECIFICATION FairSpec
INVARIANTS
    BusFramed
    ReadEndsWithNak
    ResultHonest
    BufferBound
PROPERTY
    TransferEnds

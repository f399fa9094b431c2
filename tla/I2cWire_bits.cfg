CONSTANTS
    Transfers <- WireTransfers
    Retries = 1
    ReadValues <- Bytes
    CanTimeout = TRUE
    Temps <- TwoTemps
    MaxLost = 0
    MaxHeld = 1
SPECIFICATION WireSpec
INVARIANTS
    HistoriesReal
    BytesExact
    LinesAsserted
PROPERTIES
    SdaStable
    ImplementsXfer

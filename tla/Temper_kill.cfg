CONSTANTS
    Transfers <- NoTransfers
    Retries = 3
    ReadValues <- Bytes
    CanTimeout = FALSE
    Temps <- TwoTemps
    MaxLost = 1
    MaxHeld = 0
    NoReading = NoReading
SPECIFICATION TemperSpec
INVARIANTS
    ResetFrees
    AttachSucceeds
    KeepsResolution
PROPERTY
    ImplementsSensor

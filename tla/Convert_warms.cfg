CONSTANTS
    Lowest <- Coldest
    Highest = 32000
    NearZero = 5200
    Stride = 37
    Units <- EveryUnit
    Calibrations <- SomeCalibrations
SPECIFICATION ConvertSpec
INVARIANT ShownNear
PROPERTY WarmerPrintsHigher
CHECK_DEADLOCK FALSE

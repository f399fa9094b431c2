CONSTANTS
    Words <- EdgeWords
    NoReading = NoReading
SPECIFICATION Spec
PROPERTIES
    ReadingMeasured
    CleanUpdateStores

CONSTANTS
    Meas <- Readings
    ClientKeys <- TriedKeys
    ClientValues <- TriedValues
SPECIFICATION Spec
INVARIANTS
    KeysSorted
    HeldEntryValid
PROPERTY
    ImplementsStore

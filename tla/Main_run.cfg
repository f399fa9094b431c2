CONSTANTS
    Key <- Keys3
    Value = {"old", "a", "b"}
    Protected = {1}
    Defaults <- Given
    Names = {"usb:003.1", "usb:003.2", "usb:004.1"}
    CommandLines <- Lines
    MaxFound = 3
SPECIFICATION FairSpec
INVARIANTS
    NumberIsLine
    ListsAll
    PrintsAsSetBefore
PROPERTY
    EveryArgumentDone
CHECK_DEADLOCK FALSE

SPECIFICATION Spec
CONSTANTS
    u1 = u1
    u2 = u2
    u3 = u3
    NoUsb = NoUsb
    None = None
    Zero = Zero
    Usb <- Pair
    Driver <- PairDriver
    NumIfaces <- PairIfaces
    MaxDev = 3
    MaxOpen = 2
    Meas = {m1}
    ClientKeys = {"units", "reading"}
    ClientValues = {"K", "bogus"}
    ValidUnits = {"C", "K"}
INVARIANTS
    TypeOK
    NoAssertFails
    HandlesOwned
    SoleUser
    FreshAttach
    WildOnlyIfGone
CHECK_DEADLOCK FALSE

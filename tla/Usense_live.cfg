SPECIFICATION FairSpec
CONSTANTS
    u1 = u1
    u2 = u2
    u3 = u3
    NoUsb = NoUsb
    None = None
    Zero = Zero
    Usb <- Three
    Driver <- ThreeDriver
    NumIfaces <- ThreeIfaces
    MaxDev = 2
    MaxOpen = 2
    Meas = {m1}
    ClientKeys = {"units", "reading"}
    ClientValues = {"bogus", "toolong"}
    ValidUnits = {"C", "K"}
INVARIANT
    OpenIsReady
PROPERTIES
    SettledTable
    CallsReturn
CHECK_DEADLOCK FALSE

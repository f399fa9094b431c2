SPECIFICATION Spec
CONSTANTS
    u1 = u1
    u2 = u2
    u3 = u3
    NoUsb = NoUsb
    None = None
    Zero = Zero
    Usb <- One
    Driver <- OneGotemp
    NumIfaces <- TwoIfaces
    MaxDev = 2
    MaxOpen = 2
    Meas = {m1, m2}
    ClientKeys = {"units", "calibrate.mult", "calibrate.mul", "reading"}
    ClientValues = {"K", "bogus", "toolong"}
    ValidUnits = {"C", "K"}
INVARIANTS
    ReadingIsFresh
CHECK_DEADLOCK FALSE

CONSTANTS
    SentBytes <- AddressBytes
    Speeds <- EdgeSpeeds
    MaxFail = 3
    MaxLate = 1
    MaxQueue = 4
SPECIFICATION Spec
INVARIANTS
    SampleTrue
    OpenConfigured
    LinesFollow
    BaudNearest
PROPERTY
    CallsReturn

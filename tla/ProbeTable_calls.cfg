CONSTANTS
    Own <- OwnProbes
    Devices <- TwoDevices
    Matches <- BothMatch
    CopyOrders <- Up
    MaxProbes = 6
SPECIFICATION Spec
PROPERTY
    ImplementsList

CONSTANTS
    NULL = NULL
    UsbDevices = {u1, u2}
    MaxOpens = 2
    MaxTransfers = 2
    Count = 2
SPECIFICATION FairSpec
INVARIANTS
    TypeOK
    NothingIsLost
    InFlightIsServed
PROPERTY FinalizerEnds
CHECK_DEADLOCK FALSE

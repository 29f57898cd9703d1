CONSTANTS
    NULL = NULL
    UsbDevices = {u1, u2}
    MaxOpens = 2
    MaxTransfers = 2
    Count = 2
SPECIFICATION Spec
INVARIANT CloseReleasesAll
CHECK_DEADLOCK FALSE

CONSTANTS
    MaxLen = 3
    wMaxPacketSizes = {1, 3}
SPECIFICATION Spec
INVARIANTS
    CancelledIsReported

CONSTANTS
    MaxLen = 5
    wMaxPacketSizes = {0, 1, 3, 8, 2049}
SPECIFICATION Spec
INVARIANTS
    TypeOK
    MovesInBuffer
    ResultIsExact

CONSTANTS
    Count = 3
    BufSize = 2
    MaxSubmits = 5
    MaxRead = 2
SPECIFICATION FairSpec
INVARIANTS
    TypeOK
    ReadsInOrder
    FifoNeverBlocks
    EndsClean
PROPERTIES
    UsesProtocol
    ReadReturns

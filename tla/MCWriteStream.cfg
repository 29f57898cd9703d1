CONSTANTS
    Count = 2
    BufSize = 2
    MaxSubmits = 4
    MaxWrite = 3
SPECIFICATION FairSpec
INVARIANTS
    TypeOK
    InOrder
    WrittenCountsToFirstFailure
    CloseNilMeansSuccess
    BufferIsFree
    EndsClean
PROPERTIES
    UsesProtocol
    WriteReturns

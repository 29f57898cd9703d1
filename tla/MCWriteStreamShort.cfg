CONSTANTS
    Count = 3
    BufSize = 2
    MaxSubmits = 4
    MaxWrite = 3
SPECIFICATION Spec
INVARIANT
    SendsOnlyTheData

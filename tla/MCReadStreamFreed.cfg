CONSTANTS
    Count = 3
    BufSize = 1
    MaxSubmits = 4
    MaxRead = 1
SPECIFICATION Spec
INVARIANT AllFreed

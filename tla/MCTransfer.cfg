CONSTANTS
    NULL = NULL
    Goroutines = {g1, g2}
    Transfers = {t1, t2}
    Ptrs = {p1, p2}
    CancelMayFail = TRUE
SPECIFICATION FairSpec
INVARIANTS
    TypeOK
    CompletionReachesItsWaiter
    InFlightMemoryIsOwned
    OneSignalPerSubmission
    CollectSeesFinalStatus
PROPERTIES
    ImplementsProtocol
    WaitReturns

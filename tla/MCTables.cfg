CONSTANTS
    CfgNumbers = {1, 2}
    Numbers = {0, 1}
    Alternates = {0, 1}
    MaxConfigs = 2
    MaxSlots = 3
    MaxSettings = 2
    Ids = {1, 257}
    MaxLines = 4
SPECIFICATION TablesSpec
INVARIANTS
    TypeOK
    FoundIsFirstOffered
    PanicMeansRepeatedSlot
    HangsByLevel
    MapsMatchFile
    NamesMatchFile
CHECK_DEADLOCK FALSE

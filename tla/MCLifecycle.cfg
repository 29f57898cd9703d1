CONSTANTS
    NULL = NULL
    Ctx = Ctx
    Goroutines = {g1, g2, g3}
    Devices = {d1, d2}
    Configs = {c1, c2}
    Interfaces = {i1, i2}
    Numbers = {0}
    CfgNumbers = {1, 2}
    OneConfig = TRUE
SPECIFICATION Spec
SYMMETRY Symmetry
INVARIANTS
    TypeOK
    HandlesAreLive
    ClaimsAreOwned
    ConfigStaysActive
    NoDeadlock
PROPERTY ImplementsTree

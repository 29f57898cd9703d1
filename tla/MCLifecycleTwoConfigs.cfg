CONSTANTS
    NULL = NULL
    Ctx = Ctx
    Goroutines = {g1, g2}
    Devices = {d1}
    Configs = {c1, c2}
    Interfaces = {i1, i2}
    Numbers = {0, 1}
    CfgNumbers = {1, 2}
    OneConfig = FALSE
SPECIFICATION Spec
INVARIANT OneConfigPerDevice

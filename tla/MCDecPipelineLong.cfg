SPECIFICATION Spec
CHECK_DEADLOCK FALSE
CONSTANTS
    Bufs = {b1, b2, b3, b4, b5}
    NoBuf = NoBuf
    PoolSize = 6
    NumMv = 4
    DpbSize = 4
    NumRef = 1
    MaxRefFrames = 1
    LowRef = FALSE
    PicKinds <- Forward
    StackSize = 1
    RefRing = 2
    MaxPics = 5
    MaxFlush = 0
    DriverMayFail = TRUE
SYMMETRY Interchangeable
INVARIANTS MvSuffice

SPECIFICATION Spec
CONSTANTS
    Bufs = {b1, b2, b3}
    NoBuf = NoBuf
    PoolSize = 6
    NumMv = 5
    DpbSize = 4
    NumRef = 1
    MaxRefFrames = 1
    LowRef = TRUE
    PicKinds <- Damaged
    StackSize = 2
    RefRing = 2
    MaxPics = 3
    MaxFlush = 1
    DriverMayFail = FALSE
SYMMETRY Interchangeable
INVARIANTS AssertionsHold WriteExclusive BuffersAccounted ReferencesExact
PROPERTIES NoPictureLost

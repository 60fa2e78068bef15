SPECIFICATION ReadySpec
CONSTANTS
    Bufs = {b1, b2, b3}
    NoBuf = NoBuf
    PoolSize = 6
    NumMv = 4
    DpbSize = 4
    NumRef = 1
    MaxRefFrames = 1
    LowRef = FALSE
    PicKinds <- Reordered
    StackSize = 1
    RefRing = 2
    MaxPics = 3
    MaxFlush = 0
    DriverMayFail = FALSE
PROPERTIES OutputInPocOrder DestroyReturns PicturesShown PopReturns

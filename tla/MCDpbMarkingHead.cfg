SPECIFICATION Spec
CONSTANTS
    DpbSize = 4
    PicIDs = {0, 1, 2}
    NumRef = 3
    MaxRefFrames = 3
    MaxFrameNum = 5
    POCs = {2, 4}
    OpLists <- Streams
    MaxGap = 0
    MaxPictures = 5
    LowRef = FALSE
    StackSize = 2
    Careful = FALSE
INVARIANTS HeadIsFirst

CHECK_DEADLOCK FALSE
SPECIFICATION DpbSpec
CONSTANTS
    DpbSize = 4
    PicIDs = {0, 1, 2}
    NumRef = 3
    MaxRefFrames = 3
    MaxFrameNum = 5
    POCs = {2, 4}
    OpLists <- Streams
    MaxGap = 1
    MaxPictures = 5
    LowRef = TRUE
    StackSize = 2
    Careful = TRUE
    MaxPicOrderCntLsb = 8
    NumReorder = 1
    MaxLatency = 1
    IrapPOCs = {7}
    Kinds <- PicKinds
    MaxHevcPictures = 5
    InvalidAfter = {3}
INVARIANTS ListsAgree BookkeepingExact ReadyForPicture ListsExact
PROPERTIES ImplementsRefMarking ImplementsHevcBumping

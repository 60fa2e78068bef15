SPECIFICATION FairSpec
CONSTANTS
    NumPictures = 7
    MaxCmd = 5
    MaxSource = 5
    MaxStream = 10
    Confs <- AllConfs
INVARIANTS ReferencesExact AssertionsHold EncodedInOrder
PROPERTIES ApplicationEnds

SPECIFICATION FairSpec
CONSTANTS
    InBuffers = {i1}
    OutBuffers = {o1, o2}
    None = None
    Careful = TRUE
    MaxCommands = 4
    MaxFaults = 1
INVARIANTS EachBufferOnce FlushReturnsBuffers AssertionsHold
PROPERTIES CommandsAnswered 

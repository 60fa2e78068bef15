SPECIFICATION Spec
CONSTANTS
    InBuffers = {i1}
    OutBuffers = {o1, o2}
    None = None
    Careful = FALSE
    MaxCommands = 4
    MaxFaults = 0
INVARIANTS AssertionsAlwaysHold

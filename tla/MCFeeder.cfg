SPECIFICATION FairSpec
CONSTANTS
    Buffers = {b1, b2}
    EosBuf = EosBuf
    NoBuf = NoBuf
    MaxElem = 2
    CircSize = 4
    StackSize = 2
    SliceModes = {TRUE, FALSE}
    Contents <- Mixed
    MaxPush = 2
    MaxFlush = 1
INVARIANTS StreamKept SemaphoreExact
PROPERTIES QueueIsEmptied DestroyReturns EndOfStreamUnlessDropped

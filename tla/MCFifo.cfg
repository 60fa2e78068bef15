CONSTANTS
    Producers = {p1}
    Consumers = {c1, c2}
    Elem = {e1, e2}
    NoElem = NULL
    Free = FREE
    MaxElem = 2
SPECIFICATION FairSpec
INVARIANTS FifoInv NoOverwriteNoUnderrun
PROPERTIES ImplementsBoundedQueue QueueReturns StoredIsTaken

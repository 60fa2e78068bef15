CONSTANTS
    Reader = reader
    Slave = slave
    Main = main
    Getters = {reader}
    Givers = {slave, main}
    Buffers = {b1, b2}
    NoBuf = NoBuf
    Eos = Eos
    FileLen = 2
    Loops = 2
    Timeouts = {TRUE, FALSE}
    MaxFaults = 1
SPECIFICATION FairSpec
INVARIANTS PutBackNeverWaits QueueOwnsInputs LoopsWhole InputsReturned
 
CHECK_DEADLOCK FALSE

----------------------------- MODULE DecoderApp -----------------------------
(***************************************************************************)
(* The decoder application (vcu-ctrl-decoder/exe_decoder/main.cpp) over    *)
(* its pool of input buffers: the thread Main of SafeMain, the thread      *)
(* Reader of AsyncFileInput, and the slave thread of the decoder, which    *)
(* empties the queue of input buffers, has thread N of its channel search  *)
(* the start codes of what it took (ScChannel), and calls back.            *)
(*                                                                         *)
(* A file is FileLen reads; it is decoded Loops times.  Of the decoder     *)
(* only what the application sees is here: Feeder and DecPipeline have the *)
(* rest.  The reference of the queue counts as one of Slave.               *)
(***************************************************************************)
EXTENDS BufPool, ScChannel

CONSTANTS
    Reader, Slave, Main,
    Eos,        \* the end of input in the queue
    FileLen,    \* buffers a file fills
    Loops,      \* the option -loop
    Timeouts,   \* is there an option --timeout
    MaxFaults   \* bound: failures of the decoder, and pictures past the option --max-frames

ASSUME DecoderAppAssumption ==
    /\ Getters = {Reader} /\ Givers = {Slave, Main} /\ Slave # Main
    /\ Eos \notin Buffers
    /\ FileLen \in Nat /\ Loops \in Nat \ {0} /\ Timeouts \subseteq BOOLEAN
    /\ MaxFaults \in Nat

VARIABLES
    main,       \* place of Main
    loop,       \* iLoop, from 1
    exitMain,   \* the event hExitMain
    exit,       \* exit of the AsyncFileInput
    reader, pos,    \* place of Reader, reads done
    slave, stopped, leaving, keepGoing,     \* the decoder's feeder
    input,      \* its queue
    data,       \* the loop in which each buffer was filled
    eaten,      \* buffers of each loop the decoder took
    hasTimeout, timedOut, faults, dropped

appVars == <<main, loop, exitMain, exit, reader, pos, slave, stopped, leaving, keepGoing,
             input, data, eaten, hasTimeout, timedOut, faults, dropped, scVars>>
vars == <<poolVars, appVars>>

mainVars == <<main, loop, exit, hasTimeout, timedOut>>
readerVars == <<reader, pos, data>>
slaveVars == <<slave, stopped, leaving, eaten, faults, dropped>>

Init ==
    /\ PoolInit /\ ScInit
    /\ main = "init" /\ loop = 0 /\ exitMain = FALSE /\ exit = FALSE
    /\ reader = "ended" /\ pos = 0
    /\ slave = "run" /\ stopped = TRUE /\ leaving = FALSE /\ keepGoing = TRUE
    /\ input = <<>> /\ data = [b \in Buffers |-> 0] /\ eaten = [l \in 1 .. Loops |-> 0]
    /\ hasTimeout \in Timeouts /\ timedOut = FALSE /\ faults = 0 /\ dropped = FALSE
-----------------------------------------------------------------------------
(* Main: SafeMain *)

MainStep(from, to) ==
    /\ main = from /\ main' = to
    /\ UNCHANGED <<slaveVars, scVars, data, hasTimeout>>

InitPool ==
    /\ main = "init"
    /\ \E b \in Buffers : AllocBuf(b)
    /\ UNCHANGED appVars

\* The AsyncFileInput of the next loop
StartLoop ==
    /\ MainStep(main, "wait")
    /\ made = Buffers
    /\ main = "init" \/ (main = "joined" /\ loop < Loops)
    /\ loop' = loop + 1 /\ exit' = FALSE
    /\ reader' = "loop" /\ pos' = 0
    /\ UNCHANGED <<poolVars, exitMain, keepGoing, input, timedOut>>

\* Mutated: the event is left set
WakeUpKeepsEvent ==
    /\ MainStep("wait", "decommit")
    /\ exitMain
    /\ UNCHANGED <<poolVars, loop, exitMain, exit, reader, pos, keepGoing, input, timedOut>>

WakeUp ==
    /\ MainStep("wait", "decommit")
    /\ exitMain /\ exitMain' = FALSE
    /\ UNCHANGED <<poolVars, loop, exit, reader, pos, keepGoing, input, timedOut>>

TimeOut ==
    /\ MainStep("wait", "decommit")
    /\ hasTimeout /\ timedOut' = TRUE
    /\ UNCHANGED <<poolVars, loop, exitMain, exit, reader, pos, keepGoing, input>>

\* Mutated: the reader is not released
DecommitPoolNot ==
    /\ MainStep("decommit", "exit")
    /\ UNCHANGED <<poolVars, loop, exitMain, exit, reader, pos, keepGoing, input, timedOut>>

DecommitPool ==
    /\ MainStep("decommit", "exit")
    /\ Decommit(Main)
    /\ UNCHANGED <<loop, exitMain, exit, reader, pos, keepGoing, input, timedOut>>

\* ~AsyncFileInput
AskExit ==
    /\ MainStep("exit", "join")
    /\ exit' = TRUE
    /\ UNCHANGED <<poolVars, loop, exitMain, reader, pos, keepGoing, input, timedOut>>

JoinReader ==
    /\ MainStep("join", "joined")
    /\ reader = "ended" /\ pc[Reader] = "idle"
    /\ UNCHANGED <<poolVars, loop, exitMain, exit, reader, pos, keepGoing, input, timedOut>>

\* AL_Decoder_Destroy, by whichever way the scope is left
DestroyDecoder ==
    /\ MainStep("joined", "joinSlave")
    /\ loop = Loops
    /\ keepGoing' = FALSE
    /\ UNCHANGED <<poolVars, loop, exitMain, exit, reader, pos, input, timedOut>>

\* Mutated: what the slave left in the queue stays there
JoinSlaveOnly ==
    /\ MainStep("joinSlave", "channel")
    /\ slave = "exited" /\ pc[Slave] = "idle"
    /\ UNCHANGED <<poolVars, loop, exitMain, exit, reader, pos, keepGoing, input, timedOut>>

JoinSlave ==
    /\ MainStep("joinSlave", "drain")
    /\ slave = "exited" /\ pc[Slave] = "idle"
    /\ UNCHANGED <<poolVars, loop, exitMain, exit, reader, pos, keepGoing, input, timedOut>>

\* AL_Patchworker_Deinit, one buffer of the queue
Drain ==
    /\ MainStep("drain", "drain")
    /\ input # <<>> /\ input' = Tail(input)
    /\ pc[Main] = "idle"
    /\ IF Head(input) = Eos THEN UNCHANGED poolVars ELSE Unref(Main, Slave, Head(input))
    /\ UNCHANGED <<loop, exitMain, exit, reader, pos, keepGoing, timedOut>>

Drained ==
    /\ MainStep("drain", "channel")
    /\ input = <<>> /\ pc[Main] = "idle"
    /\ UNCHANGED <<poolVars, loop, exitMain, exit, reader, pos, keepGoing, input, timedOut>>

\* DecChannelMcu_Destroy
MainScStep(from, to) ==
    /\ main = from /\ main' = to
    /\ UNCHANGED <<poolVars, slaveVars, readerVars, loop, exit, hasTimeout, timedOut, exitMain,
                   keepGoing, input>>

EndChannel == MainScStep("channel", "wakeN") /\ PutEvent("ended")

WakeToEnd == MainScStep("wakeN", "joinN") /\ WakeN

JoinN == MainScStep("joinN", "pool") /\ pcN = "ended" /\ UNCHANGED scVars

\* AL_BufPool_Deinit, which asserts that no buffer is referenced
DeinitPool ==
    /\ MainStep("pool", "done")
    /\ UNCHANGED <<poolVars, loop, exitMain, exit, reader, pos, keepGoing, input, timedOut>>

MainNext ==
    \/ InitPool \/ StartLoop \/ WakeUp \/ TimeOut \/ DecommitPool \/ AskExit \/ JoinReader
    \/ DestroyDecoder \/ JoinSlave \/ Drain \/ Drained \/ EndChannel
    \/ WakeToEnd \/ JoinN \/ DeinitPool
-----------------------------------------------------------------------------
(* Reader: AsyncFileInput::run *)

ReaderStep(from, to) ==
    /\ reader = from /\ reader' = to
    /\ pc[Reader] = "idle"
    /\ UNCHANGED <<mainVars, slaveVars, scVars, exitMain, keepGoing>>

ReaderGets ==
    /\ ReaderStep("loop", "get")
    /\ ~exit
    /\ GetBuffer(Reader)
    /\ UNCHANGED <<pos, data, input>>

ReaderExits ==
    /\ ReaderStep("loop", "ended")
    /\ exit
    /\ UNCHANGED <<poolVars, pos, data, input>>

Got == {b \in Buffers : Reader \in refs[b]}

\* bufpool_decommited_error
ReaderRefused ==
    /\ ReaderStep("get", "loop")
    /\ Got = {}
    /\ UNCHANGED <<poolVars, pos, data, input>>

\* Mutated: the decoder takes no reference
PushBufferUnowned ==
    /\ ReaderStep("get", "drop")
    /\ pos < FileLen /\ pos' = pos + 1
    /\ \E b \in Got :
         /\ data' = [data EXCEPT ![b] = loop]
         /\ input' = Append(input, b)
    /\ UNCHANGED poolVars

\* AL_Decoder_PushBuffer
PushBuffer ==
    /\ ReaderStep("get", "drop")
    /\ pos < FileLen /\ pos' = pos + 1
    /\ \E b \in Got :
         /\ data' = [data EXCEPT ![b] = loop]
         /\ Ref(Reader, Slave, b)
         /\ input' = Append(input, b)

\* AL_Decoder_Flush
Flush ==
    /\ ReaderStep("get", "dropLast")
    /\ pos = FileLen /\ Got # {}
    /\ input' = Append(input, Eos)
    /\ UNCHANGED <<poolVars, pos, data>>

\* The shared pointer goes out of scope
DropBuffer ==
    /\ ReaderStep(reader, IF reader = "drop" THEN "loop" ELSE "ended")
    /\ reader \in {"drop", "dropLast"}
    /\ \E b \in Got : Unref(Reader, Reader, b)
    /\ UNCHANGED <<pos, data, input>>

ReaderNext ==
    \/ ReaderGets \/ ReaderExits \/ ReaderRefused \/ PushBuffer \/ Flush \/ DropBuffer
-----------------------------------------------------------------------------
(* Slave: Slave_EntryPoint and the callbacks of the application *)

SlaveStep(from, to) ==
    /\ slave = from /\ slave' = to
    /\ pc[Slave] = "idle"
    /\ UNCHANGED <<mainVars, readerVars, scVars, keepGoing>>

\* AL_Patchworker_Transfer; pictures may be found in it or not.  Start codes are not searched
\* when too little was taken or when the slave is asked to stop
TakeInput ==
    /\ \E to \in {"refill", "run"} : SlaveStep("run", to)
    /\ input # <<>> /\ Head(input) # Eos
    /\ LET b == Head(input)
       IN  /\ Unref(Slave, Slave, b)
           /\ eaten' = [eaten EXCEPT ![data[b]] = @ + 1]
    /\ input' = Tail(input)
    /\ stopped' \in {stopped, FALSE}
    /\ UNCHANGED <<exitMain, leaving, faults, dropped>>

\* RefillStartCodes, for what was taken
SlaveScStep(from, to) ==
    /\ slave = from /\ slave' = to
    /\ pc[Slave] = "idle"
    /\ UNCHANGED <<poolVars, mainVars, readerVars, keepGoing, exitMain, stopped, leaving, eaten,
                   dropped, input>>

SearchSC == SlaveScStep("refill", "wakeN") /\ PutEvent("search") /\ UNCHANGED faults

WakeToSearch == SlaveScStep("wakeN", "waitSc") /\ WakeN /\ UNCHANGED faults

SearchFails ==
    /\ SlaveScStep("refill", "waitSc")
    /\ faults < MaxFaults /\ faults' = faults + 1
    /\ SearchRefused

RefillDone ==
    /\ SlaveScStep("waitSc", "run")
    /\ scDone /\ scDone' = FALSE
    /\ UNCHANGED <<scList, scLost, pcN, faults>>

\* AL_Decoder_InternalFlush, up to AL_Decoder_FlushInput
EndOfInput ==
    /\ SlaveStep("run", "flush")
    /\ input # <<>> /\ Head(input) = Eos
    /\ input' = Tail(input)
    /\ UNCHANGED <<poolVars, exitMain, stopped, leaving, eaten, faults, dropped>>

SlaveExits ==
    /\ SlaveStep("run", IF stopped THEN "exited" ELSE "flush")
    /\ ~keepGoing
    /\ leaving' = TRUE
    /\ UNCHANGED <<poolVars, exitMain, stopped, eaten, faults, dropped, input>>

\* AL_Patchworker_Drop, one buffer of the queue
DropInput ==
    /\ SlaveStep(slave, slave)
    /\ slave \in {"flush", "full"}
    /\ input # <<>> /\ input' = Tail(input)
    /\ IF Head(input) = Eos THEN UNCHANGED poolVars ELSE Unref(Slave, Slave, Head(input))
    /\ dropped' = (dropped \/ slave = "full")
    /\ UNCHANGED <<exitMain, stopped, leaving, eaten, faults>>

\* Display::Process with neither a picture nor its description
SignalEos ==
    /\ SlaveStep("flush", IF leaving THEN "exited" ELSE "run")
    /\ input = <<>>
    /\ exitMain' = TRUE
    /\ stopped' = TRUE
    /\ UNCHANGED <<poolVars, leaving, eaten, faults, dropped, input>>

\* The circular buffer is full and no unit ends in it
InputFull ==
    /\ SlaveStep("run", "full")
    /\ faults < MaxFaults /\ faults' = faults + 1
    /\ UNCHANGED <<poolVars, exitMain, stopped, leaving, eaten, dropped, input>>

InputDropped ==
    /\ SlaveStep("full", "run")
    /\ input = <<>>
    /\ UNCHANGED <<poolVars, exitMain, stopped, leaving, eaten, faults, dropped, input>>

\* Display::Process of a picture with an error, or past the last one wanted
PictureEndsAll ==
    /\ SlaveStep(slave, slave)
    /\ slave \notin {"full", "exited"} /\ ~stopped
    /\ faults < MaxFaults /\ faults' = faults + 1
    /\ exitMain' = TRUE
    /\ UNCHANGED <<poolVars, stopped, leaving, eaten, dropped, input>>

\* The first slice sets nothing up: errorHandler, sFrameDecoded with no picture, and the
\* thread ends
SlaveFails ==
    /\ SlaveStep("run", "exited")
    /\ stopped /\ \E l \in 1 .. Loops : eaten[l] > 0
    /\ faults < MaxFaults /\ faults' = faults + 1
    /\ exitMain' = TRUE
    /\ UNCHANGED <<poolVars, stopped, leaving, eaten, dropped, input>>

SlaveRuns ==
    \/ TakeInput \/ SearchSC \/ WakeToSearch \/ RefillDone
    \/ EndOfInput \/ SlaveExits \/ DropInput \/ SignalEos \/ InputDropped

SlaveNext == SlaveRuns \/ SearchFails \/ InputFull \/ PictureEndsAll \/ SlaveFails
-----------------------------------------------------------------------------
PoolThread(t) == PoolStep(t) /\ UNCHANGED appVars

othersVars == <<poolVars, main, loop, exitMain, exit, reader, pos, slave, stopped, leaving,
                keepGoing, input, data, eaten, hasTimeout, timedOut, dropped>>

ChannelNext == NNext /\ UNCHANGED <<othersVars, faults>>

SearchStatusFails ==
    /\ StatusFails
    /\ faults < MaxFaults /\ faults' = faults + 1
    /\ UNCHANGED othersVars

Next ==
    \/ MainNext \/ ReaderNext \/ SlaveNext
    \/ \E t \in Threads : PoolThread(t)
    \/ \E t \in Threads : WakeUnsignaled(t) /\ UNCHANGED appVars
    \/ ChannelNext \/ SearchStatusFails
    \/ WakeUnasked /\ UNCHANGED <<othersVars, faults>>

Spec == Init /\ [][Next]_vars

\* Every thread keeps running, and a timeout passes; the decoder need not fail
FairSpec ==
    /\ Spec
    /\ WF_vars(MainNext) /\ WF_vars(ReaderNext) /\ WF_vars(SlaveRuns) /\ WF_vars(ChannelNext)
    /\ \A t \in Threads : WF_vars(PoolThread(t))
-----------------------------------------------------------------------------
(* Properties *)

\* Where the ends of input are in the queue
Ends == {i \in DOMAIN input : input[i] = Eos}

\* Types of the variables of the application; the queue holds one end of input per loop.
TypeOK ==
    /\ PoolTypeOK
    /\ main \in {"init", "wait", "decommit", "exit", "join", "joined", "joinSlave", "drain",
                 "channel", "wakeN", "joinN", "pool", "done"}
    /\ loop \in 0 .. Loops /\ pos \in 0 .. FileLen /\ faults \in 0 .. MaxFaults
    /\ {exitMain, exit, stopped, leaving, keepGoing, hasTimeout, timedOut, dropped}
         \subseteq BOOLEAN
    /\ reader \in {"loop", "get", "drop", "dropLast", "ended"}
    /\ slave \in {"run", "refill", "wakeN", "waitSc", "flush", "full", "exited"}
    /\ scList \in Seq({"search", "ended"}) /\ {scDone, scLost} \subseteq BOOLEAN
    /\ pcN \in {"test", "asleep", "fetch", "status", "ended"}
    /\ input \in Seq(Buffers \cup {Eos})
    /\ data \in [Buffers -> 0 .. Loops]
    /\ eaten \in [1 .. Loops -> 0 .. FileLen]
    /\ Cardinality(Ends) <= Loops

\* What is queued for the decoder is not what the reader may fill: a buffer in the queue is
\* referenced by the queue, and is there once (AL_BufferFeeder_PushBuffer), and every buffer
\* is in one place of the pool or referenced; every variable keeps its type.
QueueOwnsInputs ==
    /\ TypeOK
    /\ InOnePlace
    /\ \A i \in DOMAIN input :
        input[i] # Eos => /\ Slave \in refs[input[i]]
                          /\ \A j \in DOMAIN input \ {i} : input[j] # input[i]

\* The event that ends a loop is the one of this loop: unless the decoder failed or time ran
\* out, main leaves a loop only when the decoder took the whole file (SafeMain).
LoopsWhole ==
    main = "decommit" /\ faults = 0 /\ ~timedOut => eaten[loop] = FileLen

\* When the pool is destroyed every buffer is back in it, whether the loop ended by itself,
\* by an error or by a timeout: the assertion of AL_Buffer_Destroy holds.
InputsReturned ==
    main = "pool" => iBufNumber = MaxElem /\ \A b \in Buffers : refs[b] = {}

\* What follows up to AppInv is the inductive invariant behind DecoderAppProofs.

Released == {"joined", "joinSlave", "drain", "channel", "wakeN", "joinN", "pool", "done"}
Destroying == Released \ {"joined"}
Joined == Destroying \ {"joinSlave"}
Emptied == Joined \ {"drain"}

\* The reader holds a buffer from the end of AL_BufPool_GetBuffer to the end of its scope, and
\* is inside a call of the pool in the other places only as its code says.
ReaderPlace ==
    /\ pc[Reader] \in {"look", "wait", "asleep", "woken", "postSpace"} => reader = "get"
    /\ pc[Reader] \in {"getSpace", "store"} => reader \in {"loop", "ended"}
    /\ reader \in {"loop", "ended"} \/ pc[Reader] # "idle" => Got = {}
    /\ \A b, c \in Got : b = c

\* Only the reader asks for buffers; a thread that was joined is out of its calls.
ThreadPlaces ==
    /\ pc[Slave] \in {"idle", "getSpace", "store"} /\ pc[Main] \in {"idle", "getSpace", "store"}
    /\ slave \in {"wakeN", "waitSc", "exited"} => pc[Slave] = "idle"
    /\ main # "drain" => pc[Main] = "idle"
    /\ main \in Released => reader = "ended" /\ pc[Reader] = "idle"
    /\ main \in Joined => slave = "exited" /\ pc[Slave] = "idle"
    /\ main \in Emptied => input = <<>>
    /\ keepGoing <=> main \notin Destroying
    /\ leaving => ~keepGoing
    /\ main = "init" <=> loop = 0
    /\ main = "init" => reader = "ended" /\ input = <<>>
    /\ main # "init" => made = Buffers
    /\ pcN = "fetch" => scList # <<>>

Queued == {b \in Buffers : \E i \in DOMAIN input : input[i] = b}

\* The references are those of the reader and of the queue, which holds a buffer once.
QueueReferences ==
    /\ \A b \in Buffers : refs[b] \subseteq {Reader, Slave}
    /\ \A b \in Buffers : Slave \in refs[b] <=> b \in Queued
    /\ \A i, j \in DOMAIN input : input[i] = input[j] /\ input[i] # Eos => i = j

\* Of each loop the decoder took, and has in its queue, no more than was read.
HasRead(l) == IF l < loop THEN FileLen ELSE IF l = loop THEN pos ELSE 0
QueuedOf(l) == {b \in Queued : data[b] = l}
EatenWasRead ==
    /\ \A b \in Queued : data[b] \in 1 .. loop
    /\ \A l \in 1 .. Loops : eaten[l] + Cardinality(QueuedOf(l)) <= HasRead(l)
    /\ Cardinality(Ends) + (IF reader \in {"loop", "get", "drop"} THEN 1 ELSE 0) <= loop

\* The three phases of a loop in which nothing fails and time does not run out: buffers are
\* read, the end of input is in the queue, the end of input was taken.
Streaming ==
    /\ reader \in {"loop", "get", "drop"} /\ ~exitMain /\ slave # "flush"
    /\ \A i \in DOMAIN input : input[i] # Eos
    /\ eaten[loop] + Len(input) = pos
Ending ==
    /\ reader \in {"dropLast", "ended"} /\ ~exitMain /\ slave # "flush"
    /\ input # <<>> /\ \A i \in DOMAIN input : input[i] = Eos <=> i = Len(input)
    /\ eaten[loop] + Len(input) = FileLen + 1
Ended ==
    /\ reader \in {"dropLast", "ended"} /\ slave = (IF exitMain THEN "run" ELSE "flush")
    /\ input = <<>> /\ eaten[loop] = FileLen

CleanLoop ==
    faults = 0 /\ ~timedOut =>
        /\ slave # "full"
        /\ main = "init" => ~exitMain /\ slave = "run"
        /\ main = "wait" =>
            /\ ~exit /\ slave # "exited"
            /\ \A b \in Queued : data[b] = loop
            /\ Streaming \/ Ending \/ Ended
        /\ main \in {"decommit", "exit", "join", "joined"} =>
            /\ ~exitMain /\ slave = "run" /\ reader \in {"dropLast", "ended"}
            /\ input = <<>> /\ eaten[loop] = FileLen

AppInv ==
    /\ PoolInv /\ TypeOK /\ ReaderPlace /\ ThreadPlaces /\ QueueReferences
    /\ EatenWasRead /\ CleanLoop

\* The application waits for ever in three cases: a search of start codes was refused or
\* failed, which the slave is never told; or, without a timeout, the end of its input was
\* dropped, or the decoder had failed for good before this loop began.
NobodyAnswers ==
    \/ scLost /\ slave = "waitSc"
    \/ ~hasTimeout /\ (dropped \/ (slave = "exited" /\ keepGoing /\ loop > 1))

\* The application ends but for these cases: the reader is never left waiting for a buffer,
\* the slave for start codes that were found, nor main for the reader, the slave or N.
ApplicationEnds == <>(main = "done" \/ NobodyAnswers)
=============================================================================

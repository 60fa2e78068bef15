-------------------------- MODULE DecoderAppProofs --------------------------
(***************************************************************************)
(* Safety of the decoder application for every number of input buffers,    *)
(* of loops and of reads per file.                                         *)
(***************************************************************************)
EXTENDS DecoderApp, BufPoolProofs, FunctionTheorems, SequenceTheorems

\* The three threads.
LEMMA ThreeThreads ==
  /\ Threads = {Reader, Slave, Main}
  /\ Reader # Slave /\ Reader # Main /\ Slave # Main
  BY BufPoolAssumption, DecoderAppAssumption DEF Threads

\* The head and the tail of the queue of input buffers.
LEMMA QueueHead ==
  ASSUME input \in Seq(Buffers \cup {Eos}), input # <<>>
  PROVE  /\ Len(input) \in Nat /\ Len(input) > 0 /\ DOMAIN input = 1 .. Len(input)
         /\ Head(input) = input[1] /\ Head(input) \in Buffers \cup {Eos}
         /\ Tail(input) \in Seq(Buffers \cup {Eos}) /\ Len(Tail(input)) = Len(input) - 1
         /\ DOMAIN Tail(input) = 1 .. Len(input) - 1
         /\ \A i \in 1 .. Len(input) - 1 : Tail(input)[i] = input[i + 1]
  BY HeadTailProperties, EmptySeq, LenProperties

\* What is added to the queue comes last.
LEMMA QueueEnd ==
  ASSUME input \in Seq(Buffers \cup {Eos}), NEW x \in Buffers \cup {Eos}
  PROVE  /\ Len(input) \in Nat /\ DOMAIN input = 1 .. Len(input)
         /\ Append(input, x) \in Seq(Buffers \cup {Eos})
         /\ Len(Append(input, x)) = Len(input) + 1
         /\ DOMAIN Append(input, x) = 1 .. Len(input) + 1
         /\ \A i \in 1 .. Len(input) : Append(input, x)[i] = input[i]
         /\ Append(input, x)[Len(input) + 1] = x
  BY AppendProperties, LenProperties

\* A step of the application is a step on the pool, or leaves the pool alone.
LEMMA AppActsOnPool ==
  ASSUME TypeOK, Next
  PROVE  PoolAct \/ UNCHANGED poolVars
  <1>1. /\ Reader \in Threads /\ Slave \in Threads /\ Main \in Threads /\ Got \subseteq Buffers
        /\ input # <<>> => Head(input) \in Buffers \cup {Eos}
    BY ThreeThreads, QueueHead DEF TypeOK, Got
  <1>2. CASE MainNext
    <2>1. CASE InitPool \/ DecommitPool
      BY <1>1, <2>1 DEF InitPool, DecommitPool, PoolAct
    <2>2. CASE Drain
      BY <1>1, <2>2 DEF Drain, PoolAct
    <2>3. CASE MainNext /\ ~(InitPool \/ DecommitPool \/ Drain)
      BY <2>3 DEF MainNext, StartLoop, WakeUp, TimeOut, AskExit, JoinReader, DestroyDecoder, JoinSlave,
                  Drained, EndChannel, WakeToEnd, JoinN, DeinitPool, MainScStep
    <2> QED BY <1>2, <2>1, <2>2, <2>3
  <1>3. CASE ReaderNext
    <2>1. CASE ReaderGets \/ PushBuffer \/ DropBuffer
      BY <1>1, <2>1 DEF ReaderGets, PushBuffer, DropBuffer, PoolAct
    <2>2. CASE ReaderExits \/ ReaderRefused \/ Flush
      BY <2>2 DEF ReaderExits, ReaderRefused, Flush
    <2> QED BY <1>3, <2>1, <2>2 DEF ReaderNext
  <1>4. CASE SlaveNext
    <2>1. CASE TakeInput \/ DropInput
      BY <1>1, <2>1 DEF TakeInput, DropInput, PoolAct
    <2>2. CASE SlaveNext /\ ~(TakeInput \/ DropInput)
      BY <2>2 DEF SlaveNext, SlaveRuns, SearchSC, WakeToSearch, RefillDone, EndOfInput, SlaveExits,
                  SignalEos, InputDropped, SearchFails, InputFull, PictureEndsAll, SlaveFails, SlaveScStep
    <2> QED BY <1>4, <2>1, <2>2
  <1>5. CASE \E t \in Threads : PoolThread(t) \/ WakeUnsignaled(t)
    BY <1>5 DEF PoolThread, PoolAct
  <1>6. CASE ChannelNext \/ SearchStatusFails \/ (WakeUnasked /\ UNCHANGED <<othersVars, faults>>)
    BY <1>6 DEF ChannelNext, SearchStatusFails, othersVars
  <1> QED BY <1>2, <1>3, <1>4, <1>5, <1>6 DEF Next

\* A step of the application is one of Main, Reader, Slave, of a thread inside the pool, or of
\* the channel.
InPool == \E t \in Threads : (PoolStep(t) \/ WakeUnsignaled(t)) /\ UNCHANGED appVars
InChannel ==
  \/ ChannelNext \/ SearchStatusFails
  \/ WakeUnasked /\ UNCHANGED <<othersVars, faults>>

\* There are no other steps.
LEMMA NextCases == Next => MainNext \/ ReaderNext \/ SlaveNext \/ InPool \/ InChannel
  BY DEF Next, InPool, InChannel, PoolThread

\* What the main thread leaves alone.
LEMMA MainFrame ==
  ASSUME MainNext
  PROVE  /\ UNCHANGED <<slave, stopped, leaving, eaten, faults, dropped, data, hasTimeout>>
         /\ EndChannel \/ WakeToEnd \/ UNCHANGED <<scList, scDone, scLost, pcN>>
         /\ ~(InitPool \/ DecommitPool \/ Drain) => UNCHANGED poolVars
  BY DEF MainNext, InitPool, StartLoop, WakeUp, TimeOut, DecommitPool, AskExit, JoinReader,
         DestroyDecoder, JoinSlave, Drain, Drained, EndChannel, WakeToEnd, JoinN, DeinitPool,
         MainStep, MainScStep, slaveVars, readerVars, appVars, scVars

\* What the reader leaves alone.
LEMMA ReaderFrame ==
  ASSUME ReaderNext
  PROVE  /\ UNCHANGED <<main, loop, exit, hasTimeout, timedOut, exitMain, keepGoing>>
         /\ UNCHANGED <<slave, stopped, leaving, eaten, faults, dropped, scList, scDone, scLost, pcN>>
         /\ pc[Reader] = "idle"
  BY DEF ReaderNext, ReaderGets, ReaderExits, ReaderRefused, PushBuffer, Flush, DropBuffer,
         ReaderStep, slaveVars, mainVars, scVars

\* What the decoder leaves alone.
LEMMA SlaveFrame ==
  ASSUME SlaveNext
  PROVE  /\ UNCHANGED <<main, loop, exit, hasTimeout, timedOut, keepGoing, reader, pos, data>>
         /\ pc[Slave] = "idle"
         /\ ~(TakeInput \/ DropInput) => UNCHANGED poolVars
         /\ ~TakeInput => UNCHANGED eaten
         /\ SearchSC \/ WakeToSearch \/ SearchFails \/ RefillDone
            \/ UNCHANGED <<scList, scDone, scLost, pcN>>
  BY DEF SlaveNext, SlaveRuns, TakeInput, SearchSC, WakeToSearch, RefillDone, EndOfInput, SlaveExits,
         DropInput, SignalEos, InputDropped, SearchFails, InputFull, PictureEndsAll, SlaveFails,
         SlaveStep, SlaveScStep, readerVars, mainVars, scVars

\* A step inside the pool, or of the channel, leaves the application alone.
LEMMA OthersFrame ==
  ASSUME InPool \/ InChannel
  PROVE  /\ UNCHANGED <<main, loop, exitMain, exit, reader, pos, slave, stopped, leaving, keepGoing,
                        input, data, eaten, hasTimeout, timedOut, dropped>>
         /\ InPool => UNCHANGED <<faults, scList, scDone, scLost, pcN>>
         /\ InChannel => UNCHANGED poolVars
  BY DEF InPool, InChannel, ChannelNext, SearchStatusFails, othersVars, appVars, scVars
-----------------------------------------------------------------------------
MainLabels ==
  {"init", "wait", "decommit", "exit", "join", "joined", "joinSlave", "drain", "channel", "wakeN",
   "joinN", "pool", "done"}

\* TypeOK without the pool, and without the bounds that need counting
AppTypes ==
  /\ main \in MainLabels
  /\ loop \in 0 .. Loops /\ pos \in 0 .. FileLen /\ faults \in 0 .. MaxFaults
  /\ exitMain \in BOOLEAN /\ exit \in BOOLEAN /\ stopped \in BOOLEAN /\ leaving \in BOOLEAN
  /\ keepGoing \in BOOLEAN /\ hasTimeout \in BOOLEAN /\ timedOut \in BOOLEAN /\ dropped \in BOOLEAN
  /\ scDone \in BOOLEAN /\ scLost \in BOOLEAN
  /\ reader \in {"loop", "get", "drop", "dropLast", "ended"}
  /\ slave \in {"run", "refill", "wakeN", "waitSc", "flush", "full", "exited"}
  /\ scList \in Seq({"search", "ended"})
  /\ pcN \in {"test", "asleep", "fetch", "status", "ended"}
  /\ input \in Seq(Buffers \cup {Eos})
  /\ data \in [Buffers -> 0 .. Loops]
  /\ eaten \in [1 .. Loops -> Nat]

\* The types of the variables are among what TypeOK says.
LEMMA TypesOfApp == TypeOK => AppTypes
  BY DEF TypeOK, AppTypes, MainLabels

\* The list of events keeps its type.
LEMMA EventsTyped ==
  ASSUME scList \in Seq({"search", "ended"})
  PROVE  /\ \A e \in {"search", "ended"} : Append(scList, e) \in Seq({"search", "ended"})
         /\ \A e \in {"search", "ended"} : Append(scList, e) # <<>>
         /\ scList # <<>> => Tail(scList) \in Seq({"search", "ended"})
  <1>1. \A e \in {"search", "ended"} :
          Append(scList, e) \in Seq({"search", "ended"}) /\ Len(Append(scList, e)) = Len(scList) + 1
    BY AppendProperties
  <1>2. Len(scList) \in Nat /\ Len(<<>>) = 0
    BY LenProperties, EmptySeq
  <1> QED BY <1>1, <1>2, HeadTailProperties

\* Every step keeps these types.
LEMMA AppTypesKept ==
  ASSUME TypeOK, ThreadPlaces, EatenWasRead, Next
  PROVE  AppTypes'
  <1>1. AppTypes
    BY TypesOfApp
  <1>2. CASE MainNext
    <2>1. /\ main' \in MainLabels /\ loop' \in 0 .. Loops
          /\ reader' \in {"loop", "get", "drop", "dropLast", "ended"} /\ pos' \in 0 .. FileLen
      <3>1. CASE StartLoop
        <4>1. main = "init" => loop = 0
          BY DEF ThreadPlaces
        <4>2. loop' \in 0 .. Loops
          BY <1>1, <3>1, <4>1, DecoderAppAssumption DEF AppTypes, StartLoop
        <4> QED BY <3>1, <4>2, DecoderAppAssumption DEF MainLabels, StartLoop, MainStep
      <3>2. CASE ~StartLoop
        <4>1. UNCHANGED <<loop, reader, pos>>
          BY <1>2, <3>2
             DEF MainNext, InitPool, WakeUp, TimeOut, DecommitPool, AskExit, JoinReader,
                 DestroyDecoder, JoinSlave, Drain, Drained, EndChannel, WakeToEnd, JoinN,
                 DeinitPool, MainScStep, appVars, readerVars
        <4>2. main' = main \/ main' \in MainLabels
          BY <1>2, <3>2
             DEF MainNext, InitPool, WakeUp, TimeOut, DecommitPool, AskExit, JoinReader,
                 DestroyDecoder, JoinSlave, Drain, Drained, EndChannel, WakeToEnd, JoinN,
                 DeinitPool, MainStep, MainScStep, appVars, MainLabels
        <4> QED BY <1>1, <4>1, <4>2 DEF AppTypes
      <3> QED BY <3>1, <3>2
    <2>2. /\ exitMain' = exitMain \/ exitMain' = FALSE
          /\ exit' = exit \/ exit' = FALSE \/ exit' = TRUE
          /\ keepGoing' = keepGoing \/ keepGoing' = FALSE
          /\ timedOut' = timedOut \/ timedOut' = TRUE
      BY <1>2
         DEF MainNext, InitPool, StartLoop, WakeUp, TimeOut, DecommitPool, AskExit,
             JoinReader, DestroyDecoder, JoinSlave, Drain, Drained, EndChannel, WakeToEnd, JoinN,
             DeinitPool, MainScStep, appVars, readerVars
    <2>5. exitMain' \in BOOLEAN /\ exit' \in BOOLEAN /\ keepGoing' \in BOOLEAN /\ timedOut' \in BOOLEAN
      BY <1>1, <2>2, Zenon DEF AppTypes
    <2>3. input' \in Seq(Buffers \cup {Eos})
      <3>1. input' = input \/ (input # <<>> /\ input' = Tail(input))
        BY <1>2
           DEF MainNext, InitPool, StartLoop, WakeUp, TimeOut, DecommitPool, AskExit, JoinReader,
               DestroyDecoder, JoinSlave, Drain, Drained, EndChannel, WakeToEnd, JoinN, DeinitPool,
               MainScStep, appVars
      <3> QED BY <1>1, <3>1, QueueHead DEF AppTypes
    <2>4. /\ scDone' \in BOOLEAN /\ scLost' \in BOOLEAN /\ scList' \in Seq({"search", "ended"})
          /\ pcN' \in {"test", "asleep", "fetch", "status", "ended"}
      <3>1. CASE EndChannel
        BY <1>1, <3>1, EventsTyped DEF AppTypes, EndChannel, PutEvent
      <3>2. CASE WakeToEnd
        BY <1>1, <3>2 DEF AppTypes, WakeToEnd, WakeN
      <3>3. CASE UNCHANGED <<scList, scDone, scLost, pcN>>
        BY <1>1, <3>3 DEF AppTypes
      <3> QED BY <1>2, <3>1, <3>2, <3>3, MainFrame
    <2> QED BY <1>1, <1>2, <2>1, <2>5, <2>3, <2>4, MainFrame DEF AppTypes
  <1>3. CASE ReaderNext
    <2>1. reader' \in {"loop", "get", "drop", "dropLast", "ended"} /\ pos' \in 0 .. FileLen
      BY <1>1, <1>3, DecoderAppAssumption
         DEF AppTypes, ReaderNext, ReaderGets, ReaderExits, ReaderRefused, PushBuffer, Flush,
             DropBuffer, ReaderStep
    <2>3. data' \in [Buffers -> 0 .. Loops]
      <3>1. data' = data \/ \E b \in Got : data' = [data EXCEPT ![b] = loop]
        BY <1>3 DEF ReaderNext, ReaderGets, ReaderExits, ReaderRefused, PushBuffer, Flush, DropBuffer
      <3> QED BY <1>1, <3>1 DEF AppTypes
    <2>2. input' \in Seq(Buffers \cup {Eos})
      BY <1>1, <1>3, QueueEnd
         DEF AppTypes, ReaderNext, ReaderGets, ReaderExits, ReaderRefused, PushBuffer, Flush,
             DropBuffer, Got
    <2> QED BY <1>1, <1>3, <2>1, <2>2, <2>3, ReaderFrame DEF AppTypes
  <1>4. CASE SlaveNext
    <2>1. slave' \in {"run", "refill", "wakeN", "waitSc", "flush", "full", "exited"}
      <3>1. slave \in {"run", "refill", "wakeN", "waitSc", "flush", "full", "exited"}
        BY <1>1 DEF AppTypes
      <3> QED BY <1>4, <3>1
         DEF SlaveNext, SlaveRuns, TakeInput, SearchSC, WakeToSearch, RefillDone, EndOfInput,
             SlaveExits, DropInput, SignalEos, InputDropped, SearchFails, InputFull, PictureEndsAll,
             SlaveFails, SlaveStep, SlaveScStep
    <2>6. faults' \in 0 .. MaxFaults
      <3>1. faults' = faults \/ (faults < MaxFaults /\ faults' = faults + 1)
        BY <1>4
           DEF SlaveNext, SlaveRuns, TakeInput, SearchSC, WakeToSearch, RefillDone, EndOfInput,
               SlaveExits, DropInput, SignalEos, InputDropped, SearchFails, InputFull,
               PictureEndsAll, SlaveFails
      <3> QED BY <1>1, <3>1, DecoderAppAssumption DEF AppTypes
    <2>2. /\ exitMain' \in BOOLEAN /\ stopped' \in BOOLEAN /\ leaving' \in BOOLEAN
          /\ dropped' \in BOOLEAN
      <3>1. /\ exitMain' = exitMain \/ exitMain' = TRUE
            /\ leaving' = leaving \/ leaving' = TRUE
        BY <1>4
           DEF SlaveNext, SlaveRuns, TakeInput, SearchSC, WakeToSearch, RefillDone,
               EndOfInput, SlaveExits, DropInput, SignalEos, InputDropped, SearchFails, InputFull,
               PictureEndsAll, SlaveFails, SlaveScStep
      <3>2. stopped' = stopped \/ stopped' = TRUE \/ stopped' = FALSE
        BY <1>4
           DEF SlaveNext, SlaveRuns, TakeInput, SearchSC, WakeToSearch, RefillDone,
               EndOfInput, SlaveExits, DropInput, SignalEos, InputDropped, SearchFails, InputFull,
               PictureEndsAll, SlaveFails, SlaveScStep
      <3>3. dropped' = dropped \/ dropped' \in BOOLEAN
        <4>1. CASE DropInput
          BY <4>1, Zenon DEF DropInput
        <4>2. CASE ~DropInput
          BY <1>4, <4>2
             DEF SlaveNext, SlaveRuns, TakeInput, SearchSC, WakeToSearch, RefillDone,
                 EndOfInput, SlaveExits, SignalEos, InputDropped, SearchFails, InputFull,
                 PictureEndsAll, SlaveFails, SlaveScStep
        <4> QED BY <4>1, <4>2
      <3> QED BY <1>1, <3>1, <3>2, <3>3, Zenon DEF AppTypes
    <2>3. input' \in Seq(Buffers \cup {Eos})
      <3>1. input' = input \/ (input # <<>> /\ input' = Tail(input))
        BY <1>4
           DEF SlaveNext, SlaveRuns, TakeInput, SearchSC, WakeToSearch, RefillDone, EndOfInput,
               SlaveExits, DropInput, SignalEos, InputDropped, SearchFails, InputFull,
               PictureEndsAll, SlaveFails, SlaveScStep
      <3> QED BY <1>1, <3>1, QueueHead DEF AppTypes
    <2>4. /\ scDone' \in BOOLEAN /\ scLost' \in BOOLEAN /\ scList' \in Seq({"search", "ended"})
          /\ pcN' \in {"test", "asleep", "fetch", "status", "ended"}
      <3>1. CASE SearchSC
        BY <1>1, <3>1, EventsTyped DEF AppTypes, SearchSC, PutEvent
      <3>2. CASE WakeToSearch
        BY <1>1, <3>2 DEF AppTypes, WakeToSearch, WakeN
      <3>3. CASE SearchFails \/ RefillDone
        BY <1>1, <3>3 DEF AppTypes, SearchFails, RefillDone, SearchRefused
      <3>4. CASE UNCHANGED <<scList, scDone, scLost, pcN>>
        BY <1>1, <3>4 DEF AppTypes
      <3> QED BY <1>4, <3>1, <3>2, <3>3, <3>4, SlaveFrame
    <2>5. eaten' \in [1 .. Loops -> Nat]
      <3>1. CASE TakeInput
        <4>1. PICK l : eaten' = [eaten EXCEPT ![l] = @ + 1]
          BY <3>1 DEF TakeInput
        <4>2. eaten \in [1 .. Loops -> Nat]
          BY <1>1 DEF AppTypes
        <4>3. CASE l \in 1 .. Loops
          <5>1. eaten[l] + 1 \in Nat
            BY <4>2, <4>3
          <5> QED BY <4>1, <4>2, <5>1
        <4>4. CASE l \notin 1 .. Loops
          BY <4>1, <4>2, <4>4
        <4> QED BY <4>3, <4>4
      <3> QED BY <1>1, <1>4, <3>1, SlaveFrame DEF AppTypes
    <2> QED BY <1>1, <1>4, <2>1, <2>2, <2>3, <2>4, <2>5, <2>6, SlaveFrame DEF AppTypes
  <1>5. CASE InPool
    BY <1>1, <1>5, OthersFrame DEF AppTypes
  <1>6. CASE InChannel
    <2>1. scDone' \in BOOLEAN /\ scLost' \in BOOLEAN
      BY <1>1, <1>6
         DEF AppTypes, InChannel, ChannelNext, SearchStatusFails, WakeUnasked, NNext, TestList,
             FetchEvent, EndStartCode, StatusFails
    <2>2. pcN' \in {"test", "asleep", "fetch", "status", "ended"}
      BY <1>6
         DEF InChannel, ChannelNext, SearchStatusFails, WakeUnasked, NNext, TestList, FetchEvent,
             EndStartCode, StatusFails, NStep
    <2>3. scList' \in Seq({"search", "ended"})
      <3>1. scList' = scList \/ (scList # <<>> /\ scList' = Tail(scList))
        BY <1>6
           DEF ThreadPlaces, InChannel, ChannelNext, SearchStatusFails, WakeUnasked, NNext, TestList,
               FetchEvent, EndStartCode, StatusFails, NStep
      <3> QED BY <1>1, <3>1, EventsTyped DEF AppTypes
    <2>4. faults' \in 0 .. MaxFaults
      <3>1. faults' = faults \/ (faults < MaxFaults /\ faults' = faults + 1)
        BY <1>6 DEF InChannel, ChannelNext, SearchStatusFails
      <3> QED BY <1>1, <3>1, DecoderAppAssumption DEF AppTypes
    <2> QED BY <1>1, <1>6, <2>1, <2>2, <2>3, <2>4, OthersFrame DEF AppTypes
  <1> QED BY <1>2, <1>3, <1>4, <1>5, <1>6, NextCases
-----------------------------------------------------------------------------
(* The calls of the pool *)

\* A step may wake thread u, and moves it nowhere else.
Stays(u) == pc'[u] = pc[u] \/ (pc[u] = "asleep" /\ pc'[u] = "woken")

\* What a step inside the pool does to its thread and to the others.
LEMMA PoolMoves ==
  ASSUME PoolTypeOK, NEW t \in Threads, PoolStep(t) \/ WakeUnsignaled(t)
  PROVE  /\ \A u \in Threads \ {t} : Stays(u)
         /\ UNCHANGED made
         /\ pc[t] # "idle"
         /\ pc[t] \in {"wait", "asleep", "woken"} => pc'[t] \in {"look", "asleep", "woken"}
         /\ pc[t] = "look" => pc'[t] \in {"postSpace", "idle", "wait"}
         /\ pc[t] = "postSpace" => pc'[t] = "idle" /\ refs' = [refs EXCEPT ![pElem[t]] = @ \cup {t}]
         /\ pc[t] = "getSpace" => pc'[t] = "store"
         /\ pc[t] = "store" => pc'[t] = "idle"
         /\ pc[t] # "postSpace" => UNCHANGED refs
  <1>1. CASE WaitEvent(t) \/ WakeUnsignaled(t)
    BY <1>1 DEF WaitEvent, WakeUnsignaled, EventOnly, Stays, PoolTypeOK
  <1>2. CASE Take(t) \/ LookAgain(t)
    BY <1>2 DEF Take, LookAgain, Stays, PoolTypeOK
  <1>3. CASE PostSpace(t) \/ GetSpace(t)
    BY <1>3 DEF PostSpace, GetSpace, Stays, PoolTypeOK
  <1>4. CASE Store(t)
    BY <1>4 DEF Store, SetEvent, Asleep, Stays, PoolTypeOK
  <1> QED BY <1>1, <1>2, <1>3, <1>4 DEF PoolStep

\* What the calls that end at once, or begin, do to the threads.
LEMMA CallMoves ==
  ASSUME PoolTypeOK, NEW t \in Threads, NEW b \in Buffers
  PROVE  /\ AllocBuf(b) => (\A u \in Threads : Stays(u)) /\ UNCHANGED refs
         /\ Decommit(t) => /\ \A u \in Threads : Stays(u)
                           /\ UNCHANGED <<refs, made>>
         /\ GetBuffer(t) => /\ \A u \in Threads \ {t} : Stays(u)
                            /\ pc'[t] = "look"
                            /\ UNCHANGED <<refs, made>>
  BY DEF AllocBuf, Decommit, GetBuffer, SetEvent, Asleep, Stays, PoolTypeOK

\* Dropping a reference moves its thread only to put the buffer back.
LEMMA UnrefMoves ==
  ASSUME PoolTypeOK, NEW t \in Threads, NEW h, NEW b \in Buffers, Unref(t, h, b)
  PROVE  /\ \A u \in Threads \ {t} : Stays(u)
         /\ pc[t] = "idle" /\ pc'[t] \in {"idle", "getSpace"}
         /\ refs' = [refs EXCEPT ![b] = @ \ {h}] /\ UNCHANGED made
  BY DEF Unref, Stays, PoolTypeOK
-----------------------------------------------------------------------------
(* The queue of input buffers *)

EndsOf(q) == {i \in DOMAIN q : q[i] = Eos}
BuffersOf(q) == {b \in Buffers : \E i \in DOMAIN q : q[i] = b}
Once(q) == \A i, j \in DOMAIN q : q[i] = q[j] /\ q[i] # Eos => i = j

\* The operators on queues, of the queue of input buffers.
LEMMA QueueParts ==
  /\ Ends = EndsOf(input) /\ Queued = BuffersOf(input)
  /\ QueueReferences => Once(input)
  BY DEF Ends, EndsOf, Queued, BuffersOf, QueueReferences, Once

\* Positions and buffers of the queue are finitely many.
LEMMA QueueFinite ==
  ASSUME NEW q \in Seq(Buffers \cup {Eos})
  PROVE  /\ IsFiniteSet(EndsOf(q)) /\ Cardinality(EndsOf(q)) \in Nat
         /\ IsFiniteSet(BuffersOf(q)) /\ Cardinality(BuffersOf(q)) \in Nat
  <1>1. IsFiniteSet(1 .. Len(q)) /\ EndsOf(q) \in SUBSET (1 .. Len(q))
    <2>1. Len(q) \in Nat /\ DOMAIN q = 1 .. Len(q)
      BY LenProperties
    <2>2. IsFiniteSet(1 .. Len(q))
      BY <2>1, FS_Interval
    <2> QED BY <2>1, <2>2 DEF EndsOf
  <1>2. IsFiniteSet(Buffers) /\ BuffersOf(q) \in SUBSET Buffers
    BY BufPoolAssumption DEF BuffersOf
  <1> QED BY <1>1, <1>2, FS_Subset, FS_CardinalityType

\* The queue loses its head.
LEMMA QueueShorter ==
  ASSUME NEW q \in Seq(Buffers \cup {Eos}), q # <<>>, Once(q)
  PROVE  /\ BuffersOf(Tail(q)) = BuffersOf(q) \ {Head(q)}
         /\ Head(q) # Eos => Head(q) \in BuffersOf(q)
         /\ Cardinality(EndsOf(Tail(q))) =
                Cardinality(EndsOf(q)) - (IF Head(q) = Eos THEN 1 ELSE 0)
         /\ Once(Tail(q))
  <1>1. /\ Len(q) \in Nat /\ Len(q) > 0 /\ DOMAIN q = 1 .. Len(q)
        /\ Head(q) = q[1] /\ q[1] \in Buffers \cup {Eos}
        /\ Tail(q) \in Seq(Buffers \cup {Eos})
        /\ DOMAIN Tail(q) = 1 .. Len(q) - 1
        /\ \A i \in 1 .. Len(q) - 1 : Tail(q)[i] = q[i + 1]
    BY HeadTailProperties, EmptySeq, LenProperties
  <1>2. \A i \in 2 .. Len(q) : i - 1 \in 1 .. Len(q) - 1 /\ Tail(q)[i - 1] = q[i]
    BY <1>1
  <1>3. BuffersOf(Tail(q)) = BuffersOf(q) \ {Head(q)}
    <2>1. ASSUME NEW b \in BuffersOf(Tail(q)) PROVE b \in BuffersOf(q) \ {Head(q)}
      <3>1. PICK i \in 1 .. Len(q) - 1 : Tail(q)[i] = b
        BY <1>1, <2>1 DEF BuffersOf
      <3>2. q[i + 1] = b /\ i + 1 \in DOMAIN q /\ 1 \in DOMAIN q /\ i + 1 # 1 /\ b \in Buffers
        BY <1>1, <2>1, <3>1 DEF BuffersOf
      <3>3. b # q[1]
        BY <3>2, DecoderAppAssumption DEF Once
      <3> QED BY <1>1, <3>2, <3>3 DEF BuffersOf
    <2>2. ASSUME NEW b \in BuffersOf(q), b # Head(q) PROVE b \in BuffersOf(Tail(q))
      <3>1. PICK i \in 1 .. Len(q) : q[i] = b
        BY <1>1, <2>2 DEF BuffersOf
      <3>2. i \in 2 .. Len(q)
        BY <1>1, <2>2, <3>1
      <3> QED BY <1>1, <1>2, <2>2, <3>1, <3>2 DEF BuffersOf
    <2> QED BY <2>1, <2>2
  <1>4. Head(q) # Eos => Head(q) \in BuffersOf(q)
    BY <1>1 DEF BuffersOf
  <1>5. Cardinality(EndsOf(Tail(q))) = Cardinality(EndsOf(q) \ {1})
    <2> DEFINE f == [i \in EndsOf(Tail(q)) |-> i + 1]
    <2>1. EndsOf(Tail(q)) \subseteq 1 .. Len(q) - 1
      BY <1>1 DEF EndsOf
    <2>2. \A i \in EndsOf(Tail(q)) : i + 1 \in EndsOf(q) \ {1}
      BY <1>1, <2>1 DEF EndsOf
    <2>3. \A j \in EndsOf(q) \ {1} : j - 1 \in EndsOf(Tail(q)) /\ (j - 1) + 1 = j
      BY <1>1, <1>2 DEF EndsOf
    <2>4. f \in Bijection(EndsOf(Tail(q)), EndsOf(q) \ {1})
      BY <2>1, <2>2, <2>3, Fun_IsBij
    <2>5. ExistsBijection(EndsOf(Tail(q)), EndsOf(q) \ {1})
      BY <2>4 DEF ExistsBijection
    <2> QED BY <1>1, <2>5, QueueFinite, FS_Bijection
  <1>6. Cardinality(EndsOf(q) \ {1}) = Cardinality(EndsOf(q)) - (IF Head(q) = Eos THEN 1 ELSE 0)
    <2>1. 1 \in EndsOf(q) <=> Head(q) = Eos
      BY <1>1 DEF EndsOf
    <2>2. CASE Head(q) = Eos
      BY <2>1, <2>2, QueueFinite, OneLess
    <2>3. CASE Head(q) # Eos
      <3>1. EndsOf(q) \ {1} = EndsOf(q)
        BY <2>1, <2>3
      <3>2. Cardinality(EndsOf(q)) \in Nat
        BY QueueFinite
      <3>3. Cardinality(EndsOf(q) \ {1}) = Cardinality(EndsOf(q))
        BY <3>1, Zenon
      <3> QED BY <2>3, <3>2, <3>3
    <2> QED BY <2>2, <2>3
  <1>7. Once(Tail(q))
    <2> SUFFICES ASSUME NEW i \in 1 .. Len(q) - 1, NEW j \in 1 .. Len(q) - 1,
                        q[i + 1] = q[j + 1], q[i + 1] # Eos
                 PROVE  i = j
      BY <1>1 DEF Once
    <2>1. i + 1 = j + 1
      BY <1>1 DEF Once
    <2> QED BY <2>1
  <1> QED BY <1>3, <1>4, <1>5, <1>6, <1>7

\* The queue grows by what it does not hold, or by an end of input.
LEMMA QueueLonger ==
  ASSUME NEW q \in Seq(Buffers \cup {Eos}), NEW x \in Buffers \cup {Eos}, Once(q),
         x \notin BuffersOf(q)
  PROVE  /\ BuffersOf(Append(q, x)) = BuffersOf(q) \cup ({x} \cap Buffers)
         /\ Cardinality(EndsOf(Append(q, x))) =
                Cardinality(EndsOf(q)) + (IF x = Eos THEN 1 ELSE 0)
         /\ Once(Append(q, x))
  <1>1. /\ Len(q) \in Nat /\ DOMAIN q = 1 .. Len(q)
        /\ \A i \in 1 .. Len(q) : q[i] \in Buffers \cup {Eos} /\ Append(q, x)[i] = q[i]
        /\ DOMAIN Append(q, x) = 1 .. Len(q) + 1
        /\ Append(q, x)[Len(q) + 1] = x
    BY AppendProperties, LenProperties, ElementOfSeq
  <1>2. 1 .. Len(q) + 1 = (1 .. Len(q)) \cup {Len(q) + 1} /\ Len(q) + 1 \notin 1 .. Len(q)
    BY <1>1
  <1>3. BuffersOf(Append(q, x)) = BuffersOf(q) \cup ({x} \cap Buffers)
    BY <1>1, <1>2 DEF BuffersOf
  <1>4. /\ EndsOf(Append(q, x)) = EndsOf(q) \cup (IF x = Eos THEN {Len(q) + 1} ELSE {})
        /\ Len(q) + 1 \notin EndsOf(q)
    BY <1>1, <1>2 DEF EndsOf
  <1>5. Cardinality(EndsOf(Append(q, x))) = Cardinality(EndsOf(q)) + (IF x = Eos THEN 1 ELSE 0)
    <2>1. CASE x = Eos
      BY <1>4, <2>1, QueueFinite, FS_AddElement
    <2>2. CASE x # Eos
      BY <1>4, <2>2, QueueFinite
    <2> QED BY <2>1, <2>2
  <1>6. Once(Append(q, x))
    <2> SUFFICES ASSUME NEW i \in (1 .. Len(q)) \cup {Len(q) + 1},
                        NEW j \in (1 .. Len(q)) \cup {Len(q) + 1},
                        Append(q, x)[i] = Append(q, x)[j], Append(q, x)[i] # Eos
                 PROVE  i = j
      BY <1>1, <1>2 DEF Once
    <2>1. \A k \in 1 .. Len(q) : q[k] # Eos => q[k] # x
      BY <1>1 DEF BuffersOf
    <2> QED BY <1>1, <2>1 DEF Once
  <1> QED BY <1>3, <1>5, <1>6
-----------------------------------------------------------------------------
(* Where the threads are *)

\* The main thread in the pool: it wakes the reader at most, and drops references of the queue.
LEMMA MainMoves ==
  ASSUME TypeOK, MainNext
  PROVE  /\ \A u \in Threads \ {Main} : Stays(u)
         /\ Stays(Main) \/ (main = "drain" /\ main' = "drain" /\ pc'[Main] \in {"idle", "getSpace"})
         /\ \/ refs' = refs
            \/ /\ Drain /\ input # <<>> /\ input' = Tail(input) /\ Head(input) \in Buffers
               /\ refs' = [refs EXCEPT ![Head(input)] = @ \ {Slave}]
  <1>1. /\ Main \in Threads /\ PoolTypeOK
        /\ input # <<>> => Head(input) \in Buffers \cup {Eos}
    BY ThreeThreads, QueueHead DEF TypeOK
  <1>2. CASE InitPool \/ DecommitPool
    <2>1. (\E b \in Buffers : AllocBuf(b)) \/ Decommit(Main)
      BY <1>2 DEF InitPool, DecommitPool
    <2> QED BY <1>1, <2>1, CallMoves, BufPoolAssumption
  <1>3. CASE Drain
    <2>1. CASE Head(input) = Eos
      BY <1>1, <1>3, <2>1 DEF Drain, poolVars, Stays
    <2>2. CASE Head(input) # Eos
      <3>1. /\ input # <<>> /\ input' = Tail(input) /\ Head(input) \in Buffers
            /\ Unref(Main, Slave, Head(input)) /\ main = "drain" /\ main' = "drain"
        BY <1>1, <1>3, <2>2 DEF Drain, MainStep
      <3> QED BY <1>1, <1>3, <3>1, UnrefMoves
    <2> QED BY <2>1, <2>2
  <1>4. CASE ~(InitPool \/ DecommitPool \/ Drain)
    BY <1>1, <1>4, MainFrame DEF poolVars, Stays
  <1> QED BY <1>2, <1>3, <1>4

\* The decoder in the pool: it drops references of the queue.
LEMMA SlaveMoves ==
  ASSUME TypeOK, SlaveNext
  PROVE  /\ \A u \in Threads \ {Slave} : Stays(u)
         /\ pc[Slave] = "idle" /\ pc'[Slave] \in {"idle", "getSpace"}
         /\ ~(TakeInput \/ DropInput) => pc' = pc
         /\ UNCHANGED made
         /\ \/ refs' = refs
            \/ /\ TakeInput \/ DropInput
               /\ input # <<>> /\ input' = Tail(input) /\ Head(input) \in Buffers
               /\ refs' = [refs EXCEPT ![Head(input)] = @ \ {Slave}]
  <1>1. /\ Slave \in Threads /\ PoolTypeOK /\ pc[Slave] = "idle"
        /\ input # <<>> => Head(input) \in Buffers \cup {Eos}
    BY ThreeThreads, QueueHead, SlaveFrame DEF TypeOK
  <1>2. CASE (TakeInput \/ DropInput) /\ Head(input) # Eos
    <2>1. /\ input # <<>> /\ input' = Tail(input) /\ Head(input) \in Buffers
          /\ Unref(Slave, Slave, Head(input))
      BY <1>1, <1>2 DEF TakeInput, DropInput
    <2> QED BY <1>1, <1>2, <2>1, UnrefMoves
  <1>3. CASE ~(TakeInput \/ DropInput) \/ Head(input) = Eos
    <2>1. UNCHANGED poolVars
      BY <1>3, SlaveFrame DEF TakeInput, DropInput
    <2> QED BY <1>1, <2>1 DEF poolVars, Stays
  <1> QED BY <1>2, <1>3

\* The reader in the pool: it asks for a buffer, gives the queue a reference to its buffer, or drops
\* its own.
LEMMA ReaderMoves ==
  ASSUME TypeOK, ReaderNext
  PROVE  /\ \A u \in Threads \ {Reader} : Stays(u)
         /\ UNCHANGED made
         /\ \/ /\ ReaderGets /\ reader = "loop" /\ reader' = "get" /\ pc'[Reader] = "look" /\ refs' = refs
            \/ /\ ReaderExits \/ ReaderRefused
               /\ reader' = "loop" => Got = {}
               /\ pc' = pc /\ refs' = refs
               /\ reader' \in {"loop", "ended"} /\ UNCHANGED input
            \/ /\ Flush /\ reader' = "dropLast" /\ reader = "get" /\ pc' = pc /\ refs' = refs
            \/ /\ PushBuffer /\ reader = "get" /\ reader' = "drop" /\ pc' = pc
               /\ \E b \in Got : /\ Slave \notin refs[b] /\ input' = Append(input, b)
                                 /\ refs' = [refs EXCEPT ![b] = @ \cup {Slave}]
            \/ /\ DropBuffer /\ reader \in {"drop", "dropLast"} /\ reader' \in {"loop", "ended"}
               /\ pc'[Reader] \in {"idle", "getSpace"} /\ UNCHANGED input
               /\ \E b \in Got : refs' = [refs EXCEPT ![b] = @ \ {Reader}]
  <1>1. Reader \in Threads /\ PoolTypeOK /\ pc[Reader] = "idle" /\ Got \subseteq Buffers
    BY ThreeThreads, ReaderFrame DEF TypeOK, Got
  <1>2. CASE ReaderGets
    BY <1>1, <1>2, CallMoves, BufPoolAssumption DEF ReaderGets, ReaderStep
  <1>3. CASE ReaderExits \/ ReaderRefused \/ Flush
    BY <1>1, <1>3 DEF ReaderExits, ReaderRefused, Flush, ReaderStep, poolVars, Stays
  <1>4. CASE PushBuffer
    BY <1>1, <1>4 DEF PushBuffer, ReaderStep, Ref, Stays
  <1>5. CASE DropBuffer
    <2>1. PICK b \in Got : Unref(Reader, Reader, b)
      BY <1>5 DEF DropBuffer
    <2>2. /\ \A u \in Threads \ {Reader} : Stays(u)
          /\ pc'[Reader] \in {"idle", "getSpace"}
          /\ refs' = [refs EXCEPT ![b] = @ \ {Reader}] /\ UNCHANGED made
      BY <1>1, <2>1, UnrefMoves
    <2>3. reader \in {"drop", "dropLast"} /\ reader' \in {"loop", "ended"} /\ UNCHANGED input
      BY <1>5 DEF DropBuffer, ReaderStep
    <2> QED BY <1>5, <2>2, <2>3
  <1> QED BY <1>2, <1>3, <1>4, <1>5 DEF ReaderNext

\* The reader is inside a call of the pool where its code is.
LEMMA ReaderPlaceKept ==
  ASSUME AppInv, Next
  PROVE  ReaderPlace'
  <1>1. /\ TypeOK /\ PoolTypeOK /\ ReaderPlace /\ ThreadPlaces /\ HandsFull /\ HandsApart
        /\ Threads = {Reader, Slave, Main} /\ Reader # Slave /\ Reader # Main /\ Slave # Main
        /\ refs \in [Buffers -> SUBSET Threads] /\ Got \subseteq Buffers
    BY ThreeThreads DEF AppInv, TypeOK, PoolInv, PoolTypeOK, Got
  <1>2. ASSUME Stays(Reader), Got' = Got, reader' = reader \/ (reader = "ended" /\ reader' = "loop")
        PROVE  ReaderPlace'
    BY <1>1, <1>2 DEF ReaderPlace, Stays
  <1>3. CASE MainNext
    <2>1. Stays(Reader) /\ Got' = Got
      BY <1>1, <1>3, MainMoves DEF Got
    <2>2. reader' = reader \/ (reader = "ended" /\ reader' = "loop")
      BY <1>1, <1>3
         DEF MainNext, InitPool, StartLoop, WakeUp, TimeOut, DecommitPool, AskExit, JoinReader,
             DestroyDecoder, JoinSlave, Drain, Drained, EndChannel, WakeToEnd, JoinN, DeinitPool,
             MainScStep, appVars, readerVars, ThreadPlaces, Released
    <2> QED BY <1>2, <2>1, <2>2
  <1>4. CASE SlaveNext
    <2>1. Stays(Reader) /\ Got' = Got /\ reader' = reader
      BY <1>1, <1>4, SlaveMoves, SlaveFrame DEF Got
    <2> QED BY <1>2, <2>1
  <1>5. CASE ReaderNext
    <2>1. pc[Reader] = "idle"
      BY <1>5, ReaderFrame
    <2>2. CASE ReaderGets \/ ReaderExits \/ ReaderRefused \/ Flush
      BY <1>1, <1>5, <2>1, <2>2, ReaderMoves
         DEF ReaderPlace, Got, ReaderGets, ReaderExits, ReaderRefused, Flush, ReaderStep
    <2>3. CASE PushBuffer
      <3>1. Got' = Got
        BY <1>1, <2>3 DEF Got, PushBuffer, Ref
      <3> QED BY <1>1, <2>1, <2>3, <3>1 DEF ReaderPlace, PushBuffer, ReaderStep, Ref
    <2>4. CASE DropBuffer
      <3>1. Got' = {}
        BY <1>1, <2>4 DEF Got, DropBuffer, Unref, ReaderPlace
      <3> QED BY <1>1, <2>4, <3>1 DEF ReaderPlace, DropBuffer, ReaderStep, Unref, PoolTypeOK
    <2> QED BY <1>5, <2>2, <2>3, <2>4 DEF ReaderNext
  <1>6. CASE InPool
    <2>1. PICK t \in Threads : PoolStep(t) \/ WakeUnsignaled(t)
      BY <1>6 DEF InPool
    <2>2. reader' = reader
      BY <1>6, OthersFrame
    <2>3. CASE t # Reader
      <3>1. Stays(Reader) /\ refs' = refs
        BY <1>1, <2>1, <2>3, PoolMoves DEF ThreadPlaces
      <3>2. Got' = Got
        BY <3>1 DEF Got
      <3> QED BY <1>2, <2>2, <3>1, <3>2
    <2>4. CASE t = Reader
      <3>1. CASE pc[Reader] # "postSpace"
        <4>1. Got' = Got
          BY <1>1, <2>1, <2>4, <3>1, PoolMoves DEF Got
        <4> QED BY <1>1, <2>1, <2>2, <2>4, <3>1, <4>1, PoolMoves DEF ReaderPlace, PoolTypeOK
      <3>2. CASE pc[Reader] = "postSpace"
        <4>1. pc'[Reader] = "idle" /\ refs' = [refs EXCEPT ![pElem[Reader]] = @ \cup {Reader}]
          BY <1>1, <2>1, <2>4, <3>2, PoolMoves
        <4>2. Got = {} /\ reader = "get"
          BY <3>2, <1>1 DEF ReaderPlace
        <4>3. Got' \subseteq {pElem[Reader]}
          BY <1>1, <4>1, <4>2 DEF Got
        <4> QED BY <2>2, <4>1, <4>2, <4>3 DEF ReaderPlace
      <3> QED BY <3>1, <3>2
    <2> QED BY <2>3, <2>4
  <1>7. CASE InChannel
    <2>1. Stays(Reader) /\ Got' = Got /\ reader' = reader
      BY <1>7, OthersFrame DEF poolVars, Stays, Got
    <2> QED BY <1>2, <2>1
  <1> QED BY <1>3, <1>4, <1>5, <1>6, <1>7, NextCases

\* Where the decoder, the main thread and thread N are.
LEMMA ThreadPlacesKept ==
  ASSUME AppInv, Next
  PROVE  ThreadPlaces'
  <1>1. /\ TypeOK /\ PoolTypeOK /\ ReaderPlace /\ ThreadPlaces /\ AppTypes
        /\ Threads = {Reader, Slave, Main} /\ Reader # Slave /\ Reader # Main /\ Slave # Main
        /\ made' \subseteq Buffers
    <2>1. PoolInv'
      BY AppActsOnPool, PoolKeeps DEF AppInv
    <2> QED BY <2>1, ThreeThreads, TypesOfApp DEF AppInv, TypeOK, PoolInv, PoolTypeOK
  <1>2. CASE MainNext
    <2>1. Stays(Slave) /\ Stays(Reader) /\ UNCHANGED <<slave, leaving>>
      BY <1>1, <1>2, MainMoves, MainFrame
    <2>2. /\ pc'[Main] \in {"idle", "getSpace", "store"}
          /\ main' # "drain" => pc'[Main] = "idle"
      <3>1. CASE main = "drain"
        <4>1. main' = "drain" \/ Drained
          BY <1>2, <3>1
             DEF MainNext, InitPool, StartLoop, WakeUp, TimeOut, DecommitPool, AskExit, JoinReader,
                 DestroyDecoder, JoinSlave, Drain, EndChannel, WakeToEnd, JoinN, DeinitPool,
                 MainStep, MainScStep
        <4> QED BY <1>1, <1>2, <3>1, <4>1, MainMoves, MainFrame
               DEF ThreadPlaces, Stays, Drained, poolVars
      <3> QED BY <1>1, <1>2, <3>1, MainMoves DEF ThreadPlaces, Stays
    <2>3. /\ main' \in Released => reader' = "ended" /\ pc[Reader] = "idle"
          /\ main' \in Joined => slave = "exited" /\ pc[Slave] = "idle"
          /\ main' \in Emptied => input' = <<>>
          /\ main' = "init" <=> loop' = 0
          /\ main' = "init" => reader' = "ended" /\ input' = <<>>
      <3>1. CASE StartLoop
        BY <1>1, <3>1 DEF StartLoop, MainStep, Released, Destroying, Joined, Emptied, AppTypes
      <3>2. CASE ~StartLoop
        BY <1>1, <1>2, <3>2
           DEF ThreadPlaces, Released, Destroying, Joined, Emptied, MainNext, InitPool, WakeUp,
               TimeOut, DecommitPool, AskExit, JoinReader, DestroyDecoder, JoinSlave, Drain, Drained,
               EndChannel, WakeToEnd, JoinN, DeinitPool, MainStep, MainScStep, appVars, readerVars
      <3> QED BY <3>1, <3>2
    <2>4. keepGoing' <=> main' \notin Destroying
      <3>1. CASE DestroyDecoder
        BY <3>1 DEF DestroyDecoder, MainStep, Destroying, Released
      <3>2. CASE ~DestroyDecoder
        <4>1. keepGoing' = keepGoing /\ (main' \in Destroying <=> main \in Destroying)
          BY <1>2, <3>2
             DEF Released, Destroying, MainNext, InitPool, StartLoop, WakeUp, TimeOut, DecommitPool,
                 AskExit, JoinReader, JoinSlave, Drain, Drained, EndChannel, WakeToEnd, JoinN,
                 DeinitPool, MainStep, MainScStep, appVars
        <4> QED BY <1>1, <4>1 DEF ThreadPlaces
      <3> QED BY <3>1, <3>2
    <2>5. main' # "init" => made' = Buffers
      <3>1. CASE main = "init"
        BY <1>1, <1>2, <3>1
           DEF MainNext, InitPool, StartLoop, WakeUp, TimeOut, DecommitPool, AskExit, JoinReader,
               DestroyDecoder, JoinSlave, Drain, Drained, EndChannel, WakeToEnd, JoinN, DeinitPool,
               MainStep, MainScStep, appVars, poolVars
      <3>2. CASE main # "init"
        <4>1. made \subseteq made'
          <5>1. CASE InitPool
            BY <5>1 DEF InitPool, AllocBuf
          <5>2. CASE ~InitPool
            BY <1>2, <5>2, MainFrame DEF poolVars, DecommitPool, Decommit, Drain, Unref
          <5> QED BY <5>1, <5>2
        <4> QED BY <1>1, <3>2, <4>1 DEF ThreadPlaces
      <3> QED BY <3>1, <3>2
    <2>6. pcN' = "fetch" => scList' # <<>>
      <3>1. pcN' = pcN \/ pcN' = "test"
        BY <1>2, MainFrame DEF EndChannel, WakeToEnd, PutEvent, WakeN
      <3>2. scList' = scList \/ scList' = Append(scList, "ended")
        BY <1>2, MainFrame DEF EndChannel, WakeToEnd, PutEvent, WakeN
      <3> QED BY <1>1, <3>1, <3>2, EventsTyped DEF ThreadPlaces, AppTypes
    <2>7. leaving' => ~keepGoing'
      BY <1>1, <1>2, <2>1, <2>4
         DEF ThreadPlaces, Released, Destroying, MainNext, InitPool, StartLoop, WakeUp, TimeOut,
             DecommitPool, AskExit, JoinReader, DestroyDecoder, JoinSlave, Drain, Drained, EndChannel,
             WakeToEnd, JoinN, DeinitPool, MainScStep, appVars
    <2> QED BY <1>1, <2>1, <2>2, <2>3, <2>4, <2>5, <2>6, <2>7 DEF ThreadPlaces, Stays
  <1>3. CASE ReaderNext
    <2>1. /\ UNCHANGED <<main, loop, keepGoing, slave, leaving, pcN, scList>>
          /\ Stays(Slave) /\ Stays(Main) /\ UNCHANGED made
      BY <1>1, <1>3, ReaderFrame, ReaderMoves
    <2>2. reader # "ended"
      BY <1>3 DEF ReaderNext, ReaderGets, ReaderExits, ReaderRefused, PushBuffer, Flush, DropBuffer,
                  ReaderStep
    <2>3. main \notin Released /\ main # "init"
      BY <1>1, <2>2 DEF ThreadPlaces
    <2> QED BY <1>1, <2>1, <2>3 DEF ThreadPlaces, Stays, Released, Destroying, Joined, Emptied
  <1>4. CASE SlaveNext
    <2>1. /\ UNCHANGED <<main, loop, keepGoing, reader, made>>
          /\ Stays(Reader) /\ Stays(Main)
          /\ pc'[Slave] \in {"idle", "getSpace"}
      BY <1>1, <1>4, SlaveFrame, SlaveMoves
    <2>2. slave # "exited"
      BY <1>1, <1>4
         DEF AppTypes, SlaveNext, SlaveRuns, TakeInput, SearchSC, WakeToSearch, RefillDone, EndOfInput,
             SlaveExits, DropInput, SignalEos, InputDropped, SearchFails, InputFull, PictureEndsAll,
             SlaveFails, SlaveStep, SlaveScStep
    <2>3. main \notin Joined
      BY <1>1, <2>2 DEF ThreadPlaces
    <2>4. slave' \in {"wakeN", "waitSc", "exited"} => pc'[Slave] = "idle"
      <3>1. CASE TakeInput \/ DropInput
        BY <3>1 DEF TakeInput, DropInput, SlaveStep
      <3>2. CASE ~(TakeInput \/ DropInput)
        BY <1>4, <3>2, SlaveMoves, <1>1
      <3> QED BY <3>1, <3>2
    <2>5. leaving' => ~keepGoing'
      BY <1>1, <1>4, <2>1
         DEF ThreadPlaces, SlaveNext, SlaveRuns, TakeInput, SearchSC, WakeToSearch, RefillDone,
             EndOfInput, SlaveExits, DropInput, SignalEos, InputDropped, SearchFails, InputFull,
             PictureEndsAll, SlaveFails, SlaveScStep
    <2>6. main = "init" => input' = <<>>
      <3>1. input = <<>> => input' = <<>>
        BY <1>4
           DEF SlaveNext, SlaveRuns, TakeInput, SearchSC, WakeToSearch, RefillDone,
               EndOfInput, SlaveExits, DropInput, SignalEos, InputDropped, SearchFails, InputFull,
               PictureEndsAll, SlaveFails, SlaveScStep
      <3> QED BY <1>1, <3>1 DEF ThreadPlaces
    <2>7. pcN' = "fetch" => scList' # <<>>
      <3>1. pcN' = pcN \/ pcN' = "test"
        BY <1>4, SlaveFrame DEF SearchSC, WakeToSearch, SearchFails, RefillDone, PutEvent, WakeN, SearchRefused
      <3>2. scList' = scList \/ scList' = Append(scList, "search")
        BY <1>4, SlaveFrame DEF SearchSC, WakeToSearch, SearchFails, RefillDone, PutEvent, WakeN, SearchRefused
      <3> QED BY <1>1, <3>1, <3>2, EventsTyped DEF ThreadPlaces, AppTypes
    <2> QED BY <1>1, <2>1, <2>3, <2>4, <2>5, <2>6, <2>7
            DEF ThreadPlaces, Stays, Released, Destroying, Joined, Emptied
  <1>5. CASE InPool
    <2>1. PICK t \in Threads : PoolStep(t) \/ WakeUnsignaled(t)
      BY <1>5 DEF InPool
    <2>2. UNCHANGED <<main, loop, reader, slave, leaving, keepGoing, input, pcN, scList>>
      BY <1>5, OthersFrame
    <2>3. UNCHANGED made /\ pc[t] # "idle" /\ \A u \in Threads \ {t} : Stays(u)
      BY <1>1, <2>1, PoolMoves
    <2>4. t \in {Slave, Main} => pc'[t] \in {"idle", "store"}
      BY <1>1, <2>1, <2>3, PoolMoves DEF ThreadPlaces
    <2>5. /\ main \in Released => t # Reader
          /\ main \in Joined => t # Slave
          /\ main # "drain" => t # Main
          /\ slave \in {"wakeN", "waitSc", "exited"} => t # Slave
      BY <1>1, <2>3 DEF ThreadPlaces
    <2>6. \A u \in Threads : pc[u] = "idle" /\ u # t => pc'[u] = "idle"
      BY <2>3 DEF Stays
    <2>7. pc'[Slave] \in {"idle", "getSpace", "store"} /\ pc'[Main] \in {"idle", "getSpace", "store"}
      BY <1>1, <2>3, <2>4 DEF ThreadPlaces, Stays
    <2> QED BY <1>1, <2>2, <2>3, <2>5, <2>6, <2>7 DEF ThreadPlaces
  <1>6. CASE InChannel
    <2>1. UNCHANGED <<main, loop, reader, slave, leaving, keepGoing, input>> /\ UNCHANGED poolVars
      BY <1>6, OthersFrame
    <2>2. pcN' = "fetch" => scList' # <<>>
      BY <1>6
         DEF InChannel, ChannelNext, SearchStatusFails, WakeUnasked, NNext, TestList, FetchEvent,
             EndStartCode, StatusFails, NStep
    <2> QED BY <1>1, <2>1, <2>2 DEF ThreadPlaces, poolVars
  <1> QED BY <1>2, <1>3, <1>4, <1>5, <1>6, NextCases
-----------------------------------------------------------------------------
(* What is referenced and what is queued *)

\* How a step changes the queue and the references together.
TakesHead == /\ input # <<>> /\ input' = Tail(input)
             /\ \/ Head(input) = Eos /\ UNCHANGED refs
                \/ Head(input) \in Buffers /\ refs' = [refs EXCEPT ![Head(input)] = @ \ {Slave}]
AddsBuffer == \E b \in Got : /\ Slave \notin refs[b] /\ input' = Append(input, b)
                             /\ refs' = [refs EXCEPT ![b] = @ \cup {Slave}]
AddsEnd == input' = Append(input, Eos) /\ UNCHANGED refs
ReaderOnly ==
  /\ UNCHANGED input
  /\ \/ UNCHANGED refs
     \/ \E b \in Buffers : refs' = [refs EXCEPT ![b] = @ \ {Reader}]
     \/ \E b \in Buffers : refs' = [refs EXCEPT ![b] = @ \cup {Reader}]

\* The main thread empties the queue at the end.
LEMMA MainQueue ==
  ASSUME TypeOK, MainNext
  PROVE  IF Drain THEN TakesHead ELSE UNCHANGED <<input, refs>>
  <1>1. input # <<>> => Head(input) \in Buffers \cup {Eos}
    BY QueueHead DEF TypeOK
  <1>2. CASE Drain
    <2>1. input # <<>> /\ input' = Tail(input)
      BY <1>2 DEF Drain
    <2>2. CASE Head(input) = Eos
      BY <1>2, <2>1, <2>2 DEF Drain, TakesHead, poolVars
    <2>3. CASE Head(input) # Eos
      BY <1>1, <1>2, <2>1, <2>3 DEF Drain, TakesHead, Unref
    <2> QED BY <1>2, <2>2, <2>3
  <1>3. CASE ~Drain
    <2>1. UNCHANGED input
      BY <1>3
         DEF MainNext, InitPool, StartLoop, WakeUp, TimeOut, DecommitPool, AskExit, JoinReader,
             DestroyDecoder, JoinSlave, Drained, EndChannel, WakeToEnd, JoinN, DeinitPool,
             MainScStep, appVars
    <2>2. UNCHANGED refs
      BY <1>3, MainMoves
    <2> QED BY <1>3, <2>1, <2>2
  <1> QED BY <1>2, <1>3

\* The decoder takes from the queue.
LEMMA SlaveQueue ==
  ASSUME TypeOK, SlaveNext
  PROVE  IF TakeInput \/ EndOfInput \/ DropInput THEN TakesHead ELSE UNCHANGED <<input, refs>>
  <1>1. input # <<>> => Head(input) \in Buffers \cup {Eos}
    BY QueueHead DEF TypeOK
  <1>2. CASE TakeInput \/ EndOfInput \/ DropInput
    <2>1. input # <<>> /\ input' = Tail(input)
      BY <1>2 DEF TakeInput, EndOfInput, DropInput
    <2>2. CASE Head(input) = Eos
      BY <1>2, <2>1, <2>2 DEF TakeInput, EndOfInput, DropInput, TakesHead, poolVars
    <2>3. CASE Head(input) # Eos
      BY <1>1, <1>2, <2>1, <2>3 DEF TakeInput, EndOfInput, DropInput, TakesHead, Unref
    <2> QED BY <1>2, <2>2, <2>3
  <1>3. CASE ~(TakeInput \/ EndOfInput \/ DropInput)
    <2>1. UNCHANGED input
      BY <1>3
         DEF SlaveNext, SlaveRuns, SearchSC, WakeToSearch, RefillDone,
             SlaveExits, SignalEos, InputDropped, SearchFails, InputFull, PictureEndsAll,
             SlaveFails, SlaveScStep
    <2>2. UNCHANGED refs
      BY <1>3, SlaveMoves
    <2> QED BY <1>3, <2>1, <2>2
  <1> QED BY <1>2, <1>3

\* The reader adds to the queue.
LEMMA ReaderQueue ==
  ASSUME TypeOK, ReaderNext
  PROVE  /\ PushBuffer => AddsBuffer
         /\ Flush => AddsEnd
         /\ ~PushBuffer /\ ~Flush => ReaderOnly
  <1>1. Got \subseteq Buffers
    BY DEF Got
  <1>2. PushBuffer => AddsBuffer
    BY DEF PushBuffer, AddsBuffer, Ref
  <1>3. Flush => AddsEnd
    BY DEF Flush, AddsEnd, poolVars
  <1>4. CASE ~PushBuffer /\ ~Flush
    BY <1>1, <1>4 DEF ReaderNext, ReaderGets, GetBuffer, ReaderExits, ReaderRefused, DropBuffer, Unref,
                      ReaderOnly, poolVars
  <1> QED BY <1>2, <1>3, <1>4

\* A step inside the pool, or of the channel, leaves the queue alone.
LEMMA OthersQueue ==
  ASSUME AppInv, InPool \/ InChannel
  PROVE  ReaderOnly
  <1>1. UNCHANGED input /\ (InChannel => UNCHANGED poolVars)
    BY OthersFrame
  <1>2. CASE InPool
    <2>1. PICK t \in Threads : PoolStep(t) \/ WakeUnsignaled(t)
      BY <1>2 DEF InPool
    <2>2. PoolTypeOK /\ HandsFull /\ ThreadPlaces /\ Threads = {Reader, Slave, Main}
      BY ThreeThreads DEF AppInv, TypeOK, PoolInv
    <2>3. CASE pc[t] # "postSpace"
      BY <1>1, <2>1, <2>2, <2>3, PoolMoves DEF ReaderOnly
    <2>4. CASE pc[t] = "postSpace"
      <3>1. t = Reader /\ pElem[t] \in Buffers
        BY <2>2, <2>4 DEF ThreadPlaces, HandsFull, PoolTypeOK
      <3> QED BY <1>1, <2>1, <2>2, <2>4, <3>1, PoolMoves DEF ReaderOnly
    <2> QED BY <2>3, <2>4
  <1> QED BY <1>1, <1>2 DEF ReaderOnly, poolVars

\* The references stay those of the reader and of the queue, whoever takes from it or adds to it.
LEMMA QueueReferencesKept ==
  ASSUME AppInv, Next
  PROVE  QueueReferences'
  <1>1. /\ TypeOK /\ QueueReferences /\ refs \in [Buffers -> SUBSET Threads]
        /\ Reader # Slave /\ Got \subseteq Buffers /\ Eos \notin Buffers
        /\ input \in Seq(Buffers \cup {Eos})
        /\ Queued = BuffersOf(input) /\ Once(input)
    BY ThreeThreads, QueueParts, DecoderAppAssumption DEF AppInv, TypeOK, PoolTypeOK, Got
  <1>2. Queued' = BuffersOf(input')
    BY DEF Queued, BuffersOf
  <1>3. CASE TakesHead
    <2>1. Queued' = Queued \ {Head(input)} /\ Once(input')
      BY <1>1, <1>2, <1>3, QueueShorter DEF TakesHead
    <2>2. \A b \in Buffers : refs'[b] = refs[b] \ (IF b = Head(input) THEN {Slave} ELSE {})
      BY <1>1, <1>3 DEF TakesHead
    <2> QED BY <1>1, <1>2, <2>1, <2>2 DEF QueueReferences, Once
  <1>4. CASE AddsBuffer
    <2>1. PICK b \in Got : /\ Slave \notin refs[b] /\ input' = Append(input, b)
                           /\ refs' = [refs EXCEPT ![b] = @ \cup {Slave}]
      BY <1>4 DEF AddsBuffer
    <2>2. b \notin Queued /\ b \in Buffers
      BY <1>1, <2>1 DEF QueueReferences
    <2>3. Queued' = Queued \cup {b} /\ Once(input')
      BY <1>1, <1>2, <2>1, <2>2, QueueLonger
    <2> QED BY <1>1, <1>2, <2>1, <2>2, <2>3 DEF QueueReferences, Once
  <1>5. CASE AddsEnd
    <2>1. Queued' = Queued /\ Once(input')
      BY <1>1, <1>2, <1>5, QueueLonger DEF AddsEnd, Queued
    <2> QED BY <1>1, <1>2, <1>5, <2>1 DEF QueueReferences, AddsEnd, Once
  <1>6. CASE ReaderOnly
    BY <1>1, <1>6 DEF ReaderOnly, QueueReferences, Queued
  <1>7. CASE UNCHANGED <<input, refs>>
    BY <1>1, <1>7 DEF QueueReferences, Queued
  <1> QED BY <1>1, <1>3, <1>4, <1>5, <1>6, <1>7, NextCases, MainQueue, SlaveQueue, ReaderQueue,
             OthersQueue
-----------------------------------------------------------------------------
(* What is taken was read *)

ReaderGoesOn == reader \in {"loop", "get", "drop"}

\* The parts of the queue that are counted.
LEMMA CountsOfQueue ==
  ASSUME input \in Seq(Buffers \cup {Eos})
  PROVE  /\ IsFiniteSet(Queued) /\ IsFiniteSet(Ends) /\ Cardinality(Ends) \in Nat
         /\ \A l : IsFiniteSet(QueuedOf(l)) /\ Cardinality(QueuedOf(l)) \in Nat
  <1>1. IsFiniteSet(Queued) /\ IsFiniteSet(Ends) /\ Cardinality(Ends) \in Nat
    BY QueueParts, QueueFinite
  <1>2. \A l : QueuedOf(l) \in SUBSET Queued
    BY DEF QueuedOf
  <1> QED BY <1>1, <1>2, FS_Subset, FS_CardinalityType

\* The same parts after a step.
LEMMA QueueChanges ==
  ASSUME TypeOK, QueueReferences
  PROVE  /\ TakesHead =>
              /\ Queued' = Queued \ {Head(input)}
              /\ Head(input) # Eos => Head(input) \in Queued
              /\ Cardinality(Ends') = Cardinality(Ends) - (IF Head(input) = Eos THEN 1 ELSE 0)
         /\ \A b \in Got : Slave \notin refs[b] /\ input' = Append(input, b) =>
              /\ b \notin Queued /\ Queued' = Queued \cup {b}
              /\ Cardinality(Ends') = Cardinality(Ends)
         /\ AddsEnd => Queued' = Queued /\ Cardinality(Ends') = Cardinality(Ends) + 1
         /\ UNCHANGED input => Queued' = Queued /\ Ends' = Ends
  <1>1. /\ input \in Seq(Buffers \cup {Eos}) /\ Once(input) /\ Eos \notin Buffers
        /\ Queued = BuffersOf(input) /\ Queued' = BuffersOf(input')
        /\ Ends = EndsOf(input) /\ Ends' = EndsOf(input')
        /\ Cardinality(Ends) \in Nat
    BY QueueParts, DecoderAppAssumption, CountsOfQueue
       DEF TypeOK, Queued, BuffersOf, Ends, EndsOf
  <1>2. ASSUME TakesHead
        PROVE  /\ Queued' = Queued \ {Head(input)}
               /\ Head(input) # Eos => Head(input) \in Queued
               /\ Cardinality(Ends') = Cardinality(Ends) - (IF Head(input) = Eos THEN 1 ELSE 0)
    <2>1. input # <<>> /\ input' = Tail(input)
      BY <1>2 DEF TakesHead
    <2> QED BY <1>1, <2>1, QueueShorter
  <1>3. ASSUME NEW b \in Got, Slave \notin refs[b], input' = Append(input, b)
        PROVE  /\ b \notin Queued /\ Queued' = Queued \cup {b}
               /\ Cardinality(Ends') = Cardinality(Ends)
    <2>1. b \in Buffers /\ b \notin Queued /\ b # Eos
      BY <1>1, <1>3 DEF Got, QueueReferences
    <2> QED BY <1>1, <1>3, <2>1, QueueLonger
  <1>4. ASSUME AddsEnd
        PROVE  Queued' = Queued /\ Cardinality(Ends') = Cardinality(Ends) + 1
    <2>1. Eos \notin BuffersOf(input) /\ input' = Append(input, Eos)
      BY <1>1, <1>4 DEF BuffersOf, AddsEnd
    <2>2. {Eos} \cap Buffers = {}
      BY <1>1
    <2> QED BY <1>1, <2>1, <2>2, QueueLonger
  <1>5. UNCHANGED input => Queued' = Queued /\ Ends' = Ends
    BY DEF Queued, Ends
  <1> QED BY <1>2, <1>3, <1>4, <1>5

\* The head of the queue goes without being counted as eaten, or nothing changes.
LEMMA DroppedWasRead ==
  ASSUME TypeOK, QueueReferences, EatenWasRead,
         TakesHead \/ UNCHANGED input, UNCHANGED <<data, eaten, loop, pos>>,
         ReaderGoesOn' => ReaderGoesOn
  PROVE  EatenWasRead'
  <1>1. /\ input \in Seq(Buffers \cup {Eos}) /\ Queued' \subseteq Queued
        /\ Cardinality(Ends') <= Cardinality(Ends) /\ Cardinality(Ends) \in Nat
        /\ Cardinality(Ends') \in Nat /\ loop \in Nat
        /\ eaten \in [1 .. Loops -> Nat] /\ pos \in Nat /\ FileLen \in Nat
    <2>1. input \in Seq(Buffers \cup {Eos}) /\ Cardinality(Ends) \in Nat /\ input' \in Seq(Buffers \cup {Eos})
      BY CountsOfQueue, QueueHead DEF TypeOK, TakesHead
    <2>2. Cardinality(Ends') \in Nat
      BY <2>1, QueueFinite DEF Ends, EndsOf
    <2>3. Queued' \subseteq Queued /\ Cardinality(Ends') <= Cardinality(Ends)
      BY <2>1, <2>2, QueueChanges
    <2>4. loop \in Nat /\ eaten \in [1 .. Loops -> Nat] /\ pos \in Nat /\ FileLen \in Nat
      BY TypesOfApp, DecoderAppAssumption DEF AppTypes
    <2> QED BY <2>1, <2>2, <2>3, <2>4
  <1>2. ASSUME NEW l \in 1 .. Loops
        PROVE  eaten'[l] + Cardinality(QueuedOf(l)') <= HasRead(l)'
    <2>1. QueuedOf(l)' \in SUBSET QueuedOf(l)
      BY <1>1 DEF QueuedOf
    <2>2. /\ Cardinality(QueuedOf(l)') <= Cardinality(QueuedOf(l)) /\ Cardinality(QueuedOf(l)) \in Nat
          /\ Cardinality(QueuedOf(l)') \in Nat
      BY <1>1, <2>1, CountsOfQueue, FS_Subset, FS_CardinalityType
    <2>3. HasRead(l)' = HasRead(l) /\ HasRead(l) \in Nat /\ eaten'[l] = eaten[l] /\ eaten[l] \in Nat
      BY <1>1 DEF HasRead
    <2>4. eaten[l] + Cardinality(QueuedOf(l)) <= HasRead(l)
      BY DEF EatenWasRead
    <2> QED BY <2>2, <2>3, <2>4
  <1>3. \A b \in Queued' : data'[b] \in 1 .. loop'
    BY <1>1 DEF EatenWasRead
  <1>4. Cardinality(Ends') + (IF ReaderGoesOn' THEN 1 ELSE 0) <= loop'
    BY <1>1 DEF EatenWasRead, ReaderGoesOn
  <1> QED BY <1>2, <1>3, <1>4 DEF EatenWasRead, ReaderGoesOn

\* The decoder eats the head of the queue.
LEMMA TakenWasRead ==
  ASSUME AppInv, TakeInput
  PROVE  EatenWasRead'
  <1> DEFINE b == Head(input)
             d == data[Head(input)]
  <1>1. /\ TypeOK /\ QueueReferences /\ EatenWasRead /\ AppTypes /\ loop \in 0 .. Loops
        /\ input \in Seq(Buffers \cup {Eos})
        /\ b \in Queued /\ Queued' = Queued \ {b} /\ Cardinality(Ends') = Cardinality(Ends)
    <2>1. TypeOK /\ QueueReferences /\ EatenWasRead /\ AppTypes
      BY TypesOfApp DEF AppInv
    <2>2. TakesHead /\ Head(input) # Eos
      BY <2>1, QueueHead DEF TakeInput, TakesHead, Unref, TypeOK
    <2>3. Cardinality(Ends) \in Nat
      BY <2>1, CountsOfQueue DEF TypeOK
    <2> QED BY <2>1, <2>2, <2>3, QueueChanges DEF AppTypes
  <1>2. /\ UNCHANGED <<data, loop, pos, reader>>
        /\ eaten' = [eaten EXCEPT ![d] = @ + 1]
    BY DEF TakeInput, SlaveStep, mainVars, readerVars
  <1>3. d \in 1 .. loop /\ d \in 1 .. Loops
    <2>1. d \in 1 .. loop
      BY <1>1 DEF EatenWasRead
    <2> QED BY <1>1, <2>1, DecoderAppAssumption
  <1>4. ASSUME NEW l \in 1 .. Loops
        PROVE  eaten'[l] + Cardinality(QueuedOf(l)') <= HasRead(l)'
    <2>1. QueuedOf(l)' = IF l = d THEN QueuedOf(l) \ {b} ELSE QueuedOf(l)
      BY <1>1, <1>2 DEF QueuedOf
    <2>2. /\ IsFiniteSet(QueuedOf(l)) /\ Cardinality(QueuedOf(l)) \in Nat
          /\ l = d => b \in QueuedOf(l)
      BY <1>1, CountsOfQueue DEF QueuedOf
    <2>3. Cardinality(QueuedOf(l)') = IF l = d THEN Cardinality(QueuedOf(l)) - 1 ELSE Cardinality(QueuedOf(l))
      BY <2>1, <2>2, OneLess
    <2>4. eaten'[l] = (IF l = d THEN eaten[l] + 1 ELSE eaten[l]) /\ eaten[l] \in Nat
      BY <1>1, <1>2 DEF AppTypes
    <2>5. HasRead(l)' = HasRead(l) /\ HasRead(l) \in Int
      BY <1>1, <1>2, DecoderAppAssumption DEF HasRead, AppTypes
    <2>6. eaten[l] + Cardinality(QueuedOf(l)) <= HasRead(l)
      BY <1>1 DEF EatenWasRead
    <2> QED BY <2>2, <2>3, <2>4, <2>5, <2>6
  <1> QED BY <1>1, <1>2, <1>4 DEF EatenWasRead

\* The reader queues what it read.
LEMMA PushedWasRead ==
  ASSUME AppInv, PushBuffer
  PROVE  EatenWasRead'
  <1>1. /\ TypeOK /\ QueueReferences /\ EatenWasRead /\ AppTypes /\ ThreadPlaces
        /\ input \in Seq(Buffers \cup {Eos}) /\ loop \in 0 .. Loops
        /\ data \in [Buffers -> 0 .. Loops] /\ Got \subseteq Buffers
    BY TypesOfApp DEF AppInv, AppTypes, Got
  <1>2. PICK b \in Got : /\ Slave \notin refs[b] /\ input' = Append(input, b)
                         /\ data' = [data EXCEPT ![b] = loop]
    BY DEF PushBuffer, Ref
  <1>3. /\ b \notin Queued /\ Queued' = Queued \cup {b} /\ Cardinality(Ends') = Cardinality(Ends)
    BY <1>1, <1>2, QueueChanges
  <1>4. /\ UNCHANGED <<eaten, loop>> /\ pos < FileLen /\ pos' = pos + 1
        /\ reader = "get" /\ reader' = "drop"
    BY DEF PushBuffer, ReaderStep, slaveVars, mainVars
  <1>5. loop \in 1 .. Loops
    BY <1>1, <1>4 DEF ThreadPlaces
  <1>6. Queued \subseteq Buffers /\ \A c \in Queued : data'[c] = data[c] /\ c # b
    BY <1>1, <1>2, <1>3 DEF Queued
  <1>7. data'[b] = loop
    BY <1>1, <1>2
  <1>8. ASSUME NEW l \in 1 .. Loops
        PROVE  eaten'[l] + Cardinality(QueuedOf(l)') <= HasRead(l)'
    <2>1. QueuedOf(l)' = IF l = loop THEN QueuedOf(l) \cup {b} ELSE QueuedOf(l)
      BY <1>3, <1>6, <1>7 DEF QueuedOf
    <2>2. /\ IsFiniteSet(QueuedOf(l)) /\ Cardinality(QueuedOf(l)) \in Nat /\ b \notin QueuedOf(l)
      BY <1>1, <1>3, CountsOfQueue DEF QueuedOf
    <2>3. Cardinality(QueuedOf(l)') =
            IF l = loop THEN Cardinality(QueuedOf(l)) + 1 ELSE Cardinality(QueuedOf(l))
      BY <2>1, <2>2, OneMore
    <2>4. eaten'[l] = eaten[l] /\ eaten[l] \in Nat
      BY <1>1, <1>4 DEF AppTypes
    <2>5. HasRead(l)' = (IF l = loop THEN HasRead(l) + 1 ELSE HasRead(l)) /\ HasRead(l) \in Int
      BY <1>1, <1>4, DecoderAppAssumption DEF HasRead, AppTypes
    <2>6. eaten[l] + Cardinality(QueuedOf(l)) <= HasRead(l)
      BY <1>1 DEF EatenWasRead
    <2> QED BY <2>2, <2>3, <2>4, <2>5, <2>6
  <1>9. \A c \in Queued' : data'[c] \in 1 .. loop'
    BY <1>1, <1>3, <1>4, <1>5, <1>6, <1>7 DEF EatenWasRead
  <1> QED BY <1>1, <1>3, <1>4, <1>8, <1>9 DEF EatenWasRead

\* Of each loop, what was taken and what is queued was read, and each loop queues one end of input.
LEMMA EatenWasReadKept ==
  ASSUME AppInv, Next
  PROVE  EatenWasRead'
  <1>1. /\ TypeOK /\ QueueReferences /\ EatenWasRead /\ AppTypes /\ ThreadPlaces
        /\ input \in Seq(Buffers \cup {Eos}) /\ loop \in 0 .. Loops /\ pos \in 0 .. FileLen
        /\ Cardinality(Ends) \in Nat
    BY TypesOfApp, CountsOfQueue DEF AppInv, AppTypes
  <1>2. CASE MainNext
    <2>1. CASE StartLoop
      <3>1. /\ loop' = loop + 1 /\ pos' = 0 /\ reader' = "loop" /\ reader = "ended"
            /\ UNCHANGED <<input, data, eaten>>
        BY <1>1, <2>1 DEF StartLoop, MainStep, ThreadPlaces, Released, slaveVars
      <3>2. Queued' = Queued /\ Ends' = Ends
        BY <1>1, <3>1, QueueChanges
      <3>3. ASSUME NEW l \in 1 .. Loops
            PROVE  eaten'[l] + Cardinality(QueuedOf(l)') <= HasRead(l)'
        <4>1. QueuedOf(l)' = QueuedOf(l) /\ eaten'[l] = eaten[l]
          BY <3>1, <3>2 DEF QueuedOf
        <4>2. HasRead(l) <= HasRead(l)' /\ HasRead(l) \in Nat /\ HasRead(l)' \in Nat
          BY <1>1, <3>1, DecoderAppAssumption DEF HasRead
        <4>3. eaten[l] \in Nat /\ Cardinality(QueuedOf(l)) \in Nat
          BY <1>1, CountsOfQueue DEF AppTypes
        <4>4. eaten[l] + Cardinality(QueuedOf(l)) <= HasRead(l)
          BY <1>1 DEF EatenWasRead
        <4> QED BY <4>1, <4>2, <4>3, <4>4
      <3> QED BY <1>1, <3>1, <3>2, <3>3 DEF EatenWasRead
    <2>2. CASE ~StartLoop
      <3>1. UNCHANGED <<data, eaten, loop, pos, reader>>
        BY <1>2, <2>2, MainFrame
           DEF MainNext, InitPool, WakeUp, TimeOut, DecommitPool, AskExit, JoinReader,
               DestroyDecoder, JoinSlave, Drain, Drained, EndChannel, WakeToEnd, JoinN, DeinitPool,
               MainScStep, appVars, readerVars
      <3> QED BY <1>1, <1>2, <3>1, MainQueue, DroppedWasRead DEF ReaderGoesOn
    <2> QED BY <2>1, <2>2
  <1>3. CASE ReaderNext
    <2>1. CASE PushBuffer
      BY <2>1, PushedWasRead
    <2>2. CASE Flush
      <3>1. AddsEnd /\ UNCHANGED <<data, eaten, loop, pos>> /\ reader = "get" /\ reader' = "dropLast"
        BY <1>1, <1>3, <2>2, ReaderQueue, ReaderFrame DEF Flush, ReaderStep
      <3>2. Queued' = Queued /\ Cardinality(Ends') = Cardinality(Ends) + 1
        BY <1>1, <3>1, QueueChanges
      <3>3. \A l \in 1 .. Loops : QueuedOf(l)' = QueuedOf(l) /\ HasRead(l)' = HasRead(l)
        BY <3>1, <3>2 DEF QueuedOf, HasRead
      <3> QED BY <1>1, <3>1, <3>2, <3>3 DEF EatenWasRead
    <2>3. CASE ~PushBuffer /\ ~Flush
      <3>1. UNCHANGED <<data, pos, input>> /\ (ReaderGoesOn' => ReaderGoesOn)
        BY <1>1, <1>3, <2>3
           DEF ReaderNext, ReaderGets, ReaderExits, ReaderRefused, DropBuffer, ReaderStep,
               ReaderGoesOn, AppTypes
      <3> QED BY <1>1, <1>3, <3>1, ReaderFrame, DroppedWasRead
    <2> QED BY <2>1, <2>2, <2>3
  <1>4. CASE SlaveNext
    <2>1. CASE TakeInput
      BY <2>1, TakenWasRead
    <2>2. CASE ~TakeInput
      <3>1. UNCHANGED <<data, eaten, loop, pos, reader>>
        BY <1>4, <2>2, SlaveFrame
      <3> QED BY <1>1, <1>4, <3>1, SlaveQueue, DroppedWasRead DEF ReaderGoesOn
    <2> QED BY <2>1, <2>2
  <1>5. CASE InPool \/ InChannel
    <2>1. UNCHANGED <<data, eaten, loop, pos, reader, input>>
      BY <1>5, OthersFrame
    <2> QED BY <1>1, <2>1, DroppedWasRead DEF ReaderGoesOn
  <1> QED BY <1>2, <1>3, <1>4, <1>5, NextCases
-----------------------------------------------------------------------------
(* A loop in which nothing fails *)

Clean == faults = 0 /\ ~timedOut
InLoop == /\ ~exit /\ slave # "exited"
          /\ \A b \in Queued : data[b] = loop
          /\ Streaming \/ Ending \/ Ended
LoopLeft == /\ ~exitMain /\ slave = "run" /\ reader \in {"dropLast", "ended"}
            /\ input = <<>> /\ eaten[loop] = FileLen

\* CleanLoop in terms of its parts.
LEMMA CleanLoopIs ==
  CleanLoop <=>
    (Clean => /\ slave # "full"
              /\ main = "init" => ~exitMain /\ slave = "run"
              /\ main = "wait" => InLoop
              /\ main \in {"decommit", "exit", "join", "joined"} => LoopLeft)
  BY DEF CleanLoop, Clean, InLoop, LoopLeft

\* The head of the queue is taken in a loop in which nothing fails.
LEMMA TakenInLoop ==
  ASSUME AppInv, InLoop, main = "wait", TakeInput
  PROVE  InLoop'
  <1>1. /\ AppTypes /\ ThreadPlaces /\ QueueReferences /\ EatenWasRead /\ TypeOK
        /\ input \in Seq(Buffers \cup {Eos}) /\ loop \in 1 .. Loops
    BY TypesOfApp DEF AppInv, AppTypes, ThreadPlaces
  <1>2. /\ input # <<>> /\ input' = Tail(input) /\ Head(input) # Eos
        /\ Queued' = Queued \ {Head(input)} /\ Head(input) \in Queued
        /\ eaten' = [eaten EXCEPT ![data[Head(input)]] = @ + 1]
        /\ slave' \in {"refill", "run"} /\ slave = "run"
        /\ UNCHANGED <<data, loop, pos, reader, exit, exitMain>>
    BY <1>1, QueueChanges, QueueHead DEF TakeInput, TakesHead, Unref, SlaveStep, mainVars, readerVars
  <1>3. eaten'[loop] = eaten[loop] + 1 /\ eaten[loop] \in Nat
    BY <1>1, <1>2 DEF InLoop, AppTypes
  <1>4. /\ Len(input) \in Nat /\ Len(input) > 0 /\ DOMAIN input = 1 .. Len(input)
        /\ Head(input) = input[1]
        /\ Len(input') = Len(input) - 1 /\ DOMAIN input' = 1 .. Len(input) - 1
        /\ \A i \in 1 .. Len(input) - 1 : input'[i] = input[i + 1] /\ i + 1 \in 1 .. Len(input)
    BY <1>1, <1>2, QueueHead
  <1>5. ~Ended
    BY <1>2 DEF Ended
  <1>6. CASE Streaming
    <2>1. \A i \in DOMAIN input' : input'[i] # Eos
      BY <1>4, <1>6 DEF Streaming
    <2>2. eaten'[loop] + Len(input') = pos
      BY <1>3, <1>4, <1>6 DEF Streaming
    <2> QED BY <1>2, <1>6, <2>1, <2>2 DEF InLoop, Streaming
  <1>7. CASE Ending
    <2>1. Len(input) > 1
      BY <1>2, <1>4, <1>7 DEF Ending
    <2>2. input' # <<>>
      BY <1>4, <2>1, EmptySeq
    <2>3. \A i \in DOMAIN input' : input'[i] = Eos <=> i = Len(input')
      BY <1>4, <1>7 DEF Ending
    <2>4. eaten'[loop] + Len(input') = FileLen + 1
      <3>1. eaten[loop] + Len(input) = FileLen + 1
        BY <1>7 DEF Ending
      <3> QED BY <1>3, <1>4, <3>1
    <2> QED BY <1>2, <1>7, <2>2, <2>3, <2>4 DEF InLoop, Ending
  <1> QED BY <1>5, <1>6, <1>7 DEF InLoop

\* The reader queues a buffer in a loop in which nothing fails.
LEMMA PushedInLoop ==
  ASSUME AppInv, InLoop, main = "wait", PushBuffer
  PROVE  InLoop'
  <1>1. /\ AppTypes /\ TypeOK /\ QueueReferences
        /\ input \in Seq(Buffers \cup {Eos}) /\ loop \in Nat
        /\ data \in [Buffers -> 0 .. Loops] /\ Got \subseteq Buffers /\ Eos \notin Buffers
    BY TypesOfApp, DecoderAppAssumption DEF AppInv, AppTypes, Got
  <1>2. PICK b \in Got : /\ Slave \notin refs[b] /\ input' = Append(input, b)
                         /\ data' = [data EXCEPT ![b] = loop]
    BY DEF PushBuffer, Ref
  <1>3. /\ Queued' = Queued \cup {b}
        /\ UNCHANGED <<exit, slave, exitMain, eaten, loop>> /\ pos' = pos + 1
        /\ reader = "get" /\ reader' = "drop"
    BY <1>1, <1>2, QueueChanges DEF PushBuffer, ReaderStep, mainVars, slaveVars
  <1>4. \A c \in Queued' : data'[c] = loop'
    BY <1>1, <1>2, <1>3 DEF InLoop, Queued
  <1>5. /\ Len(input) \in Nat /\ Len(input') = Len(input) + 1
        /\ \A i \in DOMAIN input' : input'[i] # Eos
    <2>1. /\ Len(input) \in Nat /\ Len(input') = Len(input) + 1 /\ DOMAIN input' = 1 .. Len(input) + 1
          /\ \A i \in 1 .. Len(input) : input'[i] = input[i]
          /\ input'[Len(input) + 1] = b /\ DOMAIN input = 1 .. Len(input)
      BY <1>1, <1>2, QueueEnd
    <2>2. \A i \in 1 .. Len(input) + 1 : i \in 1 .. Len(input) \/ i = Len(input) + 1
      BY <2>1
    <2>3. Streaming /\ b # Eos
      BY <1>1, <1>3 DEF InLoop, Streaming, Ending, Ended
    <2> QED BY <2>1, <2>2, <2>3 DEF Streaming
  <1>6. eaten[loop] + Len(input) = pos /\ pos \in Nat
    BY <1>1, <1>3 DEF InLoop, Streaming, Ending, Ended, AppTypes
  <1>7. eaten[loop] \in Int
    <2>1. loop \in 1 .. Loops
      BY <1>1 DEF AppInv, ThreadPlaces, AppTypes
    <2> QED BY <1>1, <2>1 DEF AppTypes
  <1>8. eaten'[loop'] + Len(input') = pos'
    BY <1>3, <1>5, <1>6, <1>7
  <1> QED BY <1>3, <1>4, <1>5, <1>8 DEF InLoop, Streaming, Ending, Ended

\* The reader queues the end of input.
LEMMA FlushedInLoop ==
  ASSUME AppInv, InLoop, main = "wait", Flush
  PROVE  InLoop'
  <1>1. /\ AppTypes /\ TypeOK /\ QueueReferences
        /\ input \in Seq(Buffers \cup {Eos}) /\ loop \in 1 .. Loops
        /\ eaten \in [1 .. Loops -> Nat]
    BY TypesOfApp DEF AppInv, AppTypes, ThreadPlaces
  <1>2. /\ input' = Append(input, Eos) /\ AddsEnd
        /\ UNCHANGED <<exit, slave, exitMain, eaten, loop, data>> /\ pos = FileLen
        /\ reader = "get" /\ reader' = "dropLast"
    BY DEF Flush, ReaderStep, mainVars, slaveVars, AddsEnd, poolVars
  <1>3. /\ Len(input) \in Nat /\ Len(input') = Len(input) + 1 /\ DOMAIN input' = 1 .. Len(input) + 1
        /\ \A i \in 1 .. Len(input) : input'[i] = input[i]
        /\ input'[Len(input) + 1] = Eos /\ DOMAIN input = 1 .. Len(input)
        /\ input' \in Seq(Buffers \cup {Eos})
    BY <1>1, <1>2, QueueEnd
  <1>4. \A c \in Queued' : data'[c] = loop'
    BY <1>1, <1>2, QueueChanges DEF InLoop
  <1>5. Streaming
    BY <1>2 DEF InLoop, Streaming, Ending, Ended
  <1>6. input' # <<>>
    BY <1>3, EmptySeq
  <1>7. \A i \in 1 .. Len(input) + 1 : input'[i] = Eos <=> i = Len(input) + 1
    <2>1. \A i \in 1 .. Len(input) + 1 : i \in 1 .. Len(input) \/ i = Len(input) + 1
      BY <1>3
    <2>2. \A i \in 1 .. Len(input) : i # Len(input) + 1
      BY <1>3
    <2> QED BY <1>3, <1>5, <2>1, <2>2 DEF Streaming
  <1>8. eaten'[loop'] + Len(input') = FileLen + 1
    <2>1. eaten[loop] + Len(input) = FileLen /\ eaten[loop] \in Nat
      BY <1>1, <1>2, <1>5 DEF Streaming
    <2> QED BY <1>2, <1>3, <2>1
  <1> QED BY <1>2, <1>3, <1>4, <1>5, <1>6, <1>7, <1>8 DEF InLoop, Streaming, Ending

\* The decoder takes the end of input when it took everything before it.
LEMMA EndInLoop ==
  ASSUME AppInv, InLoop, main = "wait", EndOfInput
  PROVE  InLoop'
  <1>1. /\ AppTypes /\ TypeOK /\ QueueReferences
        /\ input \in Seq(Buffers \cup {Eos}) /\ loop \in 1 .. Loops
        /\ eaten \in [1 .. Loops -> Nat]
    BY TypesOfApp DEF AppInv, AppTypes, ThreadPlaces
  <1>2. /\ input # <<>> /\ input' = Tail(input) /\ Head(input) = Eos
        /\ slave' = "flush" /\ slave = "run"
        /\ UNCHANGED <<data, loop, pos, reader, exit, exitMain, eaten>>
    BY DEF EndOfInput, SlaveStep, mainVars, readerVars
  <1>3. /\ Len(input) \in Nat /\ Len(input) > 0 /\ DOMAIN input = 1 .. Len(input)
        /\ Head(input) = input[1] /\ input' \in Seq(Buffers \cup {Eos})
        /\ Len(input') = Len(input) - 1
    BY <1>1, <1>2, QueueHead
  <1>4. Ending
    BY <1>2, <1>3 DEF InLoop, Streaming, Ended
  <1>5. Len(input) = 1
    BY <1>2, <1>3, <1>4 DEF Ending
  <1>6. input' = <<>>
    BY <1>3, <1>5, EmptySeq
  <1>7. eaten[loop] = FileLen
    BY <1>1, <1>4, <1>5, DecoderAppAssumption DEF Ending
  <1>8. Queued' = {}
    BY <1>6 DEF Queued
  <1> QED BY <1>2, <1>4, <1>6, <1>7, <1>8 DEF InLoop, Ending, Ended

\* While nothing fails, a loop ends when its end of input was taken.
LEMMA CleanLoopKept ==
  ASSUME AppInv, Next
  PROVE  CleanLoop'
  <1>1. /\ AppTypes /\ TypeOK /\ QueueReferences /\ EatenWasRead /\ ThreadPlaces /\ CleanLoop
        /\ input \in Seq(Buffers \cup {Eos}) /\ loop \in 0 .. Loops
        /\ eaten \in [1 .. Loops -> Nat] /\ faults \in 0 .. MaxFaults
    BY TypesOfApp DEF AppInv, AppTypes
  <1> DEFINE Goal == /\ slave' # "full"
                     /\ main' = "init" => ~exitMain' /\ slave' = "run"
                     /\ main' = "wait" => InLoop'
                     /\ main' \in {"decommit", "exit", "join", "joined"} => LoopLeft'
  <1>2. CleanLoop' <=> (Clean' => Goal)
    BY DEF CleanLoop, Clean, InLoop, LoopLeft
  <1> SUFFICES ASSUME Clean' PROVE Goal
    BY <1>2
  <1> HIDE DEF Goal
  <1>3. CASE MainNext
    <2>1. Clean /\ slave' = slave /\ slave # "full"
      <3>1. timedOut' = timedOut \/ timedOut' = TRUE
        BY <1>3
         DEF MainNext, InitPool, StartLoop, WakeUp, TimeOut, DecommitPool, AskExit, JoinReader,
             DestroyDecoder, JoinSlave, Drain, Drained, EndChannel, WakeToEnd, JoinN, DeinitPool,
             MainScStep, appVars
      <3>2. faults' = faults /\ slave' = slave
        BY <1>3, MainFrame
      <3>3. Clean
        BY <3>1, <3>2 DEF Clean
      <3> QED BY <1>1, <3>2, <3>3, CleanLoopIs
    <2>2. CASE InitPool
      <3>1. UNCHANGED appVars /\ main = "init"
        BY <2>2 DEF InitPool
      <3> QED BY <1>1, <2>1, <3>1, CleanLoopIs DEF Goal, appVars
    <2>3. CASE StartLoop
      <3>1. ~exitMain /\ slave = "run" /\ input = <<>>
        BY <1>1, <2>1, <2>3, CleanLoopIs DEF StartLoop, LoopLeft, ThreadPlaces
      <3>2. /\ loop' = loop + 1 /\ pos' = 0 /\ reader' = "loop" /\ main' = "wait" /\ exit' = FALSE
            /\ UNCHANGED <<input, eaten, exitMain, data>>
        BY <1>3, <2>3, MainFrame DEF StartLoop, MainStep
      <3>3. loop + 1 \in 1 .. Loops
        <4>1. main = "init" => loop = 0
          BY <1>1 DEF ThreadPlaces
        <4> QED BY <1>1, <2>3, <4>1, DecoderAppAssumption DEF StartLoop
      <3>4. eaten[loop + 1] = 0
        <4>1. eaten[loop + 1] + Cardinality(QueuedOf(loop + 1)) <= 0
          BY <1>1, <3>3 DEF EatenWasRead, HasRead
        <4>2. eaten[loop + 1] \in Nat /\ Cardinality(QueuedOf(loop + 1)) \in Nat
          BY <1>1, <3>3, CountsOfQueue
        <4> QED BY <4>1, <4>2
      <3>5. Queued' = {} /\ DOMAIN input' = {} /\ Len(input') = 0
        BY <3>1, <3>2 DEF Queued
      <3>6. Streaming'
        BY <2>1, <3>1, <3>2, <3>4, <3>5 DEF Streaming
      <3> QED BY <2>1, <3>1, <3>2, <3>5, <3>6 DEF Goal, InLoop
    <2>4. CASE WakeUp
      <3>1. Ended /\ exitMain
        BY <1>1, <2>1, <2>4, CleanLoopIs DEF WakeUp, MainStep, InLoop, Streaming, Ending
      <3>2. main' = "decommit" /\ exitMain' = FALSE /\ UNCHANGED <<input, eaten, loop, reader>>
        BY <1>3, <2>4, MainFrame DEF WakeUp, MainStep
      <3> QED BY <2>1, <3>1, <3>2 DEF Goal, LoopLeft, Ended
    <2>5. CASE TimeOut
      BY <2>5 DEF TimeOut, Clean
    <2>6. CASE DecommitPool \/ AskExit \/ JoinReader
      <3>1. /\ main \in {"decommit", "exit", "join"} /\ main' \in {"exit", "join", "joined"}
            /\ UNCHANGED <<input, eaten, loop, reader, exitMain>>
        BY <1>3, <2>6, MainFrame DEF DecommitPool, AskExit, JoinReader, MainStep
      <3> QED BY <1>1, <2>1, <3>1, CleanLoopIs DEF Goal, LoopLeft
    <2>7. CASE ~(InitPool \/ StartLoop \/ WakeUp \/ TimeOut \/ DecommitPool \/ AskExit \/ JoinReader)
      <3>1. main' \in Destroying \cup {"done"}
        BY <1>3, <2>7
           DEF MainNext, DestroyDecoder, JoinSlave, Drain, Drained, EndChannel, WakeToEnd, JoinN,
               DeinitPool, MainStep, MainScStep, Destroying, Released
      <3> QED BY <2>1, <3>1 DEF Goal, Destroying, Released
    <2> QED BY <2>2, <2>3, <2>4, <2>5, <2>6, <2>7
  <1>4. CASE ReaderNext
    <2>1. /\ Clean /\ UNCHANGED <<slave, main, loop, exit, exitMain, eaten>> /\ slave # "full"
      BY <1>1, <1>4, ReaderFrame, CleanLoopIs DEF Clean
    <2>2. main # "init" /\ main # "joined"
      BY <1>1, <1>4
         DEF ThreadPlaces, Released, ReaderNext, ReaderGets, ReaderExits, ReaderRefused, PushBuffer,
             Flush, DropBuffer, ReaderStep
    <2>3. CASE main = "wait"
      <3>1. InLoop
        BY <1>1, <2>1, <2>3, CleanLoopIs
      <3>2. CASE PushBuffer
        BY <2>1, <2>3, <3>1, <3>2, PushedInLoop DEF Goal
      <3>3. CASE Flush
        BY <2>1, <2>3, <3>1, <3>3, FlushedInLoop DEF Goal
      <3>4. CASE ~PushBuffer /\ ~Flush
        <4>1. /\ UNCHANGED <<input, data, pos>>
              /\ \/ reader \in {"loop", "get", "drop"} /\ reader' \in {"loop", "get", "drop"}
                 \/ reader = "dropLast" /\ reader' = "ended"
          BY <1>4, <3>1, <3>4
             DEF InLoop, ReaderNext, ReaderGets, ReaderExits, ReaderRefused, DropBuffer, ReaderStep
        <4>2. Queued' = Queued
          BY <4>1 DEF Queued
        <4> QED BY <2>1, <2>3, <3>1, <4>1, <4>2 DEF Goal, InLoop, Streaming, Ending, Ended
      <3> QED BY <3>2, <3>3, <3>4
    <2>4. CASE main \in {"decommit", "exit", "join"}
      <3>1. LoopLeft
        BY <1>1, <2>1, <2>4, CleanLoopIs
      <3>2. UNCHANGED input /\ reader' = "ended"
        BY <1>4, <3>1
           DEF LoopLeft, ReaderNext, ReaderGets, ReaderExits, ReaderRefused, PushBuffer, Flush,
               DropBuffer, ReaderStep
      <3> QED BY <2>1, <2>4, <3>1, <3>2 DEF Goal, LoopLeft
    <2>5. CASE main \notin {"init", "wait", "decommit", "exit", "join", "joined"}
      BY <2>1, <2>5 DEF Goal
    <2> QED BY <2>2, <2>3, <2>4, <2>5
  <1>5. CASE SlaveNext
    <2>1. ~(SearchFails \/ InputFull \/ PictureEndsAll \/ SlaveFails)
      BY <1>1 DEF Clean, SearchFails, InputFull, PictureEndsAll, SlaveFails
    <2>2. SlaveRuns /\ UNCHANGED faults
      BY <1>5, <2>1
         DEF SlaveNext, SlaveRuns, TakeInput, SearchSC, WakeToSearch, RefillDone, EndOfInput, SlaveExits,
             DropInput, SignalEos, InputDropped
    <2>3. Clean /\ UNCHANGED <<main, loop, exit, reader, pos, data>> /\ slave # "full"
      BY <1>1, <1>5, <2>2, SlaveFrame, CleanLoopIs DEF Clean
    <2>4. slave' # "full"
      BY <2>2, <2>3
         DEF SlaveRuns, TakeInput, SearchSC, WakeToSearch, RefillDone, EndOfInput, SlaveExits,
             DropInput, SignalEos, InputDropped, SlaveStep, SlaveScStep
    <2>5. CASE main \in {"init", "decommit", "exit", "join", "joined"}
      <3>1. slave = "run" /\ input = <<>>
        BY <1>1, <2>3, <2>5, CleanLoopIs DEF LoopLeft, ThreadPlaces
      <3>2. keepGoing
        BY <1>1, <2>5 DEF ThreadPlaces, Destroying, Released
      <3> QED BY <2>2, <3>1, <3>2
              DEF SlaveRuns, TakeInput, SearchSC, WakeToSearch, RefillDone, EndOfInput, SlaveExits,
                  DropInput, SignalEos, InputDropped, SlaveStep, SlaveScStep
    <2>6. CASE main = "wait"
      <3>1. InLoop /\ keepGoing /\ ~leaving
        BY <1>1, <2>3, <2>6, CleanLoopIs DEF ThreadPlaces, Destroying, Released
      <3>2. CASE TakeInput
        BY <2>3, <2>4, <2>6, <3>1, <3>2, TakenInLoop DEF Goal
      <3>3. CASE EndOfInput
        BY <2>3, <2>4, <2>6, <3>1, <3>3, EndInLoop DEF Goal
      <3>4. CASE SearchSC \/ WakeToSearch \/ RefillDone
        <4>1. /\ UNCHANGED <<input, exitMain, eaten>>
              /\ slave \notin {"run", "flush"} /\ slave' \in {"wakeN", "waitSc", "run"}
          BY <3>4 DEF SearchSC, WakeToSearch, RefillDone, SlaveScStep
        <4>2. Queued' = Queued
          BY <4>1 DEF Queued
        <4> QED BY <2>3, <2>4, <2>6, <3>1, <4>1, <4>2 DEF Goal, InLoop, Streaming, Ending, Ended
      <3>5. CASE SignalEos
        <4>1. /\ UNCHANGED <<input, eaten>> /\ slave = "flush" /\ slave' = "run" /\ exitMain' = TRUE
          BY <3>1, <3>5 DEF SignalEos, SlaveStep
        <4>2. Queued' = Queued
          BY <4>1 DEF Queued
        <4> QED BY <2>3, <2>4, <2>6, <3>1, <4>1, <4>2 DEF Goal, InLoop, Streaming, Ending, Ended
      <3>6. ~SlaveExits /\ ~InputDropped /\ ~DropInput
        BY <2>3, <3>1 DEF SlaveExits, InputDropped, DropInput, SlaveStep, InLoop, Streaming, Ending, Ended
      <3> QED BY <2>2, <3>2, <3>3, <3>4, <3>5, <3>6 DEF SlaveRuns
    <2>7. CASE main \notin {"init", "wait", "decommit", "exit", "join", "joined"}
      BY <2>3, <2>4, <2>7 DEF Goal
    <2> QED BY <2>5, <2>6, <2>7
  <1>6. CASE InPool \/ InChannel
    <2>1. /\ UNCHANGED <<main, loop, exitMain, exit, reader, pos, slave, input, data, eaten, timedOut>>
          /\ Clean
      <3>1. faults' = faults \/ faults' = faults + 1
        BY <1>6, OthersFrame DEF InChannel, ChannelNext, SearchStatusFails
      <3> QED BY <1>1, <1>6, <3>1, OthersFrame DEF Clean
    <2>2. Queued' = Queued
      BY <2>1 DEF Queued
    <2> QED BY <1>1, <2>1, <2>2, CleanLoopIs DEF Goal, InLoop, LoopLeft, Streaming, Ending, Ended
  <1> QED BY <1>3, <1>4, <1>5, <1>6, NextCases
-----------------------------------------------------------------------------
(* The invariant and the theorems *)

\* The application starts in its invariant.
LEMMA AppStarts == Init => AppInv
  <1> SUFFICES ASSUME Init PROVE AppInv
    OBVIOUS
  <1>1. PoolInv
    BY PoolStarts DEF Init
  <1>2. /\ input = <<>> /\ input \in Seq(Buffers \cup {Eos}) /\ DOMAIN input = {} /\ Len(input) = 0
        /\ scList = <<>> /\ scList \in Seq({"search", "ended"})
    BY EmptySeq DEF Init, ScInit
  <1>3. Ends = {} /\ Queued = {} /\ Cardinality({}) = 0 /\ \A l : QueuedOf(l) = {}
    BY <1>2, FS_EmptySet DEF Ends, Queued, QueuedOf
  <1>4. FileLen \in Nat /\ Loops \in Nat /\ Loops > 0 /\ MaxFaults \in Nat
    BY DecoderAppAssumption
  <1>5. TypeOK
    <2>1. hasTimeout \in BOOLEAN
      BY DecoderAppAssumption DEF Init
    <2>2. {exitMain, exit, stopped, leaving, keepGoing, hasTimeout, timedOut, dropped} \subseteq BOOLEAN
      BY <2>1 DEF Init
    <2>3. {scDone, scLost} \subseteq BOOLEAN
      BY DEF Init, ScInit
    <2> QED BY <1>1, <1>2, <1>3, <1>4, <2>2, <2>3 DEF TypeOK, PoolInv, Init, ScInit
  <1>6. ReaderPlace
    BY ThreeThreads DEF ReaderPlace, Got, Init, PoolInit
  <1>7. ThreadPlaces
    BY <1>2, ThreeThreads DEF ThreadPlaces, Init, PoolInit, ScInit, Released, Destroying, Joined, Emptied
  <1>8. QueueReferences
    BY <1>2, <1>3 DEF QueueReferences, Init, PoolInit
  <1>9. EatenWasRead
    <2>1. /\ loop = 0 /\ pos = 0 /\ reader = "ended" /\ eaten = [l \in 1 .. Loops |-> 0]
          /\ Cardinality(Ends) = 0
      BY <1>3 DEF Init
    <2>2. ASSUME NEW l \in 1 .. Loops
          PROVE  eaten[l] = 0 /\ Cardinality(QueuedOf(l)) = 0 /\ HasRead(l) = 0
      <3>1. eaten[l] = 0
        BY <2>1
      <3>2. Cardinality(QueuedOf(l)) = 0
        BY <1>3
      <3>3. ~(l < loop) /\ l # loop
        BY <1>4, <2>1
      <3> QED BY <3>1, <3>2, <3>3 DEF HasRead
    <2>3. \A l \in 1 .. Loops : eaten[l] + Cardinality(QueuedOf(l)) <= HasRead(l)
      BY <2>2
    <2> QED BY <1>3, <2>1, <2>3 DEF EatenWasRead
  <1>10. CleanLoop
    BY DEF CleanLoop, Init
  <1> QED BY <1>1, <1>5, <1>6, <1>7, <1>8, <1>9, <1>10 DEF AppInv

\* Every step keeps it.
LEMMA AppKeeps ==
  ASSUME AppInv, Next
  PROVE  AppInv'
  <1>1. PoolInv'
    BY AppActsOnPool, PoolKeeps DEF AppInv
  <1>2. /\ AppTypes' /\ ReaderPlace' /\ ThreadPlaces' /\ QueueReferences' /\ EatenWasRead' /\ CleanLoop'
    BY AppTypesKept, ReaderPlaceKept, ThreadPlacesKept, QueueReferencesKept, EatenWasReadKept,
       CleanLoopKept DEF AppInv
  <1>3. TypeOK'
    <2>1. /\ FileLen \in Nat /\ input' \in Seq(Buffers \cup {Eos}) /\ pos' \in 0 .. FileLen
          /\ loop' \in 0 .. Loops /\ eaten' \in [1 .. Loops -> Nat] /\ Loops \in Nat
      BY <1>2, DecoderAppAssumption DEF AppTypes
    <2>2. Cardinality(Ends') \in Nat /\ \A l : Cardinality(QueuedOf(l)') \in Nat
      <3>1. IsFiniteSet(BuffersOf(input')) /\ Cardinality(EndsOf(input')) \in Nat
        BY <2>1, QueueFinite
      <3>2. Ends' = EndsOf(input') /\ \A l : QueuedOf(l)' \in SUBSET BuffersOf(input')
        BY DEF Ends, EndsOf, QueuedOf, Queued, BuffersOf
      <3> QED BY <3>1, <3>2, FS_Subset, FS_CardinalityType
    <2>3. eaten' \in [1 .. Loops -> 0 .. FileLen]
      <3>1. ASSUME NEW l \in 1 .. Loops PROVE eaten'[l] \in 0 .. FileLen
        <4>1. eaten'[l] + Cardinality(QueuedOf(l)') <= HasRead(l)'
          BY <1>2 DEF EatenWasRead
        <4>2. HasRead(l)' \in Int /\ HasRead(l)' <= FileLen
          BY <2>1 DEF HasRead
        <4> QED BY <2>1, <2>2, <4>1, <4>2
      <3> QED BY <2>1, <3>1
    <2>4. Cardinality(Ends') <= Loops
      <3>1. Cardinality(Ends') + (IF ReaderGoesOn' THEN 1 ELSE 0) <= loop'
        BY <1>2 DEF EatenWasRead, ReaderGoesOn
      <3> QED BY <2>1, <2>2, <3>1
    <2>5. /\ {exitMain', exit', stopped', leaving', keepGoing', hasTimeout', timedOut', dropped'}
               \subseteq BOOLEAN
          /\ {scDone', scLost'} \subseteq BOOLEAN
      BY <1>2 DEF AppTypes
    <2>6. PoolTypeOK'
      BY <1>1 DEF PoolInv
    <2> QED BY <1>2, <2>3, <2>4, <2>5, <2>6 DEF TypeOK, AppTypes, MainLabels
  <1> QED BY <1>1, <1>2, <1>3 DEF AppInv

\* The inductive invariant of the application.
THEOREM AppInvariant == Spec => []AppInv
  <1>1. AppInv /\ UNCHANGED vars => AppInv'
    <2> SUFFICES ASSUME AppInv, UNCHANGED vars PROVE AppInv'
      OBVIOUS
    <2>1. /\ UNCHANGED <<ring, zHead, zTail, iBufNumber, isDecommited, hSpaceSem, signaled, made, refs,
                         pc, pElem>>
          /\ UNCHANGED <<main, loop, exitMain, exit, reader, pos, slave, stopped, leaving, keepGoing,
                         input, data, eaten, hasTimeout, timedOut, faults, dropped>>
          /\ UNCHANGED <<scList, scDone, scLost, pcN>>
      BY DEF vars, poolVars, appVars, scVars
    <2>2. PoolInv'
      BY PoolKeeps DEF AppInv, vars
    <2>3. TypeOK'
      BY <2>1, <2>2 DEF AppInv, TypeOK, PoolInv, Ends
    <2>4. ReaderPlace' /\ ThreadPlaces'
      BY <2>1 DEF AppInv, ReaderPlace, ThreadPlaces, Got
    <2>5. QueueReferences' /\ EatenWasRead'
      BY <2>1 DEF AppInv, QueueReferences, EatenWasRead, Queued, QueuedOf, HasRead, Ends
    <2>6. CleanLoop'
      BY <2>1 DEF AppInv, CleanLoop, Streaming, Ending, Ended, Queued
    <2> QED BY <2>2, <2>3, <2>4, <2>5, <2>6 DEF AppInv
  <1>2. AppInv /\ [Next]_vars => AppInv'
    BY <1>1, AppKeeps
  <1> QED BY <1>2, AppStarts, PTL DEF Spec

\* For every number of buffers, of reads per file and of loops: what is queued for the decoder is
\* referenced by the queue and is in it once, every buffer is in one place, and every variable has its
\* type (AL_BufferFeeder_PushBuffer, AL_BufPool_GetBuffer).
THEOREM QueueOwnsInputsTheorem == Spec => []QueueOwnsInputs
  <1>1. AppInv => QueueOwnsInputs
    <2> SUFFICES ASSUME AppInv PROVE QueueOwnsInputs
      OBVIOUS
    <2>1. TypeOK /\ InOnePlace
      BY InvOnePlace DEF AppInv
    <2>2. ASSUME NEW i \in DOMAIN input, input[i] # Eos
          PROVE  Slave \in refs[input[i]] /\ \A j \in DOMAIN input \ {i} : input[j] # input[i]
      <3>1. input[i] \in Buffers
        <4>1. input \in Seq(Buffers \cup {Eos}) /\ i \in 1 .. Len(input)
          BY <2>1, LenProperties DEF TypeOK
        <4> QED BY <2>2, <4>1, ElementOfSeq
      <3> QED BY <2>2, <3>1 DEF AppInv, QueueReferences, Queued
    <2> QED BY <2>1, <2>2 DEF QueueOwnsInputs
  <1> QED BY <1>1, AppInvariant, PTL

\* Main leaves a loop in which nothing failed only when the decoder took the whole file (SafeMain).
THEOREM LoopsWholeTheorem == Spec => []LoopsWhole
  <1>1. AppInv => LoopsWhole
    BY DEF AppInv, CleanLoop, LoopsWhole
  <1> QED BY <1>1, AppInvariant, PTL

\* When AL_BufPool_Deinit destroys the pool every buffer is back in it, however the loop ended.
THEOREM InputsReturnedTheorem == Spec => []InputsReturned
  <1>1. AppInv => InputsReturned
    <2> SUFFICES ASSUME AppInv, main = "pool"
                 PROVE  iBufNumber = MaxElem /\ \A b \in Buffers : refs[b] = {}
      BY DEF InputsReturned
    <2>1. /\ reader = "ended" /\ pc[Reader] = "idle" /\ pc[Slave] = "idle" /\ pc[Main] = "idle"
          /\ input = <<>> /\ made = Buffers
      BY DEF AppInv, ThreadPlaces, Released, Destroying, Joined, Emptied
    <2>2. Queued = {} /\ Got = {}
      BY <2>1 DEF AppInv, Queued, ReaderPlace
    <2>3. \A b \in Buffers : refs[b] = {}
      BY <2>2 DEF AppInv, QueueReferences, Got
    <2>4. OnTheWay = {} /\ Referenced = {} /\ Unmade = {}
      BY <2>1, <2>3, ThreeThreads DEF AppInv, PoolInv, HandsFull, OnTheWay, Referenced, Unmade
    <2>5. iBufNumber = MaxElem
      <3>1. Cardinality(OnTheWay) = 0 /\ Cardinality(Referenced) = 0 /\ Cardinality(Unmade) = 0
        BY <2>4, FS_EmptySet
      <3>2. iBufNumber \in Int /\ BuffersCounted
        BY MaxElemPositive DEF AppInv, PoolInv, PoolTypeOK
      <3> QED BY <3>1, <3>2 DEF BuffersCounted
    <2> QED BY <2>3, <2>5
  <1> QED BY <1>1, AppInvariant, PTL

\* In the application too, whoever drops the last reference finds room in the pool at once.
THEOREM AppPutBackTheorem == Spec => []PutBackNeverWaits
  <1>1. AppInv => PutBackNeverWaits
    BY InvPutBack DEF AppInv
  <1> QED BY <1>1, AppInvariant, PTL
=============================================================================

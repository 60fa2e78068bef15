------------------------------- MODULE Feeder -------------------------------
(***************************************************************************)
(* How the stream reaches the decoder: AL_TBufferFeeder, AL_TDecoderFeeder *)
(* and AL_TPatchworker (lib_decode).  The application A queues buffers;    *)
(* the slave thread S copies them into a circular buffer, cuts it into     *)
(* units, launches pictures, and flushes the decoder at the end of the     *)
(* stream; the thread H of the hardware ends pictures, which frees what    *)
(* they used of the circular buffer.                                       *)
(*                                                                         *)
(* The stream is a sequence of pieces of equal size: "first" is the first  *)
(* slice of a picture, "next" another slice, "more" the rest of a slice.   *)
(* Picture buffers are the concern of DecPipeline and do not appear.       *)
(***************************************************************************)
EXTENDS Integers, Sequences, FiniteSets, FiniteSetsExt

CONSTANTS
    Buffers,     \* input buffers of the application
    EosBuf,      \* eosBuffer
    NoBuf,       \* NULL
    MaxElem,     \* iInputFifoSize
    CircSize,    \* size of the circular buffer
    StackSize,   \* iStackSize
    SliceModes,  \* the settings of eDecUnit: is it AL_VCL_NAL_UNIT
    Contents,    \* what a buffer may be filled with
    MaxPush,     \* bound: buffers pushed
    MaxFlush     \* bound: calls of AL_Decoder_Flush

Pieces == {"first", "next", "more"}

ASSUME FeederAssumption ==
    /\ EosBuf \notin Buffers /\ NoBuf \notin Buffers \cup {EosBuf}
    /\ MaxElem \in Nat \ {0} /\ CircSize \in Nat \ {0} /\ StackSize \in Nat \ {0}
    /\ SliceModes \subseteq BOOLEAN
    /\ Contents \subseteq Seq(Pieces)
    /\ MaxPush \in Nat /\ MaxFlush \in Nat

EosNal == <<"first">>
Inputs == Buffers \cup {EosBuf}

VARIABLES
    fifo,        \* queued buffers, a bounded queue (Fifo)
    data,        \* what each buffer holds
    metas,       \* the circular metadata attached to each buffer, oldest first
    workBuf, endOfOutput,       \* Patchworker
    circ, off,   \* the used part of the circular buffer, and its offset iOffset
    seen,        \* how much of circ the start code detector has seen
    from,        \* how much of circ precedes the first slice not decoded
    strOff, curOff,             \* iStreamOffset, iCurOffset
    sem, chan, blk1, blk2,      \* Sem, pictures in the hardware, iNumFrmBlk1 and 2
    picture,     \* the picture S is preparing: "none", "begun", "partly" sent
    pcS, reason, \* thread S: label, why it flushes
    event, keepGoing, stopped, endWithAccessUnit,
    pcH,         \* thread H: label
    pcA, call,   \* application: label, the call it is in
    pushes, flushes, eos,       \* buffers pushed, flushes asked, ends of stream signalled
    base, begin, \* pieces freed so far; the first one of the picture being prepared
    dropped,     \* was the input dropped because the circular buffer was full
    sliceMode    \* are slices decoded one by one

queueVars == <<fifo, data, metas, workBuf, endOfOutput>>
circVars == <<circ, off, seen, from, base>>
picVars == <<strOff, chan, blk1, picture, begin>>
hVars == <<curOff, blk2, pcH>>
aVars == <<pcA, call, keepGoing, pushes, flushes>>
vars == <<queueVars, circVars, picVars, hVars, aVars, sem, pcS, reason, event, stopped,
          endWithAccessUnit, eos, dropped, sliceMode>>

Init ==
    /\ fifo = <<>> /\ workBuf = NoBuf /\ endOfOutput = FALSE
    /\ data = [b \in Inputs |-> IF b = EosBuf THEN EosNal ELSE <<>>]
    /\ metas = [b \in Inputs |-> <<>>]
    /\ circ = <<>> /\ off = 0 /\ seen = 0 /\ from = 0
    /\ strOff = [i \in 0 .. StackSize - 1 |-> 0] /\ curOff = 0
    /\ sem = StackSize /\ chan = <<>> /\ blk1 = 0 /\ blk2 = 0
    /\ picture = "none" /\ begin = 0 /\ base = 0
    /\ pcS = "wait" /\ reason = "none" /\ event = FALSE
    /\ keepGoing = TRUE /\ stopped = TRUE /\ endWithAccessUnit = TRUE
    /\ pcH = "idle" /\ pcA = "run" /\ call = [name |-> "none", buf |-> NoBuf]
    /\ pushes = 0 /\ flushes = 0 /\ eos = 0 /\ dropped = FALSE
    /\ sliceMode \in SliceModes
-----------------------------------------------------------------------------
(* The application *)

AStep(from_, to) ==
    /\ pcA = from_ /\ pcA' = to
    /\ UNCHANGED <<workBuf, endOfOutput, circVars, picVars, hVars, sem, pcS, reason,
                   stopped, endWithAccessUnit, eos, dropped, sliceMode>>

Queued == {fifo[i] : i \in DOMAIN fifo} \cup {workBuf}

\* The metadata is attached, then the buffer queued, then the slave notified
Attach(b, size, last, c) ==
    /\ metas' = [metas EXCEPT ![b] = Append(@, [off |-> 0, avail |-> size, last |-> last])]
    /\ call' = [name |-> c, buf |-> b]

PushBuffer(b, content) ==
    /\ AStep("run", "queue")
    /\ pushes < MaxPush /\ b \notin Queued /\ flushes = eos
    /\ pushes' = pushes + 1
    /\ data' = [data EXCEPT ![b] = content]
    /\ Attach(b, Len(content), FALSE, "push")
    /\ UNCHANGED <<fifo, event, keepGoing, flushes>>

Flush ==
    /\ AStep("run", "queue")
    /\ flushes < MaxFlush /\ flushes = eos
    /\ flushes' = flushes + 1
    /\ Attach(EosBuf, Len(EosNal), TRUE, "flush")
    /\ UNCHANGED <<fifo, data, event, keepGoing, pushes>>

Destroy ==
    /\ AStep("run", "queue")
    /\ Attach(EosBuf, Len(EosNal), FALSE, "destroy")
    /\ UNCHANGED <<fifo, data, event, keepGoing, pushes, flushes>>

Enqueue ==
    /\ AStep("queue", "notify")
    /\ Len(fifo) < MaxElem
    /\ fifo' = Append(fifo, call.buf)
    /\ UNCHANGED <<data, metas, event, keepGoing, call, pushes, flushes>>

\* Mutated: nobody is told
NotifyNot ==
    /\ AStep("notify", CASE call.name = "push" -> "run"
                         [] call.name = "flush" -> "flush"
                         [] call.name = "destroy" -> "stop")
    /\ UNCHANGED <<fifo, data, metas, event, keepGoing, call, pushes, flushes>>

Notify ==
    /\ AStep("notify", CASE call.name = "push" -> "run"
                         [] call.name = "flush" -> "flush"
                         [] call.name = "destroy" -> "stop")
    /\ event' = TRUE
    /\ UNCHANGED <<fifo, data, metas, keepGoing, call, pushes, flushes>>

NotifyFlush ==
    /\ AStep("flush", "run")
    /\ event' = TRUE
    /\ UNCHANGED <<fifo, data, metas, keepGoing, call, pushes, flushes>>

StopSlave ==
    /\ AStep("stop", "join")
    /\ keepGoing' = FALSE
    /\ event' = TRUE
    /\ UNCHANGED <<fifo, data, metas, call, pushes, flushes>>

JoinSlave ==
    /\ AStep("join", "destroyed")
    /\ pcS = "exited"
    /\ UNCHANGED <<fifo, data, metas, event, keepGoing, call, pushes, flushes>>

\* A picture buffer comes back: AL_Default_Decoder_PutDecPict signals the feeder too
Signal ==
    /\ pcA # "destroyed"
    /\ event' = TRUE
    /\ UNCHANGED <<queueVars, circVars, picVars, hVars, aVars, sem, pcS, reason, stopped,
                   endWithAccessUnit, eos, dropped, sliceMode>>
-----------------------------------------------------------------------------
(* The slave thread: AL_Patchworker_Transfer and its callers *)

SStep(from_, to) ==
    /\ pcS = from_ /\ pcS' = to
    /\ UNCHANGED <<data, hVars, aVars, dropped, sliceMode>>

\* Mutated: the slave runs until it has stopped
KeepGoingUntilStopped == keepGoing \/ ~stopped

ShouldKeepGoing == keepGoing \/ ~endWithAccessUnit

WakeUp ==
    /\ SStep("wait", IF ShouldKeepGoing THEN "consume" ELSE IF stopped THEN "exited" ELSE "flush")
    /\ event /\ event' = FALSE
    /\ reason' = "exit"
    /\ UNCHANGED <<fifo, metas, workBuf, endOfOutput, circVars, picVars, sem, stopped,
                   endWithAccessUnit, eos>>

\* CircBuffer_ConsumeUpToOffset: how much lies before the offset o
Before(o) == IF o < off THEN o + CircSize - off ELSE o - off

ConsumeUpTo(o) ==
    /\ circ' = SubSeq(circ, Before(o) + 1, Len(circ))
    /\ seen' = seen - Before(o)
    /\ from' = from - Before(o)
    /\ base' = base + Before(o)
    /\ off' = o

Consume ==
    /\ SStep("consume", "transfer")
    /\ ConsumeUpTo(curOff)
    /\ UNCHANGED <<fifo, metas, workBuf, endOfOutput, picVars, sem, reason, event, stopped,
                   endWithAccessUnit, eos>>

\* What the memory of a buffer holds, also past its data
Memory(b, o, n) ==
    [i \in 1 .. n |-> IF o + i \in DOMAIN data[b] THEN data[b][o + i] ELSE "more"]

NothingToTransfer ==
    /\ SStep("transfer", "decode")
    /\ workBuf = NoBuf /\ fifo = <<>>
    /\ UNCHANGED <<fifo, metas, workBuf, endOfOutput, circVars, picVars, sem, reason, event,
                   stopped, endWithAccessUnit, eos>>

UnusedArea == CircSize - Len(circ)

\* Mutated: the slave does not call itself again
EventAfterNothing(n) == event

EventAfter(n) == event \/ n > 0

\* The buffer is copied as far as there is room, by its oldest metadata
Transfer ==
    /\ SStep("transfer", "decode")
    /\ workBuf # NoBuf \/ fifo # <<>>
    /\ LET b == IF workBuf # NoBuf THEN workBuf ELSE Head(fifo)
           meta == Head(metas[b])
           n == Min({meta.avail, UnusedArea})
           rest == [meta EXCEPT !.off = @ + n, !.avail = @ - n]
       IN  /\ fifo' = IF workBuf # NoBuf THEN fifo ELSE Tail(fifo)
           /\ circ' = circ \o Memory(b, meta.off, n)
           /\ metas' = [metas EXCEPT ![b] = IF rest.avail = 0 THEN Tail(@)
                                            ELSE <<rest>> \o Tail(@)]
           /\ workBuf' = IF rest.avail = 0 THEN NoBuf ELSE b
           /\ endOfOutput' = (endOfOutput \/ (rest.avail = 0 /\ meta.last))
           /\ event' = EventAfter(n)
    /\ UNCHANGED <<off, seen, from, base, picVars, sem, reason, stopped, endWithAccessUnit,
                   eos>>
-----------------------------------------------------------------------------
(* The slave thread: AL_Default_Decoder_TryDecodeOneUnit *)

\* The slices in the start code table, as positions in circ
Slices == {i \in from + 1 .. seen : circ[i] # "more"}

\* SearchNextDecodingUnit: a unit ends where the slice that follows it starts, the first
\* one of another picture unless slices are decoded one by one
Followers ==
    {i \in Slices : i > Min(Slices) /\ (sliceMode \/ circ[i] = "first")}
UnitFound == Followers # {}
UnitEnd == Min(Followers) - 1
EndsPicture == circ[UnitEnd + 1] = "first"
OffsetOf(n) == (off + n) % CircSize

\* Whether to go on is asked before a unit is looked for, not after a search
LooksForUnit == pcS = "search" \/ (pcS = "decode" /\ ShouldKeepGoing)

\* The start code detector goes through what it has not seen
RefillStartCodes ==
    /\ SStep(pcS, "search")
    /\ LooksForUnit /\ ~UnitFound /\ seen < Len(circ)
    /\ seen' = Len(circ)
    /\ UNCHANGED <<fifo, metas, workBuf, endOfOutput, circ, off, from, base, picVars, sem,
                   reason, event, stopped, endWithAccessUnit, eos>>

FindUnit ==
    /\ SStep(pcS, "unit")
    /\ LooksForUnit /\ UnitFound
    /\ UNCHANGED <<fifo, metas, workBuf, endOfOutput, circVars, picVars, sem, reason, event,
                   stopped, endWithAccessUnit, eos>>

NoMoreUnit ==
    /\ SStep(pcS, "full")
    /\ IF LooksForUnit THEN ~UnitFound /\ seen = Len(circ) ELSE pcS = "decode"
    /\ UNCHANGED <<fifo, metas, workBuf, endOfOutput, circVars, picVars, sem, reason, event,
                   stopped, endWithAccessUnit, eos>>

\* The first slice of the stream fails to set the decoder up
UnitError ==
    /\ SStep("unit", "exited")
    /\ blk1 = 0 /\ stopped /\ eos = 0
    /\ stopped' = FALSE
    /\ UNCHANGED <<fifo, metas, workBuf, endOfOutput, circVars, picVars, sem, reason, event,
                   endWithAccessUnit, eos>>

\* Mutated: a count is taken for every slice
BeginSlice ==
    /\ SStep("unit", "slice")
    /\ sem > 0 /\ sem' = sem - 1
    /\ picture' = IF picture = "none" THEN "begun" ELSE picture
    /\ begin' = IF picture = "none" THEN base + from ELSE begin
    /\ UNCHANGED <<fifo, metas, workBuf, endOfOutput, circVars, strOff, chan, blk1, reason,
                   event, stopped, endWithAccessUnit, eos>>

\* AL_InitFrameBuffers, at the first slice of a picture
BeginPicture ==
    /\ SStep("unit", "slice")
    /\ IF picture # "none" THEN UNCHANGED <<sem, picture, begin>>
       ELSE /\ sem > 0 /\ sem' = sem - 1
            /\ picture' = "begun"
            /\ begin' = base + from
    /\ UNCHANGED <<fifo, metas, workBuf, endOfOutput, circVars, strOff, chan, blk1, reason,
                   event, stopped, endWithAccessUnit, eos>>

UnitDone ==
    /\ SStep("slice", "decode")
    /\ from' = UnitEnd
    /\ stopped' = FALSE
    /\ endWithAccessUnit' = EndsPicture
    /\ UNCHANGED <<fifo, metas, workBuf, endOfOutput, circ, off, seen, base, reason, event,
                   eos>>

\* Mutated: the count of the picture is not given back
CancelPictureKeepsCount ==
    /\ UnitDone
    /\ picture = "begun"
    /\ picture' = "none"
    /\ UNCHANGED <<sem, strOff, chan, blk1, begin>>

\* The picture is not decoded: AL_CancelFrameBuffers
CancelPicture ==
    /\ UnitDone
    /\ picture = "begun"
    /\ picture' = "none" /\ sem' = sem + 1
    /\ UNCHANGED <<strOff, chan, blk1, begin>>

\* The slice is not decoded, the picture still may be
SkipSlice ==
    /\ UnitDone
    /\ ~EndsPicture
    /\ UNCHANGED <<sem, picture, strOff, chan, blk1, begin>>

\* Mutated: the slice counts as a picture
LaunchSliceCounted ==
    /\ UnitDone
    /\ ~EndsPicture
    /\ picture' = "partly"
    /\ strOff' = [strOff EXCEPT ![blk1 % StackSize] = OffsetOf(UnitEnd)]
    /\ blk1' = blk1 + 1
    /\ UNCHANGED <<sem, chan, begin>>

\* AL_LaunchSliceDecoding of a slice that is not the last one of its picture
LaunchSlice ==
    /\ UnitDone
    /\ ~EndsPicture
    /\ picture' = "partly"
    /\ strOff' = [strOff EXCEPT ![blk1 % StackSize] = OffsetOf(UnitEnd)]
    /\ UNCHANGED <<sem, chan, blk1, begin>>

\* Mutated: the offset is the one of the command before
LaunchPictureAtPrevious ==
    /\ UnitDone
    /\ EndsPicture
    /\ picture' = "none"
    /\ strOff' = [strOff EXCEPT ![(blk1 + 1) % StackSize] = OffsetOf(UnitEnd)]
    /\ chan' = Append(chan, [first |-> begin, last |-> base + UnitEnd])
    /\ blk1' = blk1 + 1
    /\ UNCHANGED <<sem, begin>>

\* AL_LaunchFrameDecoding, or AL_LaunchSliceDecoding of the last slice
LaunchPicture ==
    /\ UnitDone
    /\ EndsPicture
    /\ picture' = "none"
    /\ strOff' = [strOff EXCEPT ![blk1 % StackSize] = OffsetOf(UnitEnd)]
    /\ chan' = Append(chan, [first |-> begin, last |-> base + UnitEnd])
    /\ blk1' = blk1 + 1
    /\ UNCHANGED <<sem, begin>>
-----------------------------------------------------------------------------
(* The slave thread: a full circular buffer, the end of the stream *)

IsFull == Len(circ) = CircSize

CheckFull ==
    /\ SStep("full", IF IsFull THEN "waitFull" ELSE "last")
    /\ UNCHANGED <<fifo, metas, workBuf, endOfOutput, circVars, picVars, sem, reason, event,
                   stopped, endWithAccessUnit, eos>>

\* AL_Default_Decoder_WaitFrameSent takes every count of the semaphore
WaitWhenFull ==
    /\ SStep("waitFull", "consumeFull")
    /\ sem = StackSize /\ sem' = 0
    /\ UNCHANGED <<fifo, metas, workBuf, endOfOutput, circVars, picVars, reason, event,
                   stopped, endWithAccessUnit, eos>>

ConsumeWhenFull ==
    /\ SStep("consumeFull", IF Before(curOff) = 0 THEN "drop" ELSE "release")
    /\ ConsumeUpTo(curOff)
    /\ reason' = "full"
    /\ UNCHANGED <<fifo, metas, workBuf, endOfOutput, picVars, sem, event, stopped,
                   endWithAccessUnit, eos>>

\* AL_Patchworker_Drop, one buffer of the queue
DropBuffer ==
    /\ SStep("drop", "drop")
    /\ workBuf # NoBuf \/ fifo # <<>>
    /\ workBuf' = IF fifo = <<>> THEN NoBuf ELSE Head(fifo)
    /\ fifo' = IF fifo = <<>> THEN <<>> ELSE Tail(fifo)
    /\ UNCHANGED <<metas, endOfOutput, circVars, picVars, sem, reason, event, stopped,
                   endWithAccessUnit, eos>>

\* The rest of AL_Default_Decoder_FlushInput
FlushInput ==
    /\ pcS = "drop" /\ pcS' = "release"
    /\ workBuf = NoBuf /\ fifo = <<>>
    /\ endOfOutput' = FALSE
    /\ dropped' = (dropped \/ reason = "full")
    /\ curOff' = 0
    /\ circ' = <<>> /\ off' = 0 /\ seen' = 0 /\ from' = 0
    /\ base' = base + Len(circ)
    /\ UNCHANGED <<fifo, data, metas, workBuf, picVars, blk2, pcH, aVars, sem, reason, event,
                   stopped, endWithAccessUnit, eos, sliceMode>>

ReleaseFrames ==
    /\ SStep("release", IF reason = "full" THEN "last" ELSE "signalEos")
    /\ sem' = sem + StackSize
    /\ event' = (event \/ reason = "full")
    /\ UNCHANGED <<fifo, metas, workBuf, endOfOutput, circVars, picVars, reason, stopped,
                   endWithAccessUnit, eos>>

\* Mutated: the end of the output is looked for before the last units are decoded
CheckLastEarly ==
    /\ SStep("last", "wait")
    /\ reason' = "last"
    /\ UNCHANGED <<fifo, metas, workBuf, endOfOutput, circVars, picVars, sem, event,
                   stopped, endWithAccessUnit, eos>>

CheckLast ==
    /\ SStep("last", IF endOfOutput THEN "flush" ELSE "wait")
    /\ reason' = "last"
    /\ UNCHANGED <<fifo, metas, workBuf, endOfOutput, circVars, picVars, sem, event,
                   stopped, endWithAccessUnit, eos>>

\* AL_Default_Decoder_InternalFlush
WaitWhenFlushing ==
    /\ SStep("flush", "drop")
    /\ sem = StackSize /\ sem' = 0
    /\ UNCHANGED <<fifo, metas, workBuf, endOfOutput, circVars, picVars, reason, event,
                   stopped, endWithAccessUnit, eos>>

SignalEos ==
    /\ SStep("signalEos", IF reason = "exit" THEN "exited" ELSE "wait")
    /\ eos' = eos + 1
    /\ stopped' = (stopped \/ reason = "last")
    /\ UNCHANGED <<fifo, metas, workBuf, endOfOutput, circVars, picVars, sem, reason, event,
                   endWithAccessUnit>>
-----------------------------------------------------------------------------
(* The thread of the hardware: AL_Default_Decoder_EndDecoding *)

HStep(from_, to) ==
    /\ pcH = from_ /\ pcH' = to
    /\ UNCHANGED <<queueVars, circVars, strOff, blk1, picture, begin, aVars, pcS, reason,
                   stopped, endWithAccessUnit, eos, dropped, sliceMode>>

\* Mutated: the command after the one that ended
NextCommand == (blk2 + 1) % StackSize

EndedCommand == blk2 % StackSize

EndPicture ==
    /\ HStep("idle", "signal")
    /\ chan # <<>> /\ chan' = Tail(chan)
    /\ curOff' = strOff[EndedCommand]
    /\ blk2' = blk2 + 1
    /\ UNCHANGED <<sem, event>>

SignalFeeder ==
    /\ HStep("signal", "post")
    /\ event' = TRUE
    /\ UNCHANGED <<chan, curOff, blk2, sem>>

PostSemaphore ==
    /\ HStep("post", "idle")
    /\ sem' = sem + 1
    /\ UNCHANGED <<chan, curOff, blk2, event>>

Over == pcA = "destroyed" /\ UNCHANGED vars
-----------------------------------------------------------------------------
ACall == Enqueue \/ Notify \/ NotifyFlush \/ StopSlave \/ JoinSlave

SNext ==
    \/ WakeUp \/ Consume \/ NothingToTransfer \/ Transfer
    \/ RefillStartCodes \/ FindUnit \/ NoMoreUnit
    \/ BeginPicture \/ CancelPicture \/ SkipSlice \/ LaunchSlice \/ LaunchPicture
    \/ CheckFull \/ WaitWhenFull \/ ConsumeWhenFull \/ DropBuffer \/ FlushInput
    \/ ReleaseFrames \/ CheckLast \/ WaitWhenFlushing \/ SignalEos

HNext == EndPicture \/ SignalFeeder \/ PostSemaphore

Next ==
    \/ \E b \in Buffers, c \in Contents : PushBuffer(b, c)
    \/ Flush \/ Destroy \/ ACall \/ Signal
    \/ SNext \/ UnitError \/ HNext \/ Over

Spec == Init /\ [][Next]_vars

\* The threads run, the hardware ends its pictures, a call of the application goes on.
FairSpec == Spec /\ WF_vars(ACall) /\ WF_vars(SNext) /\ WF_vars(HNext)
-----------------------------------------------------------------------------
(* Properties *)

\* Every variable keeps its type.
TypeOK ==
    /\ fifo \in Seq(Inputs) /\ Len(fifo) <= MaxElem
    /\ workBuf \in Inputs \cup {NoBuf}
    /\ data \in [Inputs -> Seq(Pieces)]
    /\ metas \in [Inputs -> Seq([off : Nat, avail : Nat, last : BOOLEAN])]
    /\ circ \in Seq(Pieces) /\ Len(circ) <= CircSize /\ off \in 0 .. CircSize - 1
    /\ from \in 0 .. seen /\ seen \in 0 .. Len(circ)
    /\ sem \in 0 .. StackSize

\* The part of the stream a picture on its way or in the hardware reads stays in the
\* circular buffer until its end: nothing is freed or copied over too early, as the offset
\* up to which the end of a picture frees the stream is the one stored at its launch,
\* though the ring of offsets has iStackSize entries only (DefaultDecoder.c 229).
StreamKept ==
    /\ \A i \in DOMAIN chan :
           /\ chan[i].first >= base
           /\ strOff[(blk2 + i - 1) % StackSize] = OffsetOf(chan[i].last - base)
    /\ picture # "none" => begin >= base

\* The counts of the semaphore not available are those of the pictures on their way, unless
\* the slave holds them all to flush; every variable keeps its type.
SemaphoreExact ==
    /\ TypeOK
    /\ pcS \notin {"consumeFull", "drop", "release"} =>
           sem + Len(chan) + Cardinality({h \in {pcH} : h # "idle"})
               + Cardinality({p \in {picture} : p # "none"}) = StackSize

\* In slice mode a full circular buffer makes the slave wait for a count that only the picture
\* it is in the middle of gives back (DecoderFeeder.c 118): nothing moves any more.
WaitsForItself == sliceMode /\ pcS = "waitFull" /\ picture # "none"

\* A slave that an error ended takes nothing out of a full queue, and a push waits for ever.
QueueStaysFull == pcS = "exited" /\ Len(fifo) = MaxElem

\* A flush ends with the end of stream callback, unless the input was dropped, an error ended
\* the slave, or it waits for itself.
EndOfStreamUnlessDropped ==
    flushes > eos ~> (flushes <= eos \/ dropped \/ pcS = "exited" \/ WaitsForItself)

\* AL_Decoder_PushBuffer: "It will be decoded when possible".  What is queued, or copied in
\* part, is copied or dropped to the end.
QueueIsEmptied ==
    (workBuf # NoBuf \/ fifo # <<>>) ~>
        ((workBuf = NoBuf /\ fifo = <<>>) \/ pcS = "exited" \/ WaitsForItself)

\* AL_Decoder_Destroy returns, in the middle of a picture too, but in these two cases.
DestroyReturns ==
    (pcA = "queue" /\ call.name = "destroy") ~>
        (pcA = "destroyed" \/ WaitsForItself \/ QueueStaysFull)
-----------------------------------------------------------------------------
\* What follows is the inductive invariant behind FeederProofs.

\* The labels, the calls, the offsets and the pictures in the hardware.
StepTypes ==
    /\ pcA \in {"run", "queue", "notify", "flush", "stop", "join", "destroyed"}
    /\ pcS \in {"wait", "consume", "transfer", "decode", "search", "unit", "slice", "full",
                "waitFull", "consumeFull", "last", "flush", "drop", "release", "signalEos",
                "exited"}
    /\ pcH \in {"idle", "signal", "post"} /\ picture \in {"none", "begun", "partly"}
    /\ call \in [name : {"none", "push", "flush", "destroy"}, buf : Inputs \cup {NoBuf}]
    /\ pcA \in {"queue", "notify"} => call.name # "none" /\ call.buf \in Inputs
    /\ strOff \in [0 .. StackSize - 1 -> 0 .. CircSize - 1] /\ curOff \in 0 .. CircSize - 1
    /\ chan \in Seq([first : Nat, last : Nat])
    /\ blk1 \in Nat /\ blk2 \in Nat /\ base \in Nat /\ begin \in Nat

\* While the slave holds every count of the semaphore nothing is on its way.
Holding == pcS \in {"consumeFull", "drop", "release"}
NothingOnItsWay ==
    Holding => sem = 0 /\ chan = <<>> /\ pcH = "idle" /\ picture = "none"

\* Every queued buffer has its metadata, the end of the stream one for each time it is queued.
Times(b) == Cardinality({i \in DOMAIN fifo : fifo[i] = b})
MetaEnough ==
    \A b \in Inputs :
        Times(b) + (IF workBuf = b THEN 1 ELSE 0)
            + (IF pcA = "queue" /\ call.buf = b THEN 1 ELSE 0) <= Len(metas[b])

\* A unit that was found stays, its picture was begun.
UnitKnown ==
    /\ pcS \in {"unit", "slice"} => UnitFound
    /\ pcS = "slice" => picture # "none"

\* The pictures follow each other in the stream, after what may be freed and before what is
\* not decoded; each finds its offset in the ring.
Freed == base + Before(curOff)
PicturesInOrder ==
    /\ blk1 = blk2 + Len(chan)
    /\ from < CircSize /\ Before(curOff) <= from
    /\ \A i \in DOMAIN chan :
          /\ Freed <= chan[i].first /\ chan[i].first <= chan[i].last
          /\ chan[i].last <= base + from
          /\ strOff[(blk2 + i - 1) % StackSize] = OffsetOf(chan[i].last - base)
    /\ \A i, j \in DOMAIN chan : i < j => chan[i].last <= chan[j].first
    /\ picture # "none" =>
          /\ Freed <= begin /\ begin <= base + from
          /\ \A i \in DOMAIN chan : chan[i].last <= begin

FeederInv ==
    /\ SemaphoreExact /\ StepTypes /\ NothingOnItsWay /\ MetaEnough /\ UnitKnown
    /\ PicturesInOrder
=============================================================================

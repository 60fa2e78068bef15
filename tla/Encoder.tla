------------------------------ MODULE Encoder ------------------------------
(***************************************************************************)
(* The encoder library (lib_encode/Com_Encoder.c) and its channel          *)
(* (SchedulerMcu.c), without threads: each operator is one critical        *)
(* section or one call to the driver and maps the context of an encoder    *)
(* (AL_TEncCtx with its Channel) to the context after it.  The field ok    *)
(* turns FALSE when an assertion of the function fails.                    *)
(*                                                                         *)
(* A source buffer is named by the picture it carries.  A stream buffer    *)
(* keeps its name; the driver is given its index in StreamSent.  The       *)
(* hardware behind the driver is what the comments and the callback take   *)
(* it to be: it fills streams in the order it was given them, takes a      *)
(* picture when the pictures that follow it were given too (NumB of them)  *)
(* or the stream has ended, and reports the end of the stream last.        *)
(***************************************************************************)
EXTENDS Integers, FiniteSets, SequencesExt

CONSTANTS
    NumPictures,    \* pictures of the source
    MaxCmd,         \* ENC_MAX_CMD
    MaxSource,      \* AL_MAX_SOURCE_BUFFER
    MaxStream       \* AL_MAX_STREAM_BUFFER

ASSUME EncoderAssumption ==
    /\ NumPictures \in Nat /\ MaxStream \in Nat \ {0}
    /\ MaxCmd \in Nat /\ MaxCmd > 1
    /\ MaxSource \in Nat /\ MaxSource >= MaxCmd

Pictures == 1 .. NumPictures
Streams == 1 .. MaxStream - 1   \* the ring StreamSent is never full

NoStream == 0
EndOfStreamStatus == [pic |-> 0, stream |-> 0, last |-> TRUE]
Statuses == [pic : Pictures \cup {0}, stream : 0 .. MaxStream - 1, last : BOOLEAN]

Contexts ==
    [permits : Int,                              \* PendingEncodings
     poolIds : Int,                              \* free entries of iPoolIds
     sourceSent : [Pictures -> BOOLEAN],         \* SourceSent
     streamSent : [0 .. MaxStream - 1 -> Streams \cup {NoStream}],
     curStreamSent : 0 .. MaxStream - 1,
     curStreamRecv : 0 .. MaxStream - 1,
     shouldContinue : BOOLEAN,
     frames : Seq(Pictures),                     \* hardware: pictures not finished
     streams : Seq(0 .. MaxStream - 1),          \* hardware: streams to fill
     slice : Nat,                                \* hardware: slices done of Head(frames)
     eos : {"no", "asked", "told"},              \* hardware: end of the stream
     destroyed : BOOLEAN,                        \* the channel of the driver is gone
     ok : BOOLEAN]

\* init, InitPoolIds and AL_Common_Encoder_CreateChannel
CreateChannel ==
    [permits |-> MaxCmd - 1, poolIds |-> MaxCmd,
     sourceSent |-> [p \in Pictures |-> FALSE],
     streamSent |-> [i \in 0 .. MaxStream - 1 |-> NoStream],
     curStreamSent |-> 0, curStreamRecv |-> 0, shouldContinue |-> TRUE,
     frames |-> <<>>, streams |-> <<>>, slice |-> 0, eos |-> "no",
     destroyed |-> FALSE, ok |-> TRUE]

SourcesSent(c) == {p \in Pictures : c.sourceSent[p]}

\* AL_Common_Encoder_PutStreamBuffer, under the mutex
PutStreamBuffer(c, s) ==
    [c EXCEPT !.streamSent[c.curStreamSent] = s,
              !.curStreamSent = (@ + 1) % MaxStream,
              !.streams = Append(@, c.curStreamSent)]

\* The streams the library holds, in the order releaseStreams walks them
StreamsHeld(c) ==
    LET n == (c.curStreamSent - c.curStreamRecv + MaxStream) % MaxStream
    IN  [i \in 1 .. n |-> c.streamSent[(c.curStreamRecv + i - 1) % MaxStream]]

IsReady(c) == c.permits > 0

\* AL_Common_Encoder_Process: the permit, the pool id and AddSourceSent
TakeSource(c, p) ==
    [c EXCEPT !.permits = @ - 1, !.poolIds = @ - 1, !.sourceSent[p] = TRUE,
              !.ok = @ /\ c.poolIds > 0 /\ Cardinality(SourcesSent(c)) < MaxSource]

\* RemoveSourceSent
RemoveSourceSent(c, p) ==
    [c EXCEPT !.sourceSent[p] = FALSE, !.ok = @ /\ c.sourceSent[p]]

\* AL_ISchedulerEnc_EncodeOneFrame that the driver accepts
EncodeOneFrame(c, p) == [TakeSource(c, p) EXCEPT !.frames = Append(@, p)]

\* AL_ISchedulerEnc_EncodeOneFrame that fails: the source is released
EncodeRefused(c, p) == RemoveSourceSent(TakeSource(c, p), p)

EndOfStream(c) == [c EXCEPT !.eos = "asked"]

\* Hardware: the pictures it may work on next
Encodable(c, numB) ==
    IF c.slice > 0 THEN {1}
    ELSE IF c.eos = "asked" THEN 1 .. (IF numB < Len(c.frames) THEN numB + 1 ELSE Len(c.frames))
    ELSE IF Len(c.frames) > numB THEN 1 .. numB + 1 ELSE {}

\* Hardware: slice done of the i-th picture; the status it reports
SliceDone(c, i, numSlices) ==
    LET last == c.slice + 1 = numSlices
        others == RemoveAt(c.frames, i)
    IN  [status |-> [pic |-> c.frames[i], stream |-> Head(c.streams), last |-> last],
         ctx |-> [c EXCEPT !.streams = Tail(@),
                           !.slice = IF last THEN 0 ELSE @ + 1,
                           !.frames = IF last THEN others ELSE <<c.frames[i]>> \o others]]

\* EndEncoding: the order of the streams is required, the stream is received
ReceiveStream(c, id) ==
    [c EXCEPT !.ok = @ /\ c.curStreamRecv = id, !.curStreamRecv = (@ + 1) % MaxStream]

\* Mutated: the pool id is not given back
EndOfPictureKeepingId(c) == [c EXCEPT !.permits = @ + 1]

\* EndEncoding: GiveIdBackToPool and the permit, after the last slice
EndOfPicture(c) == [c EXCEPT !.poolIds = @ + 1, !.permits = @ + 1]

\* destroyChannel
StopWaiting(c) == [c EXCEPT !.shouldContinue = FALSE]
DestroyChannel(c) == [c EXCEPT !.destroyed = TRUE]

\* releaseStreams and releaseSources
ReleaseAll(c) ==
    [c EXCEPT !.curStreamRecv = c.curStreamSent, !.sourceSent = [p \in Pictures |-> FALSE]]
=============================================================================

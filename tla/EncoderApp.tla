----------------------------- MODULE EncoderApp -----------------------------
(***************************************************************************)
(* The encoder application (vcu-ctrl-encoder/exe_encoder) on top of the    *)
(* encoder library: the main thread reads pictures into source buffers and *)
(* passes them to a chain of sinks.  With LookAhead the chain has two      *)
(* encoders: the status thread of the first ("lookahead") keeps its        *)
(* pictures in a FIFO and feeds the second ("encoder") from there; the     *)
(* main thread feeds what is left at the end of the stream.  The two       *)
(* share the pools of source buffers and of QP tables (lib_app/BufPool).   *)
(*                                                                         *)
(* Threads are named main, and after the encoder whose status they read.   *)
(* A buffer of a pool is named by its use: the picture it carries, and for *)
(* a QP table the encoder too; a pool counts its free buffers.             *)
(***************************************************************************)
EXTENDS Encoder

CONSTANT
    Confs   \* settings: LookAhead, numB, numSlices, and how many pictures the driver refuses

Encoders == {"lookahead", "encoder"}
Threads == {"main"} \cup Encoders
Uses == Encoders \X Pictures

VARIABLES
    conf,           \* the settings of this run
    enc,            \* the context of each encoder
    th,             \* each thread: pc, the encoder and the picture it passes on, its status
    srcPool, srcRefs,           \* source buffers: pool and iRefCount
    qpPool, qpRefs,             \* QP tables
    strRefs,        \* stream buffers
    fifo, bEndOfStream, eosFinished,    \* EncoderLookAheadSink
    hFinished,
    next,           \* next picture of the input file
    given,          \* pictures the encoder accepted, in order
    refused,        \* pictures a driver refused
    ok              \* FALSE when an assertion on a buffer failed

poolVars == <<srcPool, srcRefs, qpPool, qpRefs, strRefs>>
laVars == <<fifo, bEndOfStream, eosFinished>>
vars == <<conf, enc, th, poolVars, laVars, hFinished, next, given, refused, ok>>

HasLookAhead == conf.lookAhead > 0
Used == IF HasLookAhead THEN Encoders ELSE {"encoder"}
FirstSink == IF HasLookAhead THEN "lookahead" ELSE "encoder"

\* Mutated: the pictures in the FIFO are not counted
FrameBuffersShort(c) == 2 + c.numB

\* frameBuffersCount
FrameBuffers(c) == 2 + c.numB + c.lookAhead

\* GetStreamBufPoolConfig; the lookahead gets one, the encoder the others
NumStreams(c) == (4 + c.numB + (IF c.lookAhead > 0 THEN 1 ELSE 0)) * c.numSlices

ASSUME EncoderAppAssumption ==
    \A c \in Confs :
       /\ c.lookAhead \in Nat \ {1}    \* Settings.c: 0 or at least 2
       /\ c.numB \in Nat /\ c.numSlices \in Nat \ {0} /\ c.maxRefused \in Nat
       /\ c.lookAhead > 0 => c.numSlices = 1
       /\ NumStreams(c) < MaxStream

\* AL_TwoPassMngr_SetPass1Settings: no B pictures in the first pass
NumB(e) == IF e = "lookahead" THEN 0 ELSE conf.numB

Idle == [pc |-> "poll", e |-> "encoder", p |-> 0, st |-> EndOfStreamStatus]

\* n streams, from first on, put one after the other
Filled(c, first, n) ==
    [c EXCEPT !.streamSent = [i \in 0 .. MaxStream - 1 |-> IF i < n THEN first + i ELSE NoStream],
              !.curStreamSent = n,
              !.streams = [i \in 1 .. n |-> i - 1]]

Init ==
    /\ conf \in Confs
    /\ LET n == NumStreams(conf)
           k == IF HasLookAhead THEN 1 ELSE 0
       IN  /\ strRefs = [s \in Streams |-> IF s <= n THEN 1 ELSE 0]
           /\ enc = [e \in Encoders |-> IF e = "lookahead" THEN Filled(CreateChannel, 1, k)
                                         ELSE Filled(CreateChannel, k + 1, n - k)]
    /\ th = [t \in Threads |-> IF t = "main" THEN [Idle EXCEPT !.pc = "source"] ELSE Idle]
    /\ srcPool = [free |-> FrameBuffers(conf), event |-> FALSE]
    /\ qpPool = [free |-> FrameBuffers(conf), event |-> FALSE]
    /\ srcRefs = [p \in Pictures |-> 0] /\ qpRefs = [u \in Uses |-> 0]
    /\ fifo = <<>> /\ bEndOfStream = FALSE /\ eosFinished = FALSE /\ hFinished = FALSE
    /\ next = 1 /\ given = <<>> /\ refused = 0 /\ ok = TRUE
-----------------------------------------------------------------------------
(* Buffers and their pool *)

\* Fifo_Queue of BufPool.cpp: the event is set once, however many are put
Put(pool, n) == [free |-> pool.free + n, event |-> pool.event \/ n > 0]
Take(pool) == [pool EXCEPT !.free = @ - 1]

\* Mutated: every release puts the buffer back
UnrefSourceAlways(p) ==
    /\ srcRefs' = [srcRefs EXCEPT ![p] = @ - 1]
    /\ srcPool' = Put(srcPool, 1)

\* AL_Buffer_Unref, FreeBufInPool: what the pools are after the references go
UnrefSource(p) ==
    /\ srcRefs' = [srcRefs EXCEPT ![p] = @ - 1]
    /\ srcPool' = Put(srcPool, IF srcRefs[p] = 1 THEN 1 ELSE 0)

UnrefTables(U) ==
    /\ qpRefs' = [u \in Uses |-> qpRefs[u] - (IF u \in U THEN 1 ELSE 0)]
    /\ qpPool' = Put(qpPool, Cardinality({u \in U : qpRefs[u] = 1}))

Step(t, from, to) == th[t].pc = from /\ th' = [th EXCEPT ![t].pc = to]

\* Rtos_WaitEvent in Fifo_Dequeue: the event resets itself, the thread looks again
WaitSource ==
    /\ Step("main", "sourceWait", "source") /\ srcPool.event
    /\ srcPool' = [srcPool EXCEPT !.event = FALSE]
    /\ UNCHANGED <<conf, enc, srcRefs, qpPool, qpRefs, strRefs, laVars, hFinished, next,
                   given, refused, ok>>

WaitTable(t) ==
    /\ Step(t, "tableWait", "table") /\ qpPool.event
    /\ qpPool' = [qpPool EXCEPT !.event = FALSE]
    /\ UNCHANGED <<conf, enc, srcPool, srcRefs, qpRefs, strRefs, laVars, hFinished, next,
                   given, refused, ok>>
-----------------------------------------------------------------------------
(* ProcessFrame of a sink, run by the main thread or by the status thread of the lookahead *)

\* QPBuffers::getBuffer
GetTable(t) ==
    LET u == <<th[t].e, th[t].p>>
    IN  /\ th[t].pc = "table"
        /\ IF qpPool.free > 0
           THEN /\ qpPool' = Take(qpPool) /\ qpRefs' = [qpRefs EXCEPT ![u] = 1]
                /\ th' = [th EXCEPT ![t].pc = "encode"]
           ELSE /\ th' = [th EXCEPT ![t].pc = "tableWait"] /\ UNCHANGED <<qpPool, qpRefs>>
        /\ UNCHANGED <<conf, enc, srcPool, srcRefs, strRefs, laVars, hFinished, next, given,
                       refused, ok>>

\* AL_Common_Encoder_Process of a picture, accepted
Encode(t) ==
    LET e == th[t].e
        p == th[t].p
    IN  /\ Step(t, "encode", "dropTable") /\ IsReady(enc[e])
        /\ enc' = [enc EXCEPT ![e] = EncodeOneFrame(@, p)]
        /\ srcRefs' = [srcRefs EXCEPT ![p] = @ + 1]
        /\ qpRefs' = [qpRefs EXCEPT ![<<e, p>>] = @ + 1]
        /\ given' = IF e = "encoder" THEN Append(given, p) ELSE given
        /\ UNCHANGED <<conf, srcPool, qpPool, strRefs, laVars, hFinished, next, refused, ok>>

\* The same when the driver refuses: false is returned, the sink throws, and nothing
\* catches what a status thread throws
Refuse(t) ==
    LET e == th[t].e
    IN  /\ Step(t, "encode", IF t = "main" THEN "thrown" ELSE "terminated")
        /\ IsReady(enc[e])
        /\ refused < conf.maxRefused
        /\ refused' = refused + 1
        /\ enc' = [enc EXCEPT ![e] = EncodeRefused(@, th[t].p)]
        /\ UNCHANGED <<conf, poolVars, laVars, hFinished, next, given, ok>>

\* Where a thread goes on once its sink returned
Return(t) == IF t # "main" THEN "put" ELSE IF bEndOfStream THEN "fifo" ELSE "source"

FirstStop == IF HasLookAhead THEN "stopLookahead" ELSE "stopEncoder"

\* The sink drops its QP table, the caller its source buffer
Drop(t) ==
    /\ Step(t, "dropTable", Return(t))
    /\ UnrefTables({<<th[t].e, th[t].p>>})
    /\ UnrefSource(th[t].p)
    /\ UNCHANGED <<conf, enc, strRefs, laVars, hFinished, next, given, refused, ok>>

\* The main thread unwinds: a picture that ProcessFifo took out has no owner that drops it
Unwind ==
    /\ Step("main", "thrown", FirstStop)
    /\ UnrefTables({<<th["main"].e, th["main"].p>>})
    /\ IF bEndOfStream THEN UNCHANGED <<srcRefs, srcPool>> ELSE UnrefSource(th["main"].p)
    /\ UNCHANGED <<conf, enc, strRefs, laVars, hFinished, next, given, refused, ok>>
-----------------------------------------------------------------------------
(* The main thread *)

\* ReadSourceFrame: at the end of the file a buffer is taken for nothing
GetSource ==
    /\ th["main"].pc = "source"
    /\ IF srcPool.free = 0
       THEN /\ th' = [th EXCEPT !["main"].pc = "sourceWait"]
            /\ UNCHANGED <<srcPool, srcRefs, next>>
       ELSE IF next \in Pictures
       THEN /\ srcPool' = Take(srcPool) /\ srcRefs' = [srcRefs EXCEPT ![next] = 1]
            /\ th' = [th EXCEPT !["main"] = [@ EXCEPT !.pc = "table", !.e = FirstSink, !.p = next]]
            /\ next' = next + 1
       ELSE /\ srcPool' = Put(Take(srcPool), 1)
            /\ th' = [th EXCEPT !["main"].pc = "eos"]
            /\ UNCHANGED <<srcRefs, next>>
    /\ UNCHANGED <<conf, enc, qpPool, qpRefs, strRefs, laVars, hFinished, given, refused, ok>>

\* ProcessFrame(NULL) of the first sink
EndInput ==
    /\ Step("main", "eos", IF HasLookAhead THEN "lookaheadDone" ELSE "finish")
    /\ enc' = [enc EXCEPT ![FirstSink] = EndOfStream(@)]
    /\ UNCHANGED <<conf, poolVars, laVars, hFinished, next, given, refused, ok>>

\* Rtos_WaitEvent(EOSFinished)
LookAheadDone ==
    /\ Step("main", "lookaheadDone", "fifo") /\ eosFinished
    /\ eosFinished' = FALSE
    /\ UNCHANGED <<conf, enc, poolVars, fifo, bEndOfStream, hFinished, next, given, refused, ok>>

\* Mutated: the stream ends before the pictures that are left
EmptyFifoNever ==
    /\ Step("main", "fifo", "finish")
    /\ enc' = [enc EXCEPT !["encoder"] = EndOfStream(@)]
    /\ UNCHANGED <<conf, poolVars, laVars, hFinished, next, given, refused, ok>>

\* ProcessFifo after the end of the stream
EmptyFifo ==
    /\ th["main"].pc = "fifo"
    /\ IF fifo = <<>>
       THEN /\ enc' = [enc EXCEPT !["encoder"] = EndOfStream(@)]
            /\ th' = [th EXCEPT !["main"].pc = "finish"]
            /\ UNCHANGED fifo
       ELSE /\ fifo' = Tail(fifo)
            /\ th' = [th EXCEPT !["main"] =
                         [@ EXCEPT !.pc = "table", !.e = "encoder", !.p = Head(fifo)]]
            /\ UNCHANGED enc
    /\ UNCHANGED <<conf, poolVars, bEndOfStream, eosFinished, hFinished, next, given, refused, ok>>

\* Rtos_WaitEvent(hFinished)
Finish ==
    /\ Step("main", "finish", FirstStop)
    /\ hFinished /\ hFinished' = FALSE
    /\ UNCHANGED <<conf, enc, poolVars, laVars, next, given, refused, ok>>

\* AL_Common_Encoder_Destroy in three steps: the channel is told to stop and destroyed ...
Stop(e, from, to) ==
    /\ Step("main", from, to)
    /\ enc' = [enc EXCEPT ![e] = StopWaiting(@)]
    /\ UNCHANGED <<conf, poolVars, laVars, hFinished, next, given, refused, ok>>

Close(e, from, to) ==
    /\ Step("main", from, to)
    /\ enc' = [enc EXCEPT ![e] = DestroyChannel(@)]
    /\ UNCHANGED <<conf, poolVars, laVars, hFinished, next, given, refused, ok>>

\* ... its thread is joined, what the library still holds is released
Release(e, from, to) ==
    LET sources == SourcesSent(enc[e])
        streams == StreamsHeld(enc[e])
    IN  /\ Step("main", from, to) /\ th[e].pc = "ended"
        /\ enc' = [enc EXCEPT ![e] = ReleaseAll(@)]
        /\ srcRefs' = [p \in Pictures |-> srcRefs[p] - (IF p \in sources THEN 1 ELSE 0)]
        /\ srcPool' = Put(srcPool, Cardinality({p \in sources : srcRefs[p] = 1}))
        /\ UnrefTables({e} \X sources)
        /\ strRefs' = [s \in Streams |->
                         strRefs[s] - Cardinality({i \in DOMAIN streams : streams[i] = s})]
        /\ UNCHANGED <<conf, laVars, hFinished, next, given, refused, ok>>

\* The pools are destroyed: AL_Buffer_Destroy requires that nobody holds a buffer
DestroyPools ==
    /\ Step("main", "pools", "end")
    /\ ok' = (ok /\ srcPool.free = FrameBuffers(conf) /\ qpPool.free = FrameBuffers(conf)
                 /\ \A s \in Streams : strRefs[s] = 0)
    /\ UNCHANGED <<conf, enc, poolVars, laVars, hFinished, next, given, refused>>

Main ==
    \/ GetSource \/ WaitSource \/ Unwind \/ EndInput \/ LookAheadDone \/ EmptyFifo \/ Finish
    \/ Stop("lookahead", "stopLookahead", "closeLookahead")
    \/ Close("lookahead", "closeLookahead", "releaseLookahead")
    \/ Release("lookahead", "releaseLookahead", "stopEncoder")
    \/ Stop("encoder", "stopEncoder", "closeEncoder")
    \/ Close("encoder", "closeEncoder", "releaseEncoder")
    \/ Release("encoder", "releaseEncoder", "pools")
    \/ DestroyPools
-----------------------------------------------------------------------------
(* WaitForStatus: the status thread of encoder e *)

Poll(e) ==
    /\ Step(e, "poll", IF enc[e].shouldContinue THEN "wait" ELSE "ended")
    /\ UNCHANGED <<conf, enc, poolVars, laVars, hFinished, next, given, refused, ok>>

\* AL_MCU_WAIT_FOR_STATUS fails once the channel is destroyed
WaitFails(e) ==
    /\ Step(e, "wait", "poll") /\ enc[e].destroyed
    /\ UNCHANGED <<conf, enc, poolVars, laVars, hFinished, next, given, refused, ok>>

\* A slice is done; EndEncoding up to the callback
WaitSlice(e) ==
    /\ th[e].pc = "wait" /\ ~enc[e].destroyed /\ enc[e].streams # <<>>
    /\ \E i \in Encodable(enc[e], NumB(e)) :
          LET done == SliceDone(enc[e], i, conf.numSlices)
          IN  /\ enc' = [enc EXCEPT ![e] = ReceiveStream(done.ctx, done.status.stream)]
              /\ th' = [th EXCEPT ![e] = [@ EXCEPT !.pc = "callback", !.st = done.status]]
    /\ UNCHANGED <<conf, poolVars, laVars, hFinished, next, given, refused, ok>>

\* The end of the stream: EndEncoding without a status, and the callback of the sink
WaitEndOfStream(e) ==
    /\ Step(e, "wait", "poll") /\ ~enc[e].destroyed
    /\ enc[e].eos = "asked" /\ enc[e].frames = <<>>
    /\ enc' = [enc EXCEPT ![e].eos = "told"]
    /\ IF e = "lookahead"
       THEN bEndOfStream' = TRUE /\ eosFinished' = TRUE /\ UNCHANGED hFinished
       ELSE hFinished' = TRUE /\ UNCHANGED <<bEndOfStream, eosFinished>>
    /\ UNCHANGED <<conf, poolVars, fifo, next, given, refused, ok>>

\* EncoderLookAheadSink::AddFifo: the picture is kept, the oldest goes to the encoder
AddFifo ==
    LET e == "lookahead"
        kept == Append(fifo, th[e].st.pic)
    IN  /\ th[e].pc = "callback"
        /\ srcRefs' = [srcRefs EXCEPT ![th[e].st.pic] = @ + 1]
        /\ IF Len(kept) = conf.lookAhead
           THEN /\ fifo' = Tail(kept)
                /\ th' = [th EXCEPT ![e] = [@ EXCEPT !.pc = "table", !.p = Head(kept)]]
           ELSE /\ fifo' = kept /\ th' = [th EXCEPT ![e].pc = "put"]
        /\ UNCHANGED <<conf, enc, srcPool, qpPool, qpRefs, strRefs, bEndOfStream, eosFinished,
                       hFinished, next, given, refused, ok>>

\* processOutput: the stream is written and put back
PutBack(e) ==
    LET s == enc[e].streamSent[th[e].st.stream]
    IN  /\ th[e].pc = IF e = "lookahead" THEN "put" ELSE "callback"
        /\ th' = [th EXCEPT ![e].pc = IF th[e].st.last THEN "release" ELSE "unref"]
        /\ enc' = [enc EXCEPT ![e] = PutStreamBuffer(@, s)]
        /\ strRefs' = [strRefs EXCEPT ![s] = @ + 1]
        /\ UNCHANGED <<conf, srcPool, srcRefs, qpPool, qpRefs, laVars, hFinished, next, given,
                       refused, ok>>

\* releaseSource: the source, then its QP table
ReleaseSource(e) ==
    /\ Step(e, "release", "releaseTable")
    /\ enc' = [enc EXCEPT ![e] = RemoveSourceSent(@, th[e].st.pic)]
    /\ UnrefSource(th[e].st.pic)
    /\ UNCHANGED <<conf, qpPool, qpRefs, strRefs, laVars, hFinished, next, given, refused, ok>>

ReleaseTable(e) ==
    /\ Step(e, "releaseTable", "done")
    /\ UnrefTables({<<e, th[e].st.pic>>})
    /\ UNCHANGED <<conf, enc, srcPool, srcRefs, strRefs, laVars, hFinished, next, given,
                   refused, ok>>

PictureDone(e) ==
    /\ Step(e, "done", "unref")
    /\ enc' = [enc EXCEPT ![e] = EndOfPicture(@)]
    /\ UNCHANGED <<conf, poolVars, laVars, hFinished, next, given, refused, ok>>

UnrefStream(e) ==
    LET s == enc[e].streamSent[th[e].st.stream]
    IN  /\ Step(e, "unref", "poll")
        /\ strRefs' = [strRefs EXCEPT ![s] = @ - 1]
        /\ UNCHANGED <<conf, enc, srcPool, srcRefs, qpPool, qpRefs, laVars, hFinished, next,
                       given, refused, ok>>

StatusThread(e) ==
    \/ Poll(e) \/ WaitFails(e) \/ WaitSlice(e) \/ WaitEndOfStream(e) \/ PutBack(e)
    \/ ReleaseSource(e) \/ ReleaseTable(e) \/ PictureDone(e) \/ UnrefStream(e)
    \/ e = "lookahead" /\ AddFifo

Sink(t) == GetTable(t) \/ WaitTable(t) \/ Encode(t) \/ Refuse(t) \/ Drop(t)

\* std::terminate
Terminated == \E t \in Threads : th[t].pc = "terminated"

\* The process has ended
Ended == (Terminated \/ th["main"].pc = "end") /\ UNCHANGED vars

Next ==
    \/ ~Terminated /\ Main
    \/ \E e \in Used : ~Terminated /\ StatusThread(e)
    \/ \E t \in Threads : ~Terminated /\ Sink(t)
    \/ Ended

Spec == Init /\ [][Next]_vars

\* Every thread runs; the hardware encodes what it can encode
Fairness ==
    /\ WF_vars(Main) /\ WF_vars(Sink("main"))
    /\ \A e \in Encoders : WF_vars(e \in Used /\ StatusThread(e)) /\ WF_vars(Sink(e))

FairSpec == Spec /\ Fairness
-----------------------------------------------------------------------------
(* Properties *)

Places ==
    {"source", "sourceWait", "table", "tableWait", "encode", "dropTable", "thrown", "eos",
     "lookaheadDone", "fifo", "finish", "stopLookahead", "closeLookahead", "releaseLookahead",
     "stopEncoder", "closeEncoder", "releaseEncoder", "pools", "end",
     "poll", "wait", "callback", "put", "release", "releaseTable", "done", "unref", "ended",
     "terminated"}
ThreadStates == [pc : Places, e : Encoders, p : Pictures \cup {0}, st : Statuses]

\* The types of the state: contexts of the encoders, threads, pools and references
\* (IP_EncoderCtx.h, AL_TBufPool, AL_TBufferImpl).
TypeOK ==
    /\ conf \in Confs
    /\ enc \in [Encoders -> Contexts]
    /\ th \in [Threads -> ThreadStates]
    /\ srcPool \in [free : Nat, event : BOOLEAN] /\ qpPool \in [free : Nat, event : BOOLEAN]
    /\ srcRefs \in [Pictures -> Nat] /\ qpRefs \in [Uses -> Nat] /\ strRefs \in [Streams -> Nat]
    /\ fifo \in Seq(Pictures) /\ given \in Seq(Pictures)
    /\ bEndOfStream \in BOOLEAN /\ eosFinished \in BOOLEAN /\ hFinished \in BOOLEAN
    /\ next \in Nat /\ refused \in Nat /\ ok \in BOOLEAN

Count(S) == Cardinality(S)

Passing(t) == th[t].pc \in {"table", "tableWait", "encode", "dropTable", "thrown"}
HasTable(t) == th[t].pc \in {"encode", "dropTable", "thrown"}
InCallback(e) ==
    Passing(e) \/ th[e].pc \in {"callback", "put", "release", "releaseTable", "done", "unref"}

\* Each count is that of the holders, and buffers nobody holds are in their pools
CountsAreHolders ==
    /\ \A p \in Pictures : srcRefs[p] =
          Count({t \in Threads : Passing(t) /\ th[t].p = p})
          + Count({i \in DOMAIN fifo : fifo[i] = p})
          + Count({e \in Encoders : enc[e].sourceSent[p]})
    /\ \A u \in Uses : qpRefs[u] =
          Count({t \in Threads : HasTable(t) /\ <<th[t].e, th[t].p>> = u})
          + (IF enc[u[1]].sourceSent[u[2]] THEN 1 ELSE 0)
          + Count({e \in Encoders : th[e].pc = "releaseTable" /\ <<e, th[e].st.pic>> = u})
    /\ \A s \in Streams : strRefs[s] =
          Count({e \in Encoders : \E i \in DOMAIN StreamsHeld(enc[e]) : StreamsHeld(enc[e])[i] = s})
          + Count({e \in Encoders : InCallback(e) /\ enc[e].streamSent[th[e].st.stream] = s})
    /\ srcPool.free + Count({p \in Pictures : srcRefs[p] > 0}) = FrameBuffers(conf)
    /\ qpPool.free + Count({u \in Uses : qpRefs[u] > 0}) = FrameBuffers(conf)
    /\ \A e \in Encoders : ~enc[e].destroyed => \A i \in DOMAIN enc[e].frames :
          LET p == enc[e].frames[i] IN srcRefs[p] > 0 /\ qpRefs[<<e, p>>] > 0

\* The reference counts of the buffers that two encoders, the FIFO between them and two
\* threads share are exact: each counts its holders, a source or QP table that nobody
\* holds is in its pool, and what the hardware still reads or will fill is held
\* (AL_Buffer_Ref and AL_Buffer_Unref in Com_Encoder.c, sink_lookahead.h, BufPool.cpp); every variable
\* keeps its type.
ReferencesExact == TypeOK /\ (Terminated \/ CountsAreHolders)

\* The assertions of the code hold: streams come back in the order they were sent, a pool
\* id and an entry of SourceSent are free when a picture is passed on, and no buffer is
\* held when its pool is destroyed, also when the driver refused a picture
\* (Com_Encoder.c, assert of AL_Buffer_Destroy).
AssertionsHold == ok /\ \A e \in Encoders : enc[e].ok

\* The encoder is given every picture once and in the order of the file, whichever thread
\* passes it on, and all of them are encoded before the application stops
\* (ProcessFifo of sink_lookahead.h).
EncodedInOrder ==
    /\ given = [i \in 1 .. Len(given) |-> i]
    /\ (refused = 0 /\ th["main"].pc \in {"stopLookahead", "stopEncoder", "end"}) =>
          Len(given) = Cardinality(Pictures) /\ enc["encoder"].frames = <<>>

\* The application ends: neither the pools, whose size is computed from the settings, nor
\* the permits of an encoder, nor a wake-up that two waiters share leave a thread waiting
\* (frameBuffersCount, WaitReadiness, Fifo_Dequeue).
ApplicationEnds == <>(th["main"].pc = "end" \/ Terminated)
-----------------------------------------------------------------------------
\* What follows is the inductive invariant behind EncoderAppProofs.  A refusal behind the
\* LookAhead costs references, and is left out of it.
DriverAccepts == \A c \in Confs : c.lookAhead > 0 => c.maxRefused = 0

\* Where main is once it stops, closes and releases each encoder
Stopping ==
    {"stopLookahead", "closeLookahead", "releaseLookahead", "stopEncoder", "closeEncoder",
     "releaseEncoder", "pools", "end"}
Unreleased ==
    [e \in Encoders |->
       IF e = "lookahead" THEN {"stopLookahead", "closeLookahead", "releaseLookahead"}
       ELSE Stopping \ {"pools", "end"}]
Stopped(e) ==
    th["main"].pc \in Stopping \ (IF e = "lookahead" THEN {"stopLookahead"}
                                  ELSE Unreleased["lookahead"] \cup {"stopEncoder"})
Closed(e) == Stopped(e) /\ th["main"].pc # (IF e = "lookahead" THEN "closeLookahead" ELSE "closeEncoder")
Released(e) == e \in Used /\ th["main"].pc \in Stopping \ Unreleased[e]

Before(t, e) == th[t].pc \in {"table", "tableWait", "encode"} /\ th[t].e = e
BeforePut(e) == Passing(e) \/ th[e].pc \in {"callback", "put"}

\* Who is where: the sinks of the encoder behind the LookAhead are run by its status thread
\* until the end of its stream, by main from then on.
ThreadPlaces ==
    /\ th["main"].pc \in {"source", "sourceWait", "table", "tableWait", "encode", "dropTable",
                          "thrown", "eos", "lookaheadDone", "fifo", "finish"} \cup Stopping
    /\ \A e \in Encoders :
          th[e].pc \in {"poll", "wait", "callback", "release", "releaseTable", "done", "unref",
                        "ended"}
             \cup (IF e = "lookahead" THEN {"table", "tableWait", "encode", "dropTable", "put"}
                   ELSE {})
    /\ th["lookahead"].e = "encoder"
    /\ \A t \in Threads : Passing(t) => th[t].p \in Pictures
    /\ Passing("main") => (th["main"].e = "lookahead" <=> HasLookAhead /\ ~bEndOfStream)
    /\ th["main"].pc \in {"lookaheadDone", "fifo", "stopLookahead", "closeLookahead",
                          "releaseLookahead"} => HasLookAhead
    /\ ~HasLookAhead => enc["lookahead"] = CreateChannel /\ th["lookahead"] = Idle /\ fifo = <<>>

\* The life of an encoder: fed, stopped, closed, released
Lives ==
    \A e \in Used :
       /\ enc[e].shouldContinue <=> ~Stopped(e)
       /\ enc[e].destroyed <=> Closed(e)
       /\ th[e].pc = "ended" => Stopped(e)
       /\ Released(e) => th[e].pc = "ended"

\* The end of the stream goes through the LookAhead, the FIFO and the encoder.
Feeding ==
    \/ th["main"].pc \in {"source", "sourceWait", "eos"}
    \/ Passing("main") /\ th["main"].e = FirstSink /\ ~bEndOfStream
EndsOfStream ==
    /\ \A e \in Encoders : enc[e].eos = "told" =>
          enc[e].frames = <<>> /\ th[e].pc \in {"poll", "wait", "ended"}
    /\ bEndOfStream <=> enc["lookahead"].eos = "told"
    /\ eosFinished => bEndOfStream
    /\ HasLookAhead => (enc["lookahead"].eos = "no" <=> Feeding)
    /\ enc["lookahead"].eos = "asked" => th["main"].pc = "lookaheadDone"
    /\ enc["encoder"].eos = "no" <=>
          th["main"].pc \notin {"finish"} \cup Stopping \/ refused > 0
    /\ hFinished => enc["encoder"].eos = "told"
    /\ th["main"].pc \in Stopping /\ refused = 0 => enc["encoder"].eos = "told"
    /\ th["main"].pc \in {"finish"} \cup Stopping => fifo = <<>>

\* One refusal ends the run, and there is none with a LookAhead.
Refusals ==
    /\ refused \in {0, 1} /\ (HasLookAhead => refused = 0)
    /\ refused = 1 => th["main"].pc \in {"thrown"} \cup Stopping
    /\ th["main"].pc = "thrown" => refused = 1

\* The pictures in the order of the file: given to the encoder, on their way to it, in the
\* FIFO, reported by the lookahead, being encoded by it, on their way to it.
One(b) == IF b THEN 1 ELSE 0
OnTheWay == Len(given) + One(Before("main", "encoder") \/ Before("lookahead", "encoder"))
Reported == OnTheWay + Len(fifo) + One(th["lookahead"].pc = "callback")
Accepted(e) ==
    IF e = "encoder" THEN Len(given) ELSE Reported + Len(enc["lookahead"].frames)
PicturesInOrder ==
    /\ given = [i \in 1 .. Len(given) |-> i]
    /\ \A t \in Threads : Before(t, "encoder") => th[t].p = Len(given) + 1
    /\ \A i \in DOMAIN fifo : fifo[i] = OnTheWay + i
    /\ th["lookahead"].pc = "callback" => th["lookahead"].st.pic = Reported
    /\ \A i \in DOMAIN enc["lookahead"].frames : enc["lookahead"].frames[i] = Reported + i
    /\ Before("main", "lookahead") => th["main"].p = next - 1
    /\ next - 1 = Accepted("lookahead") + One(Before("main", "lookahead")) + refused
    /\ next <= NumPictures + 1
    /\ \A t \in Threads : th[t].pc = "dropTable" => th[t].p <= Accepted(th[t].e)
    /\ th["main"].pc \notin {"source", "sourceWait"} /\ refused = 0
          /\ ~(Passing("main") /\ th["main"].e = FirstSink) => next = NumPictures + 1

\* What an encoder was given and has not given back, and no source twice
Finishing(e) == BeforePut(e) \/ th[e].pc = "release"
SourcesHeld ==
    \A e \in Encoders :
       /\ enc[e].slice < conf.numSlices /\ (enc[e].slice > 0 => enc[e].frames # <<>>)
       /\ \A i \in DOMAIN enc[e].frames : enc[e].frames[i] <= Accepted(e)
       /\ InCallback(e) => th[e].st.pic \in 1 .. Accepted(e)
       /\ th[e].pc \in {"release", "releaseTable", "done"} \/ (e = "lookahead" /\ InCallback(e)) => th[e].st.last
       /\ \A i, j \in DOMAIN enc[e].frames : enc[e].frames[i] = enc[e].frames[j] => i = j
       /\ Finishing(e) /\ th[e].st.last =>
             \A i \in DOMAIN enc[e].frames : enc[e].frames[i] # th[e].st.pic
       /\ \A p \in Pictures : enc[e].sourceSent[p] <=>
             /\ ~Released(e)
             /\ \/ \E i \in DOMAIN enc[e].frames : enc[e].frames[i] = p
                \/ Finishing(e) /\ th[e].st.last /\ th[e].st.pic = p

\* A permit and a pool id for each picture
Permits ==
    \A e \in Encoders :
       /\ enc[e].poolIds = enc[e].permits + 1
       /\ enc[e].permits + Cardinality(SourcesSent(enc[e]))
             + One(th[e].pc \in {"releaseTable", "done"}) <= MaxCmd - 1

\* The ring of streams, of which a few more than the encoder has are never sent
StreamsOf(e) == LET k == One(HasLookAhead) IN IF e = "lookahead" THEN k ELSE NumStreams(conf) - k
Slot(e, i) == (enc[e].curStreamRecv + i) % MaxStream
RingOfStreams ==
    \A e \in Encoders :
       LET c == enc[e]
       IN  /\ Released(e) => c.curStreamSent = c.curStreamRecv
           /\ ~Released(e) =>
                 /\ Len(c.streams) + One(BeforePut(e)) = StreamsOf(e)
                 /\ c.curStreamSent = Slot(e, Len(c.streams))
                 /\ \A i \in DOMAIN c.streams :
                       c.streams[i] = Slot(e, i - 1) /\ c.streamSent[c.streams[i]] \in Streams
                 /\ \A i, j \in DOMAIN c.streams :
                       c.streamSent[c.streams[i]] = c.streamSent[c.streams[j]] => i = j
           /\ InCallback(e) =>
                 /\ (th[e].st.stream + 1) % MaxStream = c.curStreamRecv
                 /\ c.streamSent[th[e].st.stream] \in Streams
           /\ BeforePut(e) => \A i \in DOMAIN c.streams :
                 c.streamSent[c.streams[i]] # c.streamSent[th[e].st.stream]

EncoderInv ==
    /\ TypeOK /\ CountsAreHolders /\ AssertionsHold
    /\ ThreadPlaces /\ Lives /\ EndsOfStream /\ Refusals /\ PicturesInOrder /\ SourcesHeld
    /\ Permits /\ RingOfStreams
=============================================================================

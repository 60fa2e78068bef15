----------------------------- MODULE EncoderSteps -----------------------------
(***************************************************************************)
(* The words of the proofs about the encoder application                   *)
(* (EncoderAppProofs): what its steps do to threads and contexts, and the  *)
(* parts of its inductive invariant (EncoderInv of EncoderApp) as they are *)
(* reasoned about.                                                         *)
(***************************************************************************)
EXTENDS EncoderApp

(* The steps, without the pools and the reference counts *)

SameRing(c, d) ==
    /\ d.streamSent = c.streamSent /\ d.streams = c.streams
    /\ d.curStreamSent = c.curStreamSent /\ d.curStreamRecv = c.curStreamRecv
SameFrames(c, d) == d.frames = c.frames /\ d.slice = c.slice
SamePermits(c, d) == d.permits = c.permits /\ d.poolIds = c.poolIds
SameSources(c, d) == d.sourceSent = c.sourceSent
SameLife(c, d) == d.shouldContinue = c.shouldContinue /\ d.destroyed = c.destroyed
SameEnd(c, d) == d.eos = c.eos
SameOk(c, d) == d.ok = c.ok

\* A thread goes to another place of its code, or gets other work as well; the others stay.
Only(t) == \A u \in Threads : u # t => th'[u] = th[u]
SameWork(t) == th'[t].e = th[t].e /\ th'[t].p = th[t].p /\ th'[t].st = th[t].st
Moves(t, x, y) == th[t].pc = x /\ th'[t].pc = y /\ SameWork(t) /\ Only(t)
Calls(e, d) == enc'[e] = d /\ \A f \in Encoders : f # e => enc'[f] = enc[f]

\* Steps that only take a thread further, some of them past an event.
Waits == {<<"tableWait", "table">>, <<"table", "tableWait">>, <<"table", "encode">>}
QuietStep ==
    /\ UNCHANGED <<enc, fifo, bEndOfStream, next, given, refused>>
    /\ eosFinished' => eosFinished
    /\ hFinished' => hFinished
    /\ \/ Moves("main", "sourceWait", "source") \/ Moves("main", "source", "sourceWait")
       \/ Moves("main", "source", "eos") /\ next \notin Pictures
       \/ Moves("main", "thrown", FirstStop) \/ Moves("main", "pools", "end")
       \/ Moves("main", "lookaheadDone", "fifo") /\ eosFinished
       \/ Moves("main", "finish", FirstStop) /\ hFinished
       \/ \E t \in Threads, w \in Waits : Moves(t, w[1], w[2])
       \/ \E t \in Threads : Moves(t, "dropTable", Return(t))
       \/ \E e \in Used :
             \/ Moves(e, "poll", "wait") /\ enc[e].shouldContinue
             \/ Moves(e, "poll", "ended") /\ ~enc[e].shouldContinue
             \/ Moves(e, "wait", "poll") /\ enc[e].destroyed
             \/ Moves(e, "releaseTable", "done") \/ Moves(e, "unref", "poll")

EncodeStep(t) ==
    /\ Moves(t, "encode", "dropTable")
    /\ Calls(th[t].e, EncodeOneFrame(enc[th[t].e], th[t].p)) /\ enc[th[t].e].permits > 0
    /\ given' = IF th[t].e = "encoder" THEN Append(given, th[t].p) ELSE given
    /\ UNCHANGED <<fifo, bEndOfStream, eosFinished, hFinished, next, refused>>
RefuseStep ==
    /\ Moves("main", "encode", "thrown") /\ ~HasLookAhead /\ th["main"].e = "encoder"
    /\ Calls("encoder", EncodeRefused(enc["encoder"], th["main"].p)) /\ enc["encoder"].permits > 0
    /\ refused' = refused + 1
    /\ UNCHANGED <<fifo, bEndOfStream, eosFinished, hFinished, next, given>>
SourceStep ==
    /\ th["main"].pc = "source" /\ th'["main"].pc = "table" /\ Only("main")
    /\ th'["main"].e = FirstSink /\ th'["main"].p = next /\ th'["main"].st = th["main"].st
    /\ next \in Pictures /\ next' = next + 1
    /\ UNCHANGED <<enc, fifo, bEndOfStream, eosFinished, hFinished, given, refused>>
InputStep ==
    /\ Moves("main", "eos", IF HasLookAhead THEN "lookaheadDone" ELSE "finish")
    /\ Calls(FirstSink, EndOfStream(enc[FirstSink]))
    /\ UNCHANGED <<fifo, bEndOfStream, eosFinished, hFinished, next, given, refused>>
EmptiedStep ==
    /\ Moves("main", "fifo", "finish") /\ fifo = <<>>
    /\ Calls("encoder", EndOfStream(enc["encoder"]))
    /\ UNCHANGED <<fifo, bEndOfStream, eosFinished, hFinished, next, given, refused>>
FifoStep ==
    /\ fifo # <<>> /\ fifo' = Tail(fifo)
    /\ th["main"].pc = "fifo" /\ th'["main"].pc = "table" /\ Only("main")
    /\ th'["main"].e = "encoder" /\ th'["main"].p = Head(fifo) /\ th'["main"].st = th["main"].st
    /\ UNCHANGED <<enc, bEndOfStream, eosFinished, hFinished, next, given, refused>>

\* The three steps of the destruction of an encoder, and where main is before and after each.
Ways(e) ==
    IF e = "lookahead"
    THEN [a |-> "stopLookahead", b |-> "closeLookahead", c |-> "releaseLookahead", d |-> "stopEncoder"]
    ELSE [a |-> "stopEncoder", b |-> "closeEncoder", c |-> "releaseEncoder", d |-> "pools"]
DestroyStep(e) ==
    /\ \/ Moves("main", Ways(e).a, Ways(e).b) /\ Calls(e, StopWaiting(enc[e]))
       \/ Moves("main", Ways(e).b, Ways(e).c) /\ Calls(e, DestroyChannel(enc[e]))
    /\ UNCHANGED <<fifo, bEndOfStream, eosFinished, hFinished, next, given, refused>>
ReleaseStep(e) ==
    /\ Moves("main", Ways(e).c, Ways(e).d) /\ Calls(e, ReleaseAll(enc[e])) /\ th[e].pc = "ended"
    /\ UNCHANGED <<fifo, bEndOfStream, eosFinished, hFinished, next, given, refused>>

SliceStep(e, i) ==
    LET done == SliceDone(enc[e], i, conf.numSlices)
    IN  /\ th[e].pc = "wait" /\ th'[e].pc = "callback" /\ Only(e)
        /\ th'[e].e = th[e].e /\ th'[e].p = th[e].p /\ th'[e].st = done.status
        /\ ~enc[e].destroyed /\ enc[e].streams # <<>>
        /\ Calls(e, ReceiveStream(done.ctx, done.status.stream))
        /\ UNCHANGED <<fifo, bEndOfStream, eosFinished, hFinished, next, given, refused>>
EndStep(e) ==
    /\ Moves(e, "wait", "poll") /\ ~enc[e].destroyed
    /\ enc[e].eos = "asked" /\ enc[e].frames = <<>>
    /\ Calls(e, [enc[e] EXCEPT !.eos = "told"])
    /\ IF e = "lookahead" THEN bEndOfStream' /\ eosFinished' /\ hFinished' = hFinished
       ELSE hFinished' /\ bEndOfStream' = bEndOfStream /\ eosFinished' = eosFinished
    /\ UNCHANGED <<fifo, next, given, refused>>
KeepStep ==
    /\ Moves("lookahead", "callback", "put") /\ fifo' = Append(fifo, th["lookahead"].st.pic)
    /\ UNCHANGED <<enc, bEndOfStream, eosFinished, hFinished, next, given, refused>>
PassStep ==
    LET kept == Append(fifo, th["lookahead"].st.pic)
    IN  /\ th["lookahead"].pc = "callback" /\ th'["lookahead"].pc = "table" /\ Only("lookahead")
        /\ th'["lookahead"].e = th["lookahead"].e /\ th'["lookahead"].st = th["lookahead"].st
        /\ th'["lookahead"].p = Head(kept) /\ fifo' = Tail(kept)
        /\ UNCHANGED <<enc, bEndOfStream, eosFinished, hFinished, next, given, refused>>
PutStep(e) ==
    /\ Moves(e, IF e = "lookahead" THEN "put" ELSE "callback", IF th[e].st.last THEN "release" ELSE "unref")
    /\ Calls(e, PutStreamBuffer(enc[e], enc[e].streamSent[th[e].st.stream]))
    /\ UNCHANGED <<fifo, bEndOfStream, eosFinished, hFinished, next, given, refused>>
BackStep(e) ==
    /\ Moves(e, "release", "releaseTable")
    /\ Calls(e, RemoveSourceSent(enc[e], th[e].st.pic))
    /\ UNCHANGED <<fifo, bEndOfStream, eosFinished, hFinished, next, given, refused>>
DoneStep(e) ==
    /\ Moves(e, "done", "unref") /\ Calls(e, EndOfPicture(enc[e]))
    /\ UNCHANGED <<fifo, bEndOfStream, eosFinished, hFinished, next, given, refused>>

MainStep == SourceStep \/ InputStep \/ EmptiedStep \/ FifoStep
Steps ==
    \/ QuietStep \/ MainStep \/ RefuseStep \/ KeepStep \/ PassStep
    \/ \E t \in Threads : EncodeStep(t)
    \/ \E e \in Encoders : DestroyStep(e) \/ ReleaseStep(e)
    \/ \E e \in Used :
          \/ EndStep(e) \/ PutStep(e) \/ BackStep(e) \/ DoneStep(e)
          \/ \E i \in 1 .. Len(enc[e].frames) : (e = "lookahead" => i = 1) /\ SliceStep(e, i)

\* What a step leaves as it is in kind: functions stay functions, flags stay flags.
Kinds ==
    /\ enc' = [e \in Encoders |-> enc'[e]]
    /\ bEndOfStream' \in BOOLEAN /\ eosFinished' \in BOOLEAN /\ hFinished' \in BOOLEAN /\ ok' \in BOOLEAN
-----------------------------------------------------------------------------
(* The life of an encoder, the order of the pictures, permits and streams *)

Others(e) == \A f \in Encoders : f # e => enc'[f] = enc[f]

\* The end of the stream is asked for, or told.
EndCalls(e) == Calls(e, EndOfStream(enc[e])) \/ Calls(e, [enc[e] EXCEPT !.eos = "told"])
\* The places of the three threads, one by one.
MainPlaces ==
    {"source", "sourceWait", "table", "tableWait", "encode", "dropTable", "thrown", "eos",
     "lookaheadDone", "fifo", "finish"} \cup Stopping
StatusPlaces ==
    {"poll", "wait", "callback", "release", "releaseTable", "done", "unref", "ended"}
SinkPlaces == {"table", "tableWait", "encode", "dropTable", "put"}
Encodes(e) == \E t \in Threads : EncodeStep(t) /\ th[t].e = e
Slices(e) == \E i \in 1 .. Len(enc[e].frames) : (e = "lookahead" => i = 1) /\ SliceStep(e, i)
Refuses(e) == e = "encoder" /\ RefuseStep
Asks(e) == (e = FirstSink /\ InputStep) \/ (e = "encoder" /\ EmptiedStep)

\* The steps of the thread that reads the status of an encoder.
Turns(e) ==
    \/ Moves(e, "poll", "wait") /\ enc[e].shouldContinue
    \/ Moves(e, "poll", "ended") /\ ~enc[e].shouldContinue
    \/ Moves(e, "wait", "poll") /\ enc[e].destroyed
    \/ Moves(e, "releaseTable", "done") \/ Moves(e, "unref", "poll")
    \/ EndStep(e) \/ Slices(e) \/ PutStep(e) \/ BackStep(e) \/ DoneStep(e)
SinkTurns ==
    \/ Moves("lookahead", "tableWait", "table") \/ Moves("lookahead", "table", "tableWait")
    \/ Moves("lookahead", "table", "encode") \/ Moves("lookahead", "dropTable", "put")
    \/ EncodeStep("lookahead") \/ KeepStep \/ PassStep

\* The steps of main.
MainTurns ==
    \/ Moves("main", "sourceWait", "source") \/ Moves("main", "source", "sourceWait")
    \/ Moves("main", "source", "eos") /\ next \notin Pictures
    \/ Moves("main", "thrown", FirstStop) \/ Moves("main", "pools", "end")
    \/ Moves("main", "lookaheadDone", "fifo") /\ eosFinished
    \/ Moves("main", "finish", FirstStop) /\ hFinished
    \/ Moves("main", "tableWait", "table") \/ Moves("main", "table", "tableWait")
    \/ Moves("main", "table", "encode")
    \/ Moves("main", "dropTable", IF bEndOfStream THEN "fifo" ELSE "source")
    \/ EncodeStep("main") \/ RefuseStep \/ MainStep
    \/ \E e \in Encoders : DestroyStep(e) \/ ReleaseStep(e)

BM == Before("main", "encoder")
BL == Before("lookahead", "encoder")
BA == Before("main", "lookahead")
CB == th["lookahead"].pc = "callback"

\* What a step on other things leaves alone.
Unmoved ==
    /\ UNCHANGED <<given, fifo, next, refused>>
    /\ enc'["lookahead"].frames = enc["lookahead"].frames
    /\ th'["main"].p = th["main"].p /\ th'["lookahead"].p = th["lookahead"].p
    /\ (BM' <=> BM) /\ (BL' <=> BL) /\ (BA' <=> BA) /\ (CB' <=> CB)
    /\ CB => th'["lookahead"].st = th["lookahead"].st

\* The numbers the order is about.
GivenLen == Len(given)
FifoLen == Len(fifo)
FramesLen == Len(enc["lookahead"].frames)
Fed == One(BM \/ BL)
Called == One(CB)
Fetched == One(BA)
Taken == Accepted("lookahead")

NumbersHold ==
    /\ OnTheWay = GivenLen + Fed /\ Reported = OnTheWay + FifoLen + Called
    /\ Taken = Reported + FramesLen
    /\ (BM \/ BL => Fed = 1) /\ (~BM /\ ~BL => Fed = 0)
    /\ (CB => Called = 1) /\ (~CB => Called = 0)
    /\ (BA => Fetched = 1) /\ (~BA => Fetched = 0)

\* The part of the order that is about the numbers of the pictures.
Order ==
    /\ given = [i \in 1 .. GivenLen |-> i]
    /\ (BM => th["main"].p = GivenLen + 1) /\ (BL => th["lookahead"].p = GivenLen + 1)
    /\ \A i \in 1 .. FifoLen : fifo[i] = OnTheWay + i
    /\ CB => th["lookahead"].st.pic = Reported
    /\ \A i \in 1 .. FramesLen : enc["lookahead"].frames[i] = Reported + i
    /\ BA => th["main"].p = next - 1
    /\ next - 1 = Taken + Fetched + refused
    /\ next <= NumPictures + 1

\* Main past reading: every picture was read.
PastReading ==
    /\ th["main"].pc \notin {"source", "sourceWait"} /\ refused = 0
    /\ ~(Passing("main") /\ th["main"].e = FirstSink)

\* Where the thread of an encoder is while it has a stream, and until it puts it back.
PutPlaces == {"table", "tableWait", "encode", "dropTable", "thrown", "callback", "put"}
CallPlaces == PutPlaces \cup {"release", "releaseTable", "done", "unref"}
RestPlaces == {"poll", "wait", "ended"}
\* The way of the thread of an encoder with the status it read.
StatusWay(e) ==
    /\ th'[e].st = th[e].st
    /\ \/ th'[e].pc = th[e].pc
       \/ th[e].pc \in PutPlaces /\ th'[e].pc \in PutPlaces
       \/ PutStep(e) \/ BackStep(e) \/ Moves(e, "releaseTable", "done") \/ DoneStep(e)
       \/ Moves(e, "unref", "poll")
       \/ th[e].pc \in RestPlaces /\ th'[e].pc \in RestPlaces
\* The parts of SourcesHeld, for one encoder.
SliceFits(e) == enc[e].slice < conf.numSlices /\ (enc[e].slice > 0 => enc[e].frames # <<>>)
AcceptedOnly(e) ==
    /\ \A i \in DOMAIN enc[e].frames : enc[e].frames[i] <= Accepted(e)
    /\ InCallback(e) => th[e].st.pic \in 1 .. Accepted(e)
LastOnly(e) ==
    th[e].pc \in {"release", "releaseTable", "done"} \/ (e = "lookahead" /\ InCallback(e)) => th[e].st.last
NoneTwice(e) ==
    /\ \A i, j \in DOMAIN enc[e].frames : enc[e].frames[i] = enc[e].frames[j] => i = j
    /\ Finishing(e) /\ th[e].st.last => \A i \in DOMAIN enc[e].frames : enc[e].frames[i] # th[e].st.pic
SentAre(e) ==
    \A p \in Pictures : enc[e].sourceSent[p] <=>
       /\ ~Released(e)
       /\ \/ \E i \in DOMAIN enc[e].frames : enc[e].frames[i] = p
          \/ Finishing(e) /\ th[e].st.last /\ th[e].st.pic = p
Holds(e) == SliceFits(e) /\ AcceptedOnly(e) /\ LastOnly(e) /\ NoneTwice(e) /\ SentAre(e)

AllHold == \A e \in Encoders : Holds(e)

\* A picture whose source went back and whose permit did not.
Pending(e) == One(th[e].pc \in {"releaseTable", "done"})
PermitsOf(e) ==
    /\ enc[e].poolIds = enc[e].permits + 1
    /\ enc[e].permits + Cardinality(SourcesSent(enc[e])) + Pending(e) <= MaxCmd - 1

\* The ring of the streams of one encoder.
RingOf(e) ==
    LET c == enc[e]
    IN  /\ Released(e) => c.curStreamSent = c.curStreamRecv
        /\ ~Released(e) =>
              /\ Len(c.streams) + One(BeforePut(e)) = StreamsOf(e)
              /\ c.curStreamSent = Slot(e, Len(c.streams))
              /\ \A i \in DOMAIN c.streams :
                    c.streams[i] = Slot(e, i - 1) /\ c.streamSent[c.streams[i]] \in Streams
              /\ \A i, j \in DOMAIN c.streams :
                    c.streamSent[c.streams[i]] = c.streamSent[c.streams[j]] => i = j
        /\ InCallback(e) =>
              /\ (th[e].st.stream + 1) % MaxStream = c.curStreamRecv
              /\ c.streamSent[th[e].st.stream] \in Streams
        /\ BeforePut(e) => \A i \in DOMAIN c.streams :
              c.streamSent[c.streams[i]] # c.streamSent[th[e].st.stream]
AllRings == \A e \in Encoders : RingOf(e)
-----------------------------------------------------------------------------
(* The reference counts and the pools *)

SourcesAlone == srcRefs' = srcRefs /\ srcPool'.free = srcPool.free
SourceTaken(p) ==
    /\ srcRefs' = [srcRefs EXCEPT ![p] = 1]
    /\ srcPool.free # 0 /\ srcPool'.free = srcPool.free - 1
SourceShared(p) == srcRefs' = [srcRefs EXCEPT ![p] = @ + 1] /\ srcPool'.free = srcPool.free
SourcesLeft(S) ==
    /\ srcRefs' = [p \in Pictures |-> srcRefs[p] - (IF p \in S THEN 1 ELSE 0)]
    /\ srcPool'.free = srcPool.free + Cardinality({p \in S : srcRefs[p] = 1})

TablesAlone == qpRefs' = qpRefs /\ qpPool'.free = qpPool.free
TableTaken(u) ==
    /\ qpRefs' = [qpRefs EXCEPT ![u] = 1]
    /\ qpPool.free # 0 /\ qpPool'.free = qpPool.free - 1
TableShared(u) == qpRefs' = [qpRefs EXCEPT ![u] = @ + 1] /\ qpPool'.free = qpPool.free
TablesLeft(U) ==
    /\ qpRefs' = [u \in Uses |-> qpRefs[u] - (IF u \in U THEN 1 ELSE 0)]
    /\ qpPool'.free = qpPool.free + Cardinality({u \in U : qpRefs[u] = 1})

StreamsAlone == strRefs' = strRefs
StreamShared(s) == strRefs' = [strRefs EXCEPT ![s] = @ + 1]
StreamLeft(s) == strRefs' = [strRefs EXCEPT ![s] = @ - 1]
StreamsLeft(q) ==
    strRefs' = [s \in Streams |-> strRefs[s] - Cardinality({i \in DOMAIN q : q[i] = s})]

AllAlone == SourcesAlone /\ TablesAlone /\ StreamsAlone

\* What a step leaves alone that nobody gets or gives back a buffer in.
SameHands(t) ==
    /\ SameWork(t)
    /\ Passing(t)' <=> Passing(t)
    /\ HasTable(t)' <=> HasTable(t)
    /\ InCallback(t)' <=> InCallback(t)
    /\ th'[t].pc = "releaseTable" <=> th[t].pc = "releaseTable"
SameHolds(e) == SameSources(enc[e], enc'[e]) /\ SameRing(enc[e], enc'[e])
Undisturbed ==
    /\ fifo' = fifo
    /\ \A e \in Encoders : SameHolds(e)
    /\ \A t \in Threads : SameHands(t)

Table(t) == <<th[t].e, th[t].p>>
Same == enc' = enc /\ fifo' = fifo
TakesTable(t) == Moves(t, "table", "encode") /\ Same
Leaves(t) ==
    /\ \/ Moves(t, "dropTable", Return(t))
       \/ t = "main" /\ Moves(t, "thrown", FirstStop)
    /\ Same

\* Every step with what it does to the references.
Acts ==
    \/ Undisturbed /\ AllAlone
    \/ \E t \in Threads :
          \/ TakesTable(t) /\ SourcesAlone /\ TableTaken(Table(t)) /\ StreamsAlone
          \/ EncodeStep(t) /\ SourceShared(th[t].p) /\ TableShared(Table(t)) /\ StreamsAlone
          \/ Leaves(t) /\ SourcesLeft({th[t].p}) /\ TablesLeft({Table(t)}) /\ StreamsAlone
    \/ SourceStep /\ SourceTaken(next) /\ TablesAlone /\ StreamsAlone
    \/ FifoStep /\ AllAlone
    \/ (KeepStep \/ PassStep) /\ SourceShared(th["lookahead"].st.pic) /\ TablesAlone /\ StreamsAlone
    \/ \E e \in Used :
          \/ Slices(e) /\ AllAlone
          \/ PutStep(e) /\ SourcesAlone /\ TablesAlone
                /\ StreamShared(enc[e].streamSent[th[e].st.stream])
          \/ BackStep(e) /\ SourcesLeft({th[e].st.pic}) /\ TablesAlone /\ StreamsAlone
          \/ Moves(e, "releaseTable", "done") /\ Same /\ SourcesAlone
                /\ TablesLeft({<<e, th[e].st.pic>>}) /\ StreamsAlone
          \/ Moves(e, "unref", "poll") /\ Same /\ SourcesAlone /\ TablesAlone
                /\ StreamLeft(enc[e].streamSent[th[e].st.stream])
    \/ \E e \in Encoders :
          ReleaseStep(e) /\ SourcesLeft(SourcesSent(enc[e]))
             /\ TablesLeft({e} \X SourcesSent(enc[e])) /\ StreamsLeft(StreamsHeld(enc[e]))

PoolKinds ==
    /\ srcPool' \in [free : {srcPool'.free}, event : BOOLEAN]
    /\ qpPool' \in [free : {qpPool'.free}, event : BOOLEAN]

\* The parts of CountsAreHolders.
SourceCounts ==
    \A p \in Pictures : srcRefs[p] =
       Count({t \in Threads : Passing(t) /\ th[t].p = p})
       + Count({i \in DOMAIN fifo : fifo[i] = p})
       + Count({e \in Encoders : enc[e].sourceSent[p]})
TableCounts ==
    \A u \in Uses : qpRefs[u] =
       Count({t \in Threads : HasTable(t) /\ <<th[t].e, th[t].p>> = u})
       + (IF enc[u[1]].sourceSent[u[2]] THEN 1 ELSE 0)
       + Count({e \in Encoders : th[e].pc = "releaseTable" /\ <<e, th[e].st.pic>> = u})
StreamCounts ==
    \A s \in Streams : strRefs[s] =
       Count({e \in Encoders : \E i \in DOMAIN StreamsHeld(enc[e]) : StreamsHeld(enc[e])[i] = s})
       + Count({e \in Encoders : InCallback(e) /\ enc[e].streamSent[th[e].st.stream] = s})
SourcePool == srcPool.free + Count({p \in Pictures : srcRefs[p] > 0}) = FrameBuffers(conf)
TablePool == qpPool.free + Count({u \in Uses : qpRefs[u] > 0}) = FrameBuffers(conf)
FramesHeld ==
    \A e \in Encoders : ~enc[e].destroyed => \A i \in DOMAIN enc[e].frames :
       LET p == enc[e].frames[i] IN srcRefs[p] > 0 /\ qpRefs[<<e, p>>] > 0
AllCounts == SourceCounts /\ TableCounts /\ StreamCounts /\ SourcePool /\ TablePool /\ FramesHeld

\* Who holds a source.
SourceAt(t, p) == Passing(t) /\ th[t].p = p
InFifo(p) == \E i \in 1 .. Len(fifo) : fifo[i] = p
Sent(e, p) == enc[e].sourceSent[p]
SourceHolders(p) ==
    One(SourceAt("main", p)) + One(SourceAt("lookahead", p)) + One(InFifo(p))
    + One(Sent("lookahead", p)) + One(Sent("encoder", p))
SourcesExact == \A p \in Pictures : srcRefs[p] = SourceHolders(p)

\* Who holds a QP table.
TableAt(t, u) == HasTable(t) /\ <<th[t].e, th[t].p>> = u
SentFor(u) == enc[u[1]].sourceSent[u[2]]
TableDue(e, u) == th[e].pc = "releaseTable" /\ <<e, th[e].st.pic>> = u
TableHolders(u) ==
    One(TableAt("main", u)) + One(TableAt("lookahead", u)) + One(SentFor(u))
    + One(TableDue("lookahead", u)) + One(TableDue("encoder", u))
TablesExact == \A u \in Uses : qpRefs[u] = TableHolders(u)

\* Who holds a stream.
Queued(e, s) == ~Released(e) /\ \E i \in 1 .. Len(enc[e].streams) : enc[e].streamSent[enc[e].streams[i]] = s
Written(e, s) == InCallback(e) /\ enc[e].streamSent[th[e].st.stream] = s
StreamHolders(s) ==
    One(Queued("lookahead", s)) + One(Queued("encoder", s))
    + One(Written("lookahead", s)) + One(Written("encoder", s))
StreamsExact == \A s \in Streams : strRefs[s] = StreamHolders(s)

Lists == given \in Seq(Pictures) /\ fifo \in Seq(Pictures)
SourcesAgree == Lists /\ ThreadPlaces /\ PicturesInOrder => (SourceCounts <=> SourcesExact)
TablesAgree == ThreadPlaces => (TableCounts <=> TablesExact)

StreamsAgree ==
    conf \in Confs /\ enc \in [Encoders -> Contexts] /\ RingOfStreams => (StreamCounts <=> StreamsExact)

InUse(D, f) == {y \in D : f[y] > 0}
HeldOnce(S, f) == {y \in S : f[y] = 1}
\* What the hardware still reads is held, and its QP tables with it.
FramesKnown ==
    /\ TypeOK /\ ThreadPlaces /\ Lives /\ SourcesHeld /\ SourcesExact /\ TablesExact => FramesHeld

PassPlaces == {"table", "tableWait", "encode", "dropTable", "thrown"}
TablePlaces == {"encode", "dropTable", "thrown"}

\* Nobody else gets a source, or lets it go.
SourceStays(p) ==
    /\ SourceAt("main", p)' <=> SourceAt("main", p)
    /\ SourceAt("lookahead", p)' <=> SourceAt("lookahead", p)
    /\ InFifo(p)' <=> InFifo(p)
    /\ Sent("lookahead", p)' <=> Sent("lookahead", p)
    /\ Sent("encoder", p)' <=> Sent("encoder", p)

TableStays(u) ==
    /\ TableAt("main", u)' <=> TableAt("main", u)
    /\ TableAt("lookahead", u)' <=> TableAt("lookahead", u)
    /\ SentFor(u)' <=> SentFor(u)
    /\ TableDue("lookahead", u)' <=> TableDue("lookahead", u)
    /\ TableDue("encoder", u)' <=> TableDue("encoder", u)

StreamStays(s) ==
    /\ \A e \in Encoders : Queued(e, s)' <=> Queued(e, s)
    /\ \A e \in Encoders : Written(e, s)' <=> Written(e, s)

\* Where a sequence without repetitions has an element.
WhereIs(q, s) == {i \in DOMAIN q : q[i] = s}
\* The holders of a buffer are counted by a natural number.
HoldersAreNat ==
    /\ \A p : SourceHolders(p) \in Nat
    /\ \A u : TableHolders(u) \in Nat
    /\ \A s : StreamHolders(s) \in Nat
First(e) == IF e = "lookahead" THEN 1 ELSE One(HasLookAhead) + 1
=============================================================================

-------------------------- MODULE EncoderAppProofs --------------------------
(***************************************************************************)
(* Safety of the encoder application for every number of pictures, of      *)
(* permits and of streams, with and without LookAhead: reference counts    *)
(* are exact, no assertion fails, pictures are encoded in order.           *)
(*                                                                         *)
(* First the steps: sequences, the operators on the context of an encoder, *)
(* what each action does to threads and contexts and their types.  Then    *)
(* the parts of the inductive invariant (EncoderInv of EncoderApp) that    *)
(* count no references: who is where, the life of an encoder, the end of   *)
(* the stream, refusals, the order of the pictures, the sources an encoder *)
(* holds, permits and pool ids, the ring of streams.  Then the reference   *)
(* counts and the theorems.                                                *)
(***************************************************************************)
EXTENDS EncoderSteps, FiniteSetTheorems, SequenceTheorems, TLAPS

\* A sequence and the one with an element more at its end.
LEMMA SeqEnd ==
  ASSUME NEW S, NEW q \in Seq(S), NEW t \in S
  PROVE  /\ Len(q) \in Nat /\ DOMAIN q = 1 .. Len(q) /\ Append(q, t) \in Seq(S)
         /\ Len(Append(q, t)) = Len(q) + 1 /\ DOMAIN Append(q, t) = 1 .. Len(q) + 1
         /\ \A i \in 1 .. Len(q) : Append(q, t)[i] = q[i]
         /\ Append(q, t)[Len(q) + 1] = t
  BY AppendProperties, LenProperties

\* A sequence and the one without its head.
LEMMA SeqHead ==
  ASSUME NEW S, NEW q \in Seq(S), q # <<>>
  PROVE  /\ Len(q) \in Nat /\ Len(q) > 0 /\ DOMAIN q = 1 .. Len(q)
         /\ Head(q) = q[1] /\ Head(q) \in S
         /\ Tail(q) \in Seq(S) /\ Len(Tail(q)) = Len(q) - 1 /\ DOMAIN Tail(q) = 1 .. Len(q) - 1
         /\ \A i \in 1 .. Len(q) - 1 : Tail(q)[i] = q[i + 1]
  <1>1. Len(q) \in Nat /\ Len(q) > 0 /\ DOMAIN q = 1 .. Len(q)
    BY LenProperties, EmptySeq
  <1>2. /\ Head(q) = q[1] /\ Head(q) \in S
        /\ Tail(q) \in Seq(S) /\ Len(Tail(q)) = Len(q) - 1
    BY <1>1, HeadTailProperties
  <1> QED BY <1>1, <1>2, HeadTailProperties, LenProperties

\* A sequence and the one without one of its elements.
LEMMA SeqWithout ==
  ASSUME NEW S, NEW q \in Seq(S), NEW k \in 1 .. Len(q)
  PROVE  /\ RemoveAt(q, k) \in Seq(S) /\ Len(RemoveAt(q, k)) = Len(q) - 1
         /\ DOMAIN RemoveAt(q, k) = 1 .. Len(q) - 1
         /\ \A i \in 1 .. Len(q) - 1 : RemoveAt(q, k)[i] = q[IF i < k THEN i ELSE i + 1]
  <1> DEFINE a == SubSeq(q, 1, k - 1)
             b == SubSeq(q, k + 1, Len(q))
  <1>1. Len(q) \in Nat /\ \A i \in 1 .. Len(q) : q[i] \in S
    BY LenProperties, ElementOfSeq
  <1>2. /\ a \in Seq(S) /\ Len(a) = k - 1
        /\ \A i \in 1 .. k - 1 : a[i] = q[i]
    BY <1>1, SubSeqProperties
  <1>3. /\ b \in Seq(S) /\ Len(b) = Len(q) - k
        /\ \A i \in 1 .. Len(q) - k : b[i] = q[k + i]
    BY <1>1, SubSeqProperties
  <1> HIDE DEF a, b
  <1>4. /\ a \o b \in Seq(S) /\ Len(a \o b) = Len(q) - 1
        /\ \A i \in 1 .. Len(q) - 1 : (a \o b)[i] = IF i <= k - 1 THEN a[i] ELSE b[i - (k - 1)]
    BY <1>1, <1>2, <1>3, ConcatProperties
  <1>5. \A i \in 1 .. Len(q) - 1 : (a \o b)[i] = q[IF i < k THEN i ELSE i + 1]
    BY <1>1, <1>2, <1>3, <1>4
  <1>6. RemoveAt(q, k) = a \o b
    BY DEF RemoveAt, a, b
  <1>7. DOMAIN (a \o b) = 1 .. Len(q) - 1
    BY <1>4, LenProperties
  <1> QED BY <1>4, <1>5, <1>6, <1>7

\* A sequence with one of its elements moved to the front.
LEMMA SeqInFront ==
  ASSUME NEW S, NEW q \in Seq(S), NEW k \in 1 .. Len(q)
  PROVE  /\ <<q[k]>> \o RemoveAt(q, k) \in Seq(S)
         /\ DOMAIN (<<q[k]>> \o RemoveAt(q, k)) = 1 .. Len(q)
         /\ Len(<<q[k]>> \o RemoveAt(q, k)) = Len(q)
         /\ \A i \in 1 .. Len(q) : (<<q[k]>> \o RemoveAt(q, k))[i] =
               q[IF i = 1 THEN k ELSE IF i - 1 < k THEN i - 1 ELSE i]
  <1> DEFINE r == RemoveAt(q, k)
             a == <<q[k]>>
  <1>1. Len(q) \in Nat /\ q[k] \in S
    BY LenProperties, ElementOfSeq
  <1>2. /\ r \in Seq(S) /\ Len(r) = Len(q) - 1
        /\ \A i \in 1 .. Len(q) - 1 : r[i] = q[IF i < k THEN i ELSE i + 1]
    BY SeqWithout
  <1>3. a \in Seq(S) /\ Len(a) = 1 /\ a[1] = q[k]
    BY <1>1
  <1> HIDE DEF r, a
  <1>4. /\ a \o r \in Seq(S) /\ Len(a \o r) = Len(q)
        /\ \A i \in 1 .. Len(q) : (a \o r)[i] = IF i <= 1 THEN a[i] ELSE r[i - 1]
    <2>1. /\ a \o r \in Seq(S) /\ Len(a \o r) = Len(a) + Len(r)
          /\ \A i \in 1 .. Len(a) + Len(r) : (a \o r)[i] = IF i <= Len(a) THEN a[i] ELSE r[i - Len(a)]
      BY <1>2, <1>3, ConcatProperties
    <2>2. Len(a) + Len(r) = Len(q)
      BY <1>1, <1>2, <1>3
    <2> QED BY <1>3, <2>1, <2>2
  <1>5. ASSUME NEW i \in 1 .. Len(q)
        PROVE  (a \o r)[i] = q[IF i = 1 THEN k ELSE IF i - 1 < k THEN i - 1 ELSE i]
    <2>1. CASE i = 1
      BY <1>1, <1>3, <1>4, <2>1
    <2>2. CASE i # 1
      <3>1. i - 1 \in 1 .. Len(q) - 1 /\ ~(i <= 1)
        BY <1>1, <2>2
      <3>2. r[i - 1] = q[IF i - 1 < k THEN i - 1 ELSE (i - 1) + 1]
        BY <1>2, <3>1
      <3>3. (i - 1) + 1 = i
        BY <1>1
      <3> QED BY <1>4, <2>2, <3>1, <3>2, <3>3
    <2> QED BY <2>1, <2>2
  <1>6. DOMAIN (a \o r) = 1 .. Len(q)
    BY <1>4, LenProperties
  <1> QED BY <1>4, <1>5, <1>6 DEF a, r
-----------------------------------------------------------------------------
(* Threads, sets and sizes *)

LEMMA ThreadsAre ==
  /\ Threads = {"main", "lookahead", "encoder"} /\ Encoders = {"lookahead", "encoder"}
  /\ "main" # "lookahead" /\ "main" # "encoder" /\ "lookahead" # "encoder"
  BY DEF Threads, Encoders

LEMMA Sizes ==
  /\ NumPictures \in Nat /\ MaxStream \in Nat \ {0} /\ MaxCmd \in Nat /\ MaxCmd > 1
  /\ MaxSource \in Nat /\ MaxSource >= MaxCmd
  BY EncoderAssumption

\* The sizes that follow from the settings.
LEMMA SettingsAre ==
  ASSUME conf \in Confs
  PROVE  /\ conf.lookAhead \in Nat /\ conf.numB \in Nat /\ conf.numSlices \in Nat \ {0}
         /\ (HasLookAhead => conf.numSlices = 1)
         /\ FrameBuffers(conf) \in Nat
         /\ NumStreams(conf) \in Nat /\ 1 <= NumStreams(conf) /\ NumStreams(conf) < MaxStream
         /\ conf.maxRefused \in Nat
  <1>1. /\ conf.lookAhead \in Nat /\ conf.numB \in Nat /\ conf.numSlices \in Nat \ {0}
        /\ (conf.lookAhead > 0 => conf.numSlices = 1) /\ NumStreams(conf) < MaxStream
        /\ conf.maxRefused \in Nat
    BY EncoderAppAssumption
  <1> DEFINE a == 4 + conf.numB + (IF conf.lookAhead > 0 THEN 1 ELSE 0)
  <1>2. a \in Nat /\ a >= 1
    BY <1>1
  <1> HIDE DEF a
  <1>3. \A x, y \in Nat : x >= 1 /\ y >= 1 => x * y \in Nat /\ x * y >= 1
    OBVIOUS
  <1>4. a * conf.numSlices \in Nat /\ a * conf.numSlices >= 1
    BY <1>1, <1>2, <1>3
  <1>5. NumStreams(conf) = a * conf.numSlices
    BY DEF NumStreams, a
  <1>6. FrameBuffers(conf) \in Nat
    BY <1>1 DEF FrameBuffers
  <1> QED BY <1>1, <1>4, <1>5, <1>6 DEF HasLookAhead

\* The number of elements of a set of threads or of encoders.
LEMMA CountOfThreads ==
  ASSUME NEW S \in SUBSET Threads
  PROVE  Cardinality(S) = One("main" \in S) + One("lookahead" \in S) + One("encoder" \in S)
  <1> DEFINE A == IF "main" \in S THEN {"main"} ELSE {}
             B == IF "lookahead" \in S THEN A \cup {"lookahead"} ELSE A
             C == IF "encoder" \in S THEN B \cup {"encoder"} ELSE B
  <1>1. IsFiniteSet(A) /\ Cardinality(A) = One("main" \in S)
    BY FS_EmptySet, FS_Singleton DEF One
  <1>2. IsFiniteSet(B) /\ Cardinality(B) = One("main" \in S) + One("lookahead" \in S)
    <2>1. CASE "lookahead" \in S
      <3>1. IsFiniteSet(A \cup {"lookahead"}) /\ Cardinality(A \cup {"lookahead"}) = Cardinality(A) + 1
        BY <1>1, FS_AddElement, ThreadsAre
      <3> QED BY <1>1, <2>1, <3>1 DEF One
    <2>2. CASE "lookahead" \notin S
      BY <1>1, <2>2 DEF One
    <2> QED BY <2>1, <2>2
  <1>3. "encoder" \notin B
    BY ThreadsAre
  <1>4. C = S
    BY ThreadsAre
  <1> HIDE DEF B
  <1>5. CASE "encoder" \in S
    <2>1. Cardinality(B \cup {"encoder"}) = Cardinality(B) + 1
      BY <1>2, <1>3, FS_AddElement
    <2> QED BY <1>2, <1>4, <1>5, <2>1 DEF One
  <1>6. CASE "encoder" \notin S
    BY <1>2, <1>4, <1>6 DEF One
  <1> QED BY <1>5, <1>6

LEMMA CountOfEncoders ==
  ASSUME NEW S \in SUBSET Encoders
  PROVE  Cardinality(S) = One("lookahead" \in S) + One("encoder" \in S)
  <1>1. S \in SUBSET Threads /\ "main" \notin S
    BY ThreadsAre
  <1>2. Cardinality(S) = One("main" \in S) + One("lookahead" \in S) + One("encoder" \in S)
    BY <1>1, CountOfThreads
  <1> QED BY <1>1, <1>2 DEF One
-----------------------------------------------------------------------------
(* What each operator on the context of an encoder leaves alone *)

\* The fields of a context.
LEMMA ContextIs ==
  ASSUME NEW c \in Contexts
  PROVE  /\ c.permits \in Int /\ c.poolIds \in Int /\ c.sourceSent \in [Pictures -> BOOLEAN]
         /\ c.streamSent \in [0 .. MaxStream - 1 -> Streams \cup {NoStream}]
         /\ c.curStreamSent \in 0 .. MaxStream - 1 /\ c.curStreamRecv \in 0 .. MaxStream - 1
         /\ c.shouldContinue \in BOOLEAN /\ c.frames \in Seq(Pictures)
         /\ c.streams \in Seq(0 .. MaxStream - 1) /\ c.slice \in Nat
         /\ c.eos \in {"no", "asked", "told"} /\ c.destroyed \in BOOLEAN /\ c.ok \in BOOLEAN
  BY DEF Contexts

\* A place of the ring of streams, further by less than its size.
LEMMA RingIs ==
  ASSUME NEW o \in 0 .. MaxStream - 1, NEW k \in 0 .. MaxStream - 1
  PROVE  /\ (o + k) % MaxStream \in 0 .. MaxStream - 1
         /\ (o + k) % MaxStream = IF o + k < MaxStream THEN o + k ELSE o + k - MaxStream
  BY Sizes

LEMMA NextOfRing ==
  ASSUME NEW o \in 0 .. MaxStream - 1
  PROVE  (o + 1) % MaxStream \in 0 .. MaxStream - 1
  BY Sizes

LEMMA EncodeOneFrameIs ==
  ASSUME NEW c \in Contexts, NEW p \in Pictures
  PROVE  LET d == EncodeOneFrame(c, p)
         IN  /\ d \in Contexts
             /\ SameRing(c, d) /\ SameLife(c, d) /\ SameEnd(c, d) /\ d.slice = c.slice
             /\ d.permits = c.permits - 1 /\ d.poolIds = c.poolIds - 1
             /\ d.sourceSent = [c.sourceSent EXCEPT ![p] = TRUE]
             /\ d.frames = Append(c.frames, p)
             /\ d.ok <=> c.ok /\ c.poolIds > 0 /\ Cardinality(SourcesSent(c)) < MaxSource
  <1> DEFINE d == EncodeOneFrame(c, p)
  <1>1. Append(c.frames, p) \in Seq(Pictures)
    BY ContextIs, AppendProperties
  <1>2. c.permits - 1 \in Int /\ c.poolIds - 1 \in Int
        /\ [c.sourceSent EXCEPT ![p] = TRUE] \in [Pictures -> BOOLEAN]
    BY ContextIs
  <1>3. d = [c EXCEPT !.permits = @ - 1, !.poolIds = @ - 1, !.sourceSent = [@ EXCEPT ![p] = TRUE],
                      !.ok = @ /\ c.poolIds > 0 /\ Cardinality(SourcesSent(c)) < MaxSource,
                      !.frames = Append(@, p)]
    BY DEF EncodeOneFrame, TakeSource, Contexts
  <1> HIDE DEF d
  <1>4. d \in Contexts
    BY <1>1, <1>2, <1>3 DEF Contexts
  <1> QED BY <1>3, <1>4 DEF d, Contexts, SameRing, SameLife, SameEnd

LEMMA EncodeRefusedIs ==
  ASSUME NEW c \in Contexts, NEW p \in Pictures, ~c.sourceSent[p]
  PROVE  LET d == EncodeRefused(c, p)
         IN  /\ d \in Contexts
             /\ SameRing(c, d) /\ SameLife(c, d) /\ SameEnd(c, d) /\ SameFrames(c, d)
             /\ SameSources(c, d)
             /\ d.permits = c.permits - 1 /\ d.poolIds = c.poolIds - 1
             /\ d.ok <=> c.ok /\ c.poolIds > 0 /\ Cardinality(SourcesSent(c)) < MaxSource
  <1> DEFINE b == TakeSource(c, p)
             d == EncodeRefused(c, p)
  <1>2. c.permits - 1 \in Int /\ c.poolIds - 1 \in Int
        /\ [c.sourceSent EXCEPT ![p] = TRUE] \in [Pictures -> BOOLEAN]
    BY ContextIs
  <1>3. b = [c EXCEPT !.permits = @ - 1, !.poolIds = @ - 1, !.sourceSent = [@ EXCEPT ![p] = TRUE],
                      !.ok = @ /\ c.poolIds > 0 /\ Cardinality(SourcesSent(c)) < MaxSource]
    BY DEF TakeSource, Contexts
  <1>4. d = [b EXCEPT !.sourceSent = [@ EXCEPT ![p] = FALSE], !.ok = @ /\ b.sourceSent[p]]
    BY <1>3 DEF EncodeRefused, RemoveSourceSent, Contexts
  <1> HIDE DEF b, d
  <1>5. b \in Contexts /\ SameRing(c, b) /\ SameLife(c, b) /\ SameEnd(c, b) /\ SameFrames(c, b)
        /\ b.permits = c.permits - 1 /\ b.poolIds = c.poolIds - 1
        /\ b.sourceSent = [c.sourceSent EXCEPT ![p] = TRUE]
        /\ (b.ok <=> c.ok /\ c.poolIds > 0 /\ Cardinality(SourcesSent(c)) < MaxSource)
    BY <1>2, <1>3 DEF Contexts, SameRing, SameLife, SameEnd, SameFrames
  <1>6. b.sourceSent[p] /\ [b.sourceSent EXCEPT ![p] = FALSE] = c.sourceSent
    BY <1>5, ContextIs
  <1>7. c.sourceSent \in [Pictures -> BOOLEAN]
    BY ContextIs
  <1>8. d \in Contexts /\ SameRing(b, d) /\ SameLife(b, d) /\ SameEnd(b, d) /\ SameFrames(b, d)
        /\ SamePermits(b, d) /\ d.sourceSent = c.sourceSent /\ (d.ok <=> b.ok)
    BY <1>4, <1>5, <1>6, <1>7 DEF Contexts, SameRing, SameLife, SameEnd, SameFrames, SamePermits
  <1> QED BY <1>5, <1>8 DEF d, SameRing, SameLife, SameEnd, SameFrames, SamePermits, SameSources

LEMMA EndOfStreamIs ==
  ASSUME NEW c \in Contexts
  PROVE  /\ \A d : d \in {EndOfStream(c), [c EXCEPT !.eos = "told"]} =>
              /\ d \in Contexts
              /\ SameRing(c, d) /\ SameLife(c, d) /\ SameFrames(c, d) /\ SameSources(c, d)
              /\ SamePermits(c, d) /\ SameOk(c, d)
         /\ EndOfStream(c).eos = "asked" /\ [c EXCEPT !.eos = "told"].eos = "told"
  BY DEF EndOfStream, Contexts, SameRing, SameLife, SameFrames, SameSources, SamePermits, SameOk

LEMMA StopIs ==
  ASSUME NEW c \in Contexts
  PROVE  /\ \A d : d \in {StopWaiting(c), DestroyChannel(c)} =>
              /\ d \in Contexts
              /\ SameRing(c, d) /\ SameEnd(c, d) /\ SameFrames(c, d) /\ SameSources(c, d)
              /\ SamePermits(c, d) /\ SameOk(c, d)
         /\ ~StopWaiting(c).shouldContinue /\ StopWaiting(c).destroyed = c.destroyed
         /\ DestroyChannel(c).destroyed /\ DestroyChannel(c).shouldContinue = c.shouldContinue
  BY ZenonT(40) DEF StopWaiting, DestroyChannel, Contexts, SameRing, SameEnd, SameFrames, SameSources, SamePermits,
         SameOk

LEMMA PutStreamBufferIs ==
  ASSUME NEW c \in Contexts, NEW s \in Streams
  PROVE  LET d == PutStreamBuffer(c, s)
         IN  /\ d \in Contexts
             /\ SameLife(c, d) /\ SameEnd(c, d) /\ SameFrames(c, d) /\ SameSources(c, d)
             /\ SamePermits(c, d) /\ SameOk(c, d)
             /\ d.streamSent = [c.streamSent EXCEPT ![c.curStreamSent] = s]
             /\ d.curStreamSent = (c.curStreamSent + 1) % MaxStream
             /\ d.curStreamRecv = c.curStreamRecv
             /\ d.streams = Append(c.streams, c.curStreamSent)
  <1> DEFINE d == PutStreamBuffer(c, s)
             n == (c.curStreamSent + 1) % MaxStream
  <1>1. Append(c.streams, c.curStreamSent) \in Seq(0 .. MaxStream - 1)
    BY ContextIs, AppendProperties
  <1>2. n \in 0 .. MaxStream - 1
    BY ContextIs, NextOfRing
  <1>3. [c.streamSent EXCEPT ![c.curStreamSent] = s] \in [0 .. MaxStream - 1 -> Streams \cup {NoStream}]
    BY ContextIs
  <1>4. d = [c EXCEPT !.streamSent = [@ EXCEPT ![c.curStreamSent] = s], !.curStreamSent = n,
                      !.streams = Append(@, c.curStreamSent)]
    BY DEF PutStreamBuffer, Contexts
  <1>5. n = (c.curStreamSent + 1) % MaxStream
    OBVIOUS
  <1> HIDE DEF d, n
  <1>6. d \in Contexts
    BY <1>1, <1>2, <1>3, <1>4 DEF Contexts
  <1> QED BY <1>4, <1>5, <1>6 DEF d, Contexts, SameLife, SameEnd, SameFrames, SameSources, SamePermits, SameOk

LEMMA RemoveSourceSentIs ==
  ASSUME NEW c \in Contexts, NEW p \in Pictures
  PROVE  LET d == RemoveSourceSent(c, p)
         IN  /\ d \in Contexts
             /\ SameRing(c, d) /\ SameLife(c, d) /\ SameEnd(c, d) /\ SameFrames(c, d)
             /\ SamePermits(c, d)
             /\ d.sourceSent = [c.sourceSent EXCEPT ![p] = FALSE]
             /\ d.ok <=> c.ok /\ c.sourceSent[p]
  <1> DEFINE d == RemoveSourceSent(c, p)
  <1>1. [c.sourceSent EXCEPT ![p] = FALSE] \in [Pictures -> BOOLEAN] /\ c.sourceSent[p] \in BOOLEAN
    BY ContextIs
  <1>2. d = [c EXCEPT !.sourceSent = [@ EXCEPT ![p] = FALSE], !.ok = @ /\ c.sourceSent[p]]
    BY DEF RemoveSourceSent, Contexts
  <1> HIDE DEF d
  <1>3. d \in Contexts
    BY <1>1, <1>2 DEF Contexts
  <1> QED BY <1>2, <1>3 DEF d, Contexts, SameRing, SameLife, SameEnd, SameFrames, SamePermits

LEMMA EndOfPictureIs ==
  ASSUME NEW c \in Contexts
  PROVE  LET d == EndOfPicture(c)
         IN  /\ d \in Contexts
             /\ SameRing(c, d) /\ SameLife(c, d) /\ SameEnd(c, d) /\ SameFrames(c, d)
             /\ SameSources(c, d) /\ SameOk(c, d)
             /\ d.permits = c.permits + 1 /\ d.poolIds = c.poolIds + 1
  <1> DEFINE d == EndOfPicture(c)
  <1>1. c.permits + 1 \in Int /\ c.poolIds + 1 \in Int
    BY ContextIs
  <1>2. d = [c EXCEPT !.poolIds = @ + 1, !.permits = @ + 1]
    BY DEF EndOfPicture
  <1> HIDE DEF d
  <1>3. d \in Contexts
    BY <1>1, <1>2 DEF Contexts
  <1> QED
    BY <1>2, <1>3 DEF d, Contexts, SameRing, SameLife, SameEnd, SameFrames, SameSources, SameOk

LEMMA ReleaseAllIs ==
  ASSUME NEW c \in Contexts
  PROVE  LET d == ReleaseAll(c)
         IN  /\ d \in Contexts
             /\ SameLife(c, d) /\ SameEnd(c, d) /\ SameFrames(c, d) /\ SamePermits(c, d)
             /\ SameOk(c, d)
             /\ d.sourceSent = [p \in Pictures |-> FALSE]
             /\ d.curStreamRecv = c.curStreamSent /\ d.curStreamSent = c.curStreamSent
  <1> DEFINE d == ReleaseAll(c)
  <1>1. [p \in Pictures |-> FALSE] \in [Pictures -> BOOLEAN] /\ c.curStreamSent \in 0 .. MaxStream - 1
    BY ContextIs
  <1>2. d = [c EXCEPT !.curStreamRecv = c.curStreamSent, !.sourceSent = [p \in Pictures |-> FALSE]]
    BY DEF ReleaseAll
  <1> HIDE DEF d
  <1>3. d \in Contexts
    BY <1>1, <1>2 DEF Contexts
  <1> QED BY <1>2, <1>3 DEF d, Contexts, SameLife, SameEnd, SameFrames, SamePermits, SameOk

\* A slice done and received: the context and the status.
LEMMA SliceReceivedIs ==
  ASSUME NEW c \in Contexts, NEW n \in Nat, c.streams # <<>>, NEW i \in 1 .. Len(c.frames)
  PROVE  LET done == SliceDone(c, i, n)
             d == ReceiveStream(done.ctx, done.status.stream)
         IN  /\ d \in Contexts /\ done.status \in Statuses
             /\ SameLife(c, d) /\ SameEnd(c, d) /\ SamePermits(c, d) /\ SameSources(c, d)
             /\ done.status.pic = c.frames[i] /\ done.status.stream = Head(c.streams)
             /\ done.status.last = (c.slice + 1 = n)
             /\ d.streamSent = c.streamSent /\ d.streams = Tail(c.streams)
             /\ d.curStreamSent = c.curStreamSent
             /\ d.curStreamRecv = (c.curStreamRecv + 1) % MaxStream
             /\ d.slice = (IF c.slice + 1 = n THEN 0 ELSE c.slice + 1)
             /\ d.frames = (IF c.slice + 1 = n THEN RemoveAt(c.frames, i)
                            ELSE <<c.frames[i]>> \o RemoveAt(c.frames, i))
             /\ d.ok <=> c.ok /\ c.curStreamRecv = Head(c.streams)
  <1> DEFINE done == SliceDone(c, i, n)
             b == done.ctx
             d == ReceiveStream(b, done.status.stream)
             q == IF c.slice + 1 = n THEN RemoveAt(c.frames, i)
                  ELSE <<c.frames[i]>> \o RemoveAt(c.frames, i)
             k == IF c.slice + 1 = n THEN 0 ELSE c.slice + 1
             r == (c.curStreamRecv + 1) % MaxStream
  <1>1. q \in Seq(Pictures) /\ k \in Nat
    BY ContextIs, SeqWithout, SeqInFront
  <1>2. Tail(c.streams) \in Seq(0 .. MaxStream - 1) /\ Head(c.streams) \in 0 .. MaxStream - 1
    BY ContextIs, SeqHead
  <1>3. r \in 0 .. MaxStream - 1
    BY ContextIs, NextOfRing
  <1>4. c.frames[i] \in Pictures
    BY ContextIs, ElementOfSeq
  <1>5. done.status = [pic |-> c.frames[i], stream |-> Head(c.streams), last |-> c.slice + 1 = n]
        /\ b = [c EXCEPT !.streams = Tail(@), !.slice = k, !.frames = q]
    BY DEF SliceDone, Contexts
  <1>6. d = [b EXCEPT !.ok = @ /\ b.curStreamRecv = Head(c.streams), !.curStreamRecv = (@ + 1) % MaxStream]
    BY <1>5 DEF ReceiveStream
  <1>7. done.status \in Statuses
    BY <1>2, <1>4, <1>5 DEF Statuses
  <1>12. done.status.last = (c.slice + 1 = n)
    BY DEF SliceDone
  <1>17. done.status.pic = c.frames[i] /\ done.status.stream = Head(c.streams)
    BY DEF SliceDone
  <1> HIDE DEF b, d, q, k
  <1>8. /\ b \in Contexts /\ b.curStreamRecv = c.curStreamRecv
        /\ b.streamSent = c.streamSent /\ b.streams = Tail(c.streams)
        /\ b.curStreamSent = c.curStreamSent /\ b.slice = k /\ b.frames = q /\ b.ok = c.ok
        /\ SameLife(c, b) /\ SameEnd(c, b) /\ SamePermits(c, b) /\ SameSources(c, b)
    BY <1>1, <1>2, <1>5 DEF Contexts, SameLife, SameEnd, SamePermits, SameSources
  <1>9. d = [b EXCEPT !.ok = @ /\ b.curStreamRecv = Head(c.streams), !.curStreamRecv = r]
    BY <1>6, <1>8 DEF Contexts
  <1> HIDE DEF r
  <1>10. /\ d \in Contexts /\ d.streamSent = b.streamSent /\ d.streams = b.streams
         /\ d.curStreamSent = b.curStreamSent /\ d.curStreamRecv = r /\ d.slice = b.slice /\ d.frames = b.frames
         /\ SameLife(b, d) /\ SameEnd(b, d) /\ SamePermits(b, d) /\ SameSources(b, d)
         /\ (d.ok <=> b.ok /\ b.curStreamRecv = Head(c.streams))
    BY <1>3, <1>8, <1>9 DEF Contexts, SameLife, SameEnd, SamePermits, SameSources
  <1>11. SameLife(c, d) /\ SameEnd(c, d) /\ SamePermits(c, d) /\ SameSources(c, d)
    BY <1>8, <1>10 DEF SameLife, SameEnd, SamePermits, SameSources
  <1> HIDE DEF done
  <1>13. r = (c.curStreamRecv + 1) % MaxStream
    BY DEF r
  <1> HIDE DEF SameLife, SameEnd, SamePermits, SameSources
  <1>14. q = (IF c.slice + 1 = n THEN RemoveAt(c.frames, i)
                            ELSE <<c.frames[i]>> \o RemoveAt(c.frames, i))
         /\ k = (IF c.slice + 1 = n THEN 0 ELSE c.slice + 1)
    BY DEF q, k
  <1>15. d = ReceiveStream(done.ctx, done.status.stream) /\ done = SliceDone(c, i, n)
    BY DEF d, b, done
  <1>16. /\ d \in Contexts /\ done.status \in Statuses
         /\ SameLife(c, d) /\ SameEnd(c, d) /\ SamePermits(c, d) /\ SameSources(c, d)
         /\ done.status.pic = c.frames[i] /\ done.status.stream = Head(c.streams)
         /\ done.status.last = (c.slice + 1 = n)
         /\ d.streamSent = c.streamSent /\ d.streams = Tail(c.streams)
         /\ d.curStreamSent = c.curStreamSent
         /\ d.curStreamRecv = r
         /\ d.slice = k
         /\ d.frames = q
         /\ (d.ok <=> c.ok /\ c.curStreamRecv = Head(c.streams))
    BY <1>7, <1>8, <1>10, <1>11, <1>12, <1>17
  <1> QED BY <1>13, <1>14, <1>15, <1>16 DEF d, b, done
-----------------------------------------------------------------------------
(* The steps, without the pools and the reference counts *)

\* What the types of threads and contexts say of a step.
LEMMA ThreadMoves ==
  ASSUME TypeOK, NEW t \in Threads, NEW x, NEW y, Step(t, x, y)
  PROVE  Moves(t, x, y)
  BY DEF TypeOK, ThreadStates, Step, Moves, SameWork, Only

LEMMA ContextCalls ==
  ASSUME TypeOK, NEW e \in Encoders, NEW d, enc' = [enc EXCEPT ![e] = d]
  PROVE  Calls(e, d)
  BY DEF TypeOK, Calls

LEMMA UsedAre ==
  /\ Used \in SUBSET Encoders /\ "encoder" \in Used /\ FirstSink \in Used
  /\ "lookahead" \in Used <=> HasLookAhead
  /\ FirstSink = IF HasLookAhead THEN "lookahead" ELSE "encoder"
  BY ThreadsAre DEF Used, FirstSink

\* The pictures an encoder may work on are there; the lookahead, without B pictures, takes
\* the oldest.
LEMMA EncodableIs ==
  ASSUME TypeOK, SourcesHeld, NEW e \in Encoders, NEW i \in Encodable(enc[e], NumB(e))
  PROVE  i \in 1 .. Len(enc[e].frames) /\ (e = "lookahead" => i = 1)
  <1> DEFINE c == enc[e]
             n == NumB(e)
  <1>1. c \in Contexts /\ conf \in Confs
    BY DEF TypeOK
  <1>2. Len(c.frames) \in Nat /\ c.slice \in Nat /\ (c.frames # <<>> => Len(c.frames) > 0)
    BY <1>1, ContextIs, LenProperties, EmptySeq
  <1>3. n \in Nat /\ (e = "lookahead" => n = 0)
    BY <1>1, SettingsAre DEF NumB
  <1>4. c.slice > 0 => c.frames # <<>>
    BY DEF SourcesHeld
  <1>5. i \in Encodable(c, n)
    OBVIOUS
  <1> HIDE DEF c, n
  <1>6. i \in 1 .. Len(c.frames) /\ (n = 0 => i = 1)
    BY <1>2, <1>3, <1>4, <1>5 DEF Encodable
  <1> QED BY <1>3, <1>6 DEF c

\* No thread ends the process: the driver accepts what the LookAhead is given.
LEMMA NoTermination ==
  ASSUME ThreadPlaces
  PROVE  ~Terminated
  BY ThreadsAre DEF ThreadPlaces, Terminated, Stopping

LEMMA SinkSteps ==
  ASSUME TypeOK, ThreadPlaces, DriverAccepts, NEW t \in Threads, Sink(t)
  PROVE  QuietStep \/ EncodeStep(t) \/ RefuseStep
  <1> USE DEF ThreadPlaces
  <1>1. CASE GetTable(t)
    <2>1. /\ th[t].pc = "table" /\ UNCHANGED <<enc, fifo, bEndOfStream, next, given, refused>>
          /\ UNCHANGED <<eosFinished, hFinished>>
          /\ th' = [th EXCEPT ![t].pc = "encode"] \/ th' = [th EXCEPT ![t].pc = "tableWait"]
      BY <1>1 DEF GetTable, laVars
    <2>2. Moves(t, "table", "encode") \/ Moves(t, "table", "tableWait")
      BY <2>1, ThreadMoves DEF Step
    <2>3. <<"table", "encode">> \in Waits /\ <<"table", "tableWait">> \in Waits
      BY DEF Waits
    <2>4. \E w \in Waits : Moves(t, w[1], w[2])
      BY <2>2, <2>3
    <2> QED BY <2>1, <2>4 DEF QuietStep
  <1>2. CASE WaitTable(t)
    <2>1. /\ UNCHANGED <<enc, fifo, bEndOfStream, next, given, refused>>
          /\ UNCHANGED <<eosFinished, hFinished>> /\ Step(t, "tableWait", "table")
      BY <1>2 DEF WaitTable, laVars
    <2>2. <<"tableWait", "table">> \in Waits
      BY DEF Waits
    <2>4. \E w \in Waits : Moves(t, w[1], w[2])
      BY <2>1, <2>2, ThreadMoves
    <2> QED BY <2>1, <2>4 DEF QuietStep
  <1>3. CASE Encode(t)
    <2>1. th[t].e \in Encoders
      BY DEF TypeOK, ThreadStates
    <2> QED BY <1>3, <2>1, ThreadMoves, ContextCalls DEF Encode, laVars, EncodeStep, IsReady, TypeOK
  <1>4. CASE Refuse(t)
    <2>1. refused < conf.maxRefused /\ refused \in Nat /\ conf \in Confs
      BY <1>4 DEF Refuse, TypeOK
    <2>2. ~HasLookAhead
      BY <2>1, SettingsAre DEF DriverAccepts, HasLookAhead
    <2>3. th[t].pc = "encode"
      BY <1>4 DEF Refuse, Step
    <2>4. t = "main"
      BY <2>2, <2>3, ThreadsAre DEF Idle
    <2>5. th["main"].e = "encoder"
      BY <2>2, <2>3, <2>4, ThreadsAre DEF Passing, TypeOK, ThreadStates
    <2>6. Moves("main", "encode", "thrown")
      BY <1>4, <2>4, ThreadMoves DEF Refuse
    <2>7. Calls("encoder", EncodeRefused(enc["encoder"], th["main"].p)) /\ enc["encoder"].permits > 0
      BY <1>4, <2>4, <2>5, ContextCalls, ThreadsAre DEF Refuse, IsReady, TypeOK
    <2> QED BY <1>4, <2>2, <2>5, <2>6, <2>7 DEF Refuse, RefuseStep, laVars
  <1>5. CASE Drop(t)
    <2>1. Moves(t, "dropTable", Return(t))
      BY <1>5, ThreadMoves DEF Drop
    <2> QED BY <1>5, <2>1 DEF Drop, QuietStep, laVars
  <1> QED BY <1>1, <1>2, <1>3, <1>4, <1>5 DEF Sink

\* A slice is done of a picture the encoder has; the lookahead takes the oldest.
LEMMA SliceActs ==
  ASSUME TypeOK, SourcesHeld, NEW e \in Used, WaitSlice(e)
  PROVE  \E i \in 1 .. Len(enc[e].frames) : (e = "lookahead" => i = 1) /\ SliceStep(e, i)
  <1>0. e \in Encoders /\ e \in Threads
    BY UsedAre, ThreadsAre
  <1>1. PICK i \in Encodable(enc[e], NumB(e)) :
          LET done == SliceDone(enc[e], i, conf.numSlices)
          IN  /\ enc' = [enc EXCEPT ![e] = ReceiveStream(done.ctx, done.status.stream)]
              /\ th' = [th EXCEPT ![e] = [@ EXCEPT !.pc = "callback", !.st = done.status]]
    BY DEF WaitSlice
  <1>2. i \in 1 .. Len(enc[e].frames) /\ (e = "lookahead" => i = 1)
    BY <1>0, EncodableIs
  <1> DEFINE done == SliceDone(enc[e], i, conf.numSlices)
             s == done.status
  <1>3. th' = [th EXCEPT ![e] = [@ EXCEPT !.pc = "callback", !.st = s]]
        /\ enc' = [enc EXCEPT ![e] = ReceiveStream(done.ctx, done.status.stream)]
    BY <1>1
  <1>4. Calls(e, ReceiveStream(done.ctx, done.status.stream))
    BY <1>0, <1>3, ContextCalls
  <1> HIDE DEF s
  <1>5. /\ th'[e].pc = "callback" /\ Only(e)
        /\ th'[e].e = th[e].e /\ th'[e].p = th[e].p /\ th'[e].st = s
    BY <1>0, <1>3 DEF TypeOK, ThreadStates, Only
  <1>6. SliceStep(e, i)
    BY <1>3, <1>4, <1>5 DEF SliceStep, s, WaitSlice, laVars
  <1> QED BY <1>2, <1>6

\* The LookAhead keeps its picture, and may pass the oldest on.
LEMMA FifoActs ==
  ASSUME TypeOK, AddFifo
  PROVE  KeepStep \/ PassStep
  <1>0. "lookahead" \in Threads
    BY ThreadsAre
  <1> DEFINE kept == Append(fifo, th["lookahead"].st.pic)
             h == Head(kept)
  <1>1. CASE Len(kept) = conf.lookAhead
    <2>1. th["lookahead"].pc = "callback" /\ fifo' = Tail(kept)
          /\ th' = [th EXCEPT !["lookahead"] = [@ EXCEPT !.pc = "table", !.p = h]]
      BY <1>1 DEF AddFifo
    <2> HIDE DEF h
    <2>2. /\ th'["lookahead"].pc = "table" /\ Only("lookahead") /\ th'["lookahead"].p = h
          /\ th'["lookahead"].e = th["lookahead"].e /\ th'["lookahead"].st = th["lookahead"].st
      BY <1>0, <2>1 DEF TypeOK, ThreadStates, Only
    <2> QED BY <2>1, <2>2 DEF PassStep, AddFifo, h
  <1>2. CASE Len(kept) # conf.lookAhead
    <2>1. Step("lookahead", "callback", "put") /\ fifo' = kept
      BY <1>2 DEF AddFifo, Step
    <2>2. Moves("lookahead", "callback", "put")
      BY <1>0, <2>1, ThreadMoves
    <2> QED BY <2>1, <2>2 DEF KeepStep, AddFifo
  <1> QED BY <1>1, <1>2

LEMMA StatusSteps ==
  ASSUME TypeOK, SourcesHeld, NEW e \in Used, StatusThread(e)
  PROVE  \/ QuietStep \/ KeepStep \/ PassStep
         \/ EndStep(e) \/ PutStep(e) \/ BackStep(e) \/ DoneStep(e)
         \/ \E i \in 1 .. Len(enc[e].frames) : (e = "lookahead" => i = 1) /\ SliceStep(e, i)
  <1>0. e \in Encoders /\ e \in Threads
    BY UsedAre, ThreadsAre
  <1>1. CASE Poll(e)
    <2>1. Moves(e, "poll", IF enc[e].shouldContinue THEN "wait" ELSE "ended")
      BY <1>0, <1>1, ThreadMoves DEF Poll
    <2>2. \/ Moves(e, "poll", "wait") /\ enc[e].shouldContinue
          \/ Moves(e, "poll", "ended") /\ ~enc[e].shouldContinue
      BY <2>1
    <2> QED BY <1>1, <2>2 DEF Poll, QuietStep, laVars
  <1>2. CASE WaitFails(e)
    <2>1. Moves(e, "wait", "poll") /\ enc[e].destroyed
      BY <1>0, <1>2, ThreadMoves DEF WaitFails
    <2> QED BY <1>2, <2>1 DEF WaitFails, QuietStep, laVars
  <1>3. CASE WaitSlice(e)
    BY <1>3, SliceActs
  <1>4. CASE WaitEndOfStream(e)
    <2>0. enc' = [enc EXCEPT ![e] = [enc[e] EXCEPT !.eos = "told"]]
      BY <1>4 DEF WaitEndOfStream
    <2>1. Moves(e, "wait", "poll") /\ Calls(e, [enc[e] EXCEPT !.eos = "told"])
      BY <1>0, <1>4, <2>0, ThreadMoves, ContextCalls DEF WaitEndOfStream
    <2> QED BY <1>4, <2>1 DEF WaitEndOfStream, EndStep
  <1>5. CASE PutBack(e)
    <2>1. Step(e, IF e = "lookahead" THEN "put" ELSE "callback", IF th[e].st.last THEN "release" ELSE "unref")
      BY <1>5 DEF PutBack, Step
    <2>2. enc' = [enc EXCEPT ![e] = PutStreamBuffer(enc[e], enc[e].streamSent[th[e].st.stream])]
      BY <1>5 DEF PutBack
    <2>3. /\ Moves(e, IF e = "lookahead" THEN "put" ELSE "callback", IF th[e].st.last THEN "release" ELSE "unref")
          /\ Calls(e, PutStreamBuffer(enc[e], enc[e].streamSent[th[e].st.stream]))
      BY <1>0, <2>1, <2>2, ThreadMoves, ContextCalls
    <2> QED BY <1>5, <2>3 DEF PutBack, PutStep, laVars
  <1>6. CASE ReleaseSource(e)
    <2>1. /\ Moves(e, "release", "releaseTable")
          /\ Calls(e, RemoveSourceSent(enc[e], th[e].st.pic))
      BY <1>0, <1>6, ThreadMoves, ContextCalls DEF ReleaseSource
    <2> QED BY <1>6, <2>1 DEF ReleaseSource, BackStep, laVars
  <1>7. CASE ReleaseTable(e)
    <2>1. Moves(e, "releaseTable", "done")
      BY <1>0, <1>7, ThreadMoves DEF ReleaseTable
    <2> QED BY <1>7, <2>1 DEF ReleaseTable, QuietStep, laVars
  <1>8. CASE PictureDone(e)
    <2>1. Moves(e, "done", "unref") /\ Calls(e, EndOfPicture(enc[e]))
      BY <1>0, <1>8, ThreadMoves, ContextCalls DEF PictureDone
    <2> QED BY <1>8, <2>1 DEF PictureDone, DoneStep, laVars
  <1>9. CASE UnrefStream(e)
    <2>1. Moves(e, "unref", "poll")
      BY <1>0, <1>9, ThreadMoves DEF UnrefStream
    <2> QED BY <1>9, <2>1 DEF UnrefStream, QuietStep, laVars
  <1>10. CASE e = "lookahead" /\ AddFifo
    BY <1>10, FifoActs
  <1> QED BY <1>1, <1>2, <1>3, <1>4, <1>5, <1>6, <1>7, <1>8, <1>9, <1>10 DEF StatusThread

LEMMA WaysAre ==
  /\ Ways("lookahead").a = "stopLookahead" /\ Ways("lookahead").b = "closeLookahead"
  /\ Ways("lookahead").c = "releaseLookahead" /\ Ways("lookahead").d = "stopEncoder"
  /\ Ways("encoder").a = "stopEncoder" /\ Ways("encoder").b = "closeEncoder"
  /\ Ways("encoder").c = "releaseEncoder" /\ Ways("encoder").d = "pools"
  BY ThreadsAre DEF Ways

LEMMA MainSteps ==
  ASSUME TypeOK, ThreadPlaces, Main
  PROVE  QuietStep \/ MainStep \/ \E e \in Encoders : DestroyStep(e) \/ ReleaseStep(e)
  <1>0. "main" \in Threads /\ "encoder" \in Encoders /\ "lookahead" \in Encoders /\ FirstSink \in Encoders
    BY ThreadsAre, UsedAre
  <1>1. CASE GetSource
    <2>0. th["main"].pc = "source" /\ UNCHANGED <<enc, fifo, bEndOfStream, given, refused, eosFinished, hFinished>>
      BY <1>1 DEF GetSource, laVars
    <2>1. CASE srcPool.free = 0
      <3>1. Step("main", "source", "sourceWait") /\ UNCHANGED next
        BY <1>1, <2>1 DEF GetSource, Step
      <3> QED BY <1>0, <2>0, <3>1, ThreadMoves DEF QuietStep
    <2>2. CASE srcPool.free # 0 /\ next \in Pictures
      <3>1. next' = next + 1 /\
              th' = [th EXCEPT !["main"] = [@ EXCEPT !.pc = "table", !.e = FirstSink, !.p = next]]
        BY <1>1, <2>2 DEF GetSource
      <3>2. /\ th'["main"].pc = "table" /\ Only("main")
            /\ th'["main"].e = FirstSink /\ th'["main"].p = next /\ th'["main"].st = th["main"].st
        BY <1>0, <3>1 DEF TypeOK, ThreadStates, Only
      <3> QED BY <2>0, <2>2, <3>1, <3>2 DEF SourceStep, MainStep
    <2>3. CASE srcPool.free # 0 /\ next \notin Pictures
      <3>1. Step("main", "source", "eos") /\ UNCHANGED next
        BY <1>1, <2>3 DEF GetSource, Step
      <3> QED BY <1>0, <2>0, <2>3, <3>1, ThreadMoves DEF QuietStep
    <2> QED BY <2>1, <2>2, <2>3
  <1>2. CASE WaitSource
    BY <1>0, <1>2, ThreadMoves DEF WaitSource, QuietStep, laVars
  <1>3. CASE Unwind
    BY <1>0, <1>3, ThreadMoves DEF Unwind, QuietStep, laVars
  <1>4. CASE EndInput
    BY <1>0, <1>4, ThreadMoves, ContextCalls DEF EndInput, InputStep, MainStep, laVars
  <1>5. CASE LookAheadDone
    BY <1>0, <1>5, ThreadMoves DEF LookAheadDone, QuietStep
  <1>6. CASE EmptyFifo
    <2>1. CASE fifo = <<>>
      <3>1. Step("main", "fifo", "finish") /\ Calls("encoder", EndOfStream(enc["encoder"]))
        BY <1>0, <1>6, <2>1, ContextCalls DEF EmptyFifo, Step
      <3> QED BY <1>0, <1>6, <2>1, <3>1, ThreadMoves DEF EmptyFifo, EmptiedStep, MainStep
    <2>2. CASE fifo # <<>>
      <3> DEFINE h == Head(fifo)
      <3>1. /\ fifo' = Tail(fifo) /\ th["main"].pc = "fifo"
            /\ th' = [th EXCEPT !["main"] = [@ EXCEPT !.pc = "table", !.e = "encoder", !.p = h]]
        BY <1>6, <2>2 DEF EmptyFifo
      <3> HIDE DEF h
      <3>2. /\ th'["main"].pc = "table" /\ Only("main")
            /\ th'["main"].e = "encoder" /\ th'["main"].p = h /\ th'["main"].st = th["main"].st
        BY <1>0, <3>1 DEF TypeOK, ThreadStates, Only
      <3> QED BY <1>6, <2>2, <3>1, <3>2 DEF EmptyFifo, FifoStep, MainStep, h
    <2> QED BY <2>1, <2>2
  <1>7. CASE Finish
    BY <1>0, <1>7, ThreadMoves DEF Finish, QuietStep, laVars
  <1>8. ASSUME NEW e \in Encoders, Stop(e, Ways(e).a, Ways(e).b) PROVE DestroyStep(e)
    BY <1>0, <1>8, ThreadMoves, ContextCalls DEF Stop, DestroyStep, laVars
  <1>9. ASSUME NEW e \in Encoders, Close(e, Ways(e).b, Ways(e).c) PROVE DestroyStep(e)
    BY <1>0, <1>9, ThreadMoves, ContextCalls DEF Close, DestroyStep, laVars
  <1>10. ASSUME NEW e \in Encoders, Release(e, Ways(e).c, Ways(e).d) PROVE ReleaseStep(e)
    BY <1>0, <1>10, ThreadMoves, ContextCalls DEF Release, ReleaseStep, laVars
  <1>11. CASE DestroyPools
    BY <1>0, <1>11, ThreadMoves DEF DestroyPools, QuietStep, laVars
  <1>13. CASE \/ Stop("lookahead", "stopLookahead", "closeLookahead")
              \/ Close("lookahead", "closeLookahead", "releaseLookahead")
              \/ Stop("encoder", "stopEncoder", "closeEncoder")
              \/ Close("encoder", "closeEncoder", "releaseEncoder")
              \/ Release("lookahead", "releaseLookahead", "stopEncoder")
              \/ Release("encoder", "releaseEncoder", "pools")
    <2>1. \/ DestroyStep("lookahead") \/ DestroyStep("encoder")
          \/ ReleaseStep("lookahead") \/ ReleaseStep("encoder")
      BY <1>0, <1>8, <1>9, <1>10, <1>13, WaysAre
    <2> QED BY <1>0, <2>1
  <1> QED BY <1>1, <1>2, <1>3, <1>4, <1>5, <1>6, <1>7, <1>11, <1>13 DEF Main

LEMMA NextSteps ==
  ASSUME TypeOK, ThreadPlaces, SourcesHeld, DriverAccepts, Next
  PROVE  Steps \/ UNCHANGED vars
  <1>1. CASE Main
    BY <1>1, MainSteps DEF Steps
  <1>2. ASSUME NEW e \in Used, StatusThread(e) PROVE Steps
    BY <1>2, StatusSteps DEF Steps
  <1>3. ASSUME NEW t \in Threads, Sink(t) PROVE Steps
    BY <1>3, SinkSteps DEF Steps
  <1> QED BY <1>1, <1>2, <1>3 DEF Next, Ended

LEMMA ConfKept ==
  ASSUME Next PROVE conf' = conf
  <1>1. ASSUME Main PROVE conf' = conf
    BY <1>1 DEF Main, GetSource, WaitSource, Unwind, EndInput, LookAheadDone, EmptyFifo, Finish, Stop,
           Close, Release, DestroyPools
  <1>2. ASSUME NEW e \in Used, StatusThread(e) PROVE conf' = conf
    BY <1>2 DEF StatusThread, Poll, WaitFails, WaitSlice, WaitEndOfStream, PutBack, ReleaseSource,
           ReleaseTable, PictureDone, UnrefStream, AddFifo
  <1>3. ASSUME NEW t \in Threads, Sink(t) PROVE conf' = conf
    BY <1>3 DEF Sink, GetTable, WaitTable, Encode, Refuse, Drop
  <1> QED BY <1>1, <1>2, <1>3 DEF Next, Ended, vars
-----------------------------------------------------------------------------
(* Types *)

LEMMA KindsKept ==
  ASSUME TypeOK, Next
  PROVE  Kinds
  <1> USE DEF TypeOK, Kinds
  <1>0. /\ \A e, x : [enc EXCEPT ![e] = x] = [f \in Encoders |-> [enc EXCEPT ![e] = x][f]]
        /\ enc = [e \in Encoders |-> enc[e]]
    OBVIOUS
  <1>1. ASSUME Main PROVE Kinds
    <2>1. CASE GetSource
      BY <1>0, <2>1 DEF GetSource, laVars
    <2>2. CASE WaitSource \/ Unwind
      BY <1>0, <2>2 DEF WaitSource, Unwind, Step, laVars
    <2>3. CASE EndInput \/ LookAheadDone \/ Finish
      BY <1>0, <2>3 DEF EndInput, LookAheadDone, Finish, Step, laVars
    <2>4. CASE EmptyFifo
      BY <1>0, <2>4 DEF EmptyFifo, Step, laVars
    <2>5. ASSUME NEW e, NEW x, NEW y, Stop(e, x, y) \/ Close(e, x, y) \/ Release(e, x, y) PROVE Kinds
      BY <1>0, <2>5 DEF Stop, Close, Release, Step, laVars
    <2>6. CASE DestroyPools
      <3>1. ok' \in BOOLEAN
        BY <2>6 DEF DestroyPools
      <3> QED BY <1>0, <2>6, <3>1 DEF DestroyPools, Step, laVars
    <2> QED BY <1>1, <2>1, <2>2, <2>3, <2>4, <2>5, <2>6 DEF Main
  <1>2. ASSUME NEW e \in Used, StatusThread(e) PROVE Kinds
    <2>1. CASE Poll(e) \/ WaitFails(e) \/ ReleaseTable(e) \/ UnrefStream(e)
      BY <1>0, <2>1 DEF Poll, WaitFails, ReleaseTable, UnrefStream, Step, laVars
    <2>2. CASE WaitSlice(e)
      BY <1>0, <2>2 DEF WaitSlice, laVars
    <2>3. CASE WaitEndOfStream(e)
      BY <1>0, <2>3 DEF WaitEndOfStream, Step
    <2>4. CASE PutBack(e) \/ ReleaseSource(e) \/ PictureDone(e)
      BY <1>0, <2>4 DEF PutBack, ReleaseSource, PictureDone, Step, laVars
    <2>5. CASE AddFifo
      BY <1>0, <2>5 DEF AddFifo
    <2> QED BY <1>2, <2>1, <2>2, <2>3, <2>4, <2>5 DEF StatusThread
  <1>3. ASSUME NEW t \in Threads, Sink(t) PROVE Kinds
    <2>1. CASE GetTable(t) \/ WaitTable(t) \/ Drop(t)
      BY <1>0, <2>1 DEF GetTable, WaitTable, Drop, Step, laVars
    <2>2. CASE Encode(t) \/ Refuse(t)
      BY <1>0, <2>2 DEF Encode, Refuse, Step, laVars
    <2> QED BY <1>3, <2>1, <2>2 DEF Sink
  <1> QED BY <1>1, <1>2, <1>3 DEF Next, Ended, vars, laVars

\* A thread that takes other work keeps its type.
LEMMA ThreadSet ==
  ASSUME th \in [Threads -> ThreadStates], NEW t \in Threads
  PROVE  /\ \A x \in Places : [th EXCEPT ![t].pc = x] \in [Threads -> ThreadStates]
         /\ \A x \in Places, e \in Encoders, p \in Pictures :
              [th EXCEPT ![t] = [@ EXCEPT !.pc = x, !.e = e, !.p = p]] \in [Threads -> ThreadStates]
         /\ \A x \in Places, s \in Statuses :
              [th EXCEPT ![t] = [@ EXCEPT !.pc = x, !.st = s]] \in [Threads -> ThreadStates]
         /\ \A x \in Places, p \in Pictures :
              [th EXCEPT ![t] = [@ EXCEPT !.pc = x, !.p = p]] \in [Threads -> ThreadStates]
  BY DEF ThreadStates

LEMMA PlacesAre ==
  /\ {"source", "sourceWait", "table", "tableWait", "encode", "dropTable", "thrown", "eos",
      "lookaheadDone", "fifo", "finish", "pools", "end", "poll", "wait", "callback", "put", "release",
      "releaseTable", "done", "unref", "ended", "terminated"} \subseteq Places
  /\ FirstStop \in Places /\ \A t : Return(t) \in Places
  /\ \A e : Ways(e).b \in Places /\ Ways(e).c \in Places /\ Ways(e).d \in Places
  <1>1. FirstStop \in Places /\ \A t : Return(t) \in Places
    BY DEF FirstStop, Return, Places
  <1>2. \A e : Ways(e).b \in Places /\ Ways(e).c \in Places /\ Ways(e).d \in Places
    BY DEF Ways, Places
  <1> QED BY <1>1, <1>2 DEF Places

LEMMA ThreadTypesKept ==
  ASSUME TypeOK, SourcesHeld, Next
  PROVE  th' \in [Threads -> ThreadStates]
  <1> DEFINE Good == th' \in [Threads -> ThreadStates]
  <1>0. th \in [Threads -> ThreadStates] /\ fifo \in Seq(Pictures) /\ enc \in [Encoders -> Contexts]
        /\ conf \in Confs
    BY DEF TypeOK
  <1>a. ASSUME NEW t \in Threads, NEW x \in Places, th' = [th EXCEPT ![t].pc = x] PROVE Good
    BY <1>0, <1>a, ThreadSet
  <1>b. "main" \in Threads /\ \A e \in Used : e \in Threads /\ e \in Encoders
    BY ThreadsAre, UsedAre
  <1>c. ASSUME NEW t \in Threads, NEW y, NEW x \in Places, Step(t, y, x) PROVE Good
    BY <1>a, <1>c DEF Step
  <1> HIDE DEF Good
  <1>1. ASSUME Main PROVE Good
    <2>1. CASE GetSource
      <3>1. ASSUME srcPool.free = 0 PROVE Good
        <4>1. th' = [th EXCEPT !["main"].pc = "sourceWait"]
          BY <2>1, <3>1 DEF GetSource
        <4> QED BY <1>a, <1>b, <4>1, PlacesAre
      <3>2. ASSUME srcPool.free # 0, next \notin Pictures PROVE Good
        <4>1. th' = [th EXCEPT !["main"].pc = "eos"]
          BY <2>1, <3>2 DEF GetSource
        <4> QED BY <1>a, <1>b, <4>1, PlacesAre
      <3>3. ASSUME srcPool.free # 0, next \in Pictures PROVE Good
        <4>1. th' = [th EXCEPT !["main"] = [@ EXCEPT !.pc = "table", !.e = FirstSink, !.p = next]]
          BY <2>1, <3>3 DEF GetSource
        <4>2. FirstSink \in Encoders
          BY UsedAre
        <4> QED BY <1>0, <1>b, <3>3, <4>1, <4>2, ThreadSet, PlacesAre DEF Good
      <3> QED BY <3>1, <3>2, <3>3
    <2>2. CASE WaitSource \/ Unwind
      BY <1>b, <1>c, <2>2, PlacesAre DEF WaitSource, Unwind
    <2>3. CASE EndInput
      <3>1. CASE HasLookAhead
        BY <1>b, <1>c, <2>3, <3>1, PlacesAre DEF EndInput
      <3>2. CASE ~HasLookAhead
        BY <1>b, <1>c, <2>3, <3>2, PlacesAre DEF EndInput
      <3> QED BY <3>1, <3>2
    <2>8. CASE LookAheadDone \/ Finish
      BY <1>b, <1>c, <2>8, PlacesAre DEF LookAheadDone, Finish
    <2>4. CASE EmptyFifo
      <3>1. ASSUME fifo = <<>> PROVE Good
        <4>1. th' = [th EXCEPT !["main"].pc = "finish"]
          BY <2>4, <3>1 DEF EmptyFifo
        <4> QED BY <1>a, <1>b, <4>1, PlacesAre
      <3>2. ASSUME fifo # <<>> PROVE Good
        <4> DEFINE h == Head(fifo)
        <4>1. th' = [th EXCEPT !["main"] = [@ EXCEPT !.pc = "table", !.e = "encoder", !.p = h]]
          BY <2>4, <3>2 DEF EmptyFifo
        <4>2. h \in Pictures
          BY <1>0, <3>2, SeqHead
        <4> HIDE DEF h
        <4> QED BY <1>0, <1>b, <4>1, <4>2, ThreadsAre, ThreadSet, PlacesAre DEF Good
      <3> QED BY <3>1, <3>2
    <2>5. ASSUME NEW e \in Encoders, \/ Stop(e, Ways(e).a, Ways(e).b) \/ Close(e, Ways(e).b, Ways(e).c)
                                    \/ Release(e, Ways(e).c, Ways(e).d)
          PROVE  Good
      BY <1>b, <1>c, <2>5, PlacesAre DEF Stop, Close, Release
    <2>6. CASE DestroyPools
      BY <1>b, <1>c, <2>6, PlacesAre DEF DestroyPools
    <2>7. CASE \/ Stop("lookahead", "stopLookahead", "closeLookahead")
              \/ Close("lookahead", "closeLookahead", "releaseLookahead")
              \/ Stop("encoder", "stopEncoder", "closeEncoder")
              \/ Close("encoder", "closeEncoder", "releaseEncoder")
              \/ Release("lookahead", "releaseLookahead", "stopEncoder")
              \/ Release("encoder", "releaseEncoder", "pools")
      BY <2>5, <2>7, ThreadsAre, WaysAre
    <2> QED BY <1>1, <2>1, <2>2, <2>3, <2>4, <2>6, <2>7, <2>8 DEF Main
  <1>2. ASSUME NEW e \in Used, StatusThread(e) PROVE Good
    <2>0. e \in Threads /\ e \in Encoders
      BY <1>b
    <2>1. CASE Poll(e)
      BY <1>c, <2>0, <2>1, PlacesAre DEF Poll
    <2>6. CASE WaitFails(e) \/ ReleaseTable(e) \/ UnrefStream(e)
      BY <1>c, <2>0, <2>6, PlacesAre DEF WaitFails, ReleaseTable, UnrefStream
    <2>2. CASE WaitSlice(e)
      <3>1. PICK i \in Encodable(enc[e], NumB(e)) :
              LET done == SliceDone(enc[e], i, conf.numSlices)
              IN  /\ enc' = [enc EXCEPT ![e] = ReceiveStream(done.ctx, done.status.stream)]
                  /\ th' = [th EXCEPT ![e] = [@ EXCEPT !.pc = "callback", !.st = done.status]]
        BY <2>2 DEF WaitSlice
      <3> DEFINE s == SliceDone(enc[e], i, conf.numSlices).status
      <3>2. i \in 1 .. Len(enc[e].frames)
        BY <2>0, EncodableIs
      <3>3. s \in Statuses
        <4>1. enc[e] \in Contexts /\ enc[e].streams # <<>> /\ conf.numSlices \in Nat
          BY <1>0, <2>0, <2>2, SettingsAre DEF WaitSlice
        <4> QED BY <3>2, <4>1, SliceReceivedIs
      <3>4. th' = [th EXCEPT ![e] = [@ EXCEPT !.pc = "callback", !.st = s]]
        BY <3>1
      <3> HIDE DEF s
      <3> QED BY <1>0, <2>0, <3>3, <3>4, ThreadSet, PlacesAre DEF Good
    <2>3. CASE WaitEndOfStream(e)
      BY <1>c, <2>0, <2>3, PlacesAre DEF WaitEndOfStream
    <2>4. CASE PutBack(e)
      <3>1. th' = [th EXCEPT ![e].pc = IF th[e].st.last THEN "release" ELSE "unref"]
        BY <2>4 DEF PutBack
      <3>2. th' = [th EXCEPT ![e].pc = "release"] \/ th' = [th EXCEPT ![e].pc = "unref"]
        BY <3>1
      <3> QED BY <1>a, <2>0, <3>2, PlacesAre
    <2>7. CASE ReleaseSource(e) \/ PictureDone(e)
      BY <1>c, <2>0, <2>7, PlacesAre DEF ReleaseSource, PictureDone
    <2>5. CASE e = "lookahead" /\ AddFifo
      <3> DEFINE kept == Append(fifo, th["lookahead"].st.pic)
                 h == Head(kept)
      <3>0. "lookahead" \in Threads /\ "lookahead" \in Encoders
        BY ThreadsAre
      <3>1. CASE Len(kept) = conf.lookAhead
        <4>1. th' = [th EXCEPT !["lookahead"] = [@ EXCEPT !.pc = "table", !.p = h]]
              /\ th["lookahead"].pc = "callback"
          BY <2>5, <3>1 DEF AddFifo
        <4>2. th["lookahead"].st.pic \in Pictures
          <5>1. InCallback("lookahead")
            BY <4>1 DEF InCallback
          <5>2. th["lookahead"].st.pic >= 1
            BY <3>0, <5>1 DEF SourcesHeld
          <5>3. th["lookahead"].st.pic \in Pictures \cup {0}
            BY <1>0, <3>0 DEF ThreadStates, Statuses
          <5> QED BY <5>2, <5>3
        <4>3. h \in Pictures
          <5>1. kept \in Seq(Pictures) /\ Len(kept) = Len(fifo) + 1 /\ Len(fifo) \in Nat
            BY <1>0, <4>2, SeqEnd
          <5>2. kept # <<>>
            BY <5>1, EmptySeq
          <5> QED BY <5>1, <5>2, SeqHead
        <4> HIDE DEF h
        <4> QED BY <1>0, <3>0, <4>1, <4>3, ThreadSet, PlacesAre DEF Good
      <3>2. CASE Len(kept) # conf.lookAhead
        <4>1. th' = [th EXCEPT !["lookahead"].pc = "put"]
          BY <2>5, <3>2 DEF AddFifo
        <4> QED BY <1>a, <3>0, <4>1, PlacesAre
      <3> QED BY <3>1, <3>2
    <2> QED BY <1>2, <2>1, <2>2, <2>3, <2>4, <2>5, <2>6, <2>7 DEF StatusThread
  <1>3. ASSUME NEW t \in Threads, Sink(t) PROVE Good
    <2>1. CASE GetTable(t)
      <3>1. th' = [th EXCEPT ![t].pc = "encode"] \/ th' = [th EXCEPT ![t].pc = "tableWait"]
        BY <2>1 DEF GetTable
      <3> QED BY <1>a, <3>1, PlacesAre
    <2>2. CASE WaitTable(t) \/ Drop(t) \/ Encode(t)
      BY <1>c, <2>2, PlacesAre DEF WaitTable, Drop, Encode
    <2>3. CASE Refuse(t)
      <3>1. Step(t, "encode", "thrown") \/ Step(t, "encode", "terminated")
        BY <2>3 DEF Refuse
      <3> QED BY <1>c, <3>1, PlacesAre
    <2> QED BY <1>3, <2>1, <2>2, <2>3 DEF Sink
  <1>4. ASSUME th' = th PROVE Good
    BY <1>0, <1>4 DEF Good
  <1> QED BY <1>1, <1>2, <1>3, <1>4 DEF Next, Ended, vars, Good

\* A step on one context keeps the types of the contexts.
LEMMA ContextTypes ==
  ASSUME TypeOK, Kinds, NEW e \in Encoders, NEW d \in Contexts, Calls(e, d)
  PROVE  enc' \in [Encoders -> Contexts]
  <1>1. \A f \in Encoders : enc'[f] \in Contexts
    BY DEF TypeOK, Calls
  <1> QED BY <1>1 DEF Kinds
-----------------------------------------------------------------------------
(* The life of an encoder *)

\* The numbers of the invariant are natural numbers.
LEMMA NumbersAre ==
  ASSUME TypeOK
  PROVE  /\ Len(given) \in Nat /\ Len(fifo) \in Nat /\ OnTheWay \in Nat /\ Reported \in Nat
         /\ \A e \in Encoders :
               Len(enc[e].frames) \in Nat /\ Len(enc[e].streams) \in Nat /\ Accepted(e) \in Nat
         /\ \A b : One(b) \in {0, 1} /\ (b => One(b) = 1) /\ (~b => One(b) = 0)
         /\ next \in Nat /\ refused \in Nat
  <1>1. Len(given) \in Nat /\ Len(fifo) \in Nat
    BY LenProperties DEF TypeOK
  <1>2. \A b : One(b) \in {0, 1} /\ (b => One(b) = 1) /\ (~b => One(b) = 0)
    BY DEF One
  <1>3. \A e \in Encoders : Len(enc[e].frames) \in Nat /\ Len(enc[e].streams) \in Nat
    BY ContextIs, LenProperties DEF TypeOK
  <1> HIDE DEF One
  <1>4. OnTheWay \in Nat /\ Reported \in Nat
    BY <1>1, <1>2 DEF OnTheWay, Reported
  <1>5. \A e \in Encoders : Accepted(e) \in Nat
    BY <1>1, <1>3, <1>4, ThreadsAre DEF Accepted
  <1> QED BY <1>1, <1>2, <1>3, <1>4, <1>5 DEF TypeOK

\* What is about to be passed to an encoder is the first picture it has not accepted.
LEMMA Fresh ==
  ASSUME TypeOK, ThreadPlaces, Refusals, PicturesInOrder, SourcesHeld,
         NEW t \in Threads, NEW e \in Encoders, Before(t, e)
  PROVE  th[t].p \in Pictures /\ th[t].p = Accepted(e) + 1 /\ ~enc[e].sourceSent[th[t].p]
  <1> DEFINE p == th[t].p
  <1>1. Passing(t) /\ th[t].e = e /\ p \in Pictures
    BY DEF Passing, Before, ThreadPlaces
  <1>2. p = Accepted(e) + 1
    <2>1. CASE e = "encoder"
      BY <2>1 DEF PicturesInOrder, Accepted
    <2>2. CASE e = "lookahead"
      <3>1. t = "main"
        BY <1>1, <2>2, ThreadsAre DEF ThreadPlaces, Passing
      <3>2. HasLookAhead
        BY <1>1, <2>2, <3>1 DEF ThreadPlaces
      <3>3. refused = 0 /\ p = next - 1 /\ next - 1 = Accepted("lookahead") + One(Before("main", "lookahead")) + refused
        BY <2>2, <3>1, <3>2 DEF Refusals, PicturesInOrder
      <3>4. Accepted("lookahead") \in Nat /\ One(Before("main", "lookahead")) = 1
        BY <2>2, <3>1, NumbersAre, ThreadsAre
      <3> QED BY <2>2, <3>3, <3>4
    <2> QED BY <2>1, <2>2, ThreadsAre
  <1>3. SUFFICES ASSUME enc[e].sourceSent[p] PROVE FALSE
    BY <1>1, <1>2
  <1>4. Accepted(e) \in Nat
    BY NumbersAre
  <1>5. CASE \E i \in DOMAIN enc[e].frames : enc[e].frames[i] = p
    BY <1>2, <1>4, <1>5 DEF SourcesHeld
  <1>6. CASE Finishing(e) /\ th[e].st.pic = p
    <2>1. InCallback(e)
      BY <1>6 DEF Finishing, InCallback, BeforePut
    <2> QED BY <1>2, <1>4, <1>6, <2>1 DEF SourcesHeld
  <1> QED BY <1>1, <1>3, <1>5, <1>6 DEF SourcesHeld

\* The contexts keep their types.
LEMMA ContextsKept ==
  ASSUME EncoderInv, Kinds, Steps
  PROVE  enc' \in [Encoders -> Contexts]
  <1> DEFINE Good == enc' \in [Encoders -> Contexts]
  <1>0. TypeOK /\ ThreadPlaces /\ SourcesHeld /\ Refusals /\ PicturesInOrder /\ RingOfStreams
    BY DEF EncoderInv
  <1>1. enc \in [Encoders -> Contexts] /\ conf \in Confs
    BY <1>0 DEF TypeOK
  <1>2. ASSUME enc' = enc PROVE Good
    BY <1>1, <1>2
  <1>3. ASSUME NEW e \in Encoders, NEW d \in Contexts, Calls(e, d) PROVE Good
    BY <1>0, <1>3, ContextTypes
  <1>4. \A e \in Used : e \in Encoders /\ e \in Threads
    BY UsedAre, ThreadsAre
  <1>5. "encoder" \in Encoders /\ "main" \in Threads /\ FirstSink \in Encoders
    BY UsedAre, ThreadsAre
  <1>6. CASE QuietStep \/ KeepStep \/ PassStep
    BY <1>2, <1>6 DEF QuietStep, KeepStep, PassStep
  <1>7. CASE MainStep
    <2>1. CASE SourceStep \/ FifoStep
      BY <1>2, <2>1 DEF SourceStep, FifoStep
    <2>2. ASSUME NEW e \in Encoders, Calls(e, EndOfStream(enc[e])) PROVE Good
      <3>1. EndOfStream(enc[e]) \in Contexts
        BY <1>1, EndOfStreamIs
      <3> QED BY <1>3, <2>2, <3>1
    <2> QED BY <1>5, <1>7, <2>1, <2>2 DEF MainStep, InputStep, EmptiedStep
  <1>8. CASE RefuseStep
    <2> DEFINE p == th["main"].p
    <2>1. p \in Pictures /\ ~enc["encoder"].sourceSent[p]
      <3>1. Before("main", "encoder")
        BY <1>8 DEF RefuseStep, Moves, Before
      <3> QED BY <1>0, <1>5, <3>1, Fresh
    <2>2. EncodeRefused(enc["encoder"], p) \in Contexts
      BY <1>1, <1>5, <2>1, EncodeRefusedIs
    <2> QED BY <1>3, <1>5, <1>8, <2>2 DEF RefuseStep
  <1>9. ASSUME NEW t \in Threads, EncodeStep(t) PROVE Good
    <2>1. th[t].e \in Encoders /\ th[t].p \in Pictures
      BY <1>0, <1>9 DEF EncodeStep, Moves, TypeOK, ThreadStates, ThreadPlaces, Passing
    <2>2. EncodeOneFrame(enc[th[t].e], th[t].p) \in Contexts
      BY <1>1, <2>1, EncodeOneFrameIs
    <2> QED BY <1>3, <1>9, <2>1, <2>2 DEF EncodeStep
  <1>10. ASSUME NEW e \in Encoders, DestroyStep(e) \/ ReleaseStep(e) PROVE Good
    <2>1. /\ StopWaiting(enc[e]) \in Contexts /\ DestroyChannel(enc[e]) \in Contexts
          /\ ReleaseAll(enc[e]) \in Contexts
      BY <1>1, StopIs, ReleaseAllIs
    <2> QED BY <1>3, <1>10, <2>1 DEF DestroyStep, ReleaseStep
  <1>11. ASSUME NEW e \in Used, EndStep(e) \/ DoneStep(e) PROVE Good
    <2>1. [enc[e] EXCEPT !.eos = "told"] \in Contexts /\ EndOfPicture(enc[e]) \in Contexts
      BY <1>1, <1>4, EndOfStreamIs, EndOfPictureIs
    <2> QED BY <1>3, <1>4, <1>11, <2>1 DEF EndStep, DoneStep
  <1>12. ASSUME NEW e \in Used, PutStep(e) PROVE Good
    <2>1. InCallback(e)
      BY <1>12 DEF PutStep, Moves, InCallback
    <2>2. enc[e].streamSent[th[e].st.stream] \in Streams
      BY <1>0, <1>4, <2>1 DEF RingOfStreams
    <2>3. PutStreamBuffer(enc[e], enc[e].streamSent[th[e].st.stream]) \in Contexts
      BY <1>1, <1>4, <2>2, PutStreamBufferIs
    <2> QED BY <1>3, <1>4, <1>12, <2>3 DEF PutStep
  <1>13. ASSUME NEW e \in Used, BackStep(e) PROVE Good
    <2>1. InCallback(e)
      BY <1>13 DEF BackStep, Moves, InCallback
    <2>2. th[e].st.pic \in Pictures
      <3>1. th[e].st.pic >= 1
        BY <1>0, <1>4, <2>1 DEF SourcesHeld
      <3>2. th[e].st.pic \in Pictures \cup {0}
        BY <1>0, <1>4 DEF TypeOK, ThreadStates, Statuses
      <3> QED BY <3>1, <3>2
    <2>3. RemoveSourceSent(enc[e], th[e].st.pic) \in Contexts
      BY <1>1, <1>4, <2>2, RemoveSourceSentIs
    <2> QED BY <1>3, <1>4, <1>13, <2>3 DEF BackStep
  <1>14. ASSUME NEW e \in Used, NEW i \in 1 .. Len(enc[e].frames), SliceStep(e, i) PROVE Good
    <2> DEFINE done == SliceDone(enc[e], i, conf.numSlices)
               d == ReceiveStream(done.ctx, done.status.stream)
    <2>1. d \in Contexts
      <3>1. enc[e] \in Contexts /\ conf.numSlices \in Nat /\ enc[e].streams # <<>>
        BY <1>1, <1>4, <1>14, SettingsAre DEF SliceStep
      <3> QED BY <3>1, SliceReceivedIs
    <2>2. Calls(e, d)
      BY <1>14 DEF SliceStep
    <2> HIDE DEF d
    <2> QED BY <1>3, <1>4, <2>1, <2>2
  <1> QED BY <1>6, <1>7, <1>8, <1>9, <1>10, <1>11, <1>12, <1>13, <1>14 DEF Steps, Good
-----------------------------------------------------------------------------
(* What each step does to the context of the encoder it is about *)

LEMMA EncodeFacts ==
  ASSUME EncoderInv, NEW t \in Threads, EncodeStep(t)
  PROVE  LET e == th[t].e
             p == th[t].p
             c == enc[e]
             d == enc'[e]
         IN  /\ e \in Encoders /\ p \in Pictures /\ Others(e)
             /\ SameRing(c, d) /\ SameLife(c, d) /\ SameEnd(c, d) /\ d.slice = c.slice
             /\ d.permits = c.permits - 1 /\ d.poolIds = c.poolIds - 1 /\ c.permits > 0
             /\ d.sourceSent = [c.sourceSent EXCEPT ![p] = TRUE] /\ ~c.sourceSent[p]
             /\ d.frames = Append(c.frames, p)
             /\ d.ok <=> c.ok /\ c.poolIds > 0 /\ Cardinality(SourcesSent(c)) < MaxSource
  <1>0. TypeOK /\ ThreadPlaces /\ SourcesHeld /\ Refusals /\ PicturesInOrder
    BY DEF EncoderInv
  <1> DEFINE e == th[t].e
  <1>1. e \in Encoders /\ Before(t, e)
    BY <1>0 DEF EncodeStep, Moves, Before, TypeOK, ThreadStates
  <1>2. th[t].p \in Pictures /\ ~enc[e].sourceSent[th[t].p]
    BY <1>0, <1>1, Fresh
  <1>3. enc[e] \in Contexts /\ enc'[e] = EncodeOneFrame(enc[e], th[t].p) /\ enc[e].permits > 0 /\ Others(e)
    BY <1>0, <1>1 DEF TypeOK, EncodeStep, Calls, Others
  <1> HIDE DEF e
  <1>4. LET p == th[t].p
            c == enc[e]
            d == enc'[e]
         IN  /\ SameRing(c, d) /\ SameLife(c, d) /\ SameEnd(c, d) /\ d.slice = c.slice
             /\ d.permits = c.permits - 1 /\ d.poolIds = c.poolIds - 1
             /\ d.sourceSent = [c.sourceSent EXCEPT ![p] = TRUE]
             /\ d.frames = Append(c.frames, p)
             /\ d.ok <=> c.ok /\ c.poolIds > 0 /\ Cardinality(SourcesSent(c)) < MaxSource
    <2>1. ASSUME NEW c \in Contexts, NEW p \in Pictures, NEW d, d = EncodeOneFrame(c, p)
          PROVE  /\ SameRing(c, d) /\ SameLife(c, d) /\ SameEnd(c, d) /\ d.slice = c.slice
                 /\ d.permits = c.permits - 1 /\ d.poolIds = c.poolIds - 1
                 /\ d.sourceSent = [c.sourceSent EXCEPT ![p] = TRUE]
                 /\ d.frames = Append(c.frames, p)
                 /\ d.ok <=> c.ok /\ c.poolIds > 0 /\ Cardinality(SourcesSent(c)) < MaxSource
      BY <2>1, EncodeOneFrameIs
    <2> QED BY <1>2, <1>3, <2>1
  <1> QED BY <1>1, <1>2, <1>3, <1>4 DEF e

LEMMA RefuseFacts ==
  ASSUME EncoderInv, RefuseStep
  PROVE  LET c == enc["encoder"]
             d == enc'["encoder"]
         IN  /\ Others("encoder") /\ SameRing(c, d) /\ SameLife(c, d) /\ SameEnd(c, d)
             /\ SameFrames(c, d) /\ SameSources(c, d)
             /\ d.permits = c.permits - 1 /\ d.poolIds = c.poolIds - 1 /\ c.permits > 0
             /\ d.ok <=> c.ok /\ c.poolIds > 0 /\ Cardinality(SourcesSent(c)) < MaxSource
  <1>0. TypeOK /\ ThreadPlaces /\ SourcesHeld /\ Refusals /\ PicturesInOrder
    BY DEF EncoderInv
  <1>1. Before("main", "encoder") /\ "main" \in Threads /\ "encoder" \in Encoders
    BY ThreadsAre DEF RefuseStep, Moves, Before
  <1>2. th["main"].p \in Pictures /\ ~enc["encoder"].sourceSent[th["main"].p]
    BY <1>0, <1>1, Fresh
  <1>3. /\ enc["encoder"] \in Contexts /\ enc["encoder"].permits > 0 /\ Others("encoder")
        /\ enc'["encoder"] = EncodeRefused(enc["encoder"], th["main"].p)
    BY <1>0, <1>1 DEF TypeOK, RefuseStep, Calls, Others
  <1> QED BY <1>2, <1>3, EncodeRefusedIs

LEMMA EndFacts ==
  ASSUME TypeOK, NEW e \in Encoders, EndCalls(e)
  PROVE  LET c == enc[e]
             d == enc'[e]
         IN  /\ Others(e) /\ SameRing(c, d) /\ SameLife(c, d) /\ SameFrames(c, d) /\ SameSources(c, d)
             /\ SamePermits(c, d) /\ SameOk(c, d)
             /\ (Calls(e, EndOfStream(enc[e])) => d.eos = "asked")
             /\ (Calls(e, [enc[e] EXCEPT !.eos = "told"]) => d.eos = "told")
  <1>1. enc[e] \in Contexts
    BY DEF TypeOK
  <1>2. Others(e) /\ enc'[e] \in {EndOfStream(enc[e]), [enc[e] EXCEPT !.eos = "told"]}
    BY DEF EndCalls, Calls, Others
  <1>3. (Calls(e, EndOfStream(enc[e])) => enc'[e] = EndOfStream(enc[e]))
        /\ (Calls(e, [enc[e] EXCEPT !.eos = "told"]) => enc'[e] = [enc[e] EXCEPT !.eos = "told"])
    BY DEF Calls
  <1> QED BY <1>1, <1>2, <1>3, EndOfStreamIs

LEMMA DestroyFacts ==
  ASSUME TypeOK, NEW e \in Encoders, DestroyStep(e)
  PROVE  LET c == enc[e]
             d == enc'[e]
         IN  /\ Others(e) /\ SameRing(c, d) /\ SameEnd(c, d) /\ SameFrames(c, d) /\ SameSources(c, d)
             /\ SamePermits(c, d) /\ SameOk(c, d)
             /\ \/ Moves("main", Ways(e).a, Ways(e).b) /\ ~d.shouldContinue /\ d.destroyed = c.destroyed
                \/ Moves("main", Ways(e).b, Ways(e).c) /\ d.shouldContinue = c.shouldContinue /\ d.destroyed
  <1>1. enc[e] \in Contexts
    BY DEF TypeOK
  <1>2. /\ Others(e)
        /\ \/ Moves("main", Ways(e).a, Ways(e).b) /\ enc'[e] = StopWaiting(enc[e])
           \/ Moves("main", Ways(e).b, Ways(e).c) /\ enc'[e] = DestroyChannel(enc[e])
    BY DEF DestroyStep, Calls, Others
  <1>3. enc'[e] \in {StopWaiting(enc[e]), DestroyChannel(enc[e])}
    BY <1>2
  <1> QED BY <1>1, <1>2, <1>3, StopIs

LEMMA ReleaseFacts ==
  ASSUME TypeOK, NEW e \in Encoders, ReleaseStep(e)
  PROVE  LET c == enc[e]
             d == enc'[e]
         IN  /\ Others(e) /\ SameLife(c, d) /\ SameEnd(c, d) /\ SameFrames(c, d) /\ SamePermits(c, d)
             /\ SameOk(c, d) /\ d.sourceSent = [p \in Pictures |-> FALSE]
             /\ d.curStreamRecv = c.curStreamSent /\ d.curStreamSent = c.curStreamSent
  <1>1. enc[e] \in Contexts /\ Others(e) /\ enc'[e] = ReleaseAll(enc[e])
    BY DEF TypeOK, ReleaseStep, Calls, Others
  <1> QED BY <1>1, ReleaseAllIs

LEMMA PutFacts ==
  ASSUME TypeOK, RingOfStreams, NEW e \in Encoders, PutStep(e)
  PROVE  LET c == enc[e]
             d == enc'[e]
             s == c.streamSent[th[e].st.stream]
         IN  /\ Others(e) /\ SameLife(c, d) /\ SameEnd(c, d) /\ SameFrames(c, d) /\ SameSources(c, d)
             /\ SamePermits(c, d) /\ SameOk(c, d) /\ s \in Streams
             /\ d.streamSent = [c.streamSent EXCEPT ![c.curStreamSent] = s]
             /\ d.curStreamSent = (c.curStreamSent + 1) % MaxStream
             /\ d.curStreamRecv = c.curStreamRecv
             /\ d.streams = Append(c.streams, c.curStreamSent)
  <1> DEFINE s == enc[e].streamSent[th[e].st.stream]
  <1>1. enc[e] \in Contexts /\ Others(e) /\ enc'[e] = PutStreamBuffer(enc[e], s)
    BY DEF TypeOK, PutStep, Calls, Others
  <1>2. s \in Streams
    BY DEF RingOfStreams, PutStep, Moves, InCallback
  <1> HIDE DEF s
  <1>3. LET c == enc[e]
             d == enc'[e]
         IN  /\ SameLife(c, d) /\ SameEnd(c, d) /\ SameFrames(c, d) /\ SameSources(c, d)
             /\ SamePermits(c, d) /\ SameOk(c, d)
             /\ d.streamSent = [c.streamSent EXCEPT ![c.curStreamSent] = s]
             /\ d.curStreamSent = (c.curStreamSent + 1) % MaxStream
             /\ d.curStreamRecv = c.curStreamRecv
             /\ d.streams = Append(c.streams, c.curStreamSent)
    BY <1>1, <1>2, PutStreamBufferIs
  <1> QED BY <1>1, <1>2, <1>3 DEF s

LEMMA BackFacts ==
  ASSUME TypeOK, SourcesHeld, NEW e \in Encoders, BackStep(e)
  PROVE  LET c == enc[e]
             d == enc'[e]
             p == th[e].st.pic
         IN  /\ Others(e) /\ SameRing(c, d) /\ SameLife(c, d) /\ SameEnd(c, d) /\ SameFrames(c, d)
             /\ SamePermits(c, d) /\ p \in Pictures
             /\ d.sourceSent = [c.sourceSent EXCEPT ![p] = FALSE]
             /\ d.ok <=> c.ok /\ c.sourceSent[p]
  <1> DEFINE p == th[e].st.pic
  <1>1. enc[e] \in Contexts /\ Others(e) /\ enc'[e] = RemoveSourceSent(enc[e], p)
    BY DEF TypeOK, BackStep, Calls, Others
  <1>2. InCallback(e) /\ e \in Threads
    BY ThreadsAre DEF BackStep, Moves, InCallback
  <1>3. p \in 1 .. Accepted(e) /\ p \in Pictures \cup {0}
    BY <1>2 DEF SourcesHeld, TypeOK, ThreadStates, Statuses
  <1>4. p \in Pictures
    BY <1>3, NumbersAre
  <1> QED BY <1>1, <1>4, RemoveSourceSentIs

LEMMA DoneFacts ==
  ASSUME TypeOK, NEW e \in Encoders, DoneStep(e)
  PROVE  LET c == enc[e]
             d == enc'[e]
         IN  /\ Others(e) /\ SameRing(c, d) /\ SameLife(c, d) /\ SameEnd(c, d) /\ SameFrames(c, d)
             /\ SameSources(c, d) /\ SameOk(c, d)
             /\ d.permits = c.permits + 1 /\ d.poolIds = c.poolIds + 1
  <1>1. enc[e] \in Contexts /\ Others(e) /\ enc'[e] = EndOfPicture(enc[e])
    BY DEF TypeOK, DoneStep, Calls, Others
  <1> QED BY <1>1, EndOfPictureIs

LEMMA SliceFacts ==
  ASSUME TypeOK, NEW e \in Encoders, NEW i \in 1 .. Len(enc[e].frames), SliceStep(e, i)
  PROVE  LET c == enc[e]
             d == enc'[e]
             st == th'[e].st
             n == conf.numSlices
         IN  /\ Others(e) /\ SameLife(c, d) /\ SameEnd(c, d) /\ SamePermits(c, d) /\ SameSources(c, d)
             /\ c.streams # <<>> /\ ~c.destroyed
             /\ st \in Statuses /\ st.pic = c.frames[i] /\ st.stream = Head(c.streams)
             /\ st.last = (c.slice + 1 = n)
             /\ d.streamSent = c.streamSent /\ d.streams = Tail(c.streams)
             /\ d.curStreamSent = c.curStreamSent
             /\ d.curStreamRecv = (c.curStreamRecv + 1) % MaxStream
             /\ d.slice = (IF c.slice + 1 = n THEN 0 ELSE c.slice + 1)
             /\ d.frames = (IF c.slice + 1 = n THEN RemoveAt(c.frames, i)
                            ELSE <<c.frames[i]>> \o RemoveAt(c.frames, i))
             /\ d.ok <=> c.ok /\ c.curStreamRecv = Head(c.streams)
  <1> DEFINE c == enc[e]
             n == conf.numSlices
             done == SliceDone(c, i, n)
             d == ReceiveStream(done.ctx, done.status.stream)
  <1>1. c \in Contexts /\ n \in Nat
    BY SettingsAre DEF TypeOK
  <1>2. Others(e) /\ enc'[e] = d /\ th'[e].st = done.status /\ c.streams # <<>> /\ ~c.destroyed
    BY DEF SliceStep, Calls, Others
  <1>3. i \in 1 .. Len(c.frames)
    OBVIOUS
  <1> HIDE DEF c, n
  <1>4. /\ d \in Contexts /\ done.status \in Statuses
             /\ SameLife(c, d) /\ SameEnd(c, d) /\ SamePermits(c, d) /\ SameSources(c, d)
             /\ done.status.pic = c.frames[i] /\ done.status.stream = Head(c.streams)
             /\ done.status.last = (c.slice + 1 = n)
             /\ d.streamSent = c.streamSent /\ d.streams = Tail(c.streams)
             /\ d.curStreamSent = c.curStreamSent
             /\ d.curStreamRecv = (c.curStreamRecv + 1) % MaxStream
             /\ d.slice = (IF c.slice + 1 = n THEN 0 ELSE c.slice + 1)
             /\ d.frames = (IF c.slice + 1 = n THEN RemoveAt(c.frames, i)
                            ELSE <<c.frames[i]>> \o RemoveAt(c.frames, i))
             /\ (d.ok <=> c.ok /\ c.curStreamRecv = Head(c.streams))
    BY <1>1, <1>2, <1>3, SliceReceivedIs
  <1> HIDE DEF d, done
  <1> QED BY <1>2, <1>4 DEF c, n
-----------------------------------------------------------------------------
(* Who is where *)

LEMMA SettingsKept ==
  ASSUME conf' = conf
  PROVE  /\ HasLookAhead' = HasLookAhead /\ Used' = Used /\ FirstSink' = FirstSink
         /\ FirstStop' = FirstStop
         /\ \A e : NumB(e)' = NumB(e) /\ StreamsOf(e)' = StreamsOf(e)
  BY DEF HasLookAhead, Used, FirstSink, FirstStop, NumB, StreamsOf, One

\* Without LookAhead nothing happens to its encoder, its thread and its FIFO.
LEMMA LookAheadUnused ==
  ASSUME EncoderInv, Steps, ~HasLookAhead
  PROVE  enc'["lookahead"] = enc["lookahead"] /\ th'["lookahead"] = th["lookahead"] /\ fifo' = fifo
  <1>0. TypeOK /\ ThreadPlaces
    BY DEF EncoderInv
  <1>1. th["lookahead"].pc = "poll" /\ fifo = <<>> /\ Used = {"encoder"} /\ FirstSink = "encoder"
    BY <1>0 DEF ThreadPlaces, Idle, Used, FirstSink
  <1>2. th["main"].pc \notin {"lookaheadDone", "fifo", "stopLookahead", "closeLookahead", "releaseLookahead"}
    BY <1>0 DEF ThreadPlaces
  <1>3. Passing("main") => th["main"].e = "encoder"
    BY <1>0, ThreadsAre DEF ThreadPlaces, TypeOK, ThreadStates
  <1>4. ASSUME NEW t \in Threads, NEW x, NEW y, Moves(t, x, y), x # "poll"
        PROVE  th'["lookahead"] = th["lookahead"]
    BY <1>1, <1>4, ThreadsAre DEF Moves, Only
  <1>5. ASSUME NEW d, Calls("encoder", d) PROVE enc'["lookahead"] = enc["lookahead"]
    BY <1>5, ThreadsAre DEF Calls
  <1>6. CASE QuietStep
    <2>1. CASE \E e \in Used : \/ Moves(e, "poll", "wait") \/ Moves(e, "poll", "ended")
      BY <1>1, <1>6, <2>1, ThreadsAre DEF QuietStep, Moves, Only
    <2>2. CASE \E e \in Used : \/ Moves(e, "wait", "poll") \/ Moves(e, "releaseTable", "done")
                               \/ Moves(e, "unref", "poll")
      BY <1>1, <1>6, <2>2, ThreadsAre DEF QuietStep, Moves, Only
    <2>3. CASE \E t \in Threads, w \in Waits : Moves(t, w[1], w[2])
      <3>1. PICK t \in Threads, w \in Waits : Moves(t, w[1], w[2])
        BY <2>3
      <3>2. w[1] # "poll"
        BY DEF Waits
      <3> QED BY <1>4, <1>6, <3>1, <3>2 DEF QuietStep
    <2>4. CASE \E t \in Threads : Moves(t, "dropTable", Return(t))
      BY <1>4, <1>6, <2>4 DEF QuietStep
    <2>5. CASE \/ Moves("main", "sourceWait", "source") \/ Moves("main", "source", "sourceWait")
               \/ Moves("main", "source", "eos") \/ Moves("main", "thrown", FirstStop)
               \/ Moves("main", "pools", "end") \/ Moves("main", "lookaheadDone", "fifo")
               \/ Moves("main", "finish", FirstStop)
      BY <1>4, <1>6, <2>5, ThreadsAre DEF QuietStep
    <2> QED BY <1>6, <2>1, <2>2, <2>3, <2>4, <2>5 DEF QuietStep
  <1>7. CASE MainStep
    <2>1. CASE SourceStep
      BY <2>1, ThreadsAre DEF SourceStep, Only
    <2>2. CASE InputStep \/ EmptiedStep
      BY <1>1, <1>2, <2>2, <1>4, <1>5, ThreadsAre DEF InputStep, EmptiedStep
    <2>3. CASE FifoStep
      BY <1>1, <2>3 DEF FifoStep
    <2> QED BY <1>7, <2>1, <2>2, <2>3 DEF MainStep
  <1>8. CASE RefuseStep
    BY <1>4, <1>5, <1>8, ThreadsAre DEF RefuseStep
  <1>9. CASE KeepStep \/ PassStep
    BY <1>1, <1>9 DEF KeepStep, PassStep, Moves
  <1>10. ASSUME NEW t \in Threads, EncodeStep(t)
         PROVE  enc'["lookahead"] = enc["lookahead"] /\ th'["lookahead"] = th["lookahead"] /\ fifo' = fifo
    <2>1. t = "main"
      <3>1. th["encoder"].pc # "encode"
        BY <1>0, ThreadsAre DEF ThreadPlaces
      <3> QED BY <1>1, <1>10, <3>1, ThreadsAre DEF EncodeStep, Moves
    <2>2. th["main"].e = "encoder"
      BY <1>3, <1>10, <2>1 DEF EncodeStep, Moves, Passing
    <2> QED BY <1>4, <1>5, <1>10, <2>1, <2>2 DEF EncodeStep
  <1>11. ASSUME NEW e \in Encoders, DestroyStep(e) \/ ReleaseStep(e)
         PROVE  enc'["lookahead"] = enc["lookahead"] /\ th'["lookahead"] = th["lookahead"] /\ fifo' = fifo
    <2>1. e = "encoder"
      BY <1>2, <1>11, WaysAre, ThreadsAre DEF DestroyStep, ReleaseStep, Moves
    <2> QED BY <1>4, <1>5, <1>11, <2>1, WaysAre, ThreadsAre DEF DestroyStep, ReleaseStep
  <1>12. ASSUME NEW e \in Used, EndStep(e) \/ PutStep(e) \/ BackStep(e) \/ DoneStep(e)
         PROVE  enc'["lookahead"] = enc["lookahead"] /\ th'["lookahead"] = th["lookahead"] /\ fifo' = fifo
    <2>1. e = "encoder"
      BY <1>1
    <2> QED BY <1>4, <1>5, <1>12, <2>1, ThreadsAre DEF EndStep, PutStep, BackStep, DoneStep
  <1>13. ASSUME NEW e \in Used, NEW i \in 1 .. Len(enc[e].frames), SliceStep(e, i)
         PROVE  enc'["lookahead"] = enc["lookahead"] /\ th'["lookahead"] = th["lookahead"] /\ fifo' = fifo
    <2>1. e = "encoder"
      BY <1>1
    <2> QED BY <1>5, <1>13, <2>1, ThreadsAre DEF SliceStep, Only
  <1> QED BY <1>6, <1>7, <1>8, <1>9, <1>10, <1>11, <1>12, <1>13 DEF Steps

LEMMA PlacesOf ==
  ASSUME ThreadPlaces
  PROVE  /\ th["main"].pc \in MainPlaces
         /\ th["lookahead"].pc \in StatusPlaces \cup SinkPlaces /\ th["encoder"].pc \in StatusPlaces
  BY ThreadsAre DEF ThreadPlaces, MainPlaces, StatusPlaces, SinkPlaces

\* A step of a thread from one of these places ends in one of them.
LEMMA PlacesStep ==
  ASSUME EncoderInv, Steps
  PROVE  /\ th'["main"].pc \in MainPlaces
         /\ th'["lookahead"].pc \in StatusPlaces \cup SinkPlaces /\ th'["encoder"].pc \in StatusPlaces
  <1> DEFINE Good == /\ th'["main"].pc \in MainPlaces
                     /\ th'["lookahead"].pc \in StatusPlaces \cup SinkPlaces
                     /\ th'["encoder"].pc \in StatusPlaces
  <1>1. /\ th["main"].pc \in MainPlaces
        /\ th["lookahead"].pc \in StatusPlaces \cup SinkPlaces /\ th["encoder"].pc \in StatusPlaces
    BY PlacesOf DEF EncoderInv
  <1>2. ASSUME NEW t \in Threads, Only(t), th'[t].pc \in MainPlaces \cap SinkPlaces, th[t].pc \in MainPlaces
        PROVE  Good
    <2>1. t # "encoder"
      BY <1>1, <1>2 DEF MainPlaces, StatusPlaces, Stopping
    <2> QED BY <1>1, <1>2, <2>1, ThreadsAre DEF Only
  <1>3. ASSUME NEW y \in MainPlaces, Only("main"), th'["main"].pc = y PROVE Good
    BY <1>1, <1>3, ThreadsAre DEF Only
  <1>4. ASSUME NEW e \in Encoders, Only(e), th'[e].pc \in StatusPlaces PROVE Good
    BY <1>1, <1>4, ThreadsAre DEF Only
  <1>5. ASSUME Only("lookahead"), th'["lookahead"].pc \in SinkPlaces PROVE Good
    BY <1>1, <1>5, ThreadsAre DEF Only
  <1>6. FirstStop \in MainPlaces
    BY DEF FirstStop, MainPlaces, Stopping
  <1>7. \A e : Ways(e).b \in MainPlaces /\ Ways(e).c \in MainPlaces /\ Ways(e).d \in MainPlaces
    BY DEF Ways, MainPlaces, Stopping
  <1>8. Used \subseteq Encoders
    BY UsedAre
  <1>9. {"source", "sourceWait", "table", "eos", "fifo", "finish", "thrown", "lookaheadDone", "end"}
           \subseteq MainPlaces
    BY DEF MainPlaces, Stopping
  <1> HIDE DEF Good
  <1>10. ASSUME QuietStep PROVE Good
    <2>1. CASE \/ Moves("main", "sourceWait", "source") \/ Moves("main", "source", "sourceWait")
               \/ Moves("main", "source", "eos") \/ Moves("main", "thrown", FirstStop)
               \/ Moves("main", "pools", "end") \/ Moves("main", "lookaheadDone", "fifo")
               \/ Moves("main", "finish", FirstStop)
      BY <1>3, <1>6, <1>9, <2>1 DEF Moves
    <2>2. CASE \E t \in Threads, w \in Waits : Moves(t, w[1], w[2])
      <3>1. PICK t \in Threads, w \in Waits : Moves(t, w[1], w[2])
        BY <2>2
      <3>2. w[1] \in MainPlaces /\ w[2] \in MainPlaces \cap SinkPlaces
        BY DEF Waits, MainPlaces, SinkPlaces
      <3> QED BY <1>2, <3>1, <3>2 DEF Moves
    <2>3. CASE \E t \in Threads : Moves(t, "dropTable", Return(t))
      <3>1. PICK t \in Threads : Moves(t, "dropTable", Return(t))
        BY <2>3
      <3>2. CASE t = "main"
        BY <1>3, <1>9, <3>1, <3>2 DEF Moves, Return
      <3>3. CASE t = "lookahead"
        BY <1>5, <3>1, <3>3, ThreadsAre DEF Moves, Return, SinkPlaces
      <3>4. t # "encoder"
        BY <1>1, <3>1 DEF Moves, StatusPlaces
      <3> QED BY <3>2, <3>3, <3>4, ThreadsAre
    <2>4. CASE \E e \in Used : \/ Moves(e, "poll", "wait") \/ Moves(e, "poll", "ended")
                               \/ Moves(e, "wait", "poll") \/ Moves(e, "releaseTable", "done")
                               \/ Moves(e, "unref", "poll")
      BY <1>4, <1>8, <2>4 DEF Moves, StatusPlaces
    <2> QED BY <1>10, <2>1, <2>2, <2>3, <2>4 DEF QuietStep
  <1>11. ASSUME MainStep PROVE Good
    BY <1>3, <1>9, <1>11 DEF MainStep, SourceStep, InputStep, EmptiedStep, FifoStep, Moves
  <1>12. ASSUME RefuseStep PROVE Good
    BY <1>3, <1>9, <1>12 DEF RefuseStep, Moves
  <1>13. ASSUME KeepStep \/ PassStep PROVE Good
    BY <1>5, <1>13 DEF KeepStep, PassStep, Moves, SinkPlaces
  <1>14. ASSUME NEW t \in Threads, EncodeStep(t) PROVE Good
    BY <1>2, <1>14 DEF EncodeStep, Moves, MainPlaces, SinkPlaces
  <1>15. ASSUME NEW e \in Encoders, DestroyStep(e) \/ ReleaseStep(e) PROVE Good
    BY <1>3, <1>7, <1>15 DEF DestroyStep, ReleaseStep, Moves
  <1>16. ASSUME NEW e \in Used, EndStep(e) \/ PutStep(e) \/ BackStep(e) \/ DoneStep(e) PROVE Good
    BY <1>4, <1>8, <1>16 DEF EndStep, PutStep, BackStep, DoneStep, Moves, StatusPlaces
  <1>17. ASSUME NEW e \in Used, NEW i \in 1 .. Len(enc[e].frames), SliceStep(e, i) PROVE Good
    BY <1>4, <1>8, <1>17 DEF SliceStep, StatusPlaces
  <1> QED BY <1>10, <1>11, <1>12, <1>13, <1>14, <1>15, <1>16, <1>17 DEF Steps, Good

\* A thread keeps the work it has until it is given other work.
LEMMA WorkKept ==
  ASSUME EncoderInv, Steps, NEW t \in Threads
  PROVE  \/ t = "main" /\ (SourceStep \/ FifoStep)
         \/ t = "lookahead" /\ PassStep
         \/ th'[t].e = th[t].e /\ th'[t].p = th[t].p /\ (Passing(t)' => Passing(t))
  <1> DEFINE Good == th'[t].e = th[t].e /\ th'[t].p = th[t].p /\ (Passing(t)' => Passing(t))
  <1>1. ASSUME NEW u \in Threads, NEW x, NEW y, Moves(u, x, y),
               y \in {"table", "tableWait", "encode", "dropTable", "thrown"} =>
                 x \in {"table", "tableWait", "encode", "dropTable", "thrown"}
        PROVE  Good
    BY <1>1 DEF Moves, SameWork, Only, Passing
  <1>2. ASSUME NEW u \in Threads, Only(u), t # u PROVE Good
    BY <1>2 DEF Only, Passing
  <1>3. ASSUME NEW e \in Used, SliceStep(e, 0) \/ \E i : SliceStep(e, i) PROVE Good
    BY <1>3 DEF SliceStep, Only, Passing
  <1>4. Used \subseteq Threads /\ Encoders \subseteq Threads /\ "main" \in Threads
    BY UsedAre, ThreadsAre
  <1> HIDE DEF Good
  <1>10. ASSUME QuietStep PROVE Good
    <2>1. CASE \/ Moves("main", "sourceWait", "source") \/ Moves("main", "source", "sourceWait")
               \/ Moves("main", "source", "eos") \/ Moves("main", "thrown", FirstStop)
               \/ Moves("main", "pools", "end") \/ Moves("main", "lookaheadDone", "fifo")
               \/ Moves("main", "finish", FirstStop)
      BY <1>1, <1>4, <2>1 DEF FirstStop
    <2>2. CASE \E u \in Threads, w \in Waits : Moves(u, w[1], w[2])
      <3>1. PICK u \in Threads, w \in Waits : Moves(u, w[1], w[2])
        BY <2>2
      <3>2. w[1] \in {"tableWait", "table"}
        BY DEF Waits
      <3> QED BY <1>1, <3>1, <3>2
    <2>3. CASE \E u \in Threads : Moves(u, "dropTable", Return(u))
      BY <1>1, <2>3
    <2>4. CASE \E e \in Used : \/ Moves(e, "poll", "wait") \/ Moves(e, "poll", "ended")
                               \/ Moves(e, "wait", "poll") \/ Moves(e, "releaseTable", "done")
                               \/ Moves(e, "unref", "poll")
      BY <1>1, <1>4, <2>4
    <2> QED BY <1>10, <2>1, <2>2, <2>3, <2>4 DEF QuietStep
  <1>11. ASSUME MainStep, ~(t = "main" /\ (SourceStep \/ FifoStep)) PROVE Good
    <2>1. CASE SourceStep \/ FifoStep
      BY <1>2, <1>4, <1>11, <2>1 DEF SourceStep, FifoStep
    <2>2. CASE InputStep \/ EmptiedStep
      BY <1>1, <1>4, <2>2 DEF InputStep, EmptiedStep
    <2> QED BY <1>11, <2>1, <2>2 DEF MainStep
  <1>12. ASSUME RefuseStep PROVE Good
    BY <1>1, <1>4, <1>12 DEF RefuseStep
  <1>13. ASSUME KeepStep \/ PassStep, ~(t = "lookahead" /\ PassStep) PROVE Good
    BY <1>1, <1>2, <1>13, ThreadsAre DEF KeepStep, PassStep
  <1>14. ASSUME NEW u \in Threads, EncodeStep(u) PROVE Good
    BY <1>1, <1>14 DEF EncodeStep
  <1>15. ASSUME NEW e \in Encoders, DestroyStep(e) \/ ReleaseStep(e) PROVE Good
    <2>1. \A w \in {Ways(e).b, Ways(e).c, Ways(e).d} :
             w \notin {"table", "tableWait", "encode", "dropTable", "thrown"}
      BY WaysAre, ThreadsAre
    <2> QED BY <1>1, <1>4, <1>15, <2>1 DEF DestroyStep, ReleaseStep
  <1>16. ASSUME NEW e \in Used, EndStep(e) \/ PutStep(e) \/ BackStep(e) \/ DoneStep(e) PROVE Good
    BY <1>1, <1>4, <1>16 DEF EndStep, PutStep, BackStep, DoneStep
  <1>17. ASSUME NEW e \in Used, NEW i \in 1 .. Len(enc[e].frames), SliceStep(e, i) PROVE Good
    BY <1>3, <1>17
  <1> QED BY <1>10, <1>11, <1>12, <1>13, <1>14, <1>15, <1>16, <1>17 DEF Steps, Good

\* The end of the stream comes out of the LookAhead while main waits for it.
LEMMA EndOfStreamSet ==
  ASSUME EncoderInv, Steps
  PROVE  \/ bEndOfStream' = bEndOfStream
         \/ EndStep("lookahead") /\ th["main"].pc = "lookaheadDone" /\ bEndOfStream'
  <1>1. ASSUME NEW e \in Used, EndStep(e)
        PROVE  \/ bEndOfStream' = bEndOfStream
               \/ EndStep("lookahead") /\ th["main"].pc = "lookaheadDone" /\ bEndOfStream'
    BY <1>1 DEF EndStep, EncoderInv, EndsOfStream
  <1> QED
    BY <1>1 DEF Steps, QuietStep, MainStep, SourceStep, InputStep, EmptiedStep, FifoStep, RefuseStep,
        KeepStep, PassStep, EncodeStep, DestroyStep, ReleaseStep, PutStep, BackStep, DoneStep, SliceStep

\* While main feeds the first sink the stream has not ended; when it empties the FIFO it has.
LEMMA StreamAt ==
  ASSUME EncoderInv
  PROVE  /\ th["main"].pc = "source" /\ HasLookAhead => ~bEndOfStream
         /\ th["main"].pc = "fifo" => HasLookAhead /\ bEndOfStream
  <1>1. enc["lookahead"].eos \in {"no", "asked", "told"}
    BY ContextIs, ThreadsAre DEF EncoderInv, TypeOK
  <1> QED BY <1>1 DEF EncoderInv, EndsOfStream, Feeding, ThreadPlaces, Passing

LEMMA PlacesKept ==
  ASSUME EncoderInv, Steps, conf' = conf
  PROVE  ThreadPlaces'
  <1>0. TypeOK /\ ThreadPlaces /\ PicturesInOrder /\ SourcesHeld
    BY DEF EncoderInv
  <1>1. /\ th'["main"].pc \in MainPlaces
        /\ th'["lookahead"].pc \in StatusPlaces \cup SinkPlaces /\ th'["encoder"].pc \in StatusPlaces
    BY PlacesStep
  <1>2. th'["lookahead"].e = "encoder"
    <2>1. th["lookahead"].e = "encoder"
      BY <1>0 DEF ThreadPlaces
    <2>2. PassStep => th'["lookahead"].e = "encoder"
      BY <2>1 DEF PassStep
    <2> QED BY <2>1, <2>2, WorkKept, ThreadsAre
  <1>3. ASSUME NEW t \in Threads, Passing(t)' PROVE th'[t].p \in Pictures
    <2>1. CASE SourceStep /\ t = "main"
      BY <2>1 DEF SourceStep
    <2>2. CASE FifoStep /\ t = "main"
      <3>1. Head(fifo) \in Pictures
        BY <1>0, <2>2, SeqHead DEF FifoStep, TypeOK
      <3> QED BY <2>2, <3>1 DEF FifoStep
    <2>3. CASE PassStep /\ t = "lookahead"
      <3> DEFINE kept == Append(fifo, th["lookahead"].st.pic)
      <3>1. InCallback("lookahead") /\ "lookahead" \in Encoders /\ "lookahead" \in Threads
        BY <2>3, ThreadsAre DEF PassStep, InCallback
      <3>2. th["lookahead"].st.pic >= 1 /\ th["lookahead"].st.pic \in Pictures \cup {0}
        BY <1>0, <3>1 DEF SourcesHeld, TypeOK, ThreadStates, Statuses
      <3>3. kept \in Seq(Pictures) /\ Len(kept) = Len(fifo) + 1 /\ Len(fifo) \in Nat
        <4>1. th["lookahead"].st.pic \in Pictures
          BY <3>2
        <4> QED BY <1>0, <4>1, SeqEnd DEF TypeOK
      <3>4. kept # <<>>
        BY <3>3, EmptySeq
      <3>5. Head(kept) \in Pictures
        BY <3>3, <3>4, SeqHead
      <3> QED BY <2>3, <3>5 DEF PassStep
    <2>4. CASE th'[t].p = th[t].p /\ (Passing(t)' => Passing(t))
      BY <1>0, <1>3, <2>4 DEF ThreadPlaces
    <2> QED BY <2>1, <2>2, <2>3, <2>4, WorkKept
  <1>4. ASSUME Passing("main")'
        PROVE  th'["main"].e = "lookahead" <=> HasLookAhead /\ ~bEndOfStream'
    <2>1. bEndOfStream' = bEndOfStream
      <3>1. th["main"].pc = "lookaheadDone" /\ EndStep("lookahead") => th'["main"].pc = "lookaheadDone"
        BY ThreadsAre DEF EndStep, Moves, Only
      <3> QED BY <1>4, <3>1, EndOfStreamSet DEF Passing
    <2>2. CASE SourceStep
      BY <2>1, <2>2, StreamAt, UsedAre, ThreadsAre DEF SourceStep
    <2>3. CASE FifoStep
      BY <2>1, <2>3, StreamAt, ThreadsAre DEF FifoStep
    <2>4. CASE th'["main"].e = th["main"].e /\ (Passing("main")' => Passing("main"))
      BY <1>0, <1>4, <2>1, <2>4 DEF ThreadPlaces
    <2> QED BY <2>2, <2>3, <2>4, WorkKept, ThreadsAre
  <1>5. ~HasLookAhead => enc'["lookahead"] = CreateChannel /\ th'["lookahead"] = Idle /\ fifo' = <<>>
    BY <1>0, LookAheadUnused DEF ThreadPlaces
  <1>6. th'["main"].pc \in {"lookaheadDone", "fifo", "stopLookahead", "closeLookahead",
                          "releaseLookahead"} => HasLookAhead
    <2> DEFINE L == {"lookaheadDone", "fifo", "stopLookahead", "closeLookahead", "releaseLookahead"}
               Good == th'["main"].pc \in L => HasLookAhead
    <2>1. th["main"].pc \in L => HasLookAhead
      BY <1>0 DEF ThreadPlaces
    <2>2. ASSUME NEW t \in Threads, Only(t), t # "main" PROVE Good
      BY <2>1, <2>2, ThreadsAre DEF Only
    <2>3. ASSUME NEW y, th'["main"].pc = y, y \notin L \/ HasLookAhead PROVE Good
      BY <2>3
    <2>4. FirstStop \in L => HasLookAhead
      BY DEF FirstStop
    <2>5. Used \subseteq Threads /\ "main" \notin Used /\ "main" \in Threads /\ Encoders \subseteq Threads
      BY UsedAre, ThreadsAre
    <2> HIDE DEF Good
    <2>10. ASSUME QuietStep PROVE Good
      <3>1. CASE \/ Moves("main", "sourceWait", "source") \/ Moves("main", "source", "sourceWait")
                 \/ Moves("main", "source", "eos") \/ Moves("main", "thrown", FirstStop)
                 \/ Moves("main", "pools", "end") \/ Moves("main", "finish", FirstStop)
        BY <2>3, <2>4, <3>1 DEF Moves
      <3>5. CASE Moves("main", "lookaheadDone", "fifo")
        BY <2>1, <2>3, <3>5 DEF Moves
      <3>2. CASE \E u \in Threads, w \in Waits : Moves(u, w[1], w[2])
        <4>1. PICK u \in Threads, w \in Waits : Moves(u, w[1], w[2])
          BY <3>2
        <4>2. w[2] \notin L
          BY DEF Waits
        <4> QED BY <2>2, <2>3, <4>1, <4>2 DEF Moves
      <3>3. CASE \E u \in Threads : Moves(u, "dropTable", Return(u))
        <4>1. PICK u \in Threads : Moves(u, "dropTable", Return(u))
          BY <3>3
        <4>2. CASE u = "main"
          <5>1. Passing("main")
            BY <4>1, <4>2 DEF Moves, Passing
          <5>2. CASE bEndOfStream
            <6>1. HasLookAhead
              BY <5>2, <1>0, ContextIs DEF EncoderInv, EndsOfStream, ThreadPlaces, CreateChannel
            <6> QED BY <2>3, <4>1, <4>2, <6>1 DEF Moves
          <5>3. CASE ~bEndOfStream
            BY <2>3, <4>1, <4>2, <5>3 DEF Moves, Return
          <5> QED BY <5>2, <5>3
        <4> QED BY <2>2, <4>1, <4>2 DEF Moves
      <3>4. CASE \E e \in Used : \/ Moves(e, "poll", "wait") \/ Moves(e, "poll", "ended")
                                 \/ Moves(e, "wait", "poll") \/ Moves(e, "releaseTable", "done")
                                 \/ Moves(e, "unref", "poll")
        BY <2>2, <2>5, <3>4 DEF Moves
      <3> QED BY <2>10, <3>1, <3>2, <3>3, <3>4, <3>5 DEF QuietStep
    <2>11. ASSUME MainStep PROVE Good
      BY <2>3, <2>11 DEF MainStep, SourceStep, InputStep, EmptiedStep, FifoStep, Moves
    <2>12. ASSUME RefuseStep PROVE Good
      BY <2>3, <2>12 DEF RefuseStep, Moves
    <2>13. ASSUME KeepStep \/ PassStep PROVE Good
      BY <2>2, <2>13, ThreadsAre DEF KeepStep, PassStep, Moves
    <2>14. ASSUME NEW t \in Threads, EncodeStep(t) PROVE Good
      BY <2>2, <2>3, <2>14 DEF EncodeStep, Moves
    <2>15. ASSUME NEW e \in Encoders, DestroyStep(e) \/ ReleaseStep(e) PROVE Good
      <3>1. CASE e = "lookahead"
        <4>1. HasLookAhead
          BY <2>1, <2>15, <3>1, WaysAre DEF DestroyStep, ReleaseStep, Moves
        <4> QED BY <4>1 DEF Good
      <3>2. CASE e = "encoder"
        BY <2>3, <2>15, <3>2, WaysAre DEF DestroyStep, ReleaseStep, Moves
      <3> QED BY <3>1, <3>2, ThreadsAre
    <2>16. ASSUME NEW e \in Used, EndStep(e) \/ PutStep(e) \/ BackStep(e) \/ DoneStep(e) PROVE Good
      BY <2>2, <2>5, <2>16 DEF EndStep, PutStep, BackStep, DoneStep, Moves
    <2>17. ASSUME NEW e \in Used, NEW i \in 1 .. Len(enc[e].frames), SliceStep(e, i) PROVE Good
      BY <2>2, <2>5, <2>17 DEF SliceStep
    <2> QED BY <2>10, <2>11, <2>12, <2>13, <2>14, <2>15, <2>16, <2>17 DEF Steps, Good
  <1>7. HasLookAhead' = HasLookAhead
    BY SettingsKept
  <1> QED
    BY <1>1, <1>2, <1>3, <1>4, <1>5, <1>6, <1>7, ThreadsAre
    DEF ThreadPlaces, MainPlaces, StatusPlaces, SinkPlaces, CreateChannel, Idle
-----------------------------------------------------------------------------
(* Which steps change what *)

\* Each field of a context is changed by a few of the steps.
LEMMA FieldsOf ==
  ASSUME EncoderInv, Steps, NEW e \in Encoders
  PROVE  LET c == enc[e]
             d == enc'[e]
         IN  /\ SameLife(c, d) \/ DestroyStep(e)
             /\ SameEnd(c, d) \/ Asks(e) \/ EndStep(e)
             /\ SameFrames(c, d) \/ Encodes(e) \/ Slices(e)
             /\ SameSources(c, d) \/ Encodes(e) \/ BackStep(e) \/ ReleaseStep(e)
             /\ SamePermits(c, d) \/ Encodes(e) \/ Refuses(e) \/ DoneStep(e)
             /\ SameRing(c, d) \/ Slices(e) \/ PutStep(e) \/ ReleaseStep(e)
             /\ SameOk(c, d) \/ Encodes(e) \/ Refuses(e) \/ Slices(e) \/ BackStep(e)
  <1> DEFINE c == enc[e]
             d == enc'[e]
             Good == /\ SameLife(c, d) \/ DestroyStep(e)
                     /\ SameEnd(c, d) \/ Asks(e) \/ EndStep(e)
                     /\ SameFrames(c, d) \/ Encodes(e) \/ Slices(e)
                     /\ SameSources(c, d) \/ Encodes(e) \/ BackStep(e) \/ ReleaseStep(e)
                     /\ SamePermits(c, d) \/ Encodes(e) \/ Refuses(e) \/ DoneStep(e)
                     /\ SameRing(c, d) \/ Slices(e) \/ PutStep(e) \/ ReleaseStep(e)
                     /\ SameOk(c, d) \/ Encodes(e) \/ Refuses(e) \/ Slices(e) \/ BackStep(e)
  <1>0. TypeOK /\ SourcesHeld /\ RingOfStreams
    BY DEF EncoderInv
  <1>1. ASSUME enc'[e] = enc[e] PROVE Good
    BY <1>1 DEF SameLife, SameEnd, SameFrames, SameSources, SamePermits, SameRing, SameOk
  <1>2. ASSUME NEW f \in Encoders, Others(f), f # e PROVE Good
    BY <1>1, <1>2 DEF Others
  <1>3. Used \subseteq Encoders /\ FirstSink \in Encoders /\ "encoder" \in Encoders
    BY UsedAre, ThreadsAre
  <1>10. CASE QuietStep \/ SourceStep \/ FifoStep \/ KeepStep \/ PassStep
    BY <1>1, <1>10 DEF QuietStep, SourceStep, FifoStep, KeepStep, PassStep
  <1>11. CASE InputStep
    <2>1. EndCalls(FirstSink)
      BY <1>11 DEF InputStep, EndCalls
    <2>2. CASE e = FirstSink
      BY <1>0, <1>11, <2>1, <2>2, EndFacts DEF Asks
    <2>3. CASE e # FirstSink
      BY <1>0, <1>2, <1>3, <2>1, <2>3, EndFacts
    <2> QED BY <2>2, <2>3
  <1>12. CASE EmptiedStep
    <2>1. EndCalls("encoder")
      BY <1>12 DEF EmptiedStep, EndCalls
    <2>2. CASE e = "encoder"
      BY <1>0, <1>12, <2>1, <2>2, EndFacts DEF Asks
    <2>3. CASE e # "encoder"
      BY <1>0, <1>2, <1>3, <2>1, <2>3, EndFacts
    <2> QED BY <2>2, <2>3
  <1>13. CASE RefuseStep
    <2>1. CASE e = "encoder"
      <3>1. /\ SameRing(c, d) /\ SameLife(c, d) /\ SameEnd(c, d)
            /\ SameFrames(c, d) /\ SameSources(c, d)
        BY <1>13, <2>1, RefuseFacts
      <3> QED BY <1>13, <2>1, <3>1 DEF Refuses
    <2>2. CASE e # "encoder"
      BY <1>2, <1>3, <1>13, <2>2, RefuseFacts
    <2> QED BY <2>1, <2>2
  <1>14. ASSUME NEW t \in Threads, EncodeStep(t) PROVE Good
    <2>1. CASE e = th[t].e
      <3>1. SameRing(c, d) /\ SameLife(c, d) /\ SameEnd(c, d) /\ Encodes(e)
        BY <1>14, <2>1, EncodeFacts DEF Encodes
      <3> QED BY <3>1
    <2>2. CASE e # th[t].e
      <3>1. Others(th[t].e) /\ th[t].e \in Encoders
        BY <1>14, EncodeFacts
      <3> QED BY <1>2, <2>2, <3>1
    <2> QED BY <2>1, <2>2
  <1>15. ASSUME NEW f \in Encoders, DestroyStep(f) PROVE Good
    BY <1>0, <1>2, <1>15, DestroyFacts
  <1>16. ASSUME NEW f \in Encoders, ReleaseStep(f) PROVE Good
    BY <1>0, <1>2, <1>16, ReleaseFacts
  <1>17. ASSUME NEW f \in Used, EndStep(f) PROVE Good
    <2>1. EndCalls(f)
      BY <1>17 DEF EndStep, EndCalls
    <2> QED BY <1>0, <1>2, <1>3, <1>17, <2>1, EndFacts
  <1>18. ASSUME NEW f \in Used, PutStep(f) PROVE Good
    BY <1>0, <1>2, <1>3, <1>18, PutFacts
  <1>19. ASSUME NEW f \in Used, BackStep(f) PROVE Good
    <2>1. CASE e = f
      <3>1. /\ SameRing(c, d) /\ SameLife(c, d) /\ SameEnd(c, d) /\ SameFrames(c, d)
            /\ SamePermits(c, d)
        BY <1>0, <1>19, <2>1, BackFacts
      <3> QED BY <1>19, <2>1, <3>1
    <2>2. CASE e # f
      BY <1>0, <1>2, <1>3, <1>19, <2>2, BackFacts
    <2> QED BY <2>1, <2>2
  <1>20. ASSUME NEW f \in Used, DoneStep(f) PROVE Good
    BY <1>0, <1>2, <1>3, <1>20, DoneFacts
  <1>21. ASSUME NEW f \in Used, NEW i \in 1 .. Len(enc[f].frames), SliceStep(f, i), f = "lookahead" => i = 1
         PROVE  Good
    <2>1. CASE e = f
      <3>1. SameLife(c, d) /\ SameEnd(c, d) /\ SamePermits(c, d) /\ SameSources(c, d)
        BY <1>0, <1>21, <2>1, SliceFacts
      <3>2. Slices(e)
        BY <1>21, <2>1 DEF Slices
      <3> QED BY <3>1, <3>2
    <2>2. CASE e # f
      <3>1. Others(f)
        BY <1>0, <1>3, <1>21, SliceFacts
      <3> QED BY <1>2, <1>3, <2>2, <3>1
    <2> QED BY <2>1, <2>2
  <1> QED
    BY <1>10, <1>11, <1>12, <1>13, <1>14, <1>15, <1>16, <1>17, <1>18, <1>19, <1>20, <1>21
    DEF Steps, MainStep

\* Where main goes.
LEMMA MainMoves ==
  ASSUME Steps
  PROVE  \/ th'["main"].pc = th["main"].pc
         \/ th["main"].pc \notin Stopping /\ (th'["main"].pc \notin Stopping \/ th'["main"].pc = FirstStop)
         \/ th["main"].pc = "pools" /\ th'["main"].pc = "end"
         \/ \E e \in Encoders : DestroyStep(e) \/ ReleaseStep(e)
  <1> DEFINE Good == \/ th'["main"].pc = th["main"].pc
                     \/ th["main"].pc \notin Stopping
                          /\ (th'["main"].pc \notin Stopping \/ th'["main"].pc = FirstStop)
                     \/ th["main"].pc = "pools" /\ th'["main"].pc = "end"
  <1>1. ASSUME NEW t, Only(t), t # "main" PROVE Good
    BY <1>1, ThreadsAre DEF Only
  <1>2. "main" \notin Used /\ "main" # "lookahead"
    BY UsedAre, ThreadsAre
  <1>3. ASSUME NEW x, NEW y, Moves("main", x, y), x \notin Stopping, y \notin Stopping \/ y = FirstStop
        PROVE  Good
    BY <1>3 DEF Moves
  <1>4. \A x \in {"source", "sourceWait", "table", "tableWait", "encode", "dropTable", "thrown", "eos",
                  "lookaheadDone", "fifo", "finish", "put"} : x \notin Stopping
    BY DEF Stopping
  <1> HIDE DEF Good
  <1>10. ASSUME QuietStep PROVE Good
    <2>1. CASE \/ Moves("main", "sourceWait", "source") \/ Moves("main", "source", "sourceWait")
               \/ Moves("main", "source", "eos") \/ Moves("main", "thrown", FirstStop)
               \/ Moves("main", "lookaheadDone", "fifo") \/ Moves("main", "finish", FirstStop)
      BY <1>3, <1>4, <2>1
    <2>2. CASE Moves("main", "pools", "end")
      BY <2>2 DEF Moves, Good
    <2>3. CASE \E u \in Threads, w \in Waits : Moves(u, w[1], w[2])
      <3>1. PICK u \in Threads, w \in Waits : Moves(u, w[1], w[2])
        BY <2>3
      <3>2. w[1] \notin Stopping /\ w[2] \notin Stopping
        BY DEF Waits, Stopping
      <3> QED BY <1>1, <1>3, <3>1, <3>2 DEF Moves
    <2>4. CASE \E u \in Threads : Moves(u, "dropTable", Return(u))
      <3>1. PICK u \in Threads : Moves(u, "dropTable", Return(u))
        BY <2>4
      <3>2. Return(u) \notin Stopping
        BY DEF Return, Stopping
      <3> QED BY <1>1, <1>3, <1>4, <3>1, <3>2 DEF Moves
    <2>5. CASE \E e \in Used : \/ Moves(e, "poll", "wait") \/ Moves(e, "poll", "ended")
                               \/ Moves(e, "wait", "poll") \/ Moves(e, "releaseTable", "done")
                               \/ Moves(e, "unref", "poll")
      BY <1>1, <1>2, <2>5 DEF Moves
    <2> QED BY <1>10, <2>1, <2>2, <2>3, <2>4, <2>5 DEF QuietStep
  <1>11. ASSUME MainStep PROVE Good
    <2>1. CASE SourceStep \/ FifoStep
      BY <1>4, <2>1 DEF SourceStep, FifoStep, Good
    <2>2. CASE InputStep \/ EmptiedStep
      BY <1>3, <1>4, <2>2 DEF InputStep, EmptiedStep
    <2> QED BY <1>11, <2>1, <2>2 DEF MainStep
  <1>12. ASSUME RefuseStep PROVE Good
    BY <1>3, <1>4, <1>12 DEF RefuseStep
  <1>13. ASSUME KeepStep \/ PassStep PROVE Good
    BY <1>1, <1>2, <1>13 DEF KeepStep, PassStep, Moves
  <1>14. ASSUME NEW t \in Threads, EncodeStep(t) PROVE Good
    BY <1>1, <1>3, <1>4, <1>14 DEF EncodeStep, Moves
  <1>15. ASSUME NEW e \in Used, EndStep(e) \/ PutStep(e) \/ BackStep(e) \/ DoneStep(e) PROVE Good
    BY <1>1, <1>2, <1>15 DEF EndStep, PutStep, BackStep, DoneStep, Moves
  <1>16. ASSUME NEW e \in Used, NEW i \in 1 .. Len(enc[e].frames), SliceStep(e, i) PROVE Good
    BY <1>1, <1>2, <1>16 DEF SliceStep
  <1> QED BY <1>10, <1>11, <1>12, <1>13, <1>14, <1>15, <1>16 DEF Steps, Good

LEMMA StatusMoves ==
  ASSUME EncoderInv, Steps, NEW e \in Encoders
  PROVE  th'[e] = th[e] \/ Turns(e) \/ (e = "lookahead" /\ SinkTurns)
  <1> DEFINE Good == th'[e] = th[e] \/ Turns(e) \/ (e = "lookahead" /\ SinkTurns)
  <1>1. ASSUME NEW t, Only(t), t # e PROVE Good
    BY <1>1, ThreadsAre DEF Only
  <1>2. th["lookahead"].pc \in StatusPlaces \cup SinkPlaces /\ th["encoder"].pc \in StatusPlaces
    BY PlacesOf DEF EncoderInv
  <1>3. "main" # e /\ Used \subseteq Encoders
    BY ThreadsAre, UsedAre
  <1>10. ASSUME QuietStep PROVE Good
    <2>1. CASE \/ Moves("main", "sourceWait", "source") \/ Moves("main", "source", "sourceWait")
               \/ Moves("main", "source", "eos") \/ Moves("main", "thrown", FirstStop)
               \/ Moves("main", "lookaheadDone", "fifo") \/ Moves("main", "finish", FirstStop)
               \/ Moves("main", "pools", "end")
      BY <1>1, <1>3, <2>1 DEF Moves
    <2>3. CASE \E u \in Threads, w \in Waits : Moves(u, w[1], w[2])
      <3>1. PICK u \in Threads, w \in Waits : Moves(u, w[1], w[2])
        BY <2>3
      <3>2. CASE u = e
        <4>1. e = "lookahead"
          BY <1>2, <3>1, <3>2, ThreadsAre DEF Moves, Waits, StatusPlaces
        <4> QED BY <3>1, <3>2, <4>1 DEF Waits, SinkTurns
      <3> QED BY <1>1, <3>1, <3>2 DEF Moves
    <2>4. CASE \E u \in Threads : Moves(u, "dropTable", Return(u))
      <3>1. PICK u \in Threads : Moves(u, "dropTable", Return(u))
        BY <2>4
      <3>2. CASE u = e
        <4>1. e = "lookahead"
          BY <1>2, <3>1, <3>2, ThreadsAre DEF Moves, StatusPlaces
        <4> QED BY <3>1, <3>2, <4>1, ThreadsAre DEF SinkTurns, Return
      <3> QED BY <1>1, <3>1, <3>2 DEF Moves
    <2>5. CASE \E f \in Used : \/ Moves(f, "poll", "wait") /\ enc[f].shouldContinue
                               \/ Moves(f, "poll", "ended") /\ ~enc[f].shouldContinue
                               \/ Moves(f, "wait", "poll") /\ enc[f].destroyed
                               \/ Moves(f, "releaseTable", "done") \/ Moves(f, "unref", "poll")
      BY <1>1, <2>5 DEF Moves, Turns
    <2> QED BY <1>10, <2>1, <2>3, <2>4, <2>5 DEF QuietStep
  <1>11. ASSUME MainStep \/ RefuseStep PROVE Good
    BY <1>1, <1>3, <1>11 DEF MainStep, SourceStep, FifoStep, InputStep, EmptiedStep, RefuseStep, Moves
  <1>13. ASSUME KeepStep \/ PassStep PROVE Good
    BY <1>1, <1>13 DEF KeepStep, PassStep, Moves, SinkTurns
  <1>14. ASSUME NEW t \in Threads, EncodeStep(t) PROVE Good
    <2>1. CASE t = e
      <3>1. e = "lookahead"
        BY <1>2, <1>14, <2>1, ThreadsAre DEF EncodeStep, Moves, StatusPlaces
      <3> QED BY <1>14, <2>1, <3>1 DEF SinkTurns
    <2> QED BY <1>1, <1>14, <2>1 DEF EncodeStep, Moves
  <1>15. ASSUME NEW f \in Used, EndStep(f) \/ PutStep(f) \/ BackStep(f) \/ DoneStep(f) PROVE Good
    <2>1. CASE f = e
      BY <1>15, <2>1 DEF Turns
    <2> QED BY <1>1, <1>15, <2>1 DEF EndStep, PutStep, BackStep, DoneStep, Moves
  <1>16. ASSUME NEW f \in Used, NEW i \in 1 .. Len(enc[f].frames), SliceStep(f, i), f = "lookahead" => i = 1
         PROVE  Good
    <2>1. CASE f = e
      BY <1>16, <2>1 DEF Turns, Slices
    <2> QED BY <1>1, <1>16, <2>1 DEF SliceStep
  <1>17. ASSUME NEW f \in Encoders, DestroyStep(f) \/ ReleaseStep(f) PROVE Good
    BY <1>1, <1>3, <1>17 DEF DestroyStep, ReleaseStep, Moves
  <1> QED BY <1>10, <1>11, <1>13, <1>14, <1>15, <1>16, <1>17 DEF Steps
-----------------------------------------------------------------------------
(* The lives of the encoders, refusals, the end of the stream *)

\* The thread of an encoder ends once it is told to, and stays there.
LEMMA EndedAre ==
  ASSUME EncoderInv, Steps, NEW e \in Encoders
  PROVE  /\ th[e].pc = "ended" => th'[e].pc = "ended"
         /\ th'[e].pc = "ended" => \/ th[e].pc = "ended"
                                   \/ ~enc[e].shouldContinue /\ th'["main"] = th["main"]
  <1>0. "main" # e /\ "main" # "lookahead" /\ "main" \in Threads
    BY ThreadsAre
  <1>1. CASE Turns(e)
    <2>1. th[e].pc \notin {"ended"}
      BY <1>1 DEF Turns, EndStep, Slices, SliceStep, PutStep, BackStep, DoneStep, Moves
    <2>2. CASE Moves(e, "poll", "ended") /\ ~enc[e].shouldContinue
      BY <1>0, <2>1, <2>2 DEF Moves, Only
    <2>3. CASE th'[e].pc # "ended"
      BY <2>1, <2>3
    <2>4. Moves(e, "poll", "ended") \/ th'[e].pc # "ended"
      BY <1>1 DEF Turns, EndStep, Slices, SliceStep, PutStep, BackStep, DoneStep, Moves
    <2> QED BY <1>1, <2>2, <2>3, <2>4 DEF Turns, EndStep, Slices, SliceStep, PutStep, BackStep, DoneStep, Moves
  <1>2. CASE e = "lookahead" /\ SinkTurns
    BY <1>2 DEF SinkTurns, EncodeStep, KeepStep, PassStep, Moves
  <1> QED BY <1>1, <1>2, StatusMoves

LEMMA LivesKept ==
  ASSUME EncoderInv, Steps, conf' = conf
  PROVE  Lives'
  <1>1. Used' = Used /\ Used \subseteq Encoders /\ FirstStop \in Stopping
    BY SettingsKept, UsedAre DEF FirstStop, Stopping
  <1> SUFFICES ASSUME NEW e \in Used
               PROVE  /\ enc'[e].shouldContinue <=> ~Stopped(e)'
                      /\ enc'[e].destroyed <=> Closed(e)'
                      /\ th'[e].pc = "ended" => Stopped(e)'
                      /\ Released(e)' => th'[e].pc = "ended"
    BY <1>1 DEF Lives
  <1>2. TypeOK /\ ThreadPlaces /\ e \in Encoders
    BY <1>1 DEF EncoderInv
  <1>3. /\ enc[e].shouldContinue <=> ~Stopped(e)
        /\ enc[e].destroyed <=> Closed(e)
        /\ th[e].pc = "ended" => Stopped(e)
        /\ Released(e) => th[e].pc = "ended"
    BY DEF EncoderInv, Lives
  <1>4. /\ th[e].pc = "ended" => th'[e].pc = "ended"
        /\ th'[e].pc = "ended" => \/ th[e].pc = "ended"
                                  \/ ~enc[e].shouldContinue /\ th'["main"] = th["main"]
    BY <1>2, EndedAre
  <1>5. /\ enc[e].shouldContinue \in BOOLEAN /\ enc[e].destroyed \in BOOLEAN
        /\ SameLife(enc[e], enc'[e]) \/ DestroyStep(e)
    BY <1>2, FieldsOf, ContextIs DEF TypeOK
  <1>6. CASE DestroyStep(e)
    <2>1. /\ \/ Moves("main", Ways(e).a, Ways(e).b) /\ ~enc'[e].shouldContinue /\ enc'[e].destroyed = enc[e].destroyed
             \/ Moves("main", Ways(e).b, Ways(e).c) /\ enc'[e].shouldContinue = enc[e].shouldContinue /\ enc'[e].destroyed
    BY <1>2, <1>6, DestroyFacts
    <2>2. CASE e = "lookahead"
      BY <1>3, <1>4, <1>5, <2>1, <2>2, WaysAre DEF Moves, Stopped, Closed, Released, Unreleased, Stopping, Encoders
    <2>3. CASE e = "encoder"
      BY <1>3, <1>4, <1>5, <2>1, <2>3, WaysAre DEF Moves, Stopped, Closed, Released, Unreleased, Stopping, Encoders
    <2> QED BY <1>2, <2>2, <2>3, ThreadsAre
  <1>7. ASSUME SameLife(enc[e], enc'[e]), Stopped(e)' <=> Stopped(e), Closed(e)' <=> Closed(e),
               Released(e)' => Released(e) \/ th[e].pc = "ended"
        PROVE  /\ enc'[e].shouldContinue <=> ~Stopped(e)'
               /\ enc'[e].destroyed <=> Closed(e)'
               /\ th'[e].pc = "ended" => Stopped(e)'
               /\ Released(e)' => th'[e].pc = "ended"
    BY <1>3, <1>4, <1>7 DEF SameLife
  <1>8. ASSUME ~DestroyStep(e)
        PROVE  /\ (Stopped(e)' <=> Stopped(e)) /\ (Closed(e)' <=> Closed(e))
               /\ Released(e)' => Released(e) \/ th[e].pc = "ended"
    <2>1. CASE th'["main"].pc = th["main"].pc
      BY <1>1, <2>1 DEF Stopped, Closed, Released
    <2>2. CASE th["main"].pc \notin Stopping /\ (th'["main"].pc \notin Stopping \/ th'["main"].pc = FirstStop)
      <3>1. ~Stopped(e) /\ ~Closed(e) /\ ~Released(e)
        BY <2>2 DEF Stopped, Closed, Released
      <3>2. ~Stopped(e)' /\ ~Released(e)'
        <4>1. CASE th'["main"].pc \notin Stopping
          BY <4>1 DEF Stopped, Released
        <4>2. CASE th'["main"].pc = FirstStop /\ HasLookAhead
          BY <1>1, <1>2, <4>2, ThreadsAre DEF FirstStop, Stopped, Released, Unreleased, Stopping
        <4>3. CASE th'["main"].pc = FirstStop /\ ~HasLookAhead
          BY <1>1, <1>2, <4>3, ThreadsAre, UsedAre DEF FirstStop, Stopped, Released, Unreleased, Stopping
        <4> QED BY <2>2, <4>1, <4>2, <4>3
      <3> QED BY <3>1, <3>2 DEF Closed
    <2>3. CASE th["main"].pc = "pools" /\ th'["main"].pc = "end"
      BY <1>1, <1>2, <2>3, ThreadsAre DEF Stopped, Closed, Released, Unreleased, Stopping
    <2>4. ASSUME NEW f \in Encoders, f # e, DestroyStep(f) \/ ReleaseStep(f)
          PROVE  /\ (Stopped(e)' <=> Stopped(e)) /\ (Closed(e)' <=> Closed(e))
                 /\ Released(e)' => Released(e) \/ th[e].pc = "ended"
      <3>1. CASE e = "lookahead" /\ f = "encoder"
        BY <1>1, <2>4, <3>1, ThreadsAre, WaysAre
        DEF DestroyStep, ReleaseStep, Moves, Stopped, Closed, Released, Unreleased, Stopping
      <3>2. CASE e = "encoder" /\ f = "lookahead"
        BY <1>1, <2>4, <3>2, ThreadsAre, WaysAre
        DEF DestroyStep, ReleaseStep, Moves, Stopped, Closed, Released, Unreleased, Stopping
      <3> QED BY <1>2, <2>4, <3>1, <3>2, ThreadsAre
    <2>5. CASE ReleaseStep(e)
      <3>1. CASE e = "lookahead"
        BY <1>1, <2>5, <3>1, ThreadsAre, WaysAre
        DEF ReleaseStep, Moves, Stopped, Closed, Released, Unreleased, Stopping
      <3>2. CASE e = "encoder"
        BY <1>1, <2>5, <3>2, ThreadsAre, WaysAre
        DEF ReleaseStep, Moves, Stopped, Closed, Released, Unreleased, Stopping
      <3> QED BY <1>2, <3>1, <3>2, ThreadsAre
    <2> QED BY <1>8, <2>1, <2>2, <2>3, <2>4, <2>5, MainMoves
  <1> QED BY <1>5, <1>6, <1>7, <1>8

LEMMA RefusalsKept ==
  ASSUME EncoderInv, Steps, conf' = conf
  PROVE  Refusals'
  <1>0. /\ refused \in {0, 1} /\ (HasLookAhead => refused = 0)
        /\ refused = 1 => th["main"].pc \in {"thrown"} \cup Stopping
        /\ th["main"].pc = "thrown" => refused = 1
        /\ HasLookAhead' = HasLookAhead /\ FirstStop \in Stopping
    BY SettingsKept DEF EncoderInv, Refusals, FirstStop, Stopping
  <1>1. CASE RefuseStep
    <2>1. refused' = refused + 1 /\ ~HasLookAhead /\ th["main"].pc = "encode" /\ th'["main"].pc = "thrown"
      BY <1>1 DEF RefuseStep, Moves
    <2>2. refused = 0
      BY <1>0, <2>1 DEF Stopping
    <2> QED BY <1>0, <2>1, <2>2 DEF Refusals
  <1>2. CASE ~RefuseStep
    <2>1. refused' = refused
      BY <1>2
      DEF Steps, QuietStep, MainStep, SourceStep, InputStep, EmptiedStep, FifoStep, KeepStep, PassStep,
          EncodeStep, DestroyStep, ReleaseStep, EndStep, PutStep, BackStep, DoneStep, SliceStep
    <2>2. th["main"].pc \in {"thrown"} \cup Stopping => th'["main"].pc \in {"thrown"} \cup Stopping
      <3>1. CASE th["main"].pc \in Stopping
        <4>1. \A e \in Encoders : Ways(e).b \in Stopping /\ Ways(e).c \in Stopping /\ Ways(e).d \in Stopping
          BY WaysAre, ThreadsAre DEF Stopping
        <4>2. ASSUME NEW e \in Encoders, DestroyStep(e) \/ ReleaseStep(e) PROVE th'["main"].pc \in Stopping
          BY <4>1, <4>2 DEF DestroyStep, ReleaseStep, Moves
        <4>3. "end" \in Stopping
          BY DEF Stopping
        <4> QED BY <3>1, <4>2, <4>3, MainMoves
      <3>2. CASE th["main"].pc = "thrown"
        <4> DEFINE Good == th'["main"].pc \in {"thrown"} \cup Stopping
        <4>1. ASSUME NEW t, Only(t), t # "main" PROVE Good
          BY <3>2, <4>1, ThreadsAre DEF Only
        <4>2. "main" \notin Used /\ "main" # "lookahead"
          BY UsedAre, ThreadsAre
        <4>3. ASSUME NEW t \in Threads, NEW x, NEW y, Moves(t, x, y), x # "thrown" PROVE Good
          BY <3>2, <4>1, <4>3 DEF Moves
        <4>4. Used \subseteq Threads
          BY UsedAre, ThreadsAre
        <4>5. CASE QuietStep
          <5>1. CASE Moves("main", "thrown", FirstStop)
            BY <1>0, <5>1 DEF Moves
          <5>2. CASE \E t \in Threads, w \in Waits : Moves(t, w[1], w[2])
            <6>1. PICK t \in Threads, w \in Waits : Moves(t, w[1], w[2])
              BY <5>2
            <6>2. w[1] # "thrown"
              BY DEF Waits
            <6> QED BY <4>3, <6>1, <6>2
          <5> QED BY <4>3, <4>4, <4>5, <5>1, <5>2, ThreadsAre DEF QuietStep
        <4>6. CASE MainStep
          BY <3>2, <4>6 DEF MainStep, SourceStep, FifoStep, InputStep, EmptiedStep, Moves
        <4>7. CASE KeepStep \/ PassStep
          BY <4>1, <4>2, <4>7 DEF KeepStep, PassStep, Moves
        <4>8. ASSUME NEW t \in Threads, EncodeStep(t) PROVE Good
          BY <4>3, <4>8 DEF EncodeStep
        <4>9. ASSUME NEW e \in Encoders, DestroyStep(e) \/ ReleaseStep(e) PROVE Good
          BY <3>2, <4>9, WaysAre, ThreadsAre DEF DestroyStep, ReleaseStep, Moves
        <4>10. ASSUME NEW e \in Used, EndStep(e) \/ PutStep(e) \/ BackStep(e) \/ DoneStep(e) PROVE Good
          BY <4>1, <4>2, <4>10 DEF EndStep, PutStep, BackStep, DoneStep, Moves
        <4>11. ASSUME NEW e \in Used, NEW i \in 1 .. Len(enc[e].frames), SliceStep(e, i) PROVE Good
          BY <4>1, <4>2, <4>11 DEF SliceStep
        <4> QED BY <1>2, <4>5, <4>6, <4>7, <4>8, <4>9, <4>10, <4>11 DEF Steps
      <3> QED BY <3>1, <3>2
    <2>3. th'["main"].pc = "thrown" => th["main"].pc = "thrown"
      <3> DEFINE Good == th'["main"].pc = "thrown" => th["main"].pc = "thrown"
      <3>1. ASSUME NEW t, Only(t), t # "main" PROVE Good
        BY <3>1, ThreadsAre DEF Only
      <3>2. "main" \notin Used /\ "main" # "lookahead"
        BY UsedAre, ThreadsAre
      <3>3. ASSUME NEW t \in Threads, NEW x, NEW y, Moves(t, x, y), y # "thrown" PROVE Good
        BY <3>1, <3>3 DEF Moves
      <3>4. Used \subseteq Threads /\ "thrown" \notin Stopping
        BY UsedAre, ThreadsAre DEF Stopping
      <3>5. CASE QuietStep
        <4>2. CASE \E t \in Threads, w \in Waits : Moves(t, w[1], w[2])
          <5>1. PICK t \in Threads, w \in Waits : Moves(t, w[1], w[2])
            BY <4>2
          <5>2. w[2] # "thrown"
            BY DEF Waits
          <5> QED BY <3>3, <5>1, <5>2
        <4>3. CASE \E t \in Threads : Moves(t, "dropTable", Return(t))
          <5>1. \A t : Return(t) # "thrown"
            BY DEF Return
          <5> QED BY <3>3, <4>3, <5>1
        <4>4. FirstStop # "thrown"
          BY DEF FirstStop
        <4> QED BY <3>3, <3>4, <3>5, <4>2, <4>3, <4>4, ThreadsAre DEF QuietStep
      <3>6. CASE MainStep
        BY <3>6 DEF MainStep, SourceStep, FifoStep, InputStep, EmptiedStep, Moves
      <3>7. CASE KeepStep \/ PassStep
        BY <3>1, <3>2, <3>7 DEF KeepStep, PassStep, Moves
      <3>8. ASSUME NEW t \in Threads, EncodeStep(t) PROVE Good
        BY <3>3, <3>8 DEF EncodeStep
      <3>9. ASSUME NEW e \in Encoders, DestroyStep(e) \/ ReleaseStep(e) PROVE Good
        BY <3>9, WaysAre, ThreadsAre DEF DestroyStep, ReleaseStep, Moves
      <3>10. ASSUME NEW e \in Used, EndStep(e) \/ PutStep(e) \/ BackStep(e) \/ DoneStep(e) PROVE Good
        BY <3>1, <3>2, <3>10 DEF EndStep, PutStep, BackStep, DoneStep, Moves
      <3>11. ASSUME NEW e \in Used, NEW i \in 1 .. Len(enc[e].frames), SliceStep(e, i) PROVE Good
        BY <3>1, <3>2, <3>11 DEF SliceStep
      <3> QED BY <1>2, <3>5, <3>6, <3>7, <3>8, <3>9, <3>10, <3>11 DEF Steps
    <2> QED BY <1>0, <2>1, <2>2, <2>3 DEF Refusals, Stopping
  <1> QED BY <1>1, <1>2

LEMMA MainTurnsAre ==
  ASSUME Steps
  PROVE  th'["main"] = th["main"] \/ MainTurns
  <1> DEFINE Good == th'["main"] = th["main"] \/ MainTurns
  <1>1. ASSUME NEW t, Only(t), t # "main" PROVE Good
    BY <1>1, ThreadsAre DEF Only
  <1>2. "main" \notin Used /\ "main" # "lookahead"
    BY UsedAre, ThreadsAre
  <1>10. CASE QuietStep
    <2>3. CASE \E u \in Threads, w \in Waits : Moves(u, w[1], w[2])
      <3>1. PICK u \in Threads, w \in Waits : Moves(u, w[1], w[2])
        BY <2>3
      <3>2. CASE u = "main"
        BY <3>1, <3>2 DEF Waits, MainTurns
      <3> QED BY <1>1, <3>1, <3>2 DEF Moves
    <2>4. CASE \E u \in Threads : Moves(u, "dropTable", Return(u))
      <3>1. PICK u \in Threads : Moves(u, "dropTable", Return(u))
        BY <2>4
      <3>2. CASE u = "main"
        BY <3>1, <3>2 DEF MainTurns, Return
      <3> QED BY <1>1, <3>1, <3>2 DEF Moves
    <2>5. CASE \E e \in Used : \/ Moves(e, "poll", "wait") \/ Moves(e, "poll", "ended")
                               \/ Moves(e, "wait", "poll") \/ Moves(e, "releaseTable", "done")
                               \/ Moves(e, "unref", "poll")
      BY <1>1, <1>2, <2>5 DEF Moves
    <2>6. CASE \/ Moves("main", "sourceWait", "source") \/ Moves("main", "source", "sourceWait")
               \/ Moves("main", "source", "eos") /\ next \notin Pictures
               \/ Moves("main", "thrown", FirstStop) \/ Moves("main", "pools", "end")
               \/ Moves("main", "lookaheadDone", "fifo") /\ eosFinished
               \/ Moves("main", "finish", FirstStop) /\ hFinished
      BY <2>6 DEF MainTurns
    <2> QED BY <1>10, <2>3, <2>4, <2>5, <2>6 DEF QuietStep
  <1>11. CASE MainStep \/ RefuseStep \/ \E e \in Encoders : DestroyStep(e) \/ ReleaseStep(e)
    BY <1>11 DEF MainTurns
  <1>12. CASE KeepStep \/ PassStep
    BY <1>1, <1>2, <1>12 DEF KeepStep, PassStep, Moves
  <1>13. ASSUME NEW t \in Threads, EncodeStep(t) PROVE Good
    <2>1. CASE t = "main"
      BY <1>13, <2>1 DEF MainTurns
    <2> QED BY <1>1, <1>13, <2>1 DEF EncodeStep, Moves
  <1>14. ASSUME NEW e \in Used, EndStep(e) \/ PutStep(e) \/ BackStep(e) \/ DoneStep(e) PROVE Good
    BY <1>1, <1>2, <1>14 DEF EndStep, PutStep, BackStep, DoneStep, Moves
  <1>15. ASSUME NEW e \in Used, NEW i \in 1 .. Len(enc[e].frames), SliceStep(e, i) PROVE Good
    BY <1>1, <1>2, <1>15 DEF SliceStep
  <1> QED BY <1>10, <1>11, <1>12, <1>13, <1>14, <1>15 DEF Steps

\* The other variables, each changed by a few of the steps.
LEMMA VariablesOf ==
  ASSUME Steps
  PROVE  /\ fifo' = fifo \/ KeepStep \/ PassStep \/ FifoStep
         /\ eosFinished' => eosFinished \/ EndStep("lookahead")
         /\ hFinished' => hFinished \/ EndStep("encoder")
         /\ given' = given \/ Encodes("encoder")
         /\ next' = next \/ SourceStep
         /\ refused' = refused \/ RefuseStep
  <1> DEFINE Good == /\ fifo' = fifo \/ KeepStep \/ PassStep \/ FifoStep
                     /\ eosFinished' => eosFinished \/ EndStep("lookahead")
                     /\ hFinished' => hFinished \/ EndStep("encoder")
                     /\ given' = given \/ Encodes("encoder")
                     /\ next' = next \/ SourceStep
                     /\ refused' = refused \/ RefuseStep
  <1>1. CASE QuietStep
    BY <1>1 DEF QuietStep
  <1>2. CASE MainStep
    BY <1>2 DEF MainStep, SourceStep, InputStep, EmptiedStep, FifoStep
  <1>3. CASE RefuseStep \/ KeepStep \/ PassStep
    BY <1>3 DEF RefuseStep, KeepStep, PassStep
  <1>4. ASSUME NEW t \in Threads, EncodeStep(t) PROVE Good
    BY <1>4 DEF EncodeStep, Encodes
  <1>5. ASSUME NEW e \in Encoders, DestroyStep(e) \/ ReleaseStep(e) PROVE Good
    BY <1>5 DEF DestroyStep, ReleaseStep
  <1>6. ASSUME NEW e \in Used, EndStep(e) PROVE Good
    <2>1. e \in {"lookahead", "encoder"}
      BY UsedAre, ThreadsAre
    <2> QED BY <1>6, <2>1, ThreadsAre DEF EndStep
  <1>7. ASSUME NEW e \in Used, PutStep(e) \/ BackStep(e) \/ DoneStep(e) PROVE Good
    BY <1>7 DEF PutStep, BackStep, DoneStep
  <1>8. ASSUME NEW e \in Used, NEW i \in 1 .. Len(enc[e].frames), SliceStep(e, i) PROVE Good
    BY <1>8 DEF SliceStep
  <1> QED BY <1>1, <1>2, <1>3, <1>4, <1>5, <1>6, <1>7, <1>8 DEF Steps

\* While the lookahead reports a picture, its stream has not ended and main is not past it.
LEMMA LookAheadBusy ==
  ASSUME EncoderInv, th["lookahead"].pc \notin {"poll", "wait", "ended"}
  PROVE  /\ HasLookAhead /\ refused = 0 /\ ~bEndOfStream /\ enc["lookahead"].eos # "told"
         /\ enc["encoder"].eos = "no"
         /\ th["main"].pc \notin {"fifo", "finish"} \cup Stopping
         /\ Passing("main") => th["main"].e = "lookahead"
  <1>0. TypeOK /\ ThreadPlaces /\ EndsOfStream /\ Refusals
    BY DEF EncoderInv
  <1>1. HasLookAhead /\ refused = 0
    BY <1>0 DEF ThreadPlaces, Idle, Refusals
  <1>2. enc["lookahead"].eos # "told" /\ ~bEndOfStream
    BY <1>0, ThreadsAre DEF EndsOfStream
  <1>3. enc["lookahead"].eos \in {"no", "asked", "told"}
    BY <1>0, ContextIs, ThreadsAre DEF TypeOK
  <1>4. Feeding \/ th["main"].pc = "lookaheadDone"
    BY <1>0, <1>1, <1>2, <1>3 DEF EndsOfStream
  <1>5. th["main"].pc \notin {"fifo", "finish"} \cup Stopping
    BY <1>4 DEF Feeding, Passing, Stopping
  <1> QED BY <1>0, <1>1, <1>2, <1>5 DEF EndsOfStream, ThreadPlaces

\* What is passed to an encoder is passed before the end of its stream.
LEMMA StreamOpen ==
  ASSUME EncoderInv, NEW t \in Threads, NEW e \in Encoders, Before(t, e)
  PROVE  enc[e].eos # "told" /\ (e = "encoder" => enc[e].eos = "no")
  <1>0. ThreadPlaces /\ EndsOfStream
    BY DEF EncoderInv
  <1>1. CASE t = "lookahead"
    <2>1. e = "encoder" /\ th["lookahead"].pc \notin {"poll", "wait", "ended"}
      BY <1>0, <1>1 DEF Before, ThreadPlaces
    <2> QED BY <2>1, LookAheadBusy
  <1>2. CASE t = "main"
    <2>1. th["main"].pc \notin {"finish"} \cup Stopping /\ Passing("main")
      BY <1>2 DEF Before, Stopping, Passing
    <2>2. e = "lookahead" => ~bEndOfStream
      BY <1>0, <1>2, <2>1 DEF ThreadPlaces, Before
    <2> QED BY <1>0, <2>1, <2>2, ThreadsAre DEF EndsOfStream
  <1>3. t # "encoder"
    BY <1>0, ThreadsAre DEF ThreadPlaces, Before
  <1> QED BY <1>1, <1>2, <1>3, ThreadsAre

LEMMA EndsKept ==
  ASSUME EncoderInv, Kinds, Steps, conf' = conf
  PROVE  EndsOfStream'
  <1>0. TypeOK /\ ThreadPlaces /\ EndsOfStream /\ Refusals
    BY DEF EncoderInv
  <1>1. /\ HasLookAhead' = HasLookAhead /\ FirstSink' = FirstSink /\ FirstStop \in Stopping
        /\ "main" # "lookahead" /\ "main" # "encoder" /\ "lookahead" \in Encoders /\ "encoder" \in Encoders
        /\ FirstSink = (IF HasLookAhead THEN "lookahead" ELSE "encoder") /\ "lookahead" # "encoder"
    BY SettingsKept, ThreadsAre, UsedAre DEF FirstStop, Stopping
  <1>2. \A e \in Encoders : enc[e].eos \in {"no", "asked", "told"}
    BY <1>0, ContextIs DEF TypeOK
  <1>3. \A e \in Encoders : Encodes(e) => enc[e].eos # "told" /\ (e = "encoder" => enc[e].eos = "no")
    <2>1. ASSUME NEW e \in Encoders, NEW t \in Threads, EncodeStep(t), th[t].e = e PROVE Before(t, e)
      BY <2>1 DEF EncodeStep, Moves, Before
    <2> QED BY <2>1, StreamOpen DEF Encodes
  <1>4. \A e \in Encoders : enc'[e].eos = enc[e].eos \/ Asks(e) \/ EndStep(e)
    BY FieldsOf DEF SameEnd
  <1>5. \A e \in Encoders : Asks(e) => enc[e].eos = "no" /\ enc'[e].eos = "asked"
    <2>1. ASSUME InputStep
          PROVE  enc[FirstSink].eos = "no" /\ enc'[FirstSink].eos = "asked"
      <3>1. th["main"].pc = "eos" /\ Calls(FirstSink, EndOfStream(enc[FirstSink]))
        BY <2>1 DEF InputStep, Moves
      <3>2. enc'[FirstSink].eos = "asked"
        BY <1>0, <1>1, <3>1, EndFacts DEF EndCalls
      <3>3. enc[FirstSink].eos = "no"
        BY <1>0, <1>1, <3>1 DEF EndsOfStream, Feeding, Stopping
      <3> QED BY <3>2, <3>3
    <2>2. ASSUME EmptiedStep
          PROVE  enc["encoder"].eos = "no" /\ enc'["encoder"].eos = "asked"
      <3>1. th["main"].pc = "fifo" /\ Calls("encoder", EndOfStream(enc["encoder"]))
        BY <2>2 DEF EmptiedStep, Moves
      <3>2. enc'["encoder"].eos = "asked"
        BY <1>0, <1>1, <3>1, EndFacts DEF EndCalls
      <3>3. enc["encoder"].eos = "no"
        BY <1>0, <1>1, <3>1 DEF EndsOfStream, Feeding, Stopping
      <3> QED BY <3>2, <3>3
    <2> QED BY <2>1, <2>2 DEF Asks
  <1>6. \A e \in Encoders : EndStep(e) =>
          enc[e].eos = "asked" /\ enc'[e].eos = "told" /\ enc[e].frames = <<>> /\ Moves(e, "wait", "poll")
    BY <1>0, EndFacts DEF EndStep, EndCalls
  <1>7. \A e \in Encoders : enc'[e].eos = "told" =>
          enc'[e].frames = <<>> /\ th'[e].pc \in {"poll", "wait", "ended"}
    <2> SUFFICES ASSUME NEW e \in Encoders, enc'[e].eos = "told"
                 PROVE  enc'[e].frames = <<>> /\ th'[e].pc \in {"poll", "wait", "ended"}
      OBVIOUS
    <2>1. enc[e].eos = "told" \/ EndStep(e)
      BY <1>4, <1>5
    <2>2. enc[e].frames = <<>> /\ (enc[e].eos = "told" => th[e].pc \in {"poll", "wait", "ended"})
      BY <1>0, <1>6, <2>1 DEF EndsOfStream
    <2>3. ~Slices(e)
      BY <2>2 DEF Slices
    <2>4. ~Encodes(e)
      <3>1. ASSUME EndStep(e), Encodes(e) PROVE FALSE
        <4>1. enc'[e].frames # <<>>
          <5>1. PICK t \in Threads : EncodeStep(t) /\ th[t].e = e
            BY <3>1 DEF Encodes
          <5>2. enc'[e].frames = Append(enc[e].frames, th[t].p)
            BY <5>1, EncodeFacts
          <5>3. enc[e].frames = <<>> /\ th[t].p \in Pictures
            BY <1>6, <3>1, <5>1, EncodeFacts
          <5>4. Append(<<>>, th[t].p) # <<>>
            OBVIOUS
          <5> QED BY <5>2, <5>3, <5>4
        <4>2. enc'[e].frames = enc[e].frames
          <5>1. EndCalls(e)
            BY <3>1 DEF EndStep, EndCalls
          <5> QED BY <1>0, <5>1, EndFacts DEF SameFrames
        <4> QED BY <1>6, <3>1, <4>1, <4>2
      <3> QED BY <1>3, <2>1, <3>1
    <2>5. enc'[e].frames = enc[e].frames
      BY <2>3, <2>4, FieldsOf DEF SameFrames
    <2>6. th'[e].pc \in {"poll", "wait", "ended"}
      <3>1. CASE EndStep(e)
        BY <1>6, <3>1 DEF Moves
      <3>2. CASE enc[e].eos = "told"
        <4>1. th[e].pc \in {"poll", "wait", "ended"}
          BY <2>2, <3>2
        <4>2. ~(e = "lookahead" /\ SinkTurns)
          BY <4>1 DEF SinkTurns, EncodeStep, KeepStep, PassStep, Moves
        <4>3. Turns(e) => th'[e].pc \in {"poll", "wait", "ended"}
          BY <2>3, <4>1 DEF Turns, EndStep, PutStep, BackStep, DoneStep, Moves
        <4> QED BY <4>1, <4>2, <4>3, StatusMoves
      <3> QED BY <2>1, <3>1, <3>2
    <2> QED BY <2>2, <2>5, <2>6
  <1>8. bEndOfStream' <=> enc'["lookahead"].eos = "told"
    <2>1. EndStep("lookahead") => bEndOfStream'
      BY DEF EndStep
    <2>2. bEndOfStream <=> enc["lookahead"].eos = "told"
      BY <1>0 DEF EndsOfStream
    <2>3. bEndOfStream' \in BOOLEAN /\ bEndOfStream \in BOOLEAN
      BY <1>0 DEF Kinds, TypeOK
    <2> QED BY <1>1, <1>4, <1>5, <1>6, <2>1, <2>2, <2>3, EndOfStreamSet
  <1>9. eosFinished' => bEndOfStream'
    <2>1. eosFinished => bEndOfStream
      BY <1>0 DEF EndsOfStream
    <2>2. bEndOfStream => bEndOfStream'
      BY EndOfStreamSet
    <2> QED BY <2>1, <2>2, VariablesOf DEF EndStep
  <1>10. hFinished' => enc'["encoder"].eos = "told"
    <2>1. hFinished => enc["encoder"].eos = "told"
      BY <1>0 DEF EndsOfStream
    <2> QED BY <1>1, <1>4, <1>5, <1>6, <2>1, VariablesOf
  <1>11. HasLookAhead =>
           (enc'["lookahead"].eos = "no" <=> Feeding')
           /\ (enc'["lookahead"].eos = "asked" => th'["main"].pc = "lookaheadDone")
    <2> SUFFICES ASSUME HasLookAhead
                 PROVE  /\ enc'["lookahead"].eos = "no" <=> Feeding'
                        /\ enc'["lookahead"].eos = "asked" => th'["main"].pc = "lookaheadDone"
      OBVIOUS
    <2>0. /\ enc["lookahead"].eos = "no" <=> Feeding
          /\ enc["lookahead"].eos = "asked" => th["main"].pc = "lookaheadDone"
          /\ FirstSink = "lookahead" /\ refused = 0 /\ th["main"].pc # "thrown"
      BY <1>0, <1>1 DEF EndsOfStream, Refusals
    <2>1. CASE EndStep("lookahead")
      <3>1. th["main"].pc = "lookaheadDone" /\ th'["main"] = th["main"]
        BY <1>1, <1>6, <2>0, <2>1, ThreadsAre DEF Moves, Only
      <3>2. ~Feeding'
        BY <3>1 DEF Feeding, Passing
      <3> QED BY <1>1, <1>6, <2>1, <3>2
    <2>2. CASE bEndOfStream' = bEndOfStream /\ th'["main"] = th["main"]
      <3>1. Feeding' <=> Feeding
        BY <1>1, <2>2 DEF Feeding, Passing
      <3>2. ~Asks("lookahead") \/ enc["lookahead"].eos # "no"
        BY <1>1, <2>2 DEF Asks, InputStep, Moves
      <3> QED BY <1>1, <1>4, <1>5, <1>6, <2>0, <2>2, <3>1, <3>2
    <2>3. CASE bEndOfStream' = bEndOfStream /\ MainTurns /\ ~EndStep("lookahead")
      <3>1. CASE InputStep
        <4>1. Asks("lookahead") /\ th'["main"].pc = "lookaheadDone"
          BY <2>0, <3>1 DEF Asks, InputStep, Moves
        <4>2. ~Feeding'
          BY <4>1 DEF Feeding, Passing
        <4> QED BY <1>1, <1>5, <4>1, <4>2
      <3>2. CASE ~InputStep
        <4>1. enc'["lookahead"].eos = enc["lookahead"].eos
          BY <1>1, <1>4, <2>3, <3>2 DEF Asks
        <4>2. th["main"].pc = "lookaheadDone" => ~(enc["lookahead"].eos = "asked" /\ eosFinished)
          BY <1>0 DEF EndsOfStream
        <4>3. CASE \/ Moves("main", "sourceWait", "source") \/ Moves("main", "source", "sourceWait")
                   \/ Moves("main", "source", "eos")
          BY <2>0, <4>1, <4>3 DEF Moves, Feeding, Passing
        <4>4. CASE Moves("main", "lookaheadDone", "fifo") /\ eosFinished
          BY <2>0, <4>1, <4>2, <4>4 DEF Moves, Feeding, Passing
        <4>5. CASE Moves("main", "thrown", FirstStop) \/ Moves("main", "pools", "end") \/ Moves("main", "finish", FirstStop)
          <5>1. th'["main"].pc \in Stopping /\ ~Feeding
            BY <1>1, <2>0, <4>5 DEF Moves, Feeding, Passing, Stopping
          <5>2. ~Feeding'
            BY <5>1 DEF Stopping, Feeding, Passing
          <5>3. th["main"].pc # "lookaheadDone"
            BY <4>5 DEF Moves
          <5> QED BY <2>0, <4>1, <5>1, <5>2, <5>3
        <4>6. CASE \/ Moves("main", "tableWait", "table") \/ Moves("main", "table", "tableWait")
                   \/ Moves("main", "table", "encode") \/ EncodeStep("main")
          BY <1>1, <2>0, <2>3, <4>1, <4>6 DEF Moves, SameWork, Feeding, Passing, EncodeStep
        <4>7. CASE Moves("main", "dropTable", IF bEndOfStream THEN "fifo" ELSE "source")
          <5>1. th["main"].e = "lookahead" <=> ~bEndOfStream
            BY <1>0, <4>7, <2>0 DEF ThreadPlaces, Passing, Moves
          <5> QED BY <1>1, <2>0, <2>3, <4>1, <4>7, <5>1 DEF Moves, SameWork, Feeding, Passing
        <4>8. CASE RefuseStep
          BY <4>8 DEF RefuseStep
        <4>9. CASE SourceStep
          BY <1>1, <2>0, <2>3, <4>1, <4>9, StreamAt DEF SourceStep, Feeding, Passing
        <4>10. CASE FifoStep \/ EmptiedStep
          <5>1. bEndOfStream
            BY <4>10, StreamAt DEF FifoStep, EmptiedStep, Moves
          <5> QED BY <1>1, <2>0, <2>3, <4>1, <4>10, <5>1 DEF FifoStep, EmptiedStep, Moves, Feeding, Passing
        <4>11. ASSUME NEW e \in Encoders, DestroyStep(e) \/ ReleaseStep(e)
               PROVE  /\ enc'["lookahead"].eos = "no" <=> Feeding'
                      /\ enc'["lookahead"].eos = "asked" => th'["main"].pc = "lookaheadDone"
          <5>1. th["main"].pc \in Stopping /\ th'["main"].pc \in Stopping
            BY <4>11, WaysAre, ThreadsAre DEF DestroyStep, ReleaseStep, Moves, Stopping
          <5> QED BY <2>0, <4>1, <5>1 DEF Stopping, Feeding, Passing
        <4> QED
          BY <2>3, <3>2, <4>3, <4>4, <4>5, <4>6, <4>7, <4>8, <4>9, <4>10, <4>11 DEF MainTurns, MainStep
      <3> QED BY <3>1, <3>2
    <2> QED BY <2>1, <2>2, <2>3, EndOfStreamSet, MainTurnsAre
  <1>12. enc'["lookahead"].eos = "asked" => th'["main"].pc = "lookaheadDone"
    <2>1. CASE HasLookAhead
      BY <1>11, <2>1
    <2>2. CASE ~HasLookAhead
      <3>1. enc["lookahead"].eos = "no"
        BY <1>0, <2>2 DEF ThreadPlaces, CreateChannel
      <3> QED BY <2>2, <3>1, LookAheadUnused
    <2> QED BY <2>1, <2>2
  <1>13. LET D == {"finish"} \cup Stopping
         IN  /\ enc'["encoder"].eos = "no" <=> th'["main"].pc \notin D \/ refused' > 0
             /\ th'["main"].pc \in Stopping /\ refused' = 0 => enc'["encoder"].eos = "told"
             /\ th'["main"].pc \in D => fifo' = <<>>
    <2> DEFINE D == {"finish"} \cup Stopping
               Good == /\ enc'["encoder"].eos = "no" <=> th'["main"].pc \notin D \/ refused' > 0
                       /\ th'["main"].pc \in Stopping /\ refused' = 0 => enc'["encoder"].eos = "told"
                       /\ th'["main"].pc \in D => fifo' = <<>>
    <2> SUFFICES Good
      OBVIOUS
    <2>0. /\ enc["encoder"].eos = "no" <=> th["main"].pc \notin D \/ refused > 0
          /\ th["main"].pc \in Stopping /\ refused = 0 => enc["encoder"].eos = "told"
          /\ th["main"].pc \in D => fifo = <<>>
          /\ refused \in {0, 1}
          /\ refused = 1 => th["main"].pc \in {"thrown"} \cup Stopping
          /\ th["main"].pc = "thrown" => refused = 1
      BY <1>0 DEF EndsOfStream, Refusals
    <2>1. th["main"].pc \in D => fifo' = fifo
      <3>1. ~FifoStep \/ th["main"].pc \notin D
        BY DEF FifoStep, Stopping
      <3>2. KeepStep \/ PassStep => th["lookahead"].pc = "callback"
        BY DEF KeepStep, PassStep, Moves
      <3> QED BY <3>1, <3>2, LookAheadBusy, VariablesOf
    <2>2. \A x \in {"source", "sourceWait", "table", "tableWait", "encode", "dropTable", "thrown", "eos",
                    "lookaheadDone", "fifo"} : x \notin D
      BY DEF Stopping
    <2>3. (enc'["encoder"].eos = "told" /\ enc["encoder"].eos = "asked") \/ ~EndStep("encoder")
      BY <1>1, <1>6
    <2>4. enc["encoder"].eos \in {"no", "asked", "told"}
      BY <1>1, <1>2
    <2>5. D = {"finish"} \cup Stopping /\ "finish" \notin Stopping /\ "finish" \in D /\ Stopping \subseteq D
      BY DEF Stopping
    <2> HIDE DEF D
    <2>6. CASE th'["main"] = th["main"]
      <3>1. ~Asks("encoder")
        BY <1>1, <2>6 DEF Asks, InputStep, EmptiedStep, Moves
      <3>2. refused' = refused
        BY <2>6, VariablesOf DEF RefuseStep, Moves
      <3> QED BY <1>1, <1>4, <2>0, <2>1, <2>3, <2>4, <2>6, <3>1, <3>2
    <2>7. CASE EndStep("encoder")
      <3>1. th'["main"] = th["main"]
        BY <1>1, <1>6, <2>7, ThreadsAre DEF Moves, Only
      <3> QED BY <2>6, <3>1
    <2>8. CASE ~EndStep("encoder") /\ MainTurns
      <3>1. CASE InputStep
        <4>1. CASE HasLookAhead
          BY <1>1, <1>4, <2>0, <2>2, <2>5, <2>8, <3>1, <4>1 DEF InputStep, Moves, Asks, EmptiedStep
        <4>2. CASE ~HasLookAhead
          <5>1. Asks("encoder") /\ fifo' = fifo /\ fifo = <<>> /\ th'["main"].pc = "finish" /\ refused' = refused
                /\ th["main"].pc = "eos"
            BY <1>0, <1>1, <3>1, <4>2 DEF InputStep, Moves, Asks, ThreadPlaces
          <5> QED BY <1>1, <1>5, <2>0, <2>2, <2>5, <5>1
        <4> QED BY <4>1, <4>2
      <3>2. CASE EmptiedStep
        <4>1. Asks("encoder") /\ fifo' = <<>> /\ th'["main"].pc = "finish" /\ refused' = refused
              /\ th["main"].pc = "fifo"
          BY <3>2 DEF EmptiedStep, Moves, Asks
        <4> QED BY <1>1, <1>5, <2>0, <2>2, <2>5, <4>1
      <3>3. CASE ~InputStep /\ ~EmptiedStep
        <4>1. enc'["encoder"].eos = enc["encoder"].eos
          BY <1>1, <1>4, <2>8, <3>3 DEF Asks
        <4>2. ASSUME th["main"].pc \notin D, th'["main"].pc \notin D, refused' = refused \/ refused' = refused + 1
              PROVE  Good
          BY <2>0, <2>5, <4>1, <4>2
        <4>3. ASSUME th["main"].pc \in Stopping, th'["main"].pc \in Stopping PROVE Good
          <5>1. refused' = refused
            BY <4>3, VariablesOf DEF RefuseStep, Moves, Stopping
          <5> QED BY <2>0, <2>1, <2>5, <4>1, <4>3, <5>1
        <4>4. refused' = refused \/ refused' = refused + 1
          BY VariablesOf DEF RefuseStep
        <4>5. CASE Moves("main", "thrown", FirstStop)
          <5>1. refused' = refused /\ refused = 1
            BY <2>0, <4>5, VariablesOf DEF Moves, RefuseStep
          <5>2. fifo' = <<>>
            <6>1. ~HasLookAhead
              BY <1>0, <5>1 DEF Refusals
            <6> QED BY <1>0, <6>1, LookAheadUnused DEF ThreadPlaces
          <5>3. th["main"].pc = "thrown" /\ th'["main"].pc = FirstStop
            BY <4>5 DEF Moves
          <5> QED BY <1>1, <2>0, <2>2, <2>5, <4>1, <5>1, <5>2, <5>3
        <4>6. CASE Moves("main", "finish", FirstStop) /\ hFinished
          <5>1. enc["encoder"].eos = "told"
            BY <1>0, <4>6 DEF EndsOfStream
          <5>2. refused' = refused /\ refused = 0
            BY <2>0, <4>6, VariablesOf DEF Moves, RefuseStep, Stopping
          <5>3. th["main"].pc = "finish" /\ th'["main"].pc = FirstStop
            BY <4>6 DEF Moves
          <5> QED BY <1>1, <2>0, <2>1, <2>5, <4>1, <5>1, <5>2, <5>3
        <4>7. CASE \/ Moves("main", "pools", "end") \/ \E e \in Encoders : DestroyStep(e) \/ ReleaseStep(e)
          <5>1. th["main"].pc \in Stopping /\ th'["main"].pc \in Stopping
            BY <4>7, WaysAre, ThreadsAre DEF DestroyStep, ReleaseStep, Moves, Stopping
          <5> QED BY <4>3, <5>1
        <4>8. CASE \/ Moves("main", "sourceWait", "source") \/ Moves("main", "source", "sourceWait")
                   \/ Moves("main", "source", "eos") \/ Moves("main", "lookaheadDone", "fifo")
                   \/ Moves("main", "tableWait", "table") \/ Moves("main", "table", "tableWait")
                   \/ Moves("main", "table", "encode")
                   \/ Moves("main", "dropTable", IF bEndOfStream THEN "fifo" ELSE "source")
                   \/ EncodeStep("main") \/ RefuseStep \/ SourceStep \/ FifoStep
          <5>1. th["main"].pc \notin D /\ th'["main"].pc \notin D
            BY <2>2, <4>8 DEF Moves, EncodeStep, RefuseStep, SourceStep, FifoStep
          <5> QED BY <4>2, <4>4, <5>1
        <4> QED BY <2>8, <3>3, <4>5, <4>6, <4>7, <4>8 DEF MainTurns, MainStep
      <3> QED BY <3>1, <3>2, <3>3
    <2> QED BY <2>6, <2>7, <2>8, MainTurnsAre DEF D
  <1> QED BY <1>1, <1>7, <1>8, <1>9, <1>10, <1>11, <1>12, <1>13 DEF EndsOfStream

-----------------------------------------------------------------------------
(* The pictures in order *)

LEMMA OrderMoves ==
  ASSUME EncoderInv, Steps
  PROVE  \/ Unmoved \/ Encodes("encoder") \/ Encodes("lookahead") \/ Slices("lookahead")
         \/ KeepStep \/ PassStep \/ FifoStep \/ SourceStep \/ RefuseStep
  <1> SUFFICES ASSUME ~Encodes("encoder"), ~Encodes("lookahead"), ~Slices("lookahead"), ~KeepStep, ~PassStep,
                      ~FifoStep, ~SourceStep, ~RefuseStep
               PROVE  Unmoved
    OBVIOUS
  <1>0. \A t \in Threads : ~EncodeStep(t)
    <2>1. ASSUME NEW t \in Threads, EncodeStep(t) PROVE th[t].e \in {"lookahead", "encoder"}
      BY <2>1, EncodeFacts, ThreadsAre
    <2> QED BY <2>1 DEF Encodes
  <1>1. UNCHANGED <<given, fifo, next, refused>> /\ enc'["lookahead"].frames = enc["lookahead"].frames
    BY VariablesOf, FieldsOf, ThreadsAre DEF SameFrames
  <1>2. th'["main"].p = th["main"].p /\ (BM' <=> BM) /\ (BA' <=> BA)
    <2> DEFINE T == {"table", "tableWait", "encode"}
    <2>1. ASSUME NEW x, NEW y, Moves("main", x, y), x \in T <=> y \in T
          PROVE  th'["main"].p = th["main"].p /\ (BM' <=> BM) /\ (BA' <=> BA)
      BY <2>1 DEF Moves, SameWork, BM, BA, Before
    <2>2. FirstStop \notin T
      BY DEF FirstStop
    <2>3. ASSUME NEW e \in Encoders, DestroyStep(e) \/ ReleaseStep(e)
          PROVE  th'["main"].p = th["main"].p /\ (BM' <=> BM) /\ (BA' <=> BA)
      <3>1. Ways(e).a \notin T /\ Ways(e).b \notin T /\ Ways(e).c \notin T /\ Ways(e).d \notin T
        BY WaysAre, ThreadsAre
      <3> QED BY <2>1, <2>3, <3>1 DEF DestroyStep, ReleaseStep
    <2>4. CASE th'["main"] = th["main"]
      BY <2>4 DEF BM, BA, Before
    <2>5. CASE InputStep \/ EmptiedStep
      BY <2>1, <2>5 DEF InputStep, EmptiedStep
    <2> QED BY <1>0, <2>1, <2>2, <2>3, <2>4, <2>5, MainTurnsAre, ThreadsAre DEF MainTurns, MainStep
  <1>3. /\ th'["lookahead"].p = th["lookahead"].p /\ (BL' <=> BL) /\ (CB' <=> CB)
        /\ CB => th'["lookahead"].st = th["lookahead"].st
    <2> DEFINE T == {"table", "tableWait", "encode"}
               Good == /\ th'["lookahead"].p = th["lookahead"].p /\ (BL' <=> BL) /\ (CB' <=> CB)
                       /\ CB => th'["lookahead"].st = th["lookahead"].st
    <2>1. ASSUME NEW x, NEW y, Moves("lookahead", x, y), x \in T <=> y \in T, x # "callback", y # "callback"
          PROVE  Good
      BY <2>1 DEF Moves, SameWork, BL, CB, Before
    <2>4. CASE th'["lookahead"] = th["lookahead"]
      BY <2>4 DEF BL, CB, Before
    <2>5. CASE Turns("lookahead")
      <3>1. CASE EndStep("lookahead") \/ PutStep("lookahead") \/ BackStep("lookahead") \/ DoneStep("lookahead")
        BY <2>1, <3>1 DEF EndStep, PutStep, BackStep, DoneStep
      <3> QED BY <2>1, <2>5, <3>1 DEF Turns
    <2>6. CASE SinkTurns
      BY <1>0, <2>1, <2>6, ThreadsAre DEF SinkTurns
    <2> QED BY <2>4, <2>5, <2>6, StatusMoves, ThreadsAre
  <1> QED BY <1>1, <1>2, <1>3 DEF Unmoved

LEMMA NumbersNow ==
  NumbersHold
  <1>1. (BM \/ BL => Fed = 1) /\ (~BM /\ ~BL => Fed = 0)
    BY DEF Fed, One
  <1>2. (CB => Called = 1) /\ (~CB => Called = 0) /\ (BA => Fetched = 1) /\ (~BA => Fetched = 0)
    BY DEF Called, Fetched, One
  <1>3. OnTheWay = GivenLen + Fed
    BY DEF OnTheWay, GivenLen, Fed, BM, BL
  <1>4. Reported = OnTheWay + FifoLen + Called
    BY DEF Reported, FifoLen, Called, CB
  <1>5. Taken = Reported + FramesLen
    BY ThreadsAre DEF Taken, Accepted, FramesLen
  <1> QED BY <1>1, <1>2, <1>3, <1>4, <1>5 DEF NumbersHold

LEMMA NumbersThen ==
  NumbersHold'
  BY NumbersNow, PTL

LEMMA Naturals ==
  ASSUME TypeOK
  PROVE  /\ GivenLen \in Nat /\ FifoLen \in Nat /\ FramesLen \in Nat /\ next \in Nat /\ refused \in Nat
         /\ Fed \in Nat /\ Called \in Nat /\ Fetched \in Nat /\ OnTheWay \in Nat /\ Reported \in Nat
         /\ Taken \in Nat
  <1>1. Fed \in Nat /\ Called \in Nat /\ Fetched \in Nat
    BY DEF Fed, Called, Fetched, One
  <1>2. /\ GivenLen \in Nat /\ FifoLen \in Nat /\ FramesLen \in Nat /\ next \in Nat /\ refused \in Nat
        /\ OnTheWay \in Nat /\ Reported \in Nat /\ Taken \in Nat
    BY NumbersAre, ThreadsAre DEF GivenLen, FifoLen, FramesLen, Taken
  <1> QED BY <1>1, <1>2

LEMMA Sequences ==
  ASSUME TypeOK
  PROVE  given \in Seq(Pictures) /\ fifo \in Seq(Pictures) /\ enc["lookahead"].frames \in Seq(Pictures)
  BY ContextIs, ThreadsAre DEF TypeOK

LEMMA OrderIs ==
  ASSUME EncoderInv
  PROVE  TypeOK /\ Order
  <1>0. TypeOK /\ PicturesInOrder
    BY DEF EncoderInv
  <1>1. DOMAIN fifo = 1 .. FifoLen /\ DOMAIN enc["lookahead"].frames = 1 .. FramesLen
    BY <1>0, Sequences, LenProperties DEF FifoLen, FramesLen
  <1>2. given = [i \in 1 .. GivenLen |-> i]
    BY <1>0 DEF PicturesInOrder, GivenLen
  <1>3. (BM => th["main"].p = GivenLen + 1) /\ (BL => th["lookahead"].p = GivenLen + 1)
    BY <1>0, ThreadsAre DEF PicturesInOrder, GivenLen, BM, BL
  <1>4. /\ \A i \in 1 .. FifoLen : fifo[i] = OnTheWay + i
        /\ CB => th["lookahead"].st.pic = Reported
        /\ \A i \in 1 .. FramesLen : enc["lookahead"].frames[i] = Reported + i
    BY <1>0, <1>1 DEF PicturesInOrder, CB
  <1>5. (BA => th["main"].p = next - 1) /\ next - 1 = Taken + Fetched + refused /\ next <= NumPictures + 1
    BY <1>0 DEF PicturesInOrder, Taken, Fetched, BA
  <1> QED BY <1>0, <1>2, <1>3, <1>4, <1>5 DEF Order

\* Only one thread passes pictures to the encoder behind the LookAhead.
LEMMA OneFeeder ==
  ASSUME EncoderInv
  PROVE  /\ ~(BM /\ BL) /\ ~(BM /\ CB) /\ ~(BL /\ CB) /\ ~(BM /\ BA)
         /\ BL \/ CB \/ th["lookahead"].pc = "wait" => HasLookAhead
         /\ th["lookahead"].pc = "wait" \/ ~(BM /\ th["lookahead"].pc \notin {"poll", "wait", "ended"})
         /\ BA => HasLookAhead
         /\ th["main"].pc = "fifo" => ~BL /\ ~CB /\ HasLookAhead
  <1>0. ThreadPlaces
    BY DEF EncoderInv
  <1>1. BL => th["lookahead"].pc \notin {"poll", "wait", "ended", "callback"}
    BY DEF BL, Before
  <1>2. CB => th["lookahead"].pc \notin {"poll", "wait", "ended"}
    BY DEF CB
  <1>3. BM => Passing("main") /\ th["main"].e = "encoder"
    BY DEF BM, Before, Passing
  <1>4. BA => Passing("main") /\ th["main"].e = "lookahead"
    BY DEF BA, Before, Passing
  <1>5. th["lookahead"].pc = "wait" => HasLookAhead
    BY <1>0 DEF ThreadPlaces, Idle
  <1>6. BA => HasLookAhead
    BY <1>0, <1>4 DEF ThreadPlaces
  <1> QED BY <1>0, <1>1, <1>2, <1>3, <1>4, <1>5, <1>6, LookAheadBusy, StreamAt, ThreadsAre DEF BL, CB, Before

LEMMA OrderUnmoved ==
  ASSUME EncoderInv, Unmoved
  PROVE  Order' /\ Taken' = Taken /\ GivenLen' = GivenLen
  <1>1. GivenLen' = GivenLen /\ FifoLen' = FifoLen /\ FramesLen' = FramesLen
    BY DEF Unmoved, GivenLen, FifoLen, FramesLen
  <1>2. Fed' = Fed /\ Called' = Called /\ Fetched' = Fetched
    BY NumbersNow, NumbersThen DEF Unmoved, NumbersHold
  <1>3. OnTheWay' = OnTheWay /\ Reported' = Reported /\ Taken' = Taken
    BY <1>1, <1>2, NumbersNow, NumbersThen DEF NumbersHold
  <1> QED BY <1>1, <1>2, <1>3, OrderIs DEF Unmoved, Order

LEMMA OrderEncode ==
  ASSUME EncoderInv, Encodes("encoder")
  PROVE  Order' /\ Taken' = Taken /\ GivenLen' = GivenLen + 1
  <1>0. TypeOK /\ Order
    BY OrderIs
  <1>1. PICK t \in Threads : EncodeStep(t) /\ th[t].e = "encoder"
    BY DEF Encodes
  <1> DEFINE p == th[t].p
  <1>2. /\ Moves(t, "encode", "dropTable") /\ given' = Append(given, p)
        /\ UNCHANGED <<fifo, next, refused>>
        /\ enc'["lookahead"].frames = enc["lookahead"].frames /\ p \in Pictures
    <2>1. Others("encoder") /\ p \in Pictures
      BY <1>1, EncodeFacts
    <2> QED BY <1>1, <2>1, ThreadsAre DEF EncodeStep, Others
  <1>3. Before(t, "encoder") /\ t # "encoder"
    BY <1>1, ThreadsAre DEF EncodeStep, Moves, Before, EncoderInv, ThreadPlaces
  <1>4. (BM \/ BL) /\ ~BM' /\ ~BL' /\ (CB' <=> CB) /\ (BA' <=> BA) /\ p = GivenLen + 1
        /\ (CB => th'["lookahead"] = th["lookahead"]) /\ (BA => th'["main"] = th["main"])
    <2>1. CASE t = "main"
      <3>1. BM /\ ~BL /\ ~BA
        BY <1>3, <2>1, OneFeeder DEF BM
      <3>2. th'["lookahead"] = th["lookahead"] /\ th'["main"].pc = "dropTable"
        BY <1>2, <2>1, ThreadsAre DEF Moves, Only
      <3>3. ~BM' /\ ~BL' /\ ~BA' /\ (CB' <=> CB)
        BY <3>1, <3>2 DEF BM, BL, BA, CB, Before
      <3> QED BY <1>0, <2>1, <3>1, <3>2, <3>3 DEF Order
    <2>2. CASE t = "lookahead"
      <3>1. BL /\ ~BM /\ ~CB
        BY <1>3, <2>2, OneFeeder DEF BL
      <3>2. th'["main"] = th["main"] /\ th'["lookahead"].pc = "dropTable"
        BY <1>2, <2>2, ThreadsAre DEF Moves, Only
      <3>3. ~BM' /\ ~BL' /\ (BA' <=> BA) /\ ~CB'
        BY <3>1, <3>2 DEF BM, BL, BA, CB, Before
      <3> QED BY <1>0, <2>2, <3>1, <3>2, <3>3 DEF Order
    <2> QED BY <1>3, <2>1, <2>2, ThreadsAre
  <1> HIDE DEF p
  <1>5. /\ given' \in Seq(Pictures) /\ GivenLen' = GivenLen + 1
        /\ \A i \in 1 .. GivenLen : given'[i] = given[i]
        /\ given'[GivenLen + 1] = GivenLen + 1
    BY <1>0, <1>2, <1>4, SeqEnd, Sequences DEF GivenLen
  <1>6. given' = [i \in 1 .. GivenLen' |-> i]
    <2>1. given' \in [1 .. GivenLen' -> Pictures]
      BY <1>5, LenProperties DEF GivenLen
    <2>2. \A i \in 1 .. GivenLen : given[i] = i
      BY <1>0 DEF Order
    <2>3. GivenLen \in Nat
      BY <1>0, Naturals
    <2>4. \A i \in 1 .. GivenLen' : given'[i] = i
      <3>1. \A i \in 1 .. GivenLen + 1 : i \in 1 .. GivenLen \/ i = GivenLen + 1
        BY <2>3
      <3> QED BY <1>5, <2>2, <3>1
    <2> QED BY <2>1, <2>4
  <1>7. FifoLen' = FifoLen /\ FramesLen' = FramesLen
    BY <1>2 DEF FifoLen, FramesLen
  <1>8. Fed = 1 /\ Fed' = 0 /\ Called' = Called /\ Fetched' = Fetched
    BY <1>4, NumbersNow, NumbersThen DEF NumbersHold
  <1>9. OnTheWay' = OnTheWay /\ Reported' = Reported /\ Taken' = Taken
    BY <1>0, <1>5, <1>7, <1>8, Naturals, NumbersNow, NumbersThen DEF NumbersHold
  <1> QED BY <1>0, <1>2, <1>4, <1>5, <1>6, <1>7, <1>8, <1>9 DEF Order

LEMMA OrderLookAhead ==
  ASSUME EncoderInv, Encodes("lookahead")
  PROVE  Order' /\ Taken' = Taken + 1 /\ GivenLen' = GivenLen
  <1>0. TypeOK /\ Order
    BY OrderIs
  <1>1. PICK t \in Threads : EncodeStep(t) /\ th[t].e = "lookahead"
    BY DEF Encodes
  <1>2. t = "main"
    BY <1>1, ThreadsAre DEF EncodeStep, Moves, EncoderInv, ThreadPlaces
  <1> DEFINE p == th["main"].p
             a == enc["lookahead"].frames
             b == enc'["lookahead"].frames
  <1>3. /\ Moves("main", "encode", "dropTable") /\ UNCHANGED <<fifo, next, refused, given>>
        /\ b = Append(a, p) /\ p \in Pictures
    BY <1>1, <1>2, EncodeFacts, ThreadsAre DEF EncodeStep
  <1>4. BA /\ ~BM /\ HasLookAhead
    <2>1. BA
      BY <1>1, <1>2 DEF EncodeStep, Moves, BA, Before
    <2> QED BY <2>1, OneFeeder
  <1>5. ~BA' /\ ~BM' /\ (BL' <=> BL) /\ (CB' <=> CB) /\ th'["lookahead"] = th["lookahead"]
    <2>1. th'["lookahead"] = th["lookahead"] /\ th'["main"].pc = "dropTable"
      BY <1>3, ThreadsAre DEF Moves, Only
    <2> QED BY <2>1 DEF BM, BL, BA, CB, Before
  <1>6. Fetched = 1 /\ Fetched' = 0 /\ Fed' = Fed /\ Called' = Called
    BY <1>4, <1>5, NumbersNow, NumbersThen DEF NumbersHold
  <1>7. refused = 0
    BY <1>4 DEF EncoderInv, Refusals
  <1>8. p = next - 1 /\ next - 1 = Taken + 1
    BY <1>0, <1>4, <1>6, <1>7, Naturals DEF Order
  <1> HIDE DEF p
  <1>9. FramesLen' = FramesLen + 1 /\ (\A i \in 1 .. FramesLen : b[i] = a[i]) /\ b[FramesLen + 1] = p
    <2>1. a \in Seq(Pictures) /\ FramesLen = Len(a) /\ FramesLen' = Len(b)
      BY <1>0, Sequences DEF FramesLen
    <2> HIDE DEF a, b
    <2> QED BY <1>3, <2>1, SeqEnd
  <1>10. GivenLen' = GivenLen /\ FifoLen' = FifoLen
    BY <1>3 DEF GivenLen, FifoLen
  <1> HIDE DEF a, b
  <1>11. OnTheWay' = OnTheWay /\ Reported' = Reported /\ Taken' = Taken + 1 /\ Taken = Reported + FramesLen
    BY <1>0, <1>6, <1>9, <1>10, Naturals, NumbersNow, NumbersThen DEF NumbersHold
  <1>12. \A i \in 1 .. FramesLen' : b[i] = Reported' + i
    <2>1. \A i \in 1 .. FramesLen : a[i] = Reported + i
      BY <1>0 DEF Order, a
    <2>2. FramesLen \in Nat /\ Reported \in Nat
      BY <1>0, Naturals
    <2>3. b[FramesLen + 1] = Reported + (FramesLen + 1)
      BY <1>8, <1>9, <1>11, <2>2
    <2>4. \A i \in 1 .. FramesLen + 1 : i \in 1 .. FramesLen \/ i = FramesLen + 1
      BY <2>2
    <2> QED BY <1>9, <1>11, <2>1, <2>3, <2>4
  <1>13. /\ next' - 1 = Taken' + Fetched' + refused' /\ next' <= NumPictures + 1
    BY <1>0, <1>3, <1>6, <1>7, <1>8, <1>11, Naturals DEF Order
  <1> QED BY <1>0, <1>3, <1>5, <1>10, <1>11, <1>12, <1>13 DEF Order, b

LEMMA OrderSlice ==
  ASSUME EncoderInv, Slices("lookahead")
  PROVE  Order' /\ Taken' = Taken /\ GivenLen' = GivenLen
  <1>0. TypeOK /\ Order
    BY OrderIs
  <1> DEFINE a == enc["lookahead"].frames
             b == enc'["lookahead"].frames
  <1>1. SliceStep("lookahead", 1) /\ 1 \in 1 .. Len(a)
    BY DEF Slices
  <1>2. th["lookahead"].pc = "wait" /\ th'["lookahead"].pc = "callback" /\ th'["main"] = th["main"]
        /\ UNCHANGED <<given, fifo, next, refused>> /\ th'["lookahead"].p = th["lookahead"].p
    BY <1>1, ThreadsAre DEF SliceStep, Only
  <1>3. HasLookAhead /\ conf.numSlices = 1
    BY <1>0, <1>2, OneFeeder, SettingsAre DEF TypeOK
  <1>4. enc["lookahead"].slice = 0
    <2>1. enc["lookahead"].slice \in Nat /\ enc["lookahead"].slice < conf.numSlices
      BY ContextIs, ThreadsAre DEF EncoderInv, TypeOK, SourcesHeld
    <2> QED BY <1>3, <2>1
  <1>5. b = RemoveAt(a, 1) /\ th'["lookahead"].st.pic = a[1]
    <2>1. /\ th'["lookahead"].st.pic = a[1]
          /\ b = (IF enc["lookahead"].slice + 1 = conf.numSlices THEN RemoveAt(a, 1)
                  ELSE <<a[1]>> \o RemoveAt(a, 1))
      BY <1>0, <1>1, SliceFacts, ThreadsAre
    <2>2. enc["lookahead"].slice + 1 = conf.numSlices
      BY <1>3, <1>4
    <2> QED BY <2>1, <2>2
  <1>6. a \in Seq(Pictures) /\ FramesLen = Len(a) /\ FramesLen' = Len(b)
    BY <1>0, Sequences DEF FramesLen
  <1>7. \A i \in 1 .. FramesLen : a[i] = Reported + i
    BY <1>0 DEF Order
  <1> HIDE DEF a, b
  <1>8. FramesLen' = FramesLen - 1 /\ \A i \in 1 .. FramesLen - 1 : b[i] = a[i + 1]
    <2>1. Len(b) = Len(a) - 1 /\ \A i \in 1 .. Len(a) - 1 : b[i] = a[IF i < 1 THEN i ELSE i + 1]
      BY <1>1, <1>5, <1>6, SeqWithout
    <2> QED BY <1>6, <2>1
  <1>9. ~CB /\ CB' /\ (BM' <=> BM) /\ (BA' <=> BA) /\ ~BL /\ ~BL'
    BY <1>2 DEF BM, BL, BA, CB, Before
  <1>10. GivenLen' = GivenLen /\ FifoLen' = FifoLen
    BY <1>2 DEF GivenLen, FifoLen
  <1>11. Fed' = Fed /\ Fetched' = Fetched /\ Called = 0 /\ Called' = 1
    BY <1>9, NumbersNow, NumbersThen DEF NumbersHold
  <1>12. OnTheWay' = OnTheWay /\ Reported' = Reported + 1 /\ Taken' = Taken
    BY <1>0, <1>8, <1>10, <1>11, Naturals, NumbersNow, NumbersThen DEF NumbersHold
  <1>13. FramesLen \in Nat /\ Reported \in Nat
    BY <1>0, Naturals
  <1>14. th'["lookahead"].st.pic = Reported'
    BY <1>1, <1>5, <1>6, <1>7, <1>12
  <1>15. \A i \in 1 .. FramesLen' : b[i] = Reported' + i
    <2>1. \A i \in 1 .. FramesLen - 1 : i + 1 \in 1 .. FramesLen /\ Reported + (i + 1) = Reported + 1 + i
      BY <1>13
    <2> QED BY <1>7, <1>8, <1>12, <2>1
  <1> QED BY <1>0, <1>2, <1>9, <1>10, <1>11, <1>12, <1>14, <1>15 DEF Order, b

\* The picture the lookahead reports.
LEMMA PictureReported ==
  ASSUME EncoderInv, th["lookahead"].pc = "callback"
  PROVE  th["lookahead"].st.pic \in Pictures /\ th["lookahead"].st.pic = Reported /\ CB
  <1>1. InCallback("lookahead")
    BY DEF InCallback
  <1>2. th["lookahead"].st.pic >= 1 /\ th["lookahead"].st.pic \in Pictures \cup {0}
    BY <1>1, ThreadsAre DEF EncoderInv, SourcesHeld, TypeOK, ThreadStates, Statuses
  <1> QED BY <1>2, OrderIs DEF Order, CB

LEMMA OrderKeep ==
  ASSUME EncoderInv, KeepStep
  PROVE  Order' /\ Taken' = Taken /\ GivenLen' = GivenLen
  <1>0. TypeOK /\ Order
    BY OrderIs
  <1> DEFINE p == th["lookahead"].st.pic
  <1>1. /\ Moves("lookahead", "callback", "put") /\ fifo' = Append(fifo, p)
        /\ UNCHANGED <<enc, next, given, refused>>
    BY DEF KeepStep
  <1>2. p = Reported /\ p \in Pictures /\ CB
    BY <1>1, PictureReported DEF Moves
  <1> HIDE DEF p
  <1>3. /\ FifoLen' = FifoLen + 1 /\ fifo'[FifoLen + 1] = Reported
        /\ \A i \in 1 .. FifoLen : fifo'[i] = fifo[i]
    BY <1>0, <1>1, <1>2, SeqEnd, Sequences DEF FifoLen
  <1>4. ~BL /\ ~BL' /\ ~CB' /\ th'["main"] = th["main"]
    BY <1>1, ThreadsAre DEF Moves, Only, BL, CB, Before
  <1>5. (BM' <=> BM) /\ (BA' <=> BA)
    BY <1>4 DEF BM, BA, Before
  <1>6. GivenLen' = GivenLen /\ FramesLen' = FramesLen
    BY <1>1 DEF GivenLen, FramesLen
  <1>7. Fed' = Fed /\ Fetched' = Fetched /\ Called = 1 /\ Called' = 0
    BY <1>2, <1>4, <1>5, NumbersNow, NumbersThen DEF NumbersHold
  <1>8. FifoLen \in Nat /\ OnTheWay \in Nat
    BY <1>0, Naturals
  <1>9. OnTheWay' = OnTheWay /\ Reported' = Reported /\ Taken' = Taken /\ Reported = OnTheWay + (FifoLen + 1)
    BY <1>0, <1>3, <1>6, <1>7, Naturals, NumbersNow, NumbersThen DEF NumbersHold
  <1>10. \A i \in 1 .. FifoLen' : fifo'[i] = OnTheWay' + i
    <2>1. \A i \in 1 .. FifoLen : fifo[i] = OnTheWay + i
      BY <1>0 DEF Order
    <2>2. \A i \in 1 .. FifoLen + 1 : i \in 1 .. FifoLen \/ i = FifoLen + 1
      BY <1>8
    <2> QED BY <1>3, <1>9, <2>1, <2>2
  <1> QED BY <1>0, <1>1, <1>4, <1>5, <1>6, <1>7, <1>9, <1>10 DEF Order

LEMMA OrderPass ==
  ASSUME EncoderInv, PassStep
  PROVE  Order' /\ Taken' = Taken /\ GivenLen' = GivenLen
  <1>0. TypeOK /\ Order
    BY OrderIs
  <1> DEFINE p == th["lookahead"].st.pic
             kept == Append(fifo, p)
  <1>1. /\ th["lookahead"].pc = "callback" /\ th'["lookahead"].pc = "table" /\ Only("lookahead")
        /\ th'["lookahead"].e = th["lookahead"].e
        /\ th'["lookahead"].p = Head(kept) /\ fifo' = Tail(kept)
        /\ UNCHANGED <<enc, next, given, refused>>
    BY DEF PassStep
  <1>2. p = Reported /\ p \in Pictures /\ CB
    BY <1>1, PictureReported
  <1> HIDE DEF p
  <1>3. /\ kept \in Seq(Pictures) /\ Len(kept) = FifoLen + 1 /\ kept[FifoLen + 1] = Reported
        /\ \A i \in 1 .. FifoLen : kept[i] = fifo[i]
    BY <1>0, <1>2, SeqEnd, Sequences DEF FifoLen
  <1> HIDE DEF kept
  <1>4. ~BL /\ BL' /\ ~CB' /\ th'["main"] = th["main"] /\ ~BM
    <2>1. th["lookahead"].e = "encoder"
      BY DEF EncoderInv, ThreadPlaces
    <2>2. ~BM /\ ~BL
      BY <1>2, OneFeeder
    <2> QED BY <1>1, <2>1, <2>2, ThreadsAre DEF Only, BL, CB, Before
  <1>5. ~BM' /\ (BA' <=> BA)
    BY <1>4 DEF BM, BA, Before
  <1>6. FifoLen \in Nat /\ OnTheWay \in Nat /\ GivenLen \in Nat
    BY <1>0, Naturals
  <1>7. Fed = 0 /\ Fed' = 1 /\ Called = 1 /\ Called' = 0 /\ Fetched' = Fetched
    BY <1>2, <1>4, <1>5, NumbersNow, NumbersThen DEF NumbersHold
  <1>8. OnTheWay = GivenLen /\ Reported = OnTheWay + (FifoLen + 1)
    BY <1>0, <1>7, Naturals, NumbersNow DEF NumbersHold
  <1>9. \A i \in 1 .. FifoLen + 1 : kept[i] = OnTheWay + i
    <2>1. \A i \in 1 .. FifoLen : fifo[i] = OnTheWay + i
      BY <1>0 DEF Order
    <2>2. \A i \in 1 .. FifoLen + 1 : i \in 1 .. FifoLen \/ i = FifoLen + 1
      BY <1>6
    <2> QED BY <1>3, <1>8, <2>1, <2>2
  <1>10. /\ FifoLen' = FifoLen /\ th'["lookahead"].p = kept[1]
         /\ \A i \in 1 .. FifoLen : fifo'[i] = kept[i + 1]
    <2>1. kept # <<>>
      BY <1>3, <1>6, EmptySeq
    <2>2. /\ Head(kept) = kept[1] /\ Len(Tail(kept)) = Len(kept) - 1
          /\ \A i \in 1 .. Len(kept) - 1 : Tail(kept)[i] = kept[i + 1]
      BY <1>3, <2>1, SeqHead
    <2>3. Len(kept) - 1 = FifoLen
      BY <1>3, <1>6
    <2> QED BY <1>1, <2>2, <2>3 DEF FifoLen
  <1>11. GivenLen' = GivenLen /\ FramesLen' = FramesLen
    BY <1>1 DEF GivenLen, FramesLen
  <1>12. OnTheWay' = OnTheWay + 1 /\ Reported' = Reported /\ Taken' = Taken
    BY <1>0, <1>7, <1>8, <1>10, <1>11, Naturals, NumbersNow, NumbersThen DEF NumbersHold
  <1>13. th'["lookahead"].p = GivenLen + 1
    BY <1>6, <1>8, <1>9, <1>10
  <1>14. \A i \in 1 .. FifoLen' : fifo'[i] = OnTheWay' + i
    <2>1. \A i \in 1 .. FifoLen : i + 1 \in 1 .. FifoLen + 1 /\ OnTheWay + (i + 1) = OnTheWay + 1 + i
      BY <1>6
    <2> QED BY <1>9, <1>10, <1>12, <2>1
  <1> QED BY <1>0, <1>1, <1>4, <1>5, <1>7, <1>11, <1>12, <1>13, <1>14 DEF Order

LEMMA OrderFifo ==
  ASSUME EncoderInv, FifoStep
  PROVE  Order' /\ Taken' = Taken /\ GivenLen' = GivenLen
  <1>0. TypeOK /\ Order
    BY OrderIs
  <1>1. /\ fifo # <<>> /\ fifo' = Tail(fifo) /\ th["main"].pc = "fifo" /\ th'["main"].pc = "table"
        /\ Only("main") /\ th'["main"].e = "encoder" /\ th'["main"].p = Head(fifo)
        /\ UNCHANGED <<enc, next, given, refused>>
    BY DEF FifoStep
  <1>2. ~BM /\ ~BA /\ ~BL /\ ~CB
    BY <1>1, OneFeeder DEF BM, BA, Before
  <1>3. BM' /\ ~BA' /\ ~BL' /\ ~CB'
    <2>1. th'["lookahead"] = th["lookahead"]
      BY <1>1, ThreadsAre DEF Only
    <2> QED BY <1>1, <1>2, <2>1, ThreadsAre DEF BM, BA, BL, CB, Before
  <1>4. /\ FifoLen' = FifoLen - 1 /\ FifoLen > 0 /\ Head(fifo) = fifo[1]
        /\ \A i \in 1 .. FifoLen - 1 : fifo'[i] = fifo[i + 1]
    BY <1>0, <1>1, SeqHead, Sequences DEF FifoLen
  <1>5. FifoLen \in Nat /\ OnTheWay \in Nat /\ GivenLen \in Nat
    BY <1>0, Naturals
  <1>6. Fed = 0 /\ Fed' = 1 /\ Called' = Called /\ Fetched' = Fetched
    BY <1>2, <1>3, NumbersNow, NumbersThen DEF NumbersHold
  <1>7. GivenLen' = GivenLen /\ FramesLen' = FramesLen
    BY <1>1 DEF GivenLen, FramesLen
  <1>8. OnTheWay = GivenLen /\ OnTheWay' = OnTheWay + 1 /\ Reported' = Reported /\ Taken' = Taken
    BY <1>0, <1>4, <1>6, <1>7, Naturals, NumbersNow, NumbersThen DEF NumbersHold
  <1>9. \A i \in 1 .. FifoLen : fifo[i] = OnTheWay + i
    BY <1>0 DEF Order
  <1>10. th'["main"].p = GivenLen + 1
    BY <1>1, <1>4, <1>5, <1>8, <1>9
  <1>11. \A i \in 1 .. FifoLen' : fifo'[i] = OnTheWay' + i
    <2>1. \A i \in 1 .. FifoLen - 1 : i + 1 \in 1 .. FifoLen /\ OnTheWay + (i + 1) = OnTheWay + 1 + i
      BY <1>5
    <2> QED BY <1>4, <1>8, <1>9, <2>1
  <1> QED BY <1>0, <1>1, <1>3, <1>6, <1>7, <1>8, <1>10, <1>11 DEF Order

LEMMA OrderSource ==
  ASSUME EncoderInv, SourceStep
  PROVE  Order' /\ (HasLookAhead => Taken' = Taken) /\ GivenLen' = GivenLen
  <1>0. TypeOK /\ Order
    BY OrderIs
  <1>1. /\ th["main"].pc = "source" /\ th'["main"].pc = "table" /\ Only("main")
        /\ th'["main"].e = FirstSink /\ th'["main"].p = next /\ next \in Pictures /\ next' = next + 1
        /\ UNCHANGED <<enc, fifo, given, refused>>
    BY DEF SourceStep
  <1>2. ~BM /\ ~BA
    BY <1>1 DEF BM, BA, Before
  <1>3. th'["lookahead"] = th["lookahead"] /\ (BL' <=> BL) /\ (CB' <=> CB)
    BY <1>1, ThreadsAre DEF Only, BL, CB, Before
  <1>4. refused = 0
    BY <1>1 DEF EncoderInv, Refusals, Stopping
  <1>5. next <= NumPictures /\ next \in Nat /\ NumPictures \in Nat
    BY <1>1, Sizes DEF Pictures
  <1>6. GivenLen' = GivenLen /\ FifoLen' = FifoLen /\ FramesLen' = FramesLen
    BY <1>1 DEF GivenLen, FifoLen, FramesLen
  <1>7. next' - 1 = next /\ next' <= NumPictures + 1
    BY <1>1, <1>5
  <1>8. CASE HasLookAhead
    <2>1. BA' /\ ~BM'
      BY <1>1, <1>8, UsedAre, ThreadsAre DEF BM, BA, Before
    <2>2. Fed' = Fed /\ Called' = Called /\ Fetched = 0 /\ Fetched' = 1
      BY <1>2, <1>3, <2>1, NumbersNow, NumbersThen DEF NumbersHold
    <2>3. OnTheWay' = OnTheWay /\ Reported' = Reported /\ Taken' = Taken
      BY <1>0, <1>6, <2>2, NumbersNow, NumbersThen DEF NumbersHold
    <2>4. next' - 1 = Taken' + Fetched' + refused'
      BY <1>0, <1>1, <1>4, <1>7, <2>2, <2>3, Naturals DEF Order
    <2> QED BY <1>0, <1>1, <1>3, <1>6, <1>7, <2>1, <2>3, <2>4 DEF Order
  <1>9. CASE ~HasLookAhead
    <2>1. ~BA' /\ BM'
      BY <1>1, <1>9, UsedAre, ThreadsAre DEF BM, BA, Before
    <2>2. ~BL /\ ~CB /\ FifoLen = 0 /\ FramesLen = 0
      BY <1>9, OneFeeder, EmptySeq DEF EncoderInv, ThreadPlaces, CreateChannel, FifoLen, FramesLen
    <2>3. Fed = 0 /\ Fed' = 1 /\ Called = 0 /\ Called' = 0 /\ Fetched = 0 /\ Fetched' = 0
      BY <1>2, <1>3, <2>1, <2>2, NumbersNow, NumbersThen DEF NumbersHold
    <2>4. Taken = GivenLen /\ OnTheWay' = GivenLen + 1 /\ Reported' = GivenLen + 1 /\ Taken' = GivenLen + 1
      BY <1>0, <1>6, <2>2, <2>3, Naturals, NumbersNow, NumbersThen DEF NumbersHold
    <2>5. next - 1 = GivenLen
      BY <1>0, <1>4, <2>3, <2>4, Naturals DEF Order
    <2>6. next = GivenLen + 1 /\ next' - 1 = Taken' + Fetched' + refused'
      BY <1>0, <1>1, <1>4, <1>5, <1>7, <2>3, <2>4, <2>5, Naturals
    <2> QED BY <1>0, <1>1, <1>3, <1>6, <1>7, <1>9, <2>1, <2>2, <2>6 DEF Order
  <1> QED BY <1>6, <1>8, <1>9

LEMMA OrderRefuse ==
  ASSUME EncoderInv, RefuseStep
  PROVE  Order' /\ ~HasLookAhead /\ GivenLen' = GivenLen
  <1>0. TypeOK /\ Order
    BY OrderIs
  <1>1. /\ Moves("main", "encode", "thrown") /\ ~HasLookAhead /\ th["main"].e = "encoder"
        /\ refused' = refused + 1 /\ UNCHANGED <<fifo, next, given>>
        /\ enc'["lookahead"] = enc["lookahead"]
    BY ThreadsAre DEF RefuseStep, Calls
  <1>2. BM /\ ~BA
    BY <1>1, ThreadsAre DEF BM, BA, Before, Moves
  <1>3. ~BM' /\ ~BA' /\ (BL' <=> BL) /\ (CB' <=> CB)
    BY <1>1, ThreadsAre DEF BM, BA, BL, CB, Before, Moves, Only
  <1>4. ~BL /\ ~CB /\ FifoLen = 0 /\ FramesLen = 0
    BY <1>1, OneFeeder, EmptySeq DEF EncoderInv, ThreadPlaces, CreateChannel, FifoLen, FramesLen
  <1>5. GivenLen' = GivenLen /\ FifoLen' = FifoLen /\ FramesLen' = FramesLen
    BY <1>1 DEF GivenLen, FifoLen, FramesLen
  <1>6. Fed = 1 /\ Fed' = 0 /\ Called = 0 /\ Called' = 0 /\ Fetched = 0 /\ Fetched' = 0
    BY <1>2, <1>3, <1>4, NumbersNow, NumbersThen DEF NumbersHold
  <1>7. Taken = GivenLen + 1 /\ Taken' = GivenLen
    BY <1>0, <1>4, <1>5, <1>6, Naturals, NumbersNow, NumbersThen DEF NumbersHold
  <1>8. next' - 1 = Taken' + Fetched' + refused'
    BY <1>0, <1>1, <1>6, <1>7, Naturals DEF Order
  <1> QED BY <1>0, <1>1, <1>3, <1>4, <1>5, <1>8 DEF Order

\* The order is kept, and pictures stay accepted.
LEMMA OrderKept ==
  ASSUME EncoderInv, Steps, conf' = conf
  PROVE  /\ Order'
         /\ HasLookAhead => Taken' = Taken + One(Encodes("lookahead"))
         /\ GivenLen' = GivenLen + One(Encodes("encoder"))
  <1>1. GivenLen \in Nat /\ Taken \in Nat
    BY OrderIs, Naturals
  <1>2. ~(Encodes("encoder") /\ Encodes("lookahead"))
    <2>1. ASSUME NEW t \in Threads, NEW u \in Threads, EncodeStep(t), EncodeStep(u) PROVE t = u
      BY <2>1 DEF EncodeStep, Moves, Only
    <2> QED BY <2>1, ThreadsAre DEF Encodes
  <1>3. CASE Encodes("encoder")
    <2>1. Order' /\ Taken' = Taken /\ GivenLen' = GivenLen + 1
      BY <1>3, OrderEncode
    <2>2. One(Encodes("encoder")) = 1 /\ One(Encodes("lookahead")) = 0
      BY <1>2, <1>3 DEF One
    <2> QED BY <1>1, <2>1, <2>2
  <1>4. CASE Encodes("lookahead")
    <2>1. Order' /\ Taken' = Taken + 1 /\ GivenLen' = GivenLen
      BY <1>4, OrderLookAhead
    <2>2. One(Encodes("encoder")) = 0 /\ One(Encodes("lookahead")) = 1
      BY <1>2, <1>4 DEF One
    <2> QED BY <1>1, <2>1, <2>2
  <1>5. CASE ~Encodes("encoder") /\ ~Encodes("lookahead")
    <2>1. One(Encodes("encoder")) = 0 /\ One(Encodes("lookahead")) = 0
      BY <1>5 DEF One
    <2>2. Order' /\ (HasLookAhead => Taken' = Taken) /\ GivenLen' = GivenLen
      BY <1>5, OrderMoves, OrderUnmoved, OrderSlice, OrderKeep, OrderPass, OrderFifo, OrderSource, OrderRefuse
    <2> QED BY <1>1, <2>1, <2>2
  <1> QED BY <1>3, <1>4, <1>5

\* A thread drops its QP table once its picture is accepted.
LEMMA DropAfterEncode ==
  ASSUME EncoderInv, Steps, NEW t \in Threads, th'[t].pc = "dropTable"
  PROVE  th'[t] = th[t] \/ EncodeStep(t)
  <1> DEFINE Good == th'[t] = th[t] \/ EncodeStep(t)
  <1>1. CASE t = "main"
    <2>1. ASSUME NEW x, NEW y, Moves("main", x, y), y # "dropTable" PROVE Good
      BY <1>1, <2>1 DEF Moves
    <2>2. CASE MainStep \/ RefuseStep
      BY <1>1, <2>1, <2>2 DEF MainStep, SourceStep, FifoStep, InputStep, EmptiedStep, RefuseStep
    <2>3. ASSUME NEW e \in Encoders, DestroyStep(e) \/ ReleaseStep(e) PROVE Good
      <3>1. Ways(e).b # "dropTable" /\ Ways(e).c # "dropTable" /\ Ways(e).d # "dropTable"
        BY WaysAre, ThreadsAre
      <3> QED BY <2>1, <2>3, <3>1 DEF DestroyStep, ReleaseStep
    <2>4. FirstStop # "dropTable"
      BY DEF FirstStop
    <2> QED BY <1>1, <2>1, <2>2, <2>3, <2>4, MainTurnsAre DEF MainTurns
  <1>2. CASE t \in Encoders
    <2>1. CASE Turns(t)
      BY <2>1 DEF Turns, EndStep, Slices, SliceStep, PutStep, BackStep, DoneStep, Moves
    <2>2. CASE t = "lookahead" /\ SinkTurns
      BY <2>2 DEF SinkTurns, KeepStep, PassStep, Moves
    <2> QED BY <1>2, <2>1, <2>2, StatusMoves
  <1> QED BY <1>1, <1>2, ThreadsAre

LEMMA DropKept ==
  ASSUME EncoderInv, Steps, conf' = conf, NEW t \in Threads, th'[t].pc = "dropTable"
  PROVE  /\ th'[t].e = "encoder" => th'[t].p <= GivenLen'
         /\ th'[t].e = "lookahead" => th'[t].p <= Taken'
  <1>0. TypeOK /\ ThreadPlaces /\ PicturesInOrder /\ Refusals /\ SourcesHeld
    BY DEF EncoderInv
  <1>1. GivenLen \in Nat /\ Taken \in Nat /\ Accepted("encoder") = GivenLen /\ Accepted("lookahead") = Taken
    BY <1>0, Naturals, ThreadsAre DEF Accepted, GivenLen, Taken
  <1>2. /\ HasLookAhead => Taken' = Taken + One(Encodes("lookahead"))
        /\ GivenLen' = GivenLen + One(Encodes("encoder"))
    BY OrderKept
  <1>3. /\ Encodes("lookahead") => One(Encodes("lookahead")) = 1
        /\ Encodes("encoder") => One(Encodes("encoder")) = 1
        /\ One(Encodes("lookahead")) \in {0, 1} /\ One(Encodes("encoder")) \in {0, 1}
    BY DEF One
  <1> DEFINE p == th[t].p
             e == th[t].e
  <1>4. th'[t].p = p /\ th'[t].e = e /\ th[t].pc \in {"encode", "dropTable"}
    BY DropAfterEncode DEF EncodeStep, Moves, SameWork
  <1>5. e \in Encoders /\ p \in Int
    <2>1. Passing(t)
      BY <1>4 DEF Passing
    <2> QED BY <1>0, <2>1 DEF TypeOK, ThreadStates, ThreadPlaces, Pictures
  <1>6. e = "lookahead" => HasLookAhead
    <2>1. t # "encoder"
      BY <1>0, <1>4, ThreadsAre DEF ThreadPlaces
    <2> QED BY <1>0, <1>4, <2>1, ThreadsAre DEF ThreadPlaces, Passing
  <1>7. (EncodeStep(t) /\ p = Accepted(e) + 1) \/ p <= Accepted(e)
    <2>1. CASE EncodeStep(t)
      <3>1. Before(t, e)
        BY <2>1 DEF EncodeStep, Moves, Before
      <3> QED BY <1>0, <1>5, <2>1, <3>1, Fresh
    <2>2. CASE th'[t] = th[t]
      BY <1>0, <2>2 DEF PicturesInOrder
    <2> QED BY <2>1, <2>2, DropAfterEncode
  <1>8. EncodeStep(t) => Encodes(e)
    BY DEF Encodes
  <1> HIDE DEF p, e
  <1>9. CASE e = "encoder"
    <2>1. (Encodes("encoder") /\ p = GivenLen + 1) \/ p <= GivenLen
      BY <1>1, <1>7, <1>8, <1>9
    <2>2. p <= GivenLen'
      BY <1>1, <1>2, <1>3, <1>5, <2>1
    <2> QED BY <1>4, <1>9, <2>2, ThreadsAre
  <1>10. CASE e = "lookahead"
    <2>1. (Encodes("lookahead") /\ p = Taken + 1) \/ p <= Taken
      BY <1>1, <1>7, <1>8, <1>10
    <2>2. p <= Taken'
      BY <1>1, <1>2, <1>3, <1>5, <1>6, <1>10, <2>1
    <2> QED BY <1>4, <1>10, <2>2, ThreadsAre
  <1> QED BY <1>5, <1>9, <1>10, ThreadsAre

LEMMA AllRead ==
  ASSUME EncoderInv, Steps, conf' = conf, PastReading'
  PROVE  next' = NumPictures + 1
  <1>0. TypeOK /\ ThreadPlaces /\ PicturesInOrder /\ Refusals /\ EndsOfStream
    BY DEF EncoderInv
  <1>1. PastReading => next = NumPictures + 1
    BY <1>0 DEF PicturesInOrder, PastReading
  <1>2. FirstSink' = FirstSink /\ (FirstSink = IF HasLookAhead THEN "lookahead" ELSE "encoder")
    BY SettingsKept, UsedAre
  <1>3. refused' = 0 /\ refused = 0
    <2>1. refused \in Nat
      BY <1>0 DEF TypeOK
    <2> QED BY <2>1, VariablesOf DEF RefuseStep, PastReading
  <1>4. /\ th'["main"].pc \notin {"source", "sourceWait"}
        /\ ~(Passing("main")' /\ th'["main"].e = FirstSink)
    BY <1>2 DEF PastReading
  <1>5. ~SourceStep /\ ~RefuseStep
    <2>1. SourceStep => Passing("main")' /\ th'["main"].e = FirstSink
      BY DEF SourceStep, Passing
    <2>2. RefuseStep => refused' # 0
      BY <1>3 DEF RefuseStep
    <2> QED BY <1>3, <1>4, <2>1, <2>2
  <1>6. next' = next
    BY <1>5, VariablesOf
  <1>7. CASE th'["main"] = th["main"]
    <2>1. PastReading
      BY <1>3, <1>4, <1>7 DEF PastReading, Passing
    <2> QED BY <1>1, <1>6, <2>1
  <1>8. CASE Moves("main", "source", "eos") /\ next \notin Pictures
    <2>1. next - 1 = Taken + Fetched + refused /\ next <= NumPictures + 1
      BY OrderIs DEF Order
    <2>2. next \in Nat /\ Taken \in Nat /\ Fetched \in Nat /\ NumPictures \in Nat
      BY <1>0, Naturals, Sizes
    <2>3. next >= 1 /\ ~(next \in 1 .. NumPictures)
      BY <1>3, <1>8, <2>1, <2>2 DEF Pictures
    <2> QED BY <1>6, <2>1, <2>2, <2>3
  <1>9. ASSUME NEW x, NEW y, Moves("main", x, y), x \notin {"source", "sourceWait"},
               x \in {"table", "tableWait", "encode", "dropTable", "thrown"} =>
                 y \in {"table", "tableWait", "encode", "dropTable", "thrown"}
        PROVE  next' = NumPictures + 1
    <2>1. PastReading
      BY <1>3, <1>4, <1>9 DEF PastReading, Passing, Moves, SameWork
    <2> QED BY <1>1, <1>6, <2>1
  <1>10. CASE Moves("main", "dropTable", IF bEndOfStream THEN "fifo" ELSE "source")
    <2>1. bEndOfStream /\ th["main"].pc = "dropTable" /\ Passing("main")
      BY <1>4, <1>10 DEF Moves, Passing
    <2>2. HasLookAhead
      BY <1>0, <2>1 DEF EndsOfStream, ThreadPlaces, CreateChannel
    <2>3. th["main"].e # "lookahead"
      BY <1>0, <2>1 DEF ThreadPlaces
    <2>4. PastReading
      BY <1>2, <1>3, <2>1, <2>2, <2>3 DEF PastReading
    <2> QED BY <1>1, <1>6, <2>4
  <1>11. CASE MainStep
    <2>1. CASE InputStep \/ EmptiedStep
      BY <1>9, <2>1 DEF InputStep, EmptiedStep
    <2>2. CASE FifoStep
      <3>1. PastReading
        BY <1>3, <2>2 DEF PastReading, FifoStep, Passing
      <3> QED BY <1>1, <1>6, <3>1
    <2> QED BY <1>5, <1>11, <2>1, <2>2 DEF MainStep
  <1>12. ASSUME NEW e \in Encoders, DestroyStep(e) \/ ReleaseStep(e) PROVE next' = NumPictures + 1
    <2>1. PastReading
      <3>1. th["main"].pc \in Stopping
        BY <1>12, WaysAre, ThreadsAre DEF DestroyStep, ReleaseStep, Moves, Stopping
      <3> QED BY <1>3, <3>1 DEF PastReading, Passing, Stopping
    <2> QED BY <1>1, <1>6, <2>1
  <1>13. CASE Moves("main", "thrown", FirstStop)
    BY <1>0, <1>3, <1>13 DEF Moves, Refusals
  <1>14. CASE Moves("main", "sourceWait", "source") \/ Moves("main", "source", "sourceWait")
    BY <1>4, <1>14 DEF Moves
  <1>15. CASE \/ Moves("main", "pools", "end") \/ Moves("main", "lookaheadDone", "fifo")
              \/ Moves("main", "finish", FirstStop)
              \/ Moves("main", "tableWait", "table") \/ Moves("main", "table", "tableWait")
              \/ Moves("main", "table", "encode") \/ EncodeStep("main")
    BY <1>9, <1>15 DEF EncodeStep
  <1> QED BY <1>5, <1>7, <1>8, <1>10, <1>11, <1>12, <1>13, <1>14, <1>15, MainTurnsAre DEF MainTurns

LEMMA PicturesKept ==
  ASSUME EncoderInv, Steps, conf' = conf, fifo' \in Seq(Pictures), enc'["lookahead"].frames \in Seq(Pictures)
  PROVE  PicturesInOrder'
  <1>1. Order' /\ ThreadPlaces'
    BY OrderKept, PlacesKept
  <1>2. DOMAIN fifo' = 1 .. FifoLen' /\ DOMAIN enc'["lookahead"].frames = 1 .. FramesLen'
    BY LenProperties DEF FifoLen, FramesLen
  <1>3. given' = [i \in 1 .. Len(given') |-> i]
    BY <1>1 DEF Order, GivenLen
  <1>4. \A t \in Threads : Before(t, "encoder")' => th'[t].p = Len(given') + 1
    <2>1. th'["encoder"].pc \notin {"table", "tableWait", "encode"}
      BY <1>1, ThreadsAre DEF ThreadPlaces
    <2>2. /\ Before("main", "encoder")' => th'["main"].p = Len(given') + 1
          /\ Before("lookahead", "encoder")' => th'["lookahead"].p = Len(given') + 1
      BY <1>1 DEF Order, GivenLen, BM, BL
    <2> QED BY <2>1, <2>2, ThreadsAre DEF Before
  <1>5. /\ \A i \in DOMAIN fifo' : fifo'[i] = OnTheWay' + i
        /\ th'["lookahead"].pc = "callback" => th'["lookahead"].st.pic = Reported'
        /\ \A i \in DOMAIN enc'["lookahead"].frames : enc'["lookahead"].frames[i] = Reported' + i
    BY <1>1, <1>2 DEF Order, CB
  <1>6. /\ Before("main", "lookahead")' => th'["main"].p = next' - 1
        /\ next' - 1 = Accepted("lookahead")' + One(Before("main", "lookahead")') + refused'
        /\ next' <= NumPictures + 1
    BY <1>1 DEF Order, BA, Fetched, Taken
  <1>7. ASSUME NEW t \in Threads, th'[t].pc = "dropTable" PROVE th'[t].p <= Accepted(th[t].e)'
    <2>1. th'[t].e \in Encoders
      <3>1. t \in {"main", "lookahead"}
        BY <1>1, <1>7, ThreadsAre DEF ThreadPlaces
      <3>2. th[t].e \in Encoders
        BY DEF EncoderInv, TypeOK, ThreadStates
      <3> QED BY <1>7, <3>2, DropAfterEncode DEF EncodeStep, Moves, SameWork
    <2>2. /\ th'[t].e = "encoder" => th'[t].p <= GivenLen'
          /\ th'[t].e = "lookahead" => th'[t].p <= Taken'
      BY <1>7, DropKept
    <2>3. GivenLen' = Len(given') /\ Taken' = Reported' + Len(enc'["lookahead"].frames)
      BY ThreadsAre DEF GivenLen, Taken, Accepted
    <2> QED BY <2>1, <2>2, <2>3, ThreadsAre DEF Accepted
  <1>8. PastReading' => next' = NumPictures + 1
    BY AllRead
  <1> QED BY <1>3, <1>4, <1>5, <1>6, <1>7, <1>8 DEF PicturesInOrder, PastReading
-----------------------------------------------------------------------------
(* The sources an encoder holds *)

LEMMA ReleasedKept ==
  ASSUME EncoderInv, Steps, conf' = conf, NEW e \in Encoders
  PROVE  Released(e)' <=> Released(e) \/ ReleaseStep(e)
  <1> DEFINE Good == Released(e)' <=> Released(e) \/ ReleaseStep(e)
  <1>0. Used' = Used /\ FirstStop \in Stopping
    BY SettingsKept DEF FirstStop, Stopping
  <1>1. ReleaseStep(e) => th["main"].pc = Ways(e).c /\ th'["main"].pc = Ways(e).d /\ th["main"].pc \in Stopping
    BY WaysAre, ThreadsAre DEF ReleaseStep, Moves, Stopping
  <1>2. CASE th'["main"].pc = th["main"].pc
    <2>1. ~ReleaseStep(e)
      BY <1>1, <1>2, WaysAre, ThreadsAre
    <2> QED BY <1>0, <1>2, <2>1 DEF Released
  <1>3. CASE th["main"].pc \notin Stopping /\ (th'["main"].pc \notin Stopping \/ th'["main"].pc = FirstStop)
    <2>1. ~Released(e) /\ ~ReleaseStep(e)
      BY <1>1, <1>3 DEF Released
    <2>2. ~Released(e)'
      <3>1. CASE th'["main"].pc \notin Stopping
        BY <3>1 DEF Released
      <3>2. CASE th'["main"].pc = FirstStop /\ HasLookAhead
        BY <1>0, <3>2, ThreadsAre DEF FirstStop, Released, Unreleased, Stopping
      <3>3. CASE th'["main"].pc = FirstStop /\ ~HasLookAhead
        BY <1>0, <3>3, ThreadsAre, UsedAre DEF FirstStop, Released, Unreleased, Stopping
      <3> QED BY <1>3, <3>1, <3>2, <3>3
    <2> QED BY <2>1, <2>2
  <1>4. CASE th["main"].pc = "pools" /\ th'["main"].pc = "end"
    <2>1. ~ReleaseStep(e)
      BY <1>1, <1>4, WaysAre, ThreadsAre
    <2> QED BY <1>0, <1>4, <2>1, ThreadsAre DEF Released, Unreleased, Stopping
  <1>5. ASSUME NEW f \in Encoders, DestroyStep(f) \/ ReleaseStep(f), ~ReleaseStep(e) PROVE Good
    <2>1. CASE f = "encoder"
      BY <1>0, <1>5, <2>1, ThreadsAre, WaysAre
      DEF DestroyStep, ReleaseStep, Moves, Released, Unreleased, Stopping
    <2>2. CASE f = "lookahead"
      BY <1>0, <1>5, <2>2, ThreadsAre, WaysAre
      DEF DestroyStep, ReleaseStep, Moves, Released, Unreleased, Stopping
    <2> QED BY <1>5, <2>1, <2>2, ThreadsAre
  <1>6. CASE ReleaseStep(e)
    <2>1. ThreadPlaces
      BY DEF EncoderInv
    <2>2. CASE e = "lookahead"
      <3>1. HasLookAhead
        BY <1>1, <1>6, <2>1, <2>2, WaysAre DEF ThreadPlaces
      <3> QED BY <1>0, <1>1, <1>6, <2>2, <3>1, ThreadsAre, WaysAre, UsedAre DEF Released, Unreleased, Stopping
    <2>3. CASE e = "encoder"
      BY <1>0, <1>1, <1>6, <2>3, ThreadsAre, WaysAre, UsedAre DEF Released, Unreleased, Stopping
    <2> QED BY <2>2, <2>3, ThreadsAre
  <1> QED BY <1>2, <1>3, <1>4, <1>5, <1>6, MainMoves

\* What an encoder accepted grows with what it is given.
LEMMA AcceptedKept ==
  ASSUME EncoderInv, Steps, conf' = conf, NEW e \in Used
  PROVE  /\ Accepted(e) \in Nat
         /\ Encodes(e) => Accepted(e)' = Accepted(e) + 1
         /\ ~Encodes(e) => Accepted(e)' = Accepted(e)
  <1>0. TypeOK
    BY DEF EncoderInv
  <1>1. GivenLen \in Nat /\ Taken \in Nat
    BY <1>0, Naturals
  <1>2. CASE e = "encoder"
    <2>1. Accepted(e) = GivenLen /\ Accepted(e)' = GivenLen'
      BY <1>2 DEF Accepted, GivenLen
    <2>2. GivenLen' = GivenLen + One(Encodes(e))
      BY <1>2, OrderKept
    <2> QED BY <1>1, <2>1, <2>2 DEF One
  <1>3. CASE e = "lookahead"
    <2>1. Accepted(e) = Taken /\ Accepted(e)' = Taken' /\ HasLookAhead
      BY <1>3, UsedAre DEF Taken
    <2>2. Taken' = Taken + One(Encodes(e))
      BY <1>3, <2>1, OrderKept
    <2> QED BY <1>1, <2>1, <2>2 DEF One
  <1> QED BY <1>2, <1>3, UsedAre, ThreadsAre

LEMMA CallsAre ==
  /\ \A e : BeforePut(e) <=> th[e].pc \in PutPlaces
  /\ \A e : InCallback(e) <=> th[e].pc \in CallPlaces
  /\ \A e : Finishing(e) <=> th[e].pc \in PutPlaces \cup {"release"}
  BY DEF BeforePut, InCallback, Finishing, Passing, PutPlaces, CallPlaces

LEMMA CallsThen ==
  ASSUME NEW e
  PROVE  /\ BeforePut(e)' <=> th'[e].pc \in PutPlaces
         /\ InCallback(e)' <=> th'[e].pc \in CallPlaces
         /\ Finishing(e)' <=> th'[e].pc \in PutPlaces \cup {"release"}
  BY DEF BeforePut, InCallback, Finishing, Passing, PutPlaces, CallPlaces

LEMMA StatusWays ==
  ASSUME EncoderInv, Steps, NEW e \in Encoders, ~Slices(e)
  PROVE  StatusWay(e)
  <1>1. CASE th'[e] = th[e]
    BY <1>1 DEF StatusWay
  <1>2. CASE Turns(e)
    <2>1. CASE EndStep(e)
      BY <2>1 DEF EndStep, Moves, SameWork, StatusWay, RestPlaces
    <2>2. CASE PutStep(e) \/ BackStep(e) \/ DoneStep(e)
      <3>1. th'[e].st = th[e].st
        BY <2>2 DEF PutStep, BackStep, DoneStep, Moves, SameWork
      <3> QED BY <2>2, <3>1 DEF StatusWay
    <2>3. CASE \/ Moves(e, "poll", "wait") \/ Moves(e, "poll", "ended") \/ Moves(e, "wait", "poll")
      BY <2>3 DEF Moves, SameWork, StatusWay, RestPlaces
    <2>4. CASE Moves(e, "releaseTable", "done") \/ Moves(e, "unref", "poll")
      BY <2>4 DEF Moves, SameWork, StatusWay
    <2> QED BY <1>2, <2>1, <2>2, <2>3, <2>4 DEF Turns
  <1>3. CASE e = "lookahead" /\ SinkTurns
    <2>1. ASSUME NEW x, NEW y, Moves(e, x, y), x \in PutPlaces, y \in PutPlaces PROVE StatusWay(e)
      BY <2>1 DEF Moves, SameWork, StatusWay
    <2>2. CASE PassStep
      BY <1>3, <2>2 DEF PassStep, StatusWay, PutPlaces
    <2>3. CASE KeepStep \/ EncodeStep("lookahead")
      BY <1>3, <2>1, <2>3 DEF KeepStep, EncodeStep, PutPlaces
    <2> QED BY <1>3, <2>1, <2>2, <2>3 DEF SinkTurns, PutPlaces
  <1> QED BY <1>1, <1>2, <1>3, StatusMoves

LEMMA HoldsIs ==
  SourcesHeld <=> AllHold
  BY DEF SourcesHeld, AllHold, Holds, SliceFits, AcceptedOnly, LastOnly, NoneTwice, SentAre

LEMMA HoldsThen ==
  SourcesHeld' <=> AllHold'
  BY HoldsIs, PTL

\* An encoder that is not used holds nothing.
LEMMA HoldsUnused ==
  ASSUME EncoderInv, Steps, conf' = conf, NEW e \in Encoders, e \notin Used
  PROVE  Holds(e)'
  <1>1. e = "lookahead" /\ ~HasLookAhead
    BY UsedAre, ThreadsAre
  <1>2. enc[e] = CreateChannel /\ th[e] = Idle /\ enc'[e] = enc[e] /\ th'[e] = th[e]
    BY <1>1, LookAheadUnused DEF EncoderInv, ThreadPlaces
  <1>3. enc'[e].frames = <<>> /\ enc'[e].slice = 0 /\ th'[e].pc = "poll"
        /\ \A p \in Pictures : ~enc'[e].sourceSent[p]
    BY <1>2 DEF CreateChannel, Idle
  <1>4. DOMAIN enc'[e].frames = {}
    BY <1>3
  <1>5. ~InCallback(e)' /\ ~Finishing(e)'
    BY <1>3, CallsThen DEF PutPlaces, CallPlaces
  <1>6. conf'.numSlices > 0
    BY SettingsAre DEF EncoderInv, TypeOK
  <1>7. SliceFits(e)'
    BY <1>3, <1>6 DEF SliceFits
  <1>8. AcceptedOnly(e)' /\ LastOnly(e)' /\ NoneTwice(e)'
    BY <1>3, <1>4, <1>5 DEF AcceptedOnly, LastOnly, NoneTwice
  <1>9. SentAre(e)'
    BY <1>3, <1>4, <1>5 DEF SentAre
  <1> QED BY <1>7, <1>8, <1>9 DEF Holds

\* What an encoder holds, as a fact about its frames, its thread and its status.
LEMMA HoldsNow ==
  ASSUME EncoderInv, NEW e \in Encoders
  PROVE  /\ Holds(e) /\ TypeOK /\ enc[e].frames \in Seq(Pictures) /\ enc[e].slice \in Nat
         /\ DOMAIN enc[e].frames = 1 .. Len(enc[e].frames) /\ Len(enc[e].frames) \in Nat
         /\ th[e].st.last \in BOOLEAN /\ conf.numSlices \in Nat \ {0}
         /\ th[e].st.pic \in Pictures \cup {0} /\ th[e].st.stream \in 0 .. MaxStream - 1
         /\ enc[e].sourceSent \in [Pictures -> BOOLEAN]
         /\ (e \in Used /\ Released(e) => th[e].pc = "ended")
         /\ (th[e].pc = "ended" => ~InCallback(e) /\ ~Finishing(e))
  <1>1. TypeOK /\ Holds(e)
    BY HoldsIs DEF EncoderInv, AllHold
  <1>2. enc[e].frames \in Seq(Pictures) /\ enc[e].slice \in Nat /\ conf.numSlices \in Nat \ {0}
        /\ enc[e].sourceSent \in [Pictures -> BOOLEAN]
    BY <1>1, ContextIs, SettingsAre DEF TypeOK
  <1>3. DOMAIN enc[e].frames = 1 .. Len(enc[e].frames) /\ Len(enc[e].frames) \in Nat
    BY <1>2, LenProperties
  <1>4. th[e].st \in Statuses
    BY <1>1, ThreadsAre DEF TypeOK, ThreadStates
  <1>5. e \in Used /\ Released(e) => th[e].pc = "ended"
    BY DEF EncoderInv, Lives
  <1>6. th[e].pc = "ended" => ~InCallback(e) /\ ~Finishing(e)
    BY CallsAre DEF PutPlaces, CallPlaces
  <1> QED BY <1>1, <1>2, <1>3, <1>4, <1>5, <1>6 DEF Statuses

\* Nothing new to hold: the frames and the sources stay, the thread goes on with its status.
LEMMA HoldsQuiet ==
  ASSUME EncoderInv, Steps, conf' = conf, NEW e \in Used,
         ~Encodes(e), ~Slices(e), ~BackStep(e), ~ReleaseStep(e)
  PROVE  Holds(e)'
  <1>0. e \in Encoders
    BY UsedAre
  <1>1. Holds(e) /\ th[e].st.last \in BOOLEAN
    BY <1>0, HoldsNow
  <1>2. enc'[e].frames = enc[e].frames /\ enc'[e].slice = enc[e].slice /\ enc'[e].sourceSent = enc[e].sourceSent
    BY <1>0, FieldsOf DEF SameFrames, SameSources
  <1>3. Accepted(e)' = Accepted(e) /\ (Released(e)' <=> Released(e))
    BY <1>0, AcceptedKept, ReleasedKept
  <1>4. StatusWay(e)
    BY <1>0, StatusWays
  <1>5. /\ InCallback(e)' => InCallback(e)
        /\ Finishing(e)' /\ th'[e].st.last <=> Finishing(e) /\ th[e].st.last
        /\ th'[e].pc \in {"release", "releaseTable", "done"} => th'[e].st.last
    <2> DEFINE Good == /\ InCallback(e)' => InCallback(e)
                       /\ Finishing(e)' /\ th'[e].st.last <=> Finishing(e) /\ th[e].st.last
                       /\ th'[e].pc \in {"release", "releaseTable", "done"} => th'[e].st.last
    <2>0. th'[e].st = th[e].st /\ (th[e].pc \in {"release", "releaseTable", "done"} => th[e].st.last)
      BY <1>1, <1>4 DEF StatusWay, Holds, LastOnly
    <2>1. CASE th'[e].pc = th[e].pc
      BY <2>0, <2>1, CallsAre, CallsThen
    <2>2. CASE th[e].pc \in PutPlaces /\ th'[e].pc \in PutPlaces
      BY <2>0, <2>2, CallsAre, CallsThen DEF PutPlaces, CallPlaces
    <2>3. CASE PutStep(e)
      <3>1. th[e].pc \in {"put", "callback"} /\ th'[e].pc = IF th[e].st.last THEN "release" ELSE "unref"
        BY <2>3 DEF PutStep, Moves
      <3>2. CASE th[e].st.last
        BY <2>0, <3>1, <3>2, CallsAre, CallsThen DEF PutPlaces, CallPlaces
      <3>3. CASE ~th[e].st.last
        BY <2>0, <3>1, <3>3, CallsAre, CallsThen DEF PutPlaces, CallPlaces
      <3> QED BY <3>2, <3>3
    <2>4. CASE Moves(e, "releaseTable", "done") \/ DoneStep(e) \/ Moves(e, "unref", "poll")
      BY <2>0, <2>4, CallsAre, CallsThen DEF DoneStep, Moves, PutPlaces, CallPlaces
    <2>5. CASE th[e].pc \in RestPlaces /\ th'[e].pc \in RestPlaces
      BY <2>0, <2>5, CallsAre, CallsThen DEF RestPlaces, PutPlaces, CallPlaces
    <2> QED BY <1>4, <2>1, <2>2, <2>3, <2>4, <2>5 DEF StatusWay
  <1>6. th'[e].st = th[e].st
    BY <1>4 DEF StatusWay
  <1>7. SliceFits(e)'
    BY <1>1, <1>2 DEF Holds, SliceFits
  <1>8. AcceptedOnly(e)'
    BY <1>1, <1>2, <1>3, <1>5, <1>6 DEF Holds, AcceptedOnly
  <1>9. LastOnly(e)'
    BY <1>1, <1>5, <1>6 DEF Holds, LastOnly
  <1>10. NoneTwice(e)'
    BY <1>1, <1>2, <1>5, <1>6 DEF Holds, NoneTwice
  <1>11. SentAre(e)'
    <2>1. ASSUME NEW p \in Pictures
          PROVE  Finishing(e)' /\ th'[e].st.last /\ th'[e].st.pic = p
                 <=> Finishing(e) /\ th[e].st.last /\ th[e].st.pic = p
      BY <1>5, <1>6
    <2> QED BY <1>1, <1>2, <1>3, <2>1 DEF Holds, SentAre
  <1> QED BY <1>7, <1>8, <1>9, <1>10, <1>11 DEF Holds

\* The encoder is released: it holds no source any more.
LEMMA HoldsReleased ==
  ASSUME EncoderInv, Steps, conf' = conf, NEW e \in Used, ReleaseStep(e)
  PROVE  Holds(e)'
  <1>0. e \in Encoders /\ e # "main"
    BY UsedAre, ThreadsAre
  <1>1. Holds(e) /\ TypeOK
    BY <1>0, HoldsNow
  <1>2. enc'[e].frames = enc[e].frames /\ enc'[e].slice = enc[e].slice
        /\ enc'[e].sourceSent = [p \in Pictures |-> FALSE]
    BY <1>0, <1>1, ReleaseFacts DEF SameFrames
  <1>3. th'[e] = th[e] /\ th[e].pc = "ended"
    BY <1>0, ThreadsAre DEF ReleaseStep, Moves, Only
  <1>4. ~InCallback(e)' /\ ~Finishing(e)'
    BY <1>3, CallsThen DEF PutPlaces, CallPlaces
  <1>5. Released(e)'
    BY <1>0, ReleasedKept
  <1>6. ~Encodes(e)
    BY <1>0 DEF Encodes, ReleaseStep, EncodeStep, Moves, Only, Ways
  <1>7. Accepted(e)' = Accepted(e)
    BY <1>6, AcceptedKept
  <1>8. SliceFits(e)' /\ AcceptedOnly(e)'
    BY <1>1, <1>2, <1>4, <1>7 DEF Holds, SliceFits, AcceptedOnly
  <1>9. LastOnly(e)' /\ NoneTwice(e)'
    BY <1>1, <1>2, <1>3, <1>4 DEF Holds, LastOnly, NoneTwice
  <1>10. SentAre(e)'
    BY <1>2, <1>5 DEF SentAre
  <1> QED BY <1>8, <1>9, <1>10 DEF Holds

\* A picture is given to the encoder: one it was not given before.
LEMMA HoldsEncode ==
  ASSUME EncoderInv, Steps, conf' = conf, NEW e \in Used, Encodes(e)
  PROVE  Holds(e)'
  <1>0. e \in Encoders /\ e # "main"
    BY UsedAre, ThreadsAre
  <1> DEFINE a == enc[e].frames
             b == enc'[e].frames
  <1>1. PICK t \in Threads : EncodeStep(t) /\ th[t].e = e
    BY DEF Encodes
  <1>2. /\ Holds(e) /\ TypeOK /\ a \in Seq(Pictures) /\ DOMAIN a = 1 .. Len(a) /\ Len(a) \in Nat
        /\ th[e].pc = "ended" => ~InCallback(e) /\ ~Finishing(e)
        /\ th[e].st.pic \in Pictures \cup {0} /\ enc[e].sourceSent \in [Pictures -> BOOLEAN]
    BY <1>0, HoldsNow
  <1> DEFINE p == th[t].p
  <1>3. p = Accepted(e) + 1
    <2>1. Before(t, e)
      BY <1>1 DEF EncodeStep, Moves, Before
    <2>2. TypeOK /\ ThreadPlaces /\ Refusals /\ PicturesInOrder /\ SourcesHeld
      BY DEF EncoderInv
    <2> QED BY <1>0, <2>1, <2>2, Fresh
  <1>4. /\ p \in Pictures /\ b = Append(a, p) /\ enc'[e].slice = enc[e].slice
        /\ enc'[e].sourceSent = [enc[e].sourceSent EXCEPT ![p] = TRUE]
    BY <1>1, EncodeFacts
  <1>5. t # e
    <2>1. ThreadPlaces
      BY DEF EncoderInv
    <2> QED BY <1>0, <1>1, <2>1, ThreadsAre DEF ThreadPlaces, EncodeStep, Moves
  <1>6. th'[e] = th[e]
    BY <1>0, <1>1, <1>5, ThreadsAre DEF EncodeStep, Moves, Only
  <1>7. Accepted(e) \in Nat /\ Accepted(e)' = Accepted(e) + 1
    BY AcceptedKept
  <1>8. ~Released(e) /\ ~Released(e)'
    <2>1. ~ReleaseStep(e)
      <3>1. Ways(e).c # "encode"
        BY <1>0, WaysAre, ThreadsAre
      <3>2. CASE t = "main"
        BY <1>1, <3>1, <3>2 DEF EncodeStep, Moves, ReleaseStep
      <3>3. CASE t # "main"
        BY <1>1, <3>3 DEF EncodeStep, Moves, Only, ReleaseStep
      <3> QED BY <3>2, <3>3
    <2>2. CASE t = "main"
      BY <1>0, <1>1, <2>1, <2>2, ReleasedKept DEF EncodeStep, Moves, Released, Stopping
    <2>3. CASE t = "lookahead"
      <3>1. th["main"].pc \notin Stopping
        BY <1>1, <2>3, LookAheadBusy DEF EncodeStep, Moves
      <3> QED BY <1>0, <2>1, <3>1, ReleasedKept DEF Released
    <2>4. t # "encoder"
      <3>1. ThreadPlaces
        BY DEF EncoderInv
      <3> QED BY <1>1, <3>1, ThreadsAre DEF ThreadPlaces, EncodeStep, Moves
    <2> QED BY <2>2, <2>3, <2>4, ThreadsAre
  <1>9. /\ InCallback(e)' <=> InCallback(e)
        /\ Finishing(e)' <=> Finishing(e)
    BY <1>6, CallsAre, CallsThen
  <1> HIDE DEF p, a, b
  <1>10. /\ b \in Seq(Pictures) /\ Len(b) = Len(a) + 1 /\ DOMAIN b = 1 .. Len(a) + 1
         /\ (\A i \in 1 .. Len(a) : b[i] = a[i]) /\ b[Len(a) + 1] = p
    BY <1>2, <1>4, SeqEnd
  <1>11. \A i \in 1 .. Len(a) + 1 : i \in 1 .. Len(a) \/ i = Len(a) + 1
    BY <1>2
  <1>12. \A i \in 1 .. Len(a) : a[i] <= Accepted(e) /\ a[i] \in Int
    <2>1. \A i \in 1 .. Len(a) : a[i] \in Pictures
      BY <1>2, ElementOfSeq
    <2> QED BY <1>2, <2>1 DEF Holds, AcceptedOnly, Pictures, a
  <1>13. InCallback(e) => th[e].st.pic \in 1 .. Accepted(e)
    BY <1>2 DEF Holds, AcceptedOnly
  <1>14. Finishing(e) => InCallback(e)
    BY CallsAre DEF CallPlaces, PutPlaces
  <1>15. SliceFits(e)'
    <2>1. b # <<>>
      BY <1>2, <1>10, EmptySeq
    <2> QED BY <1>2, <1>4, <2>1 DEF Holds, SliceFits, b
  <1>16. AcceptedOnly(e)'
    <2>1. \A i \in 1 .. Len(a) + 1 : b[i] <= Accepted(e)'
      BY <1>3, <1>7, <1>10, <1>11, <1>12
    <2>2. InCallback(e)' => th'[e].st.pic \in 1 .. Accepted(e)'
      BY <1>6, <1>7, <1>9, <1>13
    <2> QED BY <1>10, <2>1, <2>2 DEF AcceptedOnly, b
  <1>17. LastOnly(e)'
    BY <1>2, <1>6, <1>9 DEF Holds, LastOnly
  <1>18. NoneTwice(e)'
    <2>1. \A i, j \in 1 .. Len(a) : a[i] = a[j] => i = j
      BY <1>2 DEF Holds, NoneTwice, a
    <2>2. \A i \in 1 .. Len(a) : a[i] # p
      BY <1>3, <1>7, <1>12
    <2>3. \A i, j \in 1 .. Len(a) + 1 : b[i] = b[j] => i = j
      BY <1>10, <1>11, <2>1, <2>2
    <2>4. Finishing(e) /\ th[e].st.last => \A i \in 1 .. Len(a) : a[i] # th[e].st.pic
      BY <1>2 DEF Holds, NoneTwice, a
    <2>5. Finishing(e) => p # th[e].st.pic
      BY <1>3, <1>7, <1>13, <1>14
    <2>6. Finishing(e)' /\ th'[e].st.last => \A i \in 1 .. Len(a) + 1 : b[i] # th'[e].st.pic
      BY <1>6, <1>9, <1>10, <1>11, <2>4, <2>5
    <2> QED BY <1>10, <2>3, <2>6 DEF NoneTwice, b
  <1>19. SentAre(e)'
    <2>1. ASSUME NEW q \in Pictures
          PROVE  enc'[e].sourceSent[q] <=> \/ \E i \in 1 .. Len(a) + 1 : b[i] = q
                                           \/ Finishing(e) /\ th[e].st.last /\ th[e].st.pic = q
      <3>1. enc[e].sourceSent[q] <=> \/ \E i \in 1 .. Len(a) : a[i] = q
                                     \/ Finishing(e) /\ th[e].st.last /\ th[e].st.pic = q
        BY <1>2, <1>8 DEF Holds, SentAre, a
      <3>2. (\E i \in 1 .. Len(a) + 1 : b[i] = q) <=> (\E i \in 1 .. Len(a) : a[i] = q) \/ p = q
        <4>1. Len(a) + 1 \in 1 .. Len(a) + 1 /\ \A i \in 1 .. Len(a) : i \in 1 .. Len(a) + 1
          BY <1>2
        <4> QED BY <1>10, <1>11, <4>1
      <3>3. enc'[e].sourceSent[q] <=> enc[e].sourceSent[q] \/ p = q
        BY <1>2, <1>4
      <3> QED BY <3>1, <3>2, <3>3
    <2>2. \A q \in Pictures : (Finishing(e)' /\ th'[e].st.last /\ th'[e].st.pic = q)
                              <=> (Finishing(e) /\ th[e].st.last /\ th[e].st.pic = q)
      BY <1>6, <1>9
    <2> QED BY <1>8, <1>10, <2>1, <2>2 DEF SentAre, b
  <1> QED BY <1>15, <1>16, <1>17, <1>18, <1>19 DEF Holds

\* The source of a finished picture is given back.
LEMMA HoldsBack ==
  ASSUME EncoderInv, Steps, conf' = conf, NEW e \in Used, BackStep(e)
  PROVE  Holds(e)'
  <1>0. e \in Encoders /\ e # "main"
    BY UsedAre, ThreadsAre
  <1> DEFINE a == enc[e].frames
             p == th[e].st.pic
  <1>1. /\ Holds(e) /\ TypeOK /\ (Released(e) => th[e].pc = "ended")
        /\ enc[e].sourceSent \in [Pictures -> BOOLEAN]
    BY <1>0, HoldsNow
  <1>2. th[e].pc = "release" /\ th'[e].pc = "releaseTable" /\ th'[e].st = th[e].st
    BY DEF BackStep, Moves, SameWork
  <1>3. /\ enc'[e].frames = a /\ enc'[e].slice = enc[e].slice /\ p \in Pictures
        /\ enc'[e].sourceSent = [enc[e].sourceSent EXCEPT ![p] = FALSE]
    BY <1>0, <1>1, BackFacts DEF EncoderInv, SameFrames
  <1>4. ~Encodes(e) /\ ~ReleaseStep(e)
    BY <1>0, <1>2, ThreadsAre DEF Encodes, EncodeStep, ReleaseStep, BackStep, Moves, Only
  <1>5. Accepted(e)' = Accepted(e) /\ ~Released(e) /\ ~Released(e)'
    BY <1>0, <1>1, <1>2, <1>4, AcceptedKept, ReleasedKept
  <1>6. InCallback(e) /\ InCallback(e)' /\ Finishing(e) /\ ~Finishing(e)' /\ th[e].st.last
    <2>1. th[e].st.last
      BY <1>1, <1>2 DEF Holds, LastOnly
    <2> QED BY <1>2, <2>1, CallsAre, CallsThen DEF PutPlaces, CallPlaces
  <1>7. SliceFits(e)' /\ AcceptedOnly(e)'
    BY <1>1, <1>2, <1>3, <1>5, <1>6 DEF Holds, SliceFits, AcceptedOnly
  <1>8. LastOnly(e)' /\ NoneTwice(e)'
    BY <1>1, <1>2, <1>3, <1>6 DEF Holds, LastOnly, NoneTwice
  <1>9. SentAre(e)'
    <2>1. ASSUME NEW q \in Pictures
          PROVE  enc'[e].sourceSent[q] <=> \E i \in DOMAIN a : a[i] = q
      <3>1. enc[e].sourceSent[q] <=> (\E i \in DOMAIN a : a[i] = q) \/ p = q
        BY <1>1, <1>5, <1>6 DEF Holds, SentAre
      <3>2. \A i \in DOMAIN a : a[i] # p
        BY <1>1, <1>6 DEF Holds, NoneTwice
      <3>3. enc'[e].sourceSent[q] <=> enc[e].sourceSent[q] /\ p # q
        BY <1>1, <1>3
      <3> QED BY <3>1, <3>2, <3>3
    <2> QED BY <1>3, <1>5, <1>6, <2>1 DEF SentAre
  <1> QED BY <1>7, <1>8, <1>9 DEF Holds

\* The elements of a sequence, each there once: without one of them, and with one in front.
LEMMA OnceWithout ==
  ASSUME NEW S, NEW q \in Seq(S), NEW k \in 1 .. Len(q),
         \A i, j \in DOMAIN q : q[i] = q[j] => i = j
  PROVE  /\ \A i, j \in DOMAIN RemoveAt(q, k) : RemoveAt(q, k)[i] = RemoveAt(q, k)[j] => i = j
         /\ \A i \in DOMAIN RemoveAt(q, k) :
              RemoveAt(q, k)[i] # q[k] /\ \E j \in DOMAIN q : RemoveAt(q, k)[i] = q[j]
         /\ \A j \in DOMAIN q : j # k => \E i \in DOMAIN RemoveAt(q, k) : RemoveAt(q, k)[i] = q[j]
  <1> DEFINE r == RemoveAt(q, k)
             n == Len(q)
             f(i) == IF i < k THEN i ELSE i + 1
  <1>1. n \in Nat /\ DOMAIN q = 1 .. n /\ DOMAIN r = 1 .. n - 1 /\ k \in 1 .. n
    BY SeqWithout, LenProperties
  <1>2. \A i \in 1 .. n - 1 : r[i] = q[f(i)]
    BY SeqWithout
  <1> HIDE DEF r, n
  <1>3. \A i \in 1 .. n - 1 : f(i) \in 1 .. n /\ f(i) # k
    BY <1>1
  <1>4. \A i, j \in 1 .. n - 1 : f(i) = f(j) => i = j
    BY <1>1
  <1>5. \A j \in 1 .. n : j # k => \E i \in 1 .. n - 1 : f(i) = j
    <2> SUFFICES ASSUME NEW j \in 1 .. n, j # k PROVE \E i \in 1 .. n - 1 : f(i) = j
      OBVIOUS
    <2>1. CASE j < k
      <3>1. j \in 1 .. n - 1 /\ f(j) = j
        BY <1>1, <2>1
      <3> QED BY <3>1
    <2>2. CASE j > k
      <3>1. j - 1 \in 1 .. n - 1 /\ f(j - 1) = j
        BY <1>1, <2>2
      <3> QED BY <3>1
    <2> QED BY <1>1, <2>1, <2>2
  <1> HIDE DEF f
  <1>6. \A i, j \in 1 .. n : q[i] = q[j] => i = j
    BY <1>1
  <1>7. \A i, j \in 1 .. n - 1 : r[i] = r[j] => i = j
    BY <1>2, <1>3, <1>4, <1>6
  <1>8. \A i \in 1 .. n - 1 : r[i] # q[k] /\ \E j \in 1 .. n : r[i] = q[j]
    BY <1>1, <1>2, <1>3, <1>6
  <1>9. \A j \in 1 .. n : j # k => \E i \in 1 .. n - 1 : r[i] = q[j]
    BY <1>2, <1>5
  <1> QED BY <1>1, <1>7, <1>8, <1>9 DEF r

LEMMA OnceInFront ==
  ASSUME NEW S, NEW q \in Seq(S), NEW k \in 1 .. Len(q),
         \A i, j \in DOMAIN q : q[i] = q[j] => i = j
  PROVE  LET r == <<q[k]>> \o RemoveAt(q, k) IN
         /\ \A i, j \in DOMAIN r : r[i] = r[j] => i = j
         /\ \A i \in DOMAIN r : \E j \in DOMAIN q : r[i] = q[j]
         /\ \A j \in DOMAIN q : \E i \in DOMAIN r : r[i] = q[j]
         /\ r # <<>>
  <1> DEFINE n == Len(q)
             r == <<q[k]>> \o RemoveAt(q, k)
             f(i) == IF i = 1 THEN k ELSE IF i - 1 < k THEN i - 1 ELSE i
  <1>1. n \in Nat /\ DOMAIN q = 1 .. n /\ DOMAIN r = 1 .. n /\ k \in 1 .. n /\ Len(r) = n /\ r \in Seq(S)
    BY SeqInFront, LenProperties
  <1>2. \A i \in 1 .. n : r[i] = q[f(i)]
    BY SeqInFront, SMTT(30)
  <1> HIDE DEF n, r
  <1>3. \A i \in 1 .. n : f(i) \in 1 .. n
    BY <1>1
  <1>4. \A i, j \in 1 .. n : f(i) = f(j) => i = j
    BY <1>1
  <1>5. \A j \in 1 .. n : \E i \in 1 .. n : f(i) = j
    <2> SUFFICES ASSUME NEW j \in 1 .. n PROVE \E i \in 1 .. n : f(i) = j
      OBVIOUS
    <2>1. CASE j < k
      <3>1. j + 1 \in 1 .. n /\ f(j + 1) = j
        BY <1>1, <2>1
      <3> QED BY <3>1
    <2>2. CASE j > k
      <3>1. f(j) = j
        BY <1>1, <2>2
      <3> QED BY <3>1
    <2>3. CASE j = k
      <3>1. 1 \in 1 .. n /\ f(1) = j
        BY <1>1, <2>3
      <3> QED BY <3>1
    <2> QED BY <1>1, <2>1, <2>2, <2>3
  <1> HIDE DEF f
  <1>6. \A i, j \in 1 .. n : q[i] = q[j] => i = j
    BY <1>1
  <1>7. \A i, j \in 1 .. n : r[i] = r[j] => i = j
    BY <1>2, <1>3, <1>4, <1>6
  <1>8. \A i \in 1 .. n : \E j \in 1 .. n : r[i] = q[j]
    BY <1>2, <1>3
  <1>9. \A j \in 1 .. n : \E i \in 1 .. n : r[i] = q[j]
    BY <1>2, <1>5
  <1>10. r # <<>>
    BY <1>1, EmptySeq
  <1> QED BY <1>1, <1>7, <1>8, <1>9, <1>10, ZenonT(40) DEF r

\* A slice is done: with the last one the picture leaves the frames and is about to be given
\* back.
LEMMA HoldsSlice ==
  ASSUME EncoderInv, Steps, conf' = conf, NEW e \in Used, Slices(e)
  PROVE  Holds(e)'
  <1>0. e \in Encoders /\ e # "main" /\ e \in Threads
    BY UsedAre, ThreadsAre
  <1> DEFINE a == enc[e].frames
             b == enc'[e].frames
             sl == enc[e].slice
             n == conf.numSlices
             st == th'[e].st
  <1>1. PICK i \in 1 .. Len(a) : SliceStep(e, i)
    BY DEF Slices
  <1>2. /\ Holds(e) /\ TypeOK /\ a \in Seq(Pictures) /\ DOMAIN a = 1 .. Len(a) /\ Len(a) \in Nat
        /\ (Released(e) => th[e].pc = "ended") /\ sl \in Nat /\ n \in Nat \ {0}
        /\ enc[e].sourceSent \in [Pictures -> BOOLEAN]
    BY <1>0, HoldsNow
  <1>3. th[e].pc = "wait" /\ th'[e].pc = "callback" /\ Only(e)
    BY <1>1 DEF SliceStep
  <1>4. /\ st.pic = a[i] /\ st.last = (sl + 1 = n)
        /\ enc'[e].slice = (IF sl + 1 = n THEN 0 ELSE sl + 1)
        /\ b = (IF sl + 1 = n THEN RemoveAt(a, i) ELSE <<a[i]>> \o RemoveAt(a, i))
        /\ enc'[e].sourceSent = enc[e].sourceSent
    BY <1>0, <1>1, <1>2, SliceFacts DEF SameSources
  <1>5. ~Encodes(e) /\ ~ReleaseStep(e)
    BY <1>0, <1>3 DEF Encodes, EncodeStep, ReleaseStep, Moves, Only
  <1>6. Accepted(e)' = Accepted(e) /\ Accepted(e) \in Nat /\ ~Released(e) /\ ~Released(e)'
    BY <1>0, <1>2, <1>3, <1>5, AcceptedKept, ReleasedKept
  <1>7. InCallback(e)' /\ Finishing(e)' /\ ~Finishing(e)
    BY <1>3, CallsAre, CallsThen DEF PutPlaces, CallPlaces
  <1> HIDE DEF a, b, sl, n, st
  <1>8. sl < n /\ (\A j \in 1 .. Len(a) : a[j] <= Accepted(e) /\ a[j] \in Pictures)
        /\ \A j, k \in 1 .. Len(a) : a[j] = a[k] => j = k
    <2>1. \A j \in 1 .. Len(a) : a[j] \in Pictures
      BY <1>2, ElementOfSeq
    <2> QED BY <1>2, <2>1 DEF Holds, SliceFits, AcceptedOnly, NoneTwice, a, sl, n
  <1>9. \A p \in Pictures : enc[e].sourceSent[p] <=> \E j \in 1 .. Len(a) : a[j] = p
    BY <1>2, <1>6, <1>7 DEF Holds, SentAre, a
  <1>10. a[i] \in 1 .. Accepted(e) /\ a[i] \in Pictures
    <2>1. a[i] <= Accepted(e) /\ a[i] \in Pictures
      BY <1>8
    <2> QED BY <1>6, <2>1 DEF Pictures
  <1>11. e = "lookahead" => sl + 1 = n
    <2>1. e = "lookahead" => n = 1
      BY <1>2, SettingsAre, UsedAre DEF TypeOK, n
    <2> QED BY <1>2, <1>8, <2>1
  <1>12. LastOnly(e)'
    BY <1>3, <1>4, <1>11 DEF LastOnly, st
  <1>13. CASE sl + 1 = n
    <2>1. b = RemoveAt(a, i) /\ enc'[e].slice = 0 /\ st.last
      BY <1>4, <1>13
    <2>2. /\ \A j, k \in DOMAIN b : b[j] = b[k] => j = k
          /\ \A j \in DOMAIN b : b[j] # a[i] /\ \E k \in DOMAIN a : b[j] = a[k]
          /\ \A k \in DOMAIN a : k # i => \E j \in DOMAIN b : b[j] = a[k]
      BY <1>2, <1>8, <2>1, OnceWithout
    <2>3. SliceFits(e)'
      BY <1>2, <2>1 DEF SliceFits, n
    <2>4. AcceptedOnly(e)'
      <3>1. \A j \in DOMAIN b : b[j] <= Accepted(e)'
        BY <1>2, <1>6, <1>8, <2>2
      <3> QED BY <1>4, <1>6, <1>10, <3>1 DEF AcceptedOnly, b, st
    <2>5. NoneTwice(e)'
      BY <1>4, <2>2 DEF NoneTwice, b, st
    <2>6. SentAre(e)'
      <3>1. ASSUME NEW p \in Pictures
            PROVE  enc'[e].sourceSent[p] <=> (\E j \in DOMAIN b : b[j] = p) \/ a[i] = p
        <4>1. (\E j \in DOMAIN b : b[j] = p) \/ a[i] = p <=> \E j \in 1 .. Len(a) : a[j] = p
          BY <1>2, <2>2
        <4> QED BY <1>4, <1>9, <4>1
      <3> QED BY <1>4, <1>6, <1>7, <2>1, <3>1 DEF SentAre, b, st
    <2> QED BY <1>12, <2>3, <2>4, <2>5, <2>6 DEF Holds
  <1>14. CASE sl + 1 # n
    <2>1. b = <<a[i]>> \o RemoveAt(a, i) /\ enc'[e].slice = sl + 1 /\ ~st.last
      BY <1>4, <1>14
    <2>2. /\ \A j, k \in DOMAIN b : b[j] = b[k] => j = k
          /\ \A j \in DOMAIN b : \E k \in DOMAIN a : b[j] = a[k]
          /\ \A k \in DOMAIN a : \E j \in DOMAIN b : b[j] = a[k]
          /\ b # <<>>
      <3>1. \A j, k \in DOMAIN a : a[j] = a[k] => j = k
        BY <1>2, <1>8
      <3> DEFINE r == <<a[i]>> \o RemoveAt(a, i)
      <3>2. /\ \A j, k \in DOMAIN r : r[j] = r[k] => j = k
            /\ \A j \in DOMAIN r : \E k \in DOMAIN a : r[j] = a[k]
            /\ \A k \in DOMAIN a : \E j \in DOMAIN r : r[j] = a[k]
            /\ r # <<>>
        <4>1. a \in Seq(Pictures) /\ i \in 1 .. Len(a)
          BY <1>2
        <4> QED BY <3>1, <4>1, OnceInFront
      <3>3. b = r
        BY <2>1
      <3> HIDE DEF r
      <3> QED BY <3>2, <3>3
    <2>3. SliceFits(e)'
      <3>1. sl + 1 < n
        BY <1>2, <1>8, <1>14
      <3> QED BY <2>1, <2>2, <3>1 DEF SliceFits, n, b
    <2>4. AcceptedOnly(e)'
      <3>1. \A j \in DOMAIN b : b[j] <= Accepted(e)'
        BY <1>2, <1>6, <1>8, <2>2
      <3> QED BY <1>4, <1>6, <1>10, <3>1 DEF AcceptedOnly, b, st
    <2>5. NoneTwice(e)'
      BY <2>1, <2>2 DEF NoneTwice, b, st
    <2>6. SentAre(e)'
      <3>1. ASSUME NEW p \in Pictures
            PROVE  enc'[e].sourceSent[p] <=> \E j \in DOMAIN b : b[j] = p
        <4>1. enc'[e].sourceSent[p] <=> enc[e].sourceSent[p]
          BY <1>4
        <4>2. (\E j \in DOMAIN b : b[j] = p) <=> \E j \in 1 .. Len(a) : a[j] = p
          BY <1>2, <2>2
        <4> QED BY <1>9, <4>1, <4>2
      <3> QED BY <1>6, <2>1, <3>1 DEF SentAre, b, st
    <2> QED BY <1>12, <2>3, <2>4, <2>5, <2>6 DEF Holds
  <1> QED BY <1>13, <1>14

LEMMA SourcesKept ==
  ASSUME EncoderInv, Steps, conf' = conf
  PROVE  SourcesHeld'
  <1>1. ASSUME NEW e \in Encoders PROVE Holds(e)'
    BY <1>1, HoldsUnused, HoldsQuiet, HoldsReleased, HoldsEncode, HoldsBack, HoldsSlice
  <1> QED BY <1>1, HoldsThen DEF AllHold
-----------------------------------------------------------------------------
(* Permits and pool ids *)

\* The number of sources an encoder was sent, after one more, one less, none.
LEMMA SentAreFinite ==
  ASSUME NEW c
  PROVE  IsFiniteSet(SourcesSent(c)) /\ Cardinality(SourcesSent(c)) \in Nat
  <1>1. IsFiniteSet(Pictures)
    BY Sizes, FS_Interval DEF Pictures
  <1>2. SourcesSent(c) \subseteq Pictures
    BY DEF SourcesSent
  <1>3. IsFiniteSet(SourcesSent(c))
    BY <1>1, <1>2, FS_Subset
  <1> QED BY <1>3, FS_CardinalityType

LEMMA SentMore ==
  ASSUME NEW c \in Contexts, NEW d, NEW p \in Pictures, ~c.sourceSent[p],
         d.sourceSent = [c.sourceSent EXCEPT ![p] = TRUE]
  PROVE  Cardinality(SourcesSent(d)) = Cardinality(SourcesSent(c)) + 1
  <1>1. SourcesSent(d) = SourcesSent(c) \cup {p} /\ p \notin SourcesSent(c)
    BY ContextIs DEF SourcesSent
  <1> QED BY <1>1, SentAreFinite, FS_AddElement

LEMMA SentLess ==
  ASSUME NEW c \in Contexts, NEW d, NEW p \in Pictures, c.sourceSent[p],
         d.sourceSent = [c.sourceSent EXCEPT ![p] = FALSE]
  PROVE  Cardinality(SourcesSent(d)) = Cardinality(SourcesSent(c)) - 1
  <1>1. SourcesSent(d) = SourcesSent(c) \ {p} /\ p \in SourcesSent(c)
    BY ContextIs DEF SourcesSent
  <1> QED BY <1>1, SentAreFinite, FS_RemoveElement

LEMMA SentSame ==
  ASSUME NEW c, NEW d, d.sourceSent = c.sourceSent
  PROVE  SourcesSent(d) = SourcesSent(c)
  BY DEF SourcesSent

LEMMA SentNone ==
  ASSUME NEW d, d.sourceSent = [p \in Pictures |-> FALSE]
  PROVE  SourcesSent(d) = {} /\ Cardinality(SourcesSent(d)) = 0
  BY FS_EmptySet DEF SourcesSent

LEMMA PendingThen ==
  ASSUME NEW e
  PROVE  /\ Pending(e) = One(th[e].pc \in {"releaseTable", "done"})
         /\ Pending(e)' = One(th'[e].pc \in {"releaseTable", "done"})
         /\ Pending(e) \in {0, 1} /\ Pending(e)' \in {0, 1}
  BY DEF Pending, One

\* The thread of an encoder does not pass pictures to it.
LEMMA EncodesFacts ==
  ASSUME EncoderInv, NEW e \in Encoders, Encodes(e)
  PROVE  /\ th'[e] = th[e]
         /\ \E t \in Threads : EncodeStep(t) /\ th[t].e = e /\ t # e
  <1>1. PICK t \in Threads : EncodeStep(t) /\ th[t].e = e
    BY DEF Encodes
  <1>2. t # e
    <2>1. ThreadPlaces
      BY DEF EncoderInv
    <2> QED BY <1>1, <2>1, ThreadsAre DEF ThreadPlaces, EncodeStep, Moves
  <1>3. th'[e] = th[e]
    BY <1>1, <1>2, ThreadsAre DEF EncodeStep, Moves, Only
  <1> QED BY <1>1, <1>2, <1>3

\* The source a finished picture gives back was sent.
LEMMA BackSent ==
  ASSUME EncoderInv, NEW e \in Encoders, BackStep(e)
  PROVE  th[e].st.pic \in Pictures /\ enc[e].sourceSent[th[e].st.pic]
  <1>1. th[e].pc = "release"
    BY DEF BackStep, Moves
  <1>2. Finishing(e) /\ th[e].st.last
    BY <1>1, CallsAre, HoldsNow DEF Holds, LastOnly
  <1>3. ~Released(e)
    BY <1>1, HoldsNow DEF Released
  <1>4. th[e].st.pic \in Pictures
    BY BackFacts DEF EncoderInv
  <1> QED BY <1>2, <1>3, <1>4, HoldsNow DEF Holds, SentAre

LEMMA PermitsKept ==
  ASSUME EncoderInv, Steps, conf' = conf
  PROVE  Permits'
  <1> SUFFICES ASSUME NEW e \in Encoders PROVE PermitsOf(e)'
    BY DEF Permits, PermitsOf, Pending
  <1> DEFINE c == enc[e]
             d == enc'[e]
             m == Cardinality(SourcesSent(c))
             n == Cardinality(SourcesSent(d))
  <1>1. TypeOK /\ SourcesHeld /\ c \in Contexts /\ c.permits \in Int /\ c.poolIds \in Int
    BY ContextIs DEF EncoderInv, TypeOK
  <1>2. PermitsOf(e) /\ m \in Nat /\ n \in Nat /\ MaxCmd \in Nat
    BY SentAreFinite, Sizes DEF EncoderInv, Permits, PermitsOf, Pending
  <1>3. c.poolIds = c.permits + 1 /\ c.permits + m + Pending(e) <= MaxCmd - 1
    BY <1>2 DEF PermitsOf
  <1>4. SUFFICES d.poolIds = d.permits + 1 /\ d.permits + n + Pending(e)' <= MaxCmd - 1
    BY DEF PermitsOf
  <1> HIDE DEF m, n
  <1>5. CASE Encodes(e)
    <2>1. PICK t \in Threads : EncodeStep(t) /\ th[t].e = e
      BY <1>5 DEF Encodes
    <2> DEFINE p == th[t].p
    <2>2. /\ p \in Pictures /\ d.permits = c.permits - 1 /\ d.poolIds = c.poolIds - 1
          /\ d.sourceSent = [c.sourceSent EXCEPT ![p] = TRUE] /\ ~c.sourceSent[p]
      BY <2>1, EncodeFacts
    <2>3. n = m + 1
      BY <1>1, <2>2, SentMore DEF m, n
    <2>4. Pending(e)' = Pending(e)
      BY <1>5, EncodesFacts, PendingThen
    <2> QED BY <1>1, <1>2, <1>3, <2>2, <2>3, <2>4, PendingThen
  <1>6. CASE Refuses(e)
    <2>1. d.permits = c.permits - 1 /\ d.poolIds = c.poolIds - 1 /\ SourcesSent(d) = SourcesSent(c)
      BY <1>6, RefuseFacts, SentSame DEF Refuses, SameSources
    <2>2. th'[e] = th[e]
      BY <1>6, ThreadsAre DEF Refuses, RefuseStep, Moves, Only
    <2>3. Pending(e)' = Pending(e) /\ n = m
      BY <2>1, <2>2, PendingThen DEF m, n
    <2> QED BY <1>1, <1>2, <1>3, <2>1, <2>3, PendingThen
  <1>7. CASE DoneStep(e)
    <2>1. d.permits = c.permits + 1 /\ d.poolIds = c.poolIds + 1 /\ SourcesSent(d) = SourcesSent(c)
      BY <1>1, <1>7, DoneFacts, SentSame DEF SameSources
    <2>2. Pending(e) = 1 /\ Pending(e)' = 0 /\ n = m
      BY <1>7, <2>1, PendingThen DEF DoneStep, Moves, One, m, n
    <2> QED BY <1>1, <1>2, <1>3, <2>1, <2>2
  <1>8. CASE BackStep(e)
    <2> DEFINE p == th[e].st.pic
    <2>1. p \in Pictures /\ SamePermits(c, d) /\ c.sourceSent[p] /\ d.sourceSent = [c.sourceSent EXCEPT ![p] = FALSE]
      BY <1>1, <1>8, BackFacts, BackSent
    <2>2. n = m - 1
      BY <1>1, <2>1, SentLess DEF m, n
    <2>3. Pending(e) = 0 /\ Pending(e)' = 1
      BY <1>8, PendingThen DEF BackStep, Moves, One
    <2> QED BY <1>1, <1>2, <1>3, <2>1, <2>2, <2>3 DEF SamePermits
  <1>9. CASE ReleaseStep(e)
    <2>1. SamePermits(c, d) /\ n = 0
      BY <1>1, <1>9, ReleaseFacts, SentNone DEF n
    <2>2. th'[e] = th[e]
      BY <1>9, ThreadsAre DEF ReleaseStep, Moves, Only
    <2>3. Pending(e)' = Pending(e)
      BY <2>2, PendingThen
    <2> QED BY <1>1, <1>2, <1>3, <2>1, <2>3, PendingThen DEF SamePermits
  <1>10. CASE ~Encodes(e) /\ ~Refuses(e) /\ ~DoneStep(e) /\ ~BackStep(e) /\ ~ReleaseStep(e)
    <2>1. SamePermits(c, d) /\ SameSources(c, d)
      BY <1>10, FieldsOf
    <2>2. n = m
      BY <2>1, SentSame DEF m, n, SameSources
    <2>3. Pending(e)' <= Pending(e)
      <3>1. CASE Slices(e)
        <4>1. th'[e].pc = "callback"
          BY <3>1 DEF Slices, SliceStep
        <4> QED BY <4>1, PendingThen DEF One
      <3>2. CASE ~Slices(e)
        <4>1. StatusWay(e)
          BY <3>2, StatusWays
        <4>2. th'[e].pc \in {"releaseTable", "done"} => th[e].pc \in {"releaseTable", "done"}
          BY <1>10, <4>1 DEF StatusWay, PutPlaces, RestPlaces, PutStep, Moves
        <4> QED BY <4>2, PendingThen DEF One
      <3> QED BY <3>1, <3>2
    <2> QED BY <1>1, <1>2, <1>3, <2>1, <2>2, <2>3, PendingThen DEF SamePermits
  <1> QED BY <1>5, <1>6, <1>7, <1>8, <1>9, <1>10

\* A picture that is passed on finds a pool id and an entry for its source.
LEMMA RoomForSource ==
  ASSUME EncoderInv, NEW e \in Encoders, enc[e].permits > 0
  PROVE  enc[e].poolIds > 0 /\ Cardinality(SourcesSent(enc[e])) < MaxSource
  <1>1. enc[e].permits \in Int /\ enc[e].poolIds \in Int
    BY ContextIs DEF EncoderInv, TypeOK
  <1>2. PermitsOf(e) /\ Cardinality(SourcesSent(enc[e])) \in Nat /\ Pending(e) \in {0, 1}
    BY SentAreFinite, PendingThen DEF EncoderInv, Permits, PermitsOf, Pending
  <1> QED BY <1>1, <1>2, Sizes DEF PermitsOf

LEMMA RingsIs ==
  RingOfStreams <=> AllRings
  BY DEF RingOfStreams, AllRings, RingOf

LEMMA RingsThen ==
  RingOfStreams' <=> AllRings'
  BY RingsIs, PTL

\* The hardware fills the stream that the library expects.
LEMMA StreamExpected ==
  ASSUME EncoderInv, NEW e \in Encoders, enc[e].streams # <<>>, ~Released(e)
  PROVE  Head(enc[e].streams) = enc[e].curStreamRecv
  <1>1. /\ enc[e].streams \in Seq(0 .. MaxStream - 1)
        /\ enc[e].curStreamRecv \in 0 .. MaxStream - 1
    BY ContextIs DEF EncoderInv, TypeOK
  <1>2. 1 \in DOMAIN enc[e].streams /\ Head(enc[e].streams) = enc[e].streams[1]
    BY <1>1, SeqHead
  <1>3. RingOf(e)
    BY RingsIs DEF EncoderInv, AllRings
  <1>4. enc[e].streams[1] = Slot(e, 0)
    <2>1. \A i \in DOMAIN enc[e].streams : enc[e].streams[i] = Slot(e, i - 1)
      BY <1>3 DEF RingOf
    <2>2. 1 - 1 = 0
      OBVIOUS
    <2> QED BY <1>2, <2>1, <2>2
  <1>5. Slot(e, 0) = enc[e].curStreamRecv
    <2>1. 0 \in 0 .. MaxStream - 1
      BY Sizes
    <2> DEFINE r == enc[e].curStreamRecv
    <2>2. (r + 0) % MaxStream = IF r + 0 < MaxStream THEN r + 0 ELSE r + 0 - MaxStream
      BY <1>1, <2>1, RingIs
    <2>3. Slot(e, 0) = (r + 0) % MaxStream
      BY DEF Slot
    <2>4. r \in 0 .. MaxStream - 1
      BY <1>1
    <2> HIDE DEF r
    <2>5. (IF r + 0 < MaxStream THEN r + 0 ELSE r + 0 - MaxStream) = r
      BY <2>4, Sizes
    <2> QED BY <2>2, <2>3, <2>5 DEF r
  <1> QED BY <1>2, <1>4, <1>5

\* No assertion of the library fails.
LEMMA ContextsOk ==
  ASSUME EncoderInv, Steps, NEW e \in Encoders
  PROVE  enc'[e].ok
  <1> DEFINE c == enc[e]
             d == enc'[e]
  <1>1. c.ok /\ TypeOK /\ SourcesHeld
    BY DEF EncoderInv, AssertionsHold
  <1>2. CASE Encodes(e)
    <2>1. PICK t \in Threads : EncodeStep(t) /\ th[t].e = e
      BY <1>2 DEF Encodes
    <2>2. /\ c.permits > 0
          /\ d.ok <=> c.ok /\ c.poolIds > 0 /\ Cardinality(SourcesSent(c)) < MaxSource
      BY <2>1, EncodeFacts
    <2> QED BY <1>1, <2>2, RoomForSource
  <1>3. CASE Refuses(e)
    <2>1. /\ c.permits > 0
          /\ d.ok <=> c.ok /\ c.poolIds > 0 /\ Cardinality(SourcesSent(c)) < MaxSource
      BY <1>3, RefuseFacts DEF Refuses
    <2> QED BY <1>1, <2>1, RoomForSource
  <1>4. CASE Slices(e)
    <2>1. PICK i \in 1 .. Len(c.frames) : SliceStep(e, i)
      BY <1>4 DEF Slices
    <2>2. c.streams # <<>> /\ (d.ok <=> c.ok /\ c.curStreamRecv = Head(c.streams))
      BY <1>1, <2>1, SliceFacts
    <2>3. ~Released(e)
      BY <2>1, HoldsNow DEF SliceStep, Released
    <2> QED BY <1>1, <2>2, <2>3, StreamExpected
  <1>5. CASE BackStep(e)
    BY <1>1, <1>5, BackFacts, BackSent
  <1> QED BY <1>1, <1>2, <1>3, <1>4, <1>5, FieldsOf DEF SameOk
-----------------------------------------------------------------------------
(* The ring of streams *)

\* Places of the ring: the place after one, and different places.
LEMMA PlaceIs ==
  ASSUME NEW x \in 0 .. MaxStream - 1, NEW y \in 0 .. MaxStream - 1
  PROVE  LET a == (x + y) % MaxStream
         IN  a \in 0 .. MaxStream - 1 /\ (a = x + y \/ a = x + y - MaxStream)
  <1> DEFINE a == (x + y) % MaxStream
  <1>1. a \in 0 .. MaxStream - 1 /\ a = IF x + y < MaxStream THEN x + y ELSE x + y - MaxStream
    BY RingIs
  <1> HIDE DEF a
  <1>2. a = x + y \/ a = x + y - MaxStream
    BY <1>1
  <1> QED BY <1>1, <1>2 DEF a

LEMMA SlotNext ==
  ASSUME NEW o \in 0 .. MaxStream - 1, NEW k \in Nat, k + 1 < MaxStream
  PROVE  /\ (((o + 1) % MaxStream) + k) % MaxStream = (o + (k + 1)) % MaxStream
         /\ (((o + k) % MaxStream) + 1) % MaxStream = (o + (k + 1)) % MaxStream
  <1> DEFINE m == MaxStream
             a == (o + 1) % m
             b == (o + k) % m
             c == (o + (k + 1)) % m
             x == (a + k) % m
             y == (b + 1) % m
  <1>1. 1 \in 0 .. m - 1 /\ k \in 0 .. m - 1 /\ k + 1 \in 0 .. m - 1 /\ m \in Nat
    BY Sizes
  <1>2. a \in 0 .. m - 1 /\ (a = o + 1 \/ a = o + 1 - m)
    BY <1>1, PlaceIs
  <1>3. b \in 0 .. m - 1 /\ (b = o + k \/ b = o + k - m)
    BY <1>1, PlaceIs
  <1>4. c \in 0 .. m - 1 /\ (c = o + (k + 1) \/ c = o + (k + 1) - m)
    BY <1>1, PlaceIs
  <1> HIDE DEF a, b, c
  <1>5. x \in 0 .. m - 1 /\ (x = a + k \/ x = a + k - m)
    BY <1>1, <1>2, PlaceIs
  <1>6. y \in 0 .. m - 1 /\ (y = b + 1 \/ y = b + 1 - m)
    BY <1>1, <1>3, PlaceIs
  <1>7. o \in Nat
    BY <1>1
  <1> HIDE DEF x, y, m
  <1>8. x = c
    BY <1>1, <1>2, <1>4, <1>5, <1>7
  <1>9. y = c
    BY <1>1, <1>3, <1>4, <1>6, <1>7
  <1> QED BY <1>8, <1>9 DEF a, b, c, x, y, m

LEMMA SlotsDiffer ==
  ASSUME NEW o \in 0 .. MaxStream - 1, NEW j \in 0 .. MaxStream - 1, NEW k \in 0 .. MaxStream - 1,
         (o + j) % MaxStream = (o + k) % MaxStream
  PROVE  j = k
  <1> DEFINE m == MaxStream
             a == (o + j) % m
             b == (o + k) % m
  <1>1. a \in 0 .. m - 1 /\ (a = o + j \/ a = o + j - m)
    BY PlaceIs
  <1>2. b \in 0 .. m - 1 /\ (b = o + k \/ b = o + k - m)
    BY PlaceIs
  <1>3. a = b /\ m \in Nat /\ o \in 0 .. m - 1 /\ j \in 0 .. m - 1 /\ k \in 0 .. m - 1
    BY Sizes
  <1> HIDE DEF a, b, m
  <1> QED BY <1>1, <1>2, <1>3

\* What the ring is about, for one encoder.
LEMMA RingNow ==
  ASSUME EncoderInv, NEW e \in Encoders
  PROVE  /\ RingOf(e) /\ TypeOK /\ enc[e].streams \in Seq(0 .. MaxStream - 1)
         /\ DOMAIN enc[e].streams = 1 .. Len(enc[e].streams) /\ Len(enc[e].streams) \in Nat
         /\ enc[e].curStreamRecv \in 0 .. MaxStream - 1 /\ enc[e].curStreamSent \in 0 .. MaxStream - 1
         /\ enc[e].streamSent \in [0 .. MaxStream - 1 -> Streams \cup {NoStream}]
         /\ th[e].st.stream \in 0 .. MaxStream - 1
         /\ StreamsOf(e) \in Nat /\ StreamsOf(e) < MaxStream /\ MaxStream \in Nat
         /\ (InCallback(e) => ~Released(e)) /\ (BeforePut(e) => InCallback(e))
  <1>1. TypeOK /\ enc[e] \in Contexts
    BY DEF EncoderInv, TypeOK
  <1>2. /\ enc[e].streams \in Seq(0 .. MaxStream - 1)
        /\ enc[e].curStreamRecv \in 0 .. MaxStream - 1 /\ enc[e].curStreamSent \in 0 .. MaxStream - 1
        /\ enc[e].streamSent \in [0 .. MaxStream - 1 -> Streams \cup {NoStream}]
    BY <1>1, ContextIs
  <1>3. DOMAIN enc[e].streams = 1 .. Len(enc[e].streams) /\ Len(enc[e].streams) \in Nat
    BY <1>2, LenProperties
  <1>4. StreamsOf(e) \in Nat /\ StreamsOf(e) < MaxStream
    <2>1. NumStreams(conf) \in Nat /\ 1 <= NumStreams(conf) /\ NumStreams(conf) < MaxStream
      BY <1>1, SettingsAre DEF TypeOK
    <2> QED BY <2>1, Sizes DEF StreamsOf, One
  <1>5. RingOf(e)
    BY RingsIs DEF EncoderInv, AllRings
  <1>6. (InCallback(e) => ~Released(e)) /\ (BeforePut(e) => InCallback(e))
    BY HoldsNow, CallsAre DEF CallPlaces, Released
  <1>7. MaxStream \in Nat /\ th[e].st.stream \in 0 .. MaxStream - 1
    BY Sizes, HoldsNow
  <1> QED BY <1>1, <1>2, <1>3, <1>4, <1>5, <1>6, <1>7

LEMMA RingQuiet ==
  ASSUME EncoderInv, Steps, conf' = conf, NEW e \in Encoders,
         ~Slices(e), ~PutStep(e), ~ReleaseStep(e)
  PROVE  RingOf(e)'
  <1>1. RingOf(e)
    BY RingNow
  <1>2. SameRing(enc[e], enc'[e]) /\ StreamsOf(e)' = StreamsOf(e) /\ (Released(e)' <=> Released(e))
    BY FieldsOf, SettingsKept, ReleasedKept
  <1>3. StatusWay(e)
    BY StatusWays
  <1>4. th'[e].st = th[e].st /\ (BeforePut(e)' <=> BeforePut(e)) /\ (InCallback(e)' => InCallback(e))
    <2>0. th'[e].st = th[e].st
      BY <1>3 DEF StatusWay
    <2>1. CASE th'[e].pc = th[e].pc
      BY <2>0, <2>1, CallsAre, CallsThen
    <2>2. CASE th[e].pc \in PutPlaces /\ th'[e].pc \in PutPlaces
      BY <2>0, <2>2, CallsAre, CallsThen DEF CallPlaces
    <2>3. CASE BackStep(e) \/ Moves(e, "releaseTable", "done") \/ DoneStep(e) \/ Moves(e, "unref", "poll")
      BY <2>0, <2>3, CallsAre, CallsThen DEF BackStep, DoneStep, Moves, PutPlaces, CallPlaces
    <2>5. CASE th[e].pc \in RestPlaces /\ th'[e].pc \in RestPlaces
      BY <2>0, <2>5, CallsAre, CallsThen DEF RestPlaces, PutPlaces, CallPlaces
    <2> QED BY <1>3, <2>1, <2>2, <2>3, <2>5 DEF StatusWay
  <1>5. \A i : Slot(e, i)' = Slot(e, i)
    BY <1>2 DEF Slot, SameRing
  <1>6. One(BeforePut(e))' = One(BeforePut(e))
    BY <1>4 DEF One
  <1> HIDE DEF Slot, One, BeforePut, InCallback, Released, StreamsOf
  <1> QED BY <1>1, <1>2, <1>4, <1>5, <1>6 DEF RingOf, SameRing

LEMMA RingReleased ==
  ASSUME EncoderInv, Steps, conf' = conf, NEW e \in Encoders, ReleaseStep(e)
  PROVE  RingOf(e)'
  <1>1. Released(e)'
    BY ReleasedKept
  <1>2. enc'[e].curStreamSent = enc'[e].curStreamRecv
    BY ReleaseFacts DEF EncoderInv
  <1>3. th'[e] = th[e] /\ th[e].pc = "ended"
    BY ThreadsAre DEF ReleaseStep, Moves, Only
  <1>4. ~InCallback(e)' /\ ~BeforePut(e)'
    BY <1>3, CallsThen DEF PutPlaces, CallPlaces
  <1> QED BY <1>1, <1>2, <1>4 DEF RingOf

LEMMA RingSlice ==
  ASSUME EncoderInv, Steps, conf' = conf, NEW e \in Encoders, Slices(e)
  PROVE  RingOf(e)'
  <1> DEFINE q == enc[e].streams
             r == enc'[e].streams
             n == Len(q)
             ss == enc[e].streamSent
             o == enc[e].curStreamRecv
             st == th'[e].st
             M == MaxStream
             to(k) == (enc'[e].curStreamRecv + k) % M
  <1>1. PICK f \in 1 .. Len(enc[e].frames) : SliceStep(e, f)
    BY DEF Slices
  <1>2. /\ RingOf(e) /\ TypeOK /\ q \in Seq(0 .. M - 1) /\ DOMAIN q = 1 .. n /\ n \in Nat
        /\ o \in 0 .. M - 1 /\ ss \in [0 .. M - 1 -> Streams \cup {NoStream}]
        /\ StreamsOf(e) \in Nat /\ StreamsOf(e) < M /\ M \in Nat
    BY RingNow
  <1>3. th[e].pc = "wait" /\ th'[e].pc = "callback"
    BY <1>1 DEF SliceStep
  <1>4. ~BeforePut(e) /\ BeforePut(e)' /\ InCallback(e)'
    BY <1>3, CallsAre, CallsThen DEF PutPlaces, CallPlaces
  <1>5. ~Released(e) /\ ~Released(e)'
    <2>1. ~Released(e)
      BY <1>3, HoldsNow DEF Released
    <2>2. ~ReleaseStep(e)
      BY <1>3 DEF ReleaseStep
    <2> QED BY <2>1, <2>2, ReleasedKept
  <1>6. /\ q # <<>> /\ st.stream = Head(q) /\ enc'[e].streamSent = ss /\ r = Tail(q)
        /\ enc'[e].curStreamSent = enc[e].curStreamSent /\ enc'[e].curStreamRecv = (o + 1) % M
    BY <1>1, <1>2, SliceFacts
  <1>7. n > 0 /\ Head(q) = q[1] /\ Len(r) = n - 1 /\ DOMAIN r = 1 .. n - 1
        /\ \A i \in 1 .. n - 1 : r[i] = q[i + 1]
    BY <1>2, <1>6, SeqHead
  <1>8. StreamsOf(e)' = StreamsOf(e)
    BY SettingsKept
  <1>9. Head(q) = o
    BY <1>5, <1>6, StreamExpected
  <1>10. /\ n + One(BeforePut(e)) = StreamsOf(e) /\ enc[e].curStreamSent = Slot(e, n)
         /\ \A i \in 1 .. n : q[i] = Slot(e, i - 1) /\ ss[q[i]] \in Streams
         /\ \A i, j \in 1 .. n : ss[q[i]] = ss[q[j]] => i = j
    BY <1>2, <1>5 DEF RingOf
  <1>11. One(BeforePut(e)) = 0 /\ One(BeforePut(e))' = 1
    BY <1>4 DEF One
  <1>12. n < M /\ Len(r) + One(BeforePut(e))' = StreamsOf(e)'
    BY <1>2, <1>7, <1>8, <1>10, <1>11
  <1>13. ASSUME NEW k \in Nat, k < n PROVE to(k) = Slot(e, k + 1)
    <2>1. k + 1 < M
      BY <1>2, <1>12, <1>13
    <2>2. (((o + 1) % M) + k) % M = (o + (k + 1)) % M
      BY <1>2, <1>13, <2>1, SlotNext
    <2>3. to(k) = (((o + 1) % M) + k) % M /\ Slot(e, k + 1) = (o + (k + 1)) % M
      BY <1>6 DEF Slot
    <2> QED BY <2>2, <2>3
  <1>14. (st.stream + 1) % M = enc'[e].curStreamRecv
    BY <1>6, <1>9
  <1>15. 1 \in 1 .. n /\ (\A i \in 1 .. n - 1 : i \in Nat /\ i - 1 \in Nat /\ i - 1 < n /\ i - 1 + 1 = i /\ i + 1 \in 1 .. n
                         /\ i + 1 # 1 /\ i + 1 - 1 = i)
         /\ n - 1 \in Nat /\ n - 1 < n /\ n - 1 + 1 = n
    BY <1>2, <1>7
  <1>17. enc'[e].curStreamSent = to(Len(r))
    <2>1. to(n - 1) = Slot(e, n)
      BY <1>13, <1>15
    <2> QED BY <1>6, <1>7, <1>10, <2>1
  <1>18. \A i \in 1 .. n - 1 : r[i] = to(i - 1)
    <2>1. ASSUME NEW i \in 1 .. n - 1 PROVE r[i] = to(i - 1)
      <3>1. to(i - 1) = Slot(e, i)
        BY <1>13, <1>15
      <3>2. q[i + 1] = Slot(e, i)
        BY <1>10, <1>15
      <3> QED BY <1>7, <3>1, <3>2
    <2> QED BY <2>1
  <1> HIDE DEF q, r, n, ss, o, st, M
  <1>19. \A i \in 1 .. n - 1 : ss[r[i]] \in Streams
    BY <1>7, <1>10, <1>15
  <1>20. \A i, j \in 1 .. n - 1 : ss[r[i]] = ss[r[j]] => i = j
    <2>1. ASSUME NEW i \in 1 .. n - 1, NEW j \in 1 .. n - 1, ss[r[i]] = ss[r[j]] PROVE i = j
      <3>1. i + 1 = j + 1
        BY <1>7, <1>10, <1>15, <2>1
      <3> QED BY <1>15, <3>1
    <2> QED BY <2>1
  <1>21. ss[st.stream] \in Streams /\ \A i \in 1 .. n - 1 : ss[r[i]] # ss[st.stream]
    <2>1. st.stream = q[1] /\ ss[q[1]] \in Streams
      BY <1>6, <1>7, <1>10, <1>15
    <2>2. ASSUME NEW i \in 1 .. n - 1 PROVE ss[r[i]] # ss[q[1]]
      <3>1. i + 1 \in 1 .. n /\ i + 1 # 1 /\ 1 \in 1 .. n /\ r[i] = q[i + 1]
        BY <1>7, <1>15
      <3> QED BY <1>10, <3>1
    <2> QED BY <2>1, <2>2
  <1> QED
    BY <1>4, <1>5, <1>6, <1>7, <1>12, <1>14, <1>17, <1>18, <1>19, <1>20, <1>21 DEF RingOf, Slot, r, ss, st, M

LEMMA RingPut ==
  ASSUME EncoderInv, Steps, conf' = conf, NEW e \in Encoders, PutStep(e)
  PROVE  RingOf(e)'
  <1> DEFINE q == enc[e].streams
             r == enc'[e].streams
             n == Len(q)
             ss == enc[e].streamSent
             tt == enc'[e].streamSent
             x == enc[e].curStreamSent
             o == enc[e].curStreamRecv
             st == th[e].st
             s == ss[st.stream]
             M == MaxStream
             to(k) == (enc'[e].curStreamRecv + k) % M
  <1>2. /\ RingOf(e) /\ TypeOK /\ q \in Seq(0 .. M - 1) /\ DOMAIN q = 1 .. n /\ n \in Nat
        /\ o \in 0 .. M - 1 /\ x \in 0 .. M - 1 /\ ss \in [0 .. M - 1 -> Streams \cup {NoStream}]
        /\ StreamsOf(e) \in Nat /\ StreamsOf(e) < M /\ M \in Nat /\ st.stream \in 0 .. M - 1
        /\ (InCallback(e) => ~Released(e)) /\ RingOfStreams
    BY RingNow DEF EncoderInv
  <1>3. /\ th[e].pc = IF e = "lookahead" THEN "put" ELSE "callback"
        /\ th'[e].pc = IF th[e].st.last THEN "release" ELSE "unref"
        /\ th'[e].st = th[e].st
    BY DEF PutStep, Moves, SameWork
  <1>4. BeforePut(e) /\ ~BeforePut(e)' /\ InCallback(e)' /\ InCallback(e)
    <2>1. th[e].pc \in {"put", "callback"} /\ th'[e].pc \in {"release", "unref"}
      BY <1>3
    <2> QED BY <2>1, CallsAre, CallsThen DEF PutPlaces, CallPlaces
  <1>5. ~Released(e) /\ ~Released(e)'
    <2>2. ~ReleaseStep(e)
      BY <1>3 DEF ReleaseStep
    <2> QED BY <1>2, <1>4, <2>2, ReleasedKept
  <1>6. /\ s \in Streams /\ tt = [ss EXCEPT ![x] = s] /\ r = Append(q, x)
        /\ enc'[e].curStreamSent = (x + 1) % M /\ enc'[e].curStreamRecv = o
    BY <1>2, PutFacts
  <1>7. /\ Len(r) = n + 1 /\ DOMAIN r = 1 .. n + 1
        /\ (\A i \in 1 .. n : r[i] = q[i]) /\ r[n + 1] = x
    BY <1>2, <1>6, SeqEnd
  <1>8. StreamsOf(e)' = StreamsOf(e)
    BY SettingsKept
  <1>10. /\ n + One(BeforePut(e)) = StreamsOf(e) /\ x = Slot(e, n)
         /\ \A i \in 1 .. n : q[i] = Slot(e, i - 1) /\ ss[q[i]] \in Streams
         /\ \A i, j \in 1 .. n : ss[q[i]] = ss[q[j]] => i = j
         /\ (st.stream + 1) % M = o
         /\ \A i \in 1 .. n : ss[q[i]] # s
    BY <1>2, <1>4, <1>5 DEF RingOf
  <1>11. One(BeforePut(e)) = 1 /\ One(BeforePut(e))' = 0
    BY <1>4 DEF One
  <1>12. n + 1 < M /\ Len(r) + One(BeforePut(e))' = StreamsOf(e)'
    BY <1>2, <1>7, <1>8, <1>10, <1>11
  <1>13. \A k : to(k) = Slot(e, k)
    BY <1>6 DEF Slot
  <1>14. enc'[e].curStreamSent = to(Len(r))
    <2>1. (((o + n) % M) + 1) % M = (o + (n + 1)) % M
      BY <1>2, <1>12, SlotNext
    <2>2. Slot(e, n) = (o + n) % M /\ Slot(e, n + 1) = (o + (n + 1)) % M
      BY DEF Slot
    <2>3. Slot(e, n + 1) = (x + 1) % M
      BY <1>10, <2>1, <2>2
    <2> QED BY <1>6, <1>7, <1>13, <2>3
  <1>15. \A i \in 1 .. n : q[i] # x
    <2>1. ASSUME NEW i \in 1 .. n, q[i] = x PROVE FALSE
      <3>1. (o + (i - 1)) % M = (o + n) % M
        BY <1>10, <2>1 DEF Slot
      <3>2. i - 1 \in 0 .. M - 1 /\ n \in 0 .. M - 1 /\ i - 1 # n
        BY <1>2, <1>12, SMTT(30)
      <3> QED BY <1>2, <3>1, <3>2, SlotsDiffer
    <2> QED BY <2>1
  <1>16. \A i \in 1 .. n : q[i] \in 0 .. M - 1
    BY <1>2, ElementOfSeq
  <1>17. \A i \in 1 .. n + 1 : i \in 1 .. n \/ i = n + 1
    <2>1. n \in Nat
      BY <1>2
    <2> HIDE DEF n
    <2> QED BY <2>1
  <1>19. \A i \in 1 .. n + 1 : r[i] = to(i - 1)
    <2>1. \A i \in 1 .. n : r[i] = Slot(e, i - 1)
      BY <1>7, <1>10
    <2>2. r[n + 1] = Slot(e, n)
      BY <1>7, <1>10
    <2>0. n \in Nat
      BY <1>2
    <2> HIDE DEF r, n, to
    <2>3. ASSUME NEW i \in 1 .. n + 1 PROVE r[i] = to(i - 1)
      <3>1. CASE i \in 1 .. n
        BY <1>13, <2>1, <3>1
      <3>2. CASE i = n + 1
        <4>1. to(i - 1) = Slot(e, i - 1)
          BY <1>13
        <4>2. i - 1 = n
          BY <2>0, <3>2
        <4>3. r[i] = Slot(e, n)
          BY <2>2, <3>2
        <4>4. Slot(e, i - 1) = Slot(e, n)
          BY <4>2
        <4> QED BY <4>1, <4>3, <4>4
      <3> QED BY <1>17, <3>1, <3>2
    <2> QED BY <2>3
  <1> HIDE DEF q, r, n, ss, tt, o, st, M, x, s
  <1>20. (\A i \in 1 .. n : tt[r[i]] = ss[q[i]]) /\ tt[r[n + 1]] = s
    BY <1>2, <1>6, <1>7, <1>15, <1>16
  <1>21. \A i \in 1 .. n + 1 : tt[r[i]] \in Streams
    BY <1>6, <1>10, <1>17, <1>20
  <1>22. \A i, j \in 1 .. n + 1 : tt[r[i]] = tt[r[j]] => i = j
    BY <1>10, <1>17, <1>20
  <1>23. tt[st.stream] \in Streams
    <2>1. tt[st.stream] = s
      BY <1>2, <1>6 DEF s
    <2> QED BY <1>6, <2>1
  <1>24. (th'[e].st.stream + 1) % M = enc'[e].curStreamRecv /\ tt[th'[e].st.stream] \in Streams
    BY <1>3, <1>6, <1>10, <1>23 DEF st
  <1> QED
    BY <1>4, <1>5, <1>7, <1>12, <1>14, <1>19, <1>21, <1>22, <1>24 DEF RingOf, Slot, r, tt, M

LEMMA RingsKept ==
  ASSUME EncoderInv, Steps, conf' = conf
  PROVE  RingOfStreams'
  <1>1. ASSUME NEW e \in Encoders PROVE RingOf(e)'
    BY <1>1, RingQuiet, RingReleased, RingSlice, RingPut
  <1> QED BY <1>1, RingsThen DEF AllRings
-----------------------------------------------------------------------------
(* The reference counts and the pools: what each step does to them *)

\* The references a release of one buffer takes.
LEMMA UnrefSourceIs ==
  ASSUME TypeOK, NEW p \in Pictures, UnrefSource(p)
  PROVE  SourcesLeft({p}) /\ srcPool' \in [free : {srcPool'.free}, event : BOOLEAN]
  <1>1. srcRefs \in [Pictures -> Nat] /\ srcPool \in [free : Nat, event : BOOLEAN]
    BY DEF TypeOK
  <1>2. srcRefs' = [srcRefs EXCEPT ![p] = @ - 1]
    BY DEF UnrefSource
  <1>3. srcRefs' = [q \in Pictures |-> srcRefs[q] - (IF q \in {p} THEN 1 ELSE 0)]
    <2>1. ASSUME NEW q \in Pictures
          PROVE  [srcRefs EXCEPT ![p] = @ - 1][q] = srcRefs[q] - (IF q \in {p} THEN 1 ELSE 0)
      BY <1>1
    <2> QED BY <1>1, <1>2, <2>1
  <1> DEFINE S == {q \in {p} : srcRefs[q] = 1}
             n == IF srcRefs[p] = 1 THEN 1 ELSE 0
  <1>4. Cardinality(S) = n /\ n \in Nat
    <2>1. CASE srcRefs[p] = 1
      <3>1. S = {p}
        BY <2>1
      <3> QED BY <2>1, <3>1, FS_Singleton
    <2>2. CASE srcRefs[p] # 1
      <3>1. S = {}
        BY <2>2
      <3> QED BY <2>2, <3>1, FS_EmptySet
    <2> QED BY <2>1, <2>2
  <1>5. srcPool' = Put(srcPool, n)
    BY DEF UnrefSource
  <1> HIDE DEF n, S
  <1>6. srcPool'.free = srcPool.free + n /\ srcPool' \in [free : {srcPool'.free}, event : BOOLEAN]
    BY <1>1, <1>4, <1>5 DEF Put
  <1> QED BY <1>3, <1>4, <1>6 DEF SourcesLeft, S

LEMMA UnrefTablesIs ==
  ASSUME TypeOK, NEW U, UnrefTables(U)
  PROVE  TablesLeft(U) /\ qpPool' \in [free : {qpPool'.free}, event : BOOLEAN]
  <1> DEFINE n == Cardinality({u \in U : qpRefs[u] = 1})
  <1>1. qpPool \in [free : Nat, event : BOOLEAN] /\ qpPool' = Put(qpPool, n)
    BY DEF UnrefTables, TypeOK
  <1> HIDE DEF n
  <1>2. qpPool'.free = qpPool.free + n /\ qpPool' \in [free : {qpPool'.free}, event : BOOLEAN]
    BY <1>1 DEF Put
  <1> QED BY <1>2 DEF UnrefTables, TablesLeft, n

\* A thread that moves between places that hold the same holds the same.
LEMMA HandsOf ==
  ASSUME NEW t \in Threads, NEW u \in Threads, NEW x, NEW y, Moves(t, x, y),
         x \in {"table", "tableWait"} <=> y \in {"table", "tableWait"},
         x \in {"encode", "dropTable", "thrown"} <=> y \in {"encode", "dropTable", "thrown"},
         x \in CallPlaces <=> y \in CallPlaces, x # "releaseTable", y # "releaseTable"
  PROVE  SameHands(u)
  <1>1. CASE u # t
    BY <1>1 DEF Moves, Only, SameHands, SameWork, Passing, HasTable, InCallback
  <1>2. CASE u = t
    <2>1. th[t].pc = x /\ th'[t].pc = y /\ SameWork(t)
      BY DEF Moves
    <2>2. (Passing(t)' <=> Passing(t)) /\ (HasTable(t)' <=> HasTable(t))
      BY <2>1 DEF Passing, HasTable
    <2>3. InCallback(t)' <=> InCallback(t)
      BY <2>1, CallsAre, CallsThen
    <2> QED BY <1>2, <2>1, <2>2, <2>3 DEF SameHands
  <1> QED BY <1>1, <1>2

LEMMA Undisturbs ==
  ASSUME NEW t \in Threads, NEW x, NEW y, Moves(t, x, y), fifo' = fifo,
         \A e \in Encoders : SameHolds(e),
         x \in {"table", "tableWait"} <=> y \in {"table", "tableWait"},
         x \in {"encode", "dropTable", "thrown"} <=> y \in {"encode", "dropTable", "thrown"},
         x \in CallPlaces <=> y \in CallPlaces, x # "releaseTable", y # "releaseTable"
  PROVE  Undisturbed
  BY HandsOf DEF Undisturbed

LEMMA HoldsSame ==
  ASSUME enc' = enc
  PROVE  \A e \in Encoders : SameHolds(e)
  BY DEF SameHolds, SameSources, SameRing

LEMMA PoolsAlone ==
  ASSUME TypeOK, UNCHANGED poolVars
  PROVE  AllAlone /\ PoolKinds
  BY DEF TypeOK, poolVars, AllAlone, SourcesAlone, TablesAlone, StreamsAlone, PoolKinds

LEMMA SinkActs ==
  ASSUME EncoderInv, DriverAccepts, NEW t \in Threads, Sink(t)
  PROVE  Acts /\ PoolKinds
  <1>0. /\ TypeOK /\ ThreadPlaces /\ th[t].e \in Encoders
        /\ srcPool \in [free : Nat, event : BOOLEAN] /\ qpPool \in [free : Nat, event : BOOLEAN]
    BY DEF EncoderInv, TypeOK, ThreadStates
  <1>1. CASE GetTable(t)
    <2>1. /\ th[t].pc = "table" /\ Same /\ SourcesAlone /\ StreamsAlone /\ srcPool' = srcPool
          /\ th' = [th EXCEPT ![t].pc = "encode"] \/ th' = [th EXCEPT ![t].pc = "tableWait"]
      BY <1>1 DEF GetTable, laVars, Same, SourcesAlone, StreamsAlone
    <2>2. CASE qpPool.free > 0
      <3>1. /\ qpPool' = Take(qpPool) /\ qpRefs' = [qpRefs EXCEPT ![Table(t)] = 1]
            /\ th' = [th EXCEPT ![t].pc = "encode"]
        BY <1>1, <2>2 DEF GetTable, Table
      <3>2. Moves(t, "table", "encode")
        BY <1>0, <2>1, <3>1, ThreadMoves DEF Step
      <3>3. TableTaken(Table(t)) /\ PoolKinds
        BY <1>0, <2>1, <2>2, <3>1 DEF TableTaken, Take, PoolKinds
      <3> QED BY <2>1, <3>2, <3>3 DEF Acts, TakesTable
    <2>3. CASE ~(qpPool.free > 0)
      <3>1. qpPool' = qpPool /\ qpRefs' = qpRefs /\ th' = [th EXCEPT ![t].pc = "tableWait"]
        BY <1>1, <2>3 DEF GetTable
      <3>2. Moves(t, "table", "tableWait")
        BY <1>0, <2>1, <3>1, ThreadMoves DEF Step
      <3>3. AllAlone /\ PoolKinds
        BY <1>0, <2>1, <3>1 DEF AllAlone, TablesAlone, PoolKinds
      <3>4. Undisturbed
        BY <2>1, <3>2, Undisturbs, HoldsSame DEF Same, CallPlaces, PutPlaces
      <3> QED BY <3>3, <3>4 DEF Acts
    <2> QED BY <2>2, <2>3
  <1>2. CASE WaitTable(t)
    <2>1. Moves(t, "tableWait", "table")
      BY <1>0, <1>2, ThreadMoves DEF WaitTable
    <2>2. Undisturbed
      BY <1>2, <2>1, Undisturbs, HoldsSame DEF WaitTable, laVars, CallPlaces, PutPlaces
    <2>3. AllAlone /\ PoolKinds
      BY <1>0, <1>2 DEF WaitTable, AllAlone, SourcesAlone, TablesAlone, StreamsAlone, PoolKinds
    <2> QED BY <2>2, <2>3 DEF Acts
  <1>3. CASE Encode(t)
    <2>1. EncodeStep(t)
      BY <1>0, <1>3, ThreadMoves, ContextCalls DEF Encode, laVars, EncodeStep, IsReady, TypeOK
    <2>2. SourceShared(th[t].p) /\ TableShared(Table(t)) /\ StreamsAlone /\ PoolKinds
      BY <1>0, <1>3 DEF Encode, SourceShared, TableShared, StreamsAlone, PoolKinds, Table
    <2> QED BY <2>1, <2>2 DEF Acts
  <1>4. CASE Refuse(t)
    <2>1. UNCHANGED poolVars /\ fifo' = fifo /\ th[t].pc = "encode" /\ refused' = refused + 1
      BY <1>4 DEF Refuse, Step, laVars
    <2>2. RefuseStep
      <3>1. refused \in Nat
        BY <1>0 DEF TypeOK
      <3>2. ~QuietStep
        BY <2>1, <3>1 DEF QuietStep
      <3>3. ~EncodeStep(t)
        BY <2>1, <3>1 DEF EncodeStep
      <3> QED BY <1>0, <3>2, <3>3, SinkSteps DEF EncoderInv
    <2>3. Moves("main", "encode", "thrown")
      BY <2>2 DEF RefuseStep
    <2>4. \A e \in Encoders : SameHolds(e)
      BY <2>2, RefuseFacts DEF SameHolds, Others, SameSources, SameRing
    <2>5. Undisturbed
      BY <2>1, <2>3, <2>4, Undisturbs, ThreadsAre DEF CallPlaces, PutPlaces
    <2> QED BY <1>0, <2>1, <2>5, PoolsAlone DEF Acts
  <1>5. CASE Drop(t)
    <2>1. Moves(t, "dropTable", Return(t)) /\ Same
      BY <1>0, <1>5, ThreadMoves DEF Drop, Same, laVars
    <2>2. th[t].p \in Pictures
      <3>1. Passing(t)
        BY <2>1 DEF Moves, Passing
      <3> QED BY <1>0, <3>1 DEF ThreadPlaces
    <2>3. SourcesLeft({th[t].p}) /\ TablesLeft({Table(t)}) /\ PoolKinds /\ StreamsAlone
      BY <1>0, <1>5, <2>2, UnrefSourceIs, UnrefTablesIs DEF Drop, Table, PoolKinds, StreamsAlone
    <2> QED BY <2>1, <2>3 DEF Acts, Leaves
  <1> QED BY <1>1, <1>2, <1>3, <1>4, <1>5 DEF Sink

LEMMA StatusActs ==
  ASSUME EncoderInv, NEW e \in Used, StatusThread(e)
  PROVE  Acts /\ PoolKinds
  <1>0. /\ TypeOK /\ SourcesHeld /\ e \in Encoders /\ e \in Threads
        /\ srcPool \in [free : Nat, event : BOOLEAN] /\ qpPool \in [free : Nat, event : BOOLEAN]
    BY UsedAre, ThreadsAre DEF EncoderInv, TypeOK
  <1>1. CASE Poll(e)
    <2>1. Moves(e, "poll", IF enc[e].shouldContinue THEN "wait" ELSE "ended")
      BY <1>0, <1>1, ThreadMoves DEF Poll
    <2>2. Moves(e, "poll", "wait") \/ Moves(e, "poll", "ended")
      BY <2>1
    <2>3. enc' = enc /\ fifo' = fifo /\ UNCHANGED poolVars
      BY <1>1 DEF Poll, laVars
    <2>4. Undisturbed
      BY <1>0, <2>2, <2>3, Undisturbs, HoldsSame DEF CallPlaces, PutPlaces
    <2> QED BY <1>0, <2>3, <2>4, PoolsAlone DEF Acts
  <1>2. CASE WaitFails(e)
    <2>2. Moves(e, "wait", "poll")
      BY <1>0, <1>2, ThreadMoves DEF WaitFails
    <2>3. enc' = enc /\ fifo' = fifo /\ UNCHANGED poolVars
      BY <1>2 DEF WaitFails, laVars
    <2>4. Undisturbed
      BY <1>0, <2>2, <2>3, Undisturbs, HoldsSame DEF CallPlaces, PutPlaces
    <2> QED BY <1>0, <2>3, <2>4, PoolsAlone DEF Acts
  <1>3. CASE WaitSlice(e)
    <2>1. UNCHANGED poolVars
      BY <1>3 DEF WaitSlice
    <2>2. Slices(e)
      BY <1>0, <1>3, SliceActs DEF Slices
    <2> QED BY <1>0, <2>1, <2>2, PoolsAlone DEF Acts
  <1>4. CASE WaitEndOfStream(e)
    <2>0. enc' = [enc EXCEPT ![e] = [enc[e] EXCEPT !.eos = "told"]]
      BY <1>4 DEF WaitEndOfStream
    <2>1. Moves(e, "wait", "poll") /\ Calls(e, [enc[e] EXCEPT !.eos = "told"])
      BY <1>0, <1>4, <2>0, ThreadMoves, ContextCalls DEF WaitEndOfStream
    <2>2. fifo' = fifo /\ UNCHANGED poolVars
      BY <1>4 DEF WaitEndOfStream
    <2>3. \A f \in Encoders : SameHolds(f)
      BY <1>0, <2>1, EndFacts DEF EndCalls, SameHolds, Others, SameSources, SameRing
    <2>4. Undisturbed
      BY <1>0, <2>1, <2>2, <2>3, Undisturbs DEF CallPlaces, PutPlaces
    <2> QED BY <1>0, <2>2, <2>4, PoolsAlone DEF Acts
  <1>5. CASE PutBack(e)
    <2>1. Step(e, IF e = "lookahead" THEN "put" ELSE "callback", IF th[e].st.last THEN "release" ELSE "unref")
      BY <1>5 DEF PutBack, Step
    <2>2. enc' = [enc EXCEPT ![e] = PutStreamBuffer(enc[e], enc[e].streamSent[th[e].st.stream])]
      BY <1>5 DEF PutBack
    <2>3. /\ Moves(e, IF e = "lookahead" THEN "put" ELSE "callback", IF th[e].st.last THEN "release" ELSE "unref")
          /\ Calls(e, PutStreamBuffer(enc[e], enc[e].streamSent[th[e].st.stream]))
      BY <1>0, <2>1, <2>2, ThreadMoves, ContextCalls
    <2>4. PutStep(e)
      BY <1>5, <2>3 DEF PutBack, PutStep, laVars
    <2>5. SourcesAlone /\ TablesAlone /\ StreamShared(enc[e].streamSent[th[e].st.stream]) /\ PoolKinds
      BY <1>0, <1>5 DEF PutBack, SourcesAlone, TablesAlone, StreamShared, PoolKinds
    <2> QED BY <2>4, <2>5 DEF Acts
  <1>6. CASE ReleaseSource(e)
    <2>1. BackStep(e)
      BY <1>0, <1>6, ThreadMoves, ContextCalls DEF ReleaseSource, BackStep, laVars
    <2>2. th[e].st.pic \in Pictures
      BY <1>0, <2>1, BackFacts
    <2>3. SourcesLeft({th[e].st.pic}) /\ TablesAlone /\ StreamsAlone /\ PoolKinds
      BY <1>0, <1>6, <2>2, UnrefSourceIs DEF ReleaseSource, TablesAlone, StreamsAlone, PoolKinds
    <2> QED BY <2>1, <2>3 DEF Acts
  <1>7. CASE ReleaseTable(e)
    <2>1. Moves(e, "releaseTable", "done") /\ Same
      BY <1>0, <1>7, ThreadMoves DEF ReleaseTable, Same, laVars
    <2>3. SourcesAlone /\ TablesLeft({<<e, th[e].st.pic>>}) /\ StreamsAlone /\ PoolKinds
      BY <1>0, <1>7, UnrefTablesIs DEF ReleaseTable, SourcesAlone, StreamsAlone, PoolKinds
    <2> QED BY <2>1, <2>3 DEF Acts
  <1>8. CASE PictureDone(e)
    <2>1. DoneStep(e) /\ fifo' = fifo /\ UNCHANGED poolVars
      BY <1>0, <1>8, ThreadMoves, ContextCalls DEF PictureDone, DoneStep, laVars
    <2>2. Moves(e, "done", "unref")
      BY <2>1 DEF DoneStep
    <2>3. \A f \in Encoders : SameHolds(f)
      BY <1>0, <2>1, DoneFacts DEF SameHolds, Others, SameSources, SameRing
    <2>4. Undisturbed
      BY <1>0, <2>1, <2>2, <2>3, Undisturbs DEF CallPlaces, PutPlaces
    <2> QED BY <1>0, <2>1, <2>4, PoolsAlone DEF Acts
  <1>9. CASE UnrefStream(e)
    <2>1. Moves(e, "unref", "poll") /\ Same
      BY <1>0, <1>9, ThreadMoves DEF UnrefStream, Same, laVars
    <2>2. SourcesAlone /\ TablesAlone /\ StreamLeft(enc[e].streamSent[th[e].st.stream]) /\ PoolKinds
      BY <1>0, <1>9 DEF UnrefStream, SourcesAlone, TablesAlone, StreamLeft, PoolKinds
    <2> QED BY <2>1, <2>2 DEF Acts
  <1>10. CASE e = "lookahead" /\ AddFifo
    <2>1. KeepStep \/ PassStep
      BY <1>0, <1>10, FifoActs
    <2>2. SourceShared(th["lookahead"].st.pic) /\ TablesAlone /\ StreamsAlone /\ PoolKinds
      BY <1>0, <1>10 DEF AddFifo, SourceShared, TablesAlone, StreamsAlone, PoolKinds
    <2> QED BY <2>1, <2>2 DEF Acts
  <1> QED BY <1>1, <1>2, <1>3, <1>4, <1>5, <1>6, <1>7, <1>8, <1>9, <1>10 DEF StatusThread

LEMMA MainActs ==
  ASSUME EncoderInv, Main
  PROVE  Acts /\ PoolKinds
  <1>0. /\ TypeOK /\ ThreadPlaces /\ "main" \in Threads /\ "encoder" \in Encoders /\ FirstSink \in Encoders
        /\ srcPool \in [free : Nat, event : BOOLEAN] /\ qpPool \in [free : Nat, event : BOOLEAN]
    BY ThreadsAre, UsedAre DEF EncoderInv, TypeOK
  <1>1. CASE GetSource
    <2>0. /\ th["main"].pc = "source" /\ enc' = enc /\ fifo' = fifo /\ TablesAlone /\ StreamsAlone
          /\ qpPool' = qpPool /\ UNCHANGED <<bEndOfStream, given, refused, eosFinished, hFinished>>
      BY <1>1 DEF GetSource, laVars, TablesAlone, StreamsAlone
    <2>1. CASE srcPool.free = 0
      <3>1. Step("main", "source", "sourceWait") /\ srcPool' = srcPool /\ srcRefs' = srcRefs
        BY <1>1, <2>1 DEF GetSource, Step
      <3>2. Moves("main", "source", "sourceWait")
        BY <1>0, <3>1, ThreadMoves
      <3>3. Undisturbed
        BY <1>0, <2>0, <3>2, Undisturbs, HoldsSame DEF CallPlaces, PutPlaces
      <3>4. AllAlone /\ PoolKinds
        BY <1>0, <2>0, <3>1 DEF AllAlone, SourcesAlone, PoolKinds
      <3> QED BY <3>3, <3>4 DEF Acts
    <2>2. CASE srcPool.free # 0 /\ next \in Pictures
      <3>1. /\ next' = next + 1 /\ srcPool' = Take(srcPool) /\ srcRefs' = [srcRefs EXCEPT ![next] = 1]
            /\ th' = [th EXCEPT !["main"] = [@ EXCEPT !.pc = "table", !.e = FirstSink, !.p = next]]
        BY <1>1, <2>2 DEF GetSource
      <3>2. /\ th'["main"].pc = "table" /\ Only("main")
            /\ th'["main"].e = FirstSink /\ th'["main"].p = next /\ th'["main"].st = th["main"].st
        BY <1>0, <3>1 DEF TypeOK, ThreadStates, Only
      <3>3. SourceStep
        BY <2>0, <2>2, <3>1, <3>2 DEF SourceStep
      <3>4. SourceTaken(next) /\ PoolKinds
        BY <1>0, <2>0, <2>2, <3>1 DEF SourceTaken, Take, PoolKinds
      <3> QED BY <2>0, <3>3, <3>4 DEF Acts
    <2>3. CASE srcPool.free # 0 /\ next \notin Pictures
      <3>1. Step("main", "source", "eos") /\ srcPool' = Put(Take(srcPool), 1) /\ srcRefs' = srcRefs
        BY <1>1, <2>3 DEF GetSource, Step
      <3>2. Moves("main", "source", "eos")
        BY <1>0, <3>1, ThreadMoves
      <3>3. Undisturbed
        BY <1>0, <2>0, <3>2, Undisturbs, HoldsSame DEF CallPlaces, PutPlaces
      <3>4. srcPool'.free = srcPool.free /\ srcPool' \in [free : {srcPool'.free}, event : BOOLEAN]
        BY <1>0, <3>1 DEF Put, Take
      <3>5. AllAlone /\ PoolKinds
        BY <1>0, <2>0, <3>1, <3>4 DEF AllAlone, SourcesAlone, PoolKinds
      <3> QED BY <3>3, <3>5 DEF Acts
    <2> QED BY <2>1, <2>2, <2>3
  <1>2. CASE WaitSource
    <2>1. Moves("main", "sourceWait", "source")
      BY <1>0, <1>2, ThreadMoves DEF WaitSource
    <2>2. Undisturbed
      BY <1>0, <1>2, <2>1, Undisturbs, HoldsSame DEF WaitSource, laVars, CallPlaces, PutPlaces
    <2>3. AllAlone /\ PoolKinds
      BY <1>0, <1>2 DEF WaitSource, AllAlone, SourcesAlone, TablesAlone, StreamsAlone, PoolKinds
    <2> QED BY <2>2, <2>3 DEF Acts
  <1>3. CASE Unwind
    <2>1. Moves("main", "thrown", FirstStop) /\ Same
      BY <1>0, <1>3, ThreadMoves DEF Unwind, Same, laVars
    <2>2. th["main"].p \in Pictures /\ ~bEndOfStream
      <3>1. Passing("main") /\ th["main"].pc = "thrown"
        BY <2>1 DEF Moves, Passing
      <3>2. ~HasLookAhead
        BY <3>1 DEF EncoderInv, Refusals
      <3>3. enc["lookahead"].eos = "no"
        BY <1>0, <3>2 DEF ThreadPlaces, CreateChannel
      <3> QED BY <1>0, <3>1, <3>3 DEF ThreadPlaces, EncoderInv, EndsOfStream
    <2>3. SourcesLeft({th["main"].p}) /\ TablesLeft({Table("main")}) /\ PoolKinds /\ StreamsAlone
      BY <1>0, <1>3, <2>2, UnrefSourceIs, UnrefTablesIs DEF Unwind, Table, PoolKinds, StreamsAlone
    <2> QED BY <1>0, <2>1, <2>3 DEF Acts, Leaves
  <1>4. CASE EndInput
    <2>1. /\ Moves("main", "eos", IF HasLookAhead THEN "lookaheadDone" ELSE "finish")
          /\ Calls(FirstSink, EndOfStream(enc[FirstSink])) /\ fifo' = fifo /\ UNCHANGED poolVars
      BY <1>0, <1>4, ThreadMoves, ContextCalls DEF EndInput, laVars
    <2>5. EndCalls(FirstSink)
      BY <2>1 DEF EndCalls
    <2>2. \A f \in Encoders : SameHolds(f)
      BY <1>0, <2>5, EndFacts DEF SameHolds, Others, SameSources, SameRing
    <2>3. Moves("main", "eos", "lookaheadDone") \/ Moves("main", "eos", "finish")
      BY <2>1
    <2>4. Undisturbed
      BY <1>0, <2>1, <2>2, <2>3, Undisturbs DEF CallPlaces, PutPlaces
    <2> QED BY <1>0, <2>1, <2>4, PoolsAlone DEF Acts
  <1>5. CASE LookAheadDone \/ Finish
    <2>1. Moves("main", "lookaheadDone", "fifo") \/ Moves("main", "finish", FirstStop)
      BY <1>0, <1>5, ThreadMoves DEF LookAheadDone, Finish
    <2>2. enc' = enc /\ fifo' = fifo /\ UNCHANGED poolVars
      BY <1>5 DEF LookAheadDone, Finish, laVars
    <2>3. Undisturbed
      BY <1>0, <2>1, <2>2, Undisturbs, HoldsSame DEF FirstStop, CallPlaces, PutPlaces
    <2> QED BY <1>0, <2>2, <2>3, PoolsAlone DEF Acts
  <1>6. CASE EmptyFifo
    <2>0. UNCHANGED poolVars /\ th["main"].pc = "fifo"
      BY <1>6 DEF EmptyFifo
    <2>1. CASE fifo = <<>>
      <3>1. Step("main", "fifo", "finish") /\ Calls("encoder", EndOfStream(enc["encoder"])) /\ fifo' = fifo
        BY <1>0, <1>6, <2>1, ContextCalls DEF EmptyFifo, Step
      <3>2. Moves("main", "fifo", "finish")
        BY <1>0, <3>1, ThreadMoves
      <3>5. EndCalls("encoder")
        BY <3>1 DEF EndCalls
      <3>3. \A f \in Encoders : SameHolds(f)
        BY <1>0, <3>5, EndFacts DEF SameHolds, Others, SameSources, SameRing
      <3>4. Undisturbed
        BY <1>0, <3>1, <3>2, <3>3, Undisturbs DEF CallPlaces, PutPlaces
      <3> QED BY <1>0, <2>0, <3>4, PoolsAlone DEF Acts
    <2>2. CASE fifo # <<>>
      <3> DEFINE h == Head(fifo)
      <3>1. /\ fifo' = Tail(fifo)
            /\ th' = [th EXCEPT !["main"] = [@ EXCEPT !.pc = "table", !.e = "encoder", !.p = h]]
        BY <1>6, <2>2 DEF EmptyFifo
      <3> HIDE DEF h
      <3>2. /\ th'["main"].pc = "table" /\ Only("main")
            /\ th'["main"].e = "encoder" /\ th'["main"].p = h /\ th'["main"].st = th["main"].st
        BY <1>0, <3>1 DEF TypeOK, ThreadStates, Only
      <3>3. FifoStep
        BY <1>6, <2>0, <2>2, <3>1, <3>2 DEF EmptyFifo, FifoStep, h
      <3> QED BY <1>0, <2>0, <3>3, PoolsAlone DEF Acts
    <2> QED BY <2>1, <2>2
  <1>8. ASSUME NEW e \in Encoders, Stop(e, Ways(e).a, Ways(e).b) \/ Close(e, Ways(e).b, Ways(e).c)
        PROVE  Acts /\ PoolKinds
    <2>1. DestroyStep(e) /\ fifo' = fifo /\ UNCHANGED poolVars
      BY <1>0, <1>8, ThreadMoves, ContextCalls DEF Stop, Close, DestroyStep, laVars
    <2>2. Moves("main", Ways(e).a, Ways(e).b) \/ Moves("main", Ways(e).b, Ways(e).c)
      BY <2>1 DEF DestroyStep
    <2>3. \A f \in Encoders : SameHolds(f)
      BY <1>0, <2>1, DestroyFacts DEF SameHolds, Others, SameSources, SameRing
    <2>4. Undisturbed
      BY <1>0, <2>1, <2>2, <2>3, Undisturbs DEF Ways, CallPlaces, PutPlaces
    <2> QED BY <1>0, <2>1, <2>4, PoolsAlone DEF Acts
  <1>10. ASSUME NEW e \in Encoders, Release(e, Ways(e).c, Ways(e).d) PROVE Acts /\ PoolKinds
    <2>1. ReleaseStep(e)
      BY <1>0, <1>10, ThreadMoves, ContextCalls DEF Release, ReleaseStep, laVars
    <2>2. TablesLeft({e} \X SourcesSent(enc[e])) /\ qpPool' \in [free : {qpPool'.free}, event : BOOLEAN]
      BY <1>0, <1>10, UnrefTablesIs DEF Release
    <2> DEFINE n == Cardinality({p \in SourcesSent(enc[e]) : srcRefs[p] = 1})
    <2>3. srcPool' = Put(srcPool, n)
      BY <1>10 DEF Release
    <2>4. SourcesLeft(SourcesSent(enc[e])) /\ srcPool' \in [free : {srcPool'.free}, event : BOOLEAN]
      <3>1. srcRefs' = [p \in Pictures |-> srcRefs[p] - (IF p \in SourcesSent(enc[e]) THEN 1 ELSE 0)]
        BY <1>10 DEF Release
      <3> HIDE DEF n
      <3>2. srcPool'.free = srcPool.free + n /\ srcPool' \in [free : {srcPool'.free}, event : BOOLEAN]
        BY <1>0, <2>3 DEF Put
      <3> QED BY <3>1, <3>2 DEF SourcesLeft, n
    <2>5. StreamsLeft(StreamsHeld(enc[e]))
      BY <1>10 DEF Release, StreamsLeft
    <2> QED BY <2>1, <2>2, <2>4, <2>5 DEF Acts, PoolKinds
  <1>11. CASE DestroyPools
    <2>1. Moves("main", "pools", "end")
      BY <1>0, <1>11, ThreadMoves DEF DestroyPools
    <2>2. enc' = enc /\ fifo' = fifo /\ UNCHANGED poolVars
      BY <1>11 DEF DestroyPools, laVars
    <2>3. Undisturbed
      BY <1>0, <2>1, <2>2, Undisturbs, HoldsSame DEF CallPlaces, PutPlaces
    <2> QED BY <1>0, <2>2, <2>3, PoolsAlone DEF Acts
  <1>13. CASE \/ Stop("lookahead", "stopLookahead", "closeLookahead")
              \/ Close("lookahead", "closeLookahead", "releaseLookahead")
              \/ Stop("encoder", "stopEncoder", "closeEncoder")
              \/ Close("encoder", "closeEncoder", "releaseEncoder")
              \/ Release("lookahead", "releaseLookahead", "stopEncoder")
              \/ Release("encoder", "releaseEncoder", "pools")
    BY <1>8, <1>10, <1>13, ThreadsAre, WaysAre
  <1> QED BY <1>1, <1>2, <1>3, <1>4, <1>5, <1>6, <1>11, <1>13 DEF Main

LEMMA ActsAre ==
  ASSUME EncoderInv, DriverAccepts, Next
  PROVE  Acts /\ PoolKinds
  <1>1. CASE Main
    BY <1>1, MainActs
  <1>2. ASSUME NEW e \in Used, StatusThread(e) PROVE Acts /\ PoolKinds
    BY <1>2, StatusActs
  <1>3. ASSUME NEW t \in Threads, Sink(t) PROVE Acts /\ PoolKinds
    BY <1>3, SinkActs
  <1>4. CASE UNCHANGED vars
    <2>1. UNCHANGED poolVars /\ UNCHANGED <<th, enc, fifo>>
      BY <1>4 DEF vars, laVars
    <2>2. \A t \in Threads : SameHands(t)
      BY <2>1 DEF SameHands, SameWork, Passing, HasTable, InCallback
    <2>3. Undisturbed
      BY <2>1, <2>2, HoldsSame DEF Undisturbed
    <2> QED BY <2>1, <2>3, PoolsAlone DEF Acts, EncoderInv
  <1> QED BY <1>1, <1>2, <1>3, <1>4 DEF Next, Ended

(* The counts are those of the holders: what the sums of CountsAreHolders come to *)

LEMMA CountsIs ==
  CountsAreHolders <=> AllCounts
  BY DEF CountsAreHolders, AllCounts, SourceCounts, TableCounts, StreamCounts, SourcePool,
         TablePool, FramesHeld

LEMMA CountsThen ==
  CountsAreHolders' <=> AllCounts'
  BY CountsIs, PTL

LEMMA SourcesNow ==
  SourcesAgree
  <1> SUFFICES ASSUME Lists, ThreadPlaces, PicturesInOrder PROVE SourceCounts <=> SourcesExact
    BY DEF SourcesAgree
  <1>1. Len(given) \in Nat /\ Len(fifo) \in Nat /\ DOMAIN fifo = 1 .. Len(fifo) /\ OnTheWay \in Nat
    <2>1. Len(given) \in Nat /\ Len(fifo) \in Nat /\ DOMAIN fifo = 1 .. Len(fifo)
      BY DEF Lists
    <2> QED BY <2>1 DEF OnTheWay, One
  <1>2. ASSUME NEW p \in Pictures
        PROVE  Count({t \in Threads : Passing(t) /\ th[t].p = p})
                  = One(SourceAt("main", p)) + One(SourceAt("lookahead", p))
    <2> DEFINE S == {t \in Threads : Passing(t) /\ th[t].p = p}
    <2>1. Cardinality(S) = One("main" \in S) + One("lookahead" \in S) + One("encoder" \in S)
      BY CountOfThreads
    <2>2. "encoder" \notin S
      BY ThreadsAre DEF ThreadPlaces, Passing
    <2>3. ("main" \in S <=> SourceAt("main", p)) /\ ("lookahead" \in S <=> SourceAt("lookahead", p))
      BY ThreadsAre DEF SourceAt
    <2> HIDE DEF S
    <2> QED BY <2>1, <2>2, <2>3 DEF One, Count, S
  <1>3. ASSUME NEW p \in Pictures
        PROVE  Count({i \in DOMAIN fifo : fifo[i] = p}) = One(InFifo(p))
    <2> DEFINE S == {i \in DOMAIN fifo : fifo[i] = p}
    <2>1. CASE InFifo(p)
      <3>1. PICK i \in 1 .. Len(fifo) : fifo[i] = p
        BY <2>1 DEF InFifo
      <3>2. \A j \in 1 .. Len(fifo) : fifo[j] = OnTheWay + j
        BY <1>1 DEF PicturesInOrder
      <3>3. \A j \in 1 .. Len(fifo) : fifo[j] = p => j = i
        BY <1>1, <3>1, <3>2
      <3>4. S = {i}
        BY <1>1, <3>1, <3>3
      <3> QED BY <2>1, <3>4, FS_Singleton DEF One, Count
    <2>2. CASE ~InFifo(p)
      <3>1. S = {}
        BY <1>1, <2>2 DEF InFifo
      <3> QED BY <2>2, <3>1, FS_EmptySet DEF One, Count
    <2> QED BY <2>1, <2>2
  <1>4. ASSUME NEW p \in Pictures
        PROVE  Count({e \in Encoders : enc[e].sourceSent[p]})
                  = One(Sent("lookahead", p)) + One(Sent("encoder", p))
    <2> DEFINE S == {e \in Encoders : enc[e].sourceSent[p]}
    <2>1. Cardinality(S) = One("lookahead" \in S) + One("encoder" \in S)
      BY CountOfEncoders
    <2>2. ("encoder" \in S <=> Sent("encoder", p)) /\ ("lookahead" \in S <=> Sent("lookahead", p))
      BY ThreadsAre DEF Sent
    <2> HIDE DEF S
    <2> QED BY <2>1, <2>2 DEF One, Count, S
  <1>5. ASSUME NEW p \in Pictures
        PROVE  Count({t \in Threads : Passing(t) /\ th[t].p = p})
                + Count({i \in DOMAIN fifo : fifo[i] = p})
                + Count({e \in Encoders : enc[e].sourceSent[p]}) = SourceHolders(p)
    <2> DEFINE a == Count({t \in Threads : Passing(t) /\ th[t].p = p})
               b == Count({i \in DOMAIN fifo : fifo[i] = p})
               c == Count({e \in Encoders : enc[e].sourceSent[p]})
    <2>1. /\ a = One(SourceAt("main", p)) + One(SourceAt("lookahead", p)) /\ b = One(InFifo(p))
          /\ c = One(Sent("lookahead", p)) + One(Sent("encoder", p))
      BY <1>2, <1>3, <1>4
    <2> HIDE DEF a, b, c
    <2>2. a + b + c = SourceHolders(p)
      BY <2>1 DEF SourceHolders, One
    <2> QED BY <2>2 DEF a, b, c
  <1> QED BY <1>5, Zenon DEF SourceCounts, SourcesExact

LEMMA SourcesThen ==
  SourcesAgree'
  BY SourcesNow, PTL

LEMMA TablesNow ==
  TablesAgree
  <1> SUFFICES ASSUME ThreadPlaces PROVE TableCounts <=> TablesExact
    BY DEF TablesAgree
  <1>2. ASSUME NEW u \in Uses
        PROVE  Count({t \in Threads : HasTable(t) /\ <<th[t].e, th[t].p>> = u})
                  = One(TableAt("main", u)) + One(TableAt("lookahead", u))
    <2> DEFINE S == {t \in Threads : HasTable(t) /\ <<th[t].e, th[t].p>> = u}
    <2>1. Cardinality(S) = One("main" \in S) + One("lookahead" \in S) + One("encoder" \in S)
      BY CountOfThreads
    <2>2. "encoder" \notin S
      BY ThreadsAre DEF ThreadPlaces, HasTable
    <2>3. ("main" \in S <=> TableAt("main", u)) /\ ("lookahead" \in S <=> TableAt("lookahead", u))
      BY ThreadsAre DEF TableAt
    <2> HIDE DEF S
    <2> QED BY <2>1, <2>2, <2>3 DEF One, Count, S
  <1>3. ASSUME NEW u \in Uses
        PROVE  Count({e \in Encoders : th[e].pc = "releaseTable" /\ <<e, th[e].st.pic>> = u})
                  = One(TableDue("lookahead", u)) + One(TableDue("encoder", u))
    <2> DEFINE S == {e \in Encoders : th[e].pc = "releaseTable" /\ <<e, th[e].st.pic>> = u}
    <2>1. Cardinality(S) = One("lookahead" \in S) + One("encoder" \in S)
      BY CountOfEncoders
    <2>2. ("encoder" \in S <=> TableDue("encoder", u)) /\ ("lookahead" \in S <=> TableDue("lookahead", u))
      BY ThreadsAre DEF TableDue
    <2> HIDE DEF S
    <2> QED BY <2>1, <2>2 DEF One, Count, S
  <1>5. ASSUME NEW u \in Uses
        PROVE  Count({t \in Threads : HasTable(t) /\ <<th[t].e, th[t].p>> = u})
                + (IF enc[u[1]].sourceSent[u[2]] THEN 1 ELSE 0)
                + Count({e \in Encoders : th[e].pc = "releaseTable" /\ <<e, th[e].st.pic>> = u})
                = TableHolders(u)
    <2> DEFINE a == Count({t \in Threads : HasTable(t) /\ <<th[t].e, th[t].p>> = u})
               b == IF enc[u[1]].sourceSent[u[2]] THEN 1 ELSE 0
               c == Count({e \in Encoders : th[e].pc = "releaseTable" /\ <<e, th[e].st.pic>> = u})
    <2>1. /\ a = One(TableAt("main", u)) + One(TableAt("lookahead", u)) /\ b = One(SentFor(u))
          /\ c = One(TableDue("lookahead", u)) + One(TableDue("encoder", u))
      BY <1>2, <1>3 DEF SentFor, One
    <2> HIDE DEF a, b, c
    <2>2. a + b + c = TableHolders(u)
      BY <2>1 DEF TableHolders, One
    <2> QED BY <2>2 DEF a, b, c
  <1> QED BY <1>5, Zenon DEF TableCounts, TablesExact

LEMMA TablesThen ==
  TablesAgree'
  BY TablesNow, PTL

-----------------------------------------------------------------------------
(* The streams the library holds *)

LEMMA RingBack ==
  ASSUME NEW o \in 0 .. MaxStream - 1, NEW k \in 0 .. MaxStream - 1
  PROVE  /\ (o - o + MaxStream) % MaxStream = 0
         /\ (((o + k) % MaxStream) - o + MaxStream) % MaxStream = k
  <1>1. MaxStream \in Nat /\ MaxStream > 0 /\ MaxStream \in Int
    BY Sizes
  <1>2. MaxStream % MaxStream = 0
    BY <1>1
  <1>3. k % MaxStream = k /\ (k + MaxStream) % MaxStream = k
    BY <1>1
  <1> DEFINE a == (o + k) % MaxStream
  <1>4. a \in 0 .. MaxStream - 1 /\ (a = o + k \/ a = o + k - MaxStream)
    BY PlaceIs
  <1> HIDE DEF a
  <1>5. o - o + MaxStream = MaxStream
    BY <1>1
  <1>6. a - o + MaxStream = k + MaxStream \/ a - o + MaxStream = k
    BY <1>1, <1>4
  <1>7. (a - o + MaxStream) % MaxStream = k
    BY <1>3, <1>6
  <1> QED BY <1>2, <1>5, <1>7 DEF a

\* What a release walks: the streams in the order of the hardware, none once released.
LEMMA HeldAre ==
  ASSUME conf \in Confs, enc \in [Encoders -> Contexts], RingOfStreams, NEW e \in Encoders
  PROVE  LET q == StreamsHeld(enc[e])
         IN  /\ Released(e) => DOMAIN q = {}
             /\ ~Released(e) => /\ DOMAIN q = 1 .. Len(enc[e].streams)
                                /\ \A i \in 1 .. Len(enc[e].streams) :
                                     q[i] = enc[e].streamSent[enc[e].streams[i]]
  <1> DEFINE q == StreamsHeld(enc[e])
             o == enc[e].curStreamRecv
             r == enc[e].curStreamSent
             n == Len(enc[e].streams)
             k == (r - o + MaxStream) % MaxStream
  <1>1. enc[e] \in Contexts
    OBVIOUS
  <1>2. /\ enc[e].streams \in Seq(0 .. MaxStream - 1) /\ o \in 0 .. MaxStream - 1 /\ r \in 0 .. MaxStream - 1
    BY <1>1, ContextIs
  <1>3. DOMAIN enc[e].streams = 1 .. n /\ n \in Nat
    BY <1>2
  <1>4. q = [i \in 1 .. k |-> enc[e].streamSent[(o + i - 1) % MaxStream]]
    BY DEF StreamsHeld
  <1>5. RingOf(e)
    BY RingsIs DEF AllRings
  <1>6. CASE Released(e)
    <2>1. r = o
      BY <1>5, <1>6 DEF RingOf
    <2>2. k = 0
      BY <1>2, <2>1, RingBack
    <2> HIDE DEF k, r, o
    <2>3. 1 .. k = {}
      BY <2>2
    <2> QED BY <1>4, <1>6, <2>3
  <1>7. CASE ~Released(e)
    <2>1. n + One(BeforePut(e)) = StreamsOf(e) /\ r = (o + n) % MaxStream
      BY <1>5, <1>7 DEF RingOf, Slot
    <2>2. StreamsOf(e) \in Nat /\ StreamsOf(e) < MaxStream
      <3>1. NumStreams(conf) \in Nat /\ 1 <= NumStreams(conf) /\ NumStreams(conf) < MaxStream
        BY SettingsAre
      <3> QED BY <3>1, Sizes DEF StreamsOf, One
    <2>3. n \in 0 .. MaxStream - 1
      <3> HIDE DEF n
      <3>1. One(BeforePut(e)) \in {0, 1}
        BY DEF One
      <3> QED BY <1>3, <2>1, <2>2, <3>1, Sizes
    <2>4. k = n
      <3> HIDE DEF o, n
      <3> QED BY <1>2, <2>1, <2>3, RingBack
    <2>5. ASSUME NEW i \in 1 .. n
          PROVE  q[i] = enc[e].streamSent[enc[e].streams[i]]
      <3>1. enc[e].streams[i] = (o + (i - 1)) % MaxStream
        BY <1>3, <1>5, <1>7 DEF RingOf, Slot
      <3>2. o + i - 1 = o + (i - 1)
        <4> HIDE DEF o, n
        <4> QED BY <1>2, <1>3, Sizes
      <3>3. q[i] = enc[e].streamSent[(o + i - 1) % MaxStream]
        <4> HIDE DEF k, o, n, q
        <4> QED BY <1>4, <2>4
      <3> QED BY <3>1, <3>2, <3>3
    <2>6. DOMAIN q = 1 .. n
      <3> HIDE DEF k, o, n, q
      <3> QED BY <1>4, <2>4
    <2> QED BY <1>7, <2>5, <2>6
  <1> QED BY <1>6, <1>7

LEMMA StreamsNow ==
  StreamsAgree
  <1> SUFFICES ASSUME conf \in Confs, enc \in [Encoders -> Contexts], RingOfStreams
               PROVE  StreamCounts <=> StreamsExact
    BY DEF StreamsAgree
  <1>1. ASSUME NEW e \in Encoders, NEW s
        PROVE  (\E i \in DOMAIN StreamsHeld(enc[e]) : StreamsHeld(enc[e])[i] = s) <=> Queued(e, s)
    BY HeldAre DEF Queued
  <1>2. ASSUME NEW s \in Streams
        PROVE  Count({e \in Encoders : \E i \in DOMAIN StreamsHeld(enc[e]) : StreamsHeld(enc[e])[i] = s})
                  = One(Queued("lookahead", s)) + One(Queued("encoder", s))
    <2> DEFINE S == {e \in Encoders : \E i \in DOMAIN StreamsHeld(enc[e]) : StreamsHeld(enc[e])[i] = s}
    <2>1. Cardinality(S) = One("lookahead" \in S) + One("encoder" \in S)
      BY CountOfEncoders
    <2>2. ("encoder" \in S <=> Queued("encoder", s)) /\ ("lookahead" \in S <=> Queued("lookahead", s))
      BY <1>1, ThreadsAre
    <2> HIDE DEF S
    <2> QED BY <2>1, <2>2 DEF One, Count, S
  <1>3. ASSUME NEW s \in Streams
        PROVE  Count({e \in Encoders : InCallback(e) /\ enc[e].streamSent[th[e].st.stream] = s})
                  = One(Written("lookahead", s)) + One(Written("encoder", s))
    <2> DEFINE S == {e \in Encoders : InCallback(e) /\ enc[e].streamSent[th[e].st.stream] = s}
    <2>1. Cardinality(S) = One("lookahead" \in S) + One("encoder" \in S)
      BY CountOfEncoders
    <2>2. ("encoder" \in S <=> Written("encoder", s)) /\ ("lookahead" \in S <=> Written("lookahead", s))
      BY ThreadsAre DEF Written
    <2> HIDE DEF S
    <2> QED BY <2>1, <2>2 DEF One, Count, S
  <1>5. ASSUME NEW s \in Streams
        PROVE  Count({e \in Encoders : \E i \in DOMAIN StreamsHeld(enc[e]) : StreamsHeld(enc[e])[i] = s})
                + Count({e \in Encoders : InCallback(e) /\ enc[e].streamSent[th[e].st.stream] = s})
                = StreamHolders(s)
    <2> DEFINE a == Count({e \in Encoders : \E i \in DOMAIN StreamsHeld(enc[e]) : StreamsHeld(enc[e])[i] = s})
               b == Count({e \in Encoders : InCallback(e) /\ enc[e].streamSent[th[e].st.stream] = s})
    <2>1. /\ a = One(Queued("lookahead", s)) + One(Queued("encoder", s))
          /\ b = One(Written("lookahead", s)) + One(Written("encoder", s))
      BY <1>2, <1>3
    <2> HIDE DEF a, b
    <2>2. a + b = StreamHolders(s)
      BY <2>1 DEF StreamHolders, One
    <2> QED BY <2>2 DEF a, b
  <1> QED BY <1>5, Zenon DEF StreamCounts, StreamsExact

LEMMA StreamsThen ==
  StreamsAgree'
  BY StreamsNow, PTL

-----------------------------------------------------------------------------
(* Buffers nobody holds are in their pool *)

LEMMA DomainsAreFinite ==
  IsFiniteSet(Pictures) /\ IsFiniteSet(Uses)
  <1>1. IsFiniteSet(Pictures)
    BY Sizes, FS_Interval DEF Pictures
  <1>2. IsFiniteSet(Encoders)
    <2>1. Encoders = {"lookahead"} \cup {"encoder"}
      BY ThreadsAre
    <2> QED BY <2>1, FS_Singleton, FS_AddElement
  <1> QED BY <1>1, <1>2, FS_Product DEF Uses

\* The buffers in use after one is taken, held once more, let go.
LEMMA InUseTaken ==
  ASSUME NEW D, IsFiniteSet(D), NEW f \in [D -> Nat], NEW g, NEW x \in D, f[x] = 0,
         g = [f EXCEPT ![x] = 1]
  PROVE  Cardinality({y \in D : g[y] > 0}) = Cardinality({y \in D : f[y] > 0}) + 1
  <1> DEFINE F == {y \in D : f[y] > 0}
  <1>1. {y \in D : g[y] > 0} = F \cup {x} /\ x \notin F
    OBVIOUS
  <1>2. IsFiniteSet(F)
    BY FS_Subset
  <1> QED BY <1>1, <1>2, FS_AddElement, SMTT(30)

LEMMA InUseShared ==
  ASSUME NEW D, NEW f \in [D -> Nat], NEW g, NEW x \in D, f[x] > 0, g = [f EXCEPT ![x] = @ + 1]
  PROVE  {y \in D : g[y] > 0} = {y \in D : f[y] > 0}
  OBVIOUS

LEMMA InUseLeft ==
  ASSUME NEW D, IsFiniteSet(D), NEW f \in [D -> Nat], NEW g, NEW S \in SUBSET D,
         \A x \in S : f[x] > 0,
         \A x \in D : (x \in S => g[x] = f[x] - 1) /\ (x \notin S => g[x] = f[x])
  PROVE  /\ Cardinality(InUse(D, g)) \in Nat /\ Cardinality(HeldOnce(S, f)) \in Nat
         /\ Cardinality(InUse(D, g)) + Cardinality(HeldOnce(S, f)) = Cardinality(InUse(D, f))
  <1> DEFINE F == {y \in D : f[y] > 0}
             G == {y \in D : g[y] > 0}
             L == {y \in S : f[y] = 1}
  <1>0. IsFiniteSet(F) /\ IsFiniteSet(G) /\ IsFiniteSet(L)
    BY FS_Subset
  <1>1. ASSUME NEW y \in D PROVE y \in G <=> y \in F /\ y \notin L
    <2>1. CASE y \in S
      <3>1. g[y] = f[y] - 1 /\ f[y] \in Nat /\ f[y] > 0
        BY <2>1
      <3> QED BY <2>1, <3>1
    <2>2. CASE y \notin S
      <3>1. g[y] = f[y]
        BY <2>2
      <3> QED BY <2>2, <3>1
    <2> QED BY <2>1, <2>2
  <1>2. G \cup L = F /\ G \cap L = {}
    <2>1. L \subseteq F /\ G \subseteq D /\ F \subseteq D
      OBVIOUS
    <2> QED BY <1>1, <2>1
  <1>3. Cardinality(G \cup L) = Cardinality(G) + Cardinality(L) - Cardinality(G \cap L)
    BY <1>0, FS_Union
  <1>4. Cardinality(G) \in Nat /\ Cardinality(L) \in Nat
    BY <1>0, FS_CardinalityType
  <1>5. Cardinality(G \cap L) = 0
    BY <1>2, FS_EmptySet
  <1>6. Cardinality(G \cup L) = Cardinality(F)
    BY <1>2
  <1> QED BY <1>3, <1>4, <1>5, <1>6 DEF InUse, HeldOnce

LEMMA FramesNow ==
  FramesKnown
  <1> SUFFICES ASSUME TypeOK, ThreadPlaces, Lives, SourcesHeld, SourcesExact, TablesExact,
                      NEW e \in Encoders, ~enc[e].destroyed, NEW i \in DOMAIN enc[e].frames
               PROVE  srcRefs[enc[e].frames[i]] > 0 /\ qpRefs[<<e, enc[e].frames[i]>>] > 0
    BY DEF FramesKnown, FramesHeld
  <1> DEFINE p == enc[e].frames[i]
  <1>1. enc[e].frames \in Seq(Pictures) /\ p \in Pictures
    BY DEF TypeOK, Contexts
  <1>2. ~Released(e)
    <2>1. CASE e \in Used
      BY <2>1, ThreadsAre DEF Lives, Closed, Stopped, Released, Stopping, Unreleased
    <2>2. CASE e \notin Used
      BY <2>2 DEF Released
    <2> QED BY <2>1, <2>2
  <1>3. enc[e].sourceSent[p]
    BY <1>1, <1>2 DEF SourcesHeld
  <1> HIDE DEF p
  <1>4. srcRefs[p] > 0
    <2>1. srcRefs[p] = SourceHolders(p) /\ (Sent("lookahead", p) \/ Sent("encoder", p))
      BY <1>1, <1>3, ThreadsAre DEF SourcesExact, Sent
    <2> QED BY <2>1 DEF SourceHolders, One
  <1>5. qpRefs[<<e, p>>] > 0
    <2>1. <<e, p>> \in Uses
      BY <1>1 DEF Uses
    <2>2. qpRefs[<<e, p>>] = TableHolders(<<e, p>>) /\ SentFor(<<e, p>>)
      BY <1>3, <2>1 DEF TablesExact, SentFor
    <2> QED BY <2>2 DEF TableHolders, One
  <1> QED BY <1>4, <1>5 DEF p

LEMMA FramesThen ==
  FramesKnown'
  BY FramesNow, PTL

-----------------------------------------------------------------------------
(* The references of the sources *)

LEMMA ExactNow ==
  ASSUME EncoderInv
  PROVE  /\ SourcesExact /\ TablesExact /\ StreamsExact /\ SourcePool /\ TablePool
         /\ TypeOK /\ ThreadPlaces
         /\ srcRefs \in [Pictures -> Nat] /\ qpRefs \in [Uses -> Nat] /\ strRefs \in [Streams -> Nat]
         /\ srcPool.free \in Nat /\ qpPool.free \in Nat
  <1>1. /\ TypeOK /\ ThreadPlaces /\ PicturesInOrder /\ RingOfStreams /\ AllCounts
    BY CountsIs DEF EncoderInv
  <1>2. Lists /\ conf \in Confs /\ enc \in [Encoders -> Contexts]
    BY <1>1 DEF TypeOK, Lists
  <1>3. SourcesExact /\ TablesExact /\ StreamsExact
    BY <1>1, <1>2, SourcesNow, TablesNow, StreamsNow DEF SourcesAgree, TablesAgree, StreamsAgree, AllCounts
  <1> QED BY <1>1, <1>3 DEF AllCounts, TypeOK

\* Who holds what when a thread moves.
LEMMA AtMoves ==
  ASSUME NEW t \in Threads, NEW x, NEW y, Moves(t, x, y)
  PROVE  /\ \A u \in Threads, p \in Pictures : u # t => (SourceAt(u, p)' <=> SourceAt(u, p))
         /\ \A p \in Pictures : SourceAt(t, p) <=> x \in PassPlaces /\ th[t].p = p
         /\ \A p \in Pictures : SourceAt(t, p)' <=> y \in PassPlaces /\ th[t].p = p
         /\ \A u \in Threads, w \in Uses : u # t => (TableAt(u, w)' <=> TableAt(u, w))
         /\ \A w \in Uses : TableAt(t, w) <=> x \in TablePlaces /\ Table(t) = w
         /\ \A w \in Uses : TableAt(t, w)' <=> y \in TablePlaces /\ Table(t) = w
         /\ \A u \in Threads, w \in Uses : u # t => (TableDue(u, w)' <=> TableDue(u, w))
         /\ \A w \in Uses : TableDue(t, w) <=> x = "releaseTable" /\ <<t, th[t].st.pic>> = w
         /\ \A w \in Uses : TableDue(t, w)' <=> y = "releaseTable" /\ <<t, th[t].st.pic>> = w
  <1>1. \A u \in Threads, p \in Pictures : u # t => (SourceAt(u, p)' <=> SourceAt(u, p))
    BY DEF Moves, Only, SourceAt, Passing
  <1>2. \A p \in Pictures : SourceAt(t, p) <=> x \in PassPlaces /\ th[t].p = p
    BY DEF Moves, SourceAt, Passing, PassPlaces
  <1>3. \A p \in Pictures : SourceAt(t, p)' <=> y \in PassPlaces /\ th[t].p = p
    BY DEF Moves, SameWork, SourceAt, Passing, PassPlaces
  <1>4. \A u \in Threads, w \in Uses : u # t => (TableAt(u, w)' <=> TableAt(u, w))
    BY DEF Moves, Only, TableAt, HasTable
  <1>5. \A w \in Uses : TableAt(t, w) <=> x \in TablePlaces /\ Table(t) = w
    BY DEF Moves, TableAt, HasTable, TablePlaces, Table
  <1>6. \A w \in Uses : TableAt(t, w)' <=> y \in TablePlaces /\ Table(t) = w
    BY DEF Moves, SameWork, TableAt, HasTable, TablePlaces, Table
  <1>7. \A u \in Threads, w \in Uses : u # t => (TableDue(u, w)' <=> TableDue(u, w))
    BY DEF Moves, Only, TableDue
  <1>8. \A w \in Uses : TableDue(t, w) <=> x = "releaseTable" /\ <<t, th[t].st.pic>> = w
    BY DEF Moves, TableDue
  <1>9. \A w \in Uses : TableDue(t, w)' <=> y = "releaseTable" /\ <<t, th[t].st.pic>> = w
    BY DEF Moves, SameWork, TableDue
  <1> QED BY <1>1, <1>2, <1>3, <1>4, <1>5, <1>6, <1>7, <1>8, <1>9

LEMMA SourceStaysIs ==
  ASSUME NEW p \in Pictures, SourceStays(p)
  PROVE  SourceHolders(p)' = SourceHolders(p)
  BY DEF SourceStays, SourceHolders, One

LEMMA FifoStays ==
  ASSUME fifo' = fifo, NEW p
  PROVE  InFifo(p)' <=> InFifo(p)
  BY DEF InFifo

LEMMA SentStays ==
  ASSUME NEW e, SameSources(enc[e], enc'[e]), NEW p
  PROVE  Sent(e, p)' <=> Sent(e, p)
  BY DEF SameSources, Sent

\* The steps in which nobody gets a source or lets it go.
LEMMA SourcesSame ==
  ASSUME EncoderInv, conf' = conf, SourcesAlone, \A p \in Pictures : SourceStays(p)
  PROVE  SourcesExact' /\ SourcePool'
  <1>1. ASSUME NEW p \in Pictures PROVE srcRefs'[p] = SourceHolders(p)'
    <2>1. srcRefs'[p] = srcRefs[p] /\ srcRefs[p] = SourceHolders(p)
      BY ExactNow DEF SourcesAlone, SourcesExact
    <2> QED BY <2>1, SourceStaysIs
  <1>2. SourcePool'
    BY ExactNow DEF SourcePool, SourcesAlone, FrameBuffers, Count
  <1> QED BY <1>1, <1>2 DEF SourcesExact

LEMMA SourcesCalm ==
  ASSUME EncoderInv, conf' = conf, SourcesAlone,
         \/ Undisturbed
         \/ \E t \in Threads : TakesTable(t)
         \/ \E e \in Used : \/ Slices(e) \/ PutStep(e)
                            \/ Moves(e, "releaseTable", "done") /\ Same
                            \/ Moves(e, "unref", "poll") /\ Same
  PROVE  SourcesExact' /\ SourcePool'
  <1>0. /\ TypeOK /\ RingOfStreams /\ ThreadPlaces
        /\ "main" \in Threads /\ "lookahead" \in Threads /\ "encoder" \in Encoders /\ "lookahead" \in Encoders
    BY ThreadsAre DEF EncoderInv
  <1>1. CASE Undisturbed
    <2>1. ASSUME NEW p \in Pictures PROVE SourceStays(p)
      <3>1. /\ SourceAt("main", p)' <=> SourceAt("main", p)
            /\ SourceAt("lookahead", p)' <=> SourceAt("lookahead", p)
        BY <1>0, <1>1 DEF Undisturbed, SameHands, SameWork, SourceAt
      <3>2. (Sent("lookahead", p)' <=> Sent("lookahead", p)) /\ (Sent("encoder", p)' <=> Sent("encoder", p))
        BY <1>0, <1>1, SentStays DEF Undisturbed, SameHolds
      <3>3. InFifo(p)' <=> InFifo(p)
        BY <1>1, FifoStays DEF Undisturbed
      <3> QED BY <3>1, <3>2, <3>3 DEF SourceStays
    <2> QED BY <2>1, SourcesSame
  <1>2. ASSUME NEW t \in Threads, NEW x, NEW y, Moves(t, x, y), x \in PassPlaces <=> y \in PassPlaces,
               \A e \in Encoders : SameSources(enc[e], enc'[e]), fifo' = fifo
        PROVE  SourcesExact' /\ SourcePool'
    <2>1. ASSUME NEW p \in Pictures PROVE SourceStays(p)
      <3>1. /\ SourceAt("main", p)' <=> SourceAt("main", p)
            /\ SourceAt("lookahead", p)' <=> SourceAt("lookahead", p)
        BY <1>0, <1>2, AtMoves
      <3>2. (Sent("lookahead", p)' <=> Sent("lookahead", p)) /\ (Sent("encoder", p)' <=> Sent("encoder", p))
        BY <1>0, <1>2, SentStays
      <3>3. InFifo(p)' <=> InFifo(p)
        BY <1>2, FifoStays
      <3> QED BY <3>1, <3>2, <3>3 DEF SourceStays
    <2> QED BY <2>1, SourcesSame
  <1>3. ASSUME Same PROVE fifo' = fifo /\ \A e \in Encoders : SameSources(enc[e], enc'[e])
    BY <1>3 DEF Same, SameSources
  <1>4. ASSUME NEW t \in Threads, TakesTable(t) PROVE SourcesExact' /\ SourcePool'
    BY <1>2, <1>3, <1>4 DEF TakesTable, PassPlaces
  <1>5. ASSUME NEW e \in Used,
               (Moves(e, "releaseTable", "done") /\ Same) \/ (Moves(e, "unref", "poll") /\ Same)
        PROVE  SourcesExact' /\ SourcePool'
    <2>1. e \in Threads
      BY ThreadsAre, UsedAre
    <2> QED BY <1>2, <1>3, <1>5, <2>1 DEF PassPlaces
  <1>6. ASSUME NEW e \in Used, PutStep(e) PROVE SourcesExact' /\ SourcePool'
    <2>1. e \in Threads /\ e \in Encoders
      BY ThreadsAre, UsedAre
    <2>2. fifo' = fifo /\ \A f \in Encoders : SameSources(enc[f], enc'[f])
      BY <1>0, <1>6, <2>1, PutFacts DEF PutStep, Others, SameSources
    <2> DEFINE x == IF e = "lookahead" THEN "put" ELSE "callback"
               y == IF th[e].st.last THEN "release" ELSE "unref"
    <2>3. Moves(e, x, y)
      BY <1>6 DEF PutStep
    <2>4. x \notin PassPlaces /\ y \notin PassPlaces
      BY DEF PassPlaces
    <2> HIDE DEF x, y
    <2> QED BY <1>2, <2>1, <2>2, <2>3, <2>4
  <1>7. ASSUME NEW e \in Used, Slices(e) PROVE SourcesExact' /\ SourcePool'
    <2>1. e \in Threads /\ e \in Encoders
      BY ThreadsAre, UsedAre
    <2>2. PICK i \in 1 .. Len(enc[e].frames) : SliceStep(e, i)
      BY <1>7 DEF Slices
    <2>3. fifo' = fifo /\ \A f \in Encoders : SameSources(enc[f], enc'[f])
      BY <1>0, <2>1, <2>2, SliceFacts DEF SliceStep, Others, SameSources
    <2>4. ASSUME NEW p \in Pictures PROVE SourceStays(p)
      <3>0. th[e].pc = "wait" /\ th'[e].pc = "callback" /\ Only(e)
        BY <2>2 DEF SliceStep
      <3>1. ASSUME NEW t \in Threads PROVE SourceAt(t, p)' <=> SourceAt(t, p)
        <4>1. CASE t = e
          BY <3>0, <4>1 DEF SourceAt, Passing
        <4>2. CASE t # e
          BY <3>0, <4>2 DEF SourceAt, Passing, Only
        <4> QED BY <4>1, <4>2
      <3>2. (Sent("lookahead", p)' <=> Sent("lookahead", p)) /\ (Sent("encoder", p)' <=> Sent("encoder", p))
        BY <1>0, <2>3, SentStays
      <3>3. InFifo(p)' <=> InFifo(p)
        BY <2>3, FifoStays
      <3> QED BY <1>0, <3>1, <3>2, <3>3 DEF SourceStays
    <2> QED BY <2>4, SourcesSame
  <1> QED BY <1>1, <1>4, <1>5, <1>6, <1>7

\* A source with a holder has references.
LEMMA SourceIsHeld ==
  ASSUME EncoderInv, NEW p \in Pictures,
         \/ \E t \in Threads : SourceAt(t, p)
         \/ InFifo(p)
         \/ \E e \in Encoders : Sent(e, p)
  PROVE  srcRefs[p] > 0
  <1>1. ~SourceAt("encoder", p)
    BY ExactNow, ThreadsAre DEF ThreadPlaces, SourceAt, Passing
  <1>2. \/ SourceAt("main", p) \/ SourceAt("lookahead", p) \/ InFifo(p)
        \/ Sent("lookahead", p) \/ Sent("encoder", p)
    BY <1>1, ThreadsAre
  <1>3. srcRefs[p] = SourceHolders(p)
    BY ExactNow DEF SourcesExact
  <1> QED BY <1>2, <1>3 DEF SourceHolders, One

LEMMA SourcePoolShared ==
  ASSUME EncoderInv, conf' = conf, NEW p \in Pictures, SourceShared(p), srcRefs[p] > 0
  PROVE  SourcePool'
  <1>1. {q \in Pictures : srcRefs'[q] > 0} = {q \in Pictures : srcRefs[q] > 0}
    <2> DEFINE D == Pictures
    <2>1. srcRefs \in [D -> Nat] /\ p \in D /\ srcRefs' = [srcRefs EXCEPT ![p] = @ + 1]
      BY ExactNow DEF SourceShared
    <2> HIDE DEF D
    <2>2. {q \in D : srcRefs'[q] > 0} = {q \in D : srcRefs[q] > 0}
      BY <2>1, InUseShared
    <2> QED BY <2>2 DEF D
  <1>2. Cardinality({q \in Pictures : srcRefs'[q] > 0}) = Cardinality({q \in Pictures : srcRefs[q] > 0})
    BY <1>1
  <1> QED BY <1>2, ExactNow DEF SourcePool, SourceShared, FrameBuffers, Count

LEMMA SourcePoolLeft ==
  ASSUME EncoderInv, conf' = conf, NEW S \in SUBSET Pictures, SourcesLeft(S), \A p \in S : srcRefs[p] > 0
  PROVE  SourcePool'
  <1> DEFINE a == Cardinality({q \in Pictures : srcRefs'[q] > 0})
             b == Cardinality({q \in Pictures : srcRefs[q] > 0})
             c == Cardinality({p \in S : srcRefs[p] = 1})
  <1>1. a \in Nat /\ c \in Nat /\ a + c = b
    <2> DEFINE D == Pictures
               f == srcRefs
               g == srcRefs'
    <2>1. /\ f \in [D -> Nat] /\ S \in SUBSET D /\ IsFiniteSet(D) /\ \A x \in S : f[x] > 0
          /\ \A x \in D : (x \in S => g[x] = f[x] - 1) /\ (x \notin S => g[x] = f[x])
      BY ExactNow, DomainsAreFinite DEF SourcesLeft
    <2> HIDE DEF D, f, g
    <2>2. /\ Cardinality(InUse(D, g)) \in Nat /\ Cardinality(HeldOnce(S, f)) \in Nat
          /\ Cardinality(InUse(D, g)) + Cardinality(HeldOnce(S, f)) = Cardinality(InUse(D, f))
      BY <2>1, InUseLeft
    <2> QED BY <2>2 DEF D, f, g, InUse, HeldOnce
  <1>2. srcPool'.free = srcPool.free + c /\ srcPool.free + b = FrameBuffers(conf) /\ srcPool.free \in Nat
    BY ExactNow DEF SourcesLeft, SourcePool, Count
  <1>3. FrameBuffers(conf)' = FrameBuffers(conf)
    BY DEF FrameBuffers
  <1>4. SourcePool' <=> srcPool'.free + a = FrameBuffers(conf)'
    BY DEF SourcePool, Count
  <1> HIDE DEF a, b, c
  <1> QED BY <1>1, <1>2, <1>3, <1>4

LEMMA SourcePoolTaken ==
  ASSUME EncoderInv, conf' = conf, NEW p \in Pictures, SourceTaken(p), srcRefs[p] = 0
  PROVE  SourcePool'
  <1> DEFINE a == Cardinality({q \in Pictures : srcRefs'[q] > 0})
             b == Cardinality({q \in Pictures : srcRefs[q] > 0})
  <1>1. a = b + 1
    <2> DEFINE D == Pictures
    <2>1. /\ srcRefs \in [D -> Nat] /\ p \in D /\ IsFiniteSet(D)
          /\ srcRefs' = [srcRefs EXCEPT ![p] = 1]
      BY ExactNow, DomainsAreFinite DEF SourceTaken
    <2> HIDE DEF D
    <2>2. Cardinality({q \in D : srcRefs'[q] > 0}) = Cardinality({q \in D : srcRefs[q] > 0}) + 1
      BY <2>1, InUseTaken
    <2> QED BY <2>2 DEF D
  <1>2. b \in Nat
    BY DomainsAreFinite, FS_Subset, FS_CardinalityType
  <1>3. srcPool'.free = srcPool.free - 1 /\ srcPool.free + b = FrameBuffers(conf) /\ srcPool.free \in Nat
    BY ExactNow DEF SourceTaken, SourcePool, Count
  <1>4. FrameBuffers(conf)' = FrameBuffers(conf)
    BY DEF FrameBuffers
  <1>5. SourcePool' <=> srcPool'.free + a = FrameBuffers(conf)'
    BY DEF SourcePool, Count
  <1> HIDE DEF a, b
  <1> QED BY <1>1, <1>2, <1>3, <1>4, <1>5

LEMMA SourcesEncode ==
  ASSUME EncoderInv, conf' = conf, NEW t \in Threads, EncodeStep(t), SourceShared(th[t].p),
         NEW e, NEW p, e = th[t].e, p = th[t].p
  PROVE  SourcesExact' /\ SourcePool'
  <1>0. /\ e \in Encoders /\ p \in Pictures /\ Others(e) /\ fifo' = fifo
        /\ enc'[e].sourceSent = [enc[e].sourceSent EXCEPT ![p] = TRUE] /\ ~enc[e].sourceSent[p]
        /\ Moves(t, "encode", "dropTable") /\ enc[e].sourceSent \in [Pictures -> BOOLEAN]
    BY EncodeFacts, HoldsNow DEF EncodeStep
  <1>1. "main" \in Threads /\ "lookahead" \in Threads /\ Encoders = {"lookahead", "encoder"}
    BY ThreadsAre
  <1>2. srcRefs \in [Pictures -> Nat] /\ srcRefs' = [srcRefs EXCEPT ![p] = @ + 1]
    BY ExactNow DEF SourceShared
  <1>3. ASSUME NEW q \in Pictures PROVE srcRefs'[q] = SourceHolders(q)'
    <2>0. srcRefs[q] = SourceHolders(q)
      BY ExactNow DEF SourcesExact
    <2>1. (SourceAt("main", q)' <=> SourceAt("main", q)) /\ (SourceAt("lookahead", q)' <=> SourceAt("lookahead", q))
      BY <1>0, <1>1, AtMoves DEF PassPlaces
    <2>2. InFifo(q)' <=> InFifo(q)
      BY <1>0, FifoStays
    <2>3. CASE q # p
      <3>1. ASSUME NEW f \in Encoders PROVE Sent(f, q)' <=> Sent(f, q)
        BY <1>0, <2>3, <3>1 DEF Sent, Others
      <3>2. SourceStays(q)
        BY <1>1, <2>1, <2>2, <3>1 DEF SourceStays
      <3> QED BY <1>2, <2>0, <2>3, <3>2, SourceStaysIs
    <2>4. CASE q = p
      <3>1. ASSUME NEW f \in Encoders, f # e PROVE Sent(f, q)' <=> Sent(f, q)
        BY <1>0, <3>1 DEF Sent, Others
      <3>2. ~Sent(e, q) /\ Sent(e, q)'
        BY <1>0, <2>4 DEF Sent
      <3>3. \/ ~Sent("lookahead", q) /\ Sent("lookahead", q)' /\ (Sent("encoder", q)' <=> Sent("encoder", q))
            \/ ~Sent("encoder", q) /\ Sent("encoder", q)' /\ (Sent("lookahead", q)' <=> Sent("lookahead", q))
        BY <1>0, <1>1, <3>1, <3>2, ThreadsAre
      <3>4. SourceHolders(q)' = SourceHolders(q) + 1
        BY <2>1, <2>2, <3>3 DEF SourceHolders, One
      <3> QED BY <1>2, <2>0, <2>4, <3>4
    <2> QED BY <2>3, <2>4
  <1>4. SourcePool'
    <2>1. SourceAt(t, p)
      BY <1>0 DEF Moves, SourceAt, Passing
    <2>2. srcRefs[p] > 0
      BY <1>0, <2>1, SourceIsHeld
    <2> QED BY <1>0, <2>2, SourcePoolShared
  <1> QED BY <1>3, <1>4 DEF SourcesExact

LEMMA SourcesLeave ==
  ASSUME EncoderInv, conf' = conf, NEW t \in Threads, Leaves(t), SourcesLeft({th[t].p})
  PROVE  SourcesExact' /\ SourcePool'
  <1> DEFINE p == th[t].p
  <1>1. /\ fifo' = fifo /\ \A e \in Encoders : SameSources(enc[e], enc'[e])
        /\ \E x \in {"dropTable", "thrown"} : \E y : y \notin PassPlaces /\ Moves(t, x, y)
    BY DEF Leaves, Same, SameSources, Return, FirstStop, PassPlaces
  <1>9. PICK x \in {"dropTable", "thrown"} : \E y : y \notin PassPlaces /\ Moves(t, x, y)
    BY <1>1
  <1>2. PICK y : y \notin PassPlaces /\ Moves(t, x, y)
    BY <1>9
  <1>3. /\ "main" \in Threads /\ "lookahead" \in Threads /\ Encoders = {"lookahead", "encoder"}
        /\ Threads = {"main", "lookahead", "encoder"}
    BY ThreadsAre
  <1>4. x \in PassPlaces
    BY <1>2 DEF PassPlaces
  <1>5. p \in Pictures /\ SourceAt(t, p) /\ t \in {"main", "lookahead"}
    <2>1. Passing(t)
      BY <1>2 DEF Moves, Passing
    <2>2. t # "encoder"
      BY <1>3, <2>1, ExactNow, ThreadsAre DEF ThreadPlaces, Passing
    <2> QED BY <1>3, <2>1, <2>2, ExactNow DEF ThreadPlaces, SourceAt
  <1>6. srcRefs \in [Pictures -> Nat] /\ srcRefs' = [q \in Pictures |-> srcRefs[q] - (IF q \in {p} THEN 1 ELSE 0)]
    BY ExactNow DEF SourcesLeft
  <1> HIDE DEF p
  <1>7. ASSUME NEW q \in Pictures PROVE srcRefs'[q] = SourceHolders(q)'
    <2>0. srcRefs[q] = SourceHolders(q) /\ srcRefs[q] \in Nat
      BY <1>6, ExactNow DEF SourcesExact
    <2>1. /\ InFifo(q)' <=> InFifo(q)
          /\ Sent("lookahead", q)' <=> Sent("lookahead", q)
          /\ Sent("encoder", q)' <=> Sent("encoder", q)
      BY <1>1, <1>3, FifoStays, SentStays
    <2>2. \A u \in Threads : u # t => (SourceAt(u, q)' <=> SourceAt(u, q))
      BY <1>2, AtMoves
    <2>3. CASE q # p
      <3>1. SourceAt(t, q)' <=> SourceAt(t, q)
        BY <1>2, <2>3, AtMoves DEF p
      <3>2. SourceStays(q)
        BY <1>3, <2>1, <2>2, <3>1 DEF SourceStays
      <3> QED BY <1>6, <2>0, <2>3, <3>2, SourceStaysIs
    <2>4. CASE q = p
      <3>1. SourceAt(t, q) /\ ~SourceAt(t, q)'
        BY <1>2, <1>5, <2>4, AtMoves
      <3>2. SourceHolders(q)' = SourceHolders(q) - 1
        BY <1>3, <1>5, <2>1, <2>2, <3>1, ThreadsAre DEF SourceHolders, One
      <3> QED BY <1>6, <2>0, <2>4, <3>2
    <2> QED BY <2>3, <2>4
  <1>8. SourcePool'
    <2>1. srcRefs[p] > 0
      BY <1>5, SourceIsHeld
    <2> QED BY <1>5, <2>1, SourcePoolLeft DEF p
  <1> QED BY <1>7, <1>8 DEF SourcesExact

\* A source goes back to its pool's side, or all of an encoder's do.
LEMMA SourcesBack ==
  ASSUME EncoderInv, conf' = conf, NEW e \in Used, BackStep(e), SourcesLeft({th[e].st.pic}),
         NEW p, p = th[e].st.pic
  PROVE  SourcesExact' /\ SourcePool'
  <1>1. /\ e \in Encoders /\ e \in Threads /\ TypeOK /\ SourcesHeld
        /\ "main" \in Threads /\ "lookahead" \in Threads /\ Encoders = {"lookahead", "encoder"}
    BY ThreadsAre, UsedAre DEF EncoderInv
  <1>2. /\ p \in Pictures /\ Others(e) /\ fifo' = fifo /\ Moves(e, "release", "releaseTable")
        /\ enc'[e].sourceSent = [enc[e].sourceSent EXCEPT ![p] = FALSE] /\ enc[e].sourceSent[p]
        /\ enc[e].sourceSent \in [Pictures -> BOOLEAN]
    BY <1>1, BackFacts, BackSent, HoldsNow DEF BackStep
  <1>3. srcRefs \in [Pictures -> Nat] /\ srcRefs' = [q \in Pictures |-> srcRefs[q] - (IF q \in {p} THEN 1 ELSE 0)]
    BY ExactNow DEF SourcesLeft
  <1>4. ASSUME NEW q \in Pictures PROVE srcRefs'[q] = SourceHolders(q)'
    <2>0. srcRefs[q] = SourceHolders(q) /\ srcRefs[q] \in Nat
      BY <1>3, ExactNow DEF SourcesExact
    <2>1. (SourceAt("main", q)' <=> SourceAt("main", q)) /\ (SourceAt("lookahead", q)' <=> SourceAt("lookahead", q))
      BY <1>1, <1>2, AtMoves DEF PassPlaces
    <2>2. InFifo(q)' <=> InFifo(q)
      BY <1>2, FifoStays
    <2>3. CASE q # p
      <3>1. ASSUME NEW f \in Encoders PROVE Sent(f, q)' <=> Sent(f, q)
        BY <1>2, <2>3, <3>1 DEF Sent, Others
      <3>2. SourceStays(q)
        BY <1>1, <2>1, <2>2, <3>1 DEF SourceStays
      <3> QED BY <1>3, <2>0, <2>3, <3>2, SourceStaysIs
    <2>4. CASE q = p
      <3>1. ASSUME NEW f \in Encoders, f # e PROVE Sent(f, q)' <=> Sent(f, q)
        BY <1>2, <3>1 DEF Sent, Others
      <3>2. Sent(e, q) /\ ~Sent(e, q)'
        BY <1>2, <2>4 DEF Sent
      <3>3. \/ Sent("lookahead", q) /\ ~Sent("lookahead", q)' /\ (Sent("encoder", q)' <=> Sent("encoder", q))
            \/ Sent("encoder", q) /\ ~Sent("encoder", q)' /\ (Sent("lookahead", q)' <=> Sent("lookahead", q))
        BY <1>1, <3>1, <3>2, ThreadsAre
      <3>4. SourceHolders(q)' = SourceHolders(q) - 1
        BY <2>1, <2>2, <3>3 DEF SourceHolders, One
      <3> QED BY <1>3, <2>0, <2>4, <3>4
    <2> QED BY <2>3, <2>4
  <1>5. SourcePool'
    <2>1. srcRefs[p] > 0
      BY <1>1, <1>2, SourceIsHeld DEF Sent
    <2> QED BY <1>2, <2>1, SourcePoolLeft
  <1> QED BY <1>4, <1>5 DEF SourcesExact

LEMMA SourcesReleased ==
  ASSUME EncoderInv, conf' = conf, NEW e \in Encoders, ReleaseStep(e), SourcesLeft(SourcesSent(enc[e])),
         NEW S, S = SourcesSent(enc[e])
  PROVE  SourcesExact' /\ SourcePool'
  <1>1. /\ TypeOK /\ "main" \in Threads /\ "lookahead" \in Threads /\ Encoders = {"lookahead", "encoder"}
    BY ThreadsAre DEF EncoderInv
  <1>2. /\ Others(e) /\ fifo' = fifo /\ Moves("main", Ways(e).c, Ways(e).d)
        /\ enc'[e].sourceSent = [p \in Pictures |-> FALSE] /\ S \in SUBSET Pictures
        /\ \A p \in Pictures : p \in S <=> Sent(e, p)
    BY <1>1, ReleaseFacts DEF ReleaseStep, SourcesSent, Sent
  <1>3. srcRefs \in [Pictures -> Nat] /\ srcRefs' = [q \in Pictures |-> srcRefs[q] - (IF q \in S THEN 1 ELSE 0)]
    BY ExactNow DEF SourcesLeft
  <1>4. Ways(e).c \notin PassPlaces /\ Ways(e).d \notin PassPlaces
    BY <1>1, WaysAre DEF PassPlaces
  <1>5. ASSUME NEW q \in Pictures PROVE srcRefs'[q] = SourceHolders(q)'
    <2>0. srcRefs[q] = SourceHolders(q) /\ srcRefs[q] \in Nat
      BY <1>3, ExactNow DEF SourcesExact
    <2>1. (SourceAt("main", q)' <=> SourceAt("main", q)) /\ (SourceAt("lookahead", q)' <=> SourceAt("lookahead", q))
      BY <1>1, <1>2, <1>4, AtMoves
    <2>2. InFifo(q)' <=> InFifo(q)
      BY <1>2, FifoStays
    <2>3. ASSUME NEW f \in Encoders, f # e PROVE Sent(f, q)' <=> Sent(f, q)
      BY <1>2, <2>3 DEF Sent, Others
    <2>4. ~Sent(e, q)'
      BY <1>2 DEF Sent
    <2>5. CASE q \notin S
      <3>1. ASSUME NEW f \in Encoders PROVE Sent(f, q)' <=> Sent(f, q)
        BY <1>2, <2>3, <2>4, <2>5
      <3>2. SourceStays(q)
        BY <1>1, <2>1, <2>2, <3>1 DEF SourceStays
      <3> QED BY <1>3, <2>0, <2>5, <3>2, SourceStaysIs
    <2>6. CASE q \in S
      <3>3. \/ Sent("lookahead", q) /\ ~Sent("lookahead", q)' /\ (Sent("encoder", q)' <=> Sent("encoder", q))
            \/ Sent("encoder", q) /\ ~Sent("encoder", q)' /\ (Sent("lookahead", q)' <=> Sent("lookahead", q))
        BY <1>1, <1>2, <2>3, <2>4, <2>6, ThreadsAre
      <3>4. SourceHolders(q)' = SourceHolders(q) - 1
        BY <2>1, <2>2, <3>3 DEF SourceHolders, One
      <3> QED BY <1>3, <2>0, <2>6, <3>4
    <2> QED BY <2>5, <2>6
  <1>6. SourcePool'
    <2>1. \A p \in S : srcRefs[p] > 0
      BY <1>1, <1>2, SourceIsHeld
    <2> QED BY <1>2, <2>1, SourcePoolLeft
  <1> QED BY <1>5, <1>6 DEF SourcesExact

\* What is held was read.
LEMMA HeldAreRead ==
  ASSUME EncoderInv, NEW p \in Pictures,
         SourceAt("lookahead", p) \/ InFifo(p) \/ (\E e \in Encoders : Sent(e, p))
  PROVE  p < next
  <1>0. /\ TypeOK /\ Order /\ PicturesInOrder /\ ThreadPlaces /\ "lookahead" \in Threads
        /\ Encoders = {"lookahead", "encoder"}
    BY OrderIs, ThreadsAre DEF EncoderInv
  <1>1. /\ GivenLen \in Nat /\ FifoLen \in Nat /\ FramesLen \in Nat /\ next \in Nat /\ refused \in Nat
        /\ Fed \in Nat /\ Called \in Nat /\ Fetched \in Nat /\ OnTheWay \in Nat /\ Reported \in Nat
        /\ Taken \in Nat /\ p \in Nat
    BY <1>0, Naturals DEF Pictures
  <1>2. /\ OnTheWay = GivenLen + Fed /\ Reported = OnTheWay + FifoLen + Called
        /\ Taken = Reported + FramesLen /\ next - 1 = Taken + Fetched + refused
        /\ (BL => Fed = 1)
    BY <1>0, NumbersNow DEF NumbersHold, Order
  <1>3. CASE SourceAt("lookahead", p)
    <2>1. Passing("lookahead") /\ th["lookahead"].p = p /\ th["lookahead"].e = "encoder"
      BY <1>0, <1>3 DEF SourceAt, ThreadPlaces
    <2>2. th["lookahead"].pc \in {"table", "tableWait", "encode"} \/ th["lookahead"].pc = "dropTable"
      BY <1>0, <2>1, ThreadsAre DEF Passing, ThreadPlaces
    <2>3. CASE th["lookahead"].pc \in {"table", "tableWait", "encode"}
      <3>1. BL
        BY <2>1, <2>3 DEF BL, Before
      <3>2. p = GivenLen + 1
        BY <1>0, <2>1, <3>1 DEF Order
      <3> QED BY <1>1, <1>2, <3>1, <3>2
    <2>4. CASE th["lookahead"].pc = "dropTable"
      <3>1. p <= GivenLen
        BY <1>0, <2>1, <2>4 DEF PicturesInOrder, Accepted, GivenLen
      <3> QED BY <1>1, <1>2, <3>1
    <2> QED BY <2>2, <2>3, <2>4
  <1>4. CASE InFifo(p)
    <2>1. PICK i \in 1 .. Len(fifo) : fifo[i] = p
      BY <1>4 DEF InFifo
    <2>2. p = OnTheWay + i /\ i \in 1 .. FifoLen
      BY <1>0, <2>1 DEF Order, FifoLen
    <2> QED BY <1>1, <1>2, <2>2
  <1>5. ASSUME NEW e \in Encoders, Sent(e, p) PROVE p < next
    <2>1. p <= Accepted(e)
      <3>1. /\ \A i \in DOMAIN enc[e].frames : enc[e].frames[i] <= Accepted(e)
            /\ (InCallback(e) => th[e].st.pic \in 1 .. Accepted(e))
            /\ \/ \E i \in DOMAIN enc[e].frames : enc[e].frames[i] = p
               \/ Finishing(e) /\ th[e].st.pic = p
        BY <1>5, HoldsNow DEF Holds, AcceptedOnly, SentAre, Sent
      <3>2. Finishing(e) => InCallback(e)
        BY CallsAre DEF CallPlaces
      <3>3. Accepted(e) \in Nat
        BY <1>0, NumbersAre
      <3> QED BY <3>1, <3>2, <3>3
    <2>2. Accepted(e) = GivenLen \/ Accepted(e) = Taken
      BY <1>0 DEF Accepted, GivenLen, Taken
    <2> QED BY <1>1, <1>2, <2>1, <2>2
  <1> QED BY <1>3, <1>4, <1>5

LEMMA SourcesRead ==
  ASSUME EncoderInv, conf' = conf, SourceStep, SourceTaken(next), NEW p, p = next
  PROVE  SourcesExact' /\ SourcePool'
  <1>1. /\ TypeOK /\ "main" \in Threads /\ "lookahead" \in Threads /\ Encoders = {"lookahead", "encoder"}
        /\ p \in Pictures /\ enc' = enc /\ fifo' = fifo /\ p \in Nat
    BY ThreadsAre DEF EncoderInv, SourceStep, Pictures
  <1>2. srcRefs \in [Pictures -> Nat] /\ srcRefs' = [srcRefs EXCEPT ![p] = 1]
    BY ExactNow DEF SourceTaken
  <1>3. ~SourceAt("lookahead", p) /\ ~InFifo(p) /\ ~Sent("lookahead", p) /\ ~Sent("encoder", p)
    BY <1>1, HeldAreRead
  <1>4. ASSUME NEW q \in Pictures
        PROVE  /\ SourceAt("lookahead", q)' <=> SourceAt("lookahead", q)
               /\ ~SourceAt("main", q) /\ (SourceAt("main", q)' <=> q = p)
               /\ InFifo(q)' <=> InFifo(q)
               /\ Sent("lookahead", q)' <=> Sent("lookahead", q)
               /\ Sent("encoder", q)' <=> Sent("encoder", q)
    <2>1. SourceAt("lookahead", q)' <=> SourceAt("lookahead", q)
      BY <1>1, ThreadsAre DEF SourceStep, Only, SourceAt, Passing
    <2>2. ~SourceAt("main", q) /\ (SourceAt("main", q)' <=> q = p)
      BY DEF SourceStep, SourceAt, Passing
    <2>3. InFifo(q)' <=> InFifo(q)
      BY <1>1, FifoStays
    <2>4. (Sent("lookahead", q)' <=> Sent("lookahead", q)) /\ (Sent("encoder", q)' <=> Sent("encoder", q))
      BY <1>1 DEF Sent
    <2> QED BY <2>1, <2>2, <2>3, <2>4
  <1>5. ASSUME NEW q \in Pictures PROVE srcRefs'[q] = SourceHolders(q)'
    <2>0. srcRefs[q] = SourceHolders(q)
      BY ExactNow DEF SourcesExact
    <2>1. CASE q # p
      <3>1. SourceStays(q)
        BY <1>4, <2>1 DEF SourceStays
      <3> QED BY <1>2, <2>0, <2>1, <3>1, SourceStaysIs
    <2>2. CASE q = p
      <3>1. SourceHolders(q)' = 1
        BY <1>3, <1>4, <2>2 DEF SourceHolders, One
      <3> QED BY <1>2, <2>2, <3>1
    <2> QED BY <2>1, <2>2
  <1>6. SourcePool'
    <2>1. srcRefs[p] = 0
      <3>1. srcRefs[p] = SourceHolders(p)
        BY <1>1, ExactNow DEF SourcesExact
      <3> QED BY <1>1, <1>3, <1>4, <3>1 DEF SourceHolders, One
    <2> QED BY <1>1, <2>1, SourcePoolTaken
  <1> QED BY <1>5, <1>6 DEF SourcesExact

\* The pictures in the FIFO, and the one that comes behind them, follow each other.
LEMMA FifoFollows ==
  ASSUME EncoderInv
  PROVE  /\ fifo \in Seq(Pictures) /\ Len(fifo) \in Nat /\ OnTheWay \in Nat
         /\ \A i \in 1 .. Len(fifo) : fifo[i] = OnTheWay + i
         /\ CB => /\ th["lookahead"].st.pic \in Pictures
                  /\ th["lookahead"].st.pic = OnTheWay + Len(fifo) + 1
  <1>1. TypeOK /\ Order /\ fifo \in Seq(Pictures)
    BY OrderIs, Sequences
  <1>2. FifoLen \in Nat /\ OnTheWay \in Nat /\ Called \in Nat
    BY <1>1, Naturals
  <1>3. CB => /\ th["lookahead"].st.pic \in Pictures
              /\ th["lookahead"].st.pic = OnTheWay + Len(fifo) + 1
    <2> SUFFICES ASSUME CB
                 PROVE  /\ th["lookahead"].st.pic \in Pictures
                        /\ th["lookahead"].st.pic = OnTheWay + Len(fifo) + 1
      OBVIOUS
    <2>1. th["lookahead"].st.pic \in Pictures /\ th["lookahead"].st.pic = Reported
      BY PictureReported DEF CB
    <2>2. Reported = OnTheWay + FifoLen + Called /\ Called = 1
      BY NumbersNow DEF NumbersHold
    <2> QED BY <1>2, <2>1, <2>2 DEF FifoLen
  <1> QED BY <1>1, <1>2, <1>3 DEF Order, FifoLen

LEMMA SourcesFifo ==
  ASSUME EncoderInv, conf' = conf, FifoStep, SourcesAlone, NEW h, h = Head(fifo)
  PROVE  SourcesExact' /\ SourcePool'
  <1>1. /\ "main" \in Threads /\ "lookahead" \in Threads /\ enc' = enc
        /\ th["main"].pc = "fifo" /\ th'["main"].pc = "table" /\ Only("main") /\ th'["main"].p = h
        /\ fifo' = Tail(fifo) /\ fifo # <<>>
    BY ThreadsAre DEF FifoStep
  <1> DEFINE n == Len(fifo)
             o == OnTheWay
             f == fifo
             g == fifo'
  <1>2. /\ n \in Nat /\ n > 0 /\ o \in Nat /\ \A i \in 1 .. n : f[i] = o + i
        /\ h = f[1] /\ Len(g) = n - 1 /\ \A i \in 1 .. n - 1 : g[i] = f[i + 1]
    BY <1>1, FifoFollows, SeqHead
  <1>3. ASSUME NEW q \in Pictures
        PROVE  /\ InFifo(q) <=> \E i \in 1 .. n : f[i] = q
               /\ InFifo(q)' <=> \E i \in 1 .. Len(g) : g[i] = q
    BY DEF InFifo
  <1> HIDE DEF n, o, f, g
  <1>4. ASSUME NEW q \in Pictures PROVE InFifo(q) <=> q = h \/ InFifo(q)'
    <2>1. ASSUME NEW i \in 1 .. n, f[i] = q PROVE q = h \/ \E j \in 1 .. n - 1 : g[j] = q
      <3>1. CASE i = 1
        BY <1>2, <2>1, <3>1
      <3>2. CASE i # 1
        <4>1. i - 1 \in 1 .. n - 1 /\ g[i - 1] = f[(i - 1) + 1] /\ (i - 1) + 1 = i
          BY <1>2, <3>2
        <4> QED BY <2>1, <4>1
      <3> QED BY <3>1, <3>2
    <2>2. ASSUME NEW j \in 1 .. n - 1, g[j] = q PROVE \E i \in 1 .. n : f[i] = q
      <3>1. j + 1 \in 1 .. n /\ f[j + 1] = q
        BY <1>2, <2>2
      <3> QED BY <3>1
    <2>3. q = h => \E i \in 1 .. n : f[i] = q
      BY <1>2
    <2> QED BY <1>2, <1>3, <2>1, <2>2, <2>3
  <1>5. ~InFifo(h)'
    <2>1. ASSUME NEW j \in 1 .. n - 1, g[j] = h PROVE FALSE
      <3>1. j + 1 \in 1 .. n /\ g[j] = o + (j + 1) /\ h = o + 1
        BY <1>2
      <3> QED BY <1>2, <2>1, <3>1
    <2> QED BY <1>2, <2>1 DEF InFifo, g
  <1>6. ASSUME NEW q \in Pictures
        PROVE  /\ SourceAt("lookahead", q)' <=> SourceAt("lookahead", q)
               /\ ~SourceAt("main", q) /\ (SourceAt("main", q)' <=> q = h)
               /\ Sent("lookahead", q)' <=> Sent("lookahead", q)
               /\ Sent("encoder", q)' <=> Sent("encoder", q)
    <2>1. SourceAt("lookahead", q)' <=> SourceAt("lookahead", q)
      BY <1>1, ThreadsAre DEF Only, SourceAt, Passing
    <2>2. ~SourceAt("main", q) /\ (SourceAt("main", q)' <=> q = h)
      BY <1>1 DEF SourceAt, Passing
    <2>4. (Sent("lookahead", q)' <=> Sent("lookahead", q)) /\ (Sent("encoder", q)' <=> Sent("encoder", q))
      BY <1>1 DEF Sent
    <2> QED BY <2>1, <2>2, <2>4
  <1>7. ASSUME NEW q \in Pictures PROVE srcRefs'[q] = SourceHolders(q)'
    <2>0. srcRefs[q] = SourceHolders(q) /\ srcRefs' = srcRefs
      BY ExactNow DEF SourcesExact, SourcesAlone
    <2>1. CASE q # h
      <3>1. SourceStays(q)
        BY <1>4, <1>6, <2>1 DEF SourceStays
      <3> QED BY <2>0, <3>1, SourceStaysIs
    <2>2. CASE q = h
      <3>1. InFifo(q) /\ ~InFifo(q)'
        BY <1>4, <1>5, <2>2
      <3>2. SourceHolders(q)' = SourceHolders(q)
        BY <1>6, <2>2, <3>1 DEF SourceHolders, One
      <3> QED BY <2>0, <3>2
    <2> QED BY <2>1, <2>2
  <1>8. SourcePool'
    BY ExactNow DEF SourcePool, SourcesAlone, FrameBuffers, Count
  <1> QED BY <1>7, <1>8 DEF SourcesExact

\* The picture the LookAhead keeps is in nobody's hands but the lookahead's.
LEMMA KeptPicture ==
  ASSUME EncoderInv, th["lookahead"].pc = "callback", NEW p, p = th["lookahead"].st.pic
  PROVE  p \in Pictures /\ ~InFifo(p) /\ srcRefs[p] > 0
  <1>1. /\ fifo \in Seq(Pictures) /\ Len(fifo) \in Nat /\ OnTheWay \in Nat
        /\ \A i \in 1 .. Len(fifo) : fifo[i] = OnTheWay + i
        /\ p \in Pictures /\ p = OnTheWay + Len(fifo) + 1
    BY FifoFollows DEF CB
  <1>2. ~InFifo(p)
    BY <1>1 DEF InFifo
  <1>3. "lookahead" \in Encoders
    BY ThreadsAre
  <1>4. InCallback("lookahead") /\ Finishing("lookahead") /\ ~Released("lookahead")
    <2>1. InCallback("lookahead") /\ Finishing("lookahead")
      BY CallsAre DEF CallPlaces, PutPlaces
    <2> QED BY <1>3, <2>1, RingNow
  <1>5. Sent("lookahead", p)
    <2>1. th["lookahead"].st.last
      BY <1>3, <1>4, HoldsNow DEF Holds, LastOnly
    <2> QED BY <1>1, <1>3, <1>4, <2>1, HoldsNow DEF Holds, SentAre, Sent
  <1>6. srcRefs[p] > 0
    BY <1>1, <1>3, <1>5, SourceIsHeld
  <1> QED BY <1>1, <1>2, <1>6

LEMMA SourcesKeep ==
  ASSUME EncoderInv, conf' = conf, KeepStep, SourceShared(th["lookahead"].st.pic),
         NEW p, p = th["lookahead"].st.pic
  PROVE  SourcesExact' /\ SourcePool'
  <1>1. /\ "main" \in Threads /\ "lookahead" \in Threads /\ enc' = enc
        /\ Moves("lookahead", "callback", "put") /\ fifo' = Append(fifo, p)
        /\ th["lookahead"].pc = "callback" /\ fifo \in Seq(Pictures)
    BY ThreadsAre, FifoFollows DEF KeepStep, Moves
  <1>2. p \in Pictures /\ ~InFifo(p) /\ srcRefs[p] > 0
    BY <1>1, KeptPicture
  <1>3. srcRefs \in [Pictures -> Nat] /\ srcRefs' = [srcRefs EXCEPT ![p] = @ + 1]
    BY ExactNow DEF SourceShared
  <1> DEFINE n == Len(fifo)
             f == fifo
             g == fifo'
  <1>4. n \in Nat /\ Len(g) = n + 1 /\ (\A i \in 1 .. n : g[i] = f[i]) /\ g[n + 1] = p
    BY <1>1, <1>2, SeqEnd
  <1>5. ASSUME NEW q \in Pictures
        PROVE  /\ InFifo(q) <=> \E i \in 1 .. n : f[i] = q
               /\ InFifo(q)' <=> \E i \in 1 .. Len(g) : g[i] = q
    BY DEF InFifo
  <1> HIDE DEF n, f, g
  <1>6. ASSUME NEW q \in Pictures PROVE InFifo(q)' <=> InFifo(q) \/ q = p
    <2>1. \A i \in 1 .. n + 1 : i \in 1 .. n \/ i = n + 1
      BY <1>4
    <2>2. 1 .. n \subseteq 1 .. n + 1 /\ n + 1 \in 1 .. n + 1
      BY <1>4
    <2> QED BY <1>4, <1>5, <2>1, <2>2
  <1>7. ASSUME NEW q \in Pictures PROVE srcRefs'[q] = SourceHolders(q)'
    <2>0. srcRefs[q] = SourceHolders(q)
      BY ExactNow DEF SourcesExact
    <2>1. (SourceAt("main", q)' <=> SourceAt("main", q)) /\ (SourceAt("lookahead", q)' <=> SourceAt("lookahead", q))
      BY <1>1, AtMoves, ThreadsAre DEF PassPlaces
    <2>2. (Sent("lookahead", q)' <=> Sent("lookahead", q)) /\ (Sent("encoder", q)' <=> Sent("encoder", q))
      BY <1>1 DEF Sent
    <2>3. CASE q # p
      <3>1. SourceStays(q)
        BY <1>6, <2>1, <2>2, <2>3 DEF SourceStays
      <3> QED BY <1>3, <2>0, <2>3, <3>1, SourceStaysIs
    <2>4. CASE q = p
      <3>1. ~InFifo(q) /\ InFifo(q)'
        BY <1>2, <1>6, <2>4
      <3>2. SourceHolders(q)' = SourceHolders(q) + 1
        BY <2>1, <2>2, <3>1 DEF SourceHolders, One
      <3> QED BY <1>3, <2>0, <2>4, <3>2
    <2> QED BY <2>3, <2>4
  <1>8. SourcePool'
    BY <1>2, SourcePoolShared
  <1> QED BY <1>7, <1>8 DEF SourcesExact

LEMMA SourcesPass ==
  ASSUME EncoderInv, conf' = conf, PassStep, SourceShared(th["lookahead"].st.pic),
         NEW p, p = th["lookahead"].st.pic
  PROVE  SourcesExact' /\ SourcePool'
  <1> DEFINE k == Append(fifo, p)
             h == Head(k)
             n == Len(fifo)
             o == OnTheWay
             f == fifo
             g == fifo'
  <1>1. /\ "main" \in Threads /\ "lookahead" \in Threads /\ enc' = enc
        /\ th["lookahead"].pc = "callback" /\ th'["lookahead"].pc = "table" /\ Only("lookahead")
        /\ th'["lookahead"].p = h /\ fifo' = Tail(k)
        /\ fifo \in Seq(Pictures)
    BY ThreadsAre, FifoFollows DEF PassStep
  <1>2. p \in Pictures /\ ~InFifo(p) /\ srcRefs[p] > 0
    BY <1>1, KeptPicture
  <1>3. srcRefs \in [Pictures -> Nat] /\ srcRefs' = [srcRefs EXCEPT ![p] = @ + 1]
    BY ExactNow DEF SourceShared
  <1>4. /\ n \in Nat /\ o \in Nat /\ k \in Seq(Pictures) /\ Len(k) = n + 1
        /\ (\A i \in 1 .. n : k[i] = f[i]) /\ k[n + 1] = p
        /\ \A i \in 1 .. n : f[i] = o + i
        /\ p = o + n + 1
    BY <1>1, <1>2, SeqEnd, FifoFollows DEF CB
  <1>5. k # <<>>
    <2> HIDE DEF k, n
    <2> QED BY <1>4
  <1>6. h = k[1] /\ Len(g) = n /\ \A i \in 1 .. n : g[i] = k[i + 1]
    <2>1. g = Tail(k) /\ h = Head(k)
      BY <1>1
    <2> HIDE DEF k, n, g, h
    <2>2. /\ Head(k) = k[1] /\ Len(Tail(k)) = Len(k) - 1
          /\ \A i \in 1 .. Len(k) - 1 : Tail(k)[i] = k[i + 1]
      BY <1>4, <1>5, SeqHead
    <2> QED BY <1>4, <2>1, <2>2
  <1>7. ASSUME NEW q \in Pictures
        PROVE  /\ InFifo(q) <=> \E i \in 1 .. n : f[i] = q
               /\ InFifo(q)' <=> \E i \in 1 .. Len(g) : g[i] = q
               /\ ~SourceAt("lookahead", q) /\ (SourceAt("lookahead", q)' <=> q = h)
               /\ SourceAt("main", q)' <=> SourceAt("main", q)
               /\ Sent("lookahead", q)' <=> Sent("lookahead", q)
               /\ Sent("encoder", q)' <=> Sent("encoder", q)
    <2>0. (InFifo(q) <=> \E i \in 1 .. n : f[i] = q) /\ (InFifo(q)' <=> \E i \in 1 .. Len(g) : g[i] = q)
      BY DEF InFifo
    <2>1. SourceAt("main", q)' <=> SourceAt("main", q)
      BY <1>1, ThreadsAre DEF Only, SourceAt, Passing
    <2>2. ~SourceAt("lookahead", q) /\ (SourceAt("lookahead", q)' <=> q = h)
      <3> HIDE DEF h
      <3> QED BY <1>1 DEF SourceAt, Passing
    <2>4. (Sent("lookahead", q)' <=> Sent("lookahead", q)) /\ (Sent("encoder", q)' <=> Sent("encoder", q))
      BY <1>1 DEF Sent
    <2> QED BY <2>0, <2>1, <2>2, <2>4
  <1> HIDE DEF k, h, n, o, f, g
  <1>8. \A i \in 1 .. n + 1 : k[i] = o + i
    <2>1. \A i \in 1 .. n + 1 : i \in 1 .. n \/ i = n + 1
      BY <1>4
    <2>2. p = o + (n + 1)
      BY <1>4
    <2> QED BY <1>4, <2>1, <2>2
  <1>9. ASSUME NEW q \in Pictures PROVE InFifo(q) <=> (\E i \in 1 .. n + 1 : k[i] = q) /\ q # p
    <2>1. \A i \in 1 .. n + 1 : i \in 1 .. n \/ i = n + 1
      BY <1>4
    <2>2. 1 .. n \subseteq 1 .. n + 1
      BY <1>4
    <2> QED BY <1>2, <1>4, <1>7, <2>1, <2>2
  <1>10. ASSUME NEW q \in Pictures PROVE InFifo(q)' <=> (\E i \in 1 .. n + 1 : k[i] = q) /\ q # h
    <2>1. ASSUME NEW i \in 1 .. n + 1, k[i] = q, q # h PROVE \E j \in 1 .. n : g[j] = q
      <3>1. i # 1
        BY <1>6, <2>1
      <3>2. i - 1 \in 1 .. n /\ (i - 1) + 1 = i
        BY <1>4, <3>1
      <3>3. g[i - 1] = k[(i - 1) + 1]
        BY <1>6, <3>2
      <3> QED BY <2>1, <3>2, <3>3
    <2>2. ASSUME NEW j \in 1 .. n, g[j] = q PROVE (\E i \in 1 .. n + 1 : k[i] = q) /\ q # h
      <3>1. j + 1 \in 1 .. n + 1 /\ 1 \in 1 .. n + 1 /\ k[j + 1] = q
        BY <1>4, <1>6, <2>2
      <3>2. k[j + 1] = o + (j + 1) /\ h = o + 1
        BY <1>6, <1>8, <3>1
      <3>3. q # h
        BY <1>4, <3>1, <3>2
      <3> QED BY <3>1, <3>3
    <2> QED BY <1>6, <1>7, <2>1, <2>2
  <1>11. /\ \E i \in 1 .. n + 1 : k[i] = p
         /\ \E i \in 1 .. n + 1 : k[i] = h
    <2>1. 1 \in 1 .. n + 1 /\ n + 1 \in 1 .. n + 1
      BY <1>4
    <2> QED BY <1>4, <1>6, <2>1
  <1>12. ASSUME NEW q \in Pictures PROVE srcRefs'[q] = SourceHolders(q)'
    <2>0. srcRefs[q] = SourceHolders(q)
      BY ExactNow DEF SourcesExact
    <2>1. CASE q # p
      <3>1. SourceHolders(q)' = SourceHolders(q)
        BY <1>7, <1>9, <1>10, <1>11, <2>1 DEF SourceHolders, One
      <3> QED BY <1>3, <2>0, <2>1, <3>1
    <2>2. CASE q = p
      <3>1. SourceHolders(q)' = SourceHolders(q) + 1
        BY <1>7, <1>9, <1>10, <1>11, <2>2 DEF SourceHolders, One
      <3> QED BY <1>3, <2>0, <2>2, <3>1
    <2> QED BY <2>1, <2>2
  <1>13. SourcePool'
    BY <1>2, SourcePoolShared
  <1> QED BY <1>12, <1>13 DEF SourcesExact

LEMMA SourcesExactKept ==
  ASSUME EncoderInv, conf' = conf, Acts
  PROVE  SourcesExact' /\ SourcePool'
  <1>1. CASE Undisturbed /\ AllAlone
    BY <1>1, SourcesCalm DEF AllAlone
  <1>2. ASSUME NEW t \in Threads,
               \/ TakesTable(t) /\ SourcesAlone /\ TableTaken(Table(t)) /\ StreamsAlone
               \/ EncodeStep(t) /\ SourceShared(th[t].p) /\ TableShared(Table(t)) /\ StreamsAlone
               \/ Leaves(t) /\ SourcesLeft({th[t].p}) /\ TablesLeft({Table(t)}) /\ StreamsAlone
        PROVE  SourcesExact' /\ SourcePool'
    <2>1. CASE TakesTable(t) /\ SourcesAlone
      BY <2>1, SourcesCalm
    <2>2. CASE EncodeStep(t) /\ SourceShared(th[t].p)
      BY <2>2, SourcesEncode
    <2>3. CASE Leaves(t) /\ SourcesLeft({th[t].p})
      BY <2>3, SourcesLeave
    <2> QED BY <1>2, <2>1, <2>2, <2>3
  <1>3. CASE SourceStep /\ SourceTaken(next)
    BY <1>3, SourcesRead
  <1>4. CASE FifoStep /\ AllAlone
    BY <1>4, SourcesFifo DEF AllAlone
  <1>5. CASE (KeepStep \/ PassStep) /\ SourceShared(th["lookahead"].st.pic)
    BY <1>5, SourcesKeep, SourcesPass
  <1>6. ASSUME NEW e \in Used,
               \/ Slices(e) /\ AllAlone
               \/ PutStep(e) /\ SourcesAlone /\ TablesAlone
                     /\ StreamShared(enc[e].streamSent[th[e].st.stream])
               \/ BackStep(e) /\ SourcesLeft({th[e].st.pic}) /\ TablesAlone /\ StreamsAlone
               \/ Moves(e, "releaseTable", "done") /\ Same /\ SourcesAlone
                     /\ TablesLeft({<<e, th[e].st.pic>>}) /\ StreamsAlone
               \/ Moves(e, "unref", "poll") /\ Same /\ SourcesAlone /\ TablesAlone
                     /\ StreamLeft(enc[e].streamSent[th[e].st.stream])
        PROVE  SourcesExact' /\ SourcePool'
    <2>1. CASE BackStep(e) /\ SourcesLeft({th[e].st.pic})
      BY <2>1, SourcesBack
    <2>2. CASE \/ Slices(e) /\ AllAlone
               \/ PutStep(e) /\ SourcesAlone
               \/ Moves(e, "releaseTable", "done") /\ Same /\ SourcesAlone
               \/ Moves(e, "unref", "poll") /\ Same /\ SourcesAlone
      BY <2>2, SourcesCalm DEF AllAlone
    <2> QED BY <1>6, <2>1, <2>2
  <1>7. ASSUME NEW e \in Encoders,
               ReleaseStep(e) /\ SourcesLeft(SourcesSent(enc[e]))
        PROVE  SourcesExact' /\ SourcePool'
    BY <1>7, SourcesReleased
  <1> QED BY <1>1, <1>2, <1>3, <1>4, <1>5, <1>6, <1>7 DEF Acts
-----------------------------------------------------------------------------
(* The references of the QP tables *)

LEMMA TableStaysIs ==
  ASSUME NEW u \in Uses, TableStays(u)
  PROVE  TableHolders(u)' = TableHolders(u)
  BY DEF TableStays, TableHolders, One

LEMMA SentForStays ==
  ASSUME \A e \in Encoders : SameSources(enc[e], enc'[e]), NEW u \in Uses
  PROVE  SentFor(u)' <=> SentFor(u)
  <1>1. u[1] \in Encoders
    BY DEF Uses
  <1> QED BY <1>1 DEF SameSources, SentFor

LEMMA TablesSame ==
  ASSUME EncoderInv, conf' = conf, TablesAlone, \A u \in Uses : TableStays(u)
  PROVE  TablesExact' /\ TablePool'
  <1>1. ASSUME NEW u \in Uses PROVE qpRefs'[u] = TableHolders(u)'
    <2>1. qpRefs'[u] = qpRefs[u] /\ qpRefs[u] = TableHolders(u)
      BY ExactNow DEF TablesAlone, TablesExact
    <2> QED BY <2>1, TableStaysIs
  <1>2. TablePool'
    BY ExactNow DEF TablePool, TablesAlone, FrameBuffers, Count
  <1> QED BY <1>1, <1>2 DEF TablesExact

\* The steps of one thread in which it neither gets a QP table nor lets one go.
LEMMA TablesByMove ==
  ASSUME EncoderInv, conf' = conf, TablesAlone, NEW t \in Threads,
         \A u \in Threads : u # t => th'[u] = th[u],
         ~HasTable(t), ~HasTable(t)', th[t].pc # "releaseTable", th'[t].pc # "releaseTable",
         \A e \in Encoders : SameSources(enc[e], enc'[e])
  PROVE  TablesExact' /\ TablePool'
  <1>1. ASSUME NEW u \in Uses PROVE TableStays(u)
    <2>1. ASSUME NEW v \in Threads
          PROVE  (TableAt(v, u)' <=> TableAt(v, u)) /\ (TableDue(v, u)' <=> TableDue(v, u))
      <3>1. CASE v = t
        BY <3>1 DEF TableAt, TableDue
      <3>2. CASE v # t
        BY <3>2 DEF TableAt, TableDue, HasTable
      <3> QED BY <3>1, <3>2
    <2>2. SentFor(u)' <=> SentFor(u)
      BY SentForStays
    <2> QED BY <2>1, <2>2, ThreadsAre DEF TableStays
  <1> QED BY <1>1, TablesSame

LEMMA TablesCalm ==
  ASSUME EncoderInv, conf' = conf, TablesAlone,
         \/ Undisturbed \/ SourceStep \/ FifoStep \/ KeepStep \/ PassStep
         \/ \E e \in Used : \/ Slices(e) \/ PutStep(e)
                            \/ Moves(e, "unref", "poll") /\ Same
  PROVE  TablesExact' /\ TablePool'
  <1>0. TypeOK /\ RingOfStreams /\ "main" \in Threads /\ "lookahead" \in Threads
    BY ThreadsAre DEF EncoderInv
  <1>1. CASE Undisturbed
    <2>1. ASSUME NEW u \in Uses PROVE TableStays(u)
      <3>1. ASSUME NEW t \in Threads
            PROVE  (TableAt(t, u)' <=> TableAt(t, u)) /\ (TableDue(t, u)' <=> TableDue(t, u))
        <4>1. SameHands(t)
          BY <1>1 DEF Undisturbed
        <4> QED BY <4>1 DEF SameHands, SameWork, TableAt, TableDue
      <3>2. SentFor(u)' <=> SentFor(u)
        BY <1>1, SentForStays DEF Undisturbed, SameHolds
      <3> QED BY <3>1, <3>2, ThreadsAre DEF TableStays
    <2> QED BY <2>1, TablesSame
  <1>2. enc' = enc => \A e \in Encoders : SameSources(enc[e], enc'[e])
    BY DEF SameSources
  <1>3. CASE SourceStep \/ FifoStep
    <2>1. /\ Only("main") /\ enc' = enc /\ th["main"].pc \in {"source", "fifo"} /\ th'["main"].pc = "table"
      BY <1>3 DEF SourceStep, FifoStep
    <2>2. ~HasTable("main") /\ ~HasTable("main")'
      BY <2>1 DEF HasTable
    <2> QED BY <1>0, <1>2, <2>1, <2>2, TablesByMove DEF Only
  <1>4. CASE KeepStep \/ PassStep
    <2>1. /\ Only("lookahead") /\ enc' = enc /\ th["lookahead"].pc = "callback"
          /\ th'["lookahead"].pc \in {"put", "table"}
      BY <1>4 DEF KeepStep, PassStep, Moves
    <2>2. ~HasTable("lookahead") /\ ~HasTable("lookahead")'
      BY <2>1 DEF HasTable
    <2> QED BY <1>0, <1>2, <2>1, <2>2, TablesByMove DEF Only
  <1>5. ASSUME NEW e \in Used, Slices(e) PROVE TablesExact' /\ TablePool'
    <2>1. e \in Threads /\ e \in Encoders
      BY ThreadsAre, UsedAre
    <2>2. PICK i \in 1 .. Len(enc[e].frames) : SliceStep(e, i)
      BY <1>5 DEF Slices
    <2>3. \A f \in Encoders : SameSources(enc[f], enc'[f])
      BY <1>0, <2>1, <2>2, SliceFacts DEF Others, SameSources
    <2>4. th[e].pc = "wait" /\ th'[e].pc = "callback" /\ Only(e)
      BY <2>2 DEF SliceStep
    <2>5. ~HasTable(e) /\ ~HasTable(e)'
      BY <2>4 DEF HasTable
    <2> QED BY <2>1, <2>3, <2>4, <2>5, TablesByMove DEF Only
  <1>6. ASSUME NEW e \in Used, PutStep(e) PROVE TablesExact' /\ TablePool'
    <2>1. e \in Threads /\ e \in Encoders
      BY ThreadsAre, UsedAre
    <2>3. \A f \in Encoders : SameSources(enc[f], enc'[f])
      BY <1>0, <1>6, <2>1, PutFacts DEF Others, SameSources
    <2>4. th[e].pc \in {"put", "callback"} /\ th'[e].pc \in {"release", "unref"} /\ Only(e)
      BY <1>6 DEF PutStep, Moves
    <2>5. ~HasTable(e) /\ ~HasTable(e)'
      BY <2>4 DEF HasTable
    <2> QED BY <2>1, <2>3, <2>4, <2>5, TablesByMove DEF Only
  <1>7. ASSUME NEW e \in Used, Moves(e, "unref", "poll") /\ Same PROVE TablesExact' /\ TablePool'
    <2>1. e \in Threads /\ e \in Encoders
      BY ThreadsAre, UsedAre
    <2>3. \A f \in Encoders : SameSources(enc[f], enc'[f])
      BY <1>2, <1>7 DEF Same
    <2>4. th[e].pc = "unref" /\ th'[e].pc = "poll" /\ Only(e)
      BY <1>7 DEF Moves
    <2>5. ~HasTable(e) /\ ~HasTable(e)'
      BY <2>4 DEF HasTable
    <2> QED BY <2>1, <2>3, <2>4, <2>5, TablesByMove DEF Only
  <1> QED BY <1>1, <1>3, <1>4, <1>5, <1>6, <1>7

\* A QP table with a holder has references.
LEMMA TableIsHeld ==
  ASSUME EncoderInv, NEW u \in Uses,
         \/ \E t \in Threads : TableAt(t, u)
         \/ SentFor(u)
         \/ \E e \in Encoders : TableDue(e, u)
  PROVE  qpRefs[u] > 0
  <1>1. ~TableAt("encoder", u)
    BY ExactNow, ThreadsAre DEF ThreadPlaces, TableAt, HasTable
  <1>2. \/ TableAt("main", u) \/ TableAt("lookahead", u) \/ SentFor(u)
        \/ TableDue("lookahead", u) \/ TableDue("encoder", u)
    BY <1>1, ThreadsAre
  <1>3. qpRefs[u] = TableHolders(u)
    BY ExactNow DEF TablesExact
  <1> QED BY <1>2, <1>3 DEF TableHolders, One

LEMMA TablePoolShared ==
  ASSUME EncoderInv, conf' = conf, NEW u \in Uses, TableShared(u), qpRefs[u] > 0
  PROVE  TablePool'
  <1>1. {w \in Uses : qpRefs'[w] > 0} = {w \in Uses : qpRefs[w] > 0}
    <2> DEFINE D == Uses
    <2>1. qpRefs \in [D -> Nat] /\ u \in D /\ qpRefs' = [qpRefs EXCEPT ![u] = @ + 1]
      BY ExactNow DEF TableShared
    <2> HIDE DEF D
    <2>2. {w \in D : qpRefs'[w] > 0} = {w \in D : qpRefs[w] > 0}
      BY <2>1, InUseShared
    <2> QED BY <2>2 DEF D
  <1>2. Cardinality({w \in Uses : qpRefs'[w] > 0}) = Cardinality({w \in Uses : qpRefs[w] > 0})
    BY <1>1
  <1> QED BY <1>2, ExactNow DEF TablePool, TableShared, FrameBuffers, Count

LEMMA TablePoolLeft ==
  ASSUME EncoderInv, conf' = conf, NEW S \in SUBSET Uses, TablesLeft(S), \A u \in S : qpRefs[u] > 0
  PROVE  TablePool'
  <1> DEFINE a == Cardinality({w \in Uses : qpRefs'[w] > 0})
             b == Cardinality({w \in Uses : qpRefs[w] > 0})
             c == Cardinality({u \in S : qpRefs[u] = 1})
  <1>1. a \in Nat /\ c \in Nat /\ a + c = b
    <2> DEFINE D == Uses
               f == qpRefs
               g == qpRefs'
    <2>1. /\ f \in [D -> Nat] /\ S \in SUBSET D /\ IsFiniteSet(D) /\ \A x \in S : f[x] > 0
          /\ \A x \in D : (x \in S => g[x] = f[x] - 1) /\ (x \notin S => g[x] = f[x])
      BY ExactNow, DomainsAreFinite DEF TablesLeft
    <2> HIDE DEF D, f, g
    <2>2. /\ Cardinality(InUse(D, g)) \in Nat /\ Cardinality(HeldOnce(S, f)) \in Nat
          /\ Cardinality(InUse(D, g)) + Cardinality(HeldOnce(S, f)) = Cardinality(InUse(D, f))
      BY <2>1, InUseLeft
    <2> QED BY <2>2 DEF D, f, g, InUse, HeldOnce
  <1>2. qpPool'.free = qpPool.free + c /\ qpPool.free + b = FrameBuffers(conf) /\ qpPool.free \in Nat
    BY ExactNow DEF TablesLeft, TablePool, Count
  <1>3. FrameBuffers(conf)' = FrameBuffers(conf)
    BY DEF FrameBuffers
  <1>4. TablePool' <=> qpPool'.free + a = FrameBuffers(conf)'
    BY DEF TablePool, Count
  <1> HIDE DEF a, b, c
  <1> QED BY <1>1, <1>2, <1>3, <1>4

LEMMA TablePoolTaken ==
  ASSUME EncoderInv, conf' = conf, NEW u \in Uses, TableTaken(u), qpRefs[u] = 0
  PROVE  TablePool'
  <1> DEFINE a == Cardinality({w \in Uses : qpRefs'[w] > 0})
             b == Cardinality({w \in Uses : qpRefs[w] > 0})
  <1>1. a = b + 1
    <2> DEFINE D == Uses
    <2>1. /\ qpRefs \in [D -> Nat] /\ u \in D /\ IsFiniteSet(D)
          /\ qpRefs' = [qpRefs EXCEPT ![u] = 1]
      BY ExactNow, DomainsAreFinite DEF TableTaken
    <2> HIDE DEF D
    <2>2. Cardinality({w \in D : qpRefs'[w] > 0}) = Cardinality({w \in D : qpRefs[w] > 0}) + 1
      BY <2>1, InUseTaken
    <2> QED BY <2>2 DEF D
  <1>2. b \in Nat
    BY DomainsAreFinite, FS_Subset, FS_CardinalityType
  <1>3. qpPool'.free = qpPool.free - 1 /\ qpPool.free + b = FrameBuffers(conf) /\ qpPool.free \in Nat
    BY ExactNow DEF TableTaken, TablePool, Count
  <1>4. FrameBuffers(conf)' = FrameBuffers(conf)
    BY DEF FrameBuffers
  <1>5. TablePool' <=> qpPool'.free + a = FrameBuffers(conf)'
    BY DEF TablePool, Count
  <1> HIDE DEF a, b
  <1> QED BY <1>1, <1>2, <1>3, <1>4, <1>5

LEMMA UsesAre ==
  /\ \A e \in Encoders, p \in Pictures : <<e, p>> \in Uses
  /\ \A u \in Uses : u[1] \in Encoders /\ u[2] \in Pictures /\ u = <<u[1], u[2]>>
  BY DEF Uses

\* Nobody has the QP table of a picture that is about to get one.
LEMMA TableFree ==
  ASSUME EncoderInv, NEW t \in Threads, NEW e \in Encoders, NEW p, Before(t, e), p = th[t].p,
         ~HasTable(t), NEW u, u = <<e, p>>
  PROVE  /\ u \in Uses /\ ~SentFor(u)
         /\ \A v \in Threads : ~TableAt(v, u)
         /\ \A f \in Encoders : ~TableDue(f, u)
  <1>0. /\ TypeOK /\ ThreadPlaces /\ Refusals /\ PicturesInOrder /\ SourcesHeld
        /\ Threads = {"main", "lookahead", "encoder"} /\ Encoders = {"lookahead", "encoder"}
    BY ThreadsAre DEF EncoderInv
  <1>1. p \in Pictures /\ p = Accepted(e) + 1 /\ ~enc[e].sourceSent[p] /\ Accepted(e) \in Nat
    BY <1>0, Fresh, NumbersAre
  <1>2. u \in Uses /\ u[1] = e /\ u[2] = p
    BY <1>1, UsesAre
  <1>3. ~SentFor(u)
    BY <1>1, <1>2 DEF SentFor
  <1>4. ASSUME NEW v \in Threads, TableAt(v, u) PROVE FALSE
    <2>1. HasTable(v) /\ th[v].e = e /\ th[v].p = p /\ v # t
      BY <1>4 DEF TableAt
    <2>2. v # "encoder" /\ t # "encoder"
      BY <1>0, <2>1, ThreadsAre DEF ThreadPlaces, HasTable, Before
    <2>3. \/ v = "main" /\ t = "lookahead"
          \/ v = "lookahead" /\ t = "main"
      BY <1>0, <2>1, <2>2
    <2>4. e = "encoder"
      <3>1. th["lookahead"].e = "encoder" /\ th[t].e = e
        BY <1>0 DEF ThreadPlaces, Before
      <3> QED BY <2>1, <2>3, <3>1
    <2>5. CASE th[v].pc = "encode"
      <3>1. BM /\ BL
        BY <2>1, <2>3, <2>4, <2>5 DEF BM, BL, Before
      <3> QED BY <3>1, OneFeeder
    <2>6. CASE th[v].pc = "dropTable"
      <3>1. p <= Accepted(e)
        BY <1>0, <2>1, <2>6 DEF PicturesInOrder
      <3> QED BY <1>1, <3>1
    <2>7. CASE th[v].pc = "thrown"
      <3>1. v = "main" /\ t = "lookahead"
        BY <1>0, <2>3, <2>7, ThreadsAre DEF ThreadPlaces
      <3>2. ~HasLookAhead
        BY <1>0, <2>7, <3>1 DEF Refusals
      <3>3. th["lookahead"].pc = "poll"
        BY <1>0, <3>2 DEF ThreadPlaces, Idle
      <3> QED BY <3>1, <3>3 DEF Before
    <2> QED BY <2>1, <2>5, <2>6, <2>7 DEF HasTable
  <1>5. ASSUME NEW f \in Encoders, TableDue(f, u) PROVE FALSE
    <2>1. f = e /\ th[e].st.pic = p /\ th[e].pc = "releaseTable"
      BY <1>5 DEF TableDue
    <2>2. InCallback(e)
      BY <2>1, CallsAre DEF CallPlaces
    <2>3. p <= Accepted(e)
      BY <1>1, <2>1, <2>2, HoldsNow DEF Holds, AcceptedOnly
    <2> QED BY <1>1, <2>3
  <1> QED BY <1>2, <1>3, <1>4, <1>5

LEMMA TablesTaken ==
  ASSUME EncoderInv, conf' = conf, NEW t \in Threads, TakesTable(t), TableTaken(Table(t)),
         NEW u, u = Table(t)
  PROVE  TablesExact' /\ TablePool'
  <1>1. /\ "main" \in Threads /\ "lookahead" \in Threads /\ "encoder" \in Threads
        /\ Encoders = {"lookahead", "encoder"} /\ Threads = {"main", "lookahead", "encoder"}
        /\ Moves(t, "table", "encode") /\ enc' = enc
    BY ThreadsAre DEF TakesTable, Same
  <1>2. th[t].e \in Encoders /\ Before(t, th[t].e) /\ ~HasTable(t)
    BY <1>1, ExactNow DEF TypeOK, ThreadStates, Moves, Before, HasTable
  <1>3. /\ u \in Uses /\ ~SentFor(u)
        /\ \A v \in Threads : ~TableAt(v, u)
        /\ \A f \in Encoders : ~TableDue(f, u)
    BY <1>2, TableFree DEF Table
  <1>4. qpRefs \in [Uses -> Nat] /\ qpRefs' = [qpRefs EXCEPT ![u] = 1]
    BY ExactNow DEF TableTaken
  <1>5. t # "encoder"
    BY <1>1, ExactNow, ThreadsAre DEF ThreadPlaces, Moves
  <1>6. ASSUME NEW w \in Uses
        PROVE  /\ \A v \in Threads : v # t => (TableAt(v, w)' <=> TableAt(v, w))
               /\ TableAt(t, w)' <=> w = u
               /\ ~TableAt(t, w)
               /\ TableDue("lookahead", w)' <=> TableDue("lookahead", w)
               /\ TableDue("encoder", w)' <=> TableDue("encoder", w)
               /\ SentFor(w)' <=> SentFor(w)
    <2>1. \A v \in Threads : v # t => (TableAt(v, w)' <=> TableAt(v, w))
      BY <1>1, AtMoves
    <2>2. (TableAt(t, w)' <=> w = u) /\ ~TableAt(t, w)
      BY <1>1, AtMoves DEF TablePlaces
    <2>3. \A v \in Threads : TableDue(v, w)' <=> TableDue(v, w)
      BY <1>1, AtMoves
    <2>4. SentFor(w)' <=> SentFor(w)
      BY <1>1, SentForStays DEF SameSources
    <2> QED BY <1>1, <2>1, <2>2, <2>3, <2>4
  <1>7. ASSUME NEW w \in Uses PROVE qpRefs'[w] = TableHolders(w)'
    <2>0. qpRefs[w] = TableHolders(w)
      BY ExactNow DEF TablesExact
    <2>1. CASE w # u
      <3>1. TableStays(w)
        BY <1>1, <1>6, <2>1 DEF TableStays
      <3> QED BY <1>4, <2>0, <2>1, <3>1, TableStaysIs
    <2>2. CASE w = u
      <3>1. TableHolders(w)' = 1
        BY <1>1, <1>3, <1>5, <1>6, <2>2, ThreadsAre DEF TableHolders, One
      <3> QED BY <1>3, <1>4, <2>2, <3>1
    <2> QED BY <2>1, <2>2
  <1>8. TablePool'
    <2>1. qpRefs[u] = 0
      <3>1. qpRefs[u] = TableHolders(u)
        BY <1>3, ExactNow DEF TablesExact
      <3> QED BY <1>1, <1>3, <3>1 DEF TableHolders, One
    <2> QED BY <1>3, <2>1, TablePoolTaken
  <1> QED BY <1>7, <1>8 DEF TablesExact

LEMMA TablesEncode ==
  ASSUME EncoderInv, conf' = conf, NEW t \in Threads, EncodeStep(t), TableShared(Table(t)),
         NEW e, NEW p, e = th[t].e, p = th[t].p, NEW u, u = <<e, p>>
  PROVE  TablesExact' /\ TablePool'
  <1>1. /\ e \in Encoders /\ p \in Pictures /\ Others(e)
        /\ enc'[e].sourceSent = [enc[e].sourceSent EXCEPT ![p] = TRUE] /\ ~enc[e].sourceSent[p]
        /\ Moves(t, "encode", "dropTable") /\ enc[e].sourceSent \in [Pictures -> BOOLEAN]
    BY EncodeFacts, HoldsNow DEF EncodeStep
  <1>2. "main" \in Threads /\ "lookahead" \in Threads /\ "encoder" \in Threads
    BY ThreadsAre
  <1>3. u \in Uses /\ u = Table(t) /\ u[1] = e /\ u[2] = p
    BY <1>1, UsesAre DEF Table
  <1>4. qpRefs \in [Uses -> Nat] /\ qpRefs' = [qpRefs EXCEPT ![u] = @ + 1]
    BY <1>3, ExactNow DEF TableShared
  <1>5. ASSUME NEW w \in Uses
        PROVE  /\ TableAt("main", w)' <=> TableAt("main", w)
               /\ TableAt("lookahead", w)' <=> TableAt("lookahead", w)
               /\ TableDue("lookahead", w)' <=> TableDue("lookahead", w)
               /\ TableDue("encoder", w)' <=> TableDue("encoder", w)
    <2>1. \A v \in Threads : (TableAt(v, w)' <=> TableAt(v, w)) /\ (TableDue(v, w)' <=> TableDue(v, w))
      BY <1>1, AtMoves DEF TablePlaces
    <2> QED BY <1>2, <2>1
  <1>6. ASSUME NEW w \in Uses, w # u PROVE SentFor(w)' <=> SentFor(w)
    <2>1. w[1] \in Encoders /\ w[2] \in Pictures /\ w = <<w[1], w[2]>>
      BY UsesAre
    <2>2. CASE w[1] = e
      <3>1. w[2] # p
        BY <1>6, <2>1, <2>2
      <3> QED BY <1>1, <2>1, <2>2, <3>1 DEF SentFor
    <2>3. CASE w[1] # e
      BY <1>1, <2>1, <2>3 DEF SentFor, Others
    <2> QED BY <2>2, <2>3
  <1>7. ~SentFor(u) /\ SentFor(u)'
    BY <1>1, <1>3 DEF SentFor
  <1>8. ASSUME NEW w \in Uses PROVE qpRefs'[w] = TableHolders(w)'
    <2>0. qpRefs[w] = TableHolders(w)
      BY ExactNow DEF TablesExact
    <2>1. CASE w # u
      <3>1. TableStays(w)
        BY <1>5, <1>6, <2>1 DEF TableStays
      <3> QED BY <1>4, <2>0, <2>1, <3>1, TableStaysIs
    <2>2. CASE w = u
      <3>1. TableHolders(w)' = TableHolders(w) + 1
        BY <1>5, <1>7, <2>2 DEF TableHolders, One
      <3> QED BY <1>3, <1>4, <2>0, <2>2, <3>1
    <2> QED BY <2>1, <2>2
  <1>9. TablePool'
    <2>1. TableAt(t, u)
      BY <1>1, <1>3, AtMoves DEF TablePlaces
    <2>2. qpRefs[u] > 0
      BY <1>3, <2>1, TableIsHeld
    <2> QED BY <1>3, <2>2, TablePoolShared
  <1> QED BY <1>8, <1>9 DEF TablesExact

LEMMA TablesLeave ==
  ASSUME EncoderInv, conf' = conf, NEW t \in Threads, Leaves(t), TablesLeft({Table(t)}),
         NEW u, u = Table(t)
  PROVE  TablesExact' /\ TablePool'
  <1>1. /\ \A e \in Encoders : SameSources(enc[e], enc'[e])
        /\ \E x \in {"dropTable", "thrown"} :
              \E y : y \notin TablePlaces \cup {"releaseTable"} /\ Moves(t, x, y)
    BY DEF Leaves, Same, SameSources, Return, FirstStop, TablePlaces
  <1>9. PICK x \in {"dropTable", "thrown"} : \E y : y \notin TablePlaces \cup {"releaseTable"} /\ Moves(t, x, y)
    BY <1>1
  <1>2. PICK y : y \notin TablePlaces \cup {"releaseTable"} /\ Moves(t, x, y)
    BY <1>9
  <1>3. /\ "main" \in Threads /\ "lookahead" \in Threads /\ "encoder" \in Threads
        /\ Threads = {"main", "lookahead", "encoder"}
    BY ThreadsAre
  <1>4. x \in TablePlaces /\ x # "releaseTable"
    BY <1>2 DEF TablePlaces
  <1>5. u \in Uses /\ TableAt(t, u) /\ t # "encoder"
    <2>1. Passing(t) /\ HasTable(t)
      BY <1>2 DEF Moves, Passing, HasTable
    <2>2. th[t].p \in Pictures /\ th[t].e \in Encoders /\ t # "encoder"
      BY <2>1, ExactNow, ThreadsAre DEF ThreadPlaces, TypeOK, ThreadStates, Passing
    <2> QED BY <2>1, <2>2, UsesAre DEF Table, TableAt
  <1>6. qpRefs \in [Uses -> Nat] /\ qpRefs' = [w \in Uses |-> qpRefs[w] - (IF w \in {u} THEN 1 ELSE 0)]
    BY ExactNow DEF TablesLeft
  <1>7. ASSUME NEW w \in Uses PROVE qpRefs'[w] = TableHolders(w)'
    <2>0. qpRefs[w] = TableHolders(w) /\ qpRefs[w] \in Nat
      BY <1>6, ExactNow DEF TablesExact
    <2>1. /\ SentFor(w)' <=> SentFor(w)
          /\ \A v \in Threads : TableDue(v, w)' <=> TableDue(v, w)
          /\ \A v \in Threads : v # t => (TableAt(v, w)' <=> TableAt(v, w))
          /\ ~TableAt(t, w)'
      BY <1>1, <1>2, <1>4, AtMoves, SentForStays
    <2>3. CASE w # u
      <3>1. ~TableAt(t, w)
        BY <1>2, <2>3, AtMoves
      <3>2. TableStays(w)
        BY <1>3, <2>1, <3>1 DEF TableStays
      <3> QED BY <1>6, <2>0, <2>3, <3>2, TableStaysIs
    <2>4. CASE w = u
      <3>2. TableHolders(w)' = TableHolders(w) - 1
        BY <1>3, <1>5, <2>1, <2>4, ThreadsAre DEF TableHolders, One
      <3> QED BY <1>6, <2>0, <2>4, <3>2
    <2> QED BY <2>3, <2>4
  <1>8. TablePool'
    <2>1. qpRefs[u] > 0
      BY <1>5, TableIsHeld
    <2> QED BY <1>5, <2>1, TablePoolLeft
  <1> QED BY <1>7, <1>8 DEF TablesExact

\* The QP table of a finished picture stays with the thread that gave its source back.
LEMMA TablesBack ==
  ASSUME EncoderInv, conf' = conf, NEW e \in Used, BackStep(e), TablesAlone,
         NEW p, p = th[e].st.pic, NEW u, u = <<e, p>>
  PROVE  TablesExact' /\ TablePool'
  <1>1. /\ e \in Encoders /\ e \in Threads /\ TypeOK /\ SourcesHeld
        /\ "main" \in Threads /\ "lookahead" \in Threads /\ "encoder" \in Threads
        /\ Encoders = {"lookahead", "encoder"}
    BY ThreadsAre, UsedAre DEF EncoderInv
  <1>2. /\ p \in Pictures /\ Others(e) /\ Moves(e, "release", "releaseTable")
        /\ enc'[e].sourceSent = [enc[e].sourceSent EXCEPT ![p] = FALSE] /\ enc[e].sourceSent[p]
        /\ enc[e].sourceSent \in [Pictures -> BOOLEAN]
    BY <1>1, BackFacts, BackSent, HoldsNow DEF BackStep
  <1>3. u \in Uses /\ u[1] = e /\ u[2] = p
    BY <1>1, <1>2, UsesAre
  <1>4. ASSUME NEW w \in Uses
        PROVE  /\ TableAt("main", w)' <=> TableAt("main", w)
               /\ TableAt("lookahead", w)' <=> TableAt("lookahead", w)
               /\ \A v \in Threads : v # e => (TableDue(v, w)' <=> TableDue(v, w))
               /\ ~TableDue(e, w) /\ (TableDue(e, w)' <=> w = u)
    <2>4. ~TableAt(e, w)' /\ ~TableAt(e, w)
      BY <1>1, <1>2, AtMoves DEF TablePlaces
    <2>5. \A v \in Threads : v # e => (TableAt(v, w)' <=> TableAt(v, w))
      BY <1>1, <1>2, AtMoves
    <2>1. \A v \in Threads : TableAt(v, w)' <=> TableAt(v, w)
      BY <2>4, <2>5
    <2>2. \A v \in Threads : v # e => (TableDue(v, w)' <=> TableDue(v, w))
      BY <1>1, <1>2, AtMoves
    <2>3. ~TableDue(e, w) /\ (TableDue(e, w)' <=> w = u)
      BY <1>1, <1>2, AtMoves
    <2> QED BY <1>1, <2>1, <2>2, <2>3
  <1>6. ASSUME NEW w \in Uses, w # u PROVE SentFor(w)' <=> SentFor(w)
    <2>1. w[1] \in Encoders /\ w[2] \in Pictures /\ w = <<w[1], w[2]>>
      BY UsesAre
    <2>2. CASE w[1] = e
      <3>1. w[2] # p
        BY <1>6, <2>1, <2>2
      <3> QED BY <1>2, <2>1, <2>2, <3>1 DEF SentFor
    <2>3. CASE w[1] # e
      BY <1>2, <2>1, <2>3 DEF SentFor, Others
    <2> QED BY <2>2, <2>3
  <1>7. SentFor(u) /\ ~SentFor(u)'
    BY <1>2, <1>3 DEF SentFor
  <1>8. ASSUME NEW w \in Uses PROVE qpRefs'[w] = TableHolders(w)'
    <2>0. qpRefs[w] = TableHolders(w) /\ qpRefs' = qpRefs
      BY ExactNow DEF TablesExact, TablesAlone
    <2>1. CASE w # u
      <3>1. TableStays(w)
        BY <1>1, <1>4, <1>6, <2>1 DEF TableStays
      <3> QED BY <2>0, <2>1, <3>1, TableStaysIs
    <2>2. CASE w = u
      <3>1. /\ TableAt("main", w)' <=> TableAt("main", w)
            /\ TableAt("lookahead", w)' <=> TableAt("lookahead", w)
            /\ SentFor(w) /\ ~SentFor(w)'
            /\ ~TableDue(e, w) /\ TableDue(e, w)'
            /\ \A v \in Threads : v # e => (TableDue(v, w)' <=> TableDue(v, w))
        BY <1>4, <1>7, <2>2
      <3>2. TableHolders(w)' = TableHolders(w)
        BY <1>1, <3>1, ThreadsAre DEF TableHolders, One
      <3> QED BY <2>0, <3>2
    <2> QED BY <2>1, <2>2
  <1>9. TablePool'
    BY ExactNow DEF TablePool, TablesAlone, FrameBuffers, Count
  <1> QED BY <1>8, <1>9 DEF TablesExact

LEMMA TablesGiven ==
  ASSUME EncoderInv, conf' = conf, NEW e \in Used, Moves(e, "releaseTable", "done") /\ Same,
         TablesLeft({<<e, th[e].st.pic>>}), NEW u, u = <<e, th[e].st.pic>>
  PROVE  TablesExact' /\ TablePool'
  <1>1. /\ e \in Encoders /\ e \in Threads /\ TypeOK /\ enc' = enc
        /\ "main" \in Threads /\ "lookahead" \in Threads /\ "encoder" \in Threads
        /\ Encoders = {"lookahead", "encoder"}
    BY ThreadsAre, UsedAre DEF EncoderInv, Same
  <1>2. u \in Uses
    <2>1. InCallback(e)
      BY CallsAre DEF CallPlaces, Moves
    <2>2. th[e].st.pic \in 1 .. Accepted(e) /\ th[e].st.pic \in Pictures \cup {0}
      BY <1>1, <2>1, HoldsNow DEF Holds, AcceptedOnly
    <2>3. Accepted(e) \in Nat
      BY <1>1, NumbersAre
    <2>4. th[e].st.pic # 0
      BY <2>2, <2>3
    <2> QED BY <1>1, <2>2, <2>4, UsesAre
  <1>3. ASSUME NEW w \in Uses
        PROVE  /\ TableAt("main", w)' <=> TableAt("main", w)
               /\ TableAt("lookahead", w)' <=> TableAt("lookahead", w)
               /\ \A v \in Threads : v # e => (TableDue(v, w)' <=> TableDue(v, w))
               /\ ~TableDue(e, w)' /\ (TableDue(e, w) <=> w = u)
               /\ SentFor(w)' <=> SentFor(w)
    <2>1. \A v \in Threads : TableAt(v, w)' <=> TableAt(v, w)
      BY <1>1, AtMoves DEF TablePlaces
    <2>2. \A v \in Threads : v # e => (TableDue(v, w)' <=> TableDue(v, w))
      BY <1>1, AtMoves
    <2>3. ~TableDue(e, w)' /\ (TableDue(e, w) <=> w = u)
      BY <1>1, AtMoves
    <2>4. SentFor(w)' <=> SentFor(w)
      BY <1>1, SentForStays DEF SameSources
    <2> QED BY <1>1, <2>1, <2>2, <2>3, <2>4
  <1>6. qpRefs \in [Uses -> Nat] /\ qpRefs' = [w \in Uses |-> qpRefs[w] - (IF w \in {u} THEN 1 ELSE 0)]
    BY ExactNow DEF TablesLeft
  <1>7. ASSUME NEW w \in Uses PROVE qpRefs'[w] = TableHolders(w)'
    <2>0. qpRefs[w] = TableHolders(w) /\ qpRefs[w] \in Nat
      BY <1>6, ExactNow DEF TablesExact
    <2>3. CASE w # u
      <3>2. TableStays(w)
        BY <1>1, <1>3, <2>3 DEF TableStays
      <3> QED BY <1>6, <2>0, <2>3, <3>2, TableStaysIs
    <2>4. CASE w = u
      <3>2. TableHolders(w)' = TableHolders(w) - 1
        BY <1>1, <1>3, <2>4, ThreadsAre DEF TableHolders, One
      <3> QED BY <1>6, <2>0, <2>4, <3>2
    <2> QED BY <2>3, <2>4
  <1>8. TablePool'
    <2>1. qpRefs[u] > 0
      BY <1>1, <1>2, <1>3, TableIsHeld
    <2> QED BY <1>2, <2>1, TablePoolLeft
  <1> QED BY <1>7, <1>8 DEF TablesExact

LEMMA TablesReleased ==
  ASSUME EncoderInv, conf' = conf, NEW e \in Encoders, ReleaseStep(e), NEW S,
         S = {e} \X SourcesSent(enc[e]), TablesLeft({e} \X SourcesSent(enc[e]))
  PROVE  TablesExact' /\ TablePool'
  <1>1. /\ TypeOK /\ "main" \in Threads /\ "lookahead" \in Threads /\ "encoder" \in Threads
    BY ThreadsAre DEF EncoderInv
  <1>2. /\ Others(e) /\ Moves("main", Ways(e).c, Ways(e).d)
        /\ enc'[e].sourceSent = [p \in Pictures |-> FALSE] /\ S \in SUBSET Uses
        /\ \A w \in Uses : w \in S <=> w[1] = e /\ SentFor(w)
    <2>1. S \in SUBSET Uses
      BY UsesAre DEF SourcesSent
    <2>2. ASSUME NEW w \in Uses PROVE w \in S <=> w[1] = e /\ SentFor(w)
      BY UsesAre DEF SourcesSent, SentFor
    <2> QED BY <1>1, <2>1, <2>2, ReleaseFacts DEF ReleaseStep
  <1>3. qpRefs \in [Uses -> Nat] /\ qpRefs' = [w \in Uses |-> qpRefs[w] - (IF w \in S THEN 1 ELSE 0)]
    BY ExactNow DEF TablesLeft
  <1>4. /\ Ways(e).c \notin TablePlaces /\ Ways(e).d \notin TablePlaces
        /\ Ways(e).c # "releaseTable" /\ Ways(e).d # "releaseTable"
    BY ThreadsAre, WaysAre DEF TablePlaces
  <1>5. ASSUME NEW w \in Uses PROVE qpRefs'[w] = TableHolders(w)'
    <2>0. qpRefs[w] = TableHolders(w) /\ qpRefs[w] \in Nat
      BY <1>3, ExactNow DEF TablesExact
    <2>1. \A v \in Threads : (TableAt(v, w)' <=> TableAt(v, w)) /\ (TableDue(v, w)' <=> TableDue(v, w))
      BY <1>1, <1>2, <1>4, AtMoves
    <2>2. w[1] \in Encoders /\ w[2] \in Pictures
      BY UsesAre
    <2>3. w[1] # e => (SentFor(w)' <=> SentFor(w))
      BY <1>2, <2>2 DEF SentFor, Others
    <2>4. w[1] = e => ~SentFor(w)'
      BY <1>2, <2>2 DEF SentFor
    <2>5. CASE w \notin S
      <3>1. SentFor(w)' <=> SentFor(w)
        BY <1>2, <2>3, <2>4, <2>5
      <3>2. TableStays(w)
        BY <1>1, <2>1, <3>1 DEF TableStays
      <3> QED BY <1>3, <2>0, <2>5, <3>2, TableStaysIs
    <2>6. CASE w \in S
      <3>1. SentFor(w) /\ ~SentFor(w)'
        BY <1>2, <2>4, <2>6
      <3>4. TableHolders(w)' = TableHolders(w) - 1
        BY <1>1, <2>1, <3>1 DEF TableHolders, One
      <3> QED BY <1>3, <2>0, <2>6, <3>4
    <2> QED BY <2>5, <2>6
  <1>6. TablePool'
    <2>1. \A w \in S : qpRefs[w] > 0
      BY <1>2, TableIsHeld
    <2> QED BY <1>2, <2>1, TablePoolLeft
  <1> QED BY <1>5, <1>6 DEF TablesExact

LEMMA TablesExactKept ==
  ASSUME EncoderInv, conf' = conf, Acts
  PROVE  TablesExact' /\ TablePool'
  <1>1. CASE Undisturbed /\ AllAlone
    BY <1>1, TablesCalm DEF AllAlone
  <1>2. ASSUME NEW t \in Threads,
               \/ TakesTable(t) /\ SourcesAlone /\ TableTaken(Table(t)) /\ StreamsAlone
               \/ EncodeStep(t) /\ SourceShared(th[t].p) /\ TableShared(Table(t)) /\ StreamsAlone
               \/ Leaves(t) /\ SourcesLeft({th[t].p}) /\ TablesLeft({Table(t)}) /\ StreamsAlone
        PROVE  TablesExact' /\ TablePool'
    <2>1. CASE TakesTable(t) /\ TableTaken(Table(t))
      BY <2>1, TablesTaken
    <2>2. CASE EncodeStep(t) /\ TableShared(Table(t))
      BY <2>2, TablesEncode
    <2>3. CASE Leaves(t) /\ TablesLeft({Table(t)})
      BY <2>3, TablesLeave
    <2> QED BY <1>2, <2>1, <2>2, <2>3
  <1>3. CASE SourceStep /\ TablesAlone
    BY <1>3, TablesCalm
  <1>4. CASE FifoStep /\ AllAlone
    BY <1>4, TablesCalm DEF AllAlone
  <1>5. CASE (KeepStep \/ PassStep) /\ TablesAlone
    BY <1>5, TablesCalm
  <1>6. ASSUME NEW e \in Used,
               \/ Slices(e) /\ AllAlone
               \/ PutStep(e) /\ SourcesAlone /\ TablesAlone
                     /\ StreamShared(enc[e].streamSent[th[e].st.stream])
               \/ BackStep(e) /\ SourcesLeft({th[e].st.pic}) /\ TablesAlone /\ StreamsAlone
               \/ Moves(e, "releaseTable", "done") /\ Same /\ SourcesAlone
                     /\ TablesLeft({<<e, th[e].st.pic>>}) /\ StreamsAlone
               \/ Moves(e, "unref", "poll") /\ Same /\ SourcesAlone /\ TablesAlone
                     /\ StreamLeft(enc[e].streamSent[th[e].st.stream])
        PROVE  TablesExact' /\ TablePool'
    <2>1. CASE BackStep(e) /\ TablesAlone
      BY <2>1, TablesBack
    <2>2. CASE Moves(e, "releaseTable", "done") /\ Same /\ TablesLeft({<<e, th[e].st.pic>>})
      BY <2>2, TablesGiven
    <2>3. CASE \/ Slices(e) /\ AllAlone
               \/ PutStep(e) /\ TablesAlone
               \/ Moves(e, "unref", "poll") /\ Same /\ TablesAlone
      BY <2>3, TablesCalm DEF AllAlone
    <2> QED BY <1>6, <2>1, <2>2, <2>3
  <1>7. ASSUME NEW e \in Encoders,
               ReleaseStep(e) /\ TablesLeft({e} \X SourcesSent(enc[e]))
        PROVE  TablesExact' /\ TablePool'
    BY <1>7, TablesReleased
  <1> QED BY <1>1, <1>2, <1>3, <1>4, <1>5, <1>6, <1>7 DEF Acts

-----------------------------------------------------------------------------
(* The references of the streams *)

LEMMA StreamStaysIs ==
  ASSUME NEW s \in Streams, StreamStays(s)
  PROVE  StreamHolders(s)' = StreamHolders(s)
  BY ThreadsAre DEF StreamStays, StreamHolders, One

LEMMA StreamsSame ==
  ASSUME EncoderInv, StreamsAlone, \A s \in Streams : StreamStays(s)
  PROVE  StreamsExact'
  <1>1. ASSUME NEW s \in Streams PROVE strRefs'[s] = StreamHolders(s)'
    <2>1. strRefs'[s] = strRefs[s] /\ strRefs[s] = StreamHolders(s)
      BY ExactNow DEF StreamsAlone, StreamsExact
    <2> QED BY <2>1, StreamStaysIs
  <1> QED BY <1>1 DEF StreamsExact

LEMMA QueuedStays ==
  ASSUME EncoderInv, Steps, conf' = conf, NEW e \in Encoders, SameRing(enc[e], enc'[e]), NEW s
  PROVE  Queued(e, s)' <=> Queued(e, s)
  <1>1. CASE ~ReleaseStep(e)
    <2>1. Released(e)' <=> Released(e)
      BY <1>1, ReleasedKept
    <2> QED BY <2>1 DEF SameRing, Queued
  <1>2. CASE ReleaseStep(e)
    <2>1. ~Queued(e, s)'
      BY <1>2, ReleasedKept DEF Queued
    <2>2. CASE Released(e)
      BY <2>1, <2>2 DEF Queued
    <2>3. CASE ~Released(e)
      <3> DEFINE o == enc[e].curStreamRecv
                 n == Len(enc[e].streams)
      <3>1. enc[e].curStreamSent = o /\ enc[e].curStreamSent = (o + n) % MaxStream
        <4>1. enc'[e].curStreamRecv = enc[e].curStreamSent /\ enc'[e].curStreamRecv = o
          BY <1>2, RingNow, ReleaseFacts DEF SameRing
        <4>2. enc[e].curStreamSent = Slot(e, n)
          BY <2>3, RingNow DEF RingOf
        <4> QED BY <4>1, <4>2 DEF Slot
      <3>2. n \in Nat /\ n + One(BeforePut(e)) = StreamsOf(e) /\ StreamsOf(e) < MaxStream
            /\ o \in 0 .. MaxStream - 1 /\ MaxStream \in Nat /\ MaxStream > 0 /\ StreamsOf(e) \in Nat
        BY <2>3, RingNow, Sizes DEF RingOf
      <3>3. One(BeforePut(e)) \in {0, 1}
        BY DEF One
      <3> HIDE DEF o, n
      <3>4. n \in 0 .. MaxStream - 1 /\ 0 \in 0 .. MaxStream - 1
        BY <3>2, <3>3
      <3>5. (o + 0) % MaxStream = o
        BY <3>2
      <3>6. n = 0
        BY <3>1, <3>2, <3>4, <3>5, SlotsDiffer
      <3> QED BY <2>1, <3>6 DEF Queued, n
    <2> QED BY <2>2, <2>3
  <1> QED BY <1>1, <1>2

LEMMA WrittenStays ==
  ASSUME NEW e \in Encoders, SameRing(enc[e], enc'[e]), NEW s,
         InCallback(e)' <=> InCallback(e), th'[e].st = th[e].st
  PROVE  Written(e, s)' <=> Written(e, s)
  BY DEF SameRing, Written

\* A step about one encoder leaves the streams of the other alone.
LEMMA OtherEncoder ==
  ASSUME EncoderInv, Steps, conf' = conf, NEW e \in Encoders, NEW f \in Encoders, f # e,
         enc'[f] = enc[f], th'[f] = th[f], NEW s
  PROVE  (Queued(f, s)' <=> Queued(f, s)) /\ (Written(f, s)' <=> Written(f, s))
  <1>1. SameRing(enc[f], enc'[f])
    BY DEF SameRing
  <1>2. InCallback(f)' <=> InCallback(f)
    BY CallsAre, CallsThen
  <1> QED BY <1>1, <1>2, QueuedStays, WrittenStays

\* Steps that leave the rings alone, and each thread with the stream it writes.
LEMMA StreamsByRing ==
  ASSUME EncoderInv, Steps, conf' = conf, StreamsAlone,
         \A e \in Encoders : SameRing(enc[e], enc'[e]),
         \A e \in Encoders : (InCallback(e)' <=> InCallback(e)) /\ th'[e].st = th[e].st
  PROVE  StreamsExact'
  <1>1. ASSUME NEW s \in Streams PROVE StreamStays(s)
    BY QueuedStays, WrittenStays DEF StreamStays
  <1> QED BY <1>1, StreamsSame

LEMMA CallKept ==
  ASSUME NEW t \in Threads, NEW x, NEW y, Moves(t, x, y), t \in Encoders => (x \in CallPlaces <=> y \in CallPlaces)
  PROVE  \A e \in Encoders : (InCallback(e)' <=> InCallback(e)) /\ th'[e].st = th[e].st
  <1> SUFFICES ASSUME NEW e \in Encoders
               PROVE  (InCallback(e)' <=> InCallback(e)) /\ th'[e].st = th[e].st
    OBVIOUS
  <1>1. CASE e = t
    BY <1>1, CallsAre, CallsThen DEF Moves, SameWork
  <1>2. CASE e # t
    <2>1. th'[e] = th[e]
      BY <1>2, ThreadsAre DEF Moves, Only
    <2> QED BY <2>1, CallsAre, CallsThen
  <1> QED BY <1>1, <1>2

LEMMA StreamsCalm ==
  ASSUME EncoderInv, Steps, conf' = conf, StreamsAlone,
         \/ Undisturbed \/ SourceStep \/ FifoStep \/ KeepStep \/ PassStep
         \/ \E t \in Threads : TakesTable(t) \/ EncodeStep(t) \/ Leaves(t)
         \/ \E e \in Used : BackStep(e) \/ (Moves(e, "releaseTable", "done") /\ Same)
  PROVE  StreamsExact'
  <1>0. /\ TypeOK /\ SourcesHeld /\ RingOfStreams /\ ThreadPlaces /\ "main" \in Threads /\ "main" \notin Encoders
        /\ "lookahead" \in Threads /\ "lookahead" \in Encoders
        /\ Threads = {"main"} \cup Encoders
    BY ThreadsAre DEF EncoderInv, Threads
  <1>1. CASE Undisturbed
    <2>1. \A e \in Encoders : SameRing(enc[e], enc'[e])
      BY <1>1 DEF Undisturbed, SameHolds
    <2>2. \A e \in Encoders : (InCallback(e)' <=> InCallback(e)) /\ th'[e].st = th[e].st
      BY <1>0, <1>1 DEF Undisturbed, SameHands, SameWork
    <2> QED BY <2>1, <2>2, StreamsByRing
  <1>2. enc' = enc => \A e \in Encoders : SameRing(enc[e], enc'[e])
    BY DEF SameRing
  <1>3. CASE SourceStep \/ FifoStep
    <2>1. enc' = enc /\ Only("main")
      BY <1>3 DEF SourceStep, FifoStep
    <2>2. \A e \in Encoders : (InCallback(e)' <=> InCallback(e)) /\ th'[e].st = th[e].st
      BY <1>0, <2>1, CallsAre, CallsThen DEF Only
    <2> QED BY <1>2, <2>1, <2>2, StreamsByRing
  <1>4. CASE KeepStep \/ PassStep
    <2>1. /\ enc' = enc /\ Only("lookahead") /\ th'["lookahead"].st = th["lookahead"].st
          /\ th["lookahead"].pc \in CallPlaces /\ th'["lookahead"].pc \in CallPlaces
      BY <1>4 DEF KeepStep, PassStep, Moves, SameWork, CallPlaces, PutPlaces
    <2>2. \A e \in Encoders : (InCallback(e)' <=> InCallback(e)) /\ th'[e].st = th[e].st
      <3> SUFFICES ASSUME NEW e \in Encoders
                   PROVE  (InCallback(e)' <=> InCallback(e)) /\ th'[e].st = th[e].st
        OBVIOUS
      <3>1. CASE e = "lookahead"
        BY <2>1, <3>1, CallsAre, CallsThen
      <3>2. CASE e # "lookahead"
        <4>1. th'[e] = th[e]
          BY <1>0, <2>1, <3>2 DEF Only
        <4> QED BY <4>1, CallsAre, CallsThen
      <3> QED BY <3>1, <3>2
    <2> QED BY <1>2, <2>1, <2>2, StreamsByRing
  <1>5. ASSUME NEW t \in Threads, TakesTable(t) PROVE StreamsExact'
    <2>1. enc' = enc /\ Moves(t, "table", "encode")
      BY <1>5 DEF TakesTable, Same
    <2>2. \A e \in Encoders : (InCallback(e)' <=> InCallback(e)) /\ th'[e].st = th[e].st
      BY <2>1, CallKept DEF CallPlaces, PutPlaces
    <2> QED BY <1>2, <2>1, <2>2, StreamsByRing
  <1>6. ASSUME NEW t \in Threads, EncodeStep(t) PROVE StreamsExact'
    <2>1. Moves(t, "encode", "dropTable")
      BY <1>6 DEF EncodeStep
    <2>2. \A e \in Encoders : (InCallback(e)' <=> InCallback(e)) /\ th'[e].st = th[e].st
      BY <2>1, CallKept DEF CallPlaces, PutPlaces
    <2>3. \A e \in Encoders : SameRing(enc[e], enc'[e])
      BY <1>6, EncodeFacts DEF Others, SameRing
    <2> QED BY <2>2, <2>3, StreamsByRing
  <1>7. ASSUME NEW t \in Threads, Leaves(t) PROVE StreamsExact'
    <2>1. enc' = enc
      BY <1>7 DEF Leaves, Same
    <2>2. \A e \in Encoders : (InCallback(e)' <=> InCallback(e)) /\ th'[e].st = th[e].st
      <3>1. CASE Moves(t, "dropTable", Return(t))
        <4>1. t \in Encoders => Return(t) \in CallPlaces /\ "dropTable" \in CallPlaces
          BY <1>0 DEF Return, CallPlaces, PutPlaces
        <4> HIDE DEF Return
        <4> QED BY <3>1, <4>1, CallKept
      <3>2. CASE t = "main" /\ Moves(t, "thrown", FirstStop)
        BY <1>0, <3>2, CallKept
      <3> QED BY <1>7, <3>1, <3>2 DEF Leaves
    <2> QED BY <1>2, <2>1, <2>2, StreamsByRing
  <1>8. ASSUME NEW e \in Used, BackStep(e) PROVE StreamsExact'
    <2>1. Moves(e, "release", "releaseTable") /\ e \in Threads /\ e \in Encoders
      BY <1>8, UsedAre, ThreadsAre DEF BackStep
    <2>2. \A f \in Encoders : (InCallback(f)' <=> InCallback(f)) /\ th'[f].st = th[f].st
      BY <2>1, CallKept DEF CallPlaces, PutPlaces
    <2>3. \A f \in Encoders : SameRing(enc[f], enc'[f])
      BY <1>0, <1>8, <2>1, BackFacts DEF Others, SameRing
    <2> QED BY <2>2, <2>3, StreamsByRing
  <1>9. ASSUME NEW e \in Used, Moves(e, "releaseTable", "done") /\ Same PROVE StreamsExact'
    <2>1. e \in Threads /\ e \in Encoders /\ enc' = enc
      BY <1>9, UsedAre, ThreadsAre DEF Same
    <2>2. \A f \in Encoders : (InCallback(f)' <=> InCallback(f)) /\ th'[f].st = th[f].st
      BY <1>9, <2>1, CallKept DEF CallPlaces, PutPlaces
    <2> QED BY <1>2, <2>1, <2>2, StreamsByRing
  <1> QED BY <1>1, <1>3, <1>4, <1>5, <1>6, <1>7, <1>8, <1>9

\* The holders of a stream, when only those on one encoder's side change.
LEMMA StreamChanges ==
  ASSUME NEW s, NEW e \in Encoders,
         \A f \in Encoders : f # e => (Queued(f, s)' <=> Queued(f, s)) /\ (Written(f, s)' <=> Written(f, s))
  PROVE  \E k \in {0, 1, 2} : /\ StreamHolders(s) = k + One(Queued(e, s)) + One(Written(e, s))
                             /\ StreamHolders(s)' = k + One(Queued(e, s)') + One(Written(e, s)')
  <1>1. CASE e = "lookahead"
    <2> DEFINE k == One(Queued("encoder", s)) + One(Written("encoder", s))
    <2>1. k \in {0, 1, 2}
      BY DEF One
    <2>2. (Queued("encoder", s)' <=> Queued("encoder", s)) /\ (Written("encoder", s)' <=> Written("encoder", s))
      BY <1>1, ThreadsAre
    <2>3. StreamHolders(s) = k + One(Queued(e, s)) + One(Written(e, s))
      BY <1>1 DEF StreamHolders, One
    <2>4. StreamHolders(s)' = k + One(Queued(e, s)') + One(Written(e, s)')
      BY <1>1, <2>2 DEF StreamHolders, One
    <2> HIDE DEF k
    <2> QED BY <2>1, <2>3, <2>4
  <1>2. CASE e = "encoder"
    <2> DEFINE k == One(Queued("lookahead", s)) + One(Written("lookahead", s))
    <2>1. k \in {0, 1, 2}
      BY DEF One
    <2>2. (Queued("lookahead", s)' <=> Queued("lookahead", s)) /\ (Written("lookahead", s)' <=> Written("lookahead", s))
      BY <1>2, ThreadsAre
    <2>3. StreamHolders(s) = k + One(Queued(e, s)) + One(Written(e, s))
      BY <1>2 DEF StreamHolders, One
    <2>4. StreamHolders(s)' = k + One(Queued(e, s)') + One(Written(e, s)')
      BY <1>2, <2>2 DEF StreamHolders, One
    <2> HIDE DEF k
    <2> QED BY <2>1, <2>3, <2>4
  <1> QED BY <1>1, <1>2, ThreadsAre

\* The status thread is done with a stream.
LEMMA StreamsUnref ==
  ASSUME EncoderInv, Steps, conf' = conf, NEW e \in Used, Moves(e, "unref", "poll") /\ Same,
         StreamLeft(enc[e].streamSent[th[e].st.stream]), NEW r, r = enc[e].streamSent[th[e].st.stream]
  PROVE  StreamsExact'
  <1>1. /\ e \in Encoders /\ e \in Threads /\ enc' = enc /\ Encoders = {"lookahead", "encoder"}
        /\ th[e].pc = "unref" /\ th'[e].pc = "poll" /\ th'[e].st = th[e].st /\ Only(e)
    BY UsedAre, ThreadsAre DEF Same, Moves, SameWork
  <1>2. InCallback(e) /\ ~InCallback(e)'
    BY <1>1, CallsAre, CallsThen DEF CallPlaces, PutPlaces
  <1>3. r \in Streams
    BY <1>1, <1>2, RingNow DEF RingOf
  <1>4. strRefs \in [Streams -> Nat] /\ strRefs' = [strRefs EXCEPT ![r] = @ - 1]
    BY ExactNow DEF StreamLeft
  <1>5. \A f \in Encoders : SameRing(enc[f], enc'[f])
    BY <1>1 DEF SameRing
  <1>6. ASSUME NEW s \in Streams PROVE strRefs'[s] = StreamHolders(s)'
    <2>0. strRefs[s] = StreamHolders(s)
      BY ExactNow DEF StreamsExact
    <2>1. \A f \in Encoders : Queued(f, s)' <=> Queued(f, s)
      BY <1>5, QueuedStays
    <2>2. \A f \in Encoders : f # e => (Written(f, s)' <=> Written(f, s))
      <3> SUFFICES ASSUME NEW f \in Encoders, f # e PROVE Written(f, s)' <=> Written(f, s)
        OBVIOUS
      <3>1. th'[f] = th[f] /\ enc'[f] = enc[f]
        BY <1>1, ThreadsAre DEF Only
      <3> QED BY <1>1, <3>1, OtherEncoder
    <2>3. ~Written(e, s)' /\ (Written(e, s) <=> s = r)
      BY <1>2 DEF Written
    <2>4. CASE s # r
      <3>1. StreamStays(s)
        BY <2>1, <2>2, <2>3, <2>4 DEF StreamStays
      <3> QED BY <1>4, <2>0, <2>4, <3>1, StreamStaysIs
    <2>5. CASE s = r
      <3>1. PICK k \in {0, 1, 2} : /\ StreamHolders(s) = k + One(Queued(e, s)) + One(Written(e, s))
                                  /\ StreamHolders(s)' = k + One(Queued(e, s)') + One(Written(e, s)')
        BY <1>1, <2>1, <2>2, StreamChanges
      <3>2. One(Written(e, s)) = 1 /\ One(Written(e, s)') = 0 /\ One(Queued(e, s)') = One(Queued(e, s))
            /\ One(Queued(e, s)) \in {0, 1}
        BY <1>1, <2>1, <2>3, <2>5 DEF One
      <3>3. StreamHolders(s)' = StreamHolders(s) - 1
        BY <3>1, <3>2
      <3> QED BY <1>4, <2>0, <2>5, <3>3
    <2> QED BY <2>4, <2>5
  <1> QED BY <1>6 DEF StreamsExact

\* The references are exact when those that change are the holders at one encoder.
LEMMA StreamsByOne ==
  ASSUME EncoderInv, NEW e \in Encoders,
         \A f \in Encoders, s \in Streams :
            f # e => (Queued(f, s)' <=> Queued(f, s)) /\ (Written(f, s)' <=> Written(f, s)),
         \A s \in Streams : strRefs'[s] \in Int
            /\ strRefs'[s] + One(Queued(e, s)) + One(Written(e, s))
                  = strRefs[s] + One(Queued(e, s)') + One(Written(e, s)')
  PROVE  StreamsExact'
  <1>1. ASSUME NEW s \in Streams, NEW r \in Int, r = strRefs'[s] PROVE r = StreamHolders(s)'
    <2>1. PICK k \in {0, 1, 2} : /\ StreamHolders(s) = k + One(Queued(e, s)) + One(Written(e, s))
                                /\ StreamHolders(s)' = k + One(Queued(e, s)') + One(Written(e, s)')
      BY StreamChanges
    <2>2. strRefs[s] = StreamHolders(s) /\ strRefs[s] \in Nat
      BY ExactNow DEF StreamsExact
    <2>3. r + One(Queued(e, s)) + One(Written(e, s)) = strRefs[s] + One(Queued(e, s)') + One(Written(e, s)')
      BY <1>1
    <2>4. /\ One(Queued(e, s)) \in {0, 1} /\ One(Written(e, s)) \in {0, 1}
          /\ One(Queued(e, s)') \in {0, 1} /\ One(Written(e, s)') \in {0, 1}
      BY DEF One
    <2> QED BY <2>1, <2>2, <2>3, <2>4
  <1> QED BY <1>1 DEF StreamsExact

LEMMA OthersStay ==
  ASSUME EncoderInv, Steps, conf' = conf, NEW e \in Encoders, NEW t \in Threads, Others(e), Only(t),
         t = e \/ t = "main"
  PROVE  \A f \in Encoders, s \in Streams :
            f # e => (Queued(f, s)' <=> Queued(f, s)) /\ (Written(f, s)' <=> Written(f, s))
  <1> SUFFICES ASSUME NEW f \in Encoders, NEW s \in Streams, f # e
               PROVE  (Queued(f, s)' <=> Queued(f, s)) /\ (Written(f, s)' <=> Written(f, s))
    OBVIOUS
  <1>1. enc'[f] = enc[f] /\ th'[f] = th[f]
    BY ThreadsAre DEF Others, Only
  <1> QED BY <1>1, OtherEncoder

\* A stream leaves the queue of the hardware for the thread that writes it.
LEMMA StreamsSlice ==
  ASSUME EncoderInv, Steps, conf' = conf, NEW e \in Used, Slices(e), StreamsAlone
  PROVE  StreamsExact'
  <1> DEFINE q == enc[e].streams
             r == enc'[e].streams
             n == Len(q)
             ss == enc[e].streamSent
             st == th'[e].st
  <1>0. e \in Encoders /\ e \in Threads
    BY UsedAre, ThreadsAre
  <1>1. PICK k \in 1 .. Len(enc[e].frames) : SliceStep(e, k)
    BY DEF Slices
  <1>2. RingOf(e) /\ TypeOK /\ q \in Seq(0 .. MaxStream - 1) /\ DOMAIN q = 1 .. n /\ n \in Nat
    BY <1>0, RingNow
  <1>3. th[e].pc = "wait" /\ th'[e].pc = "callback" /\ Only(e)
    BY <1>1 DEF SliceStep
  <1>4. ~InCallback(e) /\ InCallback(e)'
    BY <1>3, CallsAre, CallsThen DEF PutPlaces, CallPlaces
  <1>5. ~Released(e) /\ ~Released(e)'
    <2>1. ~Released(e)
      BY <1>0, <1>3, HoldsNow DEF Released
    <2>2. ~ReleaseStep(e)
      BY <1>3 DEF ReleaseStep
    <2> QED BY <1>0, <2>1, <2>2, ReleasedKept
  <1>6. q # <<>> /\ st.stream = Head(q) /\ enc'[e].streamSent = ss /\ r = Tail(q) /\ Others(e)
    BY <1>0, <1>1, <1>2, SliceFacts
  <1>7. n > 0 /\ Head(q) = q[1] /\ Len(r) = n - 1 /\ \A i \in 1 .. n - 1 : r[i] = q[i + 1]
    BY <1>2, <1>6, SeqHead
  <1>8. \A i, j \in 1 .. n : ss[q[i]] = ss[q[j]] => i = j
    BY <1>2, <1>5 DEF RingOf
  <1>9. ASSUME NEW s \in Streams
        PROVE  One(Queued(e, s)) + One(Written(e, s)) = One(Queued(e, s)') + One(Written(e, s)')
    <2>1. Queued(e, s) <=> \E i \in 1 .. n : ss[q[i]] = s
      BY <1>5 DEF Queued
    <2>2. Queued(e, s)' <=> \E i \in 1 .. n - 1 : ss[r[i]] = s
      BY <1>5, <1>6, <1>7 DEF Queued
    <2>3. ~Written(e, s)
      BY <1>4 DEF Written
    <2>4. Written(e, s)' <=> ss[q[1]] = s
      BY <1>4, <1>6, <1>7 DEF Written
    <2> HIDE DEF q, r, n, ss, st
    <2>5. 1 \in 1 .. n /\ \A i \in 1 .. n - 1 : i + 1 \in 1 .. n /\ i + 1 # 1
      BY <1>2, <1>7
    <2>6. \A i \in 1 .. n : i = 1 \/ (i - 1 \in 1 .. n - 1 /\ i - 1 + 1 = i)
      BY <1>2, <1>7
    <2>7. CASE ss[q[1]] = s
      <3>1. Queued(e, s)
        BY <2>1, <2>5, <2>7
      <3>2. ~Queued(e, s)'
        BY <1>7, <1>8, <2>2, <2>5, <2>7
      <3> QED BY <2>3, <2>4, <2>7, <3>1, <3>2 DEF One
    <2>8. CASE ss[q[1]] # s
      <3>1. Queued(e, s)' <=> Queued(e, s)
        <4>1. ASSUME NEW i \in 1 .. n, ss[q[i]] = s PROVE Queued(e, s)'
          <5>1. i - 1 \in 1 .. n - 1 /\ i - 1 + 1 = i
            BY <2>6, <2>8, <4>1
          <5>2. r[i - 1] = q[i]
            BY <1>7, <5>1
          <5> QED BY <2>2, <4>1, <5>1, <5>2
        <4>2. ASSUME NEW i \in 1 .. n - 1, ss[r[i]] = s PROVE Queued(e, s)
          BY <1>7, <2>1, <2>5, <4>2
        <4> QED BY <2>1, <2>2, <4>1, <4>2
      <3> QED BY <2>3, <2>4, <2>8, <3>1 DEF One
    <2> QED BY <2>7, <2>8
  <1>10. \A s \in Streams : strRefs'[s] \in Int /\ strRefs'[s] + One(Queued(e, s)) + One(Written(e, s))
                               = strRefs[s] + One(Queued(e, s)') + One(Written(e, s)')
    <2> SUFFICES ASSUME NEW s \in Streams
                 PROVE  strRefs'[s] \in Int /\ strRefs'[s] + One(Queued(e, s)) + One(Written(e, s))
                               = strRefs[s] + One(Queued(e, s)') + One(Written(e, s)')
      OBVIOUS
    <2>1. strRefs'[s] = strRefs[s] /\ strRefs[s] \in Nat
      BY ExactNow DEF StreamsAlone
    <2>2. /\ One(Queued(e, s)) \in {0, 1} /\ One(Written(e, s)) \in {0, 1}
          /\ One(Queued(e, s)') \in {0, 1} /\ One(Written(e, s)') \in {0, 1}
      BY DEF One
    <2> QED BY <1>9, <2>1, <2>2
  <1>11. \A f \in Encoders, s \in Streams :
            f # e => (Queued(f, s)' <=> Queued(f, s)) /\ (Written(f, s)' <=> Written(f, s))
    BY <1>0, <1>3, <1>6, OthersStay
  <1> QED BY <1>0, <1>10, <1>11, StreamsByOne

\* The thread puts the stream it wrote back, and the hardware gets it again.
LEMMA StreamsPut ==
  ASSUME EncoderInv, Steps, conf' = conf, NEW e \in Used, PutStep(e),
         StreamShared(enc[e].streamSent[th[e].st.stream])
  PROVE  StreamsExact'
  <1> DEFINE q == enc[e].streams
             r == enc'[e].streams
             n == Len(q)
             ss == enc[e].streamSent
             tt == enc'[e].streamSent
             x == enc[e].curStreamSent
             o == enc[e].curStreamRecv
             st == th[e].st
             w == ss[st.stream]
             M == MaxStream
  <1>0. e \in Encoders /\ e \in Threads
    BY UsedAre, ThreadsAre
  <1>2. /\ RingOf(e) /\ TypeOK /\ q \in Seq(0 .. M - 1) /\ DOMAIN q = 1 .. n /\ n \in Nat
        /\ o \in 0 .. M - 1 /\ x \in 0 .. M - 1 /\ ss \in [0 .. M - 1 -> Streams \cup {NoStream}]
        /\ StreamsOf(e) \in Nat /\ StreamsOf(e) < M /\ M \in Nat /\ st.stream \in 0 .. M - 1
        /\ (InCallback(e) => ~Released(e)) /\ RingOfStreams
    BY <1>0, RingNow DEF EncoderInv
  <1>3. /\ th[e].pc = IF e = "lookahead" THEN "put" ELSE "callback"
        /\ th'[e].pc = IF th[e].st.last THEN "release" ELSE "unref"
        /\ th'[e].st = th[e].st /\ Only(e)
    BY DEF PutStep, Moves, SameWork
  <1>4. BeforePut(e) /\ InCallback(e)' /\ InCallback(e)
    <2>1. th[e].pc \in {"put", "callback"} /\ th'[e].pc \in {"release", "unref"}
      BY <1>3
    <2> QED BY <2>1, CallsAre, CallsThen DEF PutPlaces, CallPlaces
  <1>5. ~Released(e) /\ ~Released(e)'
    <2>2. ~ReleaseStep(e)
      BY <1>0, <1>3, ThreadsAre DEF ReleaseStep
    <2> QED BY <1>0, <1>2, <1>4, <2>2, ReleasedKept
  <1>6. w \in Streams /\ tt = [ss EXCEPT ![x] = w] /\ r = Append(q, x) /\ Others(e)
    BY <1>0, <1>2, PutFacts
  <1>7. Len(r) = n + 1 /\ (\A i \in 1 .. n : r[i] = q[i]) /\ r[n + 1] = x
    BY <1>2, <1>6, SeqEnd
  <1>10. /\ n + One(BeforePut(e)) = StreamsOf(e) /\ x = Slot(e, n)
         /\ (\A i \in 1 .. n : q[i] = Slot(e, i - 1)) /\ \A i \in 1 .. n : ss[q[i]] # w
    BY <1>2, <1>4, <1>5 DEF RingOf
  <1>11. One(BeforePut(e)) = 1
    BY <1>4 DEF One
  <1>12. n + 1 < M
    BY <1>2, <1>10, <1>11
  <1>15. \A i \in 1 .. n : q[i] # x
    <2>1. ASSUME NEW i \in 1 .. n, q[i] = x PROVE FALSE
      <3>1. (o + (i - 1)) % M = (o + n) % M
        BY <1>10, <2>1 DEF Slot
      <3>2. i - 1 \in 0 .. M - 1 /\ n \in 0 .. M - 1 /\ i - 1 # n
        BY <1>2, <1>12
      <3> QED BY <1>2, <3>1, <3>2, SlotsDiffer
    <2> QED BY <2>1
  <1>16. \A i \in 1 .. n : q[i] \in 0 .. M - 1
    BY <1>2, ElementOfSeq
  <1>17. (\A i \in 1 .. n + 1 : i \in 1 .. n \/ i = n + 1) /\ (\A i \in 1 .. n : i \in 1 .. n + 1) /\ n + 1 \in 1 .. n + 1
    <2>1. n \in Nat
      BY <1>2
    <2> HIDE DEF n
    <2> QED BY <2>1
  <1>18. tt[st.stream] = w
    BY <1>2, <1>6
  <1>19. \A s : (Queued(e, s) <=> \E i \in 1 .. n : ss[q[i]] = s)
                /\ (Queued(e, s)' <=> \E i \in 1 .. n + 1 : tt[r[i]] = s)
    BY <1>5, <1>7 DEF Queued
  <1>20. \A s : (Written(e, s) <=> w = s) /\ (Written(e, s)' <=> tt[st.stream] = s)
    BY <1>3, <1>4 DEF Written
  <1>21. strRefs \in [Streams -> Nat] /\ strRefs' = [strRefs EXCEPT ![w] = @ + 1]
    BY ExactNow DEF StreamShared
  <1> HIDE DEF q, r, n, ss, tt, o, st, M, x, w
  <1>22. (\A i \in 1 .. n : tt[r[i]] = ss[q[i]]) /\ tt[r[n + 1]] = w
    BY <1>2, <1>6, <1>7, <1>15, <1>16
  <1>23. ASSUME NEW s \in Streams
         PROVE  /\ s = w => ~Queued(e, s) /\ Queued(e, s)'
                /\ s # w => (Queued(e, s)' <=> Queued(e, s))
    <2>1. CASE s = w
      BY <1>10, <1>17, <1>19, <1>22, <2>1
    <2>2. CASE s # w
      BY <1>17, <1>19, <1>22, <2>2
    <2> QED BY <2>1, <2>2
  <1>24. \A s \in Streams : strRefs'[s] \in Int /\ strRefs'[s] + One(Queued(e, s)) + One(Written(e, s))
                               = strRefs[s] + One(Queued(e, s)') + One(Written(e, s)')
    <2> SUFFICES ASSUME NEW s \in Streams
                 PROVE  strRefs'[s] \in Int /\ strRefs'[s] + One(Queued(e, s)) + One(Written(e, s))
                               = strRefs[s] + One(Queued(e, s)') + One(Written(e, s)')
      OBVIOUS
    <2>0. strRefs[s] \in Nat /\ (Written(e, s)' <=> Written(e, s))
      BY <1>18, <1>20, <1>21
    <2>1. CASE s = w
      <3>1. strRefs'[s] = strRefs[s] + 1
        BY <1>6, <1>21, <2>1
      <3> QED BY <1>23, <2>0, <2>1, <3>1 DEF One
    <2>2. CASE s # w
      <3>1. strRefs'[s] = strRefs[s]
        BY <1>21, <2>2
      <3> QED BY <1>23, <2>0, <2>2, <3>1 DEF One
    <2> QED BY <2>1, <2>2
  <1>25. \A f \in Encoders, s \in Streams :
            f # e => (Queued(f, s)' <=> Queued(f, s)) /\ (Written(f, s)' <=> Written(f, s))
    BY <1>0, <1>3, <1>6, OthersStay
  <1> QED BY <1>0, <1>24, <1>25, StreamsByOne

LEMMA OncePlaces ==
  ASSUME NEW n \in Nat, NEW q, DOMAIN q = 1 .. n, NEW s,
         \A i, j \in 1 .. n : q[i] = q[j] => i = j
  PROVE  /\ (\E i \in 1 .. n : q[i] = s) => Cardinality(WhereIs(q, s)) = 1
         /\ (~ \E i \in 1 .. n : q[i] = s) => Cardinality(WhereIs(q, s)) = 0
  <1>1. ASSUME NEW i \in 1 .. n, q[i] = s PROVE Cardinality(WhereIs(q, s)) = 1
    <2>1. WhereIs(q, s) = {i}
      BY <1>1 DEF WhereIs
    <2> QED BY <2>1, FS_Singleton
  <1>2. ASSUME ~ \E i \in 1 .. n : q[i] = s PROVE Cardinality(WhereIs(q, s)) = 0
    <2>1. WhereIs(q, s) = {}
      BY <1>2 DEF WhereIs
    <2> QED BY <2>1, FS_EmptySet
  <1> QED BY <1>1, <1>2

\* What the library still holds of the streams is released.
LEMMA StreamsReleased ==
  ASSUME EncoderInv, Steps, conf' = conf, NEW e \in Encoders, ReleaseStep(e), NEW q, q = StreamsHeld(enc[e]),
         StreamsLeft(StreamsHeld(enc[e]))
  PROVE  StreamsExact'
  <1> DEFINE n == Len(enc[e].streams)
  <1>1. /\ RingOf(e) /\ TypeOK /\ DOMAIN enc[e].streams = 1 .. n /\ n \in Nat /\ RingOfStreams
        /\ conf \in Confs /\ enc \in [Encoders -> Contexts]
    BY RingNow DEF EncoderInv, TypeOK
  <1>2. /\ Released(e) => DOMAIN q = {}
        /\ ~Released(e) => DOMAIN q = 1 .. n /\ \A i \in 1 .. n : q[i] = enc[e].streamSent[enc[e].streams[i]]
    BY <1>1, HeldAre
  <1>3. Released(e)' /\ Others(e) /\ Only("main") /\ th'[e] = th[e] /\ th[e].pc = "ended" /\ "main" \in Threads
    BY <1>1, ReleasedKept, ReleaseFacts, ThreadsAre DEF ReleaseStep, Moves, Only
  <1>4. ~InCallback(e) /\ ~InCallback(e)'
    BY <1>3, CallsAre, CallsThen DEF PutPlaces, CallPlaces
  <1>5. ASSUME NEW s \in Streams PROVE Cardinality(WhereIs(q, s)) = One(Queued(e, s))
    <2>1. CASE Released(e)
      <3>1. WhereIs(q, s) = {}
        BY <1>2, <2>1 DEF WhereIs
      <3>2. ~Queued(e, s)
        BY <2>1 DEF Queued
      <3> QED BY <3>1, <3>2, FS_EmptySet DEF One
    <2>2. CASE ~Released(e)
      <3>1. \A i, j \in 1 .. n : enc[e].streamSent[enc[e].streams[i]] = enc[e].streamSent[enc[e].streams[j]] => i = j
        BY <1>1, <2>2 DEF RingOf
      <3>2. Queued(e, s) <=> \E i \in 1 .. n : q[i] = s
        BY <1>2, <2>2 DEF Queued
      <3>3. (\A i, j \in 1 .. n : q[i] = q[j] => i = j) /\ DOMAIN q = 1 .. n /\ n \in Nat
        BY <1>1, <1>2, <2>2, <3>1
      <3> HIDE DEF n
      <3>4. /\ (\E i \in 1 .. n : q[i] = s) => Cardinality(WhereIs(q, s)) = 1
            /\ (~ \E i \in 1 .. n : q[i] = s) => Cardinality(WhereIs(q, s)) = 0
        BY <3>3, OncePlaces
      <3> QED BY <3>2, <3>4 DEF One
    <2> QED BY <2>1, <2>2
  <1>6. strRefs \in [Streams -> Nat]
        /\ strRefs' = [s \in Streams |-> strRefs[s] - Cardinality(WhereIs(q, s))]
    BY ExactNow DEF StreamsLeft, WhereIs
  <1>7. \A s \in Streams : strRefs'[s] \in Int /\ strRefs'[s] + One(Queued(e, s)) + One(Written(e, s))
                               = strRefs[s] + One(Queued(e, s)') + One(Written(e, s)')
    <2> SUFFICES ASSUME NEW s \in Streams
                 PROVE  strRefs'[s] \in Int /\ strRefs'[s] + One(Queued(e, s)) + One(Written(e, s))
                               = strRefs[s] + One(Queued(e, s)') + One(Written(e, s)')
      OBVIOUS
    <2>1. strRefs'[s] = strRefs[s] - One(Queued(e, s)) /\ strRefs[s] \in Nat
      BY <1>5, <1>6
    <2>2. ~Queued(e, s)' /\ ~Written(e, s) /\ ~Written(e, s)'
      BY <1>3, <1>4 DEF Queued, Written
    <2> QED BY <2>1, <2>2 DEF One
  <1>8. \A f \in Encoders, s \in Streams :
            f # e => (Queued(f, s)' <=> Queued(f, s)) /\ (Written(f, s)' <=> Written(f, s))
    BY <1>3, OthersStay
  <1> QED BY <1>7, <1>8, StreamsByOne

LEMMA StreamsExactKept ==
  ASSUME EncoderInv, Steps, conf' = conf, Acts
  PROVE  StreamsExact'
  <1>1. CASE Undisturbed /\ AllAlone
    BY <1>1, StreamsCalm DEF AllAlone
  <1>2. ASSUME NEW t \in Threads,
               \/ TakesTable(t) /\ StreamsAlone
               \/ EncodeStep(t) /\ StreamsAlone
               \/ Leaves(t) /\ StreamsAlone
        PROVE StreamsExact'
    BY <1>2, StreamsCalm
  <1>3. CASE (SourceStep \/ FifoStep \/ KeepStep \/ PassStep) /\ StreamsAlone
    BY <1>3, StreamsCalm
  <1>4. ASSUME NEW e \in Used,
               \/ BackStep(e) /\ StreamsAlone
               \/ Moves(e, "releaseTable", "done") /\ Same /\ StreamsAlone
        PROVE StreamsExact'
    BY <1>4, StreamsCalm
  <1>5. ASSUME NEW e \in Used, Slices(e), StreamsAlone PROVE StreamsExact'
    BY <1>5, StreamsSlice
  <1>6. ASSUME NEW e \in Used, PutStep(e), StreamShared(enc[e].streamSent[th[e].st.stream]) PROVE StreamsExact'
    BY <1>6, StreamsPut
  <1>7. ASSUME NEW e \in Used, Moves(e, "unref", "poll") /\ Same, StreamLeft(enc[e].streamSent[th[e].st.stream])
        PROVE StreamsExact'
    BY <1>7, StreamsUnref
  <1>8. ASSUME NEW e \in Encoders, ReleaseStep(e), StreamsLeft(StreamsHeld(enc[e])) PROVE StreamsExact'
    BY <1>8, StreamsReleased
  <1> QED BY <1>1, <1>2, <1>3, <1>4, <1>5, <1>6, <1>7, <1>8 DEF Acts, AllAlone

(* Types *)

LEMMA RefFunctions ==
  ASSUME EncoderInv, Acts
  PROVE  /\ srcRefs' = [p \in Pictures |-> srcRefs'[p]]
         /\ qpRefs' = [u \in Uses |-> qpRefs'[u]]
         /\ strRefs' = [s \in Streams |-> strRefs'[s]]
  <1>1. srcRefs \in [Pictures -> Nat] /\ qpRefs \in [Uses -> Nat] /\ strRefs \in [Streams -> Nat]
    BY ExactNow
  <1>2. \/ SourcesAlone \/ (\E p : SourceTaken(p)) \/ (\E p : SourceShared(p)) \/ (\E S : SourcesLeft(S))
    BY DEF Acts, AllAlone
  <1>3. \/ TablesAlone \/ (\E u : TableTaken(u)) \/ (\E u : TableShared(u)) \/ (\E S : TablesLeft(S))
    BY DEF Acts, AllAlone
  <1>4. \/ StreamsAlone \/ (\E s : StreamShared(s)) \/ (\E s : StreamLeft(s)) \/ (\E q : StreamsLeft(q))
    BY DEF Acts, AllAlone
  <1>5. srcRefs' = [p \in Pictures |-> srcRefs'[p]]
    BY <1>1, <1>2 DEF SourcesAlone, SourceTaken, SourceShared, SourcesLeft
  <1>6. qpRefs' = [u \in Uses |-> qpRefs'[u]]
    BY <1>1, <1>3 DEF TablesAlone, TableTaken, TableShared, TablesLeft
  <1>7. strRefs' = [s \in Streams |-> strRefs'[s]]
    BY <1>1, <1>4 DEF StreamsAlone, StreamShared, StreamLeft, StreamsLeft
  <1> QED BY <1>5, <1>6, <1>7

LEMMA HoldersNow ==
  HoldersAreNat
  BY DEF HoldersAreNat, SourceHolders, TableHolders, StreamHolders, One
LEMMA HoldersThen ==
  HoldersAreNat'
  BY HoldersNow, PTL

LEMMA RefTypes ==
  ASSUME EncoderInv, Acts, SourcesExact', TablesExact', StreamsExact'
  PROVE  srcRefs' \in [Pictures -> Nat] /\ qpRefs' \in [Uses -> Nat] /\ strRefs' \in [Streams -> Nat]
  <1>1. \A p \in Pictures : srcRefs'[p] \in Nat
    BY HoldersThen DEF SourcesExact, HoldersAreNat
  <1>2. \A u \in Uses : qpRefs'[u] \in Nat
    BY HoldersThen DEF TablesExact, HoldersAreNat
  <1>3. \A s \in Streams : strRefs'[s] \in Nat
    BY HoldersThen DEF StreamsExact, HoldersAreNat
  <1> HIDE DEF Pictures, Uses, Streams
  <1>4. srcRefs' \in [Pictures -> Nat]
    BY <1>1, RefFunctions
  <1>5. qpRefs' \in [Uses -> Nat]
    BY <1>2, RefFunctions
  <1>6. strRefs' \in [Streams -> Nat]
    BY <1>3, RefFunctions
  <1> QED BY <1>4, <1>5, <1>6

\* What goes back to a pool is finitely many buffers.
LEMMA LeftAreNat ==
  ASSUME NEW S, IsFiniteSet(S), NEW f
  PROVE  Cardinality({x \in S : f[x] = 1}) \in Nat
  <1>1. {x \in S : f[x] = 1} \subseteq S
    OBVIOUS
  <1> QED BY <1>1, FS_Subset, FS_CardinalityType

LEMMA PoolTypes ==
  ASSUME EncoderInv, Acts, PoolKinds
  PROVE  /\ srcPool' \in [free : Nat, event : BOOLEAN]
         /\ qpPool' \in [free : Nat, event : BOOLEAN]
  <1>1. srcPool.free \in Nat /\ qpPool.free \in Nat
    BY ExactNow
  <1>2. \A S : SourcesLeft(S) /\ IsFiniteSet(S) => srcPool'.free \in Nat
    <2> SUFFICES ASSUME NEW S, SourcesLeft(S), IsFiniteSet(S) PROVE srcPool'.free \in Nat
      OBVIOUS
    <2>1. Cardinality({p \in S : srcRefs[p] = 1}) \in Nat
      BY LeftAreNat
    <2> QED BY <1>1, <2>1 DEF SourcesLeft
  <1>3. \A S : TablesLeft(S) /\ IsFiniteSet(S) => qpPool'.free \in Nat
    <2> SUFFICES ASSUME NEW S, TablesLeft(S), IsFiniteSet(S) PROVE qpPool'.free \in Nat
      OBVIOUS
    <2>1. Cardinality({u \in S : qpRefs[u] = 1}) \in Nat
      BY LeftAreNat
    <2> QED BY <1>1, <2>1 DEF TablesLeft
  <1>4. \A x : IsFiniteSet({x})
    BY FS_Singleton
  <1>5. \A c : IsFiniteSet(SourcesSent(c))
    BY SentAreFinite
  <1>6. \A e, c : IsFiniteSet({e} \X SourcesSent(c))
    BY <1>4, <1>5, FS_Product
  <1>7. \/ SourcesAlone \/ (\E p : SourceTaken(p)) \/ (\E p : SourceShared(p))
        \/ (\E S : SourcesLeft(S) /\ IsFiniteSet(S))
    BY <1>4, <1>5 DEF Acts, AllAlone
  <1>8. \/ TablesAlone \/ (\E u : TableTaken(u)) \/ (\E u : TableShared(u))
        \/ (\E S : TablesLeft(S) /\ IsFiniteSet(S))
    BY <1>4, <1>6 DEF Acts, AllAlone
  <1>9. srcPool'.free \in Nat
    BY <1>1, <1>2, <1>7 DEF SourcesAlone, SourceTaken, SourceShared
  <1>10. qpPool'.free \in Nat
    BY <1>1, <1>3, <1>8 DEF TablesAlone, TableTaken, TableShared
  <1> QED BY <1>9, <1>10 DEF PoolKinds

LEMMA ListsKept ==
  ASSUME EncoderInv, Steps
  PROVE  Lists' /\ next' \in Nat /\ refused' \in Nat
  <1>1. given \in Seq(Pictures) /\ fifo \in Seq(Pictures) /\ next \in Nat /\ refused \in Nat
    BY DEF EncoderInv, TypeOK
  <1>2. given' \in Seq(Pictures)
    <2>1. CASE given' = given
      BY <1>1, <2>1
    <2>2. CASE Encodes("encoder")
      <3>1. PICK t \in Threads : EncodeStep(t) /\ th[t].e = "encoder"
        BY <2>2 DEF Encodes
      <3>2. th[t].p \in Pictures
        BY <3>1, EncodeFacts
      <3>3. given' = Append(given, th[t].p)
        BY <3>1 DEF EncodeStep
      <3> QED BY <1>1, <3>2, <3>3, SeqEnd
    <2> QED BY <2>1, <2>2, VariablesOf
  <1>3. fifo' \in Seq(Pictures)
    <2>1. CASE fifo' = fifo
      BY <1>1, <2>1
    <2>2. CASE KeepStep
      <3>1. th["lookahead"].st.pic \in Pictures /\ fifo' = Append(fifo, th["lookahead"].st.pic)
        BY <2>2, PictureReported DEF KeepStep, Moves
      <3> QED BY <1>1, <3>1, SeqEnd
    <2>3. CASE PassStep
      <3> DEFINE kept == Append(fifo, th["lookahead"].st.pic)
      <3>1. th["lookahead"].st.pic \in Pictures /\ fifo' = Tail(kept)
        BY <2>3, PictureReported DEF PassStep
      <3>2. kept \in Seq(Pictures) /\ Len(kept) = Len(fifo) + 1 /\ Len(fifo) \in Nat
        BY <1>1, <3>1, SeqEnd
      <3>3. kept # <<>>
        BY <3>2
      <3> HIDE DEF kept
      <3> QED BY <3>1, <3>2, <3>3, SeqHead
    <2>4. CASE FifoStep
      <3>1. fifo # <<>> /\ fifo' = Tail(fifo)
        BY <2>4 DEF FifoStep
      <3> QED BY <1>1, <3>1, SeqHead
    <2> QED BY <2>1, <2>2, <2>3, <2>4, VariablesOf
  <1>4. next' \in Nat
    BY <1>1, VariablesOf DEF SourceStep
  <1>5. refused' \in Nat
    BY <1>1, VariablesOf DEF RefuseStep
  <1> QED BY <1>2, <1>3, <1>4, <1>5 DEF Lists

-----------------------------------------------------------------------------
(* The pools are destroyed *)

\* Nobody holds a buffer when the pools are destroyed.
LEMMA NothingHeld ==
  ASSUME EncoderInv, th["main"].pc = "pools"
  PROVE  /\ \A p \in Pictures : srcRefs[p] = 0
         /\ \A u \in Uses : qpRefs[u] = 0
         /\ \A s \in Streams : strRefs[s] = 0
  <1>1. /\ TypeOK /\ ThreadPlaces /\ Lives /\ SourcesHeld /\ EndsOfStream
        /\ SourcesExact /\ TablesExact /\ StreamsExact
    BY ExactNow DEF EncoderInv
  <1>2. ASSUME NEW e \in Encoders
        PROVE  /\ th[e].pc \in {"ended", "poll"}
               /\ \A p \in Pictures : ~enc[e].sourceSent[p]
               /\ \A s : ~Queued(e, s)
    <2>1. CASE e \in Used
      <3>1. Released(e)
        BY <2>1, ThreadsAre DEF Released, Stopping, Unreleased
      <3>2. th[e].pc = "ended"
        BY <1>1, <2>1, <3>1 DEF Lives
      <3>3. \A p \in Pictures : ~enc[e].sourceSent[p]
        BY <1>1, <3>1 DEF SourcesHeld
      <3> QED BY <3>1, <3>2, <3>3 DEF Queued
    <2>2. CASE e \notin Used
      <3>1. e = "lookahead" /\ ~HasLookAhead
        BY <2>2, ThreadsAre, UsedAre
      <3>2. enc[e] = CreateChannel /\ th[e] = Idle
        BY <1>1, <3>1 DEF ThreadPlaces
      <3>3. Len(enc[e].streams) = 0
        BY <3>2 DEF CreateChannel
      <3>4. \A s : ~Queued(e, s)
        BY <3>3 DEF Queued
      <3> QED BY <3>2, <3>4 DEF CreateChannel, Idle
    <2> QED BY <2>1, <2>2
  <1>3. fifo = <<>>
    BY <1>1 DEF EndsOfStream, Stopping
  <1>4. Encoders = {"lookahead", "encoder"}
    BY ThreadsAre
  <1>5. ASSUME NEW p \in Pictures PROVE srcRefs[p] = 0
    <2>1. ~SourceAt("main", p) /\ ~SourceAt("lookahead", p) /\ ~Sent("lookahead", p) /\ ~Sent("encoder", p)
      BY <1>2, <1>4 DEF SourceAt, Passing, Sent
    <2>2. ~InFifo(p)
      BY <1>3 DEF InFifo
    <2>3. SourceHolders(p) = 0
      BY <2>1, <2>2 DEF SourceHolders, One
    <2> QED BY <1>1, <2>3 DEF SourcesExact
  <1>6. ASSUME NEW u \in Uses PROVE qpRefs[u] = 0
    <2>1. ~TableAt("main", u) /\ ~TableAt("lookahead", u) /\ ~TableDue("lookahead", u) /\ ~TableDue("encoder", u)
      BY <1>2, <1>4 DEF TableAt, HasTable, TableDue
    <2>2. ~SentFor(u)
      BY <1>2, UsesAre DEF SentFor
    <2>3. TableHolders(u) = 0
      BY <2>1, <2>2 DEF TableHolders, One
    <2> QED BY <1>1, <2>3 DEF TablesExact
  <1>7. ASSUME NEW s \in Streams PROVE strRefs[s] = 0
    <2>1. ~Queued("lookahead", s) /\ ~Queued("encoder", s)
      BY <1>2, <1>4
    <2>2. ~Written("lookahead", s) /\ ~Written("encoder", s)
      BY <1>2, <1>4 DEF Written, InCallback, Passing
    <2>3. StreamHolders(s) = 0
      BY <2>1, <2>2 DEF StreamHolders, One
    <2> QED BY <1>1, <2>3 DEF StreamsExact
  <1> QED BY <1>5, <1>6, <1>7

LEMMA PoolsWhole ==
  ASSUME EncoderInv, th["main"].pc = "pools"
  PROVE  /\ srcPool.free = FrameBuffers(conf) /\ qpPool.free = FrameBuffers(conf)
         /\ \A s \in Streams : strRefs[s] = 0
  <1>1. {p \in Pictures : srcRefs[p] > 0} = {} /\ {u \in Uses : qpRefs[u] > 0} = {}
    BY NothingHeld
  <1>2. SourcePool /\ TablePool /\ srcPool.free \in Nat /\ qpPool.free \in Nat
    BY ExactNow
  <1>3. srcPool.free + Cardinality({p \in Pictures : srcRefs[p] > 0}) = FrameBuffers(conf)
        /\ qpPool.free + Cardinality({u \in Uses : qpRefs[u] > 0}) = FrameBuffers(conf)
    BY <1>2 DEF SourcePool, TablePool, Count
  <1>4. srcPool.free + 0 = FrameBuffers(conf) /\ qpPool.free + 0 = FrameBuffers(conf)
    BY <1>1, <1>3, FS_EmptySet
  <1> QED BY <1>2, <1>4, NothingHeld

\* Only the destruction of the pools checks them.
LEMMA OkChanges ==
  ASSUME Next
  PROVE  ok' = ok \/ DestroyPools
  <1>1. CASE Main
    BY <1>1 DEF Main, GetSource, WaitSource, Unwind, EndInput, LookAheadDone, EmptyFifo, Finish, Stop, Close, Release
  <1>2. ASSUME NEW e, StatusThread(e) PROVE ok' = ok
    BY <1>2 DEF StatusThread, Poll, WaitFails, WaitSlice, WaitEndOfStream, PutBack, ReleaseSource,
                ReleaseTable, PictureDone, UnrefStream, AddFifo
  <1>3. ASSUME NEW t, Sink(t) PROVE ok' = ok
    BY <1>3 DEF Sink, GetTable, WaitTable, Encode, Refuse, Drop
  <1>4. CASE Ended
    BY <1>4 DEF Ended, vars
  <1> QED BY <1>1, <1>2, <1>3, <1>4 DEF Next

LEMMA OkKept ==
  ASSUME EncoderInv, Next
  PROVE  ok'
  <1>1. ok
    BY DEF EncoderInv, AssertionsHold
  <1>2. CASE DestroyPools
    <2>1. th["main"].pc = "pools"
      BY <1>2 DEF DestroyPools, Step
    <2> QED BY <1>1, <1>2, <2>1, PoolsWhole DEF DestroyPools
  <1> QED BY <1>1, <1>2, OkChanges

-----------------------------------------------------------------------------
(* The invariant *)

LEMMA InvKept ==
  ASSUME EncoderInv, DriverAccepts, Next, Steps
  PROVE  EncoderInv'
  <1>1. conf' = conf /\ Kinds /\ conf \in Confs
    BY ConfKept, KindsKept DEF EncoderInv, TypeOK
  <1>2. Acts /\ PoolKinds
    BY ActsAre
  <1>3. SourcesExact' /\ SourcePool' /\ TablesExact' /\ TablePool' /\ StreamsExact'
    BY <1>1, <1>2, SourcesExactKept, TablesExactKept, StreamsExactKept
  <1>4. enc' \in [Encoders -> Contexts]
    BY <1>1, ContextsKept
  <1>5. Lists' /\ next' \in Nat /\ refused' \in Nat
    BY ListsKept
  <1>6. TypeOK'
    <2>1. th' \in [Threads -> ThreadStates]
      BY ThreadTypesKept DEF EncoderInv
    <2>2. srcRefs' \in [Pictures -> Nat] /\ qpRefs' \in [Uses -> Nat] /\ strRefs' \in [Streams -> Nat]
      BY <1>2, <1>3, RefTypes
    <2>3. srcPool' \in [free : Nat, event : BOOLEAN] /\ qpPool' \in [free : Nat, event : BOOLEAN]
      BY <1>2, PoolTypes
    <2> QED BY <1>1, <1>4, <1>5, <2>1, <2>2, <2>3 DEF TypeOK, Lists, Kinds
  <1>7. ThreadPlaces' /\ Lives' /\ EndsOfStream' /\ Refusals' /\ SourcesHeld' /\ Permits' /\ RingOfStreams'
    BY <1>1, PlacesKept, LivesKept, EndsKept, RefusalsKept, SourcesKept, PermitsKept, RingsKept
  <1>8. PicturesInOrder'
    <2>1. "lookahead" \in Encoders /\ fifo' \in Seq(Pictures)
      BY <1>5, ThreadsAre DEF Lists
    <2>2. enc'["lookahead"].frames \in Seq(Pictures)
      BY <1>4, <2>1, ContextIs
    <2> QED BY <1>1, <2>1, <2>2, PicturesKept
  <1>9. AssertionsHold'
    BY OkKept, ContextsOk DEF AssertionsHold
  <1>10. CountsAreHolders'
    <2>1. SourceCounts'
      BY <1>3, <1>5, <1>7, <1>8, SourcesThen DEF SourcesAgree
    <2>2. TableCounts'
      BY <1>3, <1>7, TablesThen DEF TablesAgree
    <2>3. StreamCounts'
      BY <1>1, <1>3, <1>4, <1>7, StreamsThen DEF StreamsAgree
    <2>4. FramesHeld'
      BY <1>3, <1>6, <1>7, FramesThen DEF FramesKnown
    <2> QED BY <1>3, <2>1, <2>2, <2>3, <2>4, CountsThen DEF AllCounts
  <1> QED BY <1>6, <1>7, <1>8, <1>9, <1>10 DEF EncoderInv

LEMMA InvNext ==
  ASSUME EncoderInv, DriverAccepts, [Next]_vars
  PROVE  EncoderInv'
  <1>1. CASE UNCHANGED vars
    <2>0. /\ conf' = conf /\ enc' = enc /\ th' = th /\ srcPool' = srcPool /\ srcRefs' = srcRefs
          /\ qpPool' = qpPool /\ qpRefs' = qpRefs /\ strRefs' = strRefs /\ fifo' = fifo
          /\ bEndOfStream' = bEndOfStream /\ eosFinished' = eosFinished /\ hFinished' = hFinished
          /\ next' = next /\ given' = given /\ refused' = refused /\ ok' = ok
      BY <1>1 DEF vars, poolVars, laVars
    <2>1. TypeOK'
      BY <2>0 DEF EncoderInv, TypeOK
    <2>3. AssertionsHold'
      BY <2>0 DEF EncoderInv, AssertionsHold
    <2>4. ThreadPlaces'
      BY <2>0 DEF EncoderInv, ThreadPlaces, Passing, HasLookAhead
    <2>5. Lives'
      BY <2>0 DEF EncoderInv, Lives, Stopped, Closed, Released, Used, HasLookAhead
    <2>6. EndsOfStream'
      BY <2>0 DEF EncoderInv, EndsOfStream, HasLookAhead, Feeding, Passing, FirstSink
    <2>7. Refusals'
      BY <2>0 DEF EncoderInv, Refusals, HasLookAhead
    <2>8. PicturesInOrder'
      BY <2>0 DEF EncoderInv, PicturesInOrder, Passing, HasLookAhead, FirstSink, OnTheWay, Reported, Accepted, Before
    <2>9. SourcesHeld'
      BY <2>0 DEF EncoderInv, SourcesHeld, Accepted, Reported, OnTheWay, Before, InCallback, Passing, Finishing,
        BeforePut, Released, Used, HasLookAhead
    <2>10. Permits'
      BY <2>0 DEF EncoderInv, Permits
    <2>11. RingOfStreams'
      BY <2>0 DEF EncoderInv, RingOfStreams, InCallback, Passing, BeforePut, Released, Used, HasLookAhead, StreamsOf, Slot
    <2>12. SourcesExact'
      <3>1. \A p \in Pictures : SourceStays(p)
        BY <2>0 DEF SourceStays, SourceAt, Passing, InFifo, Sent
      <3> QED BY <2>0, <3>1, ExactNow, SourceStaysIs DEF SourcesExact
    <2>13. TablesExact'
      BY <2>0, ExactNow DEF TablesExact, TableHolders, TableAt, HasTable, SentFor, TableDue
    <2>14. StreamsExact'
      BY <2>0, ExactNow DEF StreamsExact, StreamHolders, Queued, Released, Used, HasLookAhead, Written, InCallback, Passing
    <2>15. SourcePool' /\ TablePool'
      BY <2>0, ExactNow DEF SourcePool, TablePool
    <2>16. SourceCounts'
      BY <2>1, <2>4, <2>8, <2>12, SourcesThen DEF SourcesAgree, Lists, TypeOK
    <2>17. TableCounts'
      BY <2>4, <2>13, TablesThen DEF TablesAgree
    <2>18. StreamCounts'
      BY <2>1, <2>11, <2>14, StreamsThen DEF StreamsAgree, TypeOK
    <2>19. FramesHeld'
      BY <2>1, <2>4, <2>5, <2>9, <2>12, <2>13, FramesThen DEF FramesKnown
    <2>2. CountsAreHolders'
      BY <2>15, <2>16, <2>17, <2>18, <2>19, CountsThen DEF AllCounts
    <2> QED BY <2>1, <2>2, <2>3, <2>4, <2>5, <2>6, <2>7, <2>8, <2>9, <2>10, <2>11 DEF EncoderInv
  <1>2. CASE Next /\ Steps
    BY <1>2, InvKept
  <1>3. Next => Steps \/ UNCHANGED vars
    BY NextSteps DEF EncoderInv
  <1> QED BY <1>1, <1>2, <1>3

-----------------------------------------------------------------------------
(* The beginning *)

LEMMA ChannelIs ==
  /\ CreateChannel \in Contexts
  /\ CreateChannel.frames = <<>> /\ CreateChannel.streams = <<>> /\ CreateChannel.slice = 0
  /\ CreateChannel.eos = "no" /\ ~CreateChannel.destroyed /\ CreateChannel.shouldContinue /\ CreateChannel.ok
  /\ CreateChannel.permits = MaxCmd - 1 /\ CreateChannel.poolIds = MaxCmd
  /\ CreateChannel.sourceSent = [p \in Pictures |-> FALSE]
  /\ CreateChannel.curStreamRecv = 0
  <1>1. 0 \in 0 .. MaxStream - 1 /\ MaxCmd - 1 \in Int /\ MaxCmd \in Int
    BY Sizes
  <1>2. [i \in 0 .. MaxStream - 1 |-> NoStream] \in [0 .. MaxStream - 1 -> Streams \cup {NoStream}]
    OBVIOUS
  <1>3. <<>> \in Seq(Pictures) /\ <<>> \in Seq(0 .. MaxStream - 1)
    BY EmptySeq
  <1>4. [p \in Pictures |-> FALSE] \in [Pictures -> BOOLEAN]
    OBVIOUS
  <1> QED BY <1>1, <1>2, <1>3, <1>4 DEF CreateChannel, Contexts

\* The ring of an encoder that was given its streams.
LEMMA FilledIs ==
  ASSUME NEW k \in Nat, NEW m \in Nat, k > 0, k + m <= MaxStream, m < MaxStream
  PROVE  LET c == Filled(CreateChannel, k, m)
         IN  /\ c \in Contexts
             /\ c.frames = <<>> /\ c.slice = 0 /\ c.eos = "no" /\ ~c.destroyed /\ c.shouldContinue /\ c.ok
             /\ c.permits = MaxCmd - 1 /\ c.poolIds = MaxCmd
             /\ c.sourceSent = [p \in Pictures |-> FALSE]
             /\ c.curStreamRecv = 0 /\ c.curStreamSent = m
             /\ Len(c.streams) = m /\ DOMAIN c.streams = 1 .. m
             /\ \A i \in 1 .. m : c.streams[i] = i - 1 /\ c.streamSent[c.streams[i]] = k + (i - 1)
                                  /\ k + (i - 1) \in Streams
  <1> DEFINE c == Filled(CreateChannel, k, m)
             ss == [i \in 0 .. MaxStream - 1 |-> IF i < m THEN k + i ELSE NoStream]
             q == [i \in 1 .. m |-> i - 1]
             d == CreateChannel
  <1>1. MaxStream \in Nat /\ m \in 0 .. MaxStream - 1
    BY Sizes
  <1>2. \A i \in 0 .. MaxStream - 1 : i < m => k + i \in Streams
    BY <1>1 DEF Streams
  <1>3. ss \in [0 .. MaxStream - 1 -> Streams \cup {NoStream}]
    BY <1>2
  <1>4. \A i \in 1 .. m : i - 1 \in 0 .. MaxStream - 1 /\ i - 1 < m
    BY <1>1
  <1>5. q \in Seq(0 .. MaxStream - 1) /\ Len(q) = m /\ DOMAIN q = 1 .. m
    BY <1>4, SeqDef
  <1>6. d \in Contexts
    BY ChannelIs
  <1> HIDE DEF d, ss, q
  <1>7. c = [d EXCEPT !.streamSent = ss, !.curStreamSent = m, !.streams = q]
    BY DEF Filled, ss, q, d
  <1>8. /\ c \in Contexts
        /\ c.frames = d.frames /\ c.slice = d.slice /\ c.eos = d.eos /\ c.destroyed = d.destroyed
        /\ c.shouldContinue = d.shouldContinue /\ c.ok = d.ok
        /\ c.permits = d.permits /\ c.poolIds = d.poolIds /\ c.sourceSent = d.sourceSent
        /\ c.curStreamRecv = d.curStreamRecv /\ c.curStreamSent = m /\ c.streams = q /\ c.streamSent = ss
    <2> HIDE DEF c
    <2> QED BY <1>1, <1>3, <1>5, <1>6, <1>7 DEF Contexts
  <1>9. \A i \in 1 .. m : q[i] = i - 1 /\ ss[q[i]] = k + (i - 1) /\ k + (i - 1) \in Streams
    BY <1>2, <1>4 DEF q, ss
  <1> HIDE DEF c
  <1> QED BY <1>5, <1>8, <1>9, ChannelIs DEF c, d

LEMMA InitFacts ==
  ASSUME Init
  PROVE  /\ conf \in Confs /\ NumStreams(conf) \in Nat /\ FrameBuffers(conf) \in Nat
         /\ strRefs = [s \in Streams |-> IF s <= NumStreams(conf) THEN 1 ELSE 0]
         /\ \A e \in Encoders :
               /\ enc[e] = Filled(CreateChannel, First(e), StreamsOf(e))
               /\ th[e] = Idle
               /\ First(e) \in Nat /\ First(e) > 0 /\ StreamsOf(e) \in Nat
               /\ First(e) + StreamsOf(e) <= MaxStream /\ StreamsOf(e) < MaxStream
         /\ DOMAIN enc = Encoders /\ th["main"] = [Idle EXCEPT !.pc = "source"]
         /\ th = [t \in Threads |-> IF t = "main" THEN [Idle EXCEPT !.pc = "source"] ELSE Idle]
         /\ StreamsOf("lookahead") = One(HasLookAhead)
         /\ StreamsOf("encoder") = NumStreams(conf) - One(HasLookAhead)
         /\ One(HasLookAhead) \in {0, 1} /\ One(HasLookAhead) <= NumStreams(conf)
  <1> DEFINE n == NumStreams(conf)
             k == One(HasLookAhead)
  <1>1. conf \in Confs
    BY DEF Init
  <1>2. n \in Nat /\ 1 <= n /\ n < MaxStream /\ FrameBuffers(conf) \in Nat /\ MaxStream \in Nat
    BY <1>1, SettingsAre, Sizes
  <1>3. k \in {0, 1} /\ k = IF HasLookAhead THEN 1 ELSE 0
    BY DEF One
  <1>4. /\ strRefs = [s \in Streams |-> IF s <= n THEN 1 ELSE 0]
        /\ enc = [e \in Encoders |-> IF e = "lookahead" THEN Filled(CreateChannel, 1, k)
                                     ELSE Filled(CreateChannel, k + 1, n - k)]
    BY DEF Init, One
  <1>5. th = [t \in Threads |-> IF t = "main" THEN [Idle EXCEPT !.pc = "source"] ELSE Idle]
    BY DEF Init
  <1>6. /\ StreamsOf("lookahead") = k /\ StreamsOf("encoder") = n - k
        /\ First("lookahead") = 1 /\ First("encoder") = k + 1
    BY ThreadsAre DEF StreamsOf, First
  <1> HIDE DEF n, k
  <1>7. /\ enc["lookahead"] = Filled(CreateChannel, 1, k) /\ enc["encoder"] = Filled(CreateChannel, k + 1, n - k)
        /\ th["lookahead"] = Idle /\ th["encoder"] = Idle /\ th["main"] = [Idle EXCEPT !.pc = "source"]
        /\ DOMAIN enc = Encoders
    BY <1>4, <1>5, ThreadsAre
  <1>8. /\ 1 + k <= MaxStream /\ k < MaxStream /\ (k + 1) + (n - k) <= MaxStream /\ n - k < MaxStream
        /\ n - k \in Nat /\ k \in Nat /\ k <= n
    BY <1>2, <1>3
  <1>9. ASSUME NEW e \in Encoders
        PROVE  /\ enc[e] = Filled(CreateChannel, First(e), StreamsOf(e))
               /\ th[e] = Idle
               /\ First(e) \in Nat /\ First(e) > 0 /\ StreamsOf(e) \in Nat
               /\ First(e) + StreamsOf(e) <= MaxStream /\ StreamsOf(e) < MaxStream
    <2>1. CASE e = "lookahead"
      BY <1>6, <1>7, <1>8, <2>1
    <2>2. CASE e = "encoder"
      BY <1>6, <1>7, <1>8, <2>2
    <2> QED BY <2>1, <2>2, ThreadsAre
  <1> QED BY <1>1, <1>2, <1>3, <1>4, <1>5, <1>6, <1>7, <1>8, <1>9 DEF n, k

LEMMA InitContexts ==
  ASSUME Init, NEW e \in Encoders
  PROVE  LET c == enc[e] IN
         /\ c \in Contexts
         /\ c.frames = <<>> /\ c.slice = 0 /\ c.eos = "no" /\ ~c.destroyed /\ c.shouldContinue /\ c.ok
         /\ c.permits = MaxCmd - 1 /\ c.poolIds = MaxCmd
         /\ c.sourceSent = [p \in Pictures |-> FALSE]
         /\ c.curStreamRecv = 0 /\ c.curStreamSent = StreamsOf(e)
         /\ Len(c.streams) = StreamsOf(e) /\ DOMAIN c.streams = 1 .. StreamsOf(e)
         /\ \A i \in 1 .. StreamsOf(e) :
               /\ c.streams[i] = i - 1 /\ c.streamSent[c.streams[i]] = First(e) + (i - 1)
               /\ First(e) + (i - 1) \in Streams
  <1>1. /\ enc[e] = Filled(CreateChannel, First(e), StreamsOf(e))
        /\ First(e) \in Nat /\ First(e) > 0 /\ StreamsOf(e) \in Nat
        /\ First(e) + StreamsOf(e) <= MaxStream /\ StreamsOf(e) < MaxStream
    BY InitFacts
  <1> DEFINE k == First(e)
             m == StreamsOf(e)
  <1> HIDE DEF k, m
  <1>2. k \in Nat /\ m \in Nat /\ k > 0 /\ k + m <= MaxStream /\ m < MaxStream
    BY <1>1 DEF k, m
  <1> DEFINE c == Filled(CreateChannel, k, m)
  <1>3. /\ c \in Contexts
        /\ c.frames = <<>> /\ c.slice = 0 /\ c.eos = "no" /\ ~c.destroyed /\ c.shouldContinue /\ c.ok
        /\ c.permits = MaxCmd - 1 /\ c.poolIds = MaxCmd
        /\ c.sourceSent = [p \in Pictures |-> FALSE]
        /\ c.curStreamRecv = 0 /\ c.curStreamSent = m
        /\ Len(c.streams) = m /\ DOMAIN c.streams = 1 .. m
        /\ \A i \in 1 .. m : c.streams[i] = i - 1 /\ c.streamSent[c.streams[i]] = k + (i - 1)
                             /\ k + (i - 1) \in Streams
    BY <1>2, FilledIs
  <1>4. enc[e] = c
    BY <1>1 DEF k, m
  <1> HIDE DEF c
  <1> QED BY <1>3, <1>4 DEF k, m

\* Where the threads are at the beginning.
LEMMA InitPlaces ==
  ASSUME Init
  PROVE  /\ th["main"].pc = "source" /\ \A e \in Encoders : th[e].pc = "poll" /\ th[e].e = "encoder"
         /\ \A t \in Threads : ~Passing(t) /\ ~HasTable(t) /\ th[t].pc \in {"source", "poll"}
         /\ \A t \in Threads, e \in Encoders : ~Before(t, e)
         /\ \A e \in Encoders : ~InCallback(e) /\ ~BeforePut(e) /\ ~Finishing(e)
         /\ \A e \in Encoders : ~Released(e) /\ ~Stopped(e) /\ ~Closed(e)
  <1>1. th["main"].pc = "source" /\ \A e \in Encoders : th[e].pc = "poll" /\ th[e].e = "encoder"
    BY InitFacts DEF Idle
  <1>2. \A t \in Threads : th[t].pc \in {"source", "poll"}
    BY <1>1 DEF Threads
  <1>3. \A t \in Threads : ~Passing(t) /\ ~HasTable(t) /\ \A e \in Encoders : ~Before(t, e)
    BY <1>2 DEF Passing, HasTable, Before
  <1>4. \A e \in Encoders : ~InCallback(e) /\ ~BeforePut(e) /\ ~Finishing(e)
    BY <1>1, CallsAre DEF CallPlaces, PutPlaces
  <1>5. \A e \in Encoders : ~Released(e) /\ ~Stopped(e) /\ ~Closed(e)
    BY <1>1 DEF Released, Stopped, Closed, Stopping
  <1> QED BY <1>1, <1>2, <1>3, <1>4, <1>5

LEMMA InitTypes ==
  ASSUME Init
  PROVE  TypeOK
  <1>1. enc \in [Encoders -> Contexts]
    <2>1. enc = [e \in Encoders |-> enc[e]]
      BY DEF Init
    <2>2. \A e \in Encoders : enc[e] \in Contexts
      BY InitContexts
    <2> QED BY <2>1, <2>2
  <1>2. th \in [Threads -> ThreadStates]
    <2>1. EndOfStreamStatus \in Statuses
      BY Sizes DEF EndOfStreamStatus, Statuses
    <2>2. Idle \in ThreadStates /\ [Idle EXCEPT !.pc = "source"] \in ThreadStates
      BY <2>1, ThreadsAre DEF Idle, ThreadStates, Places
    <2> HIDE DEF ThreadStates, Idle
    <2> QED BY <2>2, InitFacts
  <1>3. /\ srcPool \in [free : Nat, event : BOOLEAN] /\ qpPool \in [free : Nat, event : BOOLEAN]
        /\ srcRefs \in [Pictures -> Nat] /\ qpRefs \in [Uses -> Nat] /\ strRefs \in [Streams -> Nat]
    BY InitFacts DEF Init
  <1>4. fifo \in Seq(Pictures) /\ given \in Seq(Pictures) /\ next \in Nat /\ refused \in Nat
        /\ bEndOfStream \in BOOLEAN /\ eosFinished \in BOOLEAN /\ hFinished \in BOOLEAN /\ ok \in BOOLEAN
    BY EmptySeq DEF Init
  <1> QED BY <1>1, <1>2, <1>3, <1>4, InitFacts DEF TypeOK

LEMMA InitRings ==
  ASSUME Init
  PROVE  RingOfStreams
  <1>1. ASSUME NEW e \in Encoders PROVE RingOf(e)
    <2> DEFINE c == enc[e]
               m == StreamsOf(e)
    <2>1. /\ c.curStreamRecv = 0 /\ c.curStreamSent = m /\ Len(c.streams) = m /\ DOMAIN c.streams = 1 .. m
          /\ \A i \in 1 .. m : /\ c.streams[i] = i - 1 /\ c.streamSent[c.streams[i]] = First(e) + (i - 1)
                               /\ First(e) + (i - 1) \in Streams
      BY InitContexts
    <2>2. First(e) \in Nat /\ m \in Nat /\ m < MaxStream /\ MaxStream \in Nat /\ MaxStream > 0
      BY InitFacts, Sizes
    <2>3. ~InCallback(e) /\ ~BeforePut(e) /\ ~Released(e) /\ One(BeforePut(e)) = 0
      BY InitPlaces DEF One
    <2>4. \A i \in 0 .. MaxStream - 1 : Slot(e, i) = i
      <3>1. \A i \in 0 .. MaxStream - 1 : (0 + i) % MaxStream = i
        BY <2>2
      <3> QED BY <2>1, <3>1 DEF Slot
    <2> HIDE DEF c, m
    <2>5. m \in 0 .. MaxStream - 1 /\ \A i \in 1 .. m : i - 1 \in 0 .. MaxStream - 1
      BY <2>2
    <2>6. c.curStreamSent = Slot(e, m) /\ \A i \in 1 .. m : c.streams[i] = Slot(e, i - 1)
      BY <2>1, <2>4, <2>5
    <2>7. \A i, j \in 1 .. m : c.streamSent[c.streams[i]] = c.streamSent[c.streams[j]] => i = j
      <3>1. ASSUME NEW i \in 1 .. m, NEW j \in 1 .. m, c.streamSent[c.streams[i]] = c.streamSent[c.streams[j]]
            PROVE  i = j
        <4>1. First(e) + (i - 1) = First(e) + (j - 1)
          BY <2>1, <3>1
        <4> QED BY <2>2, <4>1
      <3> QED BY <3>1
    <2>8. Len(c.streams) + One(BeforePut(e)) = m
      BY <2>1, <2>2, <2>3
    <2>9. \A i \in 1 .. m : c.streamSent[c.streams[i]] \in Streams
      BY <2>1
    <2> QED BY <2>1, <2>3, <2>6, <2>7, <2>8, <2>9 DEF RingOf, c, m
  <1> QED BY <1>1, RingsIs DEF AllRings

LEMMA InitStreams ==
  ASSUME Init
  PROVE  StreamsExact
  <1> DEFINE n == NumStreams(conf)
             k == One(HasLookAhead)
  <1>1. /\ n \in Nat /\ k \in {0, 1} /\ k <= n /\ StreamsOf("lookahead") = k /\ StreamsOf("encoder") = n - k
        /\ First("lookahead") = 1 /\ First("encoder") = k + 1 /\ Encoders = {"lookahead", "encoder"}
        /\ strRefs = [s \in Streams |-> IF s <= n THEN 1 ELSE 0]
    BY InitFacts, ThreadsAre DEF First
  <1>2. ASSUME NEW s \in Streams PROVE strRefs[s] = StreamHolders(s)
    <2>1. ~Written("lookahead", s) /\ ~Written("encoder", s)
      BY <1>1, InitPlaces DEF Written
    <2>2. \A e \in Encoders : Queued(e, s) <=> \E i \in 1 .. StreamsOf(e) : First(e) + (i - 1) = s
      BY InitContexts, InitPlaces DEF Queued
    <2>3. s \in Nat /\ s > 0
      BY Sizes DEF Streams
    <2>4. Queued("lookahead", s) <=> \E i \in 1 .. k : 1 + (i - 1) = s
      BY <1>1, <2>2
    <2>5. Queued("encoder", s) <=> \E i \in 1 .. n - k : k + 1 + (i - 1) = s
      BY <1>1, <2>2
    <2>6. strRefs[s] = IF s <= n THEN 1 ELSE 0
      BY <1>1
    <2> HIDE DEF n, k
    <2>7. Queued("lookahead", s) <=> s <= k
      <3>1. s <= k => s \in 1 .. k /\ 1 + (s - 1) = s
        BY <1>1, <2>3
      <3> QED BY <1>1, <2>3, <2>4, <3>1
    <2>8. Queued("encoder", s) <=> s > k /\ s <= n
      <3>1. s > k /\ s <= n => s - k \in 1 .. n - k /\ k + 1 + ((s - k) - 1) = s
        BY <1>1, <2>3
      <3>2. ASSUME NEW i \in 1 .. n - k, k + 1 + (i - 1) = s PROVE s > k /\ s <= n
        BY <1>1, <2>3, <3>2
      <3> QED BY <2>5, <3>1, <3>2
    <2>9. CASE s <= k
      BY <1>1, <2>1, <2>3, <2>6, <2>7, <2>8, <2>9 DEF StreamHolders, One
    <2>10. CASE s > k /\ s <= n
      BY <1>1, <2>1, <2>3, <2>6, <2>7, <2>8, <2>10 DEF StreamHolders, One
    <2>11. CASE s > n
      BY <1>1, <2>1, <2>3, <2>6, <2>7, <2>8, <2>11 DEF StreamHolders, One
    <2> QED BY <1>1, <2>3, <2>9, <2>10, <2>11
  <1> QED BY <1>2 DEF StreamsExact

LEMMA InitParts ==
  ASSUME Init
  PROVE  /\ AssertionsHold /\ ThreadPlaces /\ Lives /\ EndsOfStream /\ Refusals /\ PicturesInOrder
         /\ SourcesHeld /\ Permits
  <1>1. /\ fifo = <<>> /\ ~bEndOfStream /\ ~eosFinished /\ ~hFinished /\ next = 1 /\ given = <<>>
        /\ refused = 0 /\ ok
    BY DEF Init
  <1>2. /\ th["main"].pc = "source" /\ (\A e \in Encoders : th[e].pc = "poll" /\ th[e].e = "encoder")
        /\ (\A t \in Threads : ~Passing(t) /\ th[t].pc \in {"source", "poll"})
        /\ (\A t \in Threads, e \in Encoders : ~Before(t, e))
        /\ (\A e \in Encoders : ~InCallback(e) /\ ~BeforePut(e) /\ ~Finishing(e))
        /\ \A e \in Encoders : ~Released(e) /\ ~Stopped(e) /\ ~Closed(e)
    BY InitPlaces
  <1>3. \A e \in Encoders :
           /\ enc[e].frames = <<>> /\ enc[e].slice = 0 /\ enc[e].eos = "no" /\ ~enc[e].destroyed
           /\ enc[e].shouldContinue /\ enc[e].ok /\ enc[e].permits = MaxCmd - 1 /\ enc[e].poolIds = MaxCmd
           /\ enc[e].sourceSent = [p \in Pictures |-> FALSE]
    BY InitContexts
  <1>4. /\ "main" \in Threads /\ "lookahead" \in Encoders /\ "encoder" \in Encoders
        /\ "lookahead" \in Threads /\ "main" \notin Encoders /\ Used \in SUBSET Encoders
    BY ThreadsAre, UsedAre
  <1>5. AssertionsHold
    BY <1>1, <1>3 DEF AssertionsHold
  <1>6. ThreadPlaces
    <2>1. ~HasLookAhead => enc["lookahead"] = CreateChannel /\ th["lookahead"] = Idle
      <3> SUFFICES ASSUME ~HasLookAhead PROVE enc["lookahead"] = CreateChannel /\ th["lookahead"] = Idle
        OBVIOUS
      <3>1. enc["lookahead"] = Filled(CreateChannel, 1, 0) /\ th["lookahead"] = Idle
        BY <1>4, InitFacts DEF First, StreamsOf, One
      <3>2. [i \in 0 .. MaxStream - 1 |-> IF i < 0 THEN 1 + i ELSE NoStream] = CreateChannel.streamSent
        BY DEF CreateChannel
      <3>3. [i \in 1 .. 0 |-> i - 1] = CreateChannel.streams
        BY DEF CreateChannel
      <3>4. CreateChannel.curStreamSent = 0
        BY DEF CreateChannel
      <3>5. Filled(CreateChannel, 1, 0) = CreateChannel
        <4>1. Filled(CreateChannel, 1, 0) =
                [CreateChannel EXCEPT !.streamSent = CreateChannel.streamSent, !.curStreamSent = CreateChannel.curStreamSent,
                                      !.streams = CreateChannel.streams]
          BY <3>2, <3>3, <3>4 DEF Filled
        <4>2. CreateChannel \in Contexts
          BY ChannelIs
        <4> HIDE DEF CreateChannel
        <4> QED BY <4>1, <4>2 DEF Contexts
      <3> QED BY <3>1, <3>5
    <2> QED BY <1>1, <1>2, <1>4, <2>1 DEF ThreadPlaces
  <1>7. Lives
    BY <1>2, <1>3, <1>4 DEF Lives
  <1>8. EndsOfStream
    BY <1>1, <1>2, <1>3, <1>4 DEF EndsOfStream, Feeding, Stopping
  <1>9. Refusals
    BY <1>1, <1>2 DEF Refusals
  <1>10. PicturesInOrder
    <2>1. Len(given) = 0 /\ Len(fifo) = 0 /\ Len(enc["lookahead"].frames) = 0
      BY <1>1, <1>3, <1>4
    <2>2. OnTheWay = 0
      BY <1>2, <1>4, <2>1 DEF OnTheWay, One
    <2>3. Reported = 0
      BY <1>2, <1>4, <2>1, <2>2 DEF Reported, One
    <2>4. Accepted("lookahead") = 0
      BY <1>4, <2>1, <2>3, ThreadsAre DEF Accepted
    <2>5. next - 1 = Accepted("lookahead") + One(Before("main", "lookahead")) + refused
      BY <1>1, <1>2, <1>4, <2>4 DEF One
    <2>6. given = [i \in 1 .. Len(given) |-> i] /\ next <= NumPictures + 1
      BY <1>1, <2>1, Sizes
    <2> QED BY <1>1, <1>2, <1>3, <1>4, <2>5, <2>6 DEF PicturesInOrder
  <1>11. SourcesHeld
    <2>1. conf.numSlices \in Nat \ {0}
      BY InitFacts, SettingsAre
    <2>2. ASSUME NEW e \in Encoders
          PROVE  /\ 0 < conf.numSlices /\ DOMAIN enc[e].frames = {} /\ \A p \in Pictures : ~enc[e].sourceSent[p]
      BY <1>3, <2>1
    <2> QED BY <1>2, <1>3, <1>4, <2>2 DEF SourcesHeld
  <1>12. Permits
    <2>1. ASSUME NEW e \in Encoders PROVE PermitsOf(e)
      <3>1. Cardinality(SourcesSent(enc[e])) = 0
        BY <1>3, SentNone
      <3>2. Pending(e) = 0
        BY <1>2 DEF Pending, One
      <3> QED BY <1>3, <3>1, <3>2, Sizes DEF PermitsOf
    <2> QED BY <2>1 DEF Permits, PermitsOf, Pending
  <1> QED BY <1>5, <1>6, <1>7, <1>8, <1>9, <1>10, <1>11, <1>12

LEMMA InvInit ==
  ASSUME Init
  PROVE  EncoderInv
  <1>1. TypeOK /\ RingOfStreams /\ StreamsExact
    BY InitTypes, InitRings, InitStreams
  <1>2. /\ AssertionsHold /\ ThreadPlaces /\ Lives /\ EndsOfStream /\ Refusals /\ PicturesInOrder
        /\ SourcesHeld /\ Permits
    BY InitParts
  <1>3. /\ fifo = <<>> /\ srcRefs = [p \in Pictures |-> 0] /\ qpRefs = [u \in Uses |-> 0]
        /\ srcPool.free = FrameBuffers(conf) /\ qpPool.free = FrameBuffers(conf)
    BY DEF Init
  <1>4. /\ \A t \in Threads : ~Passing(t) /\ ~HasTable(t) /\ th[t].pc \in {"source", "poll"}
        /\ "main" \in Threads /\ "lookahead" \in Threads /\ "encoder" \in Threads
        /\ "lookahead" \in Encoders /\ "encoder" \in Encoders
    BY InitPlaces, ThreadsAre
  <1>5. \A e \in Encoders : enc[e].sourceSent = [p \in Pictures |-> FALSE]
    BY InitContexts
  <1>6. SourcesExact
    <2>1. ASSUME NEW p \in Pictures PROVE SourceHolders(p) = 0
      <3>1. ~SourceAt("main", p) /\ ~SourceAt("lookahead", p) /\ ~Sent("lookahead", p) /\ ~Sent("encoder", p) /\ ~InFifo(p)
        BY <1>3, <1>4, <1>5 DEF SourceAt, Sent, InFifo
      <3> QED BY <3>1 DEF SourceHolders, One
    <2> QED BY <1>3, <2>1 DEF SourcesExact
  <1>7. TablesExact
    <2>1. ASSUME NEW u \in Uses PROVE TableHolders(u) = 0
      <3>1. ~TableAt("main", u) /\ ~TableAt("lookahead", u) /\ ~TableDue("lookahead", u) /\ ~TableDue("encoder", u)
        BY <1>4 DEF TableAt, TableDue
      <3>2. ~SentFor(u)
        BY <1>5, UsesAre DEF SentFor
      <3> QED BY <3>1, <3>2 DEF TableHolders, One
    <2> QED BY <1>3, <2>1 DEF TablesExact
  <1>8. SourcePool /\ TablePool
    <2>1. {p \in Pictures : srcRefs[p] > 0} = {} /\ {u \in Uses : qpRefs[u] > 0} = {}
      BY <1>3
    <2>2. FrameBuffers(conf) \in Nat
      BY InitFacts
    <2>3. Count({p \in Pictures : srcRefs[p] > 0}) = 0 /\ Count({u \in Uses : qpRefs[u] > 0}) = 0
      BY <2>1, FS_EmptySet DEF Count
    <2>4. FrameBuffers(conf) + 0 = FrameBuffers(conf)
      BY <2>2
    <2> HIDE DEF FrameBuffers
    <2>5. SourcePool
      BY <1>3, <2>3, <2>4 DEF SourcePool
    <2>6. TablePool
      BY <1>3, <2>3, <2>4 DEF TablePool
    <2> QED BY <2>5, <2>6
  <1>9. SourceCounts /\ TableCounts /\ StreamCounts /\ FramesHeld
    BY <1>1, <1>2, <1>6, <1>7, SourcesNow, TablesNow, StreamsNow, FramesNow
    DEF SourcesAgree, TablesAgree, StreamsAgree, FramesKnown, Lists, TypeOK
  <1> QED BY <1>1, <1>2, <1>8, <1>9, CountsIs DEF EncoderInv, AllCounts

-----------------------------------------------------------------------------
(* The theorems *)

\* Where main stops, all pictures are encoded.
LEMMA AllEncoded ==
  ASSUME EncoderInv, refused = 0, th["main"].pc \in {"stopLookahead", "stopEncoder", "end"}
  PROVE  Len(given) = Cardinality(Pictures) /\ enc["encoder"].frames = <<>>
  <1>0. /\ TypeOK /\ ThreadPlaces /\ EndsOfStream /\ PicturesInOrder
        /\ "main" \in Threads /\ "lookahead" \in Threads /\ "lookahead" \in Encoders /\ "encoder" \in Encoders
        /\ "encoder" # "lookahead"
    BY ThreadsAre DEF EncoderInv
  <1>1. th["main"].pc \in Stopping /\ ~Passing("main") /\ ~Before("main", "lookahead") /\ ~Before("main", "encoder")
    BY DEF Stopping, Passing, Before
  <1>2. enc["encoder"].frames = <<>> /\ fifo = <<>>
    <2>1. enc["encoder"].eos = "told"
      BY <1>0, <1>1 DEF EndsOfStream
    <2> QED BY <1>0, <1>1, <2>1 DEF EndsOfStream
  <1>3. enc["lookahead"].frames = <<>> /\ th["lookahead"].pc \in {"poll", "wait", "ended"}
    <2>1. CASE HasLookAhead
      <3>1. ~Feeding
        BY <1>1 DEF Feeding
      <3>2. enc["lookahead"].eos # "no" /\ enc["lookahead"].eos # "asked"
        BY <1>0, <1>1, <2>1, <3>1 DEF EndsOfStream
      <3>3. enc["lookahead"].eos \in {"no", "asked", "told"}
        BY <1>0, ContextIs DEF TypeOK
      <3> QED BY <1>0, <3>2, <3>3 DEF EndsOfStream
    <2>2. CASE ~HasLookAhead
      BY <1>0, <2>2, ChannelIs DEF ThreadPlaces, Idle
    <2> QED BY <2>1, <2>2
  <1>4. Accepted("lookahead") = Len(given) /\ Len(given) \in Nat
    <2>1. Len(given) \in Nat /\ Len(fifo) = 0 /\ Len(enc["lookahead"].frames) = 0
      BY <1>0, <1>2, <1>3, NumbersAre
    <2>2. OnTheWay = Len(given)
      BY <1>1, <1>3, <2>1 DEF OnTheWay, One, Before
    <2>3. Reported = Len(given)
      BY <1>3, <2>1, <2>2 DEF Reported, One
    <2> QED BY <1>0, <2>1, <2>3 DEF Accepted
  <1>5. next = NumPictures + 1
    BY <1>0, <1>1 DEF PicturesInOrder
  <1>6. next - 1 = Accepted("lookahead") + 0 + 0
    BY <1>0, <1>1 DEF PicturesInOrder, One
  <1>7. Len(given) = NumPictures
    BY <1>4, <1>5, <1>6, Sizes
  <1>8. Cardinality(Pictures) = NumPictures
    BY Sizes, FS_Interval DEF Pictures
  <1> QED BY <1>2, <1>7, <1>8

LEMMA InvImplies ==
  ASSUME EncoderInv
  PROVE  ReferencesExact /\ AssertionsHold /\ EncodedInOrder
  BY AllEncoded DEF EncoderInv, ReferencesExact, EncodedInOrder, PicturesInOrder

\* The inductive invariant holds when the driver refuses nothing that the LookAhead is given:
\* threads, contexts, counts and pictures fit together (EncoderInv).
THEOREM EncoderInvariant ==
  ASSUME DriverAccepts
  PROVE  Spec => []EncoderInv
  <1>1. Init => EncoderInv
    BY InvInit
  <1>2. EncoderInv /\ [Next]_vars => EncoderInv'
    BY InvNext
  <1> QED BY <1>1, <1>2, PTL DEF Spec

\* Every count of references is the number of holders and every buffer nobody holds is in its
\* pool, whatever the number of pictures, of B pictures and of slices, of permits and of
\* streams, with and without LookAhead (Com_Encoder.c, sink_lookahead.h, BufPool.cpp).
THEOREM ReferencesAreExact ==
  ASSUME DriverAccepts
  PROVE  Spec => []ReferencesExact
  <1>1. EncoderInv => ReferencesExact
    BY InvImplies
  <1> QED BY <1>1, EncoderInvariant, PTL

\* No assertion of the encoder library or of its pools fails (Com_Encoder.c, AL_Buffer_Destroy).
THEOREM NoAssertionFails ==
  ASSUME DriverAccepts
  PROVE  Spec => []AssertionsHold
  <1>1. EncoderInv => AssertionsHold
    BY InvImplies
  <1> QED BY <1>1, EncoderInvariant, PTL

\* The encoder is given every picture once and in order, and has encoded all of them when the
\* application stops (sink_lookahead.h, main.cpp).
THEOREM PicturesEncodedInOrder ==
  ASSUME DriverAccepts
  PROVE  Spec => []EncodedInOrder
  <1>1. EncoderInv => EncodedInOrder
    BY InvImplies
  <1> QED BY <1>1, EncoderInvariant, PTL
=============================================================================

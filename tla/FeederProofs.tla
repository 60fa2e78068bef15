---------------------------- MODULE FeederProofs ----------------------------
(***************************************************************************)
(* Safety of the input of the decoder for every size of the queue, of the  *)
(* circular buffer and of the stack of commands: the semaphore counts the  *)
(* pictures on their way, and what they read is not freed before they end. *)
(***************************************************************************)
EXTENDS Feeder, FiniteSetTheorems, FunctionTheorems, SequenceTheorems, TLAPS

\* A set of natural numbers that is not empty has a least element.
LEMMA MinIs ==
  ASSUME NEW S \in SUBSET Nat, S # {}
  PROVE  Min(S) \in S /\ \A x \in S : Min(S) <= x
  <1>1. PICK x \in S : \A y \in S : <<y, x>> \notin OpToRel(<, Nat)
    <2>1. IsWellFoundedOn(OpToRel(<, Nat), Nat)
      BY NatLessThanWellFounded
    <2> QED BY <2>1, WFMin
  <1>2. \A y \in S : x <= y
    <2>1. ASSUME NEW y \in S PROVE x <= y
      <3>1. ~(y < x)
        BY <1>1 DEF OpToRel
      <3> QED BY <3>1
    <2> QED BY <2>1
  <1> QED BY <1>2 DEF Min

\* The lesser of two numbers.
LEMMA LesserIs ==
  ASSUME NEW a \in Nat, NEW b \in Nat
  PROVE  Min({a, b}) \in Nat /\ Min({a, b}) <= a /\ Min({a, b}) <= b
  BY MinIs, {a, b} \in SUBSET Nat

\* How many of one.
OneUnless(x, v) == IF x = v THEN 0 ELSE 1

LEMMA CountOfOne ==
  ASSUME NEW x, NEW v
  PROVE  Cardinality({h \in {x} : h # v}) = OneUnless(x, v)
  <1>1. CASE x = v
    <2>1. {h \in {x} : h # v} = {}
      BY <1>1
    <2> QED BY <1>1, <2>1, FS_EmptySet DEF OneUnless
  <1>2. CASE x # v
    <2>1. {h \in {x} : h # v} = {x}
      BY <1>2
    <2> QED BY <1>2, <2>1, FS_Singleton DEF OneUnless
  <1> QED BY <1>1, <1>2

\* A place of the circular buffer some pieces after another.
LEMMA RingIs ==
  ASSUME NEW o \in 0 .. CircSize - 1, NEW k \in 0 .. CircSize - 1
  PROVE  /\ (o + k) % CircSize \in 0 .. CircSize - 1
         /\ (o + k) % CircSize = IF o + k < CircSize THEN o + k ELSE o + k - CircSize
  BY FeederAssumption

\* Before is the inverse of OffsetOf.
LEMMA OffsetsAre ==
  ASSUME off \in 0 .. CircSize - 1
  PROVE  /\ \A n \in 0 .. CircSize - 1 :
              OffsetOf(n) \in 0 .. CircSize - 1 /\ Before(OffsetOf(n)) = n
         /\ \A o \in 0 .. CircSize - 1 :
              Before(o) \in 0 .. CircSize - 1 /\ OffsetOf(Before(o)) = o
         /\ Before(off) = 0
  <1>0. CircSize \in Nat \ {0}
    BY FeederAssumption
  <1>1. ASSUME NEW n \in 0 .. CircSize - 1
        PROVE  OffsetOf(n) \in 0 .. CircSize - 1 /\ Before(OffsetOf(n)) = n
    <2>1. OffsetOf(n) \in 0 .. CircSize - 1 /\ OffsetOf(n) = IF off + n < CircSize THEN off + n ELSE off + n - CircSize
      BY RingIs DEF OffsetOf
    <2> HIDE DEF OffsetOf
    <2> QED BY <1>0, <2>1 DEF Before
  <1>2. ASSUME NEW o \in 0 .. CircSize - 1
        PROVE  Before(o) \in 0 .. CircSize - 1 /\ OffsetOf(Before(o)) = o
    <2>1. Before(o) \in 0 .. CircSize - 1 /\ Before(o) = IF o < off THEN o + CircSize - off ELSE o - off
      BY <1>0 DEF Before
    <2> HIDE DEF Before
    <2>2. OffsetOf(Before(o)) = IF off + Before(o) < CircSize THEN off + Before(o) ELSE off + Before(o) - CircSize
      BY <2>1, RingIs DEF OffsetOf
    <2> HIDE DEF OffsetOf
    <2> QED BY <1>0, <2>1, <2>2
  <1>3. Before(off) = 0
    BY <1>0 DEF Before
  <1> QED BY <1>1, <1>2, <1>3

\* Two commands that are less than a stack apart have different slots.
LEMMA SlotsDiffer ==
  ASSUME NEW a \in Nat, NEW b \in Nat, a < b, b < a + StackSize
  PROVE  a % StackSize # b % StackSize /\ a % StackSize \in 0 .. StackSize - 1
         /\ b % StackSize \in 0 .. StackSize - 1
  <1>0. StackSize \in Nat \ {0}
    BY FeederAssumption
  <1>a. \A c \in Nat : c = (StackSize * (c \div StackSize)) + (c % StackSize)
                         /\ c \div StackSize \in Int
    BY <1>0
  <1>1. PICK q \in Int : a = (StackSize * q) + (a % StackSize)
    BY <1>a
  <1>2. PICK r \in Int : b = (StackSize * r) + (b % StackSize)
    BY <1>a
  <1>3. a % StackSize \in 0 .. StackSize - 1 /\ b % StackSize \in 0 .. StackSize - 1
    BY <1>0
  <1>4. ASSUME a % StackSize = b % StackSize PROVE FALSE
    <2> DEFINE m == a % StackSize
    <2>1. a = (StackSize * q) + m /\ b = (StackSize * r) + m /\ m \in Int
      BY <1>1, <1>2, <1>3, <1>4
    <2> HIDE DEF m
    <2>2. CASE r <= q
      <3>1. StackSize * r <= StackSize * q
        BY <1>0, <2>2
      <3>2. (StackSize * r) + m <= (StackSize * q) + m
        BY <1>0, <2>1, <3>1
      <3> QED BY <2>1, <3>2
    <2>3. CASE r >= q + 1
      <3>1. StackSize * r >= StackSize * (q + 1)
        BY <1>0, <2>3
      <3>2. StackSize * (q + 1) = (StackSize * q) + StackSize
        BY <1>0
      <3>3. (StackSize * r) + m >= (StackSize * q) + m + StackSize
        BY <1>0, <2>1, <3>1, <3>2
      <3> QED BY <1>0, <2>1, <3>3
    <2> QED BY <2>2, <2>3
  <1> QED BY <1>3, <1>4

\* Further along the ring: k pieces after the place d pieces after the start.
LEMMA RingsAdd ==
  ASSUME NEW o \in 0 .. CircSize - 1, NEW d \in 0 .. CircSize - 1, NEW n \in d .. CircSize - 1
  PROVE  (((o + d) % CircSize) + (n - d)) % CircSize = (o + n) % CircSize
  <1>0. CircSize \in Nat \ {0}
    BY FeederAssumption
  <1> DEFINE p == (o + d) % CircSize
  <1>1. p \in 0 .. CircSize - 1 /\ p = IF o + d < CircSize THEN o + d ELSE o + d - CircSize
    BY RingIs
  <1>2. (o + n) % CircSize = IF o + n < CircSize THEN o + n ELSE o + n - CircSize
    BY <1>0, RingIs
  <1> HIDE DEF p
  <1>3. n - d \in 0 .. CircSize - 1
    BY <1>0
  <1>4. (p + (n - d)) % CircSize = IF p + (n - d) < CircSize THEN p + (n - d) ELSE p + (n - d) - CircSize
    BY <1>1, <1>3, RingIs
  <1>5. (p + (n - d)) % CircSize = (o + n) % CircSize
    BY <1>0, <1>1, <1>2, <1>4
  <1> QED BY <1>5 DEF p
-----------------------------------------------------------------------------
(* Sequences *)

\* A sequence and the one with an element more at its end.
LEMMA SeqEnd ==
  ASSUME NEW S, NEW q \in Seq(S), NEW t \in S
  PROVE  /\ Len(q) \in Nat /\ DOMAIN q = 1 .. Len(q) /\ Append(q, t) \in Seq(S)
         /\ Len(Append(q, t)) = Len(q) + 1 /\ DOMAIN Append(q, t) = 1 .. Len(q) + 1
         /\ \A i \in 1 .. Len(q) : Append(q, t)[i] = q[i]
         /\ Append(q, t)[Len(q) + 1] = t
  BY AppendProperties, LenProperties

\* A sequence and the one without its head.
LEMMA SeqHead ==
  ASSUME NEW S, NEW q \in Seq(S), q # <<>>
  PROVE  /\ Len(q) \in Nat /\ Len(q) > 0 /\ DOMAIN q = 1 .. Len(q)
         /\ Head(q) = q[1] /\ Head(q) \in S
         /\ Tail(q) \in Seq(S) /\ Len(Tail(q)) = Len(q) - 1 /\ DOMAIN Tail(q) = 1 .. Len(q) - 1
         /\ \A i \in 1 .. Len(q) - 1 : Tail(q)[i] = q[i + 1]
  <1>1. Len(q) \in Nat /\ Len(q) > 0 /\ DOMAIN q = 1 .. Len(q)
    BY LenProperties, EmptySeq
  <1>2. /\ Head(q) = q[1] /\ Head(q) \in S
        /\ Tail(q) \in Seq(S) /\ Len(Tail(q)) = Len(q) - 1
    BY <1>1, HeadTailProperties
  <1> QED BY <1>1, <1>2, HeadTailProperties, LenProperties

\* How often a buffer is in a queue.
PlacesOf(q, b) == {i \in DOMAIN q : q[i] = b}
TimesIn(q, b) == Cardinality(PlacesOf(q, b))
OneIf(P) == IF P THEN 1 ELSE 0

LEMMA PlacesFinite ==
  ASSUME NEW S, NEW q \in Seq(S), NEW b
  PROVE  IsFiniteSet(PlacesOf(q, b)) /\ TimesIn(q, b) \in Nat
         /\ (q = <<>> => TimesIn(q, b) = 0)
  <1>1. Len(q) \in Nat /\ DOMAIN q = 1 .. Len(q)
    BY LenProperties
  <1>2. IsFiniteSet(1 .. Len(q)) /\ PlacesOf(q, b) \subseteq 1 .. Len(q)
    BY <1>1, FS_Interval DEF PlacesOf
  <1>3. IsFiniteSet(PlacesOf(q, b))
    BY <1>2, FS_Subset
  <1>4. TimesIn(q, b) \in Nat
    BY <1>3, FS_CardinalityType DEF TimesIn
  <1>5. q = <<>> => PlacesOf(q, b) = {}
    BY <1>1, EmptySeq DEF PlacesOf
  <1> QED BY <1>3, <1>4, <1>5, FS_EmptySet DEF TimesIn

\* A buffer queued counts once more.
LEMMA TimesMore ==
  ASSUME NEW S, NEW q \in Seq(S), NEW t \in S, NEW b
  PROVE  TimesIn(Append(q, t), b) = TimesIn(q, b) + OneIf(t = b)
  <1>1. /\ Len(q) \in Nat /\ DOMAIN q = 1 .. Len(q) /\ DOMAIN Append(q, t) = 1 .. Len(q) + 1
        /\ \A i \in 1 .. Len(q) : Append(q, t)[i] = q[i]
        /\ Append(q, t)[Len(q) + 1] = t
    BY SeqEnd
  <1>2. CASE t = b
    <2>1. PlacesOf(Append(q, t), b) = PlacesOf(q, b) \cup {Len(q) + 1}
      BY <1>1, <1>2 DEF PlacesOf
    <2>2. Len(q) + 1 \notin PlacesOf(q, b)
      BY <1>1 DEF PlacesOf
    <2> QED BY <1>2, <2>1, <2>2, PlacesFinite, FS_AddElement DEF TimesIn, OneIf
  <1>3. CASE t # b
    <2>1. PlacesOf(Append(q, t), b) = PlacesOf(q, b)
      BY <1>1, <1>3 DEF PlacesOf
    <2> QED BY <1>3, <2>1, PlacesFinite DEF TimesIn, OneIf
  <1> QED BY <1>2, <1>3

\* A buffer taken counts once less.
LEMMA TimesLess ==
  ASSUME NEW S, NEW q \in Seq(S), q # <<>>, NEW b
  PROVE  TimesIn(q, b) = TimesIn(Tail(q), b) + OneIf(Head(q) = b)
  <1>1. /\ Len(q) \in Nat /\ Len(q) > 0 /\ DOMAIN q = 1 .. Len(q)
        /\ Head(q) = q[1] /\ Tail(q) \in Seq(S) /\ DOMAIN Tail(q) = 1 .. Len(q) - 1
        /\ \A i \in 1 .. Len(q) - 1 : Tail(q)[i] = q[i + 1]
    BY SeqHead
  <1> DEFINE T == PlacesOf(Tail(q), b)
             R == PlacesOf(q, b) \ {1}
             f == [i \in T |-> i + 1]
  <1>2. T \subseteq 1 .. Len(q) - 1
    BY <1>1 DEF PlacesOf
  <1>3. \A i \in T : i + 1 \in R
    BY <1>1, <1>2 DEF PlacesOf
  <1>4. \A j \in R : j - 1 \in T /\ (j - 1) + 1 = j
    BY <1>1 DEF PlacesOf
  <1>5. f \in Bijection(T, R)
    BY <1>2, <1>3, <1>4, Fun_IsBij
  <1>6. IsFiniteSet(T)
    BY <1>1, PlacesFinite
  <1>7. Cardinality(T) = Cardinality(R)
    <2>1. ExistsBijection(T, R)
      BY <1>5 DEF ExistsBijection
    <2> QED BY <1>6, <2>1, FS_Bijection
  <1>8. Cardinality(R) = Cardinality(PlacesOf(q, b)) - OneIf(Head(q) = b)
    <2>1. CASE Head(q) = b
      <3>1. 1 \in PlacesOf(q, b)
        BY <1>1, <2>1 DEF PlacesOf
      <3> QED BY <2>1, <3>1, PlacesFinite, FS_RemoveElement DEF OneIf
    <2>2. CASE Head(q) # b
      <3>1. R = PlacesOf(q, b)
        BY <1>1, <2>2 DEF PlacesOf
      <3>2. Cardinality(PlacesOf(q, b)) \in Nat
        BY PlacesFinite DEF TimesIn
      <3>3. OneIf(Head(q) = b) = 0
        BY <2>2 DEF OneIf
      <3> HIDE DEF R
      <3> QED BY <3>1, <3>2, <3>3
    <2> QED BY <2>1, <2>2
  <1>9. OneIf(Head(q) = b) \in Nat /\ Cardinality(T) \in Nat
        /\ Cardinality(PlacesOf(q, b)) \in Nat
    BY <1>6, PlacesFinite, FS_CardinalityType DEF OneIf, TimesIn
  <1> HIDE DEF T, R
  <1> QED BY <1>7, <1>8, <1>9 DEF TimesIn, T
-----------------------------------------------------------------------------
(* Units *)

\* The end of a unit lies after the slices decoded and before what the detector has seen.
LEMMA UnitIs ==
  ASSUME from \in Nat, seen \in Nat, UnitFound
  PROVE  UnitEnd \in from + 1 .. seen - 1
  <1>1. Slices \in SUBSET Nat /\ \A i \in Slices : i \in from + 1 .. seen
    BY DEF Slices
  <1>2. Followers \in SUBSET Slices /\ Followers # {} /\ \A i \in Followers : i > Min(Slices)
    BY DEF Followers, UnitFound
  <1>3. Min(Slices) \in Slices
    BY <1>1, <1>2, MinIs
  <1>4. Min(Followers) \in Followers
    BY <1>1, <1>2, MinIs
  <1>5. Min(Followers) \in from + 1 .. seen /\ Min(Slices) \in from + 1 .. seen
        /\ Min(Followers) > Min(Slices)
    BY <1>1, <1>2, <1>3, <1>4
  <1> QED BY <1>5 DEF UnitEnd
-----------------------------------------------------------------------------
(* Who changes what *)

\* What the application leaves to the slave and to the hardware.
ALeaves ==
    UNCHANGED <<workBuf, endOfOutput, circVars, picVars, hVars, sem, pcS, sliceMode>>

\* What the slave leaves to the application and to the hardware.
SLeaves == UNCHANGED <<data, blk2, pcH, aVars, sliceMode>>

\* What the hardware leaves to the two.
HLeaves ==
    UNCHANGED <<queueVars, circVars, strOff, blk1, picture, begin, aVars, pcS, sliceMode>>

ANext ==
    \/ \E b \in Buffers, c \in Contents : PushBuffer(b, c)
    \/ Flush \/ Destroy \/ ACall \/ Signal \/ Over

\* Every step is one of the three.
LEMMA ThreeActors == Next => ANext \/ SNext \/ UnitError \/ HNext
  BY DEF Next, ANext

LEMMA AKeeps == ANext => ALeaves
  BY DEF ANext, ALeaves, PushBuffer, Flush, Destroy, ACall, Enqueue, Notify, NotifyFlush, StopSlave,
         JoinSlave, Signal, Over, AStep, queueVars, circVars, picVars, hVars, vars

LEMMA SKeeps == SNext \/ UnitError => SLeaves
  BY DEF SNext, SLeaves, UnitError, WakeUp, Consume, NothingToTransfer, Transfer, RefillStartCodes,
         FindUnit, NoMoreUnit, BeginPicture, UnitDone, CancelPicture, SkipSlice, LaunchSlice,
         LaunchPicture, CheckFull, WaitWhenFull, ConsumeWhenFull, DropBuffer, FlushInput,
         ReleaseFrames, CheckLast, WaitWhenFlushing, SignalEos, SStep, hVars

LEMMA HKeeps == HNext => HLeaves
  BY DEF HNext, HLeaves, EndPicture, SignalFeeder, PostSemaphore, HStep
-----------------------------------------------------------------------------
(* Types *)

\* The parts of the types, by who changes them.
AppTypes ==
    /\ pcA \in {"run", "queue", "notify", "flush", "stop", "join", "destroyed"}
    /\ call \in [name : {"none", "push", "flush", "destroy"}, buf : Inputs \cup {NoBuf}]
    /\ pcA \in {"queue", "notify"} => call.name # "none" /\ call.buf \in Inputs
    /\ data \in [Inputs -> Seq(Pieces)]
QueueTypes ==
    /\ fifo \in Seq(Inputs) /\ Len(fifo) <= MaxElem
    /\ workBuf \in Inputs \cup {NoBuf}
    /\ metas \in [Inputs -> Seq([off : Nat, avail : Nat, last : BOOLEAN])]
CircTypes ==
    /\ circ \in Seq(Pieces) /\ Len(circ) <= CircSize /\ off \in 0 .. CircSize - 1
    /\ from \in 0 .. seen /\ seen \in 0 .. Len(circ)
    /\ curOff \in 0 .. CircSize - 1 /\ base \in Nat
PicTypes ==
    /\ sem \in 0 .. StackSize
    /\ picture \in {"none", "begun", "partly"}
    /\ strOff \in [0 .. StackSize - 1 -> 0 .. CircSize - 1]
    /\ chan \in Seq([first : Nat, last : Nat])
    /\ blk1 \in Nat /\ blk2 \in Nat /\ begin \in Nat
StepLabels ==
    /\ pcS \in {"wait", "consume", "transfer", "decode", "search", "unit", "slice", "full",
                "waitFull", "consumeFull", "last", "flush", "drop", "release", "signalEos",
                "exited"}
    /\ pcH \in {"idle", "signal", "post"}

LEMMA TypesAre ==
  (TypeOK /\ StepTypes) <=> (AppTypes /\ QueueTypes /\ CircTypes /\ PicTypes /\ StepLabels)
  BY DEF TypeOK, StepTypes, AppTypes, QueueTypes, CircTypes, PicTypes, StepLabels

LEMMA TypesAreNext ==
  (TypeOK /\ StepTypes)' <=> (AppTypes' /\ QueueTypes' /\ CircTypes' /\ PicTypes' /\ StepLabels')
  BY TypesAre, PTL

LEMMA InvTypes ==
  FeederInv => AppTypes /\ QueueTypes /\ CircTypes /\ PicTypes /\ StepLabels
  BY TypesAre DEF FeederInv, SemaphoreExact

\* The constants.
LEMMA Sizes == /\ MaxElem \in Nat \ {0} /\ CircSize \in Nat \ {0} /\ StackSize \in Nat \ {0}
               /\ NoBuf \notin Inputs /\ EosBuf \in Inputs /\ Buffers \subseteq Inputs
               /\ EosBuf \notin Buffers
               /\ Contents \subseteq Seq(Pieces) /\ EosNal \in Seq(Pieces)
  BY FeederAssumption DEF Inputs, EosNal, Pieces

LEMMA AppTypesKept ==
  ASSUME FeederInv, Next
  PROVE  AppTypes'
  <1>1. AppTypes
    BY InvTypes
  <1>2. CASE ANext
    <2>1. ASSUME NEW b \in Buffers, NEW c \in Contents, PushBuffer(b, c)
          PROVE  AppTypes'
      <3>1. c \in Seq(Pieces) /\ b \in Inputs
        BY Sizes
      <3> QED BY <1>1, <2>1, <3>1 DEF AppTypes, PushBuffer, AStep, Attach
    <2>2. CASE Flush
      BY <1>1, <2>2, Sizes DEF AppTypes, Flush, AStep, Attach
    <2>3. CASE Destroy
      BY <1>1, <2>3, Sizes DEF AppTypes, Destroy, AStep, Attach
    <2>4. CASE Enqueue
      BY <1>1, <2>4 DEF AppTypes, Enqueue, AStep
    <2>5. CASE Notify
      <3>1. pcA' \in {"run", "flush", "stop"}
        BY <1>1, <2>5 DEF AppTypes, Notify, AStep
      <3> QED BY <1>1, <2>5, <3>1 DEF AppTypes, Notify, AStep
    <2>6. CASE NotifyFlush
      BY <1>1, <2>6 DEF AppTypes, NotifyFlush, AStep
    <2>7. CASE StopSlave
      BY <1>1, <2>7 DEF AppTypes, StopSlave, AStep
    <2>8. CASE JoinSlave
      BY <1>1, <2>8 DEF AppTypes, JoinSlave, AStep
    <2>9. CASE Signal \/ Over
      BY <1>1, <2>9 DEF AppTypes, Signal, Over, aVars, queueVars, vars
    <2> QED BY <1>2, <2>1, <2>2, <2>3, <2>4, <2>5, <2>6, <2>7, <2>8, <2>9 DEF ANext, ACall
  <1>3. CASE SNext \/ UnitError
    BY <1>1, <1>3, SKeeps DEF AppTypes, SLeaves, aVars
  <1>4. CASE HNext
    BY <1>1, <1>4, HKeeps DEF AppTypes, HLeaves, aVars, queueVars
  <1> QED BY <1>2, <1>3, <1>4, ThreeActors
-----------------------------------------------------------------------------
(* The queue and its metadata *)

Metas == [off : Nat, avail : Nat, last : BOOLEAN]

\* The metadata a buffer needs: once for each time it is queued, held or to be queued.
Due(b) == TimesIn(fifo, b) + OneIf(workBuf = b) + OneIf(pcA = "queue" /\ call.buf = b)
MetaDue == \A b \in Inputs : Due(b) <= Len(metas[b])

LEMMA MetaDueIs == MetaEnough <=> MetaDue
  BY DEF MetaEnough, MetaDue, Due, Times, TimesIn, PlacesOf, OneIf

LEMMA MetaDueNext == MetaEnough' <=> MetaDue'
  BY MetaDueIs, PTL

\* What is due is a number.
LEMMA DueTypes ==
  ASSUME QueueTypes, NEW b \in Inputs
  PROVE  /\ TimesIn(fifo, b) \in Nat /\ Len(metas[b]) \in Nat
         /\ OneIf(workBuf = b) \in {0, 1} /\ OneIf(pcA = "queue" /\ call.buf = b) \in {0, 1}
  <1>1. TimesIn(fifo, b) \in Nat
    BY PlacesFinite DEF QueueTypes
  <1>2. metas[b] \in Seq(Metas)
    BY DEF QueueTypes, Metas
  <1>3. Len(metas[b]) \in Nat
    BY <1>2, LenProperties
  <1> QED BY <1>1, <1>3 DEF OneIf

\* A buffer in the queue or held has metadata; the first of the queue is an input.
LEMMA FirstHasMeta ==
  ASSUME QueueTypes, MetaDue, NEW b, b = IF workBuf # NoBuf THEN workBuf ELSE Head(fifo),
         workBuf # NoBuf \/ fifo # <<>>
  PROVE  b \in Inputs /\ metas[b] # <<>> /\ metas[b] \in Seq(Metas)
  <1>1. b \in Inputs
    <2>1. CASE workBuf # NoBuf
      BY <2>1 DEF QueueTypes
    <2>2. CASE workBuf = NoBuf
      <3>1. fifo \in Seq(Inputs) /\ fifo # <<>>
        BY <2>2 DEF QueueTypes
      <3>2. Head(fifo) \in Inputs
        BY <3>1, SeqHead
      <3> QED BY <2>2, <3>2
    <2> QED BY <2>1, <2>2
  <1>2. TimesIn(fifo, b) + OneIf(workBuf = b) >= 1
    <2>1. CASE workBuf # NoBuf
      BY <1>1, <2>1, DueTypes DEF OneIf
    <2>2. CASE workBuf = NoBuf
      <3>1. fifo \in Seq(Inputs) /\ fifo # <<>> /\ Head(fifo) = b
        BY <2>2 DEF QueueTypes
      <3>2. TimesIn(fifo, b) = TimesIn(Tail(fifo), b) + 1
        BY <3>1, TimesLess DEF OneIf
      <3>3. Tail(fifo) \in Seq(Inputs)
        BY <3>1, SeqHead
      <3>4. TimesIn(Tail(fifo), b) \in Nat
        BY <3>3, PlacesFinite
      <3> QED BY <1>1, <3>2, <3>4, DueTypes
    <2> QED BY <2>1, <2>2
  <1>3. Due(b) >= 1 /\ Due(b) <= Len(metas[b])
    BY <1>1, <1>2, DueTypes DEF Due, MetaDue
  <1>4. metas[b] \in Seq(Metas)
    BY <1>1 DEF QueueTypes, Metas
  <1>5. Due(b) \in Int /\ Len(metas[b]) \in Nat
    BY <1>1, DueTypes DEF Due
  <1>6. Len(metas[b]) >= 1
    BY <1>3, <1>5
  <1>7. metas[b] # <<>>
    BY <1>6, EmptySeq
  <1> QED BY <1>1, <1>4, <1>7

\* What Transfer does, with the names of its body.
TransferOf(b, meta, rest, n) ==
    /\ metas[b] # <<>> /\ metas[b] \in Seq(Metas) /\ meta = Head(metas[b])
    /\ n <= UnusedArea
    /\ rest = [meta EXCEPT !.off = @ + n, !.avail = @ - n]
    /\ IF workBuf # NoBuf THEN b = workBuf /\ fifo' = fifo
       ELSE fifo # <<>> /\ b = Head(fifo) /\ fifo' = Tail(fifo)
    /\ circ' = circ \o Memory(b, meta.off, n)
    /\ metas' = [metas EXCEPT ![b] = IF rest.avail = 0 THEN Tail(@) ELSE <<rest>> \o Tail(@)]
    /\ workBuf' = IF rest.avail = 0 THEN NoBuf ELSE b
LEMMA TransferIs ==
  ASSUME FeederInv, Transfer
  PROVE  \E b \in Inputs, meta \in Metas, rest \in Metas, n \in Nat : TransferOf(b, meta, rest, n)
  <1>0. QueueTypes /\ CircTypes /\ MetaDue
    BY InvTypes, MetaDueIs DEF FeederInv
  <1> DEFINE b == IF workBuf # NoBuf THEN workBuf ELSE Head(fifo)
             meta == Head(metas[b])
             n == Min({meta.avail, UnusedArea})
             rest == [meta EXCEPT !.off = @ + n, !.avail = @ - n]
  <1>1. b \in Inputs /\ metas[b] # <<>> /\ metas[b] \in Seq(Metas)
    <2>1. workBuf # NoBuf \/ fifo # <<>>
      BY DEF Transfer
    <2> QED BY <1>0, <2>1, FirstHasMeta
  <1>2. /\ fifo' = (IF workBuf # NoBuf THEN fifo ELSE Tail(fifo))
        /\ circ' = circ \o Memory(b, meta.off, n)
        /\ metas' = [metas EXCEPT ![b] = IF rest.avail = 0 THEN Tail(@) ELSE <<rest>> \o Tail(@)]
        /\ workBuf' = (IF rest.avail = 0 THEN NoBuf ELSE b)
        /\ (workBuf # NoBuf \/ fifo # <<>>)
    BY DEF Transfer
  <1>3. b = IF workBuf # NoBuf THEN workBuf ELSE Head(fifo)
    OBVIOUS
  <1> HIDE DEF b
  <1>4. meta \in Metas
    BY <1>1, SeqHead
  <1>5. UnusedArea \in Nat
    <2>1. Len(circ) \in Nat /\ Len(circ) <= CircSize
      BY <1>0, LenProperties DEF CircTypes
    <2> QED BY <2>1, Sizes DEF UnusedArea
  <1>6. meta = Head(metas[b])
    OBVIOUS
  <1> HIDE DEF meta
  <1>7. n \in Nat /\ n <= meta.avail /\ n <= UnusedArea
    <2>1. meta.avail \in Nat
      BY <1>4 DEF Metas
    <2> QED BY <1>5, <2>1, LesserIs
  <1> HIDE DEF n
  <1>8. rest \in Metas
    <2>1. meta.off + n \in Nat /\ meta.avail - n \in Nat
      BY <1>4, <1>7 DEF Metas
    <2>2. \A o, a \in Nat : [meta EXCEPT !.off = o, !.avail = a] \in Metas
      BY <1>4 DEF Metas
    <2> QED BY <2>1, <2>2
  <1>9. rest = [meta EXCEPT !.off = @ + n, !.avail = @ - n]
    OBVIOUS
  <1> HIDE DEF rest
  <1>10. TransferOf(b, meta, rest, n)
    BY <1>1, <1>2, <1>3, <1>6, <1>7, <1>9 DEF TransferOf
  <1> QED BY <1>1, <1>4, <1>7, <1>8, <1>10
\* The slave touches the queue when it copies from it and when it drops it.
LEMMA SLeavesQueue ==
  SNext \/ UnitError => Transfer \/ DropBuffer \/ UNCHANGED <<fifo, metas, workBuf>>
  BY DEF SNext, UnitError, WakeUp, Consume, NothingToTransfer, RefillStartCodes,
         FindUnit, NoMoreUnit, BeginPicture, UnitDone, CancelPicture, SkipSlice, LaunchSlice,
         LaunchPicture, CheckFull, WaitWhenFull, ConsumeWhenFull, FlushInput,
         ReleaseFrames, CheckLast, WaitWhenFlushing, SignalEos

\* What is attached to a buffer is more metadata.
LEMMA AttachIs ==
  ASSUME QueueTypes, MetaDue, NEW b \in Inputs, NEW k \in Nat, NEW last \in BOOLEAN, NEW c,
         Attach(b, k, last, c), pcA = "run", pcA' = "queue", UNCHANGED <<fifo, workBuf>>
  PROVE  QueueTypes' /\ MetaDue'
  <1> DEFINE m == [off |-> 0, avail |-> k, last |-> last]
  <1>1. m \in Metas
    BY DEF Metas
  <1>2. metas' = [metas EXCEPT ![b] = Append(@, m)] /\ call' = [name |-> c, buf |-> b]
    BY DEF Attach
  <1> HIDE DEF m
  <1>3. metas \in [Inputs -> Seq(Metas)]
    BY DEF QueueTypes, Metas
  <1>4. Append(metas[b], m) \in Seq(Metas) /\ Len(Append(metas[b], m)) = Len(metas[b]) + 1
    BY <1>1, <1>3, SeqEnd
  <1>5. metas' \in [Inputs -> Seq(Metas)]
    BY <1>2, <1>3, <1>4
  <1>6. QueueTypes'
    BY <1>5 DEF QueueTypes, Metas
  <1>7. ASSUME NEW x \in Inputs PROVE Due(x)' <= Len(metas'[x])
    <2>1. Due(x) <= Len(metas[x]) /\ OneIf(pcA = "queue" /\ call.buf = x) = 0
      BY DEF MetaDue, OneIf
    <2>2. TimesIn(fifo', x) = TimesIn(fifo, x) /\ OneIf(workBuf' = x) = OneIf(workBuf = x)
      OBVIOUS
    <2>3. OneIf(pcA' = "queue" /\ call'.buf = x) = OneIf(b = x)
      BY <1>2
    <2>4. Len(metas'[x]) = Len(metas[x]) + OneIf(b = x)
      <3>1. CASE x = b
        BY <1>2, <1>3, <1>4, <3>1 DEF OneIf
      <3>2. CASE x # b
        <4>1. metas'[x] = metas[x] /\ OneIf(b = x) = 0
          BY <1>2, <1>3, <3>2 DEF OneIf
        <4> QED BY <4>1, DueTypes
      <3> QED BY <3>1, <3>2
    <2>5. Due(x)' = TimesIn(fifo, x) + OneIf(workBuf = x) + OneIf(b = x)
      BY <2>2, <2>3 DEF Due
    <2>6. OneIf(b = x) \in {0, 1}
      BY DEF OneIf
    <2> QED BY <2>1, <2>4, <2>5, <2>6, DueTypes DEF Due
  <1> QED BY <1>6, <1>7 DEF MetaDue

LEMMA EnqueueKeepsQueue ==
  ASSUME FeederInv, Enqueue
  PROVE  QueueTypes' /\ MetaDue'
  <1>0. QueueTypes /\ MetaDue /\ call.buf \in Inputs
    BY InvTypes, MetaDueIs DEF FeederInv, AppTypes, Enqueue, AStep
  <1>1. /\ fifo \in Seq(Inputs) /\ Len(fifo) < MaxElem /\ fifo' = Append(fifo, call.buf)
        /\ UNCHANGED <<workBuf, metas>>
        /\ pcA = "queue" /\ pcA' = "notify"
    BY <1>0 DEF QueueTypes, Enqueue, AStep
  <1>2. fifo' \in Seq(Inputs) /\ Len(fifo') = Len(fifo) + 1 /\ Len(fifo) \in Nat
    BY <1>0, <1>1, SeqEnd
  <1>3. QueueTypes'
    BY <1>0, <1>1, <1>2, Sizes DEF QueueTypes
  <1>4. ASSUME NEW x \in Inputs PROVE Due(x)' <= Len(metas'[x])
    <2>1. Due(x) <= Len(metas[x]) /\ metas'[x] = metas[x] /\ workBuf' = workBuf
      BY <1>0, <1>1 DEF MetaDue
    <2>2. TimesIn(fifo', x) = TimesIn(fifo, x) + OneIf(call.buf = x)
      BY <1>0, <1>1, TimesMore
    <2>3. OneIf(pcA = "queue" /\ call.buf = x) = OneIf(call.buf = x)
      BY <1>1
    <2>4. OneIf(pcA' = "queue" /\ call'.buf = x) = 0
      BY <1>1 DEF OneIf
    <2>5. Due(x)' = TimesIn(fifo, x) + OneIf(call.buf = x) + OneIf(workBuf = x) + 0
      BY <2>1, <2>2, <2>4 DEF Due
    <2>6. OneIf(call.buf = x) \in {0, 1}
      BY DEF OneIf
    <2> QED BY <1>0, <2>1, <2>3, <2>5, <2>6, DueTypes DEF Due
  <1> QED BY <1>3, <1>4 DEF MetaDue

LEMMA TransferKeepsQueue ==
  ASSUME FeederInv, Transfer
  PROVE  QueueTypes' /\ MetaDue'
  <1>0. QueueTypes /\ MetaDue
    BY InvTypes, MetaDueIs DEF FeederInv
  <1>1. PICK b \in Inputs, meta \in Metas, rest \in Metas, n \in Nat : TransferOf(b, meta, rest, n)
    BY TransferIs
  <1>2. UNCHANGED <<pcA, call>>
    BY DEF Transfer, SStep, aVars
  <1>3. fifo \in Seq(Inputs) /\ metas \in [Inputs -> Seq(Metas)] /\ Len(fifo) <= MaxElem
    BY <1>0 DEF QueueTypes, Metas
  <1>4. fifo' \in Seq(Inputs) /\ Len(fifo') <= MaxElem
    <2>1. CASE workBuf # NoBuf
      BY <1>1, <1>3, <2>1 DEF TransferOf
    <2>2. CASE workBuf = NoBuf
      <3>1. fifo # <<>> /\ fifo' = Tail(fifo)
        BY <1>1, <2>2 DEF TransferOf
      <3> QED BY <1>3, <3>1, SeqHead, Sizes
    <2> QED BY <2>1, <2>2
  <1>5. /\ Tail(metas[b]) \in Seq(Metas) /\ Len(Tail(metas[b])) = Len(metas[b]) - 1
        /\ Len(metas[b]) \in Nat
        /\ metas[b] # <<>> /\ metas[b] \in Seq(Metas)
    BY <1>1, SeqHead DEF TransferOf
  <1>6. /\ <<rest>> \o Tail(metas[b]) \in Seq(Metas)
        /\ Len(<<rest>> \o Tail(metas[b])) = Len(metas[b])
    <2>1. <<rest>> \in Seq(Metas) /\ Len(<<rest>>) = 1
      OBVIOUS
    <2> QED BY <1>5, <2>1, ConcatProperties
  <1> DEFINE done == rest.avail = 0
             new == IF done THEN Tail(metas[b]) ELSE <<rest>> \o Tail(metas[b])
  <1>7. new \in Seq(Metas) /\ Len(new) = Len(metas[b]) - OneIf(done)
    BY <1>5, <1>6 DEF OneIf
  <1>8. metas' = [metas EXCEPT ![b] = new] /\ workBuf' = IF done THEN NoBuf ELSE b
    BY <1>1 DEF TransferOf
  <1> HIDE DEF new, done
  <1>9. QueueTypes'
    <2>1. metas' \in [Inputs -> Seq(Metas)]
      BY <1>3, <1>7, <1>8
    <2> QED BY <1>4, <1>8, <2>1 DEF QueueTypes, Metas
  <1>10. ASSUME NEW x \in Inputs PROVE Due(x)' <= Len(metas'[x])
    <2>1. Due(x) <= Len(metas[x])
      BY <1>0 DEF MetaDue
    <2> DEFINE q == OneIf(pcA = "queue" /\ call.buf = x)
    <2>2. Due(x)' = TimesIn(fifo', x) + OneIf(workBuf' = x) + q
      BY <1>2 DEF Due
    <2>3. Due(x) = TimesIn(fifo, x) + OneIf(workBuf = x) + q
      BY DEF Due
    <2>4. TimesIn(fifo', x) + OneIf(b = x) = TimesIn(fifo, x) + OneIf(workBuf = x)
      <3>1. CASE workBuf # NoBuf
        BY <1>0, <1>1, <3>1, DueTypes DEF TransferOf
      <3>2. CASE workBuf = NoBuf
        <4>1. fifo # <<>> /\ fifo' = Tail(fifo) /\ b = Head(fifo)
          BY <1>1, <3>2 DEF TransferOf
        <4>2. TimesIn(fifo, x) = TimesIn(fifo', x) + OneIf(b = x)
          BY <1>3, <4>1, TimesLess
        <4>3. OneIf(workBuf = x) = 0
          BY <3>2, Sizes DEF OneIf
        <4> QED BY <1>0, <4>2, <4>3, DueTypes
      <3> QED BY <3>1, <3>2
    <2>5. TimesIn(fifo', x) \in Nat /\ q \in {0, 1} /\ OneIf(done) \in {0, 1}
          /\ OneIf(b = x) \in {0, 1}
      BY <1>4, PlacesFinite DEF OneIf
    <2> HIDE DEF q
    <2>6. CASE x = b
      <3>1. OneIf(b = x) = 1 /\ OneIf(workBuf' = x) = 1 - OneIf(done)
        BY <1>8, <2>6, Sizes DEF OneIf
      <3>2. Len(metas'[x]) = Len(metas[x]) - OneIf(done)
        BY <1>3, <1>7, <1>8, <2>6
      <3>3. Len(metas[x]) \in Nat
        BY <1>5, <2>6
      <3> QED BY <2>1, <2>2, <2>3, <2>4, <2>5, <3>1, <3>2, <3>3
    <2>7. CASE x # b
      <3>1. OneIf(b = x) = 0 /\ OneIf(workBuf' = x) = 0 /\ metas'[x] = metas[x]
        BY <1>3, <1>8, <2>7, Sizes DEF OneIf
      <3>2. Len(metas[x]) \in Nat /\ TimesIn(fifo, x) \in Nat /\ OneIf(workBuf = x) \in {0, 1}
        BY <1>0, DueTypes
      <3> QED BY <2>1, <2>2, <2>3, <2>4, <2>5, <3>1, <3>2
    <2> QED BY <2>6, <2>7
  <1> QED BY <1>9, <1>10 DEF MetaDue

LEMMA DropKeepsQueue ==
  ASSUME FeederInv, DropBuffer
  PROVE  QueueTypes' /\ MetaDue'
  <1>0. QueueTypes /\ MetaDue
    BY InvTypes, MetaDueIs DEF FeederInv
  <1>1. /\ fifo \in Seq(Inputs) /\ Len(fifo) <= MaxElem /\ UNCHANGED <<metas, pcA, call>>
        /\ workBuf' = (IF fifo = <<>> THEN NoBuf ELSE Head(fifo))
        /\ fifo' = (IF fifo = <<>> THEN <<>> ELSE Tail(fifo))
    BY <1>0 DEF QueueTypes, DropBuffer, SStep, aVars
  <1>2. CASE fifo = <<>>
    <2>1. fifo' = fifo /\ workBuf' = NoBuf
      BY <1>1, <1>2
    <2>2. QueueTypes'
      BY <1>0, <1>1, <2>1 DEF QueueTypes
    <2>3. ASSUME NEW x \in Inputs PROVE Due(x)' <= Len(metas'[x])
      <3>1. OneIf(workBuf' = x) = 0
        BY <2>1, Sizes DEF OneIf
      <3>2. Due(x)' = TimesIn(fifo, x) + 0 + OneIf(pcA = "queue" /\ call.buf = x)
        BY <1>1, <2>1, <3>1 DEF Due
      <3> QED BY <1>0, <1>1, <3>2, DueTypes DEF Due, MetaDue
    <2> QED BY <2>2, <2>3 DEF MetaDue
  <1>3. CASE fifo # <<>>
    <2>1. fifo' = Tail(fifo) /\ workBuf' = Head(fifo)
      BY <1>1, <1>3
    <2>2. fifo' \in Seq(Inputs) /\ Len(fifo') <= MaxElem /\ workBuf' \in Inputs
      BY <1>1, <1>3, <2>1, SeqHead, Sizes
    <2>3. QueueTypes'
      BY <1>0, <1>1, <2>2 DEF QueueTypes
    <2>4. ASSUME NEW x \in Inputs PROVE Due(x)' <= Len(metas'[x])
      <3>1. TimesIn(fifo, x) = TimesIn(fifo', x) + OneIf(workBuf' = x)
        BY <1>1, <1>3, <2>1, TimesLess
      <3>2. Due(x)' = TimesIn(fifo', x) + OneIf(workBuf' = x)
                        + OneIf(pcA = "queue" /\ call.buf = x)
        BY <1>1 DEF Due
      <3>3. Due(x)' = TimesIn(fifo, x) + OneIf(pcA = "queue" /\ call.buf = x)
        BY <3>1, <3>2
      <3> QED BY <1>0, <1>1, <3>3, DueTypes DEF Due, MetaDue
    <2> QED BY <2>3, <2>4 DEF MetaDue
  <1> QED BY <1>2, <1>3

LEMMA QueueKept ==
  ASSUME FeederInv, Next
  PROVE  QueueTypes' /\ MetaDue'
  <1>0. QueueTypes /\ MetaDue /\ AppTypes
    BY InvTypes, MetaDueIs DEF FeederInv
  <1>1. ASSUME UNCHANGED <<fifo, metas, workBuf>>, pcA' # "queue" \/ UNCHANGED <<pcA, call>>
        PROVE  QueueTypes' /\ MetaDue'
    <2>1. QueueTypes'
      BY <1>0, <1>1 DEF QueueTypes
    <2>2. ASSUME NEW x \in Inputs PROVE Due(x)' <= Len(metas'[x])
      <3>1. Due(x) <= Len(metas[x])
        BY <1>0 DEF MetaDue
      <3>2. CASE UNCHANGED <<pcA, call>>
        BY <1>1, <3>1, <3>2 DEF Due
      <3>3. CASE pcA' # "queue"
        <4>1. OneIf(pcA' = "queue" /\ call'.buf = x) = 0
          BY <3>3 DEF OneIf
        <4>2. Due(x)' = TimesIn(fifo, x) + OneIf(workBuf = x) + 0
          BY <1>1, <4>1 DEF Due
        <4> QED BY <1>0, <1>1, <3>1, <4>2, DueTypes DEF Due
      <3> QED BY <1>1, <3>2, <3>3
    <2> QED BY <2>1, <2>2 DEF MetaDue
  <1>2. ASSUME NEW b \in Buffers, NEW c \in Contents, PushBuffer(b, c)
        PROVE  QueueTypes' /\ MetaDue'
    <2>1. b \in Inputs /\ Len(c) \in Nat
      BY Sizes, LenProperties
    <2>2. Attach(b, Len(c), FALSE, "push") /\ pcA = "run" /\ pcA' = "queue" /\ UNCHANGED <<fifo, workBuf>>
      BY <1>2 DEF PushBuffer, AStep
    <2> QED BY <1>0, <2>1, <2>2, AttachIs
  <1>3. CASE Flush
    <2>1. EosBuf \in Inputs /\ Len(EosNal) \in Nat
      BY Sizes, LenProperties
    <2>2. Attach(EosBuf, Len(EosNal), TRUE, "flush") /\ pcA = "run" /\ pcA' = "queue" /\ UNCHANGED <<fifo, workBuf>>
      BY <1>3 DEF Flush, AStep
    <2> QED BY <1>0, <2>1, <2>2, AttachIs
  <1>4. CASE Destroy
    <2>1. EosBuf \in Inputs /\ Len(EosNal) \in Nat
      BY Sizes, LenProperties
    <2>2. Attach(EosBuf, Len(EosNal), FALSE, "destroy") /\ pcA = "run" /\ pcA' = "queue" /\ UNCHANGED <<fifo, workBuf>>
      BY <1>4 DEF Destroy, AStep
    <2> QED BY <1>0, <2>1, <2>2, AttachIs
  <1>5. CASE Enqueue
    BY <1>5, EnqueueKeepsQueue
  <1>6. CASE Notify \/ NotifyFlush \/ StopSlave \/ JoinSlave
    <2>1. UNCHANGED <<fifo, metas, workBuf>>
      BY <1>6 DEF Notify, NotifyFlush, StopSlave, JoinSlave, AStep
    <2>2. pcA' # "queue"
      BY <1>0, <1>6 DEF Notify, NotifyFlush, StopSlave, JoinSlave, AStep, AppTypes
    <2> QED BY <1>1, <2>1, <2>2
  <1>7. CASE Signal \/ Over \/ HNext
    <2>1. UNCHANGED <<fifo, metas, workBuf, pcA, call>>
      BY <1>7, HKeeps DEF Signal, Over, HLeaves, queueVars, aVars, vars
    <2> QED BY <1>1, <2>1
  <1>8. CASE SNext \/ UnitError
    <2>1. UNCHANGED <<pcA, call>>
      BY <1>8, SKeeps DEF SLeaves, aVars
    <2>2. CASE Transfer
      BY <2>2, TransferKeepsQueue
    <2>3. CASE DropBuffer
      BY <2>3, DropKeepsQueue
    <2> QED BY <1>1, <1>8, <2>1, <2>2, <2>3, SLeavesQueue
  <1> QED BY <1>2, <1>3, <1>4, <1>5, <1>6, <1>7, <1>8, ThreeActors DEF ANext, ACall
-----------------------------------------------------------------------------
(* The pictures on their way *)

\* The counts of the semaphore, wherever they are.
Counts == sem + Len(chan) + OneUnless(pcH, "idle") + OneUnless(picture, "none")
Counted == ~Holding => Counts = StackSize

LEMMA SemaphoreIs == SemaphoreExact <=> (TypeOK /\ Counted)
  <1>1. /\ Cardinality({h \in {pcH} : h # "idle"}) = OneUnless(pcH, "idle")
        /\ Cardinality({p \in {picture} : p # "none"}) = OneUnless(picture, "none")
    BY CountOfOne
  <1> QED BY <1>1 DEF SemaphoreExact, Counted, Counts, Holding

\* The parts of the order of the pictures.
PicCount == blk1 = blk2 + Len(chan) /\ from < CircSize /\ Before(curOff) <= from
PicPlaces ==
    \A i \in DOMAIN chan :
       /\ Freed <= chan[i].first /\ chan[i].first <= chan[i].last
       /\ chan[i].last <= base + from
       /\ strOff[(blk2 + i - 1) % StackSize] = OffsetOf(chan[i].last - base)
PicFollow == \A i, j \in DOMAIN chan : i < j => chan[i].last <= chan[j].first
PicBegun ==
    picture # "none" =>
       /\ Freed <= begin /\ begin <= base + from
       /\ \A i \in DOMAIN chan : chan[i].last <= begin
Order == PicCount /\ PicPlaces /\ PicFollow /\ PicBegun

LEMMA OrderIs == PicturesInOrder <=> Order
  BY DEF PicturesInOrder, Order, PicCount, PicPlaces, PicFollow, PicBegun

\* What the steps that touch pictures or the circular buffer have to keep.
Middle == CircTypes /\ PicTypes /\ Counted /\ NothingOnItsWay /\ Order

LEMMA InvIs ==
  FeederInv <=> (AppTypes /\ QueueTypes /\ MetaDue /\ StepLabels /\ UnitKnown /\ Middle)
  BY SemaphoreIs, OrderIs, MetaDueIs, TypesAre DEF FeederInv, Middle, SemaphoreExact

LEMMA InvIsNext ==
  FeederInv' <=> (AppTypes' /\ QueueTypes' /\ MetaDue' /\ StepLabels' /\ UnitKnown' /\ Middle')
  BY InvIs, PTL

\* The pictures in the hardware.
LEMMA ChanIs ==
  ASSUME PicTypes
  PROVE  /\ Len(chan) \in Nat /\ DOMAIN chan = 1 .. Len(chan)
         /\ \A i \in DOMAIN chan : chan[i].first \in Nat /\ chan[i].last \in Nat
         /\ chan = <<>> <=> Len(chan) = 0
  <1>1. chan \in Seq([first : Nat, last : Nat])
    BY DEF PicTypes
  <1>2. Len(chan) \in Nat /\ DOMAIN chan = 1 .. Len(chan)
    BY <1>1, LenProperties
  <1>3. \A i \in DOMAIN chan : chan[i] \in [first : Nat, last : Nat]
    BY <1>1, <1>2, ElementOfSeq
  <1>4. chan = <<>> <=> Len(chan) = 0
    BY <1>1, EmptySeq
  <1> QED BY <1>2, <1>3, <1>4

\* The circular buffer in numbers.
LEMMA CircIs ==
  ASSUME CircTypes, Order
  PROVE  /\ CircSize \in Nat \ {0} /\ Len(circ) \in Nat /\ Len(circ) <= CircSize
         /\ seen \in Nat /\ seen <= Len(circ) /\ from \in Nat /\ from <= seen /\ from < CircSize
         /\ base \in Nat /\ off \in 0 .. CircSize - 1 /\ curOff \in 0 .. CircSize - 1
         /\ Before(curOff) \in 0 .. from /\ Freed = base + Before(curOff) /\ Freed \in Nat
  <1>1. Len(circ) \in Nat /\ Len(circ) <= CircSize
    BY LenProperties DEF CircTypes
  <1>2. /\ CircSize \in Nat \ {0} /\ base \in Nat
        /\ off \in 0 .. CircSize - 1 /\ curOff \in 0 .. CircSize - 1
    BY Sizes DEF CircTypes
  <1>3. seen \in Nat /\ seen <= Len(circ) /\ from \in Nat /\ from <= seen
    BY <1>1 DEF CircTypes
  <1>4. Before(curOff) \in 0 .. CircSize - 1
    BY <1>2, OffsetsAre
  <1>5. Before(curOff) <= from /\ from < CircSize
    BY DEF Order, PicCount
  <1> HIDE DEF Before
  <1>6. Before(curOff) \in 0 .. from
    BY <1>3, <1>4, <1>5
  <1>7. Freed = base + Before(curOff) /\ Freed \in Nat
    BY <1>2, <1>3, <1>6 DEF Freed
  <1> QED BY <1>1, <1>2, <1>3, <1>5, <1>6, <1>7

\* A step that leaves the pictures and the circular buffer alone.
LEMMA MiddleFrame ==
  ASSUME Middle, UNCHANGED <<circVars, picVars, hVars, sem>>, Holding' = Holding
  PROVE  Middle'
  <1>1. CircTypes' /\ PicTypes'
    BY DEF Middle, CircTypes, PicTypes, circVars, picVars, hVars
  <1>2. Counted' /\ NothingOnItsWay'
    BY DEF Middle, Counted, Counts, NothingOnItsWay, picVars, hVars
  <1>3. Order'
    BY DEF Middle, Order, PicCount, PicPlaces, PicFollow, PicBegun, Freed, Before, OffsetOf,
           circVars, picVars, hVars
  <1> QED BY <1>1, <1>2, <1>3 DEF Middle

\* A step of the slave that only changes the counts and its label.
LEMMA OrderFrame ==
  ASSUME Middle, UNCHANGED <<circVars, picVars, hVars>>
  PROVE  CircTypes' /\ Order' /\ (sem' \in 0 .. StackSize => PicTypes')
  <1>1. CircTypes' /\ (sem' \in 0 .. StackSize => PicTypes')
    BY DEF Middle, CircTypes, PicTypes, circVars, picVars, hVars
  <1>2. Order'
    BY DEF Middle, Order, PicCount, PicPlaces, PicFollow, PicBegun, Freed, Before, OffsetOf,
           circVars, picVars, hVars
  <1> QED BY <1>1, <1>2

\* The steps of the slave that do.
SQuiet ==
    \/ WakeUp \/ NothingToTransfer \/ FindUnit \/ NoMoreUnit \/ CheckFull \/ DropBuffer
    \/ CheckLast \/ SignalEos \/ UnitError

LEMMA SQuietIs ==
  ASSUME StepLabels, SQuiet
  PROVE  /\ UNCHANGED <<circVars, picVars, hVars, sem, sliceMode>> /\ Holding' = Holding
         /\ StepLabels' /\ pcS' # "slice" /\ (pcS' = "unit" => UnitFound)
  <1>1. UNCHANGED <<circVars, picVars, hVars, sem, sliceMode>>
    BY DEF SQuiet, WakeUp, NothingToTransfer, FindUnit, NoMoreUnit, CheckFull, DropBuffer, CheckLast,
           SignalEos, UnitError, SStep
  <1>2. CASE WakeUp
    BY <1>2 DEF WakeUp, SStep, Holding, StepLabels, hVars
  <1>3. CASE NothingToTransfer
    BY <1>3 DEF NothingToTransfer, SStep, Holding, StepLabels, hVars
  <1>4. CASE FindUnit
    BY <1>4 DEF FindUnit, LooksForUnit, SStep, Holding, StepLabels, hVars
  <1>5. CASE NoMoreUnit
    BY <1>5 DEF NoMoreUnit, LooksForUnit, SStep, Holding, StepLabels, hVars
  <1>6. CASE CheckFull
    BY <1>6 DEF CheckFull, SStep, Holding, StepLabels, hVars
  <1>7. CASE DropBuffer
    BY <1>7 DEF DropBuffer, SStep, Holding, StepLabels, hVars
  <1>8. CASE CheckLast
    BY <1>8 DEF CheckLast, SStep, Holding, StepLabels, hVars
  <1>9. CASE SignalEos
    BY <1>9 DEF SignalEos, SStep, Holding, StepLabels, hVars
  <1>10. CASE UnitError
    BY <1>10 DEF UnitError, SStep, Holding, StepLabels, hVars
  <1> QED BY <1>1, <1>2, <1>3, <1>4, <1>5, <1>6, <1>7, <1>8, <1>9, <1>10 DEF SQuiet

LEMMA OneUnlessIs == \A x, v : OneUnless(x, v) \in {0, 1} /\ (OneUnless(x, v) = 0 <=> x = v)
  BY DEF OneUnless

\* The start code detector goes on.
LEMMA RefillKeeps ==
  ASSUME Middle, StepLabels, RefillStartCodes
  PROVE  Middle' /\ StepLabels' /\ pcS' \notin {"unit", "slice"}
  <1>1. /\ UNCHANGED <<circ, off, from, base, picVars, hVars, sem>> /\ seen' = Len(circ)
        /\ pcS \in {"search", "decode"} /\ pcS' = "search"
    BY DEF RefillStartCodes, LooksForUnit, SStep
  <1>2. StepLabels'
    BY <1>1 DEF StepLabels, hVars
  <1>3. CircTypes'
    <2>1. from \in Nat /\ from <= Len(circ) /\ Len(circ) \in Nat
      BY CircIs DEF Middle
    <2>2. circ' = circ /\ off' = off /\ from' = from /\ base' = base /\ curOff' = curOff
      BY <1>1 DEF hVars
    <2> QED BY <1>1, <2>1, <2>2 DEF Middle, CircTypes
  <1>4. PicTypes'
    BY <1>1 DEF Middle, PicTypes, picVars, hVars
  <1>5. Counted' /\ NothingOnItsWay'
    <2>1. ~Holding /\ ~Holding'
      BY <1>1 DEF Holding
    <2>2. Counts' = Counts
      BY <1>1 DEF Counts, picVars, hVars
    <2> QED BY <2>1, <2>2 DEF Middle, Counted, NothingOnItsWay
  <1>6. Order'
    BY <1>1 DEF Middle, Order, PicCount, PicPlaces, PicFollow, PicBegun, Freed, Before, OffsetOf,
           picVars, hVars
  <1> QED BY <1>1, <1>2, <1>3, <1>4, <1>5, <1>6 DEF Middle

\* The copy fills the circular buffer at its end.
LEMMA TransferKeeps ==
  ASSUME FeederInv, Transfer
  PROVE  Middle' /\ StepLabels' /\ pcS' \notin {"unit", "slice"}
  <1>0. AppTypes /\ StepLabels /\ Middle
    BY InvIs
  <1>1. PICK b \in Inputs, meta \in Metas, rest \in Metas, n \in Nat : TransferOf(b, meta, rest, n)
    BY TransferIs
  <1>2. /\ UNCHANGED <<off, seen, from, base, picVars, hVars, sem>>
        /\ pcS = "transfer" /\ pcS' = "decode"
    BY DEF Transfer, SStep
  <1>3. circ' = circ \o Memory(b, meta.off, n) /\ n <= UnusedArea
    BY <1>1 DEF TransferOf
  <1>4. Memory(b, meta.off, n) \in Seq(Pieces) /\ Len(Memory(b, meta.off, n)) = n
    <2>1. data[b] \in Seq(Pieces) /\ DOMAIN data[b] = 1 .. Len(data[b])
      BY <1>0, LenProperties DEF AppTypes
    <2>2. \A i \in DOMAIN data[b] : data[b][i] \in Pieces
      BY <2>1, ElementOfSeq
    <2>3. "more" \in Pieces
      BY DEF Pieces
    <2>4. \A i \in 1 .. n : (IF meta.off + i \in DOMAIN data[b] THEN data[b][meta.off + i] ELSE "more") \in Pieces
      BY <2>2, <2>3
    <2>5. Memory(b, meta.off, n) \in [1 .. n -> Pieces]
      BY <2>4 DEF Memory
    <2> QED BY <2>5, IsASeq, LenProperties
  <1>5. circ \in Seq(Pieces) /\ Len(circ) \in Nat /\ CircSize \in Nat
    BY <1>0, CircIs DEF Middle, CircTypes
  <1>6. circ' \in Seq(Pieces) /\ Len(circ') = Len(circ) + n
    BY <1>3, <1>4, <1>5, ConcatProperties
  <1>7. Len(circ') <= CircSize
    BY <1>3, <1>5, <1>6 DEF UnusedArea
  <1>8. CircTypes'
    <2>1. from \in Nat /\ seen \in Nat /\ seen <= Len(circ)
      BY <1>0, CircIs DEF Middle
    <2>2. seen \in 0 .. Len(circ')
      BY <1>5, <1>6, <2>1
    <2>3. off' = off /\ seen' = seen /\ from' = from /\ base' = base /\ curOff' = curOff
      BY <1>2 DEF hVars
    <2> QED BY <1>0, <1>6, <1>7, <2>2, <2>3 DEF Middle, CircTypes
  <1>9. StepLabels'
    BY <1>0, <1>2 DEF StepLabels, hVars
  <1>10. PicTypes'
    BY <1>0, <1>2 DEF Middle, PicTypes, picVars, hVars
  <1>11. Counted' /\ NothingOnItsWay'
    <2>1. ~Holding /\ ~Holding'
      BY <1>2 DEF Holding
    <2>2. Counts' = Counts
      BY <1>2 DEF Counts, picVars, hVars
    <2> QED BY <1>0, <2>1, <2>2 DEF Middle, Counted, NothingOnItsWay
  <1>12. Order'
    BY <1>0, <1>2 DEF Middle, Order, PicCount, PicPlaces, PicFollow, PicBegun, Freed, Before, OffsetOf,
           picVars, hVars
  <1> QED BY <1>2, <1>8, <1>9, <1>10, <1>11, <1>12 DEF Middle

\* A picture is begun where the slave is in the stream.
LEMMA BeginKeeps ==
  ASSUME Middle, StepLabels, BeginPicture
  PROVE  Middle' /\ StepLabels' /\ pcS' = "slice" /\ picture' # "none"
         /\ UNCHANGED <<circ, seen, from, sliceMode>>
  <1>1. /\ UNCHANGED <<circVars, hVars, strOff, chan, blk1, sliceMode>>
        /\ pcS = "unit" /\ pcS' = "slice"
    BY DEF BeginPicture, SStep
  <1>2. StepLabels'
    BY <1>1 DEF StepLabels, hVars
  <1>3. CASE picture # "none"
    <2>1. UNCHANGED <<circVars, picVars, hVars, sem>> /\ Holding' = Holding
      BY <1>1, <1>3 DEF BeginPicture, picVars, Holding
    <2> QED BY <1>1, <1>2, <1>3, <2>1, MiddleFrame DEF circVars, picVars
  <1>4. CASE picture = "none"
    <2>1. sem > 0 /\ sem' = sem - 1 /\ picture' = "begun" /\ begin' = base + from
      BY <1>4 DEF BeginPicture
    <2>2. /\ from \in Nat /\ base \in Nat /\ Freed \in Nat /\ Freed <= base + from
      BY CircIs DEF Middle
    <2>3. CircTypes'
      BY <1>1 DEF Middle, CircTypes, circVars, hVars
    <2>4. PicTypes'
      <3>1. sem' \in 0 .. StackSize /\ begin' \in Nat
        BY <2>1, <2>2, Sizes DEF Middle, PicTypes
      <3> QED BY <1>1, <2>1, <3>1 DEF Middle, PicTypes, hVars
    <2>5. Counted' /\ NothingOnItsWay'
      <3>1. ~Holding /\ ~Holding'
        BY <1>1 DEF Holding
      <3>2. Counts = StackSize
        BY <3>1 DEF Middle, Counted
      <3>3. /\ OneUnless(picture, "none") = 0 /\ OneUnless(picture', "none") = 1
            /\ OneUnless(pcH', "idle") = OneUnless(pcH, "idle") /\ OneUnless(pcH, "idle") \in {0, 1}
        BY <1>1, <1>4, <2>1 DEF OneUnless, hVars
      <3>4. sem \in Nat /\ Len(chan) \in Nat /\ chan' = chan
        BY <1>1, ChanIs DEF Middle, PicTypes
      <3>5. Counts' = sem - 1 + Len(chan) + OneUnless(pcH, "idle") + 1
        BY <2>1, <3>3, <3>4 DEF Counts
      <3>6. Counts = sem + Len(chan) + OneUnless(pcH, "idle") + 0
        BY <3>3 DEF Counts
      <3>7. Counts' = Counts
        BY <3>3, <3>4, <3>5, <3>6
      <3> QED BY <3>1, <3>2, <3>7 DEF Counted, NothingOnItsWay
    <2>6. PicCount' /\ PicPlaces' /\ PicFollow' /\ Freed' = Freed
      BY <1>1 DEF Middle, Order, PicCount, PicPlaces, PicFollow, Freed, Before, OffsetOf, circVars, hVars
    <2>7. PicBegun'
      <3>1. Freed' <= begin' /\ begin' <= base' + from'
        BY <1>1, <2>1, <2>2, <2>6 DEF circVars
      <3>2. \A i \in DOMAIN chan' : chan'[i].last <= begin'
        BY <1>1, <2>1 DEF Middle, Order, PicPlaces
      <3> QED BY <3>1, <3>2 DEF PicBegun
    <2> QED BY <1>1, <1>2, <2>1, <2>3, <2>4, <2>5, <2>6, <2>7 DEF Middle, Order, circVars
  <1> QED BY <1>3, <1>4

\* What the end of a unit is in the stream.
LEMMA UnitDoneIs ==
  ASSUME Middle, StepLabels, UnitKnown, UnitDone
  PROVE  /\ UnitEnd \in from + 1 .. seen - 1 /\ UnitEnd \in 1 .. CircSize - 1
         /\ from' = UnitEnd /\ UNCHANGED <<circ, off, seen, base, hVars>>
         /\ pcS = "slice" /\ pcS' = "decode" /\ picture # "none"
         /\ StepLabels' /\ CircTypes' /\ ~Holding /\ ~Holding'
         /\ OffsetOf(UnitEnd) \in 0 .. CircSize - 1
  <1>1. /\ from' = UnitEnd /\ UNCHANGED <<circ, off, seen, base, hVars>>
        /\ pcS = "slice" /\ pcS' = "decode"
    BY DEF UnitDone, SStep
  <1>2. UnitFound /\ picture # "none"
    BY <1>1 DEF UnitKnown
  <1>3. /\ CircSize \in Nat \ {0} /\ Len(circ) \in Nat /\ Len(circ) <= CircSize
        /\ seen \in Nat /\ seen <= Len(circ) /\ from \in Nat /\ from <= seen
    BY CircIs DEF Middle
  <1>4. UnitEnd \in from + 1 .. seen - 1
    BY <1>2, <1>3, UnitIs
  <1> HIDE DEF UnitEnd
  <1>5. UnitEnd \in 1 .. CircSize - 1
    BY <1>3, <1>4
  <1>6. StepLabels' /\ ~Holding /\ ~Holding'
    BY <1>1 DEF StepLabels, hVars, Holding
  <1>7. CircTypes'
    <2>1. from' \in 0 .. seen /\ seen \in 0 .. Len(circ)
      BY <1>1, <1>3, <1>4
    <2>2. circ' = circ /\ off' = off /\ seen' = seen /\ base' = base /\ curOff' = curOff
      BY <1>1 DEF hVars
    <2> QED BY <2>1, <2>2 DEF Middle, CircTypes
  <1>8. off \in 0 .. CircSize - 1
    BY DEF Middle, CircTypes
  <1>9. OffsetOf(UnitEnd) \in 0 .. CircSize - 1
    BY <1>3, <1>5, <1>8, OffsetsAre
  <1> QED BY <1>1, <1>2, <1>4, <1>5, <1>6, <1>7, <1>9

\* The pictures stay in order as the slave moves on in the stream.
LEMMA OrderMovesOn ==
  ASSUME Middle, UnitEnd \in from + 1 .. CircSize - 1, from' = UnitEnd,
         UNCHANGED <<off, base, hVars, chan, blk1, begin>>,
         \A i \in DOMAIN chan :
            strOff'[(blk2 + i - 1) % StackSize] = strOff[(blk2 + i - 1) % StackSize],
         picture' # "none" => picture # "none"
  PROVE  Order'
  <1>0. /\ CircSize \in Nat \ {0} /\ from \in Nat /\ base \in Nat /\ Freed \in Nat
        /\ Before(curOff) \in 0 .. from
    BY CircIs DEF Middle
  <1>1. Freed' = Freed /\ Before(curOff)' = Before(curOff)
    BY DEF Freed, Before, hVars
  <1> HIDE DEF Before, UnitEnd, Freed
  <1>2. base + from <= base' + from' /\ from' \in Nat /\ base' = base
    BY <1>0
  <1>3. PicCount'
    <2>1. from' < CircSize /\ Before(curOff)' <= from'
      BY <1>0, <1>1
    <2>2. blk1' = blk1 /\ blk2' = blk2 /\ chan' = chan
      BY DEF hVars
    <2> QED BY <2>1, <2>2 DEF Middle, Order, PicCount
  <1>4. \A i \in DOMAIN chan : chan[i].first \in Nat /\ chan[i].last \in Nat
    BY ChanIs DEF Middle
  <1>5. PicPlaces'
    <2>1. ASSUME NEW i \in DOMAIN chan
          PROVE  /\ Freed' <= chan[i].first /\ chan[i].first <= chan[i].last
                 /\ chan[i].last <= base' + from'
                 /\ strOff'[(blk2 + i - 1) % StackSize] = OffsetOf(chan[i].last - base)
      <3>1. /\ Freed <= chan[i].first /\ chan[i].first <= chan[i].last
            /\ chan[i].last <= base + from
            /\ strOff[(blk2 + i - 1) % StackSize] = OffsetOf(chan[i].last - base)
        BY DEF Middle, Order, PicPlaces
      <3>2. chan[i].last <= base' + from'
        BY <1>0, <1>2, <1>4, <3>1
      <3> QED BY <1>1, <3>1, <3>2
    <2>3. chan' = chan /\ blk2' = blk2 /\ base' = base
      BY DEF hVars
    <2>4. \A i \in DOMAIN chan : OffsetOf(chan[i].last - base)' = OffsetOf(chan[i].last - base)
      BY <2>3 DEF OffsetOf
    <2> HIDE DEF OffsetOf
    <2> QED BY <2>1, <2>3, <2>4 DEF PicPlaces
  <1>6. PicFollow'
    BY DEF Middle, Order, PicFollow
  <1>7. PicBegun'
    <2>1. ASSUME picture' # "none"
          PROVE  /\ Freed' <= begin' /\ begin' <= base' + from'
                 /\ \A i \in DOMAIN chan' : chan'[i].last <= begin'
      <3>1. Freed <= begin /\ begin <= base + from /\ \A i \in DOMAIN chan : chan[i].last <= begin
        BY <2>1 DEF Middle, Order, PicBegun
      <3>2. begin \in Nat
        BY DEF Middle, PicTypes
      <3>3. begin <= base' + from'
        BY <1>0, <1>2, <3>1, <3>2
      <3> QED BY <1>1, <3>1, <3>3
    <2> QED BY <2>1 DEF PicBegun
  <1> QED BY <1>3, <1>5, <1>6, <1>7 DEF Order

\* A slice whose picture is given up, or that is left out.
LEMMA SkipKeeps ==
  ASSUME Middle, StepLabels, UnitKnown, CancelPicture \/ SkipSlice
  PROVE  Middle' /\ StepLabels' /\ pcS' \notin {"unit", "slice"}
  <1>0. UnitDone
    BY DEF CancelPicture, SkipSlice
  <1>1. /\ UnitEnd \in from + 1 .. seen - 1 /\ UnitEnd \in 1 .. CircSize - 1
        /\ from' = UnitEnd /\ UNCHANGED <<circ, off, seen, base, hVars>>
        /\ pcS = "slice" /\ pcS' = "decode" /\ picture # "none"
        /\ StepLabels' /\ CircTypes' /\ ~Holding /\ ~Holding'
    BY <1>0, UnitDoneIs
  <1>2. UNCHANGED <<strOff, chan, blk1, begin>>
    BY DEF CancelPicture, SkipSlice
  <1> HIDE DEF UnitEnd
  <1>3. from \in Nat /\ seen \in Nat /\ CircSize \in Nat
    BY CircIs DEF Middle
  <1>4. UnitEnd \in from + 1 .. CircSize - 1
    BY <1>1, <1>3
  <1>5. picture' # "none" => picture # "none"
    BY <1>1
  <1>6. Order'
    BY <1>1, <1>2, <1>4, <1>5, OrderMovesOn
  <1>7. Counts = StackSize
    BY <1>1 DEF Middle, Counted
  <1>8. sem \in Nat /\ Len(chan) \in Nat /\ OneUnless(pcH, "idle") \in {0, 1} /\ chan' = chan
        /\ pcH' = pcH /\ StackSize \in Nat
    BY <1>1, <1>2, ChanIs, OneUnlessIs, Sizes DEF Middle, PicTypes, hVars
  <1>9. Counts' = StackSize /\ sem' \in 0 .. StackSize /\ picture' \in {"none", "begun", "partly"}
    <2>1. CASE CancelPicture
      <3>1. sem' = sem + 1 /\ picture' = "none" /\ picture = "begun"
        BY <2>1 DEF CancelPicture
      <3>2. OneUnless(picture, "none") = 1 /\ OneUnless(picture', "none") = 0
        BY <3>1 DEF OneUnless
      <3>3. Counts' = sem + 1 + Len(chan) + OneUnless(pcH, "idle") + 0
        BY <1>8, <3>1, <3>2 DEF Counts
      <3>4. Counts = sem + Len(chan) + OneUnless(pcH, "idle") + 1
        BY <3>2 DEF Counts
      <3> QED BY <1>7, <1>8, <3>1, <3>3, <3>4
    <2>2. CASE SkipSlice
      <3>1. sem' = sem /\ picture' = picture
        BY <2>2 DEF SkipSlice
      <3> QED BY <1>7, <1>8, <3>1 DEF Counts, Middle, PicTypes
    <2> QED BY <2>1, <2>2
  <1>10. PicTypes'
    BY <1>1, <1>2, <1>9 DEF Middle, PicTypes, hVars
  <1> QED BY <1>1, <1>6, <1>9, <1>10 DEF Middle, Counted, NothingOnItsWay

\* While a picture is on its way there is room for it in the hardware.
LEMMA RoomInStack ==
  ASSUME Middle, ~Holding, picture # "none"
  PROVE  /\ Len(chan) \in Nat /\ Len(chan) < StackSize /\ blk1 = blk2 + Len(chan)
         /\ blk1 \in Nat /\ blk2 \in Nat /\ StackSize \in Nat \ {0}
         /\ blk1 % StackSize \in 0 .. StackSize - 1
         /\ \A i \in DOMAIN chan : /\ (blk2 + i - 1) % StackSize # blk1 % StackSize
                                   /\ (blk2 + i - 1) % StackSize \in 0 .. StackSize - 1
  <1>1. /\ Len(chan) \in Nat /\ DOMAIN chan = 1 .. Len(chan) /\ sem \in Nat
        /\ blk1 \in Nat /\ blk2 \in Nat /\ StackSize \in Nat \ {0} /\ blk1 = blk2 + Len(chan)
    BY ChanIs, Sizes DEF Middle, PicTypes, Order, PicCount
  <1>2. Len(chan) < StackSize
    <2>1. sem + Len(chan) + OneUnless(pcH, "idle") + OneUnless(picture, "none") = StackSize
      BY DEF Middle, Counted, Counts
    <2>2. OneUnless(pcH, "idle") \in {0, 1} /\ OneUnless(picture, "none") = 1
      BY DEF OneUnless
    <2> QED BY <1>1, <2>1, <2>2
  <1>3. blk1 % StackSize \in 0 .. StackSize - 1
    BY <1>1
  <1>4. ASSUME NEW i \in DOMAIN chan
        PROVE  /\ (blk2 + i - 1) % StackSize # blk1 % StackSize
               /\ (blk2 + i - 1) % StackSize \in 0 .. StackSize - 1
    <2>1. blk2 + i - 1 \in Nat /\ blk2 + i - 1 < blk1 /\ blk1 < (blk2 + i - 1) + StackSize
      BY <1>1, <1>2
    <2> QED BY <1>1, <2>1, SlotsDiffer
  <1> QED BY <1>1, <1>2, <1>3, <1>4

\* A slice sent before the end of its picture.
LEMMA LaunchSliceKeeps ==
  ASSUME Middle, StepLabels, UnitKnown, LaunchSlice
  PROVE  Middle' /\ StepLabels' /\ pcS' \notin {"unit", "slice"}
  <1>0. UnitDone
    BY DEF LaunchSlice
  <1>1. /\ UnitEnd \in from + 1 .. seen - 1 /\ UnitEnd \in 1 .. CircSize - 1
        /\ from' = UnitEnd /\ UNCHANGED <<circ, off, seen, base, hVars>>
        /\ pcS = "slice" /\ pcS' = "decode" /\ picture # "none"
        /\ StepLabels' /\ CircTypes' /\ ~Holding /\ ~Holding'
        /\ OffsetOf(UnitEnd) \in 0 .. CircSize - 1
    BY <1>0, UnitDoneIs
  <1>2. /\ UNCHANGED <<sem, chan, blk1, begin>> /\ picture' = "partly"
        /\ strOff' = [strOff EXCEPT ![blk1 % StackSize] = OffsetOf(UnitEnd)]
    BY DEF LaunchSlice
  <1> HIDE DEF UnitEnd, OffsetOf
  <1>3. from \in Nat /\ seen \in Nat /\ CircSize \in Nat
    BY CircIs DEF Middle
  <1>4. UnitEnd \in from + 1 .. CircSize - 1
    BY <1>1, <1>3
  <1>5. \A i \in DOMAIN chan : /\ (blk2 + i - 1) % StackSize # blk1 % StackSize
                               /\ (blk2 + i - 1) % StackSize \in 0 .. StackSize - 1
    BY <1>1, RoomInStack
  <1>6. strOff \in [0 .. StackSize - 1 -> 0 .. CircSize - 1]
    BY DEF Middle, PicTypes
  <1>7. \A i \in DOMAIN chan :
           strOff'[(blk2 + i - 1) % StackSize] = strOff[(blk2 + i - 1) % StackSize]
    BY <1>2, <1>5, <1>6
  <1>8. Order'
    BY <1>1, <1>2, <1>4, <1>7, OrderMovesOn
  <1>9. strOff' \in [0 .. StackSize - 1 -> 0 .. CircSize - 1]
    BY <1>1, <1>2, <1>6
  <1>10. PicTypes'
    BY <1>1, <1>2, <1>9 DEF Middle, PicTypes, hVars
  <1>11. OneUnless(picture', "none") = OneUnless(picture, "none") /\ pcH' = pcH
    BY <1>1, <1>2 DEF OneUnless, hVars
  <1>12. Counts' = Counts
    BY <1>2, <1>11 DEF Counts
  <1> QED BY <1>1, <1>8, <1>10, <1>12 DEF Middle, Counted, NothingOnItsWay

\* A picture goes to the hardware behind the others.
LEMMA LaunchPictureKeeps ==
  ASSUME Middle, StepLabels, UnitKnown, LaunchPicture
  PROVE  Middle' /\ StepLabels' /\ pcS' \notin {"unit", "slice"}
  <1>0. UnitDone
    BY DEF LaunchPicture
  <1>1. /\ UnitEnd \in from + 1 .. seen - 1 /\ UnitEnd \in 1 .. CircSize - 1
        /\ from' = UnitEnd /\ UNCHANGED <<circ, off, seen, base, hVars>>
        /\ pcS = "slice" /\ pcS' = "decode" /\ picture # "none"
        /\ StepLabels' /\ CircTypes' /\ ~Holding /\ ~Holding'
        /\ OffsetOf(UnitEnd) \in 0 .. CircSize - 1
    BY <1>0, UnitDoneIs
  <1> DEFINE new == [first |-> begin, last |-> base + UnitEnd]
  <1>2. /\ UNCHANGED <<sem, begin>> /\ picture' = "none"
        /\ strOff' = [strOff EXCEPT ![blk1 % StackSize] = OffsetOf(UnitEnd)]
        /\ chan' = Append(chan, new) /\ blk1' = blk1 + 1
    BY DEF LaunchPicture
  <1> HIDE DEF UnitEnd
  <1>3. /\ CircSize \in Nat \ {0} /\ from \in Nat /\ seen \in Nat /\ base \in Nat /\ Freed \in Nat
        /\ Before(curOff) \in 0 .. from
    BY CircIs DEF Middle
  <1>4. Freed' = Freed /\ Before(curOff)' = Before(curOff) /\ base' = base /\ blk2' = blk2 /\ off' = off
        /\ pcH' = pcH /\ curOff' = curOff
    BY <1>1 DEF Freed, Before, hVars
  <1> HIDE DEF Before, Freed
  <1>5. begin \in Nat /\ new \in [first : Nat, last : Nat] /\ new.first = begin /\ new.last = base + UnitEnd
    BY <1>1, <1>3 DEF Middle, PicTypes
  <1> HIDE DEF new
  <1>6. chan \in Seq([first : Nat, last : Nat])
    BY DEF Middle, PicTypes
  <1>7. /\ Len(chan) \in Nat /\ DOMAIN chan = 1 .. Len(chan)
        /\ chan' \in Seq([first : Nat, last : Nat])
        /\ Len(chan') = Len(chan) + 1 /\ DOMAIN chan' = 1 .. Len(chan) + 1
        /\ \A i \in 1 .. Len(chan) : chan'[i] = chan[i]
        /\ chan'[Len(chan) + 1] = new
    BY <1>2, <1>5, <1>6, SeqEnd
  <1>8. \A i \in DOMAIN chan : chan[i].first \in Nat /\ chan[i].last \in Nat
    BY ChanIs DEF Middle
  <1>9. /\ blk1 = blk2 + Len(chan) /\ blk1 \in Nat /\ blk2 \in Nat
        /\ blk1 % StackSize \in 0 .. StackSize - 1
        /\ \A i \in DOMAIN chan : /\ (blk2 + i - 1) % StackSize # blk1 % StackSize
                                  /\ (blk2 + i - 1) % StackSize \in 0 .. StackSize - 1
    BY <1>1, RoomInStack
  <1>10. strOff \in [0 .. StackSize - 1 -> 0 .. CircSize - 1]
    BY DEF Middle, PicTypes
  <1>11. /\ strOff' \in [0 .. StackSize - 1 -> 0 .. CircSize - 1]
         /\ strOff'[blk1 % StackSize] = OffsetOf(UnitEnd)
         /\ \A i \in DOMAIN chan :
              strOff'[(blk2 + i - 1) % StackSize] = strOff[(blk2 + i - 1) % StackSize]
    <2> HIDE DEF OffsetOf
    <2> QED BY <1>1, <1>2, <1>9, <1>10
  <1>12. /\ Freed <= begin /\ begin <= base + from
         /\ \A i \in DOMAIN chan : chan[i].last <= begin
    BY <1>1 DEF Middle, Order, PicBegun
  <1>13. PicCount'
    <2>1. from' < CircSize /\ Before(curOff)' <= from'
      BY <1>1, <1>3, <1>4
    <2>2. blk1' = blk2' + Len(chan')
      BY <1>2, <1>4, <1>7, <1>9
    <2> QED BY <2>1, <2>2 DEF PicCount
  <1>14. PicPlaces'
    <2>1. ASSUME NEW i \in DOMAIN chan'
          PROVE  /\ Freed <= chan'[i].first /\ chan'[i].first <= chan'[i].last
                 /\ chan'[i].last <= base + from'
                 /\ strOff'[(blk2 + i - 1) % StackSize] = OffsetOf(chan'[i].last - base)
      <3>1. CASE i \in DOMAIN chan
        <4>1. chan'[i] = chan[i]
          BY <1>7, <3>1
        <4>2. /\ Freed <= chan[i].first /\ chan[i].first <= chan[i].last
              /\ chan[i].last <= base + from
              /\ strOff[(blk2 + i - 1) % StackSize] = OffsetOf(chan[i].last - base)
          BY <3>1 DEF Middle, Order, PicPlaces
        <4>3. chan[i].last <= base + from'
          BY <1>1, <1>3, <1>8, <3>1, <4>2
        <4>4. strOff'[(blk2 + i - 1) % StackSize] = OffsetOf(chan[i].last - base)
          BY <1>11, <3>1, <4>2
        <4> HIDE DEF OffsetOf
        <4> QED BY <4>1, <4>2, <4>3, <4>4
      <3>2. CASE i = Len(chan) + 1
        <4>1. chan'[i] = new
          BY <1>7, <3>2
        <4>2. Freed <= new.first /\ new.first <= new.last /\ new.last <= base + from'
          BY <1>1, <1>3, <1>5, <1>12
        <4>3. blk2 + i - 1 = blk1
          BY <1>7, <1>9, <3>2
        <4>4. (base + UnitEnd) - base = UnitEnd
          BY <1>1, <1>3
        <4>5. new.last - base = UnitEnd
          BY <1>5, <4>4
        <4> HIDE DEF OffsetOf
        <4>6. strOff'[(blk2 + i - 1) % StackSize] = OffsetOf(new.last - base)
          BY <1>11, <4>3, <4>5
        <4> QED BY <4>1, <4>2, <4>6
      <3> QED BY <1>7, <3>1, <3>2
    <2>2. \A i \in DOMAIN chan' : OffsetOf(chan[i].last - base)' = OffsetOf(chan'[i].last - base)
      BY <1>4 DEF OffsetOf
    <2> HIDE DEF OffsetOf
    <2> QED BY <1>4, <2>1, <2>2 DEF PicPlaces
  <1>15. PicFollow'
    <2>1. ASSUME NEW i \in DOMAIN chan', NEW j \in DOMAIN chan', i < j
          PROVE  chan'[i].last <= chan'[j].first
      <3>1. i \in DOMAIN chan /\ chan'[i] = chan[i]
        BY <1>7, <2>1
      <3>2. CASE j \in DOMAIN chan
        BY <1>7, <2>1, <3>1, <3>2 DEF Middle, Order, PicFollow
      <3>3. CASE j = Len(chan) + 1
        BY <1>5, <1>7, <1>12, <3>1, <3>3
      <3> QED BY <1>7, <3>2, <3>3
    <2> QED BY <2>1 DEF PicFollow
  <1>16. PicBegun'
    BY <1>2 DEF PicBegun
  <1>17. PicTypes'
    BY <1>1, <1>2, <1>4, <1>5, <1>7, <1>9, <1>11 DEF Middle, PicTypes
  <1>18. Counts' = Counts
    <2>1. OneUnless(picture', "none") = 0 /\ OneUnless(picture, "none") = 1
          /\ OneUnless(pcH, "idle") \in {0, 1} /\ sem \in Nat
      BY <1>1, <1>2 DEF OneUnless, Middle, PicTypes
    <2>2. Counts' = sem + (Len(chan) + 1) + OneUnless(pcH, "idle") + 0
      BY <1>2, <1>4, <1>7, <2>1 DEF Counts
    <2>3. Counts = sem + Len(chan) + OneUnless(pcH, "idle") + 1
      BY <2>1 DEF Counts
    <2> QED BY <1>7, <2>1, <2>2, <2>3
  <1> QED BY <1>1, <1>13, <1>14, <1>15, <1>16, <1>17, <1>18
       DEF Middle, Order, Counted, NothingOnItsWay

\* The slave takes every count: nothing is on its way any more.
LEMMA WaitKeeps ==
  ASSUME Middle, StepLabels, WaitWhenFull \/ WaitWhenFlushing
  PROVE  Middle' /\ StepLabels' /\ pcS' \notin {"unit", "slice"}
  <1>1. /\ UNCHANGED <<circVars, picVars, hVars>> /\ sem = StackSize /\ sem' = 0
        /\ pcS \in {"waitFull", "flush"} /\ pcS' \in {"consumeFull", "drop"}
    BY DEF WaitWhenFull, WaitWhenFlushing, SStep
  <1>2. StepLabels' /\ Holding' /\ ~Holding
    BY <1>1 DEF StepLabels, Holding, hVars
  <1>3. sem' \in 0 .. StackSize
    BY <1>1, Sizes
  <1>4. CircTypes' /\ Order' /\ PicTypes'
    BY <1>1, <1>3, OrderFrame
  <1>5. chan = <<>> /\ pcH = "idle" /\ picture = "none"
    <2>1. sem + Len(chan) + OneUnless(pcH, "idle") + OneUnless(picture, "none") = StackSize
      BY <1>2 DEF Middle, Counted, Counts
    <2>2. Len(chan) \in Nat /\ StackSize \in Nat /\ (chan = <<>> <=> Len(chan) = 0)
      BY ChanIs, Sizes DEF Middle
    <2>3. OneUnless(pcH, "idle") \in {0, 1} /\ OneUnless(picture, "none") \in {0, 1}
      BY OneUnlessIs
    <2>4. Len(chan) = 0 /\ OneUnless(pcH, "idle") = 0 /\ OneUnless(picture, "none") = 0
      BY <1>1, <2>1, <2>2, <2>3
    <2> QED BY <2>2, <2>4, OneUnlessIs
  <1>6. Counted' /\ NothingOnItsWay'
    BY <1>1, <1>2, <1>5 DEF Counted, NothingOnItsWay, picVars, hVars
  <1> QED BY <1>1, <1>2, <1>4, <1>6 DEF Middle

\* The slave gives the counts back.
LEMMA ReleaseKeeps ==
  ASSUME Middle, StepLabels, ReleaseFrames
  PROVE  Middle' /\ StepLabels' /\ pcS' \notin {"unit", "slice"}
  <1>1. /\ UNCHANGED <<circVars, picVars, hVars>> /\ sem' = sem + StackSize
        /\ pcS = "release" /\ pcS' \in {"last", "signalEos"}
    BY DEF ReleaseFrames, SStep
  <1>2. StepLabels' /\ Holding /\ ~Holding'
    BY <1>1 DEF StepLabels, Holding, hVars
  <1>3. sem = 0 /\ chan = <<>> /\ pcH = "idle" /\ picture = "none"
    BY <1>2 DEF Middle, NothingOnItsWay
  <1>4. sem' = StackSize /\ StackSize \in Nat
    BY <1>1, <1>3, Sizes
  <1>5. CircTypes' /\ Order' /\ PicTypes'
    BY <1>1, <1>4, OrderFrame
  <1>6. Counts' = StackSize
    <2>1. Len(chan') = 0 /\ OneUnless(pcH', "idle") = 0 /\ OneUnless(picture', "none") = 0
      BY <1>1, <1>3 DEF OneUnless, picVars, hVars
    <2> QED BY <1>4, <2>1 DEF Counts
  <1> QED BY <1>1, <1>2, <1>5, <1>6 DEF Middle, Counted, NothingOnItsWay

\* What the ended pictures leave is freed: the rest is where it was in the stream.
LEMMA ConsumeOrder ==
  ASSUME Middle, ConsumeUpTo(curOff), UNCHANGED <<picVars, hVars>>
  PROVE  CircTypes' /\ Order'
  <1> DEFINE d == Before(curOff)
  <1>1. /\ circ' = SubSeq(circ, d + 1, Len(circ)) /\ seen' = seen - d /\ from' = from - d
        /\ base' = base + d /\ off' = curOff /\ curOff' = curOff
    BY DEF ConsumeUpTo, hVars
  <1>2. /\ CircSize \in Nat \ {0} /\ Len(circ) \in Nat /\ Len(circ) <= CircSize
        /\ seen \in Nat /\ seen <= Len(circ) /\ from \in Nat /\ from <= seen /\ from < CircSize
        /\ base \in Nat /\ off \in 0 .. CircSize - 1 /\ curOff \in 0 .. CircSize - 1
        /\ d \in 0 .. from /\ Freed = base + d /\ Freed \in Nat
    BY CircIs DEF Middle
  <1>3. OffsetOf(d) = curOff
    BY <1>2, OffsetsAre
  <1>4. Before(curOff)' = 0
    <2>1. Before(curOff)' = IF curOff < curOff THEN curOff + CircSize - curOff ELSE curOff - curOff
      BY <1>1 DEF Before
    <2> QED BY <1>2, <2>1
  <1> HIDE DEF d
  <1>5. Freed' = Freed
    <2>1. Freed' = base' + Before(curOff)'
      BY DEF Freed
    <2> HIDE DEF Freed, Before
    <2> QED BY <1>1, <1>2, <1>4, <2>1
  <1> HIDE DEF Freed
  <1>6. circ' \in Seq(Pieces) /\ Len(circ') = Len(circ) - d
    <2>1. circ \in Seq(Pieces) /\ DOMAIN circ = 1 .. Len(circ)
      BY LenProperties DEF Middle, CircTypes
    <2>2. \A i \in d + 1 .. Len(circ) : circ[i] \in Pieces
      BY <1>2, <2>1, ElementOfSeq
    <2>3. d + 1 \in Int /\ Len(circ) \in Int
      BY <1>2
    <2>4. circ' \in Seq(Pieces) /\ Len(circ') = IF d + 1 <= Len(circ) THEN Len(circ) - (d + 1) + 1 ELSE 0
      BY <1>1, <2>2, <2>3, SubSeqProperties
    <2> QED BY <1>2, <2>4
  <1>7. CircTypes'
    <2>1. Len(circ') <= CircSize /\ from' \in 0 .. seen' /\ seen' \in 0 .. Len(circ') /\ base' \in Nat
      BY <1>1, <1>2, <1>6
    <2> QED BY <1>1, <1>2, <1>6, <2>1 DEF CircTypes
  <1>8. base' + from' = base + from
    BY <1>1, <1>2
  <1>9. UNCHANGED <<strOff, chan, blk1, picture, begin, blk2>>
    BY DEF picVars, hVars
  <1>10. PicCount'
    <2>1. from' < CircSize /\ Before(curOff)' <= from'
      BY <1>1, <1>2, <1>4
    <2> HIDE DEF Before
    <2> QED BY <1>9, <2>1 DEF Middle, Order, PicCount
  <1>11. PicPlaces'
    <2>1. ASSUME NEW i \in DOMAIN chan
          PROVE  /\ Freed <= chan[i].first /\ chan[i].first <= chan[i].last
                 /\ chan[i].last <= base + from
                 /\ strOff[(blk2 + i - 1) % StackSize] = OffsetOf(chan[i].last - base)'
      <3>1. /\ Freed <= chan[i].first /\ chan[i].first <= chan[i].last
            /\ chan[i].last <= base + from
            /\ strOff[(blk2 + i - 1) % StackSize] = OffsetOf(chan[i].last - base)
        BY DEF Middle, Order, PicPlaces
      <3> DEFINE n == chan[i].last - base
      <3>2. n \in d .. CircSize - 1
        <4>1. chan[i].first \in Nat /\ chan[i].last \in Nat
          BY ChanIs DEF Middle
        <4> QED BY <1>2, <3>1, <4>1
      <3>3. (chan[i].last - base)' = n - d
        <4>1. chan[i].last \in Nat
          BY ChanIs DEF Middle
        <4>2. chan[i].last - (base + d) = (chan[i].last - base) - d
          BY <1>2, <4>1
        <4> QED BY <1>1, <1>9, <4>2
      <3> HIDE DEF n
      <3>4. OffsetOf(chan[i].last - base)' = (((off + d) % CircSize) + (n - d)) % CircSize
        BY <1>1, <1>3, <3>3 DEF OffsetOf
      <3>5. d \in 0 .. CircSize - 1
        BY <1>2
      <3>6. (((off + d) % CircSize) + (n - d)) % CircSize = (off + n) % CircSize
        BY <1>2, <3>2, <3>5, RingsAdd
      <3>7. OffsetOf(chan[i].last - base)' = OffsetOf(n)
        BY <3>4, <3>6 DEF OffsetOf
      <3> HIDE DEF OffsetOf
      <3> QED BY <3>1, <3>7 DEF n
    <2> HIDE DEF OffsetOf
    <2> QED BY <1>5, <1>8, <1>9, <2>1 DEF PicPlaces
  <1>12. PicFollow'
    BY <1>9 DEF Middle, Order, PicFollow
  <1>13. PicBegun'
    BY <1>5, <1>8, <1>9 DEF Middle, Order, PicBegun
  <1> QED BY <1>7, <1>10, <1>11, <1>12, <1>13 DEF Order

LEMMA ConsumeKeeps ==
  ASSUME Middle, StepLabels, Consume \/ ConsumeWhenFull
  PROVE  Middle' /\ StepLabels' /\ pcS' \notin {"unit", "slice"}
  <1>1. ConsumeUpTo(curOff) /\ UNCHANGED <<picVars, hVars, sem>>
    BY DEF Consume, ConsumeWhenFull, SStep
  <1>2. StepLabels' /\ Holding' = Holding /\ pcS' \notin {"unit", "slice"}
    <2>1. CASE Consume
      BY <2>1 DEF Consume, SStep, StepLabels, Holding, hVars
    <2>2. CASE ConsumeWhenFull
      <3>1. pcS = "consumeFull" /\ pcS' \in {"drop", "release"} /\ pcH' = pcH
        BY <2>2 DEF ConsumeWhenFull, SStep, hVars
      <3> QED BY <3>1 DEF StepLabels, Holding
    <2> QED BY <2>1, <2>2
  <1>3. CircTypes' /\ Order'
    BY <1>1, ConsumeOrder
  <1>4. PicTypes' /\ Counted' /\ NothingOnItsWay'
    BY <1>1, <1>2 DEF Middle, PicTypes, Counted, Counts, NothingOnItsWay, picVars, hVars
  <1> QED BY <1>2, <1>3, <1>4 DEF Middle

\* The circular buffer starts anew.
LEMMA FlushInputKeeps ==
  ASSUME Middle, StepLabels, FlushInput
  PROVE  Middle' /\ StepLabels' /\ pcS' \notin {"unit", "slice"}
  <1>1. /\ UNCHANGED <<picVars, blk2, pcH, sem>> /\ pcS = "drop" /\ pcS' = "release"
        /\ curOff' = 0 /\ circ' = <<>> /\ off' = 0 /\ seen' = 0 /\ from' = 0
        /\ base' = base + Len(circ)
    BY DEF FlushInput
  <1>2. StepLabels' /\ Holding /\ Holding'
    BY <1>1 DEF StepLabels, Holding
  <1>3. chan = <<>> /\ picture = "none"
    BY <1>2 DEF Middle, NothingOnItsWay
  <1>4. /\ CircSize \in Nat \ {0} /\ Len(circ) \in Nat /\ base \in Nat
    BY CircIs DEF Middle
  <1>5. CircTypes'
    <2>1. base' \in Nat /\ Len(circ') = 0 /\ circ' \in Seq(Pieces)
      BY <1>1, <1>4, EmptySeq
    <2>2. seen' \in 0 .. Len(circ') /\ from' \in 0 .. seen' /\ off' \in 0 .. CircSize - 1
          /\ curOff' \in 0 .. CircSize - 1
      BY <1>1, <1>4, <2>1
    <2> QED BY <1>4, <2>1, <2>2 DEF CircTypes
  <1>6. PicTypes' /\ Counted' /\ NothingOnItsWay'
    BY <1>1, <1>2 DEF Middle, PicTypes, Counted, Counts, NothingOnItsWay, picVars
  <1>7. Order'
    <2>1. Before(curOff)' = 0
      BY <1>1, <1>4 DEF Before
    <2>2. PicCount'
      <3>1. from' < CircSize /\ Before(curOff)' <= from'
        BY <1>1, <1>4, <2>1
      <3> HIDE DEF Before
      <3> QED BY <1>1, <3>1 DEF Middle, Order, PicCount, picVars
    <2>3. chan' = <<>> /\ picture' = "none" /\ DOMAIN chan' = {}
      BY <1>1, <1>3 DEF picVars
    <2>4. PicPlaces' /\ PicFollow' /\ PicBegun'
      BY <2>3 DEF PicPlaces, PicFollow, PicBegun
    <2> QED BY <2>2, <2>4 DEF Order
  <1> QED BY <1>1, <1>2, <1>5, <1>6, <1>7 DEF Middle

\* The first picture in the hardware ends: what it used may be freed.
LEMMA EndPictureKeeps ==
  ASSUME Middle, StepLabels, EndPicture
  PROVE  Middle' /\ StepLabels'
  <1>1. /\ UNCHANGED <<circVars, strOff, blk1, picture, begin, pcS, sem>>
        /\ pcH = "idle" /\ pcH' = "signal"
        /\ chan # <<>> /\ chan' = Tail(chan)
        /\ curOff' = strOff[blk2 % StackSize] /\ blk2' = blk2 + 1
    BY DEF EndPicture, HStep, EndedCommand
  <1>2. StepLabels' /\ ~Holding /\ ~Holding'
    BY <1>1 DEF StepLabels, Holding, Middle, NothingOnItsWay
  <1>3. chan \in Seq([first : Nat, last : Nat])
    BY DEF Middle, PicTypes
  <1>4. /\ Len(chan) \in Nat /\ Len(chan) > 0 /\ DOMAIN chan = 1 .. Len(chan)
        /\ chan' \in Seq([first : Nat, last : Nat]) /\ Len(chan') = Len(chan) - 1
        /\ DOMAIN chan' = 1 .. Len(chan) - 1
        /\ \A i \in 1 .. Len(chan) - 1 : chan'[i] = chan[i + 1]
    BY <1>1, <1>3, SeqHead
  <1>5. \A i \in DOMAIN chan : chan[i].first \in Nat /\ chan[i].last \in Nat
    BY ChanIs DEF Middle
  <1>6. /\ CircSize \in Nat \ {0} /\ from \in Nat /\ from < CircSize
        /\ base \in Nat /\ off \in 0 .. CircSize - 1
        /\ Before(curOff) \in 0 .. from /\ Freed = base + Before(curOff) /\ Freed \in Nat
    BY CircIs DEF Middle
  <1>7. blk2 \in Nat /\ blk1 \in Nat /\ blk1 = blk2 + Len(chan)
    BY DEF Middle, PicTypes, Order, PicCount
  <1>8. /\ Freed <= chan[1].first /\ chan[1].first <= chan[1].last /\ chan[1].last <= base + from
        /\ strOff[blk2 % StackSize] = OffsetOf(chan[1].last - base)
    <2>1. 1 \in DOMAIN chan /\ blk2 + 1 - 1 = blk2
      BY <1>4, <1>7
    <2>2. /\ Freed <= chan[1].first /\ chan[1].first <= chan[1].last /\ chan[1].last <= base + from
          /\ strOff[(blk2 + 1 - 1) % StackSize] = OffsetOf(chan[1].last - base)
      BY <2>1 DEF Middle, Order, PicPlaces
    <2> HIDE DEF OffsetOf, Freed
    <2> QED BY <2>1, <2>2
  <1> DEFINE n == chan[1].last - base
  <1>9. n \in 0 .. from /\ n \in 0 .. CircSize - 1 /\ chan[1].last \in Nat
    <2>1. chan[1].first \in Nat /\ chan[1].last \in Nat
      BY <1>4, <1>5
    <2>2. chan[1].last >= base /\ chan[1].last <= base + from
      <3> HIDE DEF Freed, Before, OffsetOf
      <3> QED BY <1>6, <1>8, <2>1
    <2> QED BY <1>6, <2>1, <2>2
  <1>10. curOff' = OffsetOf(n)
    BY <1>1, <1>8
  <1>11. chan[1].last = base + n
    BY <1>6, <1>9
  <1> HIDE DEF n
  <1>12. curOff' \in 0 .. CircSize - 1 /\ Before(OffsetOf(n)) = n
    <2> HIDE DEF OffsetOf, Before
    <2> QED BY <1>6, <1>9, <1>10, OffsetsAre
  <1>13. Before(curOff)' = n
    <2>1. Before(curOff)' = IF curOff' < off THEN curOff' + CircSize - off ELSE curOff' - off
      BY <1>1 DEF Before, circVars
    <2>2. Before(OffsetOf(n)) = IF OffsetOf(n) < off THEN OffsetOf(n) + CircSize - off ELSE OffsetOf(n) - off
      BY DEF Before
    <2> HIDE DEF OffsetOf
    <2> QED BY <1>10, <1>12, <2>1, <2>2
  <1>14. Freed' = chan[1].last /\ base' = base /\ from' = from
    <2>1. Freed' = base' + Before(curOff)'
      BY DEF Freed
    <2> HIDE DEF Freed, Before
    <2> QED BY <1>1, <1>11, <1>13, <2>1 DEF circVars
  <1> HIDE DEF Freed, Before
  <1>15. CircTypes'
    BY <1>1, <1>12 DEF Middle, CircTypes, circVars
  <1>16. PicTypes'
    BY <1>1, <1>4, <1>7 DEF Middle, PicTypes
  <1>17. PicCount'
    <2>1. Before(curOff)' <= from'
      BY <1>9, <1>13, <1>14
    <2>2. blk1' = blk2' + Len(chan')
      BY <1>1, <1>4, <1>7
    <2> QED BY <1>6, <1>14, <2>1, <2>2 DEF PicCount
  <1>18. PicPlaces'
    <2>1. ASSUME NEW i \in DOMAIN chan'
          PROVE  /\ chan[1].last <= chan'[i].first /\ chan'[i].first <= chan'[i].last
                 /\ chan'[i].last <= base + from
                 /\ strOff[(blk2 + 1 + i - 1) % StackSize] = OffsetOf(chan'[i].last - base)
      <3>1. i + 1 \in DOMAIN chan /\ 1 \in DOMAIN chan /\ 1 < i + 1 /\ chan'[i] = chan[i + 1] /\ i \in Nat
        BY <1>4
      <3>2. /\ chan[i + 1].first <= chan[i + 1].last
            /\ chan[i + 1].last <= base + from
            /\ strOff[(blk2 + (i + 1) - 1) % StackSize] = OffsetOf(chan[i + 1].last - base)
        BY <3>1 DEF Middle, Order, PicPlaces
      <3>3. chan[1].last <= chan[i + 1].first
        BY <3>1 DEF Middle, Order, PicFollow
      <3>4. blk2 + (i + 1) - 1 = blk2 + 1 + i - 1
        BY <1>7, <3>1
      <3> HIDE DEF OffsetOf
      <3> QED BY <3>1, <3>2, <3>3, <3>4
    <2>2. \A i \in DOMAIN chan' : OffsetOf(chan[i].last - base)' = OffsetOf(chan'[i].last - base)
      BY <1>1 DEF OffsetOf, circVars
    <2> HIDE DEF OffsetOf
    <2> QED BY <1>1, <1>14, <2>1, <2>2 DEF PicPlaces
  <1>19. PicFollow'
    <2>1. ASSUME NEW i \in DOMAIN chan', NEW j \in DOMAIN chan', i < j
          PROVE  chan'[i].last <= chan'[j].first
      <3>1. i + 1 \in DOMAIN chan /\ j + 1 \in DOMAIN chan /\ i + 1 < j + 1
            /\ chan'[i] = chan[i + 1] /\ chan'[j] = chan[j + 1]
        <4>1. i \in 1 .. Len(chan) - 1 /\ j \in 1 .. Len(chan) - 1
          BY <1>4
        <4> QED BY <1>4, <2>1, <4>1
      <3> QED BY <3>1 DEF Middle, Order, PicFollow
    <2> QED BY <2>1 DEF PicFollow
  <1>20. PicBegun'
    <2>1. ASSUME picture' # "none"
          PROVE  /\ Freed' <= begin' /\ begin' <= base' + from'
                 /\ \A i \in DOMAIN chan' : chan'[i].last <= begin'
      <3>1. begin <= base + from /\ \A i \in DOMAIN chan : chan[i].last <= begin
        BY <1>1, <2>1 DEF Middle, Order, PicBegun
      <3>2. 1 \in DOMAIN chan /\ \A i \in DOMAIN chan' : i + 1 \in DOMAIN chan /\ chan'[i] = chan[i + 1]
        BY <1>4
      <3> QED BY <1>1, <1>14, <3>1, <3>2
    <2> QED BY <2>1 DEF PicBegun
  <1>21. Counts' = Counts
    <2>1. OneUnless(pcH, "idle") = 0 /\ OneUnless(pcH', "idle") = 1
          /\ OneUnless(picture, "none") \in {0, 1} /\ sem \in Nat
      BY <1>1 DEF OneUnless, Middle, PicTypes
    <2>2. Counts' = sem + (Len(chan) - 1) + 1 + OneUnless(picture, "none")
      BY <1>1, <1>4, <2>1 DEF Counts
    <2>3. Counts = sem + Len(chan) + 0 + OneUnless(picture, "none")
      BY <2>1 DEF Counts
    <2> QED BY <1>4, <2>1, <2>2, <2>3
  <1> QED BY <1>2, <1>15, <1>16, <1>17, <1>18, <1>19, <1>20, <1>21
       DEF Middle, Order, Counted, NothingOnItsWay

\* The end of a picture is signalled, then its count given back.
LEMMA SignalFeederKeeps ==
  ASSUME Middle, StepLabels, SignalFeeder
  PROVE  Middle' /\ StepLabels'
  <1>1. /\ UNCHANGED <<circVars, picVars, curOff, blk2, pcS, sem>> /\ pcH = "signal" /\ pcH' = "post"
    BY DEF SignalFeeder, HStep, picVars
  <1>2. CircTypes' /\ PicTypes'
    BY <1>1 DEF Middle, CircTypes, PicTypes, circVars, picVars
  <1>3. Order'
    BY <1>1 DEF Middle, Order, PicCount, PicPlaces, PicFollow, PicBegun, Freed, Before, OffsetOf,
           circVars, picVars
  <1>4. StepLabels' /\ ~Holding /\ ~Holding'
    BY <1>1 DEF StepLabels, Holding, Middle, NothingOnItsWay
  <1>5. OneUnless(pcH', "idle") = OneUnless(pcH, "idle")
    BY <1>1 DEF OneUnless
  <1>6. Counts' = Counts
    BY <1>1, <1>5 DEF Counts, picVars
  <1> QED BY <1>2, <1>3, <1>4, <1>6 DEF Middle, Counted, NothingOnItsWay

LEMMA PostSemaphoreKeeps ==
  ASSUME Middle, StepLabels, PostSemaphore
  PROVE  Middle' /\ StepLabels'
  <1>1. /\ UNCHANGED <<circVars, picVars, curOff, blk2, pcS>> /\ pcH = "post" /\ pcH' = "idle"
        /\ sem' = sem + 1
    BY DEF PostSemaphore, HStep, picVars
  <1>2. CircTypes'
    BY <1>1 DEF Middle, CircTypes, circVars
  <1>3. Order'
    BY <1>1 DEF Middle, Order, PicCount, PicPlaces, PicFollow, PicBegun, Freed, Before, OffsetOf,
           circVars, picVars
  <1>4. StepLabels' /\ ~Holding /\ ~Holding'
    BY <1>1 DEF StepLabels, Holding, Middle, NothingOnItsWay
  <1>5. OneUnless(pcH', "idle") = 0 /\ OneUnless(pcH, "idle") = 1 /\ OneUnless(picture, "none") \in {0, 1}
    BY <1>1 DEF OneUnless
  <1>6. Counts = StackSize /\ sem \in Nat /\ Len(chan) \in Nat /\ StackSize \in Nat
    BY <1>4, ChanIs, Sizes DEF Middle, Counted, PicTypes
  <1>7. Counts' = sem + 1 + Len(chan) + 0 + OneUnless(picture, "none")
    BY <1>1, <1>5 DEF Counts, picVars
  <1>8. Counts = sem + Len(chan) + 1 + OneUnless(picture, "none")
    BY <1>5 DEF Counts
  <1>9. Counts' = StackSize /\ sem' \in 0 .. StackSize
    BY <1>1, <1>5, <1>6, <1>7, <1>8
  <1>10. PicTypes'
    BY <1>1, <1>9 DEF Middle, PicTypes, picVars
  <1> QED BY <1>2, <1>3, <1>4, <1>9, <1>10 DEF Middle, Counted, NothingOnItsWay
-----------------------------------------------------------------------------
(* The invariant *)

\* A unit that was found stays found while the slave has not gone on.
LEMMA UnitStays ==
  ASSUME UNCHANGED <<circ, seen, from, sliceMode>>
  PROVE  UnitFound' = UnitFound
  <1>1. Slices' = Slices
    BY DEF Slices
  <1>2. Followers' = Followers
    <2>1. Followers = {i \in Slices : i > Min(Slices) /\ (sliceMode \/ circ[i] = "first")}
      BY DEF Followers
    <2>2. Followers' = {i \in Slices' : i > Min(Slices') /\ (sliceMode' \/ circ'[i] = "first")}
      BY DEF Followers
    <2> HIDE DEF Slices, Followers
    <2> QED BY <1>1, <2>1, <2>2
  <1> QED BY <1>2 DEF UnitFound

\* Each step of the slave keeps the pictures in order and the units known.
LEMMA SlaveKeeps ==
  ASSUME FeederInv, SNext \/ UnitError
  PROVE  Middle' /\ StepLabels' /\ UnitKnown'
  <1>0. Middle /\ StepLabels /\ UnitKnown
    BY InvIs
  <1>1. CASE SQuiet
    <2>1. /\ UNCHANGED <<circVars, picVars, hVars, sem, sliceMode>> /\ Holding' = Holding
          /\ StepLabels' /\ pcS' # "slice" /\ (pcS' = "unit" => UnitFound)
      BY <1>0, <1>1, SQuietIs
    <2>2. Middle'
      BY <1>0, <2>1, MiddleFrame
    <2>3. UnitFound' = UnitFound
      BY <2>1, UnitStays DEF circVars
    <2>4. UnitKnown'
      BY <2>1, <2>3 DEF UnitKnown
    <2> QED BY <2>1, <2>2, <2>4
  <1>2. CASE BeginPicture
    <2>1. Middle' /\ StepLabels' /\ pcS' = "slice" /\ picture' # "none"
          /\ UNCHANGED <<circ, seen, from, sliceMode>>
      BY <1>0, <1>2, BeginKeeps
    <2>2. UnitFound
      BY <1>0, <1>2 DEF UnitKnown, BeginPicture, SStep
    <2>3. UnitFound'
      BY <2>1, <2>2, UnitStays
    <2> QED BY <2>1, <2>3 DEF UnitKnown
  <1>3. CASE \/ RefillStartCodes \/ Transfer \/ CancelPicture \/ SkipSlice \/ LaunchSlice
             \/ LaunchPicture \/ WaitWhenFull \/ WaitWhenFlushing \/ ReleaseFrames
             \/ Consume \/ ConsumeWhenFull \/ FlushInput
    <2>1. Middle' /\ StepLabels' /\ pcS' \notin {"unit", "slice"}
      BY <1>0, <1>3, RefillKeeps, TransferKeeps, SkipKeeps, LaunchSliceKeeps, LaunchPictureKeeps,
         WaitKeeps, ReleaseKeeps, ConsumeKeeps, FlushInputKeeps
    <2>2. UnitKnown'
      BY <2>1 DEF UnitKnown
    <2> QED BY <2>1, <2>2
  <1> QED BY <1>1, <1>2, <1>3 DEF SNext, SQuiet

LEMMA OthersKeep ==
  ASSUME FeederInv, ANext \/ HNext
  PROVE  Middle' /\ StepLabels' /\ UnitKnown'
  <1>0. Middle /\ StepLabels /\ UnitKnown
    BY InvIs
  <1>1. UNCHANGED <<circVars, pcS, picture, sliceMode>>
    BY AKeeps, HKeeps DEF ALeaves, HLeaves, picVars
  <1>2. UnitKnown'
    <2>1. UnitFound' = UnitFound
      BY <1>1, UnitStays DEF circVars
    <2> QED BY <1>0, <1>1, <2>1 DEF UnitKnown
  <1>3. CASE ANext
    <2>1. UNCHANGED <<circVars, picVars, hVars, sem, pcS>>
      BY <1>3, AKeeps DEF ALeaves
    <2>2. Holding' = Holding /\ StepLabels'
      BY <1>0, <2>1 DEF Holding, StepLabels, hVars
    <2> QED BY <1>0, <1>2, <2>1, <2>2, MiddleFrame
  <1>4. CASE HNext
    BY <1>0, <1>2, <1>4, EndPictureKeeps, SignalFeederKeeps, PostSemaphoreKeeps DEF HNext
  <1> QED BY <1>3, <1>4

LEMMA FeederInit == Init => FeederInv
  <1> SUFFICES ASSUME Init PROVE FeederInv
    OBVIOUS
  <1>1. AppTypes
    <2>1. \A b \in Inputs : (IF b = EosBuf THEN EosNal ELSE <<>>) \in Seq(Pieces)
      BY Sizes, EmptySeq
    <2>2. data \in [Inputs -> Seq(Pieces)]
      BY <2>1 DEF Init
    <2> QED BY <2>2 DEF Init, AppTypes
  <1>2. QueueTypes
    <2>1. fifo = <<>> /\ fifo \in Seq(Inputs) /\ Len(fifo) = 0
      BY EmptySeq DEF Init
    <2>2. metas \in [Inputs -> Seq([off : Nat, avail : Nat, last : BOOLEAN])]
      BY EmptySeq DEF Init
    <2> QED BY <2>1, <2>2, Sizes DEF Init, QueueTypes
  <1>3. MetaDue
    <2>1. ASSUME NEW b \in Inputs PROVE Due(b) <= Len(metas[b])
      <3>1. TimesIn(fifo, b) = 0
        BY PlacesFinite, EmptySeq DEF Init
      <3>2. OneIf(workBuf = b) = 0 /\ OneIf(pcA = "queue" /\ call.buf = b) = 0
        BY Sizes DEF Init, OneIf
      <3>3. metas[b] = <<>> /\ Len(metas[b]) = 0
        BY EmptySeq DEF Init
      <3> QED BY <3>1, <3>2, <3>3 DEF Due
    <2> QED BY <2>1 DEF MetaDue
  <1>4. StepLabels /\ UnitKnown
    BY DEF Init, StepLabels, UnitKnown
  <1>5. CircTypes
    <2>1. circ = <<>> /\ circ \in Seq(Pieces) /\ Len(circ) = 0
      BY EmptySeq DEF Init
    <2> QED BY <2>1, Sizes DEF Init, CircTypes
  <1>6. chan = <<>> /\ chan \in Seq([first : Nat, last : Nat]) /\ Len(chan) = 0 /\ DOMAIN chan = {}
    BY EmptySeq DEF Init
  <1>7. PicTypes
    <2>1. strOff \in [0 .. StackSize - 1 -> 0 .. CircSize - 1]
      BY Sizes DEF Init
    <2> QED BY <1>6, <2>1, Sizes DEF Init, PicTypes
  <1>8. Counted /\ NothingOnItsWay
    <2>1. OneUnless(pcH, "idle") = 0 /\ OneUnless(picture, "none") = 0
      BY DEF Init, OneUnless
    <2>2. Counts = StackSize
      BY <1>6, <2>1, Sizes DEF Init, Counts
    <2> QED BY <2>2 DEF Init, Counted, NothingOnItsWay, Holding
  <1>9. Order
    <2>1. Before(curOff) = 0
      BY Sizes DEF Init, Before
    <2>2. PicCount
      <3> HIDE DEF Before
      <3> QED BY <1>6, <2>1, Sizes DEF Init, PicCount
    <2>3. PicPlaces /\ PicFollow /\ PicBegun
      BY <1>6 DEF Init, PicPlaces, PicFollow, PicBegun
    <2> QED BY <2>2, <2>3 DEF Order
  <1> QED BY <1>1, <1>2, <1>3, <1>4, <1>5, <1>7, <1>8, <1>9, InvIs DEF Middle

LEMMA FeederStep == FeederInv /\ [Next]_vars => FeederInv'
  <1> SUFFICES ASSUME FeederInv, [Next]_vars PROVE FeederInv'
    OBVIOUS
  <1>1. CASE UNCHANGED vars
    <2>2. UNCHANGED <<queueVars, circVars, picVars, hVars, aVars, sem, pcS, sliceMode>>
      BY <1>1 DEF vars
    <2>3. Middle /\ StepLabels /\ UnitKnown /\ AppTypes /\ QueueTypes /\ MetaDue
      BY InvIs
    <2>4. Middle' /\ StepLabels'
      <3>1. Holding' = Holding /\ StepLabels'
        BY <2>2, <2>3 DEF Holding, StepLabels, hVars
      <3> QED BY <2>2, <2>3, <3>1, MiddleFrame
    <2>5. UnitKnown'
      <3>1. UnitFound' = UnitFound
        BY <2>2, UnitStays DEF circVars
      <3> QED BY <2>2, <2>3, <3>1 DEF UnitKnown, picVars
    <2>6. AppTypes' /\ QueueTypes' /\ MetaDue'
      BY <2>2, <2>3 DEF AppTypes, QueueTypes, MetaDue, Due, queueVars, aVars
    <2> QED BY <2>4, <2>5, <2>6, InvIsNext
  <1>2. CASE Next
    <2>1. AppTypes' /\ QueueTypes' /\ MetaDue'
      BY <1>2, AppTypesKept, QueueKept
    <2>2. Middle' /\ StepLabels' /\ UnitKnown'
      BY <1>2, SlaveKeeps, OthersKeep, ThreeActors
    <2> QED BY <2>1, <2>2, InvIsNext
  <1> QED BY <1>1, <1>2

\* The inductive invariant: types, metadata for each queued buffer, the counts of the semaphore,
\* and the pictures in the order of the stream.
THEOREM FeederInvariant == Spec => []FeederInv
  BY FeederInit, FeederStep, PTL DEF Spec

\* The semaphore of the commands counts the pictures on their way, for every stack, queue and
\* circular buffer.
THEOREM SemaphoreTheorem == Spec => []SemaphoreExact
  <1>1. FeederInv => SemaphoreExact
    BY DEF FeederInv
  <1> QED BY <1>1, FeederInvariant, PTL

\* What a picture on its way reads is never freed before its end, for every stack, queue and
\* circular buffer.
THEOREM StreamKeptTheorem == Spec => []StreamKept
  <1>1. FeederInv => StreamKept
    <2> SUFFICES ASSUME FeederInv PROVE StreamKept
      OBVIOUS
    <2>1. Middle
      BY InvIs
    <2>2. Freed \in Nat /\ base \in Nat /\ Freed >= base
      <3>1. base \in Nat /\ Before(curOff) \in Nat /\ Freed = base + Before(curOff)
        BY <2>1, CircIs DEF Middle
      <3> HIDE DEF Before, Freed
      <3> QED BY <3>1
    <2>3. ASSUME NEW i \in DOMAIN chan
          PROVE  /\ chan[i].first >= base
                 /\ strOff[(blk2 + i - 1) % StackSize] = OffsetOf(chan[i].last - base)
      <3>1. chan[i].first \in Nat
        BY <2>1, ChanIs DEF Middle
      <3>2. /\ Freed <= chan[i].first
            /\ strOff[(blk2 + i - 1) % StackSize] = OffsetOf(chan[i].last - base)
        BY <2>1 DEF Middle, Order, PicPlaces
      <3> HIDE DEF Freed, OffsetOf
      <3> QED BY <2>2, <3>1, <3>2
    <2>4. picture # "none" => begin >= base
      <3>1. picture # "none" => Freed <= begin
        BY <2>1 DEF Middle, Order, PicBegun
      <3>2. begin \in Nat
        BY <2>1 DEF Middle, PicTypes
      <3> HIDE DEF Freed
      <3> QED BY <2>2, <3>1, <3>2
    <2> QED BY <2>3, <2>4 DEF StreamKept
  <1> QED BY <1>1, FeederInvariant, PTL
=============================================================================

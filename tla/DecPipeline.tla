---------------------------- MODULE DecPipeline -----------------------------
(***************************************************************************)
(* The decoding pipeline of the AVC decoder: how a picture buffer travels  *)
(* between the application, the buffer pool, the decoding commands, the    *)
(* decoded picture buffer and the display callback.  Three threads share   *)
(* the picture manager:                                                    *)
(*   D  the slave thread of the feeder: parses, begins and launches        *)
(*      pictures, flushes at the end of the stream (AvcDecoder.c,          *)
(*      SliceDataParsing.c, DefaultDecoder.c, DecoderFeeder.c);            *)
(*   E  the thread that receives the end of a decoding command and runs    *)
(*      AL_Default_Decoder_EndDecoding;                                    *)
(*   U  the application: it puts buffers in the pool and destroys the      *)
(*      decoder.                                                           *)
(* The stream is a sequence of pictures chosen from PicKinds.  The         *)
(* hardware completes commands in the order it gets them.                  *)
(***************************************************************************)
EXTENDS PictMngr, TLC

CONSTANTS
    PicKinds,       \* what the slice headers of a picture may say
    StackSize,      \* iStackSize
    RefRing,        \* MAX_STACK_SIZE, the entries of uFrameIDRefList
    MaxPics,        \* bound: pictures in the stream
    MaxFlush,       \* bound: ends of input before the decoder is destroyed
    DriverMayFail   \* may the driver refuse a decoding command

ASSUME DecPipelineAssumption ==
    /\ StackSize \in 1 .. RefRing
    /\ RefRing \in Nat
    /\ MaxPics \in Nat /\ MaxFlush \in Nat
    /\ DriverMayFail \in BOOLEAN
    /\ PicKinds \subseteq [idr : BOOLEAN, ref : BOOLEAN, poc : Int, gap : BOOLEAN,
                           sync : BOOLEAN]

VARIABLES
    ctx,        \* PictMngr
    sem,        \* Sem: commands that may still be started
    chan,       \* commands given to the hardware, oldest first
    refList,    \* uFrameIDRefList and uMvIDRefList, a ring of reference lists
    blk1,       \* iNumFrmBlk1, commands launched
    blk2,       \* iNumFrmBlk2, commands ended
    pcD, pic, recID, mvID,   \* thread D: label, current picture, uRecID, uMvID
    pcE, done,               \* thread E: label, the command that ended
    showing,    \* the buffer each callback thread is displaying
    pcU,        \* thread U: label
    user,       \* buffers in the hands of the application
    keepGoing,  \* the feeder is not being destroyed
    stopped,    \* nothing was decoded since the last flush
    eos,        \* end of stream callbacks made
    pics        \* pictures parsed

dVars == <<pcD, pic, recID, mvID>>
eVars == <<pcE, done>>
uVars == <<pcU, user, keepGoing>>
vars == <<ctx, sem, chan, refList, blk1, blk2, dVars, eVars, showing, uVars, stopped,
          eos, pics>>

NoPic == [idr |-> FALSE, ref |-> FALSE, poc |-> 0, gap |-> FALSE, sync |-> FALSE]
CallbackThreads == {"D", "E"}
Command == [frm : Slots, mv : MvIDs, refs : Seq(Slots \X MvIDs)]
NoCommand == [frm |-> NoSlot, mv |-> NoMv, refs |-> <<>>]

Init ==
    /\ ctx = PictMngr_Init
    /\ sem = StackSize
    /\ chan = <<>>
    /\ refList = [i \in 0 .. RefRing - 1 |-> <<>>]
    /\ blk1 = 0 /\ blk2 = 0
    /\ pcD = "idle" /\ pic = NoPic /\ recID = NoSlot /\ mvID = NoMv
    /\ pcE = "idle" /\ done = NoCommand
    /\ showing = [t \in CallbackThreads |-> NoBuf]
    /\ pcU = "run" /\ user = Bufs /\ keepGoing = TRUE
    /\ stopped = TRUE /\ eos = 0 /\ pics = 0
-----------------------------------------------------------------------------
(* Thread D: a picture from its first slice to the launch of its command *)

\* Only thread D and the picture manager change
DStep(from, to) ==
    /\ pcD = from /\ pcD' = to
    /\ UNCHANGED <<chan, blk1, blk2, eVars, showing, uVars, eos, pics>>

\* The first slice of a picture is parsed; missing frame numbers are filled in
ParseSlice(k) ==
    /\ pcD = "idle" /\ keepGoing /\ pics < MaxPics
    /\ pcD' = "getSem"
    /\ pic' = k
    /\ pics' = pics + 1
    /\ stopped' = FALSE
    /\ ctx' = IF k.gap THEN FillGap(ctx, k.poc) ELSE ctx
    /\ UNCHANGED <<sem, chan, refList, blk1, blk2, recID, mvID, eVars, showing, uVars, eos>>

GetSemaphore ==
    /\ DStep("getSem", "pop")
    /\ sem > 0
    /\ sem' = sem - 1
    /\ UNCHANGED <<ctx, refList, pic, recID, mvID, stopped>>

PopBuffer ==
    /\ DStep("pop", "getMv")
    /\ ctx.pool.number > 0
    /\ recID' = ctx.pool.head
    /\ ctx' = [ctx EXCEPT !.pool = Pop(@)]
    /\ UNCHANGED <<sem, refList, pic, mvID, stopped>>

PopWaits ==
    /\ DStep("pop", "waitEvent")
    /\ ctx.pool.number <= 0 /\ ~ctx.pool.decommitted
    /\ UNCHANGED <<ctx, sem, refList, pic, recID, mvID, stopped>>

\* The event resets itself when the wait returns
PopWakesUp ==
    /\ DStep("waitEvent", "pop")
    /\ ctx.pool.event
    /\ ctx' = [ctx EXCEPT !.pool.event = FALSE]
    /\ UNCHANGED <<sem, refList, pic, recID, mvID, stopped>>

\* Mutated: the picture is tried again
PopFailsAgain ==
    /\ DStep("pop", "getSem")
    /\ ctx.pool.number <= 0 /\ ctx.pool.decommitted
    /\ sem' = sem + 1
    /\ recID' = NoSlot
    /\ UNCHANGED <<ctx, refList, pic, mvID, stopped>>

\* AL_PictMngr_BeginFrame fails: the picture is given up
PopFails ==
    /\ DStep("pop", "idle")
    /\ ctx.pool.number <= 0 /\ ctx.pool.decommitted
    /\ sem' = sem + 1
    /\ recID' = NoSlot
    /\ UNCHANGED <<ctx, refList, pic, mvID, stopped>>

GetMv ==
    /\ DStep("getMv", "listRefs")
    /\ ctx.mv.sem > 0
    /\ mvID' = ctx.mv.free[Len(ctx.mv.free)]
    /\ ctx' = [ctx EXCEPT !.mv = GetFreeBufID(@)]
    /\ UNCHANGED <<sem, refList, pic, recID, stopped>>

\* Mutated: the slot of the ring is the one of the oldest command
ListRefsOfOldest ==
    /\ DStep("listRefs", "lockRefs")
    /\ refList' = [refList EXCEPT ![blk2 % RefRing] = RefBuffers(ctx)]
    /\ UNCHANGED <<ctx, sem, pic, recID, mvID, stopped>>

\* AL_InitRefBuffers reads the nodes, then locks what it found
ListRefs ==
    /\ DStep("listRefs", "lockRefs")
    /\ refList' = [refList EXCEPT ![blk1 % RefRing] = RefBuffers(ctx)]
    /\ UNCHANGED <<ctx, sem, pic, recID, mvID, stopped>>

LockRefs ==
    /\ DStep("lockRefs", CASE ~pic.sync -> "cancel"
                           [] pic.sync /\ pic.idr -> "flushDpb"
                           [] OTHER -> "replace")
    /\ ctx' = LockRefID(ctx, refList[blk1 % RefRing])
    /\ UNCHANGED <<sem, refList, pic, recID, mvID, stopped>>

\* Mutated: the references are not unlocked
CancelRefsKept ==
    /\ DStep("cancelRefs", "idle")
    /\ sem' = sem + 1
    /\ UNCHANGED <<ctx, refList, pic, recID, mvID, stopped>>

\* AL_CancelFrameBuffers: the picture is no synchronisation point
CancelFrame ==
    /\ DStep("cancel", "cancelRefs")
    /\ ctx' = UnlockID(ctx, recID, mvID)
    /\ recID' = NoSlot /\ mvID' = NoMv
    /\ UNCHANGED <<sem, refList, pic, stopped>>

CancelRefs ==
    /\ DStep("cancelRefs", "idle")
    /\ ctx' = UnlockRefID(ctx, refList[blk1 % RefRing])
    /\ sem' = sem + 1
    /\ UNCHANGED <<refList, pic, recID, mvID, stopped>>

FlushDpb ==
    /\ DStep("flushDpb", "replace")
    /\ ctx' = Flush(ctx)
    /\ UNCHANGED <<sem, refList, pic, recID, mvID, stopped>>

Replace ==
    /\ DStep("replace", "insert")
    /\ ctx' = ReplaceSamePOC(ctx, pic.poc)
    /\ UNCHANGED <<sem, refList, pic, recID, mvID, stopped>>

InsertPicture ==
    /\ DStep("insert", IF pic.ref /\ ~pic.idr THEN "mark" ELSE "clean")
    /\ ctx' = Insert(ctx, pic.poc, recID, mvID,
                     IF pic.ref THEN "shortTerm" ELSE "unused", TRUE, FALSE)
    /\ UNCHANGED <<sem, refList, pic, recID, mvID, stopped>>

MarkRefs ==
    /\ DStep("mark", "clean")
    /\ ctx' = SlidingWindow(ctx)
    /\ UNCHANGED <<sem, refList, pic, recID, mvID, stopped>>

CleanDpb ==
    /\ DStep("clean", "launch")
    /\ ctx' = Cleanup(ctx)
    /\ UNCHANGED <<sem, refList, pic, recID, mvID, stopped>>

\* AL_SetBufferAddrs: what the command writes and what it may read
Current == [frm |-> recID, mv |-> mvID, refs |-> refList[blk1 % RefRing]]

\* AL_LaunchFrameDecoding; a driver that refuses the command is only reported
Launch ==
    /\ pcD = "launch" /\ pcD' = "idle"
    /\ \/ chan' = Append(chan, Current)
       \/ DriverMayFail /\ chan' = chan
    /\ blk1' = blk1 + 1
    /\ UNCHANGED <<ctx, sem, refList, blk2, pic, recID, mvID, eVars, showing, uVars,
                   stopped, eos, pics>>
-----------------------------------------------------------------------------
(* Thread D: AL_Default_Decoder_InternalFlush and the end of the thread *)

\* All the input was decoded
EndOfInput ==
    /\ DStep("idle", "waitSent")
    /\ keepGoing /\ eos < MaxFlush
    /\ UNCHANGED <<ctx, sem, refList, pic, recID, mvID, stopped>>

\* The feeder is being destroyed
FlushToExit ==
    /\ DStep("idle", "waitSent")
    /\ ~keepGoing /\ ~stopped
    /\ UNCHANGED <<ctx, sem, refList, pic, recID, mvID, stopped>>

\* Only D takes the semaphore: it waits until every command has ended
WaitFrameSent ==
    /\ DStep("waitSent", "flushAll")
    /\ sem = StackSize
    /\ sem' = 0
    /\ UNCHANGED <<ctx, refList, pic, recID, mvID, stopped>>

FlushAll ==
    /\ DStep("flushAll", "peek")
    /\ ctx' = Flush(ctx)
    /\ UNCHANGED <<sem, refList, pic, recID, mvID, stopped>>

ReleaseFrames ==
    /\ DStep("peek", "signalEos")
    /\ showing["D"] = NoBuf /\ GetDisplayBuffer(ctx) = NoSlot
    /\ sem' = sem + StackSize
    /\ UNCHANGED <<ctx, refList, pic, recID, mvID, stopped>>

SignalEos ==
    /\ pcD = "signalEos" /\ pcD' = "terminate"
    /\ eos' = eos + 1
    /\ UNCHANGED <<ctx, sem, chan, refList, blk1, blk2, pic, recID, mvID, eVars, showing,
                   uVars, stopped, pics>>

Terminate ==
    /\ DStep("terminate", "terminateMv")
    /\ ctx' = ReleaseAll(ctx)
    /\ UNCHANGED <<sem, refList, pic, recID, mvID, stopped>>

\* Every motion vector buffer is waited for, then made available again
TerminateMv ==
    /\ DStep("terminateMv", "idle")
    /\ ctx.mv.sem = NumMv
    /\ stopped' = TRUE
    /\ UNCHANGED <<ctx, sem, refList, pic, recID, mvID>>

ExitThread ==
    /\ DStep("idle", "exited")
    /\ ~keepGoing /\ stopped
    /\ UNCHANGED <<ctx, sem, refList, pic, recID, mvID, stopped>>

\* ERR_UNIT_DYNAMIC_ALLOC or ERR_UNIT_INVALID_CHANNEL: the first slice fails to set the
\* decoder up, and the thread ends as it is
UnitError ==
    /\ DStep("idle", "exited")
    /\ keepGoing /\ pics = 0
    /\ stopped' = FALSE
    /\ UNCHANGED <<ctx, sem, refList, pic, recID, mvID>>
-----------------------------------------------------------------------------
(* AL_sDecoder_CallDisplay, run by thread E and, when it flushes, by thread D *)

\* The display callback hands the buffer to the application
CallDisplay(t) ==
    LET s == GetDisplayBuffer(ctx) IN
    /\ showing[t] = NoBuf /\ s # NoSlot
    /\ showing' = [showing EXCEPT ![t] = ctx.pool.buf[s]]
    /\ user' = user \cup {ctx.pool.buf[s]}
    /\ UNCHANGED <<ctx, sem, chan, refList, blk1, blk2, dVars, eVars, pcU, keepGoing,
                   stopped, eos, pics>>

\* Mutated: the display list keeps the picture
SignalDisplayIsDoneKept(t) ==
    /\ showing[t] # NoBuf
    /\ showing' = [showing EXCEPT ![t] = NoBuf]
    /\ UNCHANGED <<ctx, sem, chan, refList, blk1, blk2, dVars, eVars, uVars, stopped, eos,
                   pics>>

SignalDisplayIsDone(t) ==
    /\ showing[t] # NoBuf
    /\ showing' = [showing EXCEPT ![t] = NoBuf]
    /\ ctx' = ReleaseDisplayBuffer(
                  [ctx EXCEPT !.pool.ok = @ /\ SlotOf(ctx.pool, showing[t]) # NoSlot])
    /\ UNCHANGED <<sem, chan, refList, blk1, blk2, dVars, eVars, uVars, stopped, eos, pics>>

DisplayD == pcD = "peek" /\ (CallDisplay("D") \/ SignalDisplayIsDone("D"))
DisplayE == pcE = "peek" /\ (CallDisplay("E") \/ SignalDisplayIsDone("E"))
-----------------------------------------------------------------------------
(* Thread E: AL_Default_Decoder_EndDecoding *)

EStep(from, to) ==
    /\ pcE = from /\ pcE' = to
    /\ UNCHANGED <<refList, blk1, dVars, showing, uVars, stopped, eos, pics>>

EndCommand ==
    /\ EStep("idle", "unlockRefs")
    /\ chan # <<>>
    /\ done' = Head(chan)
    /\ chan' = Tail(chan)
    /\ ctx' = EndDecoding(ctx, Head(chan).frm)
    /\ UNCHANGED <<sem, blk2>>

UnlockRefs ==
    /\ EStep("unlockRefs", "advance")
    /\ ctx' = UnlockRefID(ctx, refList[blk2 % RefRing])
    /\ UNCHANGED <<sem, chan, blk2, done>>

Advance ==
    /\ EStep("advance", "peek")
    /\ blk2' = blk2 + 1
    /\ UNCHANGED <<ctx, sem, chan, done>>

UnlockPicture ==
    /\ EStep("peek", "post")
    /\ showing["E"] = NoBuf /\ GetDisplayBuffer(ctx) = NoSlot
    /\ ctx' = UnlockID(ctx, done.frm, done.mv)
    /\ done' = NoCommand
    /\ UNCHANGED <<sem, chan, blk2>>

PostSemaphore ==
    /\ EStep("post", "idle")
    /\ sem' = sem + 1
    /\ UNCHANGED <<ctx, chan, blk2, done>>
-----------------------------------------------------------------------------
(* Thread U: the application *)

UStep == UNCHANGED <<sem, refList, blk1, blk2, dVars, eVars, showing, stopped, eos, pics>>

PutDecPict(b) ==
    /\ UStep
    /\ pcU \notin {"release", "destroyed"}
    /\ b \in user
    /\ user' = user \ {b}
    /\ ctx' = [ctx EXCEPT !.pool = PutDisplayBuffer(@, b)]
    /\ UNCHANGED <<chan, pcU, keepGoing>>

\* AL_Default_Decoder_Destroy
DecommitPool ==
    /\ UStep
    /\ pcU = "run" /\ pcU' = "stopFeeder"
    /\ ctx' = [ctx EXCEPT !.pool = Decommit(@)]
    /\ UNCHANGED <<chan, user, keepGoing>>

DestroyFeeder ==
    /\ UStep
    /\ pcU = "stopFeeder" /\ pcU' = "join"
    /\ keepGoing' = FALSE
    /\ UNCHANGED <<ctx, chan, user>>

\* The thread D is joined, then the channel closed: commands left in it never end
DestroyChannel ==
    /\ UStep
    /\ pcU = "join" /\ pcU' = "release"
    /\ pcD = "exited" /\ pcE = "idle"
    /\ chan' = <<>>
    /\ UNCHANGED <<ctx, user, keepGoing>>

\* ReleaseFramePictureUnused: one buffer of the FIFO goes back
ReleaseUnused ==
    /\ UStep
    /\ pcU = "release" /\ FifoSlots(ctx.pool) # <<>>
    /\ LET b == ctx.pool.buf[ctx.pool.head]
       IN  /\ user' = user \cup {b}
           /\ ctx' = [ctx EXCEPT !.pool =
                         SignalCallbackReleaseIsDone(FlushOneDisplayBuffer(@), b)]
    /\ UNCHANGED <<chan, pcU, keepGoing>>

Destroyed ==
    /\ UStep
    /\ pcU = "release" /\ pcU' = "destroyed"
    /\ FifoSlots(ctx.pool) = <<>>
    /\ UNCHANGED <<ctx, chan, user, keepGoing>>

Over == pcU = "destroyed" /\ UNCHANGED vars
-----------------------------------------------------------------------------
DNext ==
    \/ GetSemaphore \/ PopBuffer \/ PopWaits \/ PopWakesUp \/ PopFails \/ GetMv
    \/ ListRefs \/ LockRefs \/ CancelFrame \/ CancelRefs
    \/ FlushDpb \/ Replace \/ InsertPicture \/ MarkRefs \/ CleanDpb \/ Launch
    \/ FlushToExit \/ WaitFrameSent \/ FlushAll \/ DisplayD
    \/ ReleaseFrames \/ SignalEos \/ Terminate \/ TerminateMv \/ ExitThread

ENext == EndCommand \/ UnlockRefs \/ Advance \/ DisplayE \/ UnlockPicture \/ PostSemaphore

DestroyNext == DestroyFeeder \/ DestroyChannel \/ ReleaseUnused \/ Destroyed

Next ==
    \/ \E k \in PicKinds : ParseSlice(k)
    \/ DNext \/ EndOfInput \/ UnitError \/ ENext
    \/ \E b \in Bufs : PutDecPict(b)
    \/ DecommitPool \/ DestroyNext \/ Over

Spec == Init /\ [][Next]_vars

\* Weak fairness: the threads run, the hardware ends its commands, the application returns
\* what it was shown until it destroys the decoder.  It need not destroy it, nor the stream
\* go on.
FairSpec ==
    /\ Spec
    /\ WF_vars(DNext) /\ WF_vars(ENext) /\ WF_vars(DestroyNext)
    /\ WF_vars(pcU = "run" /\ \E b \in Bufs : PutDecPict(b))

\* When a thread can take a step: ENABLED <<DNext>>_vars and so on, written out
DReady ==
    \/ pcD \notin {"idle", "getSem", "waitEvent", "getMv", "waitSent", "terminateMv", "exited"}
    \/ pcD = "idle" /\ ~keepGoing
    \/ pcD = "getSem" /\ sem > 0
    \/ pcD = "waitEvent" /\ ctx.pool.event
    \/ pcD = "getMv" /\ ctx.mv.sem > 0
    \/ pcD = "waitSent" /\ sem = StackSize
    \/ pcD = "terminateMv" /\ ctx.mv.sem = NumMv
EReady == pcE # "idle" \/ chan # <<>>
DestroyReady ==
    \/ pcU \in {"stopFeeder", "release"}
    \/ pcU = "join" /\ pcD = "exited" /\ pcE = "idle"
PutReady == pcU = "run" /\ user # {}

\* FairSpec with its ENABLED written out, which TLC checks much faster
ReadySpec ==
    /\ Spec
    /\ []<>(~DReady) \/ []<><<DNext>>_vars
    /\ []<>(~EReady) \/ []<><<ENext>>_vars
    /\ []<>(~DestroyReady) \/ []<><<DestroyNext>>_vars
    /\ []<>(~PutReady) \/ []<><<pcU = "run" /\ \E b \in Bufs : PutDecPict(b)>>_vars
-----------------------------------------------------------------------------
(* Properties *)

\* Every variable keeps its type.
TypeOK ==
    /\ ctx \in PictMngrs
    /\ sem \in 0 .. StackSize
    /\ chan \in Seq(Command) /\ done \in Command \cup {NoCommand}
    /\ recID \in Slots \cup {NoSlot} /\ mvID \in MvIDs \cup {NoMv}
    /\ user \subseteq Bufs

\* No assertion of the picture manager fails: the counters, flags and links of the pool
\* are as its functions expect whenever one of the three threads calls them.
AssertionsHold == ctx.pool.ok /\ ctx.mv.ok

\* D holds a picture it has not launched
Begun == {"cancel", "flushDpb", "replace", "insert", "mark", "clean", "launch"}
HoldsRec == pcD \in {"getMv", "listRefs", "lockRefs"} \cup Begun
HoldsMv == pcD \in {"listRefs", "lockRefs"} \cup Begun

\* Commands, by their rank in the stream, whose references are locked, and their lists
Locked ==
    {i \in 0 .. MaxPics : \/ blk2 <= i /\ i < blk1 /\ ~(pcE = "advance" /\ i = blk2)
                          \/ i = blk1 /\ pcD \in Begun \cup {"cancelRefs"}}
RefsOf(i) == refList[i % RefRing]

\* The holders of the picture buffer in slot s and of the motion vector buffer m
FrmUsers ==
    [s \in Slots |->
        One(HoldsRec /\ recID = s) + One(done.frm = s)
        + Occurrences(chan, LAMBDA c : c.frm = s)
        + Cardinality({i \in Locked : \E j \in DOMAIN RefsOf(i) : RefsOf(i)[j][1] = s})]

MvUsers ==
    [m \in MvIDs |->
        One(HoldsMv /\ mvID = m) + One(done.mv = m)
        + Occurrences(chan, LAMBDA c : c.mv = m)
        + Cardinality({i \in Locked : \E j \in DOMAIN RefsOf(i) : RefsOf(i)[j][2] = m})]

FrmHolders(s) == FrmUsers[s] + FrmHeld(ctx, s)
MvHolders(m) == MvUsers[m] + MvHeld(ctx, m)

\* Each buffer counts exactly the commands, DPB nodes, pending removals, pending displays
\* and reference lists that hold it: no reference is leaked and none dropped too early,
\* until the channel is closed.
ReferencesExact ==
    pcU \notin {"release", "destroyed"} =>
    /\ \A s \in Slots : FrmHolders(s) = IF ctx.pool.buf[s] = NoBuf THEN 0 ELSE ctx.pool.cnt[s]
    /\ \A m \in MvIDs : MvHolders(m) = ctx.mv.cnt[m]

\* The commands not yet ended, with the one being prepared
InFlight ==
    chan \o (IF HoldsRec THEN << [Current EXCEPT !.refs = IF pcD \in Begun THEN @ ELSE <<>>] >>
             ELSE <<>>)

\* A picture being decoded is neither in the hands of the application nor ready for it, two
\* commands never write the same picture, and no command writes a picture that it or an
\* earlier one may still read as a reference.
WriteExclusive ==
    \A i \in DOMAIN InFlight :
        /\ ctx.pool.buf[InFlight[i].frm] \notin user
        /\ ctx.status[InFlight[i].frm] # "ready"
        /\ \A k \in i + 1 .. Len(InFlight) : InFlight[k].frm # InFlight[i].frm
        /\ \A k \in i .. Len(InFlight), j \in DOMAIN InFlight[i].refs :
              InFlight[i].refs[j][1] # InFlight[k].frm

\* Every picture buffer is in the pool or with the application, which holds a buffer of the
\* pool only after its display callback (AL_PictMngr_PutDisplayBuffer relies on it to tell a
\* new buffer from one that comes back early), and has them all back, with no reference left
\* on any, when AL_Decoder_Destroy returns; every variable keeps its type.
BuffersAccounted ==
    /\ TypeOK
    /\ \A b \in Bufs :
           /\ b \in user \/ SlotOf(ctx.pool, b) # NoSlot
           /\ b \in user /\ SlotOf(ctx.pool, b) # NoSlot => ctx.pool.out[SlotOf(ctx.pool, b)]
    /\ pcU = "destroyed" => user = Bufs /\ \A s \in Slots : ctx.pool.buf[s] = NoBuf

\* The motion vector buffers allocated (iMaxBuf) always suffice to begin a picture.
MvSuffice == pcD = "getMv" => ctx.mv.sem > 0

\* Pictures leave the DPB for display in POC order: a picture never goes before one that
\* waits in the DPB with a smaller POC.
OutputInPocOrder ==
    [][\A n \in DOMAIN ctx.nodes, m \in DOMAIN ctx.nodes :
          LET first == ctx.nodes[n]  late == ctx.nodes[m]
              Outputs(node) == /\ node.out /\ ~node.nonExisting
                               /\ \E i \in DOMAIN ctx'.disp : /\ i > Len(ctx.disp)
                                                             /\ ctx'.disp[i] = node.frm
              Rank(node) == CHOOSE i \in DOMAIN ctx'.disp : /\ i > Len(ctx.disp)
                                                           /\ ctx'.disp[i] = node.frm
          IN  late.poc < first.poc /\ late.out /\ Outputs(first)
                => Outputs(late) /\ Rank(late) < Rank(first)]_vars

\* No picture is lost: one that is to be output leaves the DPB only into the display list,
\* whether it is flushed, bumped or replaced.
NoPictureLost ==
    [][\A n \in DOMAIN ctx.nodes :
          LET node == ctx.nodes[n] IN
          /\ node.out /\ ~node.nonExisting
          /\ \A m \in DOMAIN ctx'.nodes : ctx'.nodes[m].frm # node.frm \/ ~ctx'.nodes[m].out
          => \E i \in Len(ctx.disp) + 1 .. Len(ctx'.disp) : ctx'.disp[i] = node.frm]_vars

\* AL_Decoder_Destroy returns.
DestroyReturns == pcU # "run" ~> pcU = "destroyed"

\* A picture in the display list is shown to the application and leaves the list.
PicturesShown == \A s \in Slots : (\E i \in DOMAIN ctx.disp : ctx.disp[i] = s) ~>
                                  (\A i \in DOMAIN ctx.disp : ctx.disp[i] # s)

\* A decoder that waits for a picture buffer gets one, as the application returns what it
\* was shown: the buffers allocated are enough for what the decoder keeps.
PopReturns == pcD = "waitEvent" ~> pcD \in {"getMv", "idle"}
-----------------------------------------------------------------------------
(* The inductive invariant *)

\* The labels of D, from the semaphore to the launch and in the flush
Preparing == {"pop", "waitEvent", "getMv", "listRefs", "lockRefs", "cancelRefs"} \cup Begun
Flushing == {"flushAll", "peek", "signalEos", "terminate", "terminateMv"}
LabelsD == {"idle", "getSem", "waitSent", "exited"} \cup Preparing \cup Flushing
LabelsE == {"idle", "unlockRefs", "advance", "peek", "post"}

\* Labels at which D has inserted its picture, or not yet
Inserted == {"mark", "clean", "launch"}
NotInserted == {"getMv", "listRefs", "lockRefs", "cancel", "flushDpb", "replace", "insert"}

PipelineTypes ==
    /\ sem \in Nat /\ blk1 \in Nat /\ blk2 \in Nat /\ pics \in Nat /\ eos \in Nat
    /\ pcD \in LabelsD /\ pcE \in LabelsE
    /\ pcU \in {"run", "stopFeeder", "join", "release", "destroyed"}
    /\ keepGoing \in BOOLEAN /\ stopped \in BOOLEAN
    /\ chan \in Seq(Command) /\ done \in Command \cup {NoCommand}
    /\ recID \in Slots \cup {NoSlot} /\ mvID \in MvIDs \cup {NoMv}
    /\ user \subseteq Bufs
    /\ pic \in PicKinds \cup {NoPic}
    /\ showing \in [CallbackThreads -> Bufs \cup {NoBuf}]
    /\ refList \in [0 .. RefRing - 1 -> Seq(Slots \X MvIDs)]

\* Every count of the semaphore is there, with a command on its way, or with D
SemaphoreInv ==
    /\ blk2 <= blk1
    /\ sem + (blk1 - blk2) + One(pcE \in {"peek", "post"}) + One(pcD \in Preparing)
       + (IF pcD \in {"flushAll", "peek"} THEN StackSize ELSE 0) = StackSize
    /\ Len(chan) + One(pcE \in {"unlockRefs", "advance"}) = blk1 - blk2
    /\ blk1 + One(pcD \in {"getSem"} \cup Preparing) <= pics /\ pics <= MaxPics

\* What the callbacks are showing is the first picture of the display list, which is decoded
Shown == \E t \in CallbackThreads : showing[t] # NoBuf
ShowingInv ==
    /\ showing["D"] # NoBuf => pcD = "peek"
    /\ showing["E"] # NoBuf => pcE = "peek"
    /\ \A t \in CallbackThreads : showing[t] # NoBuf =>
          /\ ctx.disp # <<>>
          /\ showing[t] = ctx.pool.buf[Head(ctx.disp)]
          /\ ctx.status[Head(ctx.disp)] = "ready"

\* The picture D is preparing and the command that has ended
PictureInv ==
    /\ HoldsRec => recID \in Slots
    /\ HoldsMv => mvID \in MvIDs
    /\ HoldsRec /\ pcD \in NotInserted =>
          /\ FrmHeld(ctx, recID) = 0 /\ ~ctx.pool.out[recID]
          /\ ctx.status[recID] = "notNeeded"
    /\ HoldsMv /\ pcD \in NotInserted => MvHeld(ctx, mvID) = 0
    /\ pcD \in Inserted => ctx.status[recID] = "notReady"
    /\ pcE \in {"unlockRefs", "advance", "peek"} => done \in Command
    /\ pcE \in {"idle", "post"} => done = NoCommand
    /\ \A i \in 1 .. Len(chan) : ctx.status[chan[i].frm] = "notReady"
    /\ \A s \in Slots : ctx.status[s] = "notReady" =>
          \/ \E i \in 1 .. Len(chan) : chan[i].frm = s
          \/ pcD \in Inserted /\ recID = s

\* The rank of the command in place k of chan
RankOf(k) == blk2 + k - One(pcE \notin {"unlockRefs", "advance"})

ReferencesInv ==
    /\ \A i \in Locked : Distinct(RefsOf(i))
    /\ \A k \in 1 .. Len(chan) : chan[k].refs = RefsOf(RankOf(k))
    /\ pcD = "lockRefs" =>
          /\ Distinct(RefsOf(blk1))
          /\ \A j \in 1 .. Len(RefsOf(blk1)) :
                \E i \in 1 .. Len(ctx.nodes) :
                   /\ ~ctx.nodes[i].nonExisting
                   /\ RefsOf(blk1)[j] = <<ctx.nodes[i].frm, ctx.nodes[i].mv>>

\* What a command writes, no other writes and none before it or itself reads
ExclusiveInv ==
    \A k \in 1 .. Len(InFlight) :
        /\ \A l \in k + 1 .. Len(InFlight) : InFlight[l].frm # InFlight[k].frm
        /\ \A l \in k .. Len(InFlight), j \in 1 .. Len(InFlight[k].refs) :
              InFlight[k].refs[j][1] # InFlight[l].frm

\* The DPB has room for the picture D is preparing
Least(n) == IF n = 0 THEN 1 ELSE n
RoomInv ==
    /\ pcD \notin {"mark", "clean"} => PicCount(ctx) <= Least(NumRef)
    /\ PicCount(ctx) <= Least(NumRef) + 1
    /\ pcD # "mark" => RefCount(ctx) <= Least(MaxRefFrames)
    /\ RefCount(ctx) <= Least(MaxRefFrames) + 1
    /\ pcD \in {"replace", "insert"} /\ pic.idr => ctx.nodes = <<>>

\* Nothing is on its way once D has flushed, and nothing is held before the first picture
\* and after a flush
RestInv ==
    /\ pcD \in Flushing => blk1 = blk2
    /\ pcD \in Flushing \ {"flushAll"} => ctx.nodes = <<>>
    /\ pcD \in {"signalEos", "terminate", "terminateMv"} => ctx.disp = <<>> /\ sem = StackSize
    /\ pcD = "terminateMv" => ctx.dlt = <<>>
    /\ stopped \/ pics = 0 =>
          /\ pcD \in {"idle", "waitSent", "exited"} \cup Flushing
          /\ blk1 = blk2 /\ ctx.nodes = <<>> /\ ctx.dlt = <<>> /\ ctx.disp = <<>>
    /\ pcD = "exited" => stopped \/ pics = 0
    /\ pcU \in {"release", "destroyed"} => pcD = "exited" /\ pcE = "idle"
    /\ pcU = "destroyed" => FifoSlots(ctx.pool) = <<>>

PipelineInv ==
    /\ PipelineTypes
    /\ MngrInv(ctx, FrmUsers, MvUsers, user, Shown)
    /\ SemaphoreInv /\ ShowingInv /\ PictureInv /\ ReferencesInv /\ ExclusiveInv
    /\ RoomInv /\ RestInv
-----------------------------------------------------------------------------
(* The inductive invariant of the motion vector buffers: what is held once the first k commands
   on their way have ended.  Each command that ends drops one of the removed pictures, so k of
   those are dropped then, and the one of a command at its end has been dropped already. *)

\* The commands given to the hardware that still hold their buffers, the one that ended first
Completed == [done EXCEPT !.refs = IF pcE = "unlockRefs" THEN @ ELSE <<>>]
OnTheirWay == (IF done = NoCommand THEN <<>> ELSE <<Completed>>) \o chan

MvsOf(c) == {m \in MvIDs : m = c.mv \/ \E j \in 1 .. Len(c.refs) : c.refs[j][2] = m}

\* What D holds for the picture it is preparing
PreparedMvs ==
    {m \in MvIDs : \/ HoldsMv /\ m = mvID
                  \/ /\ pcD \in Begun \cup {"cancelRefs"}
                     /\ \E j \in 1 .. Len(RefsOf(blk1)) : RefsOf(blk1)[j][2] = m}

HeldAfter(x, q, e, D, k) ==
    NodeMvs(x) \cup DltMvs(x, k - e) \cup D
    \cup {m \in MvIDs : \E l \in 1 .. Len(q) : l > k /\ m \in MvsOf(q[l])}

Suffices(x, q, e, D, f) ==
    \A k \in 0 .. f - 1 : Cardinality(HeldAfter(x, q, e, D, k)) <= Least(NumRef) + f - k

MvHeldInv ==
    /\ RealCount(ctx) + Len(ctx.dlt) <= Least(NumRef) + Len(chan) + One(pcD \in Inserted)
    /\ pcE = "unlockRefs" => done.refs = RefsOf(blk2)
    /\ HoldsMv /\ pcD \in NotInserted =>
          /\ \A k \in 1 .. Len(OnTheirWay) : mvID \notin MvsOf(OnTheirWay[k])
          /\ pcD \in Begun => \A j \in 1 .. Len(RefsOf(blk1)) : RefsOf(blk1)[j][2] # mvID
    /\ Suffices(ctx, OnTheirWay, One(done # NoCommand), PreparedMvs,
                Len(OnTheirWay) + One(HoldsMv))
=============================================================================

------------------------------ MODULE HevcDpb ------------------------------
(***************************************************************************)
(* The decoded picture buffer of the HEVC decoder: the picture order count *)
(* of a slice, its reference picture set, the pictures output and removed  *)
(* before and after a picture is decoded, and the lists of references      *)
(* (HevcDecoder.c, Hevc_PictMngr.c).  The nodes, the context and the       *)
(* invariants are shared with the AVC decoder; a DPB has one codec for its *)
(* life.  NumRef is the size of the DPB, sps_max_dec_pic_buffering_minus1  *)
(* + 1 (AL_PictMngr_UpdateDPBInfo).                                        *)
(***************************************************************************)
EXTENDS DpbMarking
LOCAL INSTANCE FiniteSetsExt
LOCAL INSTANCE SequencesExt
LOCAL INSTANCE TLC

CONSTANTS
    MaxPicOrderCntLsb,
    NumReorder,   \* sps_num_reorder_pics
    MaxLatency,   \* SpsMaxLatency
    IrapPOCs,     \* picture order counts of pictures that start a sequence, 0 of an IDR one
    Kinds,        \* bound: kinds of pictures, by the distance from the anchor before
    MaxHevcPictures, \* bound: pictures of an HEVC stream
    InvalidAfter  \* bound: numbers of pictures after which a slice may be invalid

ASSUME HevcAssumption ==
    /\ \A p \in Kinds : -MaxPicOrderCntLsb < 2 * p.step /\ 2 * p.step < MaxPicOrderCntLsb
    /\ IrapPOCs \subseteq 0 .. MaxPicOrderCntLsb - 1

VARIABLES
    uPrevPocLSB, iPrevPocMSB, \* of the previous anchor
    anchor,       \* its picture order count, as the stream has it
    lost          \* short-term pictures an invalid slice cost since the sequence began

hevcVars == <<uPrevPocLSB, iPrevPocMSB, anchor, lost>>

PocsOf(S) == {dpb.node[n].poc : n \in S}
-----------------------------------------------------------------------------
(* The slice header: initSlice *)

\* Mutated: the picture order count does not wrap upwards
calculatePOCUnwrapped(lsb) ==
    IF lsb > uPrevPocLSB /\ lsb - uPrevPocLSB > MaxPicOrderCntLsb \div 2
    THEN lsb + iPrevPocMSB - MaxPicOrderCntLsb ELSE lsb + iPrevPocMSB

\* calculatePOC of a picture that does not start a sequence
calculatePOC(lsb) ==
    LET half == MaxPicOrderCntLsb \div 2
    IN  lsb + iPrevPocMSB + CASE lsb < uPrevPocLSB /\ uPrevPocLSB - lsb >= half -> MaxPicOrderCntLsb
                              [] lsb > uPrevPocLSB /\ lsb - uPrevPocLSB > half -> -MaxPicOrderCntLsb
                              [] OTHER -> 0

\* Mutated: the search meets pictures that are no references
SearchPocLsbOfAny(d, lsb) ==
    LET w == Walk(d, "lsb")
        i == SelectInSeq(w, LAMBDA n : d.node[n].lsb = lsb)
    IN  IF i = 0 THEN End ELSE w[i]

\* AL_Dpb_SearchPocLsb
SearchPocLsb(d, lsb) ==
    LET w == Walk(d, "lsb")
        i == SelectInSeq(w, LAMBDA n : d.node[n].lsb = lsb /\ IsRef(d, n))
    IN  IF i = 0 THEN End ELSE w[i]

\* The reference picture set of header h, whose pictures are named by differences from
\* its picture order count, is that of the pictures found from the one calculated
RefPicSet(d, h, poc) ==
    LET search(q) == SearchPOC(d, poc + (q - h.poc))
        searchLong(q) == IF q \in h.lsbOnly THEN SearchPocLsb(d, q % MaxPicOrderCntLsb)
                         ELSE search(q)
        found(S, f(_), op(_, _)) == LET q == SetToSortSeq(S, op) IN [i \in DOMAIN q |-> f(q[i])]
    IN  [before |-> found({q \in h.short : q < h.poc}, search, >),
         after |-> found({q \in h.short : q > h.poc}, search, <),
         long |-> found(h.long, searchLong, >)]

\* AL_HEVC_PictMngr_InitRefPictSet, its marking, which leaves uCountRef alone
MarkRefPicSet(d, rps) ==
    LET short == Range(rps.before) \cup Range(rps.after)
        mark(n) == CASE n \in short -> "short" [] n \in Range(rps.long) \ short -> "long"
                     [] OTHER -> "unused"
    IN  [d EXCEPT !.node = [n \in Nodes |->
            IF d.node[n].used THEN [d.node[n] EXCEPT !.mark = mark(n)] ELSE d.node[n]]]
-----------------------------------------------------------------------------
(* Output and removal *)

\* Mutated: one picture fewer waits for its output
HevcCleanupEarly(d) ==
    LET due(e, n) == e.node[n].latency >= MaxLatency \/ e.numOut >= NumReorder
        step(e, n) == LET f == IF e.node[n].out /\ due(e, n) THEN Display(e, n) ELSE e
                      IN  IF IsRef(f, n) \/ f.node[n].out THEN f ELSE RemoveNode(f, n)
    IN  Through(step, d, Walk(d, "poc"))

\* AL_Dpb_HEVC_Cleanup
HevcCleanup(d) ==
    LET due(e, n) == e.node[n].latency >= MaxLatency \/ e.numOut > NumReorder
        step(e, n) == LET f == IF e.node[n].out /\ due(e, n) THEN Display(e, n) ELSE e
                      IN  IF IsRef(f, n) \/ f.node[n].out THEN f ELSE RemoveNode(f, n)
    IN  Through(step, d, Walk(d, "poc"))

\* AL_Dpb_ClearOutput
ClearOutput(d) ==
    [d EXCEPT !.node = [n \in Nodes |-> [d.node[n] EXCEPT !.out = FALSE]], !.numOut = 0]

Full(d) == d.countPic >= NumRef

\* AL_HEVC_PictMngr_ClearDPB.  Its second loop displays and removes nothing: the first has
\* removed every picture that is no reference or the DPB is not full.
ClearDPB(d, bClearRef, bNoOutputPrior) ==
    LET flushed == IF bClearRef THEN Flush(IF bNoOutputPrior THEN ClearOutput(d) ELSE d) ELSE d
        bump(e, n) == LET f == IF e.node[n].out THEN Display(e, n) ELSE e
                      IN  IF ~Full(e) THEN e ELSE IF IsRef(f, n) THEN f ELSE RemoveNode(f, n)
        clean == HevcCleanup(flushed)
        bumped == Through(bump, clean, Walk(clean, "poc"))
    IN  IF Full(bumped) THEN RemoveNode(bumped, bumped.head["poc"]) ELSE bumped

\* AL_HEVC_PictMngr_RemoveHeadFrame; AL_Dpb_RemoveHead takes the head of the POC list
RemoveHeadFrame(d) ==
    LET n == d.head["poc"] IN IF Full(d) THEN RemoveNode(Display(d, n), n) ELSE d

\* Mutated: the pictures that precede in output order wait longer
EndFrameAgingEarlier(d, poc, lsb, out) ==
    LET e == RemoveHeadFrame(d)
        aged(n) == IF out /\ e.node[n].used /\ e.node[n].poc < poc
                   THEN [e.node[n] EXCEPT !.latency = @ + 1] ELSE e.node[n]
    IN  HevcCleanup(Insert([e EXCEPT !.node = [n \in Nodes |-> aged(n)]],
                           poc, lsb, "short", out, TRUE, count))

\* AL_HEVC_PictMngr_EndFrame
EndFrame(d, poc, lsb, out) ==
    LET e == RemoveHeadFrame(d)
        aged(n) == IF out /\ e.node[n].used /\ e.node[n].poc > poc
                   THEN [e.node[n] EXCEPT !.latency = @ + 1] ELSE e.node[n]
    IN  HevcCleanup(Insert([e EXCEPT !.node = [n \in Nodes |-> aged(n)]],
                           poc, lsb, "short", out, TRUE, count))
-----------------------------------------------------------------------------
(* The lists of references of a P or a B slice, with n entries *)

\* Mutated: the sets are taken once, the head of the POC list fills the rest
BuildPictureListOnce(d, first, second, third, n) ==
    LET all == first \o second \o third
    IN  [i \in 1 .. n |-> IF i > Len(all) \/ all[i] = End THEN d.head["poc"] ELSE all[i]]

\* AL_HEVC_PictMngr_BuildPictureList, one list: the sets in turn, over and over; in the
\* place of a picture that is missing stands the head of the POC list
BuildPictureList(d, first, second, third, n) ==
    LET all == first \o second \o third
        at(i) == all[((i - 1) % Len(all)) + 1]
    IN  [i \in 1 .. n |-> IF at(i) = End THEN d.head["poc"] ELSE at(i)]
-----------------------------------------------------------------------------
HevcInit(codec) ==
    /\ DecoderInit(codec)
    /\ uPrevPocLSB = 0 /\ iPrevPocMSB = 0
    /\ anchor = 0
    /\ lost = {}

Between == slice = NoSlice /\ count < MaxHevcPictures

Header(poc, out, short, long, lsbOnly) ==
    [kind |-> "hevc", fill |-> FALSE, num |-> 0, poc |-> poc, out |-> out,
     short |-> short, long |-> long, lsbOnly |-> lsbOnly]

\* With the nodes of its reference picture set, for the POC calculated
Parsed(h, poc) == h @@ [rps |-> RefPicSet(dpb, h, poc)]

\* initSlice and decodeSliceData up to AL_InitFrameBuffers, for the first slice of a picture
\* that starts a sequence: IDR, or CRA or BLA, whose POC has no most significant bits.
\* The reference picture set of a CRA does not matter, every picture leaves the DPB.
StartIrap(poc, bNoOutputPrior) ==
    /\ Between
    /\ slice' = Parsed(Header(poc, TRUE, {}, {}, {}), poc)
    /\ iCurFramePOC' = poc
    /\ uPrevPocLSB' = poc /\ iPrevPocMSB' = 0
    /\ anchor' = poc
    /\ dpb' = ClearDPB(MarkRefPicSet(dpb, slice'.rps), TRUE, bNoOutputPrior)
    /\ prevIsRef' = "ref"
    /\ lost' = {}
    /\ UNCHANGED <<iPrevFrameNum, count>>

\* The same of any other picture; an anchor is one of the lowest temporal layer that is
\* neither RASL, RADL nor a sublayer's non-reference picture.  A stream has no two pictures
\* with the same POC at a time, a long-term picture stays one, and the least significant bits
\* alone name a picture only if they are those of one reference picture.
StartPicture(poc, isAnchor, out) ==
    LET lsb == poc % MaxPicOrderCntLsb
        cur == calculatePOC(lsb)
        refs == PocsOf(Refs(dpb))
        alone == {q \in refs : \A r \in refs \ {q} : (q - r) % MaxPicOrderCntLsb # 0}
    IN  /\ Between /\ prevIsRef # "none"
        /\ poc \notin PocsOf(Used(dpb))
        /\ \E short \in SUBSET (PocsOf(ShortRefs(dpb)) \cup lost) :
           \E long \in SUBSET (refs \ short) :
           \E lsbOnly \in {{}, long \cap alone} :
               slice' = Parsed(Header(poc, out, short, long, lsbOnly), cur)
        /\ iCurFramePOC' = cur
        /\ IF isAnchor THEN uPrevPocLSB' = lsb /\ iPrevPocMSB' = cur - lsb /\ anchor' = poc
           ELSE UNCHANGED <<uPrevPocLSB, iPrevPocMSB, anchor>>
        /\ dpb' = ClearDPB(MarkRefPicSet(dpb, slice'.rps), FALSE, FALSE)
        /\ UNCHANGED <<iPrevFrameNum, prevIsRef, count, lost>>

EndPicture ==
    /\ slice # NoSlice
    /\ dpb' = EndFrame(dpb, iCurFramePOC, slice.poc % MaxPicOrderCntLsb, slice.out)
    /\ slice' = NoSlice
    /\ count' = count + 1
    /\ UNCHANGED <<iPrevFrameNum, iCurFramePOC, prevIsRef, hevcVars>>

\* A picture of one slice whose header is not valid: nothing is decoded, but the first picture
\* of a full DPB goes
InvalidSlice ==
    /\ Between /\ prevIsRef # "none" /\ lost = {} /\ count \in InvalidAfter
    /\ dpb' = RemoveHeadFrame(dpb)
    /\ lost' = PocsOf(ShortRefs(dpb)) \ PocsOf(Used(dpb))'
    /\ UNCHANGED <<iPrevFrameNum, iCurFramePOC, slice, prevIsRef, count>>
    /\ UNCHANGED <<uPrevPocLSB, iPrevPocMSB, anchor>>

HevcNext ==
    \/ \E poc \in IrapPOCs, drop \in BOOLEAN : StartIrap(poc, drop)
    \/ \E p \in Kinds : StartPicture(anchor + p.step, p.anchor, p.out)
    \/ EndPicture
    \/ InvalidSlice
    \/ EndOfStream /\ UNCHANGED hevcVars

\* A DPB has one codec for its life
DpbInit == \E codec \in {"avc", "hevc"} : HevcInit(codec)

DpbNext ==
    \/ dpb.codec = "avc" /\ Next /\ UNCHANGED hevcVars
    \/ dpb.codec = "hevc" /\ HevcNext

DpbSpec == DpbInit /\ [][DpbNext]_<<vars, hevcVars>>
-----------------------------------------------------------------------------
\* The lists of a slice that needs references, whatever its number of entries, hold the
\* pictures the header names, each in its place, and a picture of the DPB in the place of one
\* that is lost: neither the POC arithmetic nor the removal of pictures between the search
\* and the lists makes an entry name another picture (Hevc_PictMngr.c 314, 171).
HevcListsExact ==
    slice # NoSlice /\ slice.kind = "hevc" /\ Refs(dpb) # {}
        /\ Cardinality(slice.short \cup slice.long) < NumRef =>
    LET named == SetToSortSeq({q \in slice.short : q < slice.poc}, >)
                     \o SetToSortSeq({q \in slice.short : q > slice.poc}, <)
                     \o SetToSortSeq(slice.long, >)
        list == BuildPictureList(dpb, slice.rps.before, slice.rps.after, slice.rps.long,
                                 Len(named) + 1)
    IN  named # <<>> => \A i \in DOMAIN list :
            LET q == named[((i - 1) % Len(named)) + 1]
            IN  IF q \in PocsOf(Refs(dpb)) THEN list[i] \in Refs(dpb) /\ dpb.node[list[i]].poc = q
                ELSE list[i] \in Used(dpb)

\* The lists of references of both decoders.
ListsExact == RefListsExact /\ HevcListsExact

\* The references and the output of an HEVC stream are those of HevcBumping: the POC is right
\* though only its least significant bits are in the stream, every picture the header names
\* is found, and the walks over the lists output what the bumping process outputs, when it
\* does.
Hevc(value, idle) == IF dpb.codec = "hevc" THEN value ELSE idle

AbstractRefs ==
    {[pic |-> dpb.node[n].pic, poc |-> dpb.node[n].poc, long |-> dpb.node[n].mark = "long"] :
         n \in {m \in Used(dpb) : IsRef(dpb, m)}}

AbstractWaiting ==
    {[pic |-> dpb.node[n].pic, poc |-> dpb.node[n].poc, late |-> dpb.node[n].latency] :
         n \in {m \in Used(dpb) : dpb.node[m].out}}

Bumping == INSTANCE HevcBumping WITH
    MaxDec <- NumRef, NoHeader <- NoSlice,
    refs <- Hevc(AbstractRefs, {}), waiting <- Hevc(AbstractWaiting, {}),
    shown <- Hevc(dpb.shown, Never), header <- Hevc(slice, NoSlice), count <- Hevc(count, 0)

ImplementsHevcBumping == Bumping!Spec
=============================================================================

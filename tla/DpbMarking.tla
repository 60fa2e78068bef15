----------------------------- MODULE DpbMarking -----------------------------
(***************************************************************************)
(* The marking of reference pictures of the AVC decoder: each slice header *)
(* asks for a sliding window or a list of memory management control        *)
(* operations, carried out on the decoding order list of the DPB.  The     *)
(* actions are those of the thread that parses the stream (AvcDecoder.c,   *)
(* Avc_PictMngr.c) and, in low reference mode, the display of a picture at *)
(* the end of its decoding.                                                *)
(***************************************************************************)
EXTENDS DpbLists
LOCAL INSTANCE FiniteSetsExt
LOCAL INSTANCE SequencesExt

CONSTANTS
    MaxRefFrames, \* max_num_ref_frames of the active SPS
    POCs,         \* picture order counts of the stream
    OpLists,      \* lists of memory management control operations
    MaxGap,       \* bound: frame numbers missing in a row
    MaxPictures,  \* bound: pictures and missing frame numbers
    LowRef,       \* eMode = AL_DPB_LOW_REF
    StackSize,    \* iStackSize, the pictures being decoded at a time
    Careful       \* no operation 3 that breaks the lists, see KeepsLists

VARIABLES
    dpb,          \* AL_TDpb
    iPrevFrameNum,
    iCurFramePOC,
    slice,        \* the slice header being decoded
    prevIsRef,    \* the previous picture is a reference picture
    count         \* pictures inserted, which numbers them

vars == <<dpb, iPrevFrameNum, iCurFramePOC, slice, prevIsRef, count>>

NoSlice == [kind |-> "none"]
-----------------------------------------------------------------------------
(* Marking of the reference pictures *)

\* AL_Dpb_PictNumberProcess, for frame number f
PictNumberProcess(d, f) ==
    LET wrap(num) == IF num > f THEN num - MaxFrameNum ELSE num
    IN  [d EXCEPT !.node = [n \in Nodes |->
            IF d.node[n].mark = "short" THEN [d.node[n] EXCEPT !.picNum = wrap(d.node[n].num)]
            ELSE d.node[n]]]

Refs(d) == {n \in Range(Walk(d, "dec")) : IsRef(d, n)}
ShortRefs(d) == {n \in Refs(d) : d.node[n].mark = "short"}

\* AL_Dpb_sSlidingWindowMarking
SlidingWindow(d) ==
    LET n == CHOOSE m \in ShortRefs(d) :
                 \A k \in ShortRefs(d) : d.node[m].picNum <= d.node[k].picNum
        e == SetPicToUnused(d, n)
    IN  IF Cardinality(Refs(d)) <= MaxRefFrames THEN d
        ELSE IF d.node[n].exists THEN e ELSE RemoveNode(e, n)

\* The nodes of the decoding order list, in its order, that satisfy P
Search(d, P(_)) == SelectSeq(Walk(d, "dec"), P)

SetAllToUnused(d, seq) == Through(SetPicToUnused, d, seq)

\* AL_Dpb_sShortTermToUnused stops at the first
ShortTermToUnused(d, diff) ==
    LET found == Search(d, LAMBDA n : /\ d.node[n].picNum = d.node[d.curRef].picNum - diff
                                      /\ d.node[n].mark = "short")
    IN  IF found = <<>> THEN d ELSE SetPicToUnused(d, Head(found))

LongTermToUnused(d, idx) ==
    SetAllToUnused(d, Search(d, LAMBDA n : d.node[n].idx = idx /\ d.node[n].mark = "long"))

\* AL_Dpb_sSwitchLongTermPlace: node r goes before the first larger long-term index
LargerLongTerm(d, r) ==
    Search(d, LAMBDA n : n # r /\ d.node[n].mark = "long" /\ d.node[n].idx > d.node[r].idx)

SwitchLongTermPlace(d, r) ==
    LET s == Head(LargerLongTerm(d, r))
        e == Link(d, "dec", d.prev["dec"][r], d.next["dec"][r])
    IN  IF LargerLongTerm(d, r) = <<>> THEN d ELSE InsertBefore(e, "dec", r, s)

ToLongTerm(d, n, idx) ==
    SwitchLongTermPlace([d EXCEPT !.node[n].mark = "long", !.node[n].idx = idx], n)

LastOf(seq) == IF seq = <<>> THEN End ELSE Last(seq)

\* AL_Dpb_sLongTermFrameIdxToAShortTerm: each search keeps the last node it meets,
\* whatever its marking
Converted(d, diff) ==
    LastOf(Search(d, LAMBDA n : d.node[n].picNum = d.node[d.curRef].picNum - diff))
HasIndex(d, idx) == LastOf(Search(d, LAMBDA n : d.node[n].idx = idx))

LongTermFrameIdxToAShortTerm(d, diff, idx) ==
    LET t == Converted(d, diff)
        old == HasIndex(d, idx)
        e == IF old # End /\ old # t /\ IsRef(d, old) THEN SetPicToUnused(d, old) ELSE d
    IN  IF t = End THEN d ELSE ToLongTerm(e, t, idx)

\* AL_Dpb_sDecodingMaxLongTermFrameIdx
DecodingMaxLongTermFrameIdx(d, plus1) ==
    SetAllToUnused(d, Search(d, LAMBDA n : /\ d.node[n].idx # NoIdx /\ d.node[n].idx > plus1 - 1
                                           /\ d.node[n].mark = "long"))

\* AL_Dpb_sSetAllPicAsUnused
SetAllPicAsUnused(d) ==
    LET drop(e, n) == IF n = d.curRef THEN e
                      ELSE RemoveNode(IF e.node[n].exists THEN Display(e, n) ELSE e, n)
    IN  [Through(drop, d, Walk(d, "dec")) EXCEPT
            !.node[d.curRef].poc = 0, !.node[d.curRef].num = 0, !.mmco5 = TRUE]

\* Mutated: the picture that had the index keeps it
AssignLongTermFrameIdxAgain(d, idx) == ToLongTerm(d, d.curRef, idx)

AssignLongTermFrameIdx(d, idx) == ToLongTerm(LongTermToUnused(d, idx), d.curRef, idx)

\* AL_Dpb_sAdaptiveMemoryControlMarking, one operation
Operate(d, op) ==
    CASE op.op = 1 -> ShortTermToUnused(d, op.diff)
      [] op.op = 2 -> LongTermToUnused(d, op.idx)
      [] op.op = 3 -> LongTermFrameIdxToAShortTerm(d, op.diff, op.idx)
      [] op.op = 4 -> DecodingMaxLongTermFrameIdx(d, op.idx)
      [] op.op = 5 -> SetAllPicAsUnused(d)
      [] op.op = 6 -> AssignLongTermFrameIdx(d, op.idx)

\* AL_Dpb_MarkingProcess of a picture that is not IDR: the frame number f and the
\* picture numbers, then the marking.  After operation 6 a picture that another
\* operation took from the reference pictures is short-term again.
Numbered(d, f) == PictNumberProcess([d EXCEPT !.node[d.curRef].num = f], f)

Mark(d, ops) ==
    LET c == d.curRef
        m == IF ops = <<>> THEN SlidingWindow(d) ELSE Through(Operate, d, ops)
        six == \E i \in DOMAIN ops : ops[i].op = 6
    IN  IF six /\ m.node[c].mark # "long"
        THEN [m EXCEPT !.node[c].mark = "short", !.node[c].idx = NoIdx] ELSE m

\* AL_Dpb_SearchPOC
SearchPOC(d, poc) ==
    LET w == Walk(d, "poc")
        i == SelectInSeq(w, LAMBDA n : d.node[n].poc = poc /\ IsRef(d, n) /\ d.node[n].exists)
    IN  IF i = 0 THEN End ELSE w[i]

\* Mutated: the picture joins the picture of the same POC
EndParsingBeside(d, idr, mark) ==
    [Insert(IF idr THEN Flush(d) ELSE d, iCurFramePOC, 0, mark, TRUE, TRUE, count)
        EXCEPT !.mmco5 = FALSE]

\* AL_AVC_PictMngr_EndParsing
EndParsing(d, idr, mark) ==
    LET e == IF idr THEN Flush(d) ELSE d
        same == SearchPOC(e, iCurFramePOC)
        f == IF same = End THEN e ELSE RemoveNode(Display(e, same), same)
    IN  [Insert(f, iCurFramePOC, 0, mark, TRUE, TRUE, count) EXCEPT !.mmco5 = FALSE]
-----------------------------------------------------------------------------
(* The lists of reference pictures of a P or a B slice *)

\* AL_Dpb_InitPSlice_RefList
ByMark(d, mark) == SelectSeq(Walk(d, "dec"), LAMBDA n : d.node[n].mark = mark)
PList(d) == Reverse(ByMark(d, "short")) \o ByMark(d, "long")

\* AL_Dpb_InitBSlice_RefList for a picture with this POC
BLists(d, poc) ==
    LET short == SelectSeq(Walk(d, "poc"), LAMBDA n : d.node[n].mark = "short")
        less == Reverse(SelectSeq(short, LAMBDA n : d.node[n].poc < poc))
        great == SelectSeq(short, LAMBDA n : d.node[n].poc >= poc)
        l0 == less \o great \o ByMark(d, "long")
        l1 == great \o less \o ByMark(d, "long")
    IN  IF Len(l0) > 1 /\ l0 = l1
        THEN <<l0, <<l1[2], l1[1]>> \o SubSeq(l1, 3, Len(l1))>> ELSE <<l0, l1>>

\* AL_Dpb_ModifShortTerm and AL_Dpb_ModifLongTerm: reference picture n is put at
\* place i (from 1) of a list of numRef pictures
Modify(list, numRef, n, i) ==
    LET at(k) == IF k <= Len(list) THEN list[k] ELSE End
        shifted == [k \in 1 .. numRef + 1 |-> IF k < i THEN at(k) ELSE IF k = i THEN n
                                              ELSE at(k - 1)]
        rest == SelectSeq(SubSeq(shifted, i + 1, numRef + 1), LAMBDA m : m # n)
    IN  SubSeq(SubSeq(shifted, 1, i) \o rest \o SubSeq(shifted, i + 1 + Len(rest), numRef + 1),
               1, numRef)
-----------------------------------------------------------------------------
(* The conforming streams the actions take their operations from *)

LongRefs(d) == {n \in Refs(d) : d.node[n].mark = "long"}

PlaceOf(d, n) == SelectInSeq(Walk(d, "dec"), LAMBDA m : m = n)

\* Operation 3 keeps the lists when the picture is after the pictures of smaller
\* long-term index, is not the head with pictures between it and its place, and no
\* picture that waits for its output still has the index
KeepsLists(d, t, idx) ==
    LET smaller == {n \in LongRefs(d) : d.node[n].idx < idx}
        larger == {n \in LongRefs(d) : d.node[n].idx > idx}
    IN  /\ \A n \in smaller : PlaceOf(d, n) < PlaceOf(d, t)
        /\ d.head["dec"] = t /\ larger # {} => d.next["dec"][t] \in larger
        /\ \A n \in Nodes : d.node[n].idx = idx => IsRef(d, n)

Targets(d, diff) ==
    {n \in ShortRefs(d) \ {d.curRef} : d.node[n].picNum = d.node[d.curRef].picNum - diff}

Legal(d, op) ==
    CASE op.op = 1 -> Targets(d, op.diff) # {}
      [] op.op = 2 -> \E n \in LongRefs(d) : d.node[n].idx = op.idx
      [] op.op = 3 -> /\ Targets(d, op.diff) # {}
                      /\ Careful => \A t \in Targets(d, op.diff) : KeepsLists(d, t, op.idx)
      [] OTHER -> TRUE

Conforming(d, ops) ==
    LET step(a, op) == IF a.ok /\ Legal(a.d, op) THEN [ok |-> TRUE, d |-> Operate(a.d, op)]
                       ELSE [a EXCEPT !.ok = FALSE]
        after == Through(step, [ok |-> TRUE, d |-> d], ops)
    IN  /\ after.ok
        /\ IsRef(after.d, after.d.curRef)
        /\ Cardinality(Refs(after.d)) <= MaxRefFrames
-----------------------------------------------------------------------------
DecoderInit(codec) ==
    /\ dpb = Dpb_Init(codec)
    /\ iPrevFrameNum = 0
    /\ iCurFramePOC = 0
    /\ slice = NoSlice
    /\ prevIsRef = "none"
    /\ count = 0

Init == DecoderInit("avc")

\* decodeSliceData up to the gaps in the frame numbers.  A slice is not valid if it is
\* not intra and its POC is that of a reference picture: it keeps the POC of the picture
\* before.  The streams have no such slice where frame numbers are missing.
StartIdr ==
    /\ slice = NoSlice /\ count < MaxPictures
    /\ slice' = [kind |-> "idr", num |-> 0, fill |-> FALSE]
    /\ iCurFramePOC' = 0
    /\ UNCHANGED <<dpb, iPrevFrameNum, prevIsRef, count>>

StartSlice(kind, valid, poc, gap) ==
    LET num == (iPrevFrameNum + gap + IF prevIsRef = "ref" THEN 1 ELSE 0) % MaxFrameNum
        missing == num \notin {iPrevFrameNum, (iPrevFrameNum + 1) % MaxFrameNum}
        nums == {(num + MaxFrameNum - k) % MaxFrameNum : k \in 0 .. gap}
    IN  /\ slice = NoSlice /\ prevIsRef # "none" /\ count < MaxPictures
        /\ valid \/ (SearchPOC(dpb, poc) # End /\ ~missing)
        /\ \A n \in ShortRefs(dpb) : dpb.node[n].num \notin nums
        /\ slice' = [kind |-> kind, num |-> num, fill |-> valid /\ missing]
        /\ iCurFramePOC' = IF valid THEN poc ELSE iCurFramePOC
        /\ UNCHANGED <<dpb, iPrevFrameNum, prevIsRef, count>>

MissingNum == (iPrevFrameNum + 1) % MaxFrameNum
Filling == slice # NoSlice /\ slice.fill /\ MissingNum # slice.num

\* AL_AVC_PictMngr_Fill_Gap_In_FrameNum, one frame number
FillGap ==
    /\ Filling
    /\ dpb' = LET d == Insert(dpb, iCurFramePOC, 0, "short", FALSE, FALSE, count)
               IN  Cleanup(Mark(Numbered(d, MissingNum), <<>>))
    /\ iPrevFrameNum' = MissingNum
    /\ count' = count + 1
    /\ UNCHANGED <<iCurFramePOC, slice, prevIsRef>>

\* AL_InitFrameBuffers waits for one of the StackSize places.  In low reference mode the
\* pictures that are still to be output are those being decoded.
Pending == {n \in Nodes : dpb.node[n].out}
HasPlace == LowRef => Cardinality(Pending) < StackSize

\* updatePictManager for each kind of picture
EndIdr(long) ==
    LET d == EndParsing(dpb, TRUE, IF long THEN "long" ELSE "short")
        c == d.curRef
    IN  /\ slice # NoSlice /\ slice.kind = "idr" /\ HasPlace
        /\ dpb' = Cleanup([d EXCEPT !.node[c].idx = IF long THEN 0 ELSE @])
        /\ iPrevFrameNum' = 0
        /\ slice' = NoSlice
        /\ prevIsRef' = "ref"
        /\ count' = count + 1
        /\ UNCHANGED iCurFramePOC

EndRef ==
    /\ slice # NoSlice /\ slice.kind = "ref" /\ ~Filling /\ HasPlace
    /\ \E d \in {Numbered(EndParsing(dpb, FALSE, "short"), slice.num)}, ops \in OpLists :
           /\ ops # <<>> => Conforming(d, ops)
           /\ \E e \in {Mark(d, ops)} :
                   /\ dpb' = Cleanup(e)
                   /\ iPrevFrameNum' = IF e.mmco5 THEN 0 ELSE slice.num
                   /\ iCurFramePOC' = IF e.mmco5 THEN 0 ELSE iCurFramePOC
    /\ slice' = NoSlice
    /\ prevIsRef' = "ref"
    /\ count' = count + 1

EndNonRef ==
    /\ slice # NoSlice /\ slice.kind = "nonref" /\ ~Filling /\ HasPlace
    /\ dpb' = Cleanup(EndParsing(dpb, FALSE, "unused"))
    /\ iPrevFrameNum' = slice.num
    /\ slice' = NoSlice
    /\ prevIsRef' = "nonref"
    /\ count' = count + 1
    /\ UNCHANGED iCurFramePOC

\* AL_Dpb_EndDecoding in low reference mode: pictures end in decoding order
EndDecoding ==
    /\ LowRef /\ Pending # {}
    /\ dpb' = Display(dpb, CHOOSE n \in Pending :
                               \A m \in Pending : dpb.node[n].pic <= dpb.node[m].pic)
    /\ UNCHANGED <<iPrevFrameNum, iCurFramePOC, slice, prevIsRef, count>>

\* AL_PictMngr_Flush at the end of the stream
EndOfStream ==
    /\ slice = NoSlice
    /\ dpb' = Flush(dpb)
    /\ prevIsRef' = "none"
    /\ UNCHANGED <<iPrevFrameNum, iCurFramePOC, slice, count>>

Next ==
    \/ StartIdr
    \/ \E kind \in {"ref", "nonref"}, valid \in BOOLEAN, poc \in POCs, gap \in 0 .. MaxGap :
           StartSlice(kind, valid, poc, gap)
    \/ FillGap
    \/ \E long \in BOOLEAN : EndIdr(long)
    \/ EndRef
    \/ EndNonRef
    \/ EndDecoding
    \/ EndOfStream

Spec == Init /\ [][Next]_vars
-----------------------------------------------------------------------------
Used(d) == {n \in Nodes : d.node[n].used}

\* The nodes, the links and the slice header have their types.
TypeOK ==
    /\ \A n \in Nodes : /\ dpb.node[n].mark \in Marks
                        /\ dpb.node[n].picID \in PicIDs \cup {End}
                        /\ dpb.node[n].num \in 0 .. MaxFrameNum - 1
    /\ dpb.head \in [Lists -> Nodes \cup {End}]
    /\ dpb.next \in [Lists -> [Nodes -> Nodes \cup {End}]]
    /\ dpb.prev \in [Lists -> [Nodes -> Nodes \cup {End}]]
    /\ dpb.waiting \in Nodes \cup {End}
    /\ dpb.countRef \in 0 .. MaxPictures /\ dpb.countPic \in 0 .. DpbSize
    /\ dpb.numOut \in 0 .. DpbSize
    /\ iPrevFrameNum \in 0 .. MaxFrameNum - 1
    /\ prevIsRef \in {"none", "ref", "nonref"}

\* The three lists stay lists of the nodes in use through insertions, removals and
\* the moves of long-term pictures (DPB.c 1140, 1029, 270): forward and backward links
\* agree, no node is lost or met twice, the POC list is sorted with its last node in
\* uLastPOC, and short-term pictures keep the order of their arrival.
ListsAgree ==
    /\ \A l \in Lists :
           LET w == Walk(dpb, l)
           IN  /\ Range(w) = Used(dpb) /\ Len(w) = Cardinality(Used(dpb))
               /\ \A i \in DOMAIN w :
                      dpb.prev[l][w[i]] = IF i = 1 THEN End ELSE w[i - 1]
    /\ LET w == Walk(dpb, "poc")
       IN  /\ \A i, j \in DOMAIN w : i < j => dpb.node[w[i]].poc <= dpb.node[w[j]].poc
           /\ w # <<>> => dpb.last = Last(w)
    /\ LET s == ByMark(dpb, "short")
       IN  \A i, j \in DOMAIN s : i < j => dpb.node[s[i]].pic < dpb.node[s[j]].pic

\* The counters that decide what is output and removed are those of the nodes in
\* use, and the picture IDs given out and the free ones make up the pool: no path
\* of the marking releases an ID twice or keeps it (DPB.c 217, 155, 1069); every variable
\* keeps its type.
BookkeepingExact ==
    LET holders == {n \in Nodes : dpb.node[n].used /\ dpb.node[n].picID # End}
        given == {dpb.node[n].picID : n \in holders}
    IN  /\ TypeOK
        /\ dpb.countPic = Cardinality(Used(dpb))
        /\ dpb.codec = "avc" => dpb.countRef = Cardinality(Refs(dpb))
        /\ dpb.numOut = Cardinality({n \in Nodes : dpb.node[n].out})
        /\ Cardinality(given) = Cardinality(holders)
        /\ given \cap Range(dpb.free) = {} /\ given \cup Range(dpb.free) = PicIDs
        /\ Len(dpb.free) = Cardinality(Range(dpb.free))

\* When a picture begins, the search for a free node ends (DPB.c 784 loops until it
\* finds one) and every reference picture that exists has its picture ID, the index
\* of the tables the hardware reads.
ReadyForPicture ==
    slice # NoSlice => /\ FreeNodes(dpb) # {}
                       /\ \A n \in Refs(dpb) : dpb.node[n].exists => dpb.node[n].picID # End

\* The order the reference lists begin with, whatever the history of the DPB:
\* short-term pictures by descending picture number or by POC, long-term pictures by
\* ascending index; the two lists of a B slice differ; and naming the pictures of any
\* order one after the other gives the list in that order (DPB.c 1416, 1459, 1544).
RefListsExact ==
    slice # NoSlice /\ slice.kind \in {"ref", "nonref"} /\ ~Filling =>
    LET d == PictNumberProcess(dpb, slice.num)
        long == SetToSortSeq(LongRefs(d), LAMBDA m, n : d.node[m].idx < d.node[n].idx)
        short == SetToSortSeq(ShortRefs(d), LAMBDA m, n : d.node[m].picNum > d.node[n].picNum)
        sides == BLists(d, iCurFramePOC)
        size == Len(PList(d))
        reorder(p) == Through(LAMBDA list, i : Modify(list, size, p[i], i),
                               PList(d), [i \in 1 .. size |-> i])
    IN  /\ PList(d) = short \o long
        /\ \A s \in 1 .. 2 : Range(sides[s]) = Refs(d) /\ Len(sides[s]) = size
        /\ size > 1 => sides[1] # sides[2]
        /\ \A p \in SetToSeqs(Refs(d)) : reorder(p) = p

\* The first node in decoding order has no predecessor.
HeadIsFirst == dpb.head["dec"] # End => dpb.prev["dec"][dpb.head["dec"]] = End

\* The marking of the nodes is that of RefMarking: every sliding window removes the
\* oldest short-term picture although frame numbers wrap, and every operation finds
\* the picture it names among the nodes with stale numbers.
Abstract ==
    {[pic |-> dpb.node[n].pic, num |-> dpb.node[n].num, idx |-> dpb.node[n].idx,
      poc |-> IF dpb.node[n].exists THEN dpb.node[n].poc ELSE -1] :
         n \in {m \in Nodes : dpb.node[m].used /\ IsRef(dpb, m)}}

\* RefMarking says nothing of an HEVC stream
Avc(value, idle) == IF dpb.codec = "avc" THEN value ELSE idle

Promise == INSTANCE RefMarking WITH
    refs <- Avc(Abstract, {}), count <- Avc(count, 0), poc <- Avc(iCurFramePOC, 0),
    num <- Avc(IF slice = NoSlice THEN 0 ELSE slice.num, 0)

ImplementsRefMarking == Promise!Spec
=============================================================================

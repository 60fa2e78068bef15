------------------------------ MODULE PictMngr ------------------------------
(***************************************************************************)
(* The picture manager of the AVC decoder (AL_TPictMngrCtx): the pool of   *)
(* picture buffers, the pool of motion vector buffers and the decoded      *)
(* picture buffer AL_TDpb (lib_parsing/DPB.c) that holds references to     *)
(* both.  Each operator is a function run under the mutex of the DPB and   *)
(* maps the context before the call to the context after it.               *)
(*                                                                         *)
(* x.nodes lists the nodes in decoding order; the POC list of the source   *)
(* is PocOrder, the nodes by POC and, for equal POC, by age.  x.dlt is the *)
(* list of removed pictures whose references are still to be dropped.      *)
(***************************************************************************)
EXTENDS FrmBufPool, MvBufPool

CONSTANTS
    DpbSize,      \* MAX_DPB_SIZE, the number of nodes
    NumRef,       \* uNumRef, the reference pictures the level allows
    MaxRefFrames, \* max_num_ref_frames of the active SPS
    LowRef        \* eMode = AL_DPB_LOW_REF

ASSUME PictMngrAssumption ==
    /\ DpbSize \in Nat \ {0}
    /\ NumRef \in Nat
    /\ MaxRefFrames \in 0 .. NumRef
    /\ LowRef \in BOOLEAN

NodeIDs == 0 .. DpbSize - 1
NoMv == -1
Markings == {"unused", "shortTerm"}
Statuses == {"notNeeded", "notReady", "ready"}

DpbNodes ==
    [id : NodeIDs, poc : Int, frm : Slots \cup {NoSlot}, mv : MvIDs \cup {NoMv},
     marking : Markings, out : BOOLEAN, nonExisting : BOOLEAN]

PictMngrs ==
    [pool : FrmBufPools, mv : MvBufPools, nodes : Seq(DpbNodes), disp : Seq(Slots),
     status : [Slots -> Statuses], dlt : Seq(Slots \X MvIDs)]

PictMngr_Init ==
    [pool |-> FrmBufPool_Init, mv |-> MvBufPool_Init, nodes |-> <<>>, disp |-> <<>>,
     status |-> [s \in Slots |-> "notNeeded"], dlt |-> <<>>]

\* FoldLeft of the community modules as a recursive function on the positions
Through(step(_, _), x, seq) ==
    LET f[i \in 0 .. Len(seq)] == IF i = 0 THEN x ELSE step(f[i - 1], seq[i])
    IN  f[Len(seq)]

\* The node in place i comes before the node in place j in the POC list
Earlier(x, i, j) ==
    \/ x.nodes[i].poc < x.nodes[j].poc
    \/ x.nodes[i].poc = x.nodes[j].poc /\ i < j

\* The node in place k has k - 1 nodes before it
PocOrder(x) ==
    LET rank(i) == Cardinality({j \in DOMAIN x.nodes : Earlier(x, j, i)}) + 1
    IN  [k \in DOMAIN x.nodes |-> x.nodes[CHOOSE i \in DOMAIN x.nodes : rank(i) = k].id]

HasNode(x, n) == \E i \in DOMAIN x.nodes : x.nodes[i].id = n
IndexOf(x, n) == CHOOSE i \in DOMAIN x.nodes : x.nodes[i].id = n
NodeOf(x, n) == x.nodes[IndexOf(x, n)]

IsRef(node) == node.marking # "unused"
RefCount(x) == Cardinality({i \in DOMAIN x.nodes : IsRef(x.nodes[i])})
PicCount(x) == Len(x.nodes)
-----------------------------------------------------------------------------
(* Output *)

OutputNode(x, n) ==
    LET frm == NodeOf(x, n).frm
        y == [x EXCEPT !.nodes[IndexOf(x, n)].out = FALSE]
    IN  IF ~NodeOf(x, n).out THEN x
        ELSE IF NodeOf(x, n).nonExisting THEN y
        ELSE [y EXCEPT !.disp = Append(@, frm),
                       !.pool = OutputBufID(IncrementBufID(@, frm), frm)]

\* Mutated: the anterior pictures stay
DisplayOnly(x, n) == OutputNode(x, n)

\* AL_Dpb_Display: the pictures that come before node n in POC order go first
Display(x, n) ==
    LET upTo == SelectInSeq(PocOrder(x), LAMBDA m : m = n)
    IN  Through(OutputNode, x, SubSeq(PocOrder(x), 1, upTo))

\* AL_Dpb_GetDisplayBuffer: the slot to show now, if its picture is decoded
GetDisplayBuffer(x) ==
    IF x.disp = <<>> \/ x.status[Head(x.disp)] # "ready" THEN NoSlot ELSE Head(x.disp)

ReleaseDisplayBuffer(x) ==
    IF x.disp = <<>> THEN x
    ELSE [x EXCEPT !.disp = Tail(@), !.status[Head(x.disp)] = "notNeeded",
                   !.pool = DecrementBufID(@, Head(x.disp))]
-----------------------------------------------------------------------------
(* Removal of nodes *)

RemoveNode(x, n) ==
    [x EXCEPT !.nodes = RemoveAt(@, IndexOf(x, n)),
              !.dlt = IF NodeOf(x, n).nonExisting THEN @
                      ELSE Append(@, <<NodeOf(x, n).frm, NodeOf(x, n).mv>>)]

ReleaseOne(x) ==
    IF x.dlt = <<>> THEN x
    ELSE [x EXCEPT !.dlt = Tail(@),
                   !.pool = DecrementBufID(@, Head(x.dlt)[1]),
                   !.mv = MvDecrement(@, Head(x.dlt)[2])]

\* AL_Dpb_Terminate
ReleaseAll(x) == Through(LAMBDA y, r : ReleaseOne(y), x, x.dlt)

\* Mutated: the pictures go without being output
FlushUnseen(x) == Through(LAMBDA y, n : RemoveNode(y, n), x, PocOrder(x))

OutputAndRemove(x, n) == RemoveNode(Display(x, n), n)

Flush(x) == Through(OutputAndRemove, x, PocOrder(x))

\* AL_Dpb_AVC_Cleanup, its two loops over the POC list
RemoveIfUseless(x, n) ==
    IF IsRef(NodeOf(x, n)) \/ NodeOf(x, n).out THEN x ELSE RemoveNode(x, n)

Excess(x) == RefCount(x) > NumRef \/ PicCount(x) > NumRef
Bump(x, n) == IF Excess(x) /\ ~IsRef(NodeOf(x, n)) THEN OutputAndRemove(x, n) ELSE x

RemoveUseless(x) == Through(RemoveIfUseless, x, PocOrder(x))
BumpExcess(x) == Through(Bump, x, PocOrder(x))
Cleanup(x) == BumpExcess(RemoveUseless(x))

\* AL_Dpb_sSlidingWindowMarking: beyond max_num_ref_frames the oldest one goes
SlidingWindow(x) ==
    LET refs == {i \in DOMAIN x.nodes : IsRef(x.nodes[i])}
        oldest == x.nodes[Min(refs)]
        y == [x EXCEPT !.nodes[Min(refs)].marking = "unused"]
    IN  IF Cardinality(refs) <= MaxRefFrames THEN x
        ELSE IF oldest.nonExisting THEN RemoveNode(y, oldest.id) ELSE y
-----------------------------------------------------------------------------
(* Insertion *)

Reusable(x, n) == HasNode(x, n) => ~IsRef(NodeOf(x, n)) /\ ~NodeOf(x, n).out

\* AL_Dpb_GetNextFreeNode
NextFreeNode(x) == Min({n \in NodeIDs : Reusable(x, n)})

\* AL_PictMngr_Insert; frm and mv are NoSlot and NoMv for a picture that does not exist
Insert(x, poc, frm, mv, marking, out, nonExisting) ==
    LET n == NextFreeNode(x)
        y == IF HasNode(x, n) THEN RemoveNode(x, n) ELSE x
        node == [id |-> n, poc |-> poc, frm |-> frm, mv |-> mv, marking |-> marking,
                 out |-> out, nonExisting |-> nonExisting]
        z == [y EXCEPT !.nodes = Append(@, node)]
    IN  IF nonExisting THEN z
        ELSE [z EXCEPT !.status[frm] = IF out THEN "notReady" ELSE "notNeeded",
                       !.pool = IncrementBufID(@, frm), !.mv = MvIncrement(@, mv)]

\* AL_Dpb_SearchPOC among the existing reference pictures
SamePOC(x, poc) ==
    {i \in DOMAIN x.nodes : /\ x.nodes[i].poc = poc /\ IsRef(x.nodes[i])
                            /\ ~x.nodes[i].nonExisting}

\* Mutated: the picture replaced is not output
ReplaceSamePOCUnseen(x, poc) ==
    IF SamePOC(x, poc) = {} THEN x ELSE RemoveNode(x, x.nodes[Min(SamePOC(x, poc))].id)

\* A picture replaces the reference picture of the same POC
ReplaceSamePOC(x, poc) ==
    IF SamePOC(x, poc) = {} THEN x
    ELSE LET n == x.nodes[Min(SamePOC(x, poc))].id IN RemoveNode(Display(x, n), n)

\* One missing frame number filled in by AL_AVC_PictMngr_Fill_Gap_In_FrameNum
FillGap(x, poc) ==
    Cleanup(SlidingWindow(Insert(x, poc, NoSlot, NoMv, "shortTerm", FALSE, TRUE)))
-----------------------------------------------------------------------------
(* The end of the decoding of a picture *)

\* Mutated: the pending removals wait for the next flush
EndDecodingKept(x, frm) ==
    LET z == [x EXCEPT !.status[frm] = "ready"]
        nodes == {i \in DOMAIN z.nodes : z.nodes[i].frm = frm}
    IN  IF x.status[frm] # "notReady" THEN x
        ELSE IF LowRef /\ nodes # {} /\ z.nodes[Min(nodes)].out
        THEN Display(z, z.nodes[Min(nodes)].id) ELSE z

EndDecoding(x, frm) ==
    LET y == ReleaseOne(x)
        z == [y EXCEPT !.status[frm] = "ready"]
        nodes == {i \in DOMAIN z.nodes : z.nodes[i].frm = frm}
    IN  IF y.status[frm] # "notReady" THEN y
        ELSE IF LowRef /\ nodes # {} /\ z.nodes[Min(nodes)].out
        THEN Display(z, z.nodes[Min(nodes)].id) ELSE z
-----------------------------------------------------------------------------
(* The references a decoding command takes on the reference pictures *)

RefNodes(x) ==
    {n \in NodeIDs : /\ HasNode(x, n) /\ IsRef(NodeOf(x, n))
                     /\ ~NodeOf(x, n).nonExisting}

\* AL_InitRefBuffers: at most MAX_REF pairs, in the order of the node array
RefBuffers(x) ==
    LET rank(n) == Cardinality({m \in RefNodes(x) : m < n}) + 1
        nth(k) == CHOOSE n \in RefNodes(x) : rank(n) = k
    IN  [k \in 1 .. Cardinality(RefNodes(x)) |-> <<NodeOf(x, nth(k)).frm, NodeOf(x, nth(k)).mv>>]

\* Mutated: nothing is locked
LockRefIDNothing(x, list) == x

LockRef(x, r) == [x EXCEPT !.pool = IncrementBufID(@, r[1]), !.mv = MvIncrement(@, r[2])]
UnlockRef(x, r) == [x EXCEPT !.pool = DecrementBufID(@, r[1]), !.mv = MvDecrement(@, r[2])]

LockRefID(x, list) == Through(LockRef, x, list)
UnlockRefID(x, list) == Through(UnlockRef, x, list)

\* Mutated: the picture buffer stays locked
UnlockIDMvOnly(x, frm, mv) == [x EXCEPT !.mv = MvDecrement(@, mv)]

UnlockID(x, frm, mv) == UnlockRefID(x, <<<<frm, mv>>>>)
-----------------------------------------------------------------------------
(* What the functions keep *)

One(test) == IF test THEN 1 ELSE 0
Occurrences(seq, Test(_)) == Cardinality({i \in DOMAIN seq : Test(seq[i])})

\* What the DPB, the list of removed pictures and the display list hold of slot s and of
\* motion vector buffer m
FrmHeld(x, s) ==
    Occurrences(x.nodes, LAMBDA n : n.frm = s) + Occurrences(x.dlt, LAMBDA r : r[1] = s)
    + Occurrences(x.disp, LAMBDA f : f = s)

MvHeld(x, m) ==
    Occurrences(x.nodes, LAMBDA n : n.mv = m) + Occurrences(x.dlt, LAMBDA r : r[2] = m)

\* The motion vector buffers of the DPB and of the removed pictures after the first k
NodeMvs(x) ==
    {m \in MvIDs : \E i \in 1 .. Len(x.nodes) : ~x.nodes[i].nonExisting /\ x.nodes[i].mv = m}
DltMvs(x, k) == {m \in MvIDs : \E i \in 1 .. Len(x.dlt) : i > k /\ x.dlt[i][2] = m}
RealCount(x) == Occurrences(x.nodes, LAMBDA n : ~n.nonExisting)

InDisplay(x, s) == \E i \in 1 .. Len(x.disp) : x.disp[i] = s
ToBeOutput(x, s) ==
    \E i \in 1 .. Len(x.nodes) : x.nodes[i].out /\ x.nodes[i].frm = s

\* A node has an ID of its own, and a picture that exists its own buffers
NodesWhole(x) ==
    /\ \A i \in 1 .. Len(x.nodes) :
          LET n == x.nodes[i]
          IN  IF n.nonExisting THEN n.frm = NoSlot /\ n.mv = NoMv /\ ~n.out
              ELSE n.frm \in Slots /\ n.mv \in MvIDs
    /\ \A i, j \in 1 .. Len(x.nodes) :
          LET n == x.nodes[i]  o == x.nodes[j]
          IN  n.id = o.id \/ (~n.nonExisting /\ (n.frm = o.frm \/ n.mv = o.mv)) => i = j

\* Each buffer counts its holders; frm and mv count those outside the picture manager
CountsExact(x, frm, mv) ==
    /\ \A s \in Slots : RefsOn(x.pool, s) = frm[s] + FrmHeld(x, s)
    /\ \A m \in MvIDs : x.mv.cnt[m] = mv[m] + MvHeld(x, m)

\* Pictures go from the DPB through the display list to the application, which has those of
\* user; when shown, it has been given the first of the list
OutputWhole(x, user, shown) ==
    /\ shown => x.disp # <<>>
    /\ \A i, j \in 1 .. Len(x.disp) : x.disp[i] = x.disp[j] => i = j
    /\ \A i \in 1 .. Len(x.disp) : x.pool.out[x.disp[i]] \/ (i = 1 /\ shown)
    /\ \A s \in Slots :
          /\ ToBeOutput(x, s) => ~x.pool.out[s] /\ ~InDisplay(x, s)
          /\ x.status[s] # "notNeeded" <=> ToBeOutput(x, s) \/ InDisplay(x, s)
          /\ x.pool.buf[s] # NoBuf =>
                (x.pool.buf[s] \in user <=>
                    x.pool.out[s] /\ (InDisplay(x, s) => shown /\ s = x.disp[1]))
    /\ \A b \in Bufs : b \in user \/ \E s \in Slots : x.pool.buf[s] = b

\* A list of references names a picture at most once
Distinct(list) ==
    \A i, j \in 1 .. Len(list) : list[i][1] = list[j][1] \/ list[i][2] = list[j][2] => i = j

\* The picture manager is whole.
MngrInv(x, frm, mv, user, shown) ==
    /\ x \in PictMngrs
    /\ PoolInv(x.pool) /\ MvInv(x.mv)
    /\ NodesWhole(x) /\ CountsExact(x, frm, mv) /\ OutputWhole(x, user, shown)
=============================================================================

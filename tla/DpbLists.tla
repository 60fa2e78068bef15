------------------------------ MODULE DpbLists ------------------------------
(***************************************************************************)
(* The nodes of the decoded picture buffer of the decoders (AVC, HEVC) as  *)
(* lib_parsing/DPB.c keeps them: an array of nodes threaded by three       *)
(* doubly linked lists (by POC, by POC LSB, by decoding order), counters,  *)
(* the stack of free picture IDs and the picture that waits for one.       *)
(*                                                                         *)
(* Each operator is a function of DPB.c and maps the DPB before the call   *)
(* to the DPB after it.  The picture buffers the nodes hold and the        *)
(* display list are PictMngr's.                                            *)
(***************************************************************************)
EXTENDS Integers, FiniteSets, Sequences
LOCAL INSTANCE FiniteSetsExt
LOCAL INSTANCE SequencesExt

CONSTANTS
    DpbSize,      \* MAX_DPB_SIZE, the number of nodes
    PicIDs,       \* the picture IDs, PIC_ID_POOL_SIZE of them
    NumRef,       \* uNumRef: the level's reference pictures, or of HEVC the size of the DPB
    MaxFrameNum   \* 1 << (log2_max_frame_num_minus4 + 4)

Nodes == 0 .. DpbSize - 1
End == -1        \* uEndOfList, UndefID
NoIdx == -1      \* iLong_term_frame_idx = 0x7FFF
Never == -128    \* iLastDisplayedPOC = 0x80000000
Lists == {"poc", "lsb", "dec"}
Marks == {"unused", "short", "long"}

ResetNode ==
    [used |-> FALSE, poc |-> 0, lsb |-> 0, latency |-> 0, num |-> 0, picNum |-> MaxFrameNum,
     idx |-> NoIdx, mark |-> "unused", out |-> FALSE, exists |-> TRUE, picID |-> End, pic |-> End]

\* AL_Dpb_Init for one of the decoders, "avc" or "hevc"; iLastDisplayedPOC, which only the
\* HEVC decoder reads, is kept for it alone
Dpb_Init(codec) ==
    [codec |-> codec, shown |-> Never,
     node |-> [n \in Nodes |-> ResetNode],
     head |-> [l \in Lists |-> End], last |-> End,
     next |-> [l \in Lists |-> [n \in Nodes |-> End]],
     prev |-> [l \in Lists |-> [n \in Nodes |-> End]],
     free |-> SetToSortSeq(PicIDs, <), waiting |-> End,
     countRef |-> 0, countPic |-> 0, numOut |-> 0, curRef |-> 0, mmco5 |-> FALSE]

IsRef(d, n) == d.node[n].mark # "unused"

\* FoldLeft of the community modules as a recursive function on the positions, which
\* TLC evaluates in linear time
Through(step(_, _), d, seq) ==
    LET f[i \in 0 .. Len(seq)] == IF i = 0 THEN d ELSE step(f[i - 1], seq[i])
    IN  f[Len(seq)]

\* The nodes met from node n along the links f, at most one more than there are
Follow(f, n) ==
    LET step(seq, k) == IF f[Last(seq)] = End THEN seq ELSE Append(seq, f[Last(seq)])
    IN  IF n = End THEN <<>> ELSE Through(step, <<n>>, [k \in 1 .. DpbSize |-> k])

Walk(d, l) == Follow(d.next[l], d.head[l])
-----------------------------------------------------------------------------
(* The linked lists *)

Link(d, l, a, b) ==
    [d EXCEPT !.next[l] = IF a = End THEN @ ELSE [@ EXCEPT ![a] = b],
              !.prev[l] = IF b = End THEN @ ELSE [@ EXCEPT ![b] = a]]

\* Mutated: the removed node's successor keeps its predecessor
UnlinkForward(d, l, n) ==
    LET p == d.prev[l][n]
        s == d.next[l][n]
    IN  [d EXCEPT !.head[l] = IF @ = n THEN s ELSE @,
                  !.last = IF l = "poc" /\ s = End THEN p ELSE @,
                  !.next[l] = IF p = End THEN @ ELSE [@ EXCEPT ![p] = s]]

\* RemoveFromPocList, RemoveFromPocLsbList, RemoveFromDecOrderList
Unlink(d, l, n) ==
    LET p == d.prev[l][n]
        s == d.next[l][n]
    IN  [Link(d, l, p, s) EXCEPT !.head[l] = IF @ = n THEN s ELSE @,
                                 !.last = IF l = "poc" /\ s = End THEN p ELSE @]

InsertBefore(d, l, n, s) ==
    LET p == d.prev[l][s]
    IN  [Link(Link(d, l, n, s), l, p, n) EXCEPT !.head[l] = IF @ = s THEN n ELSE @]

InsertLast(d, l, n) ==
    LET w == Walk(d, l)
        p == IF w = <<>> THEN End ELSE w[Len(w)]
    IN  [Link(Link(d, l, n, End), l, p, n) EXCEPT
            !.head[l] = IF p = End THEN n ELSE @,
            !.last = IF l = "poc" THEN n ELSE @]

InsertSorted(d, l, n, key(_)) ==
    LET later == SelectInSeq(Walk(d, l), LAMBDA m : key(d.node[m]) > key(d.node[n]))
    IN  IF later = 0 THEN InsertLast(d, l, n) ELSE InsertBefore(d, l, n, Walk(d, l)[later])

InsertInLists(d, n) ==
    LET byPoc == InsertSorted(d, "poc", n, LAMBDA node : node.poc)
    IN  InsertLast(InsertSorted(byPoc, "lsb", n, LAMBDA node : node.lsb), "dec", n)
-----------------------------------------------------------------------------
(* Picture IDs *)

ReleasePicID(d, n) ==
    IF d.node[n].picID = End THEN d ELSE [d EXCEPT !.free = Append(@, d.node[n].picID)]

\* AL_Dpb_sFillWaitingPicture, called if a picture waits and an ID is free
FillWaiting(d) ==
    IF d.waiting = End \/ d.free = <<>> THEN d
    ELSE [d EXCEPT !.node[d.waiting].picID = Last(d.free), !.free = Front(@),
                   !.waiting = End]

\* AL_Dpb_sSetPicToUnused
SetPicToUnused(d, n) ==
    [ReleasePicID(d, n) EXCEPT !.node[n].mark = "unused", !.node[n].picID = End,
                               !.countRef = @ - 1]
-----------------------------------------------------------------------------
(* Output, removal and insertion *)

Output(d, n) ==
    IF ~d.node[n].out THEN d
    ELSE [d EXCEPT !.node[n].out = FALSE, !.numOut = @ - 1,
                   !.shown = IF d.codec = "hevc" THEN d.node[n].poc ELSE @]

\* AL_Dpb_Display: the pictures up to node n in POC order
Display(d, n) ==
    LET w == Walk(d, "poc")
    IN  Through(Output, d, SubSeq(w, 1, SelectInSeq(w, LAMBDA m : m = n)))

\* Mutated: a reference picture is not counted out
RemoveUncounted(d, n) ==
    LET unlinked == Unlink(Unlink(Unlink(d, "poc", n), "lsb", n), "dec", n)
    IN  FillWaiting([ReleasePicID(unlinked, n) EXCEPT
            !.node[n] = ResetNode, !.countPic = @ - 1,
            !.next = [l \in Lists |-> [@[l] EXCEPT ![n] = End]],
            !.prev = [l \in Lists |-> [@[l] EXCEPT ![n] = End]],
            !.waiting = IF @ = n THEN End ELSE @])

\* AL_Dpb_Remove
RemoveNode(d, n) ==
    LET unlinked == Unlink(Unlink(Unlink(d, "poc", n), "lsb", n), "dec", n)
    IN  FillWaiting([ReleasePicID(unlinked, n) EXCEPT
            !.node[n] = ResetNode, !.countPic = @ - 1,
            !.next = [l \in Lists |-> [@[l] EXCEPT ![n] = End]],
            !.prev = [l \in Lists |-> [@[l] EXCEPT ![n] = End]],
            !.countRef = IF IsRef(d, n) THEN @ - 1 ELSE @,
            !.waiting = IF @ = n THEN End ELSE @])

FreeNodes(d) == {n \in Nodes : ~IsRef(d, n) /\ ~d.node[n].out}

\* AL_PictMngr_Insert: AL_Dpb_GetNextFreeNode, AL_Dpb_Remove if need be, AL_Dpb_Insert.
\* The POC LSB of an AVC picture is always 0
Insert(d, poc, lsb, mark, out, exists, pic) ==
    LET n == Min(FreeNodes(d))
        e == IF d.node[n].used THEN RemoveNode(d, n) ELSE d
        takes == exists /\ e.free # <<>>
        node == [ResetNode EXCEPT
                    !.used = TRUE, !.poc = poc, !.lsb = lsb, !.mark = mark, !.out = out,
                    !.exists = exists,
                    !.picID = IF takes THEN Last(e.free) ELSE End, !.pic = pic]
    IN  InsertInLists(
            [e EXCEPT !.node[n] = node, !.curRef = n,
                      !.free = IF takes THEN Front(@) ELSE @,
                      !.waiting = IF exists /\ ~takes THEN n ELSE @,
                      !.countRef = IF mark = "unused" THEN @ ELSE @ + 1,
                      !.countPic = @ + 1,
                      !.numOut = IF out THEN @ + 1 ELSE @], n)

\* AL_PictMngr_Flush: every picture leaves in POC order, and a new sequence begins
Flush(d) ==
    [Through(LAMBDA e, n : RemoveNode(Display(e, n), n), d, Walk(d, "poc")) EXCEPT !.shown = Never]

\* Mutated: pictures to be output are removed unseen
CleanupUnseen(d) ==
    LET excess(e) == e.countRef > NumRef \/ e.countPic > NumRef
        bump(e, n) == IF excess(e) /\ ~IsRef(e, n) THEN RemoveNode(e, n) ELSE e
        useless(e, n) == IF IsRef(e, n) \/ e.node[n].out THEN e ELSE RemoveNode(e, n)
        clean == Through(useless, d, Walk(d, "poc"))
    IN  FillWaiting(Through(bump, clean, Walk(clean, "poc")))

\* Mutated: only reference pictures count
CleanupReferencesOnly(d) ==
    LET bump(e, n) == IF e.countRef > NumRef /\ ~IsRef(e, n) THEN RemoveNode(Display(e, n), n)
                      ELSE e
        useless(e, n) == IF IsRef(e, n) \/ e.node[n].out THEN e ELSE RemoveNode(e, n)
        clean == Through(useless, d, Walk(d, "poc"))
    IN  FillWaiting(Through(bump, clean, Walk(clean, "poc")))

\* AL_Dpb_AVC_Cleanup
Cleanup(d) ==
    LET excess(e) == e.countRef > NumRef \/ e.countPic > NumRef
        bump(e, n) == IF excess(e) /\ ~IsRef(e, n) THEN RemoveNode(Display(e, n), n) ELSE e
        useless(e, n) == IF IsRef(e, n) \/ e.node[n].out THEN e ELSE RemoveNode(e, n)
        clean == Through(useless, d, Walk(d, "poc"))
    IN  FillWaiting(Through(bump, clean, Walk(clean, "poc")))
=============================================================================

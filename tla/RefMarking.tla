----------------------------- MODULE RefMarking -----------------------------
(***************************************************************************)
(* What the marking of reference pictures promises: the set of reference   *)
(* pictures after each picture of an AVC stream, with no list, node or     *)
(* counter.  A picture is short-term, or long-term with an index no other  *)
(* picture has; beyond MaxRefFrames the oldest short-term picture goes.    *)
(***************************************************************************)
EXTENDS Integers, FiniteSets, Sequences
LOCAL INSTANCE FiniteSetsExt
LOCAL INSTANCE SequencesExt

CONSTANTS
    MaxFrameNum,  \* frame numbers are counted modulo this
    MaxRefFrames, \* max_num_ref_frames of the SPS
    POCs,         \* picture order counts
    NoIdx,        \* the long-term index of a short-term picture
    OpLists       \* the memory management operations a slice header can carry

VARIABLES
    refs,         \* the reference pictures
    count,        \* pictures seen, which numbers them
    num, poc      \* frame number and picture order count of the slice header

Ref(f, idx, p) == [pic |-> count, num |-> f, idx |-> idx, poc |-> p]

ShortTerm(S) == {r \in S : r.idx = NoIdx}
LongTerm(S, idx) == {r \in S : r.idx = idx}

\* PicNum of a short-term picture when frame number f is decoded
PicNum(r, f) == IF r.num > f THEN r.num - MaxFrameNum ELSE r.num

Oldest(S) == CHOOSE r \in S : \A q \in S : r.pic <= q.pic

SlidingWindow(S) ==
    IF Cardinality(S) > MaxRefFrames THEN S \ {Oldest(ShortTerm(S))} ELSE S

WithNum(S, f, n) == {r \in ShortTerm(S) : PicNum(r, f) = n}

MoveToLongTerm(S, T, idx) ==
    (S \ (T \cup LongTerm(S, idx))) \cup {[r EXCEPT !.idx = idx] : r \in T}

\* One memory management control operation of the picture cur with frame number f
Operate(S, cur, f, op) ==
    CASE op.op = 1 -> S \ WithNum(S, f, f - op.diff)
      [] op.op = 2 -> S \ LongTerm(S, op.idx)
      [] op.op = 3 -> MoveToLongTerm(S, WithNum(S, f, f - op.diff), op.idx)
      [] op.op = 4 -> {r \in S : r.idx = NoIdx \/ r.idx < op.idx}
      [] op.op = 5 -> {[r EXCEPT !.num = 0, !.poc = 0] : r \in {r \in S : r.pic = cur}}
      [] op.op = 6 -> MoveToLongTerm(S, {r \in S : r.pic = cur}, op.idx)

Adapt(S, cur, f, ops) == FoldLeft(LAMBDA T, op : Operate(T, cur, f, op), S, ops)

Init == refs = {} /\ count = 0 /\ num = 0 /\ poc = 0

Header ==
    /\ num' \in 0 .. MaxFrameNum - 1
    /\ poc' \in POCs \cup {0, poc}
    /\ UNCHANGED <<refs, count>>

\* At the end of a picture its header is done with; the picture order count is 0
\* after operation 5
Picture(S) ==
    /\ count' = count + 1
    /\ num' = 0
    /\ poc' \in {poc, 0}
    /\ refs' = S

\* A picture replaces a reference picture of the same picture order count
Others == {r \in refs : r.poc # poc}

IdrPicture == \E idx \in {NoIdx, 0} : Picture({Ref(0, idx, 0)})

NonRefPicture == Picture(Others)

RefPicture ==
    \E S \in {Others \cup {Ref(num, NoIdx, poc)}} :
        \/ Picture(SlidingWindow(S))
        \/ \E ops \in OpLists \ {<<>>} : Picture(Adapt(S, count, num, ops))

\* A frame number that is missing in the stream; the picture has no picture to show
MissingPicture ==
    /\ count' = count + 1
    /\ UNCHANGED <<num, poc>>
    /\ \E f \in 0 .. MaxFrameNum - 1 : refs' = SlidingWindow(refs \cup {Ref(f, NoIdx, -1)})

EndOfStream == refs' = {} /\ UNCHANGED <<count, num, poc>>

Next == Header \/ IdrPicture \/ NonRefPicture \/ RefPicture \/ MissingPicture \/ EndOfStream

Spec == Init /\ [][Next]_<<refs, count, num, poc>>
=============================================================================

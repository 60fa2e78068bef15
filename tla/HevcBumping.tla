---------------------------- MODULE HevcBumping ----------------------------
(***************************************************************************)
(* What the decoded picture buffer of the HEVC decoder promises, with no   *)
(* node, list or counter: the reference picture set of the slice header    *)
(* decides which pictures stay references, and the "bumping" process which *)
(* pictures have been output: the one of the smallest picture order count  *)
(* whenever too many wait, one waits too long, or a picture needs room.   *)
(***************************************************************************)
EXTENDS Integers, FiniteSets
LOCAL INSTANCE FiniteSetsExt

CONSTANTS
    MaxDec,       \* sps_max_dec_pic_buffering_minus1 + 1
    NumReorder,   \* sps_num_reorder_pics
    MaxLatency,   \* SpsMaxLatency
    Never,        \* before the first output
    NoHeader

VARIABLES
    refs,         \* the reference pictures
    waiting,      \* the pictures to be output
    shown,        \* the POC of the last output
    header,       \* the slice header being decoded
    count         \* pictures decoded, which numbers them

vars == <<refs, waiting, shown, header, count>>

ByPoc(S) == {p.poc : p \in S}
Pictures == {p.pic : p \in refs \cup waiting}

\* The pictures of W that follow the k first in output order
After(W, k) == {p \in W : Cardinality({q \in W : q.poc < p.poc}) >= k}

\* As many outputs of the smallest POC as it takes until enough(the pictures that wait)
Bump(W, enough(_)) ==
    LET k == Min({i \in 0 .. Cardinality(W) : enough(After(W, i)) \/ i = Cardinality(W)})
        out == W \ After(W, k)
    IN  /\ waiting' = After(W, k)
        /\ shown' = IF out = {} THEN shown ELSE Max(ByPoc(out))

InTime(W) == Cardinality(W) <= NumReorder /\ \A p \in W : p.late < MaxLatency

\* The reference picture set of a header names pictures by their POC
Named(S, h) ==
    {[r EXCEPT !.long = r.poc \in h.long] : r \in {s \in S : s.poc \in h.short \cup h.long}}

Fullness(S, W) == Cardinality({p.pic : p \in S \cup W})

\* An intra random access picture that starts a sequence
StartIrap(h) ==
    /\ header = NoHeader /\ h # NoHeader
    /\ header' = h
    /\ refs' = {} /\ waiting' = {} /\ shown' = Never
    /\ UNCHANGED count

\* Without room for the picture, as after a damaged header, the picture of the smallest
\* POC goes
StartPicture(h) ==
    /\ header = NoHeader /\ h # NoHeader
    /\ header' = h
    /\ LET S == Named(refs, h)
       IN  /\ Bump(waiting, LAMBDA W : InTime(W) /\ Fullness(S, W) < MaxDec)
           /\ refs' = IF Cardinality(S) < MaxDec THEN S ELSE {r \in S : r.poc # Min(ByPoc(S))}
    /\ UNCHANGED count

\* The pictures that wait and follow the picture in output order wait one longer
EndPicture ==
    LET longer(p) == IF header.out /\ p.poc > header.poc THEN p.late + 1 ELSE p.late
        aged == {[p EXCEPT !.late = longer(p)] : p \in waiting}
        new == IF header.out THEN {[pic |-> count, poc |-> header.poc, late |-> 0]} ELSE {}
    IN  /\ header # NoHeader
        /\ refs' = refs \cup {[pic |-> count, poc |-> header.poc, long |-> FALSE]}
        /\ Bump(aged \cup new, InTime)
        /\ header' = NoHeader
        /\ count' = count + 1

\* After a damaged slice the picture of the smallest POC may go
LoseOldest ==
    /\ header = NoHeader /\ Pictures # {}
    /\ LET poc == Min(ByPoc(refs) \cup ByPoc(waiting))
       IN  /\ refs' = {r \in refs : r.poc # poc}
           /\ waiting' = {p \in waiting : p.poc # poc}
           /\ shown' = IF waiting' = waiting THEN shown ELSE poc
    /\ UNCHANGED <<header, count>>

EndOfStream ==
    /\ header = NoHeader
    /\ refs' = {} /\ waiting' = {} /\ shown' = Never
    /\ UNCHANGED <<header, count>>

Init == refs = {} /\ waiting = {} /\ shown = Never /\ header = NoHeader /\ count = 0

Next ==
    \/ \E h \in {header'} : StartIrap(h) \/ StartPicture(h)
    \/ EndPicture
    \/ LoseOldest
    \/ EndOfStream

Spec == Init /\ [][Next]_vars
=============================================================================

------------------------------- MODULE MCDpb -------------------------------
(* Small streams of both codecs *)
EXTENDS MCDpbMarking, HevcDpb

\* Anchors ahead, far enough for the least significant bits to wrap, and pictures that
\* are no anchors on both sides of the anchor before
Kind(step, isAnchor, out) == [step |-> step, anchor |-> isAnchor, out |-> out]
PicKinds ==
    {Kind(-1, FALSE, TRUE), Kind(2, TRUE, TRUE), Kind(2, FALSE, FALSE), Kind(3, TRUE, FALSE)}
=============================================================================

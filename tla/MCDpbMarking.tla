---------------------------- MODULE MCDpbMarking ----------------------------
(* Small streams with every memory management control operation *)
EXTENDS DpbMarking

Diffs == 1 .. 2
Indices == 0 .. 1

One == {[op |-> 1, diff |-> k] : k \in Diffs}
Two == {[op |-> 2, idx |-> i] : i \in Indices}
Three == {[op |-> 3, diff |-> k, idx |-> i] : k \in Diffs, i \in Indices}
Four == {[op |-> 4, idx |-> i] : i \in Indices}
Five == {[op |-> 5]}
Six == {[op |-> 6, idx |-> i] : i \in Indices}

\* No operation is the sliding window
Alone(S) == {<<op>> : op \in S}
Streams ==
    {<<>>} \cup Alone(One \cup Two \cup Three \cup Four \cup Five \cup Six)
        \cup {<<a, b>> \in Three \X Three : a.idx # b.idx /\ a.diff # b.diff}
        \cup {<<a, b>> \in Two \X Three : a.idx = b.idx}
        \cup {<<a, b>> \in Six \X Three : a.idx # b.idx /\ b.diff = 2}
        \cup {<<a, b>> \in Five \X Six : b.idx = 0}
=============================================================================

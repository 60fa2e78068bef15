--------------------------- MODULE MCDecPipeline ----------------------------
(* Small streams for DecPipeline. *)
EXTENDS DecPipeline

Interchangeable == Permutations(Bufs)

Kind(idr, ref, poc, gap, sync) ==
    [idr |-> idr, ref |-> ref, poc |-> poc, gap |-> gap, sync |-> sync]

\* An IDR picture, reference and other pictures out of order
Reordered ==
    {Kind(TRUE, TRUE, 0, FALSE, TRUE), Kind(FALSE, TRUE, 2, FALSE, TRUE),
     Kind(FALSE, FALSE, 1, FALSE, TRUE)}

\* Reference pictures only, in order
Forward == {Kind(TRUE, TRUE, 0, FALSE, TRUE), Kind(FALSE, TRUE, 2, FALSE, TRUE)}

\* Pictures given up, missing frame numbers, repeated picture order counts
Damaged ==
    {Kind(TRUE, TRUE, 0, FALSE, TRUE), Kind(FALSE, TRUE, 1, TRUE, TRUE),
     Kind(FALSE, FALSE, 1, FALSE, TRUE), Kind(FALSE, TRUE, 1, FALSE, FALSE)}
=============================================================================

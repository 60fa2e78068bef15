----------------------------- MODULE MCEncoder -----------------------------
(* Small encoder applications. *)
EXTENDS EncoderApp, TLC

WithLookAhead == [lookAhead |-> 2, numB |-> 1, numSlices |-> 1, maxRefused |-> 0]
MoreLookAhead == [lookAhead |-> 3, numB |-> 2, numSlices |-> 1, maxRefused |-> 0]
WithSlices == [lookAhead |-> 0, numB |-> 0, numSlices |-> 2, maxRefused |-> 1]
WithB == [lookAhead |-> 0, numB |-> 1, numSlices |-> 1, maxRefused |-> 1]

AllConfs == {WithLookAhead, MoreLookAhead, WithSlices, WithB}

\* Filled is what AL_Common_Encoder_PutStreamBuffer makes of the streams, one after the other.
ASSUME FilledAssumption ==
    \A first \in {1, 2}, n \in 0 .. MaxStream - 2 :
       Filled(CreateChannel, first, n)
          = FoldLeft(PutStreamBuffer, CreateChannel, [i \in 1 .. n |-> first + i - 1])
=============================================================================

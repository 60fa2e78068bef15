------------------------------ MODULE MCFeeder ------------------------------
(* Small streams for Feeder. *)
EXTENDS Feeder

\* The end of one slice, or another slice of the picture, and the start of the next picture
Mixed == {<<"more", "first">>, <<"next", "first">>}
=============================================================================

---------------------------- MODULE MCDecoderApp ----------------------------
(* DecoderApp on a small instance. *)
EXTENDS DecoderApp
=============================================================================

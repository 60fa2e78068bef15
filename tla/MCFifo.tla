------------------------------- MODULE MCFifo -------------------------------
(* Fifo on a small instance. *)
EXTENDS Fifo
=============================================================================

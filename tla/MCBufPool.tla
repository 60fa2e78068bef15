----------------------------- MODULE MCBufPool -----------------------------
(* BufPool with two getters, for what its header promises. *)
EXTENDS BufPool
=============================================================================

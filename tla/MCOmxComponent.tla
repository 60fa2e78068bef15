--------------------------- MODULE MCOmxComponent ---------------------------
(* Small instances of the OMX component. *)
EXTENDS OmxComponent
=============================================================================

----------------------------- MODULE MCMediaLoop ----------------------------
(***************************************************************************)
(* The media thread alone, for the run that refutes a comment of it.       *)
(***************************************************************************)
EXTENDS MediaLoop
=============================================================================

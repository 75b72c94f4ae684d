--------------------------- MODULE MCFileTransfer ---------------------------
(***************************************************************************)
(* File transfer alone, on small files and tables.                         *)
(***************************************************************************)
EXTENDS FileTransfer
=============================================================================

--------------------------- MODULE MCProcessTable ---------------------------
(* ProcessTable on tables small enough for TLC. *)
EXTENDS ProcessTable
=============================================================================

------------------------------ MODULE MCStdin -------------------------------
(* Stdin with a few keys and a small buffer. *)
EXTENDS Stdin
=============================================================================

----------------------------- MODULE MCOpenFiles ----------------------------
(* OpenFiles with two processes, one file and frames of two bytes. *)
EXTENDS OpenFiles, TLC

\* The processes are alike, and so are the bytes they write.
Symmetry == Permutations(Process) \cup Permutations(Written)
=============================================================================

------------------------------- MODULE MCHeap -------------------------------
(* A tag is two units, so that a new tag may lie over a part of one of the   *)
(* past; a region is two frames, and there may be two of them.               *)
EXTENDS Heap
=============================================================================

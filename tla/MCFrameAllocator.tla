-------------------------- MODULE MCFrameAllocator --------------------------
(* FrameAllocator on memories small enough for TLC. *)
EXTENDS FrameAllocator
=============================================================================

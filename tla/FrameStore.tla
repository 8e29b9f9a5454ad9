----------------------------- MODULE FrameStore -----------------------------
(***************************************************************************)
(* What the rest of the kernel may expect of the frame allocator           *)
(* (memory.c): blocks of frames are lent out and taken back, and no frame  *)
(* is part of two blocks at a time.                                        *)
(***************************************************************************)
EXTENDS Integers

CONSTANT FRAMES     \* number of page frames

VARIABLE lent       \* the blocks lent out: pairs <<first frame, length>>

Frame == 0 .. FRAMES - 1

\* The frames of a block.
FramesOf(b) == b[1] .. b[1] + b[2] - 1

Lent == UNION {FramesOf(b) : b \in lent}

Lend ==
    \E b \in Frame \X (1 .. FRAMES) :
        /\ FramesOf(b) \subseteq Frame \ Lent
        /\ lent' = lent \cup {b}

\* The kernel gives a block back; the allocator may also keep it for good.
TakeBack == \E b \in lent : lent' = lent \ {b}

Init == lent = {}

Next == Lend \/ TakeBack

Spec == Init /\ [][Next]_lent
=============================================================================

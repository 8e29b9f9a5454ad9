----------------------------- MODULE FileStore ------------------------------
(***************************************************************************)
(* What a program may expect of the files of the kernel: a file is a       *)
(* sequence of bytes; a write puts bytes at a position, which may lie past *)
(* the end, where the gap (of a write of no bytes too) reads as zeros;     *)
(* truncation empties a file; a read gets the bytes from a position on, as *)
(* many as there are.  All this until the machine stops.                   *)
(***************************************************************************)
EXTENDS Integers, Sequences

CONSTANTS
    FileName,
    Zero,           \* the byte 0
    Written,        \* the bytes programs write
    MaxSize         \* bound: length of a file

VARIABLES
    bytes,          \* of each file, its bytes
    answer,         \* what this step's read returned
    stopped         \* the machine has stopped

Least(i, j) == IF i < j THEN i ELSE j

\* s with n bytes b put at position, and zeros in a gap before it.
Patch(s, position, n, b) ==
    [k \in 1 .. (IF position + n > Len(s) THEN position + n ELSE Len(s)) |->
        IF k > position /\ k <= position + n THEN b
        ELSE IF k <= Len(s) THEN s[k] ELSE Zero]

Write(f, position, n, b) ==
    /\ bytes' = [bytes EXCEPT ![f] = Patch(@, position, n, b)]
    /\ answer' = <<>>

Truncate(f) ==
    /\ bytes' = [bytes EXCEPT ![f] = <<>>]
    /\ answer' = <<>>

Read(f, position, n) ==
    /\ answer' = SubSeq(bytes[f], position + 1, Least(position + n, Len(bytes[f])))
    /\ UNCHANGED bytes

\* Anything else, that has nothing to do with the contents.
Other ==
    /\ answer' = <<>>
    /\ UNCHANGED bytes

\* The machine stops in the middle of a call: nobody gets to see what is left.
Stop ==
    /\ stopped' = TRUE
    /\ answer' = <<>>

Init ==
    /\ bytes \in [FileName -> UNION {[1 .. n -> {Zero} \cup Written] : n \in 0 .. MaxSize}]
    /\ answer = <<>>
    /\ stopped = FALSE

Call ==
    \/ \E f \in FileName, position \in 0 .. MaxSize, n \in 0 .. MaxSize, b \in Written :
          Write(f, position, n, b)
    \/ \E f \in FileName : Truncate(f)
    \/ \E f \in FileName, position \in 0 .. MaxSize, n \in 1 .. MaxSize : Read(f, position, n)
    \/ Other

Next ==
    /\ ~ stopped
    /\ Stop \/ (Call /\ UNCHANGED stopped)

Spec == Init /\ [][Next]_<<bytes, answer, stopped>>
=============================================================================

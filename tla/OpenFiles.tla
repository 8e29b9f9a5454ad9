----------------------------- MODULE OpenFiles ------------------------------
(***************************************************************************)
(* Open files: the descriptors of each process (pfds[], usermode.c), and   *)
(* the size, frames and content of the regular files they point at.  Files *)
(* are never removed, so that a descriptor's pointer stays good.  Each     *)
(* system call is one step.  The content of a file is as long as its       *)
(* frames; a frame comes with whatever its last user left in it.           *)
(***************************************************************************)
EXTENDS Integers, Sequences

CONSTANTS
    Process,                \* slots of the process table
    FileName,               \* the names programs use
    MAX_FILE_DESCRIPTORS,   \* 64
    FIRST_FD,               \* 3: stdin, stdout and stderr have no slot
    FRAME_4KB,              \* bytes in a frame
    Zero, Junk,             \* the byte 0, a byte nobody wrote to this file
    Written,                \* the bytes programs write
    MaxSize,                \* bound: the length a write may reach
    OpenFlags,              \* bound: the flags programs call open with
    Initrd,                 \* the files that may be there at boot
    InitrdSize              \* their length

ASSUME DescriptorsAssumption ==
    /\ MAX_FILE_DESCRIPTORS \in Nat \ {0} /\ FIRST_FD \in Nat \ {0}
    /\ FRAME_4KB \in Nat \ {0}
ASSUME BytesAssumption == Zero # Junk /\ Zero \notin Written /\ Junk \notin Written
Directory == "/"

ASSUME FilesAssumption ==
    /\ Directory \notin FileName /\ Initrd \subseteq FileName
    /\ MaxSize \in Nat \ {0} /\ InitrdSize \in 1 .. MaxSize

ASSUME FlagsAssumption ==
    OpenFlags \subseteq SUBSET {"O_RDONLY", "O_WRONLY", "O_DIRECTORY", "O_TRUNC", "O_CREAT"}

Byte  == Written \cup {Zero, Junk}
Slot  == 0 .. MAX_FILE_DESCRIPTORS - 1
Flag  == {"O_RDONLY", "O_WRONLY", "O_DIRECTORY", "O_TRUNC", "O_CREAT"}

\* Frames that hold n bytes.
FramesFor(n) == (n + FRAME_4KB - 1) \div FRAME_4KB

\* The content array can reach that far.
Offset == 0 .. FramesFor(MaxSize) * FRAME_4KB - 1

VARIABLES
    live,       \* the processes that are initialized
    pfds,       \* of each process and slot: [active, flags, pointer, position]
    exists,     \* the files in the tree
    size, frames, content,      \* of each file
    answer,     \* the bytes returned by this step, if it is a read
    past,       \* the accesses of this step that went past the frames of a file
    hung        \* the machine has stopped in the middle of a call

vars == <<live, pfds, exists, size, frames, content, answer, past, hung>>

\* A slot that is not active: the calls modelled here look at nothing else of
\* it, and open fills in every field.
NoPfd == [active |-> FALSE, flags |-> {}, pointer |-> Directory, position |-> 0]

TypeOK ==
    /\ live \subseteq Process
    /\ pfds \in [Process -> [Slot -> [active : BOOLEAN, flags : SUBSET Flag,
                                      pointer : FileName \cup {Directory},
                                      position : 0 .. MaxSize]]]
    /\ exists \subseteq FileName
    /\ size \in [FileName -> 0 .. MaxSize]
    /\ frames \in [FileName -> 0 .. FramesFor(MaxSize)]
    /\ content \in [FileName -> [Offset -> Byte]]
    /\ answer \in Seq(Byte)
    /\ past \subseteq {"read", "write", "clear", "copy"}
    /\ hung \in BOOLEAN

Running(p) == p \in live /\ ~ hung

\* The bytes that the frames of f hold.
Room(f) == frames[f] * FRAME_4KB

\* This access to a file, if it reaches the byte before end of frames that hold
\* room bytes, and goes past them.
Past(access, end, room) == IF end > room THEN {access} ELSE {}

\* The step reads nothing and touches the content of no file.
NoAccess == answer' = <<>> /\ past' = {}

-----------------------------------------------------------------------------
(* SYS_open.                                                               *)

FreeSlots(p) == {s \in Slot : ~ pfds[p][s].active}

\* The first free slot of p gets the descriptor; position and flags are new.
\* Only the flags that later calls look at are kept here.
Install(p, pointer, flags) ==
    \E s \in FreeSlots(p) :
        /\ \A t \in FreeSlots(p) : s <= t
        /\ pfds' = [pfds EXCEPT ![p][s] =
                       [active |-> TRUE, flags |-> flags \ {"O_TRUNC", "O_CREAT"},
                        pointer |-> pointer, position |-> 0]]

\* The flags open accepts.
Legal(flags) ==
    /\ flags \cap {"O_RDONLY", "O_WRONLY"} # {}
    /\ ~ {"O_RDONLY", "O_TRUNC"} \subseteq flags
    /\ "O_DIRECTORY" \in flags => flags \cap {"O_WRONLY", "O_TRUNC"} = {}

\* A directory that is there and may be read.
OpenDirectory(p, flags) ==
    /\ Running(p) /\ Legal(flags) /\ "O_DIRECTORY" \in flags
    /\ Install(p, Directory, flags)
    /\ NoAccess
    /\ UNCHANGED <<live, exists, size, frames, content, hung>>

\* (Mutant: truncation keeps the old bytes.)
TruncatedKept(f) ==
    /\ size' = [size EXCEPT ![f] = 0]
    /\ UNCHANGED content

\* O_TRUNC clears what the file had and keeps its frames.
Truncated(f) ==
    /\ size' = [size EXCEPT ![f] = 0]
    /\ content' = [content EXCEPT ![f] = [k \in Offset |-> IF k < size[f] THEN Zero ELSE @[k]]]

\* A file that is there, or that O_CREAT makes (createFile: no frames yet).
\* The caller may read it, and write it if it asks for O_TRUNC.
OpenFile(p, f, flags) ==
    /\ Running(p) /\ Legal(flags) /\ "O_DIRECTORY" \notin flags
    /\ Install(p, f, flags)
    /\ f \in exists \/ "O_CREAT" \in flags
    /\ exists' = exists \cup {f}
    /\ IF "O_TRUNC" \in flags THEN Truncated(f) ELSE UNCHANGED <<size, content>>
    /\ past' = IF "O_TRUNC" \in flags THEN Past("clear", size[f], Room(f)) ELSE {}
    /\ answer' = <<>>
    /\ UNCHANGED <<live, frames, hung>>

\* O_CREAT makes the file before open finds that the caller may not read it.
OpenCreatesOnly(p, f, flags) ==
    /\ Running(p) /\ Legal(flags) /\ "O_DIRECTORY" \notin flags
    /\ FreeSlots(p) # {}
    /\ f \notin exists /\ "O_CREAT" \in flags
    /\ exists' = exists \cup {f}
    /\ NoAccess
    /\ UNCHANGED <<live, pfds, size, frames, content, hung>>

-----------------------------------------------------------------------------
(* SYS_read, SYS_write and SYS_close of a descriptor.                      *)

\* The slot of fd, if getProcessPfd finds one.
SlotOf(fd) == fd - FIRST_FD

\* fd is open, on a file, for what the flag says.
OpenFor(p, fd, flag) ==
    LET pfd == pfds[p][SlotOf(fd)] IN
    /\ Running(p) /\ SlotOf(fd) \in Slot
    /\ pfd.active /\ "O_DIRECTORY" \notin pfd.flags /\ flag \in pfd.flags

\* (Mutant: a read is not cut at the end of the file.)
ReadableAll(f, position, count) == IF position >= size[f] THEN 0 ELSE count

\* How much of count there is to read from position on.
Readable(f, position, count) ==
    IF position >= size[f] THEN 0
    ELSE IF size[f] - position < count THEN size[f] - position ELSE count

ReadProcessFd(p, fd, count) ==
    LET pfd == pfds[p][SlotOf(fd)]
        n   == Readable(pfd.pointer, pfd.position, count)
    IN
    /\ OpenFor(p, fd, "O_RDONLY")
    /\ answer' = [k \in 1 .. n |-> content[pfd.pointer][pfd.position + k - 1]]
    /\ past' = IF n > 0 THEN Past("read", pfd.position + n, Room(pfd.pointer)) ELSE {}
    /\ pfds' = [pfds EXCEPT ![p][SlotOf(fd)].position = @ + n]
    /\ UNCHANGED <<live, exists, size, frames, content, hung>>

\* (Mutant: the file gets new frames only when the old ones overflow by more
\* than a byte.)
FullLate(f, end) == end > Room(f) + 1

\* A write that ends here gets the file new frames.
Full(f, end) == end >= Room(f)

NewSize(f, end) == IF end > size[f] THEN end ELSE size[f]

\* The content after count bytes b at position.  With new frames, as many bytes
\* as the size has been raised to are copied first: those past the old frames
\* are whatever is in memory behind them.
Rewritten(f, position, count, b) ==
    [k \in Offset |->
        IF position <= k /\ k < position + count THEN b
        ELSE IF k < Room(f) /\ (Full(f, position + count) => k < position + count)
        THEN content[f][k]
        ELSE Junk]

\* The copy, if the file had frames: it is as long as the size already raised.
Copied(f, end) ==
    IF Full(f, end) /\ frames[f] > 0 THEN Past("copy", NewSize(f, end), Room(f)) ELSE {}

WriteProcessFd(p, fd, count, b) ==
    LET pfd == pfds[p][SlotOf(fd)]
        f   == pfd.pointer
        end == pfd.position + count
        n   == IF Full(f, end) THEN FramesFor(NewSize(f, end)) ELSE frames[f]
    IN
    /\ OpenFor(p, fd, "O_WRONLY")
    /\ end <= MaxSize
    /\ Full(f, end) => n > 0
    /\ size' = [size EXCEPT ![f] = NewSize(f, end)]
    /\ frames' = [frames EXCEPT ![f] = n]
    /\ content' = [content EXCEPT ![f] = Rewritten(f, pfd.position, count, b)]
    /\ past' = Copied(f, end) \cup Past("write", end, n * FRAME_4KB)
    /\ pfds' = [pfds EXCEPT ![p][SlotOf(fd)].position = end]
    /\ answer' = <<>>
    /\ UNCHANGED <<live, exists, hung>>

\* The size is raised, and the machine stops: kalloc_frames loops when it is
\* asked for none and aborts when there are none left; or the copy gets to a
\* page behind the old frames that is not mapped, and the exception handler
\* halts.
WriteStops(p, fd, count) ==
    LET pfd == pfds[p][SlotOf(fd)]
        f   == pfd.pointer
        end == pfd.position + count
    IN
    /\ OpenFor(p, fd, "O_WRONLY")
    /\ end <= MaxSize
    /\ Full(f, end)
    /\ size' = [size EXCEPT ![f] = NewSize(f, end)]
    /\ past' \in {{}, Copied(f, end)}
    /\ answer' = <<>>
    /\ hung' = TRUE
    /\ UNCHANGED <<live, pfds, exists, frames, content>>

\* closeProcessFd: the descriptor is looked up in its slot, and the slot whose
\* index is fd itself is closed.  Behind the last slot that is a byte of
\* children[], which is not part of this module.
CloseProcessFd(p, fd) ==
    /\ Running(p)
    /\ SlotOf(fd) \in Slot /\ pfds[p][SlotOf(fd)].active
    /\ pfds' = IF fd \in Slot THEN [pfds EXCEPT ![p][fd] = NoPfd] ELSE pfds
    /\ NoAccess
    /\ UNCHANGED <<live, exists, size, frames, content, hung>>

-----------------------------------------------------------------------------
(* What processes do to their descriptors as a whole.                      *)

\* forkProcess: a copy, positions included.
Fork(p, child) ==
    /\ Running(p) /\ child \notin live
    /\ live' = live \cup {child}
    /\ pfds' = [pfds EXCEPT ![child] = pfds[p]]
    /\ NoAccess
    /\ UNCHANGED <<exists, size, frames, content, hung>>

\* overwriteArgs: none is left.
Execvp(p) ==
    /\ Running(p)
    /\ pfds' = [pfds EXCEPT ![p] = [s \in Slot |-> NoPfd]]
    /\ NoAccess
    /\ UNCHANGED <<live, exists, size, frames, content, hung>>

\* terminateProcess.  What it leaves in the slot nobody looks at: the next fork
\* into the slot overwrites it.
Exit(p) ==
    /\ Running(p) /\ live # {p}
    /\ live' = live \ {p}
    /\ pfds' = [pfds EXCEPT ![p] = [s \in Slot |-> NoPfd]]
    /\ NoAccess
    /\ UNCHANGED <<exists, size, frames, content, hung>>

Stopped == hung /\ UNCHANGED vars

-----------------------------------------------------------------------------

\* loadInitrd: the files of the archive, in frames of their own; the archive
\* may have any of the files Initrd.
Init ==
    /\ \E p \in Process : live = {p}
    /\ pfds = [p \in Process |-> [s \in Slot |-> NoPfd]]
    /\ exists \in SUBSET Initrd
    /\ size = [f \in FileName |-> IF f \in exists THEN InitrdSize ELSE 0]
    /\ frames = [f \in FileName |-> FramesFor(size[f])]
    /\ \E b \in Written :
          content = [f \in FileName |-> [k \in Offset |-> IF k < size[f] THEN b ELSE Junk]]
    /\ answer = <<>>
    /\ past = {}
    /\ hung = FALSE

Next ==
    \/ \E p \in Process, flags \in OpenFlags :
          \/ OpenDirectory(p, flags)
          \/ \E f \in FileName : OpenFile(p, f, flags) \/ OpenCreatesOnly(p, f, flags)
    \/ \E p \in Process, fd \in 0 .. MAX_FILE_DESCRIPTORS + FIRST_FD :
          \/ \E count \in 0 .. MaxSize :
                \/ ReadProcessFd(p, fd, count)
                \/ \E b \in Written : WriteProcessFd(p, fd, count, b)
                \/ WriteStops(p, fd, count)
          \/ CloseProcessFd(p, fd)
    \/ \E p, q \in Process : Fork(p, q)
    \/ \E p \in Process : Execvp(p) \/ Exit(p)
    \/ Stopped

Spec == Init /\ [][Next]_vars

-----------------------------------------------------------------------------
(* Properties.                                                             *)

\* Whatever descriptors share a file, and wherever they stand when one of
\* them truncates it: no bytes that a program reads or writes, and none that a
\* truncation clears, lie past the frames of the file; only the copy into new
\* frames reads past the old ones (usermode.c:1643).  As long as the machine
\* runs, sizes and positions are within the frames, which is what the next call
\* relies on; and the variables keep their types.
ContentInFrames ==
    /\ TypeOK
    /\ past \subseteq {"copy"}
    /\ ~ hung =>
          /\ \A f \in FileName : size[f] <= Room(f)
          /\ \A p \in live, s \in Slot :
                LET pfd == pfds[p][s] IN
                pfd.active /\ pfd.pointer # Directory => pfd.position <= Room(pfd.pointer)

\* The files are sequences of bytes, until the machine stops: growing a file
\* keeps what was in it, a read gets what was written, and neither shows what
\* another use of a frame left there, nor what the copy read past the frames.
Files == INSTANCE FileStore WITH
    bytes <- [f \in FileName |-> [k \in 1 .. size[f] |-> content[f][k - 1]]],
    stopped <- hung
ImplementsFiles == Files!Spec
=============================================================================

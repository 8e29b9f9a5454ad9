--------------------------- MODULE OpenFilesProofs --------------------------
(***************************************************************************)
(* Theorems about OpenFiles, for any number of processes, descriptors and  *)
(* files, and frames of any size: no access but the copy of a growing file *)
(* leaves the frames of a file, and the files behave as the sequences of   *)
(* bytes of FileStore.                                                     *)
(***************************************************************************)
EXTENDS OpenFiles, SequenceTheorems, TLAPS

Descriptor ==
    [active : BOOLEAN, flags : SUBSET Flag, pointer : FileName \cup {Directory},
     position : 0 .. MaxSize]

\* An open descriptor d, when the files have sizes z, frames n and contents c:
\* it is on a file or says so, it stands within the frames of the file, and
\* between the end of the file and where it stands there are zeros.
Sound(d, z, n, c) ==
    /\ d.active /\ "O_DIRECTORY" \notin d.flags => d.pointer \in FileName
    /\ d.active /\ d.pointer # Directory =>
          /\ d.position <= n[d.pointer] * FRAME_4KB
          /\ \A k \in Offset : z[d.pointer] <= k /\ k < d.position => c[d.pointer][k] = Zero

Descriptors == \A p \in Process, s \in Slot : Sound(pfds[p][s], size, frames, content)

SizesInFrames == \A f \in FileName : size[f] <= frames[f] * FRAME_4KB

Accesses == past \subseteq {"copy"}

\* While the machine runs.
IInv == TypeOK /\ Accesses /\ SizesInFrames /\ Descriptors

\* In every state: when the machine has stopped, a size may have been raised for
\* nothing.
Inv == TypeOK /\ Accesses /\ (~ hung => IInv)

-----------------------------------------------------------------------------
(* Facts about frames.                                                     *)

LEMMA TimesMonotone ==
    ASSUME NEW a \in Nat, NEW b \in Nat, NEW c \in Nat, a <= b
    PROVE  a * c \in Nat /\ b * c \in Nat /\ a * c <= b * c
<1>1. b = a + (b - a) /\ b - a \in Nat
  OBVIOUS
<1>2. (b - a) * c \in Nat /\ a * c \in Nat
  BY <1>1
<1>3. b * c = a * c + (b - a) * c
  BY <1>1
<1> QED
  BY <1>2, <1>3

\* FramesFor(n) frames hold n bytes, and one frame less does not.
LEMMA FramesForHolds ==
    ASSUME NEW n \in Nat
    PROVE  /\ FramesFor(n) \in Nat
           /\ n <= FramesFor(n) * FRAME_4KB
           /\ FramesFor(n) * FRAME_4KB < n + FRAME_4KB
<1>1. FRAME_4KB \in Nat \ {0}
  BY DescriptorsAssumption
<1>2. ASSUME NEW m \in Nat
      PROVE  /\ m \div FRAME_4KB \in Nat
             /\ (m \div FRAME_4KB) * FRAME_4KB <= m
             /\ m < (m \div FRAME_4KB) * FRAME_4KB + FRAME_4KB
  BY <1>1
<1>3. n + FRAME_4KB - 1 \in Nat
  BY <1>1
<1>4. FramesFor(n) \in Nat /\ FramesFor(n) * FRAME_4KB \in Nat
  BY <1>1, <1>2, <1>3, TimesMonotone DEF FramesFor
<1> QED
  BY <1>1, <1>2, <1>3, <1>4 DEF FramesFor

LEMMA FramesForMonotone ==
    ASSUME NEW a \in Nat, NEW b \in Nat, a <= b
    PROVE  FramesFor(a) <= FramesFor(b)
<1>1. FRAME_4KB \in Nat \ {0}
  BY DescriptorsAssumption
<1>2. FramesFor(a) \in Nat /\ FramesFor(b) \in Nat
  BY FramesForHolds
<1>3. FramesFor(a) * FRAME_4KB < a + FRAME_4KB /\ b <= FramesFor(b) * FRAME_4KB
  BY FramesForHolds
<1>4. ASSUME FramesFor(b) + 1 <= FramesFor(a) PROVE FALSE
  <2>1. (FramesFor(b) + 1) * FRAME_4KB <= FramesFor(a) * FRAME_4KB
    BY <1>1, <1>2, <1>4, TimesMonotone
  <2>2. (FramesFor(b) + 1) * FRAME_4KB = FramesFor(b) * FRAME_4KB + FRAME_4KB
    BY <1>1, <1>2
  <2>3. FramesFor(a) * FRAME_4KB \in Nat /\ FramesFor(b) * FRAME_4KB \in Nat
    BY <1>1, <1>2, TimesMonotone
  <2> QED
    BY <1>1, <1>3, <2>1, <2>2, <2>3
<1> QED
  BY <1>2, <1>4

\* The frames of a file and the size it may have.
LEMMA SizesFit ==
    /\ MaxSize \in Nat /\ FRAME_4KB \in Nat \ {0} /\ FramesFor(MaxSize) \in Nat
    /\ \A n \in 0 .. MaxSize : FramesFor(n) \in 0 .. FramesFor(MaxSize)
    /\ \A n \in 0 .. FramesFor(MaxSize) :
          n * FRAME_4KB \in Nat /\ n * FRAME_4KB <= FramesFor(MaxSize) * FRAME_4KB
<1>1. MaxSize \in Nat /\ FRAME_4KB \in Nat \ {0}
  BY DescriptorsAssumption, FilesAssumption
<1>2. FramesFor(MaxSize) \in Nat
  BY <1>1, FramesForHolds
<1>3. ASSUME NEW n \in 0 .. MaxSize PROVE FramesFor(n) \in 0 .. FramesFor(MaxSize)
  <2>1. n \in Nat /\ n <= MaxSize
    BY <1>1
  <2>2. FramesFor(n) \in Nat /\ FramesFor(n) <= FramesFor(MaxSize)
    BY <1>1, <2>1, FramesForHolds, FramesForMonotone
  <2> QED
    BY <1>2, <2>2
<1>4. ASSUME NEW n \in 0 .. FramesFor(MaxSize)
      PROVE  n * FRAME_4KB \in Nat /\ n * FRAME_4KB <= FramesFor(MaxSize) * FRAME_4KB
  BY <1>1, <1>2, TimesMonotone
<1> QED
  BY <1>1, <1>2, <1>3, <1>4

-----------------------------------------------------------------------------
(* Facts about descriptors.                                                *)

\* Changing a slot of a process leaves the others as they are.
LEMMA SlotChanged ==
    ASSUME NEW a \in [Process -> [Slot -> Descriptor]],
           NEW p \in Process, NEW s \in Slot, NEW d \in Descriptor
    PROVE  /\ [a EXCEPT ![p][s] = d] \in [Process -> [Slot -> Descriptor]]
           /\ \A q \in Process, t \in Slot :
                 [a EXCEPT ![p][s] = d][q][t] = IF q = p /\ t = s THEN d ELSE a[q][t]
OBVIOUS

LEMMA TypeOfDescriptors == TypeOK => pfds \in [Process -> [Slot -> Descriptor]]
BY DEF TypeOK, Descriptor

LEMMA NoPfdSound ==
    /\ NoPfd \in Descriptor
    /\ \A z, n, c : Sound(NoPfd, z, n, c)
<1>1. MaxSize \in Nat
  BY SizesFit
<1> QED
  BY <1>1 DEF NoPfd, Descriptor, Sound

-----------------------------------------------------------------------------
(* The invariant.                                                          *)

LEMMA InitIInv == Init => IInv
<1> SUFFICES ASSUME Init PROVE IInv
  OBVIOUS
<1>1. size \in [FileName -> 0 .. MaxSize]
  BY FilesAssumption DEF Init
<1>2. frames \in [FileName -> 0 .. FramesFor(MaxSize)]
  BY <1>1, SizesFit DEF Init
<1>3. content \in [FileName -> [Offset -> Byte]]
  BY DEF Init, Byte
<1>4. pfds \in [Process -> [Slot -> Descriptor]]
  BY NoPfdSound DEF Init
<1>5. TypeOK
  <2>1. live \subseteq Process /\ exists \subseteq FileName /\ answer \in Seq(Byte)
        /\ hung \in BOOLEAN /\ past = {}
    <3>1. live \subseteq Process
      BY DEF Init
    <3>2. <<>> \in Seq(Byte)
      OBVIOUS
    <3> QED
      BY <3>1, <3>2, FilesAssumption DEF Init
  <2> QED
    BY <1>1, <1>2, <1>3, <1>4, <2>1 DEF TypeOK, Descriptor
<1>6. SizesInFrames
  <2> SUFFICES ASSUME NEW f \in FileName PROVE size[f] <= FramesFor(size[f]) * FRAME_4KB
    BY DEF SizesInFrames, Init
  <2>1. size[f] \in Nat
    BY <1>1, SizesFit
  <2> QED
    BY <2>1, FramesForHolds
<1>7. Descriptors
  BY NoPfdSound DEF Init, Descriptors
<1>8. Accesses
  BY DEF Init, Accesses
<1> QED
  BY <1>5, <1>6, <1>7, <1>8 DEF IInv

\* A step that leaves the files alone, and where every descriptor is closed or
\* as sound as before.
LEMMA FilesKept ==
    ASSUME IInv, UNCHANGED <<size, frames, content>>,
           pfds' \in [Process -> [Slot -> Descriptor]],
           \A p \in Process, s \in Slot : Sound(pfds'[p][s], size, frames, content)
    PROVE  SizesInFrames' /\ Descriptors'
BY DEF IInv, SizesInFrames, Descriptors

\* What open puts in a slot.
Opened(pointer, flags) ==
    [active |-> TRUE, flags |-> flags \ {"O_TRUNC", "O_CREAT"}, pointer |-> pointer,
     position |-> 0]

LEMMA OpenedSound ==
    ASSUME NEW pointer \in FileName \cup {Directory}, NEW flags \in SUBSET Flag,
           "O_DIRECTORY" \notin flags => pointer \in FileName,
           NEW z, NEW n \in [FileName -> 0 .. FramesFor(MaxSize)], NEW c
    PROVE  Opened(pointer, flags) \in Descriptor /\ Sound(Opened(pointer, flags), z, n, c)
<1> DEFINE d == Opened(pointer, flags)
<1>1. /\ d.active /\ d.pointer = pointer /\ d.position = 0
      /\ d.flags = flags \ {"O_TRUNC", "O_CREAT"}
  BY DEF Opened
<1>2. d \in Descriptor
  BY SizesFit DEF Opened, Descriptor
<1>3. "O_DIRECTORY" \notin d.flags => d.pointer \in FileName
  BY <1>1
<1>4. ASSUME pointer # Directory
      PROVE  /\ 0 <= n[pointer] * FRAME_4KB
             /\ \A k \in Offset : z[pointer] <= k /\ k < 0 => c[pointer][k] = Zero
  <2>1. n[pointer] * FRAME_4KB \in Nat
    BY <1>4, SizesFit
  <2>2. \A k \in Offset : ~ k < 0
    BY SizesFit DEF Offset
  <2> QED
    BY <2>1, <2>2
<1> HIDE DEF d
<1>5. Sound(d, z, n, c)
  BY <1>1, <1>3, <1>4 DEF Sound
<1> QED
  BY <1>2, <1>5 DEF d

\* open: the new descriptor is in one slot, the others are as they were.
LEMMA InstallSound ==
    ASSUME TypeOK, NEW p \in Process, NEW pointer \in FileName \cup {Directory},
           NEW flags \in SUBSET Flag, "O_DIRECTORY" \notin flags => pointer \in FileName,
           Install(p, pointer, flags),
           NEW z, NEW n \in [FileName -> 0 .. FramesFor(MaxSize)], NEW c,
           \A q \in Process, t \in Slot : Sound(pfds[q][t], z, n, c)
    PROVE  /\ pfds' \in [Process -> [Slot -> Descriptor]]
           /\ \A q \in Process, t \in Slot : Sound(pfds'[q][t], z, n, c)
<1>1. PICK s \in Slot : pfds' = [pfds EXCEPT ![p][s] = Opened(pointer, flags)]
  BY DEF Install, FreeSlots, Opened
<1>2. pfds \in [Process -> [Slot -> Descriptor]]
  BY TypeOfDescriptors
<1>3. Opened(pointer, flags) \in Descriptor /\ Sound(Opened(pointer, flags), z, n, c)
  BY OpenedSound
<1>4. /\ pfds' \in [Process -> [Slot -> Descriptor]]
      /\ \A q \in Process, t \in Slot :
            pfds'[q][t] = IF q = p /\ t = s THEN Opened(pointer, flags) ELSE pfds[q][t]
  BY <1>1, <1>2, <1>3, SlotChanged
<1> QED
  BY <1>3, <1>4

LEMMA OpenDirectoryIInv ==
    ASSUME IInv, NEW p \in Process, NEW flags \in OpenFlags, OpenDirectory(p, flags) PROVE IInv'
<1>1. flags \in SUBSET Flag
  BY FlagsAssumption DEF Flag
<1>2. TypeOK /\ frames \in [FileName -> 0 .. FramesFor(MaxSize)]
  BY DEF IInv, TypeOK
<1>3. \A q \in Process, t \in Slot : Sound(pfds[q][t], size, frames, content)
  BY DEF IInv, Descriptors
<1>4. /\ pfds' \in [Process -> [Slot -> Descriptor]]
      /\ \A q \in Process, t \in Slot : Sound(pfds'[q][t], size, frames, content)
  BY <1>1, <1>2, <1>3, InstallSound DEF OpenDirectory
<1>5. TypeOK' /\ Accesses'
  <2>1. answer' \in Seq(Byte) /\ past' = {}
    BY DEF OpenDirectory, NoAccess
  <2> QED
    BY <1>2, <1>4, <2>1 DEF TypeOK, Accesses, Descriptor, OpenDirectory
<1> QED
  BY <1>4, <1>5, FilesKept DEF IInv, OpenDirectory

\* Truncation leaves zeros below wherever another descriptor stands.
LEMMA TruncatedIInv ==
    ASSUME IInv, NEW f \in FileName, Truncated(f)
    PROVE  /\ size' \in [FileName -> 0 .. MaxSize] /\ content' \in [FileName -> [Offset -> Byte]]
           /\ \A g \in FileName : size'[g] <= frames[g] * FRAME_4KB
           /\ \A p \in Process, s \in Slot : Sound(pfds[p][s], size', frames, content')
<1>1. /\ size \in [FileName -> 0 .. MaxSize] /\ content \in [FileName -> [Offset -> Byte]]
      /\ frames \in [FileName -> 0 .. FramesFor(MaxSize)]
      /\ pfds \in [Process -> [Slot -> Descriptor]]
  BY TypeOfDescriptors DEF IInv, TypeOK
<1>2. /\ size' = [size EXCEPT ![f] = 0] /\ size' \in [FileName -> 0 .. MaxSize]
  BY <1>1, SizesFit DEF Truncated
<1>3. /\ \A k \in Offset : content'[f][k] = IF k < size[f] THEN Zero ELSE content[f][k]
      /\ \A g \in FileName : g # f => content'[g] = content[g]
  BY <1>1 DEF Truncated
<1>4. content' \in [FileName -> [Offset -> Byte]]
  BY <1>1 DEF Truncated, Byte
<1>5. ASSUME NEW g \in FileName PROVE size'[g] <= frames[g] * FRAME_4KB
  <2>1. frames[g] * FRAME_4KB \in Nat /\ size[g] <= frames[g] * FRAME_4KB
    BY <1>1, SizesFit DEF IInv, SizesInFrames
  <2> QED
    BY <1>1, <1>2, <2>1
<1>6. ASSUME NEW o \in Descriptor, Sound(o, size, frames, content)
      PROVE  Sound(o, size', frames, content')
  <2>1. CASE o.active /\ o.pointer = f
    <3>1. /\ o.pointer \in FileName /\ o.pointer # Directory
          /\ o.position <= frames[f] * FRAME_4KB
          /\ \A k \in Offset : size[f] <= k /\ k < o.position => content[f][k] = Zero
      BY <1>6, <2>1, FilesAssumption DEF Sound
    <3>2. ASSUME NEW k \in Offset, k < o.position PROVE content'[f][k] = Zero
      <4>1. size[f] \in Nat /\ k \in Nat
        BY <1>1, SizesFit DEF Offset
      <4>2. k < size[f] \/ size[f] <= k
        BY <4>1
      <4> QED
        BY <1>3, <3>1, <3>2, <4>2
    <3> QED
      BY <2>1, <3>1, <3>2 DEF Sound
  <2>2. CASE o.active /\ o.pointer # f /\ o.pointer # Directory
    <3>1. o.pointer \in FileName
      BY <2>2 DEF Descriptor
    <3>2. size'[o.pointer] = size[o.pointer] /\ content'[o.pointer] = content[o.pointer]
      BY <1>1, <1>2, <1>3, <2>2, <3>1
    <3> QED
      BY <1>6, <3>2 DEF Sound
  <2>3. CASE ~ o.active \/ o.pointer = Directory
    BY <1>6, <2>3 DEF Sound
  <2> QED
    BY <2>1, <2>2, <2>3
<1>7. \A p \in Process, s \in Slot : Sound(pfds[p][s], size', frames, content')
  BY <1>1, <1>6 DEF IInv, Descriptors
<1> QED
  BY <1>2, <1>4, <1>5, <1>7

LEMMA OpenFileIInv ==
    ASSUME IInv, NEW p \in Process, NEW f \in FileName, NEW flags \in OpenFlags,
           OpenFile(p, f, flags)
    PROVE  IInv'
<1>1. flags \in SUBSET Flag
  BY FlagsAssumption DEF Flag
<1>2. TypeOK /\ frames \in [FileName -> 0 .. FramesFor(MaxSize)] /\ frames' = frames
  BY DEF IInv, TypeOK, OpenFile
<1>3. /\ size' \in [FileName -> 0 .. MaxSize] /\ content' \in [FileName -> [Offset -> Byte]]
      /\ \A g \in FileName : size'[g] <= frames[g] * FRAME_4KB
      /\ \A q \in Process, t \in Slot : Sound(pfds[q][t], size', frames, content')
  <2>1. CASE "O_TRUNC" \in flags
    <3>1. Truncated(f)
      BY <2>1 DEF OpenFile
    <3> QED
      BY <3>1, TruncatedIInv
  <2>2. CASE "O_TRUNC" \notin flags
    BY <2>2 DEF OpenFile, IInv, TypeOK, SizesInFrames, Descriptors
  <2> QED
    BY <2>1, <2>2
<1>4. /\ pfds' \in [Process -> [Slot -> Descriptor]]
      /\ \A q \in Process, t \in Slot : Sound(pfds'[q][t], size', frames, content')
  <2>1. Install(p, f, flags)
    BY DEF OpenFile
  <2> QED
    BY <1>1, <1>2, <1>3, <2>1, InstallSound
<1>5. past' = {}
  <2>1. size[f] <= Room(f) /\ size[f] \in Nat /\ Room(f) \in Nat
    BY <1>2, SizesFit DEF IInv, TypeOK, SizesInFrames, Room
  <2> QED
    BY <2>1 DEF OpenFile, Past
<1>6. TypeOK' /\ Accesses'
  <2>1. answer' \in Seq(Byte) /\ exists' \subseteq FileName /\ live' = live /\ hung' = hung
    BY <1>2 DEF OpenFile, TypeOK
  <2> QED
    BY <1>2, <1>3, <1>4, <1>5, <2>1 DEF TypeOK, Accesses, Descriptor
<1> QED
  BY <1>2, <1>3, <1>4, <1>6 DEF IInv, SizesInFrames, Descriptors

LEMMA OpenCreatesOnlyIInv ==
    ASSUME IInv, NEW p \in Process, NEW f \in FileName, NEW flags \in OpenFlags,
           OpenCreatesOnly(p, f, flags)
    PROVE  IInv'
<1>1. answer' \in Seq(Byte) /\ past' = {}
  BY DEF OpenCreatesOnly, NoAccess
<1> QED
  BY <1>1 DEF IInv, TypeOK, Accesses, SizesInFrames, Descriptors, OpenCreatesOnly

\* What a process does to its descriptors as a whole, and close.
LEMMA CloseProcessFdIInv ==
    ASSUME IInv, NEW p \in Process, NEW fd \in Int, CloseProcessFd(p, fd) PROVE IInv'
<1>1. pfds \in [Process -> [Slot -> Descriptor]]
  BY TypeOfDescriptors DEF IInv
<1>2. \A q \in Process, t \in Slot : Sound(pfds[q][t], size, frames, content)
  BY DEF IInv, Descriptors
<1>3. /\ pfds' \in [Process -> [Slot -> Descriptor]]
      /\ \A q \in Process, t \in Slot : Sound(pfds'[q][t], size, frames, content)
  <2>1. CASE fd \in Slot
    <3>1. pfds' = [pfds EXCEPT ![p][fd] = NoPfd]
      BY <2>1 DEF CloseProcessFd
    <3>2. /\ pfds' \in [Process -> [Slot -> Descriptor]]
          /\ \A q \in Process, t \in Slot :
                pfds'[q][t] = IF q = p /\ t = fd THEN NoPfd ELSE pfds[q][t]
      BY <1>1, <2>1, <3>1, SlotChanged, NoPfdSound
    <3> QED
      BY <1>2, <3>2, NoPfdSound
  <2>2. CASE fd \notin Slot
    BY <1>1, <1>2, <2>2 DEF CloseProcessFd
  <2> QED
    BY <2>1, <2>2
<1>4. TypeOK' /\ Accesses'
  <2>1. answer' \in Seq(Byte) /\ past' = {}
    BY DEF CloseProcessFd, NoAccess
  <2> QED
    BY <1>3, <2>1 DEF IInv, TypeOK, Accesses, Descriptor, CloseProcessFd
<1> QED
  BY <1>3, <1>4, FilesKept DEF IInv, CloseProcessFd

LEMMA ProcessIInv ==
    ASSUME IInv, NEW p \in Process, NEW q \in Process, Fork(p, q) \/ Execvp(p) \/ Exit(p)
    PROVE  IInv'
<1>1. pfds \in [Process -> [Slot -> Descriptor]]
  BY TypeOfDescriptors DEF IInv
<1>2. \A r \in Process, t \in Slot : Sound(pfds[r][t], size, frames, content)
  BY DEF IInv, Descriptors
<1>3. [s \in Slot |-> NoPfd] \in [Slot -> Descriptor]
  BY NoPfdSound
<1>4. \/ pfds' = [pfds EXCEPT ![q] = pfds[p]]
      \/ pfds' = [pfds EXCEPT ![p] = [s \in Slot |-> NoPfd]]
  BY DEF Fork, Execvp, Exit
<1>5. /\ pfds' \in [Process -> [Slot -> Descriptor]]
      /\ \A r \in Process, t \in Slot : Sound(pfds'[r][t], size, frames, content)
  BY <1>1, <1>2, <1>3, <1>4, NoPfdSound
<1>6. /\ UNCHANGED <<exists, size, frames, content, hung>>
      /\ live' \subseteq Process /\ answer' \in Seq(Byte) /\ past' = {}
  <2>1. <<>> \in Seq(Byte)
    OBVIOUS
  <2>2. live \subseteq Process
    BY DEF IInv, TypeOK
  <2> QED
    BY <2>1, <2>2 DEF Fork, Execvp, Exit, NoAccess
<1>7. TypeOK' /\ Accesses'
  BY <1>5, <1>6 DEF IInv, TypeOK, Accesses, Descriptor
<1> QED
  BY <1>5, <1>6, <1>7, FilesKept DEF IInv

-----------------------------------------------------------------------------
(* Reading and writing.                                                    *)

\* The descriptor of a read or write, the file it is on, and where it stands.
LEMMA OpenForFile ==
    ASSUME IInv, NEW p \in Process, NEW fd \in Int, NEW flag, OpenFor(p, fd, flag)
    PROVE  LET o == pfds[p][SlotOf(fd)] IN
           /\ SlotOf(fd) \in Slot /\ o \in Descriptor /\ o.active
           /\ o.pointer \in FileName /\ o.pointer # Directory
           /\ o.position \in 0 .. MaxSize
           /\ o.position <= frames[o.pointer] * FRAME_4KB
           /\ \A k \in Offset :
                 size[o.pointer] <= k /\ k < o.position => content[o.pointer][k] = Zero
<1> DEFINE o == pfds[p][SlotOf(fd)]
<1>1. SlotOf(fd) \in Slot /\ o.active /\ "O_DIRECTORY" \notin o.flags
  BY DEF OpenFor
<1>2. o \in Descriptor /\ Sound(o, size, frames, content)
  BY <1>1, TypeOfDescriptors DEF IInv, Descriptors
<1>3. o.pointer \in FileName
  BY <1>1, <1>2 DEF Sound
<1>4. o.pointer # Directory
  BY <1>3, FilesAssumption
<1>5. /\ o.position <= frames[o.pointer] * FRAME_4KB
      /\ \A k \in Offset :
            size[o.pointer] <= k /\ k < o.position => content[o.pointer][k] = Zero
  BY <1>1, <1>2, <1>4 DEF Sound
<1> QED
  BY <1>1, <1>2, <1>3, <1>4, <1>5 DEF Descriptor

\* Moving a descriptor on.
Moved(o, n) == [o EXCEPT !.position = n]

LEMMA MovedType ==
    ASSUME NEW o \in Descriptor, NEW n \in 0 .. MaxSize
    PROVE  /\ Moved(o, n) \in Descriptor /\ Moved(o, n).position = n
           /\ Moved(o, n).pointer = o.pointer /\ Moved(o, n).flags = o.flags
           /\ Moved(o, n).active = o.active
BY DEF Descriptor, Moved

\* A read stays within the file, and no read is longer.
LEMMA ReadableFits ==
    ASSUME NEW f \in FileName, size[f] \in 0 .. MaxSize, NEW position \in 0 .. MaxSize,
           NEW count \in 0 .. MaxSize
    PROVE  LET n == Readable(f, position, count) IN
           /\ n \in 0 .. count
           /\ n # 0 => position + n <= size[f]
           /\ position + n \in 0 .. MaxSize
BY SizesFit DEF Readable

LEMMA ReadIInv ==
    ASSUME IInv, NEW p \in Process, NEW fd \in Int, NEW count \in 0 .. MaxSize,
           ReadProcessFd(p, fd, count)
    PROVE  IInv'
<1> DEFINE s == SlotOf(fd)
           o == pfds[p][s]
           f == o.pointer
           n == Readable(f, o.position, count)
<1>1. /\ s \in Slot /\ o \in Descriptor /\ o.active
      /\ f \in FileName /\ f # Directory
      /\ o.position \in 0 .. MaxSize
      /\ o.position <= frames[f] * FRAME_4KB
      /\ \A k \in Offset : size[f] <= k /\ k < o.position => content[f][k] = Zero
  BY OpenForFile DEF ReadProcessFd
<1>2. /\ size \in [FileName -> 0 .. MaxSize] /\ content \in [FileName -> [Offset -> Byte]]
      /\ frames \in [FileName -> 0 .. FramesFor(MaxSize)]
      /\ pfds \in [Process -> [Slot -> Descriptor]]
  BY TypeOfDescriptors DEF IInv, TypeOK
<1>3. n \in 0 .. count /\ (n # 0 => o.position + n <= size[f]) /\ o.position + n \in 0 .. MaxSize
  BY <1>1, <1>2, ReadableFits
<1>4. /\ answer' = [k \in 1 .. n |-> content[f][o.position + k - 1]]
      /\ pfds' = [pfds EXCEPT ![p][s].position = o.position + n]
      /\ UNCHANGED <<live, exists, size, frames, content, hung>>
  BY <1>1, <1>2 DEF ReadProcessFd
<1> HIDE DEF n
<1>5. answer' \in Seq(Byte)
  <2>1. ASSUME NEW k \in 1 .. n PROVE content[f][o.position + k - 1] \in Byte
    <3>1. /\ size[f] <= frames[f] * FRAME_4KB /\ frames[f] * FRAME_4KB \in Nat
          /\ frames[f] * FRAME_4KB <= FramesFor(MaxSize) * FRAME_4KB
          /\ FramesFor(MaxSize) * FRAME_4KB \in Nat /\ size[f] \in Nat
      BY <1>1, <1>2, SizesFit DEF IInv, SizesInFrames
    <3>2. o.position + k - 1 < size[f] /\ o.position + k - 1 \in Nat
      BY <1>1, <1>3, <3>1, SizesFit
    <3>3. o.position + k - 1 \in Offset
      BY <3>1, <3>2 DEF Offset
    <3> QED
      BY <1>1, <1>2, <3>3
  <2>2. n \in Nat
    BY <1>3, SizesFit
  <2> QED
    BY <1>4, <2>1, <2>2
<1> DEFINE moved == Moved(o, o.position + n)
<1>6. /\ moved \in Descriptor /\ moved.position = o.position + n /\ moved.pointer = f
      /\ moved.flags = o.flags /\ moved.active = o.active
      /\ pfds' = [pfds EXCEPT ![p][s] = moved]
  <2>1. pfds' = [pfds EXCEPT ![p][s] = moved]
    BY <1>4 DEF Moved
  <2>2. /\ moved \in Descriptor /\ moved.position = o.position + n /\ moved.pointer = f
        /\ moved.flags = o.flags /\ moved.active = o.active
    BY <1>1, <1>3, MovedType
  <2> QED
    BY <2>1, <2>2
<1>7. Sound(moved, size, frames, content)
  <2>1. o.position + n <= frames[f] * FRAME_4KB
    <3>1. /\ size[f] <= frames[f] * FRAME_4KB /\ frames[f] * FRAME_4KB \in Nat
      BY <1>1, <1>2, SizesFit DEF IInv, SizesInFrames
    <3> QED
      BY <1>1, <1>2, <1>3, <3>1
  <2>2. ASSUME NEW k \in Offset, size[f] <= k, k < o.position + n PROVE content[f][k] = Zero
    <3>1. size[f] \in Nat /\ k \in Nat
      <4>1. size[f] \in 0 .. MaxSize
        BY <1>1, <1>2
      <4>2. k \in Nat
        BY <2>2 DEF Offset
      <4> QED
        BY <4>1, <4>2, SizesFit
    <3>2. n = 0
      BY <1>1, <1>3, <2>2, <3>1
    <3>3. k < o.position
      BY <1>1, <2>2, <3>1, <3>2
    <3> QED
      BY <1>1, <2>2, <3>3
  <2> HIDE DEF moved, o, s
  <2> QED
    BY <1>1, <1>6, <2>1, <2>2 DEF Sound, f
<1>8. /\ pfds' \in [Process -> [Slot -> Descriptor]]
      /\ \A q \in Process, t \in Slot : Sound(pfds'[q][t], size, frames, content)
  <2>1. \A q \in Process, t \in Slot : Sound(pfds[q][t], size, frames, content)
    BY DEF IInv, Descriptors
  <2> HIDE DEF moved
  <2>2. /\ pfds' \in [Process -> [Slot -> Descriptor]]
        /\ \A q \in Process, t \in Slot :
              pfds'[q][t] = IF q = p /\ t = s THEN moved ELSE pfds[q][t]
    BY <1>1, <1>2, <1>6, SlotChanged
  <2> QED
    BY <1>7, <2>1, <2>2
<1>9. UNCHANGED <<live, exists, size, frames, content, hung>>
  BY <1>4
<1>10. past' = {}
  <2>1. past' = IF n > 0 THEN Past("read", o.position + n, Room(f)) ELSE {}
    BY <1>1, <1>2 DEF ReadProcessFd, n
  <2>2. n # 0 => o.position + n <= Room(f)
    <3>1. size[f] <= Room(f) /\ size[f] \in Nat /\ Room(f) \in Nat
      BY <1>1, <1>2, SizesFit DEF IInv, SizesInFrames, Room
    <3> QED
      BY <1>1, <1>3, <3>1
  <2>3. /\ n \in Nat /\ o.position + n \in Nat /\ Room(f) \in Nat
    BY <1>1, <1>2, <1>3, SizesFit DEF Room
  <2> HIDE DEF o, f
  <2> QED
    BY <2>1, <2>2, <2>3 DEF Past
<1>11. TypeOK' /\ Accesses'
  BY <1>5, <1>8, <1>9, <1>10 DEF IInv, TypeOK, Accesses, Descriptor
<1> QED
  BY <1>8, <1>9, <1>11, FilesKept DEF IInv

\* A write that ends at end makes room for it, and takes no room away.
LEMMA RoomMade ==
    ASSUME IInv, NEW f \in FileName, NEW end \in 0 .. MaxSize, NEW n,
           n = IF Full(f, end) THEN FramesFor(end) ELSE frames[f]
    PROVE  /\ n \in 0 .. FramesFor(MaxSize) /\ n * FRAME_4KB \in Nat
           /\ frames[f] * FRAME_4KB \in Nat /\ size[f] \in 0 .. MaxSize
           /\ end <= n * FRAME_4KB /\ frames[f] * FRAME_4KB <= n * FRAME_4KB
           /\ size[f] <= frames[f] * FRAME_4KB
           /\ Full(f, end) => frames[f] * FRAME_4KB <= end
           /\ ~ Full(f, end) => end < frames[f] * FRAME_4KB
<1>1. /\ frames[f] \in 0 .. FramesFor(MaxSize) /\ size[f] \in 0 .. MaxSize
      /\ size[f] <= frames[f] * FRAME_4KB
  BY DEF IInv, TypeOK, SizesInFrames
<1>2. n \in 0 .. FramesFor(MaxSize)
  BY <1>1, SizesFit
<1>3. n * FRAME_4KB \in Nat /\ frames[f] * FRAME_4KB \in Nat
  BY <1>1, <1>2, SizesFit
<1>4. end \in Nat
  BY SizesFit
<1>5. CASE Full(f, end)
  <2>1. end <= n * FRAME_4KB
    BY <1>4, <1>5, FramesForHolds
  <2>2. frames[f] * FRAME_4KB <= end
    BY <1>3, <1>4, <1>5 DEF Full, Room
  <2> QED
    BY <1>1, <1>2, <1>3, <1>4, <1>5, <2>1, <2>2
<1>6. CASE ~ Full(f, end)
  <2>1. n = frames[f] /\ end < frames[f] * FRAME_4KB
    BY <1>3, <1>4, <1>6 DEF Full, Room
  <2> QED
    BY <1>1, <1>2, <1>3, <1>4, <1>6, <2>1
<1> QED
  BY <1>5, <1>6

\* What a write does to the files.
LEMMA WrittenSound ==
    ASSUME IInv, NEW f \in FileName, NEW position \in 0 .. MaxSize,
           position <= frames[f] * FRAME_4KB,
           NEW count \in 0 .. MaxSize, position + count <= MaxSize, NEW b \in Written,
           size' = [size EXCEPT ![f] = NewSize(f, position + count)],
           frames' = [frames EXCEPT ![f] = IF Full(f, position + count)
                                           THEN FramesFor(position + count) ELSE @],
           content' = [content EXCEPT ![f] = Rewritten(f, position, count, b)]
    PROVE  /\ size' \in [FileName -> 0 .. MaxSize] /\ content' \in [FileName -> [Offset -> Byte]]
           /\ frames' \in [FileName -> 0 .. FramesFor(MaxSize)]
           /\ SizesInFrames'
           /\ \A o \in Descriptor :
                 Sound(o, size, frames, content) => Sound(o, size', frames', content')
           /\ \A o \in Descriptor :
                 o.pointer = f /\ o.position = position + count => Sound(o, size', frames', content')
<1> DEFINE end == position + count
           n   == IF Full(f, end) THEN FramesFor(end) ELSE frames[f]
<1>1. /\ size \in [FileName -> 0 .. MaxSize] /\ content \in [FileName -> [Offset -> Byte]]
      /\ frames \in [FileName -> 0 .. FramesFor(MaxSize)]
  BY DEF IInv, TypeOK
<1>2. end \in 0 .. MaxSize /\ position <= end
  BY SizesFit
<1>3. /\ n \in 0 .. FramesFor(MaxSize) /\ n * FRAME_4KB \in Nat
      /\ frames[f] * FRAME_4KB \in Nat /\ size[f] \in 0 .. MaxSize
      /\ end <= n * FRAME_4KB /\ frames[f] * FRAME_4KB <= n * FRAME_4KB
      /\ size[f] <= frames[f] * FRAME_4KB
      /\ Full(f, end) => frames[f] * FRAME_4KB <= end
      /\ ~ Full(f, end) => end < frames[f] * FRAME_4KB
  BY <1>2, RoomMade
<1>4. /\ frames' \in [FileName -> 0 .. FramesFor(MaxSize)] /\ frames'[f] = n
      /\ \A g \in FileName : g # f => frames'[g] = frames[g]
  BY <1>1, <1>3
<1>5. /\ NewSize(f, end) \in 0 .. MaxSize
      /\ end <= NewSize(f, end) /\ size[f] <= NewSize(f, end)
      /\ NewSize(f, end) <= n * FRAME_4KB
  BY <1>2, <1>3, SizesFit DEF NewSize
<1>6. /\ size' \in [FileName -> 0 .. MaxSize] /\ size'[f] = NewSize(f, end)
      /\ \A g \in FileName : g # f => size'[g] = size[g]
  BY <1>1, <1>5
<1>7. Rewritten(f, position, count, b) \in [Offset -> Byte]
  <2>1. \A k \in Offset : content[f][k] \in Byte
    BY <1>1
  <2> QED
    BY <2>1 DEF Rewritten, Byte
<1>8. /\ content' \in [FileName -> [Offset -> Byte]]
      /\ content'[f] = Rewritten(f, position, count, b)
      /\ \A g \in FileName : g # f => content'[g] = content[g]
  BY <1>1, <1>7
<1> HIDE DEF end, n
<1>9. SizesInFrames'
  <2>1. ASSUME NEW g \in FileName PROVE size'[g] <= frames'[g] * FRAME_4KB
    <3>1. CASE g = f
      BY <1>4, <1>5, <1>6, <3>1
    <3>2. CASE g # f
      BY <1>4, <1>6, <3>2 DEF IInv, SizesInFrames
    <3> QED
      BY <3>1, <3>2
  <2> QED
    BY <2>1 DEF SizesInFrames
<1>10. ASSUME NEW o \in Descriptor, Sound(o, size, frames, content)
       PROVE  Sound(o, size', frames', content')
  <2>1. CASE o.active /\ o.pointer = f
    <3>1. /\ o.pointer \in FileName /\ o.pointer # Directory
          /\ o.position <= frames[f] * FRAME_4KB /\ o.position \in Nat
          /\ \A k \in Offset : size[f] <= k /\ k < o.position => content[f][k] = Zero
      BY <1>10, <2>1, FilesAssumption, SizesFit DEF Sound, Descriptor
    <3>2. o.position <= frames'[f] * FRAME_4KB
      BY <1>3, <1>4, <3>1
    <3>3. ASSUME NEW k \in Offset, size'[f] <= k, k < o.position
          PROVE  content'[f][k] = Zero
      <4>1. k \in Nat /\ end <= k /\ size[f] <= k /\ k < frames[f] * FRAME_4KB
        BY <1>2, <1>3, <1>5, <1>6, <3>1, <3>3, SizesFit DEF Offset
      <4>2. ~ Full(f, end)
        BY <1>2, <1>3, <4>1
      <4>3. ~ (position <= k /\ k < position + count)
        BY <4>1 DEF end
      <4>4. Rewritten(f, position, count, b)[k] = content[f][k]
        BY <4>1, <4>2, <4>3 DEF Rewritten, Room, end
      <4> QED
        BY <1>8, <3>1, <3>3, <4>1, <4>4
    <3> QED
      BY <2>1, <3>1, <3>2, <3>3 DEF Sound
  <2>2. CASE o.active /\ o.pointer # f /\ o.pointer # Directory
    <3>1. o.pointer \in FileName
      BY <2>2 DEF Descriptor
    <3>2. /\ size'[o.pointer] = size[o.pointer] /\ content'[o.pointer] = content[o.pointer]
          /\ frames'[o.pointer] = frames[o.pointer]
      BY <1>4, <1>6, <1>8, <2>2, <3>1
    <3> QED
      BY <1>10, <3>2 DEF Sound
  <2>3. CASE ~ o.active \/ o.pointer = Directory
    BY <1>10, <2>3 DEF Sound
  <2> QED
    BY <2>1, <2>2, <2>3
<1>11. ASSUME NEW o \in Descriptor, o.pointer = f, o.position = end
       PROVE  Sound(o, size', frames', content')
  <2>1. o.position <= frames'[f] * FRAME_4KB
    BY <1>3, <1>4, <1>11
  <2>2. \A k \in Offset : ~ (size'[f] <= k /\ k < end)
    BY <1>2, <1>5, <1>6, SizesFit DEF Offset
  <2> QED
    BY <1>11, <2>1, <2>2 DEF Sound
<1> QED
  BY <1>4, <1>6, <1>8, <1>9, <1>10, <1>11 DEF end

LEMMA WriteIInv ==
    ASSUME IInv, NEW p \in Process, NEW fd \in Int, NEW count \in 0 .. MaxSize,
           NEW b \in Written, WriteProcessFd(p, fd, count, b)
    PROVE  IInv'
<1> DEFINE s   == SlotOf(fd)
           o   == pfds[p][s]
           f   == o.pointer
           end == o.position + count
<1>1. /\ s \in Slot /\ o \in Descriptor /\ o.active
      /\ f \in FileName /\ f # Directory
      /\ o.position \in 0 .. MaxSize
      /\ o.position <= frames[f] * FRAME_4KB
  BY OpenForFile DEF WriteProcessFd
<1>2. pfds \in [Process -> [Slot -> Descriptor]]
  BY TypeOfDescriptors DEF IInv
<1>3. end <= MaxSize /\ answer' \in Seq(Byte) /\ UNCHANGED <<live, exists>>
  BY DEF WriteProcessFd
<1> DEFINE n == IF Full(f, end) THEN FramesFor(end) ELSE frames[f]
<1>4. /\ end <= n * FRAME_4KB /\ n * FRAME_4KB \in Nat
      /\ Full(f, end) => NewSize(f, end) = end
  <2>1. end \in 0 .. MaxSize
    <3>1. MaxSize \in Nat
      BY SizesFit
    <3>2. o.position \in 0 .. MaxSize /\ end <= MaxSize
      BY <1>1, <1>3
    <3> HIDE DEF o
    <3> QED
      BY <3>1, <3>2
  <2> HIDE DEF f, end
  <2> QED
    BY <1>1, <2>1, RoomMade, SizesFit DEF NewSize
<1>5. /\ size' = [size EXCEPT ![f] = NewSize(f, end)]
      /\ frames' = [frames EXCEPT ![f] = IF Full(f, end) THEN FramesFor(end) ELSE @]
      /\ content' = [content EXCEPT ![f] = Rewritten(f, o.position, count, b)]
      /\ pfds' = [pfds EXCEPT ![p][s].position = end]
      /\ past' = Copied(f, end) \cup Past("write", end, n * FRAME_4KB)
      /\ UNCHANGED hung
  <2>1. frames' = [frames EXCEPT ![f] = IF Full(f, end) THEN FramesFor(NewSize(f, end))
                                        ELSE frames[f]]
    BY DEF WriteProcessFd
  <2>2. frames' = [frames EXCEPT ![f] = n]
    BY <1>4, <2>1
  <2>3. past' = Copied(f, end) \cup Past("write", end, (IF Full(f, end)
                    THEN FramesFor(NewSize(f, end)) ELSE frames[f]) * FRAME_4KB)
    BY DEF WriteProcessFd
  <2>4. past' = Copied(f, end) \cup Past("write", end, n * FRAME_4KB)
    BY <1>4, <2>3
  <2> QED
    BY <2>2, <2>4 DEF WriteProcessFd
<1>6. Accesses'
  <2>1. end \in Nat
    <3>1. o.position \in Nat /\ count \in Nat
      BY <1>1, SizesFit
    <3> HIDE DEF o
    <3> QED
      BY <3>1
  <2> HIDE DEF end, n, f
  <2>2. Past("write", end, n * FRAME_4KB) = {}
    BY <1>4, <2>1 DEF Past
  <2>3. Copied(f, end) \subseteq {"copy"}
    BY DEF Copied, Past
  <2> QED
    BY <1>5, <2>2, <2>3 DEF Accesses
<1>7. IInv'
  <2> DEFINE moved == Moved(o, end)
  <2>1. pfds' = [pfds EXCEPT ![p][s] = moved]
    BY <1>5 DEF Moved
  <2>2. end \in 0 .. MaxSize
    <3>1. MaxSize \in Nat
      BY SizesFit
    <3>2. o.position \in 0 .. MaxSize /\ end <= MaxSize
      BY <1>1, <1>3
    <3> HIDE DEF o
    <3> QED
      BY <3>1, <3>2
  <2>3. moved \in Descriptor /\ moved.position = end /\ moved.pointer = f
    BY <1>1, <2>2, MovedType
  <2>4. /\ size' \in [FileName -> 0 .. MaxSize] /\ content' \in [FileName -> [Offset -> Byte]]
        /\ frames' \in [FileName -> 0 .. FramesFor(MaxSize)]
        /\ SizesInFrames'
        /\ \A d \in Descriptor :
              Sound(d, size, frames, content) => Sound(d, size', frames', content')
        /\ \A d \in Descriptor :
              d.pointer = f /\ d.position = end => Sound(d, size', frames', content')
    BY <1>1, <1>3, <1>5, WrittenSound
  <2> HIDE DEF moved
  <2>5. /\ pfds' \in [Process -> [Slot -> Descriptor]]
        /\ \A q \in Process, t \in Slot :
              pfds'[q][t] = IF q = p /\ t = s THEN moved ELSE pfds[q][t]
    BY <1>1, <1>2, <2>1, <2>3, SlotChanged
  <2>6. Sound(moved, size', frames', content')
    BY <2>3, <2>4
  <2>7. \A q \in Process, t \in Slot : Sound(pfds'[q][t], size', frames', content')
    BY <1>2, <2>4, <2>5, <2>6 DEF IInv, Descriptors
  <2>8. UNCHANGED <<live, exists, hung>>
    BY <1>3, <1>5
  <2>9. TypeOK'
    BY <1>3, <1>6, <2>4, <2>5, <2>8 DEF IInv, TypeOK, Accesses, Descriptor
  <2> QED
    BY <1>6, <2>4, <2>7, <2>9 DEF IInv, Descriptors
<1> QED
  BY <1>7

\* When the machine stops in a write, the types are kept.
LEMMA WriteStopsInv ==
    ASSUME IInv, NEW p \in Process, NEW fd \in Int, NEW count \in 0 .. MaxSize,
           WriteStops(p, fd, count)
    PROVE  TypeOK' /\ Accesses' /\ hung'
<1> DEFINE o   == pfds[p][SlotOf(fd)]
           f   == o.pointer
           end == o.position + count
<1>1. f \in FileName /\ o.position \in 0 .. MaxSize
  BY OpenForFile DEF WriteStops
<1>2. /\ end <= MaxSize /\ answer' = <<>> /\ hung' = TRUE
      /\ size' = [size EXCEPT ![f] = NewSize(f, end)]
      /\ past' \in {{}, Copied(f, end)}
      /\ UNCHANGED <<live, pfds, exists, frames, content>>
  BY DEF WriteStops
<1>3. end \in 0 .. MaxSize
  <2>1. MaxSize \in Nat
    BY SizesFit
  <2> HIDE DEF o
  <2> QED
    BY <1>1, <1>2, <2>1
<1> HIDE DEF f, end
<1>4. size' \in [FileName -> 0 .. MaxSize]
  <2>1. size \in [FileName -> 0 .. MaxSize]
    BY DEF IInv, TypeOK
  <2>2. NewSize(f, end) \in 0 .. MaxSize
    BY <1>1, <1>3, <2>1 DEF NewSize
  <2> QED
    BY <1>2, <2>1, <2>2
<1>5. past' \subseteq {"copy"}
  BY <1>2 DEF Copied, Past
<1>6. answer' \in Seq(Byte)
  BY <1>2
<1> QED
  BY <1>2, <1>4, <1>5, <1>6 DEF IInv, TypeOK, Accesses

\* What is left when the machine does not stop.
Goes ==
    \/ \E p \in Process, flags \in OpenFlags :
          \/ OpenDirectory(p, flags)
          \/ \E f \in FileName : OpenFile(p, f, flags) \/ OpenCreatesOnly(p, f, flags)
    \/ \E p \in Process, fd \in 0 .. MAX_FILE_DESCRIPTORS + FIRST_FD :
          \/ \E count \in 0 .. MaxSize :
                \/ ReadProcessFd(p, fd, count)
                \/ \E b \in Written : WriteProcessFd(p, fd, count, b)
          \/ CloseProcessFd(p, fd)
    \/ \E p, q \in Process : Fork(p, q)
    \/ \E p \in Process : Execvp(p) \/ Exit(p)

Stops ==
    \E p \in Process, fd \in 0 .. MAX_FILE_DESCRIPTORS + FIRST_FD :
       \E count \in 0 .. MaxSize : WriteStops(p, fd, count)

LEMMA NextSplit == Next => Goes \/ Stops \/ UNCHANGED vars
BY DEF Next, Goes, Stops, Stopped

\* A machine that has stopped does nothing.
LEMMA GoesRunning == Goes \/ Stops => ~ hung
<1>1. \A p, flags : OpenDirectory(p, flags) => ~ hung
  BY DEF OpenDirectory, Running
<1>2. \A p, f, flags : OpenFile(p, f, flags) \/ OpenCreatesOnly(p, f, flags) => ~ hung
  BY DEF OpenFile, OpenCreatesOnly, Running
<1>3. \A p, fd, flag : OpenFor(p, fd, flag) => ~ hung
  BY DEF OpenFor, Running
<1>4. \A p, fd, count, b :
         ReadProcessFd(p, fd, count) \/ WriteProcessFd(p, fd, count, b)
         \/ WriteStops(p, fd, count) => ~ hung
  BY <1>3 DEF ReadProcessFd, WriteProcessFd, WriteStops
<1>5. \A p, q, fd :
         CloseProcessFd(p, fd) \/ Fork(p, q) \/ Execvp(p) \/ Exit(p) => ~ hung
  <2>1. \A p, fd : CloseProcessFd(p, fd) => ~ hung
    BY DEF CloseProcessFd, Running
  <2>2. \A p, q : Fork(p, q) => ~ hung
    BY DEF Fork, Running
  <2>3. \A p : Execvp(p) \/ Exit(p) => ~ hung
    BY DEF Execvp, Exit, Running
  <2> QED
    BY <2>1, <2>2, <2>3
<1> QED
  BY <1>1, <1>2, <1>4, <1>5 DEF Goes, Stops

LEMMA GoesIInv == ASSUME IInv, Goes PROVE IInv' /\ hung' = hung
<1>1. hung' = hung
  <2>1. ASSUME NEW p, NEW flags, OpenDirectory(p, flags) PROVE hung' = hung
    BY <2>1 DEF OpenDirectory
  <2>2. ASSUME NEW p, NEW f, NEW flags, OpenFile(p, f, flags) \/ OpenCreatesOnly(p, f, flags)
        PROVE  hung' = hung
    BY <2>2 DEF OpenFile, OpenCreatesOnly
  <2>3. ASSUME NEW p, NEW fd, NEW count, NEW b,
               ReadProcessFd(p, fd, count) \/ WriteProcessFd(p, fd, count, b)
        PROVE  hung' = hung
    BY <2>3 DEF ReadProcessFd, WriteProcessFd
  <2>4. ASSUME NEW p, NEW fd, CloseProcessFd(p, fd) PROVE hung' = hung
    BY <2>4 DEF CloseProcessFd
  <2>5. ASSUME NEW p, NEW q, Fork(p, q) PROVE hung' = hung
    BY <2>5 DEF Fork
  <2>6. ASSUME NEW p, Execvp(p) \/ Exit(p) PROVE hung' = hung
    BY <2>6 DEF Execvp, Exit
  <2> QED
    BY <2>1, <2>2, <2>3, <2>4, <2>5, <2>6 DEF Goes
<1>2. ASSUME NEW p \in Process, NEW flags \in OpenFlags,
             \/ OpenDirectory(p, flags)
             \/ \E f \in FileName : OpenFile(p, f, flags) \/ OpenCreatesOnly(p, f, flags)
      PROVE  IInv'
  BY <1>2, OpenDirectoryIInv, OpenFileIInv, OpenCreatesOnlyIInv
<1>3. ASSUME NEW p \in Process, NEW fd \in 0 .. MAX_FILE_DESCRIPTORS + FIRST_FD,
             \/ \E count \in 0 .. MaxSize :
                   \/ ReadProcessFd(p, fd, count)
                   \/ \E b \in Written : WriteProcessFd(p, fd, count, b)
             \/ CloseProcessFd(p, fd)
      PROVE  IInv'
  <2>1. fd \in Int
    BY DescriptorsAssumption
  <2> QED
    BY <1>3, <2>1, ReadIInv, WriteIInv, CloseProcessFdIInv
<1>4. ASSUME NEW p \in Process, NEW q \in Process, Fork(p, q) \/ Execvp(p) \/ Exit(p)
      PROVE  IInv'
  BY <1>4, ProcessIInv
<1> QED
  BY <1>1, <1>2, <1>3, <1>4 DEF Goes

LEMMA StopsInv == ASSUME IInv, Stops PROVE TypeOK' /\ Accesses' /\ hung'
<1>1. PICK p \in Process, fd \in 0 .. MAX_FILE_DESCRIPTORS + FIRST_FD, count \in 0 .. MaxSize :
         WriteStops(p, fd, count)
  BY DEF Stops
<1>2. fd \in Int
  BY DescriptorsAssumption
<1> QED
  BY <1>1, <1>2, WriteStopsInv

LEMMA NextInv == Inv /\ [Next]_vars => Inv'
<1> SUFFICES ASSUME Inv, [Next]_vars PROVE Inv'
  OBVIOUS
<1>1. CASE UNCHANGED vars
  <2>1. TypeOK' /\ Accesses' /\ hung' = hung
    BY <1>1 DEF vars, Inv, TypeOK, Accesses
  <2>2. IInv => IInv'
    BY <1>1 DEF vars, IInv, TypeOK, Accesses, SizesInFrames, Descriptors
  <2> QED
    BY <2>1, <2>2 DEF Inv
<1>2. CASE Goes
  BY <1>2, GoesRunning, GoesIInv DEF Inv, IInv
<1>3. CASE Stops
  BY <1>3, GoesRunning, StopsInv DEF Inv
<1> QED
  BY <1>1, <1>2, <1>3, NextSplit

-----------------------------------------------------------------------------
(* The files are sequences of bytes.                                       *)

\* The files as FileStore sees them.
Bytes == [f \in FileName |-> [k \in 1 .. size[f] |-> content[f][k - 1]]]

\* What FileStore allows in a step.
StoreStep ==
    \/ \E f \in FileName, position \in 0 .. MaxSize, n \in 0 .. MaxSize, b \in Written :
          /\ Bytes' = [Bytes EXCEPT ![f] = Files!Patch(@, position, n, b)]
          /\ answer' = <<>>
    \/ \E f \in FileName : Bytes' = [Bytes EXCEPT ![f] = <<>>] /\ answer' = <<>>
    \/ \E f \in FileName, position \in 0 .. MaxSize, n \in 1 .. MaxSize :
          /\ answer' = SubSeq(Bytes[f], position + 1, Files!Least(position + n, Len(Bytes[f])))
          /\ Bytes' = Bytes
    \/ Bytes' = Bytes /\ answer' = <<>>

LEMMA StoreStepIsCall == StoreStep <=> Files!Call
BY DEF StoreStep, Bytes, Files!Call, Files!Write, Files!Truncate, Files!Read, Files!Other

\* A file is a sequence as long as its size.
LEMMA BytesOfFile ==
    ASSUME NEW m \in Nat, NEW a \in [Offset -> Byte],
           NEW s, s = [k \in 1 .. m |-> a[k - 1]], m <= FramesFor(MaxSize) * FRAME_4KB
    PROVE  s \in Seq(Byte) /\ Len(s) = m /\ \A k \in 1 .. m : s[k] = a[k - 1]
<1>1. ASSUME NEW k \in 1 .. m PROVE a[k - 1] \in Byte
  <2>1. FramesFor(MaxSize) * FRAME_4KB \in Nat
    BY SizesFit
  <2>2. k - 1 \in Offset
    BY <2>1 DEF Offset
  <2> QED
    BY <2>2
<1> QED
  BY <1>1

LEMMA InitBytes == Init => Files!Init
<1> SUFFICES ASSUME Init PROVE Files!Init
  OBVIOUS
<1>1. IInv
  BY InitIInv
<1>2. ASSUME NEW f \in FileName
      PROVE  /\ size[f] \in 0 .. MaxSize
             /\ \A k \in 1 .. size[f] : content[f][k - 1] \in Written
  <2>1. size[f] \in 0 .. MaxSize /\ frames[f] \in 0 .. FramesFor(MaxSize)
        /\ size[f] <= frames[f] * FRAME_4KB
    BY <1>1 DEF IInv, TypeOK, SizesInFrames
  <2>2. \A k \in 1 .. size[f] : k - 1 \in Offset /\ k - 1 < size[f]
    <3>1. /\ FramesFor(MaxSize) * FRAME_4KB \in Nat /\ frames[f] * FRAME_4KB \in Nat
          /\ frames[f] * FRAME_4KB <= FramesFor(MaxSize) * FRAME_4KB /\ MaxSize \in Nat
      BY <2>1, SizesFit
    <3> QED
      BY <2>1, <3>1 DEF Offset
  <2> QED
    BY <2>1, <2>2 DEF Init
<1>3. Bytes \in [FileName -> UNION {[1 .. n -> {Zero} \cup Written] : n \in 0 .. MaxSize}]
  BY <1>2 DEF Bytes
<1> QED
  BY <1>3 DEF Init, Files!Init, Bytes

\* What is known of a file, as the kernel and as FileStore see it.
LEMMA FileKnown ==
    ASSUME IInv, NEW f \in FileName
    PROVE  /\ size[f] \in 0 .. MaxSize /\ size[f] \in Nat
           /\ frames[f] * FRAME_4KB \in Nat /\ size[f] <= frames[f] * FRAME_4KB
           /\ frames[f] * FRAME_4KB <= FramesFor(MaxSize) * FRAME_4KB
           /\ FramesFor(MaxSize) * FRAME_4KB \in Nat
           /\ content[f] \in [Offset -> Byte]
           /\ Bytes[f] \in Seq(Byte) /\ Len(Bytes[f]) = size[f]
           /\ \A k \in 1 .. size[f] : Bytes[f][k] = content[f][k - 1]
<1>1. /\ size[f] \in 0 .. MaxSize /\ frames[f] \in 0 .. FramesFor(MaxSize)
      /\ content[f] \in [Offset -> Byte] /\ size[f] <= frames[f] * FRAME_4KB
  BY DEF IInv, TypeOK, SizesInFrames
<1>2. /\ size[f] \in Nat /\ frames[f] * FRAME_4KB \in Nat
      /\ frames[f] * FRAME_4KB <= FramesFor(MaxSize) * FRAME_4KB
      /\ FramesFor(MaxSize) * FRAME_4KB \in Nat
  BY <1>1, SizesFit
<1>3. Bytes[f] = [k \in 1 .. size[f] |-> content[f][k - 1]]
  BY DEF Bytes
<1>4. size[f] <= FramesFor(MaxSize) * FRAME_4KB
  BY <1>1, <1>2
<1>5. /\ Bytes[f] \in Seq(Byte) /\ Len(Bytes[f]) = size[f]
      /\ \A k \in 1 .. size[f] : Bytes[f][k] = content[f][k - 1]
  BY <1>1, <1>2, <1>3, <1>4, BytesOfFile
<1> QED
  BY <1>1, <1>2, <1>5

\* A step that leaves sizes and contents alone and reads nothing.
LEMMA QuietStore == ASSUME UNCHANGED <<size, content>>, answer' = <<>> PROVE StoreStep
BY DEF StoreStep, Bytes

LEMMA TruncateStore ==
    ASSUME IInv, NEW f \in FileName, Truncated(f), answer' = <<>> PROVE StoreStep
<1>1. size \in [FileName -> 0 .. MaxSize] /\ content \in [FileName -> [Offset -> Byte]]
  BY DEF IInv, TypeOK
<1>2. /\ size'[f] = 0
      /\ \A g \in FileName : g # f => size'[g] = size[g] /\ content'[g] = content[g]
  BY <1>1 DEF Truncated
<1>3. [k \in 1 .. 0 |-> content'[f][k - 1]] = <<>>
  OBVIOUS
<1>4. Bytes' = [Bytes EXCEPT ![f] = <<>>]
  BY <1>2, <1>3 DEF Bytes
<1> QED
  BY <1>4 DEF StoreStep

\* The new content of a file that is written is the patched sequence.
LEMMA RewrittenIsPatch ==
    ASSUME IInv, NEW f \in FileName, NEW position \in 0 .. MaxSize, NEW count \in 0 .. MaxSize,
           NEW b \in Written, position <= frames[f] * FRAME_4KB, position + count <= MaxSize,
           \A k \in Offset : size[f] <= k /\ k < position => content[f][k] = Zero
    PROVE  [k \in 1 .. NewSize(f, position + count) |-> Rewritten(f, position, count, b)[k - 1]]
           = Files!Patch(Bytes[f], position, count, b)
<1> DEFINE end == position + count
           s   == Bytes[f]
           new == Rewritten(f, position, count, b)
<1>1. /\ size[f] \in Nat /\ frames[f] * FRAME_4KB \in Nat /\ size[f] <= frames[f] * FRAME_4KB
      /\ frames[f] * FRAME_4KB <= FramesFor(MaxSize) * FRAME_4KB
      /\ FramesFor(MaxSize) * FRAME_4KB \in Nat
      /\ Len(s) = size[f] /\ \A k \in 1 .. size[f] : s[k] = content[f][k - 1]
  BY FileKnown
<1>2. /\ position \in Nat /\ count \in Nat /\ end \in Nat /\ end \in 0 .. MaxSize
      /\ MaxSize \in Nat /\ MaxSize <= FramesFor(MaxSize) * FRAME_4KB
  BY SizesFit, FramesForHolds
<1>3. NewSize(f, end) = IF end > Len(s) THEN end ELSE Len(s)
  BY <1>1 DEF NewSize
<1>4. /\ Full(f, end) => frames[f] * FRAME_4KB <= end
  BY <1>1, <1>2 DEF Full, Room
<1> HIDE DEF s, end
<1>5. ASSUME NEW k \in 1 .. NewSize(f, end)
      PROVE  new[k - 1] = IF k > position /\ k <= position + count THEN b
                          ELSE IF k <= Len(s) THEN s[k] ELSE Zero
  <2>1. k \in Nat /\ k >= 1 /\ (k <= end \/ k <= size[f])
    BY <1>1, <1>2, <1>3
  <2>2. k - 1 \in Offset
    BY <1>1, <1>2, <2>1 DEF Offset
  <2>3. CASE k > position /\ k <= position + count
    <3>1. position <= k - 1 /\ k - 1 < position + count
      BY <1>2, <2>1, <2>3
    <3> QED
      BY <2>2, <2>3, <3>1 DEF Rewritten
  <2>4. CASE ~ (k > position /\ k <= position + count) /\ k <= size[f]
    <3>1. ~ (position <= k - 1 /\ k - 1 < position + count)
      BY <1>2, <2>1, <2>4
    <3>2. k - 1 < frames[f] * FRAME_4KB /\ (Full(f, end) => k - 1 < end)
      BY <1>1, <1>2, <1>4, <2>1, <2>4
    <3>3. new[k - 1] = content[f][k - 1]
      BY <2>2, <3>1, <3>2 DEF Rewritten, Room, end
    <3>4. s[k] = content[f][k - 1]
      BY <1>1, <2>1, <2>4
    <3> QED
      BY <1>1, <2>4, <3>3, <3>4
  <2>5. CASE ~ (k > position /\ k <= position + count) /\ k > size[f]
    <3>1. ~ (position <= k - 1 /\ k - 1 < position + count)
      BY <1>2, <2>1, <2>5
    <3>2. k <= end /\ k <= position /\ size[f] <= k - 1 /\ k - 1 < position
      BY <1>1, <1>2, <2>1, <2>5 DEF end
    <3>3. k - 1 < frames[f] * FRAME_4KB /\ (Full(f, end) => k - 1 < end)
      BY <1>1, <1>2, <2>1, <3>2
    <3>4. new[k - 1] = content[f][k - 1]
      BY <2>2, <3>1, <3>3 DEF Rewritten, Room, end
    <3>5. content[f][k - 1] = Zero
      BY <2>2, <3>2
    <3>6. ~ k <= Len(s)
      BY <1>1, <2>1, <2>5
    <3> QED
      BY <2>5, <3>4, <3>5, <3>6
  <2>6. k <= size[f] \/ k > size[f]
    BY <1>1, <2>1
  <2> QED
    BY <2>3, <2>4, <2>5, <2>6
<1> HIDE DEF new
<1>6. [k \in 1 .. NewSize(f, end) |-> new[k - 1]] = Files!Patch(s, position, count, b)
  BY <1>3, <1>5 DEF Files!Patch, end
<1> QED
  BY <1>6 DEF s, end, new

LEMMA WriteStore ==
    ASSUME IInv, NEW p \in Process, NEW fd \in Int, NEW count \in 0 .. MaxSize,
           NEW b \in Written, WriteProcessFd(p, fd, count, b)
    PROVE  StoreStep
<1> DEFINE o   == pfds[p][SlotOf(fd)]
           f   == o.pointer
           end == o.position + count
<1>1. /\ f \in FileName /\ o.position \in 0 .. MaxSize
      /\ o.position <= frames[f] * FRAME_4KB
      /\ \A k \in Offset : size[f] <= k /\ k < o.position => content[f][k] = Zero
  BY OpenForFile DEF WriteProcessFd
<1>2. end <= MaxSize /\ answer' = <<>>
  BY DEF WriteProcessFd
<1>3. CASE UNCHANGED <<size, content>>
  BY <1>2, <1>3, QuietStore
<1>4. CASE /\ size' = [size EXCEPT ![f] = NewSize(f, end)]
           /\ content' = [content EXCEPT ![f] = Rewritten(f, o.position, count, b)]
  <2> DEFINE new == Rewritten(f, o.position, count, b)
  <2>1. size \in [FileName -> 0 .. MaxSize] /\ content \in [FileName -> [Offset -> Byte]]
    BY DEF IInv, TypeOK
  <2>2. [k \in 1 .. NewSize(f, end) |-> new[k - 1]]
        = Files!Patch(Bytes[f], o.position, count, b)
    BY <1>1, <1>2, RewrittenIsPatch
  <2> HIDE DEF new, o, f, end
  <2>3. /\ size'[f] = NewSize(f, end) /\ content'[f] = new
        /\ \A g \in FileName : g # f => size'[g] = size[g] /\ content'[g] = content[g]
    BY <1>1, <1>4, <2>1 DEF new
  <2>4. Bytes' = [g \in FileName |-> [k \in 1 .. size'[g] |-> content'[g][k - 1]]]
    BY DEF Bytes
  <2>5. Bytes' = [Bytes EXCEPT ![f] = Files!Patch(Bytes[f], o.position, count, b)]
    <3> DEFINE patched == Files!Patch(Bytes[f], o.position, count, b)
    <3>1. [k \in 1 .. size'[f] |-> content'[f][k - 1]] = patched
      BY <2>2, <2>3
    <3> HIDE DEF patched
    <3>2. [Bytes EXCEPT ![f] = patched] = [g \in FileName |-> IF g = f THEN patched ELSE Bytes[g]]
      BY DEF Bytes
    <3>3. \A g \in FileName : g # f => Bytes[g] = [k \in 1 .. size'[g] |-> content'[g][k - 1]]
      BY <2>3 DEF Bytes
    <3>4. Bytes' = [g \in FileName |-> IF g = f THEN patched ELSE Bytes[g]]
      BY <2>4, <3>1, <3>3
    <3> QED
      BY <3>2, <3>4 DEF patched
  <2> QED
    BY <1>1, <1>2, <2>5 DEF StoreStep
<1> QED
  BY <1>3, <1>4 DEF WriteProcessFd

LEMMA SubSeqIsFunction ==
    ASSUME NEW S, NEW s \in Seq(S), NEW q \in Nat, NEW n \in Nat, q + n <= Len(s)
    PROVE  SubSeq(s, q + 1, q + n) = [k \in 1 .. n |-> s[q + k]]
OBVIOUS

LEMMA ReadStore ==
    ASSUME IInv, NEW p \in Process, NEW fd \in Int, NEW count \in 0 .. MaxSize,
           ReadProcessFd(p, fd, count)
    PROVE  StoreStep
<1> DEFINE o == pfds[p][SlotOf(fd)]
           f == o.pointer
           q == o.position
           n == Readable(f, q, count)
<1>1. f \in FileName /\ q \in 0 .. MaxSize
  BY OpenForFile DEF ReadProcessFd
<1>2. answer' = [k \in 1 .. n |-> content[f][q + k - 1]] /\ UNCHANGED <<size, content>>
  BY DEF ReadProcessFd
<1> HIDE DEF f, q, o
<1>3. /\ size[f] \in 0 .. MaxSize /\ size[f] \in Nat
      /\ Bytes[f] \in Seq(Byte) /\ Len(Bytes[f]) = size[f]
      /\ \A k \in 1 .. size[f] : Bytes[f][k] = content[f][k - 1]
  BY <1>1, FileKnown
<1>4. n \in 0 .. count /\ (n # 0 => q + n <= size[f])
  BY <1>1, <1>3, ReadableFits
<1>5. MaxSize \in Nat /\ q \in Nat /\ count \in Nat /\ n \in Nat
  BY <1>1, <1>4, SizesFit
<1>6. CASE n = 0
  <2>1. answer' = <<>>
    BY <1>2, <1>6
  <2> QED
    BY <1>2, <2>1, QuietStore
<1>7. CASE n # 0
  <2>1. /\ count \in 1 .. MaxSize
        /\ Files!Least(q + count, Len(Bytes[f])) = q + n
    BY <1>3, <1>5, <1>7 DEF Readable, Files!Least
  <2> HIDE DEF n
  <2>2. SubSeq(Bytes[f], q + 1, q + n) = [k \in 1 .. n |-> Bytes[f][q + k]]
    BY <1>3, <1>4, <1>5, <1>7, SubSeqIsFunction
  <2>3. ASSUME NEW k \in 1 .. n PROVE content[f][q + k - 1] = Bytes[f][q + k]
    <3>1. \A i \in 1 .. size[f] : Bytes[f][i] = content[f][i - 1]
      BY <1>3
    <3>2. q + n <= size[f] /\ size[f] \in Nat
      BY <1>3, <1>4, <1>7
    <3>3. q + k \in 1 .. size[f]
      BY <1>5, <3>2
    <3>4. q + k - 1 = (q + k) - 1
      BY <1>5
    <3> QED
      BY <3>1, <3>3, <3>4
  <2>4. answer' = SubSeq(Bytes[f], q + 1, Files!Least(q + count, Len(Bytes[f])))
    BY <1>2, <2>1, <2>2, <2>3
  <2>5. Bytes' = Bytes
    BY <1>2 DEF Bytes
  <2> QED
    BY <1>1, <2>1, <2>4, <2>5 DEF StoreStep
<1> QED
  BY <1>6, <1>7

LEMMA GoesStore == ASSUME IInv, Goes PROVE StoreStep
<1>2. ASSUME NEW p \in Process, NEW flags \in OpenFlags, OpenDirectory(p, flags)
      PROVE  StoreStep
  BY <1>2, QuietStore DEF OpenDirectory, NoAccess
<1>3. ASSUME NEW p \in Process, NEW flags \in OpenFlags, NEW f \in FileName,
             OpenFile(p, f, flags) \/ OpenCreatesOnly(p, f, flags)
      PROVE  StoreStep
  <2>1. CASE UNCHANGED <<size, content>>
    BY <1>3, <2>1, QuietStore DEF OpenFile, OpenCreatesOnly, NoAccess
  <2>2. CASE Truncated(f)
    BY <1>3, <2>2, TruncateStore DEF OpenFile, OpenCreatesOnly, NoAccess
  <2> QED
    BY <1>3, <2>1, <2>2 DEF OpenFile, OpenCreatesOnly
<1>4. ASSUME NEW p \in Process, NEW fd \in 0 .. MAX_FILE_DESCRIPTORS + FIRST_FD,
             \/ \E count \in 0 .. MaxSize :
                   \/ ReadProcessFd(p, fd, count)
                   \/ \E b \in Written : WriteProcessFd(p, fd, count, b)
             \/ CloseProcessFd(p, fd)
      PROVE  StoreStep
  <2>1. fd \in Int
    BY DescriptorsAssumption
  <2>2. CASE CloseProcessFd(p, fd)
    BY <2>2, QuietStore DEF CloseProcessFd, NoAccess
  <2> QED
    BY <1>4, <2>1, <2>2, ReadStore, WriteStore
<1>5. ASSUME NEW p \in Process, NEW q \in Process, Fork(p, q) \/ Execvp(p) \/ Exit(p)
      PROVE  StoreStep
  BY <1>5, QuietStore DEF Fork, Execvp, Exit, NoAccess
<1> QED
  BY <1>2, <1>3, <1>4, <1>5 DEF Goes

LEMMA StopsStore == ASSUME Stops PROVE answer' = <<>> /\ hung' = TRUE
BY DEF Stops, WriteStops

LEMMA NextStore == Inv /\ [Next]_vars => [Files!Next]_<<Bytes, answer, hung>>
<1> SUFFICES ASSUME Inv, [Next]_vars
             PROVE  Files!Next \/ UNCHANGED <<Bytes, answer, hung>>
  BY DEF Bytes
<1>1. CASE UNCHANGED vars
  BY <1>1 DEF vars, Bytes
<1>2. CASE Goes
  <2>1. ~ hung /\ IInv
    BY <1>2, GoesRunning DEF Inv
  <2>2. hung' = hung /\ StoreStep
    BY <1>2, <2>1, GoesIInv, GoesStore
  <2> QED
    BY <2>1, <2>2, StoreStepIsCall DEF Files!Next
<1>3. CASE Stops
  BY <1>3, GoesRunning, StopsStore DEF Files!Next, Files!Stop
<1> QED
  BY <1>1, <1>2, <1>3, NextSplit

-----------------------------------------------------------------------------
(* The theorems.                                                           *)

THEOREM Invariant == Spec => []Inv
<1>1. Init => Inv
  BY InitIInv DEF Inv, IInv
<1> QED
  BY <1>1, NextInv, PTL DEF Spec

\* Whatever descriptors share a file, and wherever they stand when one of them
\* truncates it, no bytes that a program reads or writes lie past the frames of
\* the file; only the copy of a growing file reads past its old frames
\* (usermode.c:1436-1682).
THEOREM ContentAlwaysInFrames == Spec => []ContentInFrames
<1>1. Inv => ContentInFrames
  BY DEF Inv, IInv, ContentInFrames, TypeOK, Accesses, SizesInFrames, Descriptors, Sound, Room
<1> QED
  BY <1>1, Invariant, PTL

\* The files are sequences of bytes until the machine stops: what a read
\* returns is what was written, or zeros in a gap, through whatever descriptors,
\* with growth and truncation in between (usermode.c:1564-1656).
THEOREM FilesAreSequences == Spec => ImplementsFiles
<1>1. Spec => Files!Init /\ [][Files!Next]_<<Bytes, answer, hung>>
  <2>1. Init => Files!Init
    BY InitBytes
  <2> QED
    BY <2>1, NextStore, Invariant, PTL DEF Spec
<1> QED
  BY <1>1, PTL DEF ImplementsFiles, Files!Spec, Bytes
=============================================================================

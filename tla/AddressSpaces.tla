--------------------------- MODULE AddressSpaces ---------------------------
(***************************************************************************)
(* The user half of the page directories: what fork, exec, exit, mmap and  *)
(* munmap do to the pages of a process and to the frames behind them.      *)
(* fork copies the pages that can be written and shares the others; which  *)
(* of the processes that share a page frees it is decided by the flag      *)
(* overwritten of the process that ends.  Any live process may make the    *)
(* next call: the order the scheduler picks is that of ProcessTable.       *)
(* The pages of a shared library are frames of the library's file, mapped  *)
(* into every process that needs it and freed with such a process, though  *)
(* they belong to the file: what is known of a frame holds until then.     *)
(* Page directories and tables have frames of their own, never shared,     *)
(* which are left out; so is the kernel half, the same in all of them.     *)
(***************************************************************************)
EXTENDS Integers, FiniteSets, FiniteSetsExt, Functions

CONSTANTS
    PROCESSES_MAX,      \* slots of the process table: 32
    Frame,              \* the frames for user pages, those of libraries included
    Library,            \* the frames of the content of the library files
    NoFrame,            \* stands for "not present" in an entry
    TABLES,             \* page tables of a directory: 1024, of 4 MB each
    TABLE,              \* pages in a table: 1024
    FRAME_SIZE,         \* bytes in a page: 4096
    Program,            \* the executables: [elf, ro, rw, lib], with lib the frame
                        \* of a library at each page behind the program's own
    Length,             \* bound: the lengths programs map and unmap
    Mapper              \* bound: the slots whose processes call mmap

Process == 0 .. PROCESSES_MAX - 1
Page    == 0 .. TABLES * TABLE - 1
None    == PROCESSES_MAX
MMAP_START_ADDRESS == TABLE     \* 0x400000, the first page of table 1

ASSUME SizesAssumption ==
    /\ PROCESSES_MAX \in Nat \ {0} /\ NoFrame \notin Frame /\ IsFiniteSet(Frame)
    /\ Library \subseteq Frame
    /\ TABLES \in Nat \ {0, 1} /\ TABLE \in Nat \ {0} /\ FRAME_SIZE \in Nat \ {0}
    /\ Length \subseteq Nat \ {0} /\ Mapper \subseteq Process
ASSUME ProgramAssumption ==
    \A g \in Program : /\ g.elf \in BOOLEAN
                       /\ g.ro \subseteq Page /\ g.rw \subseteq Page /\ g.ro \cap g.rw = {}
                       /\ DOMAIN g.lib \subseteq Page \ (g.ro \cup g.rw)
                       /\ g.lib \in Injection(DOMAIN g.lib, Library)

VARIABLES
    live,           \* the slots that are initialized
    parent,         \* of each live slot; kept when the parent ends
    children,       \* of each live slot, the slots in children[]
    overwritten,    \* of each slot: it has called exec
    tables,         \* of each slot, the page tables that are present
    pt,             \* of each slot and page, the page-table entry
    used,           \* the frames that are allocated
    text,           \* history: those of used that were allocated read-only, or
                    \* for a library's file
    stale,          \* history: <<p, v>> whose frame was freed by another process
    spoilt,         \* history: frames of libraries that were freed
    freedTwice,     \* history: frames freed that were not allocated
    hung            \* the kernel loops for ever or has aborted

vars == <<live, parent, children, overwritten, tables, pt, used, text, stale,
          spoilt, freedTwice, hung>>

\* A page-table entry.
Absent == [frame |-> NoFrame, rw |-> FALSE, mmapped |-> FALSE]
Entry(f, rw, mmapped) == [frame |-> f, rw |-> rw, mmapped |-> mmapped]

TypeOK ==
    /\ live \subseteq Process
    /\ parent \in [Process -> Process \cup {None}]
    /\ children \in [Process -> SUBSET Process]
    /\ overwritten \in [Process -> BOOLEAN]
    /\ tables \in [Process -> SUBSET (0 .. TABLES - 1)]
    /\ pt \in [Process -> [Page -> [frame : Frame \cup {NoFrame}, rw : BOOLEAN, mmapped : BOOLEAN]]]
    /\ used \subseteq Frame /\ text \subseteq used
    /\ stale \subseteq Process \X Page
    /\ spoilt \subseteq Library /\ freedTwice \subseteq Frame /\ hung \in BOOLEAN

Present(p)  == {v \in Page : pt[p][v].frame # NoFrame}
Writable(p) == {v \in Present(p) : pt[p][v].rw}
Mapped(p, f) == \E v \in Present(p) : pt[p][v].frame = f
Running(p)  == p \in live /\ ~ hung

\* The page table a page is in.
TableOf(v) == v \div TABLE

-----------------------------------------------------------------------------
(* Taking frames from the allocator and giving them back.                  *)

Below(S, x) == Cardinality({y \in S : y < x})

\* kalloc_frame hands out frames nobody has (FrameStore), one for each page.
\* A frame that was freed twice may have been in its cache at the time, and is
\* lent again whoever has it.
Taken(pages) ==
    {m \in [pages -> (Frame \ used) \cup freedTwice] :
        \A v, w \in pages : m[v] = m[w] => v = w \/ m[v] \in freedTwice}

\* kabort, when kalloc_frame finds nothing.
OutOfFrames(p, pages) ==
    /\ Running(p) /\ Cardinality(pages) > Cardinality(Frame \ used)
    /\ hung' = TRUE
    /\ UNCHANGED <<live, parent, children, overwritten, tables, pt, used, text, stale,
                   spoilt, freedTwice>>

\* (Mutant: shared pages are freed whatever the flag says.)
FreedByAlways(p, freeReadOnly) == {p} \X Present(p)

\* The pages whose frames freeProcessPagedirectory frees, with their process.
FreedBy(p, freeReadOnly) == {p} \X (IF freeReadOnly THEN Present(p) ELSE Writable(p))

FramesAt(entries) == {pt[e[1]][e[2]].frame : e \in entries}

\* Of the frames of entries that are freed: those that are not allocated by then.
Twice(entries, allocated) ==
    {f \in FramesAt(entries) :
        \/ f \notin allocated
        \/ \E e, d \in entries : e # d /\ pt[e[1]][e[2]].frame = f /\ pt[d[1]][d[2]].frame = f}

\* After frames were freed, and the pages of the processes are those of new:
\* the entries of live processes that still point at them, besides old ones.
StaleAfter(freed, alive, new, old) ==
    {e \in alive \X Page : /\ new[e[1]][e[2]].frame # NoFrame
                           /\ e \in old \/ new[e[1]][e[2]].frame \in freed}

-----------------------------------------------------------------------------
(* Loading a program.                                                      *)

\* loadELFIntoMemory and the stack of the new process: every page of the
\* program gets a frame, a read-only segment read-only pages.  The libraries it
\* needs are not copied: the frames of their files are mapped read-only.
Loaded(g, frame) ==
    [v \in Page |-> IF v \in g.ro \cup g.rw THEN Entry(frame[v], v \in g.rw, FALSE)
                    ELSE IF v \in DOMAIN g.lib THEN Entry(g.lib[v], FALSE, FALSE)
                    ELSE Absent]

LoadedTables(g) == {TableOf(v) : v \in g.ro \cup g.rw \cup DOMAIN g.lib}

\* overwriteArgs: the new pages are there before the old ones are freed, and
\* of these the read-only ones are freed by a process without parent only.
Execvp(p, g) ==
    LET old   == FreedBy(p, parent[p] = None)
        freed == FramesAt(old)
    IN
    \E frame \in Taken(g.ro \cup g.rw) :
        LET new == [pt EXCEPT ![p] = Loaded(g, frame)] IN
        /\ Running(p) /\ g.elf
        /\ pt' = new
        /\ tables' = [tables EXCEPT ![p] = LoadedTables(g)]
        /\ overwritten' = [overwritten EXCEPT ![p] = TRUE]
        /\ used' = (used \cup Range(frame)) \ freed
        /\ text' = (text \cup {frame[v] : v \in g.ro}) \ freed
        /\ stale' = StaleAfter(freed, live, new, {e \in stale : e[1] # p})
        /\ spoilt' = spoilt \cup (freed \cap Library)
        /\ freedTwice' = freedTwice \cup Twice(old, used \cup Range(frame))
        /\ UNCHANGED <<live, parent, children, hung>>

\* loadBinaryIntoMemory wants the frame it is given to be that of the file's
\* content, which it never is: it loops for ever.  (So does the ELF loader when a
\* library is missing or a segment is not to its liking.)
ExecvpBinary(p, g) ==
    /\ Running(p) /\ ~ g.elf
    /\ hung' = TRUE
    /\ UNCHANGED <<live, parent, children, overwritten, tables, pt, used, text, stale,
                   spoilt, freedTwice>>

-----------------------------------------------------------------------------
(* fork and exit.                                                          *)

\* (Mutant: writable pages are shared like the others.)
CopiedShared(p, frame) == pt[p]

\* The pages of a child: a frame of its own for what can be written, the
\* parent's frame for the rest.  The mark of mmap is not copied.
Copied(p, frame) ==
    [v \in Page |-> IF v \in Writable(p) THEN Entry(frame[v], TRUE, FALSE)
                    ELSE IF v \in Present(p) THEN Entry(pt[p][v].frame, FALSE, FALSE)
                    ELSE Absent]

\* forkProcess, into the first free slot.
Fork(p, child) ==
    \E frame \in Taken(Writable(p)) :
        /\ Running(p)
        /\ child \notin live /\ \A q \in Process \ live : child <= q
        /\ live' = live \cup {child}
        /\ parent' = [parent EXCEPT ![child] = p]
        /\ children' = [children EXCEPT ![child] = {}, ![p] = @ \cup {child}]
        /\ overwritten' = [overwritten EXCEPT ![child] = FALSE]
        /\ tables' = [tables EXCEPT ![child] = {TableOf(v) : v \in Present(p)}]
        /\ pt' = [pt EXCEPT ![child] = Copied(p, frame)]
        /\ used' = used \cup Range(frame)
        /\ stale' = stale \cup {<<child, v>> : v \in {w \in Page \ Writable(p) : <<p, w>> \in stale}}
        /\ UNCHANGED <<text, spoilt, freedTwice, hung>>

\* (Mutant: the children are ended without looking at their flags.)
FreedWithAll(p) == UNION {FreedBy(q, TRUE) : q \in children[p] \cup {p}}

\* What terminateProcess frees: the pages of the children, then its own.
FreedWith(p) == UNION {FreedBy(q, overwritten[q]) : q \in children[p] \cup {p}}

\* terminateProcess: by exit of p, by an exception, or when its parent waits.
\* The children go with it, their children do not.  With nobody left to
\* switch to the kernel stops.  Slots that are not live are as at first: fork
\* sets what it finds in them.
TerminateProcess(p) ==
    LET gone  == children[p] \cup {p}
        new   == [q \in Process |-> IF q \in gone THEN [v \in Page |-> Absent] ELSE pt[q]]
        freed == FramesAt(FreedWith(p))
    IN
    /\ Running(p)
    /\ live' = live \ gone
    /\ parent' = [q \in Process |-> IF q \in gone THEN None ELSE parent[q]]
    /\ overwritten' = [q \in Process |-> q \notin gone /\ overwritten[q]]
    /\ children' = [q \in Process |-> IF q \in gone THEN {} ELSE IF q = parent[p]
                                      THEN children[q] \ {p} ELSE children[q]]
    /\ pt' = new
    /\ tables' = [q \in Process |-> IF q \in gone THEN {} ELSE tables[q]]
    /\ used' = used \ freed
    /\ text' = text \ freed
    /\ stale' = StaleAfter(freed, live \ gone, new, stale)
    /\ spoilt' = spoilt \cup (freed \cap Library)
    /\ freedTwice' = freedTwice \cup Twice(FreedWith(p), used)
    /\ hung' = (live = gone)

-----------------------------------------------------------------------------
(* mmap and munmap.                                                        *)

\* mmap maps one page more than the length has full pages.
Chunks(length) == length \div FRAME_SIZE + 1

Run(a, n) == a .. a + n - 1

\* (Mutant: a page in use does not end the run of free ones.)
RoomUnbroken(p, n) ==
    {a \in Page : /\ a >= MMAP_START_ADDRESS /\ a + n - 1 \in Page
                  /\ a \notin Present(p)}

\* Where getVirtualChunks may put n pages when it looks on its own: it begins
\* to count again at every table that is present.
Room(p, n) ==
    {a \in Page : /\ a >= MMAP_START_ADDRESS
                  /\ Run(a, n) \subseteq Page \ Present(p)
                  /\ \A v \in Run(a, n) : TableOf(v) \in tables[p] => TableOf(v) = TableOf(a)}

\* A hint counts if the tables it needs are not present, and then the first
\* page of its table is taken.
HintTaken(p, hint, n) ==
    /\ Run(TableOf(hint) * TABLE, n) \subseteq Page
    /\ \A v \in Run(TableOf(hint) * TABLE, n) : TableOf(v) \notin tables[p]

\* Where the pages go (hint 0: the caller leaves it to mmap).
Address(p, hint, n) ==
    IF hint # 0 /\ HintTaken(p, hint, n) THEN TableOf(hint) * TABLE ELSE Min(Room(p, n))

\* mmapProcess.  Bound: the address space does not run out before the frames.
Mmap(p, hint, length) ==
    LET n     == Chunks(length)
        pages == Run(Address(p, hint, n), n)
    IN
    /\ Running(p) /\ Room(p, n) # {}
    /\ \E frame \in Taken(pages) :
          /\ pt' = [pt EXCEPT ![p] = [v \in Page |-> IF v \in pages
                                                     THEN Entry(frame[v], TRUE, TRUE)
                                                     ELSE @[v]]]
          /\ used' = used \cup Range(frame)
    /\ tables' = [tables EXCEPT ![p] = @ \cup {TableOf(v) : v \in pages}]
    /\ UNCHANGED <<live, parent, children, overwritten, text, stale, spoilt, freedTwice, hung>>

\* The pages munmap takes for its own, from the address on.
Unmappable(p, address) == {v \in Present(p) : v >= address /\ pt[p][v].mmapped}

\* munmapProcess: the first pages that are mapped, however far on they are.
Munmap(p, address, length) ==
    LET chunks == (length + FRAME_SIZE - 1) \div FRAME_SIZE
        pages  == {v \in Unmappable(p, address) : Below(Unmappable(p, address), v) < chunks}
        freed  == FramesAt({p} \X pages)
        new    == [pt EXCEPT ![p] = [v \in Page |-> IF v \in pages THEN Absent ELSE @[v]]]
    IN
    /\ Running(p) /\ address # 0
    /\ pt' = new
    /\ used' = used \ freed
    /\ text' = text \ freed
    /\ stale' = StaleAfter(freed, live, new, stale)
    /\ spoilt' = spoilt \cup (freed \cap Library)
    /\ freedTwice' = freedTwice \cup Twice({p} \X pages, used)
    /\ UNCHANGED <<live, parent, children, overwritten, tables, hung>>

-----------------------------------------------------------------------------

Stopped == hung /\ UNCHANGED vars

\* newProcess: the first process, in slot 0, without a parent, of a program that
\* fits in the memory (with another one the boot ends in kabort).
Init ==
    /\ live = {0}
    /\ parent = [p \in Process |-> None]
    /\ children = [p \in Process |-> {}]
    /\ overwritten = [p \in Process |-> FALSE]
    /\ \E g \in {h \in Program : h.elf} :
          \E frame \in Injection(g.ro \cup g.rw, Frame \ Library) :
             /\ used = Range(frame) \cup Library
             /\ text = {frame[v] : v \in g.ro} \cup Library
             /\ tables = [p \in Process |-> IF p = 0 THEN LoadedTables(g) ELSE {}]
             /\ pt = [p \in Process |->
                        IF p = 0 THEN Loaded(g, frame) ELSE [v \in Page |-> Absent]]
    /\ stale = {} /\ spoilt = {} /\ freedTwice = {} /\ hung = FALSE

Next ==
    \/ \E p \in Process :
          \/ \E g \in Program : \/ Execvp(p, g) \/ ExecvpBinary(p, g)
                                \/ OutOfFrames(p, g.ro \cup g.rw)
          \/ \E child \in Process : Fork(p, child)
          \/ OutOfFrames(p, Writable(p))
          \/ TerminateProcess(p)
          \/ \E address \in {v \in Page : v >= MMAP_START_ADDRESS}, length \in Length :
                \/ /\ p \in Mapper
                   /\ \/ Mmap(p, address, length)
                      \/ Mmap(p, 0, length)
                      \/ Room(p, Chunks(length)) # {} /\ OutOfFrames(p, Run(0, Chunks(length)))
                \/ Munmap(p, address, length)
    \/ Stopped

Spec == Init /\ [][Next]_vars

-----------------------------------------------------------------------------
(* Properties.                                                             *)

\* What a process can write it does not share: a frame mapped writable is
\* allocated and in no other place of any live process, except through an
\* entry whose frame was freed underneath it.  fork, exec, mmap, munmap and
\* exit in any order (usermode.c:627-657, 1244-1248, 1269-1294).  Only of
\* a frame of a library that was freed with a process is nothing known.  The
\* variables keep their types.
WritableIsPrivate ==
    TypeOK /\ \A p \in live : \A v \in Writable(p) : pt[p][v].frame \notin spoilt =>
        /\ pt[p][v].frame \in used \ (text \cup Library)
        /\ \A q \in live : \A w \in Present(q) :
               pt[q][w].frame = pt[p][v].frame => <<q, w>> \in stale \cup {<<p, v>>}

\* No frame is given back that is not allocated, and none twice in one call:
\* of the processes that share read-only pages at most one frees them, though
\* the flag that decides it is that of the process that ends
\* (freeProcessPagedirectory, usermode.c:70-113).  The pages of libraries are
\* the exception, and whatever else such a frame becomes.
NoDoubleFree == freedTwice \subseteq spoilt

\* A process may lose pages to another one's end, but only read-only pages of
\* the program it was forked with: never a page it can write, never one of the
\* text it loaded itself, and the process with no parent never loses any.  Only
\* what has the frame of a library may be lost in other ways, once it was freed.
OnlyInheritedTextIsFreed ==
    \A e \in stale :
        \/ pt[e[1]][e[2]].frame \in spoilt
        \/ /\ ~ pt[e[1]][e[2]].rw
           /\ ~ overwritten[e[1]] /\ parent[e[1]] # None

\* No writable frame leaks: what is allocated and mapped by nobody was a
\* read-only page of a program (which exec of a process with a parent, and
\* the first process's end, leave behind: usermode.c:502 and 547), or is a
\* library's.
WritableNeverLost ==
    hung \/ \A f \in used \ text : \E p \in live : Mapped(p, f)

\* Pages are freed underneath a process in two ways only: a process that has
\* loaded a program of its own ends, or the first process loads another one.
\* Neither mmap, munmap, fork nor another process's exec does it, until a
\* frame of a library has been freed and given to others; a child begins with
\* what its parent has lost.
FreedUnderneathOnlySo ==
    [][\A e \in stale' \ stale :
          \/ pt'[e[1]][e[2]].frame \in spoilt
          \/ e[1] \in live' \ live
          \/ \E p \in live : \/ p \notin live' /\ overwritten[p]
                             \/ parent[p] = None /\ \E g \in Program : Execvp(p, g)]_vars
=============================================================================

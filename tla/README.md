# A verification project for BlueberryOS

TLA+ modules of the parts of BlueberryOS in which order, bounds and sharing
matter: most of the kernel (`src/kernel`), the heap of the C library, the shell
and the editor vim. TLC checks them on small instances, and TLAPS proves the
main results about eight of them. File names without a directory are under
`src/kernel/src/`.

## 1. The system

BlueberryOS is a preemptive 32-bit operating system for one processor. The
kernel has no threads: every entry (system call, interrupt, exception) turns
interrupts off and ends with the `iret` into some process, so that a handler is
atomic against every other. Concurrency is that of processes: which process
makes the next call, and where timer and keyboard fall in between. What spans
several handlers (a process that blocks, a parent and its child, a read that
waits, files and pages that are shared) is therefore where the hard behaviour
is, and so are the places where kernel code re-enters itself (the frame
allocator) and those where many short calls work on one structure that they
must leave in order (heap, directories, the state of shell and editor).

| Component | State | Operations | Interacts with | Hard behaviour | Right when |
|---|---|---|---|---|---|
| Process table, scheduler (`usermode.c`, `idt.c`) | `processes[32]`, `currentProcessID`, `tickCounter` | fork, exit, waitpid, execvp, yield, blocking read, timer, exception | all | exit against waitpid; slots reused while pointers to them remain; no idle process | links consistent, no lost wake-up, a live process runs, no starvation, zombies can be reaped |
| Keyboard, standard input (`usermode.c:1860`, `idt.c:246`) | `stdinBuffer/Index/Size`, `blocked_regs` | key interrupt, `SYS_read` of fd 0, execvp | scheduler (blocks and wakes), heap | keys before, between and during reads; growth and set-back of the buffer | what was typed is read, in order, once |
| Frame allocator (`memory.c`, `map_page_pd`) | `frame_map`, `cached_frame_map`, `framesUsed` | `kalloc_frame(s)`, `kfree_frame(s)` | paging (calls it and is called by it), heap, files, fork | it calls itself while its cache is half filled; last frame; no memory left | one owner per frame, map and counter agree with the owners, what is lent is mapped |
| Paging, address spaces (`paging.c`, `usermode.c`) | page directories and tables | fork's copy, exec, `freeProcessPagedirectory`, mmap, munmap | frame allocator | read-only pages shared by fork, and those of libraries by all, freed by a flag | what can be written is private, nothing freed twice, nothing writable lost |
| Open files (`usermode.c:1436-1682`) | `pfds[64]` of each process; size, frames, content of files | open, read, write, close; fork, execvp, exit | file tree, frame allocator | a file shared by descriptors with positions of their own, truncated by one of them | reads and writes stay in the frames; a file is a byte sequence |
| File tree, initrd (`file.c`) | directories with fixed arrays of entries, files | parse at boot, path lookup, create | open files, users | creation that fails half-way, paths near the limit | the tree is sound, full paths lead back, failures leave it alone |
| Users and groups (`usermode.c`) | `users`, `groups` | create, add to group, check access, look up | file tree | fixed tables that mirror each other | the boot and every call find them consistent |
| Environment (`usermode.c`) | 32 variables per process, 32 global | get, set, unset | fork copies | holes, duplicates of a name | one value per name |
| Heap (`src/libc/stdlib`) | tags in memory, `freePages[]`, `completePages[]` | malloc, calloc, realloc, free | frame allocator or mmap | splitting and merging, lists through free tags | blocks tile memory and are disjoint, lists hold the free ones |
| Terminal (`tty.c`) | cells, cursor, escape parser, saved screen | write a character, `SYS_ttycmd` | shell, programs | parser state over several writes, ends of rows | writes stay in bounds |
| Shell (`src/initrd/src/bin/shell.c`) | `cmd`, cursor, history | keys, history, running a line | terminal, environment, fork and exec | line, cursor and screen kept in step by hand | what is shown is what is run |
| Vim (`src/initrd/src/usr/bin/vim.c`) | lines, cursor, scroll position, modes, search, clipboard | keys, `:` commands, saving | files, terminal | each handler moves text, cursor, view and colours by its own arithmetic | cursor in text and on screen, `:q` loses nothing |
| Loader, boot, entry code, tinf, logging, libc strings and stdio, other programs, ncurses | | | | sequential, hardware set-up, or (tinf) vendored | see section 7 |

## 2. Modules

| Module | Models | Size parameters (value in the code) |
|---|---|---|
| `ProcessTable` | the process table, the scheduler and every call or interrupt that changes them | `PROCESSES_MAX` (32), `TICKS` (3), `LoaderReturns`; bound `MaxRead` |
| `Stdin` | the way of the keys to one process | buffer sizes (32, 128, 32); bounds `MaxTyped`, `MaxRead` |
| `FrameAllocator` | `memory.c` with `map_page_pd`, as far as it re-enters | `FRAMES`, `REGION` (1024), `SKEW`, `CACHE` (4), `PROCESSES`; bound `RUNS` |
| `FrameStore` | abstract: blocks of frames lent and taken back | `FRAMES` |
| `AddressSpaces` | the user half of the page directories | `PROCESSES_MAX`, `TABLES`, `TABLE` (1024 each), `FRAME_SIZE`, `Frame`, `Library`; bounds `Program`, `Length`, `Mapper` |
| `OpenFiles` | descriptors and the files behind them | `MAX_FILE_DESCRIPTORS` (64), `FIRST_FD` (3), `FRAME_4KB`; bounds `MaxSize`, `OpenFlags`, `Initrd`, `InitrdSize` |
| `FileStore` | abstract: files as byte sequences | bound `MaxSize` |
| `FileTree`, `Accounts`, `Environment` | operators on the directories, the users and groups, the variables | `Name`, `NameLen` (what may stand between two slashes), the `MAX_...` of the code |
| `Session` | composes these three: the boot of `kernel_main`, then the calls of a process on names | `Archive` (what the boot loads), `Programs` (its files, all programs), `InitialProgram`; bounds `Path`, `DirPath`, `FilePath`, `Mode`, `Setting`, `Bufsize`, `MaxDirectories`, `MaxFiles`, `BootDirectories` |
| `Heap` | malloc, calloc, realloc and free with their tags | `FRAME_SIZE`, `TAG` (32), classes and limits of `malloc.h`; bounds `FRAMES`, `Size` |
| `Terminal` | operators on the terminal | `VGA_WIDTH`, `VGA_HEIGHT`, the sizes of the escape parser |
| `Shell` | the shell on that terminal | `MAX_LINE_LENGTH`, `HISTORY_SIZE`, `MAX_ARGS`; bounds `Letters`, `Outputs`, `MaxKeys` |
| `Vim` | the editor | `MaxRows`, `MaxCols`, margins, tab; bounds `Typed`, `Searched`, `MaxLines`, `MaxKeys` |
| `ProcessTableProofs`, `InputProofs` (of `Stdin` and `Shell`), `OpenFilesProofs`, `AddressSpacesProofs`, `FrameAllocatorProofs`, `HeapProofs`, `SessionProofs`, `VimProofs` | the proofs | none |
| `MC...` | the instances TLC checks | |

The operators marked "(Mutant: ...)" are altered forms of a definition that
follows: each would break one of the properties, which shows that the property
depends on that definition. Nothing else uses them. A call that fails and
changes nothing is no action, except where a property is about failures.

### ProcessTable

One action is one handler, from the trap to the next entry into user mode.
`initialized`, `state`, `parent`, `children`, `blockedEdx` are the fields of
`process_t`; a slot that is not initialized keeps them, because
`handleWaitpidBlock` reads the state of a parent slot without looking whether
it is in use. `children[]` is indexed by the child's slot in the code, so a set
of slots says the same, and `indexInParent` is the child itself. `cpu` says
what the processor does: `boot`, `user`, `hung` (one of the kernel's endless
loops or `cli; hlt`), or `wild`: when the current slot is the last,
`findNextProcess` starts at `processes[PROCESSES_MAX]`, behind the table; the
outcome depends on what lies there, so the model takes it for a process or
goes on at slot 0, by choice. `LoaderReturns` is TRUE in all runs:
`loadELFIntoMemory` in the repository ends in a debugging `for(;;){}`
(`file.c:423`), which makes everything behind it unreachable; the runs are of
the system without that line, the proofs of both.

### Stdin

The n-th key is the character n, so that order, loss and repetition show.
`KeyToReader`, `KeyToBuffer`, `KeySetback`, `KeyIgnored` are the branches of
`handleKeyboardBlock` for one process with a slot other than 0 (for slot 0 the
kernel saves no key); `SysRead` is the `STDIN_FILENO` branch. The history
variables `got`, `accepted` and `orderly` hold what reads returned, what the
kernel took, and whether a step has yet lost or moved characters: the code does
so when a read leaves more behind than it took, when a read finds some but too
few characters, and when the buffer has reached its largest size.

### FrameAllocator

A step is one iteration of the innermost loop in progress; the calls in
progress are the `stack`. `kalloc_frame` for the rest of the kernel and for a
page table are the same actions with an empty stack and with a mapping that
has no table (`NoTable`). `Return` is what happens to the frame at the end: it
is lent, or becomes the page table the mapping below on the stack asked for. A
new table has only that page, also when a nested call installed one meanwhile
(`map_page_pd` had read "not present" before). Frames already mapped at boot
are those of the first region. `mapPageframe` returns at the first slot of the
process table that is free: `PROCESSES` counts the processes before it, and
nothing is said of the page directories behind it.

`kalloc_frames` takes a run wherever it finds one, also over the border into a
region without page table. Mapping such a frame may call for a refill of the
cache, which finds the frames of the run that have no bit yet: they are lent
twice, used as page tables, or given back while in use. The model goes on
through all that; the history variable `torn` is TRUE from the first refill
within a run, and the properties hold until then. A run that enters such a
region while the cache has frames left is not torn, and covered.

### AddressSpaces

A page-table entry is a frame, the write bit and the mark of mmap; the tables
themselves are the set of those present, since mmap's search depends on them.
Frames are taken by a `CHOOSE` of an injective assignment: they are alike, and
`FrameStore` says what the allocator promises. The frames of `Library` are the
content of the library files; the loader maps them read-only into every process
that needs the library, and `freeProcessPagedirectory` frees them with such a
process, although the file keeps them. `Execvp`, `Fork`,
`TerminateProcess`, `Mmap`, `Munmap` are the whole handlers; any live process
may make the next call. History variables carry the properties: `text` (frames
allocated for read-only pages, or for a library), `stale` (entries whose frame
another process has freed - the code can do that to a child that did not exec),
`spoilt` (frames of libraries that were freed) and `freedTwice` (frames freed
while they were not allocated; as one may have been in the allocator's cache at
the time, it may be lent again whoever has it). Once a library's frame is freed
it may become any page of any process and be freed underneath it by the next
user of the library: the properties are about all other frames, from the first
free to the last, and about what spoilt frames cannot do to them. A program that
is no ELF file hangs the kernel in `loadBinaryIntoMemory`, an allocation without
frames left aborts it; both end in `hung`.

### OpenFiles

A file has a `size`, a number of `frames` and a `content` as long as these; a
fresh frame holds `Junk`. `WriteProcessFd` has the growth of the code: the
size is raised first, and new frames come when the write reaches the end of the
old ones (even exactly). Then as many bytes as the raised size are copied out of
the old frames, past their end: what they bring in is junk until written, and if
the page behind the frames is not mapped the machine halts in the page-fault
handler (`WriteStops`, also for a growth with no memory left and for
`kalloc_frames(0)`). `past` names the accesses of a step that went past the
frames of a file: reads and writes of programs, the clearing of a truncation,
and this copy. `CloseProcessFd` clears the slot
whose index is the descriptor, as the code does. Access rights are a choice
(open may find a file it may read, or not); a call that fails without effect
is no action.

### Session, with FileTree, Accounts and Environment

A path is the sequence of what stands between its slashes, so that trailing and
doubled slashes, absolute and relative paths differ as they do in the code; a
name's length is what the limits look at (`NameLen`). Directories and files are
numbered in the order of their creation and nothing is ever removed. The boot
follows `kernel_main` step by step: root, users, groups, archive, homes,
symbolic directories, global variables. An archive is one that the boot can
load (`ArchiveAssumption`): the directory of every entry stands before it and
has room, the boot programs are there, and, as in a tar of a real tree, no
directory is twice in it and paths leave room for "..". After it one process opens, creates,
changes its directory, sets variables, asks for users and groups, becomes
another user and executes programs; others could change the tree only by the
same calls. An owner that is a null pointer (left by a failed
`createDirectory`) is read through by the access check; the model takes it as
access denied, while `stat` of such an entry ends in the kernel's abort.
`getenv`, `getuid` and `getdirentries` change nothing and are left out, so are
the length errors of `setenv`.

### Heap

An address is one unit of memory, a tag has `TAG` of them and may begin at any;
`mem` holds the tag last written at each address, also after it was given up,
because the code goes on reading and writing such tags. `intact` are the
addresses where all units of that tag are still as they were: writing another tag
that overlaps it, filling a block that reaches into it, or giving back a frame of
it takes an address out (`Outlasting`). A block counts as filled as soon as the
program has it, which is the worst it can do. `headers` are the tags in force
and `blocks` what the program holds. `freePages[-1]` lies before the array and is
read as "no tag". `cut` is TRUE once free has set `next` to NULL in a tag with
successors (`free.c:233-234`); `broken` says what became of it - `twice` when a
block is given out that the program has, `astray` when a link is followed, for
reading or writing, to an address that is not intact: a write there would change
data, a piece of another tag or memory given back, a read brings in what lies
there, and free may find the magic number destroyed and give up half-way. The
model stops there, as nothing can be said of what follows.

### Terminal and Shell

The terminal is a record, its functions are operators on it. The column is
unsigned in the code and may be taken below 0 by a backspace; here it is kept as
a negative number, with the comparisons of the code. `outside` is set by a write
outside of the screen or the arguments of an escape sequence. The shell takes
one key in each step; `cmd` and `history` are cells of memory, since strings
without their `'\0'` run into what follows. `strayed` and `astray` note that a
line was edited in its middle or outgrew its row, or overran its history entry:
from there on the code's arithmetic leaves the line (section 6). What a word
names, and whether the kernel's calls succeed, is left open; a program that runs
may print any of `Outputs`, open escape sequences and saved screens included.

### Vim

The editor's struct `E` is one record, each handler an operator on it, the main
loop an action for each key; commands of the prompt are taken as a whole. Where
a handler reads or writes outside of the text, `E.undefined` says in which one
and the model stops. `split` and `miscoloured` note steps with known omissions
(section 6), so that the properties hold of all the others: lines were split
since the text was saved; lines were joined, or split where the lower half
seems to close the comment the whole line left open. Files are C files;
the `syntax` command, colours other than those of comments and the drawing of
the screen are left out. Ten lines would widen the line numbers, so `MaxLines`
stops there.

## 3. What is checked

Properties are in the modules, with what each is about. Type invariants are
conjuncts of the first invariant of a module.

| Run | Expect | Shows |
|---|---|---|
| `proc` | pass | 3 slots, time slice of 2 ticks: `LinksConsistent`, `ReapSparesCaller`, `NoLostWakeup`, `CurrentIsLive`, `GoneOnlyByExitOrReap`, and under fairness `NoStarvation` |
| `zombie_reaped` | violation | a zombie can be without a parent to reap it (`ZombieCanBeReaped`) |
| `frames` | pass | 7 frames in two regions of 4, cache of 3, one process besides the kernel, runs of 2 anywhere: `OneOwner`, `MapMatchesOwners`, `UsedIsWhatIsHeld`, `LentIsMapped`, `OnlyLastFrameLeaks`, and the refinement `ImplementsStore` |
| `spaces` | pass | 3 processes, 6 pages in 3 tables, 4 frames and one of a library, mmap by one of the processes: `WritableIsPrivate`, `NoDoubleFree`, `OnlyInheritedTextIsFreed`, `FreedUnderneathOnlySo`, `WritableNeverLost` |
| `stdin` | pass | 7 keys, buffer 2 to 8, reads of up to 3: `InputIsAQueue`, `BlockedReadGetsNextKeys` |
| `stdin_order` | violation | a read can return a character twice (`InputInOrder`) |
| `files` | pass | 2 processes with 2 descriptors, one file of up to 2 frames of 2 bytes, two values of a byte: `ContentInFrames` and the refinement `ImplementsFiles` |
| `tree` | pass | the boot with two archives, then calls on names of up to 2 characters and paths of up to 7: `TreeSound`, `FullpathLeadsBack`, `OneValuePerVariable`, `FailureLeavesTree` |
| `heap` | pass | 2 regions of 10 units, tags of 2, requests of 1 and 3: `BlocksTile`, `BlocksDisjoint`, `FreeIsMerged`, `ListsHoldFree`, `BrokenOnlyByCut`, `RegionsCounted` |
| `heap_twice` | violation | malloc can return a block the program already holds (`NeverTwice`) |
| `shell` | pass | 7 keys, 2 rows of 12 cells, lines of 4, history of entries of 3: `LineIsShown`, `HistoryRecalls`, `EditsInBounds` |
| `vim` | pass | 7 keys on four texts, a screen of 4 by 5: `CursorInText`, `CursorOnScreen`, `CommentsFollow`, `SavedMeansWritten`, `FindsWhatIsSought` |

Bounds and why they are enough.

- `proc`: three slots have a grandparent, a parent and a child, a slot that is
  reused while pointers to it remain, and the search over the end of the table;
  two ticks have a tick with and one without a switch.
- `frames`: a refill that crosses into a region without table, a nested refill,
  a last frame and a full memory; runs in the mapped region, over its border and
  behind it, torn and not.
- `spaces`: a page of text, one of data and one of a library, so that a fork
  shares two and copies one; parent, child and grandchild in any order of exec
  and exit, also after the library's frame was freed and lent again. Memory runs
  out. One process calls mmap, with lengths that take one page and two, with a
  gap, a table border and a hint in reach. Frames are symmetric but for the
  library's. `MCBound` keeps two things from being explored further, since a frame
  that is free and lent at once multiplies the states: the library's frame is in
  one page at a time that is no page of the library, and after it was freed, pages of
  mmap are there with two processes, not three. The theorems have no such bounds.
- `stdin`: a buffer of 2 to 8 doubles twice and comes to its set-back; reads of 3
  find less, as much and more than is there.
- `files`: two descriptors and two processes share a file both ways (two
  descriptors of one process, and across fork); two frames have growth by a frame
  and at the boundary; two byte values, since with one a gap that shows old bytes
  would look like a write. `FIRST_FD = 1` in place of 3 keeps close's wrong slot
  within reach of a table of two.
- `tree`: directories of 4 entries (2 besides "." and ".."), files of 2, users and
  groups of 3 and names at their limit all fill up; `MaxDirectories` 18 and
  `MaxFiles` 3 leave room for what the boot makes and two or three creations
  after it, and variables are set while there are no more than `BootDirectories`,
  since the tree and the variables do not depend on each other.
- `heap`: regions with a block at the left end, in the middle and at the right
  end, merges on one and on both sides, several size classes, and a region given
  back while another stays. Tags of two units and requests of odd sizes put a new
  tag, or data, over half of a tag of the past. A class that is above its limit gives regions back at
  once (`MEMORY_MAX_COMPLETE` 1).
- `shell`: a row of 12 cells holds a prompt of 5 or 6 and a line of 4, two rows scroll;
  entries of 3 cells hold a line of two characters whole and are overrun by longer
  ones; outputs that fill a row, that open an escape sequence,
  that step back and that save and restore the screen.
- `vim`: a text longer than the screen, one with a line wider than it, one whose
  first line closes a comment in a string and opens another, an empty one; tabs, quotes and both ends of a comment in the texts, of which the opening
  one and a letter can be typed. Seven keys reach every
  handler, a few of them twice, with a change of mode between.

`CHECK_DEADLOCK FALSE` is set for `Stdin` only: there a read may wait for a key
that is never pressed. The other modules have explicit stuttering actions
(`Stopped`, `Aborted`) for a machine or program that has halted.

Fairness, in `ProcessTable` alone. `Boot` is weakly fair: straight-line code
with interrupts off. The steps that may give up the processor are weakly fair
together: `enter_usermode` sets the interrupt flag for every process, the timer
counts down all the time, and its countdown is restarted only by a switch
(`pit_set_count` in `switchProcess` and `runProcess`), so that in user mode a
timer interrupt or another switch comes. No fairness is assumed of keys, of
exits or of any call a program chooses to make; the other modules describe
calls that end by themselves, so that nothing must eventually happen there.

## 4. What is proved

Every theorem is for all values of the constants that satisfy the named
assumptions of the module, which TLC evaluates on the instances.

**ProcessTable** (tables of every size, slices of every length, both values of
`LoaderReturns`): `TypeCorrect`, `LinksAlwaysConsistent`,
`ReapAlwaysSparesCaller`, `WakeupNeverLost`, `CurrentAlwaysLive` as invariants,
`GoneOnlySo` as an action property, and `ForkFindsRoom`: the error return of
`forkProcess` for a full `children[]` is dead code. The inductive invariant is
the conjunction of the type invariant, the four state invariants and
`BootIsEmpty` (before the boot ends no slot is in use and none has children).
They need each other: exit and waitpid give up the slots in `children[]`, and
only because these point back at their parent (`LinksConsistent`) and no process
is its own grandchild (`ReapSparesCaller`) is the caller not among them; that a
waiting parent is not given up before its child's exit wakes it needs the same
links.

**Stdin** (buffers of all sizes that doubling reaches, any keys and reads):
`InputAlwaysAQueue` and `BlockedReadsGetNextKeys`. That no key is written behind
the buffer depends on the largest size being the smallest one doubled some
times, as 128 is 32: `DoublingAssumption` says so by a set of sizes closed under
doubling. The invariant adds that the size is one of these, and that a read that
waits has taken everything and wants no more than its buffer holds (`Waiting`).

**OpenFiles** (any processes, files, descriptors, frame sizes):
`ContentAlwaysInFrames`: of all accesses to the bytes of a file only the copy of
`usermode.c:1643` goes past its frames. And the refinement: `FilesAreSequences`
states `Spec => ImplementsFiles`, that every step of the kernel is a step of
`FileStore` under the mapping of a file to the bytes below its size, leaves it
alone, or stops the machine; what the copy brings in from behind the frames is
overwritten by the same write or lies behind the size. The invariant (`Inv`) has
`IInv` while the machine runs. Its main part (`Descriptors`) is about gaps: after
a truncation through one descriptor another stands past the end of the file, within the frames still, and
between the end and that position there are zeros - which is why its next write
leaves a gap of zeros and not of old bytes, and what the refinement needs.

**AddressSpaces** (any processes, frames, pages, programs and libraries): all five
properties of the run. The invariant calls a page `Good` when its process
lives, its frame was not freed underneath it, and this frame is not that of a
library that was freed before (`spoilt`), and says: library frames not yet freed
are allocated to their files (`LibrariesKept`); frames of good pages are
allocated, and in `text` exactly when read-only (`GoodUsed`); two good pages with
the same frame, unless that is a library's, are read-only pages of two
processes, of which at most one may free them (`Apart`); stale pages are read-only pages of a process that may not
free them (`StaleInherited`); every writable frame is mapped (`Held`). `Apart` is
what makes the rule of `freeProcessPagedirectory` work: fork gives its child a
cleared `overwritten`, so that of all sharers only the one that loaded the
program itself frees its text. Nothing is known of a page on a spoilt frame, so
the lemmas on freeing (`FramesFreed`, `FreedOnceOnly`) and on taking frames
(`TakenFresh`) show that such pages can do no harm to the others: what is freed
though it is not allocated is spoilt (`NoDoubleFree`), and a frame of another kind
never becomes so. mmap's choice of pages is free because every page
lies in a table that is present (`PagesInTables`).

**FrameAllocator** (memories, regions, caches and numbers of processes of every
size, runs wherever `kalloc_frames` finds them): the five invariants of the run,
and `AllocatorImplementsStore`: every step is one of `FrameStore` or leaves the
blocks alone. All but `LeakIsTheLastFrame` speak of the time before a run is torn,
when a frame still has one owner only; after it they are false, as section
6 says, and `ImplementsStore` allows any step. There is no
assumption on where runs lie. What is shown invariant is `~ torn => IInv`
(`Invariance`): no step leads from a torn memory back, and one that tears a run
has nothing to show. That only the last frame of memory can leak holds of torn
runs, too (`RunsEndEarly`). `IInv` separates three situations. At most one call is in progress (`Calm`): then the
bit map is that of the owners and of the frames the call has in hand (`Marked`),
and page directories differ in the table of the frame being mapped only
(`Tables`). Or this call fills the cache (`Filling`) or maps a run (`Running`).
Or a refill found no table for a frame and calls on (`Doomed`): its cache is
empty, so the table's frame needs another refill, which finds the same; the
invariant says that every frame left needs a table, so that the calls end
in the abort for want of memory, and none of them lends anything.

**Heap** (frames, tags, classes, limits and requests of every size): all six
properties of the run, all but the lists until the heap is broken. `Sound` has
the blocks: they are in
order, each inside its region and linked to its neighbours (`Chained`,
`Regions`), cover exactly the frames the heap has (`Covered`), no two free
neighbours remain (`Merged`), and what the program holds is marked and fits
(`Held`); tags that were given up are marked as in use
(`Unmarked`), which is why the code may go on reading them. Tags in force are
intact (`Clean`): the program's data keeps off them (`TagsOutlast`), and a new tag
overlaps only tags of the past, which it takes out of `intact`. So a write
through a stale link is either to a tag of the past that is whole, and in
nobody's way, or it is reported in `broken`. `Listed` has the lists, until free cuts one:
the heap is not broken, and a rank of tags grows along every list (`Linked`), so that
none has a circle and malloc's walk ends. That a list is complete (what is free
and not in it would have to be linked into a circle) is a count of addresses.
`BrokenOnlyByCut` follows: the defect of `free.c:233` is the only one.
`RegionsCounted` rests on `Tallied`, the same equation on the record of the heap,
which each part of malloc and free is shown to keep: taking a region out of a
list lowers one count, filing one raises one, and splitting, joining and giving
back change neither sum nor regions, but for the block free has in hand
(`CountedBut`). The sum is a fold over the classes; that it changes by what one
of its terms changes (`SumChanges`) is an induction over the number of classes
summed, in the form the provers can instantiate.

**Vim** (texts, screens, margins, tabs and search buffers of every size, any
keys): all five properties of the run. The invariant (`Sound`) is what every
handler needs of the others: cursor, column and view agree with the text, a
selection begins in it, and every row has the comment state of its characters
and the row above. For each handler a lemma says that from a sound editor it
reaches a sound one or reports in `undefined` where it leaves the text, that a
text that counts as saved is unchanged (`Kept`) and that a search stops at what
it seeks (`Finding`); the theorems put them together. The handlers' loops are
recursive functions over the rows or characters; the lemmas `Induction` and
`InductionTo` bring the library's induction to sets, which is what the provers
can instantiate. The assumptions on constants are those of `Vim`: there are two
rows and columns more than margins need, and `Nul` is no character of a text.

**Session** (archives, limits, names, paths, users and variables of every size
and kind): the three invariants of the run, `SessionTree`, `SessionFullpath` and
`SessionOneValue`, and `SessionFailure`, the action property. `SessionInvariant`
states what they follow from. Its main part is `Ordered`. In a `Valid` tree what
a directory holds is there, holds nothing twice and names it as parent, every
directory is entered in its parent, and links lead to directories that are no
links. Beyond that every real directory begins with "." and ".." as far as these
fit in a path (`Dotted`); its full path is that of its parent and its name
(`PathIs`), has no name over the limit (`Short`), and is a way that leads back to
it unless a directory on it was made with a slash in its name (`LeadsBack`); and
what `createDirectory` gave up half-way has no name, no rights and stands below a
path near the limit (`GivenUp`). That last part carries the others: without
rights nobody enters such a directory or makes anything in it, and without a
name it hides no other. A way that leads back keeps leading back because new
entries come behind the old ones, so that the first of a name stays the first
(`Grown`). The rest is about the boot: no step of it fails (`Booting`), the
accounts are those of the step it is at (`Phase`), the programs stay where the
archive put them, and whatever has an owner has one among the users (`Owned`),
which is why a program with the set-user bit leaves its process a user that
there is. The folds over a path or an archive are reasoned about through the
recursive functions that define them. Assumptions: names have lengths, those of
"", "." and ".." being 0, 1 and 2 (`NameAssumption`); limits are large enough for
these (`MaximaAssumption`) and for what the boot makes (`TableAssumption`,
`InputAssumption`); and the archive is one the boot can load (`ArchiveAssumption`).

**Shell** (lines and histories of every size, any keys, any programs):
`HistoryAlwaysRecalled` and `EditsAlwaysInBounds`.
The invariant (`LineInv`, theorem `LineInvariant`) is about memory. `cmd` and
`history` hold characters and `'\0'`, and the last cell of the history is always
`'\0'`: even behind an entry that was overrun, a string that is recalled has an
end. That needs an entry of two cells at least and lines longer than the history
is long (`ShellAssumption`; 64 and 128 in the code). As long as every line entered
is shorter than an entry, each stands in its own (`Stands`) and the entries not
used yet are empty, so that the step below the newest line recalls nothing and
everything recalled fits in `cmd` (`Kept`). The cursor is on the line and nothing
undefined was done, unless the user strayed (`InOrder`); backspace with the cursor
in the middle takes it below 0 only from there on.

Only model-checked: liveness (`NoStarvation`), since the prover has no rules for
fairness; and what the screen holds (`LineIsShown`). That
follows from the characters of whole prompts and outputs, written one by one
through the escape parser: a fold of an operator over a sequence, whose effect
depends on the programs' outputs (`Outputs`), on which no assumption that the
code justifies can be put.

## 5. Findings

Three runs expect a violation and are listed under `findings` in `PROJECT.json`,
with the line of code and the comment it contradicts: `zombie_reaped`
(`usermode.c:1836`), `stdin_order` (`idt.c:284`) and `heap_twice`
(`src/libc/stdlib/free.c:233`).

## 6. What else the code does

Seen while modelling, kept in the models as it is, and not given a run because
nothing in the repository says otherwise.

Kernel:

- The loop before the return of the ELF loader (`file.c:423`) stops the boot.
- A blocked or zombie process is resumed when no other process can run
  (`findNextProcess` returns the current one without looking at its state), so
  `exit` can return; and with the current slot given up and all others waiting
  for the keyboard, the kernel loops in "No current processes??" although a
  key would wake one.
- Libraries: `usermode.c:80` says that freeing what is mapped "only works now
  because the only things I map is the ELF", but the loader also maps the frames of
  a library's own file (`file.c:406-410`), and every program is linked with one
  (`src/initrd/Makefile:5`). A process that did exec frees them when it ends
  (`usermode.c:97-102`); the file keeps them, they are lent to others, perhaps as
  another process's writable page, and the next user of the library that ends
  frees them again (`freedTwice`). What becomes of a library's content from
  there on is open. All this is of the loader as it is meant: at this commit
  its endless loop (`file.c:423`) stops the boot before any process can end. The
  loader also looks at the process's own LIBPATH and then takes the global one in
  any case (`file.c:399-401`); without a library the kernel loops (403).
- `kalloc_frames` sets the bits of a run one by one, each before it maps the frame
  (`memory.c:171`). When a frame lies in a region without page table, and the
  cache is empty, the refill takes frames of the run whose bits are not set yet
  (`torn`): they become page tables or are lent a second time out of the cache,
  and once both holders give back what they got, the second one meets "freed
  multiple times!" (`memory.c:213`). Counter and bit map no longer agree with the
  owners. (With `~ torn` left out, TLC finds `OneOwner` violated after 27 steps.)
- A write that grows a file copies the new size out of the old frames
  (`usermode.c:1632-1643`), and may fault there.
- A refill of the cache that begins in
  a region without page table aborts with memory free (`memory.c:266`); `mapPageframe` stops at
  the first free slot of the process table and leaves out the processes behind it.
- `munmap` counts the pages it cleared and goes on over a gap into the next
  mapping (`usermode.c:1269`); mmap maps one page more than full pages asked for
  when the length is a multiple of the page, and munmap of that length leaves it
  (`usermode.c:1236`); exec of a process with a parent leaves its read-only
  pages allocated.
- `close` clears slot `fd` and not `fd - 3` (`usermode.c:1667`); a write of no
  bytes to a file without frames hangs the kernel (`usermode.c:1640`), one past
  the end extends the file.
- A standard-input buffer that has reached 128 characters never takes
  typed-ahead keys again.
- A directory made as `a/` keeps the slash in its name and is never found again
  (`file.c:687`); `createDirectory` with too long a path leaves an entry without
  name and owner (`file.c:680`), whose `stat` aborts the kernel
  (`usermode.c:1751`); near the limit "." and ".." get no name; a relative path
  that equals the name of the working directory is the working directory; a
  relative entry of PATH makes `findParent` loop (`file.c:571`).
- With a home that exists in the archive, `/home` goes to the user and not the
  home below it (`usermode.c:960`); `getGroupStructR` counts its buffer of
  pointers in units of a pointer to one (`usermode.c:1101`); `open` creates and
  then fails when the new file may not be read by its maker (`usermode.c:1499`,
  1541).

Terminal and shell:

- The test for too many digits of an escape argument guards an empty statement
  (`tty.c:492`), an escape sequence that starts with a letter writes before its
  buffer (`tty.c:516`), `TTY_MOVE_CURSOR` checks nothing (`tty.c:350`), and
  `DELETE_CHARACTERS` moves half of what it should, for it counts cells as bytes
  (`tty.c:392`). Two backspaces at the beginning of a row make the
  terminal jump forward by a row (`tty.c:430`, 528).
- In `shell.c`, a full line takes no key but Enter, not even backspace (184); an
  insertion in the middle loses or doubles a character (285-288) and moves the
  cursor left a little more each time; backspace in the middle drops the last
  character of the line (265-271) and wraps at the beginning; `history` is
  declared with its dimensions swapped (23, 306), so that long lines run into
  each other and a recalled one may overflow `cmd` (224); Down rubs out as if
  the cursor were at the end (236).

Vim (`vim.c`):

- Underflow of the cursor after `o`, `d` or `p` while scrolled (1214) and by `G`
  in a file shorter than the screen (1369); a left at column 0 in the top margin
  stays where it is (1192); text typed on the last row does not move the
  cursor on (1230).
- The search position is that of a text before edits (624, 1325); a search may
  stop at nulls (1488); `strrstr` does not compare the first character and
  `strstr` misses overlapping places; a visual selection outlives a paste (1562);
  the prompt does not check its length (2175).
- Splitting a line does not mark the text as changed (1373), and renders the
  lower half first, from the comment the whole line left open (1403): when the
  lower half seems to close it the lines below keep the colours of a comment,
  e.g. when `" x */ " /*` is split behind its first quote. `wq` does not save
  (884), joining lines does not recolour (1436), a comment closed in column 0 is
  not closed (430), blank lines are read at index -1 (744).
- Saving a text whose first line is empty begins with a write of 0 bytes, which
  hangs the kernel as above. The tests for key 127 (2154, 2218) are dead code, as
  no key of the tables in `idt.c` has it.

## 7. Plan and what is not modelled

Done: the process table, standard input, open files, address spaces, the frame
allocator, the heap, vim, and names, users and variables, each with proofs, two
of them (files, frames) as refinements of an abstract store; terminal and shell, model-checked,
with proofs about line and history.

Left, in this order: an invariant of the terminal (row, column and parser after
each character) and what it says of the screen; a composition of `ProcessTable` and `Stdin` with
keys for several processes, where `blocked_regs` is shared by waitpid and read;
an abstract allocator of disjoint blocks that `Heap` implements until `cut`.

Not modelled: the assembly that enters and leaves the kernel (its effect is that
a handler is one step); the set-up of GDT, TSS, PIC and PIT and of memory at boot
(fixed values); ELF parsing (a program is the set of its pages and libraries); tinf
(vendored); the windows and printing of ncurses, the repository's own library
(output; its `getch` is where vim's keys come from); logging and port I/O (output only); the string and stdio
functions of the C library apart from those vim and the shell call; the other
programs (sequential users of the calls; what they may call is the
nondeterminism of the modules). Left out of modules that are there: allocator
callers that free what they do not hold (`FrameAllocator` lends and takes back
blocks; that address spaces free twice is shown in `AddressSpaces`); the rights of
page tables as against those of pages; library files written while they are
mapped; and what a library's frame does once the kernel itself, and not a
process, is lent it.

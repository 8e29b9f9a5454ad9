--------------------------- MODULE FrameAllocator ---------------------------
(***************************************************************************)
(* The page-frame allocator (memory.c) with the part of paging.c it calls. *)
(* A frame the kernel has not used before must be mapped into every page   *)
(* directory, and a page directory without a table for that region of     *)
(* memory needs a frame for one: kalloc_frame calls itself while it fills  *)
(* its cache or maps a run of frames.  The stack of these calls is part of *)
(* the state; a step is one iteration of the innermost loop.               *)
(***************************************************************************)
EXTENDS Integers, Sequences, FiniteSets

CONSTANTS
    FRAMES,         \* frameMapSize
    REGION,         \* frames under one page table (1024)
    SKEW,           \* frames of the first region below framestart
    CACHE,          \* frame_cache_count (4)
    PROCESSES,      \* live processes in the slots before the first free one, each
                    \* with a page directory of its own
    RUNS            \* bound: lengths of the runs asked of kalloc_frames

ASSUME FramesAssumption    == FRAMES \in Nat \ {0}
ASSUME RegionAssumption    == REGION \in Nat \ {0} /\ SKEW \in 0 .. REGION - 1
ASSUME CacheAssumption     == CACHE \in Nat \ {0} /\ CACHE <= FRAMES /\ CACHE <= REGION - SKEW
ASSUME ProcessesAssumption == PROCESSES \in Nat
ASSUME RunsAssumption      == RUNS \subseteq 2 .. FRAMES

Frame  == 0 .. FRAMES - 1
None   == -1                    \* NULL, or no frame
Region(f) == (f + SKEW) \div REGION
Pd     == 0 .. PROCESSES        \* 0 is the kernel's page_directory
Slot   == 0 .. 2 * CACHE        \* the part of cached_frame_map in use

VARIABLES
    frame_map,          \* the frames whose bit is set
    cached_frame_map, cachedIndex, frame_cache_size,
    framesUsed,
    tables,             \* <<pd, region>>: the page tables there are
    mapped,             \* of each page directory: the frames mapped in it
    stack,              \* the calls in progress, innermost first
    lent,               \* the blocks the rest of the kernel holds
    pagetables,         \* the frames used for page tables
    leaked,             \* frames given back that kfree_frames did not take
    aborted,            \* kabort: out of memory
    torn                \* history: kalloc_cache has filled the cache for a page
                        \* table that a run of kalloc_frames needed

vars == <<frame_map, cached_frame_map, cachedIndex, frame_cache_size, framesUsed,
          tables, mapped, stack, lent, pagetables, leaked, aborted, torn>>

\* An activation of kalloc_cache (first = None) or of the second loop of
\* kalloc_frames: its loop counter, the frame it is mapping (or None) and the
\* next page directory to map it in.
Call(first, count) == [first |-> first, count |-> count, i |-> 0, pf |-> None, pd |-> 0]

CallType == [first : Frame \cup {None}, count : 1 .. FRAMES \cup {CACHE},
             i : 0 .. FRAMES + CACHE, pf : Frame \cup {None}, pd : 0 .. PROCESSES + 1]

FramesOf(b) == b[1] .. b[1] + b[2] - 1
Lent == UNION {FramesOf(b) : b \in lent}

Up == ~ aborted
Top == Head(stack)
InCache == stack # <<>> /\ Top.first = None
InRun   == stack # <<>> /\ Top.first # None
Mapping == stack # <<>> /\ Top.pf # None
NoTable == Mapping /\ Top.pd \in Pd /\ <<Top.pd, Region(Top.pf)>> \notin tables

Replace(call) == stack' = <<call>> \o Tail(stack)

TypeOK ==
    /\ frame_map \subseteq Frame
    /\ cached_frame_map \in [Slot -> Frame \cup {None}]
    /\ cachedIndex \in 0 .. 2 * CACHE + 1
    /\ frame_cache_size \in Slot
    /\ framesUsed \in Int
    /\ tables \subseteq Pd \X (0 .. Region(FRAMES - 1))
    /\ mapped \in [Pd -> SUBSET Frame]
    /\ \A k \in 1 .. Len(stack) : stack[k] \in CallType
    /\ lent \subseteq (Frame \cup {None}) \X (1 .. FRAMES)
    /\ pagetables \subseteq Frame \cup {None}
    /\ leaked \subseteq Frame
    /\ aborted \in BOOLEAN
    /\ torn \in BOOLEAN

-----------------------------------------------------------------------------
(* kalloc_frame.                                                           *)

\* kalloc_frame returns f to its caller, with `rest` the calls in progress:
\* to the rest of the kernel, or to map_page_pd, which makes it the table of
\* the page it is mapping.  The new table holds that page only: it takes the
\* place of a table that was installed meanwhile.
Return(f, rest) ==
    IF rest = <<>>
    THEN /\ lent' = lent \cup {<<f, 1>>}
         /\ stack' = rest
         /\ UNCHANGED <<tables, mapped, pagetables>>
    ELSE LET call == Head(rest)
             region == Region(call.pf)
         IN
         /\ tables' = tables \cup {<<call.pd, region>>}
         /\ mapped' = [mapped EXCEPT ![call.pd] =
                          {g \in @ : Region(g) # region} \cup {call.pf}]
         /\ pagetables' = pagetables \cup {f}
         /\ stack' = <<[call EXCEPT !.pd = @ + 1]>> \o Tail(rest)
         /\ UNCHANGED lent

\* The next cached frame.
TakeCached(rest) ==
    /\ cachedIndex' = cachedIndex + 1
    /\ framesUsed' = framesUsed + 1
    /\ Return(cached_frame_map[cachedIndex], rest)

\* kalloc_frame is called by the rest of the kernel, or for a page table.
FrameWanted == Up /\ (stack = <<>> \/ NoTable)

KallocFrame ==
    /\ FrameWanted
    /\ cachedIndex < frame_cache_size
    /\ TakeCached(stack)
    /\ UNCHANGED <<frame_map, cached_frame_map, frame_cache_size, leaked, aborted, torn>>

\* The cache is empty: kalloc_cache is called.  Within a run it may find the
\* frames of the run, whose bits are not set yet.
KallocFrameRefill ==
    /\ FrameWanted
    /\ cachedIndex >= frame_cache_size
    /\ cachedIndex' = 0
    /\ frame_cache_size' = 0
    /\ stack' = <<Call(None, CACHE)>> \o stack
    /\ torn' = (torn \/ InRun)
    /\ UNCHANGED <<frame_map, cached_frame_map, framesUsed, tables, mapped, lent,
                   pagetables, leaked, aborted>>

-----------------------------------------------------------------------------
(* kalloc_cache.                                                           *)

Clear == Frame \ frame_map

\* (Mutant: the bit of a cached frame is not set.)
KallocCacheFillUnmarked ==
    /\ Up /\ InCache /\ ~ Mapping /\ Top.i < Top.count
    /\ \E f \in Clear :
          /\ \A g \in Clear : f <= g
          /\ cached_frame_map' = [cached_frame_map EXCEPT ![Top.i] = f]
          /\ IF f \in mapped[0]
             THEN /\ frame_cache_size' = frame_cache_size + 1
                  /\ Replace([Top EXCEPT !.i = @ + 1])
             ELSE /\ Replace([Top EXCEPT !.pf = f, !.pd = 0])
                  /\ UNCHANGED frame_cache_size
    /\ UNCHANGED <<frame_map, cachedIndex, framesUsed, tables, mapped, lent, pagetables,
                   leaked, aborted, torn>>

\* One iteration: the first clear bit is set and its frame cached; when its
\* page is not there, it is mapped before the slot counts.
KallocCacheFill ==
    /\ Up /\ InCache /\ ~ Mapping /\ Top.i < Top.count
    /\ \E f \in Clear :
          /\ \A g \in Clear : f <= g
          /\ frame_map' = frame_map \cup {f}
          /\ cached_frame_map' = [cached_frame_map EXCEPT ![Top.i] = f]
          /\ IF f \in mapped[0]
             THEN /\ frame_cache_size' = frame_cache_size + 1
                  /\ Replace([Top EXCEPT !.i = @ + 1])
             ELSE /\ Replace([Top EXCEPT !.pf = f, !.pd = 0])
                  /\ UNCHANGED frame_cache_size
    /\ UNCHANGED <<cachedIndex, framesUsed, tables, mapped, lent, pagetables, leaked,
                   aborted, torn>>

\* The loop ends, early when there are no more frames, and the kalloc_frame
\* that called goes on.
KallocCacheReturn ==
    /\ Up /\ InCache /\ ~ Mapping
    /\ Top.i = Top.count \/ (Clear = {} /\ Top.i # 0)
    /\ TakeCached(Tail(stack))
    /\ UNCHANGED <<frame_map, cached_frame_map, frame_cache_size, leaked, aborted, torn>>

\* "Only abort if we don't have any more frames at first cache".
KallocCacheAbort ==
    /\ Up /\ InCache /\ ~ Mapping
    /\ Clear = {} /\ Top.i = 0
    /\ aborted' = TRUE
    /\ UNCHANGED <<frame_map, cached_frame_map, cachedIndex, frame_cache_size, framesUsed,
                   tables, mapped, stack, lent, pagetables, leaked, torn>>

-----------------------------------------------------------------------------
(* mapPageframe and map_page_pd.  The "security measure" at the end of     *)
(* mapPageframe is reached only when all 32 processes are live: the loops  *)
(* return at the first slot that is not.                                   *)

\* (Mutant: a frame is mapped for the kernel only.)
MapPageframeKernelOnly ==
    /\ Up /\ Mapping /\ Top.pd \in Pd /\ ~ NoTable
    /\ mapped' = [mapped EXCEPT ![Top.pd] = @ \cup {Top.pf}]
    /\ Replace([Top EXCEPT !.pd = PROCESSES + 1])
    /\ UNCHANGED <<frame_map, cached_frame_map, cachedIndex, frame_cache_size, framesUsed,
                   tables, lent, pagetables, leaked, aborted, torn>>

\* The page directory has a table for the frame's region.
MapPageframe ==
    /\ Up /\ Mapping /\ Top.pd \in Pd /\ ~ NoTable
    /\ mapped' = [mapped EXCEPT ![Top.pd] = @ \cup {Top.pf}]
    /\ Replace([Top EXCEPT !.pd = @ + 1])
    /\ UNCHANGED <<frame_map, cached_frame_map, cachedIndex, frame_cache_size, framesUsed,
                   tables, lent, pagetables, leaked, aborted, torn>>

\* The frame is mapped everywhere: back in the loop that wanted it.
MapPageframeReturn ==
    /\ Up /\ Mapping /\ Top.pd \notin Pd
    /\ Replace([Top EXCEPT !.pf = None, !.pd = 0, !.i = @ + 1])
    /\ frame_cache_size' = IF InCache THEN frame_cache_size + 1 ELSE frame_cache_size
    /\ UNCHANGED <<frame_map, cached_frame_map, cachedIndex, framesUsed, tables, mapped,
                   lent, pagetables, leaked, aborted, torn>>

-----------------------------------------------------------------------------
(* kalloc_frames and the two ways to free.                                 *)

\* (Mutant: the search does not start again after a frame in use.)
ClearFirsts(n) == {s \in Clear : s + n < FRAMES}

\* The runs of n clear frames the search can end at: it gives up when it has
\* looked at the last frame, even if that frame completes a run.
ClearRuns(n) == {s \in Frame : s + n < FRAMES /\ s .. s + n - 1 \subseteq Clear}

KallocFrames(n) ==
    /\ Up /\ stack = <<>>
    /\ \E s \in ClearRuns(n) :
          /\ \A t \in ClearRuns(n) : s <= t
          /\ stack' = <<Call(s, n)>>
    /\ UNCHANGED <<frame_map, cached_frame_map, cachedIndex, frame_cache_size, framesUsed,
                   tables, mapped, lent, pagetables, leaked, aborted, torn>>

KallocFramesAbort(n) ==
    /\ Up /\ stack = <<>>
    /\ ClearRuns(n) = {}
    /\ aborted' = TRUE
    /\ UNCHANGED <<frame_map, cached_frame_map, cachedIndex, frame_cache_size, framesUsed,
                   tables, mapped, stack, lent, pagetables, leaked, torn>>

KallocFramesMark ==
    /\ Up /\ InRun /\ ~ Mapping /\ Top.i < Top.count
    /\ LET f == Top.first + Top.i IN
          /\ frame_map' = frame_map \cup {f}
          /\ IF f \in mapped[0] THEN Replace([Top EXCEPT !.i = @ + 1])
                                ELSE Replace([Top EXCEPT !.pf = f, !.pd = 0])
    /\ UNCHANGED <<cached_frame_map, cachedIndex, frame_cache_size, framesUsed, tables,
                   mapped, lent, pagetables, leaked, aborted, torn>>

\* (Mutant: a run counts as one frame.)
KallocFramesReturnOne ==
    /\ Up /\ InRun /\ ~ Mapping /\ Top.i = Top.count
    /\ lent' = lent \cup {<<Top.first, Top.count>>}
    /\ framesUsed' = framesUsed + 1
    /\ stack' = <<>>
    /\ UNCHANGED <<frame_map, cached_frame_map, cachedIndex, frame_cache_size, tables,
                   mapped, pagetables, leaked, aborted, torn>>

KallocFramesReturn ==
    /\ Up /\ InRun /\ ~ Mapping /\ Top.i = Top.count
    /\ lent' = lent \cup {<<Top.first, Top.count>>}
    /\ framesUsed' = framesUsed + Top.count
    /\ stack' = <<>>
    /\ UNCHANGED <<frame_map, cached_frame_map, cachedIndex, frame_cache_size, tables,
                   mapped, pagetables, leaked, aborted, torn>>

\* A block got from kalloc_frame goes back through kfree_frame.
KfreeFrame(b) ==
    /\ Up /\ stack = <<>> /\ b \in lent /\ b[2] = 1
    /\ lent' = lent \ {b}
    /\ IF b[1] \in Frame
       THEN /\ frame_map' = frame_map \ {b[1]}
            /\ framesUsed' = framesUsed - 1
       ELSE UNCHANGED <<frame_map, framesUsed>>
    /\ UNCHANGED <<cached_frame_map, cachedIndex, frame_cache_size, tables, mapped, stack,
                   pagetables, leaked, aborted, torn>>

\* (Mutant: the last frame of the run keeps its bit.)
KfreeFramesShort(b) ==
    /\ Up /\ stack = <<>> /\ b \in lent /\ b[1] \in Frame
    /\ lent' = lent \ {b}
    /\ frame_map' = frame_map \ (b[1] .. b[1] + b[2] - 2)
    /\ framesUsed' = framesUsed - b[2]
    /\ UNCHANGED <<cached_frame_map, cachedIndex, frame_cache_size, tables, mapped, stack,
                   pagetables, leaked, aborted, torn>>

\* (Mutant: the range check is off by one more.)
KfreeFramesStrict(b) ==
    /\ Up /\ stack = <<>> /\ b \in lent /\ b[1] \in Frame
    /\ lent' = lent \ {b}
    /\ IF b[1] + b[2] + 1 >= FRAMES
       THEN /\ leaked' = leaked \cup FramesOf(b)
            /\ UNCHANGED <<frame_map, framesUsed>>
       ELSE /\ frame_map' = frame_map \ FramesOf(b)
            /\ framesUsed' = framesUsed - b[2]
            /\ UNCHANGED leaked
    /\ UNCHANGED <<cached_frame_map, cachedIndex, frame_cache_size, tables, mapped, stack,
                   pagetables, aborted, torn>>

\* A block got from kalloc_frames, of one frame too, goes back through
\* kfree_frames: it refuses a block that ends with the last frame.
KfreeFrames(b) ==
    /\ Up /\ stack = <<>> /\ b \in lent /\ b[1] \in Frame
    /\ lent' = lent \ {b}
    /\ IF b[1] + b[2] >= FRAMES
       THEN /\ leaked' = leaked \cup FramesOf(b)
            /\ UNCHANGED <<frame_map, framesUsed>>
       ELSE /\ frame_map' = frame_map \ FramesOf(b)
            /\ framesUsed' = framesUsed - b[2]
            /\ UNCHANGED leaked
    /\ UNCHANGED <<cached_frame_map, cachedIndex, frame_cache_size, tables, mapped, stack,
                   pagetables, aborted, torn>>

\* After kabort nothing happens.
Aborted == aborted /\ UNCHANGED vars

-----------------------------------------------------------------------------

\* memory_initialize, which fills the cache; boot.asm has mapped the frames of
\* the first region.
Init ==
    /\ frame_map = 0 .. CACHE - 1
    /\ cached_frame_map = [k \in Slot |-> IF k < CACHE THEN k ELSE None]
    /\ cachedIndex = 0
    /\ frame_cache_size = CACHE
    /\ framesUsed = 0
    /\ tables = {<<p, 0>> : p \in Pd}
    /\ mapped = [p \in Pd |-> {f \in Frame : Region(f) = 0}]
    /\ stack = <<>>
    /\ lent = {}
    /\ pagetables = {}
    /\ leaked = {}
    /\ aborted = FALSE
    /\ torn = FALSE

Next ==
    \/ KallocFrame \/ KallocFrameRefill
    \/ KallocCacheFill \/ KallocCacheReturn \/ KallocCacheAbort
    \/ MapPageframe \/ MapPageframeReturn
    \/ \E n \in RUNS : KallocFrames(n) \/ KallocFramesAbort(n)
    \/ KallocFramesMark \/ KallocFramesReturn
    \/ \E b \in lent : KfreeFrame(b) \/ KfreeFrames(b)
    \/ Aborted

Spec == Init /\ [][Next]_vars

-----------------------------------------------------------------------------
(* Properties.                                                             *)

\* The cached frames that are still to be handed out.
Cached == {cached_frame_map[k] : k \in {k \in Slot : cachedIndex <= k /\ k < frame_cache_size}}

\* As long as no refill has gone for the frames of a run in progress, the
\* variables keep their types and every frame has one owner: a block lent out,
\* a page table, the cache.
OneOwner ==
    ~ torn =>
        /\ TypeOK
        /\ \A b, c \in lent : b # c => FramesOf(b) \cap FramesOf(c) = {}
        /\ Lent \cap pagetables = {} /\ Lent \cap Cached = {} /\ pagetables \cap Cached = {}
        /\ leaked \cap (Lent \cup pagetables \cup Cached) = {}

\* A frame with an owner has its bit set, or the next search would find it,
\* and a frame without one can be found: until a run was torn.
MapMatchesOwners ==
    ~ torn /\ stack = <<>> => frame_map = Lent \cup pagetables \cup Cached \cup leaked

\* The kernel reports the memory it uses: framesUsed counts what is lent,
\* what tables take, and what kfree_frames refused, until a run was torn.
UsedIsWhatIsHeld ==
    ~ torn => framesUsed = Cardinality(Lent) + Cardinality(pagetables) + Cardinality(leaked)

\* Whoever gets a frame can use it: it is mapped in every page directory that
\* mapPageframe comes to, those of the processes before the first free slot.
\* It holds until a run was torn: then a new table may have replaced another.
LentIsMapped == ~ torn => \A p \in Pd : Lent \cup pagetables \subseteq mapped[p]

\* kfree_frames loses the last frame of memory at most, whatever came before.
OnlyLastFrameLeaks == leaked \subseteq {FRAMES - 1}

Store == INSTANCE FrameStore

\* Until a run is torn the allocator is a FrameStore to the rest of the kernel:
\* whatever it calls in between, it lends frames that are in no other block.
ImplementsStore == Store!Init /\ [][Store!Next \/ torn]_lent
=============================================================================

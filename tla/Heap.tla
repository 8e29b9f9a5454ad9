-------------------------------- MODULE Heap --------------------------------
(***************************************************************************)
(* The heap of a program, or of the kernel: malloc, free and realloc of    *)
(* libc/stdlib.  Memory is cut into blocks, each behind a tag that links   *)
(* it to its neighbours (splitprev, splitnext) and, when it is free, into  *)
(* the list of its size class (prev, next).  A call runs to its end before *)
(* the next: a program has one thread, the kernel keeps interrupts off.    *)
(* An address is a unit of memory; a tag has TAG of them.                  *)
(***************************************************************************)
EXTENDS Integers, FiniteSets, SequencesExt

CONSTANTS
    FRAME_SIZE,             \* 4096
    FRAMES,                 \* frames the heap may get
    TAG,                    \* sizeof(tag_t), 32
    MEMORY_MIN_EXP,         \* 8: class 0 goes up to 2^9 - 1
    MEMORY_TOT_EXP,         \* 24 classes
    MEMORY_MIN_FRAMES,      \* 4 frames are asked for at least
    MEMORY_MAX_COMPLETE,    \* 5 unused regions of a class are cut
    Size                    \* bound: the sizes programs ask for

Address == 0 .. FRAMES * FRAME_SIZE - 1
Class   == 0 .. MEMORY_TOT_EXP - 1
NULL    == -1
Allocated == -1             \* the index of a tag in use

ASSUME SizesAssumption ==
    /\ {FRAME_SIZE, FRAMES, TAG, MEMORY_TOT_EXP, MEMORY_MIN_FRAMES} \subseteq Nat \ {0}
    /\ {MEMORY_MIN_EXP, 2^MEMORY_MIN_EXP, MEMORY_MAX_COMPLETE} \subseteq Nat
    /\ Size \subseteq Nat \ {0}

VARIABLES
    mem,        \* at each address, the tag last written there
    intact,     \* history: the addresses that still hold that tag, every unit of it
    freePages,  \* for each class, the first tag of its list
    completePages,  \* for each class, a count of regions that are one free block
    frames,     \* the frames the heap has
    headers,    \* history: the addresses that hold a tag now
    blocks,     \* history: the blocks of the program, address of the tag to size
    cut,        \* history: free has cut the list behind or before a tag
    broken      \* history: malloc or free went to what is no tag any more, or gave a
                \* block out twice

vars == <<mem, intact, freePages, completePages, frames, headers, blocks, cut, broken>>

\* The units of a tag, and of the program's data in the blocks f.
Units(a) == a .. a + TAG - 1
Data(f)  == UNION {b + TAG .. b + TAG + f[b] - 1 : b \in DOMAIN f}

\* The tags of which nothing lies in these units: they outlast that the units
\* are written, or given back.
Outlasting(tags, units) == {a \in tags : Units(a) \cap units = {}}

heap == [mem |-> mem, intact |-> intact, first |-> freePages, complete |-> completePages,
         frames |-> frames, headers |-> headers, cut |-> cut, broken |-> broken]

NoTag == [realsize |-> 0, index |-> Allocated, prev |-> NULL, next |-> NULL,
          splitprev |-> NULL, splitnext |-> NULL]

TypeOK ==
    /\ mem \in [Address -> [realsize : 0 .. FRAMES * FRAME_SIZE, index : Class \cup {Allocated},
                            prev : Address \cup {NULL}, next : Address \cup {NULL},
                            splitprev : Address \cup {NULL}, splitnext : Address \cup {NULL}]]
    /\ intact \subseteq Address
    /\ freePages \in [Class -> Address \cup {NULL}]
    /\ completePages \in [Class -> Int]
    /\ \A i \in Class : completePages[i] <= MEMORY_MAX_COMPLETE
    /\ frames \subseteq 0 .. FRAMES - 1
    /\ headers \subseteq Address /\ DOMAIN blocks \subseteq Address
    /\ cut \in BOOLEAN /\ broken \in {"no", "twice", "astray"}

\* getIndex: the class of a size; class 0 takes all that is small.
Exponent(n) == CHOOSE e \in 0 .. n : 2^e <= n /\ n < 2^(e + 1)
GetIndex(n) == IF n <= 2^MEMORY_MIN_EXP THEN 0 ELSE Exponent(n) - MEMORY_MIN_EXP

Pages(n) == (n + FRAME_SIZE - 1) \div FRAME_SIZE
RegionPages(n) == Max({Pages(n), MEMORY_MIN_FRAMES})

\* The classes are enough for the largest region: they reach to 2^32 - 1.
ASSUME ClassesAssumption ==
    \A size \in Size : \A n \in 1 .. RegionPages(size + TAG) * FRAME_SIZE - TAG :
        GetIndex(n) \in Class

-----------------------------------------------------------------------------
(* The steps that malloc and free are made of, on a heap h.  A link may    *)
(* lead to where a tag has been.  As long as nothing has been written over *)
(* a part of it since, that is harmless; but what is read there may be a   *)
(* piece of the program's data or of another tag by now, and what is       *)
(* written there destroys it.                                              *)

\* An address where no tag is any more.
Astray(h, a) == a \notin h.intact

Set(h, a, field, value) ==
    IF a = NULL THEN h
    ELSE [h EXCEPT !.mem[a][field] = value,
                   !.broken = IF Astray(h, a) THEN "astray" ELSE @]

SetFirst(h, i, a) == [h EXCEPT !.first[i] = a]

\* A tag is taken out of its list.  For a tag that was in use the code looks at
\* freePages[-1], which is no tag of the heap.
Unlink(h, a) ==
    LET t == h.mem[a]
        g == IF t.index # Allocated /\ h.first[t.index] = a THEN SetFirst(h, t.index, t.next) ELSE h
    IN Set(Set(g, t.prev, "next", t.next), t.next, "prev", t.prev)

CutTies(h, a) == Set(Set(h, a, "prev", NULL), a, "next", NULL)

\* (Mutant: the first tag of the list is not told of the new one.)
PushUnlinked(h, a, i) == SetFirst(Set(h, a, "next", h.first[i]), i, a)

\* A tag becomes the first of a list.
Push(h, a, i) ==
    LET g == IF h.first[i] # NULL THEN Set(Set(h, a, "next", h.first[i]), h.first[i], "prev", a)
             ELSE h
    IN SetFirst(g, i, a)

\* (Mutant: the block after the right one keeps its link to the absorbed tag.)
JoinHalf(h, left, right) ==
    [Set(Set(h, left, "realsize", h.mem[left].realsize + h.mem[right].realsize),
         left, "splitnext", h.mem[right].splitnext) EXCEPT !.headers = @ \ {right}]

\* Two neighbours become one; the tag of the right one is left in the data.
Join(h, left, right) ==
    LET after == h.mem[right].splitnext
        gone  == Set(CutTies(Unlink(h, right), right), right, "index", Allocated)
        grown == Set(gone, left, "realsize", h.mem[left].realsize + h.mem[right].realsize)
    IN [Set(Set(grown, left, "splitnext", after), after, "splitprev", left)
            EXCEPT !.headers = @ \ {right}]

IsFree(h, a) == a # NULL /\ h.mem[a].index # Allocated

\* free's first loop: while the block to the left is free, it takes in the tag
\* in hand and is the next one in hand.  Each turn takes a tag away.
JoinLeft(s) ==
    LET left == s.heap.mem[s.tag].splitprev
    IN IF IsFree(s.heap, left) THEN [heap |-> Join(s.heap, left, s.tag), tag |-> left] ELSE s

MergeLeft(h, a) ==
    LET turn[n \in 0 .. Cardinality(h.headers)] ==
            IF n = 0 THEN [heap |-> h, tag |-> a] ELSE JoinLeft(turn[n - 1])
    IN turn[Cardinality(h.headers)]

\* (Mutant: free looks to the left only.)
MergeRightNot(h, a) == h

\* Its second loop.
JoinRight(h, a) ==
    IF IsFree(h, h.mem[a].splitnext) THEN Join(h, a, h.mem[a].splitnext) ELSE h

MergeRight(h, a) ==
    LET turn[n \in 0 .. Cardinality(h.headers)] == IF n = 0 THEN h ELSE JoinRight(turn[n - 1], a)
    IN turn[Cardinality(h.headers)]

-----------------------------------------------------------------------------
(* malloc.                                                                 *)

\* The tags of a list in their order, and NULL behind its end.  (A list that
\* has become a circle is followed for as many turns as there are addresses.)
Walk(h, i) ==
    LET tag[n \in 1 .. FRAMES * FRAME_SIZE] ==
            IF n = 1 THEN h.first[i]
            ELSE IF tag[n - 1] = NULL THEN NULL ELSE h.mem[tag[n - 1]].next
    IN tag

\* Where in a list there is a tag that fits; the classes whose list has one.
Fitting(h, size, tags) ==
    {n \in DOMAIN tags : tags[n] # NULL /\ size + TAG <= h.mem[tags[n]].realsize}
Serving(h, size) == {i \in Class : i >= GetIndex(size) /\ Fitting(h, size, Walk(h, i)) # {}}

\* The first tag that fits, in the first class that has one, or NULL.
FirstFitting(h, size, tags) == tags[Min(Fitting(h, size, tags))]
Found(h, size) ==
    IF Serving(h, size) = {} THEN NULL
    ELSE FirstFitting(h, size, Walk(h, Min(Serving(h, size))))

\* The tags malloc looks at: in each list, those up to the first that fits.
LookedThrough(tags, fit) == {tags[n] : n \in {m \in DOMAIN tags : \A k \in fit : m <= k}}
LookedAt(h, size) ==
    (UNION {LookedThrough(Walk(h, i), Fitting(h, size, Walk(h, i))) :
               i \in {j \in Class : j >= GetIndex(size) /\ \A k \in Serving(h, size) : j <= k}})
        \ {NULL}

\* Room for a region of so many frames, and where it goes.
Bases(h, pages) == {b \in 0 .. FRAMES - pages : (b .. b + pages - 1) \cap h.frames = {}}

NewRegion(h, size) ==
    LET pages == RegionPages(size + TAG)
        base  == Min(Bases(h, pages))
        a     == base * FRAME_SIZE
    IN [heap |-> [h EXCEPT !.frames = @ \cup (base .. base + pages - 1),
                           !.headers = @ \cup {a},
                           !.intact = Outlasting(@, Units(a)) \cup {a},
                           !.mem[a] = [NoTag EXCEPT !.realsize = pages * FRAME_SIZE]],
        tag |-> a]

\* (Mutant: a region that is used again is still counted as unused.)
TakeUncounted(h, a, size) ==
    [CutTies(Unlink(h, a), a) EXCEPT
        !.mem[a].index = Allocated,
        !.broken = IF h.mem[a].index = Allocated THEN "twice" ELSE @]

\* (Mutant: the tag is not marked as in use.)
TakeUnmarked(h, a, size) ==
    [CutTies(Unlink(h, a), a) EXCEPT
        !.complete[GetIndex(size)] =
            IF h.mem[a].splitprev = NULL /\ h.mem[a].splitnext = NULL THEN @ - 1 ELSE @]

\* A tag from a list: it is unlinked and marked as in use, and the regions of
\* the class asked for, not of the tag's, are counted down.
Take(h, a, size) ==
    LET whole == h.mem[a].splitprev = NULL /\ h.mem[a].splitnext = NULL
        g     == CutTies(Unlink(h, a), a)
    IN [g EXCEPT !.mem[a].index = Allocated,
                 !.complete[GetIndex(size)] = IF whole THEN @ - 1 ELSE @,
                 !.broken = IF h.mem[a].index = Allocated THEN "twice" ELSE @]

Remainder(h, a, size) == h.mem[a].realsize - size - TAG

\* What is left of a block becomes one of its own if it is not too small.
Splits(h, a, size) == Remainder(h, a, size) - TAG > 2^MEMORY_MIN_EXP

Split(h, a, size) ==
    LET rest  == a + TAG + size
        after == h.mem[a].splitnext
        i     == GetIndex(Remainder(h, a, size) - TAG)
        carved == [h EXCEPT !.headers = @ \cup {rest},
                           !.intact = Outlasting(@, Units(rest)) \cup {rest},
                           !.mem[rest] = [NoTag EXCEPT !.realsize = Remainder(h, a, size),
                                             !.index = i, !.splitprev = a, !.splitnext = after],
                           !.mem[a].realsize = TAG + size,
                           !.mem[a].splitnext = rest]
    IN IF Splits(h, a, size) THEN Push(Set(carved, after, "splitprev", rest), rest, i) ELSE h

\* Whether malloc can serve a request, its tag, and the heap afterwards.
HasRoom(h, size) == Found(h, size) # NULL \/ Bases(h, RegionPages(size + TAG)) # {}

Malloc(h, size) ==
    LET a == Found(h, size)
        r == IF a # NULL THEN [heap |-> Take(h, a, size), tag |-> a] ELSE NewRegion(h, size)
    IN [heap |-> [Split(r.heap, r.tag, size) EXCEPT
                    !.broken = IF \E b \in LookedAt(h, size) : Astray(h, b) THEN "astray" ELSE @],
        tag |-> r.tag]

-----------------------------------------------------------------------------
(* free.                                                                   *)

\* A region that is one free block when enough of its class are cut: unlinked
\* and given back.
GiveBack(h, a) ==
    LET g == Set(CutTies(Unlink(h, a), a), a, "index", Allocated)
        region == a \div FRAME_SIZE .. a \div FRAME_SIZE + RegionPages(h.mem[a].realsize) - 1
    IN [g EXCEPT !.frames = @ \ region, !.headers = @ \ {a},
                 !.intact = {b \in @ : \A x \in Units(b) : x \div FRAME_SIZE \notin region}]

\* The tag goes to the front of the list of its class, unless it is there.
File(h, a, i) ==
    IF h.mem[a].index = i THEN h ELSE [Push(Unlink(h, a), a, i) EXCEPT !.mem[a].index = i]

\* Whether an unused region is kept.
Keeps(h, i) == h.complete[i] < MEMORY_MAX_COMPLETE

Free(h, b) ==
    LET left   == MergeLeft(h, b)
        a      == left.tag
        merged == MergeRight(left.heap, a)
        i      == GetIndex(merged.mem[a].realsize - TAG)
        whole  == merged.mem[a].splitprev = NULL /\ merged.mem[a].splitnext = NULL
        filed  == File([merged EXCEPT !.complete[i] = IF whole THEN @ + 1 ELSE @], a, i)
    IN IF whole /\ ~ Keeps(merged, i) THEN GiveBack(merged, a)
       ELSE [CutTies(filed, a) EXCEPT
                !.cut = @ \/ filed.mem[a].next # NULL \/ filed.mem[a].prev # NULL]

-----------------------------------------------------------------------------

\* The program has filled its blocks f: nothing is left of the tags of the past
\* that reach into them.
Fill(h, f) == [h EXCEPT !.intact = Outlasting(@, Data(f))]

\* The heap after a call, and after what the program does with its blocks.
Become(h) ==
    /\ intact' = Fill(h, blocks').intact
    /\ mem' = [a \in Address |-> IF a \in intact' THEN h.mem[a] ELSE NoTag]
    /\ freePages' = h.first /\ completePages' = h.complete /\ frames' = h.frames
    /\ headers' = h.headers /\ cut' = h.cut /\ broken' = h.broken

Hold(f, a, size) == [b \in DOMAIN f \cup {a} |-> IF b = a THEN size ELSE f[b]]
Drop(f, a) == [b \in DOMAIN f \ {a} |-> f[b]]

\* malloc; calloc clears the block besides.
CallMalloc(size) ==
    /\ broken = "no" /\ HasRoom(heap, size)
    /\ \E m \in {Malloc(heap, size)} :
          blocks' = Hold(blocks, m.tag, size) /\ Become(m.heap)

CallFree(b) ==
    /\ broken = "no" /\ b \in DOMAIN blocks
    /\ blocks' = Drop(blocks, b)
    /\ \E h \in {Free(heap, b)} : Become(h)

\* realloc in place: the block has the room.
ReallocInPlace(b, size) ==
    /\ broken = "no" /\ b \in DOMAIN blocks
    /\ size <= mem[b].realsize - TAG
    /\ blocks' = Hold(blocks, b, size)
    /\ Become(heap)

\* realloc by a new block, a copy, and a free of the old one.
ReallocMoves(b, size) ==
    /\ broken = "no" /\ b \in DOMAIN blocks
    /\ size > mem[b].realsize - TAG
    /\ HasRoom(heap, size)
    /\ \E m \in {Malloc(heap, size)} :
          /\ blocks' = Hold(Drop(blocks, b), m.tag, size)
          /\ \E h \in {IF m.heap.broken = "no"
                      THEN Free(Fill(m.heap, blocks'), b) ELSE m.heap} : Become(h)

\* The heap is broken, or there is no memory left.
Stopped == (broken # "no" \/ \A n \in Size : ~ HasRoom(heap, n)) /\ UNCHANGED vars

Init ==
    /\ mem = [a \in Address |-> NoTag] /\ intact = {}
    /\ freePages = [i \in Class |-> NULL]
    /\ completePages = [i \in Class |-> 0]
    /\ frames = {} /\ headers = {}
    /\ blocks = [a \in {} |-> 0]
    /\ cut = FALSE /\ broken = "no"

Next ==
    \/ \E size \in Size : CallMalloc(size)
    \/ \E b \in Address : CallFree(b)
    \/ \E b \in Address, size \in Size : ReallocInPlace(b, size) \/ ReallocMoves(b, size)
    \/ Stopped

Spec == Init /\ [][Next]_vars

-----------------------------------------------------------------------------
(* Properties.                                                             *)

\* The blocks tile the regions: behind every tag, realsize further on, is the
\* tag splitnext names, whose splitprev leads back, or the end of the region.
\* The variables keep their types.
BlocksTile ==
    /\ TypeOK
    /\ broken = "no" =>
          /\ \A a \in headers :
                LET t == mem[a] IN
                /\ t.realsize >= TAG
                /\ (a .. a + t.realsize - 1) \cap headers = {a}
                /\ t.splitnext # NULL => t.splitnext = a + t.realsize /\ t.splitnext \in headers
                                         /\ mem[t.splitnext].splitprev = a
                /\ t.splitnext = NULL => (a + t.realsize) % FRAME_SIZE = 0
          /\ \A x \in Address : x \div FRAME_SIZE \in frames <=>
                \E a \in headers : a <= x /\ x < a + mem[a].realsize

\* What the program holds is marked as in use and large enough, and the blocks
\* of the program are apart from each other and from every tag.
BlocksDisjoint ==
    broken = "no" => \A b \in DOMAIN blocks :
        /\ b \in headers /\ mem[b].index = Allocated
        /\ \A a \in headers \cup {c * FRAME_SIZE : c \in (0 .. FRAMES) \ frames} :
              a <= b \/ a >= b + TAG + blocks[b]

\* Free neighbours are always one block, and its class is that of its size,
\* through all splitting and merging.
FreeIsMerged ==
    broken = "no" => \A a \in headers : mem[a].index # Allocated =>
        /\ mem[a].index = GetIndex(mem[a].realsize - TAG)
        /\ mem[a].splitnext # NULL => mem[mem[a].splitnext].index = Allocated

\* Until free first cuts a list, the lists hold the free blocks of their class,
\* all of them, and are linked both ways.
ListsHoldFree ==
    ~ cut => \A i \in Class : LET tags == Walk(heap, i) IN
        /\ Range(tags) \ {NULL} = {a \in headers : mem[a].index = i}
        /\ \A n \in DOMAIN tags : tags[n] # NULL =>
              mem[tags[n]].prev = IF n = 1 THEN NULL ELSE tags[n - 1]

\* A block is given out twice, or a link followed to what is no tag any more,
\* only after free has cut a list: its last two assignments are the only cause
\* (free.c:233-234).
BrokenOnlyByCut == broken # "no" => cut

\* Every region that is one free block is counted once, though malloc counts it
\* down in another class than free counts it up: the sum is right.
RegionsCounted ==
    broken = "no" =>
        FoldFunction(+, 0, completePages) =
            Cardinality({a \in headers : /\ mem[a].index # Allocated
                                         /\ mem[a].splitprev = NULL /\ mem[a].splitnext = NULL})

\* free.c:211 "Remove tag from old index and cut ties if its size has changed":
\* no block is given to the program that it holds.
NeverTwice == broken # "twice"
=============================================================================

------------------------ MODULE FrameAllocatorProofs ------------------------
(***************************************************************************)
(* Theorems about FrameAllocator, for memories, regions, caches and        *)
(* numbers of processes of every size.  Until a run of kalloc_frames has   *)
(* to fill the cache for a page table it needs, no frame has two owners,   *)
(* and what is lent out is mapped for every process; at any time only the  *)
(* last frame of memory can be lost.                                       *)
(***************************************************************************)
EXTENDS FrameAllocator, FiniteSetTheorems, SequenceTheorems, TLAPS

\* At most one call is in progress.  A call that needs a page table, and finds
\* the cache empty, calls on until memory is used up.
Calm == Len(stack) <= 1
Refill == Calm /\ InCache

\* What belongs to somebody, and what the call in progress has marked.
Owned == Lent \cup pagetables \cup Cached \cup leaked
InHand ==
    (IF Mapping THEN {Top.pf} ELSE {})
        \cup (IF InRun THEN Top.first .. Top.first + Top.i - 1 ELSE {})

Blocks ==
    /\ \A b \in lent : /\ b[1] \in Frame /\ b[2] \in Nat \ {0} /\ b[1] + b[2] <= FRAMES
                       /\ b[2] = 1 \/ b[1] + b[2] < FRAMES
    /\ pagetables \subseteq Frame
    /\ OnlyLastFrameLeaks
    /\ \A k \in Slot : cachedIndex <= k /\ k < frame_cache_size => cached_frame_map[k] \in Frame

\* OneOwner, and no frame is twice in the cache.
Disjoint ==
    /\ \A b, c \in lent : b # c => FramesOf(b) \cap FramesOf(c) = {}
    /\ Lent \cap pagetables = {} /\ Lent \cap Cached = {} /\ pagetables \cap Cached = {}
    /\ leaked \cap (Lent \cup pagetables \cup Cached) = {}
    /\ \A j, k \in Slot :
          /\ cachedIndex <= j /\ j < frame_cache_size /\ cachedIndex <= k /\ k < frame_cache_size
          /\ cached_frame_map[j] = cached_frame_map[k]
          => j = k

\* The bit map is that of the owners and of the call in progress.
Marked ==
    /\ Owned \subseteq frame_map
    /\ Calm => frame_map = Owned \cup InHand /\ InHand \cap Owned = {}

\* A frame that is mapped has a table, an owned frame is mapped everywhere, and
\* so is one that the kernel has mapped, but for the one being mapped.
Maps ==
    /\ \A p \in Pd : \A f \in mapped[p] : <<p, Region(f)>> \in tables
    /\ \A p \in Pd : Owned \subseteq mapped[p]
    /\ Calm => \A f \in mapped[0] : ~ (Mapping /\ f = Top.pf) => \A p \in Pd : f \in mapped[p]

\* The page directories have the same tables, but for that of the frame being
\* mapped, and none is beyond the first one missing.
Tables ==
    /\ Calm => \A p, q \in Pd, f \in Frame :
          <<p, Region(f)>> \in tables /\ <<q, Region(f)>> \notin tables =>
              Mapping /\ Region(f) = Region(Top.pf) /\ p < Top.pd /\ Top.pd <= q
    /\ Calm => \A p, q \in Pd, f, g \in Frame :
          <<p, Region(f)>> \in tables /\ Region(g) < Region(f) => <<q, Region(g)>> \in tables

\* The calls: one that fills the cache, one that maps a run, or several that
\* will use up memory.
Filling ==
    Refill => /\ Top.count = CACHE /\ Top.i <= CACHE
              /\ frame_cache_size = Top.i
              /\ ~ Mapping /\ Top.i > 0 => cachedIndex < Top.i
              /\ Mapping => /\ Top.i < CACHE /\ cached_frame_map[Top.i] = Top.pf
                            /\ Top.pf \in frame_map
                            /\ \A g \in Clear : Top.pf < g
                            /\ \A q \in Pd : q < Top.pd => Top.pf \in mapped[q]

Running ==
    InRun =>
        /\ Calm
        /\ Top.count \in 1 .. FRAMES /\ Top.first + Top.count < FRAMES /\ Top.i <= Top.count
        /\ \A f \in Frame, p \in Pd : Region(f) < Region(Top.first) => <<p, Region(f)>> \in tables
        /\ \A f \in Top.first .. Top.first + Top.count - 1 :
              /\ f < Top.first + Top.i => \A p \in Pd : f \in mapped[p]
              /\ f >= Top.first + Top.i => f \in Clear \/ (Mapping /\ f = Top.pf)
        /\ Mapping => /\ Top.pf = Top.first + Top.i /\ Top.i < Top.count
                      /\ Top.pf \in frame_map
                      /\ \A q \in Pd : q < Top.pd => Top.pf \in mapped[q]

Doomed ==
    ~ Calm =>
        /\ cachedIndex = 0 /\ frame_cache_size = 0
        /\ Top.first = None /\ Top.i = 0 /\ Top.count = CACHE
        /\ \A f \in Clear : f \notin mapped[0] /\ \E p \in Pd : <<p, Region(f)>> \notin tables
        /\ Mapping => /\ Top.pf \in frame_map
                      /\ \E p \in Pd : Top.pd <= p /\ <<p, Region(Top.pf)>> \notin tables

Counted == framesUsed = Cardinality(Lent) + Cardinality(pagetables) + Cardinality(leaked)

\* Before a run is torn.
IInv ==
    /\ TypeOK /\ stack \in Seq(CallType) /\ cachedIndex <= frame_cache_size
    /\ Blocks /\ Disjoint /\ Marked /\ Maps /\ Tables
    /\ Filling /\ Running /\ Doomed
    /\ Counted

-----------------------------------------------------------------------------
(* Facts about regions, calls and sets of frames.                          *)

\* Regions are numbered in the order of their frames.
LEMMA RegionsInOrder ==
    /\ \A f \in Frame : Region(f) \in 0 .. Region(FRAMES - 1)
    /\ \A f, g \in Frame : Region(f) < Region(g) => f < g
    /\ \A f \in Frame : Region(f) \in Nat
<1>1. FRAMES \in Nat \ {0} /\ REGION \in Nat \ {0} /\ SKEW \in Nat
  BY FramesAssumption, RegionAssumption
<1>2. \A m, n \in Nat : m <= n => m \div REGION <= n \div REGION /\ m \div REGION \in Nat
  BY <1>1
<1> QED
  BY <1>1, <1>2 DEF Frame, Region

\* A sequence with another first element, and with one more.
LEMMA FirstReplaced ==
    ASSUME NEW S, NEW s \in Seq(S), s # <<>>, NEW c \in S
    PROVE  /\ Head(s) \in S /\ Len(s) \in Nat \ {0}
           /\ Len(s) = 1 => Tail(s) = <<>>
           /\ <<c>> \o Tail(s) \in Seq(S) /\ <<c>> \o Tail(s) # <<>>
           /\ Head(<<c>> \o Tail(s)) = c /\ Len(<<c>> \o Tail(s)) = Len(s)
<1>1. /\ Head(s) \in S /\ Tail(s) \in Seq(S) /\ Len(Tail(s)) = Len(s) - 1
      /\ Len(s) \in Nat \ {0}
  BY HeadTailProperties, EmptySeq
<1>2. <<c>> \in Seq(S) /\ Len(<<c>>) = 1 /\ <<c>>[1] = c
  OBVIOUS
<1>3. /\ <<c>> \o Tail(s) \in Seq(S) /\ Len(<<c>> \o Tail(s)) = Len(s)
      /\ (<<c>> \o Tail(s))[1] = c
  BY <1>1, <1>2, ConcatProperties
<1>4. <<c>> \o Tail(s) # <<>>
  BY <1>1, <1>3, EmptySeq
<1>5. Head(<<c>> \o Tail(s)) = c
  BY <1>3
<1>6. ASSUME Len(s) = 1, Tail(s) # <<>> PROVE FALSE
  <2>1. Len(Tail(s)) \in Nat \ {0}
    BY <1>1, <1>6, EmptySeq
  <2> QED
    BY <1>1, <1>6, <2>1
<1> QED
  BY <1>1, <1>3, <1>4, <1>5, <1>6

LEMMA FirstAdded ==
    ASSUME NEW S, NEW s \in Seq(S), NEW c \in S
    PROVE  /\ <<c>> \o s \in Seq(S) /\ <<c>> \o s # <<>>
           /\ Head(<<c>> \o s) = c /\ Len(<<c>> \o s) = Len(s) + 1
<1>1. <<c>> \in Seq(S) /\ Len(<<c>>) = 1 /\ <<c>>[1] = c /\ Len(s) \in Nat
  BY LenProperties
<1>2. /\ <<c>> \o s \in Seq(S) /\ Len(<<c>> \o s) = Len(s) + 1 /\ (<<c>> \o s)[1] = c
  BY <1>1, ConcatProperties
<1>3. <<c>> \o s # <<>>
  BY <1>1, <1>2, EmptySeq
<1> QED
  BY <1>2, <1>3

LEMMA CallTypes ==
    /\ Call(None, CACHE) \in CallType
    /\ \A n \in 1 .. FRAMES, s \in Frame : Call(s, n) \in CallType
BY CacheAssumption, FramesAssumption, ProcessesAssumption DEF Call, CallType, None, Frame

\* A step that puts another call in the place of the innermost one.
LEMMA Replaced ==
    ASSUME IInv, stack # <<>>, NEW call \in CallType, Replace(call)
    PROVE  /\ stack' \in Seq(CallType) /\ stack' # <<>> /\ Top' = call
           /\ Calm' <=> Calm
<1>1. stack \in Seq(CallType)
  BY DEF IInv
<1>2. /\ stack' \in Seq(CallType) /\ stack' # <<>> /\ Head(stack') = call
      /\ Len(stack') = Len(stack)
  BY <1>1, FirstReplaced DEF Replace
<1> QED
  BY <1>2 DEF Top, Calm

LEMMA TopType ==
    ASSUME IInv, stack # <<>>
    PROVE  /\ Top \in CallType
           /\ Top.count \in 1 .. FRAMES \cup {CACHE} /\ Top.i \in 0 .. FRAMES + CACHE
           /\ Top.pf \in Frame \cup {None} /\ Top.pd \in 0 .. PROCESSES + 1
           /\ Top.first \in Frame \cup {None}
           /\ Len(stack) \in Nat \ {0}
           /\ Calm => Tail(stack) = <<>>
<1>1. stack \in Seq(CallType)
  BY DEF IInv
<1>2. PICK c \in CallType : TRUE
  BY CallTypes
<1>3. Head(stack) \in CallType /\ Len(stack) \in Nat \ {0} /\ (Len(stack) = 1 => Tail(stack) = <<>>)
  BY <1>1, <1>2, FirstReplaced
<1> QED
  BY <1>3 DEF Top, CallType, Calm

\* The elements of a stack are calls, as TypeOK says it.
LEMMA StackOfCalls ==
    ASSUME NEW s \in Seq(CallType)
    PROVE  \A k \in 1 .. Len(s) : s[k] \in CallType
BY ElementOfSeq

\* Lent frames when a block is added or taken away.
LEMMA LentGrows ==
    ASSUME NEW b, lent' = lent \cup {b}
    PROVE  Lent' = Lent \cup FramesOf(b)
BY DEF Lent

LEMMA LentShrinks ==
    ASSUME IInv, NEW b \in lent, lent' = lent \ {b}
    PROVE  Lent' = Lent \ FramesOf(b) /\ FramesOf(b) \subseteq Lent
<1>1. \A c \in lent : c # b => FramesOf(c) \cap FramesOf(b) = {}
  BY DEF IInv, Disjoint
<1> QED
  BY <1>1 DEF Lent

\* All that is owned are frames.
LEMMA OwnedFrames ==
    ASSUME IInv
    PROVE  /\ Owned \subseteq Frame /\ Owned \subseteq frame_map
           /\ \A b \in lent : FramesOf(b) \subseteq Frame /\ FramesOf(b) # {}
<1>1. FRAMES \in Nat \ {0}
  BY FramesAssumption
<1>2. \A b \in lent : b[1] \in Frame /\ b[2] \in Nat \ {0} /\ b[1] + b[2] <= FRAMES
  BY DEF IInv, Blocks
<1>3. \A b \in lent : FramesOf(b) \subseteq Frame /\ FramesOf(b) # {}
  BY <1>1, <1>2 DEF FramesOf, Frame
<1>4. Lent \subseteq Frame
  BY <1>3 DEF Lent
<1> QED
  BY <1>3, <1>4 DEF IInv, Marked, TypeOK, Owned

\* The counts of what is held, which is finite.
LEMMA HeldFinite ==
    ASSUME NEW S, S \subseteq Frame
    PROVE  IsFiniteSet(S) /\ Cardinality(S) \in Nat
<1>1. IsFiniteSet(Frame)
  BY FramesAssumption, FS_Interval DEF Frame
<1> QED
  BY <1>1, FS_Subset, FS_CardinalityType

\* Frames that are not held yet count one by one.
LEMMA CountGrows ==
    ASSUME NEW S, S \subseteq Frame, NEW a \in Frame, NEW n \in Nat \ {0}, a + n <= FRAMES,
           S \cap (a .. a + n - 1) = {}
    PROVE  Cardinality(S \cup (a .. a + n - 1)) = Cardinality(S) + n
<1> DEFINE T == a .. a + n - 1
<1>1. T \subseteq Frame /\ a \in Int /\ a + n - 1 \in Int
  BY FramesAssumption DEF Frame
<1>2. IsFiniteSet(S) /\ IsFiniteSet(T) /\ Cardinality(S) \in Nat
  BY <1>1, HeldFinite
<1>3. Cardinality(T) = n
  BY <1>1, FS_Interval
<1>4. Cardinality(S \cap T) = 0
  BY FS_EmptySet
<1> HIDE DEF T
<1>5. Cardinality(S \cup T) = Cardinality(S) + Cardinality(T) - Cardinality(S \cap T)
  BY <1>2, FS_Union
<1>6. Cardinality(S \cup T) = Cardinality(S) + n
  BY <1>2, <1>3, <1>4, <1>5
<1> QED
  BY <1>6 DEF T

LEMMA CountShrinks ==
    ASSUME NEW S, S \subseteq Frame, NEW a \in Frame, NEW n \in Nat \ {0}, a + n <= FRAMES,
           a .. a + n - 1 \subseteq S
    PROVE  Cardinality(S \ (a .. a + n - 1)) = Cardinality(S) - n
<1> DEFINE T == a .. a + n - 1
<1>1. a \in Int /\ a + n - 1 \in Int
  BY FramesAssumption DEF Frame
<1>2. IsFiniteSet(S) /\ Cardinality(S) \in Nat
  BY HeldFinite
<1>3. Cardinality(T) = n
  BY <1>1, FS_Interval
<1>4. S \cap T = T
  OBVIOUS
<1> HIDE DEF T
<1>5. Cardinality(S \ T) = Cardinality(S) - Cardinality(S \cap T)
  BY <1>2, FS_Difference
<1>6. Cardinality(S \ T) = Cardinality(S) - n
  BY <1>2, <1>3, <1>4, <1>5
<1> QED
  BY <1>6 DEF T

-----------------------------------------------------------------------------
(* memory_initialize.                                                      *)

LEMMA InitIInv == Init => IInv
<1> SUFFICES ASSUME Init PROVE IInv
  OBVIOUS
<1>1. FRAMES \in Nat \ {0} /\ REGION \in Nat \ {0} /\ CACHE \in Nat \ {0} /\ CACHE <= FRAMES
  BY FramesAssumption, RegionAssumption, CacheAssumption
<1>2. stack = <<>> /\ Len(stack) = 0 /\ Lent = {}
  BY DEF Init, Lent
<1>3. Calm /\ ~ InCache /\ ~ InRun /\ ~ Mapping /\ InHand = {}
  BY <1>2 DEF Calm, InCache, InRun, Mapping, InHand
<1>4. Cached = 0 .. CACHE - 1
  BY <1>1 DEF Init, Cached, Slot
<1>5. Owned = 0 .. CACHE - 1
  BY <1>2, <1>4 DEF Init, Owned
<1>6. \A f \in 0 .. CACHE - 1 : f \in Frame /\ Region(f) = 0
  <2>1. TAKE f \in 0 .. CACHE - 1
  <2>2. f + SKEW \in 0 .. REGION - 1
    BY <1>1, CacheAssumption, RegionAssumption
  <2>3. (f + SKEW) \div REGION = 0
    BY <1>1, <2>2
  <2> QED
    BY <1>1, <2>3 DEF Frame, Region
<1>7. TypeOK
  <2>1. 0 \in 0 .. Region(FRAMES - 1)
    BY <1>1, RegionsInOrder DEF Frame
  <2>2. /\ cached_frame_map \in [Slot -> Frame \cup {None}] /\ frame_map \subseteq Frame
        /\ cachedIndex \in 0 .. 2 * CACHE + 1 /\ frame_cache_size \in Slot
    BY <1>1 DEF Init, Slot, Frame
  <2>3. tables \subseteq Pd \X (0 .. Region(FRAMES - 1)) /\ mapped \in [Pd -> SUBSET Frame]
    BY <2>1 DEF Init
  <2>4. \A k \in 1 .. Len(stack) : stack[k] \in CallType
    BY <1>2
  <2>5. framesUsed \in Int /\ lent = {} /\ pagetables = {} /\ leaked = {}
    BY DEF Init
  <2>6. aborted \in BOOLEAN /\ torn \in BOOLEAN
    BY Zenon DEF Init
  <2> QED
    BY <2>2, <2>3, <2>4, <2>5, <2>6 DEF TypeOK
<1>8. stack \in Seq(CallType) /\ cachedIndex <= frame_cache_size
  BY <1>1 DEF Init
<1>9. Blocks
  BY <1>1 DEF Init, Blocks, OnlyLastFrameLeaks, Slot, Frame
<1>10. Disjoint
  BY <1>1, <1>2 DEF Init, Disjoint, Slot
<1>11. Marked
  BY <1>3, <1>5 DEF Init, Marked
<1>12. Maps
  <2>1. 0 \in Pd
    BY ProcessesAssumption DEF Pd
  <2>2. \A p \in Pd : mapped[p] = {f \in Frame : Region(f) = 0} /\ <<p, 0>> \in tables
    BY DEF Init
  <2> QED
    BY <1>5, <1>6, <2>1, <2>2 DEF Maps
<1>13. Tables
  BY RegionsInOrder DEF Init, Tables
<1>14. Filling /\ Running /\ Doomed
  BY <1>3 DEF Filling, Running, Doomed, Refill
<1>15. Counted
  BY <1>2, FS_EmptySet DEF Init, Counted
<1> QED
  BY <1>7, <1>8, <1>9, <1>10, <1>11, <1>12, <1>13, <1>14, <1>15 DEF IInv

-----------------------------------------------------------------------------
(* kfree_frame and kfree_frames.                                           *)

\* A block that is given back, and is not lost, is free again.
LEMMA BlockFreed ==
    ASSUME IInv, stack = <<>>, NEW b \in lent,
           lent' = lent \ {b}, frame_map' = frame_map \ FramesOf(b),
           framesUsed' = framesUsed - b[2],
           UNCHANGED <<cached_frame_map, cachedIndex, frame_cache_size, tables, mapped, stack,
                       pagetables, leaked, aborted, torn>>
    PROVE  IInv'
<1>1. Lent' = Lent \ FramesOf(b) /\ FramesOf(b) \subseteq Lent
  BY LentShrinks
<1>2. /\ b[1] \in Frame /\ b[2] \in Nat \ {0} /\ b[1] + b[2] <= FRAMES
      /\ \A c \in lent : FramesOf(c) \subseteq Frame
  BY OwnedFrames DEF IInv, Blocks
<1>3. Cached' = Cached
  BY DEF Cached
<1>4. Owned' = Owned \ FramesOf(b)
  BY <1>1, <1>3 DEF Owned, IInv, Disjoint
<1>5. /\ Calm /\ ~ InCache /\ ~ InRun /\ ~ Mapping /\ InHand = {}
      /\ Calm' /\ ~ InCache' /\ ~ InRun' /\ ~ Mapping' /\ InHand' = {}
  BY DEF Calm, InCache, InRun, Mapping, InHand
<1>6. TypeOK'
  BY <1>2, FramesAssumption DEF IInv, TypeOK
<1>7. (stack \in Seq(CallType) /\ cachedIndex <= frame_cache_size)'
  BY DEF IInv
<1>8. Blocks'
  BY DEF IInv, Blocks, OnlyLastFrameLeaks
<1>9. Disjoint'
  BY <1>1, <1>3 DEF IInv, Disjoint
<1>10. Marked'
  BY <1>4, <1>5 DEF IInv, Marked
<1>11. Maps'
  BY <1>4, <1>5 DEF IInv, Maps
<1>12. Tables'
  BY <1>5 DEF IInv, Tables
<1>13. (Filling /\ Running /\ Doomed)'
  BY <1>5 DEF Filling, Running, Doomed, Refill
<1>14. Counted'
  <2>1. Cardinality(Lent \ FramesOf(b)) = Cardinality(Lent) - b[2]
    BY <1>1, <1>2, OwnedFrames, CountShrinks DEF FramesOf, Owned
  <2>2. Cardinality(Lent) \in Nat /\ Cardinality(pagetables) \in Nat /\ Cardinality(leaked) \in Nat
    BY OwnedFrames, HeldFinite DEF Owned
  <2> QED
    BY <1>1, <1>2, <2>1, <2>2 DEF IInv, Counted, TypeOK
<1> QED
  BY <1>6, <1>7, <1>8, <1>9, <1>10, <1>11, <1>12, <1>13, <1>14 DEF IInv

\* kfree_frames keeps a block that ends with the last frame, which is a block
\* of that frame only.
LEMMA BlockLost ==
    ASSUME IInv, stack = <<>>, NEW b \in lent, b[1] + b[2] >= FRAMES,
           lent' = lent \ {b}, leaked' = leaked \cup FramesOf(b),
           UNCHANGED <<frame_map, cached_frame_map, cachedIndex, frame_cache_size, framesUsed,
                       tables, mapped, stack, pagetables, aborted, torn>>
    PROVE  IInv'
<1>1. Lent' = Lent \ FramesOf(b) /\ FramesOf(b) \subseteq Lent
  BY LentShrinks
<1>2. FRAMES \in Nat \ {0} /\ FRAMES - 1 \in Frame
  BY FramesAssumption DEF Frame
<1>3. b[2] = 1 /\ b[1] = FRAMES - 1
  BY <1>2 DEF IInv, Blocks, Frame
<1>4. FramesOf(b) = {FRAMES - 1} /\ leaked = {}
  <2>1. FramesOf(b) = {FRAMES - 1}
    BY <1>2, <1>3 DEF FramesOf
  <2> QED
    BY <1>1, <2>1 DEF IInv, Blocks, OnlyLastFrameLeaks, Disjoint
<1>5. Cached' = Cached
  BY DEF Cached
<1>6. Owned' = Owned
  BY <1>1, <1>5 DEF Owned
<1>7. /\ Calm /\ ~ InCache /\ ~ InRun /\ ~ Mapping /\ InHand = {}
      /\ Calm' /\ ~ InCache' /\ ~ InRun' /\ ~ Mapping' /\ InHand' = {}
  BY DEF Calm, InCache, InRun, Mapping, InHand
<1>8. TypeOK'
  BY <1>2, <1>4 DEF IInv, TypeOK
<1>9. (stack \in Seq(CallType) /\ cachedIndex <= frame_cache_size)'
  BY DEF IInv
<1>10. Blocks'
  BY <1>4 DEF IInv, Blocks, OnlyLastFrameLeaks
<1>11. Disjoint'
  BY <1>1, <1>4, <1>5 DEF IInv, Disjoint
<1>12. Marked'
  BY <1>6, <1>7 DEF IInv, Marked
<1>13. Maps'
  BY <1>6, <1>7 DEF IInv, Maps
<1>14. Tables'
  BY <1>7 DEF IInv, Tables
<1>15. (Filling /\ Running /\ Doomed)'
  BY <1>7 DEF Filling, Running, Doomed, Refill
<1>16. Counted'
  <2>1. Lent \subseteq Frame
    BY OwnedFrames DEF Owned
  <2>2. Lent \cap (FRAMES - 1) .. (FRAMES - 1) + 1 - 1 = {FRAMES - 1}
    BY <1>1, <1>2, <1>4
  <2>3. Cardinality(Lent \ {FRAMES - 1}) = Cardinality(Lent) - 1
    BY <1>1, <1>4, <2>1, HeldFinite, FS_RemoveElement
  <2>4. Cardinality(leaked) = 0 /\ Cardinality(leaked') = 1
    BY <1>4, FS_EmptySet, FS_Singleton
  <2>5. Cardinality(Lent) \in Nat /\ Cardinality(pagetables) \in Nat
    BY OwnedFrames, HeldFinite DEF Owned
  <2> QED
    BY <1>1, <1>4, <2>3, <2>4, <2>5 DEF IInv, Counted
<1> QED
  BY <1>8, <1>9, <1>10, <1>11, <1>12, <1>13, <1>14, <1>15, <1>16 DEF IInv

LEMMA KfreeFrameIInv ==
    ASSUME IInv, NEW b \in lent, KfreeFrame(b)
    PROVE  IInv'
<1>1. b[1] \in Frame /\ FramesOf(b) = {b[1]}
  BY FramesAssumption DEF IInv, Blocks, KfreeFrame, FramesOf, Frame
<1> QED
  BY <1>1, BlockFreed DEF KfreeFrame

LEMMA KfreeFramesIInv ==
    ASSUME IInv, NEW b \in lent, KfreeFrames(b)
    PROVE  IInv'
<1>1. CASE b[1] + b[2] >= FRAMES
  BY <1>1, BlockLost DEF KfreeFrames
<1>2. CASE ~ (b[1] + b[2] >= FRAMES)
  BY <1>2, BlockFreed DEF KfreeFrames
<1> QED
  BY <1>1, <1>2

-----------------------------------------------------------------------------
(* Steps that change nothing but the calls.                                *)

\* The parts of the invariant that a step which only changes the calls keeps.
LEMMA SameHoldings ==
    ASSUME IInv, stack' \in Seq(CallType), aborted' \in BOOLEAN, torn' \in BOOLEAN,
           UNCHANGED <<frame_map, cached_frame_map, cachedIndex, frame_cache_size, framesUsed,
                       tables, mapped, lent, pagetables, leaked, torn>>
    PROVE  /\ (TypeOK /\ stack \in Seq(CallType) /\ cachedIndex <= frame_cache_size)'
           /\ (Blocks /\ Disjoint /\ Counted)' /\ Owned' = Owned
<1>1. \A k \in 1 .. Len(stack') : stack'[k] \in CallType
  BY StackOfCalls
<1>2. Lent' = Lent /\ Cached' = Cached
  BY DEF Lent, Cached
<1>3. TypeOK'
  BY <1>1 DEF IInv, TypeOK
<1> QED
  BY <1>2, <1>3 DEF IInv, Blocks, OnlyLastFrameLeaks, Disjoint, Counted, Owned

\* After kabort, and in a step that changes nothing.
LEMMA SameCalls ==
    ASSUME IInv, aborted' \in BOOLEAN, torn' \in BOOLEAN,
           UNCHANGED <<frame_map, cached_frame_map, cachedIndex, frame_cache_size, framesUsed,
                       tables, mapped, stack, lent, pagetables, leaked, torn>>
    PROVE  IInv'
<1>1. stack' \in Seq(CallType)
  BY DEF IInv
<1>2. /\ (TypeOK /\ stack \in Seq(CallType) /\ cachedIndex <= frame_cache_size)'
      /\ (Blocks /\ Disjoint /\ Counted)' /\ Owned' = Owned
  BY <1>1, SameHoldings
<1>3. /\ Top' = Top /\ (Calm' <=> Calm) /\ (InCache' <=> InCache) /\ (InRun' <=> InRun)
      /\ (Mapping' <=> Mapping) /\ (Refill' <=> Refill) /\ Clear' = Clear
  BY DEF Top, Calm, InCache, InRun, Mapping, Refill, Clear
<1>4. InHand' = InHand
  BY <1>3 DEF InHand
<1>5. Marked' /\ Maps'
  BY <1>2, <1>3, <1>4 DEF IInv, Marked, Maps
<1>6. Tables' /\ Filling'
  BY <1>3 DEF IInv, Tables, Filling
<1>7. Running' /\ Doomed'
  BY <1>3 DEF IInv, Running, Doomed
<1> QED
  BY <1>2, <1>5, <1>6, <1>7 DEF IInv

\* The search of kalloc_frames has found the first run of clear frames: every
\* region before it has a table, or there would be a run in that region.
LEMMA KallocFramesIInv ==
    ASSUME IInv, NEW n \in RUNS, KallocFrames(n)
    PROVE  IInv'
<1>1. PICK s \in ClearRuns(n) :
        /\ \A t \in ClearRuns(n) : s <= t
        /\ stack' = <<Call(s, n)>>
  BY DEF KallocFrames
<1>2. FRAMES \in Nat \ {0} /\ n \in 1 .. FRAMES /\ n \in Nat
  BY FramesAssumption, RunsAssumption
<1>3. s \in Frame /\ s + n < FRAMES /\ s .. s + n - 1 \subseteq Clear
  BY <1>1 DEF ClearRuns
<1>4. Call(s, n) \in CallType
  BY <1>2, <1>3, CallTypes
<1>5. stack = <<>> /\ stack' \in Seq(CallType) /\ stack' # <<>> /\ Top' = Call(s, n) /\ Calm /\ Calm'
  BY <1>1, <1>4 DEF KallocFrames, Top, Calm
<1>6. /\ (TypeOK /\ stack \in Seq(CallType) /\ cachedIndex <= frame_cache_size)'
      /\ (Blocks /\ Disjoint /\ Counted)' /\ Owned' = Owned
  BY <1>5, SameHoldings DEF KallocFrames, IInv, TypeOK
<1>7. /\ Top'.first = s /\ Top'.count = n /\ Top'.i = 0 /\ Top'.pf = None /\ Top'.pd = 0
      /\ s # None
  BY <1>3, <1>5 DEF Call, None, Frame
<1>8. ~ Mapping' /\ ~ Mapping /\ InRun' /\ ~ InRun /\ ~ InCache'
  BY <1>5, <1>7 DEF Mapping, InRun, InCache
<1>9. InHand = {} /\ InHand' = {}
  BY <1>3, <1>7, <1>8 DEF InHand, Frame
<1>10. Marked' /\ Maps'
  BY <1>5, <1>6, <1>8, <1>9 DEF IInv, Marked, Maps, KallocFrames
<1>11. Tables'
  BY <1>5, <1>8 DEF IInv, Tables, KallocFrames
<1>12. Running'
  <2>1. Clear' = Clear /\ \A f \in s .. s + n - 1 : f \in Frame /\ ~ f < s
    BY <1>2, <1>3 DEF KallocFrames, Clear, Frame
  <2>2. ASSUME NEW g \in Frame, NEW p \in Pd, Region(g) < Region(s), <<p, Region(g)>> \notin tables
        PROVE  FALSE
    <3>1. g < s /\ 0 \in Pd
      BY <1>3, <2>2, RegionsInOrder, ProcessesAssumption DEF Pd
    <3>2. ASSUME NEW h \in g .. g + n - 1 PROVE h \in Clear
      <4>1. h \in Frame /\ ~ h < g
        BY <1>2, <1>3, <3>1 DEF Frame
      <4>2. Region(g) \in Nat /\ Region(h) \in Nat /\ ~ Region(h) < Region(g)
        BY <4>1, RegionsInOrder
      <4>3. <<0, Region(h)>> \notin tables
        <5>1. CASE Region(h) = Region(g)
          BY <1>5, <1>8, <2>2, <3>1, <5>1 DEF IInv, Tables
        <5>2. CASE Region(g) < Region(h)
          BY <1>5, <2>2, <3>1, <4>1, <5>2 DEF IInv, Tables
        <5> QED
          BY <4>2, <5>1, <5>2
      <4>4. h \notin Owned
        BY <3>1, <4>3 DEF IInv, Maps
      <4> QED
        BY <1>5, <1>9, <4>1, <4>4 DEF IInv, Marked, Clear
    <3>3. g \in ClearRuns(n)
      BY <1>2, <1>3, <3>1, <3>2 DEF ClearRuns, Frame
    <3> QED
      BY <1>1, <1>3, <3>1, <3>3 DEF Frame
  <2> QED
    BY <1>2, <1>3, <1>5, <1>7, <1>8, <2>1, <2>2 DEF Running, KallocFrames, Frame
<1>13. Filling' /\ Doomed'
  BY <1>5, <1>8 DEF Filling, Doomed, Refill
<1> QED
  BY <1>6, <1>10, <1>11, <1>12, <1>13 DEF IInv

-----------------------------------------------------------------------------
(* The loop of kalloc_frames.                                              *)

\* What the frames of a run are to the invariant.
LEMMA RunFrames ==
    ASSUME IInv, InRun
    PROVE  /\ Top.first \in Frame /\ Top.count \in 1 .. FRAMES
           /\ Top.i \in Nat /\ Top.i <= Top.count /\ Top.first + Top.count < FRAMES
           /\ \A f \in Top.first .. Top.first + Top.count - 1 : f \in Frame
<1>1. stack # <<>> /\ Top.first # None
  BY DEF InRun
<1>2. Top.first \in Frame /\ Top.i \in Nat
  BY <1>1, TopType, FramesAssumption, CacheAssumption
<1> QED
  BY <1>2, FramesAssumption DEF IInv, Running, Frame

LEMMA KallocFramesMarkIInv ==
    ASSUME IInv, KallocFramesMark
    PROVE  IInv'
<1> DEFINE f == Top.first + Top.i
<1>1. /\ stack # <<>> /\ InRun /\ ~ Mapping /\ Top.i < Top.count /\ Top.pf = None
      /\ ~ InCache /\ Calm
  BY DEF KallocFramesMark, InRun, InCache, Mapping, IInv, Running
<1>2. /\ Top.first \in Frame /\ Top.first # None /\ Top.count \in 1 .. FRAMES /\ Top.i \in Nat
      /\ Top.first + Top.count < FRAMES /\ Top \in CallType
  BY <1>1, RunFrames, TopType DEF InRun
<1>3. /\ f \in Frame /\ f \in Clear /\ f \in Top.first .. Top.first + Top.count - 1
      /\ f # None
  <2>1. /\ f \in Frame /\ f # None /\ f >= Top.first + Top.i
        /\ f \in Top.first .. Top.first + Top.count - 1
    BY <1>1, <1>2, FramesAssumption DEF Frame, None
  <2>2. f \in Clear
    BY <1>1, <2>1 DEF IInv, Running
  <2> QED
    BY <2>1, <2>2
<1>4. PICK call \in CallType :
        /\ Replace(call)
        /\ call.first = Top.first /\ call.count = Top.count
        /\ \/ /\ f \in mapped[0] /\ call.i = Top.i + 1 /\ call.pf = None
           \/ /\ f \notin mapped[0] /\ call.i = Top.i /\ call.pf = f /\ call.pd = 0
  <2>1. [Top EXCEPT !.i = @ + 1] \in CallType
    BY <1>1, <1>2, CacheAssumption, FramesAssumption DEF CallType
  <2>2. [Top EXCEPT !.pf = f, !.pd = 0] \in CallType
    <3>1. 0 \in 0 .. PROCESSES + 1 /\ f \in Frame \cup {None}
      BY <1>3, ProcessesAssumption
    <3> HIDE DEF f
    <3> QED
      BY <1>2, <3>1 DEF CallType
  <2>3. \/ f \in mapped[0] /\ Replace([Top EXCEPT !.i = @ + 1])
        \/ f \notin mapped[0] /\ Replace([Top EXCEPT !.pf = f, !.pd = 0])
    BY DEF KallocFramesMark
  <2> HIDE DEF f
  <2>4. CASE f \in mapped[0] /\ Replace([Top EXCEPT !.i = @ + 1])
    <3>1. /\ [Top EXCEPT !.i = @ + 1].first = Top.first /\ [Top EXCEPT !.i = @ + 1].i = Top.i + 1
          /\ [Top EXCEPT !.i = @ + 1].count = Top.count /\ [Top EXCEPT !.i = @ + 1].pf = Top.pf
      BY <1>2 DEF CallType
    <3> QED
      BY <1>1, <2>1, <2>4, <3>1
  <2>5. CASE f \notin mapped[0] /\ Replace([Top EXCEPT !.pf = f, !.pd = 0])
    BY <1>2, <2>2, <2>5 DEF CallType
  <2> QED
    BY <2>3, <2>4, <2>5
<1>5. stack' \in Seq(CallType) /\ stack' # <<>> /\ Top' = call /\ Calm'
  BY <1>1, <1>4, Replaced
<1>6. InRun' /\ ~ InCache' /\ (Mapping' <=> call.pf # None)
  BY <1>2, <1>4, <1>5 DEF InRun, InCache, Mapping
<1>7. /\ frame_map' = frame_map \cup {f} /\ Clear' = Clear \ {f}
      /\ UNCHANGED <<cached_frame_map, cachedIndex, frame_cache_size, framesUsed, tables,
                   mapped, lent, pagetables, leaked, aborted, torn>>
  BY DEF KallocFramesMark, Clear
<1>8. Lent' = Lent /\ Cached' = Cached /\ Owned' = Owned
  BY <1>7 DEF Lent, Cached, Owned
<1>9. InHand' = InHand \cup {f} /\ f \notin Owned
  <2>1. InHand = Top.first .. Top.first + Top.i - 1
    BY <1>1 DEF InHand
  <2>2. InHand' = Top.first .. Top.first + Top.i
    <3>1. CASE call.pf = None
      BY <1>2, <1>3, <1>4, <1>5, <1>6, <3>1 DEF InHand, Frame
    <3>2. CASE call.pf # None
      BY <1>2, <1>3, <1>4, <1>5, <1>6, <3>2 DEF InHand, Frame
    <3> QED
      BY <3>1, <3>2
  <2>3. InHand' = InHand \cup {f}
    BY <1>2, <2>1, <2>2 DEF Frame
  <2> QED
    BY <1>3, <2>3 DEF IInv, Marked, Clear
<1> HIDE DEF f
<1>10. (TypeOK /\ stack \in Seq(CallType) /\ cachedIndex <= frame_cache_size)'
  <2>1. \A k \in 1 .. Len(stack') : stack'[k] \in CallType
    BY <1>5, StackOfCalls
  <2> QED
    BY <1>3, <1>5, <1>7, <2>1 DEF IInv, TypeOK
<1>11. Blocks' /\ Disjoint' /\ Counted'
  BY <1>7, <1>8 DEF IInv, Blocks, OnlyLastFrameLeaks, Disjoint, Counted
<1>12. Marked'
  BY <1>1, <1>5, <1>7, <1>8, <1>9 DEF IInv, Marked
<1>13. Maps'
  BY <1>1, <1>4, <1>6, <1>5, <1>7, <1>8 DEF IInv, Maps
<1>14. Tables'
  BY <1>1, <1>7 DEF IInv, Tables
<1>15. Running'
  <2>1. /\ Top'.count \in 1 .. FRAMES /\ Top'.first + Top'.count < FRAMES
        /\ Top'.i <= Top'.count
    BY <1>1, <1>2, <1>4, <1>5
  <2>2. ASSUME NEW g \in Top.first .. Top.first + Top.count - 1
        PROVE  /\ g < Top'.first + Top'.i => \A p \in Pd : g \in mapped'[p]
               /\ g >= Top'.first + Top'.i => g \in Clear' \/ (Mapping' /\ g = Top'.pf)
    <3>1. /\ g < Top.first + Top.i => \A p \in Pd : g \in mapped[p]
          /\ g >= Top.first + Top.i => g \in Clear
      BY <1>1 DEF IInv, Running
    <3>2. call.i = Top.i + 1 => \A p \in Pd : f \in mapped[p]
      BY <1>1, <1>2, <1>4 DEF IInv, Maps
    <3>3. g \in Int /\ (g < f \/ g = f \/ g > f) /\ f \in Int
      BY <1>2, <1>3 DEF Frame
    <3>4. CASE call.i = Top.i + 1
      BY <1>2, <1>4, <1>5, <1>7, <3>1, <3>2, <3>3, <3>4 DEF f, Frame
    <3>5. CASE call.i = Top.i /\ call.pf = f
      BY <1>2, <1>3, <1>4, <1>5, <1>6, <1>7, <3>1, <3>3, <3>5 DEF f, Frame
    <3> QED
      BY <1>4, <3>4, <3>5
  <2>3. Mapping' => /\ Top'.pf = Top'.first + Top'.i /\ Top'.i < Top'.count
                    /\ Top'.pf \in frame_map'
                    /\ \A q \in Pd : q < Top'.pd => Top'.pf \in mapped'[q]
    BY <1>1, <1>4, <1>5, <1>6, <1>7, ProcessesAssumption DEF f, Pd
  <2>4. \A g \in Frame, p \in Pd :
           Region(g) < Region(Top'.first) => <<p, Region(g)>> \in tables'
    BY <1>1, <1>4, <1>5, <1>7 DEF IInv, Running
  <2> QED
    BY <1>4, <1>5, <2>1, <2>2, <2>3, <2>4 DEF Running
<1>16. Filling' /\ Doomed'
  BY <1>5, <1>6 DEF Filling, Doomed, Refill
<1> QED
  BY <1>10, <1>11, <1>12, <1>13, <1>14, <1>15, <1>16 DEF IInv

\* The run is lent out.
LEMMA KallocFramesReturnIInv ==
    ASSUME IInv, KallocFramesReturn
    PROVE  IInv'
<1> DEFINE b == <<Top.first, Top.count>>
<1>1. /\ stack # <<>> /\ InRun /\ ~ Mapping /\ Top.i = Top.count /\ Calm
  BY DEF KallocFramesReturn, InRun, IInv, Running
<1>2. /\ Top.first \in Frame /\ Top.count \in 1 .. FRAMES
      /\ Top.first + Top.count < FRAMES /\ Top.count \in Nat \ {0} /\ FRAMES \in Nat
  BY <1>1, RunFrames, FramesAssumption
<1>3. /\ b \in (Frame \cup {None}) \X (1 .. FRAMES)
      /\ FramesOf(b) = Top.first .. Top.first + Top.count - 1
      /\ \A f \in FramesOf(b) : f \in Frame /\ \A p \in Pd : f \in mapped[p]
  BY <1>1, <1>2 DEF IInv, Running, FramesOf, Frame
<1>4. InHand = FramesOf(b) /\ FramesOf(b) \cap Owned = {} /\ frame_map = Owned \cup FramesOf(b)
  BY <1>1, <1>3 DEF IInv, Marked, InHand
<1>5. /\ lent' = lent \cup {b} /\ stack' = <<>> /\ framesUsed' = framesUsed + Top.count
      /\ UNCHANGED <<frame_map, cached_frame_map, cachedIndex, frame_cache_size, tables,
                   mapped, pagetables, leaked, aborted, torn>>
  BY DEF KallocFramesReturn
<1>6. /\ Calm' /\ ~ InCache' /\ ~ InRun' /\ ~ Mapping' /\ InHand' = {}
  BY <1>5 DEF Calm, InCache, InRun, Mapping, InHand
<1>7. /\ Lent' = Lent \cup FramesOf(b) /\ Cached' = Cached
      /\ Owned' = Owned \cup FramesOf(b)
  BY <1>5, LentGrows DEF Cached, Owned
<1>8. b[1] = Top.first /\ b[2] = Top.count
  OBVIOUS
<1> HIDE DEF b
<1>9. (TypeOK /\ stack \in Seq(CallType) /\ cachedIndex <= frame_cache_size)'
  <2>1. stack' \in Seq(CallType) /\ \A k \in 1 .. Len(stack') : stack'[k] \in CallType
    BY <1>5
  <2>2. framesUsed' \in Int /\ aborted' \in BOOLEAN
    BY <1>2, <1>5 DEF IInv, TypeOK
  <2> QED
    BY <1>3, <1>5, <2>1, <2>2 DEF IInv, TypeOK
<1>10. Blocks'
  <2>1. \A c \in lent' :
           /\ c[1] \in Frame /\ c[2] \in Nat \ {0} /\ c[1] + c[2] <= FRAMES
           /\ c[2] = 1 \/ c[1] + c[2] < FRAMES
    <3>1. TAKE c \in lent'
    <3>2. CASE c = b
      BY <1>2, <1>8, <3>2 DEF Frame
    <3>3. CASE c \in lent
      BY <3>3 DEF IInv, Blocks
    <3> QED
      BY <1>5, <3>2, <3>3
  <2> QED
    BY <1>5, <2>1 DEF IInv, Blocks, OnlyLastFrameLeaks
<1>11. Disjoint'
  <2>1. \A c \in lent : FramesOf(c) \cap FramesOf(b) = {}
    BY <1>4 DEF Owned, Lent
  <2>2. \A c, d \in lent' : c # d => FramesOf(c) \cap FramesOf(d) = {}
    BY <1>5, <2>1 DEF IInv, Disjoint
  <2> QED
    BY <1>4, <1>5, <1>7, <2>2 DEF IInv, Disjoint, Owned
<1>12. Marked'
  BY <1>4, <1>5, <1>6, <1>7 DEF Marked
<1>13. Maps'
  BY <1>1, <1>3, <1>5, <1>6, <1>7 DEF IInv, Maps
<1>14. Tables'
  BY <1>1, <1>5 DEF IInv, Tables
<1>15. (Filling /\ Running /\ Doomed)'
  BY <1>6 DEF Filling, Running, Doomed, Refill
<1>16. Counted'
  <2>1. Cardinality(Lent \cup FramesOf(b)) = Cardinality(Lent) + Top.count
    <3>1. /\ Lent \subseteq Frame
          /\ Lent \cap (Top.first .. Top.first + Top.count - 1) = {}
      BY <1>3, <1>4, OwnedFrames DEF Owned
    <3>2. Top.first + Top.count <= FRAMES
      BY <1>2 DEF Frame
    <3> QED
      BY <1>2, <1>3, <3>1, <3>2, CountGrows
  <2>2. Cardinality(Lent) \in Nat /\ Cardinality(pagetables) \in Nat /\ Cardinality(leaked) \in Nat
    BY OwnedFrames, HeldFinite DEF Owned
  <2> QED
    BY <1>2, <1>5, <1>7, <2>1, <2>2 DEF IInv, Counted, TypeOK
<1> QED
  BY <1>9, <1>10, <1>11, <1>12, <1>13, <1>14, <1>15, <1>16 DEF IInv

-----------------------------------------------------------------------------
(* mapPageframe.                                                           *)

LEMMA MapPageframeIInv ==
    ASSUME IInv, MapPageframe
    PROVE  IInv'
<1> DEFINE pf == Top.pf
           pd == Top.pd
           call == [Top EXCEPT !.pd = @ + 1]
<1>1. /\ stack # <<>> /\ Mapping /\ pf # None /\ pd \in Pd
      /\ <<pd, Region(pf)>> \in tables
  BY DEF MapPageframe, Mapping, NoTable
<1>2. /\ Top \in CallType /\ pf \in Frame /\ pd \in Int
  BY <1>1, TopType, ProcessesAssumption DEF Pd
<1>3. /\ call \in CallType /\ call.first = Top.first /\ call.count = Top.count
      /\ call.i = Top.i /\ call.pf = pf /\ call.pd = pd + 1
  BY <1>1, <1>2, ProcessesAssumption DEF CallType, Pd
<1>4. /\ mapped' = [mapped EXCEPT ![pd] = @ \cup {pf}] /\ Replace(call)
      /\ UNCHANGED <<frame_map, cached_frame_map, cachedIndex, frame_cache_size, framesUsed,
                   tables, lent, pagetables, leaked, aborted, torn>>
  BY DEF MapPageframe
<1>5. /\ mapped \in [Pd -> SUBSET Frame] /\ mapped' \in [Pd -> SUBSET Frame]
      /\ \A p \in Pd : mapped[p] \subseteq mapped'[p]
      /\ \A p \in Pd : \A g \in mapped'[p] : g \in mapped[p] \/ (g = pf /\ p = pd)
      /\ pf \in mapped'[pd]
  BY <1>1, <1>2, <1>4 DEF IInv, TypeOK
<1> HIDE DEF pf, pd, call
<1>6. /\ stack' \in Seq(CallType) /\ stack' # <<>> /\ Top' = call /\ (Calm' <=> Calm)
  BY <1>1, <1>3, <1>4, Replaced
<1>7. /\ (InRun' <=> InRun) /\ (InCache' <=> InCache) /\ Mapping' /\ (Refill' <=> Refill)
      /\ Top'.pf = pf /\ Top.pf = pf /\ Top.pd = pd /\ Clear' = Clear
  BY <1>1, <1>3, <1>4, <1>6 DEF InRun, InCache, Mapping, Refill, Clear, pf, pd
<1>8. Lent' = Lent /\ Cached' = Cached /\ Owned' = Owned /\ InHand' = InHand
  <2>1. Lent' = Lent /\ Cached' = Cached /\ Owned' = Owned
    BY <1>4 DEF Lent, Cached, Owned
  <2>2. Top'.first = Top.first /\ Top'.i = Top.i
    BY <1>3, <1>6
  <2>3. InHand' = InHand
    BY <1>1, <1>7, <2>2 DEF InHand
  <2> QED
    BY <2>1, <2>3
<1>9. (TypeOK /\ stack \in Seq(CallType) /\ cachedIndex <= frame_cache_size)'
  <2>1. \A k \in 1 .. Len(stack') : stack'[k] \in CallType
    BY <1>6, StackOfCalls
  <2> QED
    BY <1>4, <1>5, <1>6, <2>1 DEF IInv, TypeOK
<1>10. Blocks' /\ Disjoint' /\ Counted'
  BY <1>4, <1>8 DEF IInv, Blocks, OnlyLastFrameLeaks, Disjoint, Counted
<1>11. Marked'
  BY <1>4, <1>6, <1>8 DEF IInv, Marked
<1>12. Maps'
  <2>1. \A p \in Pd : \A g \in mapped'[p] : <<p, Region(g)>> \in tables'
    BY <1>1, <1>4, <1>5 DEF IInv, Maps, pf, pd
  <2>2. \A p \in Pd : Owned' \subseteq mapped'[p]
    BY <1>5, <1>8 DEF IInv, Maps
  <2>3. ASSUME Calm', NEW g \in mapped'[0], ~ (Mapping' /\ g = Top'.pf)
        PROVE  \A p \in Pd : g \in mapped'[p]
    <3>1. g # pf /\ 0 \in Pd
      BY <1>7, <2>3, ProcessesAssumption DEF Pd
    <3>2. g \in mapped[0]
      BY <1>5, <2>3, <3>1
    <3>3. \A p \in Pd : g \in mapped[p]
      BY <1>6, <1>7, <2>3, <3>1, <3>2 DEF IInv, Maps
    <3> QED
      BY <1>5, <3>3
  <2> QED
    BY <2>1, <2>2, <2>3 DEF Maps
<1>13. Tables'
  <2>1. ASSUME Calm', NEW p \in Pd, NEW q \in Pd, NEW f \in Frame,
               <<p, Region(f)>> \in tables', <<q, Region(f)>> \notin tables'
        PROVE  Mapping' /\ Region(f) = Region(Top'.pf) /\ p < Top'.pd /\ Top'.pd <= q
    <3>1. Region(f) = Region(pf) /\ p < pd /\ pd <= q
      BY <1>4, <1>6, <1>7, <2>1 DEF IInv, Tables
    <3>2. q # pd /\ p \in Int /\ q \in Int
      BY <1>1, <1>4, <2>1, <3>1, ProcessesAssumption DEF Pd, pd, pf
    <3> QED
      BY <1>2, <1>3, <1>6, <1>7, <3>1, <3>2
  <2>2. ASSUME Calm', NEW p \in Pd, NEW q \in Pd, NEW f \in Frame, NEW g \in Frame,
               <<p, Region(f)>> \in tables', Region(g) < Region(f)
        PROVE  <<q, Region(g)>> \in tables'
    BY <1>4, <1>6, <2>2 DEF IInv, Tables
  <2> QED
    BY <2>1, <2>2 DEF Tables
<1>14. ASSUME NEW q \in Pd, q < pd + 1, \A p \in Pd : p < pd => pf \in mapped[p]
       PROVE  pf \in mapped'[q]
  BY <1>1, <1>2, <1>5, <1>14, ProcessesAssumption DEF Pd, pd
<1>15. Filling'
  <2>1. ASSUME Refill
        PROVE  /\ Top.count = CACHE /\ Top.i <= CACHE /\ frame_cache_size = Top.i
               /\ Top.i < CACHE /\ cached_frame_map[Top.i] = pf
               /\ pf \in frame_map /\ \A g \in Clear : pf < g
               /\ \A p \in Pd : p < pd => pf \in mapped[p]
    BY <1>1, <1>7, <2>1 DEF IInv, Filling
  <2> QED
    BY <1>3, <1>4, <1>6, <1>7, <1>14, <2>1 DEF Filling
<1>16. Running'
  <2>1. ASSUME InRun
        PROVE  /\ Calm /\ Top.count \in 1 .. FRAMES /\ Top.first + Top.count < FRAMES
               /\ Top.i <= Top.count
               /\ \A f \in Frame, p \in Pd :
                     Region(f) < Region(Top.first) => <<p, Region(f)>> \in tables
               /\ \A f \in Top.first .. Top.first + Top.count - 1 :
                     /\ f < Top.first + Top.i => \A p \in Pd : f \in mapped[p]
                     /\ f >= Top.first + Top.i => f \in Clear \/ f = pf
               /\ pf = Top.first + Top.i /\ Top.i < Top.count
               /\ pf \in frame_map
               /\ \A p \in Pd : p < pd => pf \in mapped[p]
    BY <1>1, <1>7, <2>1 DEF IInv, Running
  <2>2. ASSUME InRun, NEW f \in Top.first .. Top.first + Top.count - 1
        PROVE  /\ f < Top.first + Top.i => \A p \in Pd : f \in mapped'[p]
               /\ f >= Top.first + Top.i => f \in Clear' \/ (Mapping' /\ f = pf)
    BY <1>4, <1>5, <1>7, <2>1, <2>2
  <2> QED
    BY <1>3, <1>4, <1>6, <1>7, <1>14, <2>1, <2>2 DEF Running
<1>17. Doomed'
  <2>1. ASSUME ~ Calm
        PROVE  /\ cachedIndex = 0 /\ frame_cache_size = 0
               /\ Top.first = None /\ Top.i = 0 /\ Top.count = CACHE
               /\ \A f \in Clear : f \notin mapped[0] /\ \E p \in Pd : <<p, Region(f)>> \notin tables
               /\ pf \in frame_map
               /\ \E p \in Pd : pd <= p /\ <<p, Region(pf)>> \notin tables
    BY <1>1, <1>7, <2>1 DEF IInv, Doomed
  <2>2. 0 \in Pd /\ \A p \in Pd : p \in Int
    BY ProcessesAssumption DEF Pd
  <2>3. ASSUME ~ Calm, NEW f \in Clear PROVE f \notin mapped'[0]
    BY <1>5, <2>1, <2>2, <2>3 DEF Clear
  <2>4. ASSUME ~ Calm PROVE \E p \in Pd : pd + 1 <= p /\ <<p, Region(pf)>> \notin tables
    <3>1. PICK p \in Pd : pd <= p /\ <<p, Region(pf)>> \notin tables
      BY <2>1, <2>4
    <3>2. p # pd
      BY <1>1, <3>1 DEF pd, pf
    <3> QED
      BY <1>2, <2>2, <3>1, <3>2
  <2> QED
    BY <1>3, <1>4, <1>6, <1>7, <2>1, <2>3, <2>4 DEF Doomed
<1> QED
  BY <1>9, <1>10, <1>11, <1>12, <1>13, <1>15, <1>16, <1>17 DEF IInv

-----------------------------------------------------------------------------
(* The frames in the cache.                                                *)

\* One more cached frame, behind the others.
LEMMA CacheGrows ==
    ASSUME IInv, NEW f \in Frame, f \notin Owned, frame_cache_size \in 0 .. 2 * CACHE - 1,
           cached_frame_map'[frame_cache_size] = f,
           \A k \in Slot : k < frame_cache_size => cached_frame_map'[k] = cached_frame_map[k],
           frame_cache_size' = frame_cache_size + 1,
           UNCHANGED <<cachedIndex, lent, pagetables, leaked, torn>>
    PROVE  /\ Lent' = Lent /\ Cached' = Cached \cup {f} /\ Owned' = Owned \cup {f}
           /\ Blocks' /\ Disjoint' /\ UNCHANGED <<Lent, pagetables, leaked>>
<1>1. /\ cachedIndex \in Nat /\ cachedIndex <= frame_cache_size /\ CACHE \in Nat \ {0}
      /\ frame_cache_size \in Slot /\ \A k \in Slot : k \in Int
  BY CacheAssumption DEF IInv, TypeOK, Slot
<1>2. \A k \in Slot : cachedIndex <= k /\ k < frame_cache_size + 1
                        <=> (cachedIndex <= k /\ k < frame_cache_size) \/ k = frame_cache_size
  BY <1>1
<1>3. \A k \in Slot : cachedIndex <= k /\ k < frame_cache_size =>
          cached_frame_map[k] \in Cached
  BY DEF Cached
<1>4. Lent' = Lent
  BY DEF Lent
<1>5. Cached' = Cached \cup {f}
  BY <1>1, <1>2 DEF Cached
<1>6. Owned' = Owned \cup {f}
  BY <1>4, <1>5 DEF Owned
<1>7. Blocks'
  BY <1>1, <1>2 DEF IInv, Blocks, OnlyLastFrameLeaks
<1>8. Disjoint'
  <2>1. \A j, k \in Slot :
          /\ cachedIndex <= j /\ j < frame_cache_size /\ cachedIndex <= k /\ k < frame_cache_size
          /\ cached_frame_map[j] = cached_frame_map[k]
          => j = k
    BY DEF IInv, Disjoint
  <2>2. ASSUME NEW j \in Slot, NEW k \in Slot,
               cachedIndex <= j, j < frame_cache_size + 1, cachedIndex <= k,
               k < frame_cache_size + 1, cached_frame_map'[j] = cached_frame_map'[k]
        PROVE  j = k
    <3>1. \A l \in Slot : cachedIndex <= l /\ l < frame_cache_size =>
              cached_frame_map'[l] = cached_frame_map[l] /\ cached_frame_map'[l] # f
      BY <1>3 DEF Owned
    <3> QED
      BY <1>1, <1>2, <2>1, <2>2, <3>1
  <2>3. \A b, c \in lent' : b # c => FramesOf(b) \cap FramesOf(c) = {}
    BY DEF IInv, Disjoint
  <2>4. /\ Lent' \cap pagetables' = {} /\ Lent' \cap Cached' = {} /\ pagetables' \cap Cached' = {}
        /\ leaked' \cap (Lent' \cup pagetables' \cup Cached') = {}
    BY <1>4, <1>5 DEF IInv, Disjoint, Owned
  <2> QED
    BY <2>2, <2>3, <2>4 DEF Disjoint
<1> QED
  BY <1>4, <1>5, <1>6, <1>7, <1>8

\* The first of the cached frames is handed out.
LEMMA CacheShrinks ==
    ASSUME IInv, cachedIndex < frame_cache_size, cachedIndex' = cachedIndex + 1,
           UNCHANGED <<cached_frame_map, frame_cache_size>>
    PROVE  /\ cached_frame_map[cachedIndex] \in Frame
           /\ cached_frame_map[cachedIndex] \in Cached
           /\ Cached' = Cached \ {cached_frame_map[cachedIndex]}
           /\ cachedIndex' <= frame_cache_size' /\ cachedIndex' \in 0 .. 2 * CACHE + 1
           /\ \A k \in Slot : cachedIndex' <= k /\ k < frame_cache_size' => cached_frame_map[k] \in Frame
           /\ \A j, k \in Slot :
                 /\ cachedIndex' <= j /\ j < frame_cache_size' /\ cachedIndex' <= k /\ k < frame_cache_size'
                 /\ cached_frame_map'[j] = cached_frame_map'[k]
                 => j = k
<1>1. /\ cachedIndex \in Nat /\ CACHE \in Nat \ {0} /\ frame_cache_size \in Slot
      /\ \A k \in Slot : k \in Int
  BY CacheAssumption DEF IInv, TypeOK, Slot
<1>2. cachedIndex \in Slot
  BY <1>1 DEF Slot
<1>3. \A k \in Slot : cachedIndex <= k /\ k < frame_cache_size
                        <=> (cachedIndex' <= k /\ k < frame_cache_size) \/ k = cachedIndex
  BY <1>1, <1>2
<1>4. \A j, k \in Slot :
          /\ cachedIndex <= j /\ j < frame_cache_size /\ cachedIndex <= k /\ k < frame_cache_size
          /\ cached_frame_map[j] = cached_frame_map[k]
          => j = k
  BY DEF IInv, Disjoint
<1>5. cached_frame_map[cachedIndex] \in Frame /\ cached_frame_map[cachedIndex] \in Cached
  BY <1>1, <1>2 DEF IInv, Blocks, Cached
<1>6. Cached' = Cached \ {cached_frame_map[cachedIndex]}
  <2>1. Cached = {cached_frame_map[k] : k \in {k \in Slot : cachedIndex' <= k /\ k < frame_cache_size}}
                    \cup {cached_frame_map[cachedIndex]}
    BY <1>1, <1>2, <1>3 DEF Cached
  <2>2. cached_frame_map[cachedIndex] \notin
            {cached_frame_map[k] : k \in {k \in Slot : cachedIndex' <= k /\ k < frame_cache_size}}
    BY <1>1, <1>2, <1>3, <1>4
  <2> QED
    BY <2>1, <2>2 DEF Cached
<1>7. cachedIndex' <= frame_cache_size' /\ cachedIndex' \in 0 .. 2 * CACHE + 1
  BY <1>1 DEF Slot
<1>8. \A k \in Slot : cachedIndex' <= k /\ k < frame_cache_size' => cached_frame_map[k] \in Frame
  BY <1>3 DEF IInv, Blocks
<1> QED
  BY <1>3, <1>4, <1>5, <1>6, <1>7, <1>8

\* A frame that is mapped everywhere is cached, or is one more frame of the run.
LEMMA MapPageframeReturnIInv ==
    ASSUME IInv, MapPageframeReturn
    PROVE  IInv'
<1> DEFINE pf == Top.pf
           call == [Top EXCEPT !.pf = None, !.pd = 0, !.i = @ + 1]
<1>1. /\ stack # <<>> /\ Mapping /\ pf # None /\ Top.pd \notin Pd
  BY DEF MapPageframeReturn, Mapping
<1>2. /\ Top \in CallType /\ pf \in Frame /\ Top.pd = PROCESSES + 1 /\ Top.pd \in Nat
      /\ 0 \in Pd /\ Top.i \in Nat /\ \A p \in Pd : p \in Int /\ p < Top.pd
  BY <1>1, TopType, ProcessesAssumption, FramesAssumption, CacheAssumption DEF Pd
<1>3. ASSUME ~ Calm PROVE FALSE
  <2>1. PICK p \in Pd : Top.pd <= p
    BY <1>1, <1>3 DEF IInv, Doomed
  <2>2. p < Top.pd /\ p \in Int /\ Top.pd \in Nat
    BY <1>2
  <2> QED
    BY <2>1, <2>2
<1>4. InCache <=> Refill
  BY <1>3 DEF Refill
<1>5. InCache => /\ Top.count = CACHE /\ frame_cache_size = Top.i
                 /\ Top.i < CACHE /\ cached_frame_map[Top.i] = pf
                 /\ pf \in frame_map /\ \A p \in Pd : pf \in mapped[p]
  BY <1>1, <1>2, <1>4 DEF IInv, Filling
<1>6. InRun => /\ Top.count \in 1 .. FRAMES /\ Top.first + Top.count < FRAMES
               /\ pf = Top.first + Top.i /\ Top.i < Top.count
               /\ pf \in frame_map /\ \A p \in Pd : pf \in mapped[p]
  BY <1>1, <1>2 DEF IInv, Running
<1>7. InCache \/ InRun
  BY <1>1 DEF InCache, InRun
<1>8. Top.i + 1 \in 0 .. FRAMES + CACHE
  BY <1>2, <1>5, <1>6, <1>7, FramesAssumption, CacheAssumption
<1>9. /\ call \in CallType /\ call.first = Top.first /\ call.count = Top.count
      /\ call.i = Top.i + 1 /\ call.pf = None /\ call.pd = 0
  <2>1. None \in Frame \cup {None} /\ 0 \in 0 .. PROCESSES + 1
    BY ProcessesAssumption
  <2>2. call \in CallType
    BY <1>2, <1>8, <2>1 DEF CallType
  <2> QED
    BY <1>2, <2>2 DEF CallType
<1>10. Replace(call)
  BY DEF MapPageframeReturn
<1>11. /\ frame_cache_size' = IF InCache THEN frame_cache_size + 1 ELSE frame_cache_size
       /\ UNCHANGED <<frame_map, cached_frame_map, cachedIndex, framesUsed, tables, mapped,
                      lent, pagetables, leaked, aborted, torn>>
  BY DEF MapPageframeReturn
<1>12. /\ frame_map = Owned \cup InHand /\ InHand \cap Owned = {}
       /\ \A p \in Pd : \A f \in mapped[p] : <<p, Region(f)>> \in tables
       /\ \A p \in Pd : Owned \subseteq mapped[p]
       /\ \A f \in mapped[0] : f # pf => \A p \in Pd : f \in mapped[p]
  BY <1>1, <1>3 DEF IInv, Marked, Maps
<1>13. pf \in InHand
  BY <1>1 DEF InHand
<1> HIDE DEF pf, call
<1>14. /\ stack' \in Seq(CallType) /\ stack' # <<>> /\ Top' = call /\ Calm'
  BY <1>1, <1>3, <1>9, <1>10, Replaced
<1>15. /\ (InRun' <=> InRun) /\ (InCache' <=> InCache) /\ ~ Mapping' /\ (Refill' <=> Refill)
       /\ Clear' = Clear
  BY <1>1, <1>3, <1>9, <1>11, <1>14 DEF InRun, InCache, Mapping, Refill, Clear
<1>16. \A k \in 1 .. Len(stack') : stack'[k] \in CallType
  BY <1>14, StackOfCalls
<1>17. Tables'
  <2>1. ASSUME NEW p \in Pd, NEW q \in Pd, NEW f \in Frame,
               <<p, Region(f)>> \in tables, <<q, Region(f)>> \notin tables
        PROVE  FALSE
    BY <1>2, <1>3, <2>1 DEF IInv, Tables
  <2>2. \A p, q \in Pd, f, g \in Frame :
          <<p, Region(f)>> \in tables /\ Region(g) < Region(f) => <<q, Region(g)>> \in tables
    BY <1>3 DEF IInv, Tables
  <2> QED
    BY <1>11, <2>1, <2>2 DEF Tables
<1>18. Doomed'
  BY <1>14 DEF Doomed
<1>19. CASE InCache
  <2>1. ~ InRun /\ Refill
    BY <1>4, <1>19 DEF InCache, InRun
  <2>2. pf \notin Owned /\ frame_cache_size \in 0 .. 2 * CACHE - 1
    BY <1>2, <1>5, <1>12, <1>13, <1>19, CacheAssumption
  <2>3. /\ Lent' = Lent /\ Owned' = Owned \cup {pf} /\ Blocks' /\ Disjoint'
    BY <1>2, <1>5, <1>11, <1>19, <2>2, CacheGrows
  <2>4. InHand = {pf} /\ InHand' = {}
    BY <1>1, <1>15, <2>1 DEF InHand, pf
  <2>5. cachedIndex \in Nat /\ cachedIndex <= frame_cache_size /\ CACHE \in Nat
    BY CacheAssumption DEF IInv, TypeOK
  <2>6. (TypeOK /\ stack \in Seq(CallType) /\ cachedIndex <= frame_cache_size)'
    <3>1. frame_cache_size' \in Slot /\ cachedIndex' <= frame_cache_size'
      BY <1>11, <1>19, <2>2, <2>5 DEF Slot
    <3> QED
      BY <1>11, <1>14, <1>16, <3>1 DEF IInv, TypeOK
  <2>7. Marked'
    BY <1>11, <1>12, <2>3, <2>4 DEF Marked
  <2>8. Maps'
    BY <1>5, <1>11, <1>12, <1>19, <2>3 DEF Maps
  <2>9. Filling'
    BY <1>2, <1>5, <1>9, <1>11, <1>14, <1>15, <1>19, <2>5 DEF Filling
  <2>10. Running' /\ Counted'
    BY <1>11, <1>15, <2>1, <2>3 DEF IInv, Running, Counted
  <2> QED
    BY <1>17, <1>18, <2>3, <2>6, <2>7, <2>8, <2>9, <2>10 DEF IInv
<1>20. CASE InRun
  <2>1. ~ InCache /\ ~ Refill
    BY <1>4, <1>20 DEF InCache, InRun
  <2>2. Lent' = Lent /\ Cached' = Cached /\ Owned' = Owned
    BY <1>11, <2>1 DEF Lent, Cached, Owned
  <2>3. Top.first \in Int /\ Top.first # None
    BY <1>20, RunFrames DEF Frame, InRun
  <2>4. InHand' = InHand
    <3>1. InHand = {pf} \cup Top.first .. Top.first + Top.i - 1
      BY <1>1, <1>20 DEF InHand, pf
    <3>2. InHand' = Top.first .. Top.first + Top.i + 1 - 1
      BY <1>2, <1>9, <1>14, <1>15, <1>20, <2>3 DEF InHand
    <3> QED
      BY <1>2, <1>6, <1>20, <2>3, <3>1, <3>2
  <2>5. (TypeOK /\ stack \in Seq(CallType) /\ cachedIndex <= frame_cache_size)'
    BY <1>11, <1>14, <1>16, <2>1 DEF IInv, TypeOK
  <2>6. Blocks' /\ Disjoint' /\ Counted'
    BY <1>11, <2>1, <2>2 DEF IInv, Blocks, OnlyLastFrameLeaks, Disjoint, Counted
  <2>7. Marked'
    BY <1>11, <1>12, <2>2, <2>4 DEF Marked
  <2>8. Maps'
    BY <1>6, <1>11, <1>12, <1>20, <2>2 DEF Maps
  <2>9. Running'
    <3>1. /\ Top.count \in 1 .. FRAMES /\ Top.first + Top.count < FRAMES
          /\ Top.i + 1 <= Top.count
      BY <1>2, <1>6, <1>20
    <3>2. ASSUME NEW g \in Top.first .. Top.first + Top.count - 1
          PROVE  /\ g < Top.first + Top.i + 1 => \A p \in Pd : g \in mapped[p]
                 /\ g >= Top.first + Top.i + 1 => g \in Clear
      <4>1. /\ g < Top.first + Top.i => \A p \in Pd : g \in mapped[p]
            /\ g >= Top.first + Top.i => g \in Clear \/ g = pf
        BY <1>20 DEF IInv, Running, pf
      <4>2. g \in Int /\ pf \in Int /\ (g < pf \/ g = pf \/ g > pf)
        BY <1>2, <2>3, <3>1 DEF Frame
      <4> QED
        BY <1>2, <1>6, <1>20, <2>3, <4>1, <4>2
    <3>3. /\ Top'.first = Top.first /\ Top'.count = Top.count /\ Top'.i = Top.i + 1
          /\ tables' = tables /\ mapped' = mapped
      BY <1>9, <1>11, <1>14
    <3>4. \A f \in Top'.first .. Top'.first + Top'.count - 1 :
             /\ f < Top'.first + Top'.i => \A p \in Pd : f \in mapped'[p]
             /\ f >= Top'.first + Top'.i => f \in Clear'
      <4>1. \A f \in Top'.first .. Top'.first + Top'.count - 1 : f \in Int
        BY <2>3, <3>1, <3>3
      <4>2. Top'.first + Top'.i = Top.first + Top.i + 1
        BY <1>2, <2>3, <3>3
      <4> QED
        BY <1>15, <3>2, <3>3, <4>1, <4>2
    <3>5. Top'.first + Top'.count < FRAMES /\ Top'.i <= Top'.count /\ Top'.count \in 1 .. FRAMES
      BY <3>1, <3>3
    <3>6. \A f \in Frame, p \in Pd :
             Region(f) < Region(Top'.first) => <<p, Region(f)>> \in tables'
      BY <1>20, <3>3 DEF IInv, Running
    <3> QED
      BY <1>14, <1>15, <3>4, <3>5, <3>6 DEF Running
  <2>10. Filling'
    BY <1>15, <2>1 DEF Filling
  <2> QED
    BY <1>17, <1>18, <2>5, <2>6, <2>7, <2>8, <2>9, <2>10 DEF IInv
<1> QED
  BY <1>7, <1>19, <1>20

-----------------------------------------------------------------------------
(* kalloc_frame and kalloc_cache.                                          *)

\* A cached frame goes to the rest of the kernel.
LEMMA CachedLent ==
    ASSUME IInv, Calm, ~ Mapping, InHand = {}, cachedIndex < frame_cache_size,
           TakeCached(<<>>),
           UNCHANGED <<frame_map, cached_frame_map, frame_cache_size, leaked, aborted, torn>>
    PROVE  IInv'
<1> DEFINE f == cached_frame_map[cachedIndex]
           b == <<f, 1>>
<1>1. /\ f \in Frame /\ f \in Cached /\ Cached' = Cached \ {f}
      /\ cachedIndex' <= frame_cache_size' /\ cachedIndex' \in 0 .. 2 * CACHE + 1
      /\ \A k \in Slot : cachedIndex' <= k /\ k < frame_cache_size' => cached_frame_map[k] \in Frame
      /\ \A j, k \in Slot :
            /\ cachedIndex' <= j /\ j < frame_cache_size' /\ cachedIndex' <= k /\ k < frame_cache_size'
            /\ cached_frame_map'[j] = cached_frame_map'[k]
            => j = k
  BY CacheShrinks DEF TakeCached
<1>2. FRAMES \in Nat \ {0}
  BY FramesAssumption
<1>3. b \in (Frame \cup {None}) \X (1 .. FRAMES) /\ FramesOf(b) = {f}
  BY <1>1, <1>2 DEF FramesOf, Frame
<1>4. /\ lent' = lent \cup {b} /\ stack' = <<>> /\ framesUsed' = framesUsed + 1
      /\ UNCHANGED <<frame_map, cached_frame_map, frame_cache_size, tables, mapped,
                     pagetables, leaked, aborted, torn>>
  BY DEF TakeCached, Return
<1>5. b[1] = f /\ b[2] = 1
  OBVIOUS
<1> HIDE DEF b, f
<1>6. /\ Calm' /\ ~ InCache' /\ ~ InRun' /\ ~ Mapping' /\ InHand' = {}
  BY <1>4 DEF Calm, InCache, InRun, Mapping, InHand
<1>7. /\ Lent' = Lent \cup {f} /\ Owned' = Owned /\ f \in Owned
  BY <1>1, <1>3, <1>4, LentGrows DEF Owned
<1>8. f \notin Lent /\ f \notin pagetables /\ f \notin leaked
  BY <1>1 DEF IInv, Disjoint
<1>9. (TypeOK /\ stack \in Seq(CallType) /\ cachedIndex <= frame_cache_size)'
  <2>1. stack' \in Seq(CallType) /\ \A k \in 1 .. Len(stack') : stack'[k] \in CallType
    BY <1>4
  <2>2. framesUsed' \in Int /\ aborted' \in BOOLEAN
    BY <1>4 DEF IInv, TypeOK
  <2> QED
    BY <1>1, <1>3, <1>4, <2>1, <2>2 DEF IInv, TypeOK
<1>10. Blocks'
  <2>1. \A c \in lent' :
           /\ c[1] \in Frame /\ c[2] \in Nat \ {0} /\ c[1] + c[2] <= FRAMES
           /\ c[2] = 1 \/ c[1] + c[2] < FRAMES
    <3>1. TAKE c \in lent'
    <3>2. CASE c = b
      BY <1>1, <1>2, <1>5, <3>2 DEF Frame
    <3>3. CASE c \in lent
      BY <3>3 DEF IInv, Blocks
    <3> QED
      BY <1>4, <3>2, <3>3
  <2> QED
    BY <1>1, <1>4, <2>1 DEF IInv, Blocks, OnlyLastFrameLeaks
<1>11. Disjoint'
  <2>1. \A c \in lent : FramesOf(c) \cap FramesOf(b) = {}
    BY <1>3, <1>8 DEF Lent
  <2>2. \A c, d \in lent' : c # d => FramesOf(c) \cap FramesOf(d) = {}
    BY <1>4, <2>1 DEF IInv, Disjoint
  <2>3. /\ Lent' \cap pagetables' = {} /\ Lent' \cap Cached' = {} /\ pagetables' \cap Cached' = {}
        /\ leaked' \cap (Lent' \cup pagetables' \cup Cached') = {}
    BY <1>1, <1>4, <1>7, <1>8 DEF IInv, Disjoint
  <2> QED
    BY <1>1, <2>2, <2>3 DEF Disjoint
<1>12. Marked'
  BY <1>4, <1>6, <1>7 DEF IInv, Marked
<1>13. Maps'
  BY <1>4, <1>6, <1>7 DEF IInv, Maps
<1>14. Tables'
  BY <1>4 DEF IInv, Tables
<1>15. (Filling /\ Running /\ Doomed)'
  BY <1>6 DEF Filling, Running, Doomed, Refill
<1>16. Counted'
  <2>1. Cardinality(Lent \cup {f}) = Cardinality(Lent) + 1
    BY <1>8, OwnedFrames, HeldFinite, FS_AddElement DEF Owned
  <2>2. Cardinality(Lent) \in Nat /\ Cardinality(pagetables) \in Nat /\ Cardinality(leaked) \in Nat
    BY OwnedFrames, HeldFinite DEF Owned
  <2> QED
    BY <1>4, <1>7, <2>1, <2>2 DEF IInv, Counted, TypeOK
<1> QED
  BY <1>9, <1>10, <1>11, <1>12, <1>13, <1>14, <1>15, <1>16 DEF IInv

\* kalloc_cache has found its frames, or has come to the end of memory: only
\* the kalloc_frame of the rest of the kernel can get here.
LEMMA CacheReturned ==
    ASSUME IInv, KallocCacheReturn
    PROVE  /\ Calm /\ ~ Mapping /\ InHand = {} /\ cachedIndex < frame_cache_size
           /\ Tail(stack) = <<>>
<1>1. /\ stack # <<>> /\ InCache /\ ~ InRun /\ ~ Mapping
      /\ Top.i = Top.count \/ Top.i # 0
  BY DEF KallocCacheReturn, InCache, InRun
<1>2. CACHE \in Nat \ {0} /\ Top.i \in Nat
  BY <1>1, TopType, CacheAssumption, FramesAssumption
<1>3. Calm
  BY <1>1, <1>2 DEF IInv, Doomed
<1>4. cachedIndex < frame_cache_size
  BY <1>1, <1>2, <1>3 DEF IInv, Filling, Refill
<1>5. InHand = {}
  BY <1>1 DEF InHand
<1> QED
  BY <1>1, <1>3, <1>4, <1>5, TopType

LEMMA KallocCacheReturnIInv ==
    ASSUME IInv, KallocCacheReturn
    PROVE  IInv'
<1>1. TakeCached(<<>>)
  BY CacheReturned DEF KallocCacheReturn
<1> QED
  BY <1>1, CacheReturned, CachedLent DEF KallocCacheReturn

\* The first clear frame is cached, or has to be mapped first.
LEMMA KallocCacheFillIInv ==
    ASSUME IInv, KallocCacheFill
    PROVE  IInv'
<1>1. /\ stack # <<>> /\ InCache /\ ~ InRun /\ ~ Mapping /\ Top.i < Top.count /\ Top.pf = None
      /\ Top.first = None
  BY DEF KallocCacheFill, InCache, InRun, Mapping
<1>2. PICK f \in Clear :
          /\ \A g \in Clear : f <= g
          /\ frame_map' = frame_map \cup {f}
          /\ cached_frame_map' = [cached_frame_map EXCEPT ![Top.i] = f]
          /\ IF f \in mapped[0]
             THEN /\ frame_cache_size' = frame_cache_size + 1
                  /\ Replace([Top EXCEPT !.i = @ + 1])
             ELSE /\ Replace([Top EXCEPT !.pf = f, !.pd = 0])
                  /\ UNCHANGED frame_cache_size
  BY DEF KallocCacheFill
<1>3. UNCHANGED <<cachedIndex, framesUsed, tables, mapped, lent, pagetables, leaked, aborted, torn>>
  BY DEF KallocCacheFill
<1>4. /\ Top.count = CACHE /\ frame_cache_size = Top.i /\ Top \in CallType
      /\ Top.i \in Nat /\ Top.i < CACHE /\ CACHE \in Nat \ {0} /\ Top.i \in Slot
  <2>1. Top.count = CACHE /\ frame_cache_size = Top.i
    BY <1>1 DEF IInv, Filling, Doomed, Refill
  <2> QED
    BY <1>1, <2>1, TopType, CacheAssumption, FramesAssumption DEF Slot
<1>5. /\ f \in Frame /\ f \notin frame_map /\ f \notin Owned /\ Clear' = Clear \ {f}
      /\ \A g \in Clear' : f < g
  <2>1. f \in Frame /\ f \notin frame_map /\ Clear' = Clear \ {f} /\ Clear \subseteq Frame
    BY <1>2 DEF Clear
  <2>2. \A g \in Clear' : f < g
    BY <1>2, <2>1 DEF Frame
  <2> QED
    BY <2>1, <2>2, OwnedFrames
<1>6. /\ cached_frame_map'[Top.i] = f
      /\ \A k \in Slot : k < Top.i => cached_frame_map'[k] = cached_frame_map[k]
      /\ cached_frame_map' \in [Slot -> Frame \cup {None}]
  BY <1>2, <1>4, <1>5 DEF IInv, TypeOK
<1>7. 0 \in Pd /\ PROCESSES \in Nat /\ InHand = {} /\ frame_map' \subseteq Frame
  BY <1>1, <1>2, <1>5, ProcessesAssumption DEF Pd, InHand, IInv, TypeOK
<1>8. CASE f \in mapped[0]
  <2> DEFINE call == [Top EXCEPT !.i = @ + 1]
  <2>1. Top.i + 1 \in 0 .. FRAMES + CACHE
    BY <1>4, FramesAssumption
  <2>2. call \in CallType
    BY <1>4, <2>1 DEF CallType
  <2>3. Replace(call) /\ frame_cache_size' = frame_cache_size + 1
    BY <1>2, <1>8
  <2>4. /\ call.first = None /\ call.count = CACHE /\ call.i = Top.i + 1 /\ call.pf = None
    BY <1>1, <1>4, <2>2 DEF CallType
  <2> HIDE DEF call
  <2>5. stack' \in Seq(CallType) /\ stack' # <<>> /\ Top' = call /\ (Calm' <=> Calm)
    BY <1>1, <2>2, <2>3, Replaced
  <2>6. Calm
    BY <1>2, <1>8 DEF IInv, Doomed
  <2>7. InCache' /\ ~ InRun' /\ ~ Mapping' /\ Refill' /\ Refill /\ InHand' = {}
    BY <1>1, <2>4, <2>5, <2>6 DEF InCache, InRun, Mapping, Refill, InHand
  <2>8. frame_cache_size \in 0 .. 2 * CACHE - 1
    BY <1>4
  <2>9. /\ Lent' = Lent /\ Owned' = Owned \cup {f} /\ Blocks' /\ Disjoint'
    BY <1>3, <1>4, <1>5, <1>6, <2>3, <2>8, CacheGrows
  <2>10. cachedIndex \in Nat /\ cachedIndex <= frame_cache_size
    BY DEF IInv, TypeOK
  <2>11. (TypeOK /\ stack \in Seq(CallType) /\ cachedIndex <= frame_cache_size)'
    <3>1. \A k \in 1 .. Len(stack') : stack'[k] \in CallType
      BY <2>5, StackOfCalls
    <3>2. frame_cache_size' \in Slot /\ cachedIndex' <= frame_cache_size'
      BY <1>3, <1>4, <2>3, <2>8, <2>10 DEF Slot
    <3> QED
      BY <1>3, <1>6, <1>7, <2>5, <3>1, <3>2 DEF IInv, TypeOK
  <2>12. Marked'
    BY <1>2, <1>7, <2>6, <2>7, <2>9 DEF IInv, Marked
  <2>13. Maps'
    <3>1. \A p \in Pd : f \in mapped[p]
      BY <1>1, <1>8, <2>6 DEF IInv, Maps
    <3> QED
      BY <1>1, <1>3, <2>6, <2>9, <3>1 DEF IInv, Maps
  <2>14. Tables'
    BY <1>1, <1>3, <2>6 DEF IInv, Tables
  <2>15. Filling'
    BY <1>3, <1>4, <2>3, <2>4, <2>5, <2>7, <2>10 DEF Filling
  <2>16. Running' /\ Doomed' /\ Counted'
    BY <1>3, <2>5, <2>6, <2>7, <2>9 DEF IInv, Running, Doomed, Counted
  <2> QED
    BY <2>9, <2>11, <2>12, <2>13, <2>14, <2>15, <2>16 DEF IInv
<1>9. CASE f \notin mapped[0]
  <2> DEFINE call == [Top EXCEPT !.pf = f, !.pd = 0]
  <2>1. 0 \in 0 .. PROCESSES + 1 /\ f # None
    BY <1>5, <1>7 DEF Frame, None
  <2>2. call \in CallType
    BY <1>4, <1>5, <2>1 DEF CallType
  <2>3. Replace(call) /\ frame_cache_size' = frame_cache_size
    BY <1>2, <1>9
  <2>4. /\ call.first = None /\ call.count = CACHE /\ call.i = Top.i /\ call.pf = f /\ call.pd = 0
    BY <1>1, <1>4, <2>2 DEF CallType
  <2> HIDE DEF call
  <2>5. stack' \in Seq(CallType) /\ stack' # <<>> /\ Top' = call /\ (Calm' <=> Calm)
    BY <1>1, <2>2, <2>3, Replaced
  <2>6. InCache' /\ ~ InRun' /\ Mapping' /\ (Refill' <=> Refill) /\ InHand' = {f}
    BY <1>1, <2>1, <2>4, <2>5 DEF InCache, InRun, Mapping, Refill, InHand
  <2>7. /\ Cached' = Cached
        /\ \A k \in Slot : k < frame_cache_size' => cached_frame_map'[k] = cached_frame_map[k]
    <3>1. \A k \in Slot : k < frame_cache_size' => cached_frame_map'[k] = cached_frame_map[k]
      BY <1>4, <1>6, <2>3
    <3> QED
      BY <1>3, <2>3, <3>1 DEF Cached
  <2>8. Lent' = Lent /\ Owned' = Owned
    BY <1>3, <2>7 DEF Lent, Owned
  <2>9. (TypeOK /\ stack \in Seq(CallType) /\ cachedIndex <= frame_cache_size)'
    <3>1. \A k \in 1 .. Len(stack') : stack'[k] \in CallType
      BY <2>5, StackOfCalls
    <3> QED
      BY <1>3, <1>6, <1>7, <2>3, <2>5, <3>1 DEF IInv, TypeOK
  <2>10. Blocks' /\ Counted'
    BY <1>3, <2>3, <2>7, <2>8 DEF IInv, Blocks, OnlyLastFrameLeaks, Counted
  <2>11. Disjoint'
    BY <1>3, <2>3, <2>7, <2>8 DEF IInv, Disjoint
  <2>12. Marked'
    BY <1>2, <1>5, <1>7, <2>5, <2>6, <2>8 DEF IInv, Marked
  <2>13. Maps'
    BY <1>1, <1>3, <2>5, <2>8 DEF IInv, Maps
  <2>14. Tables'
    BY <1>1, <1>3, <2>5 DEF IInv, Tables
  <2>15. Filling'
    <3>1. \A q \in Pd : ~ q < 0
      BY <1>7 DEF Pd
    <3> QED
      BY <1>2, <1>4, <1>5, <1>6, <2>3, <2>4, <2>5, <2>6, <3>1 DEF Filling
  <2>16. Doomed'
    <3>1. ASSUME ~ Calm
          PROVE  /\ cachedIndex = 0 /\ frame_cache_size = 0 /\ Top.i = 0
                 /\ \A g \in Clear : g \notin mapped[0] /\ \E p \in Pd : <<p, Region(g)>> \notin tables
      BY <3>1 DEF IInv, Doomed
    <3>2. \A p \in Pd : 0 <= p
      BY <1>7 DEF Pd
    <3> QED
      BY <1>2, <1>3, <1>5, <2>3, <2>4, <2>5, <3>1, <3>2 DEF Doomed
  <2>17. Running'
    BY <2>6 DEF Running
  <2> QED
    BY <2>9, <2>10, <2>11, <2>12, <2>13, <2>14, <2>15, <2>16, <2>17 DEF IInv
<1> QED
  BY <1>8, <1>9

\* A page directory without a table for the frame being mapped: when that frame
\* is for the cache, the frames that are still clear lie in no region that has one.
LEMMA TableWanted ==
    ASSUME IInv, NoTable
    PROVE  /\ stack # <<>> /\ Mapping /\ Top.pf # None /\ Top.pf \in Frame /\ Top.pd \in Pd
           /\ <<Top.pd, Region(Top.pf)>> \notin tables
           /\ InCache \/ InRun
           /\ Calm /\ InCache =>
                 \A f \in Clear : f \notin mapped[0] /\ <<Top.pd, Region(f)>> \notin tables
<1>1. /\ stack # <<>> /\ Mapping /\ Top.pf # None /\ Top.pd \in Pd
      /\ <<Top.pd, Region(Top.pf)>> \notin tables /\ (InCache \/ InRun)
  BY DEF NoTable, Mapping, InCache, InRun
<1>2. Top.pf \in Frame /\ 0 \in Pd
  BY <1>1, TopType, ProcessesAssumption DEF Pd
<1>5. ASSUME Calm, InCache, NEW f \in Clear
      PROVE  f \notin mapped[0] /\ <<Top.pd, Region(f)>> \notin tables
  <2>1. Top.pf < f /\ f # Top.pf /\ f \in Frame
    BY <1>1, <1>2, <1>5 DEF IInv, Filling, Refill, Clear
  <2>2. /\ Region(f) \in Nat /\ Region(Top.pf) \in Nat /\ ~ Region(f) < Region(Top.pf)
    BY <1>2, <2>1, RegionsInOrder DEF Frame
  <2>3. <<Top.pd, Region(f)>> \notin tables
    <3>1. CASE Region(f) = Region(Top.pf)
      BY <1>1, <3>1
    <3>2. CASE Region(Top.pf) < Region(f)
      BY <1>1, <1>2, <1>5, <2>1, <3>2 DEF IInv, Tables
    <3> QED
      BY <2>2, <3>1, <3>2
  <2>4. ASSUME f \in mapped[0] PROVE FALSE
    BY <1>1, <1>5, <2>1, <2>3, <2>4 DEF IInv, Maps
  <2> QED
    BY <2>3, <2>4
<1> QED
  BY <1>1, <1>2, <1>5

\* The cache is empty: a first kalloc_cache is called, or one from within
\* another, which then finds no frame that would not need a table, too.
LEMMA KallocFrameRefillIInv ==
    ASSUME IInv, KallocFrameRefill, ~ torn'
    PROVE  IInv'
<1>1. /\ stack = <<>> \/ NoTable
      /\ cachedIndex' = 0 /\ frame_cache_size' = 0 /\ stack' = <<Call(None, CACHE)>> \o stack
      /\ UNCHANGED <<frame_map, cached_frame_map, framesUsed, tables, mapped, lent,
                     pagetables, leaked, aborted>>
      /\ cachedIndex >= frame_cache_size /\ ~ InRun /\ torn' \in BOOLEAN
  <2>1. torn' = (torn \/ InRun)
    BY DEF KallocFrameRefill
  <2>2. ~ InRun /\ torn' \in BOOLEAN
    BY <2>1, Zenon
  <2> QED
    BY <2>2 DEF KallocFrameRefill, FrameWanted
<1>2. Call(None, CACHE) \in CallType /\ stack \in Seq(CallType) /\ CACHE \in Nat \ {0}
  BY CallTypes, CacheAssumption DEF IInv
<1>3. /\ stack' \in Seq(CallType) /\ stack' # <<>> /\ Top' = Call(None, CACHE)
      /\ Len(stack') = Len(stack) + 1
  BY <1>1, <1>2, FirstAdded DEF Top
<1>4. /\ Top'.first = None /\ Top'.count = CACHE /\ Top'.i = 0 /\ Top'.pf = None
  BY <1>3 DEF Call
<1>5. InCache' /\ ~ InRun' /\ ~ Mapping' /\ InHand' = {}
  BY <1>3, <1>4 DEF InCache, InRun, Mapping, InHand
<1>6. Cached = {} /\ Cached' = {}
  <2>1. /\ cachedIndex \in Int /\ frame_cache_size \in Int /\ \A k \in Slot : k \in Int
    BY <1>2 DEF IInv, TypeOK, Slot
  <2>2. \A k \in Slot : ~ (cachedIndex <= k /\ k < frame_cache_size)
    BY <1>1, <2>1
  <2>3. \A k \in Slot : ~ (cachedIndex' <= k /\ k < frame_cache_size')
    BY <1>1, <2>1
  <2> QED
    BY <2>2, <2>3 DEF Cached
<1>7. Lent' = Lent /\ Owned' = Owned /\ Clear' = Clear
  BY <1>1, <1>6 DEF Lent, Owned, Clear
<1>8. (TypeOK /\ stack \in Seq(CallType) /\ cachedIndex <= frame_cache_size)'
  <2>1. \A k \in 1 .. Len(stack') : stack'[k] \in CallType
    BY <1>3, StackOfCalls
  <2>2. frame_cache_size' \in Slot /\ cachedIndex' \in 0 .. 2 * CACHE + 1
    BY <1>1, <1>2 DEF Slot
  <2> QED
    BY <1>1, <1>3, <2>1, <2>2 DEF IInv, TypeOK
<1>9. Blocks' /\ Disjoint' /\ Counted'
  <2>1. \A k \in Slot : ~ (cachedIndex' <= k /\ k < frame_cache_size')
    BY <1>1, <1>2 DEF Slot
  <2>2. Blocks'
    BY <1>1, <2>1 DEF IInv, Blocks, OnlyLastFrameLeaks
  <2>3. Disjoint'
    BY <1>1, <1>6, <1>7, <2>1 DEF IInv, Disjoint
  <2>4. Counted'
    BY <1>1, <1>7 DEF IInv, Counted
  <2> QED
    BY <2>2, <2>3, <2>4
<1>10. Filling' /\ Running'
  BY <1>1, <1>2, <1>4, <1>5 DEF Filling, Running
<1>11. CASE stack = <<>>
  <2>1. Calm /\ Calm' /\ ~ Mapping /\ InHand = {}
    BY <1>3, <1>11 DEF Calm, Mapping, InHand, InRun
  <2>2. Marked' /\ Maps' /\ Tables'
    <3>1. Marked'
      BY <1>1, <1>5, <1>7, <2>1 DEF IInv, Marked
    <3>2. Maps'
      BY <1>1, <1>5, <1>7, <2>1 DEF IInv, Maps
    <3>3. Tables'
      BY <1>1, <1>5, <2>1 DEF IInv, Tables
    <3> QED
      BY <3>1, <3>2, <3>3
  <2>3. Doomed'
    BY <2>1 DEF Doomed
  <2> QED
    BY <1>8, <1>9, <1>10, <2>2, <2>3 DEF IInv
<1>12. CASE NoTable
  <2>1. stack # <<>> /\ Len(stack) \in Nat \ {0} /\ InCache
    BY <1>1, <1>12, TableWanted, TopType
  <2>2. ~ Calm'
    BY <1>3, <2>1 DEF Calm
  <2>3. Marked' /\ Tables'
    BY <1>1, <1>7, <2>2 DEF IInv, Marked, Tables
  <2>4. Maps'
    BY <1>1, <1>7, <2>2 DEF IInv, Maps
  <2>5. \A f \in Clear : f \notin mapped[0] /\ \E p \in Pd : <<p, Region(f)>> \notin tables
    <3>1. CASE Calm
      BY <1>12, <2>1, <3>1, TableWanted
    <3>2. CASE ~ Calm
      BY <3>2 DEF IInv, Doomed
    <3> QED
      BY <3>1, <3>2
  <2>6. Doomed'
    BY <1>1, <1>4, <1>5, <1>7, <2>5 DEF Doomed
  <2> QED
    BY <1>8, <1>9, <1>10, <2>3, <2>4, <2>6 DEF IInv
<1> QED
  BY <1>1, <1>11, <1>12

\* A cached frame becomes a page table.
LEMMA CachedForTable ==
    ASSUME IInv, KallocFrame, NoTable
    PROVE  IInv'
<1> DEFINE f == cached_frame_map[cachedIndex]
           pf == Top.pf
           pd == Top.pd
           call == [Top EXCEPT !.pd = @ + 1]
<1>1. /\ stack # <<>> /\ Mapping /\ pf # None /\ pf \in Frame /\ pd \in Pd
      /\ <<pd, Region(pf)>> \notin tables /\ (InCache \/ InRun)
  BY TableWanted
<1>2. cachedIndex < frame_cache_size
  BY DEF KallocFrame
<1>3. Calm /\ (InCache => Refill) /\ ~ (InCache /\ InRun)
  <2>1. Calm
    BY <1>2 DEF IInv, Doomed
  <2> QED
    BY <1>1, <2>1 DEF Refill, InCache, InRun
<1>4. /\ cachedIndex' = cachedIndex + 1 /\ framesUsed' = framesUsed + 1
      /\ tables' = tables \cup {<<pd, Region(pf)>>}
      /\ mapped' = [mapped EXCEPT ![pd] = {g \in @ : Region(g) # Region(pf)} \cup {pf}]
      /\ pagetables' = pagetables \cup {f}
      /\ Replace(call)
      /\ UNCHANGED <<frame_map, cached_frame_map, frame_cache_size, lent, leaked, aborted, torn>>
  BY <1>1 DEF KallocFrame, TakeCached, Return, Replace, Top
<1>5. /\ f \in Frame /\ f \in Cached /\ Cached' = Cached \ {f}
      /\ cachedIndex' <= frame_cache_size' /\ cachedIndex' \in 0 .. 2 * CACHE + 1
      /\ \A k \in Slot : cachedIndex' <= k /\ k < frame_cache_size' => cached_frame_map[k] \in Frame
      /\ \A j, k \in Slot :
            /\ cachedIndex' <= j /\ j < frame_cache_size' /\ cachedIndex' <= k /\ k < frame_cache_size'
            /\ cached_frame_map'[j] = cached_frame_map'[k]
            => j = k
  BY <1>2, <1>4, CacheShrinks
<1>6. /\ Top \in CallType /\ pd \in Int /\ \A p \in Pd : p \in Int
  BY <1>1, TopType, ProcessesAssumption DEF Pd
<1>7. /\ call \in CallType /\ call.first = Top.first /\ call.count = Top.count
      /\ call.i = Top.i /\ call.pf = pf /\ call.pd = pd + 1
  BY <1>1, <1>6, ProcessesAssumption DEF CallType, Pd
<1>8. InCache =>
      /\ Top.count = CACHE /\ Top.i <= CACHE /\ frame_cache_size = Top.i
      /\ Top.i < CACHE /\ cached_frame_map[Top.i] = pf
      /\ pf \in frame_map /\ \A g \in Clear : pf < g
      /\ \A q \in Pd : q < pd => pf \in mapped[q]
  BY <1>1, <1>3 DEF IInv, Filling
<1>24. InRun =>
      /\ Top.first \in Frame /\ Top.count \in 1 .. FRAMES /\ Top.first + Top.count < FRAMES
      /\ Top.i \in Nat /\ Top.i < Top.count /\ pf = Top.first + Top.i
      /\ \A h \in Frame, p \in Pd : Region(h) < Region(Top.first) => <<p, Region(h)>> \in tables
      /\ \A h \in Top.first .. Top.first + Top.count - 1 :
            /\ h < Top.first + Top.i => \A p \in Pd : h \in mapped[p]
            /\ h >= Top.first + Top.i => h \in Clear \/ h = pf
      /\ pf \in frame_map
      /\ \A q \in Pd : q < pd => pf \in mapped[q]
  BY <1>1, RunFrames DEF IInv, Running
<1>9. /\ frame_map = Owned \cup InHand /\ InHand \cap Owned = {}
      /\ \A p \in Pd : \A g \in mapped[p] : <<p, Region(g)>> \in tables
      /\ \A p \in Pd : Owned \subseteq mapped[p]
      /\ \A g \in mapped[0] : g # pf => \A p \in Pd : g \in mapped[p]
  BY <1>1, <1>3 DEF IInv, Marked, Maps
<1>10. pf \in InHand /\ pf \notin Owned
  BY <1>1, <1>9 DEF InHand
<1> HIDE DEF f, pf, call, pd
<1>11. /\ mapped \in [Pd -> SUBSET Frame] /\ mapped' \in [Pd -> SUBSET Frame]
       /\ mapped'[pd] = mapped[pd] \cup {pf}
       /\ \A p \in Pd : p # pd => mapped'[p] = mapped[p]
  <2>1. {g \in mapped[pd] : Region(g) # Region(pf)} = mapped[pd]
    BY <1>1, <1>9
  <2>2. mapped \in [Pd -> SUBSET Frame] /\ mapped' = [mapped EXCEPT ![pd] = mapped[pd] \cup {pf}]
    BY <1>4, <2>1 DEF IInv, TypeOK
  <2> QED
    BY <1>1, <2>2
<1>12. /\ stack' \in Seq(CallType) /\ stack' # <<>> /\ Top' = call /\ Calm'
  BY <1>1, <1>3, <1>4, <1>7, Replaced
<1>13. /\ (InCache' <=> InCache) /\ (InRun' <=> InRun) /\ Mapping' /\ (Refill' <=> Refill)
       /\ Top'.pf = pf /\ InHand' = InHand /\ Clear' = Clear
  <2>1. /\ (InCache' <=> InCache) /\ (InRun' <=> InRun) /\ Mapping' /\ (Refill' <=> Refill)
        /\ Top'.pf = pf /\ Top.pf = pf /\ Clear' = Clear
    BY <1>1, <1>3, <1>4, <1>7, <1>12 DEF InRun, InCache, Mapping, Refill, Clear, pf
  <2>2. Top'.first = Top.first /\ Top'.i = Top.i
    BY <1>7, <1>12
  <2> QED
    BY <1>1, <2>1, <2>2 DEF InHand
<1>14. /\ Lent' = Lent /\ Owned' = Owned /\ f \in Owned /\ f \notin Lent
       /\ f \notin pagetables /\ f \notin leaked
  <2>1. Lent' = Lent
    BY <1>4 DEF Lent
  <2>2. f \notin Lent /\ f \notin pagetables /\ f \notin leaked
    BY <1>5 DEF IInv, Disjoint
  <2> QED
    BY <1>4, <1>5, <2>1, <2>2 DEF Owned
<1>15. (TypeOK /\ stack \in Seq(CallType) /\ cachedIndex <= frame_cache_size)'
  <2>1. \A k \in 1 .. Len(stack') : stack'[k] \in CallType
    BY <1>12, StackOfCalls
  <2>2. framesUsed' \in Int /\ pagetables' \subseteq Frame \cup {None}
    BY <1>4, <1>5 DEF IInv, TypeOK
  <2>3. tables' \subseteq Pd \X (0 .. Region(FRAMES - 1))
    BY <1>1, <1>4, RegionsInOrder DEF IInv, TypeOK
  <2> QED
    BY <1>4, <1>5, <1>11, <1>12, <2>1, <2>2, <2>3 DEF IInv, TypeOK
<1>16. Blocks'
  BY <1>4, <1>5 DEF IInv, Blocks, OnlyLastFrameLeaks
<1>17. Disjoint'
  <2>1. /\ Lent' \cap pagetables' = {} /\ Lent' \cap Cached' = {} /\ pagetables' \cap Cached' = {}
        /\ leaked' \cap (Lent' \cup pagetables' \cup Cached') = {}
    BY <1>4, <1>5, <1>14 DEF IInv, Disjoint
  <2>2. \A b, c \in lent' : b # c => FramesOf(b) \cap FramesOf(c) = {}
    BY <1>4 DEF IInv, Disjoint
  <2> QED
    BY <1>5, <2>1, <2>2 DEF Disjoint
<1>18. Marked'
  BY <1>4, <1>9, <1>10, <1>13, <1>14 DEF Marked
<1>19. Maps'
  <2>1. \A p \in Pd : \A g \in mapped'[p] : <<p, Region(g)>> \in tables'
    BY <1>4, <1>9, <1>11
  <2>2. \A p \in Pd : Owned' \subseteq mapped'[p]
    BY <1>9, <1>11, <1>14
  <2>3. \A g \in mapped'[0] : g # pf => \A p \in Pd : g \in mapped'[p]
    BY <1>9, <1>11, ProcessesAssumption DEF Pd
  <2> QED
    BY <1>13, <2>1, <2>2, <2>3 DEF Maps
<1>20. Tables'
  <2>1. ASSUME NEW p \in Pd, NEW q \in Pd, NEW g \in Frame,
               <<p, Region(g)>> \in tables', <<q, Region(g)>> \notin tables'
        PROVE  Region(g) = Region(pf) /\ p < pd + 1 /\ pd + 1 <= q
    <3>1. <<q, Region(g)>> \notin tables
      BY <1>4, <2>1
    <3>2. CASE <<p, Region(g)>> \in tables
      <4>1. Region(g) = Region(pf) /\ p < pd /\ pd <= q
        BY <1>1, <1>3, <2>1, <3>1, <3>2 DEF IInv, Tables, pf, pd
      <4>2. q # pd
        BY <1>4, <2>1, <4>1
      <4> QED
        BY <1>6, <4>1, <4>2
    <3>3. CASE <<p, Region(g)>> = <<pd, Region(pf)>>
      <4>1. p = pd /\ Region(g) = Region(pf) /\ q # pd
        BY <1>4, <2>1, <3>3
      <4>2. ~ q < pd
        BY <1>1, <1>8, <1>9, <1>24, <3>1, <4>1
      <4> QED
        BY <1>6, <4>1, <4>2
    <3> QED
      BY <1>4, <2>1, <3>2, <3>3
  <2>2. ASSUME NEW p \in Pd, NEW q \in Pd, NEW g \in Frame, NEW h \in Frame,
               <<p, Region(g)>> \in tables', Region(h) < Region(g)
        PROVE  <<q, Region(h)>> \in tables'
    <3>1. CASE <<p, Region(g)>> \in tables
      BY <1>3, <1>4, <2>2, <3>1 DEF IInv, Tables
    <3>2. CASE <<p, Region(g)>> = <<pd, Region(pf)>>
      <4>1. h < pf
        BY <1>1, <2>2, <3>2, RegionsInOrder
      <4>2. CASE InCache
        <5>1. h \in frame_map /\ h # pf
          BY <1>1, <1>8, <4>1, <4>2 DEF Clear, Frame
        <5>2. InHand = {pf}
          BY <1>1, <1>3, <4>2 DEF InHand, pf
        <5>3. h \in Owned
          BY <1>9, <5>1, <5>2
        <5> QED
          BY <1>4, <1>9, <5>3
      <4>3. CASE InRun
        <5>1. CASE Region(h) < Region(Top.first)
          BY <1>4, <1>24, <4>3, <5>1
        <5>2. CASE Region(h) = Region(Top.first)
          <6>1. Top.first < pf
            BY <1>1, <1>24, <2>2, <3>2, <4>3, <5>2, RegionsInOrder
          <6>2. Top.first \in mapped[q]
            BY <1>1, <1>24, <4>3, <6>1 DEF Frame
          <6> QED
            BY <1>4, <1>9, <5>2, <6>2
        <5>3. CASE Region(Top.first) < Region(h)
          <6>1. Top.first < h
            BY <1>24, <4>3, <5>3, RegionsInOrder
          <6>2. h \in mapped[q]
            BY <1>1, <1>24, <4>1, <4>3, <6>1 DEF Frame
          <6> QED
            BY <1>4, <1>9, <6>2
        <5>4. Region(h) \in Nat /\ Region(Top.first) \in Nat
          BY <1>24, <4>3, RegionsInOrder
        <5> QED
          BY <5>1, <5>2, <5>3, <5>4
      <4> QED
        BY <1>1, <4>2, <4>3
    <3> QED
      BY <1>4, <2>2, <3>1, <3>2
  <2> QED
    BY <1>7, <1>12, <1>13, <2>1, <2>2 DEF Tables
<1>21. Filling'
  <2>1. InCache => \A q \in Pd : q < pd + 1 => pf \in mapped'[q]
    BY <1>6, <1>8, <1>11
  <2>2. Refill' => InCache
    BY <1>13 DEF Refill
  <2> QED
    BY <1>4, <1>7, <1>8, <1>12, <1>13, <2>1, <2>2 DEF Filling
<1>22. Running' /\ Doomed'
  <2>1. InRun => \A q \in Pd : q < pd + 1 => pf \in mapped'[q]
    BY <1>6, <1>11, <1>24
  <2>2. \A p \in Pd : mapped[p] \subseteq mapped'[p]
    BY <1>11
  <2>3. /\ Top'.first = Top.first /\ Top'.count = Top.count /\ Top'.i = Top.i
        /\ Top'.pd = pd + 1 /\ frame_map' = frame_map /\ tables \subseteq tables'
    BY <1>4, <1>7, <1>12
  <2>4. Running'
    BY <1>12, <1>13, <1>24, <2>1, <2>2, <2>3 DEF Running
  <2> QED
    BY <1>12, <2>4 DEF Doomed
<1>23. Counted'
  <2>1. Cardinality(pagetables \cup {f}) = Cardinality(pagetables) + 1
    BY <1>14, OwnedFrames, HeldFinite, FS_AddElement DEF Owned
  <2>2. Cardinality(Lent) \in Nat /\ Cardinality(pagetables) \in Nat /\ Cardinality(leaked) \in Nat
    BY OwnedFrames, HeldFinite DEF Owned
  <2> QED
    BY <1>4, <1>14, <2>1, <2>2 DEF IInv, Counted, TypeOK
<1> QED
  BY <1>15, <1>16, <1>17, <1>18, <1>19, <1>20, <1>21, <1>22, <1>23 DEF IInv

LEMMA KallocFrameIInv ==
    ASSUME IInv, KallocFrame
    PROVE  IInv'
<1>1. CASE stack = <<>>
  <2>1. Calm /\ ~ Mapping /\ InHand = {}
    BY <1>1 DEF Calm, Mapping, InHand, InRun
  <2> QED
    BY <1>1, <2>1, CachedLent DEF KallocFrame
<1>2. CASE NoTable
  BY <1>2, CachedForTable
<1> QED
  BY <1>1, <1>2 DEF KallocFrame, FrameWanted

-----------------------------------------------------------------------------
(* The invariant, and what follows from it.                                *)

LEMMA NextIInv ==
    ASSUME IInv, [Next]_vars, ~ torn'
    PROVE  IInv'
<1>1. CASE KallocFrame
  BY <1>1, KallocFrameIInv
<1>2. CASE KallocFrameRefill
  BY <1>2, KallocFrameRefillIInv
<1>3. CASE KallocCacheFill
  BY <1>3, KallocCacheFillIInv
<1>4. CASE KallocCacheReturn
  BY <1>4, KallocCacheReturnIInv
<1>5. CASE KallocCacheAbort
  <2>1. aborted' \in BOOLEAN /\ torn' \in BOOLEAN
    BY <1>5, Zenon DEF KallocCacheAbort, IInv, TypeOK
  <2> QED
    BY <1>5, <2>1, SameCalls DEF KallocCacheAbort
<1>6. CASE MapPageframe
  BY <1>6, MapPageframeIInv
<1>7. CASE MapPageframeReturn
  BY <1>7, MapPageframeReturnIInv
<1>8. ASSUME NEW n \in RUNS, KallocFrames(n) PROVE IInv'
  BY <1>8, KallocFramesIInv
<1>9. ASSUME NEW n \in RUNS, KallocFramesAbort(n) PROVE IInv'
  <2>1. aborted' \in BOOLEAN /\ torn' \in BOOLEAN
    BY <1>9, Zenon DEF KallocFramesAbort, IInv, TypeOK
  <2> QED
    BY <1>9, <2>1, SameCalls DEF KallocFramesAbort
<1>10. CASE KallocFramesMark
  BY <1>10, KallocFramesMarkIInv
<1>11. CASE KallocFramesReturn
  BY <1>11, KallocFramesReturnIInv
<1>12. ASSUME NEW b \in lent, KfreeFrame(b) PROVE IInv'
  BY <1>12, KfreeFrameIInv
<1>13. ASSUME NEW b \in lent, KfreeFrames(b) PROVE IInv'
  BY <1>13, KfreeFramesIInv
<1>14. CASE UNCHANGED vars
  <2>1. aborted' \in BOOLEAN /\ torn' \in BOOLEAN
    BY <1>14 DEF vars, IInv, TypeOK
  <2> QED
    BY <1>14, <2>1, SameCalls DEF vars
<1> QED
  BY <1>1, <1>2, <1>3, <1>4, <1>5, <1>6, <1>7, <1>8, <1>9, <1>10, <1>11, <1>12, <1>13, <1>14
     DEF Next, Aborted

\* What was torn stays torn.
LEMMA TornStays ==
    ASSUME torn, [Next]_vars
    PROVE  torn'
<1>1. CASE KallocFrameRefill
  BY <1>1 DEF KallocFrameRefill
<1>2. CASE UNCHANGED torn
  BY <1>2
<1>3. KallocFrameRefill \/ UNCHANGED torn
  BY DEF Next, vars, KallocFrame, KallocCacheFill, KallocCacheReturn, KallocCacheAbort,
         MapPageframe, MapPageframeReturn, KallocFrames, KallocFramesAbort, KallocFramesMark,
         KallocFramesReturn, KfreeFrame, KfreeFrames, Aborted
<1> QED
  BY <1>1, <1>2, <1>3

LEMMA Invariance == Spec => [](~ torn => IInv)
<1>1. Init => (~ torn => IInv)
  BY InitIInv
<1>2. (~ torn => IInv) /\ [Next]_vars => (~ torn => IInv)'
  BY NextIInv, TornStays
<1> QED
  BY <1>1, <1>2, PTL DEF Spec

\* Until a run is torn every frame has one owner: a block lent out, a page
\* table, the cache.
THEOREM FramesHaveOneOwner == Spec => []OneOwner
<1>1. (~ torn => IInv) => OneOwner
  BY DEF IInv, Disjoint, OneOwner
<1> QED
  BY <1>1, Invariance, PTL

\* Until a run is torn, when no call is in progress, the bits set in frame_map
\* are those of the frames that have an owner: none is lost, and none is found
\* while in use.
THEOREM BitMapIsThatOfOwners == Spec => []MapMatchesOwners
<1>1. (~ torn => IInv) => MapMatchesOwners
  <2>1. stack = <<>> => Calm /\ InHand = {}
    BY DEF Calm, InHand, Mapping, InRun
  <2> QED
    BY <2>1 DEF IInv, Marked, Owned, MapMatchesOwners
<1> QED
  BY <1>1, Invariance, PTL

\* Until a run is torn framesUsed is the number of frames lent out, used for
\* tables, or lost.
THEOREM FramesUsedCounts == Spec => []UsedIsWhatIsHeld
<1>1. (~ torn => IInv) => UsedIsWhatIsHeld
  BY DEF IInv, Counted, UsedIsWhatIsHeld
<1> QED
  BY <1>1, Invariance, PTL

\* Until a run is torn, what kalloc_frame and kalloc_frames return, and every
\* page table, is mapped in every page directory that mapPageframe comes to.
THEOREM LentFramesAreMapped == Spec => []LentIsMapped
<1>1. (~ torn => IInv) => LentIsMapped
  BY DEF IInv, Maps, Owned, LentIsMapped
<1> QED
  BY <1>1, Invariance, PTL

-----------------------------------------------------------------------------
(* What holds of torn runs, too.                                           *)

\* A run ends before the last frame, while it is mapped and when it is lent.
RunCall ==
    {c \in [first : Int, count : Int, i : Int, pf : Int, pd : Int] :
        c.first # None => c.first + c.count < FRAMES}

RunsEndEarly ==
    /\ stack \in Seq(RunCall)
    /\ \A b \in lent : b[1] \in Frame => b[2] = 1 \/ (b[2] \in Int /\ b[1] + b[2] < FRAMES)
    /\ OnlyLastFrameLeaks

\* Another iteration of the innermost loop.
LEMMA StillRunCalls ==
    ASSUME NEW s \in Seq(RunCall), s # <<>>, NEW c,
           c \in [first : Int, count : Int, i : Int, pf : Int, pd : Int],
           c.first = Head(s).first, c.count = Head(s).count
    PROVE  <<c>> \o Tail(s) \in Seq(RunCall)
<1>1. Head(s) \in RunCall
  BY HeadTailProperties
<1>2. c \in RunCall
  BY <1>1 DEF RunCall
<1> QED
  BY <1>2, FirstReplaced

LEMMA TakeCachedEndsEarly ==
    ASSUME RunsEndEarly, NEW rest \in Seq(RunCall), TakeCached(rest), UNCHANGED leaked
    PROVE  RunsEndEarly'
<1> DEFINE f == cached_frame_map[cachedIndex]
<1>1. Return(f, rest)
  BY DEF TakeCached
<1> HIDE DEF f
<1>2. CASE rest = <<>>
  <2>1. lent' = lent \cup {<<f, 1>>} /\ stack' = rest
    BY <1>1, <1>2 DEF Return
  <2> QED
    BY <2>1 DEF RunsEndEarly, OnlyLastFrameLeaks
<1>3. CASE rest # <<>>
  <2> DEFINE call == [Head(rest) EXCEPT !.pd = @ + 1]
  <2>1. stack' = <<call>> \o Tail(rest) /\ UNCHANGED lent
    BY <1>1, <1>3 DEF Return
  <2>2. Head(rest) \in [first : Int, count : Int, i : Int, pf : Int, pd : Int]
    BY <1>3, HeadTailProperties DEF RunCall
  <2>3. /\ call \in [first : Int, count : Int, i : Int, pf : Int, pd : Int]
        /\ call.first = Head(rest).first /\ call.count = Head(rest).count
    BY <2>2
  <2> HIDE DEF call
  <2>4. stack' \in Seq(RunCall)
    BY <1>3, <2>1, <2>3, StillRunCalls
  <2> QED
    BY <2>1, <2>4 DEF RunsEndEarly, OnlyLastFrameLeaks
<1> QED
  BY <1>2, <1>3

LEMMA IterationEndsEarly ==
    ASSUME RunsEndEarly, stack # <<>>, NEW c, Replace(c),
           c \in [first : Int, count : Int, i : Int, pf : Int, pd : Int],
           c.first = Top.first, c.count = Top.count, UNCHANGED <<lent, leaked>>
    PROVE  RunsEndEarly'
<1>1. stack' \in Seq(RunCall)
  BY StillRunCalls DEF RunsEndEarly, Replace, Top
<1> QED
  BY <1>1 DEF RunsEndEarly, OnlyLastFrameLeaks

\* The two assignments to the innermost call that are not a mere increment.
LEMMA IterationFields ==
    ASSUME NEW c \in [first : Int, count : Int, i : Int, pf : Int, pd : Int], NEW f \in Int
    PROVE  /\ [c EXCEPT !.pf = f, !.pd = 0]
                  \in [first : Int, count : Int, i : Int, pf : Int, pd : Int]
           /\ [c EXCEPT !.pf = f, !.pd = 0].first = c.first
           /\ [c EXCEPT !.pf = f, !.pd = 0].count = c.count
           /\ [c EXCEPT !.pf = f, !.pd = 0, !.i = @ + 1]
                  \in [first : Int, count : Int, i : Int, pf : Int, pd : Int]
           /\ [c EXCEPT !.pf = f, !.pd = 0, !.i = @ + 1].first = c.first
           /\ [c EXCEPT !.pf = f, !.pd = 0, !.i = @ + 1].count = c.count
<1> DEFINE Integral == [first : Int, count : Int, i : Int, pf : Int, pd : Int]
           d == [c EXCEPT !.pf = f]
           e == [d EXCEPT !.pd = 0]
<1>1. d \in Integral /\ d.first = c.first /\ d.count = c.count
  OBVIOUS
<1>2. [c EXCEPT !.pf = f, !.pd = 0] = [d EXCEPT !.pd = 0]
  OBVIOUS
<1>3. [c EXCEPT !.pf = f, !.pd = 0, !.i = @ + 1] = [e EXCEPT !.i = @ + 1]
  OBVIOUS
<1> HIDE DEF d
<1>4. e \in Integral /\ e.first = d.first /\ e.count = d.count
  BY <1>1
<1> HIDE DEF e
<1>5. /\ [e EXCEPT !.i = @ + 1] \in Integral
      /\ [e EXCEPT !.i = @ + 1].first = e.first /\ [e EXCEPT !.i = @ + 1].count = e.count
  BY <1>4
<1>6. [c EXCEPT !.pf = f, !.pd = 0] = e
  BY <1>2 DEF e
<1> QED
  BY <1>1, <1>3, <1>4, <1>5, <1>6

LEMMA NextEndsEarly ==
    ASSUME RunsEndEarly, [Next]_vars
    PROVE  RunsEndEarly'
<1> DEFINE Integral == [first : Int, count : Int, i : Int, pf : Int, pd : Int]
<1>1. stack # <<>> => Top \in RunCall /\ Top \in Integral /\ Tail(stack) \in Seq(RunCall)
  BY HeadTailProperties DEF RunsEndEarly, Top, RunCall
<1>14. ASSUME stack # <<>>, NEW f \in Int
       PROVE  /\ [Top EXCEPT !.pf = f, !.pd = 0] \in Integral
              /\ [Top EXCEPT !.pf = f, !.pd = 0].first = Top.first
              /\ [Top EXCEPT !.pf = f, !.pd = 0].count = Top.count
  BY <1>1, <1>14, IterationFields
<1>15. ASSUME stack # <<>>
       PROVE  /\ [Top EXCEPT !.pf = None, !.pd = 0, !.i = @ + 1] \in Integral
              /\ [Top EXCEPT !.pf = None, !.pd = 0, !.i = @ + 1].first = Top.first
              /\ [Top EXCEPT !.pf = None, !.pd = 0, !.i = @ + 1].count = Top.count
  <2>1. None \in Int
    BY DEF None
  <2> QED
    BY <1>1, <1>15, <2>1, IterationFields
<1>2. CASE KallocFrame
  BY <1>2, TakeCachedEndsEarly DEF KallocFrame, RunsEndEarly
<1>3. CASE KallocCacheReturn
  BY <1>1, <1>3, TakeCachedEndsEarly DEF KallocCacheReturn, InCache
<1>4. CASE KallocFrameRefill
  <2>1. Call(None, CACHE) \in RunCall
    BY CacheAssumption DEF Call, RunCall, None
  <2>2. stack' \in Seq(RunCall)
    BY <1>4, <2>1, FirstAdded DEF KallocFrameRefill, RunsEndEarly
  <2> QED
    BY <1>4, <2>2 DEF KallocFrameRefill, RunsEndEarly, OnlyLastFrameLeaks
<1>5. CASE KallocCacheFill
  <2>1. PICK f \in Clear :
           \/ Replace([Top EXCEPT !.i = @ + 1])
           \/ Replace([Top EXCEPT !.pf = f, !.pd = 0])
    BY <1>5 DEF KallocCacheFill
  <2>2. f \in Int /\ stack # <<>> /\ UNCHANGED <<lent, leaked>>
    BY <1>5 DEF KallocCacheFill, InCache, Clear, Frame
  <2>3. CASE Replace([Top EXCEPT !.i = @ + 1])
    BY <1>1, <2>2, <2>3, IterationEndsEarly
  <2>4. CASE Replace([Top EXCEPT !.pf = f, !.pd = 0])
    BY <1>1, <1>14, <2>2, <2>4, IterationEndsEarly
  <2> QED
    BY <2>1, <2>3, <2>4
<1>6. CASE KallocFramesMark
  <2>1. stack # <<>> /\ UNCHANGED <<lent, leaked>>
    BY <1>6 DEF KallocFramesMark, InRun
  <2>2. CASE Replace([Top EXCEPT !.i = @ + 1])
    BY <1>1, <2>1, <2>2, IterationEndsEarly
  <2>3. CASE Replace([Top EXCEPT !.pf = Top.first + Top.i, !.pd = 0])
    <3>1. Top.first + Top.i \in Int
      BY <1>1, <2>1
    <3> QED
      BY <1>1, <1>14, <2>1, <2>3, <3>1, IterationEndsEarly
  <2> QED
    BY <1>6, <2>2, <2>3 DEF KallocFramesMark
<1>7. CASE MapPageframe
  BY <1>1, <1>7, IterationEndsEarly DEF MapPageframe, Mapping
<1>8. CASE MapPageframeReturn
  <2>1. stack # <<>> /\ UNCHANGED <<lent, leaked>>
        /\ Replace([Top EXCEPT !.pf = None, !.pd = 0, !.i = @ + 1])
    BY <1>8 DEF MapPageframeReturn, Mapping
  <2> QED
    BY <1>1, <1>15, <2>1, IterationEndsEarly
<1>9. ASSUME NEW n \in RUNS, KallocFrames(n) PROVE RunsEndEarly'
  <2>1. PICK s \in ClearRuns(n) : stack' = <<Call(s, n)>>
    BY <1>9 DEF KallocFrames
  <2>2. s \in Int /\ n \in Int /\ s + n < FRAMES
    BY RunsAssumption DEF ClearRuns, Frame
  <2>3. Call(s, n) \in RunCall
    BY <2>2 DEF Call, RunCall, None
  <2>4. stack' \in Seq(RunCall)
    BY <2>1, <2>3
  <2> QED
    BY <1>9, <2>4 DEF KallocFrames, RunsEndEarly, OnlyLastFrameLeaks
<1>10. CASE KallocFramesReturn
  <2> DEFINE t == <<Top.first, Top.count>>
  <2>1. /\ lent' = lent \cup {t} /\ stack' = <<>> /\ UNCHANGED leaked
        /\ t[2] \in Int /\ t[1] + t[2] < FRAMES
    BY <1>1, <1>10 DEF KallocFramesReturn, InRun, RunCall
  <2>2. stack' \in Seq(RunCall)
    BY <2>1
  <2> HIDE DEF t
  <2> QED
    BY <2>1, <2>2 DEF RunsEndEarly, OnlyLastFrameLeaks
<1>11. ASSUME NEW b \in lent, KfreeFrame(b) PROVE RunsEndEarly'
  BY <1>11 DEF KfreeFrame, RunsEndEarly, OnlyLastFrameLeaks
<1>12. ASSUME NEW b \in lent, KfreeFrames(b) PROVE RunsEndEarly'
  <2>1. CASE b[1] + b[2] >= FRAMES
    <3>1. b[1] = FRAMES - 1 /\ b[2] = 1
      BY <1>12, <2>1, FramesAssumption DEF KfreeFrames, RunsEndEarly, Frame
    <3>2. FramesOf(b) = {FRAMES - 1}
      BY <3>1, FramesAssumption DEF FramesOf
    <3> QED
      BY <1>12, <2>1, <3>2 DEF KfreeFrames, RunsEndEarly, OnlyLastFrameLeaks
  <2>2. CASE ~ (b[1] + b[2] >= FRAMES)
    BY <1>12, <2>2 DEF KfreeFrames, RunsEndEarly, OnlyLastFrameLeaks
  <2> QED
    BY <2>1, <2>2
<1>13. CASE \/ KallocCacheAbort \/ UNCHANGED vars
            \/ \E n \in RUNS : KallocFramesAbort(n)
  BY <1>13 DEF KallocCacheAbort, KallocFramesAbort, vars, RunsEndEarly, OnlyLastFrameLeaks
<1> QED
  BY <1>2, <1>3, <1>4, <1>5, <1>6, <1>7, <1>8, <1>9, <1>10, <1>11, <1>12, <1>13
     DEF Next, Aborted

\* The refusal of kfree_frames loses no frame but the last of memory.
THEOREM LeakIsTheLastFrame == Spec => []OnlyLastFrameLeaks
<1>1. Init => RunsEndEarly
  BY DEF Init, RunsEndEarly, OnlyLastFrameLeaks
<1>2. RunsEndEarly /\ [Next]_vars => RunsEndEarly'
  BY NextEndsEarly
<1>3. RunsEndEarly => OnlyLastFrameLeaks
  BY DEF RunsEndEarly
<1> QED
  BY <1>1, <1>2, <1>3, PTL DEF Spec

-----------------------------------------------------------------------------
(* The refinement of FrameStore.                                           *)

LEMMA LendsFrame ==
    ASSUME IInv, cachedIndex < frame_cache_size, TakeCached(<<>>),
           UNCHANGED <<cached_frame_map, frame_cache_size>>
    PROVE  Store!Lend
<1> DEFINE f == cached_frame_map[cachedIndex]
<1>1. f \in Frame /\ f \in Cached /\ FRAMES \in Nat \ {0}
  BY CacheShrinks, FramesAssumption DEF TakeCached
<1>2. lent' = lent \cup {<<f, 1>>} /\ f \notin Lent
  BY <1>1 DEF TakeCached, Return, IInv, Disjoint
<1> HIDE DEF f
<1>3. Store!FramesOf(<<f, 1>>) = {f}
  BY <1>1 DEF Store!FramesOf, Frame
<1>4. <<f, 1>> \in Frame \X (1 .. FRAMES)
  BY <1>1
<1>5. Store!Lent = Lent /\ Store!Frame = Frame
  BY DEF Store!Lent, Store!FramesOf, Lent, FramesOf, Store!Frame, Frame
<1> QED
  BY <1>1, <1>2, <1>3, <1>4, <1>5 DEF Store!Lend

LEMMA LendsRun ==
    ASSUME IInv, KallocFramesReturn
    PROVE  Store!Lend
<1> DEFINE b == <<Top.first, Top.count>>
<1>1. /\ stack # <<>> /\ InRun /\ ~ Mapping /\ Top.i = Top.count /\ Calm
      /\ lent' = lent \cup {b}
  BY DEF KallocFramesReturn, InRun, IInv, Running
<1>2. b \in Frame \X (1 .. FRAMES)
  BY <1>1, RunFrames
<1>3. /\ Store!FramesOf(b) = Top.first .. Top.first + Top.count - 1
      /\ Store!FramesOf(b) \subseteq Frame
  BY <1>1, RunFrames DEF Store!FramesOf
<1>4. InHand = Store!FramesOf(b)
  BY <1>1, <1>3 DEF InHand
<1> HIDE DEF b
<1>5. Store!FramesOf(b) \cap Lent = {}
  BY <1>1, <1>4 DEF IInv, Marked, Owned
<1>6. Store!Lent = Lent /\ Store!Frame = Frame
  BY DEF Store!Lent, Store!FramesOf, Lent, FramesOf, Store!Frame, Frame
<1> QED
  BY <1>1, <1>2, <1>3, <1>5, <1>6 DEF Store!Lend

LEMMA NextStore ==
    ASSUME IInv, [Next]_vars
    PROVE  [Store!Next \/ torn]_lent
<1>1. CASE KallocFrame
  <2>1. CASE stack = <<>>
    BY <1>1, <2>1, LendsFrame DEF KallocFrame, Store!Next
  <2>2. CASE stack # <<>>
    BY <1>1, <2>2 DEF KallocFrame, TakeCached, Return
  <2> QED
    BY <2>1, <2>2
<1>2. CASE KallocCacheReturn
  <2>1. TakeCached(<<>>)
    BY <1>2, CacheReturned DEF KallocCacheReturn
  <2> QED
    BY <1>2, <2>1, CacheReturned, LendsFrame DEF KallocCacheReturn, Store!Next
<1>3. CASE KallocFramesReturn
  BY <1>3, LendsRun DEF Store!Next
<1>4. ASSUME NEW b \in lent, KfreeFrame(b) \/ KfreeFrames(b) PROVE Store!TakeBack
  BY <1>4 DEF KfreeFrame, KfreeFrames, Store!TakeBack
<1>5. CASE \/ KallocFrameRefill \/ KallocCacheFill \/ KallocCacheAbort
           \/ MapPageframe \/ MapPageframeReturn \/ KallocFramesMark \/ UNCHANGED vars
           \/ \E n \in RUNS : KallocFrames(n) \/ KallocFramesAbort(n)
  BY <1>5 DEF KallocFrameRefill, KallocCacheFill, KallocCacheAbort, MapPageframe,
              MapPageframeReturn, KallocFramesMark, vars, KallocFrames, KallocFramesAbort
<1> QED
  BY <1>1, <1>2, <1>3, <1>4, <1>5 DEF Next, Aborted, Store!Next

\* Until a run is torn the allocator is a FrameStore to the rest of the kernel:
\* kalloc_frame and kalloc_frames lend frames that are in no other block, the
\* frees take blocks back, and no other step is seen.
THEOREM AllocatorImplementsStore == Spec => ImplementsStore
<1>1. Init => Store!Init
  BY DEF Init, Store!Init
<1>2. (~ torn => IInv) /\ [Next]_vars => [Store!Next \/ torn]_lent
  <2>1. CASE torn
    BY <2>1
  <2>2. CASE ~ torn
    BY <2>2, NextStore
  <2> QED
    BY <2>1, <2>2
<1>3. Spec => Store!Init /\ [][Store!Next \/ torn]_lent
  BY <1>1, <1>2, Invariance, PTL DEF Spec
<1> QED
  BY <1>3 DEF ImplementsStore
=============================================================================

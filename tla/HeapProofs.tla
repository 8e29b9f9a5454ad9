----------------------------- MODULE HeapProofs -----------------------------
(***************************************************************************)
(* Theorems about Heap, for frames, tags, classes and requests of every    *)
(* size.  The heap is broken once malloc or free has gone by a link to     *)
(* where a tag has been and is no more, even if only a unit of it has been *)
(* written over or given back, or has given a block out twice.  Until then *)
(* the blocks tile the regions, those of the program are apart, free       *)
(* neighbours are one block and unused regions are counted; and that comes *)
(* only after free has cut a list.                                         *)
(***************************************************************************)
EXTENDS Heap, FiniteSetTheorems, WellFoundedInduction, TLAPS

Limit    == FRAMES * FRAME_SIZE
Link     == Address \cup {NULL}
Index    == Class \cup {Allocated}
Outcome  == {"no", "twice", "astray"}
TagType  == [realsize : 0 .. Limit, index : Index, prev : Link, next : Link,
             splitprev : Link, splitnext : Link]
HeapType == [mem : [Address -> TagType], intact : SUBSET Address, first : [Class -> Link],
             complete : [Class -> Int], frames : SUBSET (0 .. FRAMES - 1),
             headers : SUBSET Address, cut : BOOLEAN, broken : Outcome]

\* What a step leaves as it is: all but the tags and the lists.
Around(g, h) ==
    /\ g \in HeapType
    /\ g.headers = h.headers /\ g.frames = h.frames /\ g.intact = h.intact
    /\ g.complete = h.complete /\ g.cut = h.cut
    /\ g.broken = "no" => h.broken = "no"

\* Two heaps whose tags differ in their links to other free tags only.
Same(g, h) ==
    /\ Around(g, h)
    /\ \A a \in Address : /\ g.mem[a].realsize = h.mem[a].realsize
                          /\ g.mem[a].index = h.mem[a].index
                          /\ g.mem[a].splitprev = h.mem[a].splitprev
                          /\ g.mem[a].splitnext = h.mem[a].splitnext

-----------------------------------------------------------------------------
(* Arithmetic of frames.                                                   *)

LEMMA Sizes ==
    /\ FRAME_SIZE \in Nat \ {0} /\ FRAMES \in Nat \ {0} /\ TAG \in Nat \ {0}
    /\ MEMORY_TOT_EXP \in Nat \ {0} /\ MEMORY_MIN_FRAMES \in Nat \ {0}
    /\ Size \subseteq Nat \ {0}
    /\ FRAMES * FRAME_SIZE \in Nat \ {0}
BY SizesAssumption

\* Multiples of the size of a frame.
LEMMA Multiples ==
    /\ \A f \in Int : f * FRAME_SIZE \in Int
    /\ \A f \in Nat : f * FRAME_SIZE \in Nat
    /\ \A f, g \in Int : f < g => f * FRAME_SIZE + FRAME_SIZE <= g * FRAME_SIZE
    /\ \A f, g \in Int : (f + g) * FRAME_SIZE = f * FRAME_SIZE + g * FRAME_SIZE
    /\ \A f \in Nat : (f * FRAME_SIZE) % FRAME_SIZE = 0
    /\ \A f \in Nat : (f * FRAME_SIZE) \div FRAME_SIZE = f
<1>1. FRAME_SIZE \in Nat \ {0}
  BY Sizes
<1>2. \A f \in Int : f * FRAME_SIZE \in Int
  BY <1>1
<1>3. \A f \in Nat : f * FRAME_SIZE \in Nat
  BY <1>1
<1>4. \A f, g \in Int : f < g => f * FRAME_SIZE + FRAME_SIZE <= g * FRAME_SIZE
  BY <1>1
<1>5. \A f, g \in Int : (f + g) * FRAME_SIZE = f * FRAME_SIZE + g * FRAME_SIZE
  BY <1>1
<1>6. \A f \in Nat : (f * FRAME_SIZE) % FRAME_SIZE = 0
  BY <1>1
<1>7. \A f \in Nat : (f * FRAME_SIZE) \div FRAME_SIZE = f
  BY <1>1
<1> QED
  BY <1>2, <1>3, <1>4, <1>5, <1>6, <1>7

\* The frame of an address.
LEMMA FrameOf ==
    \A x \in Nat : /\ x \div FRAME_SIZE \in Nat
                   /\ (x \div FRAME_SIZE) * FRAME_SIZE <= x
                   /\ x < (x \div FRAME_SIZE) * FRAME_SIZE + FRAME_SIZE
<1>1. FRAME_SIZE \in Nat \ {0}
  BY Sizes
<1> QED
  BY <1>1

\* An address lies in the frames from f to g - 1 if it lies between their ends.
LEMMA FramesBetween ==
    ASSUME NEW x \in Nat, NEW f \in Nat, NEW g \in Nat
    PROVE  x \div FRAME_SIZE \in f .. g - 1 <=> f * FRAME_SIZE <= x /\ x < g * FRAME_SIZE
<1> DEFINE q == x \div FRAME_SIZE
<1>1. q \in Nat /\ q * FRAME_SIZE <= x /\ x < q * FRAME_SIZE + FRAME_SIZE
  BY FrameOf
<1> HIDE DEF q
<1>2. \A h \in Int : h * FRAME_SIZE \in Int /\ FRAME_SIZE \in Int
  BY Sizes, Multiples
<1>3. /\ q < f => q * FRAME_SIZE + FRAME_SIZE <= f * FRAME_SIZE
      /\ f < q => f * FRAME_SIZE + FRAME_SIZE <= q * FRAME_SIZE
      /\ q < g => q * FRAME_SIZE + FRAME_SIZE <= g * FRAME_SIZE
      /\ g < q => g * FRAME_SIZE + FRAME_SIZE <= q * FRAME_SIZE
  <2>1. \A i, j \in Int : i < j => i * FRAME_SIZE + FRAME_SIZE <= j * FRAME_SIZE
    BY Multiples
  <2>2. q \in Int /\ f \in Int /\ g \in Int
    BY <1>1
  <2> QED
    BY <2>1, <2>2, Zenon
<1>4. q \in f .. g - 1 <=> f * FRAME_SIZE <= x /\ x < g * FRAME_SIZE
  <2>1. q \in Int /\ f \in Int /\ g \in Int /\ q * FRAME_SIZE \in Int /\ f * FRAME_SIZE \in Int /\ g * FRAME_SIZE \in Int /\ FRAME_SIZE \in Nat \ {0}
    BY <1>1, <1>2, Sizes
  <2>2. q = f \/ q < f \/ f < q
    BY <2>1
  <2>3. q = g \/ q < g \/ g < q
    BY <2>1
  <2> QED
    BY <1>1, <1>3, <2>1, <2>2, <2>3
<1> QED
  BY <1>4 DEF q

LEMMA MaxOfTwo ==
    ASSUME NEW m \in Int, NEW n \in Int
    PROVE  Max({m, n}) = IF m >= n THEN m ELSE n
<1> DEFINE x == IF m >= n THEN m ELSE n
<1>1. x \in {m, n} /\ \A y \in {m, n} : x >= y
  OBVIOUS
<1>2. ASSUME NEW z \in {m, n}, \A y \in {m, n} : z >= y PROVE z = x
  BY <1>2
<1> HIDE DEF x
<1>3. Max({m, n}) = x
  BY <1>1, <1>2 DEF Max
<1> QED
  BY <1>3 DEF x

\* The size of a region is enough for what it is for, and not too small; it is
\* found again from the size of a block that is the whole region.
LEMMA RegionSize ==
    /\ \A n \in Nat : /\ RegionPages(n) \in Nat \ {0} /\ RegionPages(n) >= MEMORY_MIN_FRAMES
                      /\ n <= RegionPages(n) * FRAME_SIZE
    /\ \A k \in Nat : k >= MEMORY_MIN_FRAMES => RegionPages(k * FRAME_SIZE) = k
<1>1. /\ FRAME_SIZE \in Nat \ {0} /\ MEMORY_MIN_FRAMES \in Nat \ {0}
  BY Sizes
<1>2. ASSUME NEW n \in Nat
      PROVE  /\ RegionPages(n) \in Nat \ {0} /\ RegionPages(n) >= MEMORY_MIN_FRAMES
             /\ n <= RegionPages(n) * FRAME_SIZE
  <2> DEFINE q == (n + FRAME_SIZE - 1) \div FRAME_SIZE
  <2>1. n + FRAME_SIZE - 1 \in Nat
    BY <1>1
  <2>2. q \in Nat /\ n + FRAME_SIZE - 1 < q * FRAME_SIZE + FRAME_SIZE
    BY <2>1, FrameOf
  <2>3. Pages(n) = q
    BY DEF Pages
  <2> HIDE DEF q
  <2>4. RegionPages(n) = IF q >= MEMORY_MIN_FRAMES THEN q ELSE MEMORY_MIN_FRAMES
    BY <1>1, <2>2, <2>3, MaxOfTwo DEF RegionPages
  <2>5. n <= q * FRAME_SIZE /\ q * FRAME_SIZE \in Int /\ MEMORY_MIN_FRAMES * FRAME_SIZE \in Int
    BY <1>1, <2>2, Multiples
  <2>6. ~ q >= MEMORY_MIN_FRAMES => q * FRAME_SIZE + FRAME_SIZE <= MEMORY_MIN_FRAMES * FRAME_SIZE
    <3>1. \A i, j \in Int : i < j => i * FRAME_SIZE + FRAME_SIZE <= j * FRAME_SIZE
      BY Multiples
    <3>2. q \in Int /\ MEMORY_MIN_FRAMES \in Int /\ (~ q >= MEMORY_MIN_FRAMES => q < MEMORY_MIN_FRAMES)
      BY <1>1, <2>2
    <3> QED
      BY <3>1, <3>2, Zenon
  <2> QED
    BY <1>1, <2>2, <2>4, <2>5, <2>6
<1>3. ASSUME NEW k \in Nat, k >= MEMORY_MIN_FRAMES
      PROVE  RegionPages(k * FRAME_SIZE) = k
  <2> DEFINE n == k * FRAME_SIZE
  <2>1. n \in Nat /\ n + FRAME_SIZE - 1 \in Nat /\ (k + 1) * FRAME_SIZE = n + FRAME_SIZE
    <3>1. (k + 1) * FRAME_SIZE = k * FRAME_SIZE + 1 * FRAME_SIZE
      BY Multiples
    <3>2. 1 * FRAME_SIZE = FRAME_SIZE
      BY <1>1
    <3> QED
      BY <1>1, <3>1, <3>2, Multiples
  <2>2. n <= n + FRAME_SIZE - 1 /\ n + FRAME_SIZE - 1 < n + FRAME_SIZE
    BY <1>1, <2>1
  <2>3. (n + FRAME_SIZE - 1) \div FRAME_SIZE \in k .. (k + 1) - 1
    <3> DEFINE x == n + FRAME_SIZE - 1
    <3>1. x \in Nat /\ k * FRAME_SIZE <= x /\ x < (k + 1) * FRAME_SIZE
      BY <2>1, <2>2
    <3> HIDE DEF x
    <3>2. x \div FRAME_SIZE \in k .. (k + 1) - 1
      BY <3>1, FramesBetween
    <3> QED
      BY <3>2 DEF x
  <2>4. Pages(n) = k
    BY <2>3 DEF Pages
  <2> HIDE DEF n
  <2>5. RegionPages(n) = k
    BY <1>1, <1>3, <2>4, MaxOfTwo DEF RegionPages
  <2> QED
    BY <2>5 DEF n
<1> QED
  BY <1>2, <1>3

-----------------------------------------------------------------------------
(* What the assignments to a tag do.                                       *)

\* A tag is changed, and a write that went astray recorded.
Written(h, a, t) == [h EXCEPT !.mem[a] = t, !.broken = IF Astray(h, a) THEN "astray" ELSE @]

LEMMA WrittenIs ==
    ASSUME NEW h \in HeapType, NEW a \in Address, NEW t \in TagType
    PROVE  /\ Around(Written(h, a, t), h)
           /\ Written(h, a, t).first = h.first
           /\ ~ Astray(h, a) => Written(h, a, t).broken = h.broken
           /\ \A b \in Address : Written(h, a, t).mem[b] = IF b = a THEN t ELSE h.mem[b]
<1> DEFINE m == [h.mem EXCEPT ![a] = t]
           k == IF Astray(h, a) THEN "astray" ELSE h.broken
           g == [h EXCEPT !.mem = m, !.broken = k]
<1>1. Written(h, a, t) = g
  BY DEF Written
<1>2. h.mem \in [Address -> TagType] /\ h.broken \in Outcome
  BY DEF HeapType
<1>3. m \in [Address -> TagType] /\ \A b \in Address : m[b] = IF b = a THEN t ELSE h.mem[b]
  BY <1>2
<1>4. k \in Outcome /\ (k = "no" => h.broken = "no") /\ (~ Astray(h, a) => k = h.broken)
  BY <1>2 DEF Outcome
<1> HIDE DEF m, k
<1>5. g \in HeapType
  BY <1>3, <1>4 DEF HeapType
<1>6. /\ g.mem = m /\ g.broken = k /\ g.first = h.first /\ g.headers = h.headers
      /\ g.frames = h.frames /\ g.intact = h.intact /\ g.complete = h.complete /\ g.cut = h.cut
  BY DEF HeapType
<1> HIDE DEF g
<1> QED
  BY <1>1, <1>3, <1>4, <1>5, <1>6 DEF Around

LEMMA SetRealsize ==
    ASSUME NEW h \in HeapType, NEW a \in Link, NEW v \in 0 .. Limit
    PROVE  /\ Around(Set(h, a, "realsize", v), h)
           /\ Set(h, a, "realsize", v).first = h.first
           /\ a = NULL \/ ~ Astray(h, a) => Set(h, a, "realsize", v).broken = h.broken
           /\ \A b \in Address :
                    /\ Set(h, a, "realsize", v).mem[b].realsize = IF b = a THEN v ELSE h.mem[b].realsize
                    /\ Set(h, a, "realsize", v).mem[b].index = h.mem[b].index
                    /\ Set(h, a, "realsize", v).mem[b].prev = h.mem[b].prev
                    /\ Set(h, a, "realsize", v).mem[b].next = h.mem[b].next
                    /\ Set(h, a, "realsize", v).mem[b].splitprev = h.mem[b].splitprev
                    /\ Set(h, a, "realsize", v).mem[b].splitnext = h.mem[b].splitnext
<1>1. CASE a = NULL
  <2>1. Set(h, a, "realsize", v) = h /\ NULL \notin Address
    BY <1>1 DEF Set, NULL, Address
  <2> QED
    BY <1>1, <2>1 DEF Around
<1>2. CASE a # NULL
  <2> DEFINE t == [h.mem[a] EXCEPT !.realsize = v]
  <2>1. Set(h, a, "realsize", v) = Written(h, a, t)
    BY <1>2 DEF Set, Written
  <2>2. a \in Address /\ h.mem[a] \in TagType
    BY <1>2 DEF HeapType, Link
  <2>3. t \in TagType /\ t.realsize = v
    BY <2>2 DEF TagType
  <2>4. t.index = h.mem[a].index /\ t.prev = h.mem[a].prev /\ t.next = h.mem[a].next /\ t.splitprev = h.mem[a].splitprev /\ t.splitnext = h.mem[a].splitnext
    BY <2>2 DEF TagType
  <2> HIDE DEF t
  <2>5. /\ Around(Written(h, a, t), h)
        /\ Written(h, a, t).first = h.first
        /\ ~ Astray(h, a) => Written(h, a, t).broken = h.broken
        /\ \A b \in Address : Written(h, a, t).mem[b] = IF b = a THEN t ELSE h.mem[b]
    BY <2>2, <2>3, WrittenIs
  <2> QED
    BY <1>2, <2>1, <2>2, <2>3, <2>4, <2>5
<1> QED
  BY <1>1, <1>2

LEMMA SetIndex ==
    ASSUME NEW h \in HeapType, NEW a \in Link, NEW v \in Index
    PROVE  /\ Around(Set(h, a, "index", v), h)
           /\ Set(h, a, "index", v).first = h.first
           /\ a = NULL \/ ~ Astray(h, a) => Set(h, a, "index", v).broken = h.broken
           /\ \A b \in Address :
                    /\ Set(h, a, "index", v).mem[b].index = IF b = a THEN v ELSE h.mem[b].index
                    /\ Set(h, a, "index", v).mem[b].realsize = h.mem[b].realsize
                    /\ Set(h, a, "index", v).mem[b].prev = h.mem[b].prev
                    /\ Set(h, a, "index", v).mem[b].next = h.mem[b].next
                    /\ Set(h, a, "index", v).mem[b].splitprev = h.mem[b].splitprev
                    /\ Set(h, a, "index", v).mem[b].splitnext = h.mem[b].splitnext
<1>1. CASE a = NULL
  <2>1. Set(h, a, "index", v) = h /\ NULL \notin Address
    BY <1>1 DEF Set, NULL, Address
  <2> QED
    BY <1>1, <2>1 DEF Around
<1>2. CASE a # NULL
  <2> DEFINE t == [h.mem[a] EXCEPT !.index = v]
  <2>1. Set(h, a, "index", v) = Written(h, a, t)
    BY <1>2 DEF Set, Written
  <2>2. a \in Address /\ h.mem[a] \in TagType
    BY <1>2 DEF HeapType, Link
  <2>3. t \in TagType /\ t.index = v
    BY <2>2 DEF TagType
  <2>4. t.realsize = h.mem[a].realsize /\ t.prev = h.mem[a].prev /\ t.next = h.mem[a].next /\ t.splitprev = h.mem[a].splitprev /\ t.splitnext = h.mem[a].splitnext
    BY <2>2 DEF TagType
  <2> HIDE DEF t
  <2>5. /\ Around(Written(h, a, t), h)
        /\ Written(h, a, t).first = h.first
        /\ ~ Astray(h, a) => Written(h, a, t).broken = h.broken
        /\ \A b \in Address : Written(h, a, t).mem[b] = IF b = a THEN t ELSE h.mem[b]
    BY <2>2, <2>3, WrittenIs
  <2> QED
    BY <1>2, <2>1, <2>2, <2>3, <2>4, <2>5
<1> QED
  BY <1>1, <1>2

LEMMA SetPrev ==
    ASSUME NEW h \in HeapType, NEW a \in Link, NEW v \in Link
    PROVE  /\ Around(Set(h, a, "prev", v), h)
           /\ Set(h, a, "prev", v).first = h.first
           /\ a = NULL \/ ~ Astray(h, a) => Set(h, a, "prev", v).broken = h.broken
           /\ \A b \in Address :
                    /\ Set(h, a, "prev", v).mem[b].prev = IF b = a THEN v ELSE h.mem[b].prev
                    /\ Set(h, a, "prev", v).mem[b].realsize = h.mem[b].realsize
                    /\ Set(h, a, "prev", v).mem[b].index = h.mem[b].index
                    /\ Set(h, a, "prev", v).mem[b].next = h.mem[b].next
                    /\ Set(h, a, "prev", v).mem[b].splitprev = h.mem[b].splitprev
                    /\ Set(h, a, "prev", v).mem[b].splitnext = h.mem[b].splitnext
<1>1. CASE a = NULL
  <2>1. Set(h, a, "prev", v) = h /\ NULL \notin Address
    BY <1>1 DEF Set, NULL, Address
  <2> QED
    BY <1>1, <2>1 DEF Around
<1>2. CASE a # NULL
  <2> DEFINE t == [h.mem[a] EXCEPT !.prev = v]
  <2>1. Set(h, a, "prev", v) = Written(h, a, t)
    BY <1>2 DEF Set, Written
  <2>2. a \in Address /\ h.mem[a] \in TagType
    BY <1>2 DEF HeapType, Link
  <2>3. t \in TagType /\ t.prev = v
    BY <2>2 DEF TagType
  <2>4. t.realsize = h.mem[a].realsize /\ t.index = h.mem[a].index /\ t.next = h.mem[a].next /\ t.splitprev = h.mem[a].splitprev /\ t.splitnext = h.mem[a].splitnext
    BY <2>2 DEF TagType
  <2> HIDE DEF t
  <2>5. /\ Around(Written(h, a, t), h)
        /\ Written(h, a, t).first = h.first
        /\ ~ Astray(h, a) => Written(h, a, t).broken = h.broken
        /\ \A b \in Address : Written(h, a, t).mem[b] = IF b = a THEN t ELSE h.mem[b]
    BY <2>2, <2>3, WrittenIs
  <2> QED
    BY <1>2, <2>1, <2>2, <2>3, <2>4, <2>5
<1> QED
  BY <1>1, <1>2

LEMMA SetNext ==
    ASSUME NEW h \in HeapType, NEW a \in Link, NEW v \in Link
    PROVE  /\ Around(Set(h, a, "next", v), h)
           /\ Set(h, a, "next", v).first = h.first
           /\ a = NULL \/ ~ Astray(h, a) => Set(h, a, "next", v).broken = h.broken
           /\ \A b \in Address :
                    /\ Set(h, a, "next", v).mem[b].next = IF b = a THEN v ELSE h.mem[b].next
                    /\ Set(h, a, "next", v).mem[b].realsize = h.mem[b].realsize
                    /\ Set(h, a, "next", v).mem[b].index = h.mem[b].index
                    /\ Set(h, a, "next", v).mem[b].prev = h.mem[b].prev
                    /\ Set(h, a, "next", v).mem[b].splitprev = h.mem[b].splitprev
                    /\ Set(h, a, "next", v).mem[b].splitnext = h.mem[b].splitnext
<1>1. CASE a = NULL
  <2>1. Set(h, a, "next", v) = h /\ NULL \notin Address
    BY <1>1 DEF Set, NULL, Address
  <2> QED
    BY <1>1, <2>1 DEF Around
<1>2. CASE a # NULL
  <2> DEFINE t == [h.mem[a] EXCEPT !.next = v]
  <2>1. Set(h, a, "next", v) = Written(h, a, t)
    BY <1>2 DEF Set, Written
  <2>2. a \in Address /\ h.mem[a] \in TagType
    BY <1>2 DEF HeapType, Link
  <2>3. t \in TagType /\ t.next = v
    BY <2>2 DEF TagType
  <2>4. t.realsize = h.mem[a].realsize /\ t.index = h.mem[a].index /\ t.prev = h.mem[a].prev /\ t.splitprev = h.mem[a].splitprev /\ t.splitnext = h.mem[a].splitnext
    BY <2>2 DEF TagType
  <2> HIDE DEF t
  <2>5. /\ Around(Written(h, a, t), h)
        /\ Written(h, a, t).first = h.first
        /\ ~ Astray(h, a) => Written(h, a, t).broken = h.broken
        /\ \A b \in Address : Written(h, a, t).mem[b] = IF b = a THEN t ELSE h.mem[b]
    BY <2>2, <2>3, WrittenIs
  <2> QED
    BY <1>2, <2>1, <2>2, <2>3, <2>4, <2>5
<1> QED
  BY <1>1, <1>2

LEMMA SetSplitprev ==
    ASSUME NEW h \in HeapType, NEW a \in Link, NEW v \in Link
    PROVE  /\ Around(Set(h, a, "splitprev", v), h)
           /\ Set(h, a, "splitprev", v).first = h.first
           /\ a = NULL \/ ~ Astray(h, a) => Set(h, a, "splitprev", v).broken = h.broken
           /\ \A b \in Address :
                    /\ Set(h, a, "splitprev", v).mem[b].splitprev = IF b = a THEN v ELSE h.mem[b].splitprev
                    /\ Set(h, a, "splitprev", v).mem[b].realsize = h.mem[b].realsize
                    /\ Set(h, a, "splitprev", v).mem[b].index = h.mem[b].index
                    /\ Set(h, a, "splitprev", v).mem[b].prev = h.mem[b].prev
                    /\ Set(h, a, "splitprev", v).mem[b].next = h.mem[b].next
                    /\ Set(h, a, "splitprev", v).mem[b].splitnext = h.mem[b].splitnext
<1>1. CASE a = NULL
  <2>1. Set(h, a, "splitprev", v) = h /\ NULL \notin Address
    BY <1>1 DEF Set, NULL, Address
  <2> QED
    BY <1>1, <2>1 DEF Around
<1>2. CASE a # NULL
  <2> DEFINE t == [h.mem[a] EXCEPT !.splitprev = v]
  <2>1. Set(h, a, "splitprev", v) = Written(h, a, t)
    BY <1>2 DEF Set, Written
  <2>2. a \in Address /\ h.mem[a] \in TagType
    BY <1>2 DEF HeapType, Link
  <2>3. t \in TagType /\ t.splitprev = v
    BY <2>2 DEF TagType
  <2>4. t.realsize = h.mem[a].realsize /\ t.index = h.mem[a].index /\ t.prev = h.mem[a].prev /\ t.next = h.mem[a].next /\ t.splitnext = h.mem[a].splitnext
    BY <2>2 DEF TagType
  <2> HIDE DEF t
  <2>5. /\ Around(Written(h, a, t), h)
        /\ Written(h, a, t).first = h.first
        /\ ~ Astray(h, a) => Written(h, a, t).broken = h.broken
        /\ \A b \in Address : Written(h, a, t).mem[b] = IF b = a THEN t ELSE h.mem[b]
    BY <2>2, <2>3, WrittenIs
  <2> QED
    BY <1>2, <2>1, <2>2, <2>3, <2>4, <2>5
<1> QED
  BY <1>1, <1>2

LEMMA SetSplitnext ==
    ASSUME NEW h \in HeapType, NEW a \in Link, NEW v \in Link
    PROVE  /\ Around(Set(h, a, "splitnext", v), h)
           /\ Set(h, a, "splitnext", v).first = h.first
           /\ a = NULL \/ ~ Astray(h, a) => Set(h, a, "splitnext", v).broken = h.broken
           /\ \A b \in Address :
                    /\ Set(h, a, "splitnext", v).mem[b].splitnext = IF b = a THEN v ELSE h.mem[b].splitnext
                    /\ Set(h, a, "splitnext", v).mem[b].realsize = h.mem[b].realsize
                    /\ Set(h, a, "splitnext", v).mem[b].index = h.mem[b].index
                    /\ Set(h, a, "splitnext", v).mem[b].prev = h.mem[b].prev
                    /\ Set(h, a, "splitnext", v).mem[b].next = h.mem[b].next
                    /\ Set(h, a, "splitnext", v).mem[b].splitprev = h.mem[b].splitprev
<1>1. CASE a = NULL
  <2>1. Set(h, a, "splitnext", v) = h /\ NULL \notin Address
    BY <1>1 DEF Set, NULL, Address
  <2> QED
    BY <1>1, <2>1 DEF Around
<1>2. CASE a # NULL
  <2> DEFINE t == [h.mem[a] EXCEPT !.splitnext = v]
  <2>1. Set(h, a, "splitnext", v) = Written(h, a, t)
    BY <1>2 DEF Set, Written
  <2>2. a \in Address /\ h.mem[a] \in TagType
    BY <1>2 DEF HeapType, Link
  <2>3. t \in TagType /\ t.splitnext = v
    BY <2>2 DEF TagType
  <2>4. t.realsize = h.mem[a].realsize /\ t.index = h.mem[a].index /\ t.prev = h.mem[a].prev /\ t.next = h.mem[a].next /\ t.splitprev = h.mem[a].splitprev
    BY <2>2 DEF TagType
  <2> HIDE DEF t
  <2>5. /\ Around(Written(h, a, t), h)
        /\ Written(h, a, t).first = h.first
        /\ ~ Astray(h, a) => Written(h, a, t).broken = h.broken
        /\ \A b \in Address : Written(h, a, t).mem[b] = IF b = a THEN t ELSE h.mem[b]
    BY <2>2, <2>3, WrittenIs
  <2> QED
    BY <1>2, <2>1, <2>2, <2>3, <2>4, <2>5
<1> QED
  BY <1>1, <1>2

LEMMA SetFirstIs ==
    ASSUME NEW h \in HeapType, NEW i \in Class, NEW a \in Link
    PROVE  /\ Same(SetFirst(h, i, a), h)
           /\ SetFirst(h, i, a).mem = h.mem /\ SetFirst(h, i, a).broken = h.broken
           /\ \A j \in Class : SetFirst(h, i, a).first[j] = IF j = i THEN a ELSE h.first[j]
<1> DEFINE f == [h.first EXCEPT ![i] = a]
           g == [h EXCEPT !.first = f]
<1>1. SetFirst(h, i, a) = g
  BY DEF SetFirst
<1>2. f \in [Class -> Link] /\ \A j \in Class : f[j] = IF j = i THEN a ELSE h.first[j]
  BY DEF HeapType
<1> HIDE DEF f
<1>3. /\ g \in HeapType /\ g.first = f /\ g.mem = h.mem /\ g.headers = h.headers
      /\ g.frames = h.frames /\ g.intact = h.intact /\ g.complete = h.complete /\ g.cut = h.cut
      /\ g.broken = h.broken
  BY <1>2 DEF HeapType
<1> HIDE DEF g
<1> QED
  BY <1>1, <1>2, <1>3 DEF Same, Around

LEMMA SameSelf ==
    ASSUME NEW h \in HeapType
    PROVE  Same(h, h)
BY DEF Same, Around

LEMMA SameAgain ==
    ASSUME NEW f, NEW g, NEW h, Same(g, h), Same(f, g)
    PROVE  Same(f, h)
BY DEF Same, Around

LEMMA AroundAgain ==
    ASSUME NEW f, NEW g, NEW h, Around(g, h), Around(f, g)
    PROVE  Around(f, h)
BY DEF Around

\* The types of what a tag holds.
LEMMA TagIs ==
    ASSUME NEW h \in HeapType, NEW a \in Address
    PROVE  /\ h.mem[a].realsize \in 0 .. Limit /\ h.mem[a].index \in Index
           /\ h.mem[a].prev \in Link /\ h.mem[a].next \in Link
           /\ h.mem[a].splitprev \in Link /\ h.mem[a].splitnext \in Link
BY DEF HeapType, TagType

LEMMA PrevIsSame ==
    ASSUME NEW h \in HeapType, NEW a \in Link, NEW v \in Link
    PROVE  Same(Set(h, a, "prev", v), h)
BY SetPrev DEF Same

LEMMA NextIsSame ==
    ASSUME NEW h \in HeapType, NEW a \in Link, NEW v \in Link
    PROVE  Same(Set(h, a, "next", v), h)
BY SetNext DEF Same

\* A class that is not that of tags in use.
LEMMA ClassOf ==
    /\ Allocated \notin Class /\ NULL \notin Address /\ NULL \in Link /\ Allocated \in Index
    /\ \A i \in Index : i # Allocated => i \in Class
    /\ \A a \in Link : a # NULL => a \in Address
BY Sizes DEF Index, Class, Allocated, Link, Address, NULL

\* The list of a class, after its first tag may have been taken out.
Behead(h, a) ==
    IF h.mem[a].index # Allocated /\ h.first[h.mem[a].index] = a
    THEN SetFirst(h, h.mem[a].index, h.mem[a].next) ELSE h

LEMMA BeheadIs ==
    ASSUME NEW h \in HeapType, NEW a \in Address
    PROVE  /\ Same(Behead(h, a), h)
           /\ Behead(h, a).mem = h.mem /\ Behead(h, a).broken = h.broken
           /\ \A j \in Class : Behead(h, a).first[j] =
                  IF j = h.mem[a].index /\ h.first[j] = a THEN h.mem[a].next ELSE h.first[j]
           /\ Unlink(h, a) = Set(Set(Behead(h, a), h.mem[a].prev, "next", h.mem[a].next),
                                 h.mem[a].next, "prev", h.mem[a].prev)
<1>1. h.mem[a].index \in Index /\ h.mem[a].next \in Link
  BY TagIs
<1>2. CASE h.mem[a].index # Allocated /\ h.first[h.mem[a].index] = a
  <2>1. h.mem[a].index \in Class
    BY <1>1, <1>2, ClassOf
  <2> QED
    BY <1>1, <1>2, <2>1, SetFirstIs DEF Behead, Unlink
<1>3. CASE ~ (h.mem[a].index # Allocated /\ h.first[h.mem[a].index] = a)
  BY <1>3, ClassOf, SameSelf DEF Behead, Unlink
<1> QED
  BY <1>2, <1>3

LEMMA UnlinkIsSame ==
    ASSUME NEW h \in HeapType, NEW a \in Address
    PROVE  Same(Unlink(h, a), h)
<1> DEFINE p == h.mem[a].prev
           n == h.mem[a].next
           f == Behead(h, a)
           g == Set(f, p, "next", n)
<1>1. p \in Link /\ n \in Link
  BY TagIs
<1>2. Same(f, h) /\ Unlink(h, a) = Set(g, n, "prev", p)
  BY BeheadIs
<1>3. f \in HeapType
  BY <1>2 DEF Same, Around
<1> HIDE DEF p, n, f
<1>4. Same(g, f)
  BY <1>1, <1>3, NextIsSame
<1>5. g \in HeapType
  BY <1>4 DEF Same, Around
<1> HIDE DEF g
<1>6. Same(Set(g, n, "prev", p), g)
  BY <1>1, <1>5, PrevIsSame
<1> QED
  BY <1>2, <1>4, <1>6, SameAgain

LEMMA CutTiesIsSame ==
    ASSUME NEW h \in HeapType, NEW a \in Link
    PROVE  Same(CutTies(h, a), h)
<1> DEFINE g == Set(h, a, "prev", NULL)
<1>1. NULL \in Link /\ CutTies(h, a) = Set(g, a, "next", NULL)
  BY DEF CutTies, Link
<1>2. Same(g, h)
  BY <1>1, PrevIsSame
<1>3. g \in HeapType
  BY <1>2 DEF Same, Around
<1> HIDE DEF g
<1>4. Same(Set(g, a, "next", NULL), g)
  BY <1>1, <1>3, NextIsSame
<1> QED
  BY <1>1, <1>2, <1>4, SameAgain

LEMMA PushIsSame ==
    ASSUME NEW h \in HeapType, NEW a \in Address, NEW i \in Class
    PROVE  Same(Push(h, a, i), h)
<1> DEFINE n == h.first[i]
           f == Set(h, a, "next", n)
           e == Set(f, n, "prev", a)
           g == IF n # NULL THEN e ELSE h
<1>1. n \in Link /\ a \in Link /\ Push(h, a, i) = SetFirst(g, i, a)
  BY DEF HeapType, Push, Link
<1> HIDE DEF n
<1>2. Same(f, h)
  BY <1>1, NextIsSame
<1>3. f \in HeapType
  BY <1>2 DEF Same, Around
<1> HIDE DEF f
<1>4. Same(e, f)
  BY <1>1, <1>3, PrevIsSame
<1> HIDE DEF e
<1>5. Same(g, h)
  BY <1>2, <1>4, SameAgain, SameSelf
<1>6. g \in HeapType
  BY <1>5 DEF Same, Around
<1> HIDE DEF g
<1>7. Same(SetFirst(g, i, a), g)
  BY <1>1, <1>6, SetFirstIs
<1> QED
  BY <1>1, <1>5, <1>7, SameAgain

-----------------------------------------------------------------------------
(* What the steps of malloc and free do to the tags.                       *)

LEMMA SetHeaders ==
    ASSUME NEW h \in HeapType, NEW s \in SUBSET Address
    PROVE  LET g == [h EXCEPT !.headers = s] IN
           /\ g \in HeapType /\ g.headers = s /\ g.mem = h.mem /\ g.first = h.first
           /\ g.frames = h.frames /\ g.intact = h.intact /\ g.complete = h.complete
           /\ g.cut = h.cut /\ g.broken = h.broken
BY DEF HeapType

\* A tag that leaves its list and is marked as in use.
Gone(h, a) == Set(CutTies(Unlink(h, a), a), a, "index", Allocated)

LEMMA GoneIs ==
    ASSUME NEW h \in HeapType, NEW a \in Address
    PROVE  /\ Around(Gone(h, a), h)
           /\ \A b \in Address :
                 /\ Gone(h, a).mem[b].index = IF b = a THEN Allocated ELSE h.mem[b].index
                 /\ Gone(h, a).mem[b].realsize = h.mem[b].realsize
                 /\ Gone(h, a).mem[b].splitprev = h.mem[b].splitprev
                 /\ Gone(h, a).mem[b].splitnext = h.mem[b].splitnext
<1> DEFINE f == Unlink(h, a)
           g == CutTies(f, a)
<1>1. Same(f, h)
  BY UnlinkIsSame
<1>2. f \in HeapType /\ a \in Link
  BY <1>1 DEF Same, Around, Link
<1> HIDE DEF f
<1>3. Same(g, f)
  BY <1>2, CutTiesIsSame
<1>4. g \in HeapType
  BY <1>3 DEF Same, Around
<1>5. Gone(h, a) = Set(g, a, "index", Allocated)
  BY DEF Gone, f
<1> HIDE DEF g
<1>6. Same(g, h)
  BY <1>1, <1>3, SameAgain
<1>7. Allocated \in Index
  BY ClassOf
<1>8. /\ Around(Set(g, a, "index", Allocated), g)
      /\ \A b \in Address :
            LET t == Set(g, a, "index", Allocated).mem[b] IN
            /\ t.index = IF b = a THEN Allocated ELSE g.mem[b].index
            /\ t.realsize = g.mem[b].realsize /\ t.splitprev = g.mem[b].splitprev
            /\ t.splitnext = g.mem[b].splitnext
  BY <1>2, <1>4, <1>7, SetIndex
<1>9. Around(Gone(h, a), h)
  BY <1>5, <1>6, <1>8, AroundAgain DEF Same
<1> QED
  BY <1>5, <1>6, <1>8, <1>9 DEF Same

LEMMA JoinIs ==
    ASSUME NEW h \in HeapType, NEW left \in Address, NEW right \in Address, left # right,
           h.mem[left].realsize + h.mem[right].realsize <= Limit
    PROVE  LET g     == Join(h, left, right)
               after == h.mem[right].splitnext
           IN
           /\ g \in HeapType
           /\ g.headers = h.headers \ {right} /\ g.frames = h.frames /\ g.intact = h.intact
           /\ g.complete = h.complete /\ g.cut = h.cut /\ (g.broken = "no" => h.broken = "no")
           /\ \A b \in Address :
                 /\ g.mem[b].realsize = IF b = left THEN h.mem[left].realsize + h.mem[right].realsize
                                        ELSE h.mem[b].realsize
                 /\ g.mem[b].index = IF b = right THEN Allocated ELSE h.mem[b].index
                 /\ g.mem[b].splitprev = IF b = after THEN left ELSE h.mem[b].splitprev
                 /\ g.mem[b].splitnext = IF b = left THEN after ELSE h.mem[b].splitnext
<1> DEFINE after == h.mem[right].splitnext
           size  == h.mem[left].realsize + h.mem[right].realsize
           gone  == Gone(h, right)
           grown == Set(gone, left, "realsize", size)
           tied  == Set(grown, left, "splitnext", after)
           back  == Set(tied, after, "splitprev", left)
<1>1. after \in Link /\ size \in 0 .. Limit /\ left \in Link
  <2>1. h.mem[left].realsize \in 0 .. Limit /\ h.mem[right].realsize \in 0 .. Limit
    BY TagIs
  <2>2. Limit \in Nat
    BY Sizes DEF Limit
  <2> QED
    BY <2>1, <2>2, TagIs DEF Link
<1>2. Join(h, left, right) = [back EXCEPT !.headers = back.headers \ {right}]
  BY DEF Join, Gone
<1>3. /\ Around(gone, h)
      /\ \A b \in Address :
            /\ gone.mem[b].index = IF b = right THEN Allocated ELSE h.mem[b].index
            /\ gone.mem[b].realsize = h.mem[b].realsize
            /\ gone.mem[b].splitprev = h.mem[b].splitprev
            /\ gone.mem[b].splitnext = h.mem[b].splitnext
  BY GoneIs
<1>4. after = h.mem[right].splitnext /\ size = h.mem[left].realsize + h.mem[right].realsize
  OBVIOUS
<1> HIDE DEF after, size, gone
<1>5. gone \in HeapType
  BY <1>3 DEF Around
<1>6. /\ Around(grown, gone)
      /\ \A b \in Address :
            /\ grown.mem[b].realsize = IF b = left THEN size ELSE gone.mem[b].realsize
            /\ grown.mem[b].index = gone.mem[b].index
            /\ grown.mem[b].splitprev = gone.mem[b].splitprev
            /\ grown.mem[b].splitnext = gone.mem[b].splitnext
  BY <1>1, <1>5, SetRealsize
<1> HIDE DEF grown
<1>7. grown \in HeapType
  BY <1>6 DEF Around
<1>8. /\ Around(tied, grown)
      /\ \A b \in Address :
            /\ tied.mem[b].splitnext = IF b = left THEN after ELSE grown.mem[b].splitnext
            /\ tied.mem[b].realsize = grown.mem[b].realsize
            /\ tied.mem[b].index = grown.mem[b].index
            /\ tied.mem[b].splitprev = grown.mem[b].splitprev
  BY <1>1, <1>7, SetSplitnext
<1> HIDE DEF tied
<1>9. tied \in HeapType
  BY <1>8 DEF Around
<1>10. /\ Around(back, tied)
       /\ \A b \in Address :
            /\ back.mem[b].splitprev = IF b = after THEN left ELSE tied.mem[b].splitprev
            /\ back.mem[b].realsize = tied.mem[b].realsize
            /\ back.mem[b].index = tied.mem[b].index
            /\ back.mem[b].splitnext = tied.mem[b].splitnext
  BY <1>1, <1>9, SetSplitprev
<1> HIDE DEF back
<1>11. Around(back, h)
  BY <1>3, <1>6, <1>8, <1>10, AroundAgain
<1>12. back \in HeapType /\ back.headers \ {right} \in SUBSET Address
  BY <1>11 DEF Around, HeapType
<1> DEFINE g == [back EXCEPT !.headers = back.headers \ {right}]
<1>13. /\ g \in HeapType /\ g.headers = back.headers \ {right} /\ g.mem = back.mem
       /\ g.frames = back.frames /\ g.intact = back.intact /\ g.complete = back.complete
       /\ g.cut = back.cut /\ g.broken = back.broken
  BY <1>12, SetHeaders
<1> HIDE DEF g
<1>14. /\ g.headers = h.headers \ {right} /\ g.frames = h.frames /\ g.intact = h.intact
       /\ g.complete = h.complete /\ g.cut = h.cut /\ (g.broken = "no" => h.broken = "no")
  BY <1>11, <1>13 DEF Around
<1>15. \A b \in Address :
          /\ g.mem[b].realsize = IF b = left THEN size ELSE h.mem[b].realsize
          /\ g.mem[b].index = IF b = right THEN Allocated ELSE h.mem[b].index
          /\ g.mem[b].splitprev = IF b = after THEN left ELSE h.mem[b].splitprev
          /\ g.mem[b].splitnext = IF b = left THEN after ELSE h.mem[b].splitnext
  BY <1>3, <1>6, <1>8, <1>10, <1>13
<1>16. Join(h, left, right) = g
  BY <1>2 DEF g
<1> QED
  BY <1>4, <1>13, <1>14, <1>15, <1>16

-----------------------------------------------------------------------------
(* The blocks: how they tile the regions.                                  *)

End(h, a) == a + h.mem[a].realsize

\* Whatever was ever written as a size is that of a part of a region.
Fits(n) == n = 0 \/ \E s \in Size : n <= RegionPages(s + TAG) * FRAME_SIZE
Bounded(h) == \A a \in Address : End(h, a) <= Limit /\ Fits(h.mem[a].realsize)

\* The blocks in their order, and their links to their neighbours.
Chained(h) ==
    \A a \in h.headers :
        /\ h.mem[a].realsize > TAG
        /\ \A b \in h.headers : a < b => End(h, a) <= b
        /\ h.mem[a].splitnext # NULL =>
              /\ h.mem[a].splitnext = End(h, a) /\ h.mem[a].splitnext \in h.headers
              /\ h.mem[h.mem[a].splitnext].splitprev = a
        /\ h.mem[a].splitprev # NULL =>
              /\ h.mem[a].splitprev \in h.headers
              /\ h.mem[h.mem[a].splitprev].splitnext = a

\* Every block is of a region, from base to limit, that was asked for in one
\* piece; the first and the last block of it have no neighbour there.
Regions(h, base, limit) ==
    \A a \in h.headers :
        /\ base[a] * FRAME_SIZE <= a /\ End(h, a) <= limit[a] * FRAME_SIZE
        /\ \E s \in Size : limit[a] - base[a] = RegionPages(s + TAG)
        /\ h.mem[a].splitprev = NULL => a = base[a] * FRAME_SIZE
        /\ IF h.mem[a].splitnext = NULL THEN End(h, a) = limit[a] * FRAME_SIZE
           ELSE base[h.mem[a].splitnext] = base[a] /\ limit[h.mem[a].splitnext] = limit[a]

Bound == [Address -> 0 .. FRAMES]

\* The heap has the frames its blocks lie in.
Covered(h) ==
    \A x \in Address :
        x \div FRAME_SIZE \in h.frames <=> \E a \in h.headers : a <= x /\ x < End(h, a)

\* A tag that is given up is marked as in use.
Unmarked(h) == \A a \in Address \ h.headers : h.mem[a].index = Allocated

\* Nothing has been written over a tag of a block.
Clean(h) == \A a \in h.headers : ~ Astray(h, a)

Struct(h) ==
    /\ h \in HeapType
    /\ Bounded(h) /\ Chained(h) /\ Covered(h) /\ Unmarked(h) /\ Clean(h)
    /\ \E base, limit \in Bound : Regions(h, base, limit)

\* A block is a part of its region, whose size is that of a request.
LEMMA Lengths ==
    ASSUME NEW n \in Nat, NEW base \in Nat, NEW limit \in Nat, NEW a \in Nat,
           base * FRAME_SIZE <= a, a + n <= limit * FRAME_SIZE,
           NEW s \in Size, limit - base = RegionPages(s + TAG)
    PROVE  n <= RegionPages(s + TAG) * FRAME_SIZE
<1>1. limit * FRAME_SIZE = base * FRAME_SIZE + (limit - base) * FRAME_SIZE
  <2>1. (base + (limit - base)) * FRAME_SIZE = base * FRAME_SIZE + (limit - base) * FRAME_SIZE
    <3>1. base \in Int /\ limit - base \in Int
      OBVIOUS
    <3> QED
      BY <3>1, Multiples
  <2>2. base + (limit - base) = limit
    OBVIOUS
  <2> QED
    BY <2>1, <2>2
<1>2. base * FRAME_SIZE \in Int /\ (limit - base) * FRAME_SIZE \in Int
  BY Multiples
<1> DEFINE x == base * FRAME_SIZE
           y == (limit - base) * FRAME_SIZE
<1>3. x \in Int /\ y \in Int /\ x <= a /\ a + n <= x + y
  BY <1>1, <1>2
<1> HIDE DEF x, y
<1>4. n <= y
  BY <1>3
<1> QED
  BY <1>4 DEF y

\* Two heaps whose blocks are the same.
Alike(g, h) ==
    /\ g \in HeapType
    /\ g.headers = h.headers /\ g.frames = h.frames /\ g.intact = h.intact
    /\ \A a \in Address : /\ g.mem[a].realsize = h.mem[a].realsize
                          /\ g.mem[a].splitprev = h.mem[a].splitprev
                          /\ g.mem[a].splitnext = h.mem[a].splitnext
    /\ \A a \in Address \ h.headers : g.mem[a].index = h.mem[a].index

LEMMA AlikeStruct ==
    ASSUME NEW g, NEW h, Struct(h), Alike(g, h)
    PROVE  Struct(g)
<1>1. h \in HeapType /\ g \in HeapType /\ g.headers = h.headers /\ g.frames = h.frames
  BY DEF Struct, Alike
<1>2. h.headers \subseteq Address
  BY <1>1 DEF HeapType
<1>3. \A a \in Address : /\ g.mem[a].realsize = h.mem[a].realsize
                         /\ g.mem[a].splitprev = h.mem[a].splitprev
                         /\ g.mem[a].splitnext = h.mem[a].splitnext
  BY DEF Alike
<1>4. \A a \in Address : End(g, a) = End(h, a)
  BY <1>3 DEF End
<1>5. Bounded(g)
  BY <1>3, <1>4 DEF Struct, Bounded
<1>6. Chained(g)
  <2>1. Chained(h) BY DEF Struct
  <2> QED BY <1>1, <1>2, <1>3, <1>4, <2>1 DEF Chained
<1>7. Covered(g)
  BY <1>1, <1>2, <1>4 DEF Struct, Covered
<1>8. Unmarked(g)
  BY <1>1 DEF Struct, Unmarked, Alike
<1>9. ASSUME NEW base \in Bound, NEW limit \in Bound, Regions(h, base, limit)
      PROVE  Regions(g, base, limit)
  BY <1>1, <1>2, <1>3, <1>4, <1>9 DEF Regions
<1>10. Clean(g)
  BY DEF Struct, Clean, Astray, Alike
<1> QED
  BY <1>1, <1>5, <1>6, <1>7, <1>8, <1>9, <1>10 DEF Struct

LEMMA SameStruct ==
    ASSUME NEW g, NEW h, Struct(h), Same(g, h)
    PROVE  Struct(g)
BY AlikeStruct DEF Same, Around, Alike

\* Neighbours that become one block.
LEMMA JoinStruct ==
    ASSUME NEW h, Struct(h), NEW left \in h.headers, NEW right \in h.headers,
           h.mem[left].splitnext = right
    PROVE  /\ Struct(Join(h, left, right))
           /\ Join(h, left, right).headers = h.headers \ {right}
           /\ left < right
<1> DEFINE g == Join(h, left, right)
           after == h.mem[right].splitnext
<1>1. h \in HeapType /\ h.headers \subseteq Address /\ Address \subseteq Nat /\ left \in Address /\ right \in Address
  BY DEF Struct, HeapType, Address
<1>2. Bounded(h) /\ Chained(h) /\ Covered(h) /\ Unmarked(h)
  BY DEF Struct
<1>3. \A a \in Address : /\ h.mem[a].realsize \in Nat /\ h.mem[a].splitnext \in Link
                         /\ h.mem[a].splitprev \in Link /\ End(h, a) = a + h.mem[a].realsize
                         /\ End(h, a) \in Nat
  BY <1>1, TagIs DEF End
<1>4. NULL \notin Address /\ TAG \in Nat \ {0} /\ Limit \in Nat
  BY ClassOf, Sizes DEF Limit
<1>5. /\ right = End(h, left) /\ left < right
      /\ h.mem[right].splitprev = left
      /\ h.mem[left].realsize > TAG /\ h.mem[right].realsize > TAG
      /\ End(h, right) <= Limit /\ End(h, right) > right
      /\ End(h, right) = left + (h.mem[left].realsize + h.mem[right].realsize)
  BY <1>1, <1>2, <1>3, <1>4 DEF Chained, Bounded
<1>6. h.mem[left].realsize + h.mem[right].realsize <= Limit
  BY <1>1, <1>3, <1>4, <1>5
<1>7. /\ g \in HeapType
      /\ g.headers = h.headers \ {right} /\ g.frames = h.frames /\ g.intact = h.intact
      /\ \A b \in Address :
            /\ g.mem[b].realsize = IF b = left THEN h.mem[left].realsize + h.mem[right].realsize
                                   ELSE h.mem[b].realsize
            /\ g.mem[b].index = IF b = right THEN Allocated ELSE h.mem[b].index
            /\ g.mem[b].splitprev = IF b = after THEN left ELSE h.mem[b].splitprev
            /\ g.mem[b].splitnext = IF b = left THEN after ELSE h.mem[b].splitnext
  BY <1>1, <1>5, <1>6, JoinIs
<1>8. after = h.mem[right].splitnext /\ after \in Link
  BY <1>1, <1>3
<1> HIDE DEF g, after
<1>9. \A a \in Address : End(g, a) = IF a = left THEN End(h, right) ELSE End(h, a)
  BY <1>1, <1>3, <1>5, <1>7 DEF End
<1>10. \E base, limit \in Bound : Regions(g, base, limit) /\ Regions(h, base, limit)
  <2>1. PICK base \in Bound, limit \in Bound : Regions(h, base, limit)
    BY DEF Struct
  <2>2. /\ base[right] = base[left] /\ limit[right] = limit[left]
        /\ base[left] * FRAME_SIZE <= left /\ End(h, right) <= limit[right] * FRAME_SIZE
    BY <1>1, <1>4, <2>1 DEF Regions
  <2>3. Regions(g, base, limit)
    <3> SUFFICES ASSUME NEW a \in g.headers
                 PROVE  /\ base[a] * FRAME_SIZE <= a /\ End(g, a) <= limit[a] * FRAME_SIZE
                        /\ \E s \in Size : limit[a] - base[a] = RegionPages(s + TAG)
                        /\ g.mem[a].splitprev = NULL => a = base[a] * FRAME_SIZE
                        /\ IF g.mem[a].splitnext = NULL THEN End(g, a) = limit[a] * FRAME_SIZE
                           ELSE base[g.mem[a].splitnext] = base[a] /\ limit[g.mem[a].splitnext] = limit[a]
      BY DEF Regions
    <3>1. a \in h.headers /\ a \in Address /\ a # right
      BY <1>1, <1>7
    <3>2. base[a] * FRAME_SIZE <= a /\ End(g, a) <= limit[a] * FRAME_SIZE
      BY <1>9, <2>1, <2>2, <3>1 DEF Regions
    <3>3. \E s \in Size : limit[a] - base[a] = RegionPages(s + TAG)
      BY <2>1, <3>1 DEF Regions
    <3>4. g.mem[a].splitprev = NULL => a = base[a] * FRAME_SIZE
      BY <1>1, <1>4, <1>7, <2>1, <3>1 DEF Regions
    <3>5. CASE a = left
      BY <1>7, <1>8, <1>9, <2>1, <2>2, <3>1, <3>2, <3>3, <3>4, <3>5 DEF Regions
    <3>6. CASE a # left
      BY <1>7, <1>9, <2>1, <3>1, <3>2, <3>3, <3>4, <3>6 DEF Regions
    <3> QED
      BY <3>5, <3>6
  <2> QED
    BY <2>1, <2>3
<1>11. Bounded(g)
  <2>1. PICK base \in Bound, limit \in Bound : Regions(g, base, limit)
    BY <1>10
  <2>2. left \in g.headers
    <3>1. left \in Int /\ right \in Int /\ left < right
      BY <1>1, <1>5
    <3>2. left # right
      BY <3>1
    <3>3. g.headers = h.headers \ {right}
      BY <1>7
    <3> QED
      BY <3>2, <3>3
  <2>3. PICK s \in Size : limit[left] - base[left] = RegionPages(s + TAG)
    BY <2>1, <2>2 DEF Regions
  <2>4. /\ base[left] * FRAME_SIZE <= left /\ End(g, left) <= limit[left] * FRAME_SIZE
        /\ base[left] \in Nat /\ limit[left] \in Nat /\ g.mem[left].realsize \in Nat
    <3>1. base[left] * FRAME_SIZE <= left /\ End(g, left) <= limit[left] * FRAME_SIZE
      BY <2>1, <2>2 DEF Regions
    <3>2. base[left] \in Nat /\ limit[left] \in Nat
      <4>1. base[left] \in 0 .. FRAMES /\ limit[left] \in 0 .. FRAMES
        BY <1>1, <2>1 DEF Bound
      <4> QED
        BY <4>1
    <3>3. g.mem[left].realsize = h.mem[left].realsize + h.mem[right].realsize
      BY <1>1, <1>7
    <3>4. g.mem[left].realsize \in Nat
      <4>1. h.mem[left].realsize \in Nat /\ h.mem[right].realsize \in Nat
        BY <1>1, <1>3
      <4> QED
        BY <3>3, <4>1
    <3> QED
      BY <3>1, <3>2, <3>4
  <2>5. g.mem[left].realsize <= RegionPages(s + TAG) * FRAME_SIZE
    BY <1>1, <2>3, <2>4, Lengths DEF End
  <2>6. Fits(g.mem[left].realsize)
    BY <2>5 DEF Fits
  <2>7. \A a \in Address : End(g, a) <= Limit
    BY <1>2, <1>5, <1>9 DEF Bounded
  <2>8. \A a \in Address : a # left => Fits(g.mem[a].realsize)
    BY <1>2, <1>7 DEF Bounded
  <2> QED
    BY <2>6, <2>7, <2>8 DEF Bounded
<1>12. Chained(g)
  <2> SUFFICES ASSUME NEW a \in g.headers
               PROVE  /\ g.mem[a].realsize > TAG
                      /\ \A b \in g.headers : a < b => End(g, a) <= b
                      /\ g.mem[a].splitnext # NULL =>
                            /\ g.mem[a].splitnext = End(g, a) /\ g.mem[a].splitnext \in g.headers
                            /\ g.mem[g.mem[a].splitnext].splitprev = a
                      /\ g.mem[a].splitprev # NULL =>
                            /\ g.mem[a].splitprev \in g.headers
                            /\ g.mem[g.mem[a].splitprev].splitnext = a
    BY DEF Chained
  <2>1. a \in h.headers /\ a \in Address /\ a # right /\ g.headers \subseteq h.headers
    BY <1>1, <1>7
  <2>2. after # NULL => /\ after = End(h, right) /\ after \in h.headers /\ after # right
                        /\ h.mem[after].splitprev = right
    <3>1. after # NULL => after = End(h, right) /\ after \in h.headers /\ h.mem[after].splitprev = right
      BY <1>2, <1>8 DEF Chained
    <3>2. End(h, right) # right
      BY <1>1, <1>3, <1>5
    <3> QED
      BY <3>1, <3>2
  <2>3. /\ h.mem[a].realsize > TAG
        /\ \A b \in h.headers : a < b => End(h, a) <= b
        /\ h.mem[a].splitnext # NULL =>
              /\ h.mem[a].splitnext = End(h, a) /\ h.mem[a].splitnext \in h.headers
              /\ h.mem[h.mem[a].splitnext].splitprev = a
        /\ h.mem[a].splitprev # NULL =>
              /\ h.mem[a].splitprev \in h.headers
              /\ h.mem[h.mem[a].splitprev].splitnext = a
    BY <1>2, <2>1 DEF Chained
  <2>4. g.mem[a].realsize > TAG
    BY <1>1, <1>3, <1>4, <1>5, <1>7, <2>1, <2>3
  <2>5. ASSUME NEW b \in g.headers, a < b PROVE End(g, a) <= b
    <3>1. CASE a # left
      BY <1>9, <2>1, <2>3, <2>5, <3>1
    <3>2. CASE a = left
      <4>1. b \in h.headers /\ b # right /\ b \in Nat /\ b >= right
        BY <1>1, <1>5, <1>7, <2>1, <2>3, <2>5, <3>2
      <4>2. right < b
        BY <1>1, <4>1
      <4> QED
        BY <1>2, <1>9, <2>1, <3>2, <4>1, <4>2 DEF Chained
    <3> QED
      BY <3>1, <3>2
  <2>6. ASSUME g.mem[a].splitnext # NULL
        PROVE  /\ g.mem[a].splitnext = End(g, a) /\ g.mem[a].splitnext \in g.headers
               /\ g.mem[g.mem[a].splitnext].splitprev = a
    <3>1. CASE a = left
      BY <1>1, <1>7, <1>9, <2>1, <2>2, <2>6, <3>1
    <3>2. CASE a # left
      <4>1. g.mem[a].splitnext = h.mem[a].splitnext
        BY <1>7, <2>1, <3>2
      <4>2. h.mem[a].splitnext # right
        BY <1>5, <2>3, <2>6, <3>2, <4>1
      <4>3. h.mem[a].splitnext # after
        BY <2>1, <2>2, <2>3, <2>6, <4>1
      <4>4. h.mem[a].splitnext \in g.headers /\ h.mem[a].splitnext \in Address
        BY <1>1, <1>7, <2>3, <2>6, <4>1, <4>2
      <4>5. g.mem[h.mem[a].splitnext].splitprev = h.mem[h.mem[a].splitnext].splitprev
        BY <1>7, <4>3, <4>4
      <4> QED
        BY <1>9, <2>1, <2>3, <2>6, <3>2, <4>1, <4>4, <4>5
    <3> QED
      BY <3>1, <3>2
  <2>7. ASSUME g.mem[a].splitprev # NULL
        PROVE  /\ g.mem[a].splitprev \in g.headers
               /\ g.mem[g.mem[a].splitprev].splitnext = a
    <3>1. CASE a = after
      BY <1>1, <1>5, <1>7, <2>1, <3>1
    <3>2. CASE a # after
      <4>1. g.mem[a].splitprev = h.mem[a].splitprev
        BY <1>7, <2>1, <3>2
      <4>2. h.mem[a].splitprev # right
        BY <1>8, <2>3, <2>7, <3>2, <4>1
      <4>3. h.mem[a].splitprev # left
        BY <2>1, <2>3, <2>7, <4>1
      <4>4. h.mem[a].splitprev \in g.headers /\ h.mem[a].splitprev \in Address
        BY <1>1, <1>7, <2>3, <2>7, <4>1, <4>2
      <4>5. g.mem[h.mem[a].splitprev].splitnext = h.mem[h.mem[a].splitprev].splitnext
        BY <1>7, <4>3, <4>4
      <4> QED
        BY <2>3, <2>7, <4>1, <4>4, <4>5
    <3> QED
      BY <3>1, <3>2
  <2> QED
    BY <2>4, <2>5, <2>6, <2>7
<1>13. Covered(g)
  <2> SUFFICES ASSUME NEW x \in Address
               PROVE  (\E a \in g.headers : a <= x /\ x < End(g, a)) <=>
                      (\E a \in h.headers : a <= x /\ x < End(h, a))
    BY <1>2, <1>7 DEF Covered
  <2>1. x \in Nat /\ left \in Nat /\ right \in Nat /\ End(h, right) \in Nat
    BY <1>1, <1>3
  <2>2. ASSUME NEW a \in g.headers, a <= x, x < End(g, a)
        PROVE  \E b \in h.headers : b <= x /\ x < End(h, b)
    <3>1. a \in h.headers /\ a \in Address
      BY <1>1, <1>7
    <3>2. CASE a # left
      BY <1>9, <2>2, <3>1, <3>2
    <3>3. CASE a = left
      BY <1>5, <1>9, <2>1, <2>2, <3>1, <3>3
    <3> QED
      BY <3>2, <3>3
  <2>3. ASSUME NEW a \in h.headers, a <= x, x < End(h, a)
        PROVE  \E b \in g.headers : b <= x /\ x < End(g, b)
    <3>1. a \in Address /\ left \in g.headers /\ (a # right => a \in g.headers)
      BY <1>1, <1>5, <1>7
    <3>2. CASE a \in {left, right}
      BY <1>1, <1>5, <1>9, <2>1, <2>3, <3>1, <3>2
    <3>3. CASE a \notin {left, right}
      BY <1>9, <2>3, <3>1, <3>3
    <3> QED
      BY <3>2, <3>3
  <2> QED
    BY <2>2, <2>3
<1>14. Unmarked(g)
  BY <1>1, <1>2, <1>7 DEF Unmarked
<1>15. Clean(g)
  BY <1>7 DEF Struct, Clean, Astray
<1> QED
  BY <1>5, <1>7, <1>10, <1>11, <1>12, <1>13, <1>14, <1>15 DEF Struct, g

-----------------------------------------------------------------------------
(* Malloc.                                                                 *)

\* The class of a request.
LEMMA ClassOfSize ==
    ASSUME NEW size \in Size
    PROVE  GetIndex(size) \in Class /\ size \in Nat \ {0}
<1>1. size \in Nat \ {0} /\ TAG \in Nat \ {0}
  BY Sizes
<1>2. size + TAG <= RegionPages(size + TAG) * FRAME_SIZE
  <2>1. size + TAG \in Nat
    BY <1>1
  <2> QED
    BY <2>1, RegionSize
<1>3. RegionPages(size + TAG) * FRAME_SIZE \in Int
  BY <1>1, RegionSize, Multiples
<1> DEFINE r == RegionPages(size + TAG) * FRAME_SIZE
<1>4. size \in 1 .. r - TAG
  <2> HIDE DEF r
  <2> QED
    BY <1>1, <1>2, <1>3 DEF r
<1> QED
  BY <1>1, <1>4, ClassesAssumption

\* The class of a part of a block.
LEMMA ClassOfPart ==
    ASSUME NEW n \in Nat, Fits(n), NEW k \in Nat \ {0}, k + TAG <= n
    PROVE  GetIndex(k) \in Class
<1>1. n # 0 /\ TAG \in Nat \ {0}
  BY Sizes
<1>2. PICK s \in Size : n <= RegionPages(s + TAG) * FRAME_SIZE
  BY <1>1 DEF Fits
<1>3. RegionPages(s + TAG) * FRAME_SIZE \in Int
  <2>1. s + TAG \in Nat
    BY Sizes
  <2>2. RegionPages(s + TAG) \in Nat
    BY <2>1, RegionSize
  <2> QED
    BY <2>2, Multiples
<1> DEFINE r == RegionPages(s + TAG) * FRAME_SIZE
<1>4. k \in 1 .. r - TAG
  <2> HIDE DEF r
  <2> QED
    BY <1>1, <1>2, <1>3 DEF r
<1> QED
  BY <1>4, ClassesAssumption

\* What the last assignments of malloc's search do.
LEMMA TakeIs ==
    ASSUME NEW h \in HeapType, NEW a \in Address, NEW size, GetIndex(size) \in Class
    PROVE  LET g == Take(h, a, size)
               c == CutTies(Unlink(h, a), a)
           IN
           /\ g \in HeapType /\ Same(c, h)
           /\ g.headers = h.headers /\ g.frames = h.frames /\ g.intact = h.intact /\ g.cut = h.cut
           /\ g.first = c.first
           /\ g.broken = IF h.mem[a].index = Allocated THEN "twice" ELSE c.broken
           /\ \A i \in Class : g.complete[i] <= h.complete[i]
           /\ \A b \in Address :
                 /\ g.mem[b].index = IF b = a THEN Allocated ELSE h.mem[b].index
                 /\ g.mem[b].realsize = h.mem[b].realsize
                 /\ g.mem[b].splitprev = h.mem[b].splitprev
                 /\ g.mem[b].splitnext = h.mem[b].splitnext
                 /\ g.mem[b].prev = c.mem[b].prev
                 /\ g.mem[b].next = c.mem[b].next
<1> DEFINE c == CutTies(Unlink(h, a), a)
           i == GetIndex(size)
           whole == h.mem[a].splitprev = NULL /\ h.mem[a].splitnext = NULL
           t == [c.mem[a] EXCEPT !.index = Allocated]
           m == [c.mem EXCEPT ![a] = t]
           p == [c.complete EXCEPT ![i] = IF whole THEN @ - 1 ELSE @]
           k == IF h.mem[a].index = Allocated THEN "twice" ELSE c.broken
           g == [c EXCEPT !.mem = m, !.complete = p, !.broken = k]
<1>1. Take(h, a, size) = g
  BY DEF Take
<1>2. Same(c, h)
  <2>1. Same(Unlink(h, a), h)
    BY UnlinkIsSame
  <2>2. Same(c, Unlink(h, a))
    <3>1. Unlink(h, a) \in HeapType /\ a \in Link
      BY <2>1 DEF Same, Around, Link
    <3> QED
      BY <3>1, CutTiesIsSame
  <2> QED
    BY <2>1, <2>2, SameAgain
<1>3. c \in HeapType
  BY <1>2 DEF Same, Around
<1>4. i \in Class /\ (c.complete = h.complete)
  BY <1>2 DEF Same, Around
<1> HIDE DEF c, i, whole
<1>5. c.mem \in [Address -> TagType] /\ c.mem[a] \in TagType /\ c.complete \in [Class -> Int]
  BY <1>3 DEF HeapType
<1>6. /\ t \in TagType /\ t.index = Allocated /\ t.realsize = c.mem[a].realsize
      /\ t.prev = c.mem[a].prev /\ t.next = c.mem[a].next
      /\ t.splitprev = c.mem[a].splitprev /\ t.splitnext = c.mem[a].splitnext
  BY <1>5, ClassOf DEF TagType
<1> HIDE DEF t
<1>7. m \in [Address -> TagType] /\ \A b \in Address : m[b] = IF b = a THEN t ELSE c.mem[b]
  BY <1>5, <1>6
<1> HIDE DEF m
<1>8. p \in [Class -> Int] /\ \A j \in Class : p[j] <= c.complete[j]
  <2>1. \A j \in Class : p[j] = IF j = i /\ whole THEN c.complete[j] - 1 ELSE c.complete[j]
    BY <1>4, <1>5
  <2>2. p \in [Class -> Int]
    BY <1>4, <1>5
  <2>3. \A j \in Class : c.complete[j] \in Int
    BY <1>5
  <2> HIDE DEF p
  <2> QED
    BY <2>1, <2>2, <2>3
<1> HIDE DEF p
<1>9. k \in Outcome
  BY <1>3 DEF HeapType, Outcome
<1> HIDE DEF k
<1>10. /\ g \in HeapType /\ g.mem = m /\ g.broken = k /\ g.complete = p /\ g.first = c.first
       /\ g.headers = c.headers /\ g.frames = c.frames /\ g.intact = c.intact /\ g.cut = c.cut
  BY <1>3, <1>7, <1>8, <1>9 DEF HeapType
<1> HIDE DEF g
<1>11. /\ g.headers = h.headers /\ g.frames = h.frames /\ g.intact = h.intact /\ g.cut = h.cut
       /\ \A j \in Class : g.complete[j] <= h.complete[j]
  BY <1>2, <1>4, <1>8, <1>10 DEF Same, Around
<1>12. \A b \in Address :
          /\ g.mem[b].index = IF b = a THEN Allocated ELSE h.mem[b].index
          /\ g.mem[b].realsize = h.mem[b].realsize
          /\ g.mem[b].splitprev = h.mem[b].splitprev
          /\ g.mem[b].splitnext = h.mem[b].splitnext
          /\ g.mem[b].prev = c.mem[b].prev
          /\ g.mem[b].next = c.mem[b].next
  BY <1>2, <1>6, <1>7, <1>10 DEF Same
<1> QED
  BY <1>1, <1>2, <1>10, <1>11, <1>12 DEF k, c

LEMMA TakeStruct ==
    ASSUME NEW h, Struct(h), NEW a \in h.headers, NEW size, GetIndex(size) \in Class
    PROVE  Struct(Take(h, a, size))
<1>1. h \in HeapType /\ a \in Address
  BY DEF Struct, HeapType
<1>2. Alike(Take(h, a, size), h)
  BY <1>1, TakeIs DEF Alike
<1> QED
  BY <1>2, AlikeStruct

\* A block that is to be split: what is left of it, and the tag of that.
LEMMA SplitTypes ==
    ASSUME NEW h \in HeapType, Bounded(h), NEW a \in Address, NEW size \in Size, Splits(h, a, size)
    PROVE  /\ a + TAG + size \in Address /\ a + TAG + size > a
           /\ TAG + size \in 0 .. Limit
           /\ Remainder(h, a, size) \in 0 .. Limit /\ Remainder(h, a, size) > TAG
           /\ Remainder(h, a, size) + TAG + size = h.mem[a].realsize
           /\ End(h, a) \in Nat /\ End(h, a) <= Limit
           /\ GetIndex(Remainder(h, a, size) - TAG) \in Class
           /\ Fits(TAG + size) /\ Fits(Remainder(h, a, size))
<1> DEFINE n == h.mem[a].realsize
           r == Remainder(h, a, size)
<1>1. /\ TAG \in Nat \ {0} /\ size \in Nat \ {0} /\ Limit \in Nat /\ 2^MEMORY_MIN_EXP \in Nat
      /\ a \in Nat /\ a < Limit
  BY Sizes, SizesAssumption DEF Limit, Address
<1>2. n \in 0 .. Limit /\ a + n <= Limit /\ Fits(n)
  BY TagIs DEF Bounded, End
<1>3. r = n - size - TAG /\ r - TAG > 2^MEMORY_MIN_EXP
  BY DEF Remainder, Splits
<1>4. End(h, a) = a + n
  BY DEF End
<1> DEFINE e == 2^MEMORY_MIN_EXP
<1>5. e \in Nat /\ r - TAG > e
  BY <1>1, <1>3
<1> HIDE DEF n, r, e
<1>6. r \in 0 .. Limit /\ r > TAG /\ r + TAG + size = n
  BY <1>1, <1>2, <1>3, <1>5
<1>7. a + TAG + size \in 0 .. Limit - 1 /\ a + TAG + size > a /\ TAG + size \in 0 .. Limit
  BY <1>1, <1>2, <1>6
<1>8. Fits(TAG + size) /\ Fits(r)
  <2>1. n # 0
    BY <1>1, <1>2, <1>6
  <2>2. PICK s \in Size : n <= RegionPages(s + TAG) * FRAME_SIZE
    BY <1>2, <2>1 DEF Fits
  <2>3. RegionPages(s + TAG) * FRAME_SIZE \in Int
    <3>1. s + TAG \in Nat
      BY Sizes
    <3>2. RegionPages(s + TAG) \in Nat
      BY <3>1, RegionSize
    <3> QED
      BY <3>2, Multiples
  <2> DEFINE x == RegionPages(s + TAG) * FRAME_SIZE
  <2>4. x \in Int /\ n <= x
    BY <2>2, <2>3
  <2> HIDE DEF x
  <2>5. TAG + size <= x /\ r <= x
    BY <1>1, <1>2, <1>6, <2>4
  <2> QED
    BY <2>5 DEF Fits, x
<1>9. GetIndex(r - TAG) \in Class
  <2>1. r \in Nat /\ r - TAG \in Nat \ {0} /\ r - TAG + TAG <= r
    BY <1>1, <1>6
  <2> QED
    BY <1>8, <2>1, ClassOfPart
<1>10. a + n \in Nat
  BY <1>1, <1>2
<1> QED
  BY <1>2, <1>4, <1>6, <1>7, <1>8, <1>9, <1>10 DEF Address, Limit, r, n

\* What Split writes, up to the new tag's way into its list.
Carved(h, a, size) ==
    LET rest == a + TAG + size
        i    == GetIndex(Remainder(h, a, size) - TAG)
    IN [h EXCEPT !.headers = @ \cup {rest},
                 !.intact = Outlasting(@, Units(rest)) \cup {rest},
                 !.mem[rest] = [NoTag EXCEPT !.realsize = Remainder(h, a, size), !.index = i,
                                             !.splitprev = a, !.splitnext = h.mem[a].splitnext],
                 !.mem[a].realsize = TAG + size,
                 !.mem[a].splitnext = rest]
Tied(h, a, size) ==
    Set(Carved(h, a, size), h.mem[a].splitnext, "splitprev", a + TAG + size)

LEMMA SplitIsPush ==
    ASSUME NEW h, NEW a, NEW size
    PROVE  Split(h, a, size) =
               IF Splits(h, a, size)
               THEN Push(Tied(h, a, size), a + TAG + size, GetIndex(Remainder(h, a, size) - TAG))
               ELSE h
BY DEF Split, Tied, Carved

LEMMA CarvedIs ==
    ASSUME NEW h \in HeapType, Bounded(h), NEW a \in Address, NEW size \in Size, Splits(h, a, size)
    PROVE  LET g    == Carved(h, a, size)
               rest == a + TAG + size
           IN
           /\ g \in HeapType /\ g.headers = h.headers \cup {rest} /\ g.frames = h.frames
           /\ g.intact = Outlasting(h.intact, Units(rest)) \cup {rest} /\ g.first = h.first /\ g.complete = h.complete
           /\ g.cut = h.cut /\ g.broken = h.broken
           /\ \A b \in Address :
                 /\ g.mem[b].realsize = IF b = rest THEN Remainder(h, a, size)
                                        ELSE IF b = a THEN TAG + size ELSE h.mem[b].realsize
                 /\ g.mem[b].index = IF b = rest THEN GetIndex(Remainder(h, a, size) - TAG)
                                     ELSE h.mem[b].index
                 /\ g.mem[b].splitprev = IF b = rest THEN a ELSE h.mem[b].splitprev
                 /\ g.mem[b].splitnext = IF b = rest THEN h.mem[a].splitnext
                                         ELSE IF b = a THEN rest ELSE h.mem[b].splitnext
                 /\ g.mem[b].prev = IF b = rest THEN NULL ELSE h.mem[b].prev
                 /\ g.mem[b].next = IF b = rest THEN NULL ELSE h.mem[b].next
<1> DEFINE rest == a + TAG + size
           r == Remainder(h, a, size)
           i == GetIndex(r - TAG)
           after == h.mem[a].splitnext
           n == TAG + size
           s == h.headers \cup {rest}
           w == Outlasting(h.intact, Units(rest)) \cup {rest}
           new == [NoTag EXCEPT !.realsize = r, !.index = i, !.splitprev = a, !.splitnext = after]
           t == [[h.mem[a] EXCEPT !.realsize = n] EXCEPT !.splitnext = rest]
           m == [[h.mem EXCEPT ![rest] = new] EXCEPT ![a] = t]
           g == [h EXCEPT !.headers = s, !.intact = w, !.mem = m]
<1>1. /\ rest \in Address /\ rest # a /\ r \in 0 .. Limit /\ i \in Class /\ n \in 0 .. Limit
      /\ a \in Link /\ rest \in Link /\ after \in Link
  <2>1. rest \in Address /\ rest > a /\ rest \in Int /\ a \in Int
    BY SplitTypes DEF Address
  <2> QED
    BY <2>1, SplitTypes, TagIs DEF Link
<1>2. /\ h.mem \in [Address -> TagType] /\ h.headers \subseteq Address /\ h.mem[a] \in TagType
      /\ h.intact \subseteq Address
  BY DEF HeapType
<1>3. Carved(h, a, size) = g
  <2>1. Carved(h, a, size) =
          [h EXCEPT !.headers = s, !.intact = w,
                    !.mem = [[[h.mem EXCEPT ![rest] = new]
                                EXCEPT ![a].realsize = n] EXCEPT ![a].splitnext = rest]]
    BY DEF Carved
  <2>2. [[[h.mem EXCEPT ![rest] = new] EXCEPT ![a].realsize = n] EXCEPT ![a].splitnext = rest] = m
    <3> HIDE DEF new, rest, n
    <3> QED
      BY <1>1, <1>2
  <2> QED
    BY <2>1, <2>2
<1>4. /\ new \in TagType /\ new.realsize = r /\ new.index = i /\ new.splitprev = a
      /\ new.splitnext = after /\ new.prev = NULL /\ new.next = NULL
  <2> HIDE DEF r, i, after
  <2> QED
    BY <1>1, ClassOf DEF NoTag, TagType, Index
<1>5. /\ t \in TagType /\ t.realsize = n /\ t.splitnext = rest /\ t.index = h.mem[a].index
      /\ t.prev = h.mem[a].prev /\ t.next = h.mem[a].next /\ t.splitprev = h.mem[a].splitprev
  <2> HIDE DEF n, rest
  <2> QED
    BY <1>1, <1>2 DEF TagType
<1>6. rest = a + TAG + size /\ r = Remainder(h, a, size) /\ i = GetIndex(Remainder(h, a, size) - TAG)
      /\ after = h.mem[a].splitnext /\ n = TAG + size /\ s = h.headers \cup {rest}
      /\ w = Outlasting(h.intact, Units(a + TAG + size)) \cup {rest}
  OBVIOUS
<1> HIDE DEF new, t, rest, r, i, after, n, s, w
<1>7. /\ m \in [Address -> TagType] /\ m[rest] = new /\ m[a] = t
      /\ \A b \in Address : b # rest /\ b # a => m[b] = h.mem[b]
  BY <1>1, <1>2, <1>4, <1>5
<1> HIDE DEF m
<1>8. s \in SUBSET Address /\ w \in SUBSET Address
  BY <1>1, <1>2, <1>6 DEF Outlasting
<1>9. /\ g \in HeapType /\ g.headers = s /\ g.mem = m /\ g.frames = h.frames
      /\ g.intact = w /\ g.first = h.first /\ g.complete = h.complete
      /\ g.cut = h.cut /\ g.broken = h.broken
  BY <1>7, <1>8 DEF HeapType
<1> HIDE DEF g
<1>10. \A b \in Address :
         /\ g.mem[b].realsize = IF b = rest THEN r ELSE IF b = a THEN n ELSE h.mem[b].realsize
         /\ g.mem[b].index = IF b = rest THEN i ELSE h.mem[b].index
         /\ g.mem[b].splitprev = IF b = rest THEN a ELSE h.mem[b].splitprev
         /\ g.mem[b].splitnext = IF b = rest THEN after ELSE IF b = a THEN rest ELSE h.mem[b].splitnext
         /\ g.mem[b].prev = IF b = rest THEN NULL ELSE h.mem[b].prev
         /\ g.mem[b].next = IF b = rest THEN NULL ELSE h.mem[b].next
  BY <1>1, <1>4, <1>5, <1>7, <1>9
<1> QED
  BY <1>3, <1>6, <1>9, <1>10

LEMMA TiedIs ==
    ASSUME NEW h \in HeapType, Bounded(h), NEW a \in Address, NEW size \in Size, Splits(h, a, size)
    PROVE  LET g     == Tied(h, a, size)
               rest  == a + TAG + size
               after == h.mem[a].splitnext
           IN
           /\ g \in HeapType /\ g.headers = h.headers \cup {rest} /\ g.frames = h.frames
           /\ g.intact = Outlasting(h.intact, Units(rest)) \cup {rest} /\ g.first = h.first /\ g.complete = h.complete
           /\ g.cut = h.cut /\ (g.broken = "no" => h.broken = "no")
           /\ after = NULL \/ ~ Astray(Carved(h, a, size), after) => g.broken = h.broken
           /\ \A b \in Address :
                 /\ g.mem[b].realsize = IF b = rest THEN Remainder(h, a, size)
                                        ELSE IF b = a THEN TAG + size ELSE h.mem[b].realsize
                 /\ g.mem[b].index = IF b = rest THEN GetIndex(Remainder(h, a, size) - TAG)
                                     ELSE h.mem[b].index
                 /\ g.mem[b].splitprev = IF b = after THEN rest ELSE IF b = rest THEN a
                                         ELSE h.mem[b].splitprev
                 /\ g.mem[b].splitnext = IF b = rest THEN h.mem[a].splitnext
                                         ELSE IF b = a THEN rest ELSE h.mem[b].splitnext
                 /\ g.mem[b].prev = IF b = rest THEN NULL ELSE h.mem[b].prev
                 /\ g.mem[b].next = IF b = rest THEN NULL ELSE h.mem[b].next
<1> DEFINE c == Carved(h, a, size)
           g == Tied(h, a, size)
           rest == a + TAG + size
           r == Remainder(h, a, size)
           i == GetIndex(r - TAG)
           n == TAG + size
           after == h.mem[a].splitnext
           w == Outlasting(h.intact, Units(rest)) \cup {rest}
<1>1. /\ c \in HeapType /\ c.headers = h.headers \cup {rest} /\ c.frames = h.frames
      /\ c.intact = w /\ c.first = h.first /\ c.complete = h.complete
      /\ c.cut = h.cut /\ c.broken = h.broken
      /\ \A b \in Address :
            /\ c.mem[b].realsize = IF b = rest THEN r ELSE IF b = a THEN n ELSE h.mem[b].realsize
            /\ c.mem[b].index = IF b = rest THEN i ELSE h.mem[b].index
            /\ c.mem[b].splitprev = IF b = rest THEN a ELSE h.mem[b].splitprev
            /\ c.mem[b].splitnext = IF b = rest THEN after ELSE IF b = a THEN rest ELSE h.mem[b].splitnext
            /\ c.mem[b].prev = IF b = rest THEN NULL ELSE h.mem[b].prev
            /\ c.mem[b].next = IF b = rest THEN NULL ELSE h.mem[b].next
  BY CarvedIs
<1>2. after \in Link /\ rest \in Link
  BY TagIs, SplitTypes DEF Link
<1>3. g = Set(c, after, "splitprev", rest)
  BY DEF Tied
<1> HIDE DEF c, rest, r, i, n, after, g, w
<1>4. /\ Around(g, c) /\ g.first = c.first
      /\ after = NULL \/ ~ Astray(c, after) => g.broken = c.broken
      /\ \A b \in Address :
            /\ g.mem[b].splitprev = IF b = after THEN rest ELSE c.mem[b].splitprev
            /\ g.mem[b].realsize = c.mem[b].realsize
            /\ g.mem[b].index = c.mem[b].index
            /\ g.mem[b].prev = c.mem[b].prev
            /\ g.mem[b].next = c.mem[b].next
            /\ g.mem[b].splitnext = c.mem[b].splitnext
  BY <1>1, <1>2, <1>3, SetSplitprev
<1>5. /\ g \in HeapType /\ g.headers = h.headers \cup {rest} /\ g.frames = h.frames
      /\ g.intact = w /\ g.first = h.first /\ g.complete = h.complete
      /\ g.cut = h.cut /\ (g.broken = "no" => h.broken = "no")
      /\ after = NULL \/ ~ Astray(c, after) => g.broken = h.broken
  BY <1>1, <1>4 DEF Around
<1>6. \A b \in Address :
         /\ g.mem[b].realsize = IF b = rest THEN r ELSE IF b = a THEN n ELSE h.mem[b].realsize
         /\ g.mem[b].index = IF b = rest THEN i ELSE h.mem[b].index
         /\ g.mem[b].splitprev = IF b = after THEN rest ELSE IF b = rest THEN a ELSE h.mem[b].splitprev
         /\ g.mem[b].splitnext = IF b = rest THEN after ELSE IF b = a THEN rest ELSE h.mem[b].splitnext
         /\ g.mem[b].prev = IF b = rest THEN NULL ELSE h.mem[b].prev
         /\ g.mem[b].next = IF b = rest THEN NULL ELSE h.mem[b].next
  BY <1>1, <1>4
<1> QED
  BY <1>5, <1>6 DEF c, g, rest, r, i, n, after, w

\* A block that is split is two that tile the same addresses.
LEMMA TiedStruct ==
    ASSUME NEW h, Struct(h), NEW a \in h.headers, NEW size \in Size, Splits(h, a, size)
    PROVE  /\ Struct(Tied(h, a, size))
           /\ a + TAG + size \notin h.headers /\ a + TAG + size \in Address
           /\ a < a + TAG + size /\ a + TAG + size < End(h, a)
           /\ h.mem[a].splitnext # a + TAG + size
<1> DEFINE g == Tied(h, a, size)
           rest == a + TAG + size
           r == Remainder(h, a, size)
           i == GetIndex(r - TAG)
           n == TAG + size
           after == h.mem[a].splitnext
<1>1. /\ h \in HeapType /\ Bounded(h) /\ Chained(h) /\ Covered(h) /\ Unmarked(h)
      /\ h.headers \subseteq Address /\ Address \subseteq Nat /\ a \in Address
  BY DEF Struct, HeapType, Address
<1>2. /\ rest \in Address /\ rest > a /\ n \in 0 .. Limit /\ r \in 0 .. Limit /\ r > TAG
      /\ r + TAG + size = h.mem[a].realsize /\ End(h, a) \in Nat /\ End(h, a) <= Limit
      /\ i \in Class /\ Fits(n) /\ Fits(r)
  BY <1>1, SplitTypes
<1>3. TAG \in Nat \ {0} /\ size \in Nat \ {0} /\ Limit \in Nat /\ NULL \notin Address
  BY Sizes, ClassOf DEF Limit
<1>4. \A b \in Address : /\ h.mem[b].realsize \in Nat /\ h.mem[b].splitnext \in Link
                         /\ h.mem[b].splitprev \in Link /\ End(h, b) = b + h.mem[b].realsize
                         /\ End(h, b) \in Nat
  <2> SUFFICES ASSUME NEW b \in Address
               PROVE  /\ h.mem[b].realsize \in Nat /\ h.mem[b].splitnext \in Link
                      /\ h.mem[b].splitprev \in Link /\ End(h, b) = b + h.mem[b].realsize
                      /\ End(h, b) \in Nat
    OBVIOUS
  <2> HIDE DEF g, rest, r, i, n, after
  <2>1. /\ h.mem[b].realsize \in 0 .. Limit /\ h.mem[b].splitnext \in Link
        /\ h.mem[b].splitprev \in Link /\ b \in Nat
    BY <1>1, TagIs
  <2> QED
    BY <1>3, <2>1 DEF End
<1>5. /\ a \in Nat /\ rest \in Nat /\ rest + r = End(h, a) /\ a + n = rest /\ rest < End(h, a)
      /\ n > TAG /\ n \in Nat /\ r \in Nat
  BY <1>1, <1>2, <1>3, <1>4
<1>6. rest \notin h.headers /\ after # rest /\ after \in Link
  <2>1. \A b \in h.headers : a < b => End(h, a) <= b
    BY <1>1 DEF Chained
  <2>2. rest \notin h.headers
    BY <1>1, <1>2, <1>5, <2>1
  <2>3. after # NULL => after \in h.headers
    BY <1>1 DEF Chained
  <2> QED
    BY <1>1, <1>2, <1>3, <1>4, <2>2, <2>3
<1>7. /\ g \in HeapType /\ g.headers = h.headers \cup {rest} /\ g.frames = h.frames
      /\ g.intact = Outlasting(h.intact, Units(rest)) \cup {rest}
      /\ \A b \in Address :
            /\ g.mem[b].realsize = IF b = rest THEN r ELSE IF b = a THEN n ELSE h.mem[b].realsize
            /\ g.mem[b].index = IF b = rest THEN i ELSE h.mem[b].index
            /\ g.mem[b].splitprev = IF b = after THEN rest ELSE IF b = rest THEN a ELSE h.mem[b].splitprev
            /\ g.mem[b].splitnext = IF b = rest THEN after ELSE IF b = a THEN rest ELSE h.mem[b].splitnext
  BY <1>1, TiedIs
<1>8. after = h.mem[a].splitnext
  OBVIOUS
<1> HIDE DEF g, rest, r, i, n, after
<1>9. /\ End(g, rest) = End(h, a) /\ End(g, a) = rest
      /\ \A b \in Address : b # rest /\ b # a => End(g, b) = End(h, b)
  BY <1>1, <1>2, <1>3, <1>4, <1>5, <1>7 DEF End
<1>10. /\ h.mem[a].realsize > TAG
       /\ \A b \in h.headers : a < b => End(h, a) <= b
       /\ after # NULL => after = End(h, a) /\ after \in h.headers /\ h.mem[after].splitprev = a
  BY <1>1, <1>8 DEF Chained
<1>11. Bounded(g)
  <2> SUFFICES ASSUME NEW b \in Address PROVE End(g, b) <= Limit /\ Fits(g.mem[b].realsize)
    BY DEF Bounded
  <2>1. CASE b = rest
    BY <1>2, <1>7, <1>9, <2>1
  <2>2. CASE b = a
    BY <1>1, <1>2, <1>3, <1>5, <1>7, <1>9, <2>2
  <2>3. CASE b # rest /\ b # a
    BY <1>1, <1>7, <1>9, <2>3 DEF Bounded
  <2> QED
    BY <2>1, <2>2, <2>3
<1>12. Unmarked(g)
  BY <1>1, <1>7 DEF Unmarked
<1>13. Covered(g)
  <2> SUFFICES ASSUME NEW x \in Address
               PROVE  (\E b \in g.headers : b <= x /\ x < End(g, b)) <=>
                      (\E b \in h.headers : b <= x /\ x < End(h, b))
    BY <1>1, <1>7 DEF Covered
  <2>1. x \in Nat
    BY <1>1
  <2>2. ASSUME NEW b \in g.headers, b <= x, x < End(g, b)
        PROVE  \E c \in h.headers : c <= x /\ x < End(h, c)
    <3>1. CASE b \in {a, rest}
      BY <1>1, <1>2, <1>5, <1>9, <2>1, <2>2, <3>1
    <3>2. CASE b \notin {a, rest}
      BY <1>1, <1>7, <1>9, <2>2, <3>2
    <3> QED
      BY <3>1, <3>2
  <2>3. ASSUME NEW b \in h.headers, b <= x, x < End(h, b)
        PROVE  \E c \in g.headers : c <= x /\ x < End(g, c)
    <3>1. a \in g.headers /\ rest \in g.headers /\ b \in g.headers /\ b \in Address
      BY <1>1, <1>7
    <3>2. CASE b = a
      <4>1. x < rest \/ rest <= x
        BY <1>5, <2>1
      <4> QED
        BY <1>9, <2>3, <3>1, <3>2, <4>1
    <3>3. CASE b # a
      BY <1>6, <1>9, <2>3, <3>1, <3>3
    <3> QED
      BY <3>2, <3>3
  <2> QED
    BY <2>2, <2>3
<1>14. Chained(g)
  <2> SUFFICES ASSUME NEW b \in g.headers
               PROVE  /\ g.mem[b].realsize > TAG
                      /\ \A c \in g.headers : b < c => End(g, b) <= c
                      /\ g.mem[b].splitnext # NULL =>
                            /\ g.mem[b].splitnext = End(g, b) /\ g.mem[b].splitnext \in g.headers
                            /\ g.mem[g.mem[b].splitnext].splitprev = b
                      /\ g.mem[b].splitprev # NULL =>
                            /\ g.mem[b].splitprev \in g.headers
                            /\ g.mem[g.mem[b].splitprev].splitnext = b
    BY DEF Chained
  <2>1. a # rest /\ a # after /\ a \in g.headers /\ rest \in g.headers
    <3>1. End(h, a) # a
      BY <1>1, <1>2, <1>4, <1>5
    <3> QED
      BY <1>1, <1>2, <1>3, <1>5, <1>7, <1>10, <3>1
  <2>2. CASE b = rest
    <3>1. g.mem[b].realsize > TAG
      BY <1>2, <1>7, <2>2
    <3>2. ASSUME NEW c \in g.headers, b < c PROVE End(g, b) <= c
      <4>1. c # rest /\ rest < c
        BY <1>5, <2>2, <3>2
      <4>2. c \in h.headers /\ c \in Nat
        BY <1>1, <1>7, <4>1
      <4>3. a < c
        BY <1>2, <1>5, <4>1, <4>2
      <4> QED
        BY <1>9, <1>10, <2>2, <4>2, <4>3
    <3>3. g.mem[b].splitnext = after /\ g.mem[b].splitprev = a /\ g.mem[a].splitnext = rest
      BY <1>1, <1>2, <1>6, <1>7, <2>1, <2>2
    <3>4. after # NULL => after = End(g, b) /\ after \in g.headers /\ g.mem[after].splitprev = b
      BY <1>1, <1>7, <1>9, <1>10, <2>2
    <3> QED
      BY <2>1, <2>2, <3>1, <3>2, <3>3, <3>4
  <2>3. CASE b = a
    <3>1. g.mem[b].realsize > TAG
      BY <1>1, <1>5, <1>7, <2>1, <2>3
    <3>2. ASSUME NEW c \in g.headers, b < c PROVE End(g, b) <= c
      <4>1. c = rest \/ (c \in h.headers /\ a < c)
        BY <1>7, <2>3, <3>2
      <4>2. c \in Nat
        BY <1>1, <1>5, <4>1
      <4> QED
        BY <1>1, <1>2, <1>5, <1>9, <1>10, <2>3, <4>1, <4>2
    <3>3. g.mem[b].splitnext = rest /\ g.mem[rest].splitprev = a
      BY <1>1, <1>2, <1>6, <1>7, <2>1, <2>3
    <3>4. g.mem[b].splitprev = h.mem[a].splitprev
      BY <1>1, <1>7, <2>1, <2>3
    <3>5. h.mem[a].splitprev # NULL =>
             h.mem[a].splitprev \in h.headers /\ h.mem[h.mem[a].splitprev].splitnext = a
      BY <1>1 DEF Chained
    <3>6. h.mem[a].splitprev # NULL =>
             h.mem[a].splitprev \in g.headers /\ g.mem[h.mem[a].splitprev].splitnext = a
      BY <1>1, <1>6, <1>7, <1>8, <2>1, <3>5
    <3> QED
      BY <1>9, <2>1, <2>3, <3>1, <3>2, <3>3, <3>4, <3>6
  <2>4. CASE b # rest /\ b # a
    <3>1. b \in h.headers /\ b \in Address
      BY <1>1, <1>7, <2>4
    <3>2. /\ h.mem[b].realsize > TAG
          /\ \A c \in h.headers : b < c => End(h, b) <= c
          /\ h.mem[b].splitnext # NULL =>
                /\ h.mem[b].splitnext = End(h, b) /\ h.mem[b].splitnext \in h.headers
                /\ h.mem[h.mem[b].splitnext].splitprev = b
          /\ h.mem[b].splitprev # NULL =>
                /\ h.mem[b].splitprev \in h.headers
                /\ h.mem[h.mem[b].splitprev].splitnext = b
      BY <1>1, <3>1 DEF Chained
    <3>3. ASSUME NEW c \in g.headers, b < c PROVE End(g, b) <= c
      <4>1. CASE c # rest
        BY <1>7, <1>9, <2>4, <3>1, <3>2, <3>3, <4>1
      <4>2. CASE c = rest
        <5>1. b < a \/ a < b
          BY <1>1, <2>4, <3>1
        <5>2. ~ a < b
          BY <1>1, <1>5, <1>10, <3>1, <3>3, <4>2
        <5>3. End(h, b) <= a
          BY <3>2, <5>1, <5>2
        <5> QED
          BY <1>1, <1>4, <1>5, <1>9, <2>4, <3>1, <4>2, <5>3
      <4> QED
        BY <4>1, <4>2
    <3>4. g.mem[b].splitnext = h.mem[b].splitnext
      BY <1>7, <2>4, <3>1
    <3>5. h.mem[b].splitnext # NULL =>
             /\ h.mem[b].splitnext \in g.headers
             /\ g.mem[h.mem[b].splitnext].splitprev = b
      <4> SUFFICES ASSUME h.mem[b].splitnext # NULL
                   PROVE  /\ h.mem[b].splitnext \in g.headers
                          /\ g.mem[h.mem[b].splitnext].splitprev = b
        OBVIOUS
      <4>1. h.mem[b].splitnext # after
        BY <1>10, <2>4, <3>2
      <4> QED
        BY <1>1, <1>6, <1>7, <3>2, <4>1
    <3>6. CASE b = after
      <4>1. g.mem[b].splitprev = rest /\ g.mem[rest].splitnext = b
        BY <1>2, <1>7, <3>1, <3>6
      <4> QED
        BY <1>7, <1>9, <2>1, <2>4, <3>1, <3>2, <3>3, <3>4, <3>5, <4>1
    <3>7. CASE b # after
      <4>1. g.mem[b].splitprev = h.mem[b].splitprev
        BY <1>7, <2>4, <3>1, <3>7
      <4>2. h.mem[b].splitprev # NULL =>
               /\ h.mem[b].splitprev \in g.headers
               /\ g.mem[h.mem[b].splitprev].splitnext = b
        <5> SUFFICES ASSUME h.mem[b].splitprev # NULL
                     PROVE  /\ h.mem[b].splitprev \in g.headers
                            /\ g.mem[h.mem[b].splitprev].splitnext = b
          OBVIOUS
        <5>1. h.mem[b].splitprev # a
          BY <1>8, <3>2, <3>7
        <5> QED
          BY <1>1, <1>6, <1>7, <3>2, <5>1
      <4> QED
        BY <1>7, <1>9, <2>4, <3>1, <3>2, <3>3, <3>4, <3>5, <4>1, <4>2
    <3> QED
      BY <3>6, <3>7
  <2> QED
    BY <2>2, <2>3, <2>4
<1>15. \E base, limit \in Bound : Regions(g, base, limit)
  <2>1. PICK base \in Bound, limit \in Bound : Regions(h, base, limit)
    BY DEF Struct
  <2> DEFINE B == [base EXCEPT ![rest] = base[a]]
             L == [limit EXCEPT ![rest] = limit[a]]
  <2>2. /\ B \in Bound /\ L \in Bound /\ B[rest] = base[a] /\ L[rest] = limit[a]
        /\ \A b \in Address : b # rest => B[b] = base[b] /\ L[b] = limit[b]
    BY <1>1, <1>2 DEF Bound
  <2> HIDE DEF B, L
  <2>3. base[a] * FRAME_SIZE \in Nat /\ limit[a] * FRAME_SIZE \in Nat
    <3>1. base[a] \in Nat /\ limit[a] \in Nat
      BY <1>1 DEF Bound
    <3> QED
      BY <3>1, Multiples
  <2> DEFINE x == base[a] * FRAME_SIZE
             y == limit[a] * FRAME_SIZE
  <2>4. /\ x <= a /\ End(h, a) <= y
        /\ \E s \in Size : limit[a] - base[a] = RegionPages(s + TAG)
        /\ h.mem[a].splitprev = NULL => a = x
        /\ after = NULL => End(h, a) = y
        /\ after # NULL => base[after] = base[a] /\ limit[after] = limit[a]
    BY <1>8, <2>1 DEF Regions
  <2>5. x <= rest /\ rest <= y
    <3>1. x \in Nat /\ y \in Nat
      BY <2>3
    <3> HIDE DEF x, y
    <3> QED
      BY <1>2, <1>5, <2>4, <3>1
  <2>6. Regions(g, B, L)
    <3> SUFFICES ASSUME NEW b \in g.headers
                 PROVE  /\ B[b] * FRAME_SIZE <= b /\ End(g, b) <= L[b] * FRAME_SIZE
                        /\ \E s \in Size : L[b] - B[b] = RegionPages(s + TAG)
                        /\ g.mem[b].splitprev = NULL => b = B[b] * FRAME_SIZE
                        /\ IF g.mem[b].splitnext = NULL THEN End(g, b) = L[b] * FRAME_SIZE
                           ELSE B[g.mem[b].splitnext] = B[b] /\ L[g.mem[b].splitnext] = L[b]
      BY DEF Regions
    <3>1. CASE b = rest
      <4>1. g.mem[b].splitprev = a /\ g.mem[b].splitnext = after /\ a # NULL
        BY <1>1, <1>2, <1>3, <1>6, <1>7, <3>1
      <4>2. B[b] = base[a] /\ L[b] = limit[a]
        BY <2>2, <3>1
      <4>3. after # NULL => B[after] = base[after] /\ L[after] = limit[after]
        BY <1>1, <1>6, <1>10, <2>2
      <4> QED
        BY <1>9, <2>4, <2>5, <3>1, <4>1, <4>2, <4>3
    <3>2. CASE b = a
      <4>1. /\ g.mem[b].splitnext = rest /\ rest # NULL /\ a # rest /\ a # after
        BY <1>1, <1>2, <1>3, <1>4, <1>5, <1>7, <1>10, <3>2
      <4>2. g.mem[b].splitprev = h.mem[a].splitprev
        BY <1>1, <1>7, <3>2, <4>1
      <4>3. B[b] = base[a] /\ L[b] = limit[a]
        BY <1>1, <2>2, <3>2, <4>1
      <4> QED
        BY <1>9, <2>2, <2>4, <2>5, <3>2, <4>1, <4>2, <4>3
    <3>3. CASE b # rest /\ b # a
      <4>1. b \in h.headers /\ b \in Address
        BY <1>1, <1>7, <3>3
      <4>2. /\ g.mem[b].splitnext = h.mem[b].splitnext
            /\ g.mem[b].splitprev = NULL => h.mem[b].splitprev = NULL
        BY <1>2, <1>3, <1>7, <3>3, <4>1
      <4>3. h.mem[b].splitnext # NULL => h.mem[b].splitnext \in h.headers
        BY <1>1, <4>1 DEF Chained
      <4>4. h.mem[b].splitnext # NULL =>
               /\ B[h.mem[b].splitnext] = base[h.mem[b].splitnext]
               /\ L[h.mem[b].splitnext] = limit[h.mem[b].splitnext]
        BY <1>1, <1>6, <2>2, <4>3
      <4>5. B[b] = base[b] /\ L[b] = limit[b] /\ End(g, b) = End(h, b)
        BY <1>9, <2>2, <3>3, <4>1
      <4> QED
        BY <2>1, <4>1, <4>2, <4>4, <4>5 DEF Regions
    <3> QED
      BY <3>1, <3>2, <3>3
  <2> QED
    BY <2>2, <2>6
<1>16. Clean(g)
  <2> SUFFICES ASSUME NEW b \in h.headers PROVE b \in Outlasting(h.intact, Units(rest))
    BY <1>7 DEF Clean, Astray
  <2>1. b \in h.intact
    BY DEF Struct, Clean, Astray
  <2>2. b \in Nat /\ h.mem[b].realsize > TAG /\ End(h, b) = b + h.mem[b].realsize
        /\ (b < a => End(h, b) <= a) /\ (a < b => End(h, a) <= b)
    BY <1>1, <1>4 DEF Chained
  <2>3. h.mem[b].realsize \in Nat /\ a + TAG <= rest /\ rest + TAG <= End(h, a) /\ End(h, a) \in Nat
    <3>1. h.mem[b].realsize \in Nat
      BY <1>1, <1>4
    <3>2. a + TAG <= rest
      BY <1>1, <1>3, <1>5
    <3>3. rest + TAG <= End(h, a) /\ End(h, a) \in Nat
      BY <1>2, <1>3, <1>5
    <3> QED
      BY <3>1, <3>2, <3>3
  <2>4. b + TAG <= rest \/ rest + TAG <= b
    BY <1>3, <1>5, <2>2, <2>3
  <2>5. Units(b) \cap Units(rest) = {}
    BY <1>3, <1>5, <2>2, <2>4 DEF Units
  <2> QED
    BY <2>1, <2>5 DEF Outlasting
<1> QED
  BY <1>2, <1>5, <1>6, <1>7, <1>11, <1>12, <1>13, <1>14, <1>15, <1>16 DEF Struct, g, rest, after

LEMMA SplitStruct ==
    ASSUME NEW h, Struct(h), NEW a \in h.headers, NEW size \in Size
    PROVE  Struct(Split(h, a, size))
<1>1. CASE Splits(h, a, size)
  <2> DEFINE g    == Tied(h, a, size)
             rest == a + TAG + size
             i    == GetIndex(Remainder(h, a, size) - TAG)
  <2>1. h \in HeapType /\ Bounded(h) /\ a \in Address
    BY DEF Struct, HeapType
  <2>2. Struct(g) /\ rest \in Address /\ i \in Class
    BY <1>1, <2>1, TiedStruct, SplitTypes
  <2>3. Split(h, a, size) = Push(g, rest, i)
    BY <1>1, SplitIsPush
  <2>4. g \in HeapType
    BY <2>2 DEF Struct
  <2> HIDE DEF g, rest, i
  <2>5. Same(Push(g, rest, i), g)
    BY <2>2, <2>4, PushIsSame
  <2> QED
    BY <2>2, <2>3, <2>5, SameStruct
<1>2. CASE ~ Splits(h, a, size)
  BY <1>2, SplitIsPush
<1> QED
  BY <1>1, <1>2

\* The smallest of some numbers; induction.
NatLess == OpToRel(<, Nat)

LEMMA LessIs ==
    /\ \A i, j \in Nat : <<i, j>> \in NatLess <=> i < j
    /\ IsWellFoundedOn(NatLess, Nat)
BY NatLessThanWellFounded DEF NatLess, OpToRel

LEMMA Smallest ==
    ASSUME NEW S \in SUBSET Nat, S # {}
    PROVE  \E m \in S : \A n \in S : m <= n
<1>1. PICK m \in S : \A n \in S : ~ (<<n, m>> \in NatLess)
  <2>1. IsWellFoundedOn(NatLess, Nat)
    BY LessIs
  <2> QED
    BY <2>1, WFMin
<1>2. \A n \in S : ~ n < m
  BY <1>1, LessIs
<1> QED
  BY <1>2

LEMMA MinIs ==
    ASSUME NEW S \in SUBSET Nat, S # {}
    PROVE  Min(S) \in S /\ \A n \in S : Min(S) <= n
BY Smallest DEF Min

LEMMA Induction ==
    ASSUME NEW S, 0 \in S, \A n \in Nat : n \in S => n + 1 \in S
    PROVE  Nat \subseteq S
<1> DEFINE T == {n \in Nat : n \notin S}
<1> SUFFICES ASSUME T # {} PROVE FALSE
  OBVIOUS
<1>1. PICK m \in T : \A n \in T : m <= n
  <2>1. T \in SUBSET Nat
    OBVIOUS
  <2> HIDE DEF T
  <2> QED
    BY <2>1, Smallest
<1>2. m \in Nat /\ m # 0 /\ m \notin S
  BY <1>1
<1>3. m - 1 \in Nat /\ m - 1 + 1 = m /\ ~ m <= m - 1
  BY <1>2
<1>4. m - 1 \in S
  BY <1>1, <1>3
<1> QED
  BY <1>2, <1>3, <1>4

\* A new region.
LEMMA RegionIs ==
    ASSUME NEW h \in HeapType, NEW size \in Size, Bases(h, RegionPages(size + TAG)) # {}
    PROVE  LET pages == RegionPages(size + TAG)
               base  == Min(Bases(h, pages))
               g     == NewRegion(h, size).heap
               a     == NewRegion(h, size).tag
           IN
           /\ pages \in Nat \ {0} /\ base \in Nat /\ base + pages <= FRAMES
           /\ base .. base + pages - 1 \cap h.frames = {}
           /\ a = base * FRAME_SIZE /\ a \in Address /\ a \in Nat
           /\ pages * FRAME_SIZE \in 0 .. Limit /\ a + pages * FRAME_SIZE = (base + pages) * FRAME_SIZE
           /\ (base + pages) * FRAME_SIZE <= Limit
           /\ size + TAG <= pages * FRAME_SIZE
           /\ g \in HeapType /\ g.headers = h.headers \cup {a}
           /\ g.frames = h.frames \cup (base .. base + pages - 1)
           /\ g.intact = Outlasting(h.intact, Units(a)) \cup {a}
           /\ g.first = h.first /\ g.complete = h.complete
           /\ g.cut = h.cut /\ g.broken = h.broken
           /\ \A b \in Address : b # a => g.mem[b] = h.mem[b]
           /\ g.mem[a] \in TagType
           /\ g.mem[a].realsize = pages * FRAME_SIZE /\ g.mem[a].index = Allocated
           /\ g.mem[a].prev = NULL /\ g.mem[a].next = NULL
           /\ g.mem[a].splitprev = NULL /\ g.mem[a].splitnext = NULL
<1> DEFINE pages == RegionPages(size + TAG)
           base  == Min(Bases(h, pages))
           a     == base * FRAME_SIZE
           n     == pages * FRAME_SIZE
           new   == [NoTag EXCEPT !.realsize = n]
           f     == h.frames \cup (base .. base + pages - 1)
           s     == h.headers \cup {a}
           w     == Outlasting(h.intact, Units(a)) \cup {a}
           m     == [h.mem EXCEPT ![a] = new]
           g     == [h EXCEPT !.frames = f, !.headers = s, !.intact = w, !.mem = m]
<1>1. pages \in Nat \ {0} /\ size + TAG <= pages * FRAME_SIZE
  <2>1. size + TAG \in Nat
    BY Sizes
  <2> QED
    BY <2>1, RegionSize
<1>2. base \in Bases(h, pages)
  <2>1. Bases(h, pages) \in SUBSET Nat
    BY DEF Bases
  <2> HIDE DEF pages
  <2>2. Bases(h, pages) # {}
    BY DEF pages
  <2> QED
    BY <2>1, <2>2, MinIs
<1>3. NewRegion(h, size) = [heap |-> g, tag |-> a]
  BY DEF NewRegion
<1> HIDE DEF pages, base
<1>4. base \in Nat /\ base + pages <= FRAMES /\ base .. base + pages - 1 \cap h.frames = {}
  BY <1>1, <1>2, Sizes DEF Bases
<1>5. a \in Nat /\ n \in Nat /\ a + n = (base + pages) * FRAME_SIZE /\ n > 0
  <2>1. n >= FRAME_SIZE
    <3>1. 0 \in Int /\ pages \in Int /\ 0 < pages /\ 0 * FRAME_SIZE = 0
      BY <1>1, Sizes
    <3>2. \A i, j \in Int : i < j => i * FRAME_SIZE + FRAME_SIZE <= j * FRAME_SIZE
      BY Multiples
    <3>3. 0 * FRAME_SIZE + FRAME_SIZE <= n
      BY <3>1, <3>2, Zenon
    <3> QED
      BY <3>1, <3>3, Sizes
  <2>2. a \in Nat /\ n \in Nat
    BY <1>1, <1>4, Multiples
  <2>3. a + n = (base + pages) * FRAME_SIZE
    <3>1. base \in Int /\ pages \in Int
      BY <1>1, <1>4
    <3> QED
      BY <3>1, Multiples
  <2> HIDE DEF n
  <2> QED
    BY <2>1, <2>2, <2>3, Sizes
<1>6. (base + pages) * FRAME_SIZE <= Limit
  <2>1. \A i, j \in Int : i < j => i * FRAME_SIZE + FRAME_SIZE <= j * FRAME_SIZE
    BY Multiples
  <2>2. base + pages \in Int /\ FRAMES \in Int /\ (base + pages = FRAMES \/ base + pages < FRAMES)
    BY <1>1, <1>4, Sizes
  <2>3. base + pages < FRAMES => (base + pages) * FRAME_SIZE + FRAME_SIZE <= Limit
    BY <2>1, <2>2, Zenon DEF Limit
  <2>4. (base + pages) * FRAME_SIZE \in Int /\ Limit \in Int /\ FRAME_SIZE \in Nat
    BY <2>2, Sizes, Multiples DEF Limit
  <2>5. base + pages = FRAMES => (base + pages) * FRAME_SIZE = Limit
    BY DEF Limit
  <2> DEFINE x == (base + pages) * FRAME_SIZE
  <2> HIDE DEF x
  <2>6. x <= Limit
    BY <2>2, <2>3, <2>4, <2>5 DEF x
  <2> QED
    BY <2>6 DEF x
<1> HIDE DEF a, n
<1>7. a \in Address /\ n \in 0 .. Limit /\ Limit \in Nat
  <2> DEFINE x == (base + pages) * FRAME_SIZE
  <2>1. x = a + n /\ x <= Limit /\ Limit \in Nat
    BY <1>5, <1>6, Sizes DEF Limit
  <2> HIDE DEF x
  <2>2. a < Limit /\ n <= Limit
    BY <1>5, <2>1
  <2> QED
    BY <1>5, <2>1, <2>2 DEF Address, Limit
<1>8. /\ new \in TagType /\ new.realsize = n /\ new.index = Allocated /\ new.prev = NULL
      /\ new.next = NULL /\ new.splitprev = NULL /\ new.splitnext = NULL
  BY <1>7, ClassOf DEF NoTag, TagType
<1> HIDE DEF new
<1>9. m \in [Address -> TagType] /\ m[a] = new /\ \A b \in Address : b # a => m[b] = h.mem[b]
  BY <1>7, <1>8 DEF HeapType
<1>10. f \in SUBSET (0 .. FRAMES - 1) /\ s \in SUBSET Address /\ w \in SUBSET Address
  BY <1>1, <1>4, <1>7, Sizes DEF HeapType, Outlasting
<1> HIDE DEF m
<1>11. /\ f = h.frames \cup (base .. base + pages - 1) /\ s = h.headers \cup {a}
       /\ w = Outlasting(h.intact, Units(a)) \cup {a}
  OBVIOUS
<1> HIDE DEF f, s, w
<1>12. /\ g \in HeapType /\ g.headers = s /\ g.frames = f /\ g.mem = m
       /\ g.intact = w /\ g.first = h.first /\ g.complete = h.complete
       /\ g.cut = h.cut /\ g.broken = h.broken
  BY <1>9, <1>10 DEF HeapType
<1>13. NewRegion(h, size).heap = g /\ NewRegion(h, size).tag = a
  BY <1>3
<1> HIDE DEF g
<1>14. g.mem[a] = new /\ \A b \in Address : b # a => g.mem[b] = h.mem[b]
  BY <1>9, <1>12
<1> QED
  BY <1>1, <1>4, <1>5, <1>6, <1>7, <1>8, <1>11, <1>12, <1>13, <1>14 DEF pages, base, a, n

LEMMA RegionStruct ==
    ASSUME NEW h, Struct(h), NEW size \in Size, Bases(h, RegionPages(size + TAG)) # {}
    PROVE  /\ Struct(NewRegion(h, size).heap)
           /\ NewRegion(h, size).tag \notin h.headers
<1> DEFINE pages == RegionPages(size + TAG)
           lo == Min(Bases(h, pages))
           hi == lo + pages
           g  == NewRegion(h, size).heap
           a  == NewRegion(h, size).tag
           n  == pages * FRAME_SIZE
<1>1. /\ h \in HeapType /\ Bounded(h) /\ Chained(h) /\ Covered(h) /\ Unmarked(h)
      /\ h.headers \subseteq Address /\ Address \subseteq Nat
  BY DEF Struct, HeapType, Address
<1>2. /\ pages \in Nat \ {0} /\ lo \in Nat /\ hi <= FRAMES /\ (lo .. hi - 1) \cap h.frames = {}
      /\ a = lo * FRAME_SIZE /\ a \in Address /\ a \in Nat
      /\ n \in 0 .. Limit /\ a + n = hi * FRAME_SIZE /\ a + n <= Limit /\ size + TAG <= n
      /\ g \in HeapType /\ g.headers = h.headers \cup {a}
      /\ g.frames = h.frames \cup (lo .. hi - 1)
      /\ g.intact = Outlasting(h.intact, Units(a)) \cup {a}
      /\ \A b \in Address : b # a => g.mem[b] = h.mem[b]
      /\ g.mem[a].realsize = n /\ g.mem[a].index = Allocated
      /\ g.mem[a].splitprev = NULL /\ g.mem[a].splitnext = NULL
  BY <1>1, RegionIs
<1>3. n = pages * FRAME_SIZE /\ hi = lo + pages /\ pages = RegionPages(size + TAG)
  OBVIOUS
<1> HIDE DEF pages, lo, hi, g, a, n
<1>4. /\ TAG \in Nat \ {0} /\ size \in Nat \ {0} /\ Limit \in Nat /\ NULL \notin Address
      /\ hi \in Nat /\ n \in Nat /\ FRAMES \in Nat
  BY <1>2, <1>3, Sizes, ClassOf DEF Limit
<1>5. \A b \in Address : /\ h.mem[b].realsize \in Nat /\ End(h, b) = b + h.mem[b].realsize
                         /\ End(h, b) \in Nat
  <2> SUFFICES ASSUME NEW b \in Address
               PROVE  /\ h.mem[b].realsize \in Nat /\ End(h, b) = b + h.mem[b].realsize
                      /\ End(h, b) \in Nat
    OBVIOUS
  <2>1. h.mem[b].realsize \in 0 .. Limit /\ b \in Nat
    BY <1>1, TagIs
  <2> QED
    BY <1>4, <2>1 DEF End
<1>6. \A x \in Address : x \div FRAME_SIZE \in lo .. hi - 1 <=> a <= x /\ x < a + n
  <2> SUFFICES ASSUME NEW x \in Address
               PROVE  x \div FRAME_SIZE \in lo .. hi - 1 <=> a <= x /\ x < a + n
    OBVIOUS
  <2>1. x \in Nat
    BY <1>1
  <2>2. x \div FRAME_SIZE \in lo .. hi - 1 <=> lo * FRAME_SIZE <= x /\ x < hi * FRAME_SIZE
    BY <1>2, <1>4, <2>1, FramesBetween
  <2> QED
    BY <1>2, <2>2
<1>7. End(g, a) = a + n /\ \A b \in Address : b # a => End(g, b) = End(h, b)
  BY <1>2 DEF End
<1>8. ASSUME NEW b \in h.headers
      PROVE  End(h, b) <= a \/ a + n <= b
  <2> SUFFICES ASSUME a < End(h, b), b < a + n PROVE FALSE
    <3>1. End(h, b) \in Nat /\ b \in Nat
      BY <1>1, <1>5
    <3>2. a \in Nat /\ n \in Nat
      BY <1>2, <1>4
    <3> QED
      BY <3>1, <3>2
  <2> DEFINE x == IF a <= b THEN b ELSE a
  <2>1. b \in Nat /\ b \in Address /\ End(h, b) > b
    <3>1. b \in Nat /\ b \in Address /\ h.mem[b].realsize > TAG
      BY <1>1 DEF Chained
    <3> QED
      BY <1>4, <1>5, <3>1
  <2>2. x \in Address /\ b <= x /\ x < End(h, b) /\ a <= x /\ x < a + n
    <3>1. n > 0
      BY <1>2, <1>4
    <3> QED
      BY <1>1, <1>2, <1>4, <1>5, <2>1, <3>1
  <2> HIDE DEF x
  <2>3. x \div FRAME_SIZE \in h.frames
    BY <1>1, <2>2 DEF Covered
  <2>4. x \div FRAME_SIZE \in lo .. hi - 1
    BY <1>6, <2>2
  <2> QED
    BY <1>2, <2>3, <2>4
<1>9. a \notin h.headers
  <2>1. \A b \in h.headers : End(h, b) > b
    <3> SUFFICES ASSUME NEW b \in h.headers PROVE End(h, b) > b
      OBVIOUS
    <3>1. b \in Nat /\ b \in Address /\ h.mem[b].realsize > TAG
      BY <1>1 DEF Chained
    <3> QED
      BY <1>4, <1>5, <3>1
  <2>2. n > 0
    BY <1>2, <1>4
  <2> QED
    BY <1>2, <1>4, <1>5, <1>8, <2>1, <2>2
<1>10. Bounded(g)
  <2> SUFFICES ASSUME NEW b \in Address PROVE End(g, b) <= Limit /\ Fits(g.mem[b].realsize)
    BY DEF Bounded
  <2>1. CASE b = a
    <3>1. n <= RegionPages(size + TAG) * FRAME_SIZE
      BY <1>3, <1>4
    <3> QED
      BY <1>2, <1>7, <2>1, <3>1 DEF Fits
  <2>2. CASE b # a
    BY <1>1, <1>2, <1>7, <2>2 DEF Bounded
  <2> QED
    BY <2>1, <2>2
<1>11. Unmarked(g)
  BY <1>1, <1>2 DEF Unmarked
<1>12. Chained(g)
  <2> SUFFICES ASSUME NEW b \in g.headers
               PROVE  /\ g.mem[b].realsize > TAG
                      /\ \A c \in g.headers : b < c => End(g, b) <= c
                      /\ g.mem[b].splitnext # NULL =>
                            /\ g.mem[b].splitnext = End(g, b) /\ g.mem[b].splitnext \in g.headers
                            /\ g.mem[g.mem[b].splitnext].splitprev = b
                      /\ g.mem[b].splitprev # NULL =>
                            /\ g.mem[b].splitprev \in g.headers
                            /\ g.mem[g.mem[b].splitprev].splitnext = b
    BY DEF Chained
  <2>1. CASE b = a
    <3>1. ASSUME NEW c \in g.headers, a < c PROVE a + n <= c
      <4>1. c \in h.headers /\ c \in Nat
        <5>1. c # a
          BY <1>2, <3>1
        <5> QED
          BY <1>1, <1>2, <5>1
      <4>2. End(h, c) > c
        <5>1. c \in Address /\ h.mem[c].realsize > TAG
          BY <1>1, <4>1 DEF Chained
        <5> QED
          BY <1>4, <1>5, <4>1, <5>1
      <4> QED
        BY <1>1, <1>2, <1>4, <1>5, <1>8, <3>1, <4>1, <4>2
    <3>2. n > TAG
      BY <1>2, <1>4
    <3> QED
      BY <1>2, <1>7, <2>1, <3>1, <3>2
  <2>2. CASE b # a
    <3>1. b \in h.headers /\ b \in Address /\ g.mem[b] = h.mem[b] /\ End(g, b) = End(h, b)
      BY <1>1, <1>2, <1>7, <2>2
    <3>2. /\ h.mem[b].realsize > TAG
          /\ \A c \in h.headers : b < c => End(h, b) <= c
          /\ h.mem[b].splitnext # NULL =>
                /\ h.mem[b].splitnext = End(h, b) /\ h.mem[b].splitnext \in h.headers
                /\ h.mem[h.mem[b].splitnext].splitprev = b
          /\ h.mem[b].splitprev # NULL =>
                /\ h.mem[b].splitprev \in h.headers
                /\ h.mem[h.mem[b].splitprev].splitnext = b
      BY <1>1, <3>1 DEF Chained
    <3>3. b < a => End(h, b) <= a
      BY <1>1, <1>2, <1>4, <1>5, <1>8, <3>1
    <3>4. \A c \in h.headers : g.mem[c] = h.mem[c] /\ c \in g.headers
      BY <1>1, <1>2, <1>9
    <3> QED
      BY <1>2, <3>1, <3>2, <3>3, <3>4
  <2> QED
    BY <2>1, <2>2
<1>13. Covered(g)
  <2> SUFFICES ASSUME NEW x \in Address
               PROVE  x \div FRAME_SIZE \in g.frames <=> \E b \in g.headers : b <= x /\ x < End(g, b)
    BY DEF Covered
  <2>1. x \div FRAME_SIZE \in h.frames <=> \E b \in h.headers : b <= x /\ x < End(h, b)
    BY <1>1 DEF Covered
  <2>2. x \div FRAME_SIZE \in lo .. hi - 1 <=> a <= x /\ x < End(g, a)
    BY <1>6, <1>7
  <2>3. \A b \in h.headers : End(g, b) = End(h, b)
    BY <1>1, <1>7, <1>9
  <2> QED
    BY <1>2, <2>1, <2>2, <2>3
<1>14. \E base, limit \in Bound : Regions(g, base, limit)
  <2>1. PICK base \in Bound, limit \in Bound : Regions(h, base, limit)
    BY DEF Struct
  <2> DEFINE B == [base EXCEPT ![a] = lo]
             L == [limit EXCEPT ![a] = hi]
  <2>2. /\ B \in Bound /\ L \in Bound /\ B[a] = lo /\ L[a] = hi
        /\ \A b \in Address : b # a => B[b] = base[b] /\ L[b] = limit[b]
    BY <1>2, <1>3, <1>4 DEF Bound
  <2> HIDE DEF B, L
  <2>3. Regions(g, B, L)
    <3> SUFFICES ASSUME NEW b \in g.headers
                 PROVE  /\ B[b] * FRAME_SIZE <= b /\ End(g, b) <= L[b] * FRAME_SIZE
                        /\ \E s \in Size : L[b] - B[b] = RegionPages(s + TAG)
                        /\ g.mem[b].splitprev = NULL => b = B[b] * FRAME_SIZE
                        /\ IF g.mem[b].splitnext = NULL THEN End(g, b) = L[b] * FRAME_SIZE
                           ELSE B[g.mem[b].splitnext] = B[b] /\ L[g.mem[b].splitnext] = L[b]
      BY DEF Regions
    <3>1. CASE b = a
      <4>1. L[b] - B[b] = RegionPages(size + TAG)
        BY <1>2, <1>3, <2>2, <3>1
      <4>2. B[b] * FRAME_SIZE = a /\ L[b] * FRAME_SIZE = a + n
        BY <1>2, <2>2, <3>1
      <4> QED
        BY <1>2, <1>4, <1>7, <3>1, <4>1, <4>2
    <3>2. CASE b # a
      <4>1. b \in h.headers /\ b \in Address /\ g.mem[b] = h.mem[b] /\ End(g, b) = End(h, b)
        BY <1>1, <1>2, <1>7, <3>2
      <4>2. h.mem[b].splitnext # NULL => h.mem[b].splitnext \in h.headers
        BY <1>1, <4>1 DEF Chained
      <4>3. h.mem[b].splitnext # NULL =>
               /\ B[h.mem[b].splitnext] = base[h.mem[b].splitnext]
               /\ L[h.mem[b].splitnext] = limit[h.mem[b].splitnext]
        BY <1>1, <1>9, <2>2, <4>2
      <4>4. B[b] = base[b] /\ L[b] = limit[b]
        BY <2>2, <3>2, <4>1
      <4> QED
        BY <2>1, <4>1, <4>3, <4>4 DEF Regions
    <3> QED
      BY <3>1, <3>2
  <2> QED
    BY <2>2, <2>3
<1>15. Clean(g)
  <2> SUFFICES ASSUME NEW b \in h.headers PROVE b \in Outlasting(h.intact, Units(a))
    BY <1>2 DEF Clean, Astray
  <2>1. b \in h.intact
    BY DEF Struct, Clean, Astray
  <2>2. b \in Nat /\ h.mem[b].realsize > TAG /\ End(h, b) = b + h.mem[b].realsize
        /\ h.mem[b].realsize \in Nat
    BY <1>1, <1>5 DEF Chained
  <2>3. b + TAG <= a \/ a + TAG <= b
    BY <1>2, <1>4, <1>8, <2>2
  <2>4. Units(b) \cap Units(a) = {}
    BY <1>2, <1>4, <2>2, <2>3 DEF Units
  <2> QED
    BY <2>1, <2>4 DEF Outlasting
<1> QED
  BY <1>2, <1>9, <1>10, <1>11, <1>12, <1>13, <1>14, <1>15 DEF Struct, g, a

\* A region that is given back.
LEMMA GiveBackStruct ==
    ASSUME NEW h, Struct(h), NEW a \in h.headers,
           h.mem[a].splitprev = NULL, h.mem[a].splitnext = NULL
    PROVE  LET g == GiveBack(h, a) IN
           /\ Struct(g)
           /\ g.headers = h.headers \ {a} /\ g.complete = h.complete
           /\ g.cut = h.cut /\ g.first = Gone(h, a).first /\ g.mem = Gone(h, a).mem
           /\ g.broken = Gone(h, a).broken
<1> DEFINE k == Gone(h, a)
           region == a \div FRAME_SIZE .. a \div FRAME_SIZE + RegionPages(h.mem[a].realsize) - 1
           f == k.frames \ region
           s == k.headers \ {a}
           w == {b \in k.intact : \A x \in Units(b) : x \div FRAME_SIZE \notin region}
           g == [k EXCEPT !.frames = f, !.headers = s, !.intact = w]
<1>1. /\ h \in HeapType /\ Bounded(h) /\ Chained(h) /\ Covered(h) /\ Unmarked(h)
      /\ h.headers \subseteq Address /\ Address \subseteq Nat /\ a \in Address /\ a \in Nat
  BY DEF Struct, HeapType, Address
<1>2. GiveBack(h, a) = g
  BY DEF GiveBack, Gone
<1>3. /\ k \in HeapType /\ k.headers = h.headers /\ k.frames = h.frames /\ k.intact = h.intact
      /\ k.complete = h.complete /\ k.cut = h.cut
      /\ \A b \in Address :
            /\ k.mem[b].index = IF b = a THEN Allocated ELSE h.mem[b].index
            /\ k.mem[b].realsize = h.mem[b].realsize
            /\ k.mem[b].splitprev = h.mem[b].splitprev
            /\ k.mem[b].splitnext = h.mem[b].splitnext
  BY <1>1, GoneIs DEF Around
<1>4. /\ f = h.frames \ region /\ s = h.headers \ {a} /\ k = Gone(h, a)
      /\ w = {b \in h.intact : \A x \in Units(b) : x \div FRAME_SIZE \notin region}
  BY <1>3
<1> HIDE DEF k, region
<1>5. f \in SUBSET (0 .. FRAMES - 1) /\ s \in SUBSET Address /\ w \in SUBSET Address
  BY <1>3 DEF HeapType
<1> HIDE DEF f, s, w
<1>6. /\ g \in HeapType /\ g.headers = s /\ g.frames = f /\ g.mem = k.mem
      /\ g.intact = w /\ g.first = k.first /\ g.complete = k.complete
      /\ g.cut = k.cut /\ g.broken = k.broken
  BY <1>3, <1>5 DEF HeapType
<1> HIDE DEF g
<1>7. \A b \in Address : End(g, b) = End(h, b)
  BY <1>3, <1>6 DEF End
<1>8. \A x \in Address : x \div FRAME_SIZE \in region <=> a <= x /\ x < End(h, a)
  <2>1. PICK base \in Bound, limit \in Bound : Regions(h, base, limit)
    BY DEF Struct
  <2> DEFINE lo == base[a]
             hi == limit[a]
  <2>2. /\ lo \in Nat /\ hi \in Nat /\ a = lo * FRAME_SIZE /\ End(h, a) = hi * FRAME_SIZE
        /\ \E t \in Size : hi - lo = RegionPages(t + TAG)
    BY <1>1, <2>1 DEF Regions, Bound
  <2> HIDE DEF lo, hi
  <2>3. PICK t \in Size : hi - lo = RegionPages(t + TAG)
    BY <2>2
  <2>4. hi - lo \in Nat \ {0} /\ hi - lo >= MEMORY_MIN_FRAMES
    <3>1. t + TAG \in Nat
      BY Sizes
    <3> QED
      BY <2>3, <3>1, RegionSize
  <2>5. h.mem[a].realsize = (hi - lo) * FRAME_SIZE
    <3>1. (lo + (hi - lo)) * FRAME_SIZE = lo * FRAME_SIZE + (hi - lo) * FRAME_SIZE
      <4>1. lo \in Int /\ hi - lo \in Int
        BY <2>2
      <4> QED
        BY <4>1, Multiples
    <3>2. lo + (hi - lo) = hi
      BY <2>2
    <3>3. hi * FRAME_SIZE = a + (hi - lo) * FRAME_SIZE
      BY <2>2, <3>1, <3>2
    <3>4. (hi - lo) * FRAME_SIZE \in Nat
      BY <2>4, Multiples
    <3> DEFINE x == (hi - lo) * FRAME_SIZE
    <3>5. h.mem[a].realsize \in 0 .. Limit
      BY <1>1, TagIs
    <3>6. Limit \in Nat
      BY Sizes DEF Limit
    <3>7. a + h.mem[a].realsize = a + x
      BY <2>2, <3>3 DEF End
    <3>8. x \in Nat
      BY <3>4
    <3> HIDE DEF x
    <3>9. h.mem[a].realsize = x
      BY <1>1, <3>5, <3>6, <3>7, <3>8
    <3> QED
      BY <3>9 DEF x
  <2>6. RegionPages(h.mem[a].realsize) = hi - lo
    BY <2>4, <2>5, RegionSize
  <2>7. a \div FRAME_SIZE = lo
    BY <2>2, Multiples
  <2>8. region = lo .. hi - 1
    BY <2>2, <2>6, <2>7 DEF region
  <2> SUFFICES ASSUME NEW x \in Address
               PROVE  x \div FRAME_SIZE \in lo .. hi - 1 <=> lo * FRAME_SIZE <= x /\ x < hi * FRAME_SIZE
    BY <2>2, <2>8
  <2> QED
    BY <1>1, <2>2, FramesBetween
<1>9. Bounded(g)
  BY <1>1, <1>3, <1>6, <1>7 DEF Bounded
<1>10. Unmarked(g)
  BY <1>1, <1>3, <1>4, <1>6 DEF Unmarked
<1>11. \A b \in g.headers : b \in h.headers /\ b \in Address /\ b # a /\ b # NULL
  BY <1>1, <1>4, <1>6, ClassOf
<1>12. Chained(g)
  <2> SUFFICES ASSUME NEW b \in g.headers
               PROVE  /\ g.mem[b].realsize > TAG
                      /\ \A c \in g.headers : b < c => End(g, b) <= c
                      /\ g.mem[b].splitnext # NULL =>
                            /\ g.mem[b].splitnext = End(g, b) /\ g.mem[b].splitnext \in g.headers
                            /\ g.mem[g.mem[b].splitnext].splitprev = b
                      /\ g.mem[b].splitprev # NULL =>
                            /\ g.mem[b].splitprev \in g.headers
                            /\ g.mem[g.mem[b].splitprev].splitnext = b
    BY DEF Chained
  <2>1. b \in h.headers /\ b \in Address /\ b # NULL
    BY <1>11
  <2>2. /\ h.mem[b].realsize > TAG
        /\ \A c \in h.headers : b < c => End(h, b) <= c
        /\ h.mem[b].splitnext # NULL =>
              /\ h.mem[b].splitnext = End(h, b) /\ h.mem[b].splitnext \in h.headers
              /\ h.mem[h.mem[b].splitnext].splitprev = b
        /\ h.mem[b].splitprev # NULL =>
              /\ h.mem[b].splitprev \in h.headers
              /\ h.mem[h.mem[b].splitprev].splitnext = b
    BY <1>1, <2>1 DEF Chained
  <2>3. h.mem[b].splitnext # a /\ h.mem[b].splitprev # a
    BY <1>1, <2>1, <2>2, ClassOf
  <2> QED
    BY <1>1, <1>3, <1>4, <1>6, <1>7, <1>11, <2>1, <2>2, <2>3
<1>13. Covered(g)
  <2> SUFFICES ASSUME NEW x \in Address
               PROVE  x \div FRAME_SIZE \in g.frames <=> \E b \in g.headers : b <= x /\ x < End(g, b)
    BY DEF Covered
  <2>1. x \div FRAME_SIZE \in h.frames <=> \E b \in h.headers : b <= x /\ x < End(h, b)
    BY <1>1 DEF Covered
  <2>2. \A b \in g.headers : b <= x /\ x < End(h, b) => ~ (a <= x /\ x < End(h, a))
    <3> SUFFICES ASSUME NEW b \in g.headers, b <= x, x < End(h, b), a <= x, x < End(h, a)
                 PROVE  FALSE
      OBVIOUS
    <3>1. b \in h.headers /\ b \in Nat /\ x \in Nat /\ b # a /\ b \in Address
      BY <1>1, <1>11
    <3>2. (a < b => End(h, a) <= b) /\ (b < a => End(h, b) <= a)
      BY <1>1, <3>1 DEF Chained
    <3>3. End(h, a) \in Int /\ End(h, b) \in Int
      <4>1. h.mem[a].realsize \in 0 .. Limit /\ h.mem[b].realsize \in 0 .. Limit
        BY <1>1, <3>1, TagIs
      <4>2. Limit \in Nat
        BY Sizes DEF Limit
      <4> QED
        BY <1>1, <3>1, <4>1, <4>2 DEF End
    <3> QED
      BY <1>1, <3>1, <3>2, <3>3
  <2> QED
    BY <1>4, <1>6, <1>7, <1>8, <1>11, <2>1, <2>2
<1>14. ASSUME NEW base \in Bound, NEW limit \in Bound, Regions(h, base, limit)
       PROVE  Regions(g, base, limit)
  BY <1>3, <1>6, <1>7, <1>11, <1>14 DEF Regions
<1>15. Clean(g)
  <2>1. \A b \in g.headers : b \in h.intact
    BY <1>11 DEF Struct, Clean, Astray
  <2> SUFFICES ASSUME NEW b \in g.headers, NEW x \in Units(b)
               PROVE  x \div FRAME_SIZE \notin region
    BY <1>4, <1>6, <2>1 DEF Clean, Astray
  <2>2. b \in h.headers /\ b \in Nat /\ b \in Address /\ b # a
    BY <1>1, <1>11
  <2>3. h.mem[b].realsize > TAG /\ (b < a => End(h, b) <= a) /\ (a < b => End(h, a) <= b)
        /\ End(h, b) <= Limit
    BY <1>1, <2>2 DEF Chained, Bounded
  <2>4. /\ h.mem[b].realsize \in 0 .. Limit /\ h.mem[a].realsize \in 0 .. Limit
        /\ Limit \in Nat /\ TAG \in Nat
        /\ End(h, a) = a + h.mem[a].realsize /\ End(h, b) = b + h.mem[b].realsize
    BY <1>1, <2>2, TagIs, Sizes DEF End, Limit
  <2>5. x \in Nat /\ b <= x /\ x < b + TAG
    BY <2>2, <2>4 DEF Units
  <2>6. x \in 0 .. Limit - 1 /\ ~ (a <= x /\ x < End(h, a))
    BY <1>1, <2>2, <2>3, <2>4, <2>5
  <2>7. x \in Address
    BY <2>6 DEF Address, Limit
  <2> QED
    BY <1>8, <2>2, <2>6, <2>7
<1>16. Struct(g)
  BY <1>6, <1>9, <1>10, <1>12, <1>13, <1>14, <1>15 DEF Struct
<1> QED
  BY <1>2, <1>3, <1>4, <1>6, <1>16

-----------------------------------------------------------------------------
(* Free neighbours, and what the program holds.                            *)

\* But for one block x in hand, free blocks are in the class of their size and
\* have no free neighbour.
Merged(h, x) ==
    \A a \in h.headers \ {x} : h.mem[a].index # Allocated =>
        /\ h.mem[a].index = GetIndex(h.mem[a].realsize - TAG)
        /\ h.mem[a].splitnext # NULL /\ h.mem[a].splitnext # x
           => h.mem[h.mem[a].splitnext].index = Allocated

Held(h, f) ==
    /\ DOMAIN f \subseteq h.headers
    /\ \A b \in DOMAIN f : /\ h.mem[b].index = Allocated /\ f[b] \in Nat \ {0}
                           /\ TAG + f[b] <= h.mem[b].realsize

\* The two ends of what free's loops do.
LeftDone(h, a)  == ~ IsFree(h, h.mem[a].splitprev)
RightDone(h, a) == ~ IsFree(h, h.mem[a].splitnext)

\* The fields of a Join, for blocks that are neighbours.
LEMMA JoinFields ==
    ASSUME NEW h, Struct(h), NEW left \in h.headers, NEW right \in h.headers,
           h.mem[left].splitnext = right
    PROVE  LET g     == Join(h, left, right)
               after == h.mem[right].splitnext
           IN
           /\ g.headers = h.headers \ {right} /\ g.frames = h.frames /\ g.intact = h.intact
           /\ g.complete = h.complete /\ g.cut = h.cut
           /\ (g.broken = "no" => h.broken = "no")
           /\ left \in Address /\ right \in Address /\ left # right /\ left # after
           /\ \A b \in Address :
                 /\ g.mem[b].realsize = IF b = left THEN h.mem[left].realsize + h.mem[right].realsize
                                        ELSE h.mem[b].realsize
                 /\ g.mem[b].index = IF b = right THEN Allocated ELSE h.mem[b].index
                 /\ g.mem[b].splitprev = IF b = after THEN left ELSE h.mem[b].splitprev
                 /\ g.mem[b].splitnext = IF b = left THEN after ELSE h.mem[b].splitnext
<1>1. /\ h \in HeapType /\ left \in Address /\ right \in Address /\ Bounded(h) /\ Chained(h)
      /\ Address \subseteq Nat /\ Limit \in Nat /\ TAG \in Nat \ {0} /\ NULL \notin Address
  BY Sizes, ClassOf DEF Struct, HeapType, Address, Limit
<1>2. h.mem[left].realsize \in 0 .. Limit /\ h.mem[right].realsize \in 0 .. Limit
  BY <1>1, TagIs
<1>3. right = End(h, left) /\ End(h, right) <= Limit /\ h.mem[left].realsize > TAG
      /\ h.mem[right].realsize > TAG
  BY <1>1, ClassOf DEF Chained, Bounded
<1>4. right = left + h.mem[left].realsize /\ right + h.mem[right].realsize <= Limit
  BY <1>3 DEF End
<1>5. left # right /\ h.mem[left].realsize + h.mem[right].realsize <= Limit
  BY <1>1, <1>2, <1>3, <1>4
<1>6. left # h.mem[right].splitnext
  <2>1. h.mem[right].splitnext # NULL => h.mem[right].splitnext = right + h.mem[right].realsize
    BY <1>1 DEF Chained, End
  <2> QED
    BY <1>1, <1>2, <1>3, <1>4, <2>1
<1> QED
  BY <1>1, <1>5, <1>6, JoinIs

LEMMA JoinMerged ==
    ASSUME NEW h, Struct(h), NEW left \in h.headers, NEW right \in h.headers,
           h.mem[left].splitnext = right, NEW x \in {NULL, left}, Merged(h, x)
    PROVE  Merged(Join(h, left, right), left)
<1> DEFINE g == Join(h, left, right)
<1>1. /\ g.headers = h.headers \ {right} /\ left # right
      /\ \A b \in Address :
            /\ b # left => g.mem[b].realsize = h.mem[b].realsize
            /\ g.mem[b].index = IF b = right THEN Allocated ELSE h.mem[b].index
            /\ b # left => g.mem[b].splitnext = h.mem[b].splitnext
  BY JoinFields
<1>2. h.headers \subseteq Address /\ Chained(h) /\ NULL \notin Address
  BY ClassOf DEF Struct, HeapType
<1> HIDE DEF g
<1> SUFFICES ASSUME NEW a \in g.headers \ {left}, g.mem[a].index # Allocated
             PROVE  /\ g.mem[a].index = GetIndex(g.mem[a].realsize - TAG)
                    /\ g.mem[a].splitnext # NULL /\ g.mem[a].splitnext # left
                       => g.mem[g.mem[a].splitnext].index = Allocated
  BY DEF Merged, g
<1>3. /\ a \in h.headers /\ a # left /\ a \in Address /\ a # right /\ a # NULL
      /\ g.mem[a].index = h.mem[a].index /\ g.mem[a].realsize = h.mem[a].realsize
      /\ g.mem[a].splitnext = h.mem[a].splitnext
  BY <1>1, <1>2
<1>4. /\ h.mem[a].index = GetIndex(h.mem[a].realsize - TAG)
      /\ h.mem[a].splitnext # NULL /\ h.mem[a].splitnext # left
         => h.mem[h.mem[a].splitnext].index = Allocated
  BY <1>2, <1>3 DEF Merged
<1>5. h.mem[a].splitnext # NULL => h.mem[a].splitnext \in Address
  BY <1>2, <1>3 DEF Chained
<1> QED
  BY <1>1, <1>3, <1>4, <1>5

LEMMA JoinHeld ==
    ASSUME NEW h, Struct(h), NEW left \in h.headers, NEW right \in h.headers,
           h.mem[left].splitnext = right, NEW f, Held(h, f), left \notin DOMAIN f, right \notin DOMAIN f
    PROVE  Held(Join(h, left, right), f)
<1>1. h.headers \subseteq Address
  BY DEF Struct, HeapType
<1> QED
  BY <1>1, JoinFields DEF Held

\* A loop that does its work in one turn.
LEMMA Loop ==
    ASSUME NEW N \in Nat \ {0}, NEW turn, NEW x, turn[1] = x,
           \A n \in 1 .. N - 1 : turn[n] = x => turn[n + 1] = x
    PROVE  turn[N] = x
<1> DEFINE S == {n \in Nat : n + 1 <= N => turn[n + 1] = x}
<1>1. 0 \in S
  OBVIOUS
<1>2. ASSUME NEW n \in Nat, n \in S PROVE n + 1 \in S
  <2>1. CASE n + 2 <= N
    <3>1. n + 1 \in 1 .. N - 1 /\ turn[n + 1] = x
      BY <1>2, <2>1
    <3>2. turn[n + 1 + 1] = x
      BY <3>1
    <3> QED
      BY <3>2
  <2>2. CASE ~ n + 2 <= N
    BY <2>2
  <2> QED
    BY <2>1, <2>2
<1>3. Nat \subseteq S
  <2> HIDE DEF S
  <2> QED
    BY <1>1, <1>2, Induction
<1>4. N - 1 \in S
  BY <1>3
<1> QED
  BY <1>4

LEMMA HeadersCount ==
    ASSUME NEW h \in HeapType, NEW a \in h.headers
    PROVE  Cardinality(h.headers) \in Nat \ {0}
<1>1. IsFiniteSet(Address)
  <2>1. Limit - 1 \in Int /\ 0 \in Int
    BY Sizes DEF Limit
  <2> QED
    BY <2>1, FS_Interval DEF Address, Limit
<1>2. IsFiniteSet(h.headers)
  BY <1>1, FS_Subset DEF HeapType
<1> QED
  BY <1>2, FS_CardinalityType, FS_EmptySet

LEMMA TurnsLeft ==
    ASSUME NEW h, NEW b, Cardinality(h.headers) \in Nat \ {0},
           JoinLeft(JoinLeft([heap |-> h, tag |-> b])) = JoinLeft([heap |-> h, tag |-> b])
    PROVE  MergeLeft(h, b) = JoinLeft([heap |-> h, tag |-> b])
<1> DEFINE N == Cardinality(h.headers)
           s == [heap |-> h, tag |-> b]
           t == JoinLeft(s)
           turns(f) == f = [n \in 0 .. N |-> IF n = 0 THEN s ELSE JoinLeft(f[n - 1])]
           turn == CHOOSE f : turns(f)
           w == [n \in 0 .. N |-> IF n = 0 THEN s ELSE t]
<1>1. MergeLeft(h, b) = turn[N]
  BY DEF MergeLeft
<1>2. N \in Nat \ {0} /\ JoinLeft(t) = t /\ JoinLeft(s) = t
  OBVIOUS
<1> HIDE DEF N, s, t
<1>3. turns(w)
  <2>1. \A n \in 0 .. N : n # 0 => JoinLeft(w[n - 1]) = t
    <3> SUFFICES ASSUME NEW n \in 0 .. N, n # 0 PROVE JoinLeft(w[n - 1]) = t
      OBVIOUS
    <3>1. n - 1 \in 0 .. N
      BY <1>2
    <3>2. w[n - 1] = IF n - 1 = 0 THEN s ELSE t
      BY <3>1
    <3> QED
      BY <1>2, <3>2
  <2> QED
    BY <1>2, <2>1
<1>4. turns(turn)
  BY <1>3
<1> HIDE DEF turn
<1>5. turn[0] = s /\ \A n \in 0 .. N : n # 0 => turn[n] = JoinLeft(turn[n - 1])
  BY <1>2, <1>4
<1>6. turn[1] = t
  <2>1. 1 \in 0 .. N /\ 1 - 1 = 0
    BY <1>2
  <2> QED
    BY <1>2, <1>5, <2>1
<1>7. \A n \in 1 .. N - 1 : turn[n] = t => turn[n + 1] = t
  <2> SUFFICES ASSUME NEW n \in 1 .. N - 1, turn[n] = t PROVE turn[n + 1] = t
    OBVIOUS
  <2>1. n + 1 \in 0 .. N /\ n + 1 # 0 /\ n + 1 - 1 = n
    BY <1>2
  <2>2. turn[n + 1] = JoinLeft(turn[n + 1 - 1])
    BY <1>5, <2>1
  <2> QED
    BY <1>2, <2>1, <2>2
<1>8. turn[N] = t
  BY <1>2, <1>6, <1>7, Loop
<1> QED
  BY <1>1, <1>8 DEF t, s

LEMMA TurnsRight ==
    ASSUME NEW h, NEW a, Cardinality(h.headers) \in Nat \ {0},
           JoinRight(JoinRight(h, a), a) = JoinRight(h, a)
    PROVE  MergeRight(h, a) = JoinRight(h, a)
<1> DEFINE N == Cardinality(h.headers)
           t == JoinRight(h, a)
           turns(f) == f = [n \in 0 .. N |-> IF n = 0 THEN h ELSE JoinRight(f[n - 1], a)]
           turn == CHOOSE f : turns(f)
           w == [n \in 0 .. N |-> IF n = 0 THEN h ELSE t]
<1>1. MergeRight(h, a) = turn[N]
  BY DEF MergeRight
<1>2. N \in Nat \ {0} /\ JoinRight(t, a) = t /\ JoinRight(h, a) = t
  OBVIOUS
<1> HIDE DEF N, t
<1>3. turns(w)
  <2>1. \A n \in 0 .. N : n # 0 => JoinRight(w[n - 1], a) = t
    <3> SUFFICES ASSUME NEW n \in 0 .. N, n # 0 PROVE JoinRight(w[n - 1], a) = t
      OBVIOUS
    <3>1. n - 1 \in 0 .. N
      BY <1>2
    <3>2. w[n - 1] = IF n - 1 = 0 THEN h ELSE t
      BY <3>1
    <3> QED
      BY <1>2, <3>2
  <2> QED
    BY <1>2, <2>1
<1>4. turns(turn)
  BY <1>3
<1> HIDE DEF turn
<1>5. turn[0] = h /\ \A n \in 0 .. N : n # 0 => turn[n] = JoinRight(turn[n - 1], a)
  BY <1>2, <1>4
<1>6. turn[1] = t
  <2>1. 1 \in 0 .. N /\ 1 - 1 = 0
    BY <1>2
  <2> QED
    BY <1>2, <1>5, <2>1
<1>7. \A n \in 1 .. N - 1 : turn[n] = t => turn[n + 1] = t
  <2> SUFFICES ASSUME NEW n \in 1 .. N - 1, turn[n] = t PROVE turn[n + 1] = t
    OBVIOUS
  <2>1. n + 1 \in 0 .. N /\ n + 1 # 0 /\ n + 1 - 1 = n
    BY <1>2
  <2>2. turn[n + 1] = JoinRight(turn[n + 1 - 1], a)
    BY <1>5, <2>1
  <2> QED
    BY <1>2, <2>1, <2>2
<1>8. turn[N] = t
  BY <1>2, <1>6, <1>7, Loop
<1> QED
  BY <1>1, <1>8 DEF t

\* A heap with a block a in hand, after free has looked to the left of it.
LEMMA MergeLeftIs ==
    ASSUME NEW h, Struct(h), Merged(h, NULL), NEW b \in h.headers, NEW f, Held(h, f), b \notin DOMAIN f
    PROVE  LET r == MergeLeft(h, b)
               g == r.heap
               a == r.tag
           IN
           /\ r = JoinLeft([heap |-> h, tag |-> b])
           /\ Struct(g) /\ a \in g.headers /\ Merged(g, a) /\ LeftDone(g, a)
           /\ Held(g, f) /\ a \notin DOMAIN f
           /\ g.intact = h.intact /\ g.complete = h.complete /\ g.cut = h.cut
           /\ (g.broken = "no" => h.broken = "no")
<1> DEFINE s == [heap |-> h, tag |-> b]
           left == h.mem[b].splitprev
<1>1. /\ h \in HeapType /\ Chained(h) /\ h.headers \subseteq Address /\ Address \subseteq Nat
      /\ NULL \notin Address /\ b \in Address
  BY ClassOf DEF Struct, HeapType, Address
<1>2. Cardinality(h.headers) \in Nat \ {0}
  BY <1>1, HeadersCount
<1>3. JoinLeft(s) = IF IsFree(h, left) THEN [heap |-> Join(h, left, b), tag |-> left] ELSE s
  BY DEF JoinLeft
<1>4. Merged(h, b)
  BY <1>1 DEF Merged
<1>5. CASE ~ IsFree(h, left)
  <2>1. JoinLeft(s) = s
    BY <1>3, <1>5
  <2>2. MergeLeft(h, b) = s
    BY <1>2, <2>1, TurnsLeft
  <2> QED
    BY <1>1, <1>4, <1>5, <2>1, <2>2 DEF LeftDone
<1>6. CASE IsFree(h, left)
  <2> DEFINE g == Join(h, left, b)
  <2>1. left \in h.headers /\ h.mem[left].splitnext = b /\ h.mem[left].index # Allocated
    BY <1>1, <1>6 DEF IsFree, Chained
  <2>2. left \notin DOMAIN f
    BY <2>1 DEF Held
  <2>3. Struct(g) /\ g.headers = h.headers \ {b} /\ left # b /\ left \in g.headers
    BY <1>1, <2>1, JoinStruct, JoinFields
  <2>4. Merged(g, left) /\ Held(g, f)
    BY <2>1, <2>2, JoinMerged, JoinHeld
  <2>5. /\ g.intact = h.intact /\ g.complete = h.complete /\ g.cut = h.cut
        /\ (g.broken = "no" => h.broken = "no")
    BY <2>1, JoinFields
  <2>6. LeftDone(g, left)
    <3>1. left \in Address /\ left # h.mem[b].splitnext
      BY <2>1, JoinFields
    <3>2. g.mem[left].splitprev = h.mem[left].splitprev
      BY <2>1, <3>1, JoinFields
    <3>3. ASSUME h.mem[left].splitprev # NULL PROVE g.mem[h.mem[left].splitprev].index = Allocated
      <4> DEFINE p == h.mem[left].splitprev
      <4>1. p \in h.headers /\ p \in Address /\ h.mem[p].splitnext = left
        BY <1>1, <2>1, <3>3 DEF Chained
      <4>2. h.mem[p].index = Allocated
        BY <1>1, <2>1, <4>1 DEF Merged
      <4> QED
        BY <2>1, <4>1, <4>2, JoinFields
    <3> QED
      BY <3>2, <3>3 DEF LeftDone, IsFree
  <2>7. JoinLeft(s) = [heap |-> g, tag |-> left]
    BY <1>3, <1>6
  <2> HIDE DEF g
  <2>8. JoinLeft([heap |-> g, tag |-> left]) = [heap |-> g, tag |-> left]
    BY <2>6 DEF JoinLeft, LeftDone
  <2>9. MergeLeft(h, b) = JoinLeft(s)
    BY <1>2, <2>7, <2>8, TurnsLeft
  <2> QED
    BY <2>2, <2>3, <2>4, <2>5, <2>6, <2>7, <2>9
<1> QED
  BY <1>5, <1>6

LEMMA MergeRightIs ==
    ASSUME NEW h, Struct(h), NEW a \in h.headers, Merged(h, a), LeftDone(h, a),
           NEW f, Held(h, f), a \notin DOMAIN f
    PROVE  LET g == MergeRight(h, a) IN
           /\ g = JoinRight(h, a)
           /\ Struct(g) /\ a \in g.headers /\ Merged(g, a) /\ LeftDone(g, a) /\ RightDone(g, a)
           /\ Held(g, f)
           /\ g.intact = h.intact /\ g.complete = h.complete /\ g.cut = h.cut
           /\ (g.broken = "no" => h.broken = "no")
<1> DEFINE right == h.mem[a].splitnext
<1>1. /\ h \in HeapType /\ Chained(h) /\ h.headers \subseteq Address /\ Address \subseteq Nat
      /\ NULL \notin Address /\ a \in Address
  BY ClassOf DEF Struct, HeapType, Address
<1>2. Cardinality(h.headers) \in Nat \ {0}
  BY <1>1, HeadersCount
<1>3. CASE ~ IsFree(h, right)
  <2>1. JoinRight(h, a) = h
    BY <1>3 DEF JoinRight
  <2>2. MergeRight(h, a) = h
    BY <1>2, <2>1, TurnsRight
  <2> QED
    BY <1>1, <1>3, <2>1, <2>2 DEF RightDone
<1>4. CASE IsFree(h, right)
  <2> DEFINE g == Join(h, a, right)
             after == h.mem[right].splitnext
  <2>1. right \in h.headers /\ right \in Address /\ h.mem[right].index # Allocated
    BY <1>1, <1>4 DEF IsFree, Chained
  <2>2. right \notin DOMAIN f
    BY <2>1 DEF Held
  <2>3. Struct(g) /\ a # right /\ a # after /\ a \in g.headers
    BY <1>1, <2>1, JoinStruct, JoinFields
  <2>4. Merged(g, a) /\ Held(g, f)
    BY <2>1, <2>2, JoinMerged, JoinHeld
  <2>5. /\ g.intact = h.intact /\ g.complete = h.complete /\ g.cut = h.cut
        /\ (g.broken = "no" => h.broken = "no")
    BY <2>1, JoinFields
  <2>6. /\ g.mem[a].splitprev = h.mem[a].splitprev /\ g.mem[a].splitnext = after
        /\ \A b \in Address : h.mem[b].index = Allocated => g.mem[b].index = Allocated
    BY <1>1, <2>1, <2>3, JoinFields
  <2>7. LeftDone(g, a)
    <3>1. h.mem[a].splitprev # NULL => h.mem[a].splitprev \in Address
      BY <1>1 DEF Chained
    <3> QED
      BY <2>6, <3>1 DEF LeftDone, IsFree
  <2>8. RightDone(g, a)
    <3>1. after # NULL => after \in Address /\ h.mem[after].index = Allocated
      <4>1. after # NULL => after \in h.headers
        BY <1>1, <2>1 DEF Chained
      <4>2. after # NULL => h.mem[after].index = Allocated
        BY <2>1, <2>3 DEF Merged
      <4> QED
        BY <1>1, <4>1, <4>2
    <3> QED
      BY <2>6, <3>1 DEF RightDone, IsFree
  <2>9. JoinRight(h, a) = g
    BY <1>4 DEF JoinRight
  <2> HIDE DEF g
  <2>10. JoinRight(g, a) = g
    BY <2>8 DEF JoinRight, RightDone
  <2>11. MergeRight(h, a) = JoinRight(h, a)
    BY <1>2, <2>9, <2>10, TurnsRight
  <2> QED
    BY <2>3, <2>4, <2>5, <2>7, <2>8, <2>9, <2>11
<1> QED
  BY <1>3, <1>4

\* A tag is filed under a class.
LEMMA FileIs ==
    ASSUME NEW h \in HeapType, NEW a \in Address, NEW i \in Class
    PROVE  LET g == File(h, a, i) IN
           /\ Around(g, h)
           /\ \A b \in Address :
                 /\ g.mem[b].index = IF b = a THEN i ELSE h.mem[b].index
                 /\ g.mem[b].realsize = h.mem[b].realsize
                 /\ g.mem[b].splitprev = h.mem[b].splitprev
                 /\ g.mem[b].splitnext = h.mem[b].splitnext
<1>1. CASE h.mem[a].index = i
  BY <1>1 DEF File, Around
<1>2. CASE h.mem[a].index # i
  <2> DEFINE u == Unlink(h, a)
             p == Push(u, a, i)
             t == [p.mem[a] EXCEPT !.index = i]
             m == [p.mem EXCEPT ![a] = t]
             g == [p EXCEPT !.mem = m]
  <2>1. File(h, a, i) = g
    BY <1>2 DEF File
  <2>2. Same(u, h)
    BY UnlinkIsSame
  <2>3. u \in HeapType
    BY <2>2 DEF Same, Around
  <2> HIDE DEF u
  <2>4. Same(p, u)
    BY <2>3, PushIsSame
  <2>5. Same(p, h)
    BY <2>2, <2>4, SameAgain
  <2> HIDE DEF p
  <2>6. p \in HeapType /\ p.mem \in [Address -> TagType] /\ p.mem[a] \in TagType /\ i \in Index
    BY <2>5 DEF Same, Around, HeapType, Index
  <2>7. /\ t \in TagType /\ t.index = i /\ t.realsize = p.mem[a].realsize
        /\ t.splitprev = p.mem[a].splitprev /\ t.splitnext = p.mem[a].splitnext
    BY <2>6 DEF TagType
  <2> HIDE DEF t
  <2>8. m \in [Address -> TagType] /\ \A b \in Address : m[b] = IF b = a THEN t ELSE p.mem[b]
    BY <2>6, <2>7
  <2> HIDE DEF m
  <2>9. /\ g \in HeapType /\ g.mem = m /\ g.headers = p.headers /\ g.frames = p.frames
        /\ g.intact = p.intact /\ g.complete = p.complete /\ g.cut = p.cut /\ g.broken = p.broken
    BY <2>6, <2>8 DEF HeapType
  <2> HIDE DEF g
  <2>10. Around(g, h)
    BY <2>5, <2>9 DEF Same, Around
  <2>11. \A b \in Address :
            /\ g.mem[b].index = IF b = a THEN i ELSE h.mem[b].index
            /\ g.mem[b].realsize = h.mem[b].realsize
            /\ g.mem[b].splitprev = h.mem[b].splitprev
            /\ g.mem[b].splitnext = h.mem[b].splitnext
    BY <2>5, <2>7, <2>8, <2>9 DEF Same
  <2> QED
    BY <2>1, <2>10, <2>11
<1> QED
  BY <1>1, <1>2

CountsBounded(h) == \A i \in Class : h.complete[i] <= MEMORY_MAX_COMPLETE

LEMMA SetComplete ==
    ASSUME NEW h \in HeapType, NEW i \in Class, NEW n \in Int
    PROVE  LET g == [h EXCEPT !.complete[i] = n] IN
           /\ g \in HeapType /\ g.mem = h.mem /\ g.first = h.first /\ g.headers = h.headers
           /\ g.frames = h.frames /\ g.intact = h.intact /\ g.cut = h.cut /\ g.broken = h.broken
           /\ \A j \in Class : g.complete[j] = IF j = i THEN n ELSE h.complete[j]
<1> DEFINE p == [h.complete EXCEPT ![i] = n]
           g == [h EXCEPT !.complete = p]
<1>1. p \in [Class -> Int] /\ \A j \in Class : p[j] = IF j = i THEN n ELSE h.complete[j]
  BY DEF HeapType
<1>2. [h EXCEPT !.complete[i] = n] = g
  OBVIOUS
<1> HIDE DEF p
<1>3. /\ g \in HeapType /\ g.mem = h.mem /\ g.first = h.first /\ g.headers = h.headers
      /\ g.frames = h.frames /\ g.intact = h.intact /\ g.cut = h.cut /\ g.broken = h.broken
      /\ g.complete = p
  BY <1>1 DEF HeapType
<1> HIDE DEF g
<1> QED
  BY <1>1, <1>2, <1>3

LEMMA SetCut ==
    ASSUME NEW h \in HeapType, NEW c \in BOOLEAN
    PROVE  LET g == [h EXCEPT !.cut = c] IN
           /\ g \in HeapType /\ g.mem = h.mem /\ g.first = h.first /\ g.headers = h.headers
           /\ g.frames = h.frames /\ g.intact = h.intact /\ g.complete = h.complete
           /\ g.broken = h.broken
<1> DEFINE g == [h EXCEPT !.cut = c]
<1>1. g \in HeapType
  BY DEF HeapType
<1>2. /\ g.mem = h.mem /\ g.first = h.first /\ g.headers = h.headers
      /\ g.frames = h.frames /\ g.intact = h.intact /\ g.complete = h.complete
      /\ g.broken = h.broken
  BY DEF HeapType
<1> QED
  BY <1>1, <1>2

\* What free does to a block that is not given back: it is counted and filed,
\* and its ties are cut.
Filed(h, a, i, n)   == File([h EXCEPT !.complete[i] = n], a, i)
CutOff(h, a)        == [CutTies(h, a) EXCEPT !.cut =
                          @ \/ h.mem[a].next # NULL \/ h.mem[a].prev # NULL]

LEMMA CutOffIs ==
    ASSUME NEW h \in HeapType, NEW a \in Address
    PROVE  LET g == CutOff(h, a)
               k == CutTies(h, a)
           IN
           /\ Same(k, h)
           /\ g \in HeapType /\ g.mem = k.mem /\ g.first = k.first /\ g.headers = h.headers
           /\ g.frames = h.frames /\ g.intact = h.intact /\ g.complete = h.complete
           /\ g.broken = k.broken
           /\ g.cut = (h.cut \/ h.mem[a].next # NULL \/ h.mem[a].prev # NULL)
<1> DEFINE k == CutTies(h, a)
           c == k.cut \/ h.mem[a].next # NULL \/ h.mem[a].prev # NULL
           g == [k EXCEPT !.cut = c]
<1>1. Same(k, h)
  BY CutTiesIsSame DEF Link
<1>2. k \in HeapType /\ CutOff(h, a) = g
  BY <1>1 DEF Same, Around, CutOff
<1>3. c \in BOOLEAN
  OBVIOUS
<1>4. /\ g \in HeapType /\ g.mem = k.mem /\ g.first = k.first /\ g.headers = k.headers
      /\ g.frames = k.frames /\ g.intact = k.intact /\ g.complete = k.complete
      /\ g.broken = k.broken
  BY <1>2, <1>3, SetCut
<1>5. g.cut = c
  <2> HIDE DEF k, c
  <2> QED
    BY <1>2 DEF HeapType
<1> HIDE DEF g, k
<1> QED
  BY <1>1, <1>2, <1>4, <1>5 DEF Same, Around, k, c

LEMMA FiledIs ==
    ASSUME NEW h \in HeapType, NEW a \in Address, NEW i \in Class, NEW n \in Int
    PROVE  LET g == CutOff(Filed(h, a, i, n), a) IN
           /\ g \in HeapType /\ g.headers = h.headers /\ g.frames = h.frames /\ g.intact = h.intact
           /\ (h.cut => g.cut) /\ (g.broken = "no" => h.broken = "no")
           /\ \A j \in Class : g.complete[j] = IF j = i THEN n ELSE h.complete[j]
           /\ \A b \in Address :
                 /\ g.mem[b].index = IF b = a THEN i ELSE h.mem[b].index
                 /\ g.mem[b].realsize = h.mem[b].realsize
                 /\ g.mem[b].splitprev = h.mem[b].splitprev
                 /\ g.mem[b].splitnext = h.mem[b].splitnext
<1> DEFINE c == [h EXCEPT !.complete[i] = n]
           d == File(c, a, i)
           k == CutTies(d, a)
           g == CutOff(d, a)
<1>1. /\ c \in HeapType /\ c.mem = h.mem /\ c.headers = h.headers
      /\ c.frames = h.frames /\ c.intact = h.intact /\ c.cut = h.cut /\ c.broken = h.broken
      /\ \A j \in Class : c.complete[j] = IF j = i THEN n ELSE h.complete[j]
  BY SetComplete
<1> HIDE DEF c
<1>2. /\ Around(d, c)
      /\ \A b \in Address :
            /\ d.mem[b].index = IF b = a THEN i ELSE c.mem[b].index
            /\ d.mem[b].realsize = c.mem[b].realsize
            /\ d.mem[b].splitprev = c.mem[b].splitprev
            /\ d.mem[b].splitnext = c.mem[b].splitnext
  BY <1>1, FileIs
<1> HIDE DEF d
<1>3. d \in HeapType
  BY <1>2 DEF Around
<1>4. /\ Same(k, d)
      /\ g \in HeapType /\ g.mem = k.mem /\ g.headers = d.headers
      /\ g.frames = d.frames /\ g.intact = d.intact /\ g.complete = d.complete
      /\ g.broken = k.broken /\ (d.cut => g.cut)
  BY <1>3, CutOffIs
<1> HIDE DEF k, g
<1>5. /\ g.headers = h.headers /\ g.frames = h.frames /\ g.intact = h.intact
      /\ (h.cut => g.cut) /\ (g.broken = "no" => h.broken = "no") /\ g.complete = c.complete
  BY <1>1, <1>2, <1>4 DEF Same, Around
<1>6. \A b \in Address :
         /\ g.mem[b].index = IF b = a THEN i ELSE h.mem[b].index
         /\ g.mem[b].realsize = h.mem[b].realsize
         /\ g.mem[b].splitprev = h.mem[b].splitprev
         /\ g.mem[b].splitnext = h.mem[b].splitnext
  BY <1>1, <1>2, <1>4 DEF Same
<1>7. CutOff(Filed(h, a, i, n), a) = g
  BY DEF Filed, g, d, c
<1> QED
  BY <1>1, <1>4, <1>5, <1>6, <1>7

\* The last part of free, for a block whose neighbours are in use.
LEMMA FinishStruct ==
    ASSUME NEW h, Struct(h), NEW a \in h.headers, NEW f, Merged(h, a), LeftDone(h, a),
           RightDone(h, a), Held(h, f), a \notin DOMAIN f, CountsBounded(h)
    PROVE  LET i     == GetIndex(h.mem[a].realsize - TAG)
               whole == h.mem[a].splitprev = NULL /\ h.mem[a].splitnext = NULL
               n     == IF whole THEN h.complete[i] + 1 ELSE h.complete[i]
               g     == IF whole /\ ~ Keeps(h, i) THEN GiveBack(h, a)
                        ELSE CutOff(Filed(h, a, i, n), a)
           IN
           /\ i \in Class
           /\ Struct(g) /\ Merged(g, NULL) /\ Held(g, f) /\ CountsBounded(g)
           /\ h.cut => g.cut
<1> DEFINE i     == GetIndex(h.mem[a].realsize - TAG)
           whole == h.mem[a].splitprev = NULL /\ h.mem[a].splitnext = NULL
           n     == IF whole THEN h.complete[i] + 1 ELSE h.complete[i]
<1>1. /\ h \in HeapType /\ Chained(h) /\ h.headers \subseteq Address /\ NULL \notin Address
      /\ a \in Address /\ a # NULL
  BY ClassOf DEF Struct, HeapType
<1>2. i \in Class
  <2>1. h.mem[a].realsize \in Nat /\ Fits(h.mem[a].realsize) /\ h.mem[a].realsize > TAG
    <3>1. h.mem[a].realsize \in 0 .. Limit /\ Fits(h.mem[a].realsize) /\ h.mem[a].realsize > TAG
      BY <1>1, TagIs DEF Struct, Bounded, Chained
    <3> QED
      BY <3>1
  <2>2. h.mem[a].realsize - TAG \in Nat \ {0} /\ h.mem[a].realsize - TAG + TAG <= h.mem[a].realsize
    BY <2>1, Sizes
  <2> QED
    BY <2>1, <2>2, ClassOfPart
<1>3. \A b \in h.headers : /\ h.mem[b].splitnext # NULL => h.mem[b].splitnext \in h.headers
                           /\ h.mem[b].splitprev # NULL => h.mem[b].splitprev \in h.headers
  BY <1>1 DEF Chained
<1>4. CASE whole /\ ~ Keeps(h, i)
  <2> DEFINE g == GiveBack(h, a)
  <2>1. /\ Struct(g) /\ g.headers = h.headers \ {a} /\ g.complete = h.complete
        /\ g.cut = h.cut /\ g.mem = Gone(h, a).mem
    BY <1>4, GiveBackStruct
  <2>2. \A b \in Address :
            /\ g.mem[b].index = IF b = a THEN Allocated ELSE h.mem[b].index
            /\ g.mem[b].realsize = h.mem[b].realsize
            /\ g.mem[b].splitnext = h.mem[b].splitnext
    BY <1>1, <2>1, GoneIs
  <2> HIDE DEF g
  <2>3. Merged(g, NULL)
    <3> SUFFICES ASSUME NEW b \in h.headers, b # a, g.mem[b].index # Allocated
                 PROVE  /\ g.mem[b].index = GetIndex(g.mem[b].realsize - TAG)
                        /\ g.mem[b].splitnext # NULL => g.mem[g.mem[b].splitnext].index = Allocated
      BY <2>1 DEF Merged
    <3>1. b \in Address
      BY <1>1
    <3>2. h.mem[b].splitnext # a
      BY <1>1, <1>4, <3>1 DEF Chained
    <3>3. /\ h.mem[b].index = GetIndex(h.mem[b].realsize - TAG)
          /\ h.mem[b].splitnext # NULL => h.mem[h.mem[b].splitnext].index = Allocated
      BY <2>2, <3>1, <3>2 DEF Merged
    <3> QED
      BY <1>1, <1>3, <2>2, <3>1, <3>3
  <2>4. Held(g, f)
    BY <1>1, <2>1, <2>2 DEF Held
  <2>5. CountsBounded(g)
    BY <2>1 DEF CountsBounded
  <2> QED
    BY <1>2, <1>4, <2>1, <2>3, <2>4, <2>5 DEF g
<1>5. CASE ~ (whole /\ ~ Keeps(h, i))
  <2> DEFINE g == CutOff(Filed(h, a, i, n), a)
  <2>1. h.complete[i] \in Int /\ n \in Int
    BY <1>1, <1>2 DEF HeapType
  <2>2. /\ g \in HeapType /\ g.headers = h.headers /\ g.frames = h.frames /\ g.intact = h.intact
        /\ (h.cut => g.cut)
        /\ \A j \in Class : g.complete[j] = IF j = i THEN n ELSE h.complete[j]
        /\ \A b \in Address :
              /\ g.mem[b].index = IF b = a THEN i ELSE h.mem[b].index
              /\ g.mem[b].realsize = h.mem[b].realsize
              /\ g.mem[b].splitprev = h.mem[b].splitprev
              /\ g.mem[b].splitnext = h.mem[b].splitnext
    <3> HIDE DEF i, n
    <3> QED
      BY <1>1, <1>2, <2>1, FiledIs
  <2>3. n <= MEMORY_MAX_COMPLETE
    <3>1. h.complete[i] <= MEMORY_MAX_COMPLETE /\ MEMORY_MAX_COMPLETE \in Nat
      BY <1>2, SizesAssumption DEF CountsBounded
    <3>2. whole => h.complete[i] < MEMORY_MAX_COMPLETE
      BY <1>5 DEF Keeps
    <3> HIDE DEF i, whole
    <3> QED
      BY <2>1, <3>1, <3>2
  <2>4. i = GetIndex(h.mem[a].realsize - TAG)
    OBVIOUS
  <2> HIDE DEF g, i, n
  <2>5. Alike(g, h)
    BY <1>1, <2>2 DEF Alike
  <2>6. Struct(g)
    BY <2>5, AlikeStruct
  <2>7. Merged(g, NULL)
    <3> SUFFICES ASSUME NEW b \in h.headers, g.mem[b].index # Allocated
                 PROVE  /\ g.mem[b].index = GetIndex(g.mem[b].realsize - TAG)
                        /\ g.mem[b].splitnext # NULL => g.mem[g.mem[b].splitnext].index = Allocated
      BY <2>2 DEF Merged
    <3>1. b \in Address
      BY <1>1
    <3>2. CASE b = a
      <4>1. g.mem[b].index = GetIndex(g.mem[b].realsize - TAG)
        BY <2>2, <2>4, <3>1, <3>2
      <4>2. h.mem[a].splitnext # NULL =>
               h.mem[a].splitnext \in Address /\ h.mem[h.mem[a].splitnext].index = Allocated
        BY <1>1, <1>3 DEF RightDone, IsFree
      <4>3. h.mem[a].splitnext # a
        <5>1. h.mem[a].splitnext # NULL => h.mem[a].splitnext = a + h.mem[a].realsize /\ h.mem[a].realsize > TAG
          BY <1>1 DEF Chained, End
        <5>2. h.mem[a].realsize \in 0 .. Limit /\ a \in Int
          BY <1>1, TagIs DEF Address
        <5> QED
          BY <1>1, <5>1, <5>2, Sizes
      <4> QED
        BY <2>2, <3>1, <3>2, <4>1, <4>2, <4>3
    <3>3. CASE b # a
      <4>1. h.mem[b].index # Allocated
        BY <2>2, <3>1, <3>3
      <4>2. h.mem[b].splitnext # a
        <5> SUFFICES ASSUME h.mem[b].splitnext = a PROVE FALSE
          OBVIOUS
        <5>1. h.mem[a].splitprev = b /\ b # NULL
          BY <1>1, <3>1 DEF Chained
        <5> QED
          BY <4>1, <5>1 DEF LeftDone, IsFree
      <4>3. /\ h.mem[b].index = GetIndex(h.mem[b].realsize - TAG)
            /\ h.mem[b].splitnext # NULL => h.mem[h.mem[b].splitnext].index = Allocated
        BY <3>3, <4>1, <4>2 DEF Merged
      <4> QED
        BY <1>1, <1>3, <2>2, <3>1, <3>3, <4>2, <4>3
    <3> QED
      BY <3>2, <3>3
  <2>8. Held(g, f)
    BY <1>1, <2>2 DEF Held
  <2>9. CountsBounded(g)
    BY <2>2, <2>3 DEF CountsBounded
  <2> QED
    BY <1>2, <1>5, <2>2, <2>6, <2>7, <2>8, <2>9 DEF g, i, n
<1> QED
  BY <1>4, <1>5

\* All of free.
LEMMA FreeIs ==
    ASSUME NEW h, NEW b
    PROVE  LET left  == MergeLeft(h, b)
               a     == left.tag
               m     == MergeRight(left.heap, a)
               i     == GetIndex(m.mem[a].realsize - TAG)
               whole == m.mem[a].splitprev = NULL /\ m.mem[a].splitnext = NULL
               n     == IF whole THEN m.complete[i] + 1 ELSE m.complete[i]
           IN  Free(h, b) = IF whole /\ ~ Keeps(m, i) THEN GiveBack(m, a)
                            ELSE CutOff(Filed(m, a, i, n), a)
BY DEF Free, Filed, CutOff

LEMMA FreeStruct ==
    ASSUME NEW h, Struct(h), Merged(h, NULL), NEW b \in h.headers, NEW f, Held(h, f),
           b \notin DOMAIN f, CountsBounded(h)
    PROVE  LET g == Free(h, b) IN
           /\ Struct(g) /\ Merged(g, NULL) /\ Held(g, f) /\ CountsBounded(g)
           /\ h.cut => g.cut
<1> DEFINE left == MergeLeft(h, b)
           k    == left.heap
           a    == left.tag
           m    == MergeRight(k, a)
<1>1. /\ Struct(k) /\ a \in k.headers /\ Merged(k, a) /\ LeftDone(k, a)
      /\ Held(k, f) /\ a \notin DOMAIN f
      /\ k.intact = h.intact /\ k.complete = h.complete /\ k.cut = h.cut
  BY MergeLeftIs
<1>2. Free(h, b) = IF /\ m.mem[a].splitprev = NULL /\ m.mem[a].splitnext = NULL
                      /\ ~ Keeps(m, GetIndex(m.mem[a].realsize - TAG))
                   THEN GiveBack(m, a)
                   ELSE CutOff(Filed(m, a, GetIndex(m.mem[a].realsize - TAG),
                               IF m.mem[a].splitprev = NULL /\ m.mem[a].splitnext = NULL
                               THEN m.complete[GetIndex(m.mem[a].realsize - TAG)] + 1
                               ELSE m.complete[GetIndex(m.mem[a].realsize - TAG)]), a)
  BY FreeIs
<1> HIDE DEF k, a
<1>3. /\ Struct(m) /\ a \in m.headers /\ Merged(m, a) /\ LeftDone(m, a) /\ RightDone(m, a)
      /\ Held(m, f) /\ m.intact = k.intact /\ m.complete = k.complete /\ m.cut = k.cut
  BY <1>1, MergeRightIs
<1> HIDE DEF m
<1>4. CountsBounded(m)
  BY <1>1, <1>3 DEF CountsBounded
<1> DEFINE i     == GetIndex(m.mem[a].realsize - TAG)
           whole == m.mem[a].splitprev = NULL /\ m.mem[a].splitnext = NULL
           n     == IF whole THEN m.complete[i] + 1 ELSE m.complete[i]
           g     == IF whole /\ ~ Keeps(m, i) THEN GiveBack(m, a)
                    ELSE CutOff(Filed(m, a, i, n), a)
<1>5. /\ Struct(g) /\ Merged(g, NULL) /\ Held(g, f) /\ CountsBounded(g)
      /\ m.cut => g.cut
  BY <1>1, <1>3, <1>4, FinishStruct
<1>6. Free(h, b) = g
  BY <1>2
<1> HIDE DEF g
<1> QED
  BY <1>1, <1>3, <1>5, <1>6

-----------------------------------------------------------------------------
(* What malloc finds in the lists.                                         *)

\* A function of which each value is made from the one before.
Iterated(X, x, G, N) ==
    \E f \in [1 .. N -> X] : \A n \in 1 .. N : f[n] = IF n = 1 THEN x ELSE G[f[n - 1]]

LEMMA Iterates ==
    ASSUME NEW X, NEW x \in X, NEW G \in [X -> X], NEW N \in Nat \ {0}
    PROVE  Iterated(X, x, G, N)
<1> DEFINE Values(m) ==
        \E f \in [1 .. m -> X] : \A n \in 1 .. m : f[n] = IF n = 1 THEN x ELSE G[f[n - 1]]
           S == {m \in Nat : Values(m + 1)}
<1>1. 0 \in S
  <2> DEFINE f == [n \in 1 .. 1 |-> x]
  <2>1. f \in [1 .. 1 -> X] /\ \A n \in 1 .. 1 : f[n] = IF n = 1 THEN x ELSE G[f[n - 1]]
    OBVIOUS
  <2>2. 0 + 1 = 1
    OBVIOUS
  <2> HIDE DEF f
  <2>3. Values(1)
    BY <2>1
  <2> QED
    BY <2>2, <2>3
<1>2. ASSUME NEW m \in Nat, m \in S PROVE m + 1 \in S
  <2> DEFINE k == m + 1
  <2>1. k \in Nat \ {0} /\ Values(k)
    BY <1>2
  <2> HIDE DEF k
  <2>2. PICK f \in [1 .. k -> X] : \A n \in 1 .. k : f[n] = IF n = 1 THEN x ELSE G[f[n - 1]]
    BY <2>1
  <2> DEFINE g == [n \in 1 .. k + 1 |-> IF n = k + 1 THEN G[f[k]] ELSE f[n]]
  <2>3. g \in [1 .. k + 1 -> X]
    BY <2>1
  <2>4. g[k + 1] = G[f[k]] /\ \A n \in 1 .. k : g[n] = f[n]
    BY <2>1
  <2> HIDE DEF g
  <2>5. \A n \in 1 .. k + 1 : g[n] = IF n = 1 THEN x ELSE G[g[n - 1]]
    <3> SUFFICES ASSUME NEW n \in 1 .. k + 1 PROVE g[n] = IF n = 1 THEN x ELSE G[g[n - 1]]
      OBVIOUS
    <3>1. CASE n = k + 1
      <4>1. k \in 1 .. k /\ n - 1 = k /\ n # 1
        BY <2>1, <3>1
      <4> QED
        BY <2>4, <3>1, <4>1
    <3>2. CASE n # k + 1
      <4>1. n \in 1 .. k /\ (n # 1 => n - 1 \in 1 .. k)
        BY <2>1, <3>2
      <4> QED
        BY <2>2, <2>4, <4>1
    <3> QED
      BY <3>1, <3>2
  <2>6. Values(k + 1)
    BY <2>3, <2>5
  <2> QED
    BY <2>6 DEF k
<1>3. N - 1 \in S
  <2> HIDE DEF S
  <2>1. Nat \subseteq S
    BY <1>1, <1>2, Induction
  <2> QED
    BY <2>1
<1>4. Values(N)
  <2>1. N - 1 + 1 = N
    OBVIOUS
  <2> HIDE DEF Values
  <2> QED
    BY <1>3, <2>1
<1> QED
  BY <1>4 DEF Iterated

LEMMA WalkIs ==
    ASSUME NEW h \in HeapType, NEW i \in Class
    PROVE  /\ Limit \in Nat \ {0}
           /\ Walk(h, i) \in [1 .. Limit -> Link]
           /\ Walk(h, i)[1] = h.first[i]
           /\ \A n \in 1 .. Limit - 1 :
                 Walk(h, i)[n + 1] = IF Walk(h, i)[n] = NULL THEN NULL ELSE h.mem[Walk(h, i)[n]].next
<1> DEFINE Steps(f) ==
        f = [n \in 1 .. Limit |-> IF n = 1 THEN h.first[i]
                                  ELSE IF f[n - 1] = NULL THEN NULL ELSE h.mem[f[n - 1]].next]
           w == CHOOSE f : Steps(f)
<1>1. Walk(h, i) = w
  BY DEF Walk, Limit
<1>2. Limit \in Nat \ {0}
  BY Sizes DEF Limit
<1>3. \E f \in [1 .. Limit -> Link] : Steps(f)
  <2> DEFINE G == [y \in Link |-> IF y = NULL THEN NULL ELSE h.mem[y].next]
  <2>1. G \in [Link -> Link]
    <3>1. \A y \in Link : y # NULL => h.mem[y].next \in Link
      BY ClassOf, TagIs
    <3>2. NULL \in Link
      BY ClassOf
    <3> QED
      BY <3>1, <3>2
  <2>2. \A y \in Link : G[y] = IF y = NULL THEN NULL ELSE h.mem[y].next
    OBVIOUS
  <2> HIDE DEF G
  <2>3. h.first[i] \in Link
    BY DEF HeapType
  <2>4. PICK f \in [1 .. Limit -> Link] :
            \A n \in 1 .. Limit : f[n] = IF n = 1 THEN h.first[i] ELSE G[f[n - 1]]
    <3> DEFINE x == h.first[i]
               N == Limit
    <3>1. x \in Link /\ N \in Nat \ {0}
      BY <1>2, <2>3
    <3> HIDE DEF x, N
    <3>2. Iterated(Link, x, G, N)
      BY <2>1, <3>1, Iterates, Zenon
    <3> QED
      BY <3>2 DEF Iterated, x, N
  <2>5. \A n \in 1 .. Limit : n # 1 => n - 1 \in 1 .. Limit
    BY <1>2
  <2>6. \A n \in 1 .. Limit : n # 1 => G[f[n - 1]] = IF f[n - 1] = NULL THEN NULL ELSE h.mem[f[n - 1]].next
    BY <2>2, <2>4, <2>5
  <2>7. Steps(f)
    BY <2>4, <2>6
  <2> QED
    BY <2>7
<1>4. Steps(w)
  BY <1>3
<1> HIDE DEF w
<1> DEFINE E(n) == IF n = 1 THEN h.first[i]
                   ELSE IF w[n - 1] = NULL THEN NULL ELSE h.mem[w[n - 1]].next
<1>7. DOMAIN w = 1 .. Limit /\ \A n \in 1 .. Limit : w[n] = E(n)
  <2>1. w = [n \in 1 .. Limit |-> E(n)]
    BY <1>4
  <2> HIDE DEF E
  <2> QED
    BY <2>1
<1>5. w[1] = h.first[i] /\ h.first[i] \in Link
  <2>1. h.first[i] \in Link
    BY DEF HeapType
  <2>2. 1 \in 1 .. Limit
    BY <1>2
  <2>3. w[1] = E(1)
    <3> HIDE DEF E
    <3> QED
      BY <1>7, <2>2
  <2> QED
    BY <2>1, <2>3
<1>6. \A n \in 1 .. Limit - 1 : w[n + 1] = IF w[n] = NULL THEN NULL ELSE h.mem[w[n]].next
  <2> SUFFICES ASSUME NEW n \in 1 .. Limit - 1
               PROVE  w[n + 1] = IF w[n] = NULL THEN NULL ELSE h.mem[w[n]].next
    OBVIOUS
  <2>1. n + 1 \in 1 .. Limit /\ n + 1 # 1 /\ n + 1 - 1 = n
    BY <1>2
  <2> QED
    BY <1>7, <2>1
<1>8. \A n \in 1 .. Limit : w[n] \in Link
  <2> DEFINE S == {n \in Nat : n + 1 <= Limit => w[n + 1] \in Link}
  <2>1. 0 \in S
    BY <1>5
  <2>2. ASSUME NEW n \in Nat, n \in S PROVE n + 1 \in S
    <3> SUFFICES ASSUME n + 1 + 1 <= Limit PROVE w[n + 1 + 1] \in Link
      OBVIOUS
    <3>1. n + 1 \in 1 .. Limit - 1 /\ w[n + 1] \in Link
      BY <1>2, <2>2
    <3>2. w[n + 1 + 1] = IF w[n + 1] = NULL THEN NULL ELSE h.mem[w[n + 1]].next
      BY <1>6, <3>1
    <3> DEFINE y == w[n + 1]
    <3>3. y \in Link /\ w[n + 1 + 1] = IF y = NULL THEN NULL ELSE h.mem[y].next
      BY <3>1, <3>2
    <3> HIDE DEF y
    <3>4. y # NULL => h.mem[y].next \in Link
      BY <3>3, ClassOf, TagIs
    <3> QED
      BY <3>3, <3>4, ClassOf
  <2>3. Nat \subseteq S
    <3> HIDE DEF S
    <3> QED
      BY <2>1, <2>2, Induction
  <2> TAKE n \in 1 .. Limit
  <2>4. n - 1 \in S /\ n - 1 + 1 = n
    BY <1>2, <2>3
  <2> QED
    BY <2>4
<1>9. w \in [1 .. Limit -> Link]
  <2>1. w = [n \in 1 .. Limit |-> w[n]]
    <3>1. w = [n \in 1 .. Limit |-> E(n)]
      BY <1>4
    <3> HIDE DEF E
    <3> QED
      BY <1>7, <3>1
  <2> QED
    BY <1>8, <2>1
<1> QED
  BY <1>1, <1>2, <1>5, <1>6, <1>9

\* What malloc finds fits, and it has looked at it.
LEMMA FoundIs ==
    ASSUME NEW h \in HeapType, NEW size \in Size, Found(h, size) # NULL
    PROVE  /\ Found(h, size) \in Address
           /\ size + TAG <= h.mem[Found(h, size)].realsize
           /\ Found(h, size) \in LookedAt(h, size)
           /\ \E i \in Class : \E n \in 1 .. Limit : Found(h, size) = Walk(h, i)[n]
<1> DEFINE i   == Min(Serving(h, size))
           w   == Walk(h, i)
           fit == Fitting(h, size, w)
           n   == Min(fit)
<1>1. Serving(h, size) # {} /\ Found(h, size) = w[n]
  BY DEF Found, FirstFitting
<1>2. i \in Serving(h, size) /\ \A k \in Serving(h, size) : i <= k
  <2>1. Serving(h, size) \in SUBSET Nat
    BY Sizes DEF Serving, Class
  <2> QED
    BY <1>1, <2>1, MinIs
<1>3. i \in Class /\ i >= GetIndex(size) /\ fit # {}
  BY <1>2 DEF Serving
<1> HIDE DEF i
<1>4. w \in [1 .. Limit -> Link] /\ Limit \in Nat
  BY <1>3, WalkIs
<1>5. fit \in SUBSET (1 .. Limit)
  BY <1>4 DEF Fitting
<1>6. n \in fit /\ \A k \in fit : n <= k
  <2>1. fit \in SUBSET Nat
    BY <1>4, <1>5
  <2> HIDE DEF fit
  <2> QED
    BY <1>3, <2>1, MinIs
<1>7. n \in 1 .. Limit /\ w[n] # NULL /\ size + TAG <= h.mem[w[n]].realsize /\ n \in DOMAIN w
  BY <1>6, <1>4 DEF Fitting
<1> HIDE DEF n
<1>8. w[n] \in LookedThrough(w, fit)
  BY <1>6, <1>7 DEF LookedThrough
<1>9. w[n] \in LookedAt(h, size)
  <2> DEFINE J == {j \in Class : j >= GetIndex(size) /\ \A k \in Serving(h, size) : j <= k}
             U == {LookedThrough(Walk(h, j), Fitting(h, size, Walk(h, j))) : j \in J}
  <2>1. i \in J
    BY <1>2, <1>3
  <2> HIDE DEF J
  <2>2. LookedThrough(w, fit) \in U
    BY <2>1
  <2>3. w[n] \in (UNION U) \ {NULL}
    <3> HIDE DEF U, w, fit
    <3> QED
      BY <1>7, <1>8, <2>2
  <2> QED
    BY <2>3 DEF LookedAt, J
<1>10. w[n] \in Address
  BY <1>4, <1>7, ClassOf
<1> QED
  BY <1>1, <1>3, <1>7, <1>9, <1>10

-----------------------------------------------------------------------------
(* malloc's split.                                                         *)

LEMMA SplitIs ==
    ASSUME NEW h \in HeapType, Bounded(h), NEW a \in Address, NEW size \in Size
    PROVE  LET g     == Split(h, a, size)
               rest  == a + TAG + size
               after == h.mem[a].splitnext
           IN
           /\ g \in HeapType /\ g.frames = h.frames /\ g.cut = h.cut
           /\ g.complete = h.complete /\ (g.broken = "no" => h.broken = "no")
           /\ ~ Splits(h, a, size) => g = h
           /\ Splits(h, a, size) =>
                 /\ rest \in Address /\ a # rest /\ g.headers = h.headers \cup {rest}
                 /\ \A b \in Address :
                       /\ g.mem[b].realsize = IF b = rest THEN Remainder(h, a, size)
                                              ELSE IF b = a THEN TAG + size ELSE h.mem[b].realsize
                       /\ g.mem[b].index = IF b = rest THEN GetIndex(Remainder(h, a, size) - TAG)
                                           ELSE h.mem[b].index
                       /\ g.mem[b].splitnext = IF b = rest THEN after
                                               ELSE IF b = a THEN rest ELSE h.mem[b].splitnext
<1>1. CASE Splits(h, a, size)
  <2> DEFINE k     == Tied(h, a, size)
             rest  == a + TAG + size
             r     == Remainder(h, a, size)
             i     == GetIndex(r - TAG)
             after == h.mem[a].splitnext
             g     == Split(h, a, size)
  <2>1. /\ k \in HeapType /\ k.headers = h.headers \cup {rest} /\ k.frames = h.frames
        /\ k.complete = h.complete
        /\ k.cut = h.cut /\ (k.broken = "no" => h.broken = "no")
        /\ \A b \in Address :
              /\ k.mem[b].realsize = IF b = rest THEN r
                                     ELSE IF b = a THEN TAG + size ELSE h.mem[b].realsize
              /\ k.mem[b].index = IF b = rest THEN i ELSE h.mem[b].index
              /\ k.mem[b].splitnext = IF b = rest THEN after
                                      ELSE IF b = a THEN rest ELSE h.mem[b].splitnext
    BY <1>1, TiedIs
  <2>2. rest \in Address /\ i \in Class /\ rest > a
    BY <1>1, SplitTypes
  <2>3. a # rest
    BY <2>2 DEF Address
  <2>4. g = Push(k, rest, i)
    BY <1>1, SplitIsPush
  <2> HIDE DEF k, rest, r, i, after, g
  <2>5. Same(g, k)
    BY <2>1, <2>2, <2>4, PushIsSame
  <2>6. /\ g \in HeapType /\ g.frames = h.frames /\ g.cut = h.cut
        /\ g.complete = h.complete /\ (g.broken = "no" => h.broken = "no")
        /\ g.headers = h.headers \cup {rest}
    BY <2>1, <2>5 DEF Same, Around
  <2>7. \A b \in Address :
           /\ g.mem[b].realsize = IF b = rest THEN r
                                  ELSE IF b = a THEN TAG + size ELSE h.mem[b].realsize
           /\ g.mem[b].index = IF b = rest THEN i ELSE h.mem[b].index
           /\ g.mem[b].splitnext = IF b = rest THEN after
                                   ELSE IF b = a THEN rest ELSE h.mem[b].splitnext
    BY <2>1, <2>5 DEF Same
  <2> QED
    BY <1>1, <2>2, <2>3, <2>6, <2>7 DEF rest, r, i, after, g
<1>2. CASE ~ Splits(h, a, size)
  BY <1>2, SplitIsPush
<1> QED
  BY <1>1, <1>2

\* A block that is marked as in use, and so is the one behind it, may be split.
LEMMA SplitMerged ==
    ASSUME NEW h, Struct(h), Merged(h, NULL), NEW a \in h.headers, h.mem[a].index = Allocated,
           RightDone(h, a), NEW f, Held(h, f), a \notin DOMAIN f, NEW size \in Size,
           size + TAG <= h.mem[a].realsize
    PROVE  LET g == Split(h, a, size) IN
           /\ Struct(g) /\ Merged(g, NULL) /\ Held(g, f)
           /\ a \in g.headers /\ g.mem[a].index = Allocated /\ TAG + size <= g.mem[a].realsize
           /\ h.headers \subseteq g.headers
<1> DEFINE g     == Split(h, a, size)
           rest  == a + TAG + size
           r     == Remainder(h, a, size)
           after == h.mem[a].splitnext
<1>1. /\ h \in HeapType /\ Bounded(h) /\ Chained(h) /\ h.headers \subseteq Address
      /\ a \in Address /\ NULL \notin Address /\ size \in Nat /\ TAG \in Nat
  BY ClassOf, Sizes DEF Struct, HeapType
<1>2. Struct(g)
  BY SplitStruct
<1>3. CASE ~ Splits(h, a, size)
  <2>1. g = h
    BY <1>1, <1>3, SplitIs
  <2>2. TAG + size = size + TAG
    BY <1>1
  <2> HIDE DEF g
  <2> QED
    BY <2>1, <2>2 DEF g
<1>4. CASE Splits(h, a, size)
  <2>1. /\ rest \in Address /\ a # rest /\ g.headers = h.headers \cup {rest}
        /\ \A b \in Address :
              /\ g.mem[b].realsize = IF b = rest THEN r
                                     ELSE IF b = a THEN TAG + size ELSE h.mem[b].realsize
              /\ g.mem[b].index = IF b = rest THEN GetIndex(r - TAG) ELSE h.mem[b].index
              /\ g.mem[b].splitnext = IF b = rest THEN after
                                      ELSE IF b = a THEN rest ELSE h.mem[b].splitnext
    BY <1>1, <1>4, SplitIs
  <2>2. rest \notin h.headers /\ after # rest
    BY <1>4, TiedStruct
  <2>3. \A b \in h.headers : h.mem[b].splitnext # NULL => h.mem[b].splitnext \in h.headers
    BY <1>1 DEF Chained
  <2>4. TAG + size \in Nat
    BY <1>1
  <2> HIDE DEF g, rest, r
  <2>5. ASSUME NEW b \in g.headers, g.mem[b].index # Allocated
        PROVE  /\ g.mem[b].index = GetIndex(g.mem[b].realsize - TAG)
               /\ g.mem[b].splitnext # NULL => g.mem[g.mem[b].splitnext].index = Allocated
    <3>1. CASE b = rest
      <4>1. after # NULL => after \in Address /\ h.mem[after].index = Allocated
        BY <1>1, <2>3 DEF RightDone, IsFree
      <4> HIDE DEF after
      <4> QED
        BY <2>1, <2>2, <3>1, <4>1
    <3>2. CASE b # rest
      <4>1. b \in h.headers /\ b \in Address /\ b # a /\ h.mem[b].index # Allocated
        BY <1>1, <2>1, <2>5, <3>2
      <4>2. /\ h.mem[b].index = GetIndex(h.mem[b].realsize - TAG)
            /\ h.mem[b].splitnext # NULL => h.mem[h.mem[b].splitnext].index = Allocated
        BY <1>1, <4>1 DEF Merged
      <4>3. h.mem[b].splitnext # NULL => h.mem[b].splitnext \in Address /\ h.mem[b].splitnext # rest
        BY <1>1, <2>2, <2>3, <4>1
      <4> QED
        BY <2>1, <3>2, <4>1, <4>2, <4>3
    <3> QED
      BY <3>1, <3>2
  <2>6. Merged(g, NULL)
    BY <2>5 DEF Merged
  <2>7. Held(g, f)
    <3>1. \A b \in DOMAIN f : b \in Address /\ b # rest /\ b # a
      BY <1>1, <2>2 DEF Held
    <3> QED
      BY <2>1, <3>1 DEF Held
  <2>8. g.mem[a].index = Allocated /\ TAG + size <= g.mem[a].realsize
    BY <1>1, <2>1, <2>4
  <2> QED
    BY <1>2, <2>1, <2>6, <2>7, <2>8 DEF g
<1> QED
  BY <1>3, <1>4

-----------------------------------------------------------------------------
(* All of malloc.                                                          *)

\* The block that is served, before it is split.
Served(h, size) ==
    IF Found(h, size) # NULL THEN [heap |-> Take(h, Found(h, size), size), tag |-> Found(h, size)]
    ELSE NewRegion(h, size)

\* The search has led to where no tag is any more.
Strays(h, size) == \E b \in LookedAt(h, size) : Astray(h, b)

LEMMA MallocIs ==
    ASSUME NEW h, NEW size, NEW s \in HeapType,
           s = Split(Served(h, size).heap, Served(h, size).tag, size)
    PROVE  LET g == Malloc(h, size).heap IN
           /\ Malloc(h, size).tag = Served(h, size).tag
           /\ g \in HeapType /\ g.mem = s.mem /\ g.first = s.first /\ g.headers = s.headers
           /\ g.frames = s.frames /\ g.intact = s.intact /\ g.complete = s.complete /\ g.cut = s.cut
           /\ g.broken = IF Strays(h, size) THEN "astray" ELSE s.broken
<1> DEFINE c == IF Strays(h, size) THEN "astray" ELSE s.broken
           g == [s EXCEPT !.broken = c]
<1>1. Malloc(h, size) = [heap |-> g, tag |-> Served(h, size).tag]
  BY DEF Malloc, Served, Strays
<1>2. c \in Outcome
  BY DEF HeapType, Outcome
<1> HIDE DEF c
<1>3. /\ g \in HeapType /\ g.mem = s.mem /\ g.first = s.first /\ g.headers = s.headers
      /\ g.frames = s.frames /\ g.intact = s.intact /\ g.complete = s.complete /\ g.cut = s.cut
      /\ g.broken = c
  BY <1>2 DEF HeapType
<1> HIDE DEF g
<1>4. Malloc(h, size).heap = g /\ Malloc(h, size).tag = Served(h, size).tag
  BY <1>1
<1> QED
  BY <1>3, <1>4 DEF c

\* A tag out of a list is a free block, unless it goes to the program twice.
LEMMA TakeServes ==
    ASSUME NEW h, Struct(h), Merged(h, NULL), NEW f, Held(h, f), CountsBounded(h),
           NEW size \in Size, NEW a \in Address, size + TAG <= h.mem[a].realsize
    PROVE  LET g == Take(h, a, size) IN
           /\ g \in HeapType /\ Bounded(g) /\ CountsBounded(g)
           /\ g.cut = h.cut
           /\ g.broken = "no" =>
                 /\ Struct(g) /\ Merged(g, NULL) /\ Held(g, f) /\ a \in g.headers
                 /\ g.mem[a].index = Allocated /\ RightDone(g, a) /\ a \notin DOMAIN f
                 /\ size + TAG <= g.mem[a].realsize
<1> DEFINE g == Take(h, a, size)
<1>1. /\ h \in HeapType /\ Bounded(h) /\ Chained(h) /\ h.headers \subseteq Address
      /\ Unmarked(h) /\ NULL \notin Address /\ GetIndex(size) \in Class
  BY ClassOf, ClassOfSize DEF Struct, HeapType
<1>2. /\ g \in HeapType
      /\ g.headers = h.headers /\ g.intact = h.intact /\ g.cut = h.cut
      /\ h.mem[a].index = Allocated => g.broken = "twice"
      /\ \A i \in Class : g.complete[i] <= h.complete[i]
      /\ \A b \in Address :
            /\ g.mem[b].index = IF b = a THEN Allocated ELSE h.mem[b].index
            /\ g.mem[b].realsize = h.mem[b].realsize
            /\ g.mem[b].splitnext = h.mem[b].splitnext
  BY <1>1, TakeIs
<1>3. a \in h.headers => Struct(g)
  BY <1>1, TakeStruct
<1> HIDE DEF g
<1>4. Bounded(g)
  BY <1>1, <1>2 DEF Bounded, End
<1>5. CountsBounded(g)
  <2> SUFFICES ASSUME NEW i \in Class PROVE g.complete[i] <= MEMORY_MAX_COMPLETE
    BY DEF CountsBounded
  <2>1. g.complete[i] \in Int /\ h.complete[i] \in Int /\ MEMORY_MAX_COMPLETE \in Int
    BY <1>1, <1>2, SizesAssumption DEF HeapType
  <2>2. g.complete[i] <= h.complete[i] /\ h.complete[i] <= MEMORY_MAX_COMPLETE
    BY <1>2 DEF CountsBounded
  <2> QED
    BY <2>1, <2>2
<1>6. ASSUME g.broken = "no"
      PROVE  /\ Struct(g) /\ Merged(g, NULL) /\ Held(g, f) /\ a \in g.headers
             /\ g.mem[a].index = Allocated /\ RightDone(g, a) /\ a \notin DOMAIN f
             /\ size + TAG <= g.mem[a].realsize
  <2>1. h.mem[a].index # Allocated
    BY <1>2, <1>6
  <2>2. a \in h.headers
    BY <1>1, <2>1 DEF Unmarked
  <2>3. \A b \in h.headers : h.mem[b].splitnext # NULL => h.mem[b].splitnext \in Address
    BY <1>1 DEF Chained
  <2>4. Merged(g, NULL)
    BY <1>1, <1>2, <2>3 DEF Merged
  <2>5. Held(g, f) /\ a \notin DOMAIN f
    BY <1>1, <1>2, <2>1 DEF Held
  <2>6. RightDone(g, a)
    <3>1. h.mem[a].splitnext # NULL => h.mem[h.mem[a].splitnext].index = Allocated
      BY <1>1, <2>1, <2>2 DEF Merged
    <3> QED
      BY <1>1, <1>2, <2>2, <2>3, <3>1 DEF RightDone, IsFree
  <2> QED
    BY <1>2, <1>3, <2>2, <2>4, <2>5, <2>6
<1> QED
  BY <1>2, <1>4, <1>5, <1>6 DEF g

\* So is a new region a block for the program.
LEMMA RegionServes ==
    ASSUME NEW h, Struct(h), Merged(h, NULL), NEW f, Held(h, f), CountsBounded(h),
           NEW size \in Size, Bases(h, RegionPages(size + TAG)) # {}
    PROVE  LET g == NewRegion(h, size).heap
               a == NewRegion(h, size).tag
           IN
           /\ g \in HeapType /\ Bounded(g) /\ CountsBounded(g)
           /\ g.cut = h.cut /\ a \in Address
           /\ Struct(g) /\ Merged(g, NULL) /\ Held(g, f) /\ a \in g.headers
           /\ g.mem[a].index = Allocated /\ RightDone(g, a) /\ a \notin DOMAIN f
           /\ size + TAG <= g.mem[a].realsize
<1> DEFINE g == NewRegion(h, size).heap
           a == NewRegion(h, size).tag
<1>1. /\ h \in HeapType /\ Chained(h) /\ h.headers \subseteq Address /\ NULL \notin Address
  BY ClassOf DEF Struct, HeapType
<1>2. /\ a \in Address /\ g \in HeapType /\ g.headers = h.headers \cup {a}
      /\ g.complete = h.complete /\ g.cut = h.cut
      /\ \A b \in Address : b # a => g.mem[b] = h.mem[b]
      /\ size + TAG <= g.mem[a].realsize /\ g.mem[a].index = Allocated
      /\ g.mem[a].splitnext = NULL
  BY <1>1, RegionIs
<1>3. Struct(g) /\ a \notin h.headers
  BY RegionStruct
<1> HIDE DEF g, a
<1>4. Merged(g, NULL)
  <2> SUFFICES ASSUME NEW b \in g.headers, g.mem[b].index # Allocated
               PROVE  /\ g.mem[b].index = GetIndex(g.mem[b].realsize - TAG)
                      /\ g.mem[b].splitnext # NULL => g.mem[g.mem[b].splitnext].index = Allocated
    BY DEF Merged
  <2>1. b \in h.headers /\ b \in Address /\ b # a /\ g.mem[b] = h.mem[b]
    BY <1>1, <1>2
  <2>2. /\ h.mem[b].index = GetIndex(h.mem[b].realsize - TAG)
        /\ h.mem[b].splitnext # NULL => h.mem[h.mem[b].splitnext].index = Allocated
    BY <1>1, <2>1 DEF Merged
  <2>3. h.mem[b].splitnext # NULL => h.mem[b].splitnext \in Address /\ h.mem[b].splitnext # a
    BY <1>1, <1>3, <2>1 DEF Chained
  <2> QED
    BY <1>2, <2>1, <2>2, <2>3
<1>5. Held(g, f) /\ a \notin DOMAIN f
  BY <1>1, <1>2, <1>3 DEF Held
<1>6. RightDone(g, a)
  BY <1>2 DEF RightDone, IsFree
<1>7. Bounded(g) /\ CountsBounded(g)
  BY <1>2, <1>3 DEF Struct, CountsBounded
<1> QED
  BY <1>2, <1>3, <1>4, <1>5, <1>6, <1>7 DEF g, a

LEMMA MallocStruct ==
    ASSUME NEW h, Struct(h), Merged(h, NULL), NEW f, Held(h, f), CountsBounded(h),
           NEW size \in Size, HasRoom(h, size)
    PROVE  LET g == Malloc(h, size).heap
               a == Malloc(h, size).tag
           IN
           /\ g \in HeapType /\ CountsBounded(g) /\ g.cut = h.cut
           /\ a \in Address
           /\ g.broken = "no" =>
                 /\ Struct(g) /\ Merged(g, NULL) /\ Held(g, f)
                 /\ a \in g.headers /\ a \notin DOMAIN f /\ g.mem[a].index = Allocated
                 /\ TAG + size <= g.mem[a].realsize
<1> DEFINE k == Served(h, size).heap
           a == Served(h, size).tag
           s == Split(k, a, size)
           g == Malloc(h, size).heap
<1>1. /\ a \in Address /\ k \in HeapType /\ Bounded(k) /\ CountsBounded(k)
      /\ k.cut = h.cut
      /\ k.broken = "no" =>
            /\ Struct(k) /\ Merged(k, NULL) /\ Held(k, f) /\ a \in k.headers
            /\ k.mem[a].index = Allocated /\ RightDone(k, a) /\ a \notin DOMAIN f
            /\ size + TAG <= k.mem[a].realsize
  <2>1. CASE Found(h, size) # NULL
    <3> DEFINE b == Found(h, size)
    <3>1. k = Take(h, b, size) /\ a = b
      BY <2>1 DEF Served
    <3>2. h \in HeapType
      BY DEF Struct
    <3>3. b \in Address /\ size + TAG <= h.mem[b].realsize
      BY <2>1, <3>2, FoundIs
    <3> HIDE DEF k, a, b
    <3> QED
      BY <3>1, <3>3, TakeServes
  <2>2. CASE Found(h, size) = NULL
    <3>1. Served(h, size) = NewRegion(h, size)
      BY <2>2 DEF Served
    <3>2. Bases(h, RegionPages(size + TAG)) # {}
      BY <2>2 DEF HasRoom
    <3> QED
      BY <3>1, <3>2, RegionServes
  <2> QED
    BY <2>1, <2>2
<1> HIDE DEF k, a
<1>2. /\ s \in HeapType /\ s.cut = k.cut
      /\ s.complete = k.complete /\ (s.broken = "no" => k.broken = "no")
  BY <1>1, SplitIs
<1>3. k.broken = "no" =>
         /\ Struct(s) /\ Merged(s, NULL) /\ Held(s, f)
         /\ a \in s.headers /\ s.mem[a].index = Allocated /\ TAG + size <= s.mem[a].realsize
  <2> SUFFICES ASSUME k.broken = "no"
               PROVE  /\ Struct(s) /\ Merged(s, NULL) /\ Held(s, f)
                      /\ a \in s.headers /\ s.mem[a].index = Allocated
                      /\ TAG + size <= s.mem[a].realsize
    OBVIOUS
  <2>1. /\ Struct(k) /\ Merged(k, NULL) /\ Held(k, f) /\ a \in k.headers
        /\ k.mem[a].index = Allocated /\ RightDone(k, a) /\ a \notin DOMAIN f
        /\ size + TAG <= k.mem[a].realsize
    BY <1>1
  <2> QED
    BY <2>1, SplitMerged
<1>4. s = Split(k, a, size)
  OBVIOUS
<1> HIDE DEF s
<1>5. /\ Malloc(h, size).tag = a
      /\ g \in HeapType /\ g.mem = s.mem /\ g.headers = s.headers
      /\ g.frames = s.frames /\ g.intact = s.intact /\ g.complete = s.complete /\ g.cut = s.cut
      /\ g.broken = "no" => s.broken = "no"
  <2>1. s = Split(Served(h, size).heap, Served(h, size).tag, size)
    BY <1>4 DEF k, a
  <2>2. g.broken = IF Strays(h, size) THEN "astray" ELSE s.broken
    BY <1>2, <2>1, MallocIs
  <2>3. /\ Malloc(h, size).tag = a
        /\ g \in HeapType /\ g.mem = s.mem /\ g.headers = s.headers
        /\ g.frames = s.frames /\ g.intact = s.intact /\ g.complete = s.complete /\ g.cut = s.cut
    BY <1>2, <2>1, MallocIs DEF a
  <2> HIDE DEF g
  <2> QED
    BY <2>2, <2>3
<1> HIDE DEF g
<1>6. CountsBounded(g) /\ g.cut = h.cut
  BY <1>1, <1>2, <1>5 DEF CountsBounded
<1>7. ASSUME g.broken = "no"
      PROVE  /\ Struct(g) /\ Merged(g, NULL) /\ Held(g, f)
             /\ a \in g.headers /\ a \notin DOMAIN f /\ g.mem[a].index = Allocated
             /\ TAG + size <= g.mem[a].realsize
  <2>1. k.broken = "no"
    BY <1>2, <1>5, <1>7
  <2>2. /\ Struct(s) /\ Merged(s, NULL) /\ Held(s, f) /\ a \notin DOMAIN f
        /\ a \in s.headers /\ s.mem[a].index = Allocated /\ TAG + size <= s.mem[a].realsize
    BY <1>1, <1>3, <2>1
  <2>3. Alike(g, s)
    BY <1>5 DEF Alike
  <2>4. Struct(g)
    BY <2>2, <2>3, AlikeStruct
  <2>5. Merged(g, NULL) /\ Held(g, f)
    BY <1>5, <2>2 DEF Merged, Held
  <2> QED
    BY <1>5, <2>2, <2>4, <2>5
<1> QED
  BY <1>1, <1>5, <1>6, <1>7 DEF g

-----------------------------------------------------------------------------
(* The invariant.                                                          *)

\* Between two calls, as long as the heap is not broken, the blocks tile their
\* regions, free neighbours are one block, and the program's blocks are those
\* marked as in use.
Sound ==
    /\ heap \in HeapType /\ CountsBounded(heap)
    /\ DOMAIN blocks \subseteq Address /\ \A b \in DOMAIN blocks : blocks[b] \in Nat \ {0}
    /\ broken = "no" => Struct(heap) /\ Merged(heap, NULL) /\ Held(heap, blocks)

LEMMA HeapFields ==
    /\ heap.mem = mem /\ heap.first = freePages /\ heap.complete = completePages
    /\ heap.frames = frames /\ heap.headers = headers /\ heap.intact = intact
    /\ heap.cut = cut /\ heap.broken = broken
BY DEF heap

\* No tag reaches into the data of a block: what fills the blocks leaves the tags.
LEMMA TagsOutlast ==
    ASSUME NEW h, Struct(h), NEW f, Held(h, f)
    PROVE  h.headers \subseteq Outlasting(h.intact, Data(f))
<1>1. /\ h \in HeapType /\ Chained(h) /\ h.headers \subseteq Address /\ Address \subseteq Nat
      /\ h.headers \subseteq h.intact /\ TAG \in Nat \ {0}
  BY Sizes DEF Struct, HeapType, Address, Clean, Astray
<1> SUFFICES ASSUME NEW c \in h.headers, NEW b \in DOMAIN f, NEW x \in Units(c),
                    x \in b + TAG .. b + TAG + f[b] - 1
             PROVE  FALSE
  BY <1>1 DEF Data, Outlasting
<1>2. /\ b \in h.headers /\ b \in Nat /\ b \in Address /\ f[b] \in Nat /\ c \in Nat
      /\ TAG + f[b] <= h.mem[b].realsize
  BY <1>1 DEF Held
<1>3. h.mem[b].realsize \in Nat /\ h.mem[c].realsize \in Nat /\ h.mem[c].realsize > TAG
  <2>1. h.mem[b].realsize \in 0 .. Limit /\ h.mem[c].realsize \in 0 .. Limit
    BY <1>1, <1>2, TagIs
  <2> QED
    BY <1>1, <2>1 DEF Chained
<1>4. x \in Int /\ c <= x /\ x < c + TAG /\ b + TAG <= x /\ x < b + TAG + f[b]
  BY <1>1, <1>2 DEF Units
<1>5. b < c
  <2> SUFFICES ASSUME c < b PROVE FALSE
    BY <1>1, <1>2, <1>4
  <2>1. c + h.mem[c].realsize <= b
    BY <1>1, <1>2 DEF Chained, End
  <2> QED
    BY <1>1, <1>2, <1>3, <1>4, <2>1
<1>6. b + h.mem[b].realsize <= c
  BY <1>1, <1>2, <1>5 DEF Chained, End
<1> QED
  BY <1>1, <1>2, <1>3, <1>4, <1>6

\* The program may fill its blocks: that does not matter to the tags of a block.
LEMMA FillIs ==
    ASSUME NEW h \in HeapType, NEW f
    PROVE  LET g == Fill(h, f) IN
           /\ g \in HeapType /\ g.mem = h.mem /\ g.first = h.first /\ g.headers = h.headers
           /\ g.frames = h.frames /\ g.complete = h.complete /\ g.cut = h.cut
           /\ g.broken = h.broken /\ g.intact = Outlasting(h.intact, Data(f))
<1> DEFINE w == Outlasting(h.intact, Data(f))
           g == [h EXCEPT !.intact = w]
<1>1. w \subseteq Address
  BY DEF HeapType, Outlasting
<1>2. Fill(h, f) = g
  BY DEF Fill
<1>3. w = Outlasting(h.intact, Data(f))
  OBVIOUS
<1> HIDE DEF w
<1>4. /\ g \in HeapType /\ g.mem = h.mem /\ g.first = h.first /\ g.headers = h.headers
      /\ g.frames = h.frames /\ g.complete = h.complete /\ g.cut = h.cut
      /\ g.broken = h.broken /\ g.intact = w
  BY <1>1 DEF HeapType
<1> QED
  BY <1>2, <1>3, <1>4

\* Nor does it matter to them what becomes of the tags that were overwritten.
LEMMA Wiped ==
    ASSUME NEW h, Struct(h), Merged(h, NULL), NEW f, Held(h, f), NEW g \in HeapType,
           g.headers = h.headers, g.frames = h.frames,
           g.intact = Outlasting(h.intact, Data(f)),
           \A a \in Address : g.mem[a] = h.mem[a] \/ (a \notin g.intact /\ g.mem[a] = NoTag)
    PROVE  Struct(g) /\ Merged(g, NULL) /\ Held(g, f)
<1>1. /\ h \in HeapType /\ Bounded(h) /\ Chained(h) /\ Covered(h) /\ Unmarked(h)
      /\ h.headers \subseteq Address /\ NULL \notin Address
  BY ClassOf DEF Struct, HeapType
<1>2. h.headers \subseteq g.intact
  BY TagsOutlast
<1>3. \A a \in h.headers : a \in Address /\ g.mem[a] = h.mem[a] /\ End(g, a) = End(h, a)
  BY <1>1, <1>2 DEF End
<1>4. \A a \in h.headers : /\ h.mem[a].splitnext # NULL => h.mem[a].splitnext \in h.headers
                           /\ h.mem[a].splitprev # NULL => h.mem[a].splitprev \in h.headers
  BY <1>1 DEF Chained
<1>5. Bounded(g)
  <2> SUFFICES ASSUME NEW a \in Address PROVE End(g, a) <= Limit /\ Fits(g.mem[a].realsize)
    BY DEF Bounded
  <2>1. CASE g.mem[a] = NoTag
    <3>1. g.mem[a].realsize = 0
      BY <2>1 DEF NoTag
    <3> QED
      BY <3>1, Sizes DEF End, Fits, Address, Limit
  <2>2. CASE g.mem[a] = h.mem[a]
    BY <1>1, <2>2 DEF Bounded, End
  <2> QED
    BY <2>1, <2>2
<1>6. Chained(g)
  BY <1>1, <1>3, <1>4 DEF Chained
<1>7. Covered(g)
  BY <1>1, <1>3 DEF Covered
<1>8. Unmarked(g)
  BY <1>1 DEF Unmarked, NoTag
<1>9. \E base, limit \in Bound : Regions(g, base, limit)
  <2>1. PICK base \in Bound, limit \in Bound : Regions(h, base, limit)
    BY DEF Struct
  <2>2. Regions(g, base, limit)
    BY <1>3, <2>1 DEF Regions
  <2> QED
    BY <2>2
<1>10. Merged(g, NULL)
  BY <1>1, <1>3, <1>4 DEF Merged
<1>11. Held(g, f)
  BY <1>3 DEF Held
<1>12. Clean(g)
  BY <1>2 DEF Clean, Astray
<1> QED
  BY <1>5, <1>6, <1>7, <1>8, <1>9, <1>10, <1>11, <1>12 DEF Struct

LEMMA FillSound ==
    ASSUME NEW h, Struct(h), Merged(h, NULL), CountsBounded(h), NEW f, Held(h, f)
    PROVE  LET g == Fill(h, f) IN
           Struct(g) /\ Merged(g, NULL) /\ Held(g, f) /\ CountsBounded(g)
<1>1. h \in HeapType
  BY DEF Struct
<1> DEFINE g == Fill(h, f)
<1>2. /\ g \in HeapType /\ g.mem = h.mem /\ g.headers = h.headers /\ g.frames = h.frames
      /\ g.complete = h.complete /\ g.intact = Outlasting(h.intact, Data(f))
  BY <1>1, FillIs
<1> HIDE DEF g
<1>3. CountsBounded(g)
  BY <1>2 DEF CountsBounded
<1> QED
  BY <1>2, <1>3, Wiped DEF g

LEMMA BecomeIs ==
    ASSUME NEW h, h \in HeapType, Become(h)
    PROVE  /\ heap' \in HeapType /\ heap'.first = h.first /\ heap'.complete = h.complete
           /\ heap'.frames = h.frames /\ heap'.headers = h.headers
           /\ cut' = h.cut /\ broken' = h.broken
           /\ heap'.intact = Outlasting(h.intact, Data(blocks'))
           /\ \A a \in Address : heap'.mem[a] = IF a \in heap'.intact THEN h.mem[a] ELSE NoTag
<1> DEFINE w == Outlasting(h.intact, Data(blocks'))
<1>1. w \in SUBSET Address
  BY DEF HeapType, Outlasting
<1>2. Fill(h, blocks').intact = w
  BY FillIs
<1> HIDE DEF w
<1>3. /\ intact' = w /\ mem' = [a \in Address |-> IF a \in w THEN h.mem[a] ELSE NoTag]
      /\ freePages' = h.first /\ completePages' = h.complete /\ frames' = h.frames
      /\ headers' = h.headers /\ cut' = h.cut /\ broken' = h.broken
  BY <1>2 DEF Become
<1>4. NoTag \in TagType
  BY ClassOf, Sizes DEF NoTag, TagType, Limit
<1>5. mem' \in [Address -> TagType]
  <2>1. h.mem \in [Address -> TagType]
    BY DEF HeapType
  <2> QED
    BY <1>3, <1>4, <2>1
<1>6. heap' = [mem |-> mem', intact |-> intact', first |-> freePages',
               complete |-> completePages', frames |-> frames', headers |-> headers',
               cut |-> cut', broken |-> broken']
  BY DEF heap
<1>7. heap' \in HeapType
  BY <1>1, <1>3, <1>5, <1>6 DEF HeapType
<1>8. /\ heap'.mem = mem' /\ heap'.first = freePages' /\ heap'.complete = completePages'
      /\ heap'.frames = frames' /\ heap'.headers = headers' /\ heap'.intact = intact'
  BY <1>6
<1> QED
  BY <1>3, <1>7, <1>8 DEF w

\* What a call leaves is sound.
LEMMA BecomeSound ==
    ASSUME NEW h, h \in HeapType, Become(h), CountsBounded(h),
           DOMAIN blocks' \subseteq Address, \A b \in DOMAIN blocks' : blocks'[b] \in Nat \ {0},
           h.broken = "no" => Struct(h) /\ Merged(h, NULL) /\ Held(h, blocks')
    PROVE  Sound'
<1> DEFINE f == blocks'
           g == heap'
<1>1. /\ g \in HeapType /\ g.complete = h.complete
      /\ g.frames = h.frames /\ g.headers = h.headers
      /\ broken' = h.broken
      /\ g.intact = Outlasting(h.intact, Data(f))
      /\ \A a \in Address : g.mem[a] = h.mem[a] \/ (a \notin g.intact /\ g.mem[a] = NoTag)
  BY BecomeIs
<1>2. CountsBounded(g)
  BY <1>1 DEF CountsBounded
<1>3. broken' = "no" => Struct(g) /\ Merged(g, NULL) /\ Held(g, f)
  <2> HIDE DEF g, f
  <2>1. h.broken = "no" => Struct(h) /\ Merged(h, NULL) /\ Held(h, f)
    BY DEF f
  <2> QED
    BY <1>1, <2>1, Wiped
<1> QED
  BY <1>1, <1>2, <1>3 DEF Sound, CountsBounded, Struct, Merged, Held, Bounded, Chained, Covered,
      Unmarked, Regions, End, Clean, Astray

-----------------------------------------------------------------------------
(* The calls keep it.                                                      *)

LEMMA HoldIs ==
    ASSUME NEW f, NEW a \in Address, NEW size \in Nat \ {0},
           DOMAIN f \subseteq Address, \A b \in DOMAIN f : f[b] \in Nat \ {0}
    PROVE  /\ DOMAIN Hold(f, a, size) = DOMAIN f \cup {a}
           /\ \A b \in DOMAIN Hold(f, a, size) :
                 /\ Hold(f, a, size)[b] = IF b = a THEN size ELSE f[b]
                 /\ Hold(f, a, size)[b] \in Nat \ {0}
           /\ DOMAIN Hold(f, a, size) \subseteq Address
BY DEF Hold

LEMMA DropIs ==
    ASSUME NEW f, NEW a, DOMAIN f \subseteq Address, \A b \in DOMAIN f : f[b] \in Nat \ {0}
    PROVE  /\ DOMAIN Drop(f, a) = DOMAIN f \ {a}
           /\ \A b \in DOMAIN Drop(f, a) :
                 Drop(f, a)[b] = f[b] /\ Drop(f, a)[b] \in Nat \ {0}
           /\ DOMAIN Drop(f, a) \subseteq Address
BY DEF Drop

LEMMA HoldHeld ==
    ASSUME NEW h, NEW f, Held(h, f), NEW a \in h.headers, h.mem[a].index = Allocated,
           NEW size \in Nat \ {0}, TAG + size <= h.mem[a].realsize
    PROVE  Held(h, Hold(f, a, size))
BY DEF Held, Hold

LEMMA DropHeld ==
    ASSUME NEW h, NEW f, Held(h, f), NEW a
    PROVE  Held(h, Drop(f, a))
BY DEF Held, Drop

LEMMA InitSound ==
    ASSUME Init
    PROVE  Sound
<1>1. NoTag \in TagType /\ NULL \in Link
  BY ClassOf, Sizes DEF NoTag, TagType, Limit
<1>3. heap \in HeapType
  <2>1. mem \in [Address -> TagType]
    BY <1>1 DEF Init
  <2>2. freePages \in [Class -> Link] /\ completePages \in [Class -> Int]
    BY <1>1 DEF Init
  <2>3. /\ frames \in SUBSET (0 .. FRAMES - 1) /\ headers \in SUBSET Address
        /\ cut \in BOOLEAN /\ broken \in Outcome /\ intact \in SUBSET Address
    BY DEF Init, Outcome
  <2> QED
    BY <2>1, <2>2, <2>3 DEF heap, HeapType
<1>4. CountsBounded(heap)
  BY SizesAssumption, HeapFields DEF Init, CountsBounded
<1>5. heap.headers = {} /\ heap.frames = {} /\ DOMAIN blocks = {}
  BY HeapFields DEF Init
<1>6. \A a \in Address : heap.mem[a].realsize = 0 /\ heap.mem[a].index = Allocated
  BY HeapFields DEF Init, NoTag
<1> HIDE DEF heap
<1>7. Bounded(heap)
  BY <1>6, Sizes DEF Bounded, End, Fits, Address, Limit
<1>8. Chained(heap) /\ Covered(heap) /\ Unmarked(heap) /\ Clean(heap)
  BY <1>5, <1>6 DEF Chained, Covered, Unmarked, Clean
<1>9. \E base, limit \in Bound : Regions(heap, base, limit)
  <2> DEFINE zero == [a \in Address |-> 0]
  <2>1. zero \in Bound
    BY Sizes DEF Bound
  <2>2. Regions(heap, zero, zero)
    BY <1>5 DEF Regions
  <2> QED
    BY <2>1, <2>2
<1>10. Struct(heap) /\ Merged(heap, NULL) /\ Held(heap, blocks)
  BY <1>3, <1>5, <1>7, <1>8, <1>9 DEF Struct, Merged, Held
<1> QED
  BY <1>3, <1>4, <1>5, <1>10 DEF Sound

LEMMA CallMallocSound ==
    ASSUME Sound, NEW size \in Size, CallMalloc(size)
    PROVE  Sound'
<1> DEFINE g == Malloc(heap, size).heap
           a == Malloc(heap, size).tag
<1>1. /\ broken = "no" /\ HasRoom(heap, size)
      /\ blocks' = Hold(blocks, a, size) /\ Become(g)
  BY DEF CallMalloc
<1>2. /\ Struct(heap) /\ Merged(heap, NULL) /\ Held(heap, blocks) /\ CountsBounded(heap)
      /\ DOMAIN blocks \subseteq Address /\ \A b \in DOMAIN blocks : blocks[b] \in Nat \ {0}
  BY <1>1 DEF Sound
<1>3. size \in Nat \ {0}
  BY Sizes, SizesAssumption
<1>4. /\ g \in HeapType /\ CountsBounded(g) /\ a \in Address
      /\ g.broken = "no" =>
            /\ Struct(g) /\ Merged(g, NULL) /\ Held(g, blocks)
            /\ a \in g.headers /\ g.mem[a].index = Allocated
            /\ TAG + size <= g.mem[a].realsize
  <2> HIDE DEF heap
  <2> QED
    BY <1>1, <1>2, MallocStruct
<1> HIDE DEF g, a, heap
<1>5. /\ DOMAIN blocks' \subseteq Address /\ \A b \in DOMAIN blocks' : blocks'[b] \in Nat \ {0}
      /\ Held(g, blocks) /\ g.broken = "no" => Held(g, blocks')
  BY <1>1, <1>2, <1>3, <1>4, HoldIs, HoldHeld
<1> QED
  BY <1>1, <1>4, <1>5, BecomeSound

LEMMA CallFreeSound ==
    ASSUME Sound, NEW b \in Address, CallFree(b)
    PROVE  Sound'
<1> DEFINE g == Free(heap, b)
<1>1. /\ broken = "no" /\ b \in DOMAIN blocks /\ blocks' = Drop(blocks, b) /\ Become(g)
  BY DEF CallFree
<1>2. /\ Struct(heap) /\ Merged(heap, NULL) /\ Held(heap, blocks)
      /\ CountsBounded(heap)
      /\ DOMAIN blocks \subseteq Address /\ \A c \in DOMAIN blocks : blocks[c] \in Nat \ {0}
  BY <1>1 DEF Sound
<1>3. /\ DOMAIN blocks' = DOMAIN blocks \ {b}
      /\ DOMAIN blocks' \subseteq Address /\ \A c \in DOMAIN blocks' : blocks'[c] \in Nat \ {0}
      /\ Held(heap, blocks')
  BY <1>1, <1>2, DropIs, DropHeld
<1>4. b \in heap.headers /\ b \notin DOMAIN blocks'
  BY <1>1, <1>2, <1>3 DEF Held
<1>5. /\ Struct(g) /\ Merged(g, NULL) /\ Held(g, blocks') /\ CountsBounded(g)
  <2> HIDE DEF heap
  <2> QED
    BY <1>2, <1>3, <1>4, FreeStruct
<1>6. g \in HeapType
  BY <1>5 DEF Struct
<1> HIDE DEF g
<1> QED
  BY <1>1, <1>3, <1>5, <1>6, BecomeSound

\* A block that is as large as it is asked to be is marked and large enough still.
LEMMA InPlaceHeld ==
    ASSUME Sound, NEW b \in Address, NEW size \in Size, ReallocInPlace(b, size)
    PROVE  /\ DOMAIN blocks' \subseteq Address /\ \A c \in DOMAIN blocks' : blocks'[c] \in Nat \ {0}
           /\ Held(heap, blocks')
<1>1. /\ broken = "no" /\ b \in DOMAIN blocks
      /\ size <= mem[b].realsize - TAG /\ blocks' = Hold(blocks, b, size)
  BY DEF ReallocInPlace
<1>2. /\ heap \in HeapType /\ Struct(heap) /\ Merged(heap, NULL) /\ Held(heap, blocks)
      /\ CountsBounded(heap)
      /\ DOMAIN blocks \subseteq Address /\ \A c \in DOMAIN blocks : blocks[c] \in Nat \ {0}
  BY <1>1 DEF Sound
<1>3. size \in Nat \ {0}
  BY Sizes, SizesAssumption
<1>4. /\ DOMAIN blocks' \subseteq Address /\ \A c \in DOMAIN blocks' : blocks'[c] \in Nat \ {0}
  BY <1>1, <1>2, <1>3, HoldIs
<1>5. Held(heap, blocks')
  <2>1. heap.mem[b].realsize \in Nat /\ TAG \in Nat /\ size <= heap.mem[b].realsize - TAG
    <3>1. heap.mem[b].realsize \in 0 .. Limit
      BY <1>2, TagIs
    <3> QED
      BY <1>1, <3>1, Sizes, HeapFields
  <2>2. TAG + size <= heap.mem[b].realsize
    BY <1>3, <2>1
  <2>3. b \in heap.headers /\ heap.mem[b].index = Allocated
    BY <1>1, <1>2 DEF Held
  <2> HIDE DEF heap
  <2> QED
    BY <1>1, <1>2, <1>3, <2>2, <2>3, HoldHeld
<1> QED
  BY <1>4, <1>5

LEMMA InPlaceSound ==
    ASSUME Sound, NEW b \in Address, NEW size \in Size, ReallocInPlace(b, size)
    PROVE  Sound'
<1>1. broken = "no" /\ Become(heap)
  BY DEF ReallocInPlace
<1>2. heap \in HeapType /\ Struct(heap) /\ Merged(heap, NULL) /\ CountsBounded(heap)
  BY <1>1 DEF Sound
<1>3. /\ DOMAIN blocks' \subseteq Address /\ \A c \in DOMAIN blocks' : blocks'[c] \in Nat \ {0}
      /\ Held(heap, blocks')
  BY InPlaceHeld
<1> HIDE DEF heap
<1> QED
  BY <1>1, <1>2, <1>3, BecomeSound

LEMMA MovesSound ==
    ASSUME Sound, NEW b \in Address, NEW size \in Size, ReallocMoves(b, size)
    PROVE  Sound'
<1> DEFINE k == Malloc(heap, size).heap
           a == Malloc(heap, size).tag
           h == Fill(k, blocks')
           g == IF k.broken = "no" THEN Free(h, b) ELSE k
<1>1. /\ broken = "no" /\ b \in DOMAIN blocks /\ HasRoom(heap, size)
      /\ blocks' = Hold(Drop(blocks, b), a, size) /\ Become(g)
  BY DEF ReallocMoves
<1>2. /\ Struct(heap) /\ Merged(heap, NULL) /\ Held(heap, blocks) /\ CountsBounded(heap)
      /\ DOMAIN blocks \subseteq Address /\ \A c \in DOMAIN blocks : blocks[c] \in Nat \ {0}
  BY <1>1 DEF Sound
<1>3. size \in Nat \ {0}
  BY Sizes, SizesAssumption
<1>4. /\ k \in HeapType /\ CountsBounded(k) /\ a \in Address
      /\ k.broken = "no" =>
            /\ Struct(k) /\ Merged(k, NULL) /\ Held(k, blocks)
            /\ a \in k.headers /\ a \notin DOMAIN blocks /\ k.mem[a].index = Allocated
            /\ TAG + size <= k.mem[a].realsize
  <2> HIDE DEF heap
  <2> QED
    BY <1>1, <1>2, MallocStruct
<1> HIDE DEF k, a, heap
<1> DEFINE f == Drop(blocks, b)
<1>5. /\ DOMAIN f = DOMAIN blocks \ {b}
      /\ DOMAIN f \subseteq Address /\ \A c \in DOMAIN f : f[c] \in Nat \ {0}
      /\ Held(k, blocks) => Held(k, f)
  BY <1>2, DropIs, DropHeld
<1>6. blocks' = Hold(f, a, size)
  BY <1>1
<1> HIDE DEF f
<1>7. /\ DOMAIN blocks' = DOMAIN f \cup {a}
      /\ DOMAIN blocks' \subseteq Address /\ \A c \in DOMAIN blocks' : blocks'[c] \in Nat \ {0}
  BY <1>3, <1>4, <1>5, <1>6, HoldIs
<1>8. CASE k.broken # "no"
  <2>1. g = k
    BY <1>8
  <2> HIDE DEF g
  <2> QED
    BY <1>1, <1>4, <1>7, <1>8, <2>1, BecomeSound
<1>9. CASE k.broken = "no"
  <2>1. Held(k, f)
    BY <1>4, <1>5, <1>9
  <2>2. Held(k, blocks')
    BY <1>3, <1>4, <1>6, <1>9, <2>1, HoldHeld
  <2>4. /\ Struct(h) /\ Merged(h, NULL) /\ Held(h, blocks') /\ CountsBounded(h)
        /\ h.headers = k.headers
    BY <1>4, <1>9, <2>2, FillIs, FillSound
  <2>5. b \in h.headers
    BY <1>1, <1>4, <1>9, <2>4 DEF Held
  <2>6. b \notin DOMAIN blocks'
    BY <1>1, <1>4, <1>5, <1>7, <1>9
  <2>7. g = Free(h, b)
    BY <1>9
  <2> HIDE DEF h, g
  <2>8. Struct(g) /\ Merged(g, NULL) /\ Held(g, blocks') /\ CountsBounded(g)
    BY <2>4, <2>5, <2>6, <2>7, FreeStruct
  <2>9. g \in HeapType
    BY <2>8 DEF Struct
  <2> QED
    BY <1>1, <1>7, <2>8, <2>9, BecomeSound
<1> QED
  BY <1>8, <1>9

LEMMA StepSound ==
    ASSUME Sound, [Next]_vars
    PROVE  Sound'
<1>1. ASSUME vars' = vars PROVE Sound'
  BY <1>1 DEF vars, Sound, heap, CountsBounded, Struct, Merged, Held, Bounded, Chained, Covered,
      Unmarked, Regions, End, Clean, Astray
<1>2. ASSUME NEW size \in Size, CallMalloc(size) PROVE Sound'
  BY <1>2, CallMallocSound
<1>3. ASSUME NEW b \in Address, CallFree(b) PROVE Sound'
  BY <1>3, CallFreeSound
<1>4. ASSUME NEW b \in Address, NEW size \in Size, ReallocInPlace(b, size) PROVE Sound'
  BY <1>4, InPlaceSound
<1>5. ASSUME NEW b \in Address, NEW size \in Size, ReallocMoves(b, size) PROVE Sound'
  BY <1>5, MovesSound
<1>6. ASSUME Stopped PROVE Sound'
  BY <1>1, <1>6 DEF Stopped
<1> QED
  BY <1>1, <1>2, <1>3, <1>4, <1>5, <1>6 DEF Next

LEMMA AlwaysSound == Spec => []Sound
BY InitSound, StepSound, PTL DEF Spec

-----------------------------------------------------------------------------
(* The theorems on blocks.                                                 *)

LEMMA FirstOfFrame ==
    ASSUME NEW c \in 0 .. FRAMES - 1
    PROVE  c * FRAME_SIZE \in Address /\ (c * FRAME_SIZE) \div FRAME_SIZE = c
<1>1. c \in Nat /\ c \in Int /\ FRAMES \in Int /\ c < FRAMES
  BY Sizes
<1>2. /\ c * FRAME_SIZE \in Nat /\ FRAMES * FRAME_SIZE \in Nat /\ FRAME_SIZE \in Nat \ {0}
      /\ (c * FRAME_SIZE) \div FRAME_SIZE = c
  BY <1>1, Multiples, Sizes
<1>3. c * FRAME_SIZE + FRAME_SIZE <= FRAMES * FRAME_SIZE
  BY <1>1, Multiples, Zenon
<1> DEFINE x == c * FRAME_SIZE
           y == FRAMES * FRAME_SIZE
<1>4. x \in Nat /\ y \in Nat /\ x + FRAME_SIZE <= y
  BY <1>2, <1>3
<1> HIDE DEF x, y
<1>5. x \in 0 .. y - 1
  BY <1>2, <1>4
<1> QED
  BY <1>2, <1>5 DEF Address, x, y

\* As long as the heap is not broken, the blocks that malloc, free and realloc
\* make tile the regions the heap has, each behind its tag, and the links
\* between neighbours lead there and back.  The variables keep their types.
THEOREM BlocksAlwaysTile == Spec => []BlocksTile
<1>1. ASSUME Sound PROVE BlocksTile
  <2>1. heap \in HeapType /\ CountsBounded(heap) /\ DOMAIN blocks \subseteq Address
    BY <1>1 DEF Sound
  <2>2. TypeOK
    BY <2>1, HeapFields DEF TypeOK, CountsBounded, HeapType, TagType, Index, Link, Limit, Outcome
  <2>3. ASSUME broken = "no"
        PROVE  /\ \A a \in headers :
                     LET t == mem[a] IN
                     /\ t.realsize >= TAG
                     /\ (a .. a + t.realsize - 1) \cap headers = {a}
                     /\ t.splitnext # NULL => /\ t.splitnext = a + t.realsize
                                              /\ t.splitnext \in headers
                                              /\ mem[t.splitnext].splitprev = a
                     /\ t.splitnext = NULL => (a + t.realsize) % FRAME_SIZE = 0
               /\ \A x \in Address : x \div FRAME_SIZE \in frames <=>
                     \E a \in headers : a <= x /\ x < a + mem[a].realsize
    <3>1. /\ Chained(heap) /\ Covered(heap) /\ headers \subseteq Address /\ Address \subseteq Nat
          /\ \E base, limit \in Bound : Regions(heap, base, limit)
      BY <1>1, <2>1, <2>3, HeapFields DEF Sound, Struct, HeapType, Address
    <3>2. ASSUME NEW a \in headers
          PROVE  /\ mem[a].realsize >= TAG
                 /\ (a .. a + mem[a].realsize - 1) \cap headers = {a}
                 /\ mem[a].splitnext # NULL => /\ mem[a].splitnext = a + mem[a].realsize
                                               /\ mem[a].splitnext \in headers
                                               /\ mem[mem[a].splitnext].splitprev = a
                 /\ mem[a].splitnext = NULL => (a + mem[a].realsize) % FRAME_SIZE = 0
      <4>1. a \in Nat /\ a \in Address /\ mem[a].realsize \in 0 .. Limit /\ TAG \in Nat \ {0}
        BY <2>1, <3>1, TagIs, HeapFields, Sizes
      <4>2. mem[a].realsize > TAG /\ \A b \in headers : a < b => a + mem[a].realsize <= b
        BY <3>1, HeapFields DEF Chained, End
      <4>3. mem[a].splitnext # NULL => /\ mem[a].splitnext = a + mem[a].realsize
                                       /\ mem[a].splitnext \in headers
                                       /\ mem[mem[a].splitnext].splitprev = a
        BY <3>1, HeapFields DEF Chained, End
      <4>4. ASSUME NEW b \in headers, b \in a .. a + mem[a].realsize - 1 PROVE b = a
        <5>1. b \in Nat
          BY <3>1
        <5> QED
          BY <4>1, <4>2, <4>4, <5>1
      <4>5. a \in a .. a + mem[a].realsize - 1
        BY <4>1, <4>2
      <4>6. mem[a].splitnext = NULL => (a + mem[a].realsize) % FRAME_SIZE = 0
        <5> SUFFICES ASSUME mem[a].splitnext = NULL PROVE (a + mem[a].realsize) % FRAME_SIZE = 0
          OBVIOUS
        <5>1. PICK base \in Bound, limit \in Bound : Regions(heap, base, limit)
          BY <3>1
        <5>2. a + mem[a].realsize = limit[a] * FRAME_SIZE
          BY <5>1, HeapFields DEF Regions, End
        <5>3. limit[a] \in 0 .. FRAMES
          BY <4>1, <5>1 DEF Bound
        <5> QED
          <6>1. limit[a] \in Nat
            BY <5>3, Sizes
          <6>2. (limit[a] * FRAME_SIZE) % FRAME_SIZE = 0
            BY <6>1, Multiples, Zenon
          <6> QED
            BY <5>2, <6>2
      <4> QED
        BY <4>1, <4>2, <4>3, <4>4, <4>5, <4>6
    <3>3. \A x \in Address : x \div FRAME_SIZE \in frames <=>
              \E a \in headers : a <= x /\ x < a + mem[a].realsize
      BY <3>1, HeapFields DEF Covered, End
    <3> QED
      BY <3>2, <3>3
  <2> QED
    BY <2>2, <2>3 DEF BlocksTile
<1> QED
  BY <1>1, AlwaysSound, PTL

\* As long as the heap is not broken, each block the program holds is marked as
\* in use, and what malloc promised of it overlaps no tag, no other block and
\* no frame that is not the heap's.
THEOREM BlocksAlwaysDisjoint == Spec => []BlocksDisjoint
<1>1. ASSUME Sound PROVE BlocksDisjoint
  <2> SUFFICES ASSUME broken = "no", NEW b \in DOMAIN blocks
               PROVE  /\ b \in headers /\ mem[b].index = Allocated
                      /\ \A a \in headers \cup {c * FRAME_SIZE : c \in (0 .. FRAMES) \ frames} :
                            a <= b \/ a >= b + TAG + blocks[b]
    BY DEF BlocksDisjoint
  <2>1. /\ heap \in HeapType /\ Chained(heap) /\ Covered(heap) /\ Bounded(heap)
        /\ Held(heap, blocks)
    BY <1>1 DEF Sound, Struct
  <2>2. /\ b \in headers /\ b \in Address /\ b \in Nat /\ mem[b].index = Allocated
        /\ blocks[b] \in Nat \ {0} /\ TAG + blocks[b] <= mem[b].realsize
    BY <2>1, HeapFields DEF Held, HeapType, Address
  <2>3. TAG \in Nat /\ mem[b].realsize \in Nat
    <3>1. mem[b].realsize \in 0 .. Limit
      BY <2>1, <2>2, TagIs, HeapFields
    <3> QED
      BY <3>1, Sizes
  <2> DEFINE e == b + mem[b].realsize
  <2>4. e \in Nat /\ b + TAG + blocks[b] <= e /\ End(heap, b) = e
    BY <2>2, <2>3, HeapFields DEF End
  <2>5. ASSUME NEW a \in headers PROVE a <= b \/ a >= b + TAG + blocks[b]
    <3>1. a \in Nat
      BY <2>1, HeapFields DEF HeapType, Address
    <3>2. b < a => e <= a
      BY <2>1, <2>2, <2>4, HeapFields DEF Chained
    <3> HIDE DEF e
    <3> QED
      BY <2>2, <2>3, <2>4, <3>1, <3>2
  <2>6. ASSUME NEW c \in (0 .. FRAMES) \ frames
        PROVE  c * FRAME_SIZE <= b \/ c * FRAME_SIZE >= b + TAG + blocks[b]
    <3> DEFINE x == c * FRAME_SIZE
    <3>1. x \in Int /\ c \in Nat /\ FRAMES \in Nat
      BY Multiples, Sizes
    <3>2. e <= Limit /\ Limit \in Int
      BY <2>1, <2>2, <2>4, Sizes DEF Bounded, Limit
    <3>3. CASE c = FRAMES
      <4>1. x = Limit
        BY <3>3 DEF Limit
      <4> HIDE DEF x, e
      <4> QED
        BY <2>2, <2>3, <2>4, <3>1, <3>2, <4>1 DEF x
    <3>4. CASE c # FRAMES
      <4>1. c \in 0 .. FRAMES - 1
        BY <3>1, <3>4
      <4>2. x \in Address /\ x \div FRAME_SIZE = c
        BY <4>1, FirstOfFrame
      <4>3. ~ (b <= x /\ x < e)
        BY <2>1, <2>2, <2>4, <4>2, HeapFields DEF Covered
      <4> HIDE DEF x, e
      <4> QED
        BY <2>2, <2>3, <2>4, <3>1, <4>3 DEF x
    <3> QED
      BY <3>3, <3>4
  <2> QED
    BY <2>2, <2>5, <2>6
<1> QED
  BY <1>1, AlwaysSound, PTL

\* As long as the heap is not broken, splitting and merging leave no two free
\* neighbours, and a free block is in the class of its size.
THEOREM FreeAlwaysMerged == Spec => []FreeIsMerged
<1>1. ASSUME Sound PROVE FreeIsMerged
  <2> SUFFICES ASSUME broken = "no", NEW a \in headers, mem[a].index # Allocated
               PROVE  /\ mem[a].index = GetIndex(mem[a].realsize - TAG)
                      /\ mem[a].splitnext # NULL => mem[mem[a].splitnext].index = Allocated
    BY DEF FreeIsMerged
  <2>1. Merged(heap, NULL) /\ a # NULL
    BY <1>1, ClassOf, HeapFields DEF Sound, HeapType
  <2> QED
    BY <2>1, HeapFields DEF Merged
<1> QED
  BY <1>1, AlwaysSound, PTL

-----------------------------------------------------------------------------
(* The lists, until free first cuts one.                                   *)

LEMMA StraysAlike ==
    ASSUME NEW g, NEW h, Around(g, h)
    PROVE  \A a : Astray(g, a) <=> Astray(h, a)
BY DEF Around, Astray

\* What a tag is told of its neighbours in a list.
LEMMA UnlinkTies ==
    ASSUME NEW h \in HeapType, NEW a \in Address
    PROVE  LET g == Unlink(h, a)
               p == h.mem[a].prev
               n == h.mem[a].next
           IN
           /\ Same(g, h) /\ p \in Link /\ n \in Link
           /\ \A j \in Class : g.first[j] = IF j = h.mem[a].index /\ h.first[j] = a THEN n
                                            ELSE h.first[j]
           /\ \A b \in Address : /\ g.mem[b].prev = IF b = n THEN p ELSE h.mem[b].prev
                                 /\ g.mem[b].next = IF b = p THEN n ELSE h.mem[b].next
           /\ (p = NULL \/ ~ Astray(h, p)) /\ (n = NULL \/ ~ Astray(h, n)) => g.broken = h.broken
<1> DEFINE p == h.mem[a].prev
           n == h.mem[a].next
           i == h.mem[a].index
           f == Behead(h, a)
           e == Set(f, p, "next", n)
           g == Set(e, n, "prev", p)
<1>1. p \in Link /\ n \in Link
  BY TagIs
<1>2. /\ Same(f, h) /\ Unlink(h, a) = g /\ f.mem = h.mem /\ f.broken = h.broken
      /\ \A j \in Class : f.first[j] = IF j = i /\ h.first[j] = a THEN n ELSE h.first[j]
  BY BeheadIs
<1>3. f \in HeapType
  BY <1>2 DEF Same, Around
<1> HIDE DEF p, n, i, f, g
<1>4. /\ Around(e, f) /\ Same(e, f) /\ e.first = f.first
      /\ p = NULL \/ ~ Astray(f, p) => e.broken = f.broken
      /\ \A b \in Address : /\ e.mem[b].next = IF b = p THEN n ELSE f.mem[b].next
                            /\ e.mem[b].prev = f.mem[b].prev
  BY <1>1, <1>3, SetNext, NextIsSame
<1>5. e \in HeapType
  BY <1>4 DEF Around
<1>6. g = Set(e, n, "prev", p)
  BY DEF g
<1> HIDE DEF e
<1>7. /\ Around(g, e) /\ Same(g, e) /\ g.first = e.first
      /\ n = NULL \/ ~ Astray(e, n) => g.broken = e.broken
      /\ \A b \in Address : /\ g.mem[b].prev = IF b = n THEN p ELSE e.mem[b].prev
                            /\ g.mem[b].next = e.mem[b].next
  BY <1>1, <1>5, <1>6, SetPrev, PrevIsSame
<1>8. Same(g, h)
  BY <1>2, <1>4, <1>7, SameAgain
<1>9. \A b : (Astray(f, b) <=> Astray(h, b)) /\ (Astray(e, b) <=> Astray(h, b))
  BY <1>2, <1>4, StraysAlike DEF Same
<1>10. /\ \A j \in Class : g.first[j] = IF j = i /\ h.first[j] = a THEN n ELSE h.first[j]
       /\ \A b \in Address : /\ g.mem[b].prev = IF b = n THEN p ELSE h.mem[b].prev
                             /\ g.mem[b].next = IF b = p THEN n ELSE h.mem[b].next
       /\ (p = NULL \/ ~ Astray(h, p)) /\ (n = NULL \/ ~ Astray(h, n)) => g.broken = h.broken
  BY <1>2, <1>4, <1>7, <1>9
<1> QED
  BY <1>1, <1>2, <1>8, <1>10 DEF p, n, i

LEMMA CutTiesTies ==
    ASSUME NEW h \in HeapType, NEW a \in Address
    PROVE  LET g == CutTies(h, a) IN
           /\ Same(g, h) /\ g.first = h.first
           /\ \A b \in Address : /\ g.mem[b].prev = IF b = a THEN NULL ELSE h.mem[b].prev
                                 /\ g.mem[b].next = IF b = a THEN NULL ELSE h.mem[b].next
           /\ ~ Astray(h, a) => g.broken = h.broken
<1> DEFINE f == Set(h, a, "prev", NULL)
           g == Set(f, a, "next", NULL)
<1>1. a \in Link /\ NULL \in Link /\ CutTies(h, a) = g
  BY DEF Link, CutTies
<1>2. /\ Around(f, h) /\ Same(f, h) /\ f.first = h.first
      /\ ~ Astray(h, a) => f.broken = h.broken
      /\ \A b \in Address : /\ f.mem[b].prev = IF b = a THEN NULL ELSE h.mem[b].prev
                            /\ f.mem[b].next = h.mem[b].next
  BY <1>1, SetPrev, PrevIsSame
<1>3. f \in HeapType
  BY <1>2 DEF Around
<1> HIDE DEF f
<1>4. /\ Around(g, f) /\ Same(g, f) /\ g.first = f.first
      /\ ~ Astray(f, a) => g.broken = f.broken
      /\ \A b \in Address : /\ g.mem[b].next = IF b = a THEN NULL ELSE f.mem[b].next
                            /\ g.mem[b].prev = f.mem[b].prev
  BY <1>1, <1>3, SetNext, NextIsSame
<1> HIDE DEF g
<1>5. Same(g, h) /\ (Astray(f, a) <=> Astray(h, a))
  BY <1>2, <1>4, SameAgain, StraysAlike
<1> QED
  BY <1>1, <1>2, <1>4, <1>5

\* A tag out of its list, its ties cut.
LEMMA UntiedTies ==
    ASSUME NEW h \in HeapType, NEW a \in Address
    PROVE  LET g == CutTies(Unlink(h, a), a)
               p == h.mem[a].prev
               n == h.mem[a].next
           IN
           /\ Same(g, h)
           /\ \A j \in Class : g.first[j] = IF j = h.mem[a].index /\ h.first[j] = a THEN n
                                            ELSE h.first[j]
           /\ \A b \in Address :
                 /\ g.mem[b].prev = IF b = a THEN NULL ELSE IF b = n THEN p ELSE h.mem[b].prev
                 /\ g.mem[b].next = IF b = a THEN NULL ELSE IF b = p THEN n ELSE h.mem[b].next
           /\ /\ p = NULL \/ ~ Astray(h, p)
              /\ n = NULL \/ ~ Astray(h, n)
              /\ ~ Astray(h, a)
              => g.broken = h.broken
<1> DEFINE p == h.mem[a].prev
           n == h.mem[a].next
           i == h.mem[a].index
           f == Unlink(h, a)
           g == CutTies(f, a)
<1>1. /\ Same(f, h)
      /\ \A j \in Class : f.first[j] = IF j = i /\ h.first[j] = a THEN n ELSE h.first[j]
      /\ \A b \in Address : /\ f.mem[b].prev = IF b = n THEN p ELSE h.mem[b].prev
                            /\ f.mem[b].next = IF b = p THEN n ELSE h.mem[b].next
      /\ (p = NULL \/ ~ Astray(h, p)) /\ (n = NULL \/ ~ Astray(h, n)) => f.broken = h.broken
  BY UnlinkTies
<1>2. f \in HeapType
  BY <1>1 DEF Same, Around
<1> HIDE DEF f, p, n, i
<1>3. /\ Same(g, f) /\ g.first = f.first
      /\ \A b \in Address : /\ g.mem[b].prev = IF b = a THEN NULL ELSE f.mem[b].prev
                            /\ g.mem[b].next = IF b = a THEN NULL ELSE f.mem[b].next
      /\ ~ Astray(f, a) => g.broken = f.broken
  BY <1>2, CutTiesTies
<1> HIDE DEF g
<1>4. Same(g, h) /\ (Astray(f, a) <=> Astray(h, a))
  BY <1>1, <1>3, SameAgain, StraysAlike DEF Same
<1>5. /\ \A j \in Class : g.first[j] = IF j = i /\ h.first[j] = a THEN n ELSE h.first[j]
      /\ \A b \in Address :
            /\ g.mem[b].prev = IF b = a THEN NULL ELSE IF b = n THEN p ELSE h.mem[b].prev
            /\ g.mem[b].next = IF b = a THEN NULL ELSE IF b = p THEN n ELSE h.mem[b].next
      /\ (p = NULL \/ ~ Astray(h, p)) /\ (n = NULL \/ ~ Astray(h, n)) /\ ~ Astray(h, a)
         => g.broken = h.broken
  BY <1>1, <1>3, <1>4
<1> QED
  BY <1>4, <1>5 DEF f, g, p, n, i

LEMMA PushTies ==
    ASSUME NEW h \in HeapType, NEW a \in Address, NEW i \in Class
    PROVE  LET g == Push(h, a, i)
               n == h.first[i]
           IN
           /\ Same(g, h) /\ n \in Link
           /\ \A j \in Class : g.first[j] = IF j = i THEN a ELSE h.first[j]
           /\ \A b \in Address :
                 /\ g.mem[b].prev = IF b = n THEN a ELSE h.mem[b].prev
                 /\ g.mem[b].next = IF b = a /\ n # NULL THEN n ELSE h.mem[b].next
           /\ n = NULL \/ (~ Astray(h, n) /\ ~ Astray(h, a)) => g.broken = h.broken
<1> DEFINE n == h.first[i]
           f == Set(h, a, "next", n)
           e == Set(f, n, "prev", a)
           k == IF n # NULL THEN e ELSE h
           g == SetFirst(k, i, a)
<1>1. n \in Link /\ a \in Link /\ Push(h, a, i) = g /\ NULL \notin Address
  BY ClassOf DEF HeapType, Push, Link
<1> HIDE DEF n
<1>2. /\ Around(f, h) /\ Same(f, h) /\ f.first = h.first
      /\ ~ Astray(h, a) => f.broken = h.broken
      /\ \A b \in Address : /\ f.mem[b].next = IF b = a THEN n ELSE h.mem[b].next
                            /\ f.mem[b].prev = h.mem[b].prev
  BY <1>1, SetNext, NextIsSame
<1>3. f \in HeapType
  BY <1>2 DEF Around
<1> HIDE DEF f
<1>4. /\ Around(e, f) /\ Same(e, f) /\ e.first = f.first
      /\ n = NULL \/ ~ Astray(f, n) => e.broken = f.broken
      /\ \A b \in Address : /\ e.mem[b].prev = IF b = n THEN a ELSE f.mem[b].prev
                            /\ e.mem[b].next = f.mem[b].next
  BY <1>1, <1>3, SetPrev, PrevIsSame
<1> HIDE DEF e
<1>5. Same(e, h) /\ (Astray(f, n) <=> Astray(h, n))
  BY <1>2, <1>4, SameAgain, StraysAlike
<1>6. /\ Same(k, h) /\ k.first = h.first
      /\ n = NULL \/ (~ Astray(h, n) /\ ~ Astray(h, a)) => k.broken = h.broken
      /\ \A b \in Address : /\ k.mem[b].prev = IF b = n THEN a ELSE h.mem[b].prev
                            /\ k.mem[b].next = IF b = a /\ n # NULL THEN n ELSE h.mem[b].next
  <2>1. CASE n # NULL
    <3>1. k = e
      BY <2>1
    <3> HIDE DEF k
    <3> QED
      BY <1>2, <1>4, <1>5, <2>1, <3>1
  <2>2. CASE n = NULL
    <3>1. k = h
      BY <2>2
    <3> HIDE DEF k
    <3> QED
      BY <1>1, <2>2, <3>1, SameSelf
  <2> QED
    BY <2>1, <2>2
<1>7. k \in HeapType
  BY <1>6 DEF Same, Around
<1> HIDE DEF k
<1>8. /\ Same(g, k) /\ g.mem = k.mem /\ g.broken = k.broken
      /\ \A j \in Class : g.first[j] = IF j = i THEN a ELSE k.first[j]
  BY <1>1, <1>7, SetFirstIs
<1> HIDE DEF g
<1>9. Same(g, h)
  BY <1>6, <1>8, SameAgain
<1> QED
  BY <1>1, <1>6, <1>8, <1>9 DEF n

\* The lists are linked both ways, lead from each class to its free tags only,
\* and hold no circle: the rank of tags grows along them.
Linked(h, rank) ==
    /\ rank \in [Address -> Nat]
    /\ \A i \in Class : h.first[i] # NULL =>
          /\ h.first[i] \in h.headers
          /\ h.mem[h.first[i]].index = i /\ h.mem[h.first[i]].prev = NULL
    /\ \A a \in h.headers :
          /\ h.mem[a].index = Allocated => h.mem[a].prev = NULL /\ h.mem[a].next = NULL
          /\ h.mem[a].index # Allocated /\ h.mem[a].prev = NULL => h.first[h.mem[a].index] = a
          /\ h.mem[a].prev # NULL =>
                /\ h.mem[a].prev \in h.headers
                /\ h.mem[h.mem[a].prev].index = h.mem[a].index
                /\ h.mem[h.mem[a].prev].next = a /\ rank[h.mem[a].prev] < rank[a]
          /\ h.mem[a].next # NULL =>
                /\ h.mem[a].next \in h.headers
                /\ h.mem[h.mem[a].next].index = h.mem[a].index
                /\ h.mem[h.mem[a].next].prev = a

LEMMA LinkedAlike ==
    ASSUME NEW g, NEW h, NEW rank, Linked(h, rank), g.headers = h.headers,
           g.first = h.first,
           \A a \in h.headers : /\ g.mem[a].index = h.mem[a].index
                                /\ g.mem[a].prev = h.mem[a].prev
                                /\ g.mem[a].next = h.mem[a].next
    PROVE  Linked(g, rank)
<1>1. \A i \in Class : g.first[i] # NULL =>
          /\ g.first[i] \in g.headers
          /\ g.mem[g.first[i]].index = i /\ g.mem[g.first[i]].prev = NULL
  BY DEF Linked
<1>2. ASSUME NEW a \in g.headers
      PROVE  /\ g.mem[a].index = Allocated => g.mem[a].prev = NULL /\ g.mem[a].next = NULL
             /\ g.mem[a].index # Allocated /\ g.mem[a].prev = NULL
                => g.first[g.mem[a].index] = a
             /\ g.mem[a].prev # NULL =>
                   /\ g.mem[a].prev \in g.headers
                   /\ g.mem[g.mem[a].prev].index = g.mem[a].index
                   /\ g.mem[g.mem[a].prev].next = a /\ rank[g.mem[a].prev] < rank[a]
             /\ g.mem[a].next # NULL =>
                   /\ g.mem[a].next \in g.headers
                   /\ g.mem[g.mem[a].next].index = g.mem[a].index
                   /\ g.mem[g.mem[a].next].prev = a
  BY DEF Linked
<1> QED
  BY <1>1, <1>2 DEF Linked

\* A tag that is taken out of its list.
LEMMA UntiedLinked ==
    ASSUME NEW h \in HeapType, NEW rank, Linked(h, rank), NEW a \in h.headers, NEW g,
           g.headers = h.headers,
           \A j \in Class : g.first[j] = IF j = h.mem[a].index /\ h.first[j] = a THEN h.mem[a].next
                                         ELSE h.first[j],
           \A b \in Address :
              /\ g.mem[b].index = IF b = a THEN Allocated ELSE h.mem[b].index
              /\ g.mem[b].prev = IF b = a THEN NULL ELSE IF b = h.mem[a].next THEN h.mem[a].prev
                                 ELSE h.mem[b].prev
              /\ g.mem[b].next = IF b = a THEN NULL ELSE IF b = h.mem[a].prev THEN h.mem[a].next
                                 ELSE h.mem[b].next
    PROVE  Linked(g, rank)
<1> DEFINE p == h.mem[a].prev
           n == h.mem[a].next
           i == h.mem[a].index
<1>1. /\ h.headers \subseteq Address /\ NULL \notin Address /\ Allocated \notin Class
      /\ a \in Address
      /\ \A b \in Address : h.mem[b].index # Allocated => h.mem[b].index \in Class
  BY TagIs, ClassOf DEF HeapType
<1>2. rank \in [Address -> Nat]
  BY DEF Linked
<1>3. \A j \in Class : h.first[j] # NULL =>
          /\ h.first[j] \in h.headers
          /\ h.mem[h.first[j]].index = j /\ h.mem[h.first[j]].prev = NULL
  BY DEF Linked
<1>4. \A b \in h.headers :
          /\ h.mem[b].index = Allocated => h.mem[b].prev = NULL /\ h.mem[b].next = NULL
          /\ h.mem[b].index # Allocated /\ h.mem[b].prev = NULL => h.first[h.mem[b].index] = b
          /\ h.mem[b].prev # NULL =>
                /\ h.mem[b].prev \in h.headers
                /\ h.mem[h.mem[b].prev].index = h.mem[b].index
                /\ h.mem[h.mem[b].prev].next = b /\ rank[h.mem[b].prev] < rank[b]
          /\ h.mem[b].next # NULL =>
                /\ h.mem[b].next \in h.headers
                /\ h.mem[h.mem[b].next].index = h.mem[b].index
                /\ h.mem[h.mem[b].next].prev = b
  BY DEF Linked
<1>5. p # NULL => /\ p \in h.headers /\ h.mem[p].index = i /\ h.mem[p].next = a
                  /\ rank[p] < rank[a] /\ p # a
  <2>1. p # NULL => p \in h.headers /\ h.mem[p].index = i /\ h.mem[p].next = a /\ rank[p] < rank[a]
    BY <1>4
  <2>2. rank[a] \in Nat
    BY <1>1, <1>2
  <2> HIDE DEF p, n, i
  <2> QED
    BY <2>1, <2>2
<1>6. n # NULL => /\ n \in h.headers /\ h.mem[n].index = i /\ h.mem[n].prev = a
                  /\ rank[a] < rank[n] /\ n # a /\ n # p
  <2>1. n # NULL => n \in h.headers /\ h.mem[n].index = i /\ h.mem[n].prev = a
    BY <1>4
  <2>2. n # NULL => rank[a] < rank[n]
    <3> HIDE DEF p, n, i
    <3> QED
      BY <1>1, <1>4, <2>1
  <2>3. /\ rank[a] \in Nat /\ (p # NULL => rank[p] \in Nat)
    BY <1>1, <1>2, <1>5
  <2> HIDE DEF p, n, i
  <2> QED
    BY <1>5, <2>1, <2>2, <2>3
<1>7. p # NULL \/ n # NULL => i # Allocated
  BY <1>4
<1>8. /\ p = NULL /\ i # Allocated => h.first[i] = a
      /\ i # Allocated => i \in Class
  BY <1>1, <1>4
<1>9. /\ \A j \in Class : g.first[j] = IF j = i /\ h.first[j] = a THEN n ELSE h.first[j]
      /\ \A b \in Address :
            /\ g.mem[b].index = IF b = a THEN Allocated ELSE h.mem[b].index
            /\ g.mem[b].prev = IF b = a THEN NULL ELSE IF b = n THEN p ELSE h.mem[b].prev
            /\ g.mem[b].next = IF b = a THEN NULL ELSE IF b = p THEN n ELSE h.mem[b].next
  OBVIOUS
<1>10. h.mem[a].prev = p /\ h.mem[a].next = n /\ h.mem[a].index = i
  OBVIOUS
<1> HIDE DEF p, n, i
<1>11. ASSUME NEW j \in Class, g.first[j] # NULL
       PROVE  /\ g.first[j] \in g.headers
              /\ g.mem[g.first[j]].index = j /\ g.mem[g.first[j]].prev = NULL
  <2>1. CASE j = i /\ h.first[j] = a
    <3>1. g.first[j] = n /\ n # NULL /\ p = NULL
      BY <1>3, <1>9, <1>10, <1>11, <2>1, <1>1
    <3> QED
      BY <1>1, <1>6, <1>9, <2>1, <3>1
  <2>2. CASE ~ (j = i /\ h.first[j] = a)
    <3> DEFINE c == h.first[j]
    <3>1. g.first[j] = c /\ c # NULL /\ c \in h.headers /\ h.mem[c].index = j /\ h.mem[c].prev = NULL
      BY <1>3, <1>9, <1>11, <2>2
    <3>2. c # a
      BY <1>10, <2>2, <3>1
    <3>3. c # n
      BY <1>1, <1>6, <3>1
    <3> HIDE DEF c
    <3> QED
      BY <1>1, <1>9, <3>1, <3>2, <3>3
  <2> QED
    BY <2>1, <2>2
<1>12. ASSUME NEW b \in g.headers
       PROVE  /\ g.mem[b].index = Allocated => g.mem[b].prev = NULL /\ g.mem[b].next = NULL
              /\ g.mem[b].index # Allocated /\ g.mem[b].prev = NULL => g.first[g.mem[b].index] = b
              /\ g.mem[b].prev # NULL =>
                    /\ g.mem[b].prev \in g.headers
                    /\ g.mem[g.mem[b].prev].index = g.mem[b].index
                    /\ g.mem[g.mem[b].prev].next = b /\ rank[g.mem[b].prev] < rank[b]
              /\ g.mem[b].next # NULL =>
                    /\ g.mem[b].next \in g.headers
                    /\ g.mem[g.mem[b].next].index = g.mem[b].index
                    /\ g.mem[g.mem[b].next].prev = b
  <2>1. CASE b = a
    BY <1>1, <1>9, <2>1
  <2>2. CASE b # a
    <3>1. b \in h.headers /\ b \in Address /\ b # NULL /\ g.mem[b].index = h.mem[b].index
      BY <1>1, <1>9, <2>2
    <3>2. /\ g.mem[b].prev = IF b = n THEN p ELSE h.mem[b].prev
          /\ g.mem[b].next = IF b = p THEN n ELSE h.mem[b].next
      BY <1>9, <2>2, <3>1
    <3>3. g.mem[b].index = Allocated => g.mem[b].prev = NULL /\ g.mem[b].next = NULL
      BY <1>4, <1>5, <1>6, <1>7, <3>1, <3>2
    <3>4. ASSUME g.mem[b].index # Allocated, g.mem[b].prev = NULL
          PROVE  g.first[g.mem[b].index] = b
      <4>1. h.mem[b].index \in Class
        BY <1>1, <3>1, <3>4
      <4>2. CASE b = n
        <5>1. p = NULL /\ h.mem[b].index = i /\ i # Allocated
          BY <1>6, <1>7, <3>1, <3>2, <3>4, <4>2
        <5> QED
          BY <1>8, <1>9, <3>1, <4>1, <4>2, <5>1
      <4>3. CASE b # n
        <5>1. h.first[h.mem[b].index] = b
          BY <1>4, <3>1, <3>2, <3>4, <4>3
        <5> QED
          BY <1>9, <2>2, <3>1, <4>1, <5>1
      <4> QED
        BY <4>2, <4>3
    <3>5. ASSUME g.mem[b].prev # NULL
          PROVE  /\ g.mem[b].prev \in g.headers
                 /\ g.mem[g.mem[b].prev].index = g.mem[b].index
                 /\ g.mem[g.mem[b].prev].next = b /\ rank[g.mem[b].prev] < rank[b]
      <4>1. CASE b = n
        <5>1. g.mem[b].prev = p /\ p # NULL /\ p \in Address /\ p # a
          BY <1>1, <1>5, <3>2, <3>5, <4>1
        <5>2. rank[p] < rank[b]
          <6>1. rank[p] \in Nat /\ rank[a] \in Nat /\ rank[b] \in Nat
            BY <1>1, <1>2, <3>1, <5>1
          <6> QED
            BY <1>5, <1>6, <3>1, <4>1, <5>1, <6>1
        <5> QED
          BY <1>5, <1>6, <1>9, <3>1, <4>1, <5>1, <5>2
      <4>2. CASE b # n
        <5> DEFINE q == h.mem[b].prev
        <5>1. /\ g.mem[b].prev = q /\ q # NULL /\ q \in h.headers /\ q \in Address
              /\ h.mem[q].index = h.mem[b].index /\ h.mem[q].next = b /\ rank[q] < rank[b]
          BY <1>1, <1>4, <3>1, <3>2, <3>5, <4>2
        <5> HIDE DEF q
        <5>2. q # a
          BY <1>10, <4>2, <5>1
        <5>3. q # p
          BY <1>5, <2>2, <5>1
        <5> QED
          BY <1>9, <3>1, <5>1, <5>2, <5>3
      <4> QED
        BY <4>1, <4>2
    <3>6. ASSUME g.mem[b].next # NULL
          PROVE  /\ g.mem[b].next \in g.headers
                 /\ g.mem[g.mem[b].next].index = g.mem[b].index
                 /\ g.mem[g.mem[b].next].prev = b
      <4>1. CASE b = p
        <5>1. g.mem[b].next = n /\ n # NULL /\ n \in Address /\ n # a
          BY <1>1, <1>6, <3>2, <3>6, <4>1
        <5> QED
          BY <1>5, <1>6, <1>9, <3>1, <4>1, <5>1
      <4>2. CASE b # p
        <5> DEFINE y == h.mem[b].next
        <5>1. /\ g.mem[b].next = y /\ y # NULL /\ y \in h.headers /\ y \in Address
              /\ h.mem[y].index = h.mem[b].index /\ h.mem[y].prev = b
          BY <1>1, <1>4, <3>1, <3>2, <3>6, <4>2
        <5> HIDE DEF y
        <5>2. y # a
          BY <1>10, <4>2, <5>1
        <5>3. y # n
          BY <1>6, <2>2, <5>1
        <5> QED
          BY <1>9, <3>1, <5>1, <5>2, <5>3
      <4> QED
        BY <4>1, <4>2
    <3> QED
      BY <3>3, <3>4, <3>5, <3>6
  <2> QED
    BY <2>1, <2>2
<1> QED
  BY <1>2, <1>11, <1>12 DEF Linked

\* A tag in use may be given up.
LEMMA RemovedLinked ==
    ASSUME NEW h \in HeapType, NEW rank, Linked(h, rank), NEW a, h.mem[a].index = Allocated,
           NEW g, g.headers = h.headers \ {a}, g.first = h.first,
           \A b \in g.headers : /\ g.mem[b].index = h.mem[b].index
                                /\ g.mem[b].prev = h.mem[b].prev
                                /\ g.mem[b].next = h.mem[b].next
    PROVE  Linked(g, rank)
<1>1. /\ h.headers \subseteq Address /\ Allocated \notin Class
      /\ \A b \in Address : h.mem[b].index # Allocated => h.mem[b].index \in Class
  BY TagIs, ClassOf DEF HeapType
<1>2. rank \in [Address -> Nat]
  BY DEF Linked
<1>3. \A i \in Class : g.first[i] # NULL =>
          /\ g.first[i] \in g.headers
          /\ g.mem[g.first[i]].index = i /\ g.mem[g.first[i]].prev = NULL
  BY <1>1 DEF Linked
<1>4. ASSUME NEW b \in g.headers
      PROVE  /\ g.mem[b].index = Allocated => g.mem[b].prev = NULL /\ g.mem[b].next = NULL
             /\ g.mem[b].index # Allocated /\ g.mem[b].prev = NULL => g.first[g.mem[b].index] = b
             /\ g.mem[b].prev # NULL =>
                   /\ g.mem[b].prev \in g.headers
                   /\ g.mem[g.mem[b].prev].index = g.mem[b].index
                   /\ g.mem[g.mem[b].prev].next = b /\ rank[g.mem[b].prev] < rank[b]
             /\ g.mem[b].next # NULL =>
                   /\ g.mem[b].next \in g.headers
                   /\ g.mem[g.mem[b].next].index = g.mem[b].index
                   /\ g.mem[g.mem[b].next].prev = b
  <2>1. /\ b \in h.headers /\ b # a /\ g.mem[b].index = h.mem[b].index
        /\ g.mem[b].prev = h.mem[b].prev /\ g.mem[b].next = h.mem[b].next
    BY <1>4
  <2>2. h.mem[b].prev # NULL => h.mem[b].prev \in h.headers /\ h.mem[b].prev # a
    BY <2>1 DEF Linked
  <2>3. h.mem[b].next # NULL => h.mem[b].next \in h.headers /\ h.mem[b].next # a
    BY <2>1 DEF Linked
  <2> QED
    BY <2>1, <2>2, <2>3 DEF Linked
<1> QED
  BY <1>2, <1>3, <1>4 DEF Linked

\* A tag without neighbours becomes the only one of an empty list.
LEMMA FiledLinked ==
    ASSUME NEW h \in HeapType, NEW rank, Linked(h, rank), NEW a \in h.headers,
           h.mem[a].prev = NULL, h.mem[a].next = NULL,
           NEW i \in Class, h.first[i] = NULL, NEW g, g.headers = h.headers,
           \A j \in Class : g.first[j] = IF j = i THEN a
                                         ELSE IF j = h.mem[a].index /\ h.first[j] = a THEN NULL
                                         ELSE h.first[j],
           \A b \in Address : /\ g.mem[b].index = IF b = a THEN i ELSE h.mem[b].index
                              /\ g.mem[b].prev = h.mem[b].prev
                              /\ g.mem[b].next = h.mem[b].next
    PROVE  Linked(g, rank)
<1>1. /\ h.headers \subseteq Address /\ NULL \notin Address /\ Allocated \notin Class
      /\ a \in Address
      /\ \A b \in Address : h.mem[b].index # Allocated => h.mem[b].index \in Class
  BY TagIs, ClassOf DEF HeapType
<1>2. rank \in [Address -> Nat]
  BY DEF Linked
<1>3. ASSUME NEW j \in Class, g.first[j] # NULL
      PROVE  /\ g.first[j] \in g.headers
             /\ g.mem[g.first[j]].index = j /\ g.mem[g.first[j]].prev = NULL
  <2>1. CASE j = i
    BY <1>1, <2>1
  <2>2. CASE j # i
    <3>1. /\ g.first[j] = h.first[j] /\ h.first[j] # NULL /\ ~ (j = h.mem[a].index /\ h.first[j] = a)
      BY <1>3, <2>2
    <3>2. h.first[j] \in h.headers /\ h.mem[h.first[j]].index = j /\ h.mem[h.first[j]].prev = NULL
      BY <3>1 DEF Linked
    <3>3. h.first[j] # a
      BY <3>1, <3>2
    <3> QED
      BY <1>1, <3>1, <3>2, <3>3
  <2> QED
    BY <2>1, <2>2
<1>4. ASSUME NEW b \in g.headers
      PROVE  /\ g.mem[b].index = Allocated => g.mem[b].prev = NULL /\ g.mem[b].next = NULL
             /\ g.mem[b].index # Allocated /\ g.mem[b].prev = NULL => g.first[g.mem[b].index] = b
             /\ g.mem[b].prev # NULL =>
                   /\ g.mem[b].prev \in g.headers
                   /\ g.mem[g.mem[b].prev].index = g.mem[b].index
                   /\ g.mem[g.mem[b].prev].next = b /\ rank[g.mem[b].prev] < rank[b]
             /\ g.mem[b].next # NULL =>
                   /\ g.mem[b].next \in g.headers
                   /\ g.mem[g.mem[b].next].index = g.mem[b].index
                   /\ g.mem[g.mem[b].next].prev = b
  <2>1. CASE b = a
    BY <1>1, <2>1
  <2>2. CASE b # a
    <3>1. /\ b \in h.headers /\ b \in Address /\ b # NULL /\ g.mem[b].index = h.mem[b].index
          /\ g.mem[b].prev = h.mem[b].prev /\ g.mem[b].next = h.mem[b].next
      BY <1>1, <2>2
    <3>2. g.mem[b].index = Allocated => g.mem[b].prev = NULL /\ g.mem[b].next = NULL
      BY <3>1 DEF Linked
    <3>3. ASSUME g.mem[b].index # Allocated, g.mem[b].prev = NULL
          PROVE  g.first[g.mem[b].index] = b
      <4>1. h.mem[b].index \in Class /\ h.first[h.mem[b].index] = b
        BY <1>1, <3>1, <3>3 DEF Linked
      <4>2. h.mem[b].index # i
        BY <3>1, <4>1
      <4> QED
        BY <2>2, <3>1, <4>1, <4>2
    <3>4. ASSUME g.mem[b].prev # NULL
          PROVE  /\ g.mem[b].prev \in g.headers
                 /\ g.mem[g.mem[b].prev].index = g.mem[b].index
                 /\ g.mem[g.mem[b].prev].next = b /\ rank[g.mem[b].prev] < rank[b]
      <4> DEFINE q == h.mem[b].prev
      <4>1. /\ g.mem[b].prev = q /\ q # NULL /\ q \in h.headers /\ q \in Address
            /\ h.mem[q].index = h.mem[b].index /\ h.mem[q].next = b /\ rank[q] < rank[b]
        BY <1>1, <3>1, <3>4 DEF Linked
      <4> HIDE DEF q
      <4>2. q # a
        BY <3>1, <4>1
      <4> QED
        BY <3>1, <4>1, <4>2
    <3>5. ASSUME g.mem[b].next # NULL
          PROVE  /\ g.mem[b].next \in g.headers
                 /\ g.mem[g.mem[b].next].index = g.mem[b].index
                 /\ g.mem[g.mem[b].next].prev = b
      <4> DEFINE y == h.mem[b].next
      <4>1. /\ g.mem[b].next = y /\ y # NULL /\ y \in h.headers /\ y \in Address
            /\ h.mem[y].index = h.mem[b].index /\ h.mem[y].prev = b
        BY <1>1, <3>1, <3>5 DEF Linked
      <4> HIDE DEF y
      <4>2. y # a
        BY <3>1, <4>1
      <4> QED
        BY <3>1, <4>1, <4>2
    <3> QED
      BY <3>2, <3>3, <3>4, <3>5
  <2> QED
    BY <2>1, <2>2
<1> QED
  BY <1>2, <1>3, <1>4 DEF Linked

\* A new tag becomes the first of a list.
LEMMA PushedLinked ==
    ASSUME NEW h \in HeapType, NEW rank, Linked(h, rank), NEW a \in Address, a \notin h.headers,
           NEW i \in Class, NEW g, g.headers = h.headers \cup {a},
           \A j \in Class : g.first[j] = IF j = i THEN a ELSE h.first[j],
           g.mem[a].index = i, g.mem[a].prev = NULL, g.mem[a].next = h.first[i],
           \A b \in h.headers : /\ g.mem[b].index = h.mem[b].index
                                /\ g.mem[b].prev = IF b = h.first[i] THEN a ELSE h.mem[b].prev
                                /\ g.mem[b].next = h.mem[b].next
    PROVE  \E r : Linked(g, r)
<1> DEFINE r == [x \in Address |-> IF x = a THEN 0 ELSE rank[x] + 1]
           n == h.first[i]
<1>1. /\ h.headers \subseteq Address /\ NULL \notin Address /\ Allocated \notin Class
      /\ \A b \in Address : h.mem[b].index # Allocated => h.mem[b].index \in Class
  BY TagIs, ClassOf DEF HeapType
<1>2. rank \in [Address -> Nat]
  BY DEF Linked
<1>3. /\ r \in [Address -> Nat] /\ r[a] = 0
      /\ \A x \in Address : x # a => r[x] = rank[x] + 1
  BY <1>2
<1> HIDE DEF r
<1>4. n # NULL => n \in h.headers /\ h.mem[n].index = i /\ h.mem[n].prev = NULL
  BY DEF Linked
<1>5. n = h.first[i] /\ g.mem[a].next = n
  OBVIOUS
<1>6. \A b \in h.headers : /\ g.mem[b].index = h.mem[b].index
                           /\ g.mem[b].prev = IF b = n THEN a ELSE h.mem[b].prev
                           /\ g.mem[b].next = h.mem[b].next
  OBVIOUS
<1> HIDE DEF n
<1>7. ASSUME NEW j \in Class, g.first[j] # NULL
      PROVE  /\ g.first[j] \in g.headers
             /\ g.mem[g.first[j]].index = j /\ g.mem[g.first[j]].prev = NULL
  <2>1. CASE j = i
    BY <2>1
  <2>2. CASE j # i
    <3>1. /\ g.first[j] = h.first[j] /\ h.first[j] \in h.headers
          /\ h.mem[h.first[j]].index = j /\ h.mem[h.first[j]].prev = NULL
      BY <1>7, <2>2 DEF Linked
    <3>2. h.first[j] # n
      BY <1>1, <1>4, <2>2, <3>1
    <3> QED
      BY <1>6, <3>1, <3>2
  <2> QED
    BY <2>1, <2>2
<1>8. ASSUME NEW b \in g.headers
      PROVE  /\ g.mem[b].index = Allocated => g.mem[b].prev = NULL /\ g.mem[b].next = NULL
             /\ g.mem[b].index # Allocated /\ g.mem[b].prev = NULL => g.first[g.mem[b].index] = b
             /\ g.mem[b].prev # NULL =>
                   /\ g.mem[b].prev \in g.headers
                   /\ g.mem[g.mem[b].prev].index = g.mem[b].index
                   /\ g.mem[g.mem[b].prev].next = b /\ r[g.mem[b].prev] < r[b]
             /\ g.mem[b].next # NULL =>
                   /\ g.mem[b].next \in g.headers
                   /\ g.mem[g.mem[b].next].index = g.mem[b].index
                   /\ g.mem[g.mem[b].next].prev = b
  <2>1. CASE b = a
    <3>1. /\ g.mem[b].index = i /\ g.mem[b].prev = NULL /\ g.mem[b].next = n /\ i # Allocated
          /\ g.first[i] = a
      BY <1>1, <1>5, <2>1
    <3>2. n # NULL => g.mem[n].index = i /\ g.mem[n].prev = a /\ n \in g.headers
      BY <1>4, <1>6
    <3> QED
      BY <2>1, <3>1, <3>2
  <2>2. CASE b # a
    <3>1. /\ b \in h.headers /\ b \in Address /\ b # NULL /\ g.mem[b].index = h.mem[b].index
          /\ g.mem[b].prev = (IF b = n THEN a ELSE h.mem[b].prev)
          /\ g.mem[b].next = h.mem[b].next
      BY <1>1, <1>6, <2>2
    <3>2. g.mem[b].index = Allocated => g.mem[b].prev = NULL /\ g.mem[b].next = NULL
      <4>1. g.mem[b].index = Allocated => b # n
        BY <1>1, <1>4, <3>1
      <4> QED
        BY <3>1, <4>1 DEF Linked
    <3>3. ASSUME g.mem[b].index # Allocated, g.mem[b].prev = NULL
          PROVE  g.first[g.mem[b].index] = b
      <4>1. b # n
        BY <1>1, <3>1, <3>3
      <4>2. h.mem[b].index \in Class /\ h.first[h.mem[b].index] = b
        BY <1>1, <3>1, <3>3, <4>1 DEF Linked
      <4>3. h.mem[b].index # i
        BY <1>5, <4>1, <4>2
      <4> QED
        BY <3>1, <4>2, <4>3
    <3>4. ASSUME g.mem[b].prev # NULL
          PROVE  /\ g.mem[b].prev \in g.headers
                 /\ g.mem[g.mem[b].prev].index = g.mem[b].index
                 /\ g.mem[g.mem[b].prev].next = b /\ r[g.mem[b].prev] < r[b]
      <4>1. CASE b = n
        <5>1. g.mem[b].prev = a /\ g.mem[b].index = i
          BY <1>4, <3>1, <4>1
        <5>2. r[a] < r[b]
          <6>1. r[b] = rank[b] + 1 /\ rank[b] \in Nat /\ r[a] = 0
            BY <1>2, <1>3, <2>2, <3>1
          <6> QED
            BY <6>1
        <5> QED
          BY <1>5, <4>1, <5>1, <5>2
      <4>2. CASE b # n
        <5> DEFINE q == h.mem[b].prev
        <5>1. /\ g.mem[b].prev = q /\ q # NULL /\ q \in h.headers /\ q \in Address
              /\ h.mem[q].index = h.mem[b].index /\ h.mem[q].next = b /\ rank[q] < rank[b]
          BY <1>1, <3>1, <3>4, <4>2 DEF Linked
        <5> HIDE DEF q
        <5>2. q # a
          BY <5>1
        <5>3. r[q] < r[b]
          <6>1. r[b] = rank[b] + 1 /\ rank[b] \in Nat /\ r[q] = rank[q] + 1 /\ rank[q] \in Nat
            BY <1>2, <1>3, <2>2, <3>1, <5>1, <5>2
          <6> QED
            BY <5>1, <6>1
        <5> QED
          BY <1>6, <3>1, <5>1, <5>2, <5>3
      <4> QED
        BY <4>1, <4>2
    <3>5. ASSUME g.mem[b].next # NULL
          PROVE  /\ g.mem[b].next \in g.headers
                 /\ g.mem[g.mem[b].next].index = g.mem[b].index
                 /\ g.mem[g.mem[b].next].prev = b
      <4> DEFINE y == h.mem[b].next
      <4>1. /\ g.mem[b].next = y /\ y # NULL /\ y \in h.headers /\ y \in Address
            /\ h.mem[y].index = h.mem[b].index /\ h.mem[y].prev = b
        BY <1>1, <3>1, <3>5 DEF Linked
      <4> HIDE DEF y
      <4>2. y # n
        BY <1>4, <3>1, <4>1
      <4> QED
        BY <1>6, <3>1, <4>1, <4>2
    <3> QED
      BY <3>2, <3>3, <3>4, <3>5
  <2> QED
    BY <2>1, <2>2
<1>9. Linked(g, r)
  BY <1>3, <1>7, <1>8 DEF Linked
<1> QED
  BY <1>9

\* A new tag that is in use is in no list.
LEMMA AddedLinked ==
    ASSUME NEW h \in HeapType, NEW rank, Linked(h, rank), NEW a \in Address, a \notin h.headers,
           NEW g, g.headers = h.headers \cup {a}, g.first = h.first,
           g.mem[a].index = Allocated, g.mem[a].prev = NULL, g.mem[a].next = NULL,
           \A b \in h.headers : g.mem[b] = h.mem[b]
    PROVE  Linked(g, rank)
<1>1. rank \in [Address -> Nat]
  BY DEF Linked
<1>2. \A i \in Class : g.first[i] # NULL =>
          /\ g.first[i] \in g.headers
          /\ g.mem[g.first[i]].index = i /\ g.mem[g.first[i]].prev = NULL
  BY DEF Linked
<1>3. ASSUME NEW b \in g.headers
      PROVE  /\ g.mem[b].index = Allocated => g.mem[b].prev = NULL /\ g.mem[b].next = NULL
             /\ g.mem[b].index # Allocated /\ g.mem[b].prev = NULL => g.first[g.mem[b].index] = b
             /\ g.mem[b].prev # NULL =>
                   /\ g.mem[b].prev \in g.headers
                   /\ g.mem[g.mem[b].prev].index = g.mem[b].index
                   /\ g.mem[g.mem[b].prev].next = b /\ rank[g.mem[b].prev] < rank[b]
             /\ g.mem[b].next # NULL =>
                   /\ g.mem[b].next \in g.headers
                   /\ g.mem[g.mem[b].next].index = g.mem[b].index
                   /\ g.mem[g.mem[b].next].prev = b
  <2>1. CASE b = a
    BY <2>1
  <2>2. CASE b # a
    BY <2>2 DEF Linked
  <2> QED
    BY <2>1, <2>2
<1> QED
  BY <1>1, <1>2, <1>3 DEF Linked

-----------------------------------------------------------------------------
(* malloc and free keep the lists, until free cuts one.                    *)

\* The tags whose ties an unlinking changes.
LEMMA TiesClean ==
    ASSUME NEW h \in HeapType, NEW rank, Linked(h, rank), Clean(h), NEW a \in h.headers
    PROVE  /\ ~ Astray(h, a)
           /\ h.mem[a].prev = NULL \/ ~ Astray(h, h.mem[a].prev)
           /\ h.mem[a].next = NULL \/ ~ Astray(h, h.mem[a].next)
           /\ a \in Address
BY DEF Linked, Clean, HeapType

LEMMA GoneLinked ==
    ASSUME NEW h \in HeapType, NEW rank, Linked(h, rank), Clean(h), NEW a \in h.headers
    PROVE  Linked(Gone(h, a), rank) /\ Gone(h, a).broken = h.broken
<1> DEFINE c == CutTies(Unlink(h, a), a)
           g == Gone(h, a)
           p == h.mem[a].prev
           n == h.mem[a].next
<1>1. /\ ~ Astray(h, a) /\ (p = NULL \/ ~ Astray(h, p)) /\ (n = NULL \/ ~ Astray(h, n))
      /\ a \in Address /\ a \in Link
  BY TiesClean DEF Link
<1>2. /\ Same(c, h)
      /\ \A j \in Class : c.first[j] = IF j = h.mem[a].index /\ h.first[j] = a THEN n
                                       ELSE h.first[j]
      /\ \A b \in Address :
            /\ c.mem[b].prev = IF b = a THEN NULL ELSE IF b = n THEN p ELSE h.mem[b].prev
            /\ c.mem[b].next = IF b = a THEN NULL ELSE IF b = p THEN n ELSE h.mem[b].next
      /\ c.broken = h.broken
  BY <1>1, UntiedTies
<1>3. g = Set(c, a, "index", Allocated)
  BY DEF Gone
<1> HIDE DEF c, g
<1>4. c \in HeapType /\ Allocated \in Index
  BY <1>2, ClassOf DEF Same, Around
<1>5. /\ Around(g, c) /\ g.first = c.first
      /\ ~ Astray(c, a) => g.broken = c.broken
      /\ \A b \in Address : /\ g.mem[b].index = IF b = a THEN Allocated ELSE c.mem[b].index
                            /\ g.mem[b].prev = c.mem[b].prev
                            /\ g.mem[b].next = c.mem[b].next
  BY <1>1, <1>3, <1>4, SetIndex
<1>6. ~ Astray(c, a)
  BY <1>1, <1>2, StraysAlike DEF Same
<1>7. /\ g.headers = h.headers /\ g.broken = h.broken
      /\ \A j \in Class : g.first[j] = IF j = h.mem[a].index /\ h.first[j] = a THEN n
                                       ELSE h.first[j]
  BY <1>2, <1>5, <1>6 DEF Same, Around
<1>8. \A b \in Address :
         /\ g.mem[b].index = IF b = a THEN Allocated ELSE h.mem[b].index
         /\ g.mem[b].prev = IF b = a THEN NULL ELSE IF b = n THEN p ELSE h.mem[b].prev
         /\ g.mem[b].next = IF b = a THEN NULL ELSE IF b = p THEN n ELSE h.mem[b].next
  BY <1>2, <1>5 DEF Same
<1>9. Linked(g, rank)
  BY <1>7, <1>8, UntiedLinked
<1> QED
  BY <1>7, <1>9 DEF g

LEMMA TakeLinked ==
    ASSUME NEW h \in HeapType, NEW rank, Linked(h, rank), Clean(h), NEW a \in h.headers,
           h.mem[a].index # Allocated, NEW size, GetIndex(size) \in Class
    PROVE  Linked(Take(h, a, size), rank) /\ Take(h, a, size).broken = h.broken
<1> DEFINE c == CutTies(Unlink(h, a), a)
           g == Take(h, a, size)
           p == h.mem[a].prev
           n == h.mem[a].next
<1>1. /\ ~ Astray(h, a) /\ (p = NULL \/ ~ Astray(h, p)) /\ (n = NULL \/ ~ Astray(h, n))
      /\ a \in Address
  BY TiesClean
<1>2. /\ \A j \in Class : c.first[j] = IF j = h.mem[a].index /\ h.first[j] = a THEN n
                                       ELSE h.first[j]
      /\ \A b \in Address :
            /\ c.mem[b].prev = IF b = a THEN NULL ELSE IF b = n THEN p ELSE h.mem[b].prev
            /\ c.mem[b].next = IF b = a THEN NULL ELSE IF b = p THEN n ELSE h.mem[b].next
      /\ c.broken = h.broken
  BY <1>1, UntiedTies
<1>3. /\ g.headers = h.headers /\ g.first = c.first /\ g.broken = c.broken
      /\ \A b \in Address :
            /\ g.mem[b].index = IF b = a THEN Allocated ELSE h.mem[b].index
            /\ g.mem[b].prev = c.mem[b].prev
            /\ g.mem[b].next = c.mem[b].next
  BY <1>1, TakeIs
<1> HIDE DEF c, g
<1>4. /\ \A j \in Class : g.first[j] = IF j = h.mem[a].index /\ h.first[j] = a THEN n
                                       ELSE h.first[j]
      /\ \A b \in Address :
            /\ g.mem[b].index = IF b = a THEN Allocated ELSE h.mem[b].index
            /\ g.mem[b].prev = IF b = a THEN NULL ELSE IF b = n THEN p ELSE h.mem[b].prev
            /\ g.mem[b].next = IF b = a THEN NULL ELSE IF b = p THEN n ELSE h.mem[b].next
  BY <1>2, <1>3
<1>5. Linked(g, rank)
  BY <1>3, <1>4, UntiedLinked
<1> QED
  BY <1>2, <1>3, <1>5 DEF g

LEMMA JoinLinked ==
    ASSUME NEW h, Struct(h), NEW rank, Linked(h, rank), Clean(h),
           NEW left \in h.headers, NEW right \in h.headers, h.mem[left].splitnext = right
    PROVE  LET g == Join(h, left, right) IN
           Linked(g, rank) /\ Clean(g) /\ g.broken = h.broken
<1> DEFINE after == h.mem[right].splitnext
           size  == h.mem[left].realsize + h.mem[right].realsize
           gone  == Gone(h, right)
           grown == Set(gone, left, "realsize", size)
           tied  == Set(grown, left, "splitnext", after)
           back  == Set(tied, after, "splitprev", left)
           g     == [back EXCEPT !.headers = back.headers \ {right}]
<1>1. /\ h \in HeapType /\ h.headers \subseteq Address /\ Chained(h) /\ Bounded(h)
      /\ left \in Address /\ right \in Address /\ left \in Link
      /\ Address \subseteq Nat /\ TAG \in Nat \ {0} /\ NULL \notin Address
  BY Sizes, ClassOf DEF Struct, HeapType, Address, Link
<1>2. /\ after \in Link /\ size \in 0 .. Limit /\ left # right
      /\ after = NULL \/ ~ Astray(h, after)
      /\ ~ Astray(h, left)
  <2>1. h.mem[left].realsize \in 0 .. Limit /\ h.mem[right].realsize \in 0 .. Limit /\ Limit \in Nat
    BY <1>1, TagIs, Sizes DEF Limit
  <2>2. /\ right = left + h.mem[left].realsize /\ right + h.mem[right].realsize <= Limit
        /\ h.mem[left].realsize > TAG
    BY <1>1 DEF Chained, Bounded, End
  <2>3. size \in 0 .. Limit /\ left # right
    BY <1>1, <2>1, <2>2
  <2>4. after = NULL \/ after \in h.headers
    BY <1>1 DEF Chained
  <2>5. after \in Link
    BY <1>1, TagIs
  <2> HIDE DEF after, size
  <2> QED
    BY <2>3, <2>4, <2>5 DEF Clean
<1>3. Join(h, left, right) = g
  BY DEF Join, Gone
<1>4. Around(gone, h) /\ Linked(gone, rank) /\ gone.broken = h.broken
      /\ gone.mem[right].index = Allocated
  BY <1>1, GoneIs, GoneLinked
<1> HIDE DEF after, size, gone
<1>5. gone \in HeapType /\ \A b : Astray(gone, b) <=> Astray(h, b)
  BY <1>4, StraysAlike DEF Around
<1>6. /\ Around(grown, gone) /\ grown.first = gone.first
      /\ ~ Astray(gone, left) => grown.broken = gone.broken
      /\ \A b \in Address : /\ grown.mem[b].index = gone.mem[b].index
                            /\ grown.mem[b].prev = gone.mem[b].prev
                            /\ grown.mem[b].next = gone.mem[b].next
  BY <1>1, <1>2, <1>5, SetRealsize
<1> HIDE DEF grown
<1>7. grown \in HeapType /\ \A b : Astray(grown, b) <=> Astray(gone, b)
  BY <1>6, StraysAlike DEF Around
<1>8. /\ Around(tied, grown) /\ tied.first = grown.first
      /\ ~ Astray(grown, left) => tied.broken = grown.broken
      /\ \A b \in Address : /\ tied.mem[b].index = grown.mem[b].index
                            /\ tied.mem[b].prev = grown.mem[b].prev
                            /\ tied.mem[b].next = grown.mem[b].next
  BY <1>1, <1>2, <1>7, SetSplitnext
<1> HIDE DEF tied
<1>9. tied \in HeapType /\ \A b : Astray(tied, b) <=> Astray(grown, b)
  BY <1>8, StraysAlike DEF Around
<1>10. /\ Around(back, tied) /\ back.first = tied.first
       /\ after = NULL \/ ~ Astray(tied, after) => back.broken = tied.broken
       /\ \A b \in Address : /\ back.mem[b].index = tied.mem[b].index
                             /\ back.mem[b].prev = tied.mem[b].prev
                             /\ back.mem[b].next = tied.mem[b].next
  BY <1>1, <1>2, <1>9, SetSplitprev
<1> HIDE DEF back
<1>11. Around(back, h)
  BY <1>4, <1>6, <1>8, <1>10, AroundAgain
<1>12. back \in HeapType /\ back.headers \ {right} \in SUBSET Address
  BY <1>11 DEF Around, HeapType
<1>13. /\ g.headers = back.headers \ {right} /\ g.mem = back.mem /\ g.first = back.first
       /\ g.frames = back.frames /\ g.intact = back.intact /\ g.broken = back.broken
  BY <1>12, SetHeaders
<1> HIDE DEF g
<1>14. /\ g.headers = gone.headers \ {right} /\ g.headers = h.headers \ {right}
       /\ g.first = gone.first
       /\ \A b \in Address : /\ g.mem[b].index = gone.mem[b].index
                             /\ g.mem[b].prev = gone.mem[b].prev
                             /\ g.mem[b].next = gone.mem[b].next
  BY <1>4, <1>6, <1>8, <1>10, <1>11, <1>13 DEF Around
<1>15. Linked(g, rank)
  <2>1. \A b \in g.headers : b \in Address
    BY <1>1, <1>14
  <2> QED
    BY <1>4, <1>5, <1>14, <2>1, RemovedLinked
<1>16. Clean(g)
  <2>1. g.intact = h.intact /\ g.frames = h.frames
    BY <1>11, <1>13 DEF Around
  <2> QED
    BY <1>14, <2>1 DEF Clean, Astray
<1>17. g.broken = h.broken
  BY <1>2, <1>4, <1>5, <1>6, <1>7, <1>8, <1>9, <1>10, <1>13
<1> QED
  BY <1>3, <1>15, <1>16, <1>17

\* free's loops.
LEMMA MergeLinked ==
    ASSUME NEW h, Struct(h), Merged(h, NULL), NEW b \in h.headers, NEW f, Held(h, f),
           b \notin DOMAIN f, NEW rank, Linked(h, rank), Clean(h)
    PROVE  LET left == MergeLeft(h, b)
               m    == MergeRight(left.heap, left.tag)
           IN
           Linked(m, rank) /\ Clean(m) /\ m.broken = h.broken
<1> DEFINE left == MergeLeft(h, b)
           k    == left.heap
           a    == left.tag
           m    == MergeRight(k, a)
<1>1. /\ left = JoinLeft([heap |-> h, tag |-> b])
      /\ Struct(k) /\ a \in k.headers /\ Merged(k, a) /\ LeftDone(k, a)
      /\ Held(k, f) /\ a \notin DOMAIN f
  BY MergeLeftIs
<1>2. /\ \A x \in h.headers : h.mem[x].splitprev # NULL =>
            h.mem[x].splitprev \in h.headers /\ h.mem[h.mem[x].splitprev].splitnext = x
  BY DEF Struct, Chained
<1>3. Linked(k, rank) /\ Clean(k) /\ k.broken = h.broken
  <2> DEFINE y == h.mem[b].splitprev
  <2>1. CASE IsFree(h, y)
    <3>1. k = Join(h, y, b)
      BY <1>1, <2>1 DEF JoinLeft
    <3>2. y \in h.headers /\ h.mem[y].splitnext = b
      BY <1>2, <2>1 DEF IsFree
    <3> HIDE DEF k, y
    <3> QED
      BY <3>1, <3>2, JoinLinked
  <2>2. CASE ~ IsFree(h, y)
    <3>1. k = h
      BY <1>1, <2>2 DEF JoinLeft
    <3> HIDE DEF k, y
    <3> QED
      BY <3>1
  <2> QED
    BY <2>1, <2>2
<1> HIDE DEF left, k, a
<1>4. m = JoinRight(k, a)
  BY <1>1, MergeRightIs
<1>5. \A x \in k.headers : k.mem[x].splitnext # NULL => k.mem[x].splitnext \in k.headers
  BY <1>1 DEF Struct, Chained
<1> HIDE DEF m
<1>6. Linked(m, rank) /\ Clean(m) /\ m.broken = k.broken
  <2> DEFINE y == k.mem[a].splitnext
  <2>1. CASE IsFree(k, y)
    <3>1. m = Join(k, a, y)
      BY <1>4, <2>1 DEF JoinRight
    <3>2. y \in k.headers /\ k.mem[a].splitnext = y
      BY <1>1, <1>5, <2>1 DEF IsFree
    <3> HIDE DEF y
    <3> QED
      BY <1>1, <1>3, <3>1, <3>2, JoinLinked
  <2>2. CASE ~ IsFree(k, y)
    <3>1. m = k
      BY <1>4, <2>2 DEF JoinRight
    <3> QED
      BY <1>3, <3>1
  <2> QED
    BY <2>1, <2>2
<1> QED
  BY <1>3, <1>6 DEF m, k, a, left

\* A block that free leaves without neighbours in its list was filed in an empty
\* one, or has not moved.
LEMMA FileLinked ==
    ASSUME NEW h \in HeapType, NEW rank, Linked(h, rank), Clean(h), NEW a \in h.headers,
           NEW i \in Class, File(h, a, i).mem[a].prev = NULL, File(h, a, i).mem[a].next = NULL
    PROVE  LET g == File(h, a, i) IN Around(g, h) /\ Linked(g, rank) /\ g.broken = h.broken
<1> DEFINE g == File(h, a, i)
<1>1. a \in Address /\ Around(g, h)
  BY FileIs DEF HeapType
<1>2. CASE h.mem[a].index = i
  <2>1. g = h
    BY <1>2 DEF File
  <2> HIDE DEF g
  <2> QED
    BY <1>1, <2>1 DEF g
<1>3. CASE h.mem[a].index # i
  <2> DEFINE u == Unlink(h, a)
             q == Push(u, a, i)
             p == h.mem[a].prev
             n == h.mem[a].next
             x == u.first[i]
  <2>1. g = [q EXCEPT !.mem[a].index = i]
    BY <1>3 DEF File
  <2>2. /\ (p = NULL \/ ~ Astray(h, p)) /\ (n = NULL \/ ~ Astray(h, n))
    BY TiesClean
  <2>3. /\ Same(u, h) /\ p \in Link /\ n \in Link
        /\ \A j \in Class : u.first[j] = IF j = h.mem[a].index /\ h.first[j] = a THEN n
                                         ELSE h.first[j]
        /\ \A b \in Address : /\ u.mem[b].prev = IF b = n THEN p ELSE h.mem[b].prev
                              /\ u.mem[b].next = IF b = p THEN n ELSE h.mem[b].next
        /\ u.broken = h.broken
    BY <1>1, <2>2, UnlinkTies
  <2>4. n # a /\ p # a
    <3>1. rank[a] \in Nat
      BY <1>1 DEF Linked
    <3>2. p = a => rank[a] < rank[a]
      BY <1>1, ClassOf DEF Linked
    <3>3. n = a => p = a
      BY <1>1, ClassOf DEF Linked
    <3> HIDE DEF p, n
    <3> QED
      BY <3>1, <3>2, <3>3
  <2>5. p = h.mem[a].prev /\ n = h.mem[a].next
    OBVIOUS
  <2>6. u \in HeapType
    BY <2>3 DEF Same, Around
  <2> HIDE DEF u, p, n
  <2>7. /\ Same(q, u) /\ x \in Link
        /\ \A j \in Class : q.first[j] = IF j = i THEN a ELSE u.first[j]
        /\ \A b \in Address : /\ q.mem[b].prev = IF b = x THEN a ELSE u.mem[b].prev
                              /\ q.mem[b].next = IF b = a /\ x # NULL THEN x ELSE u.mem[b].next
        /\ x = NULL => q.broken = u.broken
    BY <1>1, <2>6, PushTies
  <2> HIDE DEF q, x
  <2>8. q \in HeapType
    BY <2>7 DEF Same, Around
  <2>9. /\ g.first = q.first /\ g.headers = q.headers /\ g.broken = q.broken
        /\ \A b \in Address : /\ g.mem[b].index = IF b = a THEN i ELSE q.mem[b].index
                              /\ g.mem[b].prev = q.mem[b].prev
                              /\ g.mem[b].next = q.mem[b].next
    <3> DEFINE t == [q.mem[a] EXCEPT !.index = i]
               m == [q.mem EXCEPT ![a] = t]
               e == [q EXCEPT !.mem = m]
    <3>1. g = e
      BY <2>1
    <3>2. q.mem \in [Address -> TagType] /\ q.mem[a] \in TagType
      BY <1>1, <2>8 DEF HeapType
    <3>3. t.index = i /\ t.prev = q.mem[a].prev /\ t.next = q.mem[a].next
      BY <3>2 DEF TagType
    <3> HIDE DEF t
    <3>4. \A b \in Address : m[b] = IF b = a THEN t ELSE q.mem[b]
      BY <1>1, <3>2
    <3> HIDE DEF m
    <3>5. e.first = q.first /\ e.headers = q.headers /\ e.broken = q.broken /\ e.mem = m
      BY <2>8 DEF HeapType
    <3> HIDE DEF e, g
    <3> QED
      BY <3>1, <3>3, <3>4, <3>5
  <2>10. g.mem[a].prev = NULL /\ g.mem[a].next = NULL
    OBVIOUS
  <2> HIDE DEF g
  <2>11. x = NULL /\ NULL \notin Address
    BY <1>1, <2>7, <2>9, <2>10, ClassOf
  <2>12. n = NULL /\ p = NULL
    BY <1>1, <2>3, <2>4, <2>5, <2>7, <2>9, <2>10, <2>11
  <2>13. h.first[i] = NULL
    BY <1>3, <2>3, <2>11 DEF x
  <2>14. \A j \in Class : g.first[j] = IF j = i THEN a
                                       ELSE IF j = h.mem[a].index /\ h.first[j] = a THEN NULL
                                       ELSE h.first[j]
    BY <2>3, <2>7, <2>9, <2>12
  <2>15. \A b \in Address : /\ g.mem[b].index = IF b = a THEN i ELSE h.mem[b].index
                            /\ g.mem[b].prev = h.mem[b].prev
                            /\ g.mem[b].next = h.mem[b].next
    BY <2>3, <2>7, <2>9, <2>11, <2>12 DEF Same
  <2>16. g.headers = h.headers /\ g.broken = h.broken
    BY <2>3, <2>7, <2>9, <2>11 DEF Same, Around
  <2>17. Linked(g, rank)
    <3>1. h.mem[a].prev = NULL /\ h.mem[a].next = NULL
      BY <2>5, <2>12
    <3> QED
      BY <2>13, <2>14, <2>15, <2>16, <3>1, FiledLinked
  <2> QED
    BY <1>1, <2>16, <2>17 DEF g
<1> QED
  BY <1>2, <1>3

LEMMA FinishLinked ==
    ASSUME NEW h \in HeapType, NEW rank, Linked(h, rank), Clean(h), NEW a \in h.headers,
           NEW i \in Class, NEW n \in Int, ~ CutOff(Filed(h, a, i, n), a).cut
    PROVE  LET g == CutOff(Filed(h, a, i, n), a) IN Linked(g, rank) /\ g.broken = h.broken
<1> DEFINE c == [h EXCEPT !.complete[i] = n]
           d == File(c, a, i)
           k == CutTies(d, a)
           g == CutOff(d, a)
<1>1. /\ c \in HeapType /\ c.mem = h.mem /\ c.first = h.first /\ c.headers = h.headers
      /\ c.frames = h.frames /\ c.intact = h.intact /\ c.broken = h.broken
  BY SetComplete
<1>2. CutOff(Filed(h, a, i, n), a) = g
  BY DEF Filed
<1> HIDE DEF c
<1>3. Linked(c, rank) /\ Clean(c) /\ a \in c.headers /\ a \in Address
  <2>1. Linked(c, rank)
    BY <1>1, LinkedAlike
  <2> QED
    BY <1>1, <2>1 DEF Clean, Astray, HeapType
<1>4. Around(d, c)
  BY <1>1, <1>3, FileIs
<1>5. d \in HeapType
  BY <1>4 DEF Around
<1>6. d = File(c, a, i)
  OBVIOUS
<1> HIDE DEF d
<1>7. /\ g.first = k.first /\ g.mem = k.mem /\ g.headers = d.headers /\ g.broken = k.broken
      /\ g.cut = (d.cut \/ d.mem[a].next # NULL \/ d.mem[a].prev # NULL)
  BY <1>3, <1>5, CutOffIs
<1>8. /\ Same(k, d) /\ k.first = d.first
      /\ \A b \in Address : /\ k.mem[b].prev = IF b = a THEN NULL ELSE d.mem[b].prev
                            /\ k.mem[b].next = IF b = a THEN NULL ELSE d.mem[b].next
      /\ ~ Astray(d, a) => k.broken = d.broken
  BY <1>3, <1>5, CutTiesTies
<1>9. ~ g.cut
  BY <1>2
<1> HIDE DEF g, k
<1>10. d.mem[a].next = NULL /\ d.mem[a].prev = NULL
  BY <1>7, <1>9
<1>11. Linked(d, rank) /\ d.broken = c.broken
  BY <1>1, <1>3, <1>6, <1>10, FileLinked
<1>12. ~ Astray(d, a)
  BY <1>3, <1>4, StraysAlike DEF Clean
<1>13. Linked(g, rank)
  <2>1. \A b \in d.headers : /\ g.mem[b].index = d.mem[b].index
                             /\ g.mem[b].prev = d.mem[b].prev
                             /\ g.mem[b].next = d.mem[b].next
    <3>1. d.headers \subseteq Address
      BY <1>5 DEF HeapType
    <3> QED
      BY <1>7, <1>8, <1>10, <3>1 DEF Same
  <2> QED
    BY <1>7, <1>8, <1>11, <2>1, LinkedAlike
<1> QED
  BY <1>1, <1>2, <1>7, <1>8, <1>11, <1>12, <1>13

LEMMA FreeLinked ==
    ASSUME NEW h, Struct(h), Merged(h, NULL), NEW b \in h.headers, NEW f, Held(h, f),
           b \notin DOMAIN f, NEW rank, Linked(h, rank), Clean(h), ~ Free(h, b).cut
    PROVE  Linked(Free(h, b), rank) /\ Free(h, b).broken = h.broken
<1> DEFINE left  == MergeLeft(h, b)
           k     == left.heap
           a     == left.tag
           m     == MergeRight(k, a)
           i     == GetIndex(m.mem[a].realsize - TAG)
           whole == m.mem[a].splitprev = NULL /\ m.mem[a].splitnext = NULL
           n     == IF whole THEN m.complete[i] + 1 ELSE m.complete[i]
           g     == Free(h, b)
<1>1. /\ Struct(k) /\ a \in k.headers /\ Merged(k, a) /\ LeftDone(k, a)
      /\ Held(k, f) /\ a \notin DOMAIN f
  BY MergeLeftIs
<1>2. Linked(m, rank) /\ Clean(m) /\ m.broken = h.broken
  BY MergeLinked
<1>3. g = IF whole /\ ~ Keeps(m, i) THEN GiveBack(m, a) ELSE CutOff(Filed(m, a, i, n), a)
  BY FreeIs
<1> HIDE DEF k, a
<1>4. Struct(m) /\ a \in m.headers
  BY <1>1, MergeRightIs
<1> HIDE DEF m
<1>5. m \in HeapType /\ a \in Address /\ Bounded(m) /\ Chained(m) /\ ~ g.cut
  BY <1>4 DEF Struct, HeapType
<1>6. i \in Class /\ n \in Int
  <2>1. m.mem[a].realsize \in Nat /\ Fits(m.mem[a].realsize) /\ m.mem[a].realsize > TAG
    <3>1. m.mem[a].realsize \in 0 .. Limit /\ Fits(m.mem[a].realsize) /\ m.mem[a].realsize > TAG
      BY <1>4, <1>5, TagIs DEF Bounded, Chained
    <3> QED
      BY <3>1
  <2>2. m.mem[a].realsize - TAG \in Nat \ {0} /\ m.mem[a].realsize - TAG + TAG <= m.mem[a].realsize
    BY <2>1, Sizes
  <2>3. i \in Class
    BY <2>1, <2>2, ClassOfPart
  <2>4. m.complete[i] \in Int
    BY <1>5, <2>3 DEF HeapType
  <2> HIDE DEF i, whole
  <2> QED
    BY <2>3, <2>4
<1>7. CASE whole /\ ~ Keeps(m, i)
  <2> DEFINE e == GiveBack(m, a)
  <2>1. /\ e.headers = m.headers \ {a} /\ e.first = Gone(m, a).first /\ e.mem = Gone(m, a).mem
        /\ e.broken = Gone(m, a).broken
    BY <1>4, <1>7, GiveBackStruct
  <2>2. /\ Linked(Gone(m, a), rank) /\ Gone(m, a).broken = m.broken
        /\ Around(Gone(m, a), m) /\ Gone(m, a).mem[a].index = Allocated
    BY <1>2, <1>4, <1>5, GoneLinked, GoneIs
  <2> DEFINE d == Gone(m, a)
  <2>3. d \in HeapType /\ d.headers = m.headers
    BY <2>2 DEF Around
  <2>4. /\ e.headers = d.headers \ {a} /\ e.first = d.first /\ e.mem = d.mem
        /\ e.broken = m.broken /\ Linked(d, rank) /\ d.mem[a].index = Allocated
    BY <2>1, <2>2, <2>3
  <2>5. g = e
    BY <1>3, <1>7
  <2> HIDE DEF d, e, g
  <2>6. Linked(e, rank)
    BY <2>3, <2>4, RemovedLinked
  <2> QED
    BY <1>2, <2>4, <2>5, <2>6 DEF g
<1>8. CASE ~ (whole /\ ~ Keeps(m, i))
  <2>1. g = CutOff(Filed(m, a, i, n), a)
    BY <1>3, <1>8
  <2> HIDE DEF g, i, n, whole
  <2>2. Linked(g, rank) /\ g.broken = m.broken
    BY <1>2, <1>4, <1>5, <1>6, <2>1, FinishLinked
  <2> QED
    BY <1>2, <2>2 DEF g
<1> QED
  BY <1>7, <1>8

\* What a search finds in a list is a free tag of its class.
LEMMA WalkLinked ==
    ASSUME NEW h \in HeapType, NEW rank, Linked(h, rank), NEW i \in Class
    PROVE  LET w == Walk(h, i) IN
           \A n \in 1 .. Limit : w[n] # NULL =>
               /\ w[n] \in h.headers /\ h.mem[w[n]].index = i
               /\ h.mem[w[n]].prev = IF n = 1 THEN NULL ELSE w[n - 1]
               /\ n # 1 => w[n - 1] # NULL /\ rank[w[n - 1]] < rank[w[n]]
<1> DEFINE w == Walk(h, i)
           Good(n) == w[n] # NULL =>
               /\ w[n] \in h.headers /\ h.mem[w[n]].index = i
               /\ h.mem[w[n]].prev = IF n = 1 THEN NULL ELSE w[n - 1]
               /\ n # 1 => w[n - 1] # NULL /\ rank[w[n - 1]] < rank[w[n]]
           S == {n \in Nat : n + 1 <= Limit => Good(n + 1)}
<1>1. /\ Limit \in Nat \ {0} /\ w[1] = h.first[i]
      /\ \A n \in 1 .. Limit - 1 : w[n + 1] = IF w[n] = NULL THEN NULL ELSE h.mem[w[n]].next
  BY WalkIs
<1>2. \A a \in h.headers : h.mem[a].next # NULL =>
          /\ h.mem[a].next \in h.headers
          /\ h.mem[h.mem[a].next].index = h.mem[a].index
          /\ h.mem[h.mem[a].next].prev = a
          /\ rank[a] < rank[h.mem[a].next]
  <2> TAKE a \in h.headers
  <2> HAVE h.mem[a].next # NULL
  <2>1. /\ h.mem[a].next \in h.headers
        /\ h.mem[h.mem[a].next].index = h.mem[a].index
        /\ h.mem[h.mem[a].next].prev = a
    BY DEF Linked
  <2>2. a # NULL
    BY ClassOf DEF HeapType
  <2>3. rank[a] < rank[h.mem[a].next]
    BY <2>1, <2>2 DEF Linked
  <2> QED
    BY <2>1, <2>3
<1> HIDE DEF w
<1>3. Good(1)
  BY <1>1 DEF Linked
<1>4. 0 \in S
  <2>1. 0 + 1 = 1
    OBVIOUS
  <2> HIDE DEF Good
  <2> QED
    BY <1>3, <2>1
<1>5. ASSUME NEW n \in Nat, n \in S PROVE n + 1 \in S
  <2> DEFINE m == n + 1
  <2>1. m \in Nat \ {0} /\ (m <= Limit => Good(m))
    <3> HIDE DEF Good
    <3> QED
      BY <1>5
  <2> SUFFICES ASSUME m + 1 <= Limit PROVE Good(m + 1)
    OBVIOUS
  <2> HIDE DEF m
  <2>2. m \in 1 .. Limit - 1 /\ m + 1 # 1 /\ m + 1 - 1 = m /\ m <= Limit
    BY <1>1, <2>1
  <2>3. w[m + 1] = IF w[m] = NULL THEN NULL ELSE h.mem[w[m]].next
    BY <1>1, <2>2
  <2>4. Good(m)
    <3> HIDE DEF Good
    <3> QED
      BY <2>1, <2>2
  <2>5. CASE w[m + 1] = NULL
    BY <2>5
  <2>6. CASE w[m + 1] # NULL
    <3>1. w[m] # NULL /\ w[m + 1] = h.mem[w[m]].next
      BY <2>3, <2>6
    <3>2. w[m] \in h.headers /\ h.mem[w[m]].index = i
      BY <2>4, <3>1
    <3>3. /\ w[m + 1] \in h.headers /\ h.mem[w[m + 1]].index = i
          /\ h.mem[w[m + 1]].prev = w[m] /\ rank[w[m]] < rank[w[m + 1]]
      <4> DEFINE x == h.mem[w[m]].next
      <4>1. x # NULL /\ w[m + 1] = x
        BY <2>6, <3>1
      <4>2. /\ x \in h.headers /\ h.mem[x].index = h.mem[w[m]].index
            /\ h.mem[x].prev = w[m] /\ rank[w[m]] < rank[x]
        BY <1>2, <3>2, <4>1, Zenon
      <4> HIDE DEF x
      <4>3. h.mem[x].index = i
        BY <3>2, <4>2
      <4> QED
        BY <4>1, <4>2, <4>3, Zenon
    <3> QED
      BY <2>2, <3>1, <3>3
  <2> QED
    BY <2>5, <2>6
<1>6. Nat \subseteq S
  <2> HIDE DEF S
  <2> QED
    BY <1>4, <1>5, Induction
<1>7. ASSUME NEW n \in 1 .. Limit PROVE Good(n)
  <2>1. n - 1 \in S /\ n - 1 + 1 = n /\ n <= Limit
    BY <1>1, <1>6
  <2> HIDE DEF Good
  <2> QED
    BY <2>1
<1> QED
  BY <1>7 DEF w

LEMMA SplitLinked ==
    ASSUME NEW h, Struct(h), NEW rank, Linked(h, rank), NEW a \in h.headers, NEW size \in Size
    PROVE  LET g == Split(h, a, size) IN (\E r : Linked(g, r)) /\ g.broken = h.broken
<1>1. CASE Splits(h, a, size)
  <2> DEFINE c     == Carved(h, a, size)
             k     == Tied(h, a, size)
             rest  == a + TAG + size
             i     == GetIndex(Remainder(h, a, size) - TAG)
             after == h.mem[a].splitnext
             g     == Split(h, a, size)
             n     == h.first[i]
             w     == Outlasting(h.intact, Units(rest)) \cup {rest}
  <2>1. /\ h \in HeapType /\ Bounded(h) /\ Chained(h) /\ h.headers \subseteq Address
        /\ a \in Address /\ NULL \notin Address
    BY ClassOf DEF Struct, HeapType
  <2>2. rest \in Address /\ i \in Class /\ rest \notin h.headers /\ Clean(k)
    BY <1>1, <2>1, SplitTypes, TiedStruct DEF Struct
  <2>3. /\ k \in HeapType /\ k.headers = h.headers \cup {rest} /\ k.frames = h.frames
        /\ k.intact = w /\ k.first = h.first
        /\ after = NULL \/ ~ Astray(c, after) => k.broken = h.broken
        /\ \A b \in Address : /\ k.mem[b].index = IF b = rest THEN i ELSE h.mem[b].index
                              /\ k.mem[b].prev = IF b = rest THEN NULL ELSE h.mem[b].prev
                              /\ k.mem[b].next = IF b = rest THEN NULL ELSE h.mem[b].next
    BY <1>1, <2>1, TiedIs
  <2>4. c.intact = w
    BY <1>1, <2>1, CarvedIs
  <2>5. after = NULL \/ after \in h.headers
    BY <2>1 DEF Chained
  <2>6. g = Push(k, rest, i)
    BY <1>1, SplitIsPush
  <2> HIDE DEF c, k, rest, i, after, g, w
  <2>7. k.broken = h.broken
    BY <2>2, <2>3, <2>4, <2>5 DEF Clean, Astray
  <2>8. /\ Same(g, k)
        /\ \A j \in Class : g.first[j] = IF j = i THEN rest ELSE k.first[j]
        /\ \A b \in Address :
              /\ g.mem[b].prev = IF b = k.first[i] THEN rest ELSE k.mem[b].prev
              /\ g.mem[b].next = IF b = rest /\ k.first[i] # NULL THEN k.first[i]
                                 ELSE k.mem[b].next
        /\ k.first[i] = NULL \/ (~ Astray(k, k.first[i]) /\ ~ Astray(k, rest))
           => g.broken = k.broken
    BY <2>2, <2>3, <2>6, PushTies
  <2>9. k.first[i] = n
    BY <2>3
  <2>10. n # NULL => n \in h.headers
    BY <2>2 DEF Linked
  <2>11. g.headers = h.headers \cup {rest} /\ \A b : Astray(k, b) <=> Astray(g, b)
    BY <2>3, <2>8 DEF Same, Around, Astray
  <2> HIDE DEF n
  <2>13. g.broken = h.broken
    BY <2>2, <2>3, <2>7, <2>8, <2>9, <2>10 DEF Clean
  <2>14. /\ g.mem[rest].index = i /\ g.mem[rest].prev = NULL /\ g.mem[rest].next = n
         /\ \A j \in Class : g.first[j] = IF j = i THEN rest ELSE h.first[j]
    <3>1. rest # n
      BY <2>1, <2>2, <2>10
    <3> QED
      BY <2>2, <2>3, <2>8, <2>9, <3>1 DEF Same
  <2>15. \A b \in h.headers : /\ g.mem[b].index = h.mem[b].index
                              /\ g.mem[b].prev = IF b = n THEN rest ELSE h.mem[b].prev
                              /\ g.mem[b].next = h.mem[b].next
    BY <2>1, <2>2, <2>3, <2>8, <2>9 DEF Same
  <2>16. n = h.first[i]
    BY DEF n
  <2>17. \E r : Linked(g, r)
    <3>1. /\ g.mem[rest].next = h.first[i]
          /\ \A b \in h.headers : /\ g.mem[b].index = h.mem[b].index
                                  /\ g.mem[b].prev = IF b = h.first[i] THEN rest ELSE h.mem[b].prev
                                  /\ g.mem[b].next = h.mem[b].next
      BY <2>14, <2>15, <2>16
    <3> QED
      BY <2>1, <2>2, <2>11, <2>14, <3>1, PushedLinked
  <2> QED
    BY <2>13, <2>17 DEF g
<1>2. CASE ~ Splits(h, a, size)
  BY <1>2, SplitIsPush
<1> QED
  BY <1>1, <1>2

\* malloc keeps whole lists, and looks at no tag that has been overwritten.
LEMMA MallocLinked ==
    ASSUME NEW h, Struct(h), Merged(h, NULL), NEW f, Held(h, f), CountsBounded(h),
           h.broken = "no", NEW rank, Linked(h, rank),
           NEW size \in Size, HasRoom(h, size)
    PROVE  LET g == Malloc(h, size).heap IN (\E r : Linked(g, r)) /\ g.broken = "no"
<1> DEFINE k == Served(h, size).heap
           a == Served(h, size).tag
           s == Split(k, a, size)
           g == Malloc(h, size).heap
<1>1. h \in HeapType /\ h.headers \subseteq Address /\ GetIndex(size) \in Class /\ Clean(h)
  BY ClassOfSize DEF Struct, HeapType
<1>2. ~ Strays(h, size)
  <2> SUFFICES ASSUME NEW b \in LookedAt(h, size) PROVE ~ Astray(h, b)
    BY DEF Strays
  <2>1. b # NULL /\ \E i \in Class : b \in LookedThrough(Walk(h, i), Fitting(h, size, Walk(h, i)))
    BY DEF LookedAt
  <2>2. PICK i \in Class : b \in LookedThrough(Walk(h, i), Fitting(h, size, Walk(h, i)))
    BY <2>1
  <2> DEFINE w == Walk(h, i)
  <2>3. DOMAIN w = 1 .. Limit
    BY <1>1, WalkIs
  <2>4. \E n \in DOMAIN w : b = w[n]
    BY <2>2 DEF LookedThrough
  <2>5. \A n \in 1 .. Limit : w[n] # NULL => w[n] \in h.headers
    BY <1>1, WalkLinked
  <2> HIDE DEF w
  <2> QED
    BY <1>1, <2>1, <2>3, <2>4, <2>5 DEF Clean
<1>3. /\ a \in Address /\ k \in HeapType /\ k.broken = "no"
      /\ Struct(k) /\ Merged(k, NULL) /\ Held(k, f) /\ a \in k.headers
      /\ k.mem[a].index = Allocated /\ RightDone(k, a) /\ a \notin DOMAIN f
      /\ size + TAG <= k.mem[a].realsize
      /\ \E r : Linked(k, r)
  <2>1. CASE Found(h, size) # NULL
    <3> DEFINE b == Found(h, size)
    <3>1. k = Take(h, b, size) /\ a = b
      BY <2>1 DEF Served
    <3>2. b \in Address /\ size + TAG <= h.mem[b].realsize
      BY <1>1, <2>1, FoundIs
    <3>3. b \in h.headers /\ h.mem[b].index # Allocated
      <4>1. PICK i \in Class, n \in 1 .. Limit : b = Walk(h, i)[n]
        BY <1>1, <2>1, FoundIs
      <4>2. b \in h.headers /\ h.mem[b].index = i
        BY <1>1, <2>1, <4>1, WalkLinked
      <4> QED
        BY <4>2, ClassOf
    <3> HIDE DEF k, a, b
    <3>4. Linked(k, rank) /\ k.broken = "no"
      BY <1>1, <3>1, <3>3, TakeLinked
    <3>5. /\ k \in HeapType
          /\ k.broken = "no" =>
                /\ Struct(k) /\ Merged(k, NULL) /\ Held(k, f) /\ a \in k.headers
                /\ k.mem[a].index = Allocated /\ RightDone(k, a) /\ a \notin DOMAIN f
                /\ size + TAG <= k.mem[a].realsize
      BY <3>1, <3>2, TakeServes
    <3> QED
      BY <3>1, <3>2, <3>4, <3>5
  <2>2. CASE Found(h, size) = NULL
    <3>1. Served(h, size) = NewRegion(h, size)
      BY <2>2 DEF Served
    <3>2. Bases(h, RegionPages(size + TAG)) # {}
      BY <2>2 DEF HasRoom
    <3>3. /\ k \in HeapType /\ a \in Address
          /\ Struct(k) /\ Merged(k, NULL) /\ Held(k, f) /\ a \in k.headers
          /\ k.mem[a].index = Allocated /\ RightDone(k, a) /\ a \notin DOMAIN f
          /\ size + TAG <= k.mem[a].realsize
      BY <3>1, <3>2, RegionServes
    <3>4. /\ k.headers = h.headers \cup {a} /\ k.first = h.first /\ k.broken = h.broken
          /\ k.mem[a].prev = NULL /\ k.mem[a].next = NULL
          /\ \A b \in Address : b # a => k.mem[b] = h.mem[b]
      BY <1>1, <3>1, <3>2, RegionIs
    <3>5. a \notin h.headers
      BY <3>1, <3>2, RegionStruct
    <3> HIDE DEF k, a
    <3>6. \A b \in h.headers : k.mem[b] = h.mem[b]
      BY <1>1, <3>4, <3>5
    <3>7. Linked(k, rank)
      BY <1>1, <3>3, <3>4, <3>5, <3>6, AddedLinked
    <3> QED
      BY <3>3, <3>4, <3>7
  <2> QED
    BY <2>1, <2>2
<1>4. s = Split(Served(h, size).heap, Served(h, size).tag, size)
  OBVIOUS
<1> HIDE DEF k, a
<1>5. Struct(s)
  BY <1>3, SplitMerged
<1>7. (\E r : Linked(s, r)) /\ s.broken = "no"
  <2>1. PICK r : Linked(k, r)
    BY <1>3
  <2> QED
    BY <1>3, <2>1, SplitLinked
<1> HIDE DEF s
<1>8. s \in HeapType
  BY <1>5 DEF Struct
<1>9. /\ g.mem = s.mem /\ g.first = s.first /\ g.headers = s.headers
      /\ g.broken = s.broken
  BY <1>2, <1>4, <1>8, MallocIs
<1> HIDE DEF g
<1>10. PICK r : Linked(s, r)
  BY <1>7
<1>11. Linked(g, r)
  BY <1>9, <1>10, LinkedAlike
<1> QED
  BY <1>7, <1>9, <1>11 DEF g

-----------------------------------------------------------------------------
(* The invariant of the lists.                                             *)

\* Until free cuts a list, the heap is not broken and the lists are whole.
Whole(h) == \E rank : Linked(h, rank)
Listed == ~ cut => broken = "no" /\ Whole(heap)

\* The program fills its blocks, in which there are no tags.
LEMMA BecomeListed ==
    ASSUME NEW h, h \in HeapType, Become(h),
           ~ h.cut => Struct(h) /\ Held(h, blocks') /\ h.broken = "no" /\ Whole(h)
    PROVE  Listed'
<1> DEFINE f == blocks'
           g == heap'
<1>1. /\ g.first = h.first /\ g.headers = h.headers /\ cut' = h.cut /\ broken' = h.broken
      /\ g.intact = Outlasting(h.intact, Data(f))
      /\ \A a \in Address : g.mem[a] = IF a \in g.intact THEN h.mem[a] ELSE NoTag
  BY BecomeIs
<1>2. ASSUME ~ h.cut PROVE broken' = "no" /\ \E rank : Linked(g, rank)
  <2> HIDE DEF f, g
  <2>1. Struct(h) /\ Held(h, f) /\ h.broken = "no" /\ h.headers \subseteq Address
    BY <1>2 DEF f, HeapType
  <2>2. h.headers \subseteq g.intact
    BY <1>1, <2>1, TagsOutlast
  <2>3. \A a \in h.headers : g.mem[a] = h.mem[a]
    BY <1>1, <2>1, <2>2
  <2>4. PICK rank : Linked(h, rank)
    BY <1>2 DEF Whole
  <2>5. Linked(g, rank)
    BY <1>1, <2>3, <2>4, LinkedAlike
  <2> QED
    BY <1>1, <2>1, <2>5
<1> QED
  BY <1>1, <1>2 DEF Listed, Whole, Linked

LEMMA InitListed ==
    ASSUME Init
    PROVE  Listed
<1> DEFINE rank == [a \in Address |-> 0]
<1>1. heap.headers = {} /\ (\A i \in Class : heap.first[i] = NULL) /\ rank \in [Address -> Nat]
  BY HeapFields DEF Init
<1>2. Linked(heap, rank)
  <2> HIDE DEF heap, rank
  <2> QED
    BY <1>1 DEF Linked
<1> QED
  BY <1>2 DEF Init, Listed, Whole

LEMMA CallMallocListed ==
    ASSUME Sound, Listed, NEW size \in Size, CallMalloc(size)
    PROVE  Listed'
<1> DEFINE g == Malloc(heap, size).heap
           a == Malloc(heap, size).tag
<1>1. /\ broken = "no" /\ HasRoom(heap, size)
      /\ blocks' = Hold(blocks, a, size) /\ Become(g)
  BY DEF CallMalloc
<1>2. /\ Struct(heap) /\ Merged(heap, NULL) /\ Held(heap, blocks) /\ CountsBounded(heap)
      /\ DOMAIN blocks \subseteq Address /\ \A b \in DOMAIN blocks : blocks[b] \in Nat \ {0}
      /\ heap.broken = "no" /\ heap.cut = cut
  BY <1>1, HeapFields DEF Sound
<1>3. size \in Nat \ {0}
  BY Sizes, SizesAssumption
<1> HIDE DEF heap
<1>4. /\ g \in HeapType /\ g.cut = cut /\ a \in Address
      /\ g.broken = "no" =>
            /\ Struct(g) /\ Held(g, blocks)
            /\ a \in g.headers /\ g.mem[a].index = Allocated
            /\ TAG + size <= g.mem[a].realsize
  BY <1>1, <1>2, MallocStruct
<1>5. ASSUME ~ cut PROVE Whole(g) /\ g.broken = "no"
  <2>1. PICK rank : Linked(heap, rank)
    BY <1>5 DEF Listed, Whole
  <2>2. (\E r : Linked(g, r)) /\ g.broken = "no"
    BY <1>1, <1>2, <2>1, MallocLinked
  <2> QED
    BY <2>2 DEF Whole
<1> HIDE DEF g, a
<1>6. g.broken = "no" => Held(g, blocks')
  BY <1>1, <1>3, <1>4, HoldHeld
<1> QED
  BY <1>1, <1>4, <1>5, <1>6, BecomeListed

LEMMA CallFreeListed ==
    ASSUME Sound, Listed, NEW b \in Address, CallFree(b)
    PROVE  Listed'
<1> DEFINE g == Free(heap, b)
<1>1. /\ broken = "no" /\ b \in DOMAIN blocks /\ blocks' = Drop(blocks, b) /\ Become(g)
  BY DEF CallFree
<1>2. /\ heap \in HeapType /\ Struct(heap) /\ Merged(heap, NULL) /\ Held(heap, blocks)
      /\ CountsBounded(heap)
      /\ DOMAIN blocks \subseteq Address /\ \A c \in DOMAIN blocks : blocks[c] \in Nat \ {0}
      /\ heap.broken = "no" /\ heap.cut = cut
  BY <1>1, HeapFields DEF Sound
<1>3. DOMAIN blocks' = DOMAIN blocks \ {b} /\ Held(heap, blocks')
  BY <1>1, <1>2, DropIs, DropHeld
<1>4. b \in heap.headers /\ b \notin DOMAIN blocks' /\ Clean(heap)
  BY <1>1, <1>2, <1>3 DEF Held, Struct
<1> HIDE DEF heap
<1>5. Struct(g) /\ Held(g, blocks') /\ (cut => g.cut)
  BY <1>2, <1>3, <1>4, FreeStruct
<1>6. g \in HeapType
  BY <1>5 DEF Struct
<1>7. ASSUME ~ g.cut PROVE Whole(g) /\ g.broken = "no"
  <2>1. PICK rank : Linked(heap, rank)
    BY <1>5, <1>7 DEF Listed, Whole
  <2>2. Linked(g, rank) /\ g.broken = "no"
    BY <1>2, <1>3, <1>4, <1>7, <2>1, FreeLinked
  <2> QED
    BY <2>2 DEF Whole
<1> HIDE DEF g
<1> QED
  BY <1>1, <1>5, <1>6, <1>7, BecomeListed

LEMMA InPlaceListed ==
    ASSUME Sound, Listed, NEW b \in Address, NEW size \in Size, ReallocInPlace(b, size)
    PROVE  Listed'
<1>1. /\ broken = "no" /\ b \in DOMAIN blocks
      /\ size <= mem[b].realsize - TAG /\ blocks' = Hold(blocks, b, size) /\ Become(heap)
  BY DEF ReallocInPlace
<1>2. heap \in HeapType /\ Struct(heap) /\ heap.broken = "no" /\ heap.cut = cut
  BY <1>1, HeapFields DEF Sound
<1>3. Held(heap, blocks')
  BY <1>1, InPlaceHeld
<1>4. ~ cut => Whole(heap)
  BY DEF Listed
<1> HIDE DEF heap
<1> QED
  BY <1>1, <1>2, <1>3, <1>4, BecomeListed

LEMMA MovesListed ==
    ASSUME Sound, Listed, NEW b \in Address, NEW size \in Size, ReallocMoves(b, size)
    PROVE  Listed'
<1> DEFINE k == Malloc(heap, size).heap
           a == Malloc(heap, size).tag
           h == Fill(k, blocks')
           g == IF k.broken = "no" THEN Free(h, b) ELSE k
           f == Drop(blocks, b)
<1>1. /\ broken = "no" /\ b \in DOMAIN blocks /\ HasRoom(heap, size)
      /\ blocks' = Hold(f, a, size) /\ Become(g)
  BY DEF ReallocMoves
<1>2. /\ Struct(heap) /\ Merged(heap, NULL) /\ Held(heap, blocks) /\ CountsBounded(heap)
      /\ DOMAIN blocks \subseteq Address /\ \A c \in DOMAIN blocks : blocks[c] \in Nat \ {0}
      /\ heap.broken = "no" /\ heap.cut = cut
  BY <1>1, HeapFields DEF Sound
<1>3. size \in Nat \ {0}
  BY Sizes, SizesAssumption
<1> HIDE DEF heap
<1>4. /\ k \in HeapType /\ CountsBounded(k) /\ k.cut = cut /\ a \in Address
      /\ k.broken = "no" =>
            /\ Struct(k) /\ Merged(k, NULL) /\ Held(k, blocks)
            /\ a \in k.headers /\ a \notin DOMAIN blocks /\ k.mem[a].index = Allocated
            /\ TAG + size <= k.mem[a].realsize
  BY <1>1, <1>2, MallocStruct
<1>5. ASSUME ~ cut PROVE Whole(k) /\ k.broken = "no"
  <2>1. PICK rank : Linked(heap, rank)
    BY <1>5 DEF Listed, Whole
  <2>2. (\E r : Linked(k, r)) /\ k.broken = "no"
    BY <1>1, <1>2, <2>1, MallocLinked
  <2> QED
    BY <2>2 DEF Whole
<1> HIDE DEF k, a
<1>6. /\ DOMAIN f = DOMAIN blocks \ {b}
      /\ DOMAIN f \subseteq Address /\ \A c \in DOMAIN f : f[c] \in Nat \ {0}
      /\ Held(k, blocks) => Held(k, f)
  BY <1>2, DropIs, DropHeld
<1> HIDE DEF f
<1>7. DOMAIN blocks' = DOMAIN f \cup {a}
  BY <1>1, <1>3, <1>4, <1>6, HoldIs
<1>8. CASE k.broken # "no"
  <2>1. g = k /\ k.cut
    BY <1>4, <1>5, <1>8
  <2> HIDE DEF g
  <2> QED
    BY <1>1, <1>4, <2>1, BecomeListed
<1>9. CASE k.broken = "no"
  <2>1. Held(k, f)
    BY <1>4, <1>6, <1>9
  <2>2. Held(k, blocks')
    BY <1>1, <1>3, <1>4, <1>9, <2>1, HoldHeld
  <2>4. /\ Struct(h) /\ Merged(h, NULL) /\ Held(h, blocks') /\ CountsBounded(h)
        /\ h.headers = k.headers /\ h.mem = k.mem /\ h.first = k.first
        /\ h.broken = "no" /\ h.cut = cut
    BY <1>4, <1>9, <2>2, FillIs, FillSound
  <2>5. b \in h.headers
    BY <1>1, <1>4, <1>9, <2>4 DEF Held
  <2>6. b \notin DOMAIN blocks'
    BY <1>1, <1>4, <1>6, <1>7, <1>9
  <2>7. g = Free(h, b)
    BY <1>9
  <2> HIDE DEF h, g
  <2>8. Struct(g) /\ Held(g, blocks') /\ (cut => g.cut)
    BY <2>4, <2>5, <2>6, <2>7, FreeStruct
  <2>9. g \in HeapType
    BY <2>8 DEF Struct
  <2>10. ASSUME ~ g.cut PROVE Whole(g) /\ g.broken = "no"
    <3>1. PICK rank : Linked(k, rank)
      BY <1>5, <2>8, <2>10 DEF Whole
    <3>2. Linked(h, rank)
      BY <2>4, <3>1, LinkedAlike
    <3>3. Clean(h)
      BY <2>4 DEF Struct
    <3>4. Linked(g, rank) /\ g.broken = "no"
      BY <2>4, <2>5, <2>6, <2>7, <2>10, <3>2, <3>3, FreeLinked
    <3> QED
      BY <3>4 DEF Whole
  <2> QED
    BY <1>1, <2>8, <2>9, <2>10, BecomeListed
<1> QED
  BY <1>8, <1>9

LEMMA StepListed ==
    ASSUME Sound, Listed, [Next]_vars
    PROVE  Listed'
<1>1. ASSUME vars' = vars PROVE Listed'
  BY <1>1 DEF vars, Listed, Whole, Linked, heap
<1>2. ASSUME NEW size \in Size, CallMalloc(size) PROVE Listed'
  BY <1>2, CallMallocListed
<1>3. ASSUME NEW b \in Address, CallFree(b) PROVE Listed'
  BY <1>3, CallFreeListed
<1>4. ASSUME NEW b \in Address, NEW size \in Size, ReallocInPlace(b, size) PROVE Listed'
  BY <1>4, InPlaceListed
<1>5. ASSUME NEW b \in Address, NEW size \in Size, ReallocMoves(b, size) PROVE Listed'
  BY <1>5, MovesListed
<1>6. ASSUME Stopped PROVE Listed'
  BY <1>1, <1>6 DEF Stopped
<1> QED
  BY <1>1, <1>2, <1>3, <1>4, <1>5, <1>6 DEF Next

LEMMA AlwaysListed == Spec => []Listed
BY InitListed, StepListed, InitSound, StepSound, PTL DEF Spec

\* A link leads to what is no tag any more, or a block is given out twice, only
\* after free has cut a list: every other call of malloc, free and realloc leaves the lists whole,
\* and malloc finds nothing in them but free blocks of the heap.
THEOREM DataBrokenOnlyByCut == Spec => []BrokenOnlyByCut
<1>1. Listed => BrokenOnlyByCut
  BY DEF Listed, BrokenOnlyByCut
<1> QED
  BY <1>1, AlwaysListed, PTL

-----------------------------------------------------------------------------
(* The lists hold all that is free.                                        *)

\* Along a list the ranks grow: no tag is met twice.
LEMMA WalkAscends ==
    ASSUME NEW h \in HeapType, NEW rank, Linked(h, rank), NEW i \in Class
    PROVE  LET w == Walk(h, i) IN
           \A n \in 1 .. Limit : w[n] # NULL =>
               \A m \in 1 .. n - 1 : w[m] # NULL /\ rank[w[m]] < rank[w[n]]
<1> DEFINE w == Walk(h, i)
           Below(m, n) == w[m] # NULL /\ rank[w[m]] < rank[w[n]]
           Good(n) == w[n] # NULL => \A m \in 1 .. n - 1 : Below(m, n)
           S == {k \in Nat : \A n \in 1 .. Limit : n <= k => Good(n)}
<1>1. Limit \in Nat
  BY Sizes DEF Limit
<1>2. \A n \in 1 .. Limit : w[n] # NULL =>
          /\ w[n] \in Address /\ rank[w[n]] \in Nat
          /\ n # 1 => Below(n - 1, n)
  <2>1. \A n \in 1 .. Limit : w[n] # NULL =>
            /\ w[n] \in h.headers
            /\ n # 1 => w[n - 1] # NULL /\ rank[w[n - 1]] < rank[w[n]]
    BY WalkLinked
  <2>2. h.headers \subseteq Address /\ rank \in [Address -> Nat]
    BY DEF HeapType, Linked
  <2> HIDE DEF w
  <2> QED
    BY <2>1, <2>2
<1> HIDE DEF w
<1>3. 0 \in S
  BY <1>1
<1>4. ASSUME NEW k \in Nat, k \in S PROVE k + 1 \in S
  <2> SUFFICES ASSUME NEW n \in 1 .. Limit, n = k + 1, w[n] # NULL, NEW m \in 1 .. n - 1
               PROVE  Below(m, n)
    <3>1. ASSUME NEW n \in 1 .. Limit, n = k + 1 PROVE Good(n)
      BY <3>1
    <3>2. ASSUME NEW n \in 1 .. Limit, n <= k + 1, n # k + 1 PROVE Good(n)
      <4>1. n <= k
        BY <3>2, <1>1
      <4> HIDE DEF Good
      <4> QED
        BY <1>4, <4>1
    <3> HIDE DEF Good
    <3> QED
      BY <3>1, <3>2
  <2>1. n # 1 /\ n - 1 \in 1 .. Limit /\ n - 1 <= k
    BY <1>1
  <2>2. Below(n - 1, n)
    BY <1>2, <2>1
  <2>3. CASE m = n - 1
    BY <2>2, <2>3
  <2>4. CASE m # n - 1
    <3>1. m \in 1 .. n - 1 - 1 /\ m \in 1 .. Limit
      BY <1>1, <2>4
    <3>2. Good(n - 1)
      <4> HIDE DEF Good, Below
      <4> QED
        BY <1>4, <2>1
    <3>3. Below(m, n - 1)
      BY <2>2, <3>1, <3>2
    <3>4. rank[w[m]] \in Nat /\ rank[w[n - 1]] \in Nat /\ rank[w[n]] \in Nat
      BY <1>2, <2>1, <2>2, <3>1, <3>3
    <3> QED
      BY <2>2, <3>3, <3>4
  <2> QED
    BY <2>3, <2>4
<1>5. Nat \subseteq S
  <2> HIDE DEF S
  <2> QED
    BY <1>3, <1>4, Induction
<1>6. ASSUME NEW n \in 1 .. Limit PROVE Good(n)
  <2>1. n \in S /\ n <= n
    BY <1>1, <1>5
  <2> HIDE DEF Good
  <2> QED
    BY <2>1
<1> QED
  BY <1>6 DEF w

\* A list that does not end has every address in it.
LEMMA WalkFull ==
    ASSUME NEW h \in HeapType, NEW rank, Linked(h, rank), NEW i \in Class,
           Walk(h, i)[Limit] # NULL
    PROVE  \A a \in Address : \E n \in 1 .. Limit : Walk(h, i)[n] = a
<1> DEFINE w == Walk(h, i)
<1>1. /\ Limit \in Nat \ {0} /\ Limit \in Int /\ 0 \in Int /\ 1 \in Int /\ Limit - 1 \in Int
      /\ Limit \in 1 .. Limit
  BY Sizes DEF Limit
<1>2. /\ IsFiniteSet(Address) /\ Cardinality(Address) = Limit
  BY <1>1, FS_Interval DEF Address, Limit
<1>3. /\ IsFiniteSet(1 .. Limit) /\ Cardinality(1 .. Limit) = Limit
  BY <1>1, FS_Interval
<1>4. \A n \in 1 .. Limit : w[n] # NULL =>
          \A m \in 1 .. n - 1 : w[m] # NULL /\ rank[w[m]] < rank[w[n]]
  BY WalkAscends
<1>5. /\ w \in [1 .. Limit -> Link]
      /\ rank \in [Address -> Nat]
  BY WalkIs DEF Linked
<1> HIDE DEF w
<1>6. ASSUME NEW n \in 1 .. Limit PROVE w[n] \in Address
  <2>1. w[n] # NULL
    <3>1. CASE n = Limit
      BY <3>1 DEF w
    <3>2. CASE n # Limit
      <4>1. n \in 1 .. Limit - 1
        BY <1>1, <3>2
      <4>2. w[Limit] # NULL
        BY DEF w
      <4> QED
        BY <1>1, <1>4, <4>1, <4>2
    <3> QED
      BY <3>1, <3>2
  <2> QED
    BY <1>5, <2>1 DEF Link
<1>7. ASSUME NEW m \in 1 .. Limit, NEW n \in 1 .. Limit, m < n PROVE w[m] # w[n]
  <2>1. m \in 1 .. n - 1 /\ w[n] # NULL
    BY <1>1, <1>6, <1>7, ClassOf
  <2>2. rank[w[m]] < rank[w[n]]
    BY <1>4, <2>1
  <2>3. rank[w[m]] \in Nat
    BY <1>5, <1>6
  <2> QED
    BY <2>2, <2>3
<1>8. w \in Injection(1 .. Limit, Address)
  <2>1. w \in [1 .. Limit -> Address]
    BY <1>5, <1>6
  <2>2. \A m, n \in 1 .. Limit : w[m] = w[n] => m = n
    <3> SUFFICES ASSUME NEW m \in 1 .. Limit, NEW n \in 1 .. Limit, m # n PROVE w[m] # w[n]
      OBVIOUS
    <3>1. m < n \/ n < m
      BY <1>1
    <3> QED
      BY <1>7, <3>1
  <2> QED
    BY <2>1, <2>2 DEF Injection, IsInjective
<1>9. w \in Surjection(1 .. Limit, Address)
  BY <1>2, <1>3, <1>8, FS_Injection
<1> QED
  BY <1>9 DEF w, Surjection

\* Every free tag of a class is in the list of the class.
LEMMA WalkFinds ==
    ASSUME NEW h \in HeapType, NEW rank, Linked(h, rank), NEW i \in Class,
           NEW x \in h.headers, h.mem[x].index = i
    PROVE  \E n \in 1 .. Limit : Walk(h, i)[n] = x
<1> DEFINE w == Walk(h, i)
           On(a) == \E n \in 1 .. Limit : w[n] = a
           Mine == {a \in h.headers : h.mem[a].index = i}
           S == {k \in Nat : \A a \in Mine : rank[a] < k => On(a)}
<1>1. /\ Limit \in Nat \ {0} /\ w[1] = h.first[i]
      /\ \A n \in 1 .. Limit - 1 : w[n + 1] = IF w[n] = NULL THEN NULL ELSE h.mem[w[n]].next
  BY WalkIs
<1>2. h.headers \subseteq Address /\ rank \in [Address -> Nat] /\ NULL \notin Address
  BY ClassOf DEF HeapType, Linked
<1>3. w[Limit] # NULL => \A a \in Address : On(a)
  BY WalkFull
<1> HIDE DEF w
<1>4. 0 \in S
  BY <1>2
<1>5. ASSUME NEW k \in Nat, k \in S PROVE k + 1 \in S
  <2> SUFFICES ASSUME NEW a \in Mine, rank[a] < k + 1 PROVE On(a)
    OBVIOUS
  <2>1. a \in h.headers /\ h.mem[a].index = i /\ i # Allocated /\ a \in Address /\ a # NULL
    BY <1>2, ClassOf
  <2>2. CASE h.mem[a].prev = NULL
    <3>1. h.first[i] = a
      BY <2>1, <2>2 DEF Linked
    <3> QED
      BY <1>1, <3>1
  <2>3. CASE h.mem[a].prev # NULL
    <3> DEFINE p == h.mem[a].prev
    <3>1. /\ p \in h.headers /\ h.mem[p].index = i
          /\ h.mem[p].next = a /\ rank[p] < rank[a]
      BY <2>1, <2>3 DEF Linked
    <3> HIDE DEF p
    <3>2. p \in Mine /\ rank[p] < k /\ p # NULL
      BY <1>2, <2>1, <3>1
    <3>3. On(p)
      <4> HIDE DEF On, Mine
      <4> QED
        BY <1>5, <3>2
    <3>4. PICK n \in 1 .. Limit : w[n] = p
      BY <3>3
    <3>5. CASE n = Limit
      <4>1. w[Limit] # NULL
        BY <3>2, <3>4, <3>5
      <4> QED
        BY <1>3, <2>1, <4>1
    <3>6. CASE n # Limit
      <4>1. n \in 1 .. Limit - 1 /\ n + 1 \in 1 .. Limit
        BY <1>1, <3>6
      <4>2. w[n + 1] = a
        BY <1>1, <3>1, <3>2, <3>4, <4>1
      <4> QED
        BY <4>1, <4>2
    <3> QED
      BY <3>5, <3>6
  <2> QED
    BY <2>2, <2>3
<1>6. Nat \subseteq S
  <2> HIDE DEF S
  <2> QED
    BY <1>4, <1>5, Induction
<1>7. x \in Mine /\ rank[x] \in Nat
  BY <1>2
<1>8. rank[x] + 1 \in S /\ rank[x] < rank[x] + 1
  BY <1>6, <1>7
<1>9. On(x)
  <2> HIDE DEF On, Mine
  <2> QED
    BY <1>7, <1>8
<1> QED
  BY <1>9 DEF w

\* Until free cuts a list, the lists hold the free blocks of their class, all
\* of them and nothing else, and prev leads back: what malloc does not find in
\* its lists is not there.
THEOREM ListsAlwaysHoldFree == Spec => []ListsHoldFree
<1>1. ASSUME Sound, Listed PROVE ListsHoldFree
  <2> SUFFICES ASSUME ~ cut, NEW i \in Class
               PROVE  /\ Range(Walk(heap, i)) \ {NULL} = {a \in headers : mem[a].index = i}
                      /\ \A n \in DOMAIN Walk(heap, i) : Walk(heap, i)[n] # NULL =>
                            mem[Walk(heap, i)[n]].prev =
                                IF n = 1 THEN NULL ELSE Walk(heap, i)[n - 1]
    BY DEF ListsHoldFree
  <2>1. /\ heap \in HeapType /\ heap.mem = mem /\ heap.headers = headers
        /\ headers \subseteq Address
    BY <1>1, HeapFields DEF Sound, HeapType
  <2> HIDE DEF heap
  <2>2. PICK rank : Linked(heap, rank)
    BY <1>1 DEF Listed, Whole
  <2> DEFINE w == Walk(heap, i)
  <2>3. DOMAIN w = 1 .. Limit
    BY <2>1, WalkIs
  <2>4. \A n \in 1 .. Limit : w[n] # NULL =>
            /\ w[n] \in headers /\ mem[w[n]].index = i
            /\ mem[w[n]].prev = IF n = 1 THEN NULL ELSE w[n - 1]
    BY <2>1, <2>2, WalkLinked
  <2>5. ASSUME NEW a \in headers, mem[a].index = i PROVE \E n \in 1 .. Limit : w[n] = a
    BY <2>1, <2>2, <2>5, WalkFinds
  <2>6. NULL \notin headers
    BY <2>1, ClassOf
  <2> HIDE DEF w
  <2>7. Range(w) \ {NULL} = {a \in headers : mem[a].index = i}
    <3>1. Range(w) = {w[n] : n \in 1 .. Limit}
      BY <2>3 DEF Range
    <3> QED
      BY <2>4, <2>5, <2>6, <3>1
  <2>8. \A n \in DOMAIN w : w[n] # NULL =>
            mem[w[n]].prev = IF n = 1 THEN NULL ELSE w[n - 1]
    BY <2>3, <2>4
  <2> QED
    BY <2>7, <2>8 DEF w
<1> QED
  BY <1>1, AlwaysSound, AlwaysListed, PTL

-----------------------------------------------------------------------------
(* The sum of the counts: it changes with one of its terms at a time.      *)

\* The sum of a function, and the element a fold takes next.
Sum(f) == FoldFunction(+, 0, f)
Some(s) == CHOOSE x \in s : TRUE
SumOver(D, f, g) ==
    \A s \in SUBSET D : g[s] = IF s = {} THEN 0 ELSE f[Some(s)] + g[s \ {Some(s)}]

\* What induction over a finite set needs.
LEMMA Smaller ==
    ASSUME NEW D, IsFiniteSet(D), NEW s \in SUBSET D
    PROVE  /\ Cardinality(s) \in Nat /\ Cardinality(s) <= Cardinality(D)
           /\ Cardinality(D) \in Nat
           /\ s = {} => Cardinality(s) = 0
           /\ s # {} => /\ Some(s) \in s /\ s \ {Some(s)} \in SUBSET D
                        /\ Cardinality(s \ {Some(s)}) = Cardinality(s) - 1
                        /\ Cardinality(s) # 0
<1>1. IsFiniteSet(s) /\ Cardinality(s) <= Cardinality(D)
  BY FS_Subset
<1>2. Cardinality(s) \in Nat /\ Cardinality(D) \in Nat
  BY <1>1, FS_CardinalityType
<1>3. s = {} <=> Cardinality(s) = 0
  BY <1>1, FS_EmptySet
<1>4. s # {} => Some(s) \in s
  BY DEF Some
<1>5. s # {} => Cardinality(s \ {Some(s)}) = Cardinality(s) - 1
  BY <1>1, <1>4, FS_RemoveElement
<1> QED
  BY <1>1, <1>2, <1>3, <1>4, <1>5

LEMMA SumIs ==
    ASSUME NEW D, IsFiniteSet(D), NEW f, DOMAIN f = D
    PROVE  \E g : SumOver(D, f, g) /\ Sum(f) = g[D]
<1> DEFINE Value(g, s) == IF s = {} THEN 0 ELSE f[Some(s)] + g[s \ {Some(s)}]
           Upto(g, n) == \A s \in SUBSET D : Cardinality(s) <= n => g[s] = Value(g, s)
           S == {n \in Nat : \E g : Upto(g, n)}
<1>1. 0 \in S
  <2> DEFINE g == [s \in SUBSET D |-> 0]
  <2>1. ASSUME NEW s \in SUBSET D, Cardinality(s) <= 0 PROVE s = {}
    <3>1. Cardinality(s) \in Nat /\ (s # {} => Cardinality(s) # 0)
      BY Smaller
    <3> HIDE DEF Upto, S, g
    <3> QED
      BY <2>1, <3>1
  <2>2. Upto(g, 0)
    BY <2>1
  <2> HIDE DEF Upto, g
  <2> QED
    BY <2>2
<1>2. ASSUME NEW n \in Nat, n \in S PROVE n + 1 \in S
  <2>1. PICK g : Upto(g, n)
    BY <1>2
  <2> DEFINE h == [s \in SUBSET D |-> IF Cardinality(s) <= n THEN g[s] ELSE Value(g, s)]
  <2>2. ASSUME NEW s \in SUBSET D, Cardinality(s) <= n + 1 PROVE h[s] = Value(h, s)
    <3>1. h[s] = Value(g, s)
      BY <2>1
    <3>2. s # {} => h[s \ {Some(s)}] = g[s \ {Some(s)}]
      <4> SUFFICES ASSUME s # {} PROVE h[s \ {Some(s)}] = g[s \ {Some(s)}]
        OBVIOUS
      <4>1. s \ {Some(s)} \in SUBSET D /\ Cardinality(s \ {Some(s)}) <= n
        BY <2>2, Smaller
      <4> QED
        BY <4>1
    <3> HIDE DEF h
    <3> QED
      BY <3>1, <3>2
  <2>3. Upto(h, n + 1)
    BY <2>2
  <2>4. n + 1 \in Nat
    OBVIOUS
  <2> HIDE DEF Upto, h
  <2> QED
    BY <2>3, <2>4
<1>3. Nat \subseteq S
  <2> HIDE DEF S
  <2> QED
    BY <1>1, <1>2, Induction
<1>4. \E g : g = [s \in SUBSET D |-> Value(g, s)]
  <2>1. Cardinality(D) \in Nat
    BY FS_CardinalityType
  <2>2. PICK g : Upto(g, Cardinality(D))
    BY <1>3, <2>1
  <2>3. \A s \in SUBSET D : g[s] = Value(g, s)
    BY <2>2, Smaller
  <2> DEFINE h == [s \in SUBSET D |-> g[s]]
  <2>4. h = [s \in SUBSET D |-> Value(h, s)]
    <3>1. ASSUME NEW s \in SUBSET D PROVE h[s] = Value(h, s)
      <4>1. s # {} => h[s \ {Some(s)}] = g[s \ {Some(s)}]
        OBVIOUS
      <4>2. h[s] = Value(g, s)
        BY <2>3
      <4> HIDE DEF h
      <4> QED
        BY <4>1, <4>2
    <3>2. h = [s \in SUBSET D |-> h[s]]
      OBVIOUS
    <3> HIDE DEF h
    <3> QED
      BY <3>1, <3>2
  <2> QED
    BY <2>4
<1> DEFINE iter == CHOOSE g : g = [s \in SUBSET D |-> Value(g, s)]
<1>5. iter = [s \in SUBSET D |-> Value(iter, s)]
  BY <1>4
<1>6. Sum(f) = iter[D]
  BY DEF Sum, FoldFunction, FoldFunctionOnSet, MapThenFoldSet, Some
<1> HIDE DEF iter
<1>7. SumOver(D, f, iter)
  BY <1>5 DEF SumOver
<1> QED
  BY <1>6, <1>7

\* A sum changes with one of its terms.
LEMMA SumChanges ==
    ASSUME NEW D, IsFiniteSet(D), NEW f \in [D -> Int], NEW f2 \in [D -> Int],
           NEW i \in D, \A j \in D : j # i => f2[j] = f[j]
    PROVE  Sum(f) \in Int /\ Sum(f2) = Sum(f) + f2[i] - f[i]
<1>1. PICK g : SumOver(D, f, g) /\ Sum(f) = g[D]
  BY SumIs
<1>2. PICK g2 : SumOver(D, f2, g2) /\ Sum(f2) = g2[D]
  BY SumIs
<1> DEFINE Right(s) == /\ g[s] \in Int
                       /\ g2[s] = IF i \in s THEN g[s] + f2[i] - f[i] ELSE g[s]
           S == {n \in Nat : \A s \in SUBSET D : Cardinality(s) = n => Right(s)}
<1>3. 0 \in S
  <2> SUFFICES ASSUME NEW s \in SUBSET D, Cardinality(s) = 0 PROVE Right(s)
    OBVIOUS
  <2>1. s = {}
    BY Smaller
  <2>2. g[s] = 0 /\ g2[s] = 0
    BY <1>1, <1>2, <2>1 DEF SumOver
  <2> QED
    BY <2>1, <2>2
<1>4. ASSUME NEW n \in Nat, n \in S PROVE n + 1 \in S
  <2> SUFFICES ASSUME NEW s \in SUBSET D, Cardinality(s) = n + 1 PROVE Right(s)
    OBVIOUS
  <2> DEFINE x == Some(s)
             t == s \ {x}
  <2>1. s # {} /\ x \in s /\ x \in D /\ t \in SUBSET D /\ Cardinality(t) = n
    BY Smaller
  <2>2. Right(t)
    BY <1>4, <2>1
  <2>3. g[s] = f[x] + g[t] /\ g2[s] = f2[x] + g2[t]
    BY <1>1, <1>2, <2>1 DEF SumOver
  <2>4. f[x] \in Int /\ f2[x] \in Int /\ f[i] \in Int /\ f2[i] \in Int /\ (x # i => f2[x] = f[x])
    BY <2>1
  <2>5. (i \in s <=> i \in t \/ x = i) /\ x \notin t
    BY <2>1
  <2> HIDE DEF x, t
  <2> QED
    BY <2>2, <2>3, <2>4, <2>5
<1>5. Nat \subseteq S
  <2> HIDE DEF S
  <2> QED
    BY <1>3, <1>4, Induction
<1>6. Cardinality(D) \in Nat
  BY FS_CardinalityType
<1>7. Right(D)
  BY <1>5, <1>6
<1> QED
  BY <1>1, <1>2, <1>7

LEMMA SumOfNone ==
    ASSUME NEW D, IsFiniteSet(D), NEW f \in [D -> Int], \A j \in D : f[j] = 0
    PROVE  Sum(f) = 0
<1>1. PICK g : SumOver(D, f, g) /\ Sum(f) = g[D]
  BY SumIs
<1> DEFINE S == {n \in Nat : \A s \in SUBSET D : Cardinality(s) = n => g[s] = 0}
<1>2. 0 \in S
  <2> SUFFICES ASSUME NEW s \in SUBSET D, Cardinality(s) = 0 PROVE g[s] = 0
    OBVIOUS
  <2> QED
    BY <1>1, Smaller DEF SumOver
<1>3. ASSUME NEW n \in Nat, n \in S PROVE n + 1 \in S
  <2> SUFFICES ASSUME NEW s \in SUBSET D, Cardinality(s) = n + 1 PROVE g[s] = 0
    OBVIOUS
  <2> DEFINE x == Some(s)
             t == s \ {x}
  <2>1. s # {} /\ x \in D /\ t \in SUBSET D /\ Cardinality(t) = n
    BY Smaller
  <2>2. g[t] = 0
    BY <1>3, <2>1
  <2>3. g[s] = f[x] + g[t] /\ f[x] = 0
    BY <1>1, <2>1 DEF SumOver
  <2> QED
    BY <2>2, <2>3
<1>4. Nat \subseteq S
  <2> HIDE DEF S
  <2> QED
    BY <1>2, <1>3, Induction
<1> QED
  BY <1>1, <1>4, FS_CardinalityType

LEMMA ClassesFinite == IsFiniteSet(Class)
<1>1. 0 \in Int /\ MEMORY_TOT_EXP - 1 \in Int
  BY Sizes
<1> QED
  BY <1>1, FS_Interval DEF Class

\* The regions that are one free block, and whether they are counted, but for
\* the block x in hand.
Unused(h) == {a \in h.headers : /\ h.mem[a].index # Allocated
                                /\ h.mem[a].splitprev = NULL /\ h.mem[a].splitnext = NULL}
CountedBut(h, x) == Sum(h.complete) = Cardinality(Unused(h) \ {x})
Counted(h) == Sum(h.complete) = Cardinality(Unused(h))

LEMMA UnusedFinite ==
    ASSUME NEW h \in HeapType
    PROVE  IsFiniteSet(Unused(h)) /\ Cardinality(Unused(h)) \in Nat
<1>1. IsFiniteSet(Address)
  <2>1. Limit - 1 \in Int /\ 0 \in Int
    BY Sizes DEF Limit
  <2> QED
    BY <2>1, FS_Interval DEF Address, Limit
<1>2. Unused(h) \subseteq Address
  BY DEF Unused, HeapType
<1>3. IsFiniteSet(Unused(h))
  BY <1>1, <1>2, FS_Subset
<1> QED
  BY <1>3, FS_CardinalityType

\* One region more or less, and one count.
LEMMA CountsUp ==
    ASSUME NEW g \in HeapType, NEW h \in HeapType, NEW a, CountedBut(h, a), NEW i \in Class,
           g.complete[i] = h.complete[i] + 1,
           \A j \in Class : j # i => g.complete[j] = h.complete[j],
           Unused(g) = (Unused(h) \ {a}) \cup {a}
    PROVE  Counted(g)
<1> DEFINE S == Unused(h) \ {a}
<1>1. IsFiniteSet(S) /\ a \notin S /\ Unused(g) = S \cup {a}
  <2>1. IsFiniteSet(Unused(h))
    BY UnusedFinite
  <2> QED
    BY <2>1, FS_Subset
<1>2. Sum(h.complete) = Cardinality(S)
  BY DEF CountedBut
<1> HIDE DEF S
<1>3. Cardinality(S \cup {a}) = Cardinality(S) + 1
  BY <1>1, FS_AddElement
<1>4. /\ g.complete \in [Class -> Int] /\ h.complete \in [Class -> Int]
      /\ g.complete[i] \in Int /\ h.complete[i] \in Int
  BY DEF HeapType
<1>5. /\ Sum(h.complete) \in Int
      /\ Sum(g.complete) = Sum(h.complete) + g.complete[i] - h.complete[i]
  BY <1>4, ClassesFinite, SumChanges
<1>6. Sum(g.complete) = Sum(h.complete) + 1
  BY <1>4, <1>5
<1> QED
  BY <1>1, <1>2, <1>3, <1>6 DEF Counted

LEMMA CountsDown ==
    ASSUME NEW g \in HeapType, NEW h \in HeapType, NEW a \in Unused(h), Counted(h), NEW i \in Class,
           g.complete[i] = h.complete[i] - 1,
           \A j \in Class : j # i => g.complete[j] = h.complete[j],
           Unused(g) = Unused(h) \ {a}
    PROVE  Counted(g)
<1>1. IsFiniteSet(Unused(h)) /\ Cardinality(Unused(h)) \in Nat
  BY UnusedFinite
<1>2. Cardinality(Unused(h) \ {a}) = Cardinality(Unused(h)) - 1
  BY <1>1, FS_RemoveElement
<1>3. /\ g.complete \in [Class -> Int] /\ h.complete \in [Class -> Int]
      /\ g.complete[i] \in Int /\ h.complete[i] \in Int
  BY DEF HeapType
<1>4. /\ Sum(h.complete) \in Int
      /\ Sum(g.complete) = Sum(h.complete) + g.complete[i] - h.complete[i]
  BY <1>3, ClassesFinite, SumChanges
<1>5. Sum(g.complete) = Sum(h.complete) - 1
  BY <1>3, <1>4
<1>6. Sum(h.complete) = Cardinality(Unused(h))
  BY DEF Counted
<1> QED
  BY <1>2, <1>5, <1>6 DEF Counted

LEMMA CompleteSame ==
    ASSUME NEW g \in HeapType, NEW h \in HeapType, \A j \in Class : g.complete[j] = h.complete[j]
    PROVE  g.complete = h.complete
BY DEF HeapType

-----------------------------------------------------------------------------
(* malloc and free keep the count.                                         *)

LEMMA TakeCounted ==
    ASSUME NEW h \in HeapType, Counted(h), NEW a \in h.headers, h.mem[a].index # Allocated,
           NEW size, GetIndex(size) \in Class
    PROVE  Counted(Take(h, a, size))
<1> DEFINE i == GetIndex(size)
           whole == h.mem[a].splitprev = NULL /\ h.mem[a].splitnext = NULL
           c == CutTies(Unlink(h, a), a)
           g == Take(h, a, size)
<1>1. h.headers \subseteq Address /\ a \in Address
  BY DEF HeapType
<1>2. /\ g \in HeapType /\ Same(c, h) /\ g.headers = h.headers
      /\ \A b \in Address :
            /\ g.mem[b].index = IF b = a THEN Allocated ELSE h.mem[b].index
            /\ g.mem[b].splitprev = h.mem[b].splitprev
            /\ g.mem[b].splitnext = h.mem[b].splitnext
  BY <1>1, TakeIs
<1>3. g.complete = [c.complete EXCEPT ![i] = IF whole THEN @ - 1 ELSE @]
  BY DEF Take
<1>4. c.complete = h.complete
  BY <1>2 DEF Same, Around
<1> HIDE DEF c, g, i
<1>5. i \in Class /\ h.complete \in [Class -> Int]
  BY DEF i, HeapType
<1>6. Unused(g) = Unused(h) \ {a}
  BY <1>1, <1>2 DEF Unused
<1>7. whole <=> a \in Unused(h)
  BY DEF Unused
<1> HIDE DEF whole
<1>8. CASE whole
  <2>1. /\ g.complete[i] = h.complete[i] - 1
        /\ \A j \in Class : j # i => g.complete[j] = h.complete[j]
    BY <1>3, <1>4, <1>5, <1>8
  <2>2. Counted(g)
    BY <1>2, <1>5, <1>6, <1>7, <1>8, <2>1, CountsDown
  <2> QED
    BY <2>2 DEF g
<1>9. CASE ~ whole
  <2>1. g.complete = h.complete
    BY <1>3, <1>4, <1>5, <1>9
  <2>2. Counted(g)
    BY <1>6, <1>7, <1>9, <2>1 DEF Counted
  <2> QED
    BY <2>2 DEF g
<1> QED
  BY <1>8, <1>9

\* A part of a region is no region.
LEMMA SplitCounted ==
    ASSUME NEW h, Struct(h), Counted(h), NEW a \in h.headers, h.mem[a].index = Allocated,
           NEW size \in Size
    PROVE  Counted(Split(h, a, size))
<1>1. CASE Splits(h, a, size)
  <2> DEFINE k     == Tied(h, a, size)
             rest  == a + TAG + size
             after == h.mem[a].splitnext
             i     == GetIndex(Remainder(h, a, size) - TAG)
             g     == Split(h, a, size)
  <2>1. h \in HeapType /\ Bounded(h) /\ Chained(h) /\ h.headers \subseteq Address /\ a \in Address
        /\ NULL \notin Address
    BY ClassOf DEF Struct, HeapType
  <2>2. rest \notin h.headers /\ rest \in Address /\ after # rest
    BY <1>1, TiedStruct
  <2>3. i \in Class
    BY <1>1, <2>1, SplitTypes
  <2>4. g = Push(k, rest, i)
    BY <1>1, SplitIsPush
  <2>5. /\ k \in HeapType /\ k.headers = h.headers \cup {rest} /\ k.complete = h.complete
        /\ \A b \in Address :
              /\ k.mem[b].index = IF b = rest THEN i ELSE h.mem[b].index
              /\ k.mem[b].splitprev = IF b = after THEN rest ELSE IF b = rest THEN a
                                      ELSE h.mem[b].splitprev
              /\ k.mem[b].splitnext = IF b = rest THEN after
                                      ELSE IF b = a THEN rest ELSE h.mem[b].splitnext
    BY <1>1, <2>1, TiedIs
  <2>6. after # NULL => h.mem[after].splitprev = a
    BY <2>1 DEF Chained
  <2> HIDE DEF k, rest, after, i, g
  <2>7. Same(g, k)
    BY <2>2, <2>3, <2>4, <2>5, PushIsSame
  <2>8. /\ g.headers = h.headers \cup {rest} /\ g.complete = h.complete
        /\ \A b \in Address :
              /\ g.mem[b].index = IF b = rest THEN i ELSE h.mem[b].index
              /\ g.mem[b].splitprev = IF b = after THEN rest ELSE IF b = rest THEN a
                                      ELSE h.mem[b].splitprev
              /\ g.mem[b].splitnext = IF b = rest THEN after
                                      ELSE IF b = a THEN rest ELSE h.mem[b].splitnext
    BY <2>5, <2>7 DEF Same, Around
  <2>9. rest \notin Unused(g)
    BY <2>1, <2>2, <2>8 DEF Unused
  <2>10. ASSUME NEW b \in h.headers PROVE b \in Unused(g) <=> b \in Unused(h)
    <3>1. CASE b = a
      BY <2>1, <2>2, <2>8, <3>1 DEF Unused
    <3>2. CASE b = after
      BY <2>1, <2>2, <2>6, <2>8, <3>2 DEF Unused
    <3>3. CASE b # a /\ b # after
      BY <2>1, <2>2, <2>8, <3>3 DEF Unused
    <3> QED
      BY <3>1, <3>2, <3>3
  <2>11. Unused(g) = Unused(h)
    BY <2>8, <2>9, <2>10 DEF Unused
  <2> QED
    BY <2>8, <2>11 DEF Counted, g
<1>2. CASE ~ Splits(h, a, size)
  BY <1>2, SplitIsPush
<1> QED
  BY <1>1, <1>2

LEMMA RegionCounted ==
    ASSUME NEW h \in HeapType, Counted(h), NEW size \in Size,
           Bases(h, RegionPages(size + TAG)) # {}, NewRegion(h, size).tag \notin h.headers
    PROVE  Counted(NewRegion(h, size).heap)
<1> DEFINE g == NewRegion(h, size).heap
           a == NewRegion(h, size).tag
<1>1. /\ g.headers = h.headers \cup {a} /\ g.complete = h.complete
      /\ \A b \in Address : b # a => g.mem[b] = h.mem[b]
      /\ g.mem[a].index = Allocated
  BY RegionIs
<1>2. h.headers \subseteq Address
  BY DEF HeapType
<1> HIDE DEF g, a
<1>3. Unused(g) = Unused(h)
  BY <1>1, <1>2 DEF Unused, a
<1> QED
  BY <1>1, <1>3 DEF Counted, g

LEMMA MallocCounted ==
    ASSUME NEW h, Struct(h), Merged(h, NULL), NEW f, Held(h, f), CountsBounded(h),
           NEW size \in Size, HasRoom(h, size), Counted(h), Malloc(h, size).heap.broken = "no"
    PROVE  Counted(Malloc(h, size).heap)
<1> DEFINE k == Served(h, size).heap
           a == Served(h, size).tag
           s == Split(k, a, size)
           g == Malloc(h, size).heap
<1>1. /\ a \in Address /\ k \in HeapType /\ Bounded(k)
      /\ k.broken = "no" => /\ Struct(k) /\ a \in k.headers /\ k.mem[a].index = Allocated
                            /\ Counted(k)
  <2>0. h \in HeapType /\ h.headers \subseteq Address /\ Unmarked(h)
    BY DEF Struct, HeapType
  <2>1. CASE Found(h, size) # NULL
    <3> DEFINE b == Found(h, size)
    <3>1. k = Take(h, b, size) /\ a = b
      BY <2>1 DEF Served
    <3>2. b \in Address /\ size + TAG <= h.mem[b].realsize
      BY <2>0, <2>1, FoundIs
    <3> HIDE DEF k, a, b
    <3>3. /\ k \in HeapType /\ Bounded(k)
          /\ k.broken = "no" => Struct(k) /\ a \in k.headers /\ k.mem[a].index = Allocated
      BY <3>1, <3>2, TakeServes
    <3>4. GetIndex(size) \in Class
      BY ClassOfSize
    <3>5. h.mem[b].index = Allocated => k.broken = "twice"
      BY <2>0, <3>1, <3>2, <3>4, TakeIs
    <3>6. k.broken = "no" => Counted(k)
      <4> SUFFICES ASSUME k.broken = "no" PROVE Counted(k)
        OBVIOUS
      <4>1. h.mem[b].index # Allocated
        BY <3>5
      <4>2. b \in h.headers
        BY <2>0, <3>2, <4>1 DEF Unmarked
      <4> QED
        BY <2>0, <3>1, <3>4, <4>1, <4>2, TakeCounted
    <3> QED
      BY <3>1, <3>2, <3>3, <3>6
  <2>2. CASE Found(h, size) = NULL
    <3>1. Served(h, size) = NewRegion(h, size)
      BY <2>2 DEF Served
    <3>2. Bases(h, RegionPages(size + TAG)) # {}
      BY <2>2 DEF HasRoom
    <3>3. /\ a \in Address /\ k \in HeapType /\ Bounded(k)
          /\ Struct(k) /\ a \in k.headers /\ k.mem[a].index = Allocated
      BY <3>1, <3>2, RegionServes
    <3>4. a \notin h.headers
      BY <3>1, <3>2, RegionStruct
    <3>5. Counted(k)
      BY <2>0, <3>1, <3>2, <3>4, RegionCounted
    <3> QED
      BY <3>3, <3>5
  <2> QED
    BY <2>1, <2>2
<1> HIDE DEF k, a
<1>2. s \in HeapType /\ (s.broken = "no" => k.broken = "no")
  BY <1>1, SplitIs
<1>3. k.broken = "no" => Counted(s)
  BY <1>1, SplitCounted
<1>4. s = Split(k, a, size)
  OBVIOUS
<1> HIDE DEF s
<1>5. s = Split(Served(h, size).heap, Served(h, size).tag, size)
  BY <1>4 DEF k, a
<1>6. /\ g.mem = s.mem /\ g.headers = s.headers /\ g.complete = s.complete
      /\ g.broken = IF Strays(h, size) THEN "astray" ELSE s.broken
  BY <1>2, <1>5, MallocIs
<1>7. g.broken = "no"
  OBVIOUS
<1> HIDE DEF g
<1>8. s.broken = "no"
  BY <1>6, <1>7
<1>9. Counted(s)
  BY <1>2, <1>3, <1>8
<1> QED
  BY <1>6, <1>9 DEF Counted, Unused, g

\* Two neighbours are no region, and one block of them is in hand.
LEMMA JoinCounted ==
    ASSUME NEW h, Struct(h), NEW left \in h.headers, NEW right \in h.headers,
           h.mem[left].splitnext = right
    PROVE  LET g == Join(h, left, right) IN
           /\ g.complete = h.complete /\ Unused(g) \ {left} = Unused(h)
           /\ left \notin Unused(h) /\ right \notin Unused(h)
<1> DEFINE g     == Join(h, left, right)
           after == h.mem[right].splitnext
<1>1. /\ h.headers \subseteq Address /\ Chained(h) /\ NULL \notin Address
  BY ClassOf DEF Struct, HeapType
<1>2. /\ g.headers = h.headers \ {right} /\ g.complete = h.complete
      /\ left # right /\ left # after /\ left \in Address
      /\ \A b \in Address :
            /\ g.mem[b].index = IF b = right THEN Allocated ELSE h.mem[b].index
            /\ g.mem[b].splitprev = IF b = after THEN left ELSE h.mem[b].splitprev
            /\ g.mem[b].splitnext = IF b = left THEN after ELSE h.mem[b].splitnext
  BY JoinFields
<1>3. /\ right # NULL /\ h.mem[right].splitprev = left
      /\ after # NULL => h.mem[after].splitprev = right
  BY <1>1 DEF Chained
<1> HIDE DEF g, after
<1>4. left \notin Unused(h) /\ right \notin Unused(h)
  BY <1>1, <1>2, <1>3 DEF Unused
<1>5. ASSUME NEW b \in h.headers, b # left, b # right PROVE b \in Unused(g) <=> b \in Unused(h)
  <2>1. CASE b = after
    BY <1>1, <1>2, <1>3, <1>5, <2>1 DEF Unused
  <2>2. CASE b # after
    BY <1>1, <1>2, <1>5, <2>2 DEF Unused
  <2> QED
    BY <2>1, <2>2
<1>6. Unused(g) \subseteq h.headers \ {right} /\ Unused(h) \subseteq h.headers
  BY <1>2 DEF Unused
<1>7. Unused(g) \ {left} = Unused(h)
  BY <1>4, <1>5, <1>6
<1> QED
  BY <1>2, <1>4, <1>7 DEF g

LEMMA LeftCounted ==
    ASSUME NEW h, Struct(h), Counted(h), NEW b \in h.headers, h.mem[b].index = Allocated,
           NEW r, r = JoinLeft([heap |-> h, tag |-> b])
    PROVE  CountedBut(r.heap, r.tag)
<1> DEFINE left == h.mem[b].splitprev
<1>1. CASE IsFree(h, left)
  <2>1. r = [heap |-> Join(h, left, b), tag |-> left]
    BY <1>1 DEF JoinLeft
  <2>2. left \in h.headers /\ h.mem[left].splitnext = b
    BY <1>1 DEF IsFree, Struct, Chained
  <2> HIDE DEF left
  <2>3. /\ Join(h, left, b).complete = h.complete /\ Unused(Join(h, left, b)) \ {left} = Unused(h)
    BY <2>2, JoinCounted
  <2>4. r.heap = Join(h, left, b) /\ r.tag = left
    BY <2>1
  <2> QED
    BY <2>3, <2>4 DEF Counted, CountedBut
<1>2. CASE ~ IsFree(h, left)
  <2>1. r.heap = h /\ r.tag = b
    BY <1>2 DEF JoinLeft
  <2>2. Unused(h) \ {b} = Unused(h)
    BY DEF Unused
  <2> QED
    BY <2>1, <2>2 DEF Counted, CountedBut
<1> QED
  BY <1>1, <1>2

LEMMA RightCounted ==
    ASSUME NEW h, Struct(h), NEW a \in h.headers, CountedBut(h, a)
    PROVE  CountedBut(JoinRight(h, a), a)
<1> DEFINE right == h.mem[a].splitnext
<1>1. CASE IsFree(h, right)
  <2>1. JoinRight(h, a) = Join(h, a, right)
    BY <1>1 DEF JoinRight
  <2>2. right \in h.headers /\ h.mem[a].splitnext = right
    BY <1>1 DEF IsFree, Struct, Chained
  <2> HIDE DEF right
  <2>3. /\ Join(h, a, right).complete = h.complete /\ Unused(Join(h, a, right)) \ {a} = Unused(h)
        /\ a \notin Unused(h)
    BY <2>2, JoinCounted
  <2>4. Unused(h) \ {a} = Unused(h)
    BY <2>3
  <2> QED
    BY <2>1, <2>3, <2>4 DEF CountedBut
<1>2. CASE ~ IsFree(h, right)
  BY <1>2 DEF JoinRight
<1> QED
  BY <1>1, <1>2

\* The block in hand is given back, or filed and counted if it is a region.
LEMMA FinishCounted ==
    ASSUME NEW h, Struct(h), NEW a \in h.headers, CountedBut(h, a),
           GetIndex(h.mem[a].realsize - TAG) \in Class
    PROVE  LET i     == GetIndex(h.mem[a].realsize - TAG)
               whole == h.mem[a].splitprev = NULL /\ h.mem[a].splitnext = NULL
               n     == IF whole THEN h.complete[i] + 1 ELSE h.complete[i]
               g     == IF whole /\ ~ Keeps(h, i) THEN GiveBack(h, a)
                        ELSE CutOff(Filed(h, a, i, n), a)
           IN  Counted(g)
<1> DEFINE i     == GetIndex(h.mem[a].realsize - TAG)
           whole == h.mem[a].splitprev = NULL /\ h.mem[a].splitnext = NULL
           n     == IF whole THEN h.complete[i] + 1 ELSE h.complete[i]
<1>1. h \in HeapType /\ h.headers \subseteq Address /\ a \in Address
  BY DEF Struct, HeapType
<1>2. CASE whole /\ ~ Keeps(h, i)
  <2> DEFINE g == GiveBack(h, a)
  <2>1. g.headers = h.headers \ {a} /\ g.complete = h.complete /\ g.mem = Gone(h, a).mem
    BY <1>2, GiveBackStruct
  <2>2. \A b \in Address :
            /\ g.mem[b].index = IF b = a THEN Allocated ELSE h.mem[b].index
            /\ g.mem[b].splitprev = h.mem[b].splitprev
            /\ g.mem[b].splitnext = h.mem[b].splitnext
    BY <1>1, <2>1, GoneIs
  <2> HIDE DEF g
  <2>3. Unused(g) = Unused(h) \ {a}
    BY <1>1, <2>1, <2>2 DEF Unused
  <2>4. Counted(g)
    BY <2>1, <2>3 DEF Counted, CountedBut
  <2> QED
    BY <1>2, <2>4 DEF g
<1>3. CASE ~ (whole /\ ~ Keeps(h, i))
  <2> DEFINE g == CutOff(Filed(h, a, i, n), a)
  <2>1. i \in Class /\ h.complete[i] \in Int /\ n \in Int
    BY <1>1 DEF HeapType
  <2>2. /\ g \in HeapType /\ g.headers = h.headers
        /\ \A j \in Class : g.complete[j] = IF j = i THEN n ELSE h.complete[j]
        /\ \A b \in Address :
              /\ g.mem[b].index = IF b = a THEN i ELSE h.mem[b].index
              /\ g.mem[b].splitprev = h.mem[b].splitprev
              /\ g.mem[b].splitnext = h.mem[b].splitnext
    <3> HIDE DEF i, n
    <3> QED
      BY <1>1, <2>1, FiledIs
  <2>3. i # Allocated
    BY <2>1, ClassOf
  <2>4. n = IF whole THEN h.complete[i] + 1 ELSE h.complete[i]
    OBVIOUS
  <2> HIDE DEF g, i, n
  <2>5. \A b \in h.headers : b # a => (b \in Unused(g) <=> b \in Unused(h))
    BY <1>1, <2>2 DEF Unused
  <2>6. Unused(g) \subseteq h.headers /\ Unused(h) \subseteq h.headers
    BY <2>2 DEF Unused
  <2>7. a \in Unused(g) <=> whole
    BY <1>1, <2>2, <2>3 DEF Unused
  <2> HIDE DEF whole
  <2>8. ASSUME whole PROVE Counted(g)
    <3>1. /\ g.complete[i] = h.complete[i] + 1
          /\ \A j \in Class : j # i => g.complete[j] = h.complete[j]
      BY <2>1, <2>2, <2>4, <2>8
    <3>2. Unused(g) = (Unused(h) \ {a}) \cup {a}
      BY <2>5, <2>6, <2>7, <2>8
    <3> QED
      BY <1>1, <2>1, <2>2, <3>1, <3>2, CountsUp
  <2>9. ASSUME ~ whole PROVE Counted(g)
    <3>1. g.complete = h.complete
      BY <1>1, <2>2, <2>4, <2>9, CompleteSame
    <3>2. Unused(g) = Unused(h) \ {a}
      BY <2>5, <2>6, <2>7, <2>9
    <3> QED
      BY <3>1, <3>2 DEF Counted, CountedBut
  <2>10. Counted(g)
    BY <2>8, <2>9
  <2> QED
    BY <1>3, <2>10 DEF g, i, n, whole
<1> QED
  BY <1>2, <1>3

LEMMA FreeCounted ==
    ASSUME NEW h, Struct(h), Merged(h, NULL), NEW b \in h.headers, NEW f, Held(h, f),
           b \notin DOMAIN f, CountsBounded(h), h.mem[b].index = Allocated, Counted(h)
    PROVE  Counted(Free(h, b))
<1> DEFINE left == MergeLeft(h, b)
           k    == left.heap
           a    == left.tag
           m    == MergeRight(k, a)
<1>1. /\ left = JoinLeft([heap |-> h, tag |-> b])
      /\ Struct(k) /\ a \in k.headers /\ Merged(k, a) /\ LeftDone(k, a)
      /\ Held(k, f) /\ a \notin DOMAIN f /\ k.complete = h.complete
  BY MergeLeftIs
<1>2. Free(h, b) = IF /\ m.mem[a].splitprev = NULL /\ m.mem[a].splitnext = NULL
                      /\ ~ Keeps(m, GetIndex(m.mem[a].realsize - TAG))
                   THEN GiveBack(m, a)
                   ELSE CutOff(Filed(m, a, GetIndex(m.mem[a].realsize - TAG),
                               IF m.mem[a].splitprev = NULL /\ m.mem[a].splitnext = NULL
                               THEN m.complete[GetIndex(m.mem[a].realsize - TAG)] + 1
                               ELSE m.complete[GetIndex(m.mem[a].realsize - TAG)]), a)
  BY FreeIs
<1> HIDE DEF left
<1>3. CountedBut(k, a)
  BY <1>1, LeftCounted
<1> HIDE DEF k, a
<1>4. /\ m = JoinRight(k, a)
      /\ Struct(m) /\ a \in m.headers /\ Merged(m, a) /\ LeftDone(m, a) /\ RightDone(m, a)
      /\ Held(m, f) /\ m.complete = k.complete
  BY <1>1, MergeRightIs
<1> HIDE DEF m
<1>5. CountedBut(m, a)
  BY <1>1, <1>3, <1>4, RightCounted
<1>6. CountsBounded(m)
  BY <1>1, <1>4 DEF CountsBounded
<1>7. GetIndex(m.mem[a].realsize - TAG) \in Class
  BY <1>1, <1>4, <1>6, FinishStruct
<1> DEFINE i     == GetIndex(m.mem[a].realsize - TAG)
           whole == m.mem[a].splitprev = NULL /\ m.mem[a].splitnext = NULL
           n     == IF whole THEN m.complete[i] + 1 ELSE m.complete[i]
           g     == IF whole /\ ~ Keeps(m, i) THEN GiveBack(m, a)
                    ELSE CutOff(Filed(m, a, i, n), a)
<1>8. Counted(g)
  BY <1>4, <1>5, <1>7, FinishCounted
<1>9. Free(h, b) = g
  BY <1>2
<1> HIDE DEF g
<1> QED
  BY <1>8, <1>9

-----------------------------------------------------------------------------
(* The calls keep the count.                                               *)

Tallied == broken = "no" => Counted(heap)

LEMMA BecomeTallied ==
    ASSUME NEW h, h \in HeapType, Become(h),
           h.broken = "no" => Struct(h) /\ Held(h, blocks') /\ Counted(h)
    PROVE  Tallied'
<1> DEFINE f == blocks'
           g == heap'
<1>1. /\ g.complete = h.complete /\ g.headers = h.headers /\ broken' = h.broken
      /\ g.intact = Outlasting(h.intact, Data(f))
      /\ \A a \in Address : g.mem[a] = IF a \in g.intact THEN h.mem[a] ELSE NoTag
  BY BecomeIs
<1>2. h.headers \subseteq Address
  BY DEF HeapType
<1>3. h.broken = "no" => h.headers \subseteq g.intact
  <2> HIDE DEF g
  <2>1. h.broken = "no" => Struct(h) /\ Held(h, f)
    OBVIOUS
  <2> HIDE DEF f
  <2> QED
    BY <1>1, <2>1, TagsOutlast
<1> HIDE DEF g, f
<1>4. h.broken = "no" => Unused(g) = Unused(h)
  <2> SUFFICES ASSUME h.broken = "no" PROVE Unused(g) = Unused(h)
    OBVIOUS
  <2>1. \A a \in h.headers : g.mem[a] = h.mem[a]
    BY <1>1, <1>2, <1>3
  <2> QED
    BY <1>1, <2>1 DEF Unused
<1>5. broken' = "no" => Counted(g)
  BY <1>1, <1>4 DEF Counted
<1> QED
  BY <1>5 DEF Tallied, Counted, Unused, g

LEMMA InitTallied ==
    ASSUME Init
    PROVE  Tallied
<1>1. completePages \in [Class -> Int] /\ \A i \in Class : completePages[i] = 0
  BY DEF Init
<1>2. Sum(completePages) = 0
  BY <1>1, ClassesFinite, SumOfNone
<1>3. heap.headers = {} /\ heap.complete = completePages
  BY HeapFields DEF Init
<1>4. Unused(heap) = {}
  BY <1>3 DEF Unused
<1>5. Cardinality({}) = 0
  BY FS_EmptySet
<1> QED
  BY <1>2, <1>3, <1>4, <1>5 DEF Tallied, Counted

LEMMA CallMallocTallied ==
    ASSUME Sound, Tallied, NEW size \in Size, CallMalloc(size)
    PROVE  Tallied'
<1> DEFINE g == Malloc(heap, size).heap
           a == Malloc(heap, size).tag
<1>1. /\ broken = "no" /\ HasRoom(heap, size)
      /\ blocks' = Hold(blocks, a, size) /\ Become(g)
  BY DEF CallMalloc
<1>2. /\ Struct(heap) /\ Merged(heap, NULL) /\ Held(heap, blocks) /\ CountsBounded(heap)
      /\ DOMAIN blocks \subseteq Address /\ \A b \in DOMAIN blocks : blocks[b] \in Nat \ {0}
      /\ Counted(heap)
  BY <1>1 DEF Sound, Tallied
<1>3. size \in Nat \ {0}
  BY Sizes, SizesAssumption
<1>4. /\ g \in HeapType /\ a \in Address
      /\ g.broken = "no" =>
            /\ Struct(g) /\ Held(g, blocks)
            /\ a \in g.headers /\ g.mem[a].index = Allocated
            /\ TAG + size <= g.mem[a].realsize
  <2> HIDE DEF heap
  <2> QED
    BY <1>1, <1>2, MallocStruct
<1>5. g.broken = "no" => Counted(g)
  <2> HIDE DEF heap
  <2> QED
    BY <1>1, <1>2, MallocCounted
<1> HIDE DEF g, a, heap
<1>6. g.broken = "no" => Held(g, blocks')
  BY <1>1, <1>3, <1>4, HoldHeld
<1> QED
  BY <1>1, <1>4, <1>5, <1>6, BecomeTallied

LEMMA CallFreeTallied ==
    ASSUME Sound, Tallied, NEW b \in Address, CallFree(b)
    PROVE  Tallied'
<1> DEFINE g == Free(heap, b)
<1>1. /\ broken = "no" /\ b \in DOMAIN blocks /\ blocks' = Drop(blocks, b) /\ Become(g)
  BY DEF CallFree
<1>2. /\ Struct(heap) /\ Merged(heap, NULL) /\ Held(heap, blocks)
      /\ CountsBounded(heap) /\ Counted(heap)
      /\ DOMAIN blocks \subseteq Address /\ \A c \in DOMAIN blocks : blocks[c] \in Nat \ {0}
  BY <1>1 DEF Sound, Tallied
<1>3. DOMAIN blocks' = DOMAIN blocks \ {b} /\ Held(heap, blocks')
  BY <1>1, <1>2, DropIs, DropHeld
<1>4. b \in heap.headers /\ b \notin DOMAIN blocks' /\ heap.mem[b].index = Allocated
  BY <1>1, <1>2, <1>3 DEF Held
<1> HIDE DEF heap
<1>5. Struct(g) /\ Held(g, blocks')
  BY <1>2, <1>3, <1>4, FreeStruct
<1>6. Counted(g)
  BY <1>2, <1>3, <1>4, FreeCounted
<1>7. g \in HeapType
  BY <1>5 DEF Struct
<1> HIDE DEF g
<1> QED
  BY <1>1, <1>5, <1>6, <1>7, BecomeTallied

LEMMA InPlaceTallied ==
    ASSUME Sound, Tallied, NEW b \in Address, NEW size \in Size, ReallocInPlace(b, size)
    PROVE  Tallied'
<1>1. broken = "no" /\ Become(heap)
  BY DEF ReallocInPlace
<1>2. heap \in HeapType /\ Struct(heap) /\ Counted(heap)
  BY <1>1 DEF Sound, Tallied
<1>3. Held(heap, blocks')
  BY InPlaceHeld
<1> HIDE DEF heap
<1> QED
  BY <1>1, <1>2, <1>3, BecomeTallied

LEMMA MovesTallied ==
    ASSUME Sound, Tallied, NEW b \in Address, NEW size \in Size, ReallocMoves(b, size)
    PROVE  Tallied'
<1> DEFINE k == Malloc(heap, size).heap
           a == Malloc(heap, size).tag
           h == Fill(k, blocks')
           g == IF k.broken = "no" THEN Free(h, b) ELSE k
<1>1. /\ broken = "no" /\ b \in DOMAIN blocks /\ HasRoom(heap, size)
      /\ blocks' = Hold(Drop(blocks, b), a, size) /\ Become(g)
  BY DEF ReallocMoves
<1>2. /\ Struct(heap) /\ Merged(heap, NULL) /\ Held(heap, blocks) /\ CountsBounded(heap)
      /\ DOMAIN blocks \subseteq Address /\ \A c \in DOMAIN blocks : blocks[c] \in Nat \ {0}
      /\ Counted(heap)
  BY <1>1 DEF Sound, Tallied
<1>3. size \in Nat \ {0}
  BY Sizes, SizesAssumption
<1>4. /\ k \in HeapType /\ CountsBounded(k) /\ a \in Address
      /\ k.broken = "no" =>
            /\ Struct(k) /\ Merged(k, NULL) /\ Held(k, blocks)
            /\ a \in k.headers /\ a \notin DOMAIN blocks /\ k.mem[a].index = Allocated
            /\ TAG + size <= k.mem[a].realsize
  <2> HIDE DEF heap
  <2> QED
    BY <1>1, <1>2, MallocStruct
<1>5. k.broken = "no" => Counted(k)
  <2> HIDE DEF heap
  <2> QED
    BY <1>1, <1>2, MallocCounted
<1> HIDE DEF k, a, heap
<1> DEFINE f == Drop(blocks, b)
<1>6. /\ DOMAIN f = DOMAIN blocks \ {b}
      /\ DOMAIN f \subseteq Address /\ \A c \in DOMAIN f : f[c] \in Nat \ {0}
      /\ Held(k, blocks) => Held(k, f)
  BY <1>2, DropIs, DropHeld
<1>7. blocks' = Hold(f, a, size)
  BY <1>1
<1> HIDE DEF f
<1>8. DOMAIN blocks' = DOMAIN f \cup {a}
  BY <1>3, <1>4, <1>6, <1>7, HoldIs
<1>9. CASE k.broken # "no"
  <2>1. g = k
    BY <1>9
  <2> HIDE DEF g
  <2> QED
    BY <1>1, <1>4, <1>9, <2>1, BecomeTallied
<1>10. CASE k.broken = "no"
  <2>1. Held(k, f)
    BY <1>4, <1>6, <1>10
  <2>2. Held(k, blocks')
    BY <1>3, <1>4, <1>7, <1>10, <2>1, HoldHeld
  <2>4. /\ Struct(h) /\ Merged(h, NULL) /\ Held(h, blocks') /\ CountsBounded(h)
        /\ h.headers = k.headers /\ h.mem = k.mem /\ h.complete = k.complete
    BY <1>4, <1>10, <2>2, FillIs, FillSound
  <2>5. b \in h.headers /\ h.mem[b].index = Allocated
    BY <1>1, <1>4, <1>10, <2>4 DEF Held
  <2>6. b \notin DOMAIN blocks'
    BY <1>1, <1>4, <1>6, <1>8, <1>10
  <2>7. g = Free(h, b)
    BY <1>10
  <2> HIDE DEF h, g
  <2>8. Counted(h)
    BY <1>5, <1>10, <2>4 DEF Counted, Unused
  <2>9. Struct(g) /\ Held(g, blocks')
    BY <2>4, <2>5, <2>6, <2>7, FreeStruct
  <2>10. Counted(g)
    BY <2>4, <2>5, <2>6, <2>7, <2>8, FreeCounted
  <2>11. g \in HeapType
    BY <2>9 DEF Struct
  <2> QED
    BY <1>1, <2>9, <2>10, <2>11, BecomeTallied
<1> QED
  BY <1>9, <1>10

LEMMA StepTallied ==
    ASSUME Sound, Tallied, [Next]_vars
    PROVE  Tallied'
<1>1. ASSUME vars' = vars PROVE Tallied'
  BY <1>1 DEF vars, Tallied, Counted, Unused, heap
<1>2. ASSUME NEW size \in Size, CallMalloc(size) PROVE Tallied'
  BY <1>2, CallMallocTallied
<1>3. ASSUME NEW b \in Address, CallFree(b) PROVE Tallied'
  BY <1>3, CallFreeTallied
<1>4. ASSUME NEW b \in Address, NEW size \in Size, ReallocInPlace(b, size) PROVE Tallied'
  BY <1>4, InPlaceTallied
<1>5. ASSUME NEW b \in Address, NEW size \in Size, ReallocMoves(b, size) PROVE Tallied'
  BY <1>5, MovesTallied
<1>6. ASSUME Stopped PROVE Tallied'
  BY <1>1, <1>6 DEF Stopped
<1> QED
  BY <1>1, <1>2, <1>3, <1>4, <1>5, <1>6 DEF Next

\* As long as the heap is not broken, the counts of all classes together are the
\* number of regions that are one free block, though malloc counts a region down
\* in the class of the request and free counts it up in the class of the region.
THEOREM RegionsAlwaysCounted == Spec => []RegionsCounted
<1>1. Init => Tallied
  BY InitTallied
<1>2. Sound /\ Tallied /\ [Next]_vars => Tallied'
  BY StepTallied
<1>3. Tallied => RegionsCounted
  BY HeapFields DEF Tallied, Counted, Unused, Sum, RegionsCounted
<1> QED
  BY <1>1, <1>2, <1>3, AlwaysSound, PTL DEF Spec
=============================================================================

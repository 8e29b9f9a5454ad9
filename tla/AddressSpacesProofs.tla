------------------------- MODULE AddressSpacesProofs ------------------------
(***************************************************************************)
(* Theorems about AddressSpaces, for any number of processes, frames,      *)
(* pages, programs and libraries: whatever the order of fork, exec, exit,  *)
(* mmap and munmap, what a process can write is its own, nothing is freed  *)
(* twice, no writable frame is lost, and a process loses pages to the end  *)
(* of another one only if it was forked with them - all of it for frames   *)
(* other than those of libraries that were freed with a process.           *)
(***************************************************************************)
EXTENDS AddressSpaces, FiniteSetTheorems, FunctionTheorems, WellFoundedInduction, TLAPS

\* The page v of p is there, its frame was not freed underneath p, and is not
\* that of a library that was freed.
Good(p, v) ==
    /\ p \in live /\ <<p, v>> \notin stale
    /\ pt[p][v].frame # NoFrame /\ pt[p][v].frame \notin spoilt

\* A process that may free its read-only pages.
Owner(p) == overwritten[p] \/ parent[p] = None

\* Slots that are free have no pages, and no entry is stale that is not there.
DeadEmpty ==
    /\ \A p \in Process \ live, v \in Page : pt[p][v].frame = NoFrame
    /\ \A p \in Process, v \in Page :
          <<p, v>> \in stale => p \in live /\ pt[p][v].frame # NoFrame

\* What mmap maps can be written, and every page lies in a table that is there.
PagesInTables ==
    \A p \in Process, v \in Page : pt[p][v].frame # NoFrame =>
        /\ pt[p][v].mmapped => pt[p][v].rw
        /\ TableOf(v) \in tables[p]

\* Frames of good pages are allocated, and as they are mapped.
GoodUsed ==
    \A p \in Process, v \in Page : Good(p, v) =>
        /\ pt[p][v].frame \in used
        /\ pt[p][v].rw <=> pt[p][v].frame \notin text

\* Until they are freed the frames of libraries are allocated for their files.
LibrariesKept == Library \ spoilt \subseteq text

\* Good pages with the same frame are read-only pages of two processes, of
\* which one at most may free them, or of a library.
Apart ==
    \A p, q \in Process, v, w \in Page :
        /\ Good(p, v) /\ Good(q, w) /\ <<p, v>> # <<q, w>>
        /\ pt[p][v].frame = pt[q][w].frame /\ pt[p][v].frame \notin Library
        => p # q /\ ~ pt[p][v].rw /\ ~ pt[q][w].rw /\ ~ (Owner(p) /\ Owner(q))

\* Pages freed underneath a process are read-only, and it does not free them.
StaleInherited ==
    \A p \in Process, v \in Page :
        <<p, v>> \in stale /\ pt[p][v].frame \notin spoilt => ~ pt[p][v].rw /\ ~ Owner(p)

\* Who holds a frame that can be written.
Held ==
    hung \/ \A f \in used \ text :
        \E p \in live, v \in Page : pt[p][v].frame = f /\ pt[p][v].rw

IInv ==
    /\ TypeOK /\ NoDoubleFree /\ LibrariesKept
    /\ DeadEmpty /\ PagesInTables /\ GoodUsed /\ Apart /\ StaleInherited /\ Held

-----------------------------------------------------------------------------
(* Frames that are taken.                                                  *)

\* A frame that is lent is free, and lent for one page, but for those of
\* libraries that were freed.
LEMMA TakenFresh ==
    ASSUME IInv, NEW pages, NEW given \in Taken(pages)
    PROVE  /\ given \in [pages -> Frame]
           /\ \A v \in pages : /\ given[v] \in Frame /\ given[v] # NoFrame
                               /\ \/ given[v] \in spoilt
                                  \/ given[v] \notin used /\ given[v] \notin Library
           /\ \A v, w \in pages : given[v] = given[w] => v = w \/ given[v] \in spoilt
<1>1. /\ given \in [pages -> (Frame \ used) \cup freedTwice]
      /\ \A v, w \in pages : given[v] = given[w] => v = w \/ given[v] \in freedTwice
  BY DEF Taken
<1>2. freedTwice \subseteq spoilt /\ spoilt \subseteq Library /\ Library \subseteq Frame
  BY SizesAssumption DEF IInv, TypeOK, NoDoubleFree
<1>3. Library \ spoilt \subseteq used
  BY DEF IInv, TypeOK, LibrariesKept
<1>4. NoFrame \notin Frame
  BY SizesAssumption
<1> QED
  BY <1>1, <1>2, <1>3, <1>4

\* Every page is in one of the tables.
LEMMA TableInRange ==
    ASSUME NEW v \in Page
    PROVE  TableOf(v) \in 0 .. TABLES - 1
<1>1. /\ v \in Nat /\ v < TABLES * TABLE /\ TABLES \in Nat /\ TABLE \in Nat \ {0}
  BY SizesAssumption DEF Page
<1>2. v \div TABLE \in Nat /\ (v \div TABLE) * TABLE <= v
  BY <1>1
<1>3. v \div TABLE < TABLES
  BY <1>1, <1>2
<1> QED
  BY <1>1, <1>2, <1>3 DEF TableOf

-----------------------------------------------------------------------------
(* Frames that are freed.                                                  *)

\* A page that can be written, or belongs to a process that may free the
\* others, is good, and its frame is allocated.
LEMMA FreedAreGood ==
    ASSUME IInv, NEW p \in Process, NEW v \in Page,
           pt[p][v].frame # NoFrame, pt[p][v].frame \notin spoilt, pt[p][v].rw \/ Owner(p)
    PROVE  Good(p, v) /\ pt[p][v].frame \in used
<1>1. p \in live
  BY DEF IInv, DeadEmpty
<1>2. <<p, v>> \notin stale
  BY DEF IInv, StaleInherited
<1>3. Good(p, v)
  BY <1>1, <1>2 DEF Good
<1> QED
  BY <1>3 DEF IInv, GoodUsed

\* Another good page with that frame is a read-only page of a process that
\* does not free it, unless it is a library's.
LEMMA FreedOthers ==
    ASSUME IInv, NEW p \in Process, NEW v \in Page, NEW q \in Process, NEW w \in Page,
           Good(p, v), pt[p][v].rw \/ Owner(p), Good(q, w), <<p, v>> # <<q, w>>,
           pt[p][v].frame = pt[q][w].frame, pt[p][v].frame \notin Library
    PROVE  p # q /\ ~ pt[q][w].rw /\ ~ Owner(q)
BY DEF IInv, Apart

\* What can be written is no library's.
LEMMA WritableNotLibrary ==
    ASSUME IInv, NEW p \in Process, NEW v \in Page, Good(p, v), pt[p][v].rw
    PROVE  pt[p][v].frame \notin Library
BY DEF IInv, GoodUsed, LibrariesKept, Good

\* Pages of which each may be freed by its process.
MayFree(entries) ==
    \A e \in entries : \E p \in Process, v \in Page :
        e = <<p, v>> /\ pt[p][v].frame # NoFrame /\ (pt[p][v].rw \/ Owner(p))

\* Of their frames those that are not good by then are libraries'.
LEMMA FramesFreed ==
    ASSUME IInv, NEW entries, MayFree(entries), NEW f \in FramesAt(entries)
    PROVE  /\ f \in Frame
           /\ f \notin spoilt => \E p \in Process, v \in Page :
                 /\ <<p, v>> \in entries /\ Good(p, v) /\ pt[p][v].frame = f /\ f \in used
                 /\ pt[p][v].rw \/ Owner(p)
<1>1. PICK e \in entries : f = pt[e[1]][e[2]].frame
  BY DEF FramesAt
<1>2. PICK p \in Process, v \in Page :
         e = <<p, v>> /\ pt[p][v].frame # NoFrame /\ (pt[p][v].rw \/ Owner(p))
  BY <1>1 DEF MayFree
<1>3. f = pt[p][v].frame
  BY <1>1, <1>2
<1>4. f \in Frame
  BY <1>2, <1>3 DEF IInv, TypeOK
<1> QED
  BY <1>1, <1>2, <1>3, <1>4, FreedAreGood

\* None of the others is freed twice.
LEMMA FreedOnceOnly ==
    ASSUME IInv, NEW entries, MayFree(entries), NEW allocated, used \subseteq allocated
    PROVE  Twice(entries, allocated) \subseteq spoilt \cup (FramesAt(entries) \cap Library)
<1> SUFFICES ASSUME NEW f \in Twice(entries, allocated), f \notin spoilt, f \notin Library
             PROVE  FALSE
  BY DEF Twice
<1>1. f \in FramesAt(entries)
  BY DEF Twice
<1>2. f \in used
  BY <1>1, FramesFreed
<1>3. PICK e \in entries, d \in entries :
         e # d /\ pt[e[1]][e[2]].frame = f /\ pt[d[1]][d[2]].frame = f
  BY <1>2 DEF Twice
<1>4. PICK p \in Process, v \in Page :
         e = <<p, v>> /\ pt[p][v].frame # NoFrame /\ (pt[p][v].rw \/ Owner(p))
  BY <1>3 DEF MayFree
<1>5. PICK q \in Process, w \in Page :
         d = <<q, w>> /\ pt[q][w].frame # NoFrame /\ (pt[q][w].rw \/ Owner(q))
  BY <1>3 DEF MayFree
<1>6. pt[p][v].frame = f /\ pt[q][w].frame = f /\ <<p, v>> # <<q, w>>
  BY <1>3, <1>4, <1>5
<1>7. Good(p, v) /\ Good(q, w)
  BY <1>4, <1>5, <1>6, FreedAreGood
<1>8. ~ pt[q][w].rw /\ ~ Owner(q)
  BY <1>4, <1>6, <1>7, FreedOthers
<1> QED
  BY <1>5, <1>8

\* What StaleAfter says of one page.
LEMMA StaleAfterPage ==
    ASSUME NEW freed, NEW alive \in SUBSET Process, NEW new, NEW old,
           NEW q \in Process, NEW w \in Page
    PROVE  <<q, w>> \in StaleAfter(freed, alive, new, old) <=>
              /\ q \in alive /\ new[q][w].frame # NoFrame
              /\ <<q, w>> \in old \/ new[q][w].frame \in freed
<1>1. <<q, w>> \in alive \X Page <=> q \in alive
  OBVIOUS
<1> QED
  BY <1>1 DEF StaleAfter

-----------------------------------------------------------------------------
(* exec.                                                                   *)

LEMMA ExecvpInv ==
    ASSUME IInv, NEW p \in Process, NEW g \in Program, Execvp(p, g)
    PROVE  IInv'
<1> DEFINE wanted == g.ro \cup g.rw
           libs   == DOMAIN g.lib
           flag   == parent[p] = None
           old    == FreedBy(p, flag)
           back   == FramesAt(old)
<1>1. /\ wanted \in SUBSET Page /\ g.ro \cap g.rw = {}
      /\ libs \in SUBSET Page /\ libs \cap wanted = {}
  BY ProgramAssumption
<1>l. \A v \in libs : g.lib[v] \in Library
  BY ProgramAssumption DEF Injection
<1>3. MayFree(old)
  <2> SUFFICES ASSUME NEW e \in old
               PROVE  \E q \in Process, v \in Page :
                         e = <<q, v>> /\ pt[q][v].frame # NoFrame /\ (pt[q][v].rw \/ Owner(q))
    BY DEF MayFree
  <2>1. PICK v \in Page : e = <<p, v>> /\ pt[p][v].frame # NoFrame /\ (pt[p][v].rw \/ Owner(p))
    BY DEF FreedBy, Present, Writable, Owner
  <2> QED
    BY <2>1
<1>3w. \A v \in Page : pt[p][v].frame # NoFrame /\ pt[p][v].rw => pt[p][v].frame \in back
  <2> SUFFICES ASSUME NEW v \in Page, pt[p][v].frame # NoFrame, pt[p][v].rw
               PROVE  pt[p][v].frame \in back
    OBVIOUS
  <2>1. <<p, v>> \in old
    BY DEF FreedBy, Present, Writable
  <2> QED
    BY <2>1 DEF FramesAt
<1>6. /\ p \in live /\ ~ hung /\ live' = live /\ parent' = parent /\ children' = children
      /\ hung' = hung
  BY DEF Execvp, Running
<1>7. PICK given \in Taken(wanted) :
      /\ pt' = [pt EXCEPT ![p] = Loaded(g, given)]
      /\ tables' = [tables EXCEPT ![p] = LoadedTables(g)]
      /\ overwritten' = [overwritten EXCEPT ![p] = TRUE]
      /\ used' = (used \cup Range(given)) \ back
      /\ text' = (text \cup {given[v] : v \in g.ro}) \ back
      /\ stale' = StaleAfter(back, live, pt', {e \in stale : e[1] # p})
      /\ spoilt' = spoilt \cup (back \cap Library)
      /\ freedTwice' = freedTwice \cup Twice(old, used \cup Range(given))
  BY DEF Execvp
<1> HIDE DEF back, old, wanted, flag, libs
<1>2. /\ given \in [wanted -> Frame]
      /\ \A v, w \in wanted : given[v] = given[w] => v = w \/ given[v] \in spoilt
  BY TakenFresh
<1>9. \A v \in wanted : /\ given[v] \in Frame /\ given[v] # NoFrame
                        /\ given[v] \notin spoilt => given[v] \notin used /\ given[v] \notin Library
  BY TakenFresh
<1>4. \A f \in back : f \notin spoilt => f \in used
  BY <1>3, FramesFreed DEF back
<1>5. \A f \in back : f \notin spoilt => \E v \in Page : /\ Good(p, v) /\ pt[p][v].frame = f
                                                         /\ pt[p][v].rw \/ Owner(p)
  <2> SUFFICES ASSUME NEW f \in back, f \notin spoilt
               PROVE  \E v \in Page : /\ Good(p, v) /\ pt[p][v].frame = f
                                      /\ pt[p][v].rw \/ Owner(p)
    OBVIOUS
  <2>1. PICK q \in Process, v \in Page :
           /\ <<q, v>> \in old /\ Good(q, v) /\ pt[q][v].frame = f
           /\ pt[q][v].rw \/ Owner(q)
    BY <1>3, FramesFreed DEF back
  <2>2. q = p
    BY <2>1 DEF old, FreedBy
  <2> QED
    BY <2>1, <2>2
<1>5f. back \subseteq Frame
  BY <1>3, FramesFreed DEF back
<1>t. TypeOK
  BY DEF IInv
<1>s. spoilt \subseteq spoilt' /\ \A f \in back : f \notin spoilt' => f \notin Library
  BY <1>7
<1>8. /\ \A v \in Page : v \in wanted => pt'[p][v] = Entry(given[v], v \in g.rw, FALSE)
      /\ \A v \in Page : v \in libs => pt'[p][v] = Entry(g.lib[v], FALSE, FALSE)
      /\ \A v \in Page : v \notin wanted \cup libs => pt'[p][v] = Absent
      /\ \A q \in Process : q # p => pt'[q] = pt[q]
  <2>1. pt \in [Process -> [Page -> [frame : Frame \cup {NoFrame}, rw : BOOLEAN, mmapped : BOOLEAN]]]
    BY <1>t DEF TypeOK
  <2>2. \A v \in libs : v \notin g.ro \cup g.rw
    BY <1>1 DEF wanted
  <2> QED
    BY <2>1, <2>2, <1>7 DEF Loaded, wanted, libs
<1>lf. \A v \in libs : g.lib[v] \in Frame /\ g.lib[v] # NoFrame
  BY <1>l, SizesAssumption
<1>10. \A v \in Page : /\ pt'[p][v].frame # NoFrame <=> v \in wanted \cup libs
                       /\ v \in wanted => pt'[p][v].frame = given[v]
                       /\ v \in libs => pt'[p][v].frame = g.lib[v]
  <2> SUFFICES ASSUME NEW v \in Page
               PROVE  /\ pt'[p][v].frame # NoFrame <=> v \in wanted \cup libs
                      /\ v \in wanted => pt'[p][v].frame = given[v]
                      /\ v \in libs => pt'[p][v].frame = g.lib[v]
    OBVIOUS
  <2>1. CASE v \in wanted
    <3>1. pt'[p][v] = Entry(given[v], v \in g.rw, FALSE)
      BY <2>1, <1>8
    <3>2. Entry(given[v], v \in g.rw, FALSE).frame = given[v]
      BY DEF Entry
    <3> QED
      BY <2>1, <3>1, <3>2, <1>1, <1>9
  <2>2. CASE v \in libs
    <3>1. pt'[p][v] = Entry(g.lib[v], FALSE, FALSE)
      BY <2>2, <1>8
    <3>2. Entry(g.lib[v], FALSE, FALSE).frame = g.lib[v]
      BY DEF Entry
    <3> QED
      BY <2>2, <3>1, <3>2, <1>1, <1>lf
  <2>3. CASE v \notin wanted \cup libs
    BY <2>3, <1>8 DEF Absent
  <2> QED
    BY <2>1, <2>2, <2>3
<1>rw. \A v \in Page : (pt'[p][v].rw <=> v \in g.rw) /\ ~ pt'[p][v].mmapped
  <2> SUFFICES ASSUME NEW v \in Page
               PROVE  (pt'[p][v].rw <=> v \in g.rw) /\ ~ pt'[p][v].mmapped
    OBVIOUS
  <2>1. CASE v \in wanted
    <3>1. pt'[p][v] = Entry(given[v], v \in g.rw, FALSE)
      BY <2>1, <1>8
    <3>2. CASE v \in g.rw
      <4>1. pt'[p][v] = Entry(given[v], TRUE, FALSE)
        BY <3>1, <3>2
      <4> QED
        BY <4>1, <3>2 DEF Entry
    <3>3. CASE v \notin g.rw
      <4>1. pt'[p][v] = Entry(given[v], FALSE, FALSE)
        <5>1. (v \in g.rw) = FALSE
          BY <3>3
        <5> QED
          BY <3>1, <5>1, Zenon
      <4> QED
        BY <4>1, <3>3 DEF Entry
    <3> QED
      BY <3>2, <3>3
  <2>2. CASE v \in libs
    <3>1. pt'[p][v] = Entry(g.lib[v], FALSE, FALSE)
      BY <2>2, <1>8
    <3>2. v \notin g.rw
      BY <2>2, <1>1 DEF wanted
    <3> QED
      BY <3>1, <3>2 DEF Entry
  <2>3. CASE v \notin wanted \cup libs
    BY <2>3, <1>8 DEF Absent, wanted
  <2> QED
    BY <2>1, <2>2, <2>3
<1>live. live \in SUBSET Process
  BY <1>t DEF TypeOK
<1>st. \A q \in Process, w \in Page :
          <<q, w>> \in stale' <=>
              /\ q \in live /\ pt'[q][w].frame # NoFrame
              /\ (<<q, w>> \in stale /\ q # p) \/ pt'[q][w].frame \in back
  <2> SUFFICES ASSUME NEW q \in Process, NEW w \in Page
               PROVE  <<q, w>> \in stale' <=>
                        /\ q \in live /\ pt'[q][w].frame # NoFrame
                        /\ (<<q, w>> \in stale /\ q # p) \/ pt'[q][w].frame \in back
    OBVIOUS
  <2> DEFINE before == {e \in stale : e[1] # p}
  <2>1. <<q, w>> \in before <=> <<q, w>> \in stale /\ q # p
    OBVIOUS
  <2>2. stale' = StaleAfter(back, live, pt', before)
    BY <1>7
  <2> HIDE DEF before
  <2> QED
    BY <2>1, <2>2, <1>live, StaleAfterPage
<1>11. \A v \in Page : <<p, v>> \in stale' => pt'[p][v].frame \in spoilt'
  <2> SUFFICES ASSUME NEW v \in Page, <<p, v>> \in stale', pt'[p][v].frame \notin spoilt'
               PROVE  FALSE
    OBVIOUS
  <2>1. pt'[p][v].frame # NoFrame /\ pt'[p][v].frame \in back
    BY <1>st
  <2>2. pt'[p][v].frame \notin Library /\ pt'[p][v].frame \in used /\ pt'[p][v].frame \notin spoilt
    BY <2>1, <1>4, <1>s
  <2> QED
    BY <2>1, <2>2, <1>9, <1>10, <1>l
<1>12. \A q \in Process, w \in Page : q # p =>
          (<<q, w>> \in stale' <=>
              /\ q \in live /\ pt[q][w].frame # NoFrame
              /\ <<q, w>> \in stale \/ pt[q][w].frame \in back)
  BY <1>8, <1>st
<1>13. \A v \in Page : Good(p, v)' =>
          \/ v \in wanted /\ given[v] \notin spoilt' /\ given[v] \notin used \cup Library
          \/ v \in libs /\ g.lib[v] \notin spoilt'
  BY <1>s, <1>9, <1>10 DEF Good
<1>14. \A q \in Process, w \in Page : q # p /\ Good(q, w)' =>
          Good(q, w) /\ pt[q][w].frame \notin back /\ pt[q][w].frame \in used
  <2>1. \A q \in Process, w \in Page : q # p /\ Good(q, w)' =>
           Good(q, w) /\ pt[q][w].frame \notin back
    BY <1>6, <1>8, <1>12, <1>s DEF Good
  <2> QED
    BY <2>1 DEF IInv, GoodUsed
<1>15. \A q \in Process : q # p => (Owner(q)' <=> Owner(q))
  BY <1>6, <1>7, <1>t DEF Owner, TypeOK
<1>16. \A v \in wanted : given[v] \notin spoilt' =>
          given[v] \in used' /\ (given[v] \in text' <=> v \in g.ro)
  <2> SUFFICES ASSUME NEW v \in wanted, given[v] \notin spoilt'
               PROVE  given[v] \in used' /\ (given[v] \in text' <=> v \in g.ro)
    OBVIOUS
  <2>1. given[v] \notin spoilt /\ given[v] \notin used
    BY <1>s, <1>9
  <2>2. given[v] \notin back /\ given[v] \notin text
    BY <2>1, <1>4, <1>t DEF TypeOK
  <2>3. given[v] \in Range(given)
    BY <1>2 DEF Range
  <2>4. given[v] \in {given[w] : w \in g.ro} <=> v \in g.ro
    BY <2>1, <1>2 DEF wanted
  <2> QED
    BY <2>2, <2>3, <2>4, <1>7
<1>17. TypeOK'
  <2>1. Range(given) \subseteq Frame /\ {given[v] : v \in g.ro} \subseteq Range(given)
    BY <1>2 DEF Range, wanted
  <2>2. used' \subseteq Frame /\ text' \subseteq used'
    BY <2>1, <1>7, <1>t DEF TypeOK
  <2>3. Loaded(g, given) \in [Page -> [frame : Frame \cup {NoFrame}, rw : BOOLEAN, mmapped : BOOLEAN]]
    BY <1>9, <1>lf DEF Loaded, Entry, Absent, wanted, libs
  <2>4. LoadedTables(g) \in SUBSET (0 .. TABLES - 1)
    BY <1>1, TableInRange DEF wanted, libs, LoadedTables
  <2>5. stale' \subseteq Process \X Page
    BY <1>7, <1>t DEF StaleAfter, TypeOK
  <2>6. pt' \in [Process -> [Page -> [frame : Frame \cup {NoFrame}, rw : BOOLEAN, mmapped : BOOLEAN]]]
    BY <2>3, <1>7, <1>t DEF TypeOK
  <2>7. tables' \in [Process -> SUBSET (0 .. TABLES - 1)]
    BY <2>4, <1>7, <1>t DEF TypeOK
  <2>8. overwritten' \in [Process -> BOOLEAN] /\ spoilt' \subseteq Library
    BY <1>7, <1>t DEF TypeOK
  <2>9. freedTwice' \subseteq Frame
    BY <1>5f, <1>7, <1>t DEF TypeOK, Twice, back
  <2> QED
    BY <2>2, <2>5, <2>6, <2>7, <2>8, <2>9, <1>6, <1>t DEF TypeOK
<1>18. NoDoubleFree' /\ LibrariesKept'
  <2>1. Twice(old, used \cup Range(given)) \subseteq spoilt'
    BY <1>3, <1>7, FreedOnceOnly DEF back
  <2>2. NoDoubleFree'
    BY <2>1, <1>7 DEF IInv, NoDoubleFree
  <2>3. LibrariesKept'
    BY <1>7 DEF IInv, LibrariesKept
  <2> QED
    BY <2>2, <2>3
<1>19. DeadEmpty'
  <2>1. \A q \in Process \ live', v \in Page : pt'[q][v].frame = NoFrame
    BY <1>6, <1>8 DEF IInv, DeadEmpty
  <2>2. \A q \in Process, v \in Page : <<q, v>> \in stale' => q \in live' /\ pt'[q][v].frame # NoFrame
    BY <1>6, <1>st
  <2> QED
    BY <2>1, <2>2 DEF DeadEmpty
<1>20. PagesInTables'
  <2>1. tables'[p] = LoadedTables(g) /\ \A q \in Process : q # p => tables'[q] = tables[q]
    BY <1>7, <1>t DEF TypeOK
  <2>2. \A v \in wanted \cup libs : TableOf(v) \in LoadedTables(g)
    BY DEF LoadedTables, wanted, libs
  <2> QED
    BY <2>1, <2>2, <1>8, <1>10, <1>rw DEF IInv, PagesInTables
<1>21. GoodUsed'
  <2> SUFFICES ASSUME NEW q \in Process, NEW w \in Page, Good(q, w)'
               PROVE  pt'[q][w].frame \in used' /\ (pt'[q][w].rw <=> pt'[q][w].frame \notin text')
    BY DEF GoodUsed
  <2>1. CASE q = p /\ w \in wanted
    <3>1. w \in g.rw <=> w \notin g.ro
      BY <2>1, <1>1 DEF wanted
    <3>2. given[w] \notin spoilt'
      BY <2>1, <1>1, <1>13
    <3> QED
      BY <2>1, <3>1, <3>2, <1>10, <1>rw, <1>16
  <2>2. CASE q = p /\ w \in libs
    <3>1. g.lib[w] \notin spoilt' /\ w \notin g.rw
      BY <2>2, <1>1, <1>13 DEF wanted
    <3>2. g.lib[w] \in text' /\ g.lib[w] \in used'
      BY <2>2, <3>1, <1>l, <1>17, <1>18 DEF LibrariesKept, TypeOK
    <3> QED
      BY <2>2, <3>1, <3>2, <1>10, <1>rw
  <2>3. CASE q # p
    <3>1. /\ pt[q][w].frame \in used /\ (pt[q][w].rw <=> pt[q][w].frame \notin text)
          /\ pt[q][w].frame \notin back /\ pt[q][w].frame \notin spoilt
      BY <2>3, <1>14 DEF IInv, GoodUsed, Good
    <3>2. pt[q][w].frame \notin {given[v] : v \in g.ro}
      BY <3>1, <1>9 DEF wanted
    <3> QED
      BY <2>3, <3>1, <3>2, <1>7, <1>8
  <2> QED
    BY <2>1, <2>2, <2>3, <1>13
<1>22. Apart'
  <2> SUFFICES ASSUME NEW q \in Process, NEW r \in Process, NEW v \in Page, NEW w \in Page,
                      Good(q, v)', Good(r, w)', <<q, v>> # <<r, w>>,
                      pt'[q][v].frame = pt'[r][w].frame, pt'[q][v].frame \notin Library
               PROVE  q # r /\ ~ pt'[q][v].rw /\ ~ pt'[r][w].rw /\ ~ (Owner(q)' /\ Owner(r)')
    BY DEF Apart
  <2>1. \A s \in Process, u \in Page : Good(s, u)' /\ s # p => pt'[s][u].frame \in used
    BY <1>8, <1>14
  <2>2. \A u \in Page : Good(p, u)' /\ pt'[p][u].frame \notin Library =>
           /\ pt'[p][u].frame = given[u] /\ given[u] \notin used /\ u \in wanted
           /\ given[u] \notin spoilt
    BY <1>l, <1>s, <1>10, <1>13
  <2>3. CASE q = p /\ r = p
    <3>1. v = w
      BY <2>2, <2>3, <1>2
    <3> QED
      BY <3>1, <2>3
  <2>4. CASE q # p /\ r # p
    BY <2>4, <1>8, <1>14, <1>15 DEF IInv, Apart
  <2>5. CASE (q = p /\ r # p) \/ (q # p /\ r = p)
    BY <2>1, <2>2, <2>5
  <2>6. (q = p /\ r = p) \/ (q # p /\ r # p) \/ (q = p /\ r # p) \/ (q # p /\ r = p)
    OBVIOUS
  <2> QED
    BY <2>3, <2>4, <2>5, <2>6
<1>23. StaleInherited'
  <2> SUFFICES ASSUME NEW q \in Process, NEW w \in Page, <<q, w>> \in stale',
                      pt'[q][w].frame \notin spoilt'
               PROVE  ~ pt'[q][w].rw /\ ~ Owner(q)'
    BY DEF StaleInherited
  <2>1. q # p
    BY <1>11
  <2>n. pt[q][w].frame \notin spoilt /\ pt'[q][w] = pt[q][w]
    BY <2>1, <1>8, <1>s
  <2>2. CASE <<q, w>> \in stale
    BY <2>1, <2>n, <2>2, <1>15 DEF IInv, StaleInherited
  <2>3. CASE <<q, w>> \notin stale
    <3>1. Good(q, w) /\ pt[q][w].frame \in back /\ pt[q][w].frame \notin Library
      BY <2>1, <2>n, <2>3, <1>12, <1>s DEF Good
    <3>2. PICK v \in Page : /\ Good(p, v) /\ pt[p][v].frame = pt[q][w].frame
                            /\ pt[p][v].rw \/ Owner(p)
      <4>1. pt[q][w].frame \in back /\ pt[q][w].frame \notin spoilt
        BY <3>1, <2>n
      <4> QED
        BY <4>1, <1>5
    <3>3. ~ pt[q][w].rw /\ ~ Owner(q)
      BY <3>1, <3>2, <2>1, FreedOthers
    <3> QED
      BY <3>3, <2>1, <2>n, <1>15
  <2> QED
    BY <2>2, <2>3
<1>24. Held'
  <2> SUFFICES ASSUME NEW f \in used' \ text'
               PROVE  \E q \in live', v \in Page : pt'[q][v].frame = f /\ pt'[q][v].rw
    BY DEF Held
  <2>1. CASE f \in used
    <3>1. f \notin back /\ f \in used \ text
      BY <2>1, <1>7
    <3>2. PICK q \in live, v \in Page : pt[q][v].frame = f /\ pt[q][v].rw
      BY <3>1, <1>6 DEF IInv, Held
    <3>3. f # NoFrame
      BY <2>1, <1>t, SizesAssumption DEF TypeOK
    <3>4. q # p
      BY <3>1, <3>2, <3>3, <1>3w
    <3>5. q \in Process
      BY <1>t DEF TypeOK
    <3> QED
      BY <3>2, <3>4, <3>5, <1>6, <1>8
  <2>2. CASE f \notin used
    <3>1. PICK v \in wanted : f = given[v]
      BY <2>2, <1>2, <1>7 DEF Range
    <3>2. v \in Page /\ v \in g.rw
      BY <3>1, <1>1, <1>7 DEF wanted
    <3> QED
      BY <3>1, <3>2, <1>6, <1>10, <1>rw DEF wanted
  <2> QED
    BY <2>1, <2>2
<1> QED
  BY <1>17, <1>18, <1>19, <1>20, <1>21, <1>22, <1>23, <1>24 DEF IInv

-----------------------------------------------------------------------------
(* fork.                                                                   *)

LEMMA ForkInv ==
    ASSUME IInv, NEW p \in Process, NEW child \in Process, Fork(p, child)
    PROVE  IInv'
<1> DEFINE wanted == Writable(p)
<1>1. wanted \in SUBSET Page
  BY DEF Writable, Present
<1>3. PICK given \in Taken(wanted) :
      /\ pt' = [pt EXCEPT ![child] = Copied(p, given)]
      /\ tables' = [tables EXCEPT ![child] = {TableOf(v) : v \in Present(p)}]
      /\ used' = used \cup Range(given)
      /\ stale' = stale \cup {<<child, v>> : v \in {w \in Page \ wanted : <<p, w>> \in stale}}
  BY DEF Fork
<1> HIDE DEF wanted
<1>2. /\ given \in [wanted -> Frame]
      /\ \A v, w \in wanted : given[v] = given[w] => v = w \/ given[v] \in spoilt
  BY TakenFresh
<1>4. /\ p \in live /\ ~ hung /\ child \notin live /\ p # child
      /\ live' = live \cup {child}
      /\ parent' = [parent EXCEPT ![child] = p]
      /\ children' = [children EXCEPT ![child] = {}, ![p] = @ \cup {child}]
      /\ overwritten' = [overwritten EXCEPT ![child] = FALSE]
      /\ UNCHANGED <<text, spoilt, freedTwice, hung>>
  BY DEF Fork, Running
<1>t. TypeOK
  BY DEF IInv
<1>5. \A v \in wanted : /\ given[v] \in Frame /\ given[v] # NoFrame
                        /\ given[v] \notin spoilt => given[v] \notin used
  BY TakenFresh
<1>6. /\ \A q \in Process : q # child => pt'[q] = pt[q]
      /\ \A v \in Page : pt'[child][v] =
            IF v \in wanted THEN Entry(given[v], TRUE, FALSE)
            ELSE IF pt[p][v].frame # NoFrame THEN Entry(pt[p][v].frame, FALSE, FALSE)
            ELSE Absent
  <2>1. pt \in [Process -> [Page -> [frame : Frame \cup {NoFrame}, rw : BOOLEAN, mmapped : BOOLEAN]]]
    BY <1>t DEF TypeOK
  <2>2. \A v \in Page : Copied(p, given)[v] =
            IF v \in wanted THEN Entry(given[v], TRUE, FALSE)
            ELSE IF pt[p][v].frame # NoFrame THEN Entry(pt[p][v].frame, FALSE, FALSE)
            ELSE Absent
    BY DEF Copied, Present, wanted
  <2> QED
    BY <2>1, <2>2, <1>3
<1>7. \A v \in Page : v \in wanted <=> pt[p][v].frame # NoFrame /\ pt[p][v].rw
  BY DEF wanted, Writable, Present
<1>8. \A v \in Page :
         /\ pt'[child][v].frame # NoFrame <=> pt[p][v].frame # NoFrame
         /\ v \in wanted => pt'[child][v].frame = given[v]
         /\ v \notin wanted => pt'[child][v].frame = pt[p][v].frame
         /\ pt'[child][v].rw <=> v \in wanted
         /\ ~ pt'[child][v].mmapped
  <2> SUFFICES ASSUME NEW v \in Page
               PROVE  /\ pt'[child][v].frame # NoFrame <=> pt[p][v].frame # NoFrame
                      /\ v \in wanted => pt'[child][v].frame = given[v]
                      /\ v \notin wanted => pt'[child][v].frame = pt[p][v].frame
                      /\ pt'[child][v].rw <=> v \in wanted
                      /\ ~ pt'[child][v].mmapped
    OBVIOUS
  <2>1. CASE v \in wanted
    <3>1. pt'[child][v] = Entry(given[v], TRUE, FALSE)
      BY <2>1, <1>6
    <3> QED
      BY <2>1, <3>1, <1>5, <1>7 DEF Entry
  <2>2. CASE v \notin wanted /\ pt[p][v].frame # NoFrame
    <3>1. pt'[child][v] = Entry(pt[p][v].frame, FALSE, FALSE)
      BY <2>2, <1>6
    <3> QED
      BY <2>2, <3>1 DEF Entry
  <2>3. CASE v \notin wanted /\ pt[p][v].frame = NoFrame
    <3>1. pt'[child][v] = Absent
      BY <2>3, <1>6
    <3> QED
      BY <2>3, <3>1 DEF Absent
  <2> QED
    BY <2>1, <2>2, <2>3
<1>9. /\ \A v \in Page : <<child, v>> \in stale' <=> v \notin wanted /\ <<p, v>> \in stale
      /\ \A q \in Process, w \in Page : q # child => (<<q, w>> \in stale' <=> <<q, w>> \in stale)
  <2>1. \A v \in Page : <<child, v>> \notin stale
    BY <1>4 DEF IInv, DeadEmpty
  <2> QED
    BY <2>1, <1>3
<1>10. \A v \in Page : Good(child, v)' =>
          /\ v \in wanted => given[v] \notin spoilt /\ given[v] \notin used
          /\ v \notin wanted => Good(p, v)
  BY <1>4, <1>5, <1>8, <1>9 DEF Good
<1>11. \A q \in Process, w \in Page : q # child => (Good(q, w)' <=> Good(q, w))
  BY <1>4, <1>6, <1>9 DEF Good
<1>12. ~ Owner(child)' /\ \A q \in Process : q # child => (Owner(q)' <=> Owner(q))
  <2>1. overwritten'[child] = FALSE /\ \A q \in Process : q # child => overwritten'[q] = overwritten[q]
    BY <1>4, <1>t DEF TypeOK
  <2>2. parent'[child] = p /\ \A q \in Process : q # child => parent'[q] = parent[q]
    BY <1>4, <1>t DEF TypeOK
  <2>3. p # None
    BY SizesAssumption DEF Process, None
  <2> QED
    BY <2>1, <2>2, <2>3 DEF Owner
<1>13. text \subseteq used /\ used \subseteq Frame
  BY <1>t DEF TypeOK
<1>14. TypeOK'
  <2>1. Range(given) \subseteq Frame
    BY <1>2 DEF Range
  <2>2. used' \subseteq Frame /\ text' \subseteq used'
    BY <2>1, <1>3, <1>4, <1>13
  <2>3. Copied(p, given) \in [Page -> [frame : Frame \cup {NoFrame}, rw : BOOLEAN, mmapped : BOOLEAN]]
    <3>1. \A v \in Page : pt[p][v].frame \in Frame \cup {NoFrame}
      BY <1>t DEF TypeOK
    <3> QED
      BY <3>1, <1>5 DEF Copied, Entry, Absent, wanted
  <2>4. {TableOf(v) : v \in Present(p)} \in SUBSET (0 .. TABLES - 1)
    BY TableInRange DEF Present
  <2>5. stale' \subseteq Process \X Page
    <3>1. {<<child, v>> : v \in {w \in Page \ wanted : <<p, w>> \in stale}} \subseteq Process \X Page
      <4> SUFFICES ASSUME NEW v \in {w \in Page \ wanted : <<p, w>> \in stale}
                   PROVE  <<child, v>> \in Process \X Page
        OBVIOUS
      <4>1. v \in Page
        OBVIOUS
      <4> QED
        BY <4>1
    <3>2. stale \subseteq Process \X Page
      BY <1>t DEF TypeOK
    <3> QED
      BY <3>1, <3>2, <1>3
  <2>6. pt' \in [Process -> [Page -> [frame : Frame \cup {NoFrame}, rw : BOOLEAN, mmapped : BOOLEAN]]]
    BY <2>3, <1>3, <1>t DEF TypeOK
  <2>7. tables' \in [Process -> SUBSET (0 .. TABLES - 1)]
    BY <2>4, <1>3, <1>t DEF TypeOK
  <2>8. overwritten' \in [Process -> BOOLEAN] /\ parent' \in [Process -> Process \cup {None}]
    BY <1>4, <1>t DEF TypeOK
  <2>9. children' \in [Process -> SUBSET Process] /\ live' \subseteq Process
    BY <1>4, <1>t DEF TypeOK
  <2> QED
    BY <2>2, <2>5, <2>6, <2>7, <2>8, <2>9, <1>4, <1>t DEF TypeOK
<1>15. NoDoubleFree' /\ LibrariesKept'
  BY <1>4 DEF IInv, NoDoubleFree, LibrariesKept
<1>16. DeadEmpty'
  <2>1. \A q \in Process \ live', v \in Page : pt'[q][v].frame = NoFrame
    BY <1>4, <1>6 DEF IInv, DeadEmpty
  <2>2. ASSUME NEW q \in Process, NEW v \in Page, <<q, v>> \in stale'
        PROVE  q \in live' /\ pt'[q][v].frame # NoFrame
    <3>1. CASE q = child
      <4>1. pt[p][v].frame # NoFrame
        BY <2>2, <3>1, <1>9 DEF IInv, DeadEmpty
      <4> QED
        BY <3>1, <4>1, <1>4, <1>8
    <3>2. CASE q # child
      <4>1. q \in live /\ pt[q][v].frame # NoFrame
        BY <2>2, <3>2, <1>9 DEF IInv, DeadEmpty
      <4> QED
        BY <3>2, <4>1, <1>4, <1>6
    <3> QED
      BY <3>1, <3>2
  <2> QED
    BY <2>1, <2>2 DEF DeadEmpty
<1>17. PagesInTables'
  <2>1. /\ tables'[child] = {TableOf(v) : v \in Present(p)}
        /\ \A q \in Process : q # child => tables'[q] = tables[q]
    BY <1>3, <1>t DEF TypeOK
  <2> QED
    BY <2>1, <1>6, <1>8 DEF IInv, PagesInTables, Present
<1>18. \A v \in wanted : given[v] \notin spoilt => given[v] \in used' /\ given[v] \notin text'
  BY <1>2, <1>3, <1>4, <1>5, <1>13 DEF Range
<1>19. GoodUsed'
  <2> SUFFICES ASSUME NEW q \in Process, NEW w \in Page, Good(q, w)'
               PROVE  pt'[q][w].frame \in used' /\ (pt'[q][w].rw <=> pt'[q][w].frame \notin text')
    BY DEF GoodUsed
  <2>1. CASE q = child /\ w \in wanted
    BY <2>1, <1>8, <1>10, <1>18
  <2>2. CASE q = child /\ w \notin wanted
    <3>1. Good(p, w) /\ ~ pt[p][w].rw
      BY <2>2, <1>7, <1>10 DEF Good
    <3>2. pt[p][w].frame \in used /\ pt[p][w].frame \in text
      BY <3>1 DEF IInv, GoodUsed
    <3> QED
      BY <2>2, <3>2, <1>3, <1>4, <1>8
  <2>3. CASE q # child
    <3>1. pt[q][w].frame \in used /\ (pt[q][w].rw <=> pt[q][w].frame \notin text)
      BY <2>3, <1>11 DEF IInv, GoodUsed
    <3> QED
      BY <2>3, <3>1, <1>3, <1>4, <1>6
  <2> QED
    BY <2>1, <2>2, <2>3
<1>20. Apart'
  <2>a. \A q \in Process, v \in Page : q # child /\ Good(q, v)' =>
           pt'[q][v] = pt[q][v] /\ Good(q, v) /\ pt[q][v].frame \in used
    BY <1>6, <1>11 DEF IInv, GoodUsed
  <2>b. \A v \in Page : Good(child, v)' =>
           /\ v \in wanted => /\ pt'[child][v].frame = given[v] /\ given[v] \notin used
                              /\ given[v] \notin spoilt
           /\ v \notin wanted => /\ Good(p, v) /\ pt'[child][v].frame = pt[p][v].frame
                                 /\ pt[p][v].frame \in used
    BY <1>8, <1>10 DEF IInv, GoodUsed
  <2>c. \A v \in Page : Good(p, v) => (v \in wanted <=> pt[p][v].rw)
    BY <1>7 DEF Good
  \* Two pages of the child.
  <2>1. \A v, w \in Page :
            /\ Good(child, v)' /\ Good(child, w)'
            /\ pt'[child][v].frame = pt'[child][w].frame /\ pt'[child][v].frame \notin Library
            => v = w
    <3> SUFFICES ASSUME NEW v \in Page, NEW w \in Page, Good(child, v)', Good(child, w)',
                        pt'[child][v].frame = pt'[child][w].frame, pt'[child][v].frame \notin Library
                 PROVE  v = w
      OBVIOUS
    <3>1. CASE v \in wanted /\ w \in wanted
      BY <3>1, <2>b, <1>2
    <3>2. CASE v \notin wanted /\ w \notin wanted
      <4>1. /\ Good(p, v) /\ Good(p, w) /\ pt[p][v].frame = pt[p][w].frame
            /\ pt[p][v].frame \notin Library
        BY <3>2, <2>b
      <4> QED
        BY <4>1 DEF IInv, Apart
    <3>3. CASE (v \in wanted /\ w \notin wanted) \/ (v \notin wanted /\ w \in wanted)
      BY <3>3, <2>b
    <3> QED
      BY <3>1, <3>2, <3>3
  \* A page of the child and one of another process.
  <2>2. \A q \in Process, v, w \in Page :
            /\ q # child /\ Good(child, v)' /\ Good(q, w)' /\ pt'[child][v].frame = pt'[q][w].frame
            /\ pt'[child][v].frame \notin Library
            => ~ pt'[child][v].rw /\ ~ pt'[q][w].rw
    <3> SUFFICES ASSUME NEW q \in Process, NEW v \in Page, NEW w \in Page, q # child,
                        Good(child, v)', Good(q, w)', pt'[child][v].frame = pt'[q][w].frame,
                        pt'[child][v].frame \notin Library
                 PROVE  ~ pt'[child][v].rw /\ ~ pt'[q][w].rw
      OBVIOUS
    <3>1. v \notin wanted
      BY <2>a, <2>b
    <3>2. /\ Good(p, v) /\ Good(q, w) /\ pt[p][v].frame = pt[q][w].frame
          /\ pt[p][v].frame \notin Library
      BY <3>1, <2>a, <2>b
    <3>3. ~ pt[p][v].rw
      BY <3>1, <3>2, <2>c
    <3>4. ~ pt[q][w].rw
      BY <3>2, <3>3 DEF IInv, Apart
    <3> QED
      BY <3>1, <3>4, <1>6, <1>8
  \* Two pages of other processes.
  <2>3. \A q, r \in Process, v, w \in Page :
            /\ q # child /\ r # child /\ Good(q, v)' /\ Good(r, w)' /\ <<q, v>> # <<r, w>>
            /\ pt'[q][v].frame = pt'[r][w].frame /\ pt'[q][v].frame \notin Library
            => q # r /\ ~ pt'[q][v].rw /\ ~ pt'[r][w].rw /\ ~ (Owner(q)' /\ Owner(r)')
    BY <2>a, <1>12 DEF IInv, Apart
  <2> SUFFICES ASSUME NEW q \in Process, NEW r \in Process, NEW v \in Page, NEW w \in Page,
                      Good(q, v)', Good(r, w)', <<q, v>> # <<r, w>>,
                      pt'[q][v].frame = pt'[r][w].frame, pt'[q][v].frame \notin Library
               PROVE  q # r /\ ~ pt'[q][v].rw /\ ~ pt'[r][w].rw /\ ~ (Owner(q)' /\ Owner(r)')
    BY DEF Apart
  <2>4. CASE q = child /\ r = child
    BY <2>1, <2>4
  <2>5. CASE q = child /\ r # child
    BY <2>2, <2>5, <1>12
  <2>6. CASE q # child /\ r = child
    BY <2>2, <2>6, <1>12
  <2>7. CASE q # child /\ r # child
    BY <2>3, <2>7
  <2> QED
    BY <2>4, <2>5, <2>6, <2>7
<1>21. StaleInherited'
  <2> SUFFICES ASSUME NEW q \in Process, NEW w \in Page, <<q, w>> \in stale',
                      pt'[q][w].frame \notin spoilt'
               PROVE  ~ pt'[q][w].rw /\ ~ Owner(q)'
    BY DEF StaleInherited
  <2>1. CASE q = child
    <3>1. w \notin wanted
      BY <2>1, <1>9
    <3> QED
      BY <2>1, <3>1, <1>8, <1>12
  <2>2. CASE q # child
    BY <2>2, <1>4, <1>6, <1>9, <1>12 DEF IInv, StaleInherited
  <2> QED
    BY <2>1, <2>2
<1>22. Held'
  <2> SUFFICES ASSUME NEW f \in used' \ text'
               PROVE  \E q \in live', v \in Page : pt'[q][v].frame = f /\ pt'[q][v].rw
    BY DEF Held
  <2>1. CASE f \in used
    <3>1. PICK q \in live, v \in Page : pt[q][v].frame = f /\ pt[q][v].rw
      BY <2>1, <1>4 DEF IInv, Held
    <3>2. q \in Process /\ q # child
      BY <1>4, <1>t DEF TypeOK
    <3> QED
      BY <3>1, <3>2, <1>4, <1>6
  <2>2. CASE f \notin used
    <3>1. PICK v \in wanted : f = given[v]
      BY <2>2, <1>2, <1>3 DEF Range
    <3>2. v \in Page
      BY <1>1
    <3> QED
      BY <3>1, <3>2, <1>4, <1>8
  <2> QED
    BY <2>1, <2>2
<1> QED
  BY <1>14, <1>15, <1>16, <1>17, <1>19, <1>20, <1>21, <1>22 DEF IInv

-----------------------------------------------------------------------------
(* exit.                                                                   *)

\* What terminateProcess frees are pages of the processes that end, which can
\* be written or belong to a process that has called exec.
LEMMA FreedWithEach ==
    ASSUME IInv, NEW p \in Process
    PROVE  /\ MayFree(FreedWith(p))
           /\ \A q \in Process, v \in Page : <<q, v>> \in FreedWith(p) =>
                 q \in children[p] \cup {p} /\ (pt[q][v].rw \/ overwritten[q])
<1>1. ASSUME NEW e \in FreedWith(p)
      PROVE  \E q \in Process, v \in Page :
                /\ e = <<q, v>> /\ pt[q][v].frame # NoFrame /\ (pt[q][v].rw \/ overwritten[q])
                /\ q \in children[p] \cup {p}
  <2>1. PICK q \in children[p] \cup {p} : e \in FreedBy(q, overwritten[q])
    BY <1>1 DEF FreedWith
  <2>2. q \in Process
    BY DEF IInv, TypeOK
  <2>3. PICK v \in Page : e = <<q, v>> /\ pt[q][v].frame # NoFrame /\ (pt[q][v].rw \/ overwritten[q])
    BY <2>1 DEF FreedBy, Present, Writable
  <2> QED
    BY <2>2, <2>3
<1>2. MayFree(FreedWith(p))
  BY <1>1 DEF MayFree, Owner
<1>3. ASSUME NEW q \in Process, NEW v \in Page, <<q, v>> \in FreedWith(p)
      PROVE  q \in children[p] \cup {p} /\ (pt[q][v].rw \/ overwritten[q])
  BY <1>1, <1>3
<1> QED
  BY <1>2, <1>3

LEMMA TerminateInv ==
    ASSUME IInv, NEW p \in Process, TerminateProcess(p)
    PROVE  IInv'
<1> DEFINE gone == children[p] \cup {p}
           old  == FreedWith(p)
           back == FramesAt(old)
<1>t. TypeOK
  BY DEF IInv
<1>1. gone \subseteq Process
  BY <1>t DEF TypeOK
<1>2. MayFree(old)
  BY FreedWithEach
<1>3. \A f \in back : f \notin spoilt => \E q \in gone, v \in Page :
         Good(q, v) /\ pt[q][v].frame = f /\ (pt[q][v].rw \/ Owner(q))
  <2> SUFFICES ASSUME NEW f \in back, f \notin spoilt
               PROVE  \E q \in gone, v \in Page :
                         Good(q, v) /\ pt[q][v].frame = f /\ (pt[q][v].rw \/ Owner(q))
    OBVIOUS
  <2>1. PICK q \in Process, v \in Page :
           /\ <<q, v>> \in old /\ Good(q, v) /\ pt[q][v].frame = f
           /\ pt[q][v].rw \/ Owner(q)
    BY <1>2, FramesFreed
  <2>2. q \in gone
    BY <2>1, FreedWithEach
  <2> QED
    BY <2>1, <2>2
<1>4. \A q \in gone, v \in Page : pt[q][v].frame # NoFrame /\ pt[q][v].rw => pt[q][v].frame \in back
  <2> SUFFICES ASSUME NEW q \in gone, NEW v \in Page, pt[q][v].frame # NoFrame, pt[q][v].rw
               PROVE  pt[q][v].frame \in back
    OBVIOUS
  <2>1. <<q, v>> \in old
    BY DEF FreedWith, FreedBy, Present, Writable
  <2> QED
    BY <2>1 DEF FramesAt
<1>4f. back \subseteq Frame
  BY <1>2, FramesFreed
<1>5. /\ p \in live /\ ~ hung
      /\ live' = live \ gone
      /\ parent' = [q \in Process |-> IF q \in gone THEN None ELSE parent[q]]
      /\ overwritten' = [q \in Process |-> q \notin gone /\ overwritten[q]]
      /\ children' = [q \in Process |-> IF q \in gone THEN {} ELSE IF q = parent[p]
                                        THEN children[q] \ {p} ELSE children[q]]
      /\ pt' = [q \in Process |-> IF q \in gone THEN [v \in Page |-> Absent] ELSE pt[q]]
      /\ tables' = [q \in Process |-> IF q \in gone THEN {} ELSE tables[q]]
      /\ used' = used \ back
      /\ text' = text \ back
      /\ stale' = StaleAfter(back, live \ gone, pt', stale)
      /\ spoilt' = spoilt \cup (back \cap Library)
      /\ freedTwice' = freedTwice \cup Twice(old, used)
      /\ hung' = (live = gone)
  BY DEF TerminateProcess, Running
<1> HIDE DEF gone, back, old
<1>s. spoilt \subseteq spoilt' /\ \A f \in back : f \notin spoilt' => f \notin Library
  BY <1>5
<1>6. \A q \in Process :
         /\ q \in gone => pt'[q] = [v \in Page |-> Absent] /\ tables'[q] = {}
         /\ q \notin gone => pt'[q] = pt[q] /\ tables'[q] = tables[q]
         /\ q \notin gone => parent'[q] = parent[q] /\ overwritten'[q] = overwritten[q]
  <2>1. \A q \in Process : q \notin gone => overwritten'[q] = overwritten[q]
    <3>1. overwritten \in [Process -> BOOLEAN]
      BY <1>t DEF TypeOK
    <3>2. ASSUME NEW q \in Process, q \notin gone
          PROVE  overwritten'[q] = overwritten[q]
      <4>1. overwritten'[q] = (q \notin gone /\ overwritten[q])
        BY <1>5
      <4> QED
        BY <4>1, <3>1, <3>2
    <3> QED
      BY <3>2
  <2> QED
    BY <2>1, <1>5
<1>7. \A q \in Process, v \in Page : q \in gone => pt'[q][v] = Absent
  BY <1>6
<1>8. \A q \in Process : q \notin gone => (Owner(q)' <=> Owner(q))
  BY <1>6 DEF Owner
<1>9. \A q \in Process, w \in Page :
         <<q, w>> \in stale' <=>
            /\ q \in live \ gone /\ pt[q][w].frame # NoFrame
            /\ <<q, w>> \in stale \/ pt[q][w].frame \in back
  <2> SUFFICES ASSUME NEW q \in Process, NEW w \in Page
               PROVE  <<q, w>> \in stale' <=>
                         /\ q \in live \ gone /\ pt[q][w].frame # NoFrame
                         /\ <<q, w>> \in stale \/ pt[q][w].frame \in back
    OBVIOUS
  <2>1. live \ gone \in SUBSET Process
    BY <1>t DEF TypeOK
  <2>2. <<q, w>> \in stale' <=>
            /\ q \in live \ gone /\ pt'[q][w].frame # NoFrame
            /\ <<q, w>> \in stale \/ pt'[q][w].frame \in back
    <3>1. stale' = StaleAfter(back, live \ gone, pt', stale)
      BY <1>5
    <3> QED
      BY <2>1, <3>1, StaleAfterPage
  <2> QED
    BY <2>2, <1>6
<1>10. \A q \in Process, w \in Page :
          Good(q, w)' => q \notin gone /\ Good(q, w) /\ pt[q][w].frame \notin back
  BY <1>5, <1>6, <1>9, <1>s DEF Good
<1>11. TypeOK'
  <2>1. pt' \in [Process -> [Page -> [frame : Frame \cup {NoFrame}, rw : BOOLEAN, mmapped : BOOLEAN]]]
    BY <1>5, <1>t DEF TypeOK, Absent
  <2>2. tables' \in [Process -> SUBSET (0 .. TABLES - 1)] /\ parent' \in [Process -> Process \cup {None}]
    BY <1>5, <1>t DEF TypeOK
  <2>3. children' \in [Process -> SUBSET Process] /\ overwritten' \in [Process -> BOOLEAN]
    BY <1>5, <1>t DEF TypeOK
  <2>4. live' \subseteq Process /\ used' \subseteq Frame /\ text' \subseteq used'
    BY <1>5, <1>t DEF TypeOK
  <2>5. stale' \subseteq Process \X Page
    BY <1>5, <1>t DEF StaleAfter, TypeOK
  <2>6. freedTwice' \subseteq Frame /\ spoilt' \subseteq Library /\ hung' \in BOOLEAN
    BY <1>4f, <1>5, <1>t DEF TypeOK, Twice, back
  <2> QED
    BY <2>1, <2>2, <2>3, <2>4, <2>5, <2>6 DEF TypeOK
<1>12. NoDoubleFree' /\ LibrariesKept'
  <2>1. Twice(old, used) \subseteq spoilt'
    BY <1>2, <1>5, FreedOnceOnly DEF back
  <2>2. NoDoubleFree'
    BY <2>1, <1>5 DEF IInv, NoDoubleFree
  <2>3. LibrariesKept'
    BY <1>5 DEF IInv, LibrariesKept
  <2> QED
    BY <2>2, <2>3
<1>13. DeadEmpty'
  <2>1. \A q \in Process \ live', v \in Page : pt'[q][v].frame = NoFrame
    BY <1>5, <1>6, <1>7 DEF IInv, DeadEmpty, Absent
  <2>2. \A q \in Process, v \in Page : <<q, v>> \in stale' => q \in live' /\ pt'[q][v].frame # NoFrame
    BY <1>5, <1>6, <1>9
  <2> QED
    BY <2>1, <2>2 DEF DeadEmpty
<1>14. PagesInTables'
  BY <1>6, <1>7 DEF IInv, PagesInTables, Absent
<1>15. GoodUsed'
  BY <1>5, <1>6, <1>10 DEF IInv, GoodUsed
<1>16. Apart'
  BY <1>6, <1>8, <1>10 DEF IInv, Apart
<1>17. StaleInherited'
  <2> SUFFICES ASSUME NEW q \in Process, NEW w \in Page, <<q, w>> \in stale',
                      pt'[q][w].frame \notin spoilt'
               PROVE  ~ pt'[q][w].rw /\ ~ Owner(q)'
    BY DEF StaleInherited
  <2>1. /\ q \in live /\ q \notin gone /\ pt'[q][w] = pt[q][w]
        /\ pt[q][w].frame \notin spoilt
    BY <1>6, <1>9, <1>s
  <2>2. CASE <<q, w>> \in stale
    BY <2>1, <2>2, <1>6, <1>8 DEF IInv, StaleInherited
  <2>3. CASE <<q, w>> \notin stale
    <3>1. Good(q, w) /\ pt[q][w].frame \in back /\ pt[q][w].frame \notin Library
      BY <2>1, <2>3, <1>9, <1>s DEF Good
    <3>2. PICK r \in gone, v \in Page : /\ Good(r, v) /\ pt[r][v].frame = pt[q][w].frame
                                        /\ pt[r][v].rw \/ Owner(r)
      BY <2>1, <3>1, <1>3
    <3>3. r \in Process /\ r # q
      BY <3>2, <2>1, <1>1
    <3>4. ~ pt[q][w].rw /\ ~ Owner(q)
      BY <3>1, <3>2, <3>3, FreedOthers
    <3> QED
      BY <3>4, <2>1, <1>6, <1>8
  <2> QED
    BY <2>2, <2>3
<1>18. Held'
  <2> SUFFICES ASSUME NEW f \in used' \ text'
               PROVE  \E q \in live', v \in Page : pt'[q][v].frame = f /\ pt'[q][v].rw
    BY DEF Held
  <2>1. f \in used \ text /\ f \notin back
    BY <1>5
  <2>2. PICK q \in live, v \in Page : pt[q][v].frame = f /\ pt[q][v].rw
    BY <2>1, <1>5 DEF IInv, Held
  <2>3. f # NoFrame /\ q \in Process
    BY <2>1, <1>t, SizesAssumption DEF TypeOK
  <2>4. q \notin gone
    BY <2>1, <2>2, <2>3, <1>4
  <2> QED
    BY <2>2, <2>3, <2>4, <1>5, <1>6
<1> QED
  BY <1>11, <1>12, <1>13, <1>14, <1>15, <1>16, <1>17, <1>18 DEF IInv

-----------------------------------------------------------------------------
(* mmap and munmap.                                                        *)

\* A set of pages that is not empty has a first one.
LEMMA MinIn ==
    ASSUME NEW S \in SUBSET Nat, S # {}
    PROVE  Min(S) \in S
<1>1. PICK x \in S : \A y \in S : ~ (<<y, x>> \in OpToRel(<, Nat))
  BY WFMin, NatLessThanWellFounded, Zenon
<1>2. \A y \in S : x \in Nat /\ y \in Nat
  OBVIOUS
<1>3. \A y \in S : ~ (y < x)
  BY <1>1, <1>2 DEF OpToRel
<1>4. \A y \in S : x =< y
  BY <1>2, <1>3
<1> QED
  BY <1>4 DEF Min

\* The pages mmap takes exist and are free.
LEMMA AddressFree ==
    ASSUME IInv, NEW p \in Process, NEW hint \in Page, NEW n \in Nat \ {0}, Room(p, n) # {}
    PROVE  \A v \in Run(Address(p, hint, n), n) : v \in Page /\ pt[p][v].frame = NoFrame
<1>1. CASE hint # 0 /\ HintTaken(p, hint, n)
  <2>1. Address(p, hint, n) = TableOf(hint) * TABLE
    BY <1>1 DEF Address
  <2>2. \A v \in Run(Address(p, hint, n), n) : v \in Page /\ TableOf(v) \notin tables[p]
    BY <1>1, <2>1 DEF HintTaken
  <2> QED
    BY <2>2 DEF IInv, PagesInTables
<1>2. CASE ~ (hint # 0 /\ HintTaken(p, hint, n))
  <2>1. Address(p, hint, n) = Min(Room(p, n))
    BY <1>2 DEF Address
  <2>2. Room(p, n) \in SUBSET Nat
    BY SizesAssumption DEF Room, Page
  <2>3. Min(Room(p, n)) \in Room(p, n)
    BY <2>2, MinIn
  <2> QED
    BY <2>1, <2>3 DEF Room, Present
<1> QED
  BY <1>1, <1>2

LEMMA MmapInv ==
    ASSUME IInv, NEW p \in Process, NEW hint \in Page, NEW length \in Length,
           Mmap(p, hint, length)
    PROVE  IInv'
<1> DEFINE n      == Chunks(length)
           wanted == Run(Address(p, hint, n), n)
<1>1. \A v \in wanted : v \in Page /\ pt[p][v].frame = NoFrame
  <2>1. length \in Nat /\ FRAME_SIZE \in Nat \ {0}
    BY SizesAssumption
  <2>2. n \in Nat \ {0}
    BY <2>1 DEF Chunks
  <2>3. Room(p, n) # {}
    BY DEF Mmap
  <2> HIDE DEF n
  <2> QED
    BY <2>2, <2>3, AddressFree
<1>3. PICK given \in Taken(wanted) :
      /\ pt' = [pt EXCEPT ![p] = [v \in Page |-> IF v \in wanted THEN Entry(given[v], TRUE, TRUE)
                                                 ELSE @[v]]]
      /\ tables' = [tables EXCEPT ![p] = @ \cup {TableOf(v) : v \in wanted}]
      /\ used' = used \cup Range(given)
  BY DEF Mmap
<1> HIDE DEF n, wanted
<1>2. /\ given \in [wanted -> Frame]
      /\ \A v, w \in wanted : given[v] = given[w] => v = w \/ given[v] \in spoilt
  BY TakenFresh
<1>4. /\ p \in live /\ ~ hung
      /\ UNCHANGED <<live, parent, children, overwritten, text, stale, spoilt, freedTwice, hung>>
  BY DEF Mmap, Running
<1>t. TypeOK
  BY DEF IInv
<1>5. \A v \in wanted : /\ given[v] \in Frame /\ given[v] # NoFrame
                        /\ given[v] \notin spoilt => given[v] \notin used
  BY TakenFresh
<1>6. /\ \A v \in Page : v \in wanted => pt'[p][v] = Entry(given[v], TRUE, TRUE)
      /\ \A v \in Page : v \notin wanted => pt'[p][v] = pt[p][v]
      /\ \A q \in Process : q # p => pt'[q] = pt[q]
  <2>1. pt \in [Process -> [Page -> [frame : Frame \cup {NoFrame}, rw : BOOLEAN, mmapped : BOOLEAN]]]
    BY <1>t DEF TypeOK
  <2> QED
    BY <2>1, <1>3
<1>7. \A v \in wanted : /\ pt'[p][v].frame = given[v] /\ pt'[p][v].rw /\ pt'[p][v].mmapped
                        /\ <<p, v>> \notin stale
  <2>1. \A v \in wanted : pt'[p][v] = Entry(given[v], TRUE, TRUE)
    BY <1>1, <1>6
  <2>2. \A v \in wanted : <<p, v>> \notin stale
    BY <1>1 DEF IInv, DeadEmpty
  <2>3. ASSUME NEW v \in wanted
        PROVE  pt'[p][v].frame = given[v] /\ pt'[p][v].rw /\ pt'[p][v].mmapped
    <3>1. pt'[p][v] = Entry(given[v], TRUE, TRUE)
      BY <2>1
    <3> QED
      BY <3>1 DEF Entry
  <2> QED
    BY <2>2, <2>3
<1>8. \A q \in Process, w \in Page : ~ (q = p /\ w \in wanted) => pt'[q][w] = pt[q][w]
  BY <1>6
<1>9. \A v \in wanted : Good(p, v)' => given[v] \notin spoilt /\ given[v] \notin used
  BY <1>4, <1>5, <1>7 DEF Good
<1>10. \A q \in Process, w \in Page : ~ (q = p /\ w \in wanted) => (Good(q, w)' <=> Good(q, w))
  BY <1>4, <1>8 DEF Good
<1>11. \A q \in Process : Owner(q)' <=> Owner(q)
  BY <1>4 DEF Owner
<1>12. TypeOK'
  <2>1. Range(given) \subseteq Frame
    BY <1>2 DEF Range
  <2>2. used' \subseteq Frame /\ text' \subseteq used'
    BY <2>1, <1>3, <1>4, <1>t DEF TypeOK
  <2>3. pt' \in [Process -> [Page -> [frame : Frame \cup {NoFrame}, rw : BOOLEAN, mmapped : BOOLEAN]]]
    <3>1. pt \in [Process -> [Page -> [frame : Frame \cup {NoFrame}, rw : BOOLEAN, mmapped : BOOLEAN]]]
      BY <1>t DEF TypeOK
    <3>2. \A v \in wanted : Entry(given[v], TRUE, TRUE) \in [frame : Frame \cup {NoFrame}, rw : BOOLEAN, mmapped : BOOLEAN]
      BY <1>5 DEF Entry
    <3> QED
      BY <3>1, <3>2, <1>3
  <2>4. {TableOf(v) : v \in wanted} \in SUBSET (0 .. TABLES - 1)
    BY <1>1, TableInRange
  <2>5. tables' \in [Process -> SUBSET (0 .. TABLES - 1)]
    BY <2>4, <1>3, <1>t DEF TypeOK
  <2> QED
    BY <2>2, <2>3, <2>5, <1>4, <1>t DEF TypeOK
<1>13. NoDoubleFree' /\ LibrariesKept'
  BY <1>4 DEF IInv, NoDoubleFree, LibrariesKept
<1>14. DeadEmpty'
  <2>1. \A q \in Process \ live', v \in Page : pt'[q][v].frame = NoFrame
    BY <1>4, <1>6 DEF IInv, DeadEmpty
  <2>2. \A q \in Process, v \in Page : <<q, v>> \in stale' => q \in live' /\ pt'[q][v].frame # NoFrame
    BY <1>4, <1>7, <1>8 DEF IInv, DeadEmpty
  <2> QED
    BY <2>1, <2>2 DEF DeadEmpty
<1>15. PagesInTables'
  <2>1. /\ \A v \in wanted : TableOf(v) \in tables'[p]
        /\ \A q \in Process : tables[q] \subseteq tables'[q]
    BY <1>3, <1>t DEF TypeOK
  <2> QED
    BY <2>1, <1>7, <1>8 DEF IInv, PagesInTables
<1>16. \A v \in wanted : given[v] \notin spoilt => given[v] \in used' /\ given[v] \notin text'
  BY <1>2, <1>3, <1>4, <1>5, <1>t DEF Range, TypeOK
<1>17. GoodUsed'
  <2> SUFFICES ASSUME NEW q \in Process, NEW w \in Page, Good(q, w)'
               PROVE  pt'[q][w].frame \in used' /\ (pt'[q][w].rw <=> pt'[q][w].frame \notin text')
    BY DEF GoodUsed
  <2>1. CASE q = p /\ w \in wanted
    BY <2>1, <1>7, <1>9, <1>16
  <2>2. CASE ~ (q = p /\ w \in wanted)
    <3>1. pt[q][w].frame \in used /\ (pt[q][w].rw <=> pt[q][w].frame \notin text)
      BY <2>2, <1>10 DEF IInv, GoodUsed
    <3> QED
      <4>1. pt'[q][w] = pt[q][w]
        BY <2>2, <1>8
      <4>2. used \subseteq used' /\ text' = text
        BY <1>3, <1>4
      <4> QED
        BY <3>1, <4>1, <4>2
  <2> QED
    BY <2>1, <2>2
<1>18. Apart'
  <2>a. \A q \in Process, w \in Page : ~ (q = p /\ w \in wanted) /\ Good(q, w)' =>
           pt'[q][w] = pt[q][w] /\ Good(q, w) /\ pt[q][w].frame \in used
    BY <1>8, <1>10 DEF IInv, GoodUsed
  <2>b. \A v \in wanted : Good(p, v)' =>
           pt'[p][v].frame = given[v] /\ given[v] \notin used /\ given[v] \notin spoilt
    BY <1>7, <1>9
  <2> SUFFICES ASSUME NEW q \in Process, NEW r \in Process, NEW v \in Page, NEW w \in Page,
                      Good(q, v)', Good(r, w)', <<q, v>> # <<r, w>>,
                      pt'[q][v].frame = pt'[r][w].frame, pt'[q][v].frame \notin Library
               PROVE  q # r /\ ~ pt'[q][v].rw /\ ~ pt'[r][w].rw /\ ~ (Owner(q)' /\ Owner(r)')
    BY DEF Apart
  <2>1. CASE (q = p /\ v \in wanted) /\ (r = p /\ w \in wanted)
    <3>1. v = w
      BY <2>1, <2>b, <1>2
    <3> QED
      BY <2>1, <3>1
  <2>2. CASE ~ (q = p /\ v \in wanted) /\ ~ (r = p /\ w \in wanted)
    BY <2>2, <2>a, <1>11 DEF IInv, Apart
  <2>3. CASE (q = p /\ v \in wanted) /\ ~ (r = p /\ w \in wanted)
    BY <2>3, <2>a, <2>b
  <2>4. CASE ~ (q = p /\ v \in wanted) /\ (r = p /\ w \in wanted)
    BY <2>4, <2>a, <2>b
  <2> QED
    BY <2>1, <2>2, <2>3, <2>4
<1>19. StaleInherited'
  BY <1>4, <1>7, <1>8, <1>11 DEF IInv, StaleInherited
<1>20. Held'
  <2> SUFFICES ASSUME NEW f \in used' \ text'
               PROVE  \E q \in live', v \in Page : pt'[q][v].frame = f /\ pt'[q][v].rw
    BY DEF Held
  <2>1. CASE f \in used
    <3>1. PICK q \in live, v \in Page : pt[q][v].frame = f /\ pt[q][v].rw
      BY <2>1, <1>4 DEF IInv, Held
    <3>2. q \in Process /\ f # NoFrame
      BY <2>1, <1>t, SizesAssumption DEF TypeOK
    <3>3. ~ (q = p /\ v \in wanted)
      BY <3>1, <3>2, <1>1
    <3> QED
      BY <3>1, <3>2, <3>3, <1>4, <1>8
  <2>2. CASE f \notin used
    <3>1. PICK v \in wanted : f = given[v]
      BY <2>2, <1>2, <1>3 DEF Range
    <3> QED
      BY <3>1, <1>1, <1>4, <1>7
  <2> QED
    BY <2>1, <2>2
<1> QED
  BY <1>12, <1>13, <1>14, <1>15, <1>17, <1>18, <1>19, <1>20 DEF IInv

LEMMA MunmapInv ==
    ASSUME IInv, NEW p \in Process, NEW address \in Page, NEW length \in Length,
           Munmap(p, address, length)
    PROVE  IInv' /\ \A e \in stale' \ stale : pt'[e[1]][e[2]].frame \in spoilt
<1> DEFINE count == (length + FRAME_SIZE - 1) \div FRAME_SIZE
           given == {v \in Unmappable(p, address) : Below(Unmappable(p, address), v) < count}
           back  == FramesAt({p} \X given)
<1>t. TypeOK
  BY DEF IInv
<1>1. \A v \in given : v \in Page /\ pt[p][v].frame # NoFrame /\ pt[p][v].mmapped
  BY DEF Unmappable, Present
<1>2. /\ p \in live /\ ~ hung
      /\ pt' = [pt EXCEPT ![p] = [v \in Page |-> IF v \in given THEN Absent ELSE @[v]]]
      /\ used' = used \ back
      /\ text' = text \ back
      /\ stale' = StaleAfter(back, live, pt', stale)
      /\ spoilt' = spoilt \cup (back \cap Library)
      /\ freedTwice' = freedTwice \cup Twice({p} \X given, used)
      /\ UNCHANGED <<live, parent, children, overwritten, tables, hung>>
  BY DEF Munmap, Running
<1>3. \A f \in back : \E v \in given : pt[p][v].frame = f
  BY DEF FramesAt
<1>3a. \A v \in given : pt[p][v].frame \in back
  <2> SUFFICES ASSUME NEW v \in given
               PROVE  pt[p][v].frame \in back
    OBVIOUS
  <2>1. <<p, v>> \in {p} \X given
    OBVIOUS
  <2> HIDE DEF given
  <2> QED
    BY <2>1 DEF FramesAt
<1> HIDE DEF count, given, back
<1>4. \A v \in given : pt[p][v].rw
  BY <1>1 DEF IInv, PagesInTables
<1>4g. \A v \in given : pt[p][v].frame \notin spoilt =>
         Good(p, v) /\ pt[p][v].frame \in used /\ pt[p][v].frame \notin Library
  BY <1>1, <1>4, FreedAreGood, WritableNotLibrary
<1>5. MayFree({p} \X given)
  <2> SUFFICES ASSUME NEW v \in given
               PROVE  v \in Page /\ pt[p][v].frame # NoFrame /\ pt[p][v].rw
    BY DEF MayFree
  <2> QED
    BY <1>1, <1>4
<1>5f. back \subseteq Frame
  BY <1>5, FramesFreed DEF back
<1>s. spoilt' = spoilt
  <2>1. \A f \in back : f \in Library => f \in spoilt
    BY <1>3, <1>4g
  <2> QED
    BY <2>1, <1>2
<1>6. /\ \A v \in Page : v \in given => pt'[p][v] = Absent
      /\ \A v \in Page : v \notin given => pt'[p][v] = pt[p][v]
      /\ \A q \in Process : q # p => pt'[q] = pt[q]
  <2>1. pt \in [Process -> [Page -> [frame : Frame \cup {NoFrame}, rw : BOOLEAN, mmapped : BOOLEAN]]]
    BY <1>t DEF TypeOK
  <2> QED
    BY <2>1, <1>2
<1>7. \A q \in Process, w \in Page :
         /\ q = p /\ w \in given => pt'[q][w].frame = NoFrame
         /\ ~ (q = p /\ w \in given) => pt'[q][w] = pt[q][w]
  BY <1>6 DEF Absent
\* No other good page has one of these frames.
<1>8. \A q \in Process, w \in Page : Good(q, w) /\ pt[q][w].frame \in back => q = p /\ w \in given
  <2> SUFFICES ASSUME NEW q \in Process, NEW w \in Page, Good(q, w), pt[q][w].frame \in back
               PROVE  q = p /\ w \in given
    OBVIOUS
  <2>1. PICK v \in given : pt[p][v].frame = pt[q][w].frame
    BY <1>3
  <2>2. v \in Page /\ Good(p, v) /\ pt[p][v].rw /\ pt[p][v].frame \notin Library
    BY <2>1, <1>1, <1>4, <1>4g DEF Good
  <2>3. <<p, v>> = <<q, w>>
    BY <2>1, <2>2 DEF IInv, Apart
  <2> QED
    BY <2>3
<1>9. \A q \in Process, w \in Page :
         <<q, w>> \in stale' <=>
            q \in live /\ pt'[q][w].frame # NoFrame /\ (<<q, w>> \in stale \/ pt'[q][w].frame \in back)
  <2> SUFFICES ASSUME NEW q \in Process, NEW w \in Page
               PROVE  <<q, w>> \in stale' <=>
                         /\ q \in live /\ pt'[q][w].frame # NoFrame
                         /\ <<q, w>> \in stale \/ pt'[q][w].frame \in back
    OBVIOUS
  <2>1. live \in SUBSET Process
    BY <1>t DEF TypeOK
  <2>2. stale' = StaleAfter(back, live, pt', stale)
    BY <1>2
  <2> QED
    BY <2>1, <2>2, StaleAfterPage
\* What is stale now was so before, or is a spoilt frame's.
<1>10. \A q \in Process, w \in Page :
          /\ <<q, w>> \in stale' /\ pt'[q][w].frame \notin spoilt =>
                <<q, w>> \in stale /\ ~ (q = p /\ w \in given) /\ pt'[q][w] = pt[q][w]
          /\ <<q, w>> \in stale /\ ~ (q = p /\ w \in given) => <<q, w>> \in stale'
  <2> SUFFICES ASSUME NEW q \in Process, NEW w \in Page
               PROVE  /\ <<q, w>> \in stale' /\ pt'[q][w].frame \notin spoilt =>
                             <<q, w>> \in stale /\ ~ (q = p /\ w \in given) /\ pt'[q][w] = pt[q][w]
                      /\ <<q, w>> \in stale /\ ~ (q = p /\ w \in given) => <<q, w>> \in stale'
    OBVIOUS
  <2>1. ASSUME <<q, w>> \in stale, ~ (q = p /\ w \in given)
        PROVE  <<q, w>> \in stale'
    <3>1. q \in live /\ pt[q][w].frame # NoFrame
      BY <2>1 DEF IInv, DeadEmpty
    <3> QED
      BY <2>1, <3>1, <1>7, <1>9
  <2>2. ASSUME <<q, w>> \in stale', pt'[q][w].frame \notin spoilt
        PROVE  <<q, w>> \in stale /\ ~ (q = p /\ w \in given) /\ pt'[q][w] = pt[q][w]
    <3>1. q \in live /\ pt'[q][w].frame # NoFrame
      BY <2>2, <1>9
    <3>2. ~ (q = p /\ w \in given) /\ pt'[q][w] = pt[q][w]
      BY <3>1, <1>7
    <3>3. CASE <<q, w>> \notin stale
      <4>1. pt[q][w].frame \in back
        BY <2>2, <3>2, <3>3, <1>9
      <4>2. Good(q, w)
        BY <2>2, <3>1, <3>2, <3>3 DEF Good
      <4> QED
        BY <3>2, <4>1, <4>2, <1>8
    <3> QED
      BY <3>2, <3>3
  <2> QED
    BY <2>1, <2>2
<1>11. \A q \in Process, w \in Page :
          Good(q, w)' => Good(q, w) /\ pt'[q][w] = pt[q][w] /\ pt[q][w].frame \notin back
  <2> SUFFICES ASSUME NEW q \in Process, NEW w \in Page, Good(q, w)'
               PROVE  Good(q, w) /\ pt'[q][w] = pt[q][w] /\ pt[q][w].frame \notin back
    OBVIOUS
  <2>1. ~ (q = p /\ w \in given) /\ pt'[q][w] = pt[q][w]
    BY <1>7 DEF Good
  <2>2. Good(q, w)
    BY <2>1, <1>2, <1>10, <1>s DEF Good
  <2> QED
    BY <2>1, <2>2, <1>8
<1>12. \A q \in Process : Owner(q)' <=> Owner(q)
  BY <1>2 DEF Owner
<1>13. stale' \subseteq Process \X Page
  BY <1>2, <1>t DEF StaleAfter, TypeOK
<1>14. \A e \in stale' \ stale : pt'[e[1]][e[2]].frame \in spoilt
  <2> SUFFICES ASSUME NEW e \in stale' \ stale
               PROVE  pt'[e[1]][e[2]].frame \in spoilt
    OBVIOUS
  <2>1. PICK q \in Process, w \in Page : e = <<q, w>>
    BY <1>13
  <2>2. e[1] = q /\ e[2] = w
    BY <2>1
  <2> QED
    BY <2>1, <2>2, <1>10
<1>15. TypeOK'
  <2>1. pt' \in [Process -> [Page -> [frame : Frame \cup {NoFrame}, rw : BOOLEAN, mmapped : BOOLEAN]]]
    <3>1. pt \in [Process -> [Page -> [frame : Frame \cup {NoFrame}, rw : BOOLEAN, mmapped : BOOLEAN]]]
      BY <1>t DEF TypeOK
    <3>2. Absent \in [frame : Frame \cup {NoFrame}, rw : BOOLEAN, mmapped : BOOLEAN]
      BY DEF Absent
    <3> QED
      BY <3>1, <3>2, <1>2
  <2>2. used' \subseteq Frame /\ text' \subseteq used' /\ spoilt' \subseteq Library
    BY <1>2, <1>t DEF TypeOK
  <2>3. freedTwice' \subseteq Frame
    BY <1>5f, <1>2, <1>t DEF TypeOK, Twice, back
  <2> QED
    BY <2>1, <2>2, <2>3, <1>2, <1>13, <1>t DEF TypeOK
<1>16. NoDoubleFree' /\ LibrariesKept'
  <2>1. Twice({p} \X given, used) \subseteq spoilt'
    BY <1>2, <1>5, FreedOnceOnly DEF back
  <2>2. NoDoubleFree'
    BY <2>1, <1>2 DEF IInv, NoDoubleFree
  <2>3. LibrariesKept'
    BY <1>2 DEF IInv, LibrariesKept
  <2> QED
    BY <2>2, <2>3
<1>17. DeadEmpty'
  <2>1. \A q \in Process \ live', v \in Page : pt'[q][v].frame = NoFrame
    BY <1>2, <1>6 DEF IInv, DeadEmpty
  <2>2. \A q \in Process, v \in Page : <<q, v>> \in stale' => q \in live' /\ pt'[q][v].frame # NoFrame
    BY <1>2, <1>9
  <2> QED
    BY <2>1, <2>2 DEF DeadEmpty
<1>18. PagesInTables'
  BY <1>2, <1>7 DEF IInv, PagesInTables
<1>19. GoodUsed'
  BY <1>2, <1>11 DEF IInv, GoodUsed
<1>20. Apart'
  BY <1>11, <1>12 DEF IInv, Apart
<1>21. StaleInherited'
  BY <1>10, <1>12, <1>s DEF IInv, StaleInherited
<1>22. Held'
  <2> SUFFICES ASSUME NEW f \in used' \ text'
               PROVE  \E q \in live', v \in Page : pt'[q][v].frame = f /\ pt'[q][v].rw
    BY DEF Held
  <2>1. f \in used \ text /\ f \notin back
    BY <1>2
  <2>2. PICK q \in live, v \in Page : pt[q][v].frame = f /\ pt[q][v].rw
    BY <2>1, <1>2 DEF IInv, Held
  <2>3. q \in Process
    BY <1>t DEF TypeOK
  <2>4. ~ (q = p /\ v \in given)
    BY <2>1, <2>2, <1>3a
  <2> QED
    BY <2>2, <2>3, <2>4, <1>2, <1>7
<1> QED
  BY <1>14, <1>15, <1>16, <1>17, <1>18, <1>19, <1>20, <1>21, <1>22 DEF IInv

-----------------------------------------------------------------------------
(* The invariant.                                                          *)

LEMMA InitInv == Init => IInv
<1> SUFFICES ASSUME Init
             PROVE  IInv
  OBVIOUS
<1>0. PICK g \in Program : \E frame \in Injection(g.ro \cup g.rw, Frame \ Library) :
         /\ used = Range(frame) \cup Library
         /\ text = {frame[v] : v \in g.ro} \cup Library
         /\ tables = [p \in Process |-> IF p = 0 THEN LoadedTables(g) ELSE {}]
         /\ pt = [p \in Process |-> IF p = 0 THEN Loaded(g, frame) ELSE [v \in Page |-> Absent]]
  BY DEF Init
<1>1. PICK given \in Injection(g.ro \cup g.rw, Frame \ Library) :
         /\ used = Range(given) \cup Library
         /\ text = {given[v] : v \in g.ro} \cup Library
         /\ tables = [p \in Process |-> IF p = 0 THEN LoadedTables(g) ELSE {}]
         /\ pt = [p \in Process |-> IF p = 0 THEN Loaded(g, given) ELSE [v \in Page |-> Absent]]
  BY <1>0
<1>2. /\ live = {0}
      /\ parent = [p \in Process |-> None]
      /\ children = [p \in Process |-> {}]
      /\ overwritten = [p \in Process |-> FALSE]
      /\ stale = {} /\ spoilt = {} /\ freedTwice = {} /\ hung = FALSE
  BY DEF Init
<1> DEFINE wanted == g.ro \cup g.rw
           libs   == DOMAIN g.lib
<1>3. /\ wanted \in SUBSET Page /\ g.ro \cap g.rw = {} /\ g.ro \subseteq wanted /\ g.rw \subseteq wanted
      /\ libs \in SUBSET Page /\ libs \cap wanted = {}
  BY ProgramAssumption
<1>l. \A v \in libs : g.lib[v] \in Library /\ g.lib[v] \in Frame /\ g.lib[v] # NoFrame
  BY ProgramAssumption, SizesAssumption DEF Injection
<1>4. given \in [wanted -> Frame \ Library] /\ \A v, w \in wanted : given[v] = given[w] => v = w
  BY <1>1 DEF Injection, IsInjective
<1>5. used = Range(given) \cup Library /\ text = {given[v] : v \in g.ro} \cup Library
  BY <1>1
<1>6. tables = [p \in Process |-> IF p = 0 THEN LoadedTables(g) ELSE {}]
  BY <1>1
<1>7. pt = [p \in Process |-> IF p = 0 THEN Loaded(g, given) ELSE [v \in Page |-> Absent]]
  BY <1>1
<1>8. \A v \in Page : /\ v \in g.rw => Loaded(g, given)[v] = Entry(given[v], TRUE, FALSE)
                      /\ v \in g.ro => Loaded(g, given)[v] = Entry(given[v], FALSE, FALSE)
                      /\ v \in libs => Loaded(g, given)[v] = Entry(g.lib[v], FALSE, FALSE)
                      /\ v \notin wanted \cup libs => Loaded(g, given)[v] = Absent
  <2> SUFFICES ASSUME NEW v \in Page
               PROVE  /\ v \in g.rw => Loaded(g, given)[v] = Entry(given[v], TRUE, FALSE)
                      /\ v \in g.ro => Loaded(g, given)[v] = Entry(given[v], FALSE, FALSE)
                      /\ v \in libs => Loaded(g, given)[v] = Entry(g.lib[v], FALSE, FALSE)
                      /\ v \notin wanted \cup libs => Loaded(g, given)[v] = Absent
    OBVIOUS
  <2>1. v \in wanted => Loaded(g, given)[v] = Entry(given[v], v \in g.rw, FALSE)
    BY DEF Loaded
  <2>2. v \notin wanted \cup libs => Loaded(g, given)[v] = Absent
    BY DEF Loaded
  <2>5. v \in libs => Loaded(g, given)[v] = Entry(g.lib[v], FALSE, FALSE)
    BY <1>3 DEF Loaded
  <2> HIDE DEF wanted, libs
  <2>3. ASSUME v \in g.rw
        PROVE  Loaded(g, given)[v] = Entry(given[v], TRUE, FALSE)
    <3>1. (v \in g.rw) = TRUE
      BY <2>3
    <3>2. v \in wanted
      BY <2>3, <1>3
    <3> QED
      BY <3>1, <3>2, <2>1, Zenon
  <2>4. ASSUME v \in g.ro
        PROVE  Loaded(g, given)[v] = Entry(given[v], FALSE, FALSE)
    <3>1. (v \in g.rw) = FALSE
      BY <2>4, <1>3
    <3>2. v \in wanted
      BY <2>4, <1>3
    <3> QED
      BY <3>1, <3>2, <2>1, Zenon
  <2> QED
    BY <2>2, <2>3, <2>4, <2>5
<1> HIDE DEF libs
<1>9. 0 \in Process
  BY SizesAssumption DEF Process
<1>10. /\ \A v \in Page : pt[0][v] = Loaded(g, given)[v]
       /\ \A q \in Process, v \in Page : q # 0 => pt[q][v] = Absent
  BY <1>7, <1>9
<1>11. \A v \in wanted : given[v] \in Frame /\ given[v] # NoFrame
  BY <1>4, SizesAssumption
<1>12. \A v \in Page :
          /\ v \in wanted => pt[0][v].frame = given[v]
          /\ v \in libs => pt[0][v].frame = g.lib[v]
          /\ v \notin wanted \cup libs => pt[0][v].frame = NoFrame
          /\ pt[0][v].rw <=> v \in g.rw
          /\ ~ pt[0][v].mmapped
  <2> SUFFICES ASSUME NEW v \in Page
               PROVE  /\ v \in wanted => pt[0][v].frame = given[v]
                      /\ v \in libs => pt[0][v].frame = g.lib[v]
                      /\ v \notin wanted \cup libs => pt[0][v].frame = NoFrame
                      /\ pt[0][v].rw <=> v \in g.rw
                      /\ ~ pt[0][v].mmapped
    OBVIOUS
  <2>1. CASE v \in g.rw
    <3>1. pt[0][v] = Entry(given[v], TRUE, FALSE)
      BY <2>1, <1>8, <1>10
    <3> QED
      BY <2>1, <3>1, <1>3 DEF Entry
  <2>2. CASE v \in g.ro
    <3>1. pt[0][v] = Entry(given[v], FALSE, FALSE)
      BY <2>2, <1>8, <1>10
    <3> QED
      BY <2>2, <3>1, <1>3 DEF Entry
  <2>4. CASE v \in libs
    <3>1. pt[0][v] = Entry(g.lib[v], FALSE, FALSE)
      BY <2>4, <1>8, <1>10
    <3> QED
      BY <2>4, <3>1, <1>3 DEF Entry
  <2>3. CASE v \notin wanted \cup libs
    <3>1. pt[0][v] = Absent
      BY <2>3, <1>8, <1>10
    <3> QED
      BY <2>3, <3>1 DEF Absent
  <2> QED
    BY <2>1, <2>2, <2>3, <2>4
<1>13. \A q \in Process, v \in Page : pt[q][v].frame # NoFrame => q = 0 /\ v \in wanted \cup libs
  BY <1>10, <1>12 DEF Absent
<1>14. \A q \in Process, v \in Page : Good(q, v) => q = 0 /\ v \in wanted \cup libs
  BY <1>13 DEF Good
<1>15. TypeOK
  <2>1. used \subseteq Frame /\ text \subseteq used
    BY <1>3, <1>4, <1>5, SizesAssumption DEF Range
  <2>2. pt \in [Process -> [Page -> [frame : Frame \cup {NoFrame}, rw : BOOLEAN, mmapped : BOOLEAN]]]
    <3>1. Loaded(g, given) \in [Page -> [frame : Frame \cup {NoFrame}, rw : BOOLEAN, mmapped : BOOLEAN]]
      <4>1. \A v \in Page : Loaded(g, given)[v] \in [frame : Frame \cup {NoFrame}, rw : BOOLEAN, mmapped : BOOLEAN]
        <5> SUFFICES ASSUME NEW v \in Page
                     PROVE  Loaded(g, given)[v] \in [frame : Frame \cup {NoFrame}, rw : BOOLEAN, mmapped : BOOLEAN]
          OBVIOUS
        <5>1. CASE v \in wanted
          <6>1. \/ Loaded(g, given)[v] = Entry(given[v], TRUE, FALSE)
                \/ Loaded(g, given)[v] = Entry(given[v], FALSE, FALSE)
            BY <5>1, <1>8
          <6>2. given[v] \in Frame
            BY <5>1, <1>11
          <6>3. \A b \in BOOLEAN : Entry(given[v], b, FALSE) \in [frame : Frame \cup {NoFrame}, rw : BOOLEAN, mmapped : BOOLEAN]
            BY <6>2 DEF Entry
          <6> QED
            BY <6>1, <6>3
        <5>3. CASE v \in libs
          <6>1. Loaded(g, given)[v] = Entry(g.lib[v], FALSE, FALSE)
            BY <5>3, <1>8
          <6>2. g.lib[v] \in Frame
            BY <5>3, <1>l
          <6> QED
            BY <6>1, <6>2 DEF Entry
        <5>2. CASE v \notin wanted \cup libs
          <6>1. Loaded(g, given)[v] = Absent
            BY <5>2, <1>8
          <6> QED
            BY <6>1 DEF Absent
        <5> QED
          BY <5>1, <5>2, <5>3
      <4>2. Loaded(g, given) = [v \in Page |-> Loaded(g, given)[v]]
        BY DEF Loaded
      <4> QED
        BY <4>1, <4>2
    <3>2. [v \in Page |-> Absent] \in [Page -> [frame : Frame \cup {NoFrame}, rw : BOOLEAN, mmapped : BOOLEAN]]
      BY DEF Absent
    <3> QED
      BY <3>1, <3>2, <1>7
  <2>3. LoadedTables(g) \in SUBSET (0 .. TABLES - 1)
    BY <1>3, TableInRange DEF LoadedTables, libs
  <2>4. tables \in [Process -> SUBSET (0 .. TABLES - 1)]
    BY <2>3, <1>6
  <2> QED
    BY <2>1, <2>2, <2>4, <1>2, <1>9 DEF TypeOK
<1>16. NoDoubleFree /\ StaleInherited /\ LibrariesKept
  BY <1>2, <1>5 DEF NoDoubleFree, StaleInherited, LibrariesKept
<1>17. DeadEmpty
  BY <1>2, <1>13 DEF DeadEmpty
<1>18. PagesInTables
  <2>1. \A v \in wanted \cup libs : TableOf(v) \in tables[0]
    BY <1>6, <1>9 DEF LoadedTables, libs
  <2> QED
    BY <2>1, <1>12, <1>13 DEF PagesInTables
<1>19. \A v \in wanted : given[v] \in used /\ (given[v] \in text <=> v \in g.ro)
  BY <1>3, <1>4, <1>5 DEF Range
<1>20. GoodUsed
  <2> SUFFICES ASSUME NEW q \in Process, NEW v \in Page, Good(q, v)
               PROVE  pt[q][v].frame \in used /\ (pt[q][v].rw <=> pt[q][v].frame \notin text)
    BY DEF GoodUsed
  <2>0. q = 0 /\ v \in wanted \cup libs
    BY <1>14
  <2>1. CASE v \in wanted
    <3>1. v \in g.rw <=> v \notin g.ro
      BY <2>1, <1>3
    <3> QED
      BY <2>0, <2>1, <3>1, <1>12, <1>19
  <2>2. CASE v \in libs
    <3>1. v \notin g.rw
      BY <2>2, <1>3
    <3> QED
      BY <2>0, <2>2, <3>1, <1>5, <1>12, <1>l
  <2> QED
    BY <2>0, <2>1, <2>2
<1>21. Apart
  <2> SUFFICES ASSUME NEW v \in Page, NEW w \in Page, Good(0, v), Good(0, w), v # w,
                      pt[0][v].frame = pt[0][w].frame, pt[0][v].frame \notin Library
               PROVE  FALSE
    BY <1>14 DEF Apart
  <2>1. v \in wanted /\ w \in wanted
    BY <1>9, <1>12, <1>14, <1>l
  <2> QED
    BY <2>1, <1>4, <1>12
<1>22. Held
  <2> SUFFICES ASSUME NEW f \in used \ text
               PROVE  \E q \in live, v \in Page : pt[q][v].frame = f /\ pt[q][v].rw
    BY DEF Held
  <2>1. PICK v \in wanted : f = given[v]
    BY <1>4, <1>5 DEF Range
  <2>2. v \in g.rw /\ v \in Page
    BY <2>1, <1>3, <1>19
  <2> QED
    BY <2>1, <2>2, <1>2, <1>12
<1> QED
  BY <1>15, <1>16, <1>17, <1>18, <1>20, <1>21, <1>22 DEF IInv

\* When the kernel stops nothing else changes.
LEMMA HungInv ==
    ASSUME IInv, hung' \in BOOLEAN, hung => hung',
           UNCHANGED <<live, parent, children, overwritten, tables, pt, used, text, stale,
                       spoilt, freedTwice>>
    PROVE  IInv'
<1>1. \A p \in Process, v \in Page : Good(p, v)' <=> Good(p, v)
  BY DEF Good
<1>2. \A p \in Process : Owner(p)' <=> Owner(p)
  BY DEF Owner
<1>3. TypeOK' /\ NoDoubleFree' /\ LibrariesKept'
  BY DEF IInv, TypeOK, NoDoubleFree, LibrariesKept
<1>4. DeadEmpty' /\ PagesInTables'
  BY DEF IInv, DeadEmpty, PagesInTables
<1>5. GoodUsed' /\ Apart'
  BY <1>1, <1>2 DEF IInv, GoodUsed, Apart
<1>6. StaleInherited' /\ Held'
  BY <1>2 DEF IInv, StaleInherited, Held
<1> QED
  BY <1>3, <1>4, <1>5, <1>6 DEF IInv

LEMMA NextInv == IInv /\ [Next]_vars => IInv'
<1> SUFFICES ASSUME IInv, [Next]_vars
             PROVE  IInv'
  OBVIOUS
<1>0. 0 \in Page
  BY SizesAssumption DEF Page
<1>1. ASSUME NEW p \in Process, NEW g \in Program, Execvp(p, g) PROVE IInv'
  BY <1>1, ExecvpInv
<1>2. ASSUME NEW p \in Process, NEW g \in Program, ExecvpBinary(p, g) PROVE IInv'
  BY <1>2, HungInv DEF ExecvpBinary
<1>3. ASSUME NEW p \in Process, NEW pages, OutOfFrames(p, pages) PROVE IInv'
  BY <1>3, HungInv DEF OutOfFrames
<1>4. ASSUME NEW p \in Process, NEW child \in Process, Fork(p, child) PROVE IInv'
  BY <1>4, ForkInv
<1>5. ASSUME NEW p \in Process, TerminateProcess(p) PROVE IInv'
  BY <1>5, TerminateInv
<1>6. ASSUME NEW p \in Process, NEW address \in Page, NEW length \in Length, Mmap(p, address, length)
      PROVE  IInv'
  BY <1>6, MmapInv
<1>7. ASSUME NEW p \in Process, NEW length \in Length, Mmap(p, 0, length) PROVE IInv'
  BY <1>7, <1>0, MmapInv
<1>8. ASSUME NEW p \in Process, NEW address \in Page, NEW length \in Length, Munmap(p, address, length)
      PROVE  IInv'
  BY <1>8, MunmapInv
<1>9. CASE UNCHANGED vars
  BY <1>9, HungInv DEF vars, IInv, TypeOK
<1>10. CASE Next
  BY <1>10, <1>1, <1>2, <1>3, <1>4, <1>5, <1>6, <1>7, <1>8, <1>9 DEF Next, Stopped
<1> QED
  BY <1>9, <1>10

\* The invariant holds in every state.
THEOREM Invariant == Spec => []IInv
<1> QED
  BY InitInv, NextInv, PTL DEF Spec

-----------------------------------------------------------------------------
(* The properties.                                                         *)

\* What a process can write it shares with nobody, in every state, unless it is
\* given a frame of a library that was freed.
THEOREM WritableAlwaysPrivate == Spec => []WritableIsPrivate
<1>1. IInv => WritableIsPrivate
  <2> SUFFICES ASSUME IInv
               PROVE  WritableIsPrivate
    OBVIOUS
  <2>t. TypeOK
    BY DEF IInv
  <2> SUFFICES ASSUME NEW p \in live, NEW v \in Writable(p), pt[p][v].frame \notin spoilt
               PROVE  /\ pt[p][v].frame \in used \ (text \cup Library)
                      /\ \A q \in live : \A w \in Present(q) :
                            pt[q][w].frame = pt[p][v].frame => <<q, w>> \in stale \cup {<<p, v>>}
    BY <2>t DEF WritableIsPrivate
  <2>1. p \in Process /\ v \in Page /\ pt[p][v].frame # NoFrame /\ pt[p][v].rw
    BY <2>t DEF TypeOK, Writable, Present
  <2>2. Good(p, v)
    BY <2>1, FreedAreGood
  <2>3. pt[p][v].frame \in used \ (text \cup Library)
    BY <2>1, <2>2, WritableNotLibrary DEF IInv, GoodUsed
  <2>4. ASSUME NEW q \in live, NEW w \in Present(q), pt[q][w].frame = pt[p][v].frame,
               <<q, w>> \notin stale
        PROVE  <<q, w>> = <<p, v>>
    <3>1. q \in Process /\ w \in Page
      BY <2>t DEF TypeOK, Present
    <3>2. Good(q, w)
      BY <2>4 DEF Good, Present
    <3> QED
      BY <3>1, <3>2, <2>1, <2>2, <2>3, <2>4 DEF IInv, Apart
  <2> QED
    BY <2>3, <2>4
<1> QED
  BY <1>1, Invariant, PTL

\* But for frames of libraries nothing is freed that is not allocated, and
\* nothing twice in one call.
THEOREM NeverFreedTwice == Spec => []NoDoubleFree
<1>1. IInv => NoDoubleFree
  BY DEF IInv
<1> QED
  BY <1>1, Invariant, PTL

\* Only read-only pages a process was forked with are freed underneath it, or
\* pages of libraries.
THEOREM StaleIsInheritedText == Spec => []OnlyInheritedTextIsFreed
<1>1. IInv => OnlyInheritedTextIsFreed
  <2> SUFFICES ASSUME IInv, NEW e \in stale, pt[e[1]][e[2]].frame \notin spoilt
               PROVE  ~ pt[e[1]][e[2]].rw /\ ~ overwritten[e[1]] /\ parent[e[1]] # None
    BY DEF OnlyInheritedTextIsFreed
  <2>1. e \in Process \X Page
    BY DEF IInv, TypeOK
  <2>2. e[1] \in Process /\ e[2] \in Page /\ <<e[1], e[2]>> \in stale
    BY <2>1
  <2> QED
    BY <2>2 DEF IInv, StaleInherited, Owner
<1> QED
  BY <1>1, Invariant, PTL

\* While the kernel runs every frame that can be written is mapped by a process.
THEOREM WritableAlwaysHeld == Spec => []WritableNeverLost
<1>1. IInv => WritableNeverLost
  <2> SUFFICES ASSUME IInv, ~ hung, NEW f \in used \ text
               PROVE  \E p \in live : Mapped(p, f)
    BY DEF WritableNeverLost
  <2>1. PICK p \in live, v \in Page : pt[p][v].frame = f
    BY DEF IInv, Held
  <2>2. f # NoFrame
    BY SizesAssumption DEF IInv, TypeOK
  <2> QED
    BY <2>1, <2>2 DEF Mapped, Present
<1> QED
  BY <1>1, Invariant, PTL

\* Other processes' pages are freed in two ways only, but for what was a
\* library's.
THEOREM FreedUnderneathOnlySoHolds == Spec => FreedUnderneathOnlySo
<1> DEFINE Ways(e) ==
             \/ pt'[e[1]][e[2]].frame \in spoilt
             \/ e[1] \in live' \ live
             \/ \E p \in live : \/ p \notin live' /\ overwritten[p]
                                \/ parent[p] = None /\ \E g \in Program : Execvp(p, g)
           Only == \A e \in stale' \ stale : Ways(e)
<1>1. ASSUME IInv, NEW p \in Process, NEW g \in Program, Execvp(p, g) PROVE Only
  <2> DEFINE wanted == g.ro \cup g.rw
             old    == FreedBy(p, parent[p] = None)
             back   == FramesAt(old)
  <2>t. TypeOK
    BY <1>1 DEF IInv
  <2>3. PICK given \in Taken(wanted) :
           /\ p \in live /\ pt' = [pt EXCEPT ![p] = Loaded(g, given)]
           /\ stale' = StaleAfter(back, live, pt', {e \in stale : e[1] # p})
    BY <1>1 DEF Execvp, Running
  <2>2. /\ \A v \in wanted : given[v] \notin spoilt => given[v] \notin used /\ given[v] \notin Library
    BY <1>1, TakenFresh
  <2>1. /\ wanted \cap DOMAIN g.lib = {}
        /\ \A v \in DOMAIN g.lib : g.lib[v] \in Library
    BY ProgramAssumption DEF Injection
  <2>5. pt'[p] = Loaded(g, given) /\ \A q \in Process : q # p => pt'[q] = pt[q]
    BY <2>3, <2>t DEF TypeOK
  <2> SUFFICES ASSUME NEW e \in stale', e \notin stale
               PROVE  Ways(e)
    OBVIOUS
  <2>9. PICK q \in Process, w \in Page : e = <<q, w>>
    BY <2>3, <2>t DEF StaleAfter, TypeOK
  <2>9a. e[1] = q /\ e[2] = w
    BY <2>9
  <2>4. CASE parent[p] = None
    BY <1>1, <2>3, <2>4
  <2>6. CASE parent[p] # None /\ pt'[q][w].frame \notin spoilt
    <3> HIDE DEF Ways
    <3>1. q \in live /\ pt'[q][w].frame # NoFrame /\ pt'[q][w].frame \in back
      <4> DEFINE before == {d \in stale : d[1] # p}
      <4>1. <<q, w>> \in StaleAfter(back, live, pt', before)
        BY <2>3, <2>9
      <4>2. <<q, w>> \notin before /\ live \in SUBSET Process
        BY <2>9, <2>t DEF TypeOK
      <4> HIDE DEF before, back
      <4> QED
        BY <4>1, <4>2, StaleAfterPage
    <3>2. PICK v \in Page : /\ pt[p][v].frame # NoFrame /\ pt[p][v].frame = pt'[q][w].frame
                            /\ pt[p][v].rw
      <4>1. PICK d \in old : pt'[q][w].frame = pt[d[1]][d[2]].frame
        BY <3>1 DEF FramesAt
      <4>2. PICK v \in Page : d = <<p, v>> /\ pt[p][v].frame # NoFrame /\ pt[p][v].rw
        BY <2>6 DEF FreedBy, Writable, Present
      <4> QED
        BY <4>1, <4>2
    <3>3. Good(p, v) /\ pt[p][v].frame \in used
      BY <1>1, <2>6, <3>2, FreedAreGood
    <3>4. pt[p][v].frame \notin Library
      BY <1>1, <3>2, <3>3, WritableNotLibrary
    <3>5. CASE q = p
      <4>1. w \in wanted => Loaded(g, given)[w].frame = given[w]
        BY DEF Loaded, Entry
      <4>2. w \in DOMAIN g.lib /\ w \notin wanted => Loaded(g, given)[w].frame = g.lib[w]
        BY DEF Loaded, Entry
      <4>3. w \notin wanted \cup DOMAIN g.lib => Loaded(g, given)[w].frame = NoFrame
        BY DEF Loaded, Absent
      <4> QED
        BY <2>1, <2>2, <2>5, <2>6, <3>1, <3>2, <3>3, <3>4, <3>5, <4>1, <4>2, <4>3
    <3>6. CASE q # p
      <4>1. Good(q, w) /\ pt[q][w].frame = pt[p][v].frame
        BY <2>5, <2>6, <2>9, <3>1, <3>2, <3>6 DEF Good
      <4> QED
        BY <1>1, <3>2, <3>3, <3>4, <3>6, <4>1 DEF IInv, Apart
    <3> QED
      BY <3>5, <3>6
  <2> QED
    BY <2>4, <2>6, <2>9a
<1>2. ASSUME IInv, NEW p \in Process, NEW child \in Process, Fork(p, child) PROVE Only
  <2>1. /\ stale' = stale \cup {<<child, v>> : v \in {w \in Page \ Writable(p) : <<p, w>> \in stale}}
        /\ child \in live' \ live
    BY <1>2 DEF Fork
  <2>2. ASSUME NEW e \in stale' \ stale
        PROVE  e[1] = child
    <3>1. PICK v \in Page : e = <<child, v>>
      BY <2>1
    <3> QED
      BY <3>1
  <2> QED
    BY <2>1, <2>2
<1>3. ASSUME IInv, NEW p \in Process, TerminateProcess(p) PROVE Only
  <2> DEFINE gone == children[p] \cup {p}
             old  == FreedWith(p)
             back == FramesAt(old)
  <2>t. TypeOK
    BY <1>3 DEF IInv
  <2>1. /\ live' = live \ gone
        /\ pt' = [q \in Process |-> IF q \in gone THEN [v \in Page |-> Absent] ELSE pt[q]]
        /\ stale' = StaleAfter(back, live \ gone, pt', stale)
    BY <1>3 DEF TerminateProcess
  <2>2. \A f \in back : f \notin spoilt =>
           \E q \in gone, v \in Page : /\ Good(q, v) /\ pt[q][v].frame = f
                                       /\ pt[q][v].rw \/ overwritten[q]
    <3> SUFFICES ASSUME NEW f \in back, f \notin spoilt
                 PROVE  \E q \in gone, v \in Page : /\ Good(q, v) /\ pt[q][v].frame = f
                                                    /\ pt[q][v].rw \/ overwritten[q]
      OBVIOUS
    <3>1. MayFree(old)
      BY <1>3, FreedWithEach
    <3>2. PICK q \in Process, v \in Page :
             /\ <<q, v>> \in old /\ Good(q, v) /\ pt[q][v].frame = f
      BY <1>3, <3>1, FramesFreed
    <3> QED
      BY <1>3, <3>2, FreedWithEach
  <2>3. gone \subseteq Process
    BY <2>t DEF TypeOK
  <2> HIDE DEF gone, back, old
  <2> SUFFICES ASSUME NEW e \in stale', e \notin stale
               PROVE  Ways(e)
    OBVIOUS
  <2>5. PICK q \in Process, w \in Page : e = <<q, w>>
    BY <2>1, <2>t DEF StaleAfter, TypeOK
  <2>5a. e[1] = q /\ e[2] = w
    BY <2>5
  <2>6. q \in live \ gone /\ pt'[q][w].frame # NoFrame /\ pt'[q][w].frame \in back
    <3>1. <<q, w>> \in StaleAfter(back, live \ gone, pt', stale)
      BY <2>1, <2>5
    <3>2. <<q, w>> \notin stale /\ live \ gone \in SUBSET Process
      BY <2>5, <2>t DEF TypeOK
    <3> QED
      BY <3>1, <3>2, StaleAfterPage
  <2>7. pt'[q][w] = pt[q][w] /\ pt[q][w].frame \in back
    BY <2>1, <2>6
  <2>4. CASE pt[q][w].frame \in spoilt
    BY <2>4, <2>5a, <2>7
  <2>n. CASE pt[q][w].frame \notin spoilt
    <3>1. Good(q, w)
      BY <2>n, <2>5, <2>6, <2>7 DEF Good
    <3>2. PICK r \in gone, v \in Page : /\ Good(r, v) /\ pt[r][v].frame = pt[q][w].frame
                                        /\ pt[r][v].rw \/ overwritten[r]
      BY <2>n, <2>2, <2>7
    <3>3. r \in Process /\ r # q
      BY <2>3, <2>6, <3>2
    <3>4. ~ pt[r][v].rw
      <4>1. CASE pt[r][v].rw
        <5>1. pt[r][v].frame \notin Library
          BY <1>3, <3>2, <3>3, <4>1, WritableNotLibrary
        <5> QED
          BY <1>3, <3>1, <3>2, <3>3, <5>1, <4>1 DEF IInv, Apart
      <4> QED
        BY <4>1
    <3>5. r \in live /\ r \notin live' /\ overwritten[r]
      BY <2>1, <3>2, <3>4 DEF Good
    <3> QED
      BY <3>5
  <2> QED
    BY <2>4, <2>n
<1>4. ASSUME IInv, NEW p \in Process, NEW address \in Page, NEW length \in Length,
             Munmap(p, address, length)
      PROVE  Only
  BY <1>4, MunmapInv
<1>5. ASSUME stale' = stale PROVE Only
  BY <1>5
<1> HIDE DEF Only
<1>6. ASSUME NEW p \in Process, NEW g \in Program, ExecvpBinary(p, g) PROVE Only
  BY <1>5, <1>6 DEF ExecvpBinary
<1>7. ASSUME NEW p \in Process, NEW pages, OutOfFrames(p, pages) PROVE Only
  BY <1>5, <1>7 DEF OutOfFrames
<1>8. ASSUME NEW p \in Process, NEW hint, NEW length, Mmap(p, hint, length) PROVE Only
  BY <1>5, <1>8 DEF Mmap
<1>9. ASSUME UNCHANGED vars PROVE Only
  BY <1>5, <1>9 DEF vars
<1>10. IInv /\ [Next]_vars => [Only]_vars
  <2> SUFFICES ASSUME IInv, Next
               PROVE  Only
    OBVIOUS
  <2> QED
    BY <1>1, <1>2, <1>3, <1>4, <1>6, <1>7, <1>8, <1>9 DEF Next, Stopped
<1> QED
  BY <1>10, Invariant, PTL DEF Spec, FreedUnderneathOnlySo, Only, Ways
=============================================================================

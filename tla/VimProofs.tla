----------------------------- MODULE VimProofs ------------------------------
(***************************************************************************)
(* Theorems about Vim, for screens, margins, texts and keys of every size  *)
(* and number: whatever is typed, split, joined, pasted, removed, searched *)
(* for and saved, the cursor stays in the text and on the screen, the      *)
(* colours follow the text, and q loses nothing, as far as the handlers    *)
(* stay in their text.                                                     *)
(***************************************************************************)
EXTENDS Vim, SequenceTheorems, WellFoundedInduction, TLAPS

\* What the search buffer holds, rows, and the editor.
Sign == Searched \cup {Nul, Space}
Row  == [chars : Seq(Character), ended : BOOLEAN, unclosed : BOOLEAN]
Search ==
    [buf : [1 .. MAX_SEARCH_BUFFER + 1 -> Sign], size : Int, cursor : Nat,
     found : BOOLEAN, prev : BOOLEAN, x : Nat, y : Nat]
Mode == {"NORMAL", "INSERT", "VISUAL", "VISUAL_LINE", "SEARCH", "COMMAND"}
Ending  == {"", "q", "q!", "wq", "wq other"}
Handler == {"", "left", "display", "join", "paste", "search", "prompt", "escape",
            "selection"}
Filename == {"", "own", "other"}
EditorType ==
    [rows : Seq(Row), curx : Nat, rcurx : Nat, rscurx : Nat, cury : Nat,
     rowoff : Nat, coloff : Int, mode : Mode, vcurx : Nat, vcury : Nat,
     clip : Seq(Character \cup {Newline}), search : Search,
     filename : Filename, saved : BOOLEAN, exited : Ending, undefined : Handler,
     split : BOOLEAN, miscoloured : BOOLEAN]
FileType == Seq(Seq(Character)) \cup {None}

\* The cursor is in the text and its row on the screen.
InText(e) ==
    /\ e.cury \in 0 .. Len(e.rows) - 1
    /\ e.curx \in 0 .. Len(CurrentRow(e))
    /\ e.rcurx = CurxToRCurx(CurrentRow(e), e.curx)
OnScreen(e) == e.cury - e.rowoff \in 0 .. MaxRows - 1

\* The comment that row i leaves open is the one its characters say.
Follows(rows, i) ==
    rows[i].unclosed = Unclosed(rows[i].chars, i > 1 /\ rows[i - 1].unclosed)
AllFollow(rows) == \A i \in 1 .. Len(rows) : Follows(rows, i)

\* A selection begins in the text.
Marked(e) == e.mode \in Selecting => e.vcury < Len(e.rows)

Sound(e) ==
    /\ e \in EditorType /\ e.rows # <<>>
    /\ e.undefined = "" => /\ InText(e) /\ OnScreen(e) /\ Marked(e)
                           /\ ~ e.miscoloured => AllFollow(e.rows)

Well(e) == Sound(e) /\ e.undefined = ""

IInv == Sound(E) /\ disk \in [{"own", "other"} -> FileType] /\ SavedMeansWritten

-----------------------------------------------------------------------------
(* The smallest of some numbers; induction and recursion.                  *)

NatLess == OpToRel(<, Nat)

LEMMA NatLessIs ==
    /\ \A i, j \in Nat : <<i, j>> \in NatLess <=> i < j
    /\ IsWellFoundedOn(NatLess, Nat)
BY NatLessThanWellFounded DEF NatLess, OpToRel

LEMMA Smallest ==
    ASSUME NEW S \in SUBSET Nat, S # {}
    PROVE  \E m \in S : \A n \in S : m <= n
<1>1. PICK m \in S : \A n \in S : ~ (<<n, m>> \in NatLess)
  <2>1. IsWellFoundedOn(NatLess, Nat)
    BY NatLessIs
  <2> QED
    BY <2>1, WFMin
<1>2. \A n \in S : ~ n < m
  BY <1>1, NatLessIs
<1> QED
  BY <1>2

LEMMA MinIs ==
    ASSUME NEW S \in SUBSET Nat, S # {}
    PROVE  Min(S) \in S /\ \A n \in S : Min(S) <= n
BY Smallest DEF Min

LEMMA OfTwo ==
    ASSUME NEW m \in Int, NEW n \in Int
    PROVE  /\ Min({m, n}) = IF m <= n THEN m ELSE n
           /\ Max({m, n}) = IF m <= n THEN n ELSE m
<1>1. Min({m, n}) \in {m, n} /\ Min({m, n}) <= m /\ Min({m, n}) <= n
  <2>1. \E x \in {m, n} : \A y \in {m, n} : x <= y
    OBVIOUS
  <2> QED
    BY <2>1 DEF Min
<1>2. Max({m, n}) \in {m, n} /\ Max({m, n}) >= m /\ Max({m, n}) >= n
  <2>1. \E x \in {m, n} : \A y \in {m, n} : x >= y
    OBVIOUS
  <2> QED
    BY <2>1 DEF Max
<1> QED
  BY <1>1, <1>2

LEMMA Induction ==
    ASSUME NEW S, 0 \in S, \A n \in Nat : n \in S => n + 1 \in S
    PROVE  Nat \subseteq S
<1> DEFINE T == {n \in Nat : n \notin S}
<1> SUFFICES ASSUME T # {} PROVE FALSE
  OBVIOUS
<1>1. PICK m \in T : \A n \in T : m <= n
  <2>1. T \in SUBSET Nat
    OBVIOUS
  <2> HIDE DEF T
  <2> QED
    BY <2>1, Smallest
<1>2. m \in Nat /\ m \notin S /\ m # 0
  BY <1>1
<1>3. m - 1 \in Nat /\ (m - 1) + 1 = m
  BY <1>2
<1>4. CASE m - 1 \in S
  BY <1>2, <1>3, <1>4
<1>5. CASE m - 1 \notin S
  <2>1. m - 1 \in T
    BY <1>3, <1>5
  <2> QED
    BY <1>1, <1>2, <1>3, <2>1
<1> QED
  BY <1>4, <1>5

\* Up to a bound.
LEMMA InductionTo ==
    ASSUME NEW N \in Nat, NEW S, 0 \in S, \A n \in 1 .. N : n - 1 \in S => n \in S
    PROVE  0 .. N \subseteq S
<1> DEFINE T == {n \in Nat : n <= N => n \in S}
<1>1. 0 \in T
  OBVIOUS
<1>2. ASSUME NEW n \in Nat, n \in T PROVE n + 1 \in T
  <2>1. CASE n + 1 <= N
    <3>1. n \in S /\ n + 1 \in 1 .. N /\ (n + 1) - 1 = n
      BY <1>2, <2>1
    <3> QED
      BY <3>1
  <2> QED
    BY <2>1
<1>3. Nat \subseteq T
  <2> HIDE DEF T
  <2> QED
    BY <1>1, <1>2, Induction
<1> QED
  BY <1>3

\* A function of which each value is made from the one before.
Recursive(X, x, G, N, f) ==
    f \in [0 .. N -> X] /\ f[0] = x /\ \A n \in 1 .. N : f[n] = G[<<n, f[n - 1]>>]

LEMMA Recursion ==
    ASSUME NEW X, NEW x \in X, NEW N \in Nat, NEW G \in [(1 .. N) \X X -> X]
    PROVE  \E f : Recursive(X, x, G, N, f)
<1> DEFINE S == {m \in Nat : m <= N => \E f : Recursive(X, x, G, m, f)}
<1>1. 0 \in S
  <2> DEFINE f == [n \in 0 .. 0 |-> x]
  <2>1. Recursive(X, x, G, 0, f)
    BY DEF Recursive
  <2> QED
    BY <2>1
<1>2. ASSUME NEW m \in Nat, m \in S PROVE m + 1 \in S
  <2> SUFFICES ASSUME m + 1 <= N PROVE \E f : Recursive(X, x, G, m + 1, f)
    OBVIOUS
  <2>1. PICK f : Recursive(X, x, G, m, f)
    BY <1>2
  <2> DEFINE g == [n \in 0 .. m + 1 |-> IF n = m + 1 THEN G[<<m + 1, f[m]>>] ELSE f[n]]
  <2>2. f \in [0 .. m -> X] /\ f[0] = x /\ \A n \in 1 .. m : f[n] = G[<<n, f[n - 1]>>]
    BY <2>1 DEF Recursive
  <2>3. f[m] \in X /\ <<m + 1, f[m]>> \in (1 .. N) \X X
    BY <2>2
  <2>4. g \in [0 .. m + 1 -> X]
    BY <2>2, <2>3
  <2>5. g[m + 1] = G[<<m + 1, f[m]>>] /\ \A n \in 0 .. m : g[n] = f[n]
    BY <2>2
  <2> HIDE DEF g
  <2>6. \A n \in 1 .. m + 1 : g[n] = G[<<n, g[n - 1]>>]
    <3> SUFFICES ASSUME NEW n \in 1 .. m + 1 PROVE g[n] = G[<<n, g[n - 1]>>]
      OBVIOUS
    <3>1. CASE n = m + 1
      <4>1. n - 1 = m /\ m \in 0 .. m
        BY <3>1
      <4> QED
        BY <2>5, <3>1, <4>1
    <3>2. CASE n # m + 1
      <4>1. n \in 1 .. m /\ n \in 0 .. m /\ n - 1 \in 0 .. m
        BY <3>2
      <4> QED
        BY <2>2, <2>5, <4>1
    <3> QED
      BY <3>1, <3>2
  <2>7. g[0] = x
    BY <2>2, <2>5
  <2> QED
    BY <2>4, <2>6, <2>7 DEF Recursive
<1>3. N \in S
  <2> HIDE DEF S
  <2>1. Nat \subseteq S
    BY <1>1, <1>2, Induction
  <2> QED
    BY <2>1
<1> QED
  BY <1>3
-----------------------------------------------------------------------------
(* Columns.                                                                *)

LEMMA AfterIsNat == \A r \in Nat : \A c : After(r, c) \in Nat
<1>1. TAB_SIZE \in Nat \ {0}
  BY ScreenAssumption
<1>2. ASSUME NEW r \in Nat PROVE r % TAB_SIZE \in 0 .. TAB_SIZE - 1
  BY <1>1
<1>3. ASSUME NEW r \in Nat PROVE TAB_SIZE - (r % TAB_SIZE) \in Nat
  BY <1>1, <1>2
<1>4. ASSUME NEW r \in Nat, NEW c PROVE After(r, c) \in Nat
  <2>1. TAB_SIZE - (r % TAB_SIZE) \in Nat
    BY <1>3
  <2> DEFINE t == TAB_SIZE - (r % TAB_SIZE)
  <2>2. After(r, c) = r + IF c = Tab THEN t ELSE 1
    BY DEF After
  <2> HIDE DEF t
  <2>3. t \in Nat
    BY <2>1 DEF t
  <2> QED
    BY <2>2, <2>3
<1> QED
  BY <1>4

LEMMA ColumnsAre ==
    ASSUME NEW chars \in Seq(Character)
    PROVE  /\ Columns(chars) \in [0 .. Len(chars) -> Nat]
           /\ Columns(chars)[0] = 0
           /\ \A k \in 1 .. Len(chars) :
                 Columns(chars)[k] = After(Columns(chars)[k - 1], chars[k])
<1> DEFINE N == Len(chars)
           G == [p \in (1 .. N) \X Nat |-> After(p[2], chars[p[1]])]
           C == Columns(chars)
<1>1. N \in Nat
  BY LenProperties
<1>2. G \in [(1 .. N) \X Nat -> Nat]
  BY AfterIsNat
<1>3. \E f : Recursive(Nat, 0, G, N, f)
  <2> HIDE DEF N, G
  <2> QED
    BY <1>1, <1>2, Recursion
<1>4. PICK f : Recursive(Nat, 0, G, N, f)
  BY <1>3
<1>5. f \in [0 .. N -> Nat] /\ f[0] = 0 /\ \A k \in 1 .. N : f[k] = G[<<k, f[k - 1]>>]
  BY <1>4 DEF Recursive
<1>6. \A k \in 1 .. N : f[k] = After(f[k - 1], chars[k])
  <2> SUFFICES ASSUME NEW k \in 1 .. N PROVE f[k] = After(f[k - 1], chars[k])
    OBVIOUS
  <2>1. k - 1 \in 0 .. N /\ f[k - 1] \in Nat
    BY <1>1, <1>5
  <2>2. <<k, f[k - 1]>> \in (1 .. N) \X Nat
    BY <2>1
  <2> QED
    BY <1>5, <2>2
<1>7. \A k \in 0 .. N : f[k] = IF k = 0 THEN 0 ELSE After(f[k - 1], chars[k])
  BY <1>1, <1>5, <1>6
<1>8. f = [k \in 0 .. N |-> IF k = 0 THEN 0 ELSE After(f[k - 1], chars[k])]
  BY <1>5, <1>7
<1>9. C = [k \in 0 .. N |-> IF k = 0 THEN 0 ELSE After(C[k - 1], chars[k])]
  BY <1>8 DEF Columns
<1> HIDE DEF C
<1>10. C[0] = 0 /\ \A k \in 1 .. N : C[k] = After(C[k - 1], chars[k])
  BY <1>1, <1>9
<1>11. \A k \in 0 .. N : C[k] \in Nat
  <2> DEFINE S == {k \in 0 .. N : C[k] \in Nat}
  <2>1. 0 \in S
    BY <1>1, <1>10
  <2>2. ASSUME NEW k \in 1 .. N, k - 1 \in S PROVE k \in S
    BY <1>1, <1>10, <2>2, AfterIsNat
  <2>3. 0 .. N \subseteq S
    <3> HIDE DEF S, N
    <3> QED
      BY <1>1, <2>1, <2>2, InductionTo
  <2> QED
    BY <2>3
<1>12. C \in [0 .. N -> Nat]
  BY <1>9, <1>11
<1> QED
  BY <1>10, <1>12 DEF C

\* The column of a character is that of the characters before it.
LEMMA SamePrefix ==
    ASSUME NEW chars \in Seq(Character), NEW more \in Seq(Character),
           NEW n \in 0 .. Len(chars), n <= Len(more), \A k \in 1 .. n : chars[k] = more[k]
    PROVE  CurxToRCurx(chars, n) = CurxToRCurx(more, n)
<1> DEFINE S == {k \in 0 .. n : Columns(chars)[k] = Columns(more)[k]}
<1>1. n \in Nat /\ Len(chars) \in Nat /\ Len(more) \in Nat
  BY LenProperties
<1>2. 0 \in S
  BY <1>1, ColumnsAre
<1>3. ASSUME NEW k \in 1 .. n, k - 1 \in S PROVE k \in S
  <2>1. k \in 1 .. Len(chars) /\ k \in 1 .. Len(more)
    BY <1>1
  <2>2. /\ Columns(chars)[k] = After(Columns(chars)[k - 1], chars[k])
        /\ Columns(more)[k] = After(Columns(more)[k - 1], more[k])
    BY <2>1, ColumnsAre
  <2> QED
    BY <1>3, <2>2
<1>4. 0 .. n \subseteq S
  <2> HIDE DEF S
  <2> QED
    BY <1>1, <1>2, <1>3, InductionTo
<1> QED
  BY <1>1, <1>4 DEF CurxToRCurx

LEMMA ColumnOf ==
    ASSUME NEW chars \in Seq(Character)
    PROVE  /\ \A k \in 0 .. Len(chars) : CurxToRCurx(chars, k) \in Nat
           /\ CurxToRCurx(chars, 0) = 0
           /\ Rlen(chars) \in Nat /\ Rlen(chars) = CurxToRCurx(chars, Len(chars))
<1>1. Len(chars) \in Nat
  BY LenProperties
<1> QED
  BY <1>1, ColumnsAre DEF CurxToRCurx, Rlen

-----------------------------------------------------------------------------
(* Comments.                                                               *)

Colour == [string : BOOLEAN, comment : BOOLEAN]

LEMMA UnclosedIs ==
    ASSUME NEW chars \in Seq(Character), NEW above \in BOOLEAN
    PROVE  /\ Unclosed(chars, above) \in BOOLEAN
           /\ chars = <<>> => Unclosed(chars, above) = above
<1> DEFINE N == Len(chars)
           x == [string |-> FALSE, comment |-> above]
           G == [p \in (1 .. N) \X Colour |-> Coloured(p[2], p[1], chars[p[1]])]
           C == CHOOSE f : f = [k \in 0 .. N |-> IF k = 0 THEN x
                                                 ELSE Coloured(f[k - 1], k, chars[k])]
<1>1. N \in Nat
  BY LenProperties
<1>2. \A s \in Colour : \A k, c : Coloured(s, k, c) \in Colour
  BY DEF Coloured, Colour
<1>3. G \in [(1 .. N) \X Colour -> Colour] /\ x \in Colour
  BY <1>2 DEF Colour
<1>4. PICK f : Recursive(Colour, x, G, N, f)
  <2> HIDE DEF N, G, x
  <2> QED
    BY <1>1, <1>3, Recursion
<1> HIDE DEF x
<1>5. f \in [0 .. N -> Colour] /\ f[0] = x /\ \A k \in 1 .. N : f[k] = G[<<k, f[k - 1]>>]
  BY <1>4 DEF Recursive
<1>6. \A k \in 1 .. N : f[k] = Coloured(f[k - 1], k, chars[k])
  <2> SUFFICES ASSUME NEW k \in 1 .. N PROVE f[k] = Coloured(f[k - 1], k, chars[k])
    OBVIOUS
  <2>1. k - 1 \in 0 .. N /\ f[k - 1] \in Colour
    BY <1>1, <1>5
  <2>2. <<k, f[k - 1]>> \in (1 .. N) \X Colour
    BY <2>1
  <2> QED
    BY <1>5, <2>2
<1>7. \A k \in 0 .. N : f[k] = IF k = 0 THEN x ELSE Coloured(f[k - 1], k, chars[k])
  BY <1>1, <1>5, <1>6
<1>8. f = [k \in 0 .. N |-> IF k = 0 THEN x ELSE Coloured(f[k - 1], k, chars[k])]
  BY <1>5, <1>7
<1>9. C = [k \in 0 .. N |-> IF k = 0 THEN x ELSE Coloured(C[k - 1], k, chars[k])]
  BY <1>8
<1>10. Unclosed(chars, above) = C[N].comment
  BY DEF Unclosed, x
<1> HIDE DEF C
<1>11. C[0] = x /\ \A k \in 1 .. N : C[k] = Coloured(C[k - 1], k, chars[k])
  BY <1>1, <1>9
<1>12. \A k \in 0 .. N : C[k] \in Colour
  <2> DEFINE S == {k \in 0 .. N : C[k] \in Colour}
  <2>1. 0 \in S
    BY <1>1, <1>3, <1>11
  <2>2. ASSUME NEW k \in 1 .. N, k - 1 \in S PROVE k \in S
    BY <1>1, <1>2, <1>11, <2>2
  <2>3. 0 .. N \subseteq S
    <3> HIDE DEF S, N
    <3> QED
      BY <1>1, <2>1, <2>2, InductionTo
  <2> QED
    BY <2>3
<1>13. C[N].comment \in BOOLEAN
  BY <1>1, <1>12 DEF Colour
<1>14. chars = <<>> => N = 0
  OBVIOUS
<1> QED
  BY <1>10, <1>11, <1>13, <1>14 DEF x
\* What is above row i leaves a comment open.
Above(rows, i) == i > 1 /\ rows[i - 1].unclosed

LEMMA RowIs ==
    ASSUME NEW rows \in Seq(Row), NEW i \in 1 .. Len(rows)
    PROVE  /\ rows[i] \in Row /\ rows[i].chars \in Seq(Character)
           /\ rows[i].unclosed \in BOOLEAN /\ rows[i].ended \in BOOLEAN
           /\ Above(rows, i) \in BOOLEAN
<1>1. \A k \in 1 .. Len(rows) : rows[k] \in Row
  BY ElementOfSeq
<1>2. i > 1 => i - 1 \in 1 .. Len(rows)
  BY LenProperties
<1> QED
  BY <1>1, <1>2 DEF Row, Above

\* What updateSyntax finds at the ends of the rows from i on.
EndsFrom(rows, i, ends) ==
    /\ ends \in [i .. Len(rows) -> BOOLEAN]
    /\ ends[i] = Unclosed(rows[i].chars, Above(rows, i))
    /\ \A k \in i + 1 .. Len(rows) : ends[k] = Unclosed(rows[k].chars, ends[k - 1])
Reached(rows, i, ends, k) == k >= i /\ \A j \in i .. k - 1 : rows[j].unclosed # ends[j]
Updated(rows, i, ends, u) ==
    \A k \in 1 .. Len(rows) :
        u[k] = IF Reached(rows, i, ends, k) THEN [rows[k] EXCEPT !.unclosed = ends[k]] ELSE rows[k]

LEMMA UpdateIs ==
    ASSUME NEW rows \in Seq(Row), NEW i \in 1 .. Len(rows)
    PROVE  \E ends : EndsFrom(rows, i, ends) /\ Updated(rows, i, ends, UpdateSyntax(rows, i))
<1> DEFINE L == Len(rows)
           N == L - i
           x == Unclosed(rows[i].chars, Above(rows, i))
           G == [p \in (1 .. N) \X BOOLEAN |-> Unclosed(rows[i + p[1]].chars, p[2])]
           C == CHOOSE f : f = [k \in i .. L |-> Unclosed(rows[k].chars,
                                    IF k = i THEN k > 1 /\ rows[k - 1].unclosed ELSE f[k - 1])]
<1>1. L \in Nat /\ i \in Nat \ {0} /\ N \in Nat
  BY LenProperties
<1>2. \A k \in 1 .. L, b \in BOOLEAN : Unclosed(rows[k].chars, b) \in BOOLEAN
  BY RowIs, UnclosedIs
<1>3. x \in BOOLEAN
  BY <1>2, RowIs
<1>4. G \in [(1 .. N) \X BOOLEAN -> BOOLEAN]
  <2>1. \A p \in (1 .. N) \X BOOLEAN : i + p[1] \in 1 .. L /\ p[2] \in BOOLEAN
    BY <1>1
  <2> HIDE DEF N, L
  <2>2. \A p \in (1 .. N) \X BOOLEAN : Unclosed(rows[i + p[1]].chars, p[2]) \in BOOLEAN
    BY <1>2, <2>1
  <2> QED
    BY <2>2
<1>5. PICK f : Recursive(BOOLEAN, x, G, N, f)
  <2> HIDE DEF N, G, x
  <2> QED
    BY <1>1, <1>3, <1>4, Recursion
<1>6. f \in [0 .. N -> BOOLEAN] /\ f[0] = x /\ \A n \in 1 .. N : f[n] = G[<<n, f[n - 1]>>]
  BY <1>5 DEF Recursive
<1>7. \A n \in 1 .. N : f[n] = Unclosed(rows[i + n].chars, f[n - 1])
  <2> SUFFICES ASSUME NEW n \in 1 .. N PROVE f[n] = Unclosed(rows[i + n].chars, f[n - 1])
    OBVIOUS
  <2>1. n - 1 \in 0 .. N /\ f[n - 1] \in BOOLEAN
    BY <1>1, <1>6
  <2>2. <<n, f[n - 1]>> \in (1 .. N) \X BOOLEAN
    BY <2>1
  <2> QED
    BY <1>6, <2>2
<1> DEFINE g == [k \in i .. L |-> f[k - i]]
<1>8. \A k \in i .. L : g[k] = Unclosed(rows[k].chars,
                                  IF k = i THEN k > 1 /\ rows[k - 1].unclosed ELSE g[k - 1])
  <2> SUFFICES ASSUME NEW k \in i .. L
               PROVE  g[k] = Unclosed(rows[k].chars,
                                 IF k = i THEN k > 1 /\ rows[k - 1].unclosed ELSE g[k - 1])
    OBVIOUS
  <2>1. CASE k = i
    <3>1. g[k] = f[0]
      BY <1>1, <2>1
    <3> QED
      BY <1>6, <2>1, <3>1 DEF Above
  <2>2. CASE k # i
    <3>1. k - i \in 1 .. N /\ i + (k - i) = k /\ k - 1 \in i .. L /\ (k - 1) - i = (k - i) - 1
      BY <1>1, <2>2
    <3>2. g[k] = f[k - i] /\ g[k - 1] = f[(k - i) - 1]
      BY <3>1
    <3>3. f[k - i] = Unclosed(rows[i + (k - i)].chars, f[(k - i) - 1])
      BY <1>7, <3>1
    <3> QED
      BY <2>2, <3>1, <3>2, <3>3
  <2> QED
    BY <2>1, <2>2
<1>9. g = [k \in i .. L |-> Unclosed(rows[k].chars,
                               IF k = i THEN k > 1 /\ rows[k - 1].unclosed ELSE g[k - 1])]
  <2> DEFINE V(k) == Unclosed(rows[k].chars,
                         IF k = i THEN k > 1 /\ rows[k - 1].unclosed ELSE g[k - 1])
  <2>1. \A k \in i .. L : g[k] = V(k)
    BY <1>8
  <2>2. g = [k \in i .. L |-> g[k]]
    OBVIOUS
  <2> HIDE DEF g, V
  <2>3. g = [k \in i .. L |-> V(k)]
    BY <2>1, <2>2
  <2> QED
    BY <2>3 DEF V
<1>10. C = [k \in i .. L |-> Unclosed(rows[k].chars,
                                IF k = i THEN k > 1 /\ rows[k - 1].unclosed ELSE C[k - 1])]
  <2> HIDE DEF g
  <2> QED
    BY <1>9
<1>11. Updated(rows, i, C, UpdateSyntax(rows, i))
  <2>1. DOMAIN rows = 1 .. Len(rows)
    BY LenProperties
  <2> QED
    BY <2>1 DEF UpdateSyntax, Updated, Reached
<1> HIDE DEF C
<1>12. C[i] = x
  BY <1>1, <1>10 DEF Above
<1>13. \A k \in i + 1 .. L : C[k] = Unclosed(rows[k].chars, C[k - 1])
  BY <1>1, <1>10
<1>14. \A k \in i .. L : C[k] \in BOOLEAN
  <2> DEFINE S == {n \in 0 .. N : C[i + n] \in BOOLEAN}
  <2>1. 0 \in S
    BY <1>1, <1>3, <1>12
  <2>2. ASSUME NEW n \in 1 .. N, n - 1 \in S PROVE n \in S
    <3>1. i + n \in i + 1 .. L /\ i + n \in 1 .. L /\ (i + n) - 1 = i + (n - 1)
      BY <1>1
    <3>2. C[i + n] = Unclosed(rows[i + n].chars, C[(i + n) - 1])
      BY <1>13, <3>1
    <3>3. C[i + (n - 1)] \in BOOLEAN
      BY <2>2
    <3> QED
      BY <1>2, <3>1, <3>2, <3>3
  <2>3. 0 .. N \subseteq S
    <3> HIDE DEF S, N
    <3> QED
      BY <1>1, <2>1, <2>2, InductionTo
  <2> SUFFICES ASSUME NEW k \in i .. L PROVE C[k] \in BOOLEAN
    OBVIOUS
  <2>4. k - i \in 0 .. N /\ i + (k - i) = k
    BY <1>1
  <2>5. C[i + (k - i)] \in BOOLEAN
    BY <2>3, <2>4
  <2> QED
    BY <2>4, <2>5
<1>15. C \in [i .. L -> BOOLEAN]
  BY <1>10, <1>14
<1> QED
  BY <1>11, <1>12, <1>13, <1>15 DEF EndsFrom

\* updateSyntax changes colours only, and none of the rows above.
SameText(u, rows) ==
    /\ u \in Seq(Row) /\ Len(u) = Len(rows)
    /\ \A k \in 1 .. Len(rows) : u[k].chars = rows[k].chars /\ u[k].ended = rows[k].ended

LEMMA UpdateKeeps ==
    ASSUME NEW rows \in Seq(Row), NEW i \in 1 .. Len(rows)
    PROVE  /\ SameText(UpdateSyntax(rows, i), rows)
           /\ \A k \in 1 .. i - 1 : UpdateSyntax(rows, i)[k] = rows[k]
<1> DEFINE u == UpdateSyntax(rows, i)
           L == Len(rows)
<1>1. PICK ends : EndsFrom(rows, i, ends) /\ Updated(rows, i, ends, u)
  BY UpdateIs
<1>2. L \in Nat /\ DOMAIN rows = 1 .. L
  BY LenProperties
<1>3. u = [k \in 1 .. L |-> u[k]]
  BY <1>2 DEF UpdateSyntax
<1> HIDE DEF u
<1>4. ASSUME NEW k \in 1 .. L
      PROVE  u[k] \in Row /\ u[k].chars = rows[k].chars /\ u[k].ended = rows[k].ended
             /\ (k < i => u[k] = rows[k])
  <2>1. rows[k] \in Row
    BY RowIs
  <2>2. CASE Reached(rows, i, ends, k)
    <3>1. k \in i .. L
      BY <1>2, <2>2 DEF Reached
    <3>2. ends[k] \in BOOLEAN
      BY <1>1, <3>1 DEF EndsFrom
    <3>3. u[k] = [rows[k] EXCEPT !.unclosed = ends[k]]
      BY <1>1, <2>2 DEF Updated
    <3>4. u[k] = [chars |-> rows[k].chars, ended |-> rows[k].ended, unclosed |-> ends[k]]
      BY <2>1, <3>3 DEF Row
    <3>5. rows[k].chars \in Seq(Character) /\ rows[k].ended \in BOOLEAN
      BY <2>1 DEF Row
    <3> QED
      BY <1>2, <3>1, <3>2, <3>4, <3>5 DEF Row
  <2>3. CASE ~ Reached(rows, i, ends, k)
    <3>1. u[k] = rows[k]
      BY <1>1, <2>3 DEF Updated
    <3> QED
      BY <2>1, <3>1
  <2> QED
    BY <2>2, <2>3
<1>5. u \in [1 .. L -> Row]
  BY <1>3, <1>4
<1>6. u \in Seq(Row) /\ Len(u) = L
  BY <1>2, <1>5
<1> QED
  BY <1>4, <1>6 DEF SameText, u

\* It leaves row i, and the rows it reaches, as their characters say; and the
\* others, if they were so.
LEMMA UpdateFollows ==
    ASSUME NEW rows \in Seq(Row), NEW i \in 1 .. Len(rows)
    PROVE  /\ Follows(UpdateSyntax(rows, i), i)
           /\ \A k \in 1 .. Len(rows) : k # i /\ Follows(rows, k) => Follows(UpdateSyntax(rows, i), k)
           /\ i < Len(rows) /\ rows[i].unclosed # Unclosed(rows[i].chars, Above(rows, i))
              => Follows(UpdateSyntax(rows, i), i + 1)
<1> DEFINE u == UpdateSyntax(rows, i)
           L == Len(rows)
<1>1. PICK ends : EndsFrom(rows, i, ends) /\ Updated(rows, i, ends, u)
  BY UpdateIs
<1>2. SameText(u, rows) /\ \A k \in 1 .. i - 1 : u[k] = rows[k]
  BY UpdateKeeps
<1>3. L \in Nat /\ i \in Nat \ {0} /\ i <= L
  BY LenProperties
<1> HIDE DEF u
<1>4. \A k \in 1 .. L : u[k].chars = rows[k].chars
  BY <1>2 DEF SameText
<1>5. ASSUME NEW k \in 1 .. L, Reached(rows, i, ends, k) PROVE u[k].unclosed = ends[k]
  <2>1. rows[k] \in Row
    BY RowIs
  <2>2. u[k] = [rows[k] EXCEPT !.unclosed = ends[k]]
    BY <1>1, <1>5 DEF Updated
  <2> QED
    BY <2>1, <2>2 DEF Row
<1>6. ASSUME NEW k \in 1 .. L, ~ Reached(rows, i, ends, k) PROVE u[k] = rows[k]
  BY <1>1, <1>6 DEF Updated
<1>7. Reached(rows, i, ends, i)
  BY <1>3 DEF Reached
<1>8. i > 1 => u[i - 1] = rows[i - 1]
  BY <1>2, <1>3
<1>9. Follows(u, i)
  <2>1. u[i].unclosed = ends[i]
    BY <1>5, <1>7
  <2>2. ends[i] = Unclosed(rows[i].chars, Above(rows, i))
    BY <1>1 DEF EndsFrom
  <2>3. (i > 1 /\ u[i - 1].unclosed) = Above(rows, i)
    BY <1>8 DEF Above
  <2> QED
    BY <1>4, <2>1, <2>2, <2>3 DEF Follows
<1>10. ASSUME NEW k \in i + 1 .. L, Reached(rows, i, ends, k) PROVE Follows(u, k)
  <2>1. k - 1 \in 1 .. L /\ k \in 1 .. L /\ k - 1 >= i /\ k > 1
    BY <1>3
  <2>2. Reached(rows, i, ends, k - 1)
    BY <1>3, <1>10, <2>1 DEF Reached
  <2>3. u[k].unclosed = ends[k] /\ u[k - 1].unclosed = ends[k - 1]
    BY <1>5, <1>10, <2>1, <2>2
  <2>4. ends[k] = Unclosed(rows[k].chars, ends[k - 1])
    BY <1>1 DEF EndsFrom
  <2>5. ends[k - 1] \in BOOLEAN
    BY <1>1, <2>1 DEF EndsFrom
  <2>6. (k > 1 /\ u[k - 1].unclosed) = ends[k - 1]
    BY <2>1, <2>3, <2>5
  <2> QED
    BY <1>4, <2>1, <2>3, <2>4, <2>6 DEF Follows
<1>11. ASSUME NEW k \in 1 .. L, k # i, Follows(rows, k) PROVE Follows(u, k)
  <2>1. CASE k < i
    <3>1. u[k] = rows[k] /\ (k > 1 => u[k - 1] = rows[k - 1])
      BY <1>2, <1>3, <2>1
    <3> QED
      BY <1>11, <3>1 DEF Follows
  <2>2. CASE k > i /\ Reached(rows, i, ends, k)
    BY <1>3, <1>10, <2>2
  <2>3. CASE k > i /\ ~ Reached(rows, i, ends, k)
    <3>1. u[k] = rows[k]
      BY <1>6, <2>3
    <3>2. k - 1 \in 1 .. L /\ k - 1 >= i /\ k > 1
      BY <1>3, <2>3
    <3>3. u[k - 1].unclosed = rows[k - 1].unclosed
      <4>1. CASE Reached(rows, i, ends, k - 1)
        <5>1. rows[k - 1].unclosed = ends[k - 1]
          <6>1. PICK j \in i .. k - 1 : rows[j].unclosed = ends[j]
            BY <2>3 DEF Reached
          <6>2. ~ j \in i .. (k - 1) - 1
            BY <4>1, <6>1 DEF Reached
          <6>3. j = k - 1
            BY <1>3, <3>2, <6>2
          <6> QED
            BY <6>1, <6>3
        <5> QED
          BY <1>5, <3>2, <4>1, <5>1
      <4>2. CASE ~ Reached(rows, i, ends, k - 1)
        BY <1>6, <3>2, <4>2
      <4> QED
        BY <4>1, <4>2
    <3> QED
      BY <1>11, <3>1, <3>3 DEF Follows
  <2> QED
    BY <1>3, <1>11, <2>1, <2>2, <2>3
<1>12. ASSUME i < L, rows[i].unclosed # Unclosed(rows[i].chars, Above(rows, i))
       PROVE  Follows(u, i + 1)
  <2>1. rows[i].unclosed # ends[i]
    BY <1>1, <1>12 DEF EndsFrom
  <2>2. Reached(rows, i, ends, i + 1)
    BY <1>3, <2>1 DEF Reached
  <2>3. i + 1 \in i + 1 .. L
    BY <1>3, <1>12
  <2> QED
    BY <1>10, <2>2, <2>3
<1> QED
  BY <1>9, <1>11, <1>12 DEF u
-----------------------------------------------------------------------------
(* Sequences: parts, and elements put in and taken out.                    *)

LEMMA PartIs ==
    ASSUME NEW S, NEW s \in Seq(S), NEW m \in 1 .. Len(s) + 1, NEW n \in 0 .. Len(s)
    PROVE  /\ SubSeq(s, m, n) \in Seq(S)
           /\ Len(SubSeq(s, m, n)) = IF m <= n THEN n - m + 1 ELSE 0
           /\ \A k \in 1 .. n - m + 1 : SubSeq(s, m, n)[k] = s[m + k - 1]
<1>1. Len(s) \in Nat /\ m \in Int /\ n \in Int
  BY LenProperties
<1>2. \A k \in m .. n : s[k] \in S
  BY <1>1, ElementOfSeq
<1> QED
  BY <1>1, <1>2, SubSeqProperties

LEMMA InsertAtIs ==
    ASSUME NEW S, NEW s \in Seq(S), NEW i \in 1 .. Len(s) + 1, NEW e \in S
    PROVE  /\ InsertAt(s, i, e) \in Seq(S) /\ Len(InsertAt(s, i, e)) = Len(s) + 1
           /\ \A k \in 1 .. Len(s) + 1 :
                 InsertAt(s, i, e)[k] = IF k < i THEN s[k] ELSE IF k = i THEN e ELSE s[k - 1]
<1> DEFINE p == SubSeq(s, 1, i - 1)
           q == SubSeq(s, i, Len(s))
           L == Len(s)
<1>1. L \in Nat /\ i - 1 \in 0 .. L /\ 1 \in 1 .. L + 1 /\ L \in 0 .. L
  BY LenProperties
<1>2. /\ p \in Seq(S) /\ Len(p) = i - 1
      /\ \A k \in 1 .. i - 1 : p[k] = s[k]
  BY <1>1, PartIs
<1>3. /\ q \in Seq(S) /\ Len(q) = L + 1 - i
      /\ \A k \in 1 .. L + 1 - i : q[k] = s[i + k - 1]
  BY <1>1, PartIs
<1>4. <<e>> \in Seq(S) /\ Len(<<e>>) = 1 /\ <<e>>[1] = e
  OBVIOUS
<1> HIDE DEF p, q
<1>5. /\ p \o <<e>> \in Seq(S) /\ Len(p \o <<e>>) = i
      /\ \A k \in 1 .. i : (p \o <<e>>)[k] = IF k <= i - 1 THEN p[k] ELSE <<e>>[k - (i - 1)]
  BY <1>1, <1>2, <1>4, ConcatProperties
<1> DEFINE r == (p \o <<e>>) \o q
<1>6. /\ r \in Seq(S) /\ Len(r) = L + 1
      /\ \A k \in 1 .. L + 1 : r[k] = IF k <= i THEN (p \o <<e>>)[k] ELSE q[k - i]
  <2> DEFINE t == p \o <<e>>
  <2>1. t \in Seq(S) /\ q \in Seq(S) /\ Len(t) = i /\ Len(q) = L + 1 - i
    BY <1>3, <1>5
  <2>2. i + (L + 1 - i) = L + 1
    BY <1>1
  <2> HIDE DEF t
  <2>3. /\ t \o q \in Seq(S) /\ Len(t \o q) = Len(t) + Len(q)
        /\ \A k \in 1 .. Len(t) + Len(q) : (t \o q)[k] = IF k <= Len(t) THEN t[k] ELSE q[k - Len(t)]
    BY <2>1, ConcatProperties
  <2> HIDE DEF L
  <2>4. /\ t \o q \in Seq(S) /\ Len(t \o q) = L + 1
        /\ \A k \in 1 .. L + 1 : (t \o q)[k] = IF k <= i THEN t[k] ELSE q[k - i]
    BY <2>1, <2>2, <2>3
  <2> QED
    BY <2>4 DEF t
<1>7. r = InsertAt(s, i, e)
  BY DEF InsertAt, p, q
<1> HIDE DEF r
<1>8. ASSUME NEW k \in 1 .. L + 1
      PROVE  r[k] = IF k < i THEN s[k] ELSE IF k = i THEN e ELSE s[k - 1]
  <2>1. CASE k < i
    <3>1. k \in 1 .. i - 1 /\ k \in 1 .. i
      BY <1>1, <2>1
    <3> QED
      BY <1>1, <1>2, <1>5, <1>6, <2>1, <3>1
  <2>2. CASE k = i
    <3>1. k \in 1 .. i /\ ~ k <= i - 1 /\ k - (i - 1) = 1
      BY <1>1, <2>2
    <3> QED
      BY <1>1, <1>4, <1>5, <1>6, <2>2, <3>1
  <2>3. CASE k > i
    <3>1. k - i \in 1 .. L + 1 - i /\ i + (k - i) - 1 = k - 1 /\ ~ k <= i
      BY <1>1, <2>3
    <3>2. r[k] = q[k - i]
      BY <1>6, <3>1
    <3>3. q[k - i] = s[i + (k - i) - 1]
      BY <1>3, <3>1
    <3> QED
      BY <1>1, <2>3, <3>1, <3>2, <3>3
  <2> QED
    BY <1>1, <2>1, <2>2, <2>3
<1> QED
  BY <1>6, <1>7, <1>8

LEMMA RemoveAtIs ==
    ASSUME NEW S, NEW s \in Seq(S), NEW i \in 1 .. Len(s)
    PROVE  /\ RemoveAt(s, i) \in Seq(S) /\ Len(RemoveAt(s, i)) = Len(s) - 1
           /\ \A k \in 1 .. Len(s) - 1 : RemoveAt(s, i)[k] = IF k < i THEN s[k] ELSE s[k + 1]
<1> DEFINE p == SubSeq(s, 1, i - 1)
           q == SubSeq(s, i + 1, Len(s))
           L == Len(s)
<1>1. L \in Nat /\ i - 1 \in 0 .. L /\ 1 \in 1 .. L + 1 /\ L \in 0 .. L /\ i + 1 \in 1 .. L + 1
  BY LenProperties
<1>2. /\ p \in Seq(S) /\ Len(p) = i - 1
      /\ \A k \in 1 .. i - 1 : p[k] = s[k]
  BY <1>1, PartIs
<1>3. /\ q \in Seq(S) /\ Len(q) = L - i
      /\ \A k \in 1 .. L - i : q[k] = s[i + 1 + k - 1]
  BY <1>1, PartIs
<1>4. RemoveAt(s, i) = p \o q
  BY DEF RemoveAt
<1> HIDE DEF p, q
<1> DEFINE r == p \o q
<1>5. /\ r \in Seq(S) /\ Len(r) = L - 1
      /\ \A k \in 1 .. L - 1 : r[k] = IF k <= i - 1 THEN p[k] ELSE q[k - (i - 1)]
  <2>1. p \in Seq(S) /\ q \in Seq(S) /\ Len(p) = i - 1 /\ Len(q) = L - i
    BY <1>2, <1>3
  <2>2. (i - 1) + (L - i) = L - 1
    BY <1>1
  <2>3. /\ r \in Seq(S) /\ Len(r) = Len(p) + Len(q)
        /\ \A k \in 1 .. Len(p) + Len(q) : r[k] = IF k <= Len(p) THEN p[k] ELSE q[k - Len(p)]
    BY <2>1, ConcatProperties
  <2> HIDE DEF L, r
  <2> QED
    BY <2>1, <2>2, <2>3
<1> HIDE DEF r
<1>6. ASSUME NEW k \in 1 .. L - 1 PROVE r[k] = IF k < i THEN s[k] ELSE s[k + 1]
  <2>1. CASE k < i
    <3>1. k \in 1 .. i - 1
      BY <1>1, <2>1
    <3> QED
      BY <1>1, <1>2, <1>5, <2>1, <3>1
  <2>2. CASE k >= i
    <3>1. k - (i - 1) \in 1 .. L - i /\ i + 1 + (k - (i - 1)) - 1 = k + 1 /\ ~ k <= i - 1
      BY <1>1, <2>2
    <3>2. r[k] = q[k - (i - 1)]
      BY <1>5, <3>1
    <3>3. q[k - (i - 1)] = s[i + 1 + (k - (i - 1)) - 1]
      BY <1>3, <3>1
    <3> QED
      BY <1>1, <2>2, <3>1, <3>2, <3>3
  <2> QED
    BY <1>1, <2>1, <2>2
<1> QED
  BY <1>4, <1>5, <1>6 DEF r

LEMMA InsertedIs ==
    ASSUME NEW chars \in Seq(Character), NEW at \in 0 .. Len(chars), NEW c \in Character
    PROVE  /\ Inserted(chars, at, <<c>>) \in Seq(Character)
           /\ Len(Inserted(chars, at, <<c>>)) = Len(chars) + 1
           /\ \A k \in 1 .. at : Inserted(chars, at, <<c>>)[k] = chars[k]
<1>1. Len(chars) \in Nat /\ at + 1 \in 1 .. Len(chars) + 1 /\ (at + 1) - 1 = at
  BY LenProperties
<1> DEFINE i == at + 1
           r == Inserted(chars, at, <<c>>)
<1>2. r = InsertAt(chars, i, c)
  BY <1>1 DEF Inserted, InsertAt
<1>3. i \in 1 .. Len(chars) + 1
  BY <1>1
<1> HIDE DEF i, r
<1>4. /\ r \in Seq(Character) /\ Len(r) = Len(chars) + 1
      /\ \A k \in 1 .. Len(chars) + 1 :
            r[k] = IF k < i THEN chars[k] ELSE IF k = i THEN c ELSE chars[k - 1]
  BY <1>2, <1>3, InsertAtIs
<1>5. \A k \in 1 .. at : r[k] = chars[k]
  BY <1>1, <1>4 DEF i
<1> QED
  BY <1>4, <1>5 DEF r

-----------------------------------------------------------------------------
(* Rows that are put in, taken out and rendered again.                     *)

LEMMA SetIs ==
    ASSUME NEW rows \in Seq(Row), NEW i \in 1 .. Len(rows), NEW row \in Row
    PROVE  /\ [rows EXCEPT ![i] = row] \in Seq(Row)
           /\ Len([rows EXCEPT ![i] = row]) = Len(rows)
           /\ \A k \in 1 .. Len(rows) : [rows EXCEPT ![i] = row][k] = IF k = i THEN row ELSE rows[k]
BY ExceptSeq

LEMMA WithRowIs ==
    ASSUME NEW rows \in Seq(Row), NEW i \in 1 .. Len(rows), NEW row \in Row,
           row.unclosed = rows[i].unclosed
    PROVE  /\ WithRow(rows, i, row) \in Seq(Row) /\ Len(WithRow(rows, i, row)) = Len(rows)
           /\ \A k \in 1 .. Len(rows) :
                 /\ WithRow(rows, i, row)[k].chars = IF k = i THEN row.chars ELSE rows[k].chars
                 /\ WithRow(rows, i, row)[k].ended = IF k = i THEN row.ended ELSE rows[k].ended
           /\ Follows(WithRow(rows, i, row), i)
           /\ \A k \in 1 .. Len(rows) :
                 k # i /\ Follows(rows, k) => Follows(WithRow(rows, i, row), k)
<1> DEFINE s == [rows EXCEPT ![i] = row]
           w == UpdateSyntax(s, i)
           L == Len(rows)
<1>1. w = WithRow(rows, i, row)
  BY DEF WithRow
<1>2. /\ s \in Seq(Row) /\ Len(s) = L
      /\ \A k \in 1 .. L : s[k] = IF k = i THEN row ELSE rows[k]
  BY SetIs
<1> HIDE DEF s
<1>3. i \in 1 .. Len(s)
  BY <1>2
<1>4. SameText(w, s)
  BY <1>2, <1>3, UpdateKeeps
<1>5. /\ Follows(w, i)
      /\ \A k \in 1 .. Len(s) : k # i /\ Follows(s, k) => Follows(w, k)
  BY <1>2, <1>3, UpdateFollows
<1> HIDE DEF w
<1>6. L \in Nat
  BY LenProperties
<1>7. ASSUME NEW k \in 1 .. L, k # i, Follows(rows, k) PROVE Follows(w, k)
  <2>1. s[k] = rows[k]
    BY <1>2, <1>7
  <2>2. k > 1 => s[k - 1].unclosed = rows[k - 1].unclosed
    BY <1>2, <1>6
  <2>3. (k > 1 /\ s[k - 1].unclosed) = (k > 1 /\ rows[k - 1].unclosed)
    BY <2>2
  <2>4. Follows(s, k)
    BY <1>7, <2>1, <2>3 DEF Follows
  <2> QED
    BY <1>2, <1>5, <1>7, <2>4
<1>8. \A k \in 1 .. L : /\ w[k].chars = IF k = i THEN row.chars ELSE rows[k].chars
                        /\ w[k].ended = IF k = i THEN row.ended ELSE rows[k].ended
  BY <1>2, <1>4 DEF SameText
<1>9. w \in Seq(Row) /\ Len(w) = L
  BY <1>2, <1>4 DEF SameText
<1> QED
  BY <1>1, <1>5, <1>7, <1>8, <1>9

\* A comment above the new row i is not seen to end in it.
LetsFollow(rows, i, row) == rows[i - 1].unclosed => Unclosed(row.chars, TRUE)

Inserts(w, rows, i, row) ==
    /\ w \in Seq(Row) /\ Len(w) = Len(rows) + 1
    /\ w[i].chars = row.chars /\ w[i].ended = row.ended
    /\ \A k \in 1 .. i - 1 : w[k] = rows[k]
    /\ \A k \in 1 .. i - 1 : Follows(rows, k) => Follows(w, k)
    /\ Follows(w, i)
    /\ LetsFollow(rows, i, row) =>
          \A k \in i .. Len(rows) : Follows(rows, k) => Follows(w, k + 1)

LEMMA WithNewRowIs ==
    ASSUME NEW rows \in Seq(Row), NEW i \in 2 .. Len(rows) + 1, NEW row \in Row,
           ~ row.unclosed
    PROVE  Inserts(WithNewRow(rows, i, row), rows, i, row)
<1> DEFINE s == InsertAt(rows, i, row)
           w == UpdateSyntax(s, i)
           L == Len(rows)
<1>1. w = WithNewRow(rows, i, row)
  BY DEF WithNewRow
<1>2. L \in Nat /\ i \in 1 .. L + 1
  BY LenProperties
<1>3. /\ s \in Seq(Row) /\ Len(s) = L + 1
      /\ \A k \in 1 .. L + 1 : s[k] = IF k < i THEN rows[k] ELSE IF k = i THEN row ELSE rows[k - 1]
  <2> DEFINE S == Row
  <2>1. rows \in Seq(S) /\ row \in S
    OBVIOUS
  <2> HIDE DEF S
  <2>2. /\ InsertAt(rows, i, row) \in Seq(S) /\ Len(InsertAt(rows, i, row)) = Len(rows) + 1
        /\ \A k \in 1 .. Len(rows) + 1 :
              InsertAt(rows, i, row)[k] =
                  IF k < i THEN rows[k] ELSE IF k = i THEN row ELSE rows[k - 1]
    BY <1>2, <2>1, InsertAtIs
  <2> QED
    BY <2>2 DEF S
<1> HIDE DEF s
<1>4. i \in 1 .. Len(s)
  BY <1>2, <1>3
<1>5. SameText(w, s) /\ \A k \in 1 .. i - 1 : w[k] = s[k]
  BY <1>3, <1>4, UpdateKeeps
<1>6. /\ Follows(w, i)
      /\ \A k \in 1 .. Len(s) : k # i /\ Follows(s, k) => Follows(w, k)
      /\ i < Len(s) /\ s[i].unclosed # Unclosed(s[i].chars, Above(s, i)) => Follows(w, i + 1)
  BY <1>3, <1>4, UpdateFollows
<1> HIDE DEF w
<1>7. \A k \in 1 .. i - 1 : s[k] = rows[k] /\ w[k] = rows[k]
  BY <1>2, <1>3, <1>5
<1>8. ASSUME NEW k \in 1 .. i - 1, Follows(rows, k) PROVE Follows(w, k)
  <2>1. w[k] = rows[k] /\ (k > 1 => w[k - 1] = rows[k - 1])
    BY <1>2, <1>7
  <2> QED
    BY <1>8, <2>1 DEF Follows
<1>9. s[i] = row /\ \A k \in i .. L : s[k + 1] = rows[k]
  BY <1>2, <1>3
<1>10. ASSUME LetsFollow(rows, i, row), NEW k \in i .. L, Follows(rows, k)
       PROVE  Follows(w, k + 1)
  <2>1. k + 1 \in 1 .. Len(s) /\ k + 1 # i /\ k > 1 /\ k \in 1 .. L
    BY <1>2, <1>3
  <2>2. CASE k > i
    <3>1. s[k] = rows[k - 1] /\ s[k + 1] = rows[k] /\ (k + 1) - 1 = k
      BY <1>2, <1>3, <2>1, <2>2
    <3>2. (k + 1 > 1 /\ s[(k + 1) - 1].unclosed) = (k > 1 /\ rows[k - 1].unclosed)
      BY <2>1, <3>1
    <3>3. Follows(s, k + 1)
      BY <1>10, <3>1, <3>2 DEF Follows
    <3> QED
      BY <1>6, <2>1, <3>3
  <2>3. CASE k = i /\ ~ rows[i - 1].unclosed
    <3>1. s[k] = row /\ s[k + 1] = rows[k] /\ (k + 1) - 1 = k
      BY <1>2, <1>9, <2>3
    <3>2. (k + 1 > 1 /\ s[(k + 1) - 1].unclosed) = (k > 1 /\ rows[k - 1].unclosed)
      BY <2>3, <3>1
    <3>3. Follows(s, k + 1)
      BY <1>10, <3>1, <3>2 DEF Follows
    <3> QED
      BY <1>6, <2>1, <3>3
  <2>4. CASE k = i /\ rows[i - 1].unclosed
    <3>1. i - 1 \in 1 .. L /\ i > 1 /\ s[i - 1] = rows[i - 1]
      BY <1>2, <1>7
    <3>2. rows[i - 1].unclosed = TRUE
      BY <2>4, <3>1, RowIs
    <3>3. Above(s, i) = TRUE
      BY <3>1, <3>2 DEF Above
    <3>4. row.chars \in Seq(Character)
      BY DEF Row
    <3>5. Unclosed(row.chars, TRUE) \in BOOLEAN
      BY <3>4, UnclosedIs
    <3>6. s[i].unclosed # Unclosed(s[i].chars, Above(s, i))
      BY <1>9, <1>10, <2>4, <3>3, <3>5 DEF LetsFollow
    <3> QED
      BY <1>2, <1>3, <1>6, <2>4, <3>6
  <2> QED
    BY <2>1, <2>2, <2>3, <2>4
<1>11. w \in Seq(Row) /\ Len(w) = L + 1 /\ w[i].chars = row.chars /\ w[i].ended = row.ended
  BY <1>2, <1>3, <1>5, <1>9 DEF SameText
<1>12. LetsFollow(rows, i, row) =>
          \A k \in i .. L : Follows(rows, k) => Follows(w, k + 1)
  BY <1>10
<1>13. Inserts(w, rows, i, row)
  BY <1>6, <1>7, <1>8, <1>11, <1>12 DEF Inserts
<1> QED
  BY <1>1, <1>13

LEMMA WithoutLineIs ==
    ASSUME NEW rows \in Seq(Row), Len(rows) > 1, NEW i \in 1 .. Len(rows)
    PROVE  /\ WithoutLine(rows, i) \in Seq(Row) /\ Len(WithoutLine(rows, i)) = Len(rows) - 1
           /\ AllFollow(rows) => AllFollow(WithoutLine(rows, i))
<1> DEFINE L == Len(rows)
           w == WithoutLine(rows, i)
<1>1. L \in Nat
  BY LenProperties
<1>2. CASE i = L
  <2>1. w = SubSeq(rows, 1, L - 1)
    BY <1>2 DEF WithoutLine, Front
  <2>2. L - 1 \in 0 .. L /\ 1 \in 1 .. L + 1 /\ 1 <= L - 1
    BY <1>1
  <2>3. /\ w \in Seq(Row) /\ Len(w) = L - 1
        /\ \A k \in 1 .. L - 1 : w[k] = rows[k]
    BY <1>1, <2>1, <2>2, PartIs
  <2> HIDE DEF w
  <2>4. ASSUME NEW k \in 1 .. L - 1, Follows(rows, k) PROVE Follows(w, k)
    <3>1. w[k] = rows[k] /\ (k > 1 => w[k - 1] = rows[k - 1])
      BY <1>1, <2>3
    <3> QED
      BY <2>4, <3>1 DEF Follows
  <2> QED
    BY <1>1, <2>3, <2>4 DEF AllFollow, w
<1>3. CASE i # L
  <2> DEFINE s == RemoveAt(rows, i)
             u == UpdateSyntax(s, i)
  <2>1. w = u
    BY <1>3 DEF WithoutLine
  <2>2. /\ s \in Seq(Row) /\ Len(s) = L - 1
        /\ \A k \in 1 .. L - 1 : s[k] = IF k < i THEN rows[k] ELSE rows[k + 1]
    BY RemoveAtIs
  <2> HIDE DEF s, w
  <2>3. i \in 1 .. Len(s)
    BY <1>1, <1>3, <2>2
  <2>4. SameText(u, s)
    BY <2>2, <2>3, UpdateKeeps
  <2>5. /\ Follows(u, i)
        /\ \A k \in 1 .. Len(s) : k # i /\ Follows(s, k) => Follows(u, k)
    BY <2>2, <2>3, UpdateFollows
  <2> HIDE DEF u
  <2>6. ASSUME AllFollow(rows), NEW k \in 1 .. L - 1, k # i PROVE Follows(u, k)
    <3>1. CASE k < i
      <4>1. s[k] = rows[k] /\ (k > 1 => s[k - 1] = rows[k - 1]) /\ k \in 1 .. L
        BY <1>1, <2>2, <3>1
      <4>2. Follows(s, k)
        BY <2>6, <4>1 DEF Follows, AllFollow
      <4> QED
        BY <2>2, <2>5, <2>6, <4>2
    <3>2. CASE k > i
      <4>1. s[k] = rows[k + 1] /\ s[k - 1] = rows[k] /\ k + 1 \in 1 .. L /\ (k + 1) - 1 = k /\ k > 1
        BY <1>1, <2>2, <3>2
      <4>2. Follows(rows, k + 1)
        BY <2>6, <4>1 DEF AllFollow
      <4>3. (k > 1 /\ s[k - 1].unclosed) = (k + 1 > 1 /\ rows[(k + 1) - 1].unclosed)
        BY <4>1
      <4>4. Follows(s, k)
        BY <4>1, <4>2, <4>3 DEF Follows
      <4> QED
        BY <2>2, <2>5, <2>6, <4>4
    <3> QED
      BY <1>1, <2>6, <3>1, <3>2
  <2>7. AllFollow(rows) => AllFollow(u)
    BY <2>2, <2>4, <2>5, <2>6 DEF AllFollow, SameText
  <2> QED
    BY <2>1, <2>2, <2>4, <2>7 DEF SameText, w
<1> QED
  BY <1>2, <1>3
-----------------------------------------------------------------------------
(* Moving the cursor and the view.                                         *)

\* The text that q would lose, and the place where a search stops.
Kept(e, d) ==
    d.saved /\ ~ d.split => e.saved /\ ~ e.split /\ Text(d.rows) = Text(e.rows)
Finding(e, d) ==
    /\ d.search.found /\ ~ d.search.prev
    /\ d.search.y = d.cury /\ d.search.x = d.curx + 1
    /\ <<d.search.y, d.search.x>> # <<e.search.y, e.search.x>>
    => Pattern(d) = SubSeq(CurrentRow(d), d.curx + 1, d.curx + Len(Pattern(d)))
Handled(e, d) == Sound(d) /\ (d.undefined = "" => Kept(e, d)) /\ Finding(e, d)

\* But for the cursor and the view, d is e.
Moved(e, d) ==
    /\ d \in EditorType
    /\ d.rows = e.rows /\ d.search = e.search /\ d.mode = e.mode /\ d.vcury = e.vcury
    /\ d.saved = e.saved /\ d.split = e.split /\ d.miscoloured = e.miscoloured
    /\ d.undefined = e.undefined

LEMMA MovedHandled ==
    ASSUME NEW e, NEW d, Well(e), Moved(e, d), InText(d), OnScreen(d)
    PROVE  Handled(e, d)
<1>1. Kept(e, d) /\ Finding(e, d)
  BY DEF Moved, Kept, Finding
<1>2. Sound(d)
  BY DEF Moved, Sound, Marked, Well
<1> QED
  BY <1>1, <1>2 DEF Handled

LEMMA UndefinedHandled ==
    ASSUME NEW e, Sound(e), NEW where \in Handler \ {""}
    PROVE  Handled(e, Undefined(e, where))
<1> DEFINE d == Undefined(e, where)
<1>1. /\ d.rows = e.rows /\ d.search = e.search /\ d.undefined = where
      /\ d \in EditorType
  BY DEF Sound, EditorType, Undefined
<1> HIDE DEF d
<1>2. Sound(d)
  BY <1>1 DEF Sound
<1>3. Finding(e, d)
  BY <1>1 DEF Finding
<1> QED
  BY <1>1, <1>2, <1>3 DEF Handled, d

\* The fields of an editor and of its row.
LEMMA FieldsOf ==
    ASSUME NEW e \in EditorType
    PROVE  /\ e.rows \in Seq(Row) /\ Len(e.rows) \in Nat
           /\ e.curx \in Nat /\ e.rcurx \in Nat /\ e.rscurx \in Nat /\ e.cury \in Nat
           /\ e.rowoff \in Nat /\ e.coloff \in Int /\ e.vcurx \in Nat /\ e.vcury \in Nat
           /\ \A y \in 0 .. Len(e.rows) - 1 :
                 /\ Chars(e, y) \in Seq(Character) /\ Len(Chars(e, y)) \in Nat
                 /\ Rlen(Chars(e, y)) \in Nat
                 /\ \A k \in 0 .. Len(Chars(e, y)) : CurxToRCurx(Chars(e, y), k) \in Nat
<1>1. e.rows \in Seq(Row) /\ Len(e.rows) \in Nat
  BY LenProperties DEF EditorType
<1>2. ASSUME NEW y \in 0 .. Len(e.rows) - 1 PROVE Chars(e, y) \in Seq(Character)
  <2>1. y + 1 \in 1 .. Len(e.rows)
    BY <1>1
  <2> QED
    BY <1>1, <2>1, RowIs DEF Chars
<1>3. ASSUME NEW y \in 0 .. Len(e.rows) - 1
      PROVE  /\ Len(Chars(e, y)) \in Nat /\ Rlen(Chars(e, y)) \in Nat
             /\ \A k \in 0 .. Len(Chars(e, y)) : CurxToRCurx(Chars(e, y), k) \in Nat
  BY <1>2, ColumnOf, LenProperties
<1> QED
  BY <1>1, <1>2, <1>3 DEF EditorType

LEMMA Screen ==
    /\ MaxRows \in Nat /\ MaxCols \in Nat /\ SCROLL_MARGIN_S \in Nat
    /\ SCROLL_MARGIN_TB \in Nat \ {0} /\ SEARCH_MARGIN_S \in Nat /\ SEARCH_MARGIN_TB \in Nat
    /\ 2 * SCROLL_MARGIN_TB + 1 < MaxRows /\ SEARCH_MARGIN_TB + 1 < MaxRows
BY ScreenAssumption

LEMMA HalfRightIs ==
    /\ MaxCols \div 2 \in Int
    /\ \A r \in Nat, c \in Int : HalfRight(r, c) \in Int
BY ScreenAssumption DEF HalfRight

\* The view moves by a line with the cursor, if that is in its margin.
LEMMA ScrollUpIs ==
    ASSUME NEW y \in Nat, NEW o \in Nat, y - o \in 0 .. MaxRows - 1
    PROVE  /\ ScrollUp(o) \in Nat
           /\ y - o <= SCROLL_MARGIN_TB => y - ScrollUp(o) \in 0 .. MaxRows - 1
           /\ y > 0 /\ y - o <= SCROLL_MARGIN_TB => y - 1 - ScrollUp(o) \in 0 .. MaxRows - 1
           /\ ~ y - o <= SCROLL_MARGIN_TB => y > 0 /\ y - 1 - o \in 0 .. MaxRows - 1
<1>1. SCROLL_MARGIN_TB + 1 < MaxRows /\ SCROLL_MARGIN_TB \in Nat \ {0} /\ MaxRows \in Nat
  BY Screen
<1>2. CASE o = 0
  BY <1>1, <1>2 DEF ScrollUp
<1>3. CASE o # 0
  <2>1. ScrollUp(o) = o - 1 /\ o - 1 \in Nat
    BY <1>3 DEF ScrollUp
  <2> QED
    BY <1>1, <2>1
<1> QED
  BY <1>2, <1>3

LEMMA ScrollDownIs ==
    ASSUME NEW y \in Nat, NEW o \in Nat, y - o \in 0 .. MaxRows - 1, NEW L \in Nat, y + 1 < L
    PROVE  /\ y - o >= MaxRows - SCROLL_MARGIN_TB - 1 =>
                LET p == IF o + MaxRows = L THEN o ELSE o + 1
                IN  p \in Nat /\ y + 1 - p \in 0 .. MaxRows - 1
           /\ ~ y - o >= MaxRows - SCROLL_MARGIN_TB - 1 => y + 1 - o \in 0 .. MaxRows - 1
<1>1. SCROLL_MARGIN_TB + 1 < MaxRows /\ SCROLL_MARGIN_TB \in Nat \ {0} /\ MaxRows \in Nat
  BY Screen
<1> QED
  BY <1>1

\* The cursor put on a character of its row, and what snapCursor finds.
LEMMA AtIs ==
    ASSUME NEW e \in EditorType, e.cury < Len(e.rows), NEW curx \in 0 .. Len(CurrentRow(e))
    PROVE  /\ At(e, curx) \in EditorType /\ InText(At(e, curx))
           /\ At(e, curx).rows = e.rows /\ At(e, curx).search = e.search
           /\ At(e, curx).mode = e.mode /\ At(e, curx).vcury = e.vcury
           /\ At(e, curx).saved = e.saved /\ At(e, curx).split = e.split
           /\ At(e, curx).miscoloured = e.miscoloured /\ At(e, curx).undefined = e.undefined
           /\ At(e, curx).cury = e.cury /\ At(e, curx).curx = curx
           /\ At(e, curx).rowoff = e.rowoff /\ At(e, curx).coloff = e.coloff
<1> DEFINE d == At(e, curx)
           r == CurxToRCurx(CurrentRow(e), curx)
<1>1. e.cury \in 0 .. Len(e.rows) - 1
  BY FieldsOf
<1>2. curx \in Nat /\ r \in Nat
  BY <1>1, FieldsOf DEF CurrentRow
<1>3. d = [e EXCEPT !.curx = curx, !.rcurx = r]
  BY DEF At
<1> HIDE DEF d, r
<1>4. /\ d \in EditorType /\ d.curx = curx /\ d.rcurx = r
      /\ d.rows = e.rows /\ d.search = e.search /\ d.mode = e.mode /\ d.vcury = e.vcury
      /\ d.saved = e.saved /\ d.split = e.split
      /\ d.miscoloured = e.miscoloured /\ d.undefined = e.undefined
      /\ d.cury = e.cury /\ d.rowoff = e.rowoff /\ d.coloff = e.coloff
  BY <1>2, <1>3 DEF EditorType
<1>5. CurrentRow(d) = CurrentRow(e)
  BY <1>4 DEF CurrentRow, Chars
<1>6. InText(d)
  BY <1>1, <1>4, <1>5 DEF InText, r
<1> QED
  BY <1>4, <1>6 DEF d
Goes(e, d) == Moved(e, d) /\ InText(d) /\ OnScreen(d)

LEMMA StaysGoes ==
    ASSUME NEW e \in EditorType, InText(e), OnScreen(e)
    PROVE  Goes(e, e)
BY DEF Goes, Moved

LEMMA SoughtGoes ==
    ASSUME NEW e, NEW d, Goes(e, d)
    PROVE  Goes(e, Sought(d)) /\ Sought(d).cury = d.cury
<1>1. d \in EditorType /\ d.rcurx \in Nat
  BY FieldsOf DEF Goes, Moved
<1>2. /\ Moved(e, Sought(d)) /\ Sought(d).rows = d.rows /\ Sought(d).cury = d.cury
      /\ Sought(d).curx = d.curx /\ Sought(d).rcurx = d.rcurx /\ Sought(d).rowoff = d.rowoff
  BY <1>1 DEF Goes, Moved, Sought, EditorType
<1> HIDE DEF Moved
<1>3. CurrentRow(Sought(d)) = CurrentRow(d)
  BY <1>2 DEF CurrentRow, Chars
<1> QED
  BY <1>2, <1>3 DEF Goes, InText, OnScreen

LEMMA ShownGoes ==
    ASSUME NEW e, NEW d, Goes(e, d)
    PROVE  Goes(e, Shown(d))
<1> DEFINE c == Shown(d)
           off == IF d.rcurx < MaxCols - 1 THEN 0
                  ELSE IF d.rcurx + MaxCols > d.coloff \/ d.rcurx < d.coloff
                       THEN d.rcurx - MaxCols + MaxCols \div 2 ELSE d.coloff
<1>1. d \in EditorType /\ d.rcurx \in Nat /\ d.coloff \in Int
  BY FieldsOf DEF Goes, Moved
<1>2. off \in Int
  BY <1>1, Screen, HalfRightIs
<1>3. c = [d EXCEPT !.coloff = off]
  BY <1>1 DEF Shown, EditorType
<1> HIDE DEF c, off
<1>4. /\ Moved(e, c) /\ c.rows = d.rows /\ c.cury = d.cury
      /\ c.curx = d.curx /\ c.rcurx = d.rcurx /\ c.rowoff = d.rowoff
  BY <1>1, <1>2, <1>3 DEF Goes, Moved, EditorType
<1>5. CurrentRow(c) = CurrentRow(d)
  BY <1>4 DEF CurrentRow, Chars
<1>6. Goes(e, c)
  BY <1>4, <1>5 DEF Goes, InText, OnScreen
<1> QED
  BY <1>6 DEF c

\* The cursor at an end of its row, whatever it was before.
LEMMA EndOfLineIs ==
    ASSUME NEW e \in EditorType, e.cury < Len(e.rows), OnScreen(e)
    PROVE  Goes(e, EndOfLine(e)) /\ EndOfLine(e).cury = e.cury
<1> DEFINE d == EndOfLine(e)
           r == Rlen(CurrentRow(e))
           off == HalfRight(r, e.coloff)
<1>1. e.cury \in 0 .. Len(e.rows) - 1
  BY FieldsOf
<1>2. r \in Nat /\ Len(CurrentRow(e)) \in Nat /\ CurrentRow(e) \in Seq(Character)
  BY <1>1, FieldsOf DEF CurrentRow
<1>3. off \in Int
  BY <1>2, FieldsOf, HalfRightIs
<1>4. d = [e EXCEPT !.rcurx = r, !.curx = Len(CurrentRow(e)), !.coloff = off]
  BY DEF EndOfLine, EditorType
<1>5. r = CurxToRCurx(CurrentRow(e), Len(CurrentRow(e)))
  BY <1>2, ColumnOf
<1> HIDE DEF d, r, off
<1>6. /\ Moved(e, d) /\ d.rows = e.rows /\ d.cury = e.cury /\ d.rowoff = e.rowoff
      /\ d.rcurx = r /\ d.curx = Len(CurrentRow(e))
  BY <1>2, <1>3, <1>4 DEF Moved, EditorType
<1>7. CurrentRow(d) = CurrentRow(e)
  BY <1>6 DEF CurrentRow, Chars
<1>8. Goes(e, d) /\ d.cury = e.cury
  BY <1>1, <1>2, <1>5, <1>6, <1>7 DEF Goes, InText, OnScreen
<1> QED
  BY <1>8 DEF d

\* In column 0 the cursor is in every row.
LEMMA ColumnZero ==
    ASSUME NEW d \in EditorType, d.cury < Len(d.rows), d.curx = 0, d.rcurx = 0
    PROVE  InText(d)
<1>1. d.cury \in 0 .. Len(d.rows) - 1
  BY FieldsOf
<1>2. CurrentRow(d) \in Seq(Character) /\ Len(CurrentRow(d)) \in Nat
  BY <1>1, FieldsOf DEF CurrentRow
<1> QED
  BY <1>1, <1>2, ColumnOf DEF InText

LEMMA LineStarts ==
    ASSUME NEW e \in EditorType, NEW d \in {LineStart(e), StartOfLine(e)}
    PROVE  /\ Moved(e, d) /\ d.cury = e.cury /\ d.rowoff = e.rowoff /\ d.rcurx = 0 /\ d.curx = 0
<1>1. 0 \in Int /\ 0 \in Nat
  OBVIOUS
<1> DEFINE c == LineStart(e)
           b == StartOfLine(e)
<1>2. /\ Moved(e, c) /\ c.cury = e.cury /\ c.rowoff = e.rowoff /\ c.rcurx = 0 /\ c.curx = 0
  BY <1>1 DEF Moved, EditorType, LineStart
<1>3. b = [c EXCEPT !.coloff = 0]
  BY DEF StartOfLine
<1> HIDE DEF c, b
<1>4. /\ Moved(e, b) /\ b.cury = e.cury /\ b.rowoff = e.rowoff /\ b.rcurx = 0 /\ b.curx = 0
  BY <1>1, <1>2, <1>3 DEF Moved, EditorType
<1>5. d = c \/ d = b
  BY DEF c, b
<1> QED
  BY <1>2, <1>4, <1>5

LEMMA StartOfLineIs ==
    ASSUME NEW e \in EditorType, e.cury < Len(e.rows), OnScreen(e)
    PROVE  Goes(e, StartOfLine(e))
<1> DEFINE d == StartOfLine(e)
<1>1. /\ Moved(e, d) /\ d.cury = e.cury /\ d.rowoff = e.rowoff /\ d.rcurx = 0 /\ d.curx = 0
  BY LineStarts
<1> HIDE DEF d
<1>2. InText(d)
  BY <1>1, ColumnZero DEF Moved
<1>3. Goes(e, d)
  BY <1>1, <1>2 DEF Goes, OnScreen
<1> QED
  BY <1>3 DEF d

LEMMA SnappedIs ==
    ASSUME NEW e \in EditorType, e.cury < Len(e.rows)
    PROVE  \E k \in 0 .. Len(CurrentRow(e)) : Snapped(e) = At(e, k)
<1> DEFINE row == CurrentRow(e)
           t == Min({Rlen(row), e.rscurx})
           S == {k \in 0 .. Len(row) : CurxToRCurx(row, k) >= t}
<1>1. e.cury \in 0 .. Len(e.rows) - 1
  BY FieldsOf
<1>2. row \in Seq(Character) /\ Len(row) \in Nat /\ Rlen(row) \in Nat /\ e.rscurx \in Nat
  BY <1>1, FieldsOf DEF CurrentRow
<1>3. t \in Nat /\ t <= Rlen(row)
  BY <1>2, OfTwo
<1>4. CurxToRCurx(row, Len(row)) = Rlen(row)
  BY <1>2, ColumnOf
<1> HIDE DEF t, row
<1>5. Len(row) \in S /\ S \in SUBSET Nat
  BY <1>2, <1>3, <1>4
<1>6. Snapped(e) = At(e, Min(S))
  BY DEF Snapped, t, row
<1> HIDE DEF S
<1>7. Min(S) \in S
  BY <1>5, MinIs
<1>8. Min(S) \in 0 .. Len(row)
  BY <1>7 DEF S
<1> QED
  BY <1>6, <1>8 DEF row

\* The cursor goes to another line, where snapCursor puts it.
LEMMA SnappedGoes ==
    ASSUME NEW e, NEW d, Moved(e, d), d.cury < Len(d.rows), OnScreen(d)
    PROVE  Goes(e, Snapped(d))
<1>1. d \in EditorType
  BY DEF Moved
<1>2. PICK k \in 0 .. Len(CurrentRow(d)) : Snapped(d) = At(d, k)
  BY <1>1, SnappedIs
<1> DEFINE c == At(d, k)
<1>3. /\ c \in EditorType /\ InText(c) /\ c.cury = d.cury /\ c.rowoff = d.rowoff
      /\ c.rows = d.rows /\ c.search = d.search /\ c.mode = d.mode /\ c.vcury = d.vcury
      /\ c.saved = d.saved /\ c.split = d.split
      /\ c.miscoloured = d.miscoloured /\ c.undefined = d.undefined
  BY <1>1, AtIs
<1> HIDE DEF c
<1>4. Goes(e, c)
  BY <1>3 DEF Goes, Moved, OnScreen
<1> QED
  BY <1>2, <1>4 DEF c
LEMMA RightArrowGoes ==
    ASSUME NEW e \in EditorType, InText(e), OnScreen(e)
    PROVE  Goes(e, RightArrow(e))
<1> DEFINE row == CurrentRow(e)
<1>1. /\ e.cury \in 0 .. Len(e.rows) - 1 /\ e.curx \in 0 .. Len(row)
      /\ e.rcurx = CurxToRCurx(row, e.curx) /\ e.rcurx \in Nat
      /\ row \in Seq(Character) /\ Len(row) \in Nat /\ Rlen(row) \in Nat
      /\ e.rowoff \in Nat /\ e.coloff \in Int /\ Len(e.rows) \in Nat
  BY FieldsOf DEF InText, CurrentRow
<1>2. CASE e.cury >= Numrows(e) - 1
  BY <1>2, StaysGoes DEF RightArrow
<1>3. CASE ~ e.cury >= Numrows(e) - 1 /\ e.rcurx >= Rlen(row)
  <2> DEFINE off == IF InBottomMargin(e) THEN ScrollDown(e) ELSE e.rowoff
             d == [e EXCEPT !.rowoff = off, !.cury = e.cury + 1, !.rcurx = 0, !.curx = 0, !.coloff = 0]
  <2>1. RightArrow(e) = Sought(d)
    BY <1>3 DEF RightArrow, EditorType
  <2>2. off \in Nat /\ e.cury + 1 - off \in 0 .. MaxRows - 1
    <3>1. e.cury \in Nat /\ e.cury - e.rowoff \in 0 .. MaxRows - 1 /\ e.cury + 1 < Len(e.rows)
      BY <1>1, <1>3 DEF Numrows, OnScreen
    <3> QED
      BY <1>1, <3>1, ScrollDownIs DEF InBottomMargin, ScrollDown, Numrows
  <2>3. e.cury + 1 \in 0 .. Len(e.rows) - 1 /\ e.cury + 1 \in Nat
    BY <1>1, <1>3 DEF Numrows
  <2> HIDE DEF off
  <2>4. /\ Moved(e, d) /\ d.rows = e.rows /\ d.cury = e.cury + 1 /\ d.rowoff = off
        /\ d.rcurx = 0 /\ d.curx = 0
    <3>1. d \in EditorType
      <4>1. 0 \in Int
        OBVIOUS
      <4> QED
        BY <2>2, <2>3, <4>1 DEF EditorType
    <3>2. /\ d.rows = e.rows /\ d.search = e.search /\ d.mode = e.mode /\ d.vcury = e.vcury
          /\ d.saved = e.saved /\ d.split = e.split /\ d.miscoloured = e.miscoloured
          /\ d.undefined = e.undefined
          /\ d.cury = e.cury + 1 /\ d.rowoff = off /\ d.rcurx = 0 /\ d.curx = 0
      BY DEF EditorType
    <3> HIDE DEF d
    <3> QED
      BY <3>1, <3>2 DEF Moved
  <2> HIDE DEF d
  <2>5. CurrentRow(d) \in Seq(Character) /\ Len(CurrentRow(d)) \in Nat
    BY <2>3, <2>4, FieldsOf DEF CurrentRow, Chars
  <2>6. Goes(e, d)
    BY <2>2, <2>3, <2>4, <2>5, ColumnOf DEF Goes, InText, OnScreen
  <2> QED
    BY <2>1, <2>6, SoughtGoes
<1>4. CASE ~ e.cury >= Numrows(e) - 1 /\ ~ e.rcurx >= Rlen(row)
  <2> DEFINE off == IF InRightMargin(e) THEN e.coloff + 1 ELSE e.coloff
             c == [e EXCEPT !.coloff = off]
             d == At(c, e.curx + 1)
  <2>1. RightArrow(e) = Sought(d)
    BY <1>4 DEF RightArrow, EditorType
  <2>2. off \in Int
    BY <1>1
  <2> HIDE DEF off
  <2>3. Moved(e, c) /\ c.cury = e.cury /\ c.rowoff = e.rowoff
    BY <2>2 DEF Moved, EditorType
  <2> HIDE DEF c
  <2>4. CurrentRow(c) = row
    BY <2>3 DEF CurrentRow, Chars, Moved
  <2>5. e.curx # Len(row)
    BY <1>1, <1>4, ColumnOf
  <2>6. e.curx + 1 \in 0 .. Len(CurrentRow(c)) /\ c.cury < Len(c.rows)
    BY <1>1, <2>3, <2>4, <2>5 DEF Moved
  <2> HIDE DEF row
  <2>7. c \in EditorType
    BY <2>3 DEF Moved
  <2>8. /\ d \in EditorType /\ InText(d) /\ d.cury = c.cury /\ d.rowoff = c.rowoff
        /\ d.rows = c.rows /\ d.search = c.search /\ d.mode = c.mode /\ d.vcury = c.vcury
        /\ d.saved = c.saved /\ d.split = c.split
        /\ d.miscoloured = c.miscoloured /\ d.undefined = c.undefined
    BY <2>6, <2>7, AtIs
  <2> HIDE DEF d
  <2>9. Goes(e, d)
    BY <2>3, <2>8 DEF Goes, Moved, OnScreen
  <2> QED
    BY <2>1, <2>9, SoughtGoes
<1> QED
  BY <1>2, <1>3, <1>4

LEMMA LeftArrowGoes ==
    ASSUME NEW e \in EditorType, InText(e), OnScreen(e)
    PROVE  LeftArrow(e) = Undefined(e, "left") \/ Goes(e, LeftArrow(e))
<1> DEFINE row == CurrentRow(e)
<1>1. /\ e.cury \in 0 .. Len(e.rows) - 1 /\ e.curx \in 0 .. Len(row)
      /\ e.rcurx = CurxToRCurx(row, e.curx) /\ e.rcurx \in Nat
      /\ row \in Seq(Character) /\ Len(row) \in Nat
      /\ e.rowoff \in Nat /\ e.coloff \in Int /\ Len(e.rows) \in Nat
  BY FieldsOf DEF InText, CurrentRow
<1>2. CASE e.rcurx = e.coloff /\ e.cury = e.rowoff
  BY <1>2, StaysGoes DEF LeftArrow
<1>3. CASE ~ (e.rcurx = e.coloff /\ e.cury = e.rowoff) /\ e.rcurx = 0 /\ e.coloff = 0
  <2> DEFINE c == IF InTopMargin(e) THEN [e EXCEPT !.rowoff = ScrollUp(e.rowoff)]
                  ELSE [e EXCEPT !.cury = e.cury - 1]
  <2>1. LeftArrow(e) = Sought(EndOfLine(c))
    BY <1>3 DEF LeftArrow, ToLineAbove, EditorType
  <2>2. e.cury > e.rowoff
    BY <1>1, <1>3 DEF OnScreen
  <2>3. Moved(e, c) /\ c.cury < Len(c.rows) /\ OnScreen(c)
    <3>1. CASE InTopMargin(e)
      <4>1. ScrollUp(e.rowoff) \in Nat /\ e.cury - ScrollUp(e.rowoff) \in 0 .. MaxRows - 1
        BY <1>1, <3>1, ScrollUpIs DEF InTopMargin, OnScreen
      <4>2. c = [e EXCEPT !.rowoff = ScrollUp(e.rowoff)]
        BY <3>1
      <4> HIDE DEF c
      <4>3. Moved(e, c) /\ c.cury = e.cury /\ c.rowoff = ScrollUp(e.rowoff)
        BY <4>1, <4>2 DEF Moved, EditorType
      <4> QED
        BY <1>1, <4>1, <4>3 DEF OnScreen, Moved
    <3>2. CASE ~ InTopMargin(e)
      <4>1. e.cury - 1 \in Nat /\ e.cury - 1 - e.rowoff \in 0 .. MaxRows - 1
        <5>1. e.cury \in Nat /\ e.rowoff \in Nat /\ e.cury - e.rowoff \in 0 .. MaxRows - 1
          BY <1>1 DEF OnScreen
        <5>2. e.cury > 0 /\ e.cury - 1 - e.rowoff \in 0 .. MaxRows - 1
          BY <3>2, <5>1, ScrollUpIs DEF InTopMargin
        <5> QED
          BY <5>1, <5>2
      <4>2. c = [e EXCEPT !.cury = e.cury - 1]
        BY <3>2
      <4> HIDE DEF c
      <4>3. Moved(e, c) /\ c.cury = e.cury - 1 /\ c.rowoff = e.rowoff
        BY <4>1, <4>2 DEF Moved, EditorType
      <4> QED
        BY <1>1, <4>1, <4>3 DEF OnScreen, Moved
    <3> QED
      BY <3>1, <3>2
  <2> HIDE DEF c
  <2>4. c \in EditorType
    BY <2>3 DEF Moved
  <2>5. Goes(c, EndOfLine(c))
    BY <2>3, <2>4, EndOfLineIs
  <2>6. Goes(e, EndOfLine(c))
    BY <2>3, <2>5 DEF Goes, Moved
  <2> QED
    BY <2>1, <2>6, SoughtGoes
<1>4. CASE ~ (e.rcurx = e.coloff /\ e.cury = e.rowoff) /\ ~ (e.rcurx = 0 /\ e.coloff = 0) /\ e.curx = 0
  BY <1>4 DEF LeftArrow
<1>5. CASE ~ (e.rcurx = e.coloff /\ e.cury = e.rowoff) /\ ~ (e.rcurx = 0 /\ e.coloff = 0) /\ e.curx # 0
  <2> DEFINE off == IF e.coloff > 0 /\ InLeftMargin(e) THEN e.coloff - 1 ELSE e.coloff
             c == [e EXCEPT !.coloff = off]
             d == At(c, e.curx - 1)
  <2>1. LeftArrow(e) = Sought(d)
    BY <1>5 DEF LeftArrow, EditorType
  <2>2. off \in Int
    BY <1>1
  <2> HIDE DEF off
  <2>3. Moved(e, c) /\ c.cury = e.cury /\ c.rowoff = e.rowoff
    BY <2>2 DEF Moved, EditorType
  <2> HIDE DEF c
  <2>4. CurrentRow(c) = row
    BY <2>3 DEF CurrentRow, Chars, Moved
  <2>5. e.curx - 1 \in 0 .. Len(CurrentRow(c)) /\ c.cury < Len(c.rows)
    BY <1>1, <1>5, <2>3, <2>4 DEF Moved
  <2> HIDE DEF row
  <2>6. c \in EditorType
    BY <2>3 DEF Moved
  <2>7. /\ d \in EditorType /\ InText(d) /\ d.cury = c.cury /\ d.rowoff = c.rowoff
        /\ d.rows = c.rows /\ d.search = c.search /\ d.mode = c.mode /\ d.vcury = c.vcury
        /\ d.saved = c.saved /\ d.split = c.split
        /\ d.miscoloured = c.miscoloured /\ d.undefined = c.undefined
    BY <2>5, <2>6, AtIs
  <2> HIDE DEF d
  <2>8. Goes(e, d)
    BY <2>3, <2>7 DEF Goes, Moved, OnScreen
  <2> QED
    BY <2>1, <2>8, SoughtGoes
<1> QED
  BY <1>2, <1>3, <1>4, <1>5

LEMMA UpArrowGoes ==
    ASSUME NEW e \in EditorType, InText(e), OnScreen(e)
    PROVE  Goes(e, UpArrow(e))
<1>1. /\ e.cury \in 0 .. Len(e.rows) - 1 /\ e.rowoff \in Nat /\ Len(e.rows) \in Nat
  BY FieldsOf DEF InText
<1>2. CASE e.cury = 0
  BY <1>2, StaysGoes DEF UpArrow
<1>3. CASE e.cury # 0
  <2> DEFINE off == IF InTopMargin(e) THEN ScrollUp(e.rowoff) ELSE e.rowoff
             d == [e EXCEPT !.rowoff = off, !.cury = e.cury - 1]
  <2>1. UpArrow(e) = Shown(Snapped(d))
    BY <1>3 DEF UpArrow, EditorType
  <2>2. off \in Nat /\ e.cury - 1 - off \in 0 .. MaxRows - 1
    <3>1. e.cury \in Nat /\ e.cury > 0 /\ e.cury - e.rowoff \in 0 .. MaxRows - 1
      BY <1>1, <1>3 DEF OnScreen
    <3> QED
      BY <1>1, <3>1, ScrollUpIs DEF InTopMargin
  <2>3. e.cury - 1 \in 0 .. Len(e.rows) - 1 /\ e.cury - 1 \in Nat
    BY <1>1, <1>3
  <2> HIDE DEF off
  <2>4. Moved(e, d) /\ d.rows = e.rows /\ d.cury = e.cury - 1 /\ d.rowoff = off
    BY <2>2, <2>3 DEF Moved, EditorType
  <2> HIDE DEF d
  <2>5. d.cury < Len(d.rows) /\ OnScreen(d)
    BY <1>1, <2>2, <2>3, <2>4 DEF OnScreen
  <2>6. Goes(e, Snapped(d))
    BY <2>4, <2>5, SnappedGoes
  <2> QED
    BY <2>1, <2>6, ShownGoes
<1> QED
  BY <1>2, <1>3

LEMMA DownArrowGoes ==
    ASSUME NEW e \in EditorType, InText(e), OnScreen(e)
    PROVE  Goes(e, DownArrow(e))
<1>1. /\ e.cury \in 0 .. Len(e.rows) - 1 /\ e.rowoff \in Nat /\ Len(e.rows) \in Nat
  BY FieldsOf DEF InText
<1>2. CASE e.cury = Numrows(e) - 1
  BY <1>2, StaysGoes DEF DownArrow
<1>3. CASE e.cury # Numrows(e) - 1
  <2> DEFINE off == IF InBottomMargin(e) THEN ScrollDown(e) ELSE e.rowoff
             d == [e EXCEPT !.rowoff = off, !.cury = e.cury + 1]
  <2>1. DownArrow(e) = Shown(Snapped(d))
    BY <1>3 DEF DownArrow, EditorType
  <2>2. off \in Nat /\ e.cury + 1 - off \in 0 .. MaxRows - 1
    <3>1. e.cury \in Nat /\ e.cury - e.rowoff \in 0 .. MaxRows - 1 /\ e.cury + 1 < Len(e.rows)
      BY <1>1, <1>3 DEF Numrows, OnScreen
    <3> QED
      BY <1>1, <3>1, ScrollDownIs DEF InBottomMargin, ScrollDown, Numrows
  <2>3. e.cury + 1 \in 0 .. Len(e.rows) - 1 /\ e.cury + 1 \in Nat
    BY <1>1, <1>3 DEF Numrows
  <2> HIDE DEF off
  <2>4. Moved(e, d) /\ d.rows = e.rows /\ d.cury = e.cury + 1 /\ d.rowoff = off
    BY <2>2, <2>3 DEF Moved, EditorType
  <2> HIDE DEF d
  <2>5. d.cury < Len(d.rows) /\ OnScreen(d)
    BY <1>1, <2>2, <2>3, <2>4 DEF OnScreen
  <2>6. Goes(e, Snapped(d))
    BY <2>4, <2>5, SnappedGoes
  <2> QED
    BY <2>1, <2>6, ShownGoes
<1> QED
  BY <1>2, <1>3
LEMMA JumpsGo ==
    ASSUME NEW e \in EditorType, InText(e), OnScreen(e)
    PROVE  /\ Goes(e, StartOfLine(e)) /\ Goes(e, GotoEndOfLine(e)) /\ Goes(e, GotoStartOfFile(e))
           /\ GotoEndOfFile(e) = Undefined(e, "display") \/ Goes(e, GotoEndOfFile(e))
<1>1. /\ e.cury \in 0 .. Len(e.rows) - 1 /\ e.cury < Len(e.rows) /\ Len(e.rows) \in Nat
      /\ Rlen(CurrentRow(e)) \in Nat
  BY FieldsOf DEF InText, CurrentRow
<1>2. Goes(e, StartOfLine(e))
  BY <1>1, StartOfLineIs
<1>3. Goes(e, GotoEndOfLine(e))
  <2> DEFINE c == EndOfLine(e)
             off == HalfRight(Rlen(CurrentRow(e)), 0)
             d == [c EXCEPT !.coloff = off]
  <2>1. Goes(e, c)
    BY <1>1, EndOfLineIs
  <2>2. off \in Int
    BY <1>1, HalfRightIs
  <2>3. GotoEndOfLine(e) = Sought(d)
    BY DEF GotoEndOfLine
  <2> HIDE DEF c, off
  <2>4. /\ Moved(e, d) /\ d.cury = c.cury /\ d.curx = c.curx /\ d.rcurx = c.rcurx
        /\ d.rowoff = c.rowoff /\ d.rows = c.rows
    BY <2>1, <2>2 DEF Goes, Moved, EditorType
  <2> HIDE DEF d
  <2>5. CurrentRow(d) = CurrentRow(c)
    BY <2>4 DEF CurrentRow, Chars
  <2>6. Goes(e, d)
    BY <2>1, <2>4, <2>5 DEF Goes, InText, OnScreen
  <2> QED
    BY <2>3, <2>6, SoughtGoes
<1> DEFINE s == StartOfLine(e)
<1>4. Moved(e, s) /\ s.rcurx = 0 /\ s.curx = 0
  BY LineStarts
<1> HIDE DEF s
<1>5. Goes(e, GotoStartOfFile(e))
  <2> DEFINE d == [s EXCEPT !.cury = 0, !.rowoff = 0]
  <2>1. 0 \in Nat
    OBVIOUS
  <2>2. Moved(e, d) /\ d.cury = 0 /\ d.rowoff = 0 /\ d.rcurx = 0 /\ d.curx = 0
    BY <1>4, <2>1 DEF Moved, EditorType
  <2>3. GotoStartOfFile(e) = d
    BY DEF GotoStartOfFile, s
  <2> HIDE DEF d
  <2>4. 0 < Len(e.rows) /\ 0 - 0 \in 0 .. MaxRows - 1
    BY <1>1, Screen
  <2>5. InText(d)
    BY <2>2, <2>4, ColumnZero DEF Moved
  <2> QED
    BY <2>2, <2>3, <2>4, <2>5 DEF Goes, OnScreen
<1>6. GotoEndOfFile(e) = Undefined(e, "display") \/ Goes(e, GotoEndOfFile(e))
  <2>1. CASE Numrows(e) < MaxRows
    BY <2>1 DEF GotoEndOfFile
  <2>2. CASE ~ Numrows(e) < MaxRows
    <3> DEFINE y == Len(e.rows) - 1
               o == Len(e.rows) - MaxRows
               d == [s EXCEPT !.cury = y, !.rowoff = o]
    <3>1. y \in Nat /\ o \in Nat /\ y < Len(e.rows) /\ y - o \in 0 .. MaxRows - 1
      BY <1>1, <2>2, Screen DEF Numrows
    <3>2. GotoEndOfFile(e) = d
      BY <2>2 DEF GotoEndOfFile, s, Numrows
    <3> HIDE DEF y, o
    <3>3. Moved(e, d) /\ d.cury = y /\ d.rowoff = o /\ d.rcurx = 0 /\ d.curx = 0
      BY <1>4, <3>1 DEF Moved, EditorType
    <3> HIDE DEF d
    <3>4. d.cury < Len(d.rows)
      BY <3>1, <3>3 DEF Moved, y
    <3>5. InText(d)
      BY <3>3, <3>4, ColumnZero DEF Moved
    <3> QED
      BY <3>1, <3>2, <3>3, <3>5 DEF Goes, OnScreen
  <2> QED
    BY <2>1, <2>2
<1> QED
  BY <1>2, <1>3, <1>5, <1>6

-----------------------------------------------------------------------------
(* Editing.                                                                *)

LEMMA InTextRows ==
    ASSUME NEW d \in EditorType, InText(d)
    PROVE  d.rows # <<>>
<1>1. Len(d.rows) \in Nat /\ d.cury \in Nat /\ d.cury \in 0 .. Len(d.rows) - 1
  BY FieldsOf DEF InText
<1>2. Len(d.rows) > 0
  BY <1>1
<1>3. d.rows = <<>> => Len(d.rows) = 0
  OBVIOUS
<1> QED
  BY <1>2, <1>3

\* A handler that changes the text says so.
LEMMA HandledIs ==
    ASSUME NEW e, Well(e),
           NEW d \in EditorType, d.search = e.search,
           InText(d), OnScreen(d), Marked(d), ~ d.miscoloured => AllFollow(d.rows),
           \/ d.rows = e.rows /\ d.saved = e.saved /\ d.split = e.split
           \/ ~ d.saved \/ d.split
    PROVE  Handled(e, d)
<1>1. d.rows # <<>>
  BY InTextRows
<1>2. Kept(e, d) /\ Finding(e, d)
  BY DEF Kept, Finding
<1> QED
  BY <1>1, <1>2 DEF Handled, Sound

\* The cursor goes to its place in a text c that a handler has changed.
LEMMA EditedHandled ==
    ASSUME NEW e, Well(e),
           NEW c, c.search = e.search, c.undefined = "", Marked(c), ~ c.saved \/ c.split,
           ~ c.miscoloured => AllFollow(c.rows),
           NEW d, Goes(c, d)
    PROVE  Handled(e, d)
<1>1. /\ d \in EditorType /\ d.search = e.search /\ InText(d) /\ OnScreen(d) /\ Marked(d)
      /\ ~ d.miscoloured => AllFollow(d.rows)
      /\ ~ d.saved \/ d.split
  BY DEF Goes, Moved, Marked
<1> QED
  BY <1>1, HandledIs

LEMMA RowWith ==
    ASSUME NEW row \in Row, NEW chars \in Seq(Character)
    PROVE  /\ [row EXCEPT !.chars = chars] \in Row
           /\ [row EXCEPT !.chars = chars].chars = chars
           /\ [row EXCEPT !.chars = chars].unclosed = row.unclosed
           /\ [row EXCEPT !.chars = chars, !.ended = TRUE] \in Row
           /\ [row EXCEPT !.chars = chars, !.ended = TRUE].chars = chars
           /\ [row EXCEPT !.chars = chars, !.ended = TRUE].unclosed = row.unclosed
           /\ [row EXCEPT !.ended = TRUE] \in Row
           /\ [row EXCEPT !.ended = TRUE].chars = row.chars
           /\ [row EXCEPT !.ended = TRUE].unclosed = row.unclosed
           /\ NewRow(chars) \in Row /\ NewRow(chars).chars = chars
           /\ ~ NewRow(chars).unclosed
BY DEF Row, NewRow

\* The rows that all follow still do with another row i, or with a new one.
LEMMA WithRowFollows ==
    ASSUME NEW rows \in Seq(Row), NEW i \in 1 .. Len(rows), NEW row \in Row,
           row.unclosed = rows[i].unclosed, AllFollow(rows)
    PROVE  AllFollow(WithRow(rows, i, row))
BY WithRowIs DEF AllFollow

LEMMA WithNewRowFollows ==
    ASSUME NEW rows \in Seq(Row), NEW i \in 2 .. Len(rows) + 1, NEW row \in Row,
           ~ row.unclosed, LetsFollow(rows, i, row),
           AllFollow(rows)
    PROVE  AllFollow(WithNewRow(rows, i, row))
<1> DEFINE w == WithNewRow(rows, i, row)
<1>1. /\ Len(w) = Len(rows) + 1
      /\ \A k \in 1 .. i - 1 : Follows(rows, k) => Follows(w, k)
      /\ Follows(w, i)
      /\ \A k \in i .. Len(rows) : Follows(rows, k) => Follows(w, k + 1)
  <2>1. Inserts(w, rows, i, row)
    BY WithNewRowIs
  <2> HIDE DEF w
  <2> QED
    BY <2>1 DEF Inserts
<1> HIDE DEF w
<1>2. Len(rows) \in Nat
  BY LenProperties
<1>3. ASSUME NEW k \in 1 .. Len(rows) + 1 PROVE Follows(w, k)
  <2>1. CASE k < i
    BY <1>1, <1>2, <2>1 DEF AllFollow
  <2>2. CASE k > i
    <3>1. k - 1 \in i .. Len(rows) /\ (k - 1) + 1 = k /\ k - 1 \in 1 .. Len(rows)
      BY <1>2, <2>2
    <3> QED
      BY <1>1, <3>1 DEF AllFollow
  <2> QED
    BY <1>1, <2>1, <2>2
<1> QED
  BY <1>1, <1>3 DEF AllFollow, w

\* Another text under the same cursor.
LEMMA RowsAre ==
    ASSUME NEW e \in EditorType, NEW rows \in Seq(Row),
           NEW c, c = [e EXCEPT !.rows = rows]
    PROVE  /\ c \in EditorType /\ c.rows = rows
           /\ c.curx = e.curx /\ c.rcurx = e.rcurx /\ c.cury = e.cury
           /\ c.rowoff = e.rowoff /\ c.coloff = e.coloff
           /\ c.search = e.search /\ c.mode = e.mode /\ c.vcury = e.vcury
           /\ c.saved = e.saved /\ c.split = e.split
           /\ c.miscoloured = e.miscoloured /\ c.undefined = e.undefined
BY DEF EditorType

LEMMA InsertCharacterHandled ==
    ASSUME NEW e, Well(e), NEW ch \in Character
    PROVE  Handled(e, InsertCharacter(e, ch))
<1> DEFINE i == e.cury + 1
           chars == CurrentRow(e)
           more == Inserted(chars, e.curx, <<ch>>)
           row == [e.rows[i] EXCEPT !.chars = more]
           rows == WithRow(e.rows, i, row)
           c == [e EXCEPT !.rows = rows]
           b == RightArrow(c)
           d == [b EXCEPT !.saved = FALSE]
<1>1. e \in EditorType /\ InText(e) /\ OnScreen(e) /\ Marked(e)
      /\ (~ e.miscoloured => AllFollow(e.rows))
  BY DEF Well, Sound
<1>2. /\ e.rows \in Seq(Row) /\ Len(e.rows) \in Nat /\ e.cury \in 0 .. Len(e.rows) - 1
      /\ chars \in Seq(Character) /\ e.curx \in 0 .. Len(chars) /\ Len(chars) \in Nat
      /\ e.rcurx = CurxToRCurx(chars, e.curx) /\ e.cury \in Nat
  BY <1>1, FieldsOf DEF InText, CurrentRow
<1>3. InsertCharacter(e, ch) = d
  BY <1>1 DEF InsertCharacter, EditorType, CurrentRow, Chars
<1>4. i \in 1 .. Len(e.rows) /\ i \in Nat /\ chars = e.rows[i].chars
  <2>1. i \in 1 .. Len(e.rows) /\ i \in Nat
    BY <1>2
  <2>2. chars = e.rows[i].chars
    BY DEF CurrentRow, Chars
  <2> QED
    BY <2>1, <2>2
<1>a. c = [e EXCEPT !.rows = rows]
  OBVIOUS
<1>b. i = e.cury + 1 /\ chars = CurrentRow(e)
  OBVIOUS
<1> HIDE DEF i, chars
<1>c. e.rows[i] \in Row
  BY <1>2, <1>4, RowIs
<1>5. more \in Seq(Character) /\ Len(more) = Len(chars) + 1 /\ \A k \in 1 .. e.curx : more[k] = chars[k]
  BY <1>2, InsertedIs
<1> HIDE DEF more
<1>6. row \in Row /\ row.chars = more /\ row.unclosed = e.rows[i].unclosed
  BY <1>4, <1>c, <1>5, RowWith
<1> HIDE DEF row
<1>7. rows \in Seq(Row) /\ Len(rows) = Len(e.rows) /\ rows[i].chars = more
  BY <1>2, <1>4, <1>6, WithRowIs
<1>8. AllFollow(e.rows) => AllFollow(rows)
  BY <1>2, <1>4, <1>6, WithRowFollows
<1> HIDE DEF rows
<1>9. /\ c \in EditorType /\ c.rows = rows
      /\ c.curx = e.curx /\ c.rcurx = e.rcurx /\ c.cury = e.cury /\ c.rowoff = e.rowoff
      /\ c.search = e.search /\ c.mode = e.mode /\ c.vcury = e.vcury
      /\ c.miscoloured = e.miscoloured /\ c.undefined = e.undefined
  <2> HIDE DEF c
  <2> QED
    BY <1>1, <1>7, <1>a, RowsAre
<1> HIDE DEF c
<1>10. CurrentRow(c) = more
  BY <1>7, <1>9, <1>b DEF CurrentRow, Chars
<1>11. InText(c) /\ OnScreen(c)
  <2>1. CurxToRCurx(more, e.curx) = CurxToRCurx(chars, e.curx)
    <3>1. e.curx <= Len(more)
      BY <1>2, <1>5
    <3> QED
      BY <1>2, <1>5, <3>1, SamePrefix
  <2>2. e.curx \in 0 .. Len(more)
    BY <1>2, <1>5
  <2>3. OnScreen(c)
    BY <1>1, <1>9 DEF OnScreen
  <2> QED
    BY <1>2, <1>7, <1>9, <1>10, <2>1, <2>2, <2>3 DEF InText
<1>12. Goes(c, b)
  BY <1>9, <1>11, RightArrowGoes
<1> HIDE DEF b
<1>13. /\ d \in EditorType /\ d.rows = b.rows /\ d.search = b.search /\ d.mode = b.mode
       /\ d.vcury = b.vcury /\ d.miscoloured = b.miscoloured /\ d.saved = FALSE
       /\ d.cury = b.cury /\ d.curx = b.curx /\ d.rcurx = b.rcurx /\ d.rowoff = b.rowoff
  BY <1>12 DEF Goes, Moved, EditorType
<1> HIDE DEF d
<1>14. CurrentRow(d) = CurrentRow(b)
  BY <1>13 DEF CurrentRow, Chars
<1>15. InText(d) /\ OnScreen(d)
  BY <1>12, <1>13, <1>14 DEF Goes, InText, OnScreen
<1>16. Marked(d) /\ (~ d.miscoloured => AllFollow(d.rows)) /\ d.search = e.search
  BY <1>1, <1>7, <1>8, <1>9, <1>12, <1>13 DEF Goes, Moved, Marked
<1>17. Handled(e, d)
  BY <1>13, <1>15, <1>16, HandledIs
<1> QED
  BY <1>3, <1>17

LEMMA BelowIs ==
    ASSUME NEW e \in EditorType, OnScreen(e)
    PROVE  Below(e) \in Nat /\ (e.cury + 1) - Below(e) \in 0 .. MaxRows - 1
<1>1. e.cury \in Nat /\ e.rowoff \in Nat /\ e.cury - e.rowoff \in 0 .. MaxRows - 1 /\ MaxRows \in Nat
      /\ MaxRows > 1
  BY FieldsOf, Screen DEF OnScreen
<1> QED
  BY <1>1 DEF Below

LEMMA NewLineAndInsertHandled ==
    ASSUME NEW e, Well(e)
    PROVE  Handled(e, NewLineAndInsert(e))
<1> DEFINE s == LineStart(e)
           i == e.cury + 2
           row == NewRow(<<>>)
           rows == WithNewRow(e.rows, i, row)
           y == e.cury + 1
           o == Below(e)
           d == [s EXCEPT !.rows = rows, !.cury = y, !.rowoff = o, !.mode = "INSERT", !.saved = FALSE]
<1>1. e \in EditorType /\ InText(e) /\ OnScreen(e) /\ (~ e.miscoloured => AllFollow(e.rows))
  BY DEF Well, Sound
<1>2. /\ e.rows \in Seq(Row) /\ Len(e.rows) \in Nat /\ e.cury \in 0 .. Len(e.rows) - 1
      /\ e.cury \in Nat
  BY <1>1, FieldsOf DEF InText
<1>3. Moved(e, s) /\ s.rcurx = 0 /\ s.curx = 0 /\ s.cury = e.cury
  BY <1>1, LineStarts
<1>4. NewLineAndInsert(e) = d
  <2>1. s.cury = e.cury /\ s.rows = e.rows
    BY <1>3 DEF Moved
  <2> HIDE DEF rows
  <2> QED
    BY <2>1 DEF NewLineAndInsert, rows
<1> HIDE DEF s
<1>5. i \in 2 .. Len(e.rows) + 1 /\ y \in Nat /\ y < Len(e.rows) + 1
  BY <1>2
<1>6. row \in Row /\ ~ row.unclosed /\ row.chars = <<>>
  <2>1. <<>> \in Seq(Character)
    OBVIOUS
  <2> QED
    BY <2>1 DEF Row, NewRow
<1>7. LetsFollow(e.rows, i, row)
  <2>1. <<>> \in Seq(Character) /\ TRUE \in BOOLEAN
    OBVIOUS
  <2>2. Unclosed(<<>>, TRUE) = TRUE
    BY <2>1, UnclosedIs
  <2> QED
    BY <1>6, <2>2 DEF LetsFollow
<1>8. o \in Nat /\ y - o \in 0 .. MaxRows - 1
  <2>1. e \in EditorType /\ OnScreen(e)
    BY <1>1
  <2> QED
    BY <2>1, BelowIs
<1> HIDE DEF i, row, y, o
<1>9. rows \in Seq(Row) /\ Len(rows) = Len(e.rows) + 1
  BY <1>2, <1>5, <1>6, WithNewRowIs DEF Inserts
<1>10. AllFollow(e.rows) => AllFollow(rows)
  BY <1>2, <1>5, <1>6, <1>7, WithNewRowFollows
<1> HIDE DEF rows
<1>11. /\ d \in EditorType /\ d.rows = rows /\ d.cury = y /\ d.rowoff = o /\ d.mode = "INSERT"
       /\ d.saved = FALSE /\ d.search = s.search /\ d.miscoloured = s.miscoloured
       /\ d.curx = s.curx /\ d.rcurx = s.rcurx
  <2>1. s \in EditorType /\ y \in Nat /\ o \in Nat /\ rows \in Seq(Row)
    BY <1>3, <1>5, <1>8, <1>9 DEF Moved
  <2>2. "INSERT" \in Mode
    BY DEF Mode
  <2>3. FALSE \in BOOLEAN
    OBVIOUS
  <2> QED
    BY <2>1, <2>2, <2>3 DEF EditorType
<1> HIDE DEF d
<1>12. d.curx = 0 /\ d.rcurx = 0 /\ d.search = e.search /\ d.miscoloured = e.miscoloured
  BY <1>3, <1>11 DEF Moved
<1>13. d.cury < Len(d.rows)
  BY <1>5, <1>9, <1>11
<1>14. InText(d) /\ OnScreen(d)
  BY <1>8, <1>11, <1>12, <1>13, ColumnZero DEF OnScreen
<1>15. Marked(d)
  BY <1>11 DEF Marked, Selecting
<1>16. Handled(e, d)
  BY <1>1, <1>10, <1>11, <1>12, <1>14, <1>15, HandledIs
<1> QED
  BY <1>4, <1>16

LEMMA AtGoes ==
    ASSUME NEW e \in EditorType, e.cury < Len(e.rows), OnScreen(e),
           NEW curx \in 0 .. Len(CurrentRow(e))
    PROVE  Goes(e, At(e, curx))
<1> DEFINE d == At(e, curx)
<1>1. /\ d \in EditorType /\ InText(d) /\ d.cury = e.cury /\ d.rowoff = e.rowoff
      /\ d.rows = e.rows /\ d.search = e.search /\ d.mode = e.mode /\ d.vcury = e.vcury
      /\ d.saved = e.saved /\ d.split = e.split
      /\ d.miscoloured = e.miscoloured /\ d.undefined = e.undefined
  BY AtIs
<1> HIDE DEF d
<1>2. Goes(e, d)
  BY <1>1 DEF Goes, Moved, OnScreen
<1> QED
  BY <1>2 DEF d

LEMMA MoreThanOne ==
    ASSUME NEW n \in Nat, NEW m \in 0 .. n - 1, n # 1
    PROVE  n > 1
OBVIOUS

LEMMA DeletedView ==
    ASSUME NEW c \in Nat, NEW o \in Nat, c - o \in 0 .. MaxRows - 1,
           NEW y \in Nat, y = c \/ y = c - 1
    PROVE  LET p == IF o > 0 /\ y <= SCROLL_MARGIN_TB + o THEN o - 1 ELSE o
           IN  p \in Nat /\ y - p \in 0 .. MaxRows - 1
<1>1. SCROLL_MARGIN_TB \in Nat /\ SCROLL_MARGIN_TB + 1 < MaxRows /\ MaxRows \in Nat
  BY Screen
<1> QED
  BY <1>1

LEMMA DeleteCurrentLineHandled ==
    ASSUME NEW e, Well(e), e.mode \notin Selecting
    PROVE  Handled(e, DeleteCurrentLine(e))
<1>1. e \in EditorType /\ InText(e) /\ OnScreen(e) /\ (~ e.miscoloured => AllFollow(e.rows))
  BY DEF Well, Sound
<1>2. /\ e.rows \in Seq(Row) /\ Len(e.rows) \in Nat /\ e.cury \in 0 .. Len(e.rows) - 1
      /\ e.cury \in Nat /\ e.rowoff \in Nat /\ e.cury - e.rowoff \in 0 .. MaxRows - 1
      /\ MaxRows \in Nat
  BY <1>1, FieldsOf, Screen DEF InText, OnScreen
<1>3. \E rows \in Seq(Row), y \in Nat, o \in Nat :
          LET c == [e EXCEPT !.rows = rows, !.cury = y, !.saved = FALSE, !.rowoff = o]
          IN  /\ DeleteCurrentLine(e) = Snapped(c)
              /\ y < Len(rows) /\ y - o \in 0 .. MaxRows - 1
              /\ AllFollow(e.rows) => AllFollow(rows)
  <2>1. CASE Numrows(e) = 1
    <3> DEFINE row == [NewRow(<<>>) EXCEPT !.ended = FALSE]
               rows == <<row>>
               c == [e EXCEPT !.rows = rows, !.cury = e.cury, !.saved = FALSE, !.rowoff = e.rowoff]
    <3>2. <<>> \in Seq(Character) /\ FALSE \in BOOLEAN
      OBVIOUS
    <3>3. row \in Row /\ row.chars = <<>> /\ row.unclosed = FALSE
      BY <3>2 DEF Row, NewRow
    <3> HIDE DEF row
    <3>4. rows \in Seq(Row) /\ Len(rows) = 1 /\ rows[1] = row
      BY <3>3
    <3>5. AllFollow(rows)
      <4>1. Unclosed(<<>>, FALSE) = FALSE
        BY <3>2, UnclosedIs
      <4>2. \A i \in 1 .. Len(rows) : i = 1
        BY <3>4
      <4>3. (1 > 1 /\ rows[1 - 1].unclosed) = FALSE
        OBVIOUS
      <4>4. Follows(rows, 1)
        BY <3>3, <3>4, <4>1, <4>3 DEF Follows
      <4> QED
        BY <4>2, <4>4 DEF AllFollow
    <3>6. DeleteCurrentLine(e) = Snapped(c)
      <4>1. [e EXCEPT !.rows = rows, !.saved = FALSE] = c
        BY <1>1 DEF EditorType
      <4> HIDE DEF rows, c
      <4> QED
        BY <2>1, <4>1 DEF DeleteCurrentLine, rows, row
    <3>7. e.cury < Len(rows)
      BY <1>2, <2>1, <3>4 DEF Numrows
    <3> HIDE DEF rows
    <3> QED
      BY <1>2, <3>4, <3>5, <3>6, <3>7
  <2>2. CASE Numrows(e) # 1
    <3> DEFINE i == e.cury + 1
               rows == WithoutLine(e.rows, i)
               y == IF e.cury = Numrows(e) - 1 THEN e.cury - 1 ELSE e.cury
               o == IF e.rowoff > 0 /\ y <= SCROLL_MARGIN_TB + e.rowoff THEN e.rowoff - 1 ELSE e.rowoff
               c == [e EXCEPT !.rows = rows, !.cury = y, !.saved = FALSE, !.rowoff = o]
    <3>1. i \in 1 .. Len(e.rows) /\ Len(e.rows) > 1
      <4>1. Len(e.rows) # 1
        BY <2>2 DEF Numrows
      <4>2. e.cury \in 0 .. Len(e.rows) - 1 /\ Len(e.rows) \in Nat
        BY <1>2
      <4>3. Len(e.rows) > 1
        BY <4>1, <4>2, MoreThanOne
      <4>4. i \in 1 .. Len(e.rows)
        BY <4>2
      <4> QED
        BY <4>3, <4>4
    <3>2. y \in Nat /\ y < Len(e.rows) - 1 + 0
      BY <1>2, <3>1 DEF Numrows
    <3>3. o \in Nat /\ y - o \in 0 .. MaxRows - 1
      <4>1. y = e.cury \/ y = e.cury - 1
        OBVIOUS
      <4> HIDE DEF y
      <4>2. y \in Nat /\ e.cury \in Nat /\ e.rowoff \in Nat /\ e.cury - e.rowoff \in 0 .. MaxRows - 1
        BY <1>2, <3>2
      <4> QED
        BY <4>1, <4>2, DeletedView
    <3>4. DeleteCurrentLine(e) = Snapped(c)
      <4>1. c = [e EXCEPT !.rows = rows, !.cury = y, !.saved = FALSE,
                          !.rowoff = IF @ > 0 /\ y <= SCROLL_MARGIN_TB + @ THEN @ - 1 ELSE @]
        BY <1>1 DEF EditorType
      <4> HIDE DEF c
      <4> QED
        BY <2>2, <4>1 DEF DeleteCurrentLine
    <3> HIDE DEF y, o, i
    <3>5. rows \in Seq(Row) /\ Len(rows) = Len(e.rows) - 1 /\ (AllFollow(e.rows) => AllFollow(rows))
      BY <1>2, <3>1, WithoutLineIs
    <3> HIDE DEF rows
    <3>6. y < Len(rows)
      BY <1>2, <3>2, <3>5
    <3> QED
      BY <3>2, <3>3, <3>4, <3>5, <3>6
  <2> QED
    BY <2>1, <2>2
<1>4. PICK rows \in Seq(Row), y \in Nat, o \in Nat :
          LET c == [e EXCEPT !.rows = rows, !.cury = y, !.saved = FALSE, !.rowoff = o]
          IN  /\ DeleteCurrentLine(e) = Snapped(c)
              /\ y < Len(rows) /\ y - o \in 0 .. MaxRows - 1
              /\ AllFollow(e.rows) => AllFollow(rows)
  BY <1>3
<1> DEFINE c == [e EXCEPT !.rows = rows, !.cury = y, !.saved = FALSE, !.rowoff = o]
<1>5. /\ c \in EditorType /\ c.rows = rows /\ c.cury = y /\ c.rowoff = o /\ c.mode = e.mode
      /\ c.saved = FALSE /\ c.search = e.search /\ c.miscoloured = e.miscoloured
      /\ c.undefined = e.undefined
  BY <1>1 DEF EditorType
<1>6. DeleteCurrentLine(e) = Snapped(c) /\ y < Len(rows) /\ y - o \in 0 .. MaxRows - 1
      /\ (AllFollow(e.rows) => AllFollow(rows))
  BY <1>4
<1> HIDE DEF c
<1>7. c.cury < Len(c.rows) /\ OnScreen(c) /\ Moved(c, c)
  BY <1>5, <1>6 DEF OnScreen, Moved
<1>8. Goes(c, Snapped(c))
  BY <1>7, SnappedGoes
<1>9. Marked(c) /\ c.undefined = "" /\ (~ c.miscoloured => AllFollow(c.rows))
  BY <1>1, <1>5, <1>6 DEF Marked, Well
<1> DEFINE d == Snapped(c)
<1> HIDE DEF d
<1>10. Goes(c, d)
  BY <1>8 DEF d
<1>11. Handled(e, d)
  BY <1>5, <1>9, <1>10, EditedHandled
<1> QED
  BY <1>6, <1>11 DEF d

\* A row joined to the one above, and one split in two.
LEMMA JoinedIs ==
    ASSUME NEW rows \in Seq(Row), NEW i \in 1 .. Len(rows), i < Len(rows)
    PROVE  /\ Joined(rows, i) \in Seq(Row) /\ Len(Joined(rows, i)) = Len(rows) - 1
           /\ Joined(rows, i)[i].chars = rows[i].chars \o rows[i + 1].chars
<1> DEFINE chars == rows[i].chars \o rows[i + 1].chars
           row == [rows[i] EXCEPT !.chars = chars, !.ended = TRUE]
           w == WithRow(rows, i, row)
           j == i + 1
<1>1. Len(rows) \in Nat /\ j \in 1 .. Len(rows) /\ i < j /\ i \in 1 .. Len(rows) - 1
  BY LenProperties
<1>2. rows[i] \in Row /\ rows[i].chars \in Seq(Character) /\ rows[j].chars \in Seq(Character)
  <2> HIDE DEF j
  <2> QED
    BY <1>1, RowIs
<1>3. chars \in Seq(Character)
  BY <1>2, ConcatProperties
<1>4. Joined(rows, i) = RemoveAt(w, j)
  BY <1>2 DEF Joined, Row
<1> HIDE DEF chars, j
<1>5. row \in Row /\ row.chars = chars /\ row.unclosed = rows[i].unclosed
  BY <1>2, <1>3, RowWith
<1> HIDE DEF row
<1>6. w \in Seq(Row) /\ Len(w) = Len(rows) /\ w[i].chars = chars
  BY <1>5, WithRowIs
<1> HIDE DEF w
<1> DEFINE S == Row
<1>7. w \in Seq(S) /\ j \in 1 .. Len(w)
  BY <1>1, <1>6
<1> HIDE DEF S
<1>8. /\ RemoveAt(w, j) \in Seq(S) /\ Len(RemoveAt(w, j)) = Len(w) - 1
      /\ \A k \in 1 .. Len(w) - 1 : RemoveAt(w, j)[k] = IF k < j THEN w[k] ELSE w[k + 1]
  BY <1>7, RemoveAtIs
<1>9. RemoveAt(w, j)[i] = w[i]
  BY <1>1, <1>6, <1>8
<1> QED
  BY <1>4, <1>6, <1>8, <1>9 DEF S, chars, j

LEMMA WithHalvesIs ==
    ASSUME NEW rows \in Seq(Row), NEW i \in 1 .. Len(rows), NEW curx \in 0 .. Len(rows[i].chars)
    PROVE  /\ WithHalves(rows, i, curx) \in Seq(Row)
           /\ Len(WithHalves(rows, i, curx)) = Len(rows) + 1
           /\ AllFollow(rows) /\ ~ ClosesComment(rows[i], curx) => AllFollow(WithHalves(rows, i, curx))
<1> DEFINE L == Len(rows)
           chars == rows[i].chars
           upper == [rows[i] EXCEPT !.chars = SubSeq(chars, 1, curx), !.ended = TRUE]
           lower == NewRow(SubSeq(chars, curx + 1, Len(chars)))
           a == [rows EXCEPT ![i] = upper]
           j == i + 1
           b == WithNewRow(a, j, lower)
           w == WithRow(b, i, upper)
<1>1. L \in Nat /\ rows[i] \in Row /\ chars \in Seq(Character) /\ Len(chars) \in Nat
      /\ rows[i].unclosed \in BOOLEAN
  BY RowIs, LenProperties
<1>2. SubSeq(chars, 1, curx) \in Seq(Character) /\ SubSeq(chars, curx + 1, Len(chars)) \in Seq(Character)
  <2> DEFINE m == curx + 1
  <2>1. 1 \in 1 .. Len(chars) + 1 /\ m \in 1 .. Len(chars) + 1 /\ Len(chars) \in 0 .. Len(chars)
        /\ curx \in 0 .. Len(chars)
    BY <1>1
  <2> HIDE DEF m, chars
  <2>2. SubSeq(chars, 1, curx) \in Seq(Character) /\ SubSeq(chars, m, Len(chars)) \in Seq(Character)
    BY <1>1, <2>1, PartIs
  <2> QED
    BY <2>2 DEF m
<1>3. upper \in Row /\ upper.unclosed = rows[i].unclosed
  BY <1>1, <1>2, RowWith
<1>4. lower \in Row /\ ~ lower.unclosed /\ lower.chars = SubSeq(chars, curx + 1, Len(chars))
  <2> DEFINE part == SubSeq(chars, curx + 1, Len(chars))
  <2>1. part \in Seq(Character) /\ lower = NewRow(part)
    BY <1>2
  <2> HIDE DEF part, lower
  <2>2. lower \in Row /\ ~ lower.unclosed /\ lower.chars = part
    BY <1>1, <2>1, RowWith
  <2> QED
    BY <2>2 DEF part
<1>5. WithHalves(rows, i, curx) = w
  <2>1. [rows EXCEPT ![i].chars = SubSeq(@, 1, curx), ![i].ended = TRUE] = a
    BY <1>1 DEF Row
  <2>2. upper = [rows[i] EXCEPT !.chars = SubSeq(@, 1, curx), !.ended = TRUE]
    BY <1>1 DEF Row
  <2> HIDE DEF a, upper
  <2> QED
    BY <2>1, <2>2 DEF WithHalves
<1>6. ~ ClosesComment(rows[i], curx) => (rows[i].unclosed => Unclosed(lower.chars, TRUE))
  BY <1>4 DEF ClosesComment
<1> HIDE DEF upper, lower, chars
<1>7. /\ a \in Seq(Row) /\ Len(a) = L /\ a[i] = upper
      /\ \A k \in 1 .. L : a[k] = IF k = i THEN upper ELSE rows[k]
  BY <1>3, SetIs
<1> HIDE DEF a
<1>8. j \in 2 .. Len(a) + 1 /\ j - 1 = i /\ i \in Nat
  BY <1>1, <1>7
<1> HIDE DEF j
<1>9. Inserts(b, a, j, lower)
  BY <1>4, <1>7, <1>8, WithNewRowIs
<1> HIDE DEF b
<1>10. /\ b \in Seq(Row) /\ Len(b) = L + 1 /\ i \in 1 .. Len(b)
       /\ b[i] = a[i]
  BY <1>1, <1>7, <1>8, <1>9 DEF Inserts
<1>11. upper.unclosed = b[i].unclosed
  BY <1>7, <1>10
<1>12. /\ w \in Seq(Row) /\ Len(w) = Len(b) /\ Follows(w, i)
       /\ \A k \in 1 .. Len(b) : k # i /\ Follows(b, k) => Follows(w, k)
  BY <1>3, <1>10, <1>11, WithRowIs
<1> HIDE DEF w
<1>13. ASSUME AllFollow(rows), ~ ClosesComment(rows[i], curx), NEW k \in 1 .. L + 1, k # i
       PROVE  Follows(b, k)
  <2>1. ASSUME NEW n \in 1 .. L, n # i PROVE Follows(a, n)
    <3>1. a[n] = rows[n] /\ Follows(rows, n)
      BY <1>7, <1>13, <2>1 DEF AllFollow
    <3>2. n > 1 => n - 1 \in 1 .. L /\ a[n - 1].unclosed = rows[n - 1].unclosed
      BY <1>1, <1>3, <1>7
    <3>3. (n > 1 /\ a[n - 1].unclosed) = (n > 1 /\ rows[n - 1].unclosed)
      BY <3>2
    <3> QED
      BY <3>1, <3>3 DEF Follows
  <2>2. LetsFollow(a, j, lower)
    BY <1>3, <1>6, <1>7, <1>8, <1>13 DEF LetsFollow
  <2>3. /\ \A n \in 1 .. j - 1 : Follows(a, n) => Follows(b, n)
        /\ Follows(b, j)
        /\ \A n \in j .. L : Follows(a, n) => Follows(b, n + 1)
    BY <1>7, <1>9, <2>2 DEF Inserts
  <2>4. CASE k < j
    BY <1>1, <1>8, <1>13, <2>1, <2>3, <2>4
  <2>5. CASE k > j
    <3>1. k - 1 \in j .. L /\ k - 1 \in 1 .. L /\ k - 1 # i /\ (k - 1) + 1 = k
      BY <1>1, <1>8, <2>5
    <3> QED
      BY <2>1, <2>3, <3>1
  <2>6. k < j \/ k = j \/ k > j
    BY <1>1, <1>8
  <2> QED
    BY <2>3, <2>4, <2>5, <2>6
<1>14. AllFollow(rows) /\ ~ ClosesComment(rows[i], curx) => AllFollow(w)
  BY <1>10, <1>12, <1>13 DEF AllFollow
<1> QED
  BY <1>5, <1>10, <1>12, <1>14

LEMMA SplitCurrentRowHandled ==
    ASSUME NEW e, Well(e), e.mode \notin Selecting
    PROVE  Handled(e, SplitCurrentRow(e))
<1> DEFINE s == StartOfLine(e)
           i == e.cury + 1
           rows == WithHalves(e.rows, i, e.curx)
           closes == ClosesComment(e.rows[i], e.curx)
           y == e.cury + 1
           o == Below(e)
           split == e.split \/ e.saved
           miscoloured == e.miscoloured \/ closes
           d == [s EXCEPT !.rows = rows, !.cury = y, !.rowoff = o, !.split = split,
                          !.miscoloured = miscoloured]
<1>1. e \in EditorType /\ InText(e) /\ OnScreen(e) /\ (~ e.miscoloured => AllFollow(e.rows))
  BY DEF Well, Sound
<1>2. /\ e.rows \in Seq(Row) /\ Len(e.rows) \in Nat /\ e.cury \in 0 .. Len(e.rows) - 1
      /\ e.cury \in Nat
  BY <1>1, FieldsOf DEF InText
<1>3. /\ Moved(e, s) /\ s.rcurx = 0 /\ s.curx = 0 /\ s.cury = e.cury
  BY <1>1, LineStarts
<1>4. SplitCurrentRow(e) = d
  <2>1. s.cury = e.cury /\ s.rows = e.rows /\ s.split = e.split /\ s.miscoloured = e.miscoloured
        /\ s \in EditorType
    BY <1>3 DEF Moved
  <2> HIDE DEF rows, closes
  <2> QED
    BY <2>1 DEF SplitCurrentRow, rows, closes
<1> HIDE DEF s
<1>5. i \in 1 .. Len(e.rows) /\ y \in Nat /\ y < Len(e.rows) + 1 /\ e.curx \in 0 .. Len(e.rows[i].chars)
  BY <1>1, <1>2 DEF InText, CurrentRow, Chars
<1>6. o \in Nat /\ y - o \in 0 .. MaxRows - 1
  <2>1. e \in EditorType /\ OnScreen(e)
    BY <1>1
  <2> QED
    BY <2>1, BelowIs
<1>7. split \in BOOLEAN /\ miscoloured \in BOOLEAN
  BY <1>1 DEF EditorType
<1> HIDE DEF i, y, o
<1>8. rows \in Seq(Row) /\ Len(rows) = Len(e.rows) + 1
      /\ (AllFollow(e.rows) /\ ~ closes => AllFollow(rows))
  BY <1>2, <1>5, WithHalvesIs
<1>9. /\ ~ miscoloured => AllFollow(rows)
      /\ e.saved => split
  BY <1>1, <1>8
<1> HIDE DEF rows, closes, split, miscoloured
<1>10. /\ d \in EditorType /\ d.rows = rows /\ d.cury = y /\ d.rowoff = o
       /\ d.split = split /\ d.miscoloured = miscoloured
       /\ d.saved = s.saved /\ d.search = s.search /\ d.mode = s.mode
       /\ d.curx = s.curx /\ d.rcurx = s.rcurx
  <2>1. s \in EditorType
    BY <1>3 DEF Moved
  <2> QED
    BY <1>5, <1>6, <1>7, <1>8, <2>1 DEF EditorType
<1> HIDE DEF d
<1>11. d.curx = 0 /\ d.rcurx = 0 /\ d.search = e.search /\ d.mode = e.mode /\ d.saved = e.saved
  BY <1>3, <1>10 DEF Moved
<1>12. d.cury < Len(d.rows)
  BY <1>5, <1>8, <1>10
<1>13. InText(d) /\ OnScreen(d)
  BY <1>6, <1>10, <1>11, <1>12, ColumnZero DEF OnScreen
<1>14. Marked(d) /\ (~ d.saved \/ d.split) /\ (~ d.miscoloured => AllFollow(d.rows))
  BY <1>9, <1>10, <1>11 DEF Marked
<1>15. Handled(e, d)
  BY <1>10, <1>11, <1>13, <1>14, HandledIs
<1> QED
  BY <1>4, <1>15

LEMMA JoinedView ==
    ASSUME NEW c \in Nat, c > 0, NEW o \in Nat, c - o \in 0 .. MaxRows - 1
    PROVE  LET p == IF o > 0 /\ c - o < SCROLL_MARGIN_TB THEN o - 1 ELSE o
           IN  p \in Nat /\ (c - 1) - p \in 0 .. MaxRows - 1
<1>1. SCROLL_MARGIN_TB \in Nat \ {0} /\ MaxRows \in Nat
  BY Screen
<1> QED
  BY <1>1

LEMMA JoinLinesHandled ==
    ASSUME NEW e, Well(e), e.mode \notin Selecting, e.cury # 0
    PROVE  Handled(e, JoinLines(e, Chars(e, e.cury - 1)))
<1> DEFINE above == Chars(e, e.cury - 1)
           i == e.cury
           rows == Joined(e.rows, i)
           y == e.cury - 1
           r == Rlen(above)
           x == Len(above)
           off == HalfRight(r, IF e.coloff > 0 THEN e.coloff - 1 ELSE 0)
           o == IF e.rowoff > 0 /\ e.cury - e.rowoff < SCROLL_MARGIN_TB THEN e.rowoff - 1
                ELSE e.rowoff
           d == [e EXCEPT !.rows = rows, !.cury = y, !.curx = x, !.rcurx = r, !.rscurx = r,
                          !.coloff = off, !.rowoff = o, !.saved = FALSE, !.miscoloured = TRUE]
<1>1. e \in EditorType /\ InText(e) /\ OnScreen(e)
  BY DEF Well, Sound
<1>2. /\ e.rows \in Seq(Row) /\ Len(e.rows) \in Nat /\ e.cury \in 0 .. Len(e.rows) - 1
      /\ e.cury \in Nat /\ e.rowoff \in Nat /\ e.cury - e.rowoff \in 0 .. MaxRows - 1
      /\ MaxRows \in Nat /\ e.coloff \in Int
  BY <1>1, FieldsOf, Screen DEF InText, OnScreen
<1>3. i \in 1 .. Len(e.rows) /\ i < Len(e.rows) /\ i \in Nat /\ y \in Nat /\ y < Len(e.rows) - 1
      /\ y + 1 = i
  BY <1>2
<1>4. JoinLines(e, above) = d
  BY <1>1 DEF JoinLines, EditorType
<1>5. above = e.rows[i].chars
  <2>1. (e.cury - 1) + 1 = e.cury
    BY <1>2
  <2> QED
    BY <2>1 DEF Chars
<1>6. o \in Nat /\ y - o \in 0 .. MaxRows - 1
  <2>1. e.cury > 0
    BY <1>2
  <2> QED
    BY <1>2, <2>1, JoinedView
<1> HIDE DEF i, o
<1>7. above \in Seq(Character) /\ e.rows[i + 1].chars \in Seq(Character)
  <2> DEFINE j == i + 1
  <2>1. j \in 1 .. Len(e.rows)
    BY <1>2, <1>3
  <2> HIDE DEF j, above
  <2>2. e.rows[i].chars \in Seq(Character) /\ e.rows[j].chars \in Seq(Character)
    BY <1>2, <1>3, <2>1, RowIs
  <2> QED
    BY <1>5, <2>2 DEF j
<1> HIDE DEF above
<1>8. x \in Nat /\ r \in Nat /\ r = CurxToRCurx(above, x)
  BY <1>7, ColumnOf, LenProperties
<1>9. off \in Int
  <2>1. (IF e.coloff > 0 THEN e.coloff - 1 ELSE 0) \in Int
    BY <1>2
  <2> HIDE DEF r
  <2> QED
    BY <1>8, <2>1, HalfRightIs
<1>10. /\ rows \in Seq(Row) /\ Len(rows) = Len(e.rows) - 1
       /\ rows[i].chars = above \o e.rows[i + 1].chars
  BY <1>2, <1>3, <1>5, JoinedIs
<1> HIDE DEF r, off, rows
<1> DEFINE below == e.rows[i + 1].chars
           chars == above \o below
<1>11. /\ chars \in Seq(Character) /\ x \in 0 .. Len(chars) /\ x \in 0 .. Len(above)
       /\ \A k \in 1 .. x : chars[k] = above[k]
  <2> HIDE DEF below
  <2>1. below \in Seq(Character)
    BY <1>7 DEF below
  <2>2. /\ above \o below \in Seq(Character) /\ Len(above \o below) = Len(above) + Len(below)
        /\ \A k \in 1 .. Len(above) + Len(below) :
              (above \o below)[k] = IF k <= Len(above) THEN above[k] ELSE below[k - Len(above)]
    BY <1>7, <2>1, ConcatProperties
  <2>3. Len(above) \in Nat /\ Len(below) \in Nat
    BY <1>7, <2>1, LenProperties
  <2> HIDE DEF chars
  <2>4. /\ chars \in Seq(Character) /\ Len(chars) = Len(above) + Len(below)
        /\ \A k \in 1 .. Len(above) + Len(below) :
              chars[k] = IF k <= Len(above) THEN above[k] ELSE below[k - Len(above)]
    BY <2>2 DEF chars
  <2> QED
    BY <2>3, <2>4
<1> HIDE DEF chars
<1>12. CurxToRCurx(chars, x) = r
  <2>1. x <= Len(chars)
    BY <1>8, <1>11, LenProperties
  <2>2. CurxToRCurx(above, x) = CurxToRCurx(chars, x)
    <3> HIDE DEF x
    <3> QED
      BY <1>7, <1>11, <2>1, SamePrefix
  <2> QED
    BY <1>8, <2>2
<1> HIDE DEF x, y
<1>13. /\ d \in EditorType /\ d.rows = rows /\ d.cury = y /\ d.curx = x /\ d.rcurx = r
       /\ d.rowoff = o /\ d.saved = FALSE /\ d.miscoloured = TRUE
       /\ d.search = e.search /\ d.mode = e.mode
  <2>1. TRUE \in BOOLEAN /\ FALSE \in BOOLEAN
    OBVIOUS
  <2> QED
    BY <1>1, <1>3, <1>6, <1>8, <1>9, <1>10, <2>1 DEF EditorType
<1> HIDE DEF d
<1>14. CurrentRow(d) = chars
  BY <1>3, <1>10, <1>13 DEF CurrentRow, Chars, chars, below
<1>15. InText(d) /\ OnScreen(d)
  <2>1. y \in 0 .. Len(rows) - 1
    BY <1>2, <1>3, <1>10
  <2> QED
    BY <1>6, <1>11, <1>12, <1>13, <1>14, <2>1 DEF InText, OnScreen
<1>16. Marked(d)
  BY <1>13 DEF Marked
<1>17. Handled(e, d)
  BY <1>13, <1>15, <1>16, HandledIs
<1> QED
  BY <1>4, <1>17 DEF above

LEMMA DeleteCurrentCharHandled ==
    ASSUME NEW e, Well(e), e.mode \notin Selecting
    PROVE  Handled(e, DeleteCurrentChar(e))
<1>1. e \in EditorType /\ InText(e) /\ OnScreen(e) /\ (~ e.miscoloured => AllFollow(e.rows))
  BY DEF Well, Sound
<1>2. /\ e.rows \in Seq(Row) /\ Len(e.rows) \in Nat /\ e.cury \in 0 .. Len(e.rows) - 1
      /\ e.cury \in Nat /\ e.curx \in Nat /\ e.coloff \in Int /\ e.cury < Len(e.rows)
  BY <1>1, FieldsOf DEF InText
<1>3. CASE e.curx = 0 /\ e.cury = 0
  <2>1. DeleteCurrentChar(e) = e
    BY <1>3 DEF DeleteCurrentChar
  <2>2. Goes(e, e)
    BY <1>1, StaysGoes
  <2> QED
    BY <2>1, <2>2, MovedHandled DEF Goes
<1>4. CASE e.curx = 0 /\ e.cury # 0 /\ e.rows[e.cury + 1].ended
  <2>1. DeleteCurrentChar(e) = JoinLines(e, Chars(e, e.cury - 1))
    BY <1>4 DEF DeleteCurrentChar
  <2> QED
    BY <1>4, <2>1, JoinLinesHandled
<1>5. CASE e.curx = 0 /\ e.cury # 0 /\ ~ e.rows[e.cury + 1].ended
  <2>1. DeleteCurrentChar(e) = Undefined(e, "join")
    BY <1>5 DEF DeleteCurrentChar
  <2>2. "join" \in Handler \ {""}
    BY DEF Handler
  <2>3. Sound(e)
    BY DEF Well
  <2> QED
    BY <2>1, <2>2, <2>3, UndefinedHandled
<1>6. CASE e.curx # 0
  <2> DEFINE i == e.cury + 1
             x == e.curx - 1
             chars == CurrentRow(e)
             less == RemoveAt(chars, e.curx)
             row == [e.rows[i] EXCEPT !.chars = RemoveAt(@, e.curx), !.ended = TRUE]
             rows == WithRow(e.rows, i, row)
             off == IF e.coloff > 0 THEN e.coloff - 1 ELSE 0
             c == [e EXCEPT !.rows = rows, !.coloff = off, !.saved = FALSE]
             d == Sought(At(c, x))
  <2>1. chars \in Seq(Character) /\ Len(chars) \in Nat /\ e.curx \in 0 .. Len(chars)
    BY <1>1, <1>2, FieldsOf DEF InText, CurrentRow
  <2>2. i \in 1 .. Len(e.rows) /\ chars = e.rows[i].chars
    <3>1. i \in 1 .. Len(e.rows)
      BY <1>2
    <3>2. chars = e.rows[i].chars
      BY DEF CurrentRow, Chars
    <3> QED
      BY <3>1, <3>2
  <2>3. DeleteCurrentChar(e) = d
    <3>1. e.rows[i] \in Row
      <4> HIDE DEF i
      <4> QED
        BY <1>2, <2>2, RowIs
    <3>2. row = [e.rows[i] EXCEPT !.chars = RemoveAt(@, e.curx), !.ended = TRUE]
      OBVIOUS
    <3>3. c = [e EXCEPT !.rows = WithRow(@, e.cury + 1,
                                 [e.rows[e.cury + 1] EXCEPT !.chars = RemoveAt(@, e.curx), !.ended = TRUE]),
                        !.coloff = IF @ > 0 THEN @ - 1 ELSE 0,
                        !.saved = FALSE]
      BY <1>1 DEF EditorType
    <3> HIDE DEF c
    <3> QED
      BY <1>6, <3>3 DEF DeleteCurrentChar
  <2> HIDE DEF chars, i
  <2>4. less \in Seq(Character) /\ Len(less) = Len(chars) - 1 /\ e.curx \in 1 .. Len(chars)
    <3>1. e.curx \in 1 .. Len(chars)
      BY <1>2, <1>6, <2>1
    <3> QED
      BY <2>1, <3>1, RemoveAtIs
  <2>5. x \in 0 .. Len(less) /\ x \in Nat /\ off \in Int
    BY <1>2, <2>1, <2>4
  <2>6. row \in Row /\ row.chars = less /\ row.unclosed = e.rows[i].unclosed
    <3>1. e.rows[i] \in Row
      BY <1>2, <2>2, RowIs
    <3>2. row = [e.rows[i] EXCEPT !.chars = less, !.ended = TRUE]
      BY <2>2, <3>1 DEF Row
    <3> HIDE DEF less, row
    <3> QED
      BY <2>4, <3>1, <3>2, RowWith
  <2> HIDE DEF less, off, x
  <2> HIDE DEF row
  <2>7. /\ rows \in Seq(Row) /\ Len(rows) = Len(e.rows) /\ rows[i].chars = less
    BY <1>2, <2>2, <2>6, WithRowIs
  <2>8. AllFollow(e.rows) => AllFollow(rows)
    BY <1>2, <2>2, <2>6, WithRowFollows
  <2> HIDE DEF rows
  <2>9. /\ c \in EditorType /\ c.rows = rows /\ c.cury = e.cury /\ c.rowoff = e.rowoff
        /\ c.saved = FALSE /\ c.miscoloured = e.miscoloured /\ c.undefined = e.undefined
        /\ c.search = e.search /\ c.mode = e.mode
    <3>1. FALSE \in BOOLEAN
      OBVIOUS
    <3> QED
      BY <1>1, <2>5, <2>7, <3>1 DEF EditorType
  <2> HIDE DEF c
  <2>10. CurrentRow(c) = less
    BY <2>7, <2>9 DEF CurrentRow, Chars, i
  <2>11. c.cury < Len(c.rows) /\ OnScreen(c) /\ x \in 0 .. Len(CurrentRow(c))
    BY <1>1, <1>2, <2>5, <2>7, <2>9, <2>10 DEF OnScreen
  <2>12. Goes(c, d)
    <3>1. Goes(c, At(c, x))
      BY <2>9, <2>11, AtGoes
    <3> QED
      BY <3>1, SoughtGoes
  <2> HIDE DEF d
  <2>13. Marked(c) /\ c.undefined = "" /\ (~ c.miscoloured => AllFollow(c.rows))
    BY <1>1, <2>8, <2>9 DEF Marked, Well
  <2>14. Handled(e, d)
    BY <2>9, <2>12, <2>13, EditedHandled
  <2> QED
    BY <2>3, <2>14
<1>7. e.cury # 0 \/ e.cury = 0
  OBVIOUS
<1> QED
  BY <1>3, <1>4, <1>5, <1>6

-----------------------------------------------------------------------------
(* Copying and pasting.                                                    *)

Piece == Character \cup {Newline}

LEMMA ConcatIs ==
    ASSUME NEW S, NEW s \in Seq(S), NEW t \in Seq(S)
    PROVE  s \o t \in Seq(S)
BY ConcatProperties

LEMMA ClipOf ==
    /\ \A s \in Seq(Character) : s \in Seq(Piece)
    /\ <<Newline>> \in Seq(Piece) /\ <<>> \in Seq(Piece)
<1>1. ASSUME NEW s \in Seq(Character) PROVE s \in Seq(Piece)
  <2>1. Character \subseteq Piece
    BY DEF Piece
  <2> HIDE DEF Piece
  <2> QED
    BY <2>1
<1>2. Newline \in Piece
  BY DEF Piece
<1> HIDE DEF Piece
<1> QED
  BY <1>1, <1>2

LEMMA FlattenIs ==
    ASSUME NEW S, NEW seqs \in Seq(Seq(S))
    PROVE  FlattenSeq(seqs) \in Seq(S)
<1> DEFINE L == Len(seqs)
           N == L - 1
           X == Seq(S)
           G == [p \in (1 .. N) \X X |-> p[2] \o seqs[p[1] + 1]]
           C == CHOOSE f : f = [i \in 1 .. L |-> IF i = 1 THEN seqs[i] ELSE f[i - 1] \o seqs[i]]
<1>1. L \in Nat
  BY LenProperties
<1>2. CASE L = 0
  <2>1. seqs = <<>>
    BY <1>2, EmptySeq
  <2> QED
    BY <1>2, <2>1 DEF FlattenSeq
<1>3. CASE L # 0
  <2>1. N \in Nat /\ 1 \in 1 .. L /\ L \in 1 .. L
    BY <1>1, <1>3
  <2>2. \A i \in 1 .. L : seqs[i] \in X
    BY ElementOfSeq
  <2>3. G \in [(1 .. N) \X X -> X]
    <3>1. ASSUME NEW p \in (1 .. N) \X X PROVE p[2] \o seqs[p[1] + 1] \in X
      <4>1. p[1] + 1 \in 1 .. L /\ p[2] \in X
        BY <1>1
      <4> DEFINE s == seqs[p[1] + 1]
      <4>2. s \in Seq(S) /\ p[2] \in Seq(S)
        BY <2>2, <4>1
      <4> HIDE DEF s
      <4>3. p[2] \o s \in Seq(S)
        BY <4>2, ConcatIs
      <4> QED
        BY <4>3 DEF s
    <3> HIDE DEF X, N
    <3> QED
      BY <3>1
  <2>4. PICK f : Recursive(X, seqs[1], G, N, f)
    <3> HIDE DEF X, N, G
    <3> QED
      BY <2>1, <2>2, <2>3, Recursion
  <2>5. f \in [0 .. N -> X] /\ f[0] = seqs[1] /\ \A n \in 1 .. N : f[n] = G[<<n, f[n - 1]>>]
    BY <2>4 DEF Recursive
  <2>6. \A n \in 1 .. N : f[n] = f[n - 1] \o seqs[n + 1]
    <3> SUFFICES ASSUME NEW n \in 1 .. N PROVE f[n] = f[n - 1] \o seqs[n + 1]
      OBVIOUS
    <3>1. n - 1 \in 0 .. N
      BY <2>1
    <3> HIDE DEF X, N
    <3>2. <<n, f[n - 1]>> \in (1 .. N) \X X
      BY <2>5, <3>1
    <3> QED
      BY <2>5, <3>2
  <2> DEFINE F == [i \in 1 .. L |-> f[i - 1]]
             V(i) == IF i = 1 THEN seqs[i] ELSE F[i - 1] \o seqs[i]
  <2>7. ASSUME NEW i \in 1 .. L PROVE F[i] = V(i)
    <3>1. CASE i = 1
      BY <2>5, <3>1
    <3>2. CASE i # 1
      <4>1. i - 1 \in 1 .. N /\ i - 1 \in 1 .. L /\ (i - 1) + 1 = i
        BY <1>1, <3>2
      <4>2. F[i] = f[i - 1] /\ F[i - 1] = f[(i - 1) - 1]
        BY <4>1
      <4>3. f[i - 1] = f[(i - 1) - 1] \o seqs[(i - 1) + 1]
        BY <2>6, <4>1
      <4> HIDE DEF F
      <4> QED
        BY <3>2, <4>1, <4>2, <4>3
    <3> QED
      BY <3>1, <3>2
  <2>8. F = [i \in 1 .. L |-> V(i)]
    <3> HIDE DEF V
    <3> QED
      BY <2>7
  <2>9. C = [i \in 1 .. L |-> IF i = 1 THEN seqs[i] ELSE C[i - 1] \o seqs[i]]
    <3> HIDE DEF F
    <3> QED
      BY <2>8
  <2>10. FlattenSeq(seqs) = C[L]
    BY <1>3 DEF FlattenSeq
  <2> HIDE DEF C
  <2>11. C[1] = seqs[1] /\ \A i \in 2 .. L : C[i] = C[i - 1] \o seqs[i]
    <3>1. C[1] = seqs[1]
      BY <2>1, <2>9
    <3>2. ASSUME NEW i \in 2 .. L PROVE C[i] = C[i - 1] \o seqs[i]
      <4>1. i \in 1 .. L /\ i # 1
        BY <1>1
      <4> HIDE DEF L
      <4> QED
        BY <2>9, <4>1
    <3> QED
      BY <3>1, <3>2
  <2> DEFINE T == {n \in 0 .. N : C[n + 1] \in X}
  <2>12. 0 \in T
    BY <2>1, <2>2, <2>11
  <2>13. ASSUME NEW n \in 1 .. N, n - 1 \in T PROVE n \in T
    <3>1. n + 1 \in 2 .. L /\ n + 1 \in 1 .. L /\ (n + 1) - 1 = n /\ (n - 1) + 1 = n
      BY <1>1
    <3>2. C[n] \in Seq(S) /\ seqs[n + 1] \in Seq(S)
      BY <2>2, <2>13, <3>1
    <3>3. C[n + 1] = C[n] \o seqs[n + 1]
      BY <2>11, <3>1
    <3> DEFINE s == seqs[n + 1]
    <3> HIDE DEF s
    <3>4. C[n] \o s \in Seq(S)
      BY <3>2, ConcatIs DEF s
    <3>5. C[n + 1] \in X /\ n \in 0 .. N
      BY <2>1, <3>3, <3>4 DEF s
    <3> QED
      BY <3>5
  <2>14. 0 .. N \subseteq T
    <3> HIDE DEF T, N
    <3> QED
      BY <2>1, <2>12, <2>13, InductionTo
  <2>15. N \in T /\ N + 1 = L
    <3>1. N \in 0 .. N /\ N + 1 = L
      BY <1>1, <2>1
    <3> HIDE DEF T, N
    <3> QED
      BY <2>14, <3>1
  <2> QED
    BY <2>10, <2>15
<1> QED
  BY <1>2, <1>3

LEMMA LinesAre ==
    ASSUME NEW e \in EditorType, NEW from \in Nat, NEW to \in Int, to - from + 1 \in Nat,
           to < Len(e.rows), NEW before \in Seq(Piece), NEW after \in Seq(Piece)
    PROVE  Lines(e, from, to, before, after) \in Seq(Piece)
<1> DEFINE n == to - from + 1
           V(k) == before \o Chars(e, from + k - 1) \o after
           F == [k \in 1 .. n |-> V(k)]
<1>1. ASSUME NEW k \in 1 .. n PROVE V(k) \in Seq(Piece)
  <2> DEFINE y == from + k - 1
             chars == Chars(e, y)
  <2>1. y \in 0 .. Len(e.rows) - 1
    BY FieldsOf
  <2> HIDE DEF y
  <2>2. chars \in Seq(Character)
    BY <2>1, FieldsOf
  <2> HIDE DEF chars
  <2>3. chars \in Seq(Piece)
    BY <2>2, ClipOf
  <2>4. before \o chars \in Seq(Piece)
    BY <2>3, ConcatIs
  <2> DEFINE part == before \o chars
  <2> HIDE DEF part
  <2>5. part \o after \in Seq(Piece)
    BY <2>4, ConcatIs DEF part
  <2> QED
    BY <2>5 DEF part, chars, y
<1>2. n \in Nat
  OBVIOUS
<1>3. Lines(e, from, to, before, after) = FlattenSeq(F)
  BY DEF Lines
<1> HIDE DEF V, n
<1>4. F \in Seq(Seq(Piece))
  <2> DEFINE S == Seq(Piece)
  <2>1. \A k \in 1 .. n : V(k) \in S
    BY <1>1
  <2> HIDE DEF S
  <2>2. F \in Seq(S)
    BY <1>2, <2>1
  <2> QED
    BY <2>2 DEF S
<1> HIDE DEF F
<1> QED
  BY <1>3, <1>4, FlattenIs

LEMMA PartOfClip ==
    ASSUME NEW chars \in Seq(Character), NEW m \in 0 .. Len(chars), NEW n \in 0 .. Len(chars)
    PROVE  SubSeq(chars, m + 1, n) \in Seq(Piece)
<1> DEFINE j == m + 1
<1>1. j \in 1 .. Len(chars) + 1
  BY LenProperties
<1> HIDE DEF j
<1>2. SubSeq(chars, j, n) \in Seq(Character)
  BY <1>1, PartIs
<1> QED
  BY <1>2, ClipOf DEF j

LEMMA RowsBetween ==
    ASSUME NEW a \in Nat, NEW b \in Nat, a < b
    PROVE  a + 1 \in Nat /\ b - 1 \in Int /\ (b - 1) - (a + 1) + 1 \in Nat
OBVIOUS

LEMMA BetweenIs ==
    ASSUME NEW e \in EditorType, NEW s, NEW t,
           s.y \in 0 .. Len(e.rows) - 1, s.x \in 0 .. Len(Chars(e, s.y)),
           t.y \in 0 .. Len(e.rows) - 1, t.x \in 0 .. Len(Chars(e, t.y)), s.y <= t.y
    PROVE  Between(e, s, t) \in Seq(Piece)
<1> DEFINE above == Chars(e, s.y)
           below == Chars(e, t.y)
<1>1. /\ above \in Seq(Character) /\ below \in Seq(Character)
      /\ Len(above) \in Nat /\ Len(below) \in Nat /\ Len(e.rows) \in Nat
  BY FieldsOf
<1>2. CASE s.y = t.y
  <2>1. SubSeq(above, s.x + 1, t.x) \in Seq(Piece)
    BY <1>1, <1>2, PartOfClip
  <2> QED
    BY <1>2, <2>1 DEF Between
<1>3. CASE s.y # t.y
  <2> DEFINE a == SubSeq(above, s.x + 1, Len(above))
             b == Lines(e, s.y + 1, t.y - 1, <<>>, <<Newline>>)
             c == SubSeq(below, 1, t.x)
             nl == <<Newline>>
  <2>1. a \in Seq(Piece)
    <3>1. Len(above) \in 0 .. Len(above)
      BY <1>1
    <3> QED
      BY <1>1, <3>1, PartOfClip
  <2>2. b \in Seq(Piece)
    <3> DEFINE from == s.y + 1
               to == t.y - 1
    <3>0. s.y \in Nat /\ t.y \in Nat /\ t.y < Len(e.rows)
      BY <1>1
    <3>1. s.y < t.y
      BY <1>3, <3>0
    <3>2. from \in Nat /\ to \in Int /\ to - from + 1 \in Nat /\ to < Len(e.rows)
      <4>1. from \in Nat /\ to \in Int /\ to - from + 1 \in Nat
        BY <3>0, <3>1, RowsBetween
      <4>2. to < Len(e.rows)
        BY <1>1, <3>0
      <4> QED
        BY <4>1, <4>2
    <3> HIDE DEF from, to
    <3>3. <<>> \in Seq(Piece) /\ <<Newline>> \in Seq(Piece)
      BY ClipOf
    <3>4. Lines(e, from, to, <<>>, <<Newline>>) \in Seq(Piece)
      BY <3>2, <3>3, LinesAre
    <3> QED
      BY <3>4 DEF from, to
  <2>3. c \in Seq(Piece)
    <3>1. 0 \in 0 .. Len(below) /\ 0 + 1 = 1
      BY <1>1
    <3> HIDE DEF below
    <3>2. SubSeq(below, 0 + 1, t.x) \in Seq(Piece)
      BY <1>1, <3>1, PartOfClip DEF below
    <3> QED
      BY <3>1, <3>2
  <2>4. nl \in Seq(Piece)
    BY ClipOf
  <2>5. Between(e, s, t) = a \o nl \o b \o c \o nl
    BY <1>3 DEF Between
  <2> HIDE DEF a, b, c, nl
  <2> DEFINE S == Piece
             d == a \o nl
             f == d \o b
             g == f \o c
  <2>6. d \in Seq(S)
    BY <2>1, <2>4, ConcatIs
  <2> HIDE DEF d
  <2>7. f \in Seq(S)
    BY <2>6, <2>2, ConcatIs
  <2> HIDE DEF f
  <2>8. g \in Seq(S)
    BY <2>7, <2>3, ConcatIs
  <2> HIDE DEF g
  <2>9. g \o nl \in Seq(S)
    BY <2>8, <2>4, ConcatIs
  <2> QED
    BY <2>5, <2>9 DEF d, f, g
<1> QED
  BY <1>2, <1>3

LEMMA SamePlace ==
    ASSUME NEW e, InText(e), OnScreen(e), NEW d,
           d.rows = e.rows, d.cury = e.cury, d.curx = e.curx, d.rcurx = e.rcurx, d.rowoff = e.rowoff
    PROVE  InText(d) /\ OnScreen(d)
<1>1. CurrentRow(d) = CurrentRow(e)
  BY DEF CurrentRow, Chars
<1> QED
  BY <1>1 DEF InText, OnScreen

LEMMA CopySelectionHandled ==
    ASSUME NEW e, Well(e), e.mode \in Selecting
    PROVE  Handled(e, CopySelection(e))
<1>1. e \in EditorType /\ InText(e) /\ OnScreen(e) /\ (~ e.miscoloured => AllFollow(e.rows))
      /\ e.vcury < Len(e.rows) /\ Sound(e)
  BY DEF Well, Sound, Marked
<1>2. /\ Len(e.rows) \in Nat /\ e.cury \in Nat /\ e.vcury \in Nat /\ e.vcurx \in Nat
      /\ e.cury \in 0 .. Len(e.rows) - 1 /\ e.vcury \in 0 .. Len(e.rows) - 1
      /\ e.curx \in 0 .. Len(Chars(e, e.cury)) /\ Len(Chars(e, e.vcury)) \in Nat
  <2>1. /\ Len(e.rows) \in Nat /\ e.vcury \in Nat /\ e.vcurx \in Nat /\ e.cury \in Nat
        /\ e.cury \in 0 .. Len(e.rows) - 1 /\ e.curx \in 0 .. Len(Chars(e, e.cury))
    BY <1>1, FieldsOf DEF InText, CurrentRow
  <2>2. e.vcury \in 0 .. Len(e.rows) - 1
    BY <1>1, <2>1
  <2> QED
    BY <1>1, <2>1, <2>2, FieldsOf
<1>3. CASE e.mode = "VISUAL" /\ e.vcurx > Len(Chars(e, e.vcury))
  <2>1. CopySelection(e) = Undefined(e, "selection")
    BY <1>3 DEF CopySelection
  <2>2. "selection" \in Handler \ {""}
    BY DEF Handler
  <2> QED
    BY <1>1, <2>1, <2>2, UndefinedHandled
<1>4. CASE ~ (e.mode = "VISUAL" /\ e.vcurx > Len(Chars(e, e.vcury)))
  <2>1. Selected(e) \in Seq(Piece)
    <3>1. CASE e.mode = "VISUAL_LINE"
      <4> DEFINE from == Min({e.cury, e.vcury})
                 to == Max({e.cury, e.vcury})
      <4>1. from \in Nat /\ to \in Nat /\ from <= to /\ to < Len(e.rows)
        <5>1. /\ from = (IF e.cury <= e.vcury THEN e.cury ELSE e.vcury)
              /\ to = (IF e.cury <= e.vcury THEN e.vcury ELSE e.cury)
          <6>1. e.cury \in Int /\ e.vcury \in Int
            BY <1>2
          <6> QED
            BY <6>1, OfTwo
        <5>2. e.cury < Len(e.rows) /\ e.vcury < Len(e.rows)
          BY <1>2
        <5> HIDE DEF from, to
        <5>3. CASE e.cury <= e.vcury
          BY <1>2, <5>1, <5>2, <5>3
        <5>4. CASE ~ e.cury <= e.vcury
          BY <1>2, <5>1, <5>2, <5>4
        <5> QED
          BY <5>3, <5>4
      <4> HIDE DEF from, to
      <4>2. to \in Int /\ to - from + 1 \in Nat
        BY <4>1
      <4>3. <<>> \in Seq(Piece) /\ <<Newline>> \in Seq(Piece)
        BY ClipOf
      <4>4. Lines(e, from, to, <<Newline>>, <<>>) \in Seq(Piece)
        BY <1>1, <4>1, <4>2, <4>3, LinesAre
      <4> QED
        BY <3>1, <4>4 DEF Selected, from, to
    <3>2. CASE e.mode # "VISUAL_LINE"
      <4>1. e.vcurx \in 0 .. Len(Chars(e, e.vcury))
        <5>1. e.mode = "VISUAL"
          BY <3>2 DEF Selecting
        <5>2. ~ e.vcurx > Len(Chars(e, e.vcury))
          BY <1>4, <5>1
        <5> QED
          BY <1>2, <5>2
      <4> DEFINE s == Cursor(e)
                 t == Mark(e)
      <4>2. s.y = e.cury /\ s.x = e.curx /\ t.y = e.vcury /\ t.x = e.vcurx
        BY DEF Cursor, Mark
      <4> HIDE DEF s, t
      <4>3. CASE Precedes(s, t)
        <5>1. s.y <= t.y
          BY <1>2, <4>2, <4>3 DEF Precedes
        <5>2. Between(e, s, t) \in Seq(Piece)
          BY <1>1, <1>2, <4>1, <4>2, <5>1, BetweenIs
        <5> QED
          BY <3>2, <4>3, <5>2 DEF Selected, s, t
      <4>4. CASE ~ Precedes(s, t)
        <5>1. t.y <= s.y
          BY <1>2, <4>2, <4>4 DEF Precedes
        <5>2. Between(e, t, s) \in Seq(Piece)
          BY <1>1, <1>2, <4>1, <4>2, <5>1, BetweenIs
        <5> QED
          BY <3>2, <4>4, <5>2 DEF Selected, s, t
      <4> QED
        BY <4>3, <4>4
    <3> QED
      BY <3>1, <3>2
  <2> DEFINE clip == Selected(e)
             d == [e EXCEPT !.clip = clip, !.mode = "NORMAL"]
  <2>2. CopySelection(e) = d
    BY <1>4 DEF CopySelection
  <2>3. clip \in Seq(Character \cup {Newline})
    BY <2>1 DEF Piece
  <2> HIDE DEF clip
  <2>4. /\ d \in EditorType /\ d.mode = "NORMAL" /\ d.rows = e.rows /\ d.search = e.search
        /\ d.saved = e.saved /\ d.split = e.split /\ d.miscoloured = e.miscoloured
        /\ d.cury = e.cury /\ d.curx = e.curx /\ d.rcurx = e.rcurx /\ d.rowoff = e.rowoff
    <3>1. "NORMAL" \in Mode
      BY DEF Mode
    <3> QED
      BY <1>1, <2>3, <3>1 DEF EditorType
  <2> HIDE DEF d
  <2>5. InText(d) /\ OnScreen(d)
    BY <1>1, <2>4, SamePlace
  <2>6. Marked(d) /\ (~ d.miscoloured => AllFollow(d.rows))
    BY <1>1, <2>4 DEF Marked, Selecting
  <2>7. Handled(e, d)
    BY <2>4, <2>5, <2>6, HandledIs
  <2> QED
    BY <2>2, <2>7
<1> QED
  BY <1>3, <1>4

\* While something is pasted into e: what stays, and where the cursor is.
Pasting(e, p) ==
    /\ p.search = e.search /\ p.mode = e.mode /\ p.vcury = e.vcury
    /\ p.saved = e.saved /\ p.split = e.split /\ p.miscoloured = e.miscoloured
    /\ p.undefined = e.undefined
    /\ Len(p.rows) >= Len(e.rows) /\ p.cury < Len(p.rows)
    /\ p.curx <= Len(CurrentRow(p)) /\ OnScreen(p)
    /\ ~ e.miscoloured => \A k \in 1 .. Len(p.rows) : k # p.cury + 1 => Follows(p.rows, k)

\* The row of the cursor, ended and rendered.
LEMMA EndedIs ==
    ASSUME NEW e, NEW p \in EditorType, Pasting(e, p)
    PROVE  LET rows == WithRow(p.rows, p.cury + 1, [p.rows[p.cury + 1] EXCEPT !.ended = TRUE])
           IN  /\ rows \in Seq(Row) /\ Len(rows) = Len(p.rows)
               /\ rows[p.cury + 1].chars = CurrentRow(p)
               /\ ~ e.miscoloured => AllFollow(rows)
<1> DEFINE i == p.cury + 1
           row == [p.rows[i] EXCEPT !.ended = TRUE]
           rows == WithRow(p.rows, i, row)
<1>1. p.rows \in Seq(Row) /\ Len(p.rows) \in Nat /\ p.cury \in Nat /\ p.cury < Len(p.rows)
  BY FieldsOf DEF Pasting
<1>2. i \in 1 .. Len(p.rows)
  BY <1>1
<1>3. CurrentRow(p) = p.rows[i].chars
  BY DEF CurrentRow, Chars
<1>4. ~ e.miscoloured => \A k \in 1 .. Len(p.rows) : k # i => Follows(p.rows, k)
  BY DEF Pasting
<1> HIDE DEF i
<1>5. p.rows[i] \in Row /\ p.rows[i].chars \in Seq(Character)
  BY <1>1, <1>2, RowIs
<1>6. row \in Row /\ row.chars = p.rows[i].chars /\ row.unclosed = p.rows[i].unclosed
  BY <1>5, RowWith
<1> HIDE DEF row
<1>7. /\ rows \in Seq(Row) /\ Len(rows) = Len(p.rows) /\ rows[i].chars = row.chars
      /\ Follows(rows, i)
      /\ \A k \in 1 .. Len(p.rows) : k # i /\ Follows(p.rows, k) => Follows(rows, k)
  BY <1>1, <1>2, <1>6, WithRowIs
<1> HIDE DEF rows
<1>8. ~ e.miscoloured => AllFollow(rows)
  BY <1>4, <1>7 DEF AllFollow
<1> QED
  BY <1>3, <1>6, <1>7, <1>8 DEF rows, row, i

LEMMA PastedKeeps ==
    ASSUME NEW e, NEW p \in EditorType, Pasting(e, p), NEW c \in Piece, Len(e.rows) \in Nat
    PROVE  Pasted(p, c) \in EditorType /\ Pasting(e, Pasted(p, c))
<1> DEFINE i == p.cury + 1
           y == p.cury + 1
<1>1. p.rows \in Seq(Row) /\ Len(p.rows) \in Nat /\ p.cury \in Nat /\ p.cury < Len(p.rows)
      /\ p.curx \in Nat /\ p.curx <= Len(CurrentRow(p)) /\ OnScreen(p)
      /\ p.cury \in 0 .. Len(p.rows) - 1
  <2>1. p.rows \in Seq(Row) /\ Len(p.rows) \in Nat /\ p.cury \in Nat /\ p.cury < Len(p.rows)
        /\ p.curx \in Nat /\ p.curx <= Len(CurrentRow(p)) /\ OnScreen(p)
    BY FieldsOf DEF Pasting
  <2> QED
    BY <2>1
<1>2. CurrentRow(p) \in Seq(Character) /\ Len(CurrentRow(p)) \in Nat
  BY <1>1, FieldsOf DEF CurrentRow
<1>3. i \in 1 .. Len(p.rows) /\ i \in Nat
  BY <1>1
<1>4. CASE c = Newline
  <2> DEFINE ended == WithRow(p.rows, p.cury + 1, [p.rows[p.cury + 1] EXCEPT !.ended = TRUE])
             j == p.cury + 2
             row == NewRow(<<>>)
             rows == WithNewRow(ended, j, row)
             o == Below(p)
             d == [p EXCEPT !.rows = rows, !.cury = y, !.curx = 0, !.rowoff = o]
  <2>1. Pasted(p, c) = d
    BY <1>4 DEF Pasted, EditorType
  <2>2. ended \in Seq(Row) /\ Len(ended) = Len(p.rows) /\ (~ e.miscoloured => AllFollow(ended))
    BY EndedIs
  <2> HIDE DEF ended
  <2>3. j \in 2 .. Len(ended) + 1 /\ y \in Nat /\ y < Len(ended) + 1 /\ y + 1 = j
    BY <1>1, <2>2
  <2>4. row \in Row /\ ~ row.unclosed /\ row.chars = <<>>
    <3>1. <<>> \in Seq(Character)
      OBVIOUS
    <3> QED
      BY <3>1 DEF Row, NewRow
  <2>5. LetsFollow(ended, j, row)
    <3>1. <<>> \in Seq(Character) /\ TRUE \in BOOLEAN
      OBVIOUS
    <3>2. Unclosed(<<>>, TRUE) = TRUE
      BY <3>1, UnclosedIs
    <3> QED
      BY <2>4, <3>2 DEF LetsFollow
  <2>6. o \in Nat /\ y - o \in 0 .. MaxRows - 1
    BY <1>1, BelowIs
  <2> HIDE DEF j, row, o, y
  <2>7. rows \in Seq(Row) /\ Len(rows) = Len(ended) + 1 /\ rows[j].chars = row.chars
    BY <2>2, <2>3, <2>4, WithNewRowIs DEF Inserts
  <2>8. ~ e.miscoloured => AllFollow(rows)
    BY <2>2, <2>3, <2>4, <2>5, WithNewRowFollows
  <2> HIDE DEF rows
  <2>9. /\ d \in EditorType /\ d.rows = rows /\ d.cury = y /\ d.curx = 0 /\ d.rowoff = o
        /\ d.search = p.search /\ d.mode = p.mode /\ d.vcury = p.vcury
        /\ d.saved = p.saved /\ d.split = p.split /\ d.miscoloured = p.miscoloured
        /\ d.undefined = p.undefined
    <3>1. 0 \in Nat
      OBVIOUS
    <3> QED
      BY <2>3, <2>6, <2>7, <3>1 DEF EditorType
  <2> HIDE DEF d
  <2>10. CurrentRow(d) = <<>>
    BY <2>3, <2>4, <2>7, <2>9 DEF CurrentRow, Chars
  <2>11. OnScreen(d) /\ d.cury < Len(d.rows) /\ d.curx <= Len(CurrentRow(d))
         /\ Len(d.rows) >= Len(e.rows)
    <3>1. Len(p.rows) >= Len(e.rows)
      BY DEF Pasting
    <3>2. Len(<<>>) = 0
      OBVIOUS
    <3>3. OnScreen(d)
      BY <2>6, <2>9 DEF OnScreen
    <3>4. d.curx <= Len(CurrentRow(d))
      BY <2>9, <2>10, <3>2
    <3> QED
      BY <1>1, <2>2, <2>3, <2>7, <2>9, <3>1, <3>3, <3>4
  <2>12. ~ e.miscoloured => \A k \in 1 .. Len(d.rows) : k # d.cury + 1 => Follows(d.rows, k)
    BY <2>8, <2>9 DEF AllFollow
  <2>13. Pasting(e, d)
    BY <2>9, <2>11, <2>12 DEF Pasting
  <2> QED
    BY <2>1, <2>9, <2>13
<1>5. CASE c # Newline
  <2> DEFINE chars == CurrentRow(p)
             more == Inserted(chars, p.curx, <<c>>)
             row == [p.rows[i] EXCEPT !.chars = more]
             rows == [p.rows EXCEPT ![i] = row]
             x == p.curx + 1
             d == [p EXCEPT !.rows = rows, !.curx = x]
  <2>1. c \in Character
    BY <1>5 DEF Piece
  <2>2. chars = p.rows[i].chars
    BY DEF CurrentRow, Chars
  <2>3. p.rows[i] \in Row
    <3> HIDE DEF i
    <3> QED
      BY <1>1, <1>3, RowIs
  <2>4. Pasted(p, c) = d
    BY <1>1, <1>3, <1>5, <2>2, <2>3 DEF Pasted, EditorType, Row
  <2> HIDE DEF i, chars
  <2>5. more \in Seq(Character) /\ Len(more) = Len(chars) + 1 /\ p.curx \in 0 .. Len(chars)
    <3>1. p.curx \in 0 .. Len(chars)
      BY <1>1, <1>2 DEF chars
    <3> QED
      BY <1>2, <2>1, <3>1, InsertedIs DEF chars
  <2>6. x \in Nat /\ x <= Len(more)
    BY <1>1, <1>2, <2>5 DEF chars
  <2> HIDE DEF more, x
  <2>7. row \in Row /\ row.chars = more /\ row.unclosed = p.rows[i].unclosed
    BY <2>3, <2>5, RowWith
  <2> HIDE DEF row
  <2>8. /\ rows \in Seq(Row) /\ Len(rows) = Len(p.rows)
        /\ \A k \in 1 .. Len(p.rows) : rows[k] = IF k = i THEN row ELSE p.rows[k]
    BY <1>1, <1>3, <2>7, SetIs
  <2> HIDE DEF rows
  <2>9. /\ d \in EditorType /\ d.rows = rows /\ d.cury = p.cury /\ d.curx = x
        /\ d.rowoff = p.rowoff
        /\ d.search = p.search /\ d.mode = p.mode /\ d.vcury = p.vcury
        /\ d.saved = p.saved /\ d.split = p.split /\ d.miscoloured = p.miscoloured
        /\ d.undefined = p.undefined
    BY <2>6, <2>8 DEF EditorType
  <2> HIDE DEF d
  <2>10. CurrentRow(d) = more
    BY <1>3, <2>7, <2>8, <2>9 DEF CurrentRow, Chars, i
  <2>11. OnScreen(d) /\ d.cury < Len(d.rows) /\ d.curx <= Len(CurrentRow(d))
         /\ Len(d.rows) >= Len(e.rows)
    BY <1>1, <2>6, <2>8, <2>9, <2>10 DEF OnScreen, Pasting
  <2>12. ASSUME ~ e.miscoloured, NEW k \in 1 .. Len(rows), k # i PROVE Follows(rows, k)
    <3>1. Follows(p.rows, k) /\ rows[k] = p.rows[k]
      BY <2>8, <2>12 DEF Pasting, i
    <3>2. k > 1 => rows[k - 1].unclosed = p.rows[k - 1].unclosed
      BY <1>1, <2>7, <2>8
    <3>3. (k > 1 /\ rows[k - 1].unclosed) = (k > 1 /\ p.rows[k - 1].unclosed)
      BY <3>2
    <3> QED
      BY <3>1, <3>3 DEF Follows
  <2>13. Pasting(e, d)
    <3>1. i = d.cury + 1
      BY <2>9 DEF i
    <3> QED
      BY <2>9, <2>11, <2>12, <3>1 DEF Pasting
  <2> QED
    BY <2>4, <2>9, <2>13
<1> QED
  BY <1>4, <1>5

LEMMA PastedAllIs ==
    ASSUME NEW e \in EditorType, Pasting(e, e)
    PROVE  PastedAll(e) \in EditorType /\ Pasting(e, PastedAll(e))
<1> DEFINE N == Len(e.clip)
           X == {p \in EditorType : Pasting(e, p)}
           V(n, p) == Pasted(p, e.clip[n])
           G == [q \in (1 .. N) \X X |-> V(q[1], q[2])]
           C == CHOOSE f : f = [n \in 0 .. N |-> IF n = 0 THEN e ELSE V(n, f[n - 1])]
<1>1. e.clip \in Seq(Piece) /\ N \in Nat /\ Len(e.rows) \in Nat
  <2>1. e.clip \in Seq(Piece)
    BY DEF EditorType, Piece
  <2> QED
    BY <2>1, LenProperties, FieldsOf
<1>2. \A n \in 1 .. N : e.clip[n] \in Piece
  BY <1>1, ElementOfSeq
<1>3. \A n \in 1 .. N : \A p \in X : V(n, p) \in X
  BY <1>1, <1>2, PastedKeeps
<1>4. e \in X
  OBVIOUS
<1>5. PastedAll(e) = C[N]
  BY DEF PastedAll
<1> HIDE DEF V, X, N
<1>6. G \in [(1 .. N) \X X -> X]
  BY <1>3
<1>7. PICK f : Recursive(X, e, G, N, f)
  <2> HIDE DEF G
  <2> QED
    BY <1>1, <1>4, <1>6, Recursion
<1>8. f \in [0 .. N -> X] /\ f[0] = e /\ \A n \in 1 .. N : f[n] = G[<<n, f[n - 1]>>]
  BY <1>7 DEF Recursive
<1>9. \A n \in 1 .. N : f[n] = V(n, f[n - 1])
  <2> SUFFICES ASSUME NEW n \in 1 .. N PROVE f[n] = V(n, f[n - 1])
    OBVIOUS
  <2>1. n - 1 \in 0 .. N
    BY <1>1
  <2>2. <<n, f[n - 1]>> \in (1 .. N) \X X
    BY <1>8, <2>1
  <2> QED
    BY <1>8, <2>2
<1>10. \A n \in 0 .. N : f[n] = IF n = 0 THEN e ELSE V(n, f[n - 1])
  BY <1>1, <1>8, <1>9
<1>11. f = [n \in 0 .. N |-> IF n = 0 THEN e ELSE V(n, f[n - 1])]
  BY <1>8, <1>10
<1>12. C = [n \in 0 .. N |-> IF n = 0 THEN e ELSE V(n, C[n - 1])]
  BY <1>11
<1> HIDE DEF C
<1>13. C[0] = e /\ \A n \in 1 .. N : C[n] = V(n, C[n - 1])
  BY <1>1, <1>12
<1> DEFINE S == {n \in 0 .. N : C[n] \in X}
<1>14. 0 \in S
  BY <1>1, <1>4, <1>13
<1>15. ASSUME NEW n \in 1 .. N, n - 1 \in S PROVE n \in S
  BY <1>1, <1>3, <1>13, <1>15
<1>16. 0 .. N \subseteq S
  <2> HIDE DEF S
  <2> QED
    BY <1>1, <1>14, <1>15, InductionTo
<1>17. C[N] \in X
  BY <1>1, <1>16
<1> QED
  BY <1>5, <1>17 DEF X

LEMMA PasteClipboardHandled ==
    ASSUME NEW e, Well(e), NEW moved \in BOOLEAN
    PROVE  Handled(e, PasteClipboard(e, moved))
<1>1. /\ e \in EditorType /\ InText(e) /\ OnScreen(e) /\ (~ e.miscoloured => AllFollow(e.rows))
      /\ Marked(e) /\ Sound(e)
  BY DEF Well, Sound
<1>2. CASE e.clip = <<>>
  <2>1. PasteClipboard(e, moved) = e
    BY <1>2 DEF PasteClipboard
  <2>2. Goes(e, e)
    BY <1>1, StaysGoes
  <2> QED
    BY <2>1, <2>2, MovedHandled DEF Goes
<1>3. CASE e.clip # <<>> /\ Last(e.clip) = Newline /\ moved
  <2>1. PasteClipboard(e, moved) = Undefined(e, "paste")
    BY <1>3 DEF PasteClipboard
  <2>2. "paste" \in Handler \ {""}
    BY DEF Handler
  <2> QED
    BY <1>1, <2>1, <2>2, UndefinedHandled
<1>4. CASE e.clip # <<>> /\ ~ (Last(e.clip) = Newline /\ moved)
  <2> DEFINE p == PastedAll(e)
             rows == WithRow(p.rows, p.cury + 1, [p.rows[p.cury + 1] EXCEPT !.ended = TRUE])
             c == [p EXCEPT !.rows = rows]
             b == Sought(At(c, p.curx))
             off == HalfRight(CurxToRCurx(CurrentRow(p), p.curx), b.coloff)
             d == [b EXCEPT !.coloff = off, !.saved = FALSE]
  <2>1. Pasting(e, e)
    <3>1. /\ Len(e.rows) \in Nat /\ e.cury \in Nat /\ e.curx \in Nat
          /\ e.cury \in 0 .. Len(e.rows) - 1 /\ e.curx \in 0 .. Len(CurrentRow(e))
          /\ Len(CurrentRow(e)) \in Nat
      BY <1>1, FieldsOf DEF InText, CurrentRow
    <3>2. e.cury < Len(e.rows) /\ e.curx <= Len(CurrentRow(e)) /\ Len(e.rows) >= Len(e.rows)
      BY <3>1
    <3> QED
      BY <1>1, <3>2 DEF Pasting, AllFollow
  <2>2. p \in EditorType /\ Pasting(e, p)
    BY <1>1, <2>1, PastedAllIs
  <2>3. PasteClipboard(e, moved) = Placed(p)
    BY <1>4 DEF PasteClipboard
  <2> HIDE DEF p
  <2>4. Placed(p) = d
    <3>1. b = Sought(At([p EXCEPT !.rows = WithRow(@, p.cury + 1, [p.rows[p.cury + 1] EXCEPT !.ended = TRUE])],
                        p.curx))
      BY <2>2 DEF EditorType
    <3> HIDE DEF b
    <3> QED
      BY <3>1 DEF Placed
  <2>5. /\ rows \in Seq(Row) /\ Len(rows) = Len(p.rows) /\ (~ e.miscoloured => AllFollow(rows))
        /\ rows[p.cury + 1].chars = CurrentRow(p)
    BY <2>2, EndedIs
  <2> HIDE DEF rows
  <2>6. /\ c \in EditorType /\ c.rows = rows
        /\ c.curx = p.curx /\ c.cury = p.cury /\ c.rowoff = p.rowoff
        /\ c.search = p.search /\ c.mode = p.mode /\ c.vcury = p.vcury
        /\ c.miscoloured = p.miscoloured /\ c.undefined = p.undefined
    <3>1. c = [p EXCEPT !.rows = rows]
      OBVIOUS
    <3> HIDE DEF c
    <3> QED
      BY <2>2, <2>5, <3>1, RowsAre
  <2> HIDE DEF c
  <2>7. CurrentRow(c) = CurrentRow(p)
    BY <2>5, <2>6 DEF CurrentRow, Chars
  <2>8. c.cury < Len(c.rows) /\ OnScreen(c) /\ p.curx \in 0 .. Len(CurrentRow(c))
        /\ p.cury \in 0 .. Len(p.rows) - 1 /\ Len(CurrentRow(p)) \in Nat
    <3>1. p.curx \in Nat /\ p.curx <= Len(CurrentRow(p)) /\ p.cury \in Nat
          /\ p.cury < Len(p.rows) /\ Len(p.rows) \in Nat
      BY <2>2, FieldsOf DEF Pasting
    <3>2. p.cury \in 0 .. Len(p.rows) - 1
      BY <3>1
    <3>3. Len(CurrentRow(p)) \in Nat
      BY <2>2, <3>2, FieldsOf DEF CurrentRow
    <3>4. p.curx \in 0 .. Len(CurrentRow(c))
      BY <2>7, <3>1, <3>3
    <3>5. OnScreen(c)
      BY <2>2, <2>6 DEF OnScreen, Pasting
    <3>6. c.cury < Len(c.rows)
      BY <2>5, <2>6, <3>1
    <3> QED
      BY <3>2, <3>3, <3>4, <3>5, <3>6
  <2>9. Goes(c, b)
    <3>1. Goes(c, At(c, p.curx))
      BY <2>6, <2>8, AtGoes
    <3> QED
      BY <3>1, SoughtGoes
  <2>10. off \in Int
    <3>1. b.coloff \in Int
      BY <2>9, FieldsOf DEF Goes, Moved
    <3>2. CurxToRCurx(CurrentRow(p), p.curx) \in Nat
      <4>1. CurrentRow(p) \in Seq(Character)
        BY <2>2, <2>8, FieldsOf DEF CurrentRow
      <4> QED
        BY <2>7, <2>8, <4>1, ColumnOf
    <3> HIDE DEF b
    <3> QED
      BY <3>1, <3>2, HalfRightIs
  <2> HIDE DEF b, off
  <2>11. /\ d \in EditorType /\ d.rows = b.rows /\ d.search = b.search /\ d.mode = b.mode
         /\ d.vcury = b.vcury /\ d.miscoloured = b.miscoloured /\ d.saved = FALSE
         /\ d.cury = b.cury /\ d.curx = b.curx /\ d.rcurx = b.rcurx /\ d.rowoff = b.rowoff
    <3>1. FALSE \in BOOLEAN /\ b \in EditorType
      BY <2>9 DEF Goes, Moved
    <3> QED
      BY <2>10, <3>1 DEF EditorType
  <2> HIDE DEF d
  <2>12. InText(d) /\ OnScreen(d)
    BY <2>9, <2>11, SamePlace DEF Goes
  <2>13. d.search = e.search /\ d.rows = rows /\ d.mode = e.mode /\ d.vcury = e.vcury
         /\ d.miscoloured = e.miscoloured
    BY <2>2, <2>6, <2>9, <2>11 DEF Goes, Moved, Pasting
  <2>14. Marked(d)
    <3>1. Len(rows) >= Len(e.rows)
      BY <2>2, <2>5 DEF Pasting
    <3>2. e.vcury \in Nat /\ Len(e.rows) \in Nat /\ Len(rows) \in Nat
      BY <1>1, <2>5, FieldsOf, LenProperties
    <3>3. e.vcury < Len(e.rows) => e.vcury < Len(rows)
      BY <3>1, <3>2
    <3> QED
      BY <1>1, <2>13, <3>3 DEF Marked
  <2>15. Handled(e, d)
    BY <2>5, <2>11, <2>12, <2>13, <2>14, HandledIs
  <2> QED
    BY <2>3, <2>4, <2>15
<1> QED
  BY <1>2, <1>3, <1>4

-----------------------------------------------------------------------------
(* Modes, and what repaints a match.                                       *)

\* But for the cursor, the view, colours and the search, d is e; its mode is
\* the same or not one of selecting.
Turned(e, d) ==
    /\ d \in EditorType
    /\ Len(d.rows) = Len(e.rows) /\ Text(d.rows) = Text(e.rows)
    /\ AllFollow(e.rows) => AllFollow(d.rows)
    /\ d.mode = e.mode \/ d.mode \notin Selecting
    /\ d.vcury = e.vcury /\ d.saved = e.saved /\ d.split = e.split
    /\ d.miscoloured = e.miscoloured

SamePlaceSought(e, d) == d.search.y = e.search.y /\ d.search.x = e.search.x

LEMMA RowsLeft ==
    ASSUME NEW e \in EditorType, e.rows # <<>>, NEW d, Len(d.rows) = Len(e.rows)
    PROVE  d.rows # <<>>
<1>1. e.rows \in Seq(Row) /\ Len(e.rows) # 0
  BY FieldsOf, EmptySeq
<1>2. Len(d.rows) # 0
  BY <1>1
<1>3. Len(<<>>) = 0
  OBVIOUS
<1> QED
  BY <1>2, <1>3

LEMMA TurnedHandled ==
    ASSUME NEW e, Well(e), NEW d, Turned(e, d), Finding(e, d),
           d.undefined = "" => InText(d) /\ OnScreen(d)
    PROVE  Handled(e, d)
<1>1. e \in EditorType /\ e.rows # <<>> /\ Marked(e) /\ (~ e.miscoloured => AllFollow(e.rows))
  BY DEF Well, Sound
<1>2. d.rows # <<>>
  BY <1>1, RowsLeft DEF Turned
<1>3. Marked(d)
  BY <1>1 DEF Marked, Turned
<1>4. Kept(e, d)
  BY DEF Kept, Turned
<1>5. Sound(d)
  BY <1>1, <1>2, <1>3 DEF Sound, Turned
<1> QED
  BY <1>4, <1>5 DEF Handled

LEMMA NothingFound ==
    ASSUME NEW e, NEW d, SamePlaceSought(e, d)
    PROVE  Finding(e, d)
BY DEF Finding, SamePlaceSought

LEMMA TurnedSelf ==
    ASSUME NEW e, Well(e)
    PROVE  Turned(e, e) /\ InText(e) /\ OnScreen(e) /\ SamePlaceSought(e, e)
BY DEF Turned, Well, Sound, SamePlaceSought

LEMMA TurnedOn ==
    ASSUME NEW e, NEW c, NEW d, Turned(e, c), Turned(c, d)
    PROVE  Turned(e, d)
BY DEF Turned

LEMMA MovedTurned ==
    ASSUME NEW e, NEW d, Moved(e, d)
    PROVE  Turned(e, d) /\ SamePlaceSought(e, d)
BY DEF Turned, Moved, SamePlaceSought

\* Something undefined was done while searching, or in another handler.
LEMMA UndefinedTurned ==
    ASSUME NEW e, Well(e), NEW c, Turned(e, c), SamePlaceSought(e, c),
           NEW where \in Handler \ {""}
    PROVE  Handled(e, Undefined(c, where))
<1> DEFINE d == Undefined(c, where)
<1>1. c \in EditorType
  BY DEF Turned
<1>2. /\ d \in EditorType /\ d.rows = c.rows /\ d.search = c.search /\ d.undefined = where
      /\ d.mode = c.mode /\ d.vcury = c.vcury /\ d.saved = c.saved /\ d.split = c.split
      /\ d.miscoloured = c.miscoloured
  BY <1>1 DEF EditorType, Undefined
<1> HIDE DEF d
<1>3. Turned(e, d) /\ SamePlaceSought(e, d)
  BY <1>2 DEF Turned, SamePlaceSought
<1>4. Handled(e, d)
  BY <1>2, <1>3, NothingFound, TurnedHandled
<1> QED
  BY <1>4 DEF d

LEMMA SameTextIs ==
    ASSUME NEW rows, NEW u, SameText(u, rows), rows \in Seq(Row)
    PROVE  Text(u) = Text(rows) /\ Len(u) = Len(rows)
<1>1. /\ u \in Seq(Row) /\ Len(u) = Len(rows)
      /\ \A k \in 1 .. Len(rows) : u[k].chars = rows[k].chars
  BY DEF SameText
<1>2. DOMAIN u = 1 .. Len(rows) /\ DOMAIN rows = 1 .. Len(rows)
  BY <1>1, LenProperties
<1> QED
  BY <1>1, <1>2 DEF Text

LEMMA RepaintedIs ==
    ASSUME NEW e \in EditorType, InText(e), OnScreen(e), ~ RowIsGone(e)
    PROVE  /\ Turned(e, Repainted(e)) /\ InText(Repainted(e)) /\ OnScreen(Repainted(e))
           /\ Repainted(e).search = e.search /\ Repainted(e).undefined = e.undefined
           /\ Repainted(e).cury = e.cury /\ Repainted(e).mode = e.mode
           /\ \A y \in 0 .. Len(e.rows) - 1 :
                 /\ Chars(Repainted(e), y) = Chars(e, y)
                 /\ Repainted(e).rows[y + 1].ended = e.rows[y + 1].ended
<1> DEFINE i == e.search.y + 1
           rows == UpdateSyntax(e.rows, i)
           d == Repainted(e)
<1>1. e.rows \in Seq(Row) /\ Len(e.rows) \in Nat /\ e.search.y \in Nat
      /\ e.cury \in 0 .. Len(e.rows) - 1
  BY FieldsOf DEF EditorType, Search, InText
<1>2. i \in 1 .. Len(e.rows)
  BY <1>1 DEF RowIsGone, Numrows
<1>3. d = [e EXCEPT !.rows = rows]
  BY DEF Repainted
<1> HIDE DEF i
<1>4. SameText(rows, e.rows)
  BY <1>1, <1>2, UpdateKeeps
<1>5. Text(rows) = Text(e.rows) /\ Len(rows) = Len(e.rows)
  BY <1>1, <1>4, SameTextIs
<1>6. /\ Follows(rows, i)
      /\ \A k \in 1 .. Len(e.rows) : k # i /\ Follows(e.rows, k) => Follows(rows, k)
  BY <1>1, <1>2, UpdateFollows
<1> HIDE DEF rows, d
<1>7. AllFollow(e.rows) => AllFollow(rows)
  BY <1>5, <1>6 DEF AllFollow
<1>8. /\ d \in EditorType /\ d.rows = rows
      /\ d.curx = e.curx /\ d.rcurx = e.rcurx /\ d.cury = e.cury /\ d.rowoff = e.rowoff
      /\ d.search = e.search /\ d.mode = e.mode /\ d.vcury = e.vcury
      /\ d.saved = e.saved /\ d.split = e.split
      /\ d.miscoloured = e.miscoloured /\ d.undefined = e.undefined
  <2>1. rows \in Seq(Row)
    BY <1>4 DEF SameText
  <2> QED
    BY <1>3, <2>1, RowsAre
<1>9. ASSUME NEW y \in 0 .. Len(e.rows) - 1
      PROVE  Chars(d, y) = Chars(e, y) /\ d.rows[y + 1].ended = e.rows[y + 1].ended
  <2>1. y + 1 \in 1 .. Len(e.rows)
    BY <1>1
  <2> QED
    BY <1>4, <1>8, <2>1 DEF Chars, SameText
<1>10. CurrentRow(d) = CurrentRow(e)
  BY <1>1, <1>8, <1>9 DEF CurrentRow
<1>11. InText(d) /\ OnScreen(d)
  BY <1>5, <1>8, <1>10 DEF InText, OnScreen
<1>12. Turned(e, d)
  BY <1>5, <1>7, <1>8 DEF Turned
<1> QED
  BY <1>8, <1>9, <1>11, <1>12 DEF d

\* Nothing but the cursor, the view, colours, what is typed of the search and the
\* mode is another, and the cursor is in place.
Held(e, c) == Turned(e, c) /\ SamePlaceSought(e, c) /\ InText(c) /\ OnScreen(c)

LEMMA HeldHandled ==
    ASSUME NEW e, Well(e), NEW d, Held(e, d)
    PROVE  Handled(e, d)
BY NothingFound, TurnedHandled DEF Held

LEMMA ModeHeld ==
    ASSUME NEW e, NEW c, Held(e, c), NEW mode \in Mode \ Selecting,
           NEW d, d = [c EXCEPT !.mode = mode]
    PROVE  Held(e, d)
<1>1. c \in EditorType
  BY DEF Held, Turned
<1>2. /\ d \in EditorType /\ d.rows = c.rows /\ d.search = c.search /\ d.mode = mode
      /\ d.vcury = c.vcury /\ d.saved = c.saved /\ d.split = c.split
      /\ d.miscoloured = c.miscoloured
      /\ d.cury = c.cury /\ d.curx = c.curx /\ d.rcurx = c.rcurx /\ d.rowoff = c.rowoff
  BY <1>1 DEF EditorType
<1>3. InText(d) /\ OnScreen(d)
  BY <1>2, SamePlace DEF Held
<1> QED
  BY <1>2, <1>3 DEF Held, Turned, SamePlaceSought

\* Another search, and where it stops.
LEMMA SearchIs ==
    ASSUME NEW e, NEW c, Turned(e, c), NEW s \in Search, NEW d, d = [c EXCEPT !.search = s]
    PROVE  /\ Turned(e, d) /\ d.search = s /\ d.rows = c.rows /\ d.mode = c.mode
           /\ d.cury = c.cury /\ d.curx = c.curx /\ d.rcurx = c.rcurx /\ d.rowoff = c.rowoff
           /\ d.undefined = c.undefined
           /\ InText(c) /\ OnScreen(c) => InText(d) /\ OnScreen(d)
<1>1. c \in EditorType
  BY DEF Turned
<1>2. /\ d \in EditorType /\ d.rows = c.rows /\ d.search = s /\ d.mode = c.mode
      /\ d.vcury = c.vcury /\ d.saved = c.saved /\ d.split = c.split
      /\ d.miscoloured = c.miscoloured /\ d.undefined = c.undefined
      /\ d.cury = c.cury /\ d.curx = c.curx /\ d.rcurx = c.rcurx /\ d.rowoff = c.rowoff
  BY <1>1 DEF EditorType
<1>3. InText(c) /\ OnScreen(c) => InText(d) /\ OnScreen(d)
  BY <1>2, SamePlace
<1>4. Turned(e, d)
  BY <1>2 DEF Turned
<1> QED
  BY <1>2, <1>3, <1>4

LEMMA SearchHeld ==
    ASSUME NEW e, NEW c, Held(e, c), NEW s \in Search, s.y = c.search.y, s.x = c.search.x,
           NEW d, d = [c EXCEPT !.search = s]
    PROVE  Held(e, d)
<1>1. /\ Turned(e, d) /\ d.search = s /\ InText(d) /\ OnScreen(d)
  BY SearchIs DEF Held
<1> QED
  BY <1>1 DEF Held, SamePlaceSought

LEMMA InsertKeyHandled ==
    ASSUME NEW e, Well(e), NEW c \in {e, GotoEndOfLine(e)}
    PROVE  Handled(e, [c EXCEPT !.mode = "INSERT"])
<1>1. Held(e, e)
  BY TurnedSelf DEF Held
<1>2. Goes(e, GotoEndOfLine(e))
  BY JumpsGo DEF Well, Sound
<1>3. Held(e, c)
  BY <1>1, <1>2, MovedTurned DEF Held, Goes
<1>4. "INSERT" \in Mode \ Selecting
  BY DEF Mode, Selecting
<1> QED
  BY <1>3, <1>4, ModeHeld, HeldHandled

LEMMA SelectKeyHandled ==
    ASSUME NEW e, Well(e),
           NEW c \in {[e EXCEPT !.mode = "VISUAL", !.vcurx = e.curx], [e EXCEPT !.mode = "VISUAL_LINE"]}
    PROVE  Handled(e, [c EXCEPT !.vcury = e.cury])
<1> DEFINE d == [c EXCEPT !.vcury = e.cury]
<1>1. e \in EditorType /\ InText(e) /\ OnScreen(e) /\ (~ e.miscoloured => AllFollow(e.rows))
  BY DEF Well, Sound
<1>2. "VISUAL" \in Mode /\ "VISUAL_LINE" \in Mode /\ e.curx \in Nat /\ e.cury \in Nat
  BY <1>1, FieldsOf DEF Mode
<1>3. /\ c \in EditorType /\ c.rows = e.rows /\ c.search = e.search
      /\ c.saved = e.saved /\ c.split = e.split /\ c.miscoloured = e.miscoloured
      /\ c.cury = e.cury /\ c.curx = e.curx /\ c.rcurx = e.rcurx /\ c.rowoff = e.rowoff
  <2>1. CASE c = [e EXCEPT !.mode = "VISUAL", !.vcurx = e.curx]
    BY <1>1, <1>2, <2>1 DEF EditorType
  <2>2. CASE c = [e EXCEPT !.mode = "VISUAL_LINE"]
    BY <1>1, <1>2, <2>2 DEF EditorType
  <2> QED
    BY <2>1, <2>2
<1>4. /\ d \in EditorType /\ d.rows = e.rows /\ d.search = e.search /\ d.vcury = e.cury
      /\ d.saved = e.saved /\ d.split = e.split /\ d.miscoloured = e.miscoloured
      /\ d.cury = e.cury /\ d.curx = e.curx /\ d.rcurx = e.rcurx /\ d.rowoff = e.rowoff
  BY <1>2, <1>3 DEF EditorType
<1> HIDE DEF d
<1>5. InText(d) /\ OnScreen(d)
  BY <1>1, <1>4, SamePlace
<1>6. d.vcury < Len(d.rows)
  <2>1. e.cury \in 0 .. Len(e.rows) - 1 /\ Len(e.rows) \in Nat
    BY <1>1, FieldsOf DEF InText
  <2>2. e.cury < Len(e.rows)
    BY <2>1
  <2> QED
    BY <1>4, <2>2
<1>7. Handled(e, d)
  BY <1>1, <1>4, <1>5, <1>6, HandledIs DEF Marked
<1> QED
  BY <1>7 DEF d

LEMMA EscapeKeyHandled ==
    ASSUME NEW e, Well(e)
    PROVE  Handled(e, EscapeKey(e))
<1>1. e \in EditorType /\ InText(e) /\ OnScreen(e) /\ Sound(e)
  BY DEF Well, Sound
<1>2. CASE RowIsGone(e)
  <2>1. "escape" \in Handler \ {""}
    BY DEF Handler
  <2> QED
    BY <1>1, <1>2, <2>1, UndefinedHandled DEF EscapeKey
<1>3. CASE ~ RowIsGone(e)
  <2>1. Held(e, Repainted(e))
    <3>1. /\ Turned(e, Repainted(e)) /\ InText(Repainted(e)) /\ OnScreen(Repainted(e))
          /\ Repainted(e).search = e.search
      BY <1>1, <1>3, RepaintedIs
    <3> QED
      BY <3>1 DEF Held, SamePlaceSought
  <2>2. "NORMAL" \in Mode \ Selecting
    BY DEF Mode, Selecting
  <2>3. Handled(e, [Repainted(e) EXCEPT !.mode = "NORMAL"])
    BY <2>1, <2>2, ModeHeld, HeldHandled
  <2> QED
    BY <1>3, <2>3 DEF EscapeKey
<1> QED
  BY <1>2, <1>3

-----------------------------------------------------------------------------
(* The search prompt.                                                      *)

LEMMA ModeKeyHandled ==
    ASSUME NEW e, Well(e),
           NEW d \in {[e EXCEPT !.mode = "COMMAND"],
                      [e EXCEPT !.mode = "SEARCH", !.search.size = 0, !.search.cursor = 0]}
    PROVE  Handled(e, d)
<1>1. Held(e, e) /\ e \in EditorType
  BY TurnedSelf DEF Held, Turned
<1>2. "COMMAND" \in Mode \ Selecting /\ "SEARCH" \in Mode \ Selecting
  BY DEF Mode, Selecting
<1>3. CASE d = [e EXCEPT !.mode = "COMMAND"]
  BY <1>1, <1>2, <1>3, ModeHeld, HeldHandled
<1>4. CASE d = [e EXCEPT !.mode = "SEARCH", !.search.size = 0, !.search.cursor = 0]
  <2> DEFINE c == [e EXCEPT !.mode = "SEARCH"]
             s == [e.search EXCEPT !.size = 0, !.cursor = 0]
  <2>1. Held(e, c)
    BY <1>1, <1>2, ModeHeld
  <2>2. e.search \in Search /\ 0 \in Int /\ 0 \in Nat
    <3>1. 0 \in Int /\ 0 \in Nat
      OBVIOUS
    <3> QED
      BY <1>1, <3>1 DEF EditorType
  <2>3. s \in Search /\ s.y = e.search.y /\ s.x = e.search.x
    BY <2>2 DEF Search
  <2>4. c.search = e.search
    BY <1>1 DEF EditorType
  <2>5. d = [c EXCEPT !.search = s]
    BY <1>1, <1>4 DEF EditorType
  <2> HIDE DEF c, s
  <2> QED
    BY <2>1, <2>3, <2>4, <2>5, SearchHeld, HeldHandled
<1> QED
  BY <1>3, <1>4

LEMMA SearchOf ==
    ASSUME NEW e \in EditorType
    PROVE  /\ e.search \in Search /\ e.search.buf \in [1 .. MAX_SEARCH_BUFFER + 1 -> Sign]
           /\ e.search.size \in Int /\ e.search.cursor \in Nat
           /\ e.search.x \in Nat /\ e.search.y \in Nat
           /\ e.search.found \in BOOLEAN /\ e.search.prev \in BOOLEAN
BY DEF EditorType, Search

LEMMA PromptEdits ==
    ASSUME NEW e, Well(e),
           NEW d \in {PromptBackspace(e), PromptMove(e, -1), PromptMove(e, 1),
                      [e EXCEPT !.mode = "NORMAL"]}
    PROVE  Handled(e, d)
<1>1. Held(e, e) /\ e \in EditorType
  BY TurnedSelf DEF Held, Turned
<1> DEFINE s == e.search
<1>2. /\ s \in Search /\ s.buf \in [1 .. MAX_SEARCH_BUFFER + 1 -> Sign]
      /\ s.size \in Int /\ s.cursor \in Nat
  BY <1>1, SearchOf
<1>3. Handled(e, e)
  BY <1>1, HeldHandled
<1>4. Handled(e, PromptBackspace(e))
  <2>1. CASE s.cursor = 0
    BY <1>3, <2>1 DEF PromptBackspace
  <2>2. CASE s.cursor # 0
    <3> DEFINE buf == [s.buf EXCEPT ![s.cursor + 1] = Space]
               t == [s EXCEPT !.buf = buf, !.cursor = s.cursor - 1, !.size = s.size - 1]
    <3>1. Space \in Sign
      BY DEF Sign
    <3>2. buf \in [1 .. MAX_SEARCH_BUFFER + 1 -> Sign]
      BY <1>2, <3>1
    <3>3. s.cursor - 1 \in Nat /\ s.size - 1 \in Int
      BY <1>2, <2>2
    <3>4. PromptBackspace(e) = [e EXCEPT !.search = t]
      BY <1>1, <2>2 DEF PromptBackspace, EditorType, Search
    <3> HIDE DEF buf
    <3>5. t \in Search /\ t.y = s.y /\ t.x = s.x
      BY <1>2, <3>2, <3>3 DEF Search
    <3> HIDE DEF t
    <3> QED
      BY <1>1, <3>4, <3>5, SearchHeld, HeldHandled
  <2> QED
    BY <2>1, <2>2
<1>5. ASSUME NEW by \in {-1, 1} PROVE Handled(e, PromptMove(e, by))
  <2>1. CASE s.cursor + by \in 0 .. s.size
    <3> DEFINE t == [s EXCEPT !.cursor = s.cursor + by]
    <3>1. s.cursor + by \in Nat
      BY <1>2, <2>1
    <3>2. t \in Search /\ t.y = s.y /\ t.x = s.x
      BY <1>2, <3>1 DEF Search
    <3>3. PromptMove(e, by) = [e EXCEPT !.search = t]
      BY <1>1, <2>1 DEF PromptMove, EditorType, Search
    <3> HIDE DEF t
    <3> QED
      BY <1>1, <3>2, <3>3, SearchHeld, HeldHandled
  <2> QED
    BY <1>3, <2>1 DEF PromptMove
<1>6. Handled(e, [e EXCEPT !.mode = "NORMAL"])
  <2>1. "NORMAL" \in Mode \ Selecting
    BY DEF Mode, Selecting
  <2> QED
    BY <1>1, <2>1, ModeHeld, HeldHandled
<1> QED
  BY <1>4, <1>5, <1>6

\* A character typed at the prompt.
LEMMA PromptedIs ==
    ASSUME NEW e \in EditorType, NEW ch \in Searched, e.search.size < MAX_SEARCH_BUFFER
    PROVE  \E s \in Search : /\ s.y = e.search.y /\ s.x = e.search.x
                             /\ Prompted(e, ch) = [e EXCEPT !.search = s]
<1> DEFINE s == e.search
           D == 1 .. MAX_SEARCH_BUFFER + 1
           buf == [k \in D |-> IF k = s.cursor + 1 THEN ch
                               ELSE IF k = s.size + 2 THEN Nul
                               ELSE IF k \in s.cursor + 2 .. s.size + 1 THEN s.buf[k - 1]
                               ELSE s.buf[k]]
           t == [s EXCEPT !.buf = buf, !.cursor = s.cursor + 1, !.size = s.size + 1]
<1>1. s \in Search /\ s.buf \in [D -> Sign] /\ s.size \in Int /\ s.cursor \in Nat
  BY SearchOf
<1>2. MAX_SEARCH_BUFFER \in Nat
  BY ScreenAssumption
<1>3. ~ s.size >= MAX_SEARCH_BUFFER /\ s.cursor + 1 \in Nat /\ s.size + 1 \in Int
  BY <1>1, <1>2
<1>4. buf \in [D -> Sign]
  <2>1. ch \in Sign /\ Nul \in Sign
    BY DEF Sign
  <2>2. ASSUME NEW k \in D, k \in s.cursor + 2 .. s.size + 1 PROVE k - 1 \in D
    BY <1>1, <1>2, <2>2
  <2> HIDE DEF D, s
  <2> QED
    BY <1>1, <2>1, <2>2
<1>5. Prompted(e, ch) = [e EXCEPT !.search = t]
  <2>1. DOMAIN s.buf = D
    BY <1>1
  <2> HIDE DEF D
  <2> QED
    BY <1>3, <2>1 DEF Prompted, EditorType, Search
<1> HIDE DEF buf
<1>6. t \in Search /\ t.y = s.y /\ t.x = s.x
  BY <1>1, <1>3, <1>4 DEF Search
<1> HIDE DEF t
<1> QED
  BY <1>5, <1>6

-----------------------------------------------------------------------------
(* strstr: what it finds is there.                                         *)

\* str has sub behind at.
Has(str, sub, at) ==
    at \in 0 .. Len(str) /\ at + Len(sub) <= Len(str) /\ \A k \in 1 .. Len(sub) : str[at + k] = sub[k]

\* After n characters of str: where sub was found, or how many of its characters
\* the last ones are.
Sought1(str, sub, n, s) ==
    /\ s \in [j : Nat, at : Int]
    /\ s.at = Nowhere =>
          /\ s.j < Len(sub) /\ s.j <= n
          /\ \A k \in 1 .. s.j : str[(n - s.j) + k] = sub[k]
    /\ s.at # Nowhere => Has(str, sub, s.at)
Next1(str, sub, s, n) ==
    IF s.at # Nowhere THEN s
    ELSE [j |-> IF str[n] = sub[s.j + 1] THEN s.j + 1 ELSE 0,
          at |-> IF str[n] = sub[s.j + 1] /\ s.j + 1 = Len(sub) THEN n - 1 - s.j ELSE Nowhere]

LEMMA Next1Is ==
    ASSUME NEW str, NEW sub, Len(str) \in Nat, Len(sub) \in Nat \ {0},
           NEW n \in 1 .. Len(str), NEW s, Sought1(str, sub, n - 1, s)
    PROVE  Sought1(str, sub, n, Next1(str, sub, s, n))
<1> DEFINE t == Next1(str, sub, s, n)
<1>1. s.j \in Nat /\ s.at \in Int /\ n \in Nat /\ Nowhere \in Int
  BY DEF Sought1, Nowhere
<1>2. CASE s.at # Nowhere
  <2>1. t = s
    BY <1>2 DEF Next1
  <2> QED
    BY <1>2, <2>1 DEF Sought1
<1>3. CASE s.at = Nowhere
  <2> DEFINE j == s.j
  <2>1. /\ j < Len(sub) /\ j <= n - 1
        /\ \A k \in 1 .. j : str[((n - 1) - j) + k] = sub[k]
    BY <1>3 DEF Sought1
  <2>2. CASE str[n] # sub[j + 1]
    <3>1. t = [j |-> 0, at |-> Nowhere]
      BY <1>3, <2>2 DEF Next1
    <3> HIDE DEF t
    <3>2. t.j = 0 /\ t.at = Nowhere /\ t \in [j : Nat, at : Int]
      BY <1>1, <3>1
    <3>3. Sought1(str, sub, n, t)
      BY <1>1, <3>2 DEF Sought1
    <3> QED
      BY <3>3 DEF t
  <2>3. CASE str[n] = sub[j + 1]
    <3>1. \A k \in 1 .. j + 1 : str[((n - 1) - j) + k] = sub[k]
      <4> SUFFICES ASSUME NEW k \in 1 .. j + 1 PROVE str[((n - 1) - j) + k] = sub[k]
        OBVIOUS
      <4> HIDE DEF j
      <4>0. j \in Nat
        BY <1>1 DEF j
      <4>1. CASE k = j + 1
        <5>1. ((n - 1) - j) + k = n
          BY <1>1, <4>0, <4>1
        <5> QED
          BY <2>3, <4>1, <5>1
      <4>2. CASE k # j + 1
        <5>1. k \in 1 .. j
          BY <4>0, <4>2
        <5> QED
          BY <2>1, <5>1
      <4> QED
        BY <4>1, <4>2
    <3>2. CASE j + 1 = Len(sub)
      <4>1. t = [j |-> j + 1, at |-> n - 1 - j]
        BY <1>3, <2>3, <3>2 DEF Next1
      <4> HIDE DEF t
      <4>2. /\ t.at = (n - 1) - j /\ t \in [j : Nat, at : Int] /\ t.at # Nowhere
            /\ t.at \in 0 .. Len(str) /\ t.at + Len(sub) <= Len(str)
        <5>1. t.at = (n - 1) - j /\ t.j = j + 1 /\ t = [j |-> t.j, at |-> t.at]
          BY <4>1
        <5> HIDE DEF j
        <5>2. j \in Nat
          BY <1>1 DEF j
        <5>3. (n - 1) - j \in Nat /\ (n - 1) - j # Nowhere /\ (n - 1) - j <= Len(str)
              /\ ((n - 1) - j) + Len(sub) <= Len(str) /\ j + 1 \in Nat
          BY <1>1, <2>1, <3>2, <5>2 DEF Nowhere
        <5> QED
          BY <5>1, <5>3
      <4>3. Has(str, sub, t.at)
        BY <3>1, <3>2, <4>2 DEF Has
      <4>4. Sought1(str, sub, n, t)
        BY <4>2, <4>3 DEF Sought1
      <4> QED
        BY <4>4 DEF t
    <3>3. CASE j + 1 # Len(sub)
      <4>1. t = [j |-> j + 1, at |-> Nowhere]
        BY <1>3, <2>3, <3>3 DEF Next1
      <4> HIDE DEF t
      <4>2. t.j = j + 1 /\ t.at = Nowhere /\ t \in [j : Nat, at : Int]
        BY <1>1, <4>1
      <4>3. t.j < Len(sub) /\ t.j <= n /\ n - t.j = (n - 1) - j
        <5>1. j \in Nat /\ n \in Nat
          BY <1>1
        <5> HIDE DEF j
        <5>2. j + 1 < Len(sub) /\ j + 1 <= n /\ n - (j + 1) = (n - 1) - j
          BY <2>1, <3>3, <5>1
        <5> QED
          BY <4>2, <5>2
      <4>4. Sought1(str, sub, n, t)
        BY <3>1, <4>2, <4>3 DEF Sought1
      <4> QED
        BY <4>4 DEF t
    <3> QED
      BY <3>2, <3>3
  <2> QED
    BY <2>2, <2>3
<1> QED
  BY <1>2, <1>3

LEMMA StrstrIs ==
    ASSUME NEW S, NEW str \in Seq(S), NEW T, NEW sub \in Seq(T), Strstr(str, sub) # Nowhere
    PROVE  Has(str, sub, Strstr(str, sub))
<1> DEFINE N == Len(str)
           X == [j : Nat, at : Int]
           x == [j |-> 0, at |-> Nowhere]
           G == [p \in (1 .. N) \X X |-> Next1(str, sub, p[2], p[1])]
           C == CHOOSE f : f = [n \in 0 .. N |-> IF n = 0 THEN x ELSE Next1(str, sub, f[n - 1], n)]
<1>1. N \in Nat /\ Len(sub) \in Nat /\ (sub # <<>> => Len(sub) \in Nat \ {0})
  BY LenProperties, EmptySeq
<1>2. sub # <<>>
  BY DEF Strstr
<1>3. x \in X
  BY DEF Nowhere
<1>4. ASSUME NEW s \in X, NEW n \in 1 .. N PROVE Next1(str, sub, s, n) \in X
  <2>1. s.j \in Nat /\ s.at \in Int /\ n \in Nat /\ Nowhere \in Int
    BY <1>1, <1>4 DEF Nowhere
  <2>2. s.j + 1 \in Nat /\ n - 1 - s.j \in Int /\ 0 \in Nat
    BY <2>1
  <2> QED
    BY <2>1, <2>2 DEF Next1
<1>5. G \in [(1 .. N) \X X -> X]
  <2>1. \A p \in (1 .. N) \X X : p[1] \in 1 .. N /\ p[2] \in X
    OBVIOUS
  <2> HIDE DEF X, N
  <2> QED
    BY <1>4, <2>1
<1>6. PICK f : Recursive(X, x, G, N, f)
  <2> HIDE DEF N, G, x, X
  <2> QED
    BY <1>1, <1>3, <1>5, Recursion
<1> HIDE DEF x, X
<1>7. f \in [0 .. N -> X] /\ f[0] = x /\ \A k \in 1 .. N : f[k] = G[<<k, f[k - 1]>>]
  BY <1>6 DEF Recursive
<1>8. \A k \in 1 .. N : f[k] = Next1(str, sub, f[k - 1], k)
  <2> SUFFICES ASSUME NEW k \in 1 .. N PROVE f[k] = Next1(str, sub, f[k - 1], k)
    OBVIOUS
  <2>1. k - 1 \in 0 .. N /\ f[k - 1] \in X
    BY <1>1, <1>7
  <2>2. <<k, f[k - 1]>> \in (1 .. N) \X X
    BY <2>1
  <2> QED
    BY <1>7, <2>2
<1>9. \A k \in 0 .. N : f[k] = IF k = 0 THEN x ELSE Next1(str, sub, f[k - 1], k)
  BY <1>1, <1>7, <1>8
<1>10. f = [k \in 0 .. N |-> IF k = 0 THEN x ELSE Next1(str, sub, f[k - 1], k)]
  BY <1>7, <1>9
<1>11. C = [k \in 0 .. N |-> IF k = 0 THEN x ELSE Next1(str, sub, C[k - 1], k)]
  BY <1>10
<1>12. Strstr(str, sub) = C[N].at
  BY <1>2 DEF Strstr, Next1, x
<1> HIDE DEF C
<1>13. C[0] = x /\ \A k \in 1 .. N : C[k] = Next1(str, sub, C[k - 1], k)
  BY <1>1, <1>11
<1> DEFINE Good == {n \in 0 .. N : Sought1(str, sub, n, C[n])}
<1>14. 0 \in Good
  <2>1. x.j = 0 /\ x.at = Nowhere /\ x \in [j : Nat, at : Int]
    BY <1>3 DEF x, X
  <2>2. Sought1(str, sub, 0, x)
    BY <1>1, <1>2, <2>1 DEF Sought1
  <2> QED
    BY <1>1, <1>13, <2>2
<1>15. ASSUME NEW n \in 1 .. N, n - 1 \in Good PROVE n \in Good
  <2>1. Sought1(str, sub, n - 1, C[n - 1]) /\ C[n] = Next1(str, sub, C[n - 1], n)
    BY <1>13, <1>15
  <2>2. Sought1(str, sub, n, C[n])
    BY <1>1, <1>2, <2>1, Next1Is
  <2> QED
    BY <1>1, <2>2
<1>16. 0 .. N \subseteq Good
  <2> HIDE DEF Good, N
  <2> QED
    BY <1>1, <1>14, <1>15, InductionTo
<1>17. Sought1(str, sub, N, C[N])
  BY <1>1, <1>16
<1> QED
  BY <1>12, <1>17 DEF Sought1

\* strrstr stays in the string.
LEMMA StrrstrIs ==
    ASSUME NEW S, NEW str \in Seq(S), NEW T, NEW sub \in Seq(T), Strrstr(str, sub) # Nowhere
    PROVE  Strrstr(str, sub) \in 0 .. Len(str)
<1> DEFINE L == Len(str)
           N == L - 1
           X == [j : Int, at : -1 .. L]
           x == [j |-> Len(sub), at |-> Nowhere]
           Step1(s, n) ==
               IF s.at # Nowhere THEN s
               ELSE [j |-> IF str[(L - n) + 1] = sub[s.j] THEN s.j - 1 ELSE Len(sub),
                     at |-> IF str[(L - n) + 1] = sub[s.j] /\ s.j = 2 THEN (L - n) - 1 ELSE Nowhere]
           G == [p \in (1 .. N) \X X |-> Step1(p[2], p[1])]
           C == CHOOSE f : f = [n \in 0 .. N |-> IF n = 0 THEN x ELSE Step1(f[n - 1], n)]
<1>1. L \in Nat /\ Len(sub) \in Nat
  BY LenProperties
<1>2. CASE sub = <<>>
  BY <1>1, <1>2 DEF Strrstr
<1>3. CASE sub # <<>>
  <2>1. ~ (Len(sub) = 1 \/ L < 2)
    BY <1>3 DEF Strrstr
  <2>2. L >= 2 /\ N \in Nat
    BY <1>1, <2>1
  <2>3. x \in X
    BY <1>1 DEF Nowhere
  <2>4. ASSUME NEW s \in X, NEW n \in 1 .. N PROVE Step1(s, n) \in X
    <3>1. (L - n) - 1 \in -1 .. L /\ Nowhere \in -1 .. L /\ s.j - 1 \in Int /\ Len(sub) \in Int
      BY <1>1, <2>2 DEF Nowhere
    <3> QED
      BY <3>1
  <2>5. G \in [(1 .. N) \X X -> X]
    <3>1. \A p \in (1 .. N) \X X : p[1] \in 1 .. N /\ p[2] \in X
      OBVIOUS
    <3> HIDE DEF X, N, Step1
    <3> QED
      BY <2>4, <3>1
  <2>6. PICK f : Recursive(X, x, G, N, f)
    <3> HIDE DEF N, G, x, X
    <3> QED
      BY <2>2, <2>3, <2>5, Recursion
  <2> HIDE DEF x, X, Step1
  <2>7. f \in [0 .. N -> X] /\ f[0] = x /\ \A k \in 1 .. N : f[k] = G[<<k, f[k - 1]>>]
    BY <2>6 DEF Recursive
  <2>8. \A k \in 1 .. N : f[k] = Step1(f[k - 1], k)
    <3> SUFFICES ASSUME NEW k \in 1 .. N PROVE f[k] = Step1(f[k - 1], k)
      OBVIOUS
    <3>1. k - 1 \in 0 .. N /\ f[k - 1] \in X
      BY <2>2, <2>7
    <3>2. <<k, f[k - 1]>> \in (1 .. N) \X X
      BY <3>1
    <3> QED
      BY <2>7, <3>2
  <2>9. \A k \in 0 .. N : f[k] = IF k = 0 THEN x ELSE Step1(f[k - 1], k)
    BY <2>2, <2>7, <2>8
  <2>10. f = [k \in 0 .. N |-> IF k = 0 THEN x ELSE Step1(f[k - 1], k)]
    BY <2>7, <2>9
  <2>11. C = [k \in 0 .. N |-> IF k = 0 THEN x ELSE Step1(C[k - 1], k)]
    BY <2>10
  <2>12. Strrstr(str, sub) = C[N].at
    BY <1>3, <2>1 DEF Strrstr, Step1, x
  <2> HIDE DEF C
  <2>13. C[0] = x /\ \A k \in 1 .. N : C[k] = Step1(C[k - 1], k)
    BY <2>2, <2>11
  <2> DEFINE Good == {n \in 0 .. N : C[n] \in X}
  <2>14. 0 .. N \subseteq Good
    <3>1. 0 \in Good
      BY <2>2, <2>3, <2>13
    <3>2. ASSUME NEW n \in 1 .. N, n - 1 \in Good PROVE n \in Good
      <4>1. C[n - 1] \in X /\ C[n] = Step1(C[n - 1], n) /\ n \in 0 .. N
        BY <2>2, <2>13, <3>2
      <4> QED
        BY <2>4, <4>1
    <3> HIDE DEF Good, N
    <3> QED
      BY <2>2, <3>1, <3>2, InductionTo
  <2>15. C[N].at \in -1 .. L
    BY <2>2, <2>14 DEF X
  <2> QED
    BY <1>1, <2>12, <2>15 DEF Nowhere
<1> QED
  BY <1>2, <1>3

-----------------------------------------------------------------------------
(* Where a search looks, and where it stops.                               *)

LEMMA PatternIs ==
    ASSUME NEW e \in EditorType, Terminated(e)
    PROVE  Pattern(e) \in Seq(Sign) /\ Len(Pattern(e)) \in Nat
<1> DEFINE buf == e.search.buf
           S == {k \in DOMAIN buf : buf[k] = Nul}
<1>1. buf \in [1 .. MAX_SEARCH_BUFFER + 1 -> Sign] /\ MAX_SEARCH_BUFFER \in Nat
  BY SearchOf, ScreenAssumption
<1>2. S # {} /\ S \in SUBSET Nat
  BY <1>1 DEF Terminated, Range
<1>3. Min(S) \in 1 .. MAX_SEARCH_BUFFER + 1
  <2>1. Min(S) \in S
    <3> HIDE DEF S
    <3> QED
      BY <1>2, MinIs
  <2> QED
    BY <1>1, <2>1
<1> DEFINE m == Min(S)
<1>4. Pattern(e) = SubSeq(buf, 1, m - 1)
  BY DEF Pattern
<1>5. \A k \in 1 .. m - 1 : buf[k] \in Sign
  <2> HIDE DEF S
  <2> QED
    BY <1>1, <1>3
<1> HIDE DEF m, buf
<1>6. m - 1 \in Nat
  BY <1>1, <1>3 DEF m
<1>7. SubSeq(buf, 1, m - 1) \in Seq(Sign)
  <2>1. SubSeq(buf, 1, m - 1) = [k \in 1 .. m - 1 |-> buf[k]]
    BY <1>6
  <2>2. [k \in 1 .. m - 1 |-> buf[k]] \in [1 .. m - 1 -> Sign]
    BY <1>5
  <2> QED
    BY <1>6, <2>1, <2>2, SeqDef
<1> QED
  BY <1>4, <1>7, LenProperties

Probes(e) == [y : 0 .. Len(e.rows) - 1, x : Nat]

LEMMA AheadIs ==
    ASSUME NEW e \in EditorType, Terminated(e), NEW p \in Probes(e),
           p.x <= Len(Chars(e, p.y)), Ahead(e, p) # Nowhere
    PROVE  /\ Ahead(e, p) \in 0 .. Len(Chars(e, p.y))
           /\ Pattern(e) = SubSeq(Chars(e, p.y), Ahead(e, p) + 1, Ahead(e, p) + Len(Pattern(e)))
<1> DEFINE chars == Chars(e, p.y)
           n == Len(chars)
           x == p.x
           rest == SubSeq(chars, x + 1, n)
           sub == Pattern(e)
           m == Len(sub)
           at == Strstr(rest, sub)
           a == Ahead(e, p)
<1>1. p.y \in 0 .. Len(e.rows) - 1 /\ x \in Nat
  BY DEF Probes
<1>2. chars \in Seq(Character) /\ n \in Nat /\ x <= n
  BY <1>1, FieldsOf
<1>3. sub \in Seq(Sign) /\ m \in Nat
  BY PatternIs
<1>4. a = (IF at = Nowhere THEN Nowhere ELSE x + at)
  BY DEF Ahead
<1> HIDE DEF chars, sub, x, a
<1>5. rest \in Seq(Character) /\ Len(rest) = n - x /\ \A k \in 1 .. n - x : rest[k] = chars[x + k]
  <2>1. Len(chars) \in 0 .. Len(chars) /\ x + 1 \in 1 .. Len(chars) + 1
    BY <1>1, <1>2
  <2> QED
    BY <1>1, <1>2, <2>1, PartIs
<1> HIDE DEF rest
<1>6. at # Nowhere /\ a = x + at
  BY <1>4 DEF a
<1>7. Has(rest, sub, at)
  BY <1>3, <1>5, <1>6, StrstrIs
<1> HIDE DEF at, n, m
<1>8. at \in Nat /\ at + m <= n - x /\ \A k \in 1 .. m : rest[at + k] = sub[k]
  BY <1>2, <1>5, <1>7 DEF Has, n, m
<1>9. a \in 0 .. n /\ a + m <= n /\ a \in Nat
  BY <1>1, <1>2, <1>3, <1>6, <1>8
<1>10. ASSUME NEW k \in 1 .. m PROVE chars[a + k] = sub[k]
  <2>1. at + k \in 1 .. n - x /\ x + (at + k) = a + k
    BY <1>1, <1>2, <1>3, <1>6, <1>8
  <2>2. rest[at + k] = chars[x + (at + k)]
    BY <1>5, <2>1
  <2> QED
    BY <1>8, <2>1, <2>2
<1>11. sub = SubSeq(chars, a + 1, a + m)
  <2> DEFINE part == SubSeq(chars, a + 1, a + m)
  <2>1. part = [k \in 1 .. m |-> chars[a + k]]
    <3>1. (a + m) - (a + 1) + 1 = m /\ \A k \in 1 .. m : k + (a + 1) - 1 = a + k
      BY <1>3, <1>9
    <3> QED
      BY <1>3, <1>9, <3>1
  <2>2. sub = [k \in 1 .. m |-> sub[k]]
    BY <1>3 DEF m
  <2> QED
    BY <1>10, <2>1, <2>2
<1> QED
  BY <1>9, <1>11 DEF a, chars, n, sub, m

LEMMA NotBelow ==
    ASSUME NEW m \in Nat, NEW n \in Nat
    PROVE  Max({m - n, 0}) = IF m - n <= 0 THEN 0 ELSE m - n
<1> DEFINE d == m - n
<1>1. d \in Int /\ 0 \in Int
  OBVIOUS
<1> HIDE DEF d
<1>2. Max({d, 0}) = IF d <= 0 THEN 0 ELSE d
  BY <1>1, OfTwo
<1> QED
  BY <1>2 DEF d

\* The view around line y.
LEMMA ViewOf ==
    ASSUME NEW y \in Nat, NEW o \in Nat
    PROVE  LET r == IF y >= o + MaxRows - SEARCH_MARGIN_TB - 1 THEN y - MaxRows + SEARCH_MARGIN_TB + 1
                    ELSE IF y < o THEN Max({y - SEARCH_MARGIN_TB, 0}) ELSE o
           IN  r \in Nat /\ y - r \in 0 .. MaxRows - 1
<1> DEFINE t == Max({y - SEARCH_MARGIN_TB, 0})
<1>1. MaxRows \in Nat /\ SEARCH_MARGIN_TB \in Nat /\ SEARCH_MARGIN_TB + 1 < MaxRows
  BY Screen
<1>2. t = IF y - SEARCH_MARGIN_TB <= 0 THEN 0 ELSE y - SEARCH_MARGIN_TB
  BY <1>1, NotBelow
<1> HIDE DEF t
<1>3. t \in Nat /\ y - t \in 0 .. SEARCH_MARGIN_TB
  BY <1>1, <1>2
<1> QED
  BY <1>1, <1>3 DEF t

LEMMA ColumnOfView ==
    ASSUME NEW x \in Nat, NEW o \in Int
    PROVE  (IF x >= o + MaxCols - SEARCH_MARGIN_S - 1 THEN x - MaxCols + SEARCH_MARGIN_S + 1
            ELSE IF x < o THEN Max({x - SEARCH_MARGIN_S, 0}) ELSE o) \in Int
<1>1. MaxCols \in Nat /\ SEARCH_MARGIN_S \in Nat
  BY Screen
<1>2. Max({x - SEARCH_MARGIN_S, 0}) \in Int
  <2>1. Max({x - SEARCH_MARGIN_S, 0}) = IF x - SEARCH_MARGIN_S <= 0 THEN 0 ELSE x - SEARCH_MARGIN_S
    BY <1>1, NotBelow
  <2>2. x - SEARCH_MARGIN_S \in Int
    BY <1>1
  <2> QED
    BY <2>1, <2>2
<1> QED
  BY <1>1, <1>2

LEMMA HitGoes ==
    ASSUME NEW e \in EditorType, NEW y \in 0 .. Len(e.rows) - 1, NEW curx \in 0 .. Len(Chars(e, y))
    PROVE  /\ Goes(e, Seen(Hit(e, y, curx)))
           /\ Seen(Hit(e, y, curx)).cury = y /\ Seen(Hit(e, y, curx)).curx = curx
<1> DEFINE off == IF y >= e.rowoff + MaxRows - SEARCH_MARGIN_TB - 1
                  THEN y - MaxRows + SEARCH_MARGIN_TB + 1
                  ELSE IF y < e.rowoff THEN Max({y - SEARCH_MARGIN_TB, 0}) ELSE e.rowoff
           c == [e EXCEPT !.cury = y, !.rowoff = off]
           b == At(c, curx)
           col == IF b.rcurx >= b.coloff + MaxCols - SEARCH_MARGIN_S - 1
                  THEN b.rcurx - MaxCols + SEARCH_MARGIN_S + 1
                  ELSE IF b.rcurx < b.coloff THEN Max({b.rcurx - SEARCH_MARGIN_S, 0}) ELSE b.coloff
           d == [b EXCEPT !.coloff = col]
<1>1. e.rowoff \in Nat /\ Len(e.rows) \in Nat /\ y \in Nat /\ y < Len(e.rows)
  BY FieldsOf
<1>2. off \in Nat /\ y - off \in 0 .. MaxRows - 1
  BY <1>1, ViewOf
<1>3. Hit(e, y, curx) = b
  BY DEF Hit, EditorType
<1>4. Seen(b) = Sought(d)
  BY DEF Seen
<1> HIDE DEF off
<1>5. Moved(e, c) /\ c.cury = y /\ c.rowoff = off
  BY <1>1, <1>2 DEF Moved, EditorType
<1> HIDE DEF c
<1>6. OnScreen(c) /\ c \in EditorType /\ c.cury < Len(c.rows) /\ c.rows = e.rows
  BY <1>1, <1>2, <1>5 DEF OnScreen, Moved
<1>7. CurrentRow(c) = Chars(e, y)
  BY <1>5, <1>6 DEF CurrentRow, Chars
<1>8. Goes(c, b) /\ b.curx = curx /\ b.cury = y
  <2>1. curx \in 0 .. Len(CurrentRow(c))
    BY <1>7
  <2>2. b.curx = curx /\ b.cury = c.cury
    BY <1>6, <2>1, AtIs
  <2> QED
    BY <1>5, <1>6, <2>1, <2>2, AtGoes
<1> HIDE DEF b
<1>9. b \in EditorType
  BY <1>8 DEF Goes, Moved
<1>10. col \in Int
  <2>1. b.rcurx \in Nat /\ b.coloff \in Int
    BY <1>9, FieldsOf
  <2> QED
    BY <2>1, ColumnOfView
<1> HIDE DEF col
<1>11. /\ Moved(b, d) /\ d.cury = b.cury /\ d.curx = b.curx /\ d.rcurx = b.rcurx
       /\ d.rowoff = b.rowoff /\ d.rows = b.rows
  BY <1>9, <1>10 DEF Moved, EditorType
<1> HIDE DEF d
<1>12. InText(d) /\ OnScreen(d)
  BY <1>8, <1>11, SamePlace DEF Goes
<1>13. Goes(e, d)
  BY <1>5, <1>8, <1>11, <1>12 DEF Goes, Moved
<1>14. Goes(e, Sought(d)) /\ Sought(d).cury = y
  BY <1>8, <1>11, <1>13, SoughtGoes
<1>15. Sought(d).curx = curx
  <2>1. d \in EditorType
    BY <1>11 DEF Moved
  <2>2. Sought(d).curx = d.curx
    BY <2>1 DEF Sought, EditorType
  <2> QED
    BY <1>8, <1>11, <2>2
<1> QED
  BY <1>3, <1>4, <1>14, <1>15

LEMMA FoundHandled ==
    ASSUME NEW e, Well(e), NEW c, Held(e, c), Terminated(c),
           NEW y \in 0 .. Len(c.rows) - 1, NEW curx \in 0 .. Len(Chars(c, y)),
           Pattern(c) = SubSeq(Chars(c, y), curx + 1, curx + Len(Pattern(c)))
    PROVE  Handled(e, Found(c, y, curx))
<1> DEFINE b == Seen(Hit(c, y, curx))
           s == [b.search EXCEPT !.x = curx + 1, !.y = y, !.found = TRUE]
           d == Found(c, y, curx)
<1>1. c \in EditorType
  BY DEF Held, Turned
<1>2. Goes(c, b) /\ b.cury = y /\ b.curx = curx
  BY <1>1, HitGoes
<1> HIDE DEF b
<1>3. b \in EditorType /\ b.rows = c.rows /\ b.search = c.search /\ Turned(c, b) /\ InText(b) /\ OnScreen(b)
  BY <1>2, MovedTurned DEF Goes, Moved
<1>4. Turned(e, b)
  BY <1>3, TurnedOn DEF Held
<1>5. d = [b EXCEPT !.search = s]
  BY <1>3 DEF Found, b, EditorType
<1>6. curx \in Nat /\ curx + 1 \in Nat /\ y \in Nat
  <2>1. Len(Chars(c, y)) \in Nat /\ Len(c.rows) \in Nat
    BY <1>1, FieldsOf
  <2> QED
    BY <2>1
<1>7. s \in Search /\ s.buf = b.search.buf /\ s.x = curx + 1 /\ s.y = y
  <2>1. b.search \in Search /\ TRUE \in BOOLEAN
    BY <1>3, SearchOf
  <2> QED
    BY <1>6, <2>1 DEF Search
<1> HIDE DEF s, d
<1>8. /\ Turned(e, d) /\ d.search = s /\ d.rows = b.rows /\ d.cury = y /\ d.curx = curx
      /\ InText(d) /\ OnScreen(d)
  BY <1>2, <1>3, <1>4, <1>5, <1>7, SearchIs
<1>9. Pattern(d) = Pattern(c) /\ CurrentRow(d) = Chars(c, y)
  BY <1>3, <1>7, <1>8 DEF Pattern, CurrentRow, Chars
<1>10. Finding(e, d)
  BY <1>8, <1>9 DEF Finding
<1>11. Handled(e, d)
  BY <1>8, <1>10, TurnedHandled
<1> QED
  BY <1>11 DEF d

LEMMA LookedAheadHandled ==
    ASSUME NEW e, Well(e), NEW c, Held(e, c), Terminated(c),
           NEW probes \in Seq(Probes(c)), NEW none, Handled(e, none)
    PROVE  Handled(e, LookedAhead(c, probes, none))
<1> DEFINE stops == {k \in DOMAIN probes : \/ ~ Readable(c, probes[k])
                                           \/ Ahead(c, probes[k]) # Nowhere}
           stop == probes[Min(stops)]
<1>1. c \in EditorType
  BY DEF Held, Turned
<1>2. CASE stops = {}
  BY <1>2 DEF LookedAhead
<1>3. CASE stops # {}
  <2>1. DOMAIN probes = 1 .. Len(probes) /\ Len(probes) \in Nat /\ \A k \in 1 .. Len(probes) : probes[k] \in Probes(c)
    BY LenProperties, ElementOfSeq
  <2>2. Min(stops) \in stops
    <3>1. stops \in SUBSET Nat
      BY <2>1
    <3> HIDE DEF stops
    <3> QED
      BY <1>3, <3>1, MinIs
  <2>3. stop \in Probes(c) /\ (Readable(c, stop) => Ahead(c, stop) # Nowhere)
    BY <2>1, <2>2
  <2>4. LookedAhead(c, probes, none) = IF ~ Readable(c, stop) THEN Undefined(c, "search")
                                       ELSE Found(c, stop.y, Ahead(c, stop))
    BY <1>3 DEF LookedAhead
  <2> HIDE DEF stop
  <2>5. CASE ~ Readable(c, stop)
    <3>1. "search" \in Handler \ {""}
      BY DEF Handler
    <3>2. Handled(e, Undefined(c, "search"))
      BY <3>1, UndefinedTurned DEF Held
    <3> QED
      BY <2>4, <2>5, <3>2
  <2>6. CASE Readable(c, stop)
    <3>1. stop.y \in 0 .. Len(c.rows) - 1 /\ stop.x \in Nat
      BY <2>3 DEF Probes
    <3>2. stop.x <= Len(Chars(c, stop.y)) /\ Ahead(c, stop) # Nowhere
      BY <2>3, <2>6 DEF Readable
    <3>3. /\ Ahead(c, stop) \in 0 .. Len(Chars(c, stop.y))
          /\ Pattern(c) = SubSeq(Chars(c, stop.y), Ahead(c, stop) + 1, Ahead(c, stop) + Len(Pattern(c)))
      BY <1>1, <2>3, <3>2, AheadIs
    <3>4. Handled(e, Found(c, stop.y, Ahead(c, stop)))
      BY <3>1, <3>3, FoundHandled
    <3> QED
      BY <2>4, <2>6, <3>4
  <2> QED
    BY <2>5, <2>6
<1> QED
  BY <1>2, <1>3

LEMMA OnwardIs ==
    ASSUME NEW e \in EditorType, NEW y \in 0 .. Len(e.rows) - 1, NEW x \in Nat
    PROVE  Onward(e, y, x) \in Seq(Probes(e))
<1> DEFINE L == Len(e.rows)
           P == Probes(e)
           first == <<[y |-> y, x |-> x]>>
           below == [k \in 1 .. L - 1 - y |-> [y |-> y + k, x |-> 0]]
           all == [k \in 1 .. L |-> [y |-> k - 1, x |-> 0]]
<1>1. L \in Nat /\ y \in Nat /\ L - 1 - y \in Nat
  BY FieldsOf
<1>2. first \in Seq(P)
  <2>1. [y |-> y, x |-> x] \in P
    BY DEF Probes
  <2> QED
    BY <2>1
<1>3. below \in Seq(P)
  <2>1. ASSUME NEW k \in 1 .. L - 1 - y PROVE [y |-> y + k, x |-> 0] \in P
    <3>1. y + k \in 0 .. L - 1 /\ 0 \in Nat
      BY <1>1
    <3> QED
      BY <3>1 DEF Probes
  <2> HIDE DEF P, L
  <2>2. below \in [1 .. L - 1 - y -> P]
    BY <2>1
  <2> QED
    BY <1>1, <2>2, SeqDef
<1>4. all \in Seq(P)
  <2>1. ASSUME NEW k \in 1 .. L PROVE [y |-> k - 1, x |-> 0] \in P
    <3>1. k - 1 \in 0 .. L - 1 /\ 0 \in Nat
      BY <1>1
    <3> QED
      BY <3>1 DEF Probes
  <2> HIDE DEF P, L
  <2>2. all \in [1 .. L -> P]
    BY <2>1
  <2> QED
    BY <1>1, <2>2, SeqDef
<1>5. Onward(e, y, x) = first \o below \o all
  BY DEF Onward, Numrows
<1> HIDE DEF first, below, all, P
<1>6. first \o below \in Seq(P)
  BY <1>2, <1>3, ConcatIs
<1>7. (first \o below) \o all \in Seq(P)
  BY <1>4, <1>6, ConcatIs
<1> QED
  BY <1>5, <1>7 DEF P

\* The match that was shown has its colours back.
Seeks(c, s, d) == d = [c EXCEPT !.search = s]
LEMMA RepaintedOn ==
    ASSUME NEW e, NEW c, Held(e, c), ~ RowIsGone(c),
           NEW s \in Search, s.y = c.search.y, s.x = c.search.x,
           NEW d, Seeks(Repainted(c), s, d)
    PROVE  Held(e, d) /\ d.search = s /\ d.cury = c.cury /\ Len(d.rows) = Len(c.rows)
<1>1. c \in EditorType
  BY DEF Held, Turned
<1>2. /\ Turned(c, Repainted(c)) /\ InText(Repainted(c)) /\ OnScreen(Repainted(c))
      /\ Repainted(c).search = c.search /\ Repainted(c).cury = c.cury
  BY <1>1, RepaintedIs DEF Held
<1>3. Turned(e, Repainted(c))
  BY <1>2, TurnedOn DEF Held
<1>4. /\ Turned(e, d) /\ d.search = s /\ d.rows = Repainted(c).rows /\ d.cury = Repainted(c).cury
      /\ InText(d) /\ OnScreen(d)
  BY <1>2, <1>3, SearchIs DEF Seeks
<1>5. Held(e, d)
  BY <1>4 DEF Held, SamePlaceSought
<1> QED
  BY <1>2, <1>4, <1>5 DEF Turned

\* And it is known which way the search goes.
Repaint(c, d) ==
    \/ d = [Repainted(c) EXCEPT !.search.prev = FALSE]
    \/ d = [Repainted(c) EXCEPT !.search.prev = TRUE] /\ d.search.prev

LEMMA RepaintIs ==
    ASSUME NEW e, NEW c, Held(e, c), ~ RowIsGone(c)
    PROVE  /\ Repaint(c, [Repainted(c) EXCEPT !.search.prev = FALSE])
           /\ Repaint(c, [Repainted(c) EXCEPT !.search.prev = TRUE])
           /\ [Repainted(c) EXCEPT !.search.prev = TRUE].search.prev
<1> DEFINE b == Repainted(c)
<1>1. c \in EditorType
  BY DEF Held, Turned
<1>2. b \in EditorType
  <2>1. Turned(c, b)
    BY <1>1, RepaintedIs DEF Held
  <2> QED
    BY <2>1 DEF Turned
<1> HIDE DEF b
<1>3. [b EXCEPT !.search.prev = TRUE].search.prev = TRUE
  BY <1>2 DEF EditorType, Search
<1> QED
  BY <1>3 DEF Repaint, b

LEMMA RepaintedHeld ==
    ASSUME NEW e, NEW c, Held(e, c), ~ RowIsGone(c), NEW d, Repaint(c, d)
    PROVE  /\ Held(e, d) /\ d.search.buf = c.search.buf /\ d.search.x = c.search.x
           /\ d.cury = c.cury /\ Len(d.rows) = Len(c.rows)
<1> DEFINE b == Repainted(c)
           no == [c.search EXCEPT !.prev = FALSE]
           yes == [c.search EXCEPT !.prev = TRUE]
<1>1. c \in EditorType
  BY DEF Held, Turned
<1>2. c.search \in Search
  BY <1>1, SearchOf
<1>3. b \in EditorType /\ b.search = c.search
  <2>1. Turned(c, b) /\ b.search = c.search
    BY <1>1, RepaintedIs DEF Held
  <2> QED
    BY <2>1 DEF Turned
<1>4. /\ no \in Search /\ no.buf = c.search.buf /\ no.x = c.search.x /\ no.y = c.search.y
      /\ yes \in Search /\ yes.buf = c.search.buf /\ yes.x = c.search.x /\ yes.y = c.search.y
  <2>1. FALSE \in BOOLEAN /\ TRUE \in BOOLEAN
    OBVIOUS
  <2> QED
    BY <1>2, <2>1 DEF Search
<1>5. d = [b EXCEPT !.search = no] \/ d = [b EXCEPT !.search = yes]
  <2> HIDE DEF b
  <2>1. /\ [b EXCEPT !.search.prev = FALSE] = [b EXCEPT !.search = no]
        /\ [b EXCEPT !.search.prev = TRUE] = [b EXCEPT !.search = yes]
    BY <1>3 DEF EditorType
  <2> QED
    BY <2>1 DEF Repaint, b
<1> HIDE DEF no, yes
<1>6. PICK s \in {no, yes} : Seeks(Repainted(c), s, d)
  BY <1>5 DEF Seeks
<1>7. s \in Search /\ s.buf = c.search.buf /\ s.x = c.search.x /\ s.y = c.search.y
  BY <1>4, <1>6
<1>8. Held(e, d) /\ d.search = s /\ d.cury = c.cury /\ Len(d.rows) = Len(c.rows)
  BY <1>6, <1>7, RepaintedOn
<1> QED
  BY <1>7, <1>8

LEMMA TerminatedToo ==
    ASSUME NEW c, Terminated(c), NEW d, d.search.buf = c.search.buf
    PROVE  Terminated(d)
BY DEF Terminated

LEMMA RowOfCursor ==
    ASSUME NEW e, NEW d, Held(e, d)
    PROVE  /\ d \in EditorType /\ d.cury \in 0 .. Len(d.rows) - 1 /\ Len(d.rows) \in Nat
           /\ d.search.x \in Nat /\ d.search \in Search
BY FieldsOf, SearchOf DEF Held, Turned, InText

LEMMA SearchForHandled ==
    ASSUME NEW e, Well(e), NEW c, Held(e, c), NEW final \in BOOLEAN
    PROVE  Handled(e, SearchFor(c, final))
<1> DEFINE d == [Repainted(c) EXCEPT !.search.prev = FALSE]
           found == d.search.found /\ ~ final
           s == [d.search EXCEPT !.found = found]
           none == [d EXCEPT !.search.found = found]
<1>1. CASE RowIsGone(c) \/ ~ Terminated(c)
  <2>1. "search" \in Handler \ {""}
    BY DEF Handler
  <2>2. Handled(e, Undefined(c, "search"))
    BY <2>1, UndefinedTurned DEF Held
  <2> QED
    BY <1>1, <2>2 DEF SearchFor
<1>2. CASE ~ (RowIsGone(c) \/ ~ Terminated(c))
  <2>1. Held(e, d) /\ d.search.buf = c.search.buf
    <3>1. ~ RowIsGone(c)
      BY <1>2
    <3>2. Repaint(c, d)
      BY <3>1, RepaintIs
    <3> HIDE DEF d
    <3> QED
      BY <3>1, <3>2, RepaintedHeld
  <2>2. Terminated(d)
    BY <1>2, <2>1, TerminatedToo
  <2>3. SearchFor(c, final) = LookedAhead(d, Onward(d, d.cury, 0), [d EXCEPT !.search.found = @ /\ ~ final])
    BY <1>2 DEF SearchFor
  <2> HIDE DEF d
  <2>4. d \in EditorType /\ d.cury \in 0 .. Len(d.rows) - 1 /\ d.search \in Search /\ 0 \in Nat
    BY <2>1, RowOfCursor
  <2>5. [d EXCEPT !.search.found = @ /\ ~ final] = none
    BY <2>4 DEF EditorType, Search
  <2>6. none = [d EXCEPT !.search = s]
    BY <2>4 DEF EditorType, Search
  <2>7. found \in BOOLEAN
    BY <2>4 DEF Search
  <2> HIDE DEF found, none
  <2>8. s \in Search /\ s.y = d.search.y /\ s.x = d.search.x
    BY <2>4, <2>7 DEF Search
  <2> HIDE DEF s
  <2>9. Handled(e, none)
    BY <2>1, <2>6, <2>8, SearchHeld, HeldHandled
  <2>10. Onward(d, d.cury, 0) \in Seq(Probes(d))
    BY <2>4, OnwardIs
  <2>11. Handled(e, LookedAhead(d, Onward(d, d.cury, 0), none))
    BY <2>1, <2>2, <2>9, <2>10, LookedAheadHandled
  <2> QED
    BY <2>3, <2>5, <2>11
<1> QED
  BY <1>1, <1>2

\* Looked for in vain: the next time from the beginning of a row.
LEMMA NotFoundHandled ==
    ASSUME NEW e, Well(e), NEW d, Held(e, d)
    PROVE  Handled(e, [d EXCEPT !.search.x = 0])
<1> DEFINE s == [d.search EXCEPT !.x = 0]
           c == [d EXCEPT !.search.x = 0]
<1>1. d \in EditorType /\ d.search \in Search /\ 0 \in Nat
  BY RowOfCursor
<1>2. c = [d EXCEPT !.search = s]
  BY <1>1 DEF EditorType, Search
<1>3. s \in Search /\ s.x = 0
  BY <1>1 DEF Search
<1> HIDE DEF c, s
<1>4. Turned(e, c) /\ c.search = s /\ c.curx = d.curx /\ InText(c) /\ OnScreen(c)
  BY <1>2, <1>3, SearchIs DEF Held
<1>5. c.search.x # c.curx + 1
  <2>1. d.curx \in Nat
    BY <1>1, FieldsOf
  <2>2. 0 # d.curx + 1
    BY <2>1
  <2> QED
    BY <1>3, <1>4, <2>2
<1>6. Finding(e, c)
  BY <1>5 DEF Finding
<1>7. Handled(e, c)
  BY <1>4, <1>6, TurnedHandled
<1> QED
  BY <1>7 DEF c

LEMMA LookedOnHandled ==
    ASSUME NEW e, Well(e), NEW d, Held(e, d), Terminated(d),
           NEW y \in 0 .. Len(d.rows) - 1, NEW x \in Nat
    PROVE  Handled(e, LookedAhead(d, Onward(d, y, x), [d EXCEPT !.search.x = 0]))
<1>1. Onward(d, y, x) \in Seq(Probes(d))
  BY RowOfCursor, OnwardIs
<1> QED
  BY <1>1, NotFoundHandled, LookedAheadHandled

LEMMA PassedMatchHandled ==
    ASSUME NEW e, Well(e), Terminated(e), NEW d, Held(e, d), Terminated(d),
           d.cury = e.cury, Len(d.rows) = Len(e.rows)
    PROVE  Handled(e, PassedMatch(e, d))
<1> DEFINE p == Probe(e)
           a == Ahead(e, p)
<1>1. Held(e, e)
  BY TurnedSelf DEF Held
<1>2. /\ d \in EditorType /\ d.cury \in 0 .. Len(d.rows) - 1 /\ Len(d.rows) \in Nat
      /\ d.search.x \in Nat
  BY RowOfCursor
<1>3. e \in EditorType /\ e.cury \in 0 .. Len(e.rows) - 1 /\ e.search.x \in Nat
  BY <1>1, RowOfCursor
<1>4. p \in Probes(e) /\ p.y = e.cury /\ p.x = e.search.x
  BY <1>3 DEF Probe, Probes
<1> HIDE DEF p
<1>5. CASE ~ Readable(e, p)
  <2>1. "search" \in Handler \ {""} /\ Sound(e)
    BY DEF Handler, Well
  <2>2. PassedMatch(e, d) = Undefined(e, "search")
    BY <1>5 DEF PassedMatch, p
  <2> QED
    BY <2>1, <2>2, UndefinedHandled
<1>6. CASE Readable(e, p) /\ a # Nowhere
  <2>1. a \in 0 .. Len(Chars(e, p.y))
    BY <1>3, <1>4, <1>6, AheadIs DEF Readable
  <2>2. a + 1 \in Nat
    <3>1. Len(Chars(e, p.y)) \in Nat
      BY <1>3, <1>4, FieldsOf
    <3> HIDE DEF a
    <3> QED
      BY <2>1, <3>1
  <2>3. PassedMatch(e, d) = LookedAhead(d, Onward(d, d.cury, a + 1), [d EXCEPT !.search.x = 0])
    BY <1>6 DEF PassedMatch, p
  <2> HIDE DEF a
  <2>4. Handled(e, LookedAhead(d, Onward(d, d.cury, a + 1), [d EXCEPT !.search.x = 0]))
    BY <1>2, <2>2, LookedOnHandled
  <2> QED
    BY <2>3, <2>4
<1>7. CASE Readable(e, p) /\ a = Nowhere /\ e.cury + 1 = Numrows(e)
  <2>1. PassedMatch(e, d) = d
    BY <1>7 DEF PassedMatch, p
  <2> QED
    BY <2>1, HeldHandled
<1>8. CASE Readable(e, p) /\ a = Nowhere /\ e.cury + 1 # Numrows(e)
  <2>1. PassedMatch(e, d) = LookedAhead(d, Onward(d, d.cury + 1, d.search.x), [d EXCEPT !.search.x = 0])
    BY <1>8 DEF PassedMatch, p
  <2>2. d.cury + 1 \in 0 .. Len(d.rows) - 1
    <3>1. d.cury + 1 # Len(d.rows)
      BY <1>8 DEF Numrows
    <3> QED
      BY <1>2, <3>1
  <2>3. Handled(e, LookedAhead(d, Onward(d, d.cury + 1, d.search.x), [d EXCEPT !.search.x = 0]))
    BY <1>2, <2>2, LookedOnHandled
  <2> QED
    BY <2>1, <2>3
<1> QED
  BY <1>5, <1>6, <1>7, <1>8

LEMMA SearchNextHandled ==
    ASSUME NEW e, Well(e)
    PROVE  Handled(e, SearchNext(e))
<1> DEFINE d == [Repainted(e) EXCEPT !.search.prev = FALSE]
<1>1. Held(e, e) /\ Sound(e)
  BY TurnedSelf DEF Held, Well
<1>2. CASE e.search.size = 0 \/ ~ e.search.found
  BY <1>1, <1>2, HeldHandled DEF SearchNext
<1>3. CASE ~ (e.search.size = 0 \/ ~ e.search.found) /\ (RowIsGone(e) \/ ~ Terminated(e))
  <2>1. "search" \in Handler \ {""}
    BY DEF Handler
  <2>2. SearchNext(e) = Undefined(e, "search")
    BY <1>3 DEF SearchNext
  <2> QED
    BY <1>1, <2>1, <2>2, UndefinedHandled
<1>4. CASE ~ (e.search.size = 0 \/ ~ e.search.found) /\ ~ (RowIsGone(e) \/ ~ Terminated(e))
  <2>1. /\ Held(e, d) /\ d.search.buf = e.search.buf /\ d.cury = e.cury
        /\ Len(d.rows) = Len(e.rows)
    <3>1. ~ RowIsGone(e)
      BY <1>4
    <3>2. Repaint(e, d)
      BY <1>1, <3>1, RepaintIs
    <3> HIDE DEF d
    <3> QED
      BY <1>1, <3>1, <3>2, RepaintedHeld
  <2>2. Terminated(d) /\ Terminated(e)
    BY <1>4, <2>1, TerminatedToo
  <2>3. SearchNext(e) = IF e.search.prev THEN PassedMatch(e, d)
                        ELSE LookedAhead(d, Onward(d, d.cury, d.search.x), [d EXCEPT !.search.x = 0])
    BY <1>4 DEF SearchNext
  <2> HIDE DEF d
  <2>4. Handled(e, PassedMatch(e, d))
    BY <2>1, <2>2, PassedMatchHandled
  <2>5. Handled(e, LookedAhead(d, Onward(d, d.cury, d.search.x), [d EXCEPT !.search.x = 0]))
    BY <2>1, <2>2, RowOfCursor, LookedOnHandled
  <2> QED
    BY <2>3, <2>4, <2>5
<1> QED
  BY <1>2, <1>3, <1>4

-----------------------------------------------------------------------------
(* Backward: what stops there says nothing of what is found.               *)

LEMMA BackHandled ==
    ASSUME NEW e, Well(e), NEW d, Turned(e, d), InText(d), OnScreen(d), d.search.prev
    PROVE  Handled(e, d)
<1>1. Finding(e, d)
  BY DEF Finding
<1> QED
  BY <1>1, TurnedHandled

LEMMA BackwardIs ==
    ASSUME NEW e \in EditorType, NEW y \in 0 .. Len(e.rows) - 1
    PROVE  Backward(e, y) \in Seq(Probes(e))
<1> DEFINE L == Len(e.rows)
           P == Probes(e)
           first == <<[y |-> y, x |-> e.search.x]>>
           above == [k \in 1 .. y |-> [y |-> y - k, x |-> Len(Chars(e, y - k))]]
           all == [k \in 1 .. L |-> [y |-> L - k, x |-> Len(Chars(e, L - k))]]
<1>1. L \in Nat /\ y \in Nat /\ e.search.x \in Nat
  BY FieldsOf, SearchOf
<1>2. first \in Seq(P)
  <2>1. [y |-> y, x |-> e.search.x] \in P
    BY <1>1 DEF Probes
  <2> QED
    BY <2>1
<1>3. above \in Seq(P)
  <2>1. ASSUME NEW k \in 1 .. y PROVE [y |-> y - k, x |-> Len(Chars(e, y - k))] \in P
    <3>1. y - k \in 0 .. L - 1
      BY <1>1
    <3>2. Len(Chars(e, y - k)) \in Nat
      BY <3>1, FieldsOf
    <3> QED
      BY <3>1, <3>2 DEF Probes
  <2> HIDE DEF P, L
  <2>2. above \in [1 .. y -> P]
    BY <2>1
  <2> HIDE DEF above
  <2> QED
    BY <1>1, <2>2, SeqDef
<1>4. all \in Seq(P)
  <2>1. ASSUME NEW k \in 1 .. L PROVE [y |-> L - k, x |-> Len(Chars(e, L - k))] \in P
    <3>1. L - k \in 0 .. L - 1
      BY <1>1
    <3>2. Len(Chars(e, L - k)) \in Nat
      BY <3>1, FieldsOf
    <3> QED
      BY <3>1, <3>2 DEF Probes
  <2> HIDE DEF P, L
  <2>2. all \in [1 .. L -> P]
    BY <2>1
  <2> HIDE DEF all
  <2> QED
    BY <1>1, <2>2, SeqDef
<1>5. Backward(e, y) = first \o above \o all
  BY DEF Backward, Numrows
<1> HIDE DEF first, above, all, P
<1>6. first \o above \in Seq(P)
  BY <1>2, <1>3, ConcatIs
<1>7. (first \o above) \o all \in Seq(P)
  BY <1>4, <1>6, ConcatIs
<1> QED
  BY <1>5, <1>7 DEF P

LEMMA BeforeIs ==
    ASSUME NEW e \in EditorType, Terminated(e), NEW p \in Probes(e),
           p.x <= Len(Chars(e, p.y)), Before(e, p) # Nowhere
    PROVE  Before(e, p) \in 0 .. Len(Chars(e, p.y))
<1> DEFINE chars == Chars(e, p.y)
           rest == SubSeq(chars, 1, p.x)
           at == Strrstr(rest, Pattern(e))
<1>1. p.y \in 0 .. Len(e.rows) - 1 /\ p.x \in Nat
  BY DEF Probes
<1>2. chars \in Seq(Character) /\ Len(chars) \in Nat /\ p.x <= Len(chars)
  BY <1>1, FieldsOf
<1>3. Pattern(e) \in Seq(Sign)
  BY PatternIs
<1>4. Before(e, p) = at
  BY DEF Before
<1> HIDE DEF chars
<1>5. rest \in Seq(Character) /\ Len(rest) \in 0 .. Len(chars)
  <2>1. p.x \in 0 .. Len(chars) /\ 1 \in 1 .. Len(chars) + 1
    BY <1>1, <1>2
  <2>2. rest \in Seq(Character) /\ Len(rest) = IF 1 <= p.x THEN p.x - 1 + 1 ELSE 0
    BY <1>2, <2>1, PartIs
  <2> QED
    BY <1>1, <1>2, <2>1, <2>2
<1> HIDE DEF rest
<1>6. at \in 0 .. Len(rest)
  BY <1>3, <1>4, <1>5, StrrstrIs
<1> HIDE DEF at
<1>7. at \in 0 .. Len(chars)
  BY <1>2, <1>5, <1>6
<1> QED
  BY <1>4, <1>7 DEF chars

LEMMA FoundBeforeHandled ==
    ASSUME NEW e, Well(e), NEW c, Held(e, c), c.search.prev,
           NEW y \in 0 .. Len(c.rows) - 1, NEW curx \in 0 .. Len(Chars(c, y))
    PROVE  Handled(e, FoundBefore(c, y, curx))
<1> DEFINE b == Seen(Hit(c, y, curx))
           x == IF curx = 0 THEN Len(Chars(c, y)) ELSE curx - 1
           z == IF curx > 0 THEN y ELSE IF y = 0 THEN Numrows(c) - 1 ELSE y - 1
           s == [b.search EXCEPT !.x = x, !.y = z]
           d == FoundBefore(c, y, curx)
<1>1. c \in EditorType
  BY DEF Held, Turned
<1>2. Goes(c, b)
  BY <1>1, HitGoes
<1> HIDE DEF b
<1>3. b \in EditorType /\ b.search = c.search /\ Turned(c, b) /\ InText(b) /\ OnScreen(b)
  BY <1>2, MovedTurned DEF Goes, Moved
<1>4. Turned(e, b)
  BY <1>3, TurnedOn DEF Held
<1>5. d = [b EXCEPT !.search = s]
  BY <1>3 DEF FoundBefore, b, EditorType
<1>6. x \in Nat /\ z \in Nat
  <2>1. Len(Chars(c, y)) \in Nat /\ Len(c.rows) \in Nat
    BY <1>1, FieldsOf
  <2> QED
    BY <2>1 DEF Numrows
<1> HIDE DEF x, z
<1>7. s \in Search /\ s.prev = b.search.prev
  <2>1. b.search \in Search
    BY <1>3, SearchOf
  <2> QED
    BY <1>6, <2>1 DEF Search
<1> HIDE DEF s, d
<1>8. Turned(e, d) /\ d.search = s /\ InText(d) /\ OnScreen(d)
  BY <1>3, <1>4, <1>5, <1>7, SearchIs
<1>9. Handled(e, d)
  BY <1>3, <1>7, <1>8, BackHandled
<1> QED
  BY <1>9 DEF d

LEMMA LookedBackHandled ==
    ASSUME NEW e, Well(e), NEW c, Held(e, c), Terminated(c), c.search.prev,
           NEW probes \in Seq(Probes(c))
    PROVE  Handled(e, LookedBack(c, probes))
<1> DEFINE stops == {k \in DOMAIN probes : \/ probes[k].x > Len(Chars(c, probes[k].y))
                                           \/ Before(c, probes[k]) # Nowhere}
           stop == probes[Min(stops)]
<1>1. c \in EditorType /\ c.search \in Search /\ 0 \in 0 .. Len(c.rows) - 1
  <2>1. c \in EditorType /\ c.search \in Search /\ c.cury \in 0 .. Len(c.rows) - 1 /\ Len(c.rows) \in Nat
    BY RowOfCursor
  <2> QED
    BY <2>1
<1>2. CASE stops = {}
  <2> DEFINE n == Len(Chars(c, 0))
             s == [c.search EXCEPT !.x = n]
             d == [c EXCEPT !.search = s]
  <2>1. n \in Nat
    BY <1>1, FieldsOf
  <2>2. LookedBack(c, probes) = d
    BY <1>1, <1>2 DEF LookedBack, EditorType
  <2> HIDE DEF n
  <2>3. s \in Search /\ s.prev = c.search.prev
    BY <1>1, <2>1 DEF Search
  <2> HIDE DEF s
  <2>4. Turned(e, d) /\ d.search = s /\ InText(d) /\ OnScreen(d)
    BY <2>3, SearchIs DEF Held
  <2>5. Handled(e, d)
    <3> HIDE DEF d
    <3> QED
      BY <2>3, <2>4, BackHandled
  <2> QED
    BY <2>2, <2>5
<1>3. CASE stops # {}
  <2>1. DOMAIN probes = 1 .. Len(probes) /\ Len(probes) \in Nat /\ \A k \in 1 .. Len(probes) : probes[k] \in Probes(c)
    BY LenProperties, ElementOfSeq
  <2>2. Min(stops) \in stops
    <3>1. stops \in SUBSET Nat
      BY <2>1
    <3> HIDE DEF stops
    <3> QED
      BY <1>3, <3>1, MinIs
  <2>3. stop \in Probes(c) /\ (stop.x > Len(Chars(c, stop.y)) \/ Before(c, stop) # Nowhere)
    BY <2>1, <2>2
  <2>4. LookedBack(c, probes) = IF stop.x > Len(Chars(c, stop.y)) THEN Undefined(c, "search")
                                ELSE FoundBefore(c, stop.y, Before(c, stop))
    BY <1>3 DEF LookedBack
  <2> HIDE DEF stop
  <2>5. CASE stop.x > Len(Chars(c, stop.y))
    <3>1. "search" \in Handler \ {""}
      BY DEF Handler
    <3>2. Handled(e, Undefined(c, "search"))
      BY <3>1, UndefinedTurned DEF Held
    <3> QED
      BY <2>4, <2>5, <3>2
  <2>6. CASE ~ stop.x > Len(Chars(c, stop.y))
    <3>1. stop.y \in 0 .. Len(c.rows) - 1 /\ stop.x \in Nat
      BY <2>3 DEF Probes
    <3>2. stop.x <= Len(Chars(c, stop.y)) /\ Before(c, stop) # Nowhere
      <4>1. Len(Chars(c, stop.y)) \in Nat
        BY <1>1, <3>1, FieldsOf
      <4> QED
        BY <2>3, <2>6, <3>1, <4>1
    <3>3. Before(c, stop) \in 0 .. Len(Chars(c, stop.y))
      BY <1>1, <2>3, <3>2, BeforeIs
    <3>4. Handled(e, FoundBefore(c, stop.y, Before(c, stop)))
      BY <3>1, <3>3, FoundBeforeHandled
    <3> QED
      BY <2>4, <2>6, <3>4
  <2> QED
    BY <2>5, <2>6
<1> QED
  BY <1>2, <1>3

LEMMA SearchPreviousHandled ==
    ASSUME NEW e, Well(e)
    PROVE  Handled(e, SearchPrevious(e))
<1> DEFINE d == [Repainted(e) EXCEPT !.search.prev = TRUE]
<1>1. Held(e, e) /\ Sound(e)
  BY TurnedSelf DEF Held, Well
<1>2. CASE e.search.size = 0 \/ ~ e.search.found
  BY <1>1, <1>2, HeldHandled DEF SearchPrevious
<1>3. CASE ~ (e.search.size = 0 \/ ~ e.search.found) /\ (RowIsGone(e) \/ ~ Terminated(e))
  <2>1. "search" \in Handler \ {""}
    BY DEF Handler
  <2>2. SearchPrevious(e) = Undefined(e, "search")
    BY <1>3 DEF SearchPrevious
  <2> QED
    BY <1>1, <2>1, <2>2, UndefinedHandled
<1>4. CASE ~ (e.search.size = 0 \/ ~ e.search.found) /\ ~ (RowIsGone(e) \/ ~ Terminated(e))
  <2> DEFINE y == IF d.cury = d.search.y /\ d.cury = 0 THEN Numrows(d) - 1 ELSE d.cury
  <2>1. Held(e, d) /\ d.search.buf = e.search.buf /\ d.search.prev
    <3>1. ~ RowIsGone(e)
      BY <1>4
    <3>2. Repaint(e, d) /\ d.search.prev
      BY <1>1, <3>1, RepaintIs
    <3> HIDE DEF d
    <3>3. /\ Held(e, d) /\ d.search.buf = e.search.buf /\ d.search.x = e.search.x
          /\ d.cury = e.cury /\ Len(d.rows) = Len(e.rows)
      BY <1>1, <3>1, <3>2, RepaintedHeld
    <3> QED
      BY <3>2, <3>3
  <2>2. Terminated(d)
    BY <1>4, <2>1, TerminatedToo
  <2>3. SearchPrevious(e) = LookedBack(d, Backward(d, y))
    BY <1>4 DEF SearchPrevious
  <2> HIDE DEF d
  <2>4. d \in EditorType /\ y \in 0 .. Len(d.rows) - 1
    <3>1. d \in EditorType /\ d.cury \in 0 .. Len(d.rows) - 1 /\ Len(d.rows) \in Nat
      BY <2>1, RowOfCursor
    <3> QED
      BY <3>1 DEF Numrows
  <2> HIDE DEF y
  <2>5. Backward(d, y) \in Seq(Probes(d))
    BY <2>4, BackwardIs
  <2> QED
    BY <2>1, <2>2, <2>3, <2>5, LookedBackHandled
<1> QED
  BY <1>2, <1>3, <1>4

-----------------------------------------------------------------------------
(* What the prompt searches for.                                           *)

LEMMA PromptCharacterHandled ==
    ASSUME NEW e, Well(e), NEW ch \in Searched
    PROVE  Handled(e, PromptCharacter(e, ch))
<1> DEFINE c == Prompted(e, ch)
<1>1. Held(e, e) /\ Sound(e) /\ e \in EditorType /\ e.undefined = ""
  BY TurnedSelf DEF Held, Well, Sound
<1>2. CASE e.search.size >= MAX_SEARCH_BUFFER
  <2>1. c = Undefined(e, "prompt")
    BY <1>2 DEF Prompted
  <2>2. c.undefined # ""
    BY <1>1, <2>1 DEF Undefined, EditorType
  <2>3. PromptCharacter(e, ch) = Undefined(e, "prompt")
    BY <2>1, <2>2 DEF PromptCharacter
  <2>4. "prompt" \in Handler \ {""}
    BY DEF Handler
  <2> QED
    BY <1>1, <2>3, <2>4, UndefinedHandled
<1>3. CASE ~ e.search.size >= MAX_SEARCH_BUFFER
  <2>1. e.search.size < MAX_SEARCH_BUFFER
    <3>1. e.search.size \in Int /\ MAX_SEARCH_BUFFER \in Nat
      BY <1>1, SearchOf, ScreenAssumption
    <3> QED
      BY <1>3, <3>1
  <2>2. PICK s \in Search : /\ s.y = e.search.y /\ s.x = e.search.x
                            /\ c = [e EXCEPT !.search = s]
    BY <1>1, <2>1, PromptedIs
  <2> HIDE DEF c
  <2>3. Held(e, c)
    BY <1>1, <2>2, SearchHeld
  <2>4. c.undefined = ""
    BY <1>1, <2>2 DEF EditorType
  <2>5. PromptCharacter(e, ch) = SearchFor(c, FALSE)
    BY <2>4 DEF PromptCharacter, c
  <2>6. Handled(e, SearchFor(c, FALSE))
    <3>1. FALSE \in BOOLEAN
      OBVIOUS
    <3> QED
      BY <2>3, <3>1, SearchForHandled
  <2> QED
    BY <2>5, <2>6
<1> QED
  BY <1>2, <1>3

LEMMA PromptEnterHandled ==
    ASSUME NEW e, Well(e)
    PROVE  Handled(e, PromptEnter(e))
<1> DEFINE b == [e EXCEPT !.mode = "NORMAL"]
           buf == [e.search.buf EXCEPT ![e.search.size + 1] = Nul]
           s == [e.search EXCEPT !.buf = buf]
           c == [e EXCEPT !.mode = "NORMAL", !.search.buf[e.search.size + 1] = Nul]
<1>1. Held(e, e) /\ e \in EditorType
  BY TurnedSelf DEF Held, Turned
<1>2. e.search \in Search /\ e.search.buf \in [1 .. MAX_SEARCH_BUFFER + 1 -> Sign]
  BY <1>1, SearchOf
<1>3. buf \in [1 .. MAX_SEARCH_BUFFER + 1 -> Sign]
  <2>1. Nul \in Sign
    BY DEF Sign
  <2> QED
    BY <1>2, <2>1
<1>4. c = [b EXCEPT !.search = s] /\ b.search = e.search
  BY <1>1 DEF EditorType, Search
<1> HIDE DEF buf
<1>5. s \in Search /\ s.y = e.search.y /\ s.x = e.search.x
  BY <1>2, <1>3 DEF Search
<1>6. Held(e, b)
  <2>1. "NORMAL" \in Mode \ Selecting
    BY DEF Mode, Selecting
  <2> QED
    BY <1>1, <2>1, ModeHeld
<1> HIDE DEF b, s, c
<1>7. Held(e, c)
  BY <1>4, <1>5, <1>6, SearchHeld
<1>8. Handled(e, SearchFor(c, TRUE))
  <2>1. TRUE \in BOOLEAN
    OBVIOUS
  <2> QED
    BY <1>7, <2>1, SearchForHandled
<1> QED
  BY <1>8 DEF PromptEnter, c

-----------------------------------------------------------------------------
(* The text it is started with.                                            *)

LEMMA RenderedIs ==
    ASSUME NEW lines \in Seq(Seq(Character))
    PROVE  /\ Rendered(lines) \in Seq(Row) /\ Len(Rendered(lines)) = Len(lines)
           /\ AllFollow(Rendered(lines)) /\ Text(Rendered(lines)) = lines
<1> DEFINE N == Len(lines)
           G == [p \in (1 .. N) \X BOOLEAN |-> Unclosed(lines[p[1]], p[2])]
           no == FALSE
           C == CHOOSE f : f = [i \in 0 .. N |-> i > 0 /\ Unclosed(lines[i], f[i - 1])]
           rows == Rendered(lines)
<1>1. N \in Nat /\ DOMAIN lines = 1 .. N /\ \A i \in 1 .. N : lines[i] \in Seq(Character)
  BY LenProperties, ElementOfSeq
<1>2. \A i \in 1 .. N, b \in BOOLEAN : Unclosed(lines[i], b) \in BOOLEAN
  BY <1>1, UnclosedIs
<1>3. G \in [(1 .. N) \X BOOLEAN -> BOOLEAN]
  <2>1. \A p \in (1 .. N) \X BOOLEAN : p[1] \in 1 .. N /\ p[2] \in BOOLEAN
    OBVIOUS
  <2> HIDE DEF N
  <2> QED
    BY <1>2, <2>1
<1>4. PICK f : Recursive(BOOLEAN, no, G, N, f)
  <2>1. no \in BOOLEAN
    OBVIOUS
  <2> HIDE DEF N, G, no
  <2> QED
    BY <1>1, <1>3, <2>1, Recursion
<1> HIDE DEF no
<1>5. f \in [0 .. N -> BOOLEAN] /\ f[0] = no /\ \A i \in 1 .. N : f[i] = G[<<i, f[i - 1]>>]
  BY <1>4 DEF Recursive
<1>6. \A i \in 1 .. N : f[i] = Unclosed(lines[i], f[i - 1])
  <2> SUFFICES ASSUME NEW i \in 1 .. N PROVE f[i] = Unclosed(lines[i], f[i - 1])
    OBVIOUS
  <2>1. i - 1 \in 0 .. N /\ f[i - 1] \in BOOLEAN
    <3>1. i - 1 \in 0 .. N
      BY <1>1
    <3>2. f \in [0 .. N -> BOOLEAN]
      BY <1>5
    <3> QED
      BY <3>1, <3>2
  <2>2. <<i, f[i - 1]>> \in (1 .. N) \X BOOLEAN
    BY <2>1
  <2> QED
    BY <1>5, <2>2
<1>7. ASSUME NEW i \in 0 .. N PROVE f[i] = (i > 0 /\ Unclosed(lines[i], f[i - 1]))
  <2>1. CASE i = 0
    <3>1. ~ f[i]
      BY <1>5, <2>1 DEF no
    <3>2. f[i] \in BOOLEAN /\ ~ i > 0
      BY <1>5, <2>1
    <3> QED
      BY <3>1, <3>2
  <2>2. CASE i # 0
    <3>1. i \in 1 .. N /\ i > 0
      BY <1>1, <2>2
    <3>2. f[i] = Unclosed(lines[i], f[i - 1])
      BY <1>6, <3>1
    <3>3. Unclosed(lines[i], f[i - 1]) \in BOOLEAN
      <4>1. f[i - 1] \in BOOLEAN
        <5>1. i - 1 \in 0 .. N
          BY <1>1, <3>1
        <5>2. f \in [0 .. N -> BOOLEAN]
          BY <1>5
        <5> QED
          BY <5>1, <5>2
      <4> QED
        BY <1>2, <3>1, <4>1
    <3> QED
      BY <3>1, <3>2, <3>3
  <2> QED
    BY <2>1, <2>2
<1>8. f = [i \in 0 .. N |-> i > 0 /\ Unclosed(lines[i], f[i - 1])]
  BY <1>5, <1>7
<1>9. C = [i \in 0 .. N |-> i > 0 /\ Unclosed(lines[i], C[i - 1])]
  BY <1>8
<1>10. rows = [i \in DOMAIN lines |-> [chars |-> lines[i], ended |-> TRUE, unclosed |-> C[i]]]
  BY DEF Rendered
<1> HIDE DEF C, rows
<1>11. \A i \in 0 .. N : C[i] \in BOOLEAN
  BY <1>9
<1>12. ~ C[0] /\ \A i \in 1 .. N : C[i] = Unclosed(lines[i], C[i - 1])
  <2>1. ~ C[0]
    <3>1. C[0] = (0 > 0 /\ Unclosed(lines[0], C[0 - 1]))
      BY <1>1, <1>9
    <3>2. ~ 0 > 0
      OBVIOUS
    <3> QED
      BY <3>1, <3>2
  <2>2. ASSUME NEW i \in 1 .. N PROVE C[i] = Unclosed(lines[i], C[i - 1])
    <3>1. i \in 0 .. N /\ i > 0 /\ i - 1 \in 0 .. N
      BY <1>1
    <3>2. Unclosed(lines[i], C[i - 1]) \in BOOLEAN
      BY <1>2, <1>11, <3>1
    <3> QED
      BY <1>9, <3>1, <3>2
  <2> QED
    BY <2>1, <2>2
<1> HIDE DEF N
<1>13. \A i \in 1 .. N : /\ rows[i] \in Row /\ rows[i].chars = lines[i]
                         /\ rows[i].unclosed = C[i]
  <2> SUFFICES ASSUME NEW i \in 1 .. N
               PROVE  rows[i] \in Row /\ rows[i].chars = lines[i] /\ rows[i].unclosed = C[i]
    OBVIOUS
  <2>1. rows[i] = [chars |-> lines[i], ended |-> TRUE, unclosed |-> C[i]]
    BY <1>1, <1>10
  <2>2. C[i] \in BOOLEAN /\ TRUE \in BOOLEAN
    BY <1>1, <1>11
  <2>3. lines[i] \in Seq(Character)
    BY <1>1
  <2> QED
    BY <2>1, <2>2, <2>3 DEF Row
<1>14. rows \in Seq(Row) /\ Len(rows) = N /\ DOMAIN rows = 1 .. N
  <2>1. rows \in [1 .. N -> Row]
    BY <1>1, <1>10, <1>13
  <2>2. rows \in Seq(Row) /\ DOMAIN rows = 1 .. N
    BY <1>1, <2>1, SeqDef
  <2> QED
    BY <1>1, <2>2, LenProperties
<1>15. ASSUME NEW i \in 1 .. N PROVE Follows(rows, i)
  <2>1. rows[i].unclosed = Unclosed(rows[i].chars, C[i - 1])
    BY <1>12, <1>13
  <2>2. C[i - 1] = (i > 1 /\ rows[i - 1].unclosed)
    <3>1. CASE i = 1
      <4>1. i - 1 = 0 /\ ~ i > 1 /\ 0 \in 0 .. N
        BY <1>1, <3>1
      <4>2. ~ C[i - 1] /\ C[i - 1] \in BOOLEAN
        BY <1>11, <1>12, <4>1
      <4> QED
        BY <4>1, <4>2
    <3>2. CASE i # 1
      <4>1. i - 1 \in 1 .. N /\ i > 1 /\ i - 1 \in 0 .. N
        BY <1>1, <3>2
      <4>2. rows[i - 1].unclosed = C[i - 1] /\ C[i - 1] \in BOOLEAN
        BY <1>11, <1>13, <4>1
      <4> QED
        BY <4>1, <4>2
    <3> QED
      BY <3>1, <3>2
  <2> QED
    BY <2>1, <2>2 DEF Follows
<1>16. Text(rows) = lines
  <2>1. Text(rows) = [i \in 1 .. N |-> lines[i]]
    BY <1>13, <1>14 DEF Text
  <2>2. lines = [i \in 1 .. N |-> lines[i]]
    BY <1>1, LenProperties
  <2> QED
    BY <2>1, <2>2
<1> QED
  BY <1>14, <1>15, <1>16 DEF AllFollow, rows, N

LEMMA AtFirst ==
    /\ 0 \in Int /\ 0 \in Nat /\ FALSE \in BOOLEAN /\ <<>> \in Seq(Character \cup {Newline})
    /\ 0 - 0 \in 0 .. MaxRows - 1
<1>1. MaxRows \in Nat /\ MaxRows > 0
  BY Screen
<1>2. <<>> \in Seq(Character \cup {Newline})
  BY ClipOf DEF Piece
<1> QED
  BY <1>1, <1>2

LEMMA Positive == \A n \in Nat \ {0} : 0 < n
  OBVIOUS

EditorWith(lines, filename, saved) ==
    [rows |-> Rendered(lines),
     curx |-> 0, rcurx |-> 0, rscurx |-> 0, cury |-> 0, rowoff |-> 0, coloff |-> 0,
     mode |-> "NORMAL", vcurx |-> 0, vcury |-> 0, clip |-> <<>>,
     search |-> [buf |-> [k \in 1 .. MAX_SEARCH_BUFFER + 1 |-> Nul], size |-> 0, cursor |-> 0,
                 found |-> FALSE, prev |-> FALSE, x |-> 0, y |-> 0],
     filename |-> filename, saved |-> saved, exited |-> "", undefined |-> "",
     split |-> FALSE, miscoloured |-> FALSE]

LEMMA EditorIs ==
    ASSUME NEW lines \in Seq(Seq(Character)), lines # <<>>,
           NEW filename \in {"", "own"}, NEW saved \in BOOLEAN,
           NEW e, e = EditorWith(lines, filename, saved)
    PROVE  /\ Sound(e) /\ e.saved = saved /\ Text(e.rows) = lines
<1> DEFINE rows == Rendered(lines)
           buf == [k \in 1 .. MAX_SEARCH_BUFFER + 1 |-> Nul]
           s == [buf |-> buf, size |-> 0, cursor |-> 0, found |-> FALSE, prev |-> FALSE,
                 x |-> 0, y |-> 0]
<1>1. rows \in Seq(Row) /\ Len(rows) = Len(lines) /\ AllFollow(rows) /\ Text(rows) = lines
  BY RenderedIs
<1>2. s \in Search
  <2>1. buf \in [1 .. MAX_SEARCH_BUFFER + 1 -> Sign]
    BY DEF Sign
  <2> HIDE DEF buf
  <2> QED
    BY <2>1, AtFirst DEF Search
<1> DEFINE
      r == [rows |-> rows, curx |-> 0, rcurx |-> 0, rscurx |-> 0, cury |-> 0, rowoff |-> 0,
            coloff |-> 0, mode |-> "NORMAL", vcurx |-> 0, vcury |-> 0, clip |-> <<>>, search |-> s,
            filename |-> filename, saved |-> saved, exited |-> "", undefined |-> "",
            split |-> FALSE, miscoloured |-> FALSE]
<1>3. e = r
  BY DEF EditorWith
<1> HIDE DEF rows, s
<1>4. /\ e \in EditorType /\ e.rows = rows /\ e.saved = saved /\ e.mode = "NORMAL"
      /\ e.cury = 0 /\ e.curx = 0 /\ e.rcurx = 0 /\ e.rowoff = 0
  <2>1. "NORMAL" \in Mode /\ "" \in Ending /\ "" \in Handler /\ filename \in Filename
    BY DEF Mode, Ending, Handler, Filename
  <2>2. r \in EditorType
    BY <1>1, <1>2, <2>1, AtFirst DEF EditorType
  <2>3. /\ r.rows = rows /\ r.saved = saved /\ r.mode = "NORMAL"
        /\ r.cury = 0 /\ r.curx = 0 /\ r.rcurx = 0 /\ r.rowoff = 0
    OBVIOUS
  <2> HIDE DEF r
  <2> QED
    BY <1>3, <2>2, <2>3
<1> HIDE DEF r
<1>5. Len(rows) \in Nat \ {0}
  BY <1>1, LenProperties, EmptySeq
<1>6. InText(e) /\ OnScreen(e) /\ e.rows # <<>>
  <2>1. e.cury < Len(e.rows)
    BY <1>4, <1>5, Positive
  <2>2. InText(e)
    BY <1>4, <2>1, ColumnZero
  <2>3. OnScreen(e)
    BY <1>4, AtFirst DEF OnScreen
  <2> QED
    BY <1>4, <2>2, <2>3, InTextRows
<1>7. Marked(e)
  BY <1>4 DEF Marked, Selecting
<1>8. AllFollow(e.rows) /\ Text(e.rows) = lines
  BY <1>1, <1>4
<1> QED
  BY <1>4, <1>6, <1>7, <1>8 DEF Sound

LEMMA EditorStarts ==
    ASSUME NEW lines \in Seq(Seq(Character)), lines # <<>>, NEW filename \in {"", "own"},
           NEW e, e = Editor(lines, filename)
    PROVE  /\ Sound(e) /\ Text(e.rows) = lines
           /\ filename = "" => ~ e.saved
<1> DEFINE saved == filename # ""
           c == EditorWith(lines, filename, saved)
<1>1. saved \in BOOLEAN
  OBVIOUS
<1>2. e = c
  BY DEF Editor, EditorWith
<1> HIDE DEF saved
<1>3. Sound(c) /\ c.saved = saved /\ Text(c.rows) = lines
  BY <1>1, EditorIs
<1> HIDE DEF c
<1>4. filename = "" => ~ saved
  BY DEF saved
<1> QED
  BY <1>2, <1>3, <1>4

-----------------------------------------------------------------------------
(* Files.                                                                  *)

LEMMA NotNone ==
    ASSUME NEW lines \in Seq(Seq(Character))
    PROVE  lines # None
<1> SUFFICES ASSUME lines = None PROVE FALSE
  OBVIOUS
<1>1. Len(lines) = 1 /\ lines[1] = <<Nul>>
  BY DEF None
<1>2. lines[1] \in Seq(Character)
  BY <1>1, ElementOfSeq
<1>3. <<Nul>> \in Seq(Character) /\ Len(<<Nul>>) = 1 /\ <<Nul>>[1] = Nul
  BY <1>1, <1>2
<1>4. Nul \in Character
  <2> DEFINE s == <<Nul>>
  <2>1. s \in Seq(Character) /\ 1 \in 1 .. Len(s)
    BY <1>3
  <2>2. s[1] \in Character
    <3> HIDE DEF s
    <3> QED
      BY <2>1, ElementOfSeq
  <2> QED
    BY <2>2
<1> QED
  BY <1>4, TextAssumption

LEMMA TextIs ==
    ASSUME NEW rows \in Seq(Row), rows # <<>>
    PROVE  /\ Text(rows) \in Seq(Seq(Character)) /\ Text(rows) # None
           /\ Rows(Text(rows)) = Text(rows)
<1>1. Len(rows) \in Nat /\ DOMAIN rows = 1 .. Len(rows) /\ Len(rows) # 0
  BY LenProperties, EmptySeq
<1>2. Text(rows) = [i \in 1 .. Len(rows) |-> rows[i].chars]
  BY <1>1 DEF Text
<1>3. \A i \in 1 .. Len(rows) : rows[i].chars \in Seq(Character)
  BY RowIs
<1>4. Text(rows) \in [1 .. Len(rows) -> Seq(Character)]
  BY <1>2, <1>3
<1>5. Text(rows) \in Seq(Seq(Character)) /\ DOMAIN Text(rows) = 1 .. Len(rows)
  BY <1>1, <1>4, SeqDef
<1>6. Len(Text(rows)) = Len(rows)
  BY <1>1, <1>5, LenProperties
<1>7. Text(rows) # <<>>
  BY <1>1, <1>6
<1> QED
  BY <1>5, <1>7, NotNone DEF Rows

File == {"own", "other"}
Store1 == [File -> FileType]

\* A text that counts as saved is in a file.
Written(e, store) ==
    e.saved /\ ~ e.split =>
        \E file \in File : store[file] # None /\ Rows(store[file]) = Text(e.rows)

LEMMA StoredIs ==
    ASSUME NEW e, Sound(e), NEW store \in Store1, Written(e, store), NEW file \in File,
           NEW ok \in BOOLEAN,
           NEW store2, store2 = IF ok THEN [store EXCEPT ![file] = Text(e.rows)] ELSE store,
           NEW d, d.rows = e.rows,
           ok \/ (d.saved = e.saved /\ d.split = e.split)
    PROVE  store2 \in Store1 /\ Written(d, store2)
<1>1. e.rows \in Seq(Row) /\ e.rows # <<>>
  BY FieldsOf DEF Sound
<1>2. CASE ok
  <2> DEFINE text == Text(e.rows)
  <2>1. text \in FileType /\ text # None /\ Rows(text) = text
    BY <1>1, TextIs DEF FileType
  <2> HIDE DEF text
  <2>2. store2 = [store EXCEPT ![file] = text]
    BY <1>2 DEF text
  <2>3. store2 \in Store1 /\ store2[file] = text
    BY <2>1, <2>2 DEF Store1
  <2> QED
    BY <2>1, <2>3 DEF Written, text
<1>3. CASE ~ ok
  BY <1>3 DEF Written
<1> QED
  BY <1>2, <1>3

LEMMA WrittenIs ==
    ASSUME disk \in Store1, E.undefined = ""
    PROVE  SavedMeansWritten <=> Written(E, disk)
<1>1. DOMAIN disk = File
  BY DEF Store1
<1> QED
  BY <1>1 DEF SavedMeansWritten, Defined, Written

\* At the start.
LEMMA InitIInv ==
    ASSUME Init
    PROVE  IInv
<1>1. CASE /\ disk = [file \in {"own", "other"} |-> None]
           /\ E \in {Editor(<<<<>>>>, ""), [Editor(<<<<>>>>, "own") EXCEPT !.saved = FALSE]}
  <2> DEFINE lines == <<<<>>>>
  <2>1. lines \in Seq(Seq(Character)) /\ lines # <<>>
    <3>1. <<>> \in Seq(Character)
      OBVIOUS
    <3> QED
      BY <3>1
  <2> HIDE DEF lines
  <2>2. "" \in {"", "own"} /\ "own" \in {"", "own"} /\ FALSE \in BOOLEAN
    OBVIOUS
  <2>3. Sound(E) /\ ~ E.saved
    <3>1. CASE E = [Editor(lines, "own") EXCEPT !.saved = FALSE]
      <4>1. E = EditorWith(lines, "own", FALSE)
        BY <3>1 DEF Editor, EditorWith
      <4>2. Sound(E) /\ E.saved = FALSE /\ Text(E.rows) = lines
        BY <2>1, <2>2, <4>1, EditorIs
      <4> QED
        BY <4>2
    <3>2. CASE E = Editor(lines, "")
      BY <2>1, <2>2, <3>2, EditorStarts
    <3> QED
      BY <1>1, <3>1, <3>2 DEF lines
  <2>4. disk \in [{"own", "other"} -> FileType]
    <3>1. None \in FileType
      BY DEF FileType
    <3> QED
      BY <1>1, <3>1
  <2>5. SavedMeansWritten
    BY <2>3 DEF SavedMeansWritten
  <2> QED
    BY <2>3, <2>4, <2>5 DEF IInv
<1>2. CASE \E lines \in Content :
             /\ disk = [file \in {"own", "other"} |-> IF file = "own" THEN lines ELSE None]
             /\ E = Editor(Rows(lines), "own")
  <2>1. PICK lines \in Content :
             /\ disk = [file \in {"own", "other"} |-> IF file = "own" THEN lines ELSE None]
             /\ E = Editor(Rows(lines), "own")
    BY <1>2
  <2>2. lines \in Seq(Seq(Character)) /\ lines # None
    BY NotNone, TextAssumption
  <2> DEFINE rows == Rows(lines)
  <2>3. rows \in Seq(Seq(Character)) /\ rows # <<>>
    <3>1. <<<<>>>> \in Seq(Seq(Character)) /\ <<<<>>>> # <<>>
      <4>1. <<>> \in Seq(Character)
        OBVIOUS
      <4> QED
        BY <4>1
    <3> QED
      BY <2>2, <3>1 DEF Rows
  <2> HIDE DEF rows
  <2>4. E = Editor(rows, "own")
    BY <2>1 DEF rows
  <2>5. Sound(E) /\ Text(E.rows) = rows
    <3>1. "own" \in {"", "own"}
      OBVIOUS
    <3> QED
      BY <2>3, <2>4, <3>1, EditorStarts
  <2>6. disk \in [{"own", "other"} -> FileType] /\ disk["own"] = lines
    <3>1. None \in FileType /\ lines \in FileType
      BY <2>2 DEF FileType
    <3> QED
      BY <2>1, <3>1
  <2>7. SavedMeansWritten
    <3>1. "own" \in DOMAIN disk /\ disk["own"] # None /\ Rows(disk["own"]) = Text(E.rows)
      BY <2>2, <2>5, <2>6 DEF rows
    <3> QED
      BY <3>1 DEF SavedMeansWritten
  <2> QED
    BY <2>5, <2>6, <2>7 DEF IInv
<1> QED
  BY <1>1, <1>2 DEF Init

-----------------------------------------------------------------------------
(* Every key.                                                              *)

LEMMA WellIs ==
    ASSUME IInv, Running
    PROVE  Well(E) /\ disk \in Store1 /\ Written(E, disk)
BY WrittenIs DEF IInv, Running, Well, Store1, File

\* What follows a key that is handled.
LEMMA HandledKeeps ==
    ASSUME Well(E), disk \in Store1, Written(E, disk), Handled(E, E'), UNCHANGED disk
    PROVE  IInv' /\ Finding(E, E')
<1>1. Sound(E') /\ Finding(E, E') /\ (E'.undefined = "" => Kept(E, E'))
  BY DEF Handled
<1>2. E'.undefined = "" => Written(E', disk)
  BY <1>1 DEF Written, Kept
<1>3. DOMAIN disk = File
  BY DEF Store1
<1>4. SavedMeansWritten'
  BY <1>2, <1>3 DEF SavedMeansWritten, Defined, Written
<1> QED
  BY <1>1, <1>4 DEF IInv, Store1, File

KeyAction ==
    \/ Left \/ Right \/ Up \/ Down \/ Escape
    \/ TypeCharacter \/ Enter \/ Backspace
    \/ LineKey \/ InsertKey \/ OpenKey \/ DeleteKey \/ SelectKey \/ CopyKey \/ PasteKey
    \/ NextKey \/ PreviousKey \/ ModeKey
    \/ PromptKey \/ PromptType

LEMMA GoesHandled ==
    ASSUME Well(E), NEW d, Goes(E, d)
    PROVE  Handled(E, d)
BY MovedHandled DEF Goes

LEMMA InPlace ==
    ASSUME Well(E)
    PROVE  E \in EditorType /\ InText(E) /\ OnScreen(E) /\ Sound(E)
BY DEF Well, Sound

LEMMA MovingHandled ==
    ASSUME Well(E), Left \/ Right \/ Up \/ Down \/ Escape \/ LineKey
    PROVE  Handled(E, E')
<1>1. E \in EditorType /\ InText(E) /\ OnScreen(E) /\ Sound(E)
  BY InPlace
<1>2. CASE Left
  <2>1. E' = LeftArrow(E)
    BY <1>2 DEF Left, Step
  <2>2. CASE LeftArrow(E) = Undefined(E, "left")
    <3>1. "left" \in Handler \ {""}
      BY DEF Handler
    <3> QED
      BY <1>1, <2>1, <2>2, <3>1, UndefinedHandled
  <2>3. CASE Goes(E, LeftArrow(E))
    BY <2>1, <2>3, GoesHandled
  <2> QED
    BY <1>1, <2>2, <2>3, LeftArrowGoes
<1>3. CASE Right
  <2>1. E' = RightArrow(E)
    BY <1>3 DEF Right, Step
  <2> QED
    BY <1>1, <2>1, RightArrowGoes, GoesHandled
<1>4. CASE Up
  <2>1. E' = UpArrow(E)
    BY <1>4 DEF Up, Step
  <2> QED
    BY <1>1, <2>1, UpArrowGoes, GoesHandled
<1>5. CASE Down
  <2>1. E' = DownArrow(E)
    BY <1>5 DEF Down, Step
  <2> QED
    BY <1>1, <2>1, DownArrowGoes, GoesHandled
<1>6. CASE Escape
  <2>1. E' = EscapeKey(E)
    BY <1>6 DEF Escape, Step
  <2> QED
    BY <2>1, EscapeKeyHandled
<1>7. CASE LineKey
  <2>1. E' \in {StartOfLine(E), GotoEndOfLine(E), GotoStartOfFile(E), GotoEndOfFile(E)}
    BY <1>7 DEF LineKey, Step
  <2>2. /\ Goes(E, StartOfLine(E)) /\ Goes(E, GotoEndOfLine(E)) /\ Goes(E, GotoStartOfFile(E))
        /\ GotoEndOfFile(E) = Undefined(E, "display") \/ Goes(E, GotoEndOfFile(E))
    BY <1>1, JumpsGo
  <2>3. CASE E' = Undefined(E, "display")
    <3>1. "display" \in Handler \ {""}
      BY DEF Handler
    <3> QED
      BY <1>1, <2>3, <3>1, UndefinedHandled
  <2>4. CASE E' # Undefined(E, "display")
    <3>1. Goes(E, E')
      BY <2>1, <2>2, <2>4
    <3> QED
      BY <3>1, GoesHandled
  <2> QED
    BY <2>3, <2>4
<1> QED
  BY <1>2, <1>3, <1>4, <1>5, <1>6, <1>7

\* While nothing is selected.
LEMMA NotSelecting ==
    /\ \A mode \in {"INSERT"} : mode \notin Selecting
    /\ \A mode \in {"NORMAL"} : mode \notin Selecting
BY DEF Selecting

LEMMA EditingHandled ==
    ASSUME Well(E), TypeCharacter \/ Enter \/ Backspace \/ OpenKey \/ DeleteKey \/ CopyKey \/ PasteKey
    PROVE  Handled(E, E')
<1>1. CASE TypeCharacter
  <2>1. PICK ch \in Typed : E' = InsertCharacter(E, ch)
    BY <1>1 DEF TypeCharacter, Step
  <2>2. ch \in Character
    BY TextAssumption
  <2> QED
    BY <2>1, <2>2, InsertCharacterHandled
<1>2. CASE Enter
  <2>1. E' = SplitCurrentRow(E) /\ E.mode \notin Selecting
    BY <1>2, NotSelecting DEF Enter, Step, Key
  <2> QED
    BY <2>1, SplitCurrentRowHandled
<1>3. CASE Backspace
  <2>1. E' = DeleteCurrentChar(E) /\ E.mode \notin Selecting
    BY <1>3, NotSelecting DEF Backspace, Step, Key
  <2> QED
    BY <2>1, DeleteCurrentCharHandled
<1>4. CASE OpenKey
  <2>1. E' = NewLineAndInsert(E)
    BY <1>4 DEF OpenKey, Step
  <2> QED
    BY <2>1, NewLineAndInsertHandled
<1>5. CASE DeleteKey
  <2>1. E' = DeleteCurrentLine(E) /\ E.mode \notin Selecting
    BY <1>5, NotSelecting DEF DeleteKey, Step, Key
  <2> QED
    BY <2>1, DeleteCurrentLineHandled
<1>6. CASE CopyKey
  <2>1. E' = CopySelection(E) /\ E.mode \in Selecting
    BY <1>6 DEF CopyKey, Step, Key
  <2> QED
    BY <2>1, CopySelectionHandled
<1>7. CASE PasteKey
  <2>1. PICK moved \in BOOLEAN : E' = PasteClipboard(E, moved)
    BY <1>7 DEF PasteKey, Step
  <2> QED
    BY <2>1, PasteClipboardHandled
<1> QED
  BY <1>1, <1>2, <1>3, <1>4, <1>5, <1>6, <1>7

LEMMA ModesHandled ==
    ASSUME Well(E),
           InsertKey \/ SelectKey \/ NextKey \/ PreviousKey \/ ModeKey \/ PromptKey \/ PromptType
    PROVE  Handled(E, E')
<1>1. CASE InsertKey
  <2>1. PICK c \in {E, GotoEndOfLine(E)} : E' = [c EXCEPT !.mode = "INSERT"]
    BY <1>1 DEF InsertKey, Step
  <2> QED
    BY <2>1, InsertKeyHandled
<1>2. CASE SelectKey
  <2>1. PICK c \in {[E EXCEPT !.mode = "VISUAL", !.vcurx = E.curx], [E EXCEPT !.mode = "VISUAL_LINE"]} :
            E' = [c EXCEPT !.vcury = E.cury]
    BY <1>2 DEF SelectKey, Step
  <2> QED
    BY <2>1, SelectKeyHandled
<1>3. CASE NextKey
  <2>1. E' = SearchNext(E)
    BY <1>3 DEF NextKey, Step
  <2> QED
    BY <2>1, SearchNextHandled
<1>4. CASE PreviousKey
  <2>1. E' = SearchPrevious(E)
    BY <1>4 DEF PreviousKey, Step
  <2> QED
    BY <2>1, SearchPreviousHandled
<1>5. CASE ModeKey
  <2>1. E' \in {[E EXCEPT !.mode = "COMMAND"],
                [E EXCEPT !.mode = "SEARCH", !.search.size = 0, !.search.cursor = 0]}
    BY <1>5 DEF ModeKey, Step
  <2> QED
    BY <2>1, ModeKeyHandled
<1>6. CASE PromptKey
  <2>1. E' \in {PromptBackspace(E), PromptMove(E, -1), PromptMove(E, 1), PromptEnter(E),
                [E EXCEPT !.mode = "NORMAL"]}
    BY <1>6 DEF PromptKey, Step
  <2>2. CASE E' = PromptEnter(E)
    BY <2>2, PromptEnterHandled
  <2>3. CASE E' \in {PromptBackspace(E), PromptMove(E, -1), PromptMove(E, 1),
                     [E EXCEPT !.mode = "NORMAL"]}
    BY <2>3, PromptEdits
  <2> QED
    BY <2>1, <2>2, <2>3
<1>7. CASE PromptType
  <2>1. PICK ch \in Searched : E' = PromptCharacter(E, ch)
    BY <1>7 DEF PromptType, Step
  <2> QED
    BY <2>1, PromptCharacterHandled
<1> QED
  BY <1>1, <1>2, <1>3, <1>4, <1>5, <1>6, <1>7

LEMMA KeyRuns ==
    ASSUME KeyAction
    PROVE  Running /\ UNCHANGED disk
BY DEF KeyAction, Left, Right, Up, Down, Escape, TypeCharacter, Enter, Backspace,
       LineKey, InsertKey, OpenKey, DeleteKey, SelectKey, CopyKey, PasteKey,
       NextKey, PreviousKey, ModeKey, PromptKey, PromptType, Key, Step

LEMMA KeysKeep ==
    ASSUME IInv, KeyAction
    PROVE  IInv' /\ Finding(E, E')
<1>1. Running /\ UNCHANGED disk
  BY KeyRuns
<1>2. Well(E) /\ disk \in Store1 /\ Written(E, disk)
  BY <1>1, WellIs
<1>3. Handled(E, E')
  BY <1>2, MovingHandled, EditingHandled, ModesHandled DEF KeyAction
<1> QED
  BY <1>1, <1>2, <1>3, HandledKeeps

-----------------------------------------------------------------------------
(* Every command.                                                          *)

Commanded(e, d, exited, filename, saved, split) ==
    d = [e EXCEPT !.exited = exited, !.filename = filename, !.saved = saved, !.split = split,
                  !.mode = "NORMAL"]

\* A command leaves the text, the cursor and the search alone.
LEMMA CommandIs ==
    ASSUME NEW e, Well(e), NEW exited \in Ending, NEW filename \in Filename,
           NEW saved \in BOOLEAN, NEW split \in BOOLEAN,
           NEW d, Commanded(e, d, exited, filename, saved, split)
    PROVE  /\ Sound(d) /\ Finding(e, d)
           /\ d.rows = e.rows /\ d.saved = saved /\ d.split = split
<1>1. e \in EditorType /\ InText(e) /\ OnScreen(e) /\ (~ e.miscoloured => AllFollow(e.rows))
      /\ e.rows # <<>>
  BY DEF Well, Sound
<1>2. "NORMAL" \in Mode
  BY DEF Mode
<1>3. /\ d \in EditorType /\ d.rows = e.rows /\ d.search = e.search /\ d.mode = "NORMAL"
      /\ d.cury = e.cury /\ d.curx = e.curx /\ d.rcurx = e.rcurx /\ d.rowoff = e.rowoff
      /\ d.miscoloured = e.miscoloured /\ d.saved = saved /\ d.split = split
  BY <1>1, <1>2 DEF EditorType, Commanded
<1>4. InText(d) /\ OnScreen(d)
  BY <1>1, <1>3, SamePlace
<1>5. Marked(d)
  BY <1>3 DEF Marked, Selecting
<1>6. Finding(e, d)
  BY <1>3 DEF Finding
<1> QED
  BY <1>1, <1>3, <1>4, <1>5, <1>6 DEF Sound

\* It may store the text.
LEMMA CommandKeeps ==
    ASSUME Well(E), disk \in Store1, Written(E, disk),
           NEW ok \in BOOLEAN, NEW file \in File, Store(file, ok),
           NEW exited \in Ending, NEW filename \in Filename,
           NEW saved \in BOOLEAN, NEW split \in BOOLEAN,
           ok \/ (saved = E.saved /\ split = E.split),
           Commanded(E, E', exited, filename, saved, split)
    PROVE  IInv' /\ Finding(E, E')
<1>1. /\ Sound(E') /\ Finding(E, E')
      /\ E'.rows = E.rows /\ E'.saved = saved /\ E'.split = split
  BY CommandIs
<1>2. disk' = IF ok THEN [disk EXCEPT ![file] = Text(E.rows)] ELSE disk
  BY DEF Store
<1>3. disk' \in Store1 /\ Written(E', disk')
  <2>1. Sound(E)
    BY DEF Well
  <2> QED
    BY <1>1, <1>2, <2>1, StoredIs
<1>4. SavedMeansWritten'
  <2>1. DOMAIN disk' = File
    BY <1>3 DEF Store1
  <2> QED
    BY <1>3, <2>1 DEF SavedMeansWritten, Defined, Written
<1> QED
  BY <1>1, <1>3, <1>4 DEF IInv, Store1, File

LEMMA CommandsKeep ==
    ASSUME IInv, Quit \/ Write \/ WriteTo \/ WriteToAndQuit
    PROVE  IInv' /\ Finding(E, E')
<1>1. Running
  BY DEF Quit, Write, WriteTo, WriteToAndQuit, Command, Key
<1>2. Well(E) /\ disk \in Store1 /\ Written(E, disk)
  BY <1>1, WellIs
<1>3. /\ E \in EditorType /\ E.exited \in Ending /\ E.filename \in Filename
      /\ E.saved \in BOOLEAN /\ E.split \in BOOLEAN
  <2>1. E \in EditorType
    BY <1>2, InPlace
  <2> QED
    BY <2>1 DEF EditorType
<1>4. /\ TRUE \in BOOLEAN /\ FALSE \in BOOLEAN /\ "other" \in File
      /\ "q" \in Ending /\ "q!" \in Ending /\ "wq" \in Ending /\ "wq other" \in Ending
  BY DEF File, Ending
<1>5. ASSUME NEW exited \in Ending, NEW filename \in Filename, UNCHANGED disk,
             Commanded(E, E', exited, filename, E.saved, E.split)
      PROVE  IInv' /\ Finding(E, E')
  <2>1. Store("other", FALSE)
    BY <1>5 DEF Store
  <2> QED
    BY <1>2, <1>3, <1>4, <1>5, <2>1, CommandKeeps
<1>6. ASSUME NEW exited \in Ending, NEW filename \in Filename,
             NEW file \in File, Store(file, TRUE),
             Commanded(E, E', exited, filename, TRUE, FALSE)
      PROVE  IInv' /\ Finding(E, E')
  <2> DEFINE yes == TRUE
             no == FALSE
  <2>1. /\ yes \in BOOLEAN /\ no \in BOOLEAN /\ Store(file, yes)
        /\ exited \in Ending /\ filename \in Filename /\ file \in File
        /\ yes \/ (yes = E.saved /\ no = E.split)
        /\ Commanded(E, E', exited, filename, yes, no)
    <3>1. Store(file, yes) /\ Commanded(E, E', exited, filename, yes, no)
      BY <1>6, Zenon
    <3>2. /\ yes \in BOOLEAN /\ no \in BOOLEAN
          /\ yes \/ (yes = E.saved /\ no = E.split)
      <4>1. yes \in BOOLEAN /\ no \in BOOLEAN
        BY Zenon
      <4>2. yes
        BY Zenon
      <4> HIDE DEF yes, no
      <4> QED
        BY <4>1, <4>2, Zenon
    <3>3. exited \in Ending /\ filename \in Filename /\ file \in File
      OBVIOUS
    <3> QED
      BY <3>1, <3>2, <3>3, Zenon
  <2> HIDE DEF yes, no
  <2> QED
    BY <1>2, <2>1, CommandKeeps
<1>7. CASE Quit
  <2>1. UNCHANGED disk
    BY <1>7 DEF Quit
  <2>2. \E exited \in Ending : Commanded(E, E', exited, E.filename, E.saved, E.split)
    <3>1. PICK e \in {E, Exited(E, "q"), Exited(E, "q!"), Exited(E, "wq")} :
              E' = [e EXCEPT !.mode = "NORMAL"]
      BY <1>7 DEF Quit, Command
    <3>2. \A d : d = [E EXCEPT !.mode = "NORMAL"] =>
              Commanded(E, d, E.exited, E.filename, E.saved, E.split)
      BY <1>3 DEF Commanded, EditorType
    <3>3. \A x \in Ending : \A d : d = [Exited(E, x) EXCEPT !.mode = "NORMAL"] =>
              Commanded(E, d, x, E.filename, E.saved, E.split)
      BY <1>3 DEF Commanded, Exited, EditorType
    <3> QED
      BY <1>3, <1>4, <3>1, <3>2, <3>3
  <2> QED
    BY <1>3, <1>5, <2>1, <2>2
<1>8. ASSUME NEW exited \in Ending, NEW filename \in Filename, NEW file \in File,
             NEW ok \in BOOLEAN, Store(file, ok),
             ok => Commanded(E, E', exited, filename, TRUE, FALSE),
             ~ ok => \E x \in Ending, f \in Filename :
                         Commanded(E, E', x, f, E.saved, E.split)
      PROVE  IInv' /\ Finding(E, E')
  <2>1. CASE ok
    <3>1. Store(file, TRUE)
      BY <1>8, <2>1 DEF Store
    <3> QED
      BY <1>6, <1>8, <2>1, <3>1
  <2>2. CASE ~ ok
    <3>1. UNCHANGED disk
      BY <1>8, <2>2 DEF Store
    <3> QED
      BY <1>5, <1>8, <2>2, <3>1
  <2> QED
    BY <2>1, <2>2
<1>9. /\ \A d : d = [E EXCEPT !.mode = "NORMAL"] =>
              Commanded(E, d, E.exited, E.filename, E.saved, E.split)
      /\ \A d : d = [Saved(E) EXCEPT !.mode = "NORMAL"] =>
              Commanded(E, d, E.exited, E.filename, TRUE, FALSE)
      /\ \A f, d : d = [[E EXCEPT !.filename = f] EXCEPT !.mode = "NORMAL"] =>
              Commanded(E, d, E.exited, f, E.saved, E.split)
      /\ \A f, d : d = [Saved([E EXCEPT !.filename = f]) EXCEPT !.mode = "NORMAL"] =>
              Commanded(E, d, E.exited, f, TRUE, FALSE)
      /\ \A x, d : d = [Exited(Saved(E), x) EXCEPT !.mode = "NORMAL"] =>
              Commanded(E, d, x, E.filename, TRUE, FALSE)
  BY <1>3 DEF Commanded, Saved, Exited, EditorType
<1>10. CASE Write
  <2>1. PICK ok \in BOOLEAN : /\ E' = [SaveFile(E, ok) EXCEPT !.mode = "NORMAL"]
                              /\ Store(E.filename, ok)
    BY <1>10 DEF Write, Command
  <2>2. E.filename \in File
    BY <1>3, <1>10 DEF Write, File, Filename
  <2>3. ok => Commanded(E, E', E.exited, E.filename, TRUE, FALSE)
    BY <1>9, <2>1 DEF SaveFile
  <2>4. ~ ok => Commanded(E, E', E.exited, E.filename, E.saved, E.split)
    BY <1>9, <2>1 DEF SaveFile
  <2> QED
    BY <1>3, <1>8, <2>1, <2>2, <2>3, <2>4
<1>11. CASE WriteTo
  <2> DEFINE f == IF E.filename = "" THEN "other" ELSE E.filename
             c == [E EXCEPT !.filename = f]
  <2>1. PICK ok \in BOOLEAN : /\ E' = [SaveFile(c, ok) EXCEPT !.mode = "NORMAL"]
                              /\ Store("other", ok)
    <3>1. c = [E EXCEPT !.filename = IF @ = "" THEN "other" ELSE @]
      BY <1>3 DEF EditorType
    <3> HIDE DEF c
    <3> QED
      BY <1>11, <3>1 DEF WriteTo, Command
  <2>2. f \in Filename
    BY <1>3 DEF Filename
  <2> HIDE DEF f
  <2>3. ok => Commanded(E, E', E.exited, f, TRUE, FALSE)
    BY <1>9, <2>1 DEF SaveFile
  <2>4. ~ ok => Commanded(E, E', E.exited, f, E.saved, E.split)
    BY <1>9, <2>1 DEF SaveFile
  <2> HIDE DEF c
  <2> QED
    BY <1>3, <1>4, <1>8, <2>1, <2>2, <2>3, <2>4
<1>12. CASE WriteToAndQuit
  <2>1. PICK ok \in BOOLEAN :
            /\ E' = [(IF ok THEN Exited(SaveFile(E, ok), "wq other") ELSE E) EXCEPT !.mode = "NORMAL"]
            /\ Store("other", ok)
    BY <1>12 DEF WriteToAndQuit, Command
  <2>2. ok => Commanded(E, E', "wq other", E.filename, TRUE, FALSE)
    BY <1>9, <2>1 DEF SaveFile
  <2>3. ~ ok => Commanded(E, E', E.exited, E.filename, E.saved, E.split)
    BY <1>9, <2>1
  <2> QED
    BY <1>3, <1>4, <1>8, <2>1, <2>2, <2>3
<1> QED
  BY <1>7, <1>10, <1>11, <1>12

-----------------------------------------------------------------------------
(* The theorems.                                                           *)

\* What the handlers keep up in any editor: its fields are what they should be,
\* and unless a handler left the text, its cursor is in the text and on the
\* screen, a selection begins in the text, the colours follow the text, and
\* what counts as saved is in a file.
THEOREM Soundness == Spec => []IInv
<1>1. Init => IInv
  BY InitIInv
<1>2. IInv /\ [Next]_vars => IInv'
  <2> SUFFICES ASSUME IInv, [Next]_vars PROVE IInv'
    OBVIOUS
  <2>1. CASE KeyAction
    BY <2>1, KeysKeep
  <2>2. CASE Quit \/ Write \/ WriteTo \/ WriteToAndQuit
    BY <2>2, CommandsKeep
  <2>3. CASE UNCHANGED vars
    BY <2>3 DEF vars, IInv, SavedMeansWritten, Defined
  <2> QED
    BY <2>1, <2>2, <2>3 DEF Next, KeyAction, Stopped
<1> QED
  BY <1>1, <1>2, PTL DEF Spec

\* CursorInText: after any keys (moves, typing, splits, joins, pastes, removals,
\* searches) the cursor is on a character of a row that there is, and its column
\* is that of the character.
THEOREM CursorStaysInText == Spec => []CursorInText
<1>1. IInv => CursorInText
  BY DEF IInv, Sound, InText, CursorInText, Defined, Numrows
<1> QED
  BY <1>1, Soundness, PTL

\* CursorOnScreen: and its row is shown.
THEOREM CursorStaysOnScreen == Spec => []CursorOnScreen
<1>1. IInv => CursorOnScreen
  <2> SUFFICES ASSUME IInv, Defined PROVE E.rowoff >= 0 /\ E.cury - E.rowoff \in 0 .. MaxRows - 1
    BY DEF CursorOnScreen
  <2>1. E \in EditorType /\ OnScreen(E)
    BY DEF IInv, Sound, Defined
  <2>2. E.rowoff \in Nat
    BY <2>1, FieldsOf
  <2> QED
    BY <2>1, <2>2 DEF OnScreen
<1> QED
  BY <1>1, Soundness, PTL

\* CommentsFollow: updateSyntax from the first row that changed leaves every row
\* with the colours that its text asks for.
THEOREM CommentsFollowText == Spec => []CommentsFollow
<1>1. IInv => CommentsFollow
  <2> SUFFICES ASSUME IInv, Defined, ~ E.miscoloured, NEW i \in DOMAIN E.rows
               PROVE  E.rows[i].unclosed = Unclosed(E.rows[i].chars, i > 1 /\ E.rows[i - 1].unclosed)
    BY DEF CommentsFollow
  <2>1. E \in EditorType /\ AllFollow(E.rows)
    BY DEF IInv, Sound, Defined
  <2>2. i \in 1 .. Len(E.rows)
    BY <2>1, FieldsOf, LenProperties
  <2> QED
    BY <2>1, <2>2 DEF AllFollow, Follows
<1> QED
  BY <1>1, Soundness, PTL

\* SavedMeansWritten: what counts as saved is in a file.
THEOREM SavedIsWritten == Spec => []SavedMeansWritten
<1>1. IInv => SavedMeansWritten
  BY DEF IInv
<1> QED
  BY <1>1, Soundness, PTL

\* FindsWhatIsSought: wherever a search forward stops anew, by typing in the prompt, by
\* Enter or by n, there is the text that is sought.
THEOREM SearchFindsWhatIsSought == Spec => FindsWhatIsSought
<1> DEFINE A == /\ E'.search.found /\ ~ E'.search.prev
                /\ E'.search.y = E'.cury /\ E'.search.x = E'.curx + 1
                /\ <<E'.search.y, E'.search.x>> # <<E.search.y, E.search.x>>
                => Pattern(E') = SubSeq(CurrentRow(E'), E'.curx + 1, E'.curx + Len(Pattern(E')))
<1>1. IInv /\ [Next]_vars => [A]_vars
  <2> SUFFICES ASSUME IInv, [Next]_vars PROVE [A]_vars
    OBVIOUS
  <2>1. CASE KeyAction
    <3>1. Finding(E, E')
      BY <2>1, KeysKeep
    <3> QED
      BY <3>1 DEF Finding
  <2>2. CASE Quit \/ Write \/ WriteTo \/ WriteToAndQuit
    <3>1. Finding(E, E')
      BY <2>2, CommandsKeep
    <3> QED
      BY <3>1 DEF Finding
  <2>3. CASE UNCHANGED vars
    BY <2>3
  <2> QED
    BY <2>1, <2>2, <2>3 DEF Next, KeyAction, Stopped
<1>2. Spec => [][A]_vars
  BY <1>1, Soundness, PTL DEF Spec
<1> QED
  BY <1>2 DEF FindsWhatIsSought
=============================================================================

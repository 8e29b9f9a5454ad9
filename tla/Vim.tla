-------------------------------- MODULE Vim ---------------------------------
(***************************************************************************)
(* The text editor vim.c: its state struct E as one record, each handler   *)
(* as an operator on it, and the main loop as actions, one key each.       *)
(* Characters are tabs, quotes, the tokens that open and close a comment   *)
(* (one character here, as both are typed and removed) and others.  Lines  *)
(* of the text and columns count from 0 as in the code; rows and the       *)
(* characters of a row are sequences and count from 1.                     *)
(*                                                                         *)
(* Where the code reads or writes outside its text, E.undefined says in    *)
(* which handler, and nothing is said of what follows.  Subtractions of    *)
(* unsigned numbers that wrap are written as the comparison they amount to.*)
(* Files are C files (getSyntax).  The model stops at MaxLines lines, where *)
(* the line numbers get wider and maxcols smaller.                         *)
(***************************************************************************)
EXTENDS Integers, Sequences, FiniteSets, SequencesExt, FiniteSetsExt

CONSTANTS
    Tab, Quote, Opening, Closing,   \* characters: '\t', '"', "/*" and "*/"
    Nul, Space,                     \* '\0' and ' ', in the search buffer
    TAB_SIZE,                       \* columns of a tab
    SCROLL_MARGIN_S, SCROLL_MARGIN_TB, SEARCH_MARGIN_S, SEARCH_MARGIN_TB,
    MAX_SEARCH_BUFFER,
    MaxRows, MaxCols,               \* of the screen, without the bars
    Character,                      \* the characters of a text
    Content,                        \* the files it is started with: sequences of lines
    Typed,                          \* bound: the characters that are typed into the text
    Searched,                       \* bound: and into the search buffer
    MaxLines,                       \* bound: lines of the text
    MaxKeys                         \* bound: keys typed

ASSUME ScreenAssumption ==
    /\ TAB_SIZE \in Nat \ {0} /\ MAX_SEARCH_BUFFER \in Nat \ {0}
    /\ {MaxRows, MaxCols, SCROLL_MARGIN_S, SEARCH_MARGIN_S, SEARCH_MARGIN_TB} \subseteq Nat
    /\ SCROLL_MARGIN_TB \in Nat \ {0}
    /\ 2 * SCROLL_MARGIN_TB + 1 < MaxRows /\ SEARCH_MARGIN_TB + 1 < MaxRows
    /\ SCROLL_MARGIN_S + 1 < MaxCols /\ SEARCH_MARGIN_S + 1 < MaxCols

\* A text has no '\0'.
ASSUME TextAssumption ==
    /\ Nul \notin Character /\ Typed \subseteq Character
    /\ Content \subseteq Seq(Seq(Character))

VARIABLES
    E,      \* the editor
    disk,   \* the lines of the file it was started with, and of another; None: no file
    keys    \* how many were typed

vars == <<E, disk, keys>>

None == <<<<Nul>>>>
Newline == "\n"

-----------------------------------------------------------------------------
(* Rows: the characters, whether a '\0' ends them, and whether the row     *)
(* ends inside a comment.                                                  *)

NewRow(chars) == [chars |-> chars, ended |-> TRUE, unclosed |-> FALSE]
Text(rows) == [i \in DOMAIN rows |-> rows[i].chars]

\* Columns: a tab goes to the next multiple of TAB_SIZE.
After(rcurx, c) == rcurx + IF c = Tab THEN TAB_SIZE - (rcurx % TAB_SIZE) ELSE 1
Columns(chars) ==
    LET column[k \in 0 .. Len(chars)] == IF k = 0 THEN 0 ELSE After(column[k - 1], chars[k])
    IN  column
CurxToRCurx(chars, curx) == Columns(chars)[curx]
Rlen(chars) == CurxToRCurx(chars, Len(chars))

\* updateSyntax of one row: a quote begins or ends a string, in a comment
\* too; in a string nothing opens a comment; what closes one does so anywhere
\* but at the beginning of a row.
Coloured(s, k, c) ==
    IF s.comment /\ c = Closing /\ k > 1 THEN [s EXCEPT !.comment = FALSE]
    ELSE [string  |-> IF c = Quote THEN ~ s.string ELSE s.string,
          comment |-> s.comment \/ (c = Opening /\ ~ s.string)]
Unclosed(chars, above) ==
    LET state[k \in 0 .. Len(chars)] ==
            IF k = 0 THEN [string |-> FALSE, comment |-> above]
            ELSE Coloured(state[k - 1], k, chars[k])
    IN  state[Len(chars)].comment

\* updateSyntax: from row i on, to the first that ends as it did.
UpdateSyntax(rows, i) ==
    LET ends[k \in i .. Len(rows)] ==
            Unclosed(rows[k].chars, IF k = i THEN k > 1 /\ rows[k - 1].unclosed ELSE ends[k - 1])
        Reached(k) == k >= i /\ \A j \in i .. k - 1 : rows[j].unclosed # ends[j]
    IN  [k \in DOMAIN rows |->
            IF Reached(k) THEN [rows[k] EXCEPT !.unclosed = ends[k]] ELSE rows[k]]

-----------------------------------------------------------------------------
(* The cursor and the view.                                                *)

Numrows(e) == Len(e.rows)
Chars(e, y) == e.rows[y + 1].chars
CurrentRow(e) == Chars(e, e.cury)
Undefined(e, where) == [e EXCEPT !.undefined = where]

ScrollUp(rowoff) == IF rowoff = 0 THEN 0 ELSE rowoff - 1
ScrollDown(e) == IF e.rowoff + MaxRows = Numrows(e) THEN e.rowoff ELSE e.rowoff + 1
InTopMargin(e) == e.cury - e.rowoff <= SCROLL_MARGIN_TB
InBottomMargin(e) == e.cury - e.rowoff >= MaxRows - SCROLL_MARGIN_TB - 1
HalfRight(rcurx, coloff) == IF rcurx > MaxCols THEN rcurx - MaxCols + MaxCols \div 2 ELSE coloff

\* (Mutant: the cursor keeps its place when it moves to another line.)
SnappedNot(e) == e

\* snapCursor: the first character at or behind the column it was moved to.
At(e, curx) == [e EXCEPT !.curx = curx, !.rcurx = CurxToRCurx(CurrentRow(e), curx)]
Snapped(e) ==
    At(e, Min({k \in 0 .. Len(CurrentRow(e)) :
                  CurxToRCurx(CurrentRow(e), k) >= Min({Rlen(CurrentRow(e)), e.rscurx})}))
Sought(e) == [e EXCEPT !.rscurx = e.rcurx]

\* leftArrow.  With the cursor left of what is shown it goes on to the
\* character before the first, and curxToRCurx out of the row.
EndOfLine(e) ==
    LET r == Rlen(CurrentRow(e))
    IN  [e EXCEPT !.rcurx = r, !.curx = Len(CurrentRow(e)), !.coloff = HalfRight(r, @)]
ToLineAbove(e) ==
    EndOfLine(IF InTopMargin(e) THEN [e EXCEPT !.rowoff = ScrollUp(@)]
              ELSE [e EXCEPT !.cury = @ - 1])
InLeftMargin(e) == e.rcurx >= e.coloff /\ e.rcurx - e.coloff <= SCROLL_MARGIN_S
LeftArrow(e) ==
    IF e.rcurx = e.coloff /\ e.cury = e.rowoff THEN e
    ELSE IF e.rcurx = 0 /\ e.coloff = 0 THEN Sought(ToLineAbove(e))
    ELSE IF e.curx = 0 THEN Undefined(e, "left")
    ELSE Sought(At([e EXCEPT !.coloff = IF @ > 0 /\ InLeftMargin(e) THEN @ - 1 ELSE @], e.curx - 1))

\* rightArrow: nothing on the last line.
InRightMargin(e) == e.rcurx < e.coloff \/ e.rcurx - e.coloff >= MaxCols - SCROLL_MARGIN_S - 1
RightArrow(e) ==
    IF e.cury >= Numrows(e) - 1 THEN e
    ELSE IF e.rcurx >= Rlen(CurrentRow(e))
         THEN Sought([e EXCEPT !.rowoff = IF InBottomMargin(e) THEN ScrollDown(e) ELSE @,
                               !.cury = @ + 1, !.rcurx = 0, !.curx = 0, !.coloff = 0])
    ELSE Sought(At([e EXCEPT !.coloff = IF InRightMargin(e) THEN @ + 1 ELSE @], e.curx + 1))

\* upArrow and downArrow.
Shown(e) ==
    [e EXCEPT !.coloff = IF e.rcurx < MaxCols - 1 THEN 0
                         ELSE IF e.rcurx + MaxCols > @ \/ e.rcurx < @
                              THEN e.rcurx - MaxCols + MaxCols \div 2 ELSE @]
UpArrow(e) ==
    IF e.cury = 0 THEN e
    ELSE Shown(Snapped([e EXCEPT !.rowoff = IF InTopMargin(e) THEN ScrollUp(@) ELSE @,
                                 !.cury = @ - 1]))
DownArrow(e) ==
    IF e.cury = Numrows(e) - 1 THEN e
    ELSE Shown(Snapped([e EXCEPT !.rowoff = IF InBottomMargin(e) THEN ScrollDown(e) ELSE @,
                                 !.cury = @ + 1]))

LineStart(e) == [e EXCEPT !.rscurx = 0, !.rcurx = 0, !.curx = 0]
StartOfLine(e) == [LineStart(e) EXCEPT !.coloff = 0]
GotoEndOfLine(e) == Sought([EndOfLine(e) EXCEPT !.coloff = HalfRight(Rlen(CurrentRow(e)), 0)])
GotoStartOfFile(e) == [StartOfLine(e) EXCEPT !.cury = 0, !.rowoff = 0]

\* displayScreen shows rows before the first when the text is shorter than
\* the screen.
GotoEndOfFile(e) ==
    IF Numrows(e) < MaxRows THEN Undefined(e, "display")
    ELSE [StartOfLine(e) EXCEPT !.cury = Numrows(e) - 1, !.rowoff = Numrows(e) - MaxRows]

-----------------------------------------------------------------------------
(* Editing.                                                                *)

\* renderRow of row i, with its colours and those below.
WithRow(rows, i, row) == UpdateSyntax([rows EXCEPT ![i] = row], i)
WithNewRow(rows, i, row) == UpdateSyntax(InsertAt(rows, i, row), i)
Inserted(chars, at, more) == SubSeq(chars, 1, at) \o more \o SubSeq(chars, at + 1, Len(chars))

\* insertCharacter, and what the main loop does after it.
InsertCharacter(e, ch) ==
    [RightArrow([e EXCEPT !.rows = WithRow(@, e.cury + 1,
                              [e.rows[e.cury + 1] EXCEPT !.chars = Inserted(@, e.curx, <<ch>>)])])
        EXCEPT !.saved = FALSE]

\* (Mutant: the upper half is not rendered again.)
WithHalvesOnce(rows, i, curx) ==
    WithNewRow([rows EXCEPT ![i].chars = SubSeq(@, 1, curx), ![i].ended = TRUE], i + 1,
               NewRow(SubSeq(rows[i].chars, curx + 1, Len(rows[i].chars))))

\* splitCurrentRow renders the new row before the one above it.  saved stays.
WithHalves(rows, i, curx) ==
    WithRow(WithNewRow([rows EXCEPT ![i].chars = SubSeq(@, 1, curx), ![i].ended = TRUE], i + 1,
                       NewRow(SubSeq(rows[i].chars, curx + 1, Len(rows[i].chars)))),
            i, [rows[i] EXCEPT !.chars = SubSeq(@, 1, curx), !.ended = TRUE])

\* (Mutant: off by one: the view follows a line late.)
BelowLate(e) == IF e.cury + 1 - e.rowoff > MaxRows THEN e.rowoff + 1 ELSE e.rowoff

Below(e) == IF e.cury + 1 - e.rowoff >= MaxRows THEN e.rowoff + 1 ELSE e.rowoff

\* The rows below are not coloured again when the new row, in the comment that
\* the whole one left open, seems to be out of it.
ClosesComment(row, curx) ==
    row.unclosed /\ ~ Unclosed(SubSeq(row.chars, curx + 1, Len(row.chars)), TRUE)

SplitCurrentRow(e) ==
    [StartOfLine(e) EXCEPT !.rows = WithHalves(@, e.cury + 1, e.curx), !.cury = @ + 1,
                           !.rowoff = Below(e), !.split = @ \/ e.saved,
                           !.miscoloured = @ \/ ClosesComment(e.rows[e.cury + 1], e.curx)]

\* deleteCurrentChar: at the beginning of a line it joins it to the one
\* above, which is rendered while the joined one is still below it.
Joined(rows, i) ==
    RemoveAt(WithRow(rows, i, [rows[i] EXCEPT !.chars = @ \o rows[i + 1].chars, !.ended = TRUE]),
             i + 1)
JoinLines(e, above) ==
    [e EXCEPT !.rows = Joined(@, e.cury), !.cury = @ - 1, !.curx = Len(above),
              !.rcurx = Rlen(above), !.rscurx = Rlen(above),
              !.coloff = HalfRight(Rlen(above), IF @ > 0 THEN @ - 1 ELSE 0),
              !.rowoff = IF @ > 0 /\ e.cury - @ < SCROLL_MARGIN_TB THEN @ - 1 ELSE @,
              !.saved = FALSE, !.miscoloured = TRUE]
DeleteCurrentChar(e) ==
    IF e.curx = 0 /\ e.cury = 0 THEN e
    ELSE IF e.curx = 0
         THEN IF e.rows[e.cury + 1].ended THEN JoinLines(e, Chars(e, e.cury - 1))
              ELSE Undefined(e, "join")
    ELSE Sought(At([e EXCEPT !.rows = WithRow(@, e.cury + 1,
                                 [e.rows[e.cury + 1] EXCEPT !.chars = RemoveAt(@, e.curx),
                                                            !.ended = TRUE]),
                             !.coloff = IF @ > 0 THEN @ - 1 ELSE 0,
                             !.saved = FALSE],
                   e.curx - 1))

\* (Mutant: the row that moved up keeps its colours.)
WithoutLineStale(rows, i) == RemoveAt(rows, i)

\* deleteCurrentLine: the only line loses its characters and their '\0'.  The
\* last one is coloured again behind the end, where it still lies.
WithoutLine(rows, i) ==
    IF i = Len(rows) THEN Front(rows) ELSE UpdateSyntax(RemoveAt(rows, i), i)

DeleteCurrentLine(e) ==
    IF Numrows(e) = 1
    THEN Snapped([e EXCEPT !.rows = <<[NewRow(<<>>) EXCEPT !.ended = FALSE]>>, !.saved = FALSE])
    ELSE LET y == IF e.cury = Numrows(e) - 1 THEN e.cury - 1 ELSE e.cury
         IN  Snapped([e EXCEPT !.rows = WithoutLine(@, e.cury + 1), !.cury = y, !.saved = FALSE,
                               !.rowoff = IF @ > 0 /\ y <= SCROLL_MARGIN_TB + @ THEN @ - 1 ELSE @])

\* newLineAndInsert.  coloff stays.
NewLineAndInsert(e) ==
    [LineStart(e) EXCEPT !.rows = WithNewRow(@, e.cury + 2, NewRow(<<>>)), !.cury = @ + 1,
                         !.rowoff = Below(e), !.mode = "INSERT", !.saved = FALSE]

-----------------------------------------------------------------------------
(* Selecting, copying and pasting.                                         *)

\* copySelection.  A selection of several lines ends with a newline, one of
\* whole lines has a newline before each.
Cursor(e) == [y |-> e.cury, x |-> e.curx]
Mark(e) == [y |-> e.vcury, x |-> e.vcurx]
Precedes(s, t) == s.y < t.y \/ (s.y = t.y /\ s.x <= t.x)
Lines(e, from, to, before, after) ==
    FlattenSeq([k \in 1 .. to - from + 1 |-> before \o Chars(e, from + k - 1) \o after])
Between(e, s, t) ==
    IF s.y = t.y THEN SubSeq(Chars(e, s.y), s.x + 1, t.x)
    ELSE SubSeq(Chars(e, s.y), s.x + 1, Len(Chars(e, s.y))) \o <<Newline>>
         \o Lines(e, s.y + 1, t.y - 1, <<>>, <<Newline>>)
         \o SubSeq(Chars(e, t.y), 1, t.x) \o <<Newline>>
Selected(e) ==
    IF e.mode = "VISUAL_LINE"
    THEN Lines(e, Min({e.cury, e.vcury}), Max({e.cury, e.vcury}), <<Newline>>, <<>>)
    ELSE IF Precedes(Cursor(e), Mark(e)) THEN Between(e, Cursor(e), Mark(e))
    ELSE Between(e, Mark(e), Cursor(e))
CopySelection(e) ==
    IF e.mode = "VISUAL" /\ e.vcurx > Len(Chars(e, e.vcury)) THEN Undefined(e, "selection")
    ELSE [e EXCEPT !.clip = Selected(e), !.mode = "NORMAL"]

\* pasteClipboard: characters go into the row at the cursor, a newline starts
\* an empty row below it and takes nothing of the row along.
Pasted(e, c) ==
    IF c = Newline
    THEN [e EXCEPT !.rows = WithNewRow(WithRow(@, e.cury + 1, [e.rows[e.cury + 1] EXCEPT !.ended = TRUE]),
                                       e.cury + 2, NewRow(<<>>)),
                   !.cury = @ + 1, !.curx = 0, !.rowoff = Below(e)]
    ELSE [e EXCEPT !.rows[e.cury + 1].chars = Inserted(@, e.curx, <<c>>), !.curx = @ + 1]
\* What follows the last character: the row is ended and rendered.
Placed(e) ==
    [Sought(At([e EXCEPT !.rows = WithRow(@, e.cury + 1, [e.rows[e.cury + 1] EXCEPT !.ended = TRUE])],
               e.curx))
        EXCEPT !.coloff = HalfRight(CurxToRCurx(CurrentRow(e), e.curx), @), !.saved = FALSE]
\* row still points to the row that the last newline was put behind, in the
\* array before it grew: moved is whether realloc moved it.
PastedAll(e) ==
    LET pasted[n \in 0 .. Len(e.clip)] == IF n = 0 THEN e ELSE Pasted(pasted[n - 1], e.clip[n])
    IN  pasted[Len(e.clip)]
PasteClipboard(e, moved) ==
    IF e.clip = <<>> THEN e
    ELSE IF Last(e.clip) = Newline /\ moved THEN Undefined(e, "paste")
    ELSE Placed(PastedAll(e))

-----------------------------------------------------------------------------
(* Searching.                                                              *)

Nowhere == -1

\* (Mutant: the place where it began is kept when it begins anew.)
StrstrKept(str, sub) ==
    LET Next1(s, c) ==
            IF s.at # Nowhere THEN s
            ELSE [i |-> s.i + 1, j |-> IF c = sub[s.j + 1] THEN s.j + 1 ELSE 0,
                  start |-> IF c = sub[1] /\ s.start = Nowhere THEN s.i ELSE s.start,
                  at |-> IF c = sub[s.j + 1] /\ s.j + 1 = Len(sub)
                         THEN IF s.start = Nowhere THEN s.i ELSE s.start ELSE Nowhere]
    IN  IF sub = <<>> THEN Nowhere
        ELSE FoldLeft(Next1, [i |-> 0, j |-> 0, start |-> Nowhere, at |-> Nowhere], str).at

\* strstr of the C library: after a character that does not match it begins
\* anew behind it, so that it may miss what it seeks.
Strstr(str, sub) ==
    LET Next1(s, n) ==
            IF s.at # Nowhere THEN s
            ELSE [j |-> IF str[n] = sub[s.j + 1] THEN s.j + 1 ELSE 0,
                  at |-> IF str[n] = sub[s.j + 1] /\ s.j + 1 = Len(sub) THEN n - 1 - s.j ELSE Nowhere]
        step[n \in 0 .. Len(str)] ==
            IF n = 0 THEN [j |-> 0, at |-> Nowhere] ELSE Next1(step[n - 1], n)
    IN  IF sub = <<>> THEN Nowhere ELSE step[Len(str)].at
\* strrstr does not look at the first character of what it seeks, nor at that
\* of the string, and finds nothing of one character.
Strrstr(str, sub) ==
    LET Last1(s, i) ==
            IF s.at # Nowhere THEN s
            ELSE [j |-> IF str[i + 1] = sub[s.j] THEN s.j - 1 ELSE Len(sub),
                  at |-> IF str[i + 1] = sub[s.j] /\ s.j = 2 THEN i - 1 ELSE Nowhere]
        step[n \in 0 .. Len(str) - 1] ==
            IF n = 0 THEN [j |-> Len(sub), at |-> Nowhere] ELSE Last1(step[n - 1], Len(str) - n)
    IN  IF sub = <<>> THEN 0
        ELSE IF Len(sub) = 1 \/ Len(str) < 2 THEN Nowhere
        ELSE step[Len(str) - 1].at

Terminated(e) == Nul \in Range(e.search.buf)
Pattern(e) == SubSeq(e.search.buf, 1, Min({k \in DOMAIN e.search.buf : e.search.buf[k] = Nul}) - 1)

\* The match that was shown gets its colours back, if its row still exists.
Repainted(e) == [e EXCEPT !.rows = UpdateSyntax(@, e.search.y + 1)]
RowIsGone(e) == e.search.y >= Numrows(e)

Hit(e, y, curx) ==
    At([e EXCEPT !.cury = y,
                 !.rowoff = IF y >= @ + MaxRows - SEARCH_MARGIN_TB - 1
                            THEN y - MaxRows + SEARCH_MARGIN_TB + 1
                            ELSE IF y < @ THEN Max({y - SEARCH_MARGIN_TB, 0}) ELSE @], curx)
Seen(e) ==
    Sought([e EXCEPT !.coloff = IF e.rcurx >= @ + MaxCols - SEARCH_MARGIN_S - 1
                                THEN e.rcurx - MaxCols + SEARCH_MARGIN_S + 1
                                ELSE IF e.rcurx < @ THEN Max({e.rcurx - SEARCH_MARGIN_S, 0}) ELSE @])
Found(e, y, curx) ==
    [Seen(Hit(e, y, curx)) EXCEPT !.search.x = curx + 1, !.search.y = y, !.search.found = TRUE]

\* The rows as they are looked through, y from x on; then to the end and all
\* from the first.
Onward(e, y, x) ==
    <<[y |-> y, x |-> x]>> \o [k \in 1 .. Numrows(e) - 1 - y |-> [y |-> y + k, x |-> 0]]
        \o [k \in 1 .. Numrows(e) |-> [y |-> k - 1, x |-> 0]]
Ahead(e, p) ==
    LET at == Strstr(SubSeq(Chars(e, p.y), p.x + 1, Len(Chars(e, p.y))), Pattern(e))
    IN  IF at = Nowhere THEN Nowhere ELSE p.x + at
Probe(e) == [y |-> e.cury, x |-> e.search.x]
Readable(e, p) == e.rows[p.y + 1].ended /\ p.x <= Len(Chars(e, p.y))
LookedAhead(e, probes, none) ==
    LET stops == {k \in DOMAIN probes : \/ ~ Readable(e, probes[k])
                                        \/ Ahead(e, probes[k]) # Nowhere}
        stop  == probes[Min(stops)]
    IN  IF stops = {} THEN none
        ELSE IF ~ Readable(e, stop) THEN Undefined(e, "search")
        ELSE Found(e, stop.y, Ahead(e, stop))

SearchFor(e, final) ==
    IF RowIsGone(e) \/ ~ Terminated(e) THEN Undefined(e, "search")
    ELSE LET d == [Repainted(e) EXCEPT !.search.prev = FALSE]
         IN  LookedAhead(d, Onward(d, d.cury, 0), [d EXCEPT !.search.found = @ /\ ~ final])

\* searchNext: after searchPrevious the match it stands on is passed first.
PassedMatch(e, d) ==
    IF ~ Readable(e, Probe(e)) THEN Undefined(e, "search")
    ELSE IF Ahead(e, Probe(e)) # Nowhere
         THEN LookedAhead(d, Onward(d, d.cury, Ahead(e, Probe(e)) + 1), [d EXCEPT !.search.x = 0])
    ELSE IF e.cury + 1 = Numrows(e) THEN d
    ELSE LookedAhead(d, Onward(d, d.cury + 1, d.search.x), [d EXCEPT !.search.x = 0])
SearchNext(e) ==
    IF e.search.size = 0 \/ ~ e.search.found THEN e
    ELSE IF RowIsGone(e) \/ ~ Terminated(e) THEN Undefined(e, "search")
    ELSE LET d == [Repainted(e) EXCEPT !.search.prev = FALSE]
         IN  IF e.search.prev THEN PassedMatch(e, d)
             ELSE LookedAhead(d, Onward(d, d.cury, d.search.x), [d EXCEPT !.search.x = 0])

\* searchPrevious: up from the row of the cursor, or from the last one.
Backward(e, y) ==
    <<[y |-> y, x |-> e.search.x]>>
        \o [k \in 1 .. y |-> [y |-> y - k, x |-> Len(Chars(e, y - k))]]
        \o [k \in 1 .. Numrows(e) |-> [y |-> Numrows(e) - k, x |-> Len(Chars(e, Numrows(e) - k))]]
Before(e, p) == Strrstr(SubSeq(Chars(e, p.y), 1, p.x), Pattern(e))
FoundBefore(e, y, curx) ==
    [Seen(Hit(e, y, curx))
        EXCEPT !.search.x = IF curx = 0 THEN Len(Chars(e, y)) ELSE curx - 1,
               !.search.y = IF curx > 0 THEN y ELSE IF y = 0 THEN Numrows(e) - 1 ELSE y - 1]
LookedBack(e, probes) ==
    LET stops == {k \in DOMAIN probes : \/ probes[k].x > Len(Chars(e, probes[k].y))
                                        \/ Before(e, probes[k]) # Nowhere}
        stop  == probes[Min(stops)]
    IN  IF stops = {} THEN [e EXCEPT !.search.x = Len(Chars(e, 0))]
        ELSE IF stop.x > Len(Chars(e, stop.y)) THEN Undefined(e, "search")
        ELSE FoundBefore(e, stop.y, Before(e, stop))
SearchPrevious(e) ==
    IF e.search.size = 0 \/ ~ e.search.found THEN e
    ELSE IF RowIsGone(e) \/ ~ Terminated(e) THEN Undefined(e, "search")
    ELSE LET d == [Repainted(e) EXCEPT !.search.prev = TRUE]
         IN  LookedBack(d, Backward(d, IF d.cury = d.search.y /\ d.cury = 0
                                       THEN Numrows(d) - 1 ELSE d.cury))

-----------------------------------------------------------------------------
(* The search prompt.  That of commands is the same code; commands are     *)
(* taken whole.                                                            *)

\* Backspace puts its blank behind the character that it removes: over the
\* '\0' when it removes the last, and leaves the character.
PromptBackspace(e) ==
    IF e.search.cursor = 0 THEN e
    ELSE [e EXCEPT !.search.buf[e.search.cursor + 1] = Space,
                   !.search.cursor = @ - 1, !.search.size = @ - 1]
PromptMove(e, by) ==
    IF e.search.cursor + by \in 0 .. e.search.size THEN [e EXCEPT !.search.cursor = @ + by] ELSE e

\* A character at the end is put over what is there, another shifts the rest;
\* the '\0' behind a full prompt is out of the buffer.
Prompted(e, ch) ==
    LET s == e.search
    IN  IF s.size >= MAX_SEARCH_BUFFER THEN Undefined(e, "prompt")
        ELSE [e EXCEPT !.search.buf = [k \in DOMAIN @ |->
                                         IF k = s.cursor + 1 THEN ch
                                         ELSE IF k = s.size + 2 THEN Nul
                                         ELSE IF k \in s.cursor + 2 .. s.size + 1 THEN @[k - 1]
                                         ELSE @[k]],
                       !.search.cursor = @ + 1, !.search.size = @ + 1]
PromptCharacter(e, ch) ==
    IF Prompted(e, ch).undefined # "" THEN Prompted(e, ch)
    ELSE SearchFor(Prompted(e, ch), FALSE)
PromptEnter(e) ==
    SearchFor([e EXCEPT !.mode = "NORMAL", !.search.buf[e.search.size + 1] = Nul], TRUE)

EscapeKey(e) ==
    IF RowIsGone(e) THEN Undefined(e, "escape") ELSE [Repainted(e) EXCEPT !.mode = "NORMAL"]

-----------------------------------------------------------------------------
(* Files and commands.                                                     *)

Saved(e) == [e EXCEPT !.saved = TRUE, !.split = FALSE]

\* (Mutant: the text counts as saved before the file is open.)
SaveFileEarly(e, ok) == Saved(e)

\* saveFile, which may be refused.
SaveFile(e, ok) == IF ok THEN Saved(e) ELSE e
Store(file, ok) == disk' = IF ok THEN [disk EXCEPT ![file] = Text(E.rows)] ELSE disk

\* appendRow of each line.
Rendered(lines) ==
    LET ends[i \in 0 .. Len(lines)] == i > 0 /\ Unclosed(lines[i], ends[i - 1])
    IN  [i \in DOMAIN lines |-> [chars |-> lines[i], ended |-> TRUE, unclosed |-> ends[i]]]

Editor(lines, filename) ==
    [rows |-> Rendered(lines),
     curx |-> 0, rcurx |-> 0, rscurx |-> 0, cury |-> 0, rowoff |-> 0, coloff |-> 0,
     mode |-> "NORMAL", vcurx |-> 0, vcury |-> 0, clip |-> <<>>,
     search |-> [buf |-> [k \in 1 .. MAX_SEARCH_BUFFER + 1 |-> Nul], size |-> 0, cursor |-> 0,
                 found |-> FALSE, prev |-> FALSE, x |-> 0, y |-> 0],
     filename |-> filename, saved |-> filename # "", exited |-> "", undefined |-> "",
     split |-> FALSE, miscoloured |-> FALSE]

\* A text has at least one row.
Rows(lines) == IF lines = <<>> THEN <<<<>>>> ELSE lines

\* main and readFile: with no name, with a file, or with one that is not there.
Init ==
    /\ keys = 0
    /\ \/ /\ disk = [file \in {"own", "other"} |-> None]
          /\ E \in {Editor(<<<<>>>>, ""), [Editor(<<<<>>>>, "own") EXCEPT !.saved = FALSE]}
       \/ \E lines \in Content :
             /\ disk = [file \in {"own", "other"} |-> IF file = "own" THEN lines ELSE None]
             /\ E = Editor(Rows(lines), "own")

-----------------------------------------------------------------------------
(* The main loop: one key in each step, or one command.                    *)

Running == E.exited = "" /\ E.undefined = "" /\ keys < MaxKeys /\ Numrows(E) < MaxLines
Key(modes) == Running /\ E.mode \in modes /\ keys' = keys + 1
Selecting == {"VISUAL", "VISUAL_LINE"}
Moving == {"NORMAL", "INSERT"} \union Selecting
Step(e) == E' = e /\ UNCHANGED disk

Left == Key(Moving) /\ Step(LeftArrow(E))
Right == Key(Moving) /\ Step(RightArrow(E))
Up == Key(Moving) /\ Step(UpArrow(E))
Down == Key(Moving) /\ Step(DownArrow(E))
Escape == Key(Moving) /\ Step(EscapeKey(E))

TypeCharacter == Key({"INSERT"}) /\ \E ch \in Typed : Step(InsertCharacter(E, ch))
Enter == Key({"INSERT"}) /\ Step(SplitCurrentRow(E))
Backspace == Key({"INSERT"}) /\ Step(DeleteCurrentChar(E))

LineKey ==      \* 0, $, g and G
    /\ Key({"NORMAL"} \union Selecting)
    /\ \E e \in {StartOfLine(E), GotoEndOfLine(E), GotoStartOfFile(E), GotoEndOfFile(E)} : Step(e)
InsertKey ==    \* i and A
    /\ Key({"NORMAL"})
    /\ \E e \in {E, GotoEndOfLine(E)} : Step([e EXCEPT !.mode = "INSERT"])
OpenKey == Key({"NORMAL"}) /\ Step(NewLineAndInsert(E))
DeleteKey == Key({"NORMAL"}) /\ Step(DeleteCurrentLine(E))
SelectKey ==    \* v and V
    /\ Key({"NORMAL"})
    /\ \E e \in {[E EXCEPT !.mode = "VISUAL", !.vcurx = E.curx], [E EXCEPT !.mode = "VISUAL_LINE"]} :
          Step([e EXCEPT !.vcury = E.cury])
CopyKey == Key(Selecting) /\ Step(CopySelection(E))
PasteKey ==
    /\ Key({"NORMAL"} \union Selecting)
    /\ \E moved \in BOOLEAN : Step(PasteClipboard(E, moved))
NextKey == Key({"NORMAL"}) /\ Step(SearchNext(E))
PreviousKey == Key({"NORMAL"}) /\ Step(SearchPrevious(E))
ModeKey ==      \* : and /
    /\ Key({"NORMAL"})
    /\ \E e \in {[E EXCEPT !.mode = "COMMAND"],
                 [E EXCEPT !.mode = "SEARCH", !.search.size = 0, !.search.cursor = 0]} : Step(e)

PromptKey ==
    /\ Key({"SEARCH"})
    /\ \E e \in {PromptBackspace(E), PromptMove(E, -1), PromptMove(E, 1), PromptEnter(E),
                 [E EXCEPT !.mode = "NORMAL"]} : Step(e)
PromptType == Key({"SEARCH"}) /\ \E ch \in Searched : Step(PromptCharacter(E, ch))

\* parseCommand: q, q! and wq, which saves nothing; w, w name and wq name.
Command(e) == Key({"COMMAND"}) /\ E' = [e EXCEPT !.mode = "NORMAL"]
Exited(e, command) == [e EXCEPT !.exited = command]
Quit ==
    /\ \E e \in {IF E.saved THEN Exited(E, "q") ELSE E, Exited(E, "q!"),
                 IF E.filename = "" THEN E ELSE Exited(E, "wq")} : Command(e)
    /\ UNCHANGED disk
Write ==
    /\ E.filename # ""
    /\ \E ok \in BOOLEAN : Command(SaveFile(E, ok)) /\ Store(E.filename, ok)
WriteTo ==
    \E ok \in BOOLEAN :
       /\ Command(SaveFile([E EXCEPT !.filename = IF @ = "" THEN "other" ELSE @], ok))
       /\ Store("other", ok)
WriteToAndQuit ==
    \E ok \in BOOLEAN :
       /\ Command(IF ok THEN Exited(SaveFile(E, ok), "wq other") ELSE E)
       /\ Store("other", ok)

Stopped == ~ Running /\ UNCHANGED vars

Next ==
    \/ Left \/ Right \/ Up \/ Down \/ Escape
    \/ TypeCharacter \/ Enter \/ Backspace
    \/ LineKey \/ InsertKey \/ OpenKey \/ DeleteKey \/ SelectKey \/ CopyKey \/ PasteKey
    \/ NextKey \/ PreviousKey \/ ModeKey
    \/ PromptKey \/ PromptType
    \/ Quit \/ Write \/ WriteTo \/ WriteToAndQuit
    \/ Stopped

Spec == Init /\ [][Next]_vars

-----------------------------------------------------------------------------
(* Properties, as long as nothing undefined was done.                      *)

Defined == E.undefined = ""

\* The cursor is in the text, on a character or behind the last, and its
\* column is that of the character, whatever line was joined, removed, pasted
\* or searched for.
CursorInText ==
    Defined =>
        /\ E.cury \in 0 .. Numrows(E) - 1
        /\ E.curx \in 0 .. Len(CurrentRow(E))
        /\ E.rcurx = CurxToRCurx(CurrentRow(E), E.curx)

\* The line of the cursor is shown: every handler that moves the cursor or
\* the lines moves the view along.
CursorOnScreen ==
    Defined => E.rowoff >= 0 /\ E.cury - E.rowoff \in 0 .. MaxRows - 1

\* The colours follow the text: a row ends in a comment exactly if its
\* characters say so behind the row above it.  Joining lines breaks it, and so
\* does splitting one in a comment that its second half seems to close.
CommentsFollow ==
    Defined /\ ~ E.miscoloured =>
        \A i \in DOMAIN E.rows :
            E.rows[i].unclosed = Unclosed(E.rows[i].chars, i > 1 /\ E.rows[i - 1].unclosed)

\* A text that counts as saved is in a file, so that q loses nothing, as long
\* as no line was split since: that is not counted as a change.
SavedMeansWritten ==
    Defined /\ E.saved /\ ~ E.split =>
        \E file \in DOMAIN disk : disk[file] # None /\ Rows(disk[file]) = Text(E.rows)

\* Where a search forward stops anew, there is the text that is sought.  (One
\* backward may stop elsewhere: strrstr does not compare the first character.)
FindsWhatIsSought ==
    [][ /\ E'.search.found /\ ~ E'.search.prev
        /\ E'.search.y = E'.cury /\ E'.search.x = E'.curx + 1
        /\ <<E'.search.y, E'.search.x>> # <<E.search.y, E.search.x>>
        => Pattern(E') = SubSeq(CurrentRow(E'), E'.curx + 1, E'.curx + Len(Pattern(E'))) ]_vars
=============================================================================

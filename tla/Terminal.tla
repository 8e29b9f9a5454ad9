------------------------------ MODULE Terminal ------------------------------
(***************************************************************************)
(* The terminal of tty.c as a record and operators on it: the screen, the  *)
(* cursor, the parser of escape sequences and the commands of SYS_ttycmd.  *)
(* Colours, and the cursor of the hardware, which follows the terminal's   *)
(* after every write, are left out.                                        *)
(*                                                                         *)
(* terminal_column is unsigned; below 0, where a backspace may take it, it *)
(* is kept as a negative number here, with the comparisons of the code.    *)
(* After a write outside of terminal_buffer or argBuf, t.outside is TRUE.  *)
(***************************************************************************)
EXTENDS Integers, Sequences, SequencesExt

CONSTANTS VGA_WIDTH, VGA_HEIGHT,
          BUF_COUNT, BUF_SIZE       \* arguments of an escape sequence, and their digits

\* A tab never crosses the end of a row.
ASSUME ScreenAssumption ==
    /\ VGA_WIDTH \in Nat \ {0} /\ VGA_WIDTH % 4 = 0
    /\ VGA_HEIGHT \in Nat \ {0} /\ BUF_COUNT \in Nat \ {0} /\ BUF_SIZE \in Nat \ {0}

Esc == "esc"
Bs == "bs"        \* '\b'
Blank == " "
Digits == <<"0", "1", "2", "3", "4", "5", "6", "7", "8", "9">>
IsDigit(c) == c \in ToSet(Digits)
Atoi(c) == SelectInSeq(Digits, LAMBDA d : d = c) - 1

Cells == 0 .. VGA_WIDTH * VGA_HEIGHT - 1
NoScreen == [row |-> -1]
Escape0 == [inside |-> FALSE, index |-> 0, arg |-> 0, args |-> <<>>, private |-> FALSE]

\* terminal_initialize.
Cleared == [i \in Cells |-> Blank]
TerminalInit ==
    [cells |-> Cleared, row |-> 0, column |-> 0, esc |-> Escape0, saved |-> NoScreen,
     outside |-> FALSE]

-----------------------------------------------------------------------------
(* The screen.                                                             *)

Here(t) == t.row * VGA_WIDTH + t.column
Put(t, i, c) == IF i \in Cells THEN [t EXCEPT !.cells[i] = c] ELSE [t EXCEPT !.outside = TRUE]
Erased(t, cells) ==
    IF cells \subseteq Cells
    THEN [t EXCEPT !.cells = [i \in Cells |-> IF i \in cells THEN Blank ELSE @[i]]]
    ELSE [t EXCEPT !.outside = TRUE]
RowCells(t) == t.row * VGA_WIDTH .. t.row * VGA_WIDTH + VGA_WIDTH - 1

ScrollDown(t) ==
    [t EXCEPT !.row = VGA_HEIGHT - 1,
              !.cells = [i \in Cells |-> IF i + VGA_WIDTH \in Cells THEN @[i + VGA_WIDTH] ELSE Blank]]
NextRow(t) ==
    IF t.row + 1 >= VGA_HEIGHT THEN ScrollDown([t EXCEPT !.column = 0])
    ELSE [t EXCEPT !.column = 0, !.row = @ + 1]

\* (Mutant: a full row is left by one character too late.)
AdvancedLate(t) ==
    IF t.column + 1 \in 0 .. VGA_WIDTH THEN [t EXCEPT !.column = @ + 1] ELSE NextRow(t)

\* The column that wrapped below 0 is also behind the last one.
Advanced(t) ==
    IF t.column + 1 \in 0 .. VGA_WIDTH - 1 THEN [t EXCEPT !.column = @ + 1] ELSE NextRow(t)

\* (Mutant: the cursor stays where it was in the row.)
ClearRowOnly(t) == Erased(t, RowCells(t))

ClearRow(t) == [Erased(t, RowCells(t)) EXCEPT !.column = 0]
ClearRowFrom(t) ==
    [Erased(t, IF t.column < 0 THEN {} ELSE {i \in RowCells(t) : i >= Here(t)}) EXCEPT !.column = 0]
ClearRowTo(t) ==
    IF t.column < 0 THEN [t EXCEPT !.outside = TRUE]
    ELSE [Erased(t, {i \in RowCells(t) : i < Here(t)}) EXCEPT !.column = 0]
EraseScreen(t) == [t EXCEPT !.cells = Cleared, !.row = 0, !.column = 0]
SaveScreen(t) == [t EXCEPT !.saved = [cells |-> t.cells, row |-> t.row, column |-> t.column]]
RestoreScreen(t) ==
    IF t.saved = NoScreen THEN t
    ELSE [t EXCEPT !.cells = t.saved.cells, !.row = t.saved.row, !.column = t.saved.column]

-----------------------------------------------------------------------------
(* Escape sequences.                                                       *)

CursorLeft(t) ==
    IF t.column # 0 THEN [t EXCEPT !.column = @ - 1]
    ELSE IF t.row = 0 THEN t
    ELSE [t EXCEPT !.column = VGA_WIDTH - 1, !.row = @ - 1]
CursorRight(t) ==
    IF t.column # VGA_WIDTH - 1 THEN [t EXCEPT !.column = @ + 1]
    ELSE IF t.row = VGA_HEIGHT - 1 THEN t
    ELSE [t EXCEPT !.column = 0, !.row = @ + 1]
Times(f(_), t, n) == FoldLeft(LAMBDA s, k : f(s), t, [k \in 1 .. n |-> k])

\* parseArgs.  Colours (m) change nothing here.
ParseArgs(t, type) ==
    LET num == IF t.esc.args = <<>> THEN 0 ELSE t.esc.args[1]
    IN  CASE type = "J" /\ num = 2 -> EraseScreen(t)
          [] type = "K" /\ num = 2 -> ClearRow(t)
          [] type = "D" -> Times(CursorLeft, t, num)
          [] type = "C" -> Times(CursorRight, t, num)
          [] type = "h" /\ t.esc.private /\ num = 47 -> SaveScreen(t)
          [] type = "l" /\ t.esc.private /\ num = 47 -> RestoreScreen(t)
          [] OTHER -> t

\* A digit of an argument: those of one too many are written as well, since
\* the test for them guards nothing.
Digit(t, c) ==
    IF t.esc.arg >= BUF_SIZE THEN t
    ELSE IF t.esc.index > BUF_COUNT THEN [t EXCEPT !.outside = TRUE]
    ELSE [t EXCEPT !.esc.arg = @ + 1, !.esc.args[t.esc.index] = 10 * @ + Atoi(c)]
NextArg(t) == [t EXCEPT !.esc.index = @ + 1, !.esc.arg = 0, !.esc.args = Append(@, 0)]
Final(t, c) ==
    IF t.esc.index = 0 \/ t.esc.index > BUF_COUNT
       \/ (t.esc.index = BUF_COUNT /\ t.esc.arg = BUF_SIZE)
    THEN [t EXCEPT !.outside = TRUE]
    ELSE [ParseArgs(t, c) EXCEPT !.esc.inside = FALSE]

InsideEscape(t, c) ==
    IF c = "[" THEN IF t.esc.index = 0 THEN NextArg(t) ELSE [t EXCEPT !.esc.inside = FALSE]
    ELSE IF c = "?" /\ t.esc.index = 1 THEN [t EXCEPT !.esc.private = TRUE]
    ELSE IF IsDigit(c) /\ t.esc.index >= 1 THEN Digit(t, c)
    ELSE IF c = ";" THEN NextArg(t)
    ELSE Final(t, c)

\* The blanks of a tab, up to the next multiple of four cells.
Tabbed(t) ==
    FoldLeft(LAMBDA s, k : Advanced(Put(s, Here(t) + k - 1, Blank)), t,
             [k \in 1 .. 4 - (Here(t) % 4) |-> k])

WriteChar(t, c) ==
    CASE c = "\n" -> NextRow(t)
      [] c = Bs -> [t EXCEPT !.column = @ - 1]
      [] c = "\t" -> Tabbed(t)
      [] c = Esc -> [t EXCEPT !.esc = [Escape0 EXCEPT !.inside = TRUE]]
      [] OTHER -> IF t.esc.inside THEN InsideEscape(t, c) ELSE Advanced(Put(t, Here(t), c))
Written(t, chars) == FoldLeft(WriteChar, t, chars)

-----------------------------------------------------------------------------
(* terminal_execute_cmd, for the commands that change something.           *)

MoveCursor(t, row, column) == [t EXCEPT !.row = row, !.column = column]
EraseFromCursor(t) ==
    [ClearRowFrom(t) EXCEPT !.row = IF @ < VGA_HEIGHT - 1 THEN @ + 1 ELSE @]

\* memmove counts bytes, a cell has two: half of the row is moved.
DeleteCharacters(t, n, width) ==
    LET i == Here(t) - 1
        moved == i .. i + (width - n + 1) \div 2 - 1
        blank == i + width - n .. i + width - 1
    IN  IF ~ (moved \union blank \union {j + n : j \in moved}) \subseteq Cells
        THEN [t EXCEPT !.outside = TRUE]
        ELSE [t EXCEPT !.cells = [j \in Cells |-> IF j \in blank THEN Blank
                                                  ELSE IF j \in moved THEN @[j + n] ELSE @[j]]]
Commands(t, rows, columns) ==
    {ClearRow(t), EraseScreen(t), SaveScreen(t), RestoreScreen(t), EraseFromCursor(t),
     ClearRowTo(t), DeleteCharacters(t, 1, VGA_WIDTH - t.row)}
        \union {MoveCursor(t, row, column) : row \in rows, column \in columns}
=============================================================================

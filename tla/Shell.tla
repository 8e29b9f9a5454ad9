------------------------------- MODULE Shell --------------------------------
(***************************************************************************)
(* The shell, shell.c, on the terminal: its line editor, one key in each   *)
(* step, its history and what it does with a line.  cmd and history are    *)
(* cells of memory that hold characters and '\0'; a string is what stands  *)
(* before the first '\0'.  What a word names - a command of the shell or a *)
(* program - is left open, since no words are typed here, and so is        *)
(* whether the calls to the kernel succeed.  A program that runs leaves    *)
(* the terminal as it likes.                                               *)
(***************************************************************************)
EXTENDS Terminal, Integers, Sequences, FiniteSets, SequencesExt, FiniteSetsExt

CONSTANTS
    MAX_LINE_LENGTH, HISTORY_SIZE, MAX_ARGS,
    UserName,       \* pw_name: characters
    Paths,          \* what cwd may be: sequences of characters
    Letters,        \* bound: the characters that are typed
    Outputs,        \* bound: what a program writes
    MaxKeys         \* bound: keys typed

\* An entry of the history holds at least a character and its '\0'.
ASSUME ShellAssumption ==
    /\ MAX_LINE_LENGTH \in Nat /\ HISTORY_SIZE \in Nat \ {0, 1} /\ MAX_ARGS \in Nat \ {0}
    /\ HISTORY_SIZE < MAX_LINE_LENGTH

VARIABLES
    sh,     \* the shell
    term,   \* the terminal
    keys    \* how many were typed

shellVars == <<sh, term, keys>>

Nul == "nul"
Space == " "

-----------------------------------------------------------------------------
(* Strings in memory.                                                      *)

StringAt(mem, at) ==
    LET ends == {i \in DOMAIN mem : i >= at /\ mem[i] = Nul}
    IN  [k \in 1 .. Min(ends) - at |-> mem[at + k - 1]]
HasEnd(mem, at) == \E i \in DOMAIN mem : i >= at /\ mem[i] = Nul
Copied(mem, at, string) ==
    [i \in DOMAIN mem |-> IF i \in at .. at + Len(string) - 1 THEN string[i - at + 1]
                          ELSE IF i = at + Len(string) THEN Nul ELSE mem[i]]

\* history[MAX_LINE_LENGTH][HISTORY_SIZE]: an entry has HISTORY_SIZE cells, and
\* a line that is longer goes on in those of the next.
Entry(k) == k * HISTORY_SIZE
Recalled(s, k) == StringAt(s.history, Entry(k))

-----------------------------------------------------------------------------
(* What the shell prints.                                                  *)

PS1(cwd) ==
    <<Esc, "[", "2", "K", Esc, "[", "4", "0", ";", "4", "6", "m">> \o UserName
        \o <<Esc, "[", "0", "m", ":", Esc, "[", "3", "9", ";", "4", "6", "m">> \o cwd
        \o <<Esc, "[", "0", "m", "$", Blank>>
Prompt(cwd) == UserName \o <<":">> \o cwd \o <<"$", Blank>>
Message == <<"!", "\n">>
Rubout == <<Bs, Blank, Bs>>

\* The line no longer fits behind the prompt, or was changed in its middle.
Fits(s) == Len(Prompt(s.cwd)) + s.index < VGA_WIDTH
Shown(s) ==
    LET astray == s.astray \/ ~ Fits(s) IN [s EXCEPT !.astray = astray, !.strayed = @ \/ astray]
Undefined(s) == [s EXCEPT !.undefined = TRUE]

-----------------------------------------------------------------------------
(* The line editor.                                                        *)

Sound == ~ sh.undefined /\ ~ term.outside
Running == Sound /\ ~ sh.exited /\ keys < MaxKeys
Key == Running /\ keys' = keys + 1
Editing == Key /\ sh.index < MAX_LINE_LENGTH
Step(s, chars) == sh' = Shown(s) /\ term' = Written(term, chars)

\* A full line takes no key but Enter; an arrow key is two characters.
FullLine ==
    /\ Key /\ sh.index >= MAX_LINE_LENGTH
    /\ \E chars \in {Message, Message \o Message} : Step([sh EXCEPT !.astray = TRUE], chars)

\* Backspace may take the cursor below 0, where it is larger than every index.
LeftArrow ==
    /\ Editing
    /\ IF sh.cursor = 0 THEN Step(sh, <<>>)
       ELSE Step([sh EXCEPT !.cursor = @ - 1], <<Esc, "[", "1", "D">>)
RightArrow ==
    /\ Editing
    /\ IF sh.cursor \in 0 .. sh.index - 1
       THEN Step([sh EXCEPT !.cursor = @ + 1], <<Esc, "[", "1", "C">>)
       ELSE Step(sh, <<>>)


\* (Mutant: the cursor stays where it was in the line.)
RecallAtCursor(s, scroll, string) ==
    IF Len(string) > MAX_LINE_LENGTH THEN Undefined(s)
    ELSE [s EXCEPT !.scroll = scroll, !.cmd = Copied(@, 0, string), !.index = Len(string)]

Recall(s, scroll, string) ==
    IF Len(string) > MAX_LINE_LENGTH THEN Undefined(s)
    ELSE [s EXCEPT !.scroll = scroll, !.cmd = Copied(@, 0, string),
                   !.index = Len(string), !.cursor = Len(string)]
RecallOf(scroll) ==
    LET string == Recalled(sh, sh.count - scroll)
    IN  Step(Recall(sh, scroll, string), PS1(sh.cwd) \o string)
UpArrow ==
    /\ Editing
    /\ IF sh.scroll = sh.count THEN Step(sh, <<>>) ELSE RecallOf(sh.scroll + 1)

\* Without anything scrolled back the line is rubbed out, as if the cursor
\* were at its end.
DownArrow ==
    /\ Editing
    /\ IF sh.scroll = 0
       THEN Step([sh EXCEPT !.index = 0, !.cursor = 0, !.astray = @ \/ sh.cursor # sh.index],
                 FlattenSeq([k \in 1 .. sh.index |-> Rubout]))
       ELSE RecallOf(sh.scroll - 1)

\* The character before the cursor goes from the screen, the last one from cmd.
Backspace ==
    /\ Editing
    /\ IF sh.index = 0 THEN Step(sh, <<>>)
       ELSE Step([sh EXCEPT !.index = @ - 1, !.cursor = @ - 1,
                            !.astray = @ \/ sh.cursor # sh.index], Rubout)

\* In the middle the characters behind the cursor move by one, the one at the
\* cursor is lost and the one behind it stays as well.
Appended(s, c) ==
    [s EXCEPT !.cmd[s.index] = c, !.index = @ + 1, !.cursor = @ + 1, !.scroll = 0]
PutIn(s, c) ==
    IF s.cursor < 0 THEN Undefined(s)
    ELSE [s EXCEPT !.cmd = [i \in DOMAIN @ |-> IF i = s.cursor THEN c
                                               ELSE IF i \in s.cursor + 2 .. s.index + 1
                                               THEN @[i - 1] ELSE @[i]],
                   !.index = @ + 1, !.cursor = @ + 1, !.scroll = 0, !.astray = TRUE]
Tail1(s) == StringAt(s.cmd, s.cursor - 1)
TypeLetter ==
    /\ Editing
    /\ \E c \in Letters :
          IF sh.cursor = sh.index THEN Step(Appended(sh, c), <<c>>)
          ELSE \E s \in {PutIn(sh, c)} :
                  IF s.undefined \/ ~ HasEnd(s.cmd, s.cursor - 1) THEN Step(Undefined(s), <<>>)
                  ELSE Step(s, Tail1(s) \o [k \in 1 .. s.index - s.cursor |-> Bs])

-----------------------------------------------------------------------------
(* Enter.                                                                  *)

Ended(s) == [s EXCEPT !.cmd[s.index] = Nul]

\* strtok: every space ends a word, an empty one too, and becomes a '\0'.
Spaces(s) == {i \in 0 .. Len(StringAt(s.cmd, 0)) - 1 : s.cmd[i] = Space}
Words(s) ==
    LET line == StringAt(s.cmd, 0)
    IN  Cardinality(Spaces(s)) + IF line # <<>> /\ Last(line) # Space THEN 1 ELSE 0
Tokenised(s) ==
    LET cut == {i \in Spaces(s) : Cardinality({j \in Spaces(s) : j <= i}) <= MAX_ARGS + 1}
    IN  [s EXCEPT !.cmd = [i \in DOMAIN @ |-> IF i \in cut THEN Nul ELSE @[i]]]

IsNew(s) == s.count = 0 \/ Recalled(s, s.count - 1) # StringAt(s.cmd, 0)
Remember(s) ==
    [s EXCEPT !.history = Copied(@, Entry(s.count), StringAt(s.cmd, 0)),
              !.count = @ + 1, !.entered = Append(@, StringAt(s.cmd, 0))]

\* (Mutant: the line is cut into words before it is remembered.)
RememberedCut(s) ==
    IF s.index = 0 \/ s.count >= HISTORY_SIZE \/ ~ IsNew(s) THEN s
    ELSE [Remember(Tokenised(s)) EXCEPT !.entered[s.count + 1] = StringAt(s.cmd, 0)]

Remembered(s) ==
    IF s.index = 0 \/ s.count >= HISTORY_SIZE \/ ~ IsNew(s) THEN s ELSE Remember(s)
HistoryMessage(s) == IF s.index # 0 /\ s.count >= HISTORY_SIZE THEN Message ELSE <<>>

\* The next line begins with nothing in it; cmd is not cleared.
NextLine(s, cwd) == [s EXCEPT !.index = 0, !.cursor = 0, !.scroll = 0, !.cwd = cwd, !.astray = FALSE]
Entered == NextLine(Tokenised(Remembered(Ended(sh))), sh.cwd)
ArgCount == Min({Words(Ended(sh)), MAX_ARGS})
ArgsMessage == IF Words(Ended(sh)) > MAX_ARGS THEN Message ELSE <<>>
AfterEnter == Written(term, HistoryMessage(sh) \o <<"\n">> \o ArgsMessage)

\* A line that begins with a space has an empty first word, no command.
Named == ArgCount > 0 /\ StringAt(Ended(sh).cmd, 0)[1] # Space

\* t is the terminal as the command leaves it.
Prompts(s, t) == sh' = Shown(s) /\ term' = Written(t, PS1(s.cwd))

EnterNothing == Key /\ ArgCount = 0 /\ Prompts(Entered, AfterEnter)

CmdExit ==
    /\ Key /\ Named
    /\ IF ArgCount = 1
       THEN sh' = [Entered EXCEPT !.exited = TRUE] /\ term' = AfterEnter
       ELSE Prompts(Entered, Written(AfterEnter, Message))
CmdClear == Key /\ Named /\ Prompts(Entered, Written(AfterEnter, <<Esc, "[", "2", "J">>))

\* chdir may fail, and so may getcwd after it, which leaves cwd as it was.
CmdCd ==
    /\ Key /\ Named
    /\ \/ Prompts(Entered, Written(AfterEnter, Message))
       \/ ArgCount = 2 /\ \E cwd \in Paths : Prompts([Entered EXCEPT !.cwd = cwd], AfterEnter)

\* Two arguments set a variable; with three the first must be -n.
CmdExport ==
    /\ Key /\ Named
    /\ \/ Prompts(Entered, Written(AfterEnter, Message))
       \/ ArgCount \in {2, 3} /\ Prompts(Entered, AfterEnter)

\* fork, execvp in the child, wait: a message of the shell or of its child,
\* or what a program did to the terminal.
ExecArgs ==
    /\ Key /\ ArgCount > 0
    /\ \/ Prompts(Entered, Written(AfterEnter, Message))
       \/ \E chars \in Outputs : Prompts(Entered, Written(AfterEnter, chars))
       \/ \E t \in Commands(AfterEnter, 0 .. VGA_HEIGHT - 1, {VGA_WIDTH - 1}) : Prompts(Entered, t)

-----------------------------------------------------------------------------
\* main up to the first prompt; whatever stood on the screen is a blank here.
ShellInit ==
    /\ keys = 0
    /\ \E cwd \in Paths :
          /\ sh = [cmd |-> [i \in 0 .. MAX_LINE_LENGTH |-> Nul], index |-> 0, cursor |-> 0,
                   scroll |-> 0, count |-> 0, cwd |-> cwd,
                   history |-> [i \in 0 .. MAX_LINE_LENGTH * HISTORY_SIZE - 1 |-> Nul],
                   exited |-> FALSE, undefined |-> FALSE, astray |-> FALSE, strayed |-> FALSE,
                   entered |-> <<>>]
          /\ term = Written(TerminalInit, PS1(cwd))

Stopped == ~ Running /\ UNCHANGED shellVars

ShellNext ==
    \/ FullLine \/ LeftArrow \/ RightArrow \/ UpArrow \/ DownArrow \/ Backspace \/ TypeLetter
    \/ EnterNothing \/ CmdExit \/ CmdClear \/ CmdCd \/ CmdExport \/ ExecArgs
    \/ Stopped

ShellSpec == ShellInit /\ [][ShellNext]_shellVars

-----------------------------------------------------------------------------
(* Properties.                                                             *)

EntriesFit == \A k \in DOMAIN sh.entered : Len(sh.entered[k]) < HISTORY_SIZE

\* What the user sees is what Enter will run: the row of the cursor shows the
\* prompt and the line, and the cursor stands where the next character goes,
\* whatever was recalled and whatever a program left on the terminal; and no
\* write to get there leaves the screen or the arguments of an escape sequence.
\* Not after an edit in the middle of the line or a line longer than the row.
LineIsShown ==
    /\ ~ sh.strayed => ~ term.outside
    /\ Sound /\ ~ sh.exited /\ ~ sh.astray =>
          LET row  == [k \in 1 .. VGA_WIDTH |-> term.cells[term.row * VGA_WIDTH + k - 1]]
              line == Prompt(sh.cwd) \o [k \in 1 .. sh.index |-> sh.cmd[k - 1]]
          IN  /\ IsPrefix(line, row)
              /\ \A k \in Len(line) + 1 .. VGA_WIDTH : row[k] = Blank
              /\ term.column = Len(Prompt(sh.cwd)) + sh.cursor

\* The history recalls the lines that were entered, as long as each is
\* shorter than an entry.
HistoryRecalls ==
    EntriesFit =>
        \A k \in DOMAIN sh.entered : Recalled(sh, k - 1) = sh.entered[k]

\* Whatever is recalled, in whichever order, the cursor stays on the line and
\* no recalled line is longer than cmd, until a line is edited in its middle,
\* outgrows its row or overruns its entry.
EditsInBounds ==
    ~ sh.strayed => /\ EntriesFit => ~ sh.undefined
                    /\ sh.cursor \in 0 .. sh.index
=============================================================================

------------------------------- MODULE Stdin --------------------------------
(***************************************************************************)
(* The way of a typed character to one process (not process 0, for which   *)
(* the kernel saves none): handleKeyboardBlock puts it in the process's    *)
(* stdinBuffer, or straight into the buffer of a read that waits for it;   *)
(* SYS_read of the standard input takes from stdinBuffer and waits for the *)
(* rest.  The n-th key pressed is the character n.  There is always        *)
(* another process to run while this one is blocked.                       *)
(***************************************************************************)
EXTENDS Integers, Sequences

CONSTANTS
    MIN_STDIN_BUFFER_SIZE,  \* 32
    MAX_STDIN_BUFFER_SIZE,  \* 128
    STDIN_SETBACK,          \* 32
    MaxTyped,               \* bound: keys pressed
    MaxRead                 \* bound: characters asked for by one read

ASSUME SizesAssumption ==
    /\ MIN_STDIN_BUFFER_SIZE \in Nat \ {0}
    /\ MAX_STDIN_BUFFER_SIZE \in Nat
    /\ STDIN_SETBACK \in 1 .. MAX_STDIN_BUFFER_SIZE
\* The largest size is the smallest one, doubled some times.
ASSUME DoublingAssumption ==
    \E sizes \in SUBSET (MIN_STDIN_BUFFER_SIZE .. MAX_STDIN_BUFFER_SIZE) :
        /\ MIN_STDIN_BUFFER_SIZE \in sizes
        /\ \A n \in sizes : n # MAX_STDIN_BUFFER_SIZE => 2 * n \in sizes
ASSUME BoundsAssumption == MaxTyped \in Nat \ {0} /\ MaxRead \in Nat \ {0}

Junk == 0               \* a byte nobody typed
Char == 0 .. MaxTyped

VARIABLES
    state,          \* RUNNING, BLOCKED_KEYBOARD or BLOCKED_WAITPID
    stdinIndex, stdinSize, stdinBuffer,
    buf,            \* what the last read has put in the caller's buffer
    eax, edx,       \* a blocked read: characters got, characters still wanted
    typed,          \* keys pressed so far
    got,            \* what the reads have returned to the program, in order
    accepted,       \* the keys the kernel took for this process
    orderly         \* no step has yet lost, repeated or moved a character

vars == <<state, stdinIndex, stdinSize, stdinBuffer, buf, eax, edx, typed, got, accepted, orderly>>

TypeOK ==
    /\ state \in {"RUNNING", "BLOCKED_KEYBOARD", "BLOCKED_WAITPID"}
    /\ stdinSize \in MIN_STDIN_BUFFER_SIZE .. MAX_STDIN_BUFFER_SIZE
    /\ stdinIndex \in 0 .. stdinSize
    /\ stdinBuffer \in [0 .. MAX_STDIN_BUFFER_SIZE - 1 -> Char]
    /\ buf \in [0 .. MaxRead - 1 -> Char]
    /\ eax \in 0 .. MaxRead /\ edx \in 0 .. MaxRead
    /\ typed \in 0 .. MaxTyped
    /\ got \in Seq(Char) /\ accepted \in Seq(Char)
    /\ orderly \in BOOLEAN

\* The first n elements of the array a, as a sequence.
Prefix(a, n) == [k \in 1 .. n |-> a[k - 1]]

\* The byte at k of the stdin buffer; beyond it lies the heap.
At(k) == IF k < stdinSize THEN stdinBuffer[k] ELSE Junk

-----------------------------------------------------------------------------
(* handleKeyboardBlock, for one character.                                 *)

Press == typed < MaxTyped /\ typed' = typed + 1

\* (Mutant: the keys fill the caller's buffer from its end.)
KeyToReaderReversed ==
    /\ Press
    /\ state = "BLOCKED_KEYBOARD"
    /\ buf' = [buf EXCEPT ![edx - 1] = typed']
    /\ edx' = edx - 1
    /\ eax' = eax + 1
    /\ accepted' = Append(accepted, typed')
    /\ IF edx' = 0
       THEN /\ state' = "RUNNING"
            /\ got' = got \o Prefix(buf', eax')
       ELSE UNCHANGED <<state, got>>
    /\ UNCHANGED <<stdinIndex, stdinSize, stdinBuffer, orderly>>

\* A read is waiting: the character goes to the caller's buffer, and the read
\* returns with the last one.
KeyToReader ==
    /\ Press
    /\ state = "BLOCKED_KEYBOARD"
    /\ buf' = [buf EXCEPT ![eax] = typed']
    /\ edx' = edx - 1
    /\ eax' = eax + 1
    /\ accepted' = Append(accepted, typed')
    /\ IF edx' = 0
       THEN /\ state' = "RUNNING"
            /\ got' = got \o Prefix(buf', eax')
       ELSE UNCHANGED <<state, got>>
    /\ UNCHANGED <<stdinIndex, stdinSize, stdinBuffer, orderly>>

\* The buffer doubles when it is full.
Grown == IF stdinIndex >= stdinSize THEN 2 * stdinSize ELSE stdinSize

\* The process is running and its buffer is not yet of the largest size.
KeyToBuffer ==
    /\ Press
    /\ state = "RUNNING" /\ stdinSize < MAX_STDIN_BUFFER_SIZE
    /\ stdinSize' = Grown
    /\ stdinBuffer' = [stdinBuffer EXCEPT ![stdinIndex] = typed']
    /\ stdinIndex' = stdinIndex + 1
    /\ accepted' = Append(accepted, typed')
    /\ UNCHANGED <<state, buf, eax, edx, got, orderly>>

\* Once the buffer has its largest size no key is stored any more, however
\* much of it is free; each moves the end of the buffer to its beginning.
KeySetback ==
    /\ Press
    /\ state = "RUNNING" /\ stdinSize >= MAX_STDIN_BUFFER_SIZE
    /\ stdinBuffer' = [k \in DOMAIN stdinBuffer |->
                          IF k < STDIN_SETBACK
                          THEN stdinBuffer[MAX_STDIN_BUFFER_SIZE - STDIN_SETBACK + k]
                          ELSE stdinBuffer[k]]
    /\ accepted' = Append(accepted, typed')
    /\ orderly' = FALSE
    /\ UNCHANGED <<state, stdinIndex, stdinSize, buf, eax, edx, got>>

\* The process waits for a child: the key is not for it.
KeyIgnored ==
    /\ Press
    /\ state = "BLOCKED_WAITPID"
    /\ UNCHANGED <<state, stdinIndex, stdinSize, stdinBuffer, buf, eax, edx, got, accepted,
                   orderly>>

-----------------------------------------------------------------------------
(* The process.                                                            *)

\* (Mutant: the characters read stay in the buffer.)
TakeKept(count) ==
    /\ buf' = [k \in DOMAIN buf |-> IF k < count THEN stdinBuffer[k] ELSE buf[k]]
    /\ UNCHANGED <<stdinIndex, stdinBuffer>>

\* The first count characters of the buffer go to the caller.  What is left
\* should move to the start: the code moves as many bytes as were taken.
Take(count) ==
    /\ buf' = [k \in DOMAIN buf |-> IF k < count THEN stdinBuffer[k] ELSE buf[k]]
    /\ stdinIndex' = stdinIndex - count
    /\ stdinBuffer' = [k \in DOMAIN stdinBuffer |->
                          IF k < count THEN At(count + k) ELSE stdinBuffer[k]]

Waits(count, requested) == count # requested

\* SYS_read(STDIN_FILENO, buf, requested).  A read that waits starts again at
\* the beginning of buf.
SysRead(requested) ==
    LET count == IF requested > stdinIndex THEN stdinIndex ELSE requested IN
    /\ state = "RUNNING"
    /\ Take(count)
    /\ IF Waits(count, requested)
       THEN /\ state' = "BLOCKED_KEYBOARD"
            /\ edx' = requested - count
            /\ eax' = 0
            /\ UNCHANGED got
       ELSE /\ eax' = count
            /\ got' = got \o Prefix(buf', count)
            /\ UNCHANGED <<state, edx>>
    /\ orderly' = (/\ orderly
                   /\ \/ count = 0
                      \/ count = requested /\ stdinIndex - count <= count)
    /\ UNCHANGED <<stdinSize, typed, accepted>>

\* overwriteArgs: what was typed ahead is thrown away, the size stays.
SysExecvp ==
    /\ state = "RUNNING"
    /\ stdinIndex' = 0
    /\ stdinBuffer' = [k \in DOMAIN stdinBuffer |-> IF k < stdinSize THEN Junk ELSE stdinBuffer[k]]
    /\ accepted' = got
    /\ UNCHANGED <<state, stdinSize, buf, eax, edx, typed, got, orderly>>

\* SYS_waitpid and the end of the child (module ProcessTable).
SysWaitpid ==
    /\ state = "RUNNING"
    /\ state' = "BLOCKED_WAITPID"
    /\ UNCHANGED <<stdinIndex, stdinSize, stdinBuffer, buf, eax, edx, typed, got, accepted, orderly>>

ChildExits ==
    /\ state = "BLOCKED_WAITPID"
    /\ state' = "RUNNING"
    /\ UNCHANGED <<stdinIndex, stdinSize, stdinBuffer, buf, eax, edx, typed, got, accepted, orderly>>

-----------------------------------------------------------------------------

Init ==
    /\ state = "RUNNING"
    /\ stdinIndex = 0
    /\ stdinSize = MIN_STDIN_BUFFER_SIZE
    /\ stdinBuffer = [k \in 0 .. MAX_STDIN_BUFFER_SIZE - 1 |-> Junk]
    /\ buf = [k \in 0 .. MaxRead - 1 |-> Junk]
    /\ eax = 0 /\ edx = 0
    /\ typed = 0
    /\ got = <<>> /\ accepted = <<>>
    /\ orderly = TRUE

Next ==
    \/ KeyToReader \/ KeyToBuffer \/ KeySetback \/ KeyIgnored
    \/ \E requested \in 0 .. MaxRead : SysRead(requested)
    \/ SysExecvp \/ SysWaitpid \/ ChildExits

Spec == Init /\ [][Next]_vars

-----------------------------------------------------------------------------
(* Properties.                                                             *)

\* What a waiting read holds, and what is in the buffer.
Arriving == IF state = "BLOCKED_KEYBOARD" THEN Prefix(buf, eax) ELSE <<>>
Buffered == Prefix(stdinBuffer, stdinIndex)

\* As long as no read has left more behind than it took or found less than it
\* wanted, and the buffer has not reached its largest size, the standard
\* input is a queue: what was typed is what was read, is arriving or waits.
\* In any case the variables keep their types.
InputIsAQueue == TypeOK /\ (orderly => got \o Arriving \o Buffered = accepted)

\* A read that waits gets the keys pressed since, in order, whatever happened
\* to the buffer before.
BlockedReadGetsNextKeys ==
    state = "BLOCKED_KEYBOARD" => \A k \in 0 .. eax - 1 : buf[k] = typed - eax + 1 + k

\* "We need to shift count times / Each shift we move one character down
\* one-by-one" (idt.c:273): a program reads what was typed in the order it was
\* typed, each character once.
InputInOrder == \A i, j \in 1 .. Len(got) : i < j => got[i] < got[j]
=============================================================================

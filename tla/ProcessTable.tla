---------------------------- MODULE ProcessTable ----------------------------
(***************************************************************************)
(* The process table and the scheduler of the kernel (usermode.c), with    *)
(* the system calls and interrupts of idt.c that change them.  Interrupts  *)
(* are off in the kernel, so that a handler is one step: from the trap to  *)
(* the next entry into user mode.                                          *)
(*                                                                         *)
(* A slot that is not initialized keeps what its last process left in it:  *)
(* the code reads the state of such a slot through stale parent pointers.  *)
(***************************************************************************)
EXTENDS Integers

CONSTANTS
    PROCESSES_MAX,  \* slots of the table (and MAX_CHILDREN: both are 32)
    TICKS,          \* timer interrupts in a time slice (3)
    MaxRead,        \* bound: most characters a read can still be waiting for
    LoaderReturns   \* does loadELFIntoMemory return? (file.c:423: it does not)

ASSUME ProcessesAssumption == PROCESSES_MAX \in Nat \ {0}
ASSUME TicksAssumption     == TICKS \in Nat \ {0}
ASSUME MaxReadAssumption   == MaxRead \in Nat \ {0}
ASSUME LoaderAssumption    == LoaderReturns \in BOOLEAN

VARIABLES
    initialized,        \* process_t.initialized of each slot
    state,              \* process_t.state
    parent,             \* process_t.parent: a slot, or NoParent
    children,           \* the slots that children[] points to; as children[]
                        \* is indexed by the child's slot, indexInParent is
                        \* the child's own slot
    blockedEdx,         \* blocked_regs.edx: characters a read still wants
    currentProcessID,
    tickCounter,
    cpu                 \* what the processor is doing

table == <<initialized, state, parent, children, blockedEdx>>
vars  == <<table, currentProcessID, tickCounter, cpu>>

Pid      == 0 .. PROCESSES_MAX - 1
NoParent == PROCESSES_MAX

ProcessState == {"RUNNING", "ZOMBIE", "BLOCKED_KEYBOARD", "BLOCKED_WAITPID"}

\* blocked_regs.edx after it went below zero: about 2^32, which no typing
\* brings back to 0.
Wrapped == MaxRead + 1

\* "boot": kernel_main; "user": in ring 3 with interrupts on; "hung": in one
\* of the kernel's for (;;) {} or cli;hlt; "wild": running what lies behind
\* the process table as if it were a process.
Cpu == {"boot", "user", "hung", "wild"}

TypeOK ==
    /\ initialized \in [Pid -> BOOLEAN]
    /\ state \in [Pid -> ProcessState]
    /\ parent \in [Pid -> Pid \cup {NoParent}]
    /\ children \in [Pid -> SUBSET Pid]
    /\ blockedEdx \in [Pid -> 0 .. Wrapped]
    /\ currentProcessID \in Pid
    /\ tickCounter \in 0 .. TICKS - 1
    /\ cpu \in Cpu

-----------------------------------------------------------------------------
(* The scheduler.                                                          *)

Runnable == {p \in Pid : initialized[p] /\ state[p] = "RUNNING"}

\* How many slots after c the search of findNextProcess comes to p.
Distance(c, p) == (p - c) % PROCESSES_MAX

\* (Mutant: the search begins at slot 0 every time.)
IsFirstFromZero(p, c, S) == p \in S /\ \A q \in S : p <= q

\* p is the first of the slots S that the search meets after c.
IsFirstAfter(p, c, S) == p \in S /\ \A q \in S : Distance(c, p) <= Distance(c, q)

\* (Mutant: the current process is resumed unseen when there is no other.)
SwitchProcessUnchecked ==
    LET others == Runnable' \ {currentProcessID} IN
    /\ cpu' = "user"
    /\ \/ \E p \in others :
              IsFirstAfter(p, currentProcessID, others) /\ currentProcessID' = p
       \/ others = {} /\ UNCHANGED currentProcessID

\* switchProcess, at the end of a handler: the table it looks at is the one
\* the handler leaves.
SwitchProcess ==
    LET others == Runnable' \ {currentProcessID} IN
    \* From the last slot the search starts at processes[PROCESSES_MAX]: if
    \* the memory there looks like a runnable process it is entered, and if
    \* not the search goes on at slot 0.
    \/ /\ currentProcessID = PROCESSES_MAX - 1
       /\ cpu' = "wild"
       /\ UNCHANGED currentProcessID
    \/ \E p \in others :
          /\ IsFirstAfter(p, currentProcessID, others)
          /\ currentProcessID' = p
          /\ cpu' = "user"
    \* "Only one process to run", blocked or not, or "No current processes??"
    \/ /\ others = {}
       /\ cpu' = IF initialized'[currentProcessID] THEN "user" ELSE "hung"
       /\ UNCHANGED currentProcessID

-----------------------------------------------------------------------------
(* Processes begin and end.                                                *)

Free == {p \in Pid : ~ initialized[p]}

\* p is the slot a loop from 0 upwards finds first in S.
IsLowest(p, S) == p \in S /\ \A q \in S : p <= q

\* kernel_main: newProcess takes slot 0 of an empty table and runProcess
\* enters it, if the loader ever returns.
Boot ==
    /\ cpu = "boot"
    /\ IF LoaderReturns
       THEN /\ initialized' = [initialized EXCEPT ![0] = TRUE]
            /\ cpu' = "user"
       ELSE /\ cpu' = "hung"
            /\ UNCHANGED initialized
    /\ currentProcessID' = 0
    /\ UNCHANGED <<state, parent, children, blockedEdx, tickCounter>>

\* (Mutant: the link in the parent is not cleared.)
TerminateProcessKeepsLink(p) ==
    /\ initialized' = [q \in Pid |-> initialized[q] /\ q # p /\ q \notin children[p]]
    /\ UNCHANGED <<parent, children>>

\* terminateProcess(p): the slot of p and those of its children (not of their
\* children) are given up; p leaves its parent's children[].
TerminateProcess(p) ==
    /\ initialized' = [q \in Pid |-> initialized[q] /\ q # p /\ q \notin children[p]]
    /\ children' = [q \in Pid |-> IF q = parent[p] THEN children[q] \ {p} ELSE children[q]]
    /\ UNCHANGED parent

\* (Mutant: exit does not look whether the parent waits.)
SysExitToZombie ==
    LET p == currentProcessID IN
    /\ cpu = "user"
    /\ \/ /\ parent[p] = NoParent
          /\ TerminateProcess(p)
          /\ UNCHANGED state
       \/ /\ parent[p] # NoParent
          /\ state' = [state EXCEPT ![p] = "ZOMBIE"]
          /\ UNCHANGED <<initialized, parent, children>>
    /\ UNCHANGED <<blockedEdx, tickCounter>>
    /\ SwitchProcess

\* SYS_exit and handleWaitpidBlock.
SysExit ==
    LET p == currentProcessID
        waited == parent[p] # NoParent /\ state[parent[p]] = "BLOCKED_WAITPID"
    IN
    /\ cpu = "user"
    /\ \/ /\ parent[p] = NoParent
          /\ TerminateProcess(p)
          /\ UNCHANGED state
       \/ /\ waited
          /\ state' = [state EXCEPT ![parent[p]] = "RUNNING"]
          /\ TerminateProcess(p)
       \/ /\ parent[p] # NoParent /\ ~ waited
          /\ state' = [state EXCEPT ![p] = "ZOMBIE"]
          /\ UNCHANGED <<initialized, parent, children>>
    /\ UNCHANGED <<blockedEdx, tickCounter>>
    /\ SwitchProcess

\* (Mutant: waitpid reaps a child in any state.)
AnyChildren(p) == children[p]

ZombieChildren(p) == {c \in children[p] : state[c] = "ZOMBIE"}

\* SYS_waitpid and handleWaitpid; edx is whatever the caller had there.
SysWaitpid(edx) ==
    LET p == currentProcessID IN
    /\ cpu = "user"
    /\ blockedEdx' = [blockedEdx EXCEPT ![p] = edx]
    /\ \/ \E z \in ZombieChildren(p) :
             /\ IsLowest(z, ZombieChildren(p))
             /\ TerminateProcess(z)
             /\ UNCHANGED state
       \/ /\ ZombieChildren(p) = {}
          /\ state' = [state EXCEPT ![p] = "BLOCKED_WAITPID"]
          /\ UNCHANGED <<initialized, parent, children>>
    /\ UNCHANGED tickCounter
    /\ SwitchProcess

\* (Mutant: the slot is not cleared before it is filled.)
SysForkUncleared ==
    LET p == currentProcessID IN
    /\ cpu = "user"
    /\ \E c \in Free :
          /\ IsLowest(c, Free)
          /\ initialized' = [initialized EXCEPT ![c] = TRUE]
          /\ state' = [state EXCEPT ![c] = "RUNNING"]
          /\ parent' = [parent EXCEPT ![c] = p]
          /\ children' = [children EXCEPT ![p] = @ \cup {c}]
    /\ UNCHANGED <<blockedEdx, currentProcessID, tickCounter, cpu>>

\* SYS_fork and forkProcess: the lowest free slot is cleared and filled; the
\* parent goes on.  The kernel loops for ever when no slot is free.  The
\* refusal of a parent whose children[] is full is left out: it needs a
\* process that is its own child (ForkFindsRoom in ProcessTableProofs).
SysFork ==
    LET p == currentProcessID IN
    /\ cpu = "user"
    /\ \/ \E c \in Free :
             /\ IsLowest(c, Free)
             /\ initialized' = [initialized EXCEPT ![c] = TRUE]
             /\ state' = [state EXCEPT ![c] = "RUNNING"]
             /\ parent' = [parent EXCEPT ![c] = p]
             /\ children' = [children EXCEPT ![c] = {}, ![p] = @ \cup {c}]
             /\ blockedEdx' = [blockedEdx EXCEPT ![c] = 0]
             /\ UNCHANGED cpu
       \/ /\ Free = {}
          /\ cpu' = "hung"
          /\ UNCHANGED table
    /\ UNCHANGED <<currentProcessID, tickCounter>>

\* SYS_execvp and overwriteArgs, past their error returns (which leave the
\* table alone): the process keeps its slot, parent and children.  Too many
\* or too long arguments hang the kernel, as does a loader that never returns.
SysExecvp ==
    /\ cpu = "user"
    /\ \/ /\ LoaderReturns
          /\ state' = [state EXCEPT ![currentProcessID] = "RUNNING"]
          /\ UNCHANGED cpu
       \/ /\ cpu' = "hung"
          /\ UNCHANGED state
    /\ UNCHANGED <<initialized, parent, children, blockedEdx, currentProcessID, tickCounter>>

-----------------------------------------------------------------------------
(* Processes block, and what interrupts them.                              *)

\* SYS_yield.
SysYield ==
    /\ cpu = "user"
    /\ UNCHANGED <<table, tickCounter>>
    /\ SwitchProcess

\* SYS_read from the standard input when `left` of the characters asked for
\* are not there yet (module Stdin has the buffer).
SysReadBlocks(left) ==
    /\ cpu = "user"
    /\ state' = [state EXCEPT ![currentProcessID] = "BLOCKED_KEYBOARD"]
    /\ blockedEdx' = [blockedEdx EXCEPT ![currentProcessID] = left]
    /\ UNCHANGED <<initialized, parent, children, tickCounter>>
    /\ SwitchProcess

\* A key sends one character, or two (a special key, or one with Control);
\* handleKeyboardBlock gives each of them to every process that waits.
Typing(p) == initialized[p] /\ state[p] = "BLOCKED_KEYBOARD"

EdxAfter(e, n) == IF e \in {0, Wrapped} THEN Wrapped
                  ELSE IF e <= n THEN 0 ELSE e - n

IRQKeyboard(n) ==
    /\ cpu = "user"
    /\ initialized[currentProcessID]
    /\ blockedEdx' = [p \in Pid |-> IF Typing(p) THEN EdxAfter(blockedEdx[p], n) ELSE blockedEdx[p]]
    /\ state' = [p \in Pid |-> IF Typing(p) /\ EdxAfter(blockedEdx[p], n) = 0
                               THEN "RUNNING" ELSE state[p]]
    /\ UNCHANGED <<initialized, parent, children, currentProcessID, tickCounter, cpu>>

\* (Mutant: the tick counter is not reset.)
IRQTimerNoReset ==
    /\ cpu = "user"
    /\ UNCHANGED table
    /\ tickCounter' = tickCounter + 1
    /\ IF tickCounter + 1 < TICKS THEN UNCHANGED <<currentProcessID, cpu>> ELSE SwitchProcess

\* The timer: the third interrupt takes the processor away.
IRQTimer ==
    /\ cpu = "user"
    /\ UNCHANGED table
    /\ \/ /\ tickCounter + 1 < TICKS
          /\ tickCounter' = tickCounter + 1
          /\ UNCHANGED <<currentProcessID, cpu>>
       \/ /\ tickCounter + 1 = TICKS
          /\ tickCounter' = 0
          /\ SwitchProcess

\* exception_handler: a fault of the running program halts the machine.
Exception ==
    /\ cpu = "user"
    /\ cpu' = "hung"
    /\ UNCHANGED <<table, currentProcessID, tickCounter>>

\* Nothing happens any more.
Stopped ==
    /\ cpu \in {"hung", "wild"}
    /\ UNCHANGED vars

-----------------------------------------------------------------------------

Init ==
    /\ initialized = [p \in Pid |-> FALSE]
    /\ state = [p \in Pid |-> "RUNNING"]        \* RUNNING is 0, as is all .bss
    /\ parent = [p \in Pid |-> NoParent]
    /\ children = [p \in Pid |-> {}]
    /\ blockedEdx = [p \in Pid |-> 0]
    /\ currentProcessID = 0
    /\ tickCounter = 0
    /\ cpu = "boot"

Next ==
    \/ Boot
    \/ SysExit
    \/ \E edx \in 0 .. MaxRead : SysWaitpid(edx)
    \/ SysFork
    \/ SysExecvp
    \/ SysYield
    \/ \E left \in 1 .. MaxRead : SysReadBlocks(left)
    \/ \E n \in 1 .. 2 : IRQKeyboard(n)
    \/ IRQTimer
    \/ Exception
    \/ Stopped

\* The boot code runs on, and in user mode the timer interrupts until there
\* is a switch: only a switch (pit_set_count) restarts its countdown.
Fairness ==
    /\ WF_vars(Boot)
    /\ WF_vars(\/ IRQTimer
               \/ SysYield
               \/ SysExit
               \/ \E edx \in 0 .. MaxRead : SysWaitpid(edx)
               \/ \E left \in 1 .. MaxRead : SysReadBlocks(left))

Spec == Init /\ [][Next]_vars /\ Fairness

-----------------------------------------------------------------------------
(* Properties.                                                             *)

\* The children[] of a live process points at live processes that point back
\* at it.  terminateProcess takes every slot in children[] for a live child
\* and frees its memory: a stale link there is a double free.
LinksConsistent ==
    \A p \in Pid : initialized[p] =>
        \A c \in children[p] : initialized[c] /\ parent[c] = p

\* No process is its own ancestor along children[]: a waitpid that reaps a
\* zombie, and with it the zombie's children, never frees the address space
\* of the caller, on which the kernel then returns.
ReapSparesCaller ==
    \A p \in Pid : initialized[p] =>
        \A c \in children[p] : c # p /\ p \notin children[c]

\* A process that waits has no zombie among its children: whichever of exit
\* and waitpid comes first, handleWaitpidBlock and handleWaitpid together
\* lose no wake-up.
NoLostWakeup ==
    \A p \in Pid : initialized[p] /\ state[p] = "BLOCKED_WAITPID" =>
        ZombieChildren(p) = {}

\* In user mode the current slot is a live process, whatever the handler
\* just freed: user code never runs in a freed address space.
CurrentIsLive == cpu = "user" => initialized[currentProcessID]

\* A process that exits is not lost to a parent that could still ask for it:
\* only a reaping parent, a waiting parent or the end of the parent removes
\* a process that has one.
GoneOnlyByExitOrReap ==
    [][\A p \in Pid : initialized[p] /\ ~ initialized'[p] =>
          \/ p = currentProcessID /\ (parent[p] = NoParent \/ state'[parent[p]] = "RUNNING")
          \/ currentProcessID = parent[p] /\ state[p] = "ZOMBIE"
          \/ parent[p] \in Pid /\ initialized[parent[p]] /\ ~ initialized'[parent[p]]]_vars

\* What the code says of waiting children, and does not do.

\* "Now child process is in zombie state waiting to be 'wait()'ed for"
\* (usermode.c:1855): a zombie has a live parent that can find it.
ZombieCanBeReaped ==
    cpu = "user" =>
        \A p \in Pid : initialized[p] /\ state[p] = "ZOMBIE" =>
            parent[p] \in Pid /\ initialized[parent[p]] /\ p \in children[parent[p]]

\* A runnable process gets the processor, unless the machine stops.
NoStarvation ==
    \A p \in Pid :
        p \in Runnable ~> (currentProcessID = p \/ p \notin Runnable \/ cpu # "user")
=============================================================================

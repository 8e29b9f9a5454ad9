------------------------- MODULE ProcessTableProofs -------------------------
(***************************************************************************)
(* Theorems about ProcessTable, for tables of any size.  The inductive     *)
(* invariant is the conjunction of the four safety invariants, with the    *)
(* empty table of the boot: that a reaped or exited process frees live children only (LinksConsistent)     *)
(* needs the current process to be live, that the wake-up is not lost      *)
(* needs the links, and that the caller of waitpid survives needs both.    *)
(***************************************************************************)
EXTENDS ProcessTable, TLAPS

\* newProcess at boot fills a slot of a table nobody has used.
BootIsEmpty == cpu = "boot" => \A p \in Pid : children[p] = {} /\ ~ initialized[p]

IInv ==
    /\ TypeOK
    /\ LinksConsistent
    /\ ReapSparesCaller
    /\ NoLostWakeup
    /\ CurrentIsLive
    /\ BootIsEmpty

-----------------------------------------------------------------------------
(* The parts of the handlers.                                              *)

\* Whatever slot switchProcess chooses, it is a live process of the table.
LEMMA SwitchToLive ==
    ASSUME currentProcessID \in Pid, SwitchProcess
    PROVE  /\ currentProcessID' \in Pid
           /\ cpu' \in Cpu
           /\ CurrentIsLive'
           /\ BootIsEmpty'
BY DEF SwitchProcess, Runnable, Cpu, CurrentIsLive, BootIsEmpty

\* terminateProcess leaves a consistent table when it is given a live process.
LEMMA TerminateKeepsLinks ==
    ASSUME TypeOK, LinksConsistent, ReapSparesCaller,
           NEW z \in Pid, initialized[z], TerminateProcess(z)
    PROVE  /\ initialized' \in [Pid -> BOOLEAN]
           /\ parent' \in [Pid -> Pid \cup {NoParent}]
           /\ children' \in [Pid -> SUBSET Pid]
           /\ LinksConsistent'
           /\ ReapSparesCaller'
<1>1. /\ initialized' \in [Pid -> BOOLEAN]
      /\ parent' \in [Pid -> Pid \cup {NoParent}]
      /\ children' \in [Pid -> SUBSET Pid]
  BY DEF TypeOK, TerminateProcess
<1>2. \A q \in Pid : /\ children'[q] \subseteq children[q]
                     /\ initialized'[q] => initialized[q] /\ q # z /\ q \notin children[z]
  BY DEF TypeOK, TerminateProcess
<1>3. LinksConsistent'
  <2> SUFFICES ASSUME NEW p \in Pid, initialized'[p], NEW c \in children'[p]
               PROVE  initialized'[c] /\ parent'[c] = p
    BY DEF LinksConsistent
  <2>1. /\ c \in Pid /\ c \in children[p]
        /\ initialized[p] /\ p # z
        /\ initialized[c] /\ parent[c] = p
    BY <1>1, <1>2 DEF LinksConsistent, TypeOK
  <2>2. c # z
    BY <2>1 DEF TerminateProcess
  <2>3. c \notin children[z]
    BY <2>1 DEF LinksConsistent
  <2> QED
    BY <2>1, <2>2, <2>3 DEF TerminateProcess
<1>4. ReapSparesCaller'
  <2> SUFFICES ASSUME NEW p \in Pid, initialized'[p], NEW c \in children'[p]
               PROVE  c # p /\ p \notin children'[c]
    BY DEF ReapSparesCaller
  <2> QED
    BY <1>1, <1>2 DEF ReapSparesCaller, TypeOK
<1> QED
  BY <1>1, <1>3, <1>4

\* A fork always finds a free entry in children[]: of PROCESSES_MAX entries,
\* the parent's own is never taken.
THEOREM ForkFindsRoom ==
    ASSUME IInv, NEW p \in Pid, initialized[p]
    PROVE  p \notin children[p] /\ children[p] # Pid
BY DEF IInv, ReapSparesCaller

-----------------------------------------------------------------------------
(* The invariant.                                                          *)

LEMMA InitIInv == Init => IInv
BY ProcessesAssumption, TicksAssumption, MaxReadAssumption
   DEF Init, IInv, TypeOK, Pid, NoParent, ProcessState, Wrapped, Cpu,
       LinksConsistent, ReapSparesCaller, NoLostWakeup, CurrentIsLive,
       BootIsEmpty

LEMMA BootIInv == IInv /\ Boot => IInv'
<1> SUFFICES ASSUME IInv, Boot PROVE IInv'
  OBVIOUS
<1>1. 0 \in Pid /\ \A p \in Pid : children'[p] = {}
  BY ProcessesAssumption DEF IInv, BootIsEmpty, Boot, Pid
<1>2. TypeOK'
  BY <1>1 DEF IInv, TypeOK, Boot, Cpu
<1>3. LinksConsistent' /\ ReapSparesCaller' /\ NoLostWakeup'
  BY <1>1 DEF LinksConsistent, ReapSparesCaller, NoLostWakeup, ZombieChildren
<1>4. CurrentIsLive' /\ BootIsEmpty'
  BY <1>1 DEF IInv, TypeOK, Boot, CurrentIsLive, BootIsEmpty
<1> QED
  BY <1>2, <1>3, <1>4 DEF IInv

LEMMA ExitIInv == IInv /\ SysExit => IInv'
<1> SUFFICES ASSUME IInv, SysExit PROVE IInv'
  OBVIOUS
<1> DEFINE p == currentProcessID
           waited == parent[p] # NoParent /\ state[parent[p]] = "BLOCKED_WAITPID"
<1>1. p \in Pid /\ initialized[p] /\ parent[p] \in Pid \cup {NoParent}
  BY DEF IInv, TypeOK, CurrentIsLive, SysExit
<1>2. CurrentIsLive' /\ BootIsEmpty' /\ cpu' \in Cpu /\ currentProcessID' \in Pid
  BY <1>1, SwitchToLive DEF SysExit
<1>3. CASE /\ TerminateProcess(p)
           /\ \/ parent[p] = NoParent /\ UNCHANGED state
              \/ waited /\ state' = [state EXCEPT ![parent[p]] = "RUNNING"]
  <2>1. /\ initialized' \in [Pid -> BOOLEAN]
        /\ parent' \in [Pid -> Pid \cup {NoParent}]
        /\ children' \in [Pid -> SUBSET Pid]
        /\ LinksConsistent'
        /\ ReapSparesCaller'
    BY <1>1, <1>3, TerminateKeepsLinks DEF IInv
  <2>2. state' \in [Pid -> ProcessState]
    BY <1>1, <1>3 DEF IInv, TypeOK, ProcessState
  <2>3. TypeOK'
    BY <1>2, <2>1, <2>2 DEF IInv, TypeOK, SysExit
  \* The step makes no zombie and nobody waits who did not: children only go.
  <2>4. NoLostWakeup'
    <3>1. \A q \in Pid : /\ children'[q] \subseteq children[q]
                         /\ initialized'[q] => initialized[q]
      BY <1>3 DEF IInv, TypeOK, TerminateProcess
    <3>2. \A q \in Pid : /\ state'[q] = "ZOMBIE" => state[q] = "ZOMBIE"
                         /\ state'[q] = "BLOCKED_WAITPID" => state[q] = "BLOCKED_WAITPID"
      BY <1>1, <1>3 DEF IInv, TypeOK
    <3> QED
      BY <2>3, <3>1, <3>2 DEF IInv, TypeOK, NoLostWakeup, ZombieChildren
  <2> QED
    BY <1>2, <2>1, <2>3, <2>4 DEF IInv
<1>4. CASE /\ parent[p] # NoParent /\ ~ waited
           /\ state' = [state EXCEPT ![p] = "ZOMBIE"]
           /\ UNCHANGED <<initialized, parent, children>>
  <2>1. TypeOK'
    BY <1>1, <1>2, <1>4 DEF IInv, TypeOK, SysExit, ProcessState
  <2>2. LinksConsistent' /\ ReapSparesCaller'
    BY <1>4 DEF IInv, LinksConsistent, ReapSparesCaller
  \* Whoever has p among its children is its parent, and that does not wait.
  <2>3. NoLostWakeup'
    <3> SUFFICES ASSUME NEW q \in Pid, initialized[q], state'[q] = "BLOCKED_WAITPID",
                        NEW c \in children[q], state'[c] = "ZOMBIE"
                 PROVE  FALSE
      BY <1>4 DEF NoLostWakeup, ZombieChildren
    <3>1. c \in Pid /\ parent[c] = q /\ state[q] = "BLOCKED_WAITPID" /\ q # NoParent
      BY <1>1, <1>4, ProcessesAssumption DEF IInv, TypeOK, LinksConsistent, Pid, NoParent
    <3>2. c # p
      BY <1>4, <3>1
    <3>3. state[c] = "ZOMBIE"
      BY <1>4, <3>1, <3>2 DEF IInv, TypeOK
    <3> QED
      BY <3>1, <3>3 DEF IInv, NoLostWakeup, ZombieChildren
  <2> QED
    BY <1>2, <2>1, <2>2, <2>3 DEF IInv
<1> QED
  BY <1>3, <1>4 DEF SysExit

LEMMA WaitpidIInv == ASSUME NEW edx \in 0 .. MaxRead, IInv, SysWaitpid(edx)
                     PROVE  IInv'
<1> DEFINE p == currentProcessID
<1>1. p \in Pid /\ initialized[p]
  BY DEF IInv, TypeOK, CurrentIsLive, SysWaitpid
<1>2. CurrentIsLive' /\ BootIsEmpty' /\ cpu' \in Cpu /\ currentProcessID' \in Pid
  BY <1>1, SwitchToLive DEF SysWaitpid
<1>3. blockedEdx' \in [Pid -> 0 .. Wrapped] /\ tickCounter' \in 0 .. TICKS - 1
  <2>1. edx \in 0 .. Wrapped
    BY MaxReadAssumption DEF Wrapped
  <2> QED
    BY <1>1, <2>1 DEF IInv, TypeOK, SysWaitpid
<1>4. ASSUME NEW z \in ZombieChildren(p), TerminateProcess(z), UNCHANGED state
      PROVE  IInv'
  <2>1. z \in Pid /\ initialized[z]
    BY <1>1 DEF IInv, TypeOK, LinksConsistent, ZombieChildren
  <2>2. /\ initialized' \in [Pid -> BOOLEAN]
        /\ parent' \in [Pid -> Pid \cup {NoParent}]
        /\ children' \in [Pid -> SUBSET Pid]
        /\ LinksConsistent'
        /\ ReapSparesCaller'
    BY <1>4, <2>1, TerminateKeepsLinks DEF IInv
  <2>3. TypeOK'
    BY <1>2, <1>3, <1>4, <2>2 DEF IInv, TypeOK
  <2>4. \A q \in Pid : /\ children'[q] \subseteq children[q]
                       /\ initialized'[q] => initialized[q]
    BY <1>4 DEF IInv, TypeOK, TerminateProcess
  <2>5. NoLostWakeup'
    BY <1>4, <2>4 DEF IInv, NoLostWakeup, ZombieChildren
  <2> QED
    BY <1>2, <2>2, <2>3, <2>5 DEF IInv
<1>5. ASSUME ZombieChildren(p) = {},
             state' = [state EXCEPT ![p] = "BLOCKED_WAITPID"],
             UNCHANGED <<initialized, parent, children>>
      PROVE  IInv'
  <2>1. TypeOK'
    BY <1>1, <1>2, <1>3, <1>5 DEF IInv, TypeOK, ProcessState
  <2>2. LinksConsistent' /\ ReapSparesCaller'
    BY <1>5 DEF IInv, LinksConsistent, ReapSparesCaller
  <2>3. \A q \in Pid : ZombieChildren(q)' \subseteq ZombieChildren(q)
    BY <1>1, <1>5 DEF IInv, TypeOK, ZombieChildren
  <2>4. NoLostWakeup'
    BY <1>1, <1>5, <2>3 DEF IInv, TypeOK, NoLostWakeup
  <2> QED
    BY <1>2, <2>1, <2>2, <2>4 DEF IInv
<1> QED
  BY <1>4, <1>5 DEF SysWaitpid

LEMMA ForkIInv == IInv /\ SysFork => IInv'
<1> SUFFICES ASSUME IInv, SysFork PROVE IInv'
  OBVIOUS
<1> DEFINE p == currentProcessID
<1>1. p \in Pid /\ initialized[p]
  BY DEF IInv, TypeOK, CurrentIsLive, SysFork
<1>2. ASSUME NEW c \in Free,
             initialized' = [initialized EXCEPT ![c] = TRUE],
             state' = [state EXCEPT ![c] = "RUNNING"],
             parent' = [parent EXCEPT ![c] = p],
             children' = [children EXCEPT ![c] = {}, ![p] = @ \cup {c}],
             blockedEdx' = [blockedEdx EXCEPT ![c] = 0],
             UNCHANGED cpu
      PROVE  IInv'
  <2>1. c \in Pid /\ ~ initialized[c] /\ c # p
    BY <1>1 DEF Free
  <2>2. TypeOK'
    <3>1. UNCHANGED <<currentProcessID, tickCounter>> /\ 0 \in 0 .. Wrapped
      BY MaxReadAssumption DEF SysFork, Wrapped
    <3>2. children' \in [Pid -> SUBSET Pid]
      BY <1>1, <1>2, <2>1 DEF IInv, TypeOK
    <3> QED
      BY <1>1, <1>2, <2>1, <3>1, <3>2 DEF IInv, TypeOK, ProcessState
  \* The new slot is in nobody's children[] but the parent's.
  <2>3. /\ \A q \in Pid : initialized[q] => c \notin children[q]
        /\ children'[c] = {} /\ children'[p] = children[p] \cup {c}
        /\ \A q \in Pid \ {c, p} : children'[q] = children[q]
        /\ initialized'[c] /\ parent'[c] = p /\ state'[c] = "RUNNING"
        /\ \A q \in Pid \ {c} : /\ initialized'[q] = initialized[q]
                                /\ parent'[q] = parent[q]
                                /\ state'[q] = state[q]
    BY <1>1, <1>2, <2>1 DEF IInv, TypeOK, LinksConsistent
  <2>4. \A q \in Pid : initialized[q] => children[q] \subseteq Pid \ {c}
    BY <2>3 DEF IInv, TypeOK
  <2>5. LinksConsistent'
    <3> SUFFICES ASSUME NEW q \in Pid, initialized'[q], NEW d \in children'[q]
                 PROVE  initialized'[d] /\ parent'[d] = q
      BY DEF LinksConsistent
    <3>1. CASE q = p /\ d = c
      BY <2>3, <3>1
    <3>2. CASE q # c /\ d \in children[q]
      BY <2>3, <2>4, <3>2 DEF IInv, LinksConsistent
    <3> QED
      BY <2>1, <2>3, <3>1, <3>2
  <2>6. ReapSparesCaller'
    <3> SUFFICES ASSUME NEW q \in Pid, initialized'[q], NEW d \in children'[q]
                 PROVE  d # q /\ q \notin children'[d]
      BY DEF ReapSparesCaller
    <3>1. CASE q = p /\ d = c
      BY <2>1, <2>3, <3>1
    <3>2. CASE q # c /\ d \in children[q]
      BY <2>1, <2>3, <2>4, <3>2 DEF IInv, ReapSparesCaller, TypeOK
    <3> QED
      BY <2>1, <2>3, <3>1, <3>2
  <2>7. NoLostWakeup'
    <3> SUFFICES ASSUME NEW q \in Pid, initialized'[q], state'[q] = "BLOCKED_WAITPID",
                        NEW d \in children'[q], state'[d] = "ZOMBIE"
                 PROVE  FALSE
      BY DEF NoLostWakeup, ZombieChildren
    <3>1. q # c /\ d # c /\ d \in children[q]
      BY <2>1, <2>3
    <3>2. d \in Pid
      BY <2>3, <2>4, <3>1
    <3> QED
      BY <2>3, <3>1, <3>2 DEF IInv, NoLostWakeup, ZombieChildren
  <2>8. CurrentIsLive' /\ BootIsEmpty'
    BY <1>1, <1>2, <2>3 DEF SysFork, CurrentIsLive, BootIsEmpty
  <2> QED
    BY <2>2, <2>5, <2>6, <2>7, <2>8 DEF IInv
<1>3. ASSUME cpu' = "hung", UNCHANGED table
      PROVE  IInv'
  BY <1>3 DEF SysFork, table, IInv, TypeOK, Cpu, LinksConsistent, ReapSparesCaller,
              NoLostWakeup, ZombieChildren, CurrentIsLive, BootIsEmpty
<1> QED
  BY <1>2, <1>3 DEF SysFork

\* exec and a blocking read put the current process in a state that is
\* neither ZOMBIE nor BLOCKED_WAITPID; a key does so to processes that read.
LEMMA StateKeepsNoLostWakeup ==
    ASSUME IInv, UNCHANGED <<initialized, parent, children>>,
           state' \in [Pid -> ProcessState],
           \A q \in Pid : state'[q] # state[q] => state'[q] \in {"RUNNING", "BLOCKED_KEYBOARD"}
    PROVE  LinksConsistent' /\ ReapSparesCaller' /\ NoLostWakeup'
BY DEF IInv, TypeOK, LinksConsistent, ReapSparesCaller, NoLostWakeup, ZombieChildren

LEMMA ExecIInv == IInv /\ SysExecvp => IInv'
<1> SUFFICES ASSUME IInv, SysExecvp PROVE IInv'
  OBVIOUS
<1>1. currentProcessID \in Pid /\ initialized[currentProcessID]
  BY DEF IInv, TypeOK, CurrentIsLive, SysExecvp
<1>2. TypeOK'
  BY <1>1 DEF SysExecvp, IInv, TypeOK, ProcessState, Cpu
<1>3. \A q \in Pid : state'[q] # state[q] => state'[q] = "RUNNING"
  BY <1>1 DEF SysExecvp, IInv, TypeOK
<1>4. LinksConsistent' /\ ReapSparesCaller' /\ NoLostWakeup'
  BY <1>2, <1>3, StateKeepsNoLostWakeup DEF SysExecvp, TypeOK
<1>5. CurrentIsLive' /\ BootIsEmpty'
  BY <1>1 DEF SysExecvp, CurrentIsLive, BootIsEmpty
<1> QED
  BY <1>2, <1>4, <1>5 DEF IInv

LEMMA ReadIInv == ASSUME NEW left \in 1 .. MaxRead, IInv, SysReadBlocks(left)
                  PROVE  IInv'
<1>1. currentProcessID \in Pid /\ left \in 0 .. Wrapped
  BY MaxReadAssumption DEF IInv, TypeOK, Wrapped
<1>2. CurrentIsLive' /\ BootIsEmpty' /\ cpu' \in Cpu /\ currentProcessID' \in Pid
  BY <1>1, SwitchToLive DEF SysReadBlocks
<1>3. TypeOK'
  BY <1>1, <1>2 DEF SysReadBlocks, IInv, TypeOK, ProcessState
<1>4. \A q \in Pid : state'[q] # state[q] => state'[q] = "BLOCKED_KEYBOARD"
  BY <1>1 DEF SysReadBlocks, IInv, TypeOK
<1>5. LinksConsistent' /\ ReapSparesCaller' /\ NoLostWakeup'
  BY <1>3, <1>4, StateKeepsNoLostWakeup DEF SysReadBlocks, TypeOK
<1> QED
  BY <1>2, <1>3, <1>5 DEF IInv

LEMMA KeyboardIInv == ASSUME NEW n \in 1 .. 2, IInv, IRQKeyboard(n)
                      PROVE  IInv'
<1>1. \A e \in 0 .. Wrapped : EdxAfter(e, n) \in 0 .. Wrapped
  BY MaxReadAssumption DEF EdxAfter, Wrapped
<1>2. TypeOK'
  BY <1>1 DEF IRQKeyboard, IInv, TypeOK, ProcessState
<1>3. \A q \in Pid : state'[q] # state[q] => state'[q] = "RUNNING"
  BY DEF IRQKeyboard
<1>4. LinksConsistent' /\ ReapSparesCaller' /\ NoLostWakeup'
  BY <1>2, <1>3, StateKeepsNoLostWakeup DEF IRQKeyboard, TypeOK
<1>5. CurrentIsLive' /\ BootIsEmpty'
  BY DEF IRQKeyboard, IInv, CurrentIsLive, BootIsEmpty
<1> QED
  BY <1>2, <1>4, <1>5 DEF IInv

\* A table that does not change stays consistent.
LEMMA TableKept ==
    ASSUME IInv, UNCHANGED table
    PROVE  LinksConsistent' /\ ReapSparesCaller' /\ NoLostWakeup'
BY DEF IInv, table, LinksConsistent, ReapSparesCaller, NoLostWakeup, ZombieChildren

LEMMA YieldIInv == IInv /\ SysYield => IInv'
<1> SUFFICES ASSUME IInv, SysYield PROVE IInv'
  OBVIOUS
<1>1. CurrentIsLive' /\ BootIsEmpty' /\ cpu' \in Cpu /\ currentProcessID' \in Pid
  BY SwitchToLive DEF SysYield, IInv, TypeOK
<1>2. TypeOK'
  BY <1>1 DEF SysYield, table, IInv, TypeOK
<1> QED
  BY <1>1, <1>2, TableKept DEF SysYield, IInv

LEMMA TimerIInv == IInv /\ IRQTimer => IInv'
<1> SUFFICES ASSUME IInv, IRQTimer PROVE IInv'
  OBVIOUS
<1>1. CASE /\ tickCounter + 1 < TICKS
           /\ tickCounter' = tickCounter + 1
           /\ UNCHANGED <<currentProcessID, cpu>>
  <2>1. TypeOK'
    BY <1>1, TicksAssumption DEF IRQTimer, table, IInv, TypeOK
  <2>2. CurrentIsLive' /\ BootIsEmpty'
    BY <1>1 DEF IRQTimer, table, IInv, CurrentIsLive, BootIsEmpty
  <2> QED
    BY <2>1, <2>2, TableKept DEF IRQTimer, IInv
<1>2. CASE tickCounter' = 0 /\ SwitchProcess
  <2>1. CurrentIsLive' /\ BootIsEmpty' /\ cpu' \in Cpu /\ currentProcessID' \in Pid
    BY <1>2, SwitchToLive DEF IInv, TypeOK
  <2>2. TypeOK'
    BY <1>2, <2>1, TicksAssumption DEF IRQTimer, table, IInv, TypeOK
  <2> QED
    BY <2>1, <2>2, TableKept DEF IRQTimer, IInv
<1> QED
  BY <1>1, <1>2 DEF IRQTimer

\* A step that halts the machine, or none.
LEMMA HaltIInv == IInv /\ (Exception \/ Stopped \/ UNCHANGED vars) => IInv'
BY TableKept DEF Exception, Stopped, vars, table, IInv, TypeOK, Cpu, CurrentIsLive, BootIsEmpty

LEMMA NextIInv == IInv /\ [Next]_vars => IInv'
BY BootIInv, ExitIInv, WaitpidIInv, ForkIInv, ExecIInv, YieldIInv, ReadIInv,
   KeyboardIInv, TimerIInv, HaltIInv DEF Next

-----------------------------------------------------------------------------
(* The theorems.                                                           *)

\* Every variable keeps its type in every reachable state of the kernel.
THEOREM TypeCorrect == Spec => []TypeOK
<1>1. IInv => TypeOK
  BY DEF IInv
<1> QED
  BY <1>1, InitIInv, NextIInv, PTL DEF Spec

\* The links of children[] are sound, whatever the processes do: exit, reaping
\* and the end of a parent free each address space once.
THEOREM LinksAlwaysConsistent == Spec => []LinksConsistent
<1>1. IInv => LinksConsistent
  BY DEF IInv
<1> QED
  BY <1>1, InitIInv, NextIInv, PTL DEF Spec

\* waitpid never frees the address space of the process that calls it.
THEOREM ReapAlwaysSparesCaller == Spec => []ReapSparesCaller
<1>1. IInv => ReapSparesCaller
  BY DEF IInv
<1> QED
  BY <1>1, InitIInv, NextIInv, PTL DEF Spec

\* No order of exit and waitpid leaves a parent waiting for a zombie.
THEOREM WakeupNeverLost == Spec => []NoLostWakeup
<1>1. IInv => NoLostWakeup
  BY DEF IInv
<1> QED
  BY <1>1, InitIInv, NextIInv, PTL DEF Spec

\* The kernel enters user mode in a live process only.
THEOREM CurrentAlwaysLive == Spec => []CurrentIsLive
<1>1. IInv => CurrentIsLive
  BY DEF IInv
<1> QED
  BY <1>1, InitIInv, NextIInv, PTL DEF Spec

\* A process with a parent disappears only by its exit to a waiting parent,
\* by the parent reaping it as a zombie, or together with its parent.
THEOREM GoneOnlySo == Spec => GoneOnlyByExitOrReap
<1> DEFINE Gone(p) ==
       \/ p = currentProcessID /\ (parent[p] = NoParent \/ state'[parent[p]] = "RUNNING")
       \/ currentProcessID = parent[p] /\ state[p] = "ZOMBIE"
       \/ parent[p] \in Pid /\ initialized[parent[p]] /\ ~ initialized'[parent[p]]
<1>1. ASSUME IInv, [Next]_vars, NEW p \in Pid, initialized[p], ~ initialized'[p]
      PROVE  Gone(p)
  \* Only exit and waitpid clear initialized, for the process they terminate ...
  <2>1. PICK z \in Pid : /\ initialized[z] /\ TerminateProcess(z)
                         /\ \/ z = currentProcessID
                               /\ (parent[z] = NoParent \/ state'[parent[z]] = "RUNNING")
                            \/ currentProcessID = parent[z] /\ state[z] = "ZOMBIE"
    <3>1. CASE SysExit
      <4>1. currentProcessID \in Pid /\ initialized[currentProcessID]
        BY <1>1, <3>1 DEF IInv, TypeOK, CurrentIsLive, SysExit
      <4>2. parent[currentProcessID] # NoParent => parent[currentProcessID] \in Pid
        BY <1>1, <4>1 DEF IInv, TypeOK
      <4> QED
        BY <1>1, <3>1, <4>1, <4>2 DEF SysExit, IInv, TypeOK
    <3>2. CASE \E edx \in 0 .. MaxRead : SysWaitpid(edx)
      <4>1. currentProcessID \in Pid /\ initialized[currentProcessID]
        BY <1>1, <3>2 DEF IInv, TypeOK, CurrentIsLive, SysWaitpid
      <4>2. PICK z \in ZombieChildren(currentProcessID) : TerminateProcess(z)
        BY <1>1, <3>2 DEF SysWaitpid
      <4>3. /\ z \in Pid /\ initialized[z] /\ state[z] = "ZOMBIE"
            /\ parent[z] = currentProcessID
        BY <1>1, <4>1, <4>2 DEF ZombieChildren, IInv, TypeOK, LinksConsistent
      <4> QED
        BY <4>2, <4>3
    <3>3. CASE SysFork
      BY <1>1, <3>3 DEF SysFork, table, IInv, TypeOK
    <3>4. CASE Boot
      BY <1>1, <3>4 DEF Boot, IInv, TypeOK
    <3> QED
      BY <1>1, <3>1, <3>2, <3>3, <3>4
         DEF Next, SysExecvp, SysYield, SysReadBlocks, IRQKeyboard, IRQTimer,
             Exception, Stopped, vars, table
  \* ... and its children.
  <2>2. p = z \/ p \in children[z]
    BY <1>1, <2>1 DEF TerminateProcess, IInv, TypeOK
  <2>3. CASE p = z
    BY <2>1, <2>3
  <2>4. CASE p \in children[z]
    BY <1>1, <2>1, <2>4 DEF TerminateProcess, IInv, LinksConsistent
  <2> QED
    BY <2>2, <2>3, <2>4
<1>2. IInv /\ [Next]_vars =>
         [\A p \in Pid : initialized[p] /\ ~ initialized'[p] => Gone(p)]_vars
  BY <1>1
<1> QED
  BY <1>2, InitIInv, NextIInv, PTL DEF Spec, GoneOnlyByExitOrReap

=============================================================================

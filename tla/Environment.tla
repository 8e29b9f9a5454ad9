---------------------------- MODULE Environment ----------------------------
(***************************************************************************)
(* Environment variables: a table of slots for each process and one for    *)
(* all of them.  Names and values are copied in and out; a slot that is    *)
(* not active is NoVariable, since nothing reads what is left in it.       *)
(***************************************************************************)
EXTENDS Integers, Sequences, FiniteSetsExt

NoVariable == [key |-> "", value |-> <<>>]

Slots(vars, key) == {i \in DOMAIN vars : vars[i] # NoVariable /\ vars[i].key = key}
FreeSlots(vars)  == {i \in DOMAIN vars : vars[i] = NoVariable}

HasVariable(vars, globals, key) == Slots(vars, key) # {} \/ Slots(globals, key) # {}

\* getEnvVariable: the first of the process's own, else the global one.
GetEnvVariable(vars, globals, key) ==
    IF Slots(vars, key) # {} THEN vars[Min(Slots(vars, key))].value
    ELSE globals[Min(Slots(globals, key))].value

\* strcpy into the variable getEnvVariable returns.
Overwritten(table, key, value) == [table EXCEPT ![Min(Slots(table, key))].value = value]

\* (Mutant: the search ends at the first free slot, as that of
\* setGlobalEnvVariable does.)
SetEnvVariableAtHole(vars, key, value, overwrite) ==
    LET at == Min(FreeSlots(vars) \cup IF overwrite THEN Slots(vars, key) ELSE {})
    IN  [vars EXCEPT ![at] = [key |-> key, value |-> value]]

\* setEnvVariable; CanSet says that it does not abort the kernel.
CanSet(vars, key, overwrite) ==
    FreeSlots(vars) # {} \/ (overwrite /\ Slots(vars, key) # {})
SetEnvVariable(vars, key, value, overwrite) ==
    IF overwrite /\ Slots(vars, key) # {} THEN Overwritten(vars, key, value)
    ELSE [vars EXCEPT ![Min(FreeSlots(vars))] = [key |-> key, value |-> value]]

\* setGlobalEnvVariable, in a table that is not full: no global variable is
\* ever removed, so the slots after the first free one are free.
SetGlobalEnvVariable(vars, key, value) ==
    [vars EXCEPT ![Min(FreeSlots(vars) \cup Slots(vars, key))] = [key |-> key, value |-> value]]

\* unsetEnvVariable: the first variable of that name, if there is one.
UnsetEnvVariable(vars, key) ==
    IF Slots(vars, key) = {} THEN vars
    ELSE [vars EXCEPT ![Min(Slots(vars, key))] = NoVariable]
=============================================================================

------------------------------ MODULE Accounts ------------------------------
(***************************************************************************)
(* Users and groups, as operators on a = [user |-> ..., group |-> ...], the *)
(* two tables.  Nobody is ever removed: a uid or gid is the index of the   *)
(* entry, counted from 1 here, and the active entries are those there are. *)
(***************************************************************************)
EXTENDS Integers, Sequences, SequencesExt

CONSTANTS
    MAX_USERS,          \* 4
    MAX_GROUPS,         \* 4
    MAX_USER_GROUPS,    \* groups of a user: 4
    MAX_GROUP_MEMBERS   \* 8

ASSUME TableAssumption ==
    /\ MAX_USERS \in Nat \ {0} /\ MAX_GROUPS \in Nat \ {0}
    /\ MAX_USER_GROUPS \in Nat \ {0} /\ MAX_GROUP_MEMBERS \in Nat \ {0}

\* addUserToGroup: both slots are found before one is taken.
AddUserToGroup(a, user, group) ==
    IF \/ Len(a.group[group].members) >= MAX_GROUP_MEMBERS
       \/ Len(a.user[user].groups) >= MAX_USER_GROUPS
    THEN a
    ELSE [a EXCEPT !.group[group].members = Append(@, user),
                   !.user[user].groups = Append(@, group)]

UserInGroup(a, user, group) == Contains(a.group[group].members, user)

\* createGroup aborts the kernel when the table is full.
CanCreateGroup(a) == Len(a.group) < MAX_GROUPS
CreateGroup(a, name) == [a EXCEPT !.group = Append(@, [name |-> name, members |-> <<>>])]

\* createUser without the home: the user, a group of the same name, and the
\* two to each other.
CreateUser(a, name) ==
    LET u == Len(a.user) + 1
        g == Len(a.group) + 1
        a1 == [CreateGroup(a, name) EXCEPT !.user =
                   Append(@, [name |-> name, groups |-> <<>>, home |-> 0, iwdir |-> 1])]
    IN  IF Len(a.user) >= MAX_USERS THEN a ELSE AddUserToGroup(a1, u, g)

\* fileAccessAllowed and directoryAccessAllowed: the first class the user is
\* in decides.  node has an owner and a group, or no mode at all.
AccessAllowed(a, user, node, check) ==
    LET class == IF node.owner = user THEN "owner"
                 ELSE IF node.mode # {} /\ UserInGroup(a, user, node.group) THEN "group"
                 ELSE "other"
    IN  <<class, check>> \in node.mode

\* getPasswdStructR: the three strings must fit.
PasswdFits(nameLen, dirLen, shellLen, bufsize) == nameLen + dirLen + shellLen + 3 <= bufsize
=============================================================================

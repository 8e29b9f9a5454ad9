------------------------------ MODULE Session -------------------------------
(***************************************************************************)
(* The kernel's names: the boot fills the tree of directories and the      *)
(* tables of users and groups, then a process makes the system calls that  *)
(* look up, create and ask for names, change its working directory, its    *)
(* owner, its program and its environment.  Composes FileTree, Accounts    *)
(* and Environment.  Descriptors and contents are OpenFiles's, memory is   *)
(* AddressSpaces's; other processes could change the tree only by the same *)
(* calls.                                                                  *)
(***************************************************************************)
EXTENDS FileTree, Accounts, Environment

CONSTANTS
    MAX_ENVIROMENT_VARIABLES,   \* slots of the table: 32
    MAX_VARIABLE_VALUE_LENGTH,  \* 64
    PasswordLen,                \* characters of a password
    InitialProgram,             \* path of the first program: /usr/bin/helloworld
    Archive,                    \* the archives the initrd may be: sequences of [path, mode, file]
    Programs,                   \* how many files an archive has, all of them programs
    Path,                       \* bound: the paths programs use
    DirPath, FilePath,          \* bound: those they open as directories and as files
    Mode,                       \* bound: the modes of what they create
    Setting,                    \* bound: the variables they set, [key, value], a value a list of paths
    Bufsize,                    \* bound: sizes of buffers for the user data base
    MaxDirectories, MaxFiles,   \* bounds: how many there are of each in the tree
    BootDirectories             \* bound: how many there are when variables are set

root == 1       \* the first user, and the first group
User == 1 .. MAX_USERS
Mode755 == {"owner", "group", "other"} \X {"read", "execute"} \cup {<<"owner", "write">>}

SomePath == Seq(Name) \ {<<>>}
Modes    == SUBSET (Permission \cup {S_ISUID})

ASSUME InputAssumption ==
    /\ MAX_USERS > 1 /\ MAX_GROUPS > 2
    /\ MAX_ENVIROMENT_VARIABLES \in Nat \ {0, 1} /\ MAX_VARIABLE_VALUE_LENGTH \in Nat
    /\ Path \cup DirPath \cup FilePath \cup {InitialProgram} \subseteq SomePath
    /\ Mode \subseteq Modes
    /\ \A s \in Setting : s.value \in Seq(SomePath) \ {<<>>}
    /\ {"home", "nico", "root", "bin", "usr", "lib", "sudo"} \subseteq Name
    /\ NameLen("home") <= MAX_NAME_LENGTH /\ NameLen("nico") <= MAX_NAME_LENGTH

\* An archive is one that the boot can load: the directory of each entry is
\* there before it and has room for it, and its path is short enough, where
\* findParent, parseDirectory and parseFile stop the boot otherwise; paths leave
\* room for "..", and no directory is twice in it, as in a tar of a real tree.
Loaded(a) == LoadInitrd(a, Mode755, root, root)
Loads(t, p, entry) ==
    /\ p.dir # None
    /\ IF entry.file THEN Len(t.dir[p.dir].files) < MAX_FILES
       ELSE /\ ~ DirectoryFull(t, p.dir)
            /\ Named(t.dir, t.dir[p.dir].subs, Stripped(p.name)) = None
            /\ PathLen(t.dir[p.dir].fullpath \o Stripped(p.name)) + 3 <= MAX_FULL_PATH_LENGTH

ASSUME ArchiveAssumption ==
    \A a \in Archive :
        /\ a \in Seq([path : SomePath, mode : Modes, file : BOOLEAN])
        /\ \A i \in DOMAIN a : LET t == Loaded(SubSeq(a, 1, i - 1))
                               IN  Loads(t, FindParent(t, Root, a[i].path), a[i])
        /\ \A path \in {InitialProgram, <<"", "bin", "sudo">>} :
               GetFileFrom(Loaded(a), None, path) # None
        /\ Cardinality({i \in DOMAIN a : a[i].file}) = Programs

VARIABLES
    boot,       \* the next step of kernel_main; 5: a program runs
    tree,       \* rootDir and what is below
    accounts,   \* users[] and groups[]
    globals,    \* globalVariables[]
    process,    \* [cwdir, owner, file, variables] of the process
    result,     \* of the last call: "ok" or "error"
    plain,      \* history: keys set without overwrite while there was one
    hung        \* the kernel has aborted, or loops for ever

vars == <<boot, tree, accounts, globals, process, result, plain, hung>>

Owner == process.owner
Allowed(node, check) == AccessAllowed(accounts, Owner, node, check)
FirstGroup(u) == Head(accounts.user[u].groups)
MayWrite(d) == d # None /\ Allowed(tree.dir[d], "write")
Running == boot = 5 /\ ~ hung

Reply(r) == result' = r /\ UNCHANGED <<boot, accounts, globals, plain, hung>>
Hang == hung' = TRUE /\ UNCHANGED <<boot, tree, accounts, globals, process, result, plain>>

-----------------------------------------------------------------------------
(* The boot.                                                               *)

\* createUser: the home is made, or, when the archive has it, all of /home
\* goes to the user.
WithHome(t, home, name, u, g) ==
    IF GetDirectoryFromParent(t, home, <<name>>, TRUE) # None
    THEN ChangeDirectoryOwner(t, home, u, g)
    ELSE CreateDirectory(t, home, <<name>>, Mode755, u, g).tree

Home == <<"", "home">>
WithHomes(t) ==
    IF GetDirectoryFrom(t, None, Home, TRUE) # None THEN t
    ELSE CreateDirectory(t, Root, <<"home">>, Mode755, root, root).tree

\* The user's home and the directory it begins in are own.  Without one the
\* kernel aborts.
Housed(a, u, t, own) ==
    IF own = None THEN hung' = TRUE /\ UNCHANGED <<accounts, tree>>
    ELSE /\ tree' = t
         /\ accounts' = [a EXCEPT !.user[u].home = own, !.user[u].iwdir = own]
         /\ UNCHANGED hung
MoveIn(a, u, t, home) ==
    IF home = None THEN hung' = TRUE /\ UNCHANGED <<accounts, tree>>
    ELSE \E t2 \in {WithHome(t, home, a.user[u].name, u, Head(a.user[u].groups))} :
            Housed(a, u, t2, GetDirectoryFromParent(t2, home, <<a.user[u].name>>, TRUE))

BootUser(name, createHome) ==
    /\ CanCreateGroup(accounts) /\ ~ hung
    /\ boot' = boot + 1
    /\ \E a \in {CreateUser(accounts, name)} :
          IF createHome
          THEN \E t \in {WithHomes(tree)} :
                  MoveIn(a, Len(a.user), t, GetDirectoryFrom(t, None, Home, TRUE))
          ELSE accounts' = a /\ UNCHANGED <<tree, hung>>
    /\ UNCHANGED <<globals, process, result, plain>>

BootGroup ==
    /\ boot = 3 /\ ~ hung
    /\ accounts' = LET a == CreateGroup(accounts, "sudoers")
                   IN  AddUserToGroup(a, 2, Len(a.group))
    /\ boot' = 4
    /\ UNCHANGED <<tree, globals, process, result, plain, hung>>

\* The global variables, the group of sudo, and the first process, which is
\* nico's.  The archive has the program.
BootStart ==
    LET sudo == GetFileFrom(tree, None, <<"", "bin", "sudo">>) IN
    /\ boot = 4 /\ ~ hung
    /\ globals' = SetGlobalEnvVariable(
                      SetGlobalEnvVariable(globals, "PATH", <<<<"", "bin">>, <<"", "usr", "bin">>>>),
                      "LIBPATH", <<<<"", "lib">>, <<"", "usr", "lib">>>>)
    /\ tree' = [tree EXCEPT !.file[sudo].group = 3]
    /\ process' = [process EXCEPT !.owner = 2, !.cwdir = accounts.user[2].iwdir,
                                  !.file = GetFileFrom(tree, None, InitialProgram)]
    /\ boot' = 5
    /\ UNCHANGED <<accounts, result, plain, hung>>

-----------------------------------------------------------------------------
(* Opening and creating.                                                   *)

\* Bounds: the size of the tree; and it grows while the process has no
\* variables, while it sets variables in the tree the boot has left.
Bare    == \A i \in DOMAIN process.variables : process.variables[i] = NoVariable
MayGrow == Bare /\ Len(tree.dir) + 3 <= MaxDirectories
MaySet  == Len(tree.dir) <= BootDirectories

\* openProcessFile with O_DIRECTORY, to where a descriptor is made.  What is
\* created stays when the caller may not read it.
Answer(node) == Reply(IF Allowed(node, "read") THEN "ok" ELSE "error")
DirectoryMade(r) ==
    /\ tree' = r.tree
    /\ IF r.dir = None THEN Reply("error") ELSE Answer(r.tree.dir[r.dir])

OpenDirectory(path, creat, mode) ==
    LET d == GetDirectoryFrom(tree, process.cwdir, path, TRUE)
        p == FindParent(tree, process.cwdir, path)
    IN
    /\ Running
    /\ IF d # None THEN Answer(tree.dir[d]) /\ UNCHANGED tree
       ELSE IF ~ (creat /\ MayWrite(p.dir)) THEN Reply("error") /\ UNCHANGED tree
       ELSE /\ MayGrow
            /\ DirectoryMade(CreateDirectory(tree, p.dir, p.name, mode, Owner, FirstGroup(Owner)))
    /\ UNCHANGED process

\* openProcessFile without O_DIRECTORY.
FileMade(r) ==
    /\ tree' = r.tree
    /\ IF r.file = None THEN Reply("error") ELSE Answer(r.tree.file[r.file])

OpenFile(path, creat, mode) ==
    LET f == GetFileFrom(tree, process.cwdir, path)
        p == FindParent(tree, process.cwdir, path)
    IN
    /\ Running
    /\ IF f # None THEN Answer(tree.file[f]) /\ UNCHANGED tree
       ELSE IF ~ (creat /\ MayWrite(p.dir)) THEN Reply("error") /\ UNCHANGED tree
       ELSE /\ Bare /\ Len(tree.file) < MaxFiles
            /\ FileMade(CreateFile(tree, p.dir, p.name, mode, Owner, FirstGroup(Owner)))
    /\ UNCHANGED process

\* statPath: a directory without owner aborts the kernel.
Stat(path, redirectSymbolic) ==
    LET f == GetFileFrom(tree, process.cwdir, path)
        d == GetDirectoryFrom(tree, process.cwdir, path, redirectSymbolic)
    IN
    /\ Running
    /\ IF f # None THEN Answer(tree.file[f]) /\ UNCHANGED <<tree, process>>
       ELSE IF d = None THEN Reply("error") /\ UNCHANGED <<tree, process>>
       ELSE IF tree.dir[d].owner = None THEN Hang
       ELSE Answer(tree.dir[d]) /\ UNCHANGED <<tree, process>>

-----------------------------------------------------------------------------
(* The working directory and the environment.                              *)

PathTo(d) == IF d = Root THEN <<"", "">> ELSE <<"">> \o tree.dir[d].fullpath

\* SYS_chdir.  It writes PWD wherever getEnvVariable finds it.
Entering(d) ==
    LET fits == PathLen(tree.dir[d].fullpath) <= MAX_VARIABLE_VALUE_LENGTH
        own  == Slots(process.variables, "PWD") # {}
    IN
    /\ process' = [process EXCEPT !.cwdir = d, !.variables =
                      IF fits /\ own THEN Overwritten(@, "PWD", <<PathTo(d)>>) ELSE @]
    /\ globals' = IF fits /\ ~ own /\ Slots(globals, "PWD") # {}
                  THEN Overwritten(globals, "PWD", <<PathTo(d)>>) ELSE globals
    /\ result' = "ok"
    /\ UNCHANGED <<boot, tree, accounts, plain, hung>>

Chdir(path) ==
    LET d == GetDirectoryFrom(tree, process.cwdir, path, TRUE) IN
    /\ Running
    /\ IF d = None THEN Reply("error") /\ UNCHANGED <<tree, process>>
       ELSE IF ~ Allowed(tree.dir[d], "execute") THEN Reply("error") /\ UNCHANGED <<tree, process>>
       ELSE Entering(d)

Setenv(key, value, overwrite) ==
    /\ Running /\ MaySet
    /\ IF ~ CanSet(process.variables, key, overwrite) THEN Hang
       ELSE /\ process' = [process EXCEPT !.variables = SetEnvVariable(@, key, value, overwrite)]
            /\ plain' = plain \cup IF ~ overwrite /\ Slots(process.variables, key) # {}
                                   THEN {key} ELSE {}
            /\ result' = "ok"
            /\ UNCHANGED <<boot, tree, accounts, globals, hung>>

Unsetenv(key) ==
    /\ Running /\ MaySet
    /\ process' = [process EXCEPT !.variables = UnsetEnvVariable(@, key)]
    /\ Reply("ok") /\ UNCHANGED tree

-----------------------------------------------------------------------------
(* Programs and users.                                                     *)

\* What PATH finds, to a process that has the variable or without it.
Listed == IF HasVariable(process.variables, globals, "PATH")
          THEN GetEnvVariable(process.variables, globals, "PATH") ELSE <<>>

\* overwriteArgs: the file, else one of that name in PATH; a file that is no
\* program of the archive does not load.
Loading(f) ==
    IF f = None THEN Reply("error") /\ UNCHANGED <<tree, process>>
    ELSE IF ~ Allowed(tree.file[f], "execute") THEN Reply("error") /\ UNCHANGED <<tree, process>>
    ELSE IF f > Programs THEN Hang
    ELSE /\ process' = [process EXCEPT !.file = f]
         /\ Reply("ok") /\ UNCHANGED tree

Execvp(path) ==
    LET own == GetFileFrom(tree, process.cwdir, path) IN
    /\ Running
    /\ IF own # None THEN Loading(own)
       ELSE IF GetFileWEnvHangs(tree, Listed, path) THEN Hang
       ELSE Loading(GetFileWEnv(tree, Listed, path))

\* SYS_setuid: only to the owner of the program, and if it is marked so.
Setuid(u) ==
    LET file == tree.file[process.file]
        may  == file.owner = u /\ S_ISUID \in file.mode
    IN
    /\ Running
    /\ process' = [process EXCEPT !.owner = IF may THEN u ELSE @]
    /\ Reply(IF may THEN "ok" ELSE "error") /\ UNCHANGED tree

\* getPasswdStructR, getGroupStructR and getSpwdStructR answer if the entry is
\* there and its strings fit; a group has a pointer to each name of a member
\* besides, each of which counts as one character.
NamesLen(g) == FoldLeft(LAMBDA n, u : n + NameLen(accounts.user[u].name) + 2, 0,
                        accounts.group[g].members)
GroupFits(g, bufsize) == NameLen(accounts.group[g].name) + 1 + NamesLen(g) <= bufsize
ShadowFits(u, bufsize) == NameLen(accounts.user[u].name) + PasswordLen + 2 <= bufsize

Lookup(kind, id, bufsize) ==
    /\ Running
    /\ Reply(IF \/ kind = "passwd" /\ id \in DOMAIN accounts.user
                   /\ PasswdFits(NameLen(accounts.user[id].name),
                                 PathLen(tree.dir[accounts.user[id].iwdir].fullpath),
                                 PathLen(<<"bin", "shell">>), bufsize)
                \/ kind = "group" /\ id \in DOMAIN accounts.group /\ GroupFits(id, bufsize)
                \/ kind = "shadow" /\ id \in DOMAIN accounts.user /\ ShadowFits(id, bufsize)
             THEN "ok" ELSE "error")
    /\ UNCHANGED <<tree, process>>

-----------------------------------------------------------------------------

\* loadInitrd: one of the archives, all of it root's.
Init ==
    /\ boot = 1
    /\ tree \in {LoadInitrd(a, Mode755, root, root) : a \in Archive}
    /\ accounts = [user |-> <<>>, group |-> <<>>]
    /\ globals = [i \in 1 .. MAX_ENVIROMENT_VARIABLES |-> NoVariable]
    /\ process = [cwdir |-> None, owner |-> None, file |-> None,
                  variables |-> [i \in 1 .. MAX_ENVIROMENT_VARIABLES |-> NoVariable]]
    /\ result = "ok" /\ plain = {} /\ hung = FALSE

Next ==
    \/ boot = 1 /\ BootUser("root", FALSE)
    \/ boot = 2 /\ BootUser("nico", TRUE)
    \/ BootGroup
    \/ BootStart
    \/ \E creat \in BOOLEAN, mode \in Mode :
          \/ \E path \in DirPath : OpenDirectory(path, creat, mode)
          \/ \E path \in FilePath : OpenFile(path, creat, mode)
    \/ \E path \in Path :
          \/ \E redirectSymbolic \in BOOLEAN : Stat(path, redirectSymbolic)
          \/ Chdir(path)
          \/ Execvp(path)
    \/ \E s \in Setting : \/ \E overwrite \in BOOLEAN : Setenv(s.key, s.value, overwrite)
                          \/ Unsetenv(s.key)
    \/ \E id \in User : \/ Setuid(id)
                        \/ \E kind \in {"passwd", "group", "shadow"}, n \in Bufsize :
                              Lookup(kind, id, n)
    \/ hung /\ UNCHANGED vars

Spec == Init /\ [][Next]_vars

-----------------------------------------------------------------------------
(* Properties.                                                             *)

Dirs == DOMAIN tree.dir

TypeOK ==
    /\ boot \in 1 .. 5 /\ hung \in BOOLEAN /\ result \in {"ok", "error"}
    /\ \A d \in Dirs : LET n == tree.dir[d] IN
          /\ n.parent \in Dirs \cup {None} /\ n.link \in Dirs \cup {None}
          /\ Len(n.subs) <= MAX_DIRECTORIES /\ Len(n.files) <= MAX_FILES
          /\ n.owner # None /\ boot = 5 => /\ n.owner \in DOMAIN accounts.user
                                           /\ n.group \in DOMAIN accounts.group
    /\ \A f \in DOMAIN tree.file : tree.file[f].parent \in Dirs
    /\ boot = 5 => /\ process.cwdir \in Dirs /\ tree.dir[process.cwdir].link = None
                   /\ process.owner \in DOMAIN accounts.user
                   /\ process.file \in DOMAIN tree.file

\* The directories that were made and not given up, without the symbolic ones.
RealDirs == {d \in Dirs : tree.dir[d].owner # None /\ tree.dir[d].link = None}
Entries(d) == {tree.dir[d].subs[i] : i \in DOMAIN tree.dir[d].subs}

\* Whatever was created, and whatever failed on the way, every directory but
\* the root is entered once, in its parent; its "." leads to itself and its
\* ".." to its parent, unless its own path is so long that they do not fit;
\* and an entry without a name or owner is only where a path was too long
\* (createDirectory, createSymbolicDirectory: file.c:668-789).  The variables
\* keep their types.
TreeSound ==
    /\ TypeOK
    /\ \A d \in Dirs \ {Root} : {p \in Dirs : d \in Entries(p)} = {tree.dir[d].parent}
    /\ \A d \in Dirs : IsInjective(tree.dir[d].subs)
    /\ \A d \in RealDirs :
          LET length == PathLen(tree.dir[d].fullpath)
              up     == IF d = Root THEN Root ELSE tree.dir[d].parent
          IN  /\ length + 2 <= MAX_FULL_PATH_LENGTH =>
                     GetDirectoryFromParent(tree, d, <<".">>, TRUE) = d
              /\ length + 3 <= MAX_FULL_PATH_LENGTH =>
                     GetDirectoryFromParent(tree, d, <<"..">>, TRUE) = up
    /\ \A d \in Dirs : tree.dir[d].owner = None =>
          PathLen(tree.dir[tree.dir[d].parent].fullpath) + MAX_NAME_LENGTH + 1 > MAX_FULL_PATH_LENGTH

\* The directories with their ancestors.
Ancestry(d) == {p \in RealDirs : IsPrefix(tree.dir[p].fullpath, tree.dir[d].fullpath)}

\* The full path of a directory, as getcwd gives it and as PWD holds it, leads
\* back to that directory and to no other, so no two entries share a name;
\* but for directories made with a slash after their name, which keep it in
\* the name and not in the path, and what is below them (file.c:687-703).
FullpathLeadsBack ==
    \A d \in RealDirs :
        \/ \E p \in Ancestry(d) : p # Root /\ Last(tree.dir[p].name) = ""
        \/ GetDirectoryFrom(tree, Root, PathTo(d), TRUE) = d

\* A variable that is only ever set to be overwritten has one value: setting
\* it finds it wherever it is in the table, whatever was unset before, and
\* unsetting it leaves none (setEnvVariable, usermode.c:1366-1415).
OneValuePerVariable ==
    \A i, j \in DOMAIN process.variables :
        i # j /\ NoVariable \notin {process.variables[i], process.variables[j]} =>
            \/ process.variables[i].key # process.variables[j].key
            \/ process.variables[i].key \in plain

\* A call that fails leaves the tree as it was, with two exceptions: an entry
\* without a name where the path was too long, and a directory or file whose
\* maker may not read it (usermode.c:1499-1507, 1541-1551).
FailureLeavesTree ==
    [][(result' = "error" /\ tree' # tree) =>
          \/ tree'.dir[Len(tree'.dir)].owner = None /\ Len(tree'.dir) = Len(tree.dir) + 1
          \/ \E d \in DOMAIN tree'.dir \ Dirs :
                /\ tree'.dir[d].link = None /\ <<"owner", "read">> \notin tree'.dir[d].mode
                /\ tree'.file = tree.file
          \/ /\ Len(tree'.dir) = Len(tree.dir) /\ Len(tree'.file) = Len(tree.file) + 1
             /\ <<"owner", "read">> \notin Last(tree'.file).mode]_vars
=============================================================================

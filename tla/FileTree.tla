------------------------------ MODULE FileTree ------------------------------
(***************************************************************************)
(* The tree of directories and files, as operators on its value            *)
(*     t = [dir |-> sequence of directories, file |-> sequence of files]   *)
(* in the order of their creation; the root is directory 1, and 0 is the   *)
(* null pointer.  A path is the sequence of what stands between its        *)
(* slashes: "/a/b" is <<"", "a", "b">>, "a/" is <<"a", "">>, "/" is        *)
(* <<"", "">>.  Names are paths too, for a name can keep its last slash.   *)
(* A full path is the sequence of its directories' names from the root.    *)
(* Nothing is ever removed from the tree.                                  *)
(***************************************************************************)
EXTENDS Integers, Sequences, SequencesExt

CONSTANTS
    Name,                   \* what may stand between two slashes
    NameLen(_),             \* characters of a name
    MAX_DIRECTORIES,        \* entries of a directory, "." and ".." included: 32
    MAX_FILES,              \* files of a directory: 32
    MAX_NAME_LENGTH,        \* 64
    MAX_FULL_PATH_LENGTH    \* 256

ASSUME MaximaAssumption ==
    /\ MAX_DIRECTORIES \in Nat /\ MAX_DIRECTORIES > 2 /\ MAX_FILES \in Nat \ {0}
    /\ MAX_NAME_LENGTH \in Nat \ {0, 1} /\ MAX_FULL_PATH_LENGTH \in Nat /\ MAX_FULL_PATH_LENGTH > 3

ASSUME NameAssumption ==
    /\ {"", ".", ".."} \subseteq Name /\ \A name \in Name : NameLen(name) \in Nat
    /\ NameLen("") = 0 /\ NameLen(".") = 1 /\ NameLen("..") = 2

Root == 1
None == 0       \* a null pointer, to a directory, a file, a user or a group

Permission == {"owner", "group", "other"} \X {"read", "write", "execute"}
S_ISUID    == <<"set", "uid">>

\* The characters of a full path: a slash before each name, or "/".
PathLen(fullpath) ==
    IF fullpath = <<>> THEN 1
    ELSE FoldLeft(LAMBDA n, name : n + 1 + NameLen(name), 0, fullpath)

-----------------------------------------------------------------------------
(* Looking up.  Intermediate results are parameters and not LET            *)
(* definitions: TLC evaluates a parameter once.                            *)

EndsInSlash(path) == Len(path) > 1 /\ Last(path) = ""

\* A name without the slash at its end.
Stripped(name) == IF EndsInSlash(name) THEN Front(name) ELSE name

\* The first of the entries with that name, or None.
Named(nodes, entries, name) ==
    LET at == SelectInSeq(entries, LAMBDA d : nodes[d].name = name)
    IN  IF at = 0 THEN None ELSE entries[at]

GetDirectoryFromParent(t, parent, name, redirectSymbolic) ==
    LET d == Named(t.dir, t.dir[parent].subs, Stripped(name))
    IN  IF d # None /\ redirectSymbolic /\ t.dir[d].link # None THEN t.dir[d].link ELSE d

\* There are no symbolic files: nothing makes one.
GetFileFromParent(t, parent, name) == Named(t.file, t.dir[parent].files, name)

\* findParent: the directory before the last name, and that name.  An empty
\* name in a path leads to the root.
Down(t, d, name) == IF d = None THEN None
                    ELSE IF name = "" THEN Root
                    ELSE GetDirectoryFromParent(t, d, <<name>>, TRUE)
Walk(t, from, names) == FoldLeft(LAMBDA d, name : Down(t, d, name), from, names)
NamesBefore(path) == Len(path) - IF EndsInSlash(path) THEN 2 ELSE 1
FindParent(t, from, path) ==
    IF path = <<"", "">> THEN [dir |-> Root, name |-> path]
    ELSE IF \E i \in DOMAIN path : NameLen(path[i]) > MAX_NAME_LENGTH
         THEN [dir |-> None, name |-> path]
    ELSE [dir  |-> Walk(t, IF from = None /\ NamesBefore(path) > 0 THEN Root ELSE from,
                        SubSeq(path, 1, NamesBefore(path))),
          name |-> SubSeq(path, NamesBefore(path) + 1, Len(path))]

\* findParent loops for ever over a relative path when it has no directory to
\* begin in.
FindParentHangs(from, path) ==
    /\ from = None /\ Head(path) # "" /\ Len(path) > 1
    /\ NameLen(Head(path)) <= MAX_NAME_LENGTH
    /\ Len(path) = 2 => ~ EndsInSlash(path)

\* A path that is the name of the directory it begins in is that directory.
DirectoryAt(t, p, path, redirectSymbolic) ==
    IF p.dir = None THEN None
    ELSE IF t.dir[p.dir].name = path THEN p.dir
    ELSE GetDirectoryFromParent(t, p.dir, p.name, redirectSymbolic)
GetDirectoryFrom(t, from, path, redirectSymbolic) ==
    DirectoryAt(t, FindParent(t, from, path), path, redirectSymbolic)

FileAt(t, p) == IF p.dir = None THEN None ELSE GetFileFromParent(t, p.dir, p.name)
GetFileFrom(t, from, path) == FileAt(t, FindParent(t, from, path))

\* getFileWEnv: the first of the directories listed that has the file.
FileIn(t, d, path) == IF d = None THEN None ELSE GetFileFrom(t, d, path)
GetFileWEnv(t, list, path) ==
    FoldLeft(LAMBDA f, dir : IF f # None THEN f
                             ELSE FileIn(t, GetDirectoryFrom(t, None, dir, TRUE), path),
             None, list)

\* It comes to a directory that makes findParent loop before it finds the file.
GetFileWEnvHangs(t, list, path) ==
    \E i \in DOMAIN list : /\ FindParentHangs(None, list[i])
                           /\ GetFileWEnv(t, SubSeq(list, 1, i - 1), path) = None

-----------------------------------------------------------------------------
(* Creating.  A failed call returns None; what it has entered stays.       *)

\* What memset leaves of a directory that is entered and then given up.
Nameless(parent) ==
    [name |-> <<"">>, fullpath |-> <<>>, parent |-> parent, link |-> None, mode |-> {},
     owner |-> None, group |-> None, subs |-> <<>>, files |-> <<>>]

\* (Mutant: the path begins with the parent's name, not its full path.)
DirectoryShortPath(t, parent, name, link, mode, owner, group) ==
    [Nameless(parent) EXCEPT !.name = name, !.link = link, !.mode = mode,
                             !.owner = owner, !.group = group,
                             !.fullpath = (IF parent = Root THEN <<>> ELSE t.dir[parent].name)
                                          \o Stripped(name)]

Directory(t, parent, name, link, mode, owner, group) ==
    [Nameless(parent) EXCEPT !.name = name, !.link = link, !.mode = mode,
                             !.owner = owner, !.group = group,
                             !.fullpath = t.dir[parent].fullpath \o Stripped(name)]

\* A new directory node as the last entry of parent.
Entered(t, parent, node) ==
    LET dirs == [t.dir EXCEPT ![parent].subs = Append(@, Len(t.dir) + 1)]
    IN  [t EXCEPT !.dir = Append(dirs, node)]

PathFits(t, parent, name) ==
    PathLen(t.dir[parent].fullpath) + NameLen(Head(Stripped(name))) + 1 <= MAX_FULL_PATH_LENGTH

DirectoryFull(t, d) == Len(t.dir[d].subs) >= MAX_DIRECTORIES

CreateSymbolicDirectory(t, parent, link, name, mode, owner, group) ==
    IF DirectoryFull(t, parent) THEN t
    ELSE Entered(t, parent, IF PathFits(t, parent, name)
                            THEN Directory(t, parent, name, link, mode, owner, group)
                            ELSE Nameless(parent))

\* (Mutant: ".." leads to the new directory itself.)
WithDotsToSelf(t, d, parent, up) ==
    CreateSymbolicDirectory(
        CreateSymbolicDirectory(t, d, d, <<".">>, t.dir[d].mode, t.dir[d].owner, t.dir[d].group),
        d, d, <<"..">>, up.mode, up.owner, up.group)

\* "." with the attributes of d and ".." with those of up, to parent.
WithDots(t, d, parent, up) ==
    CreateSymbolicDirectory(
        CreateSymbolicDirectory(t, d, d, <<".">>, t.dir[d].mode, t.dir[d].owner, t.dir[d].group),
        d, parent, <<"..">>, up.mode, up.owner, up.group)

\* createDirectory.  The name keeps the slash at its end.
CreateDirectory(t, parent, name, mode, owner, group) ==
    IF DirectoryFull(t, parent) THEN [tree |-> t, dir |-> None]
    ELSE IF ~ PathFits(t, parent, name)
         THEN [tree |-> Entered(t, parent, Nameless(parent)), dir |-> None]
    ELSE [tree |-> WithDots(Entered(t, parent, Directory(t, parent, name, None, mode, owner, group)),
                            Len(t.dir) + 1, parent, t.dir[parent]),
          dir |-> Len(t.dir) + 1]

File(parent, name, mode, owner, group) ==
    [name |-> name, parent |-> parent, mode |-> mode, owner |-> owner, group |-> group]

EnteredFile(t, parent, node) ==
    [t EXCEPT !.dir[parent].files = Append(@, Len(t.file) + 1), !.file = Append(@, node)]

\* (Mutant: the file is entered before its path is checked, as a directory is.)
CreateFileEntersFirst(t, parent, name, mode, owner, group) ==
    IF Len(t.dir[parent].files) >= MAX_FILES THEN [tree |-> t, file |-> None]
    ELSE [tree |-> EnteredFile(t, parent, File(parent, name, mode, owner, group)),
          file |-> IF PathFits(t, parent, name) THEN Len(t.file) + 1 ELSE None]

\* createFile: it enters nothing that fails.
CreateFile(t, parent, name, mode, owner, group) ==
    IF Len(t.dir[parent].files) >= MAX_FILES \/ ~ PathFits(t, parent, name)
    THEN [tree |-> t, file |-> None]
    ELSE [tree |-> EnteredFile(t, parent, File(parent, name, mode, owner, group)),
          file |-> Len(t.file) + 1]

\* changeDirectoryOwner, recursive: the directories below with it, each with
\* its ".", and the files.  One without "." keeps what is in it.
Dot(t, d) == Named(t.dir, t.dir[d].subs, <<".">>)
Children(t, d) == {x \in {t.dir[d].subs[i] : i \in DOMAIN t.dir[d].subs} :
                      t.dir[x].name \notin {<<".">>, <<"..">>}}
Below(t, d) ==
    LET down[n \in 0 .. Len(t.dir)] ==
            IF n = 0 THEN {d}
            ELSE UNION {IF Dot(t, x) = None THEN {x} ELSE {x} \cup Children(t, x) : x \in down[n - 1]}
    IN  down[Len(t.dir)]

WithOwner(t, dirs, files, owner, group) ==
    [dir  |-> [x \in DOMAIN t.dir |->
                 IF x \in dirs THEN [t.dir[x] EXCEPT !.owner = owner, !.group = group] ELSE t.dir[x]],
     file |-> [f \in DOMAIN t.file |->
                 IF f \in files THEN [t.file[f] EXCEPT !.owner = owner, !.group = group]
                 ELSE t.file[f]]]

OwnerChanged(t, all, owner, group) ==
    WithOwner(t, all \cup ({Dot(t, x) : x \in all} \ {None}),
              {f \in DOMAIN t.file : t.file[f].parent \in all /\ Dot(t, t.file[f].parent) # None},
              owner, group)

ChangeDirectoryOwner(t, d, owner, group) == OwnerChanged(t, Below(t, d), owner, group)

-----------------------------------------------------------------------------
(* The initrd.                                                             *)

\* A new root with its two entries.
RootTree(mode, owner, group) ==
    WithDots([dir  |-> <<[Nameless(None) EXCEPT !.name = <<"", "">>, !.mode = mode,
                                                !.owner = owner, !.group = group]>>,
              file |-> <<>>],
             Root, Root, [mode |-> mode, owner |-> owner, group |-> group])

\* parseDirectory and parseFile of an entry of the archive, whose directories
\* come before what is in them, found to belong in p.dir.
Parse(t, p, entry, owner, group) ==
    IF entry.file THEN EnteredFile(t, p.dir, File(p.dir, p.name, entry.mode, owner, group))
    ELSE WithDots(Entered(t, p.dir, Directory(t, p.dir, p.name, None, entry.mode, owner, group)),
                  Len(t.dir) + 1, p.dir,
                  [mode |-> t.dir[p.dir].mode, owner |-> owner, group |-> group])

LoadInitrd(archive, mode, owner, group) ==
    FoldLeft(LAMBDA t, entry : Parse(t, FindParent(t, Root, entry.path), entry, owner, group),
             RootTree(mode, owner, group), archive)
=============================================================================

--------------------------- MODULE SessionProofs ----------------------------
(***************************************************************************)
(* Theorems about Session, for archives, limits, paths, users and calls of *)
(* every kind and number: what the boot and the calls of a process make of *)
(* the tree of directories and of the variables stays in order.            *)
(***************************************************************************)
EXTENDS Session, SequenceTheorems, WellFoundedInduction, TLAPS

-----------------------------------------------------------------------------
(* The tree.                                                               *)

\* A last name of a path, with or without a slash at its end.
LastName == {<<n>> : n \in Name} \cup {<<n, "">> : n \in Name}
Slashed(name) == Last(name) = ""

Node ==
    [name : LastName, fullpath : Seq(Name), parent : Nat, link : Nat, mode : Modes,
     owner : Nat, group : Nat, subs : Seq(Nat), files : Seq(Nat)]
FileNode == [name : LastName, parent : Nat, mode : Modes, owner : Nat, group : Nat]
Tree == [dir : Seq(Node), file : Seq(FileNode)]

Nodes(t) == 1 .. Len(t.dir)
Files(t) == 1 .. Len(t.file)
Real(t)  == {d \in Nodes(t) : t.dir[d].link = None /\ t.dir[d].owner # None}

\* What is entered in a directory is there, and has it as its parent.
Holds(t, d) ==
    LET subs == t.dir[d].subs  files == t.dir[d].files IN
    /\ Len(subs) <= MAX_DIRECTORIES /\ Len(files) <= MAX_FILES
    /\ \A i \in 1 .. Len(subs) : /\ subs[i] \in Nodes(t) /\ subs[i] # Root
                                 /\ t.dir[subs[i]].parent = d
    /\ \A i, j \in 1 .. Len(subs) : subs[i] = subs[j] => i = j
    /\ \A i \in 1 .. Len(files) : files[i] \in Files(t)

IsEntered(t, d) ==
    /\ t.dir[d].parent \in Nodes(t)
    /\ \E i \in 1 .. Len(t.dir[t.dir[d].parent].subs) : t.dir[t.dir[d].parent].subs[i] = d

RootIs(t) ==
    LET r == t.dir[Root] IN
    /\ r.parent = None /\ r.link = None /\ r.owner # None
    /\ r.name = <<"", "">> /\ r.fullpath = <<>>

Valid(t) ==
    /\ t \in Tree /\ Root \in Nodes(t) /\ RootIs(t)
    /\ \A d \in Nodes(t) : /\ Holds(t, d)
                           /\ d # Root => IsEntered(t, d)
                           /\ t.dir[d].link # None => /\ t.dir[d].link \in Nodes(t)
                                                      /\ t.dir[t.dir[d].link].link = None
    /\ \A f \in Files(t) : t.file[f].parent \in Nodes(t)

\* The first two entries of a directory are "." and "..", as far as they fit.
Up(t, d) == IF d = Root THEN Root ELSE t.dir[d].parent
Fits(t, d, length) == PathLen(t.dir[d].fullpath) + length + 1 <= MAX_FULL_PATH_LENGTH
Dotted(t, d) ==
    LET subs == t.dir[d].subs IN
    /\ Len(subs) >= 2
    /\ Fits(t, d, 1) => /\ t.dir[subs[1]].name = <<".">>
                        /\ t.dir[subs[1]].link = d
    /\ t.dir[subs[1]].name # <<"..">>
    /\ Fits(t, d, 2) => /\ t.dir[subs[2]].name = <<"..">>
                        /\ t.dir[subs[2]].link = Up(t, d)

\* A directory that was given up is nameless, and below one with a long path.
GivenUp(t, d) ==
    /\ t.dir[d].name = <<"">> /\ t.dir[d].mode = {} /\ d # Root
    /\ ~ Fits(t, t.dir[d].parent, MAX_NAME_LENGTH)

\* The full path of a directory is that of its parent and its name.
PathIs(t, d) ==
    /\ t.dir[d].parent \in Real(t)
    /\ t.dir[d].fullpath = t.dir[t.dir[d].parent].fullpath \o Stripped(t.dir[d].name)
Short(t, d) ==
    \A i \in 1 .. Len(t.dir[d].fullpath) : NameLen(t.dir[d].fullpath[i]) <= MAX_NAME_LENGTH

\* It leads back to the directory, if none on the way has a slash in its name.
Plain(t, d) ==
    \A p \in Real(t) :
        p # Root /\ IsPrefix(t.dir[p].fullpath, t.dir[d].fullpath) => ~ Slashed(t.dir[p].name)
LeadsBack(t, d) == Plain(t, d) => Walk(t, Root, <<"">> \o t.dir[d].fullpath) = d

Ordered(t) ==
    /\ Valid(t)
    /\ \A d \in Real(t) : Dotted(t, d) /\ Short(t, d) /\ LeadsBack(t, d)
    /\ \A d \in Real(t) \ {Root} : PathIs(t, d)
    /\ \A d \in Nodes(t) : t.dir[d].owner = None => GivenUp(t, d)

-----------------------------------------------------------------------------
(* Owners, accounts and variables.                                         *)

Account == [name : Name, groups : Seq(Nat), home : Nat, iwdir : Nat]
Group   == [name : Name \cup {"sudoers"}, members : Seq(Nat)]
Users(a)  == 1 .. Len(a.user)
Groups(a) == 1 .. Len(a.group)

Tables == [user : Seq(Account), group : Seq(Group)]
AccountsAre(a, users, groups) ==
    /\ a \in Tables
    /\ Len(a.user) = users /\ Len(a.group) = groups
    /\ \A u \in Users(a) : Len(a.user[u].groups) > 0 /\ Head(a.user[u].groups) \in Groups(a)

\* The accounts in the course of the boot.
Phase ==
    /\ boot = 1 => AccountsAre(accounts, 0, 0)
    /\ boot = 2 => AccountsAre(accounts, 1, 1)
    /\ boot = 3 => AccountsAre(accounts, 2, 2)
    /\ boot \in {4, 5} => AccountsAre(accounts, 2, 3)
    /\ boot > 2 => accounts.user[2].iwdir \in Real(tree)

\* Who owns what has an owner.
OwnedBy(t, U, G) ==
    \A d \in Nodes(t) : t.dir[d].owner # None => t.dir[d].owner \in U /\ t.dir[d].group \in G
AllOwned(t) == \A d \in Nodes(t) : t.dir[d].owner # None

\* During the boot root is an owner before it is a user.
Owned(t, a) ==
    /\ OwnedBy(t, Users(a) \cup {root}, Groups(a) \cup {root})
    /\ \A f \in Files(t) : t.file[f].owner \in Users(a) \cup {root}

Key == {s.key : s \in Setting} \cup {"", "PATH", "LIBPATH", "PWD"}
Variable == [key : Key, value : Seq(SomePath)]
Table == [1 .. MAX_ENVIROMENT_VARIABLES -> Variable]
Process == [cwdir : Nat, owner : Nat, file : Nat, variables : Table]

Distinct(table, keys) ==
    \A i, j \in 1 .. MAX_ENVIROMENT_VARIABLES :
        i # j /\ table[i] # NoVariable /\ table[j] # NoVariable =>
            table[i].key # table[j].key \/ table[i].key \in keys

SudoPath == <<"", "bin", "sudo">>
Program(path) == GetFileFrom(tree, None, path) # None

Typed ==
    /\ boot \in 1 .. 5 /\ hung \in BOOLEAN /\ result \in {"ok", "error"}
    /\ process \in Process /\ globals \in Table

\* No call has failed before the boot is over, and the programs are there; and
\* until the first home is made no path was too long.
Booting ==
    /\ boot \in 1 .. 4 => result = "ok" /\ Program(InitialProgram) /\ Program(SudoPath)
    /\ boot \in 1 .. 2 => AllOwned(tree)
Started ==
    boot = 5 => /\ process.cwdir \in Real(tree)
                /\ process.owner \in Users(accounts)
                /\ process.file \in Files(tree)

IInv ==
    /\ Typed
    /\ Ordered(tree) /\ Owned(tree, accounts)
    /\ Booting
    /\ ~ hung \/ boot = 5 => Phase
    /\ Started
    /\ Distinct(process.variables, plain)

-----------------------------------------------------------------------------
(* Numbers, folds.                                                         *)

NatLess == OpToRel(<, Nat)

LEMMA NatLessIs ==
    /\ \A i, j \in Nat : <<i, j>> \in NatLess <=> i < j
    /\ IsWellFoundedOn(NatLess, Nat)
BY NatLessThanWellFounded DEF NatLess, OpToRel

LEMMA Smallest ==
    ASSUME NEW S \in SUBSET Nat, S # {}
    PROVE  \E m \in S : \A n \in S : m <= n
<1>1. PICK m \in S : \A n \in S : ~ (<<n, m>> \in NatLess)
  <2>1. IsWellFoundedOn(NatLess, Nat)
    BY NatLessIs
  <2> QED
    BY <2>1, WFMin
<1>2. \A n \in S : ~ n < m
  BY <1>1, NatLessIs
<1> QED
  BY <1>2

LEMMA MinIs ==
    ASSUME NEW S \in SUBSET Nat, S # {}
    PROVE  Min(S) \in S /\ \A n \in S : Min(S) <= n
BY Smallest DEF Min

LEMMA Induction ==
    ASSUME NEW S, 0 \in S, \A n \in Nat : n \in S => n + 1 \in S
    PROVE  Nat \subseteq S
<1> DEFINE T == {n \in Nat : n \notin S}
<1> SUFFICES ASSUME T # {} PROVE FALSE
  OBVIOUS
<1>1. PICK m \in T : \A n \in T : m <= n
  <2>1. T \in SUBSET Nat
    OBVIOUS
  <2> HIDE DEF T
  <2> QED
    BY <2>1, Smallest
<1>2. m \in Nat /\ m \notin S /\ m # 0
  BY <1>1
<1>3. m - 1 \in Nat /\ (m - 1) + 1 = m
  BY <1>2
<1>4. CASE m - 1 \in S
  BY <1>2, <1>3, <1>4
<1>5. CASE m - 1 \notin S
  <2>1. m - 1 \in T
    BY <1>3, <1>5
  <2> QED
    BY <1>1, <1>2, <1>3, <2>1
<1> QED
  BY <1>4, <1>5

\* Up to a bound.
LEMMA InductionTo ==
    ASSUME NEW N \in Nat, NEW S, 0 \in S, \A n \in 1 .. N : n - 1 \in S => n \in S
    PROVE  0 .. N \subseteq S
<1> DEFINE T == {n \in Nat : n <= N => n \in S}
<1>1. 0 \in T
  OBVIOUS
<1>2. ASSUME NEW n \in Nat, n \in T PROVE n + 1 \in T
  <2>1. CASE n + 1 <= N
    <3>1. n \in S /\ n + 1 \in 1 .. N /\ (n + 1) - 1 = n
      BY <1>2, <2>1
    <3> QED
      BY <3>1
  <2> QED
    BY <2>1
<1>3. Nat \subseteq T
  <2> HIDE DEF T
  <2> QED
    BY <1>1, <1>2, Induction
<1> QED
  BY <1>3

LEMMA MaxIs ==
    \A m \in Nat : \A x \in SUBSET (1 .. m) :
        x # {} => Max(x) \in x /\ \A y \in x : Max(x) >= y
<1> DEFINE S == {m \in Nat : \A x \in SUBSET (1 .. m) :
                     x # {} => \E z \in x : \A y \in x : z >= y}
<1>1. 0 \in S
  <2>1. 1 .. 0 = {}
    OBVIOUS
  <2> QED
    BY <2>1
<1>2. ASSUME NEW m \in Nat, m \in S PROVE m + 1 \in S
  <2> SUFFICES ASSUME NEW x \in SUBSET (1 .. m + 1), x # {}
               PROVE  \E z \in x : \A y \in x : z >= y
    OBVIOUS
  <2>1. CASE m + 1 \in x
    BY <2>1
  <2>2. CASE m + 1 \notin x
    <3>1. x \in SUBSET (1 .. m)
      BY <2>2
    <3> QED
      BY <1>2, <3>1
  <2> QED
    BY <2>1, <2>2
<1>3. Nat \subseteq S
  <2> HIDE DEF S
  <2> QED
    BY <1>1, <1>2, Induction
<1> QED
  BY <1>3 DEF Max

\* Sets of indices, as a fold takes them apart.
Indices(m) == SUBSET (1 .. m)

LEMMA IndicesAre ==
    /\ Indices(0) = {{}}
    /\ \A m \in Nat : /\ Indices(m) \subseteq Indices(m + 1)
                      /\ \A x \in Indices(m) : m + 1 \notin x
                      /\ \A x \in Indices(m + 1) : m + 1 \notin x => x \in Indices(m)
                      /\ \A x \in Indices(m + 1) : m + 1 \in x =>
                             Max(x) = m + 1 /\ x \ {Max(x)} \in Indices(m)
                      /\ \A x \in Indices(m) : x # {} => x \ {Max(x)} \in Indices(m)
    /\ \A m \in Nat : \A k \in 0 .. m : 1 .. k \in Indices(m)
    /\ 1 .. 0 = {}
    /\ \A k \in Nat \ {0} : 1 .. k # {} /\ (1 .. k) \ {k} = 1 .. k - 1 /\ Max(1 .. k) = k
<1>1. 1 .. 0 = {}
  OBVIOUS
<1>2. ASSUME NEW m \in Nat
      PROVE  /\ Indices(m) \subseteq Indices(m + 1)
             /\ \A x \in Indices(m) : m + 1 \notin x
             /\ \A x \in Indices(m + 1) : m + 1 \notin x => x \in Indices(m)
             /\ \A x \in Indices(m) : x # {} => x \ {Max(x)} \in Indices(m)
  <2>1. \A n : n \in 1 .. m + 1 <=> n \in 1 .. m \/ n = m + 1
    OBVIOUS
  <2>2. m + 1 \notin 1 .. m
    OBVIOUS
  <2> QED
    BY <2>1, <2>2 DEF Indices
<1>3. ASSUME NEW m \in Nat, NEW x \in Indices(m + 1), m + 1 \in x
      PROVE  Max(x) = m + 1 /\ x \ {Max(x)} \in Indices(m)
  <2>1. Max(x) \in x /\ Max(x) >= m + 1
    <3>1. m + 1 \in Nat /\ x \in SUBSET (1 .. m + 1) /\ x # {}
      BY <1>3 DEF Indices
    <3> QED
      BY <1>3, <3>1, MaxIs
  <2>3. x \subseteq 1 .. m + 1
    BY <1>3 DEF Indices
  <2> DEFINE M == Max(x)
  <2>2. M = m + 1
    <3>1. M \in 1 .. m + 1 /\ M >= m + 1
      BY <2>1, <2>3
    <3> HIDE DEF M
    <3> QED
      BY <3>1
  <2> QED
    BY <2>2, <2>3 DEF Indices
<1>4. ASSUME NEW k \in Nat \ {0}
      PROVE  1 .. k # {} /\ (1 .. k) \ {k} = 1 .. k - 1 /\ Max(1 .. k) = k
  <2>1. k \in 1 .. k
    OBVIOUS
  <2>2. Max(1 .. k) \in 1 .. k /\ Max(1 .. k) >= k
    BY <2>1, MaxIs
  <2> QED
    BY <2>1, <2>2
<1>5. \A m \in Nat : \A k \in 0 .. m : 1 .. k \in Indices(m)
  BY DEF Indices
<1>6. Indices(0) = {{}}
  BY <1>1 DEF Indices
<1> QED
  BY <1>1, <1>2, <1>3, <1>4, <1>5, <1>6

Sum(names) == FoldLeft(LAMBDA n, name : n + 1 + NameLen(name), 0, names)
FoundIn(t, path, f, dir) ==
    IF f # None THEN f ELSE FileIn(t, GetDirectoryFrom(t, None, dir, TRUE), path)
Parsed(t, entry, owner, group) ==
    Parse(t, FindParent(t, Root, entry.path), entry, owner, group)

Walks(t, from, s, N, f) ==
    f[0] = from /\ \A k \in 1 .. N : f[k] = Down(t, f[k - 1], s[k])

\* The recursion of a fold, here that of findParent over the names of a path: its
\* values for the first names of the path.
LEMMA WalkIs ==
    ASSUME NEW t, NEW from, NEW s, NEW N \in Nat, DOMAIN s = 1 .. N
    PROVE  \E f : Walks(t, from, s, N, f) /\ Walk(t, from, s) = f[N]
<1> DEFINE Value(g, x) == IF x = {} THEN from ELSE Down(t, g[x \ {Max(x)}], s[Max(x)])
           Iterates(g, m) == g = [x \in Indices(m) |-> Value(g, x)]
           S == {m \in Nat : \E g : Iterates(g, m)}
<1>1. 0 \in S
  <2> DEFINE g == [x \in Indices(0) |-> from]
  <2>1. Iterates(g, 0)
    BY IndicesAre
  <2> QED
    BY <2>1
<1>2. ASSUME NEW m \in Nat, m \in S PROVE m + 1 \in S
  <2>1. PICK g : Iterates(g, m)
    BY <1>2
  <2> DEFINE h == [x \in Indices(m + 1) |-> IF m + 1 \in x THEN Value(g, x) ELSE g[x]]
  <2>2. \A x \in Indices(m) : g[x] = Value(g, x)
    BY <2>1
  <2>3. \A x \in Indices(m) : h[x] = g[x]
    BY IndicesAre
  <2>4. h = [x \in Indices(m + 1) |-> h[x]]
    OBVIOUS
  <2>5. \A x \in Indices(m + 1) : m + 1 \in x => h[x] = Value(g, x)
    OBVIOUS
  <2> HIDE DEF h
  <2>6. \A x \in Indices(m + 1) : h[x] = Value(h, x)
    <3> SUFFICES ASSUME NEW x \in Indices(m + 1) PROVE h[x] = Value(h, x)
      OBVIOUS
    <3>1. CASE m + 1 \in x
      <4>1. x \ {Max(x)} \in Indices(m) /\ x # {}
        BY <3>1, IndicesAre
      <4>2. h[x] = Value(g, x) /\ h[x \ {Max(x)}] = g[x \ {Max(x)}]
        BY <2>3, <2>5, <3>1, <4>1
      <4> QED
        BY <4>1, <4>2
    <3>2. CASE m + 1 \notin x
      <4>1. x \in Indices(m) /\ (x # {} => x \ {Max(x)} \in Indices(m))
        BY <3>2, IndicesAre
      <4>2. h[x] = Value(g, x) /\ (x # {} => h[x \ {Max(x)}] = g[x \ {Max(x)}])
        BY <2>2, <2>3, <4>1
      <4> QED
        BY <4>2
    <3> QED
      BY <3>1, <3>2
  <2>7. Iterates(h, m + 1)
    BY <2>4, <2>6
  <2>8. \E y : Iterates(y, m + 1)
    BY <2>7
  <2>9. m + 1 \in Nat
    OBVIOUS
  <2> HIDE DEF Iterates
  <2> QED
    BY <2>8, <2>9
<1>3. \E g : Iterates(g, N)
  <2>1. Nat \subseteq S
    <3> HIDE DEF S
    <3> QED
      BY <1>1, <1>2, Induction
  <2> QED
    BY <2>1
<1> DEFINE iter == CHOOSE g : Iterates(g, N)
<1>4. Iterates(iter, N)
  BY <1>3
<1>5. Walk(t, from, s) = iter[1 .. N]
  BY DEF Indices, Walk, FoldLeft, MapThenFoldSet
<1> HIDE DEF iter
<1> DEFINE f == [k \in 0 .. N |-> iter[1 .. k]]
<1>6. \A x \in Indices(N) : iter[x] = Value(iter, x)
  BY <1>4
<1>7. f[0] = from /\ f[N] = Walk(t, from, s)
  <2>1. 1 .. 0 = {} /\ 1 .. 0 \in Indices(N) /\ 0 \in 0 .. N /\ N \in 0 .. N
    BY IndicesAre
  <2>2. f[0] = iter[1 .. 0] /\ f[N] = iter[1 .. N]
    BY <2>1
  <2>3. iter[1 .. 0] = from
    BY <1>6, <2>1
  <2> HIDE DEF f
  <2> QED
    BY <1>5, <2>2, <2>3
<1>8. ASSUME NEW k \in 1 .. N PROVE f[k] = Down(t, f[k - 1], s[k])
  <2>0. k \in Nat \ {0} /\ k \in 0 .. N
    OBVIOUS
  <2>1. 1 .. k # {} /\ (1 .. k) \ {k} = 1 .. k - 1 /\ Max(1 .. k) = k
    BY <2>0, IndicesAre
  <2>2. iter[1 .. k] = Value(iter, 1 .. k)
    BY <1>6, <2>0, IndicesAre
  <2>3. f[k] = iter[1 .. k] /\ f[k - 1] = iter[1 .. k - 1]
    OBVIOUS
  <2> HIDE DEF f
  <2> QED
    BY <2>1, <2>2, <2>3
<1>9. Walks(t, from, s, N, f)
  <2> HIDE DEF f
  <2> QED
    BY <1>7, <1>8 DEF Walks
<1> HIDE DEF f
<1> QED
  BY <1>7, <1>9

\* That over the names of a full path.
LEMMA SumIs ==
    ASSUME NEW s, NEW N \in Nat, DOMAIN s = 1 .. N
    PROVE  \E f : /\ DOMAIN f = 0 .. N /\ f[0] = 0
                  /\ \A k \in 1 .. N : f[k] = f[k - 1] + 1 + NameLen(s[k])
                  /\ Sum(s) = f[N]
<1> DEFINE Value(g, x) == IF x = {} THEN 0 ELSE g[x \ {Max(x)}] + 1 + NameLen(s[Max(x)])
           Iterates(g, m) == g = [x \in Indices(m) |-> Value(g, x)]
           S == {m \in Nat : \E g : Iterates(g, m)}
<1>1. 0 \in S
  <2> DEFINE g == [x \in Indices(0) |-> 0]
  <2>1. Iterates(g, 0)
    BY IndicesAre
  <2> QED
    BY <2>1
<1>2. ASSUME NEW m \in Nat, m \in S PROVE m + 1 \in S
  <2>1. PICK g : Iterates(g, m)
    BY <1>2
  <2> DEFINE h == [x \in Indices(m + 1) |-> IF m + 1 \in x THEN Value(g, x) ELSE g[x]]
  <2>2. \A x \in Indices(m) : g[x] = Value(g, x)
    BY <2>1
  <2>3. \A x \in Indices(m) : h[x] = g[x]
    BY IndicesAre
  <2>4. h = [x \in Indices(m + 1) |-> h[x]]
    OBVIOUS
  <2>5. \A x \in Indices(m + 1) : m + 1 \in x => h[x] = Value(g, x)
    OBVIOUS
  <2> HIDE DEF h
  <2>6. \A x \in Indices(m + 1) : h[x] = Value(h, x)
    <3> SUFFICES ASSUME NEW x \in Indices(m + 1) PROVE h[x] = Value(h, x)
      OBVIOUS
    <3>1. CASE m + 1 \in x
      <4>1. x \ {Max(x)} \in Indices(m) /\ x # {}
        BY <3>1, IndicesAre
      <4>2. h[x] = Value(g, x) /\ h[x \ {Max(x)}] = g[x \ {Max(x)}]
        BY <2>3, <2>5, <3>1, <4>1
      <4> QED
        BY <4>1, <4>2
    <3>2. CASE m + 1 \notin x
      <4>1. x \in Indices(m) /\ (x # {} => x \ {Max(x)} \in Indices(m))
        BY <3>2, IndicesAre
      <4>2. h[x] = Value(g, x) /\ (x # {} => h[x \ {Max(x)}] = g[x \ {Max(x)}])
        BY <2>2, <2>3, <4>1
      <4> QED
        BY <4>2
    <3> QED
      BY <3>1, <3>2
  <2>7. Iterates(h, m + 1)
    BY <2>4, <2>6
  <2>8. \E y : Iterates(y, m + 1)
    BY <2>7
  <2>9. m + 1 \in Nat
    OBVIOUS
  <2> HIDE DEF Iterates
  <2> QED
    BY <2>8, <2>9
<1>3. \E g : Iterates(g, N)
  <2>1. Nat \subseteq S
    <3> HIDE DEF S
    <3> QED
      BY <1>1, <1>2, Induction
  <2> QED
    BY <2>1
<1> DEFINE iter == CHOOSE g : Iterates(g, N)
<1>4. Iterates(iter, N)
  BY <1>3
<1>5. Sum(s) = iter[1 .. N]
  BY DEF Indices, Sum, FoldLeft, MapThenFoldSet
<1> HIDE DEF iter
<1> DEFINE f == [k \in 0 .. N |-> iter[1 .. k]]
<1>6. \A x \in Indices(N) : iter[x] = Value(iter, x)
  BY <1>4
<1>7. f[0] = 0 /\ f[N] = Sum(s)
  <2>1. 1 .. 0 = {} /\ 1 .. 0 \in Indices(N) /\ 0 \in 0 .. N /\ N \in 0 .. N
    BY IndicesAre
  <2>2. f[0] = iter[1 .. 0] /\ f[N] = iter[1 .. N]
    BY <2>1
  <2>3. iter[1 .. 0] = 0
    BY <1>6, <2>1
  <2> HIDE DEF f
  <2> QED
    BY <1>5, <2>2, <2>3
<1>8. ASSUME NEW k \in 1 .. N PROVE f[k] = f[k - 1] + 1 + NameLen(s[k])
  <2>0. k \in Nat \ {0} /\ k \in 0 .. N
    OBVIOUS
  <2>1. 1 .. k # {} /\ (1 .. k) \ {k} = 1 .. k - 1 /\ Max(1 .. k) = k
    BY <2>0, IndicesAre
  <2>2. iter[1 .. k] = Value(iter, 1 .. k)
    BY <1>6, <2>0, IndicesAre
  <2>3. f[k] = iter[1 .. k] /\ f[k - 1] = iter[1 .. k - 1]
    OBVIOUS
  <2> HIDE DEF f
  <2> QED
    BY <2>1, <2>2, <2>3
<1>9. DOMAIN f = 0 .. N
  OBVIOUS
<1> HIDE DEF f
<1> QED
  BY <1>7, <1>8, <1>9

\* That over the directories of PATH.
LEMMA SearchIs ==
    ASSUME NEW t, NEW path, NEW s, NEW N \in Nat, DOMAIN s = 1 .. N
    PROVE  \E f : /\ DOMAIN f = 0 .. N /\ f[0] = None
                  /\ \A k \in 1 .. N : f[k] = FoundIn(t, path, f[k - 1], s[k])
                  /\ GetFileWEnv(t, s, path) = f[N]
<1> DEFINE Value(g, x) == IF x = {} THEN None ELSE FoundIn(t, path, g[x \ {Max(x)}], s[Max(x)])
           Iterates(g, m) == g = [x \in Indices(m) |-> Value(g, x)]
           S == {m \in Nat : \E g : Iterates(g, m)}
<1>1. 0 \in S
  <2> DEFINE g == [x \in Indices(0) |-> None]
  <2>1. Iterates(g, 0)
    BY IndicesAre
  <2> QED
    BY <2>1
<1>2. ASSUME NEW m \in Nat, m \in S PROVE m + 1 \in S
  <2>1. PICK g : Iterates(g, m)
    BY <1>2
  <2> DEFINE h == [x \in Indices(m + 1) |-> IF m + 1 \in x THEN Value(g, x) ELSE g[x]]
  <2>2. \A x \in Indices(m) : g[x] = Value(g, x)
    BY <2>1
  <2>3. \A x \in Indices(m) : h[x] = g[x]
    BY IndicesAre
  <2>4. h = [x \in Indices(m + 1) |-> h[x]]
    OBVIOUS
  <2>5. \A x \in Indices(m + 1) : m + 1 \in x => h[x] = Value(g, x)
    OBVIOUS
  <2> HIDE DEF h
  <2>6. \A x \in Indices(m + 1) : h[x] = Value(h, x)
    <3> SUFFICES ASSUME NEW x \in Indices(m + 1) PROVE h[x] = Value(h, x)
      OBVIOUS
    <3>1. CASE m + 1 \in x
      <4>1. x \ {Max(x)} \in Indices(m) /\ x # {}
        BY <3>1, IndicesAre
      <4>2. h[x] = Value(g, x) /\ h[x \ {Max(x)}] = g[x \ {Max(x)}]
        BY <2>3, <2>5, <3>1, <4>1
      <4> QED
        BY <4>1, <4>2
    <3>2. CASE m + 1 \notin x
      <4>1. x \in Indices(m) /\ (x # {} => x \ {Max(x)} \in Indices(m))
        BY <3>2, IndicesAre
      <4>2. h[x] = Value(g, x) /\ (x # {} => h[x \ {Max(x)}] = g[x \ {Max(x)}])
        BY <2>2, <2>3, <4>1
      <4> QED
        BY <4>2
    <3> QED
      BY <3>1, <3>2
  <2>7. Iterates(h, m + 1)
    BY <2>4, <2>6
  <2>8. \E y : Iterates(y, m + 1)
    BY <2>7
  <2>9. m + 1 \in Nat
    OBVIOUS
  <2> HIDE DEF Iterates
  <2> QED
    BY <2>8, <2>9
<1>3. \E g : Iterates(g, N)
  <2>1. Nat \subseteq S
    <3> HIDE DEF S
    <3> QED
      BY <1>1, <1>2, Induction
  <2> QED
    BY <2>1
<1> DEFINE iter == CHOOSE g : Iterates(g, N)
<1>4. Iterates(iter, N)
  BY <1>3
<1>5. GetFileWEnv(t, s, path) = iter[1 .. N]
  BY DEF Indices, FoundIn, GetFileWEnv, FoldLeft, MapThenFoldSet
<1> HIDE DEF iter
<1> DEFINE f == [k \in 0 .. N |-> iter[1 .. k]]
<1>6. \A x \in Indices(N) : iter[x] = Value(iter, x)
  BY <1>4
<1>7. f[0] = None /\ f[N] = GetFileWEnv(t, s, path)
  <2>1. 1 .. 0 = {} /\ 1 .. 0 \in Indices(N) /\ 0 \in 0 .. N /\ N \in 0 .. N
    BY IndicesAre
  <2>2. f[0] = iter[1 .. 0] /\ f[N] = iter[1 .. N]
    BY <2>1
  <2>3. iter[1 .. 0] = None
    BY <1>6, <2>1
  <2> HIDE DEF f
  <2> QED
    BY <1>5, <2>2, <2>3
<1>8. ASSUME NEW k \in 1 .. N PROVE f[k] = FoundIn(t, path, f[k - 1], s[k])
  <2>0. k \in Nat \ {0} /\ k \in 0 .. N
    OBVIOUS
  <2>1. 1 .. k # {} /\ (1 .. k) \ {k} = 1 .. k - 1 /\ Max(1 .. k) = k
    BY <2>0, IndicesAre
  <2>2. iter[1 .. k] = Value(iter, 1 .. k)
    BY <1>6, <2>0, IndicesAre
  <2>3. f[k] = iter[1 .. k] /\ f[k - 1] = iter[1 .. k - 1]
    OBVIOUS
  <2> HIDE DEF f
  <2> QED
    BY <2>1, <2>2, <2>3
<1>9. DOMAIN f = 0 .. N
  OBVIOUS
<1> HIDE DEF f
<1> QED
  BY <1>7, <1>8, <1>9

Fills(mode, owner, group, s, N, f) ==
    /\ f[0] = RootTree(mode, owner, group)
    /\ \A k \in 1 .. N : f[k] = Parsed(f[k - 1], s[k], owner, group)

\* And that of loadInitrd over the entries of an archive.
LEMMA LoadIs ==
    ASSUME NEW mode, NEW owner, NEW group, NEW s, NEW N \in Nat, DOMAIN s = 1 .. N
    PROVE  \E f : Fills(mode, owner, group, s, N, f) /\ LoadInitrd(s, mode, owner, group) = f[N]
<1> DEFINE Value(g, x) == IF x = {} THEN RootTree(mode, owner, group) ELSE Parsed(g[x \ {Max(x)}], s[Max(x)], owner, group)
           Iterates(g, m) == g = [x \in Indices(m) |-> Value(g, x)]
           S == {m \in Nat : \E g : Iterates(g, m)}
<1>1. 0 \in S
  <2> DEFINE g == [x \in Indices(0) |-> RootTree(mode, owner, group)]
  <2>1. Iterates(g, 0)
    BY IndicesAre
  <2> QED
    BY <2>1
<1>2. ASSUME NEW m \in Nat, m \in S PROVE m + 1 \in S
  <2>1. PICK g : Iterates(g, m)
    BY <1>2
  <2> DEFINE h == [x \in Indices(m + 1) |-> IF m + 1 \in x THEN Value(g, x) ELSE g[x]]
  <2>2. \A x \in Indices(m) : g[x] = Value(g, x)
    BY <2>1
  <2>3. \A x \in Indices(m) : h[x] = g[x]
    BY IndicesAre
  <2>4. h = [x \in Indices(m + 1) |-> h[x]]
    OBVIOUS
  <2>5. \A x \in Indices(m + 1) : m + 1 \in x => h[x] = Value(g, x)
    OBVIOUS
  <2> HIDE DEF h
  <2>6. \A x \in Indices(m + 1) : h[x] = Value(h, x)
    <3> SUFFICES ASSUME NEW x \in Indices(m + 1) PROVE h[x] = Value(h, x)
      OBVIOUS
    <3>1. CASE m + 1 \in x
      <4>1. x \ {Max(x)} \in Indices(m) /\ x # {}
        BY <3>1, IndicesAre
      <4>2. h[x] = Value(g, x) /\ h[x \ {Max(x)}] = g[x \ {Max(x)}]
        BY <2>3, <2>5, <3>1, <4>1
      <4> QED
        BY <4>1, <4>2
    <3>2. CASE m + 1 \notin x
      <4>1. x \in Indices(m) /\ (x # {} => x \ {Max(x)} \in Indices(m))
        BY <3>2, IndicesAre
      <4>2. h[x] = Value(g, x) /\ (x # {} => h[x \ {Max(x)}] = g[x \ {Max(x)}])
        BY <2>2, <2>3, <4>1
      <4> QED
        BY <4>2
    <3> QED
      BY <3>1, <3>2
  <2>7. Iterates(h, m + 1)
    BY <2>4, <2>6
  <2>8. \E y : Iterates(y, m + 1)
    BY <2>7
  <2>9. m + 1 \in Nat
    OBVIOUS
  <2> HIDE DEF Iterates
  <2> QED
    BY <2>8, <2>9
<1>3. \E g : Iterates(g, N)
  <2>1. Nat \subseteq S
    <3> HIDE DEF S
    <3> QED
      BY <1>1, <1>2, Induction
  <2> QED
    BY <2>1
<1> DEFINE iter == CHOOSE g : Iterates(g, N)
<1>4. Iterates(iter, N)
  BY <1>3
<1>5. LoadInitrd(s, mode, owner, group) = iter[1 .. N]
  BY DEF Indices, Parsed, LoadInitrd, FoldLeft, MapThenFoldSet
<1> HIDE DEF iter
<1> DEFINE f == [k \in 0 .. N |-> iter[1 .. k]]
<1>6. \A x \in Indices(N) : iter[x] = Value(iter, x)
  BY <1>4
<1>7. f[0] = RootTree(mode, owner, group) /\ f[N] = LoadInitrd(s, mode, owner, group)
  <2>1. 1 .. 0 = {} /\ 1 .. 0 \in Indices(N) /\ 0 \in 0 .. N /\ N \in 0 .. N
    BY IndicesAre
  <2>2. f[0] = iter[1 .. 0] /\ f[N] = iter[1 .. N]
    BY <2>1
  <2>3. iter[1 .. 0] = RootTree(mode, owner, group)
    BY <1>6, <2>1
  <2> HIDE DEF f
  <2> QED
    BY <1>5, <2>2, <2>3
<1>8. ASSUME NEW k \in 1 .. N PROVE f[k] = Parsed(f[k - 1], s[k], owner, group)
  <2>0. k \in Nat \ {0} /\ k \in 0 .. N
    OBVIOUS
  <2>1. 1 .. k # {} /\ (1 .. k) \ {k} = 1 .. k - 1 /\ Max(1 .. k) = k
    BY <2>0, IndicesAre
  <2>2. iter[1 .. k] = Value(iter, 1 .. k)
    BY <1>6, <2>0, IndicesAre
  <2>3. f[k] = iter[1 .. k] /\ f[k - 1] = iter[1 .. k - 1]
    OBVIOUS
  <2> HIDE DEF f
  <2> QED
    BY <2>1, <2>2, <2>3
<1>9. Fills(mode, owner, group, s, N, f)
  <2> HIDE DEF f
  <2> QED
    BY <1>7, <1>8 DEF Fills
<1> HIDE DEF f
<1> QED
  BY <1>7, <1>9

LEMMA Agree ==
    ASSUME NEW N \in Nat, NEW f, NEW g, f[0] = g[0],
           \A k \in 1 .. N : f[k - 1] = g[k - 1] => f[k] = g[k]
    PROVE  f[N] = g[N]
<1> DEFINE S == {k \in 0 .. N : f[k] = g[k]}
<1>1. 0 \in S
  OBVIOUS
<1>2. \A k \in 1 .. N : k - 1 \in S => k \in S
  OBVIOUS
<1>3. 0 .. N \subseteq S
  <2> HIDE DEF S
  <2> QED
    BY <1>1, <1>2, InductionTo
<1> QED
  BY <1>3

LEMMA Within ==
    ASSUME NEW N \in Nat, NEW f, NEW X, f[0] \in X,
           \A k \in 1 .. N : f[k - 1] \in X => f[k] \in X
    PROVE  f[N] \in X
<1> DEFINE S == {k \in 0 .. N : f[k] \in X}
<1>1. 0 \in S
  OBVIOUS
<1>2. \A k \in 1 .. N : k - 1 \in S => k \in S
  OBVIOUS
<1>3. 0 .. N \subseteq S
  <2> HIDE DEF S
  <2> QED
    BY <1>1, <1>2, InductionTo
<1> QED
  BY <1>3

LEMMA WalkIn ==
    ASSUME NEW t, NEW S, NEW names \in Seq(S), NEW X, NEW from \in X,
           \A d \in X, n \in S : Down(t, d, n) \in X
    PROVE  Walk(t, from, names) \in X
<1>1. Len(names) \in Nat /\ DOMAIN names = 1 .. Len(names)
      /\ \A k \in 1 .. Len(names) : names[k] \in S
  OBVIOUS
<1> DEFINE N == Len(names)
<1> HIDE DEF N
<1>2. N \in Nat /\ DOMAIN names = 1 .. N /\ \A k \in 1 .. N : names[k] \in S
  BY <1>1 DEF N
<1>3. PICK f : Walks(t, from, names, N, f) /\ Walk(t, from, names) = f[N]
  BY <1>2, WalkIs
<1>4. \A k \in 1 .. N : f[k - 1] \in X => f[k] \in X
  BY <1>2, <1>3 DEF Walks
<1>5. f[N] \in X
  BY <1>2, <1>3, <1>4, Within DEF Walks
<1> QED
  BY <1>3, <1>5

LEMMA WalkNone ==
    ASSUME NEW t, NEW from
    PROVE  Walk(t, from, <<>>) = from
<1>1. DOMAIN <<>> = 1 .. 0 /\ 0 \in Nat
  OBVIOUS
<1>2. PICK f : Walks(t, from, <<>>, 0, f) /\ Walk(t, from, <<>>) = f[0]
  BY <1>1, WalkIs
<1> QED
  BY <1>2 DEF Walks

LEMMA WalkOn ==
    ASSUME NEW t, NEW from, NEW names \in Seq(Name), NEW n \in Name
    PROVE  Walk(t, from, Append(names, n)) = Down(t, Walk(t, from, names), n)
<1> DEFINE N == Len(names)
           more == Append(names, n)
<1>1. /\ N \in Nat /\ DOMAIN names = 1 .. N /\ N + 1 \in Nat /\ DOMAIN more = 1 .. N + 1
      /\ more[N + 1] = n /\ \A k \in 1 .. N : more[k] = names[k]
  OBVIOUS
<1> HIDE DEF N, more
<1>2. PICK f : Walks(t, from, names, N, f) /\ Walk(t, from, names) = f[N]
  BY <1>1, WalkIs
<1>3. PICK g : Walks(t, from, more, N + 1, g) /\ Walk(t, from, more) = g[N + 1]
  BY <1>1, WalkIs
<1>4. f[N] = g[N]
  <2>1. \A k \in 1 .. N : f[k - 1] = g[k - 1] => f[k] = g[k]
    BY <1>1, <1>2, <1>3 DEF Walks
  <2> QED
    BY <1>1, <1>2, <1>3, <2>1, Agree DEF Walks
<1>5. g[N + 1] = Down(t, g[N], n)
  <2>1. N + 1 \in 1 .. N + 1 /\ (N + 1) - 1 = N
    BY <1>1
  <2> QED
    BY <1>1, <1>3, <2>1 DEF Walks
<1> QED
  BY <1>2, <1>3, <1>4, <1>5 DEF more

\* What a path leads to it leads to in a tree that has more in it.
LEMMA WalkStays ==
    ASSUME NEW t, NEW t2, NEW names \in Seq(Name), NEW X, NEW from \in X,
           \A d \in X, n \in Name : /\ Down(t, d, n) \in X
                                    /\ Down(t, d, n) # None => Down(t2, d, n) = Down(t, d, n),
           \A n \in Name : Down(t, None, n) = None,
           Walk(t, from, names) # None
    PROVE  Walk(t2, from, names) = Walk(t, from, names)
<1> DEFINE N == Len(names)
<1>1. N \in Nat /\ DOMAIN names = 1 .. N /\ \A k \in 1 .. N : names[k] \in Name
  OBVIOUS
<1> HIDE DEF N
<1>2. PICK f : Walks(t, from, names, N, f) /\ Walk(t, from, names) = f[N]
  BY <1>1, WalkIs
<1>3. PICK g : Walks(t2, from, names, N, g) /\ Walk(t2, from, names) = g[N]
  BY <1>1, WalkIs
<1> DEFINE S == {k \in 0 .. N : f[k] \in X /\ (f[k] # None => f[k] = g[k])}
<1>4. 0 \in S
  BY <1>1, <1>2, <1>3 DEF Walks
<1>5. ASSUME NEW k \in 1 .. N, k - 1 \in S PROVE k \in S
  <2>1. f[k - 1] \in X /\ (f[k - 1] # None => f[k - 1] = g[k - 1])
    BY <1>5
  <2>2. f[k] = Down(t, f[k - 1], names[k]) /\ g[k] = Down(t2, g[k - 1], names[k]) /\ names[k] \in Name
    BY <1>1, <1>2, <1>3 DEF Walks
  <2>3. f[k] \in X /\ (f[k] # None => f[k - 1] # None)
    BY <2>1, <2>2
  <2>4. f[k] # None => f[k] = g[k]
    BY <2>1, <2>2, <2>3
  <2> QED
    BY <2>3, <2>4
<1>6. 0 .. N \subseteq S
  <2> HIDE DEF S
  <2> QED
    BY <1>1, <1>4, <1>5, InductionTo
<1>7. N \in S
  BY <1>1, <1>6
<1> QED
  BY <1>2, <1>3, <1>7

LEMMA PathLenIsNat == \A names \in Seq(Name) : PathLen(names) \in Nat
<1> SUFFICES ASSUME NEW names \in Seq(Name) PROVE Sum(names) \in Nat
  BY DEF PathLen, Sum
<1> DEFINE N == Len(names)
<1>1. N \in Nat /\ DOMAIN names = 1 .. N /\ \A k \in 1 .. N : names[k] \in Name
  OBVIOUS
<1> HIDE DEF N
<1>2. PICK f : /\ f[0] = 0 /\ \A k \in 1 .. N : f[k] = f[k - 1] + 1 + NameLen(names[k])
               /\ Sum(names) = f[N]
  BY <1>1, SumIs
<1>3. ASSUME NEW k \in 1 .. N, f[k - 1] \in Nat PROVE f[k] \in Nat
  <2> DEFINE x == f[k - 1]
             y == NameLen(names[k])
  <2>1. y \in Nat
    BY <1>1, NameAssumption
  <2>2. f[k] = x + 1 + y /\ x \in Nat
    BY <1>2, <1>3
  <2> HIDE DEF x, y
  <2> QED
    BY <2>1, <2>2
<1>4. f[0] \in Nat
  BY <1>2
<1>5. f[N] \in Nat
  BY <1>1, <1>3, <1>4, Within
<1> QED
  BY <1>2, <1>5

LEMMA SearchIn ==
    ASSUME NEW t, NEW path, NEW S, NEW list \in Seq(S), NEW X, None \in X,
           \A dir \in S : FileIn(t, GetDirectoryFrom(t, None, dir, TRUE), path) \in X
    PROVE  GetFileWEnv(t, list, path) \in X
<1> DEFINE N == Len(list)
<1>1. N \in Nat /\ DOMAIN list = 1 .. N /\ \A k \in 1 .. N : list[k] \in S
  OBVIOUS
<1> HIDE DEF N
<1>2. PICK f : /\ f[0] = None /\ \A k \in 1 .. N : f[k] = FoundIn(t, path, f[k - 1], list[k])
               /\ GetFileWEnv(t, list, path) = f[N]
  BY <1>1, SearchIs
<1>3. \A k \in 1 .. N : f[k - 1] \in X => f[k] \in X
  BY <1>1, <1>2 DEF FoundIn
<1>4. f[0] \in X
  BY <1>2
<1>5. f[N] \in X
  BY <1>1, <1>3, <1>4, Within
<1> QED
  BY <1>2, <1>5

\* The tree after some entries of the archive.
LEMMA LoadedIs ==
    ASSUME NEW S, NEW a \in Seq(S)
    PROVE  /\ Loaded(SubSeq(a, 1, 0)) = RootTree(Mode755, root, root)
           /\ \A k \in 1 .. Len(a) : Loaded(SubSeq(a, 1, k)) =
                  Parsed(Loaded(SubSeq(a, 1, k - 1)), a[k], root, root)
           /\ Loaded(SubSeq(a, 1, Len(a))) = Loaded(a)
<1> DEFINE N == Len(a)
<1>1. N \in Nat /\ DOMAIN a = 1 .. N
  OBVIOUS
<1>2. SubSeq(a, 1, N) = a
  OBVIOUS
<1>3. ASSUME NEW k \in 0 .. N
      PROVE  DOMAIN SubSeq(a, 1, k) = 1 .. k /\ \A i \in 1 .. k : SubSeq(a, 1, k)[i] = a[i]
  OBVIOUS
<1> HIDE DEF N
<1>4. PICK f : Fills(Mode755, root, root, a, N, f)
  BY <1>1, LoadIs
<1>5. ASSUME NEW k \in 0 .. N PROVE Loaded(SubSeq(a, 1, k)) = f[k]
  <2> DEFINE s == SubSeq(a, 1, k)
  <2>1. k \in Nat /\ DOMAIN s = 1 .. k /\ \A i \in 1 .. k : s[i] = a[i] /\ i \in 1 .. N
    BY <1>1, <1>3
  <2> HIDE DEF s
  <2>2. PICK g : Fills(Mode755, root, root, s, k, g) /\ LoadInitrd(s, Mode755, root, root) = g[k]
    BY <2>1, LoadIs
  <2>3. \A i \in 1 .. k : f[i - 1] = g[i - 1] => f[i] = g[i]
    BY <1>4, <2>1, <2>2 DEF Fills
  <2>4. f[0] = g[0]
    BY <1>4, <2>2 DEF Fills
  <2>5. f[k] = g[k]
    BY <2>1, <2>3, <2>4, Agree
  <2> QED
    BY <2>2, <2>5 DEF Loaded, s
<1>6. ASSUME NEW k \in 1 .. N
      PROVE  Loaded(SubSeq(a, 1, k)) = Parsed(Loaded(SubSeq(a, 1, k - 1)), a[k], root, root)
  <2>1. k \in 0 .. N /\ k - 1 \in 0 .. N
    BY <1>1
  <2>2. Loaded(SubSeq(a, 1, k)) = f[k] /\ Loaded(SubSeq(a, 1, k - 1)) = f[k - 1]
    BY <1>5, <2>1
  <2> QED
    BY <1>4, <2>2 DEF Fills
<1>7. Loaded(SubSeq(a, 1, 0)) = f[0]
  BY <1>1, <1>5
<1> QED
  BY <1>2, <1>4, <1>6, <1>7 DEF N, Fills

-----------------------------------------------------------------------------
(* Environment variables.                                                  *)

Values == Seq(SomePath) \ {<<>>}

LEMMA DistinctIs ==
    ASSUME process \in Process
    PROVE  OneValuePerVariable <=> Distinct(process.variables, plain)
<1>1. DOMAIN process.variables = 1 .. MAX_ENVIROMENT_VARIABLES
  BY DEF Process, Table
<1> QED
  BY <1>1, Zenon DEF OneValuePerVariable, Distinct

LEMMA NoVariableIs ==
    /\ NoVariable \in Variable
    /\ \A value \in Values : \A key : [key |-> key, value |-> value] # NoVariable
<1>1. \A value \in Values : value # <<>>
  BY DEF Values
<1>2. \A value \in Values : \A key : [key |-> key, value |-> value] # NoVariable
  BY <1>1 DEF NoVariable
<1>3. NoVariable \in Variable
  <2>1. "" \in Key /\ <<>> \in Seq(SomePath)
    BY DEF Key
  <2> QED
    BY <2>1 DEF NoVariable, Variable
<1> QED
  BY <1>2, <1>3

LEMMA SlotsAre ==
    ASSUME NEW table \in Table, NEW key
    PROVE  /\ Slots(table, key) \in SUBSET (1 .. MAX_ENVIROMENT_VARIABLES)
           /\ FreeSlots(table) \in SUBSET (1 .. MAX_ENVIROMENT_VARIABLES)
           /\ \A i \in 1 .. MAX_ENVIROMENT_VARIABLES :
                  /\ i \in FreeSlots(table) <=> table[i] = NoVariable
                  /\ i \in Slots(table, key) <=> table[i] # NoVariable /\ table[i].key = key
           /\ Slots(table, key) # {} => Min(Slots(table, key)) \in Slots(table, key)
           /\ FreeSlots(table) # {} => Min(FreeSlots(table)) \in FreeSlots(table)
<1> DEFINE N == 1 .. MAX_ENVIROMENT_VARIABLES
<1>1. DOMAIN table = N
  BY DEF Table
<1>2. Slots(table, key) \in SUBSET N /\ FreeSlots(table) \in SUBSET N
  BY <1>1, Zenon DEF Slots, FreeSlots
<1>3. \A i \in N : /\ i \in FreeSlots(table) <=> table[i] = NoVariable
                   /\ i \in Slots(table, key) <=> table[i] # NoVariable /\ table[i].key = key
  BY <1>1, Zenon DEF Slots, FreeSlots
<1>4. N \subseteq Nat
  BY InputAssumption
<1>5. \A S \in SUBSET N : S # {} => Min(S) \in S
  <2> HIDE DEF N
  <2> QED
    BY <1>4, MinIs
<1> QED
  BY <1>2, <1>3, <1>5, Zenon

\* A variable set at a slot.
LEMMA SetAt ==
    ASSUME NEW table \in Table, NEW at \in 1 .. MAX_ENVIROMENT_VARIABLES, NEW key \in Key,
           NEW value \in Values
    PROVE  /\ [table EXCEPT ![at] = [key |-> key, value |-> value]] \in Table
           /\ [table EXCEPT ![at] = NoVariable] \in Table
<1>1. [key |-> key, value |-> value] \in Variable
  BY DEF Variable, Values
<1> QED
  BY <1>1, NoVariableIs, Zenon DEF Table

LEMMA OverwrittenIs ==
    ASSUME NEW table \in Table, NEW key \in Key, NEW value \in Values, Slots(table, key) # {}
    PROVE  /\ Overwritten(table, key, value) \in Table
           /\ \A keys : Distinct(table, keys) => Distinct(Overwritten(table, key, value), keys)
<1> DEFINE at == Min(Slots(table, key))
           new == [key |-> key, value |-> value]
<1>1. at \in 1 .. MAX_ENVIROMENT_VARIABLES /\ table[at] # NoVariable /\ table[at].key = key
  BY SlotsAre
<1>2. table[at] \in [key : Key, value : Seq(SomePath)]
  BY <1>1 DEF Table, Variable
<1>3. [table[at] EXCEPT !.value = value] = new
  BY <1>1, <1>2
<1>4. Overwritten(table, key, value) = [table EXCEPT ![at] = new]
  BY <1>1, <1>3 DEF Overwritten, Table
<1> DEFINE table2 == [table EXCEPT ![at] = new]
<1>5. table2 \in Table
  BY <1>1, SetAt
<1>6. new # NoVariable /\ new.key = key
  BY NoVariableIs
<1>7. \A i \in 1 .. MAX_ENVIROMENT_VARIABLES : table2[i] = IF i = at THEN new ELSE table[i]
  BY DEF Table
<1> HIDE DEF at, new, table2
<1>8. \A i \in 1 .. MAX_ENVIROMENT_VARIABLES :
          table2[i].key = table[i].key /\ (table2[i] # NoVariable <=> table[i] # NoVariable)
  BY <1>1, <1>6, <1>7
<1>9. \A keys : Distinct(table, keys) => Distinct(table2, keys)
  BY <1>8, Zenon DEF Distinct
<1> QED
  BY <1>4, <1>5, <1>9 DEF table2

LEMMA SetEnvIs ==
    ASSUME NEW table \in Table, NEW key \in Key, NEW value \in Values, NEW overwrite \in BOOLEAN,
           CanSet(table, key, overwrite), NEW keys, Distinct(table, keys)
    PROVE  /\ SetEnvVariable(table, key, value, overwrite) \in Table
           /\ Distinct(SetEnvVariable(table, key, value, overwrite),
                       keys \cup IF ~ overwrite /\ Slots(table, key) # {} THEN {key} ELSE {})
<1>1. CASE overwrite /\ Slots(table, key) # {}
  <2>1. SetEnvVariable(table, key, value, overwrite) = Overwritten(table, key, value)
    BY <1>1 DEF SetEnvVariable
  <2>2. Distinct(Overwritten(table, key, value), keys)
    BY <1>1, OverwrittenIs
  <2>3. \A x : Distinct(Overwritten(table, key, value), keys \cup x)
    BY <2>2, Zenon DEF Distinct
  <2> QED
    BY <1>1, <2>1, <2>3, OverwrittenIs
<1>2. CASE ~ (overwrite /\ Slots(table, key) # {})
  <2> DEFINE at == Min(FreeSlots(table))
             new == [key |-> key, value |-> value]
             table2 == [table EXCEPT ![at] = new]
             keys2 == keys \cup IF ~ overwrite /\ Slots(table, key) # {} THEN {key} ELSE {}
  <2>1. at \in 1 .. MAX_ENVIROMENT_VARIABLES /\ table[at] = NoVariable
    BY <1>2, SlotsAre DEF CanSet
  <2>2. SetEnvVariable(table, key, value, overwrite) = table2
    BY <1>2 DEF SetEnvVariable
  <2>3. table2 \in Table
    BY <2>1, SetAt
  <2>4. new # NoVariable /\ new.key = key
    BY NoVariableIs
  <2>5. \A i \in 1 .. MAX_ENVIROMENT_VARIABLES : table2[i] = IF i = at THEN new ELSE table[i]
    BY DEF Table
  <2>6. key \in keys2 \/ \A i \in 1 .. MAX_ENVIROMENT_VARIABLES :
                             table[i] # NoVariable => table[i].key # key
    BY <1>2, SlotsAre
  <2>7. keys \subseteq keys2
    OBVIOUS
  <2> HIDE DEF at, new, table2, keys2
  <2>8. Distinct(table2, keys2)
    <3> SUFFICES ASSUME NEW i \in 1 .. MAX_ENVIROMENT_VARIABLES,
                        NEW j \in 1 .. MAX_ENVIROMENT_VARIABLES,
                        i # j, table2[i] # NoVariable, table2[j] # NoVariable
                 PROVE  table2[i].key # table2[j].key \/ table2[i].key \in keys2
      BY DEF Distinct
    <3>1. CASE i = at
      BY <2>4, <2>5, <2>6, <3>1
    <3>2. CASE j = at
      BY <2>4, <2>5, <2>6, <3>2
    <3>3. CASE i # at /\ j # at
      BY <2>5, <2>7, <3>3 DEF Distinct
    <3> QED
      BY <3>1, <3>2, <3>3
  <2> QED
    BY <2>2, <2>3, <2>8 DEF keys2
<1> QED
  BY <1>1, <1>2

LEMMA UnsetEnvIs ==
    ASSUME NEW table \in Table, NEW key \in Key, NEW keys, Distinct(table, keys)
    PROVE  /\ UnsetEnvVariable(table, key) \in Table
           /\ Distinct(UnsetEnvVariable(table, key), keys)
<1>1. CASE Slots(table, key) = {}
  BY <1>1 DEF UnsetEnvVariable
<1>2. CASE Slots(table, key) # {}
  <2> DEFINE at == Min(Slots(table, key))
             table2 == [table EXCEPT ![at] = NoVariable]
  <2>1. UnsetEnvVariable(table, key) = table2
    BY <1>2 DEF UnsetEnvVariable
  <2>2. at \in 1 .. MAX_ENVIROMENT_VARIABLES
    BY <1>2, SlotsAre
  <2>3. table2 \in Table
    BY <2>2, NoVariableIs DEF Table
  <2>4. \A i \in 1 .. MAX_ENVIROMENT_VARIABLES : table2[i] = IF i = at THEN NoVariable ELSE table[i]
    BY DEF Table
  <2> HIDE DEF at, table2
  <2>5. Distinct(table2, keys)
    BY <2>4 DEF Distinct
  <2> QED
    BY <2>1, <2>3, <2>5
<1> QED
  BY <1>1, <1>2

LEMMA GlobalsAre ==
    ASSUME NEW table \in Table, NEW key \in Key, NEW value \in Values
    PROVE  SetGlobalEnvVariable(table, key, value) \in Table
<1>1. [key |-> key, value |-> value] \in Variable
  BY DEF Variable, Values
<1> QED
  BY <1>1, Zenon DEF SetGlobalEnvVariable, Table

-----------------------------------------------------------------------------
(* Names.                                                                  *)

Empty  == ""
OneName == {<<n>> : n \in Name}
Long(n) == NameLen(n) > MAX_NAME_LENGTH

LEMMA NamesAre ==
    /\ Empty \in Name /\ NameLen(Empty) = 0
    /\ OneName \subseteq LastName
    /\ \A n \in Name : <<n>> \in OneName /\ <<n, Empty>> \in LastName
    /\ <<Empty, Empty>> \in LastName
BY NameAssumption, Zenon DEF Empty, OneName, LastName

LEMMA EmptyIs ==
    /\ \A path : EndsInSlash(path) <=> Len(path) > 1 /\ Last(path) = Empty
    /\ \A name : Slashed(name) <=> Last(name) = Empty
BY Zenon DEF EndsInSlash, Slashed, Empty

LEMMA FrontOf ==
    ASSUME NEW x, NEW y
    PROVE  Front(<<x, y>>) = <<x>> /\ Last(<<x, y>>) = y /\ Last(<<x>>) = x /\ Head(<<x>>) = x
<1> DEFINE s == <<x, y>>
           S == {x, y}
<1>1. s \in Seq(S) /\ Len(s) = 2 /\ s[1] = x /\ s[2] = y /\ <<x>> \in Seq(S)
  OBVIOUS
<1>2. SubSeq(s, 1, 1) \in Seq(S) /\ Len(SubSeq(s, 1, 1)) = 1 /\ SubSeq(s, 1, 1)[1] = x
  BY <1>1
<1>3. Front(s) = SubSeq(s, 1, 1)
  BY <1>1 DEF Front
<1> HIDE DEF s, S
<1>4. SubSeq(s, 1, 1) = <<x>>
  <2>1. \A i \in 1 .. 1 : SubSeq(s, 1, 1)[i] = <<x>>[i]
    BY <1>2
  <2>2. Len(<<x>>) = 1
    OBVIOUS
  <2> QED
    BY <1>1, <1>2, <2>1, <2>2, SeqEqual
<1> QED
  BY <1>1, <1>3, <1>4 DEF Last, s

LEMMA LastNameIs ==
    ASSUME NEW name \in LastName
    PROVE  \E n \in Name :
              /\ Stripped(name) = <<n>> /\ Head(Stripped(name)) = n
              /\ \/ name = <<n>> /\ (Slashed(name) <=> n = Empty)
                 \/ name = <<n, Empty>> /\ Slashed(name)
<1>1. PICK n \in Name : name = <<n>> \/ name = <<n, Empty>>
  BY Zenon DEF LastName, Empty
<1>0. /\ EndsInSlash(name) <=> Len(name) > 1 /\ Last(name) = Empty
      /\ Slashed(name) <=> Last(name) = Empty
  BY EmptyIs, Zenon
<1>2. CASE name = <<n>>
  <2>1. Len(name) = 1 /\ Last(name) = n /\ Head(name) = n
    BY <1>2, FrontOf
  <2>2. Stripped(name) = name
    <3>1. ~ Len(name) > 1
      BY <2>1
    <3> QED
      BY <1>0, <3>1, Zenon DEF Stripped
  <2>3. Slashed(name) <=> n = Empty
    BY <1>0, <2>1, Zenon
  <2> QED
    BY <1>2, <2>1, <2>2, <2>3, Zenon
<1>3. CASE name = <<n, Empty>>
  <2>0. Len(name) > 1
    BY <1>3
  <2>1. Len(name) > 1 /\ Last(name) = Empty
    BY <2>0, <1>3, FrontOf, Zenon
  <2>2. Front(name) = <<n>> /\ Head(<<n>>) = n
    BY <1>3, FrontOf
  <2>3. Stripped(name) = Front(name) /\ Slashed(name)
    BY <1>0, <2>1, Zenon DEF Stripped
  <2> QED
    BY <1>3, <2>2, <2>3
<1> QED
  BY <1>1, <1>2, <1>3

LEMMA StrippedOf ==
    \A n : /\ Stripped(<<n>>) = <<n>> /\ Stripped(<<n, Empty>>) = <<n>>
           /\ Head(<<n>>) = n
<1> TAKE n
<1>1. Head(<<n>>) = n
  BY FrontOf
<1>2. ~ Len(<<n>>) > 1 /\ Len(<<n, Empty>>) > 1
  OBVIOUS
<1>3. EndsInSlash(<<n, Empty>>) /\ ~ EndsInSlash(<<n>>)
  BY <1>2, FrontOf, EmptyIs, Zenon
<1> QED
  BY <1>1, <1>3, FrontOf, Zenon DEF Stripped

LEMMA StrippedIs ==
    ASSUME NEW name \in LastName
    PROVE  Stripped(name) \in OneName /\ Stripped(name) \in Seq(Name)
<1>1. PICK n \in Name : Stripped(name) = <<n>>
  BY LastNameIs, Zenon
<1>2. <<n>> \in OneName
  BY NamesAre, Zenon
<1>3. <<n>> \in Seq(Name)
  OBVIOUS
<1> QED
  BY <1>1, <1>2, <1>3, Zenon

-----------------------------------------------------------------------------
(* Looking up.                                                             *)

\* What is the first of the entries with that name.
IsFirst(nodes, entries, name, i) ==
    /\ i \in 1 .. Len(entries) /\ nodes[entries[i]].name = name
    /\ \A j \in 1 .. Len(entries) : j < i => nodes[entries[j]].name # name

LEMMA NamedIs ==
    ASSUME NEW nodes, NEW entries \in Seq(Nat), NEW name
    PROVE  \/ /\ Named(nodes, entries, name) = None
              /\ \A i \in 1 .. Len(entries) : nodes[entries[i]].name # name
           \/ \E i : /\ IsFirst(nodes, entries, name, i)
                     /\ Named(nodes, entries, name) = entries[i]
<1> DEFINE S == {i \in 1 .. Len(entries) : nodes[entries[i]].name = name}
           at == SelectInSeq(entries, LAMBDA d : nodes[d].name = name)
<1>0. Named(nodes, entries, name) = IF at = 0 THEN None ELSE entries[at]
  BY DEF Named
<1>1. at = IF S # {} THEN Min(S) ELSE 0
  BY DEF SelectInSeq
<1>2. S \in SUBSET Nat /\ 0 \notin S
  OBVIOUS
<1>3. S # {} => Min(S) \in S /\ \A j \in S : Min(S) <= j
  <2> HIDE DEF S
  <2> QED
    BY <1>2, MinIs
<1>4. CASE S = {}
  BY <1>0, <1>1, <1>4
<1>5. CASE S # {}
  <2>1. at = Min(S) /\ at \in S /\ at # 0
    BY <1>1, <1>2, <1>3, <1>5
  <2>2. IsFirst(nodes, entries, name, at)
    <3>1. at \in S /\ \A j \in S : at <= j
      BY <1>3, <1>5, <2>1
    <3> HIDE DEF at
    <3> QED
      BY <3>1 DEF IsFirst
  <2> HIDE DEF at
  <2> QED
    BY <1>0, <2>1, <2>2
<1> QED
  BY <1>4, <1>5

LEMMA FirstIs ==
    ASSUME NEW nodes, NEW entries \in Seq(Nat), NEW name, NEW i, IsFirst(nodes, entries, name, i)
    PROVE  Named(nodes, entries, name) = entries[i]
<1>1. PICK j : IsFirst(nodes, entries, name, j) /\ Named(nodes, entries, name) = entries[j]
  BY NamedIs DEF IsFirst
<1>2. i = j
  BY <1>1 DEF IsFirst
<1> QED
  BY <1>1, <1>2

\* The first of a name stays the first when more entries follow.
More(nodes, entries, nodes2, entries2) ==
    /\ entries \in Seq(Nat) /\ entries2 \in Seq(Nat) /\ Len(entries) <= Len(entries2)
    /\ \A i \in 1 .. Len(entries) : /\ entries2[i] = entries[i] /\ entries[i] # None
                                    /\ nodes2[entries[i]].name = nodes[entries[i]].name

LEMMA NamedStays ==
    ASSUME NEW nodes, NEW entries, NEW nodes2, NEW entries2, More(nodes, entries, nodes2, entries2),
           NEW name, Named(nodes, entries, name) # None
    PROVE  Named(nodes2, entries2, name) = Named(nodes, entries, name)
<1>1. entries \in Seq(Nat) /\ entries2 \in Seq(Nat)
  BY DEF More
<1>2. PICK i : IsFirst(nodes, entries, name, i) /\ Named(nodes, entries, name) = entries[i]
  BY <1>1, NamedIs
<1>3. IsFirst(nodes2, entries2, name, i) /\ entries2[i] = entries[i]
  <2> DEFINE M == Len(entries)
             N == Len(entries2)
  <2>1. M \in Nat /\ N \in Nat /\ M <= N
    BY <1>1 DEF More
  <2>2. i \in 1 .. M /\ \A j \in 1 .. M : j < i => nodes[entries[j]].name # name
    BY <1>2 DEF IsFirst
  <2> HIDE DEF M, N
  <2>3. i \in 1 .. N /\ \A j \in 1 .. N : j < i => j \in 1 .. M /\ nodes[entries[j]].name # name
    BY <2>1, <2>2
  <2>4. \A j \in 1 .. M : entries2[j] = entries[j] /\ nodes2[entries[j]].name = nodes[entries[j]].name
    BY DEF More, M
  <2>5. nodes[entries[i]].name = name
    BY <1>2 DEF IsFirst
  <2> QED
    BY <2>2, <2>3, <2>4, <2>5, Zenon DEF IsFirst, N
<1> QED
  BY <1>1, <1>2, <1>3, FirstIs

\* Where a path may lead: nowhere, or to a directory that is no symbolic one.
Ends(t) == {None} \cup {d \in Nodes(t) : t.dir[d].link = None}

Child(t, d, name) ==
    LET e == Named(t.dir, t.dir[d].subs, name)
    IN  IF e # None /\ t.dir[e].link # None THEN t.dir[e].link ELSE e

LEMMA ValidIs ==
    ASSUME NEW t, Valid(t)
    PROVE  /\ t.dir \in Seq(Node) /\ t.file \in Seq(FileNode)
           /\ Len(t.dir) \in Nat /\ Len(t.file) \in Nat
           /\ DOMAIN t.dir = Nodes(t) /\ DOMAIN t.file = Files(t)
           /\ \A d \in Nodes(t) : t.dir[d] \in Node /\ d \in Nat \ {None} /\ Holds(t, d)
           /\ \A f \in Files(t) : t.file[f] \in FileNode /\ f \in Nat \ {None}
           /\ Root \in Nodes(t) /\ Root \in Ends(t) /\ Root \in Real(t)
           /\ Real(t) \subseteq Nodes(t)
<1>1. t.dir \in Seq(Node) /\ t.file \in Seq(FileNode)
  BY DEF Valid, Tree
<1>2. /\ Len(t.dir) \in Nat /\ Len(t.file) \in Nat
      /\ DOMAIN t.dir = Nodes(t) /\ DOMAIN t.file = Files(t)
      /\ \A d \in Nodes(t) : t.dir[d] \in Node /\ d \in Nat \ {None}
      /\ \A f \in Files(t) : t.file[f] \in FileNode /\ f \in Nat \ {None}
  BY <1>1 DEF Nodes, Files, None
<1>3. Root \in Nodes(t) /\ t.dir[Root].link = None /\ t.dir[Root].owner # None
  BY Zenon DEF Valid, RootIs
<1>4. \A d \in Nodes(t) : Holds(t, d)
  BY Zenon DEF Valid
<1> QED
  BY <1>1, <1>2, <1>3, <1>4, Zenon DEF Ends, Real

LEMMA NodeIs ==
    ASSUME NEW node \in Node
    PROVE  /\ node.name \in LastName /\ node.fullpath \in Seq(Name) /\ node.parent \in Nat
           /\ node.link \in Nat /\ node.mode \in Modes /\ node.owner \in Nat /\ node.group \in Nat
           /\ node.subs \in Seq(Nat) /\ node.files \in Seq(Nat)
BY DEF Node

LEMMA ChildIn ==
    ASSUME NEW t, Valid(t), NEW d \in Nodes(t), NEW name
    PROVE  Child(t, d, name) \in Ends(t)
<1>1. t.dir[d].subs \in Seq(Nat)
  BY ValidIs, NodeIs
<1>2. \A i \in 1 .. Len(t.dir[d].subs) : t.dir[d].subs[i] \in Nodes(t)
  BY Zenon DEF Valid, Holds
<1> DEFINE e == Named(t.dir, t.dir[d].subs, name)
<1>3. e \in Nodes(t) \cup {None}
  <2>1. CASE e = None
    BY <2>1
  <2>2. CASE e # None
    <3>1. PICK i : IsFirst(t.dir, t.dir[d].subs, name, i) /\ e = t.dir[d].subs[i]
      BY <1>1, <2>2, NamedIs, Zenon
    <3> QED
      BY <1>2, <3>1, Zenon DEF IsFirst
  <2> QED
    BY <2>1, <2>2
<1>4. e \in Nodes(t) /\ t.dir[e].link # None =>
          t.dir[e].link \in Nodes(t) /\ t.dir[t.dir[e].link].link = None
  BY Zenon DEF Valid
<1> QED
  BY <1>3, <1>4, Zenon DEF Child, Ends

LEMMA FoundIs ==
    /\ \A t, d : \A name \in LastName :
           GetDirectoryFromParent(t, d, name, TRUE) = Child(t, d, Stripped(name))
    /\ \A t, n : Down(t, None, n) = None
    /\ \A t, d : d # None => Down(t, d, Empty) = Root
    /\ \A t, d : \A n \in Name : d # None /\ n # Empty => Down(t, d, n) = Child(t, d, <<n>>)
<1>1. \A t, d, name : GetDirectoryFromParent(t, d, name, TRUE) = Child(t, d, Stripped(name))
  BY Zenon DEF GetDirectoryFromParent, Child
<1>2. \A n \in Name : Stripped(<<n>>) = <<n>>
  <2> TAKE n \in Name
  <2>1. ~ Len(<<n>>) > 1
    OBVIOUS
  <2> QED
    BY <2>1, Zenon DEF Stripped, EndsInSlash
<1>3. \A t, d, n : Down(t, d, n) = IF d = None THEN None
                                   ELSE IF n = Empty THEN Root ELSE Child(t, d, Stripped(<<n>>))
  BY <1>1, Zenon DEF Down, Empty
<1> QED
  BY <1>1, <1>2, <1>3, Zenon

LEMMA DownIn ==
    ASSUME NEW t, Valid(t), NEW d \in Ends(t), NEW n \in Name
    PROVE  Down(t, d, n) \in Ends(t)
<1>1. CASE d = None
  BY <1>1, FoundIs, Zenon
<1>2. CASE d # None
  <2>1. d \in Nodes(t)
    BY <1>2 DEF Ends
  <2>2. Root \in Ends(t) /\ Child(t, d, <<n>>) \in Ends(t)
    BY <2>1, ValidIs, ChildIn
  <2>3. CASE n = Empty
    BY <1>2, <2>2, <2>3, FoundIs, Zenon
  <2>4. CASE n # Empty
    BY <1>2, <2>2, <2>4, FoundIs, Zenon
  <2> QED
    BY <2>3, <2>4
<1> QED
  BY <1>1, <1>2

-----------------------------------------------------------------------------
(* The directory before the last name.                                     *)

From(from, path) == IF from = None /\ NamesBefore(path) > 0 THEN Root ELSE from
Before(path) == SubSeq(path, 1, NamesBefore(path))
After(path)  == SubSeq(path, NamesBefore(path) + 1, Len(path))
HasLong(path) == \E i \in DOMAIN path : Long(path[i])
SlashOnly == <<Empty, Empty>>

LEMMA FindParentOf ==
    \A t, from, path :
        FindParent(t, from, path) =
            IF path = SlashOnly THEN [dir |-> Root, name |-> path]
            ELSE IF HasLong(path) THEN [dir |-> None, name |-> path]
            ELSE [dir |-> Walk(t, From(from, path), Before(path)), name |-> After(path)]
BY Zenon DEF FindParent, SlashOnly, HasLong, Long, From, Before, After, Empty

LEMMA PathParts ==
    ASSUME NEW path \in SomePath
    PROVE  /\ NamesBefore(path) \in Nat /\ Before(path) \in Seq(Name)
           /\ Len(Before(path)) = NamesBefore(path)
           /\ After(path) \in LastName
           /\ ~ HasLong(path) => ~ Long(Head(Stripped(After(path))))
<1> DEFINE N == Len(path)
           B == NamesBefore(path)
<1>1. path \in Seq(Name) /\ N \in Nat \ {0} /\ \A i \in 1 .. N : path[i] \in Name
  BY DEF SomePath
<1>2. EndsInSlash(path) <=> N > 1 /\ path[N] = Empty
  BY Zenon DEF EndsInSlash, Last, Empty
<1>3. B = N - IF EndsInSlash(path) THEN 2 ELSE 1
  BY DEF NamesBefore
<1> HIDE DEF N, B
<1>4. B \in Nat /\ B <= N
  BY <1>1, <1>2, <1>3
<1>5. Before(path) \in Seq(Name) /\ Len(Before(path)) = B
  BY <1>1, <1>4 DEF Before, B, N
<1>6. After(path) \in LastName /\ (~ HasLong(path) => ~ Long(Head(Stripped(After(path)))))
  <2>0. \A i \in 1 .. N : ~ HasLong(path) => ~ Long(path[i])
    BY <1>1 DEF HasLong, N
  <2>1. CASE EndsInSlash(path)
    <3>1. B + 1 = N - 1 /\ N - 1 \in 1 .. N /\ path[N] = Empty
      BY <1>1, <1>2, <1>3, <2>1
    <3>2. After(path) = <<path[N - 1], Empty>>
      <4>1. After(path) = SubSeq(path, N - 1, N)
        BY <3>1 DEF After, B, N
      <4>2. Len(After(path)) = 2 /\ After(path)[1] = path[N - 1] /\ After(path)[2] = Empty
            /\ After(path) \in Seq(Name)
        BY <1>1, <3>1, <4>1
      <4> QED
        BY <4>2
    <3>3. Head(Stripped(After(path))) = path[N - 1]
      BY <3>2, StrippedOf, Zenon
    <3>4. N - 1 \in 1 .. N
      BY <3>1
    <3>5. After(path) \in LastName
      BY <1>1, <3>2, <3>4, NamesAre, Zenon
    <3> QED
      BY <2>0, <3>3, <3>4, <3>5, Zenon
  <2>2. CASE ~ EndsInSlash(path)
    <3>1. B + 1 = N /\ N \in 1 .. N
      BY <1>1, <1>3, <2>2
    <3>2. After(path) = <<path[N]>>
      <4>1. After(path) = SubSeq(path, N, N)
        BY <3>1 DEF After, B, N
      <4>2. Len(After(path)) = 1 /\ After(path)[1] = path[N] /\ After(path) \in Seq(Name)
        BY <1>1, <4>1 DEF N
      <4> QED
        BY <4>2
    <3>3. Head(Stripped(After(path))) = path[N]
      BY <3>2, StrippedOf, Zenon
    <3>5. After(path) \in LastName
      BY <1>1, <3>1, <3>2, NamesAre, Zenon
    <3> QED
      BY <2>0, <3>1, <3>3, <3>5, Zenon
  <2> QED
    BY <2>1, <2>2
<1> QED
  BY <1>4, <1>5, <1>6 DEF B

LEMMA FindParentIn ==
    ASSUME NEW t, Valid(t), NEW from \in Ends(t), NEW path \in SomePath
    PROVE  LET p == FindParent(t, from, path) IN
           /\ p.dir \in Ends(t)
           /\ p.dir # None => p.name \in LastName /\ ~ Long(Head(Stripped(p.name)))
<1> DEFINE p == FindParent(t, from, path)
<1> SUFFICES p.dir \in Ends(t)
             /\ (p.dir # None => p.name \in LastName /\ ~ Long(Head(Stripped(p.name))))
  OBVIOUS
<1>0. p = IF path = SlashOnly THEN [dir |-> Root, name |-> path]
          ELSE IF HasLong(path) THEN [dir |-> None, name |-> path]
          ELSE [dir |-> Walk(t, From(from, path), Before(path)), name |-> After(path)]
  BY FindParentOf, Zenon
<1> HIDE DEF p
<1>1. CASE path = SlashOnly
  <2>1. p.dir = Root /\ p.name = SlashOnly
    BY <1>0, <1>1
  <2>2. SlashOnly \in LastName /\ Head(Stripped(SlashOnly)) = Empty
    BY NamesAre, StrippedOf, Zenon DEF SlashOnly
  <2>3. ~ Long(Empty)
    BY NamesAre, MaximaAssumption DEF Long
  <2> QED
    BY <2>1, <2>2, <2>3, ValidIs, Zenon
<1>2. CASE path # SlashOnly /\ HasLong(path)
  <2>1. p.dir = None
    BY <1>0, <1>2
  <2> QED
    BY <2>1 DEF Ends
<1>3. CASE path # SlashOnly /\ ~ HasLong(path)
  <2>1. p.dir = Walk(t, From(from, path), Before(path)) /\ p.name = After(path)
    BY <1>0, <1>3
  <2>2. From(from, path) \in Ends(t)
    BY ValidIs, Zenon DEF From
  <2>3. Before(path) \in Seq(Name)
    BY PathParts
  <2>4. Walk(t, From(from, path), Before(path)) \in Ends(t)
    BY <2>2, <2>3, DownIn, WalkIn
  <2> QED
    BY <1>3, <2>1, <2>4, PathParts, Zenon
<1> QED
  BY <1>1, <1>2, <1>3

Leads(t, from, path) == GetDirectoryFrom(t, from, path, TRUE)

LEMMA ChildNone ==
    \A t, d, name : Child(t, d, name) = None => Named(t.dir, t.dir[d].subs, name) = None
BY Zenon DEF Child

LEMMA LeadsIn ==
    ASSUME NEW t, Valid(t), NEW from \in Ends(t), NEW path \in SomePath
    PROVE  LET p == FindParent(t, from, path) IN
           /\ Leads(t, from, path) \in Ends(t)
           /\ Leads(t, from, path) = None /\ p.dir # None =>
                  Named(t.dir, t.dir[p.dir].subs, Stripped(p.name)) = None
<1> DEFINE p == FindParent(t, from, path)
<1>1. p.dir \in Ends(t) /\ (p.dir # None => p.name \in LastName)
  BY FindParentIn, Zenon
<1>2. p.dir # None => p.dir \in Nodes(t)
  BY <1>1, Zenon DEF Ends
<1>3. Leads(t, from, path) =
          IF p.dir = None THEN None ELSE IF t.dir[p.dir].name = path THEN p.dir
          ELSE GetDirectoryFromParent(t, p.dir, p.name, TRUE)
  BY Zenon DEF Leads, GetDirectoryFrom, DirectoryAt
<1> HIDE DEF p
<1>4. p.dir # None => /\ GetDirectoryFromParent(t, p.dir, p.name, TRUE) = Child(t, p.dir, Stripped(p.name))
                      /\ Child(t, p.dir, Stripped(p.name)) \in Ends(t)
  BY <1>1, <1>2, FoundIs, ChildIn, Zenon
<1>5. None \in Ends(t)
  BY DEF Ends
<1>6. Leads(t, from, path) \in Ends(t)
  BY <1>1, <1>3, <1>4, <1>5, Zenon
<1>7. Leads(t, from, path) = None /\ p.dir # None =>
          Named(t.dir, t.dir[p.dir].subs, Stripped(p.name)) = None
  BY <1>3, <1>4, ChildNone, Zenon
<1> QED
  BY <1>6, <1>7 DEF p

LEMMA FileFromParentIn ==
    ASSUME NEW t, Valid(t), NEW d \in Nodes(t), NEW name
    PROVE  GetFileFromParent(t, d, name) \in Files(t) \cup {None}
<1>1. t.dir[d].files \in Seq(Nat)
  BY ValidIs, NodeIs
<1>2. \A i \in 1 .. Len(t.dir[d].files) : t.dir[d].files[i] \in Files(t)
  BY Zenon DEF Valid, Holds
<1> DEFINE e == Named(t.file, t.dir[d].files, name)
<1>3. CASE e = None
  BY <1>3, Zenon DEF GetFileFromParent
<1>4. CASE e # None
  <2>1. PICK i : IsFirst(t.file, t.dir[d].files, name, i) /\ e = t.dir[d].files[i]
    BY <1>1, <1>4, NamedIs, Zenon
  <2> QED
    BY <1>2, <2>1, Zenon DEF IsFirst, GetFileFromParent
<1> QED
  BY <1>3, <1>4

LEMMA FileFromIn ==
    ASSUME NEW t, Valid(t), NEW from \in Ends(t), NEW path \in SomePath
    PROVE  GetFileFrom(t, from, path) \in Files(t) \cup {None}
<1> DEFINE p == FindParent(t, from, path)
<1>1. p.dir \in Ends(t)
  BY FindParentIn, Zenon
<1>2. p.dir # None => p.dir \in Nodes(t)
  BY <1>1, Zenon DEF Ends
<1>3. GetFileFrom(t, from, path) =
          IF p.dir = None THEN None ELSE GetFileFromParent(t, p.dir, p.name)
  BY Zenon DEF GetFileFrom, FileAt
<1> HIDE DEF p
<1> QED
  BY <1>2, <1>3, FileFromParentIn, Zenon

LEMMA FileWEnvIn ==
    ASSUME NEW t, Valid(t), NEW list \in Seq(SomePath), NEW path \in SomePath
    PROVE  GetFileWEnv(t, list, path) \in Files(t) \cup {None}
<1> DEFINE X == Files(t) \cup {None}
<1>1. None \in X
  OBVIOUS
<1>2. ASSUME NEW dir \in SomePath
      PROVE  FileIn(t, GetDirectoryFrom(t, None, dir, TRUE), path) \in X
  <2>1. None \in Ends(t)
    BY DEF Ends
  <2>2. Leads(t, None, dir) \in Ends(t)
    BY <2>1, LeadsIn, Zenon
  <2>3. FileIn(t, Leads(t, None, dir), path) \in X
    BY <1>1, <2>2, FileFromIn, Zenon DEF FileIn
  <2> QED
    BY <2>3, Zenon DEF Leads
<1> HIDE DEF X
<1>3. GetFileWEnv(t, list, path) \in X
  BY <1>1, <1>2, SearchIn
<1> QED
  BY <1>3 DEF X

-----------------------------------------------------------------------------
(* A tree grows.                                                           *)

Grown(t, t2) ==
    /\ Nodes(t) \subseteq Nodes(t2) /\ Files(t) \subseteq Files(t2)
    /\ \A d \in Nodes(t) : LET n == t.dir[d]  m == t2.dir[d] IN
          /\ m.name = n.name /\ m.fullpath = n.fullpath /\ m.parent = n.parent /\ m.link = n.link
          /\ m.mode = n.mode /\ (m.owner = None <=> n.owner = None)
          /\ Len(n.subs) <= Len(m.subs) /\ \A i \in 1 .. Len(n.subs) : m.subs[i] = n.subs[i]
          /\ Len(n.files) <= Len(m.files) /\ \A i \in 1 .. Len(n.files) : m.files[i] = n.files[i]
    /\ \A f \in Files(t) : t2.file[f].name = t.file[f].name

LEMMA RealGrows ==
    ASSUME NEW t, NEW t2, Grown(t, t2)
    PROVE  Real(t) \subseteq Real(t2) /\ Ends(t) \subseteq Ends(t2)
BY Zenon DEF Grown, Real, Ends

LEMMA GrownOn ==
    ASSUME NEW t, NEW t2, NEW t3, Valid(t), Valid(t2), Valid(t3), Grown(t, t2), Grown(t2, t3)
    PROVE  Grown(t, t3)
<1>1. Nodes(t) \subseteq Nodes(t3) /\ Files(t) \subseteq Files(t3)
  BY Zenon DEF Grown
<1>2. ASSUME NEW d \in Nodes(t)
      PROVE  LET n == t.dir[d]  m == t3.dir[d] IN
             /\ m.name = n.name /\ m.fullpath = n.fullpath /\ m.parent = n.parent /\ m.link = n.link
             /\ m.mode = n.mode /\ (m.owner = None <=> n.owner = None)
             /\ Len(n.subs) <= Len(m.subs) /\ \A i \in 1 .. Len(n.subs) : m.subs[i] = n.subs[i]
             /\ Len(n.files) <= Len(m.files) /\ \A i \in 1 .. Len(n.files) : m.files[i] = n.files[i]
  <2> DEFINE n == t.dir[d]
             o == t2.dir[d]
             m == t3.dir[d]
  <2>0. d \in Nodes(t2) /\ d \in Nodes(t3)
    BY <1>1, Zenon DEF Grown
  <2>1. /\ o.name = n.name /\ o.fullpath = n.fullpath /\ o.parent = n.parent /\ o.link = n.link
        /\ o.mode = n.mode /\ (o.owner = None <=> n.owner = None)
        /\ Len(n.subs) <= Len(o.subs) /\ \A i \in 1 .. Len(n.subs) : o.subs[i] = n.subs[i]
        /\ Len(n.files) <= Len(o.files) /\ \A i \in 1 .. Len(n.files) : o.files[i] = n.files[i]
    BY Zenon DEF Grown
  <2>2. /\ m.name = o.name /\ m.fullpath = o.fullpath /\ m.parent = o.parent /\ m.link = o.link
        /\ m.mode = o.mode /\ (m.owner = None <=> o.owner = None)
        /\ Len(o.subs) <= Len(m.subs) /\ \A i \in 1 .. Len(o.subs) : m.subs[i] = o.subs[i]
        /\ Len(o.files) <= Len(m.files) /\ \A i \in 1 .. Len(o.files) : m.files[i] = o.files[i]
    BY <2>0, Zenon DEF Grown
  <2>3. /\ Len(n.subs) \in Nat /\ Len(o.subs) \in Nat /\ Len(m.subs) \in Nat
        /\ Len(n.files) \in Nat /\ Len(o.files) \in Nat /\ Len(m.files) \in Nat
    <3>1. n \in Node /\ o \in Node /\ m \in Node
      BY <2>0, ValidIs, Zenon
    <3> HIDE DEF n, o, m
    <3> QED
      BY <3>1, NodeIs, LenProperties
  <2> HIDE DEF n, o, m
  <2>4. Len(n.subs) <= Len(m.subs) /\ \A i \in 1 .. Len(n.subs) : m.subs[i] = n.subs[i]
    BY <2>1, <2>2, <2>3
  <2>5. Len(n.files) <= Len(m.files) /\ \A i \in 1 .. Len(n.files) : m.files[i] = n.files[i]
    BY <2>1, <2>2, <2>3
  <2>6. /\ m.name = n.name /\ m.fullpath = n.fullpath /\ m.parent = n.parent /\ m.link = n.link
        /\ m.mode = n.mode /\ (m.owner = None <=> n.owner = None)
    BY <2>1, <2>2, Zenon
  <2> QED
    BY <2>4, <2>5, <2>6 DEF n, m
<1>3. \A f \in Files(t) : t3.file[f].name = t.file[f].name
  BY Zenon DEF Grown
<1> QED
  BY <1>1, <1>2, <1>3, Zenon DEF Grown

LEMMA ChildGrows ==
    ASSUME NEW t, NEW t2, Valid(t), Valid(t2), Grown(t, t2), NEW d \in Nodes(t), NEW name,
           Child(t, d, name) # None
    PROVE  Child(t2, d, name) = Child(t, d, name)
<1> DEFINE n == t.dir[d]
           m == t2.dir[d]
           e == Named(t.dir, n.subs, name)
<1>0. n \in Node /\ m \in Node /\ d \in Nodes(t2)
  BY ValidIs, Zenon DEF Grown
<1>1. n.subs \in Seq(Nat) /\ m.subs \in Seq(Nat)
  <2> HIDE DEF n, m
  <2> QED
    BY <1>0, NodeIs
<1>2. \A i \in 1 .. Len(n.subs) : n.subs[i] \in Nodes(t)
  BY Zenon DEF Valid, Holds
<1>3. More(t.dir, n.subs, t2.dir, m.subs)
  <2>1. Len(n.subs) <= Len(m.subs) /\ \A i \in 1 .. Len(n.subs) : m.subs[i] = n.subs[i]
    BY Zenon DEF Grown
  <2>2. \A x \in Nodes(t) : x # None /\ t2.dir[x].name = t.dir[x].name
    BY ValidIs, Zenon DEF Grown
  <2> HIDE DEF n, m
  <2> QED
    BY <1>1, <1>2, <2>1, <2>2, Zenon DEF More
<1>4. e # None
  <2>1. None = 0 /\ Child(t, d, name) = IF e # None /\ t.dir[e].link # None THEN t.dir[e].link ELSE e
    BY Zenon DEF Child, None
  <2> HIDE DEF e
  <2> QED
    BY <2>1, Zenon
<1>5. Named(t2.dir, m.subs, name) = e
  <2> HIDE DEF n, m
  <2> QED
    <3>1. Named(t.dir, n.subs, name) # None
      BY <1>4 DEF e
    <3>2. Named(t2.dir, m.subs, name) = Named(t.dir, n.subs, name)
      BY <1>3, <3>1, NamedStays
    <3> QED
      BY <3>2 DEF e
<1>6. e \in Nodes(t)
  <2>1. PICK i : IsFirst(t.dir, n.subs, name, i) /\ e = n.subs[i]
    BY <1>1, <1>4, NamedIs, Zenon
  <2> HIDE DEF n, e
  <2> QED
    BY <1>2, <2>1, Zenon DEF IsFirst
<1>7. t2.dir[e].link = t.dir[e].link
  BY <1>6, Zenon DEF Grown
<1> QED
  BY <1>5, <1>7, Zenon DEF Child

LEMMA WalkGrows ==
    ASSUME NEW t, NEW t2, Valid(t), Valid(t2), Grown(t, t2), NEW from \in Ends(t),
           NEW names \in Seq(Name), Walk(t, from, names) # None
    PROVE  Walk(t2, from, names) = Walk(t, from, names)
<1>1. ASSUME NEW d \in Ends(t), NEW n \in Name
      PROVE  /\ Down(t, d, n) \in Ends(t)
             /\ Down(t, d, n) # None => Down(t2, d, n) = Down(t, d, n)
  <2>1. CASE d = None
    BY <2>1, FoundIs, DownIn, Zenon
  <2>2. CASE d # None /\ n = Empty
    BY <2>2, FoundIs, DownIn, Zenon
  <2>3. CASE d # None /\ n # Empty
    <3>1. d \in Nodes(t)
      BY <2>3 DEF Ends
    <3>2. Down(t, d, n) = Child(t, d, <<n>>) /\ Down(t2, d, n) = Child(t2, d, <<n>>)
      BY <2>3, FoundIs, Zenon
    <3>3. Child(t, d, <<n>>) # None => Child(t2, d, <<n>>) = Child(t, d, <<n>>)
      BY <3>1, ChildGrows
    <3>4. Down(t, d, n) # None => Down(t2, d, n) = Down(t, d, n)
      BY <3>2, <3>3, Zenon
    <3> QED
      BY <3>4, DownIn
  <2> QED
    BY <2>1, <2>2, <2>3
<1>2. \A n \in Name : Down(t, None, n) = None
  BY FoundIs, Zenon
<1> QED
  BY <1>1, <1>2, WalkStays

LEMMA FileGrows ==
    ASSUME NEW t, NEW t2, Valid(t), Valid(t2), Grown(t, t2), NEW from \in Ends(t),
           NEW path \in SomePath, GetFileFrom(t, from, path) # None
    PROVE  GetFileFrom(t2, from, path) = GetFileFrom(t, from, path)
<1> DEFINE p == FindParent(t, from, path)
           q == FindParent(t2, from, path)
<1>1. GetFileFrom(t, from, path) = IF p.dir = None THEN None ELSE GetFileFromParent(t, p.dir, p.name)
  BY Zenon DEF GetFileFrom, FileAt
<1>2. GetFileFrom(t2, from, path) = IF q.dir = None THEN None ELSE GetFileFromParent(t2, q.dir, q.name)
  BY Zenon DEF GetFileFrom, FileAt
<1>3. p.dir \in Ends(t)
  BY FindParentIn, Zenon
<1> HIDE DEF p, q
<1>4. p.dir # None /\ p.dir \in Nodes(t)
  BY <1>1, <1>3 DEF Ends
<1>5. q.dir = p.dir /\ q.name = p.name
  <2>1. p = IF path = SlashOnly THEN [dir |-> Root, name |-> path]
            ELSE IF HasLong(path) THEN [dir |-> None, name |-> path]
            ELSE [dir |-> Walk(t, From(from, path), Before(path)), name |-> After(path)]
    BY FindParentOf, Zenon DEF p
  <2>2. q = IF path = SlashOnly THEN [dir |-> Root, name |-> path]
            ELSE IF HasLong(path) THEN [dir |-> None, name |-> path]
            ELSE [dir |-> Walk(t2, From(from, path), Before(path)), name |-> After(path)]
    BY FindParentOf, Zenon DEF q
  <2>3. CASE path = SlashOnly \/ HasLong(path)
    BY <2>1, <2>2, <2>3
  <2>4. CASE path # SlashOnly /\ ~ HasLong(path)
    <3>1. p.dir = Walk(t, From(from, path), Before(path))
      BY <2>1, <2>4
    <3>2. From(from, path) \in Ends(t) /\ Before(path) \in Seq(Name)
      BY ValidIs, PathParts, Zenon DEF From
    <3>3. Walk(t2, From(from, path), Before(path)) = Walk(t, From(from, path), Before(path))
      BY <1>4, <3>1, <3>2, WalkGrows
    <3> QED
      BY <2>1, <2>2, <2>4, <3>3
  <2> QED
    BY <2>3, <2>4
<1> DEFINE d == p.dir
           n == t.dir[d]
           m == t2.dir[d]
           e == Named(t.file, n.files, p.name)
<1>6. d \in Nodes(t) /\ d \in Nodes(t2)
  BY <1>4, Zenon DEF Grown
<1>7. n.files \in Seq(Nat) /\ m.files \in Seq(Nat)
  BY <1>6, ValidIs, NodeIs
<1>8. \A i \in 1 .. Len(n.files) : n.files[i] \in Files(t)
  BY <1>6, Zenon DEF Valid, Holds
<1>9. Len(n.files) <= Len(m.files) /\ \A i \in 1 .. Len(n.files) : m.files[i] = n.files[i]
  BY <1>6, Zenon DEF Grown
<1>10. \A x \in Files(t) : x # None /\ t2.file[x].name = t.file[x].name
  BY ValidIs, Zenon DEF Grown
<1>11. GetFileFrom(t, from, path) = e
  BY <1>1, <1>4, Zenon DEF GetFileFromParent
<1>12. GetFileFrom(t2, from, path) = Named(t2.file, m.files, p.name)
  BY <1>2, <1>4, <1>5, Zenon DEF GetFileFromParent
<1> HIDE DEF n, m, d
<1>13. More(t.file, n.files, t2.file, m.files)
  BY <1>7, <1>8, <1>9, <1>10, Zenon DEF More
<1>14. Named(t.file, n.files, p.name) # None
  BY <1>11, Zenon
<1>15. Named(t2.file, m.files, p.name) = Named(t.file, n.files, p.name)
  BY <1>13, <1>14, NamedStays
<1> QED
  BY <1>11, <1>12, <1>15, Zenon

Absolute(fullpath) == <<Empty>> \o fullpath

LEMMA LeadsBackGrows ==
    ASSUME NEW t, NEW t2, Valid(t), Valid(t2), Grown(t, t2), NEW d \in Real(t), LeadsBack(t, d)
    PROVE  LeadsBack(t2, d)
<1>1. d \in Nodes(t) /\ d # None /\ t2.dir[d].fullpath = t.dir[d].fullpath
  BY ValidIs, Zenon DEF Grown, Real
<1>2. Real(t) \subseteq Real(t2) /\ \A p \in Real(t) : /\ t2.dir[p].name = t.dir[p].name
                                                       /\ t2.dir[p].fullpath = t.dir[p].fullpath
  BY RealGrows, Zenon DEF Grown, Real
<1>3. Plain(t2, d) => Plain(t, d)
  BY <1>1, <1>2, Zenon DEF Plain
<1> DEFINE full == t.dir[d].fullpath
<1>4. Absolute(full) \in Seq(Name)
  <2>1. full \in Seq(Name)
    BY <1>1, ValidIs, NodeIs
  <2>2. <<Empty>> \in Seq(Name)
    BY NamesAre
  <2> HIDE DEF full
  <2> QED
    BY <2>1, <2>2, ConcatProperties DEF Absolute
<1>5. LeadsBack(t, d) <=> (Plain(t, d) => Walk(t, Root, Absolute(full)) = d)
  BY Zenon DEF LeadsBack, Absolute, Empty
<1>6. LeadsBack(t2, d) <=> (Plain(t2, d) => Walk(t2, Root, Absolute(full)) = d)
  BY <1>1, Zenon DEF LeadsBack, Absolute, Empty
<1>7. Root \in Ends(t)
  BY ValidIs
<1> HIDE DEF full
<1>8. Walk(t, Root, Absolute(full)) = d => Walk(t2, Root, Absolute(full)) = d
  BY <1>1, <1>4, <1>7, WalkGrows
<1> QED
  BY <1>3, <1>5, <1>6, <1>8, Zenon

-----------------------------------------------------------------------------
(* A new directory.                                                        *)

\* t2 is t with the node as the last entry of p.
Same(n, m) ==
    /\ m.name = n.name /\ m.fullpath = n.fullpath /\ m.parent = n.parent /\ m.link = n.link
    /\ m.mode = n.mode /\ m.owner = n.owner /\ m.group = n.group
With(t, p, node, t2) ==
    /\ t2 \in Tree /\ t2.file = t.file
    /\ Len(t2.dir) = Len(t.dir) + 1 /\ t2.dir[Len(t.dir) + 1] = node
    /\ \A d \in Nodes(t) :
          /\ Same(t.dir[d], t2.dir[d]) /\ t2.dir[d].files = t.dir[d].files
          /\ t2.dir[d].subs = IF d = p THEN Append(t.dir[d].subs, Len(t.dir) + 1)
                              ELSE t.dir[d].subs

LEMMA EnteredIs ==
    ASSUME NEW t, Valid(t), NEW p \in Nodes(t), NEW node \in Node
    PROVE  With(t, p, node, Entered(t, p, node))
<1> DEFINE N == Len(t.dir)
           old == t.dir[p]
           new == [old EXCEPT !.subs = Append(old.subs, N + 1)]
           mid == [t.dir EXCEPT ![p] = new]
           t2 == Entered(t, p, node)
<1>1. t.dir \in Seq(Node) /\ N \in Nat /\ DOMAIN t.dir = 1 .. N /\ t.file \in Seq(FileNode)
      /\ p \in 1 .. N
  BY ValidIs DEF Nodes
<1>2. old \in Node
  BY ValidIs, Zenon
<1>3. t \in [dir : Seq(Node), file : Seq(FileNode)]
  BY Zenon DEF Valid, Tree
<1>4. t2 = [t EXCEPT !.dir = Append(mid, node)]
  <2> DEFINE inner == [t.dir EXCEPT ![p].subs = Append(@, N + 1)]
  <2>1. t2 = [t EXCEPT !.dir = Append(inner, node)]
    BY <1>3 DEF Entered
  <2>2. inner = mid
    BY <1>1
  <2> HIDE DEF inner, mid, t2
  <2> QED
    BY <2>1, <2>2
<1> HIDE DEF t2
<1>5. new \in Node /\ Same(old, new) /\ new.files = old.files /\ new.subs = Append(old.subs, N + 1)
  <2> DEFINE more == Append(old.subs, N + 1)
  <2>1. old.subs \in Seq(Nat) /\ N + 1 \in Nat
    BY <1>1, <1>2, NodeIs
  <2>2. more \in Seq(Nat)
    BY <2>1
  <2> HIDE DEF old, N, more
  <2>3. [old EXCEPT !.subs = more] \in Node
    BY <1>2, <2>2, Zenon DEF Node
  <2>4. Same(old, [old EXCEPT !.subs = more])
    BY <1>2, Zenon DEF Same, Node
  <2>5. [old EXCEPT !.subs = more].files = old.files /\ [old EXCEPT !.subs = more].subs = more
    BY <1>2, Zenon DEF Node
  <2> QED
    BY <2>3, <2>4, <2>5, Zenon DEF new, more
<1> HIDE DEF new
<1>6. mid \in Seq(Node) /\ Len(mid) = N /\ \A d \in 1 .. N : mid[d] = IF d = p THEN new ELSE t.dir[d]
  BY <1>1, <1>5, ExceptSeq
<1> HIDE DEF mid
<1>7. /\ Append(mid, node) \in Seq(Node) /\ Len(Append(mid, node)) = N + 1
      /\ Append(mid, node)[N + 1] = node
      /\ \A d \in 1 .. N : Append(mid, node)[d] = mid[d]
  BY <1>1, <1>6, AppendProperties
<1>8. t2.dir = Append(mid, node) /\ t2.file = t.file /\ t2 \in Tree
  <2> DEFINE s == Append(mid, node)
  <2>1. s \in Seq(Node)
    BY <1>7
  <2> HIDE DEF s
  <2>2. [t EXCEPT !.dir = s] \in Tree /\ [t EXCEPT !.dir = s].dir = s
        /\ [t EXCEPT !.dir = s].file = t.file
    BY <1>3, <2>1, Zenon DEF Tree
  <2> QED
    BY <1>4, <2>2, Zenon DEF s
<1>9. \A d \in Nodes(t) :
          /\ Same(t.dir[d], t2.dir[d]) /\ t2.dir[d].files = t.dir[d].files
          /\ t2.dir[d].subs = IF d = p THEN Append(t.dir[d].subs, N + 1) ELSE t.dir[d].subs
  <2> TAKE d \in Nodes(t)
  <2>1. t2.dir[d] = IF d = p THEN new ELSE t.dir[d]
    BY <1>6, <1>7, <1>8, Zenon DEF Nodes, N
  <2>2. Same(t.dir[d], t.dir[d])
    BY Zenon DEF Same
  <2> HIDE DEF N
  <2> QED
    BY <1>5, <2>1, <2>2, Zenon
<1>10. Len(t2.dir) = N + 1 /\ t2.dir[N + 1] = node
  BY <1>7, <1>8, Zenon
<1> QED
  BY <1>8, <1>9, <1>10, Zenon DEF With, t2

\* What may be entered.
Fresh(t, p, node) ==
    /\ node \in Node /\ node.parent = p /\ node.subs = <<>> /\ node.files = <<>>
    /\ node.link # None => node.link \in Nodes(t) /\ t.dir[node.link].link = None

LEMMA WithGrows ==
    ASSUME NEW t, Valid(t), NEW p \in Nodes(t), NEW node, Fresh(t, p, node), NEW t2,
           With(t, p, node, t2)
    PROVE  /\ Grown(t, t2)
           /\ Len(t.dir) + 1 \in Nat \ {None} /\ Len(t.dir) + 1 \notin Nodes(t)
           /\ Nodes(t2) = Nodes(t) \cup {Len(t.dir) + 1} /\ Files(t2) = Files(t)
<1> DEFINE N == Len(t.dir)
<1>1. N \in Nat /\ Len(t2.dir) = N + 1 /\ t2.file = t.file
  BY ValidIs DEF With
<1>2. Nodes(t2) = Nodes(t) \cup {N + 1} /\ Files(t2) = Files(t) /\ N + 1 \notin Nodes(t)
      /\ N + 1 \in Nat \ {None}
  <2> HIDE DEF N
  <2>1. Nodes(t) = 1 .. N /\ Nodes(t2) = 1 .. N + 1
    BY <1>1 DEF Nodes, N
  <2>2. Files(t2) = Files(t)
    BY <1>1 DEF Files
  <2> QED
    BY <1>1, <2>1, <2>2 DEF None
<1>3. ASSUME NEW d \in Nodes(t)
      PROVE  LET n == t.dir[d]  m == t2.dir[d] IN
             /\ m.name = n.name /\ m.fullpath = n.fullpath /\ m.parent = n.parent /\ m.link = n.link
             /\ m.mode = n.mode /\ (m.owner = None <=> n.owner = None)
             /\ Len(n.subs) <= Len(m.subs) /\ \A i \in 1 .. Len(n.subs) : m.subs[i] = n.subs[i]
             /\ Len(n.files) <= Len(m.files) /\ \A i \in 1 .. Len(n.files) : m.files[i] = n.files[i]
  <2> DEFINE n == t.dir[d]
             m == t2.dir[d]
  <2>1. Same(n, m) /\ m.files = n.files /\ m.subs = IF d = p THEN Append(n.subs, N + 1) ELSE n.subs
    BY Zenon DEF With
  <2>2. n.subs \in Seq(Nat) /\ n.files \in Seq(Nat)
    BY ValidIs, NodeIs
  <2> HIDE DEF n, m, N
  <2>3. Len(n.subs) <= Len(m.subs) /\ \A i \in 1 .. Len(n.subs) : m.subs[i] = n.subs[i]
    <3>1. CASE d = p
      BY <1>1, <2>1, <2>2, <3>1
    <3>2. CASE d # p
      BY <2>1, <2>2, <3>2
    <3> QED
      BY <3>1, <3>2
  <2>4. Len(n.files) <= Len(m.files) /\ \A i \in 1 .. Len(n.files) : m.files[i] = n.files[i]
    BY <2>1, <2>2
  <2>5. /\ m.name = n.name /\ m.fullpath = n.fullpath /\ m.parent = n.parent /\ m.link = n.link
        /\ m.mode = n.mode /\ (m.owner = None <=> n.owner = None)
    BY <2>1, Zenon DEF Same
  <2> QED
    BY <2>3, <2>4, <2>5 DEF n, m
<1>4. Grown(t, t2)
  BY <1>1, <1>2, <1>3, Zenon DEF Grown
<1> QED
  BY <1>2, <1>4 DEF N

LEMMA WithIsValid ==
    ASSUME NEW t, Valid(t), NEW p \in Nodes(t), NEW node, Fresh(t, p, node), NEW t2,
           With(t, p, node, t2), Len(t.dir[p].subs) < MAX_DIRECTORIES
    PROVE  Valid(t2)
<1> DEFINE N == Len(t.dir)
<1>1. /\ Nodes(t2) = Nodes(t) \cup {N + 1} /\ Files(t2) = Files(t)
      /\ N + 1 \notin Nodes(t) /\ N + 1 # None /\ Root \in Nodes(t)
  BY WithGrows, ValidIs
<1>2. t2 \in Tree /\ t2.file = t.file /\ t2.dir[N + 1] = node
  BY Zenon DEF With
<1>3. ASSUME NEW d \in Nodes(t)
      PROVE  /\ Same(t.dir[d], t2.dir[d]) /\ t2.dir[d].files = t.dir[d].files
             /\ t2.dir[d].subs = IF d = p THEN Append(t.dir[d].subs, N + 1) ELSE t.dir[d].subs
  BY Zenon DEF With
<1>4. RootIs(t2)
  <2>1. RootIs(t) /\ Same(t.dir[Root], t2.dir[Root])
    BY <1>1, <1>3, Zenon DEF Valid
  <2> QED
    BY <2>1, Zenon DEF RootIs, Same
<1>5. ASSUME NEW d \in Nodes(t) PROVE Holds(t2, d)
  <2> DEFINE n == t.dir[d]
             m == t2.dir[d]
  <2>0. n.subs \in Seq(Nat) /\ n.files \in Seq(Nat) /\ N + 1 \in Nat
    BY ValidIs, NodeIs
  <2>1. /\ Len(n.subs) <= MAX_DIRECTORIES /\ Len(n.files) <= MAX_FILES
        /\ \A i \in 1 .. Len(n.subs) : /\ n.subs[i] \in Nodes(t) /\ n.subs[i] # Root
                                       /\ t.dir[n.subs[i]].parent = d
        /\ \A i, j \in 1 .. Len(n.subs) : n.subs[i] = n.subs[j] => i = j
        /\ \A i \in 1 .. Len(n.files) : n.files[i] \in Files(t)
    BY Zenon DEF Valid, Holds
  <2>2. m.files = n.files
    BY <1>3
  <2>3. \A x \in Nodes(t) : t2.dir[x].parent = t.dir[x].parent
    BY <1>3, Zenon DEF Same
  <2>4. CASE d = p
    <3>1. m.subs = Append(n.subs, N + 1)
      BY <1>3, <2>4
    <3>2. node.parent = d /\ N + 1 # Root /\ Len(n.subs) < MAX_DIRECTORIES
      BY <1>1, <2>4 DEF Fresh
    <3> HIDE DEF m, n, N
    <3>3. Len(m.subs) = Len(n.subs) + 1 /\ m.subs[Len(n.subs) + 1] = N + 1
          /\ \A i \in 1 .. Len(n.subs) : m.subs[i] = n.subs[i]
      BY <2>0, <3>1
    <3> DEFINE k == Len(n.subs)
    <3>4. k \in Nat /\ k + 1 <= MAX_DIRECTORIES
      BY <2>0, <3>2, MaximaAssumption
    <3> HIDE DEF k
    <3>5. \A i \in 1 .. k + 1 : i \in 1 .. k \/ i = k + 1
      BY <3>4
    <3>6. ASSUME NEW i \in 1 .. k + 1
          PROVE  /\ m.subs[i] \in Nodes(t2) /\ m.subs[i] # Root
                 /\ t2.dir[m.subs[i]].parent = d
      <4>1. CASE i \in 1 .. k
        BY <1>1, <2>1, <2>3, <3>3, <4>1, Zenon DEF k
      <4>2. CASE i = k + 1
        <5>1. m.subs[i] = N + 1
          BY <3>3, <4>2 DEF k
        <5> QED
          BY <1>1, <1>2, <3>2, <5>1, Zenon
      <4> QED
        BY <3>5, <4>1, <4>2
    <3>7. ASSUME NEW i \in 1 .. k + 1, NEW j \in 1 .. k + 1, m.subs[i] = m.subs[j] PROVE i = j
      <4>1. \A x \in 1 .. k : m.subs[x] = n.subs[x] /\ m.subs[x] \in Nodes(t)
        BY <2>1, <3>3, Zenon DEF k
      <4>2. m.subs[k + 1] \notin Nodes(t)
        BY <1>1, <3>3, Zenon DEF k
      <4>3. CASE i \in 1 .. k /\ j \in 1 .. k
        BY <2>1, <3>7, <4>1, <4>3, Zenon DEF k
      <4> QED
        BY <3>5, <3>7, <4>1, <4>2, <4>3, Zenon
    <3>8. \A i \in 1 .. Len(m.files) : m.files[i] \in Files(t2)
      BY <1>1, <2>1, <2>2, Zenon
    <3>9. Len(m.subs) = k + 1 /\ Len(m.files) <= MAX_FILES
      BY <2>1, <2>2, <3>3 DEF k
    <3> QED
      BY <3>4, <3>6, <3>7, <3>8, <3>9, Zenon DEF Holds, m
  <2>5. CASE d # p
    <3>1. m.subs = n.subs
      BY <1>3, <2>5
    <3>2. \A i \in 1 .. Len(m.subs) : /\ m.subs[i] \in Nodes(t2) /\ m.subs[i] # Root
                                      /\ t2.dir[m.subs[i]].parent = d
      BY <1>1, <2>1, <2>3, <3>1, Zenon
    <3>3. /\ \A i, j \in 1 .. Len(m.subs) : m.subs[i] = m.subs[j] => i = j
          /\ \A i \in 1 .. Len(m.files) : m.files[i] \in Files(t2)
          /\ Len(m.subs) <= MAX_DIRECTORIES /\ Len(m.files) <= MAX_FILES
      BY <1>1, <2>1, <2>2, <3>1, Zenon
    <3> QED
      BY <3>2, <3>3, Zenon DEF Holds
  <2> QED
    BY <2>4, <2>5
<1>6. Holds(t2, N + 1)
  <2>1. node.subs = <<>> /\ node.files = <<>>
    BY DEF Fresh
  <2>2. Len(<<>>) = 0 /\ 1 .. 0 = {} /\ 0 <= MAX_DIRECTORIES /\ 0 <= MAX_FILES
    BY MaximaAssumption
  <2> HIDE DEF N
  <2> QED
    BY <1>2, <2>1, <2>2, Zenon DEF Holds
<1>7. ASSUME NEW d \in Nodes(t), d # Root PROVE IsEntered(t2, d)
  <2> DEFINE q == t.dir[d].parent
  <2>1. q \in Nodes(t) /\ \E i \in 1 .. Len(t.dir[q].subs) : t.dir[q].subs[i] = d
    BY <1>7, Zenon DEF Valid, IsEntered
  <2>2. t2.dir[d].parent = q /\ q \in Nodes(t2)
    BY <1>1, <1>3, <2>1, Zenon DEF Same
  <2>3. Len(t.dir[q].subs) <= Len(t2.dir[q].subs)
        /\ \A i \in 1 .. Len(t.dir[q].subs) : t2.dir[q].subs[i] = t.dir[q].subs[i]
    <3>1. Grown(t, t2)
      BY WithGrows
    <3> HIDE DEF q
    <3> QED
      BY <2>1, <3>1, Zenon DEF Grown
  <2>4. Len(t.dir[q].subs) \in Nat /\ Len(t2.dir[q].subs) \in Nat
    <3>1. t.dir[q].subs \in Seq(Nat)
      BY <2>1, ValidIs, NodeIs
    <3>2. t2.dir[q].subs \in Seq(Nat)
      <4>1. t2.dir \in Seq(Node)
        BY <1>2 DEF Tree
      <4>2. t2.dir[q] \in Node
        BY <4>1, <2>2 DEF Nodes
      <4> QED
        BY <4>2, NodeIs
    <3> HIDE DEF q
    <3> QED
      BY <3>1, <3>2, LenProperties
  <2> HIDE DEF q
  <2>5. \E i \in 1 .. Len(t2.dir[q].subs) : t2.dir[q].subs[i] = d
    <3> DEFINE u == t.dir[q].subs
               v == t2.dir[q].subs
    <3>1. PICK i \in 1 .. Len(u) : u[i] = d
      BY <2>1
    <3>2. Len(u) \in Nat /\ Len(v) \in Nat /\ Len(u) <= Len(v) /\ v[i] = u[i]
      BY <2>3, <2>4
    <3> HIDE DEF u, v
    <3>3. i \in 1 .. Len(v) /\ v[i] = d
      BY <3>1, <3>2
    <3> QED
      BY <3>3 DEF v
  <2> QED
    BY <2>2, <2>5, Zenon DEF IsEntered
<1>8. IsEntered(t2, N + 1)
  <2>1. t2.dir[N + 1].parent = p /\ p \in Nodes(t2)
    BY <1>1, <1>2, Zenon DEF Fresh
  <2>2. t2.dir[p].subs = Append(t.dir[p].subs, N + 1)
    BY <1>3, Zenon
  <2>3. t.dir[p].subs \in Seq(Nat) /\ N + 1 \in Nat
    BY ValidIs, NodeIs
  <2> HIDE DEF N
  <2>4. \E i \in 1 .. Len(t2.dir[p].subs) : t2.dir[p].subs[i] = N + 1
    <3>1. Len(t2.dir[p].subs) \in 1 .. Len(t2.dir[p].subs)
          /\ t2.dir[p].subs[Len(t2.dir[p].subs)] = N + 1
      BY <2>2, <2>3
    <3> QED
      BY <3>1, Zenon
  <2> QED
    BY <2>1, <2>4, Zenon DEF IsEntered
<1>9. ASSUME NEW d \in Nodes(t2), t2.dir[d].link # None
      PROVE  t2.dir[d].link \in Nodes(t2) /\ t2.dir[t2.dir[d].link].link = None
  <2>1. CASE d \in Nodes(t)
    <3>1. t2.dir[d].link = t.dir[d].link
      BY <1>3, <2>1, Zenon DEF Same
    <3>2. t.dir[d].link \in Nodes(t) /\ t.dir[t.dir[d].link].link = None
      BY <1>9, <2>1, <3>1, Zenon DEF Valid
    <3> QED
      BY <1>1, <1>3, <3>1, <3>2, Zenon DEF Same
  <2>2. CASE d = N + 1
    <3>1. node.link \in Nodes(t) /\ t.dir[node.link].link = None /\ t2.dir[d].link = node.link
      BY <1>2, <1>9, <2>2, Zenon DEF Fresh
    <3> QED
      BY <1>1, <1>3, <3>1, Zenon DEF Same
  <2> QED
    BY <1>1, <2>1, <2>2, Zenon
<1>10. \A f \in Files(t2) : t2.file[f].parent \in Nodes(t2)
  BY <1>1, <1>2, Zenon DEF Valid
<1> HIDE DEF N
<1> QED
  BY <1>1, <1>2, <1>4, <1>5, <1>6, <1>7, <1>8, <1>9, <1>10, Zenon DEF Valid

DotName == <<".">>
UpName  == <<"..">>

LEMMA DotsAre ==
    /\ DotName \in OneName /\ UpName \in OneName /\ DotName # UpName /\ <<Empty>> # UpName
    /\ NameLen(Head(Stripped(DotName))) = 1 /\ NameLen(Head(Stripped(UpName))) = 2
    /\ 1 <= MAX_NAME_LENGTH /\ 2 <= MAX_NAME_LENGTH /\ MAX_NAME_LENGTH \in Nat
<1>1. DotName \in OneName /\ UpName \in OneName
  <2>1. "." \in Name /\ ".." \in Name
    BY NameAssumption, Zenon
  <2> QED
    BY <2>1, Zenon DEF DotName, UpName, OneName
<1>2. DotName # UpName /\ <<Empty>> # UpName
  <2>1. "." # ".." /\ "" # ".."
    OBVIOUS
  <2> QED
    BY <2>1 DEF DotName, UpName, Empty
<1>3. Head(Stripped(DotName)) = "." /\ Head(Stripped(UpName)) = ".."
  BY StrippedOf, Zenon DEF DotName, UpName
<1>4. NameLen(Head(Stripped(DotName))) = 1 /\ NameLen(Head(Stripped(UpName))) = 2
  BY <1>3, NameAssumption, Zenon
<1>5. 1 <= MAX_NAME_LENGTH /\ 2 <= MAX_NAME_LENGTH /\ MAX_NAME_LENGTH \in Nat
  BY MaximaAssumption
<1> QED
  BY <1>1, <1>2, <1>4, <1>5, Zenon

LEMMA FitsIs ==
    ASSUME NEW t, Valid(t), NEW d \in Nodes(t)
    PROVE  /\ \A name \in LastName : PathFits(t, d, name) <=> Fits(t, d, NameLen(Head(Stripped(name))))
           /\ PathLen(t.dir[d].fullpath) \in Nat
           /\ \A m, n \in Nat : m <= n /\ ~ Fits(t, d, m) => ~ Fits(t, d, n)
<1>1. PathLen(t.dir[d].fullpath) \in Nat
  BY ValidIs, NodeIs, PathLenIsNat
<1>2. \A name \in LastName : PathFits(t, d, name) <=> Fits(t, d, NameLen(Head(Stripped(name))))
  BY Zenon DEF PathFits, Fits
<1>3. \A m, n \in Nat : m <= n /\ ~ Fits(t, d, m) => ~ Fits(t, d, n)
  <2> DEFINE k == PathLen(t.dir[d].fullpath)
  <2>1. k \in Nat /\ \A m : Fits(t, d, m) <=> k + m + 1 <= MAX_FULL_PATH_LENGTH
    BY <1>1 DEF Fits
  <2> HIDE DEF k
  <2> QED
    BY <2>1, MaximaAssumption
<1> QED
  BY <1>1, <1>2, <1>3

\* What a directory is that is given up when it is entered.
IsNameless(node) ==
    node.name = <<Empty>> /\ node.link = None /\ node.owner = None /\ node.mode = {}

LEMMA NamelessNode ==
    ASSUME NEW p \in Nat
    PROVE  /\ Nameless(p) \in Node /\ IsNameless(Nameless(p)) /\ Nameless(p).parent = p
           /\ Nameless(p).subs = <<>> /\ Nameless(p).files = <<>> /\ Nameless(p).fullpath = <<>>
<1>1. <<Empty>> \in LastName /\ None \in Nat
  <2>1. <<Empty>> \in LastName
    BY NamesAre, Zenon
  <2> QED
    BY <2>1 DEF None
<1>2. <<>> \in Seq(Name) /\ <<>> \in Seq(Nat) /\ {} \in Modes
  BY DEF Modes
<1>3. Nameless(p) = [name |-> <<Empty>>, fullpath |-> <<>>, parent |-> p, link |-> None, mode |-> {},
                     owner |-> None, group |-> None, subs |-> <<>>, files |-> <<>>]
  BY Zenon DEF Nameless, Empty
<1> DEFINE e == <<Empty>>
<1> HIDE DEF e
<1>4. Nameless(p) = [name |-> e, fullpath |-> <<>>, parent |-> p, link |-> None, mode |-> {},
                     owner |-> None, group |-> None, subs |-> <<>>, files |-> <<>>]
      /\ e \in LastName
  BY <1>1, <1>3 DEF e
<1>5. Nameless(p) \in Node
  BY <1>1, <1>2, <1>4 DEF Node
<1>6. /\ Nameless(p).name = e /\ Nameless(p).link = None /\ Nameless(p).owner = None
      /\ Nameless(p).mode = {} /\ Nameless(p).parent = p
      /\ Nameless(p).subs = <<>> /\ Nameless(p).files = <<>> /\ Nameless(p).fullpath = <<>>
  BY <1>4
<1> QED
  BY <1>5, <1>6, Zenon DEF IsNameless, e

LEMMA NamelessIs ==
    ASSUME NEW t, Valid(t), NEW p \in Nodes(t)
    PROVE  Fresh(t, p, Nameless(p)) /\ IsNameless(Nameless(p))
<1>1. p \in Nat
  BY ValidIs
<1> QED
  BY <1>1, NamelessNode, Zenon DEF Fresh, IsNameless

\* And one that is not.
IsNamed(t, p, name, link, mode, owner, group, node) ==
    /\ node.name = name /\ node.link = link /\ node.mode = mode
    /\ node.owner = owner /\ node.group = group
    /\ node.fullpath = t.dir[p].fullpath \o Stripped(name)

LEMMA DirectoryIs ==
    ASSUME NEW t, Valid(t), NEW p \in Nodes(t), NEW name \in LastName, NEW link \in Nat,
           NEW mode \in Modes, NEW owner \in Nat, NEW group \in Nat,
           link # None => link \in Nodes(t) /\ t.dir[link].link = None
    PROVE  LET node == Directory(t, p, name, link, mode, owner, group) IN
           Fresh(t, p, node) /\ IsNamed(t, p, name, link, mode, owner, group, node)
<1> DEFINE node == Directory(t, p, name, link, mode, owner, group)
           full == t.dir[p].fullpath \o Stripped(name)
<1>1. full \in Seq(Name)
  <2>1. t.dir[p].fullpath \in Seq(Name) /\ Stripped(name) \in Seq(Name)
    BY ValidIs, NodeIs, StrippedIs
  <2> QED
    BY <2>1, ConcatProperties
<1>2. Nameless(p) \in Node /\ Nameless(p).parent = p /\ Nameless(p).subs = <<>>
      /\ Nameless(p).files = <<>>
  BY NamelessIs, Zenon DEF Fresh
<1>3. node = [Nameless(p) EXCEPT !.name = name, !.link = link, !.mode = mode,
                                 !.owner = owner, !.group = group, !.fullpath = full]
  BY DEF Directory
<1> DEFINE base == Nameless(p)
<1> HIDE DEF full, node, base
<1>4. base \in Node /\ base.parent = p /\ base.subs = <<>> /\ base.files = <<>>
      /\ node = [base EXCEPT !.name = name, !.link = link, !.mode = mode,
                             !.owner = owner, !.group = group, !.fullpath = full]
  BY <1>2, <1>3 DEF base
<1>5. node \in Node /\ node.parent = p /\ node.subs = <<>> /\ node.files = <<>>
  BY <1>1, <1>4 DEF Node
<1>6. /\ node.name = name /\ node.link = link /\ node.mode = mode
      /\ node.owner = owner /\ node.group = group /\ node.fullpath = full
  BY <1>4 DEF Node
<1>7. Fresh(t, p, node)
  BY <1>5, <1>6, Zenon DEF Fresh
<1>8. IsNamed(t, p, name, link, mode, owner, group, node)
  BY <1>6, Zenon DEF IsNamed, full
<1> QED
  BY <1>7, <1>8 DEF node

\* A symbolic directory as the last entry of d.
LEMMA SymbolicIs ==
    ASSUME NEW t, Valid(t), NEW d \in Nodes(t), Len(t.dir[d].subs) < MAX_DIRECTORIES,
           NEW link \in Nodes(t), t.dir[link].link = None, NEW name \in LastName,
           NEW mode \in Modes, NEW owner \in Nat, NEW group \in Nat
    PROVE  \E node : /\ Fresh(t, d, node)
                     /\ With(t, d, node, CreateSymbolicDirectory(t, d, link, name, mode, owner, group))
                     /\ PathFits(t, d, name) => IsNamed(t, d, name, link, mode, owner, group, node)
                     /\ ~ PathFits(t, d, name) => IsNameless(node)
<1>1. ~ DirectoryFull(t, d)
  <2>1. t.dir[d].subs \in Seq(Nat)
    BY ValidIs, NodeIs
  <2> DEFINE k == Len(t.dir[d].subs)
  <2>2. k \in Nat /\ k < MAX_DIRECTORIES
    BY <2>1
  <2> HIDE DEF k
  <2>3. ~ k >= MAX_DIRECTORIES
    BY <2>2, MaximaAssumption
  <2> QED
    BY <2>3 DEF DirectoryFull, k
<1>2. CASE PathFits(t, d, name)
  <2> DEFINE node == Directory(t, d, name, link, mode, owner, group)
  <2>1. CreateSymbolicDirectory(t, d, link, name, mode, owner, group) = Entered(t, d, node)
    BY <1>1, <1>2, Zenon DEF CreateSymbolicDirectory
  <2>2. Fresh(t, d, node) /\ IsNamed(t, d, name, link, mode, owner, group, node)
    BY ValidIs, DirectoryIs
  <2>3. With(t, d, node, Entered(t, d, node))
    BY <2>2, EnteredIs DEF Fresh
  <2> QED
    BY <1>2, <2>1, <2>2, <2>3, Zenon
<1>3. CASE ~ PathFits(t, d, name)
  <2> DEFINE node == Nameless(d)
  <2>1. CreateSymbolicDirectory(t, d, link, name, mode, owner, group) = Entered(t, d, node)
    BY <1>1, <1>3, Zenon DEF CreateSymbolicDirectory
  <2>2. Fresh(t, d, node) /\ IsNameless(node)
    BY NamelessIs
  <2>3. With(t, d, node, Entered(t, d, node))
    BY <2>2, EnteredIs DEF Fresh
  <2> QED
    BY <1>3, <2>1, <2>2, <2>3, Zenon
<1> QED
  BY <1>2, <1>3

\* "." and "..": t2 is t with the two in d, or what is left of them.
IsDot(t, d, name, link, owner, group, node) ==
    /\ PathFits(t, d, name) => /\ node.name = name /\ node.link = link
                               /\ node.owner = owner /\ node.group = group
    /\ ~ PathFits(t, d, name) => IsNameless(node)
    /\ node.parent = d
DotsIn(t, d, parent, up, t2) ==
    LET N == Len(t.dir) IN
    /\ Valid(t2) /\ Grown(t, t2) /\ t2.file = t.file
    /\ Len(t2.dir) = N + 2 /\ Nodes(t2) = Nodes(t) \cup {N + 1, N + 2}
    /\ N + 1 \notin Nodes(t) /\ N + 2 \notin Nodes(t)
    /\ \A x \in Nodes(t) : Same(t.dir[x], t2.dir[x]) /\ (x # d => t2.dir[x].subs = t.dir[x].subs)
    /\ t2.dir[d].subs = <<N + 1, N + 2>>
    /\ IsDot(t, d, DotName, d, t.dir[d].owner, t.dir[d].group, t2.dir[N + 1])
    /\ IsDot(t, d, UpName, parent, up.owner, up.group, t2.dir[N + 2])

LEMMA AppendTo == \A x, y : Append(<<x>>, y) = <<x, y>>
<1> TAKE x, y
<1> DEFINE S == {x, y}
<1>1. <<x>> \in Seq(S) /\ y \in S /\ <<x, y>> \in Seq(S) /\ Len(<<x>>) = 1 /\ Len(<<x, y>>) = 2
  OBVIOUS
<1>2. Append(<<x>>, y) \in Seq(S) /\ Len(Append(<<x>>, y)) = 2
      /\ Append(<<x>>, y)[1] = x /\ Append(<<x>>, y)[2] = y
  OBVIOUS
<1>3. \A i \in 1 .. 2 : Append(<<x>>, y)[i] = <<x, y>>[i]
  <2>1. \A i \in 1 .. 2 : i = 1 \/ i = 2
    OBVIOUS
  <2>2. <<x, y>>[1] = x /\ <<x, y>>[2] = y
    OBVIOUS
  <2> QED
    BY <1>2, <2>1, <2>2, Zenon
<1> HIDE DEF S
<1> QED
  BY <1>1, <1>2, <1>3, SeqEqual

LEMMA DotsMade ==
    ASSUME NEW t, Valid(t), NEW d \in Nodes(t), t.dir[d].subs = <<>>, t.dir[d].link = None,
           NEW parent \in Nodes(t), t.dir[parent].link = None,
           NEW up, up.mode \in Modes, up.owner \in Nat, up.group \in Nat
    PROVE  DotsIn(t, d, parent, up, WithDots(t, d, parent, up))
<1> DEFINE N == Len(t.dir)
           own == t.dir[d].owner
           t1 == CreateSymbolicDirectory(t, d, d, DotName, t.dir[d].mode, own, t.dir[d].group)
           t2 == CreateSymbolicDirectory(t1, d, parent, UpName, up.mode, up.owner, up.group)
<1>0. WithDots(t, d, parent, up) = t2
  BY Zenon DEF WithDots, DotName, UpName
<1>1. DotName \in LastName /\ UpName \in LastName
  BY DotsAre, NamesAre
<1>2. N \in Nat /\ N + 1 # N + 2 /\ N + 1 \in Nat /\ N + 2 \in Nat /\ (N + 1) + 1 = N + 2
  BY ValidIs
<1>3. t.dir[d].mode \in Modes /\ own \in Nat /\ t.dir[d].group \in Nat
  BY ValidIs, NodeIs
<1>4. Len(t.dir[d].subs) = 0 /\ 0 < MAX_DIRECTORIES /\ 1 < MAX_DIRECTORIES
  BY MaximaAssumption
<1>5. PICK dot : /\ Fresh(t, d, dot) /\ With(t, d, dot, t1)
                 /\ PathFits(t, d, DotName) => IsNamed(t, d, DotName, d, t.dir[d].mode, own,
                                                       t.dir[d].group, dot)
                 /\ ~ PathFits(t, d, DotName) => IsNameless(dot)
  <2> HIDE DEF N
  <2>1. Len(t.dir[d].subs) < MAX_DIRECTORIES
    BY <1>4
  <2> QED
    BY <1>1, <1>3, <2>1, SymbolicIs
<1> HIDE DEF t1
<1>6. Valid(t1) /\ Grown(t, t1)
  <2>1. Len(t.dir[d].subs) < MAX_DIRECTORIES
    BY <1>4
  <2> HIDE DEF N, own
  <2> QED
    BY <1>5, <2>1, WithGrows, WithIsValid
<1>7. Len(t1.dir) = N + 1 /\ t1.dir[N + 1] = dot /\ t1.file = t.file
      /\ Nodes(t1) = Nodes(t) \cup {N + 1} /\ N + 1 \notin Nodes(t)
  <2> HIDE DEF own
  <2> QED
    BY <1>5, WithGrows DEF With
<1>8. \A x \in Nodes(t) : /\ Same(t.dir[x], t1.dir[x]) /\ x \in Nodes(t1)
                          /\ x # d => t1.dir[x].subs = t.dir[x].subs
  BY <1>5, <1>7, Zenon DEF With
<1>9. t1.dir[d].subs = <<N + 1>>
  <2>1. t1.dir[d].subs = Append(t.dir[d].subs, N + 1)
    BY <1>5, Zenon DEF With
  <2>2. Append(<<>>, N + 1) = <<N + 1>>
    OBVIOUS
  <2> QED
    BY <2>1, <2>2, Zenon
<1>10. \A x \in Nodes(t) : t1.dir[x].link = t.dir[x].link
  BY <1>8, Zenon DEF Same
<1>11. PICK dots : /\ Fresh(t1, d, dots) /\ With(t1, d, dots, t2)
                   /\ PathFits(t1, d, UpName) => IsNamed(t1, d, UpName, parent, up.mode, up.owner,
                                                         up.group, dots)
                   /\ ~ PathFits(t1, d, UpName) => IsNameless(dots)
  <2>1. Len(t1.dir[d].subs) < MAX_DIRECTORIES
    BY <1>4, <1>9
  <2>2. d \in Nodes(t1) /\ parent \in Nodes(t1) /\ t1.dir[parent].link = None
    BY <1>8, <1>10
  <2> HIDE DEF N, own
  <2> QED
    BY <1>1, <1>6, <2>1, <2>2, SymbolicIs
<1> HIDE DEF t2
<1>12. d \in Nodes(t1) /\ Len(t1.dir[d].subs) < MAX_DIRECTORIES
  BY <1>4, <1>8, <1>9
<1>13. Valid(t2) /\ Grown(t1, t2)
  <2> HIDE DEF N, own
  <2> QED
    BY <1>6, <1>11, <1>12, WithGrows, WithIsValid
<1>14. Grown(t, t2)
  <2> HIDE DEF N, own
  <2> QED
    BY <1>6, <1>13, GrownOn
<1>15. Len(t2.dir) = N + 2 /\ t2.dir[N + 2] = dots /\ t2.file = t.file
      /\ Nodes(t2) = Nodes(t) \cup {N + 1, N + 2} /\ N + 2 \notin Nodes(t)
  <2>1. With(t1, d, dots, t2) /\ Nodes(t2) = Nodes(t1) \cup {Len(t1.dir) + 1}
        /\ Len(t1.dir) + 1 \notin Nodes(t1)
    <3> HIDE DEF N, own
    <3> QED
      BY <1>6, <1>11, <1>12, WithGrows
  <2>2. Len(t1.dir) + 1 = N + 2
    BY <1>2, <1>7
  <2> HIDE DEF N, own
  <2> QED
    BY <1>7, <2>1, <2>2 DEF With
<1>16. \A x \in Nodes(t1) : /\ Same(t1.dir[x], t2.dir[x])
                            /\ x # d => t2.dir[x].subs = t1.dir[x].subs
  BY <1>11, Zenon DEF With
<1>17. \A x \in Nodes(t) : /\ Same(t.dir[x], t2.dir[x])
                           /\ x # d => t2.dir[x].subs = t.dir[x].subs
  <2> TAKE x \in Nodes(t)
  <2>1. Same(t.dir[x], t1.dir[x]) /\ Same(t1.dir[x], t2.dir[x])
        /\ (x # d => t1.dir[x].subs = t.dir[x].subs /\ t2.dir[x].subs = t1.dir[x].subs)
    BY <1>8, <1>16, Zenon
  <2>2. Same(t.dir[x], t2.dir[x])
    BY <2>1, Zenon DEF Same
  <2> QED
    BY <2>1, <2>2, Zenon
<1>18. t2.dir[d].subs = <<N + 1, N + 2>>
  <2>1. t2.dir[d].subs = Append(t1.dir[d].subs, Len(t1.dir) + 1)
    BY <1>11, <1>12, Zenon DEF With
  <2>2. Len(t1.dir) + 1 = N + 2
    BY <1>2, <1>7
  <2>3. Append(<<N + 1>>, N + 2) = <<N + 1, N + 2>>
    BY AppendTo, Zenon
  <2> QED
    BY <1>9, <2>1, <2>2, <2>3, Zenon
<1>19. Same(dot, t2.dir[N + 1])
  BY <1>7, <1>16, Zenon
<1>20. IsDot(t, d, DotName, d, own, t.dir[d].group, t2.dir[N + 1])
  <2>1. dot.parent = d
    BY <1>5 DEF Fresh
  <2>2. PathFits(t, d, DotName) => /\ dot.name = DotName /\ dot.link = d /\ dot.owner = own
                                   /\ dot.group = t.dir[d].group
    BY <1>5, Zenon DEF IsNamed
  <2>3. ~ PathFits(t, d, DotName) => IsNameless(dot)
    BY <1>5, Zenon
  <2> QED
    BY <1>19, <2>1, <2>2, <2>3, Zenon DEF IsDot, Same, IsNameless
<1>21. IsDot(t, d, UpName, parent, up.owner, up.group, t2.dir[N + 2])
  <2>1. dots.parent = d
    BY <1>11 DEF Fresh
  <2>2. PathFits(t1, d, UpName) => /\ dots.name = UpName /\ dots.link = parent /\ dots.owner = up.owner
                                   /\ dots.group = up.group
    BY <1>11, Zenon DEF IsNamed
  <2>3. ~ PathFits(t1, d, UpName) => IsNameless(dots)
    BY <1>11, Zenon
  <2>4. PathFits(t1, d, UpName) <=> PathFits(t, d, UpName)
    <3>1. t1.dir[d].fullpath = t.dir[d].fullpath
      BY <1>8, Zenon DEF Same
    <3> QED
      BY <3>1, Zenon DEF PathFits
  <2> QED
    BY <1>15, <2>1, <2>2, <2>3, <2>4, Zenon DEF IsDot
<1> QED
  BY <1>0, <1>2, <1>7, <1>13, <1>14, <1>15, <1>17, <1>18, <1>20, <1>21, Zenon DEF DotsIn

-----------------------------------------------------------------------------
(* What is in order stays so when the tree grows.                          *)

\* Ordered, but for directories that have no "." and ".." yet.
Undotted(t, X) ==
    /\ Valid(t)
    /\ \A d \in Real(t) : Short(t, d) /\ LeadsBack(t, d) /\ (d \notin X => Dotted(t, d))
    /\ \A d \in Real(t) \ {Root} : PathIs(t, d)
    /\ \A d \in Nodes(t) : t.dir[d].owner = None => GivenUp(t, d)

LEMMA UndottedIs ==
    \A t : Ordered(t) <=> Undotted(t, {})
BY Zenon DEF Ordered, Undotted

LEMMA DottedIs ==
    \A t, d : Dotted(t, d) <=>
        LET subs == t.dir[d].subs IN
        /\ Len(subs) >= 2
        /\ Fits(t, d, 1) => /\ t.dir[subs[1]].name = DotName
                            /\ t.dir[subs[1]].link = d
        /\ t.dir[subs[1]].name # UpName
        /\ Fits(t, d, 2) => /\ t.dir[subs[2]].name = UpName
                            /\ t.dir[subs[2]].link = Up(t, d)
BY Zenon DEF Dotted, DotName, UpName

LEMMA SoundGrows ==
    ASSUME NEW t, NEW t2, NEW X, Undotted(t, X), Valid(t2), Grown(t, t2)
    PROVE  /\ \A x \in Real(t) : /\ Short(t2, x) /\ LeadsBack(t2, x)
                                 /\ x \notin X => Dotted(t2, x)
                                 /\ x # Root => PathIs(t2, x)
           /\ \A x \in Nodes(t) : t2.dir[x].owner = None => GivenUp(t2, x)
<1>0. Valid(t)
  BY Zenon DEF Undotted
<1>1. \A x \in Nodes(t) :
          /\ x \in Nodes(t2) /\ t2.dir[x].name = t.dir[x].name /\ t2.dir[x].fullpath = t.dir[x].fullpath
          /\ t2.dir[x].parent = t.dir[x].parent /\ t2.dir[x].link = t.dir[x].link
          /\ t2.dir[x].mode = t.dir[x].mode /\ (t2.dir[x].owner = None <=> t.dir[x].owner = None)
          /\ Len(t.dir[x].subs) <= Len(t2.dir[x].subs)
          /\ \A i \in 1 .. Len(t.dir[x].subs) : t2.dir[x].subs[i] = t.dir[x].subs[i]
  BY Zenon DEF Grown
<1>2. \A x \in Nodes(t) : \A n : Fits(t2, x, n) <=> Fits(t, x, n)
  BY <1>1, Zenon DEF Fits
<1>3. Real(t) \subseteq Nodes(t) /\ Real(t) \subseteq Real(t2)
  BY <1>0, ValidIs, RealGrows
<1>4. \A x \in Nodes(t) \ {Root} : t.dir[x].parent \in Nodes(t)
  BY <1>0, Zenon DEF Valid, IsEntered
<1>5. ASSUME NEW x \in Real(t) PROVE Short(t2, x) /\ LeadsBack(t2, x)
  <2>1. Short(t, x) /\ LeadsBack(t, x)
    BY Zenon DEF Undotted
  <2>2. Short(t2, x)
    BY <1>1, <1>3, <2>1, Zenon DEF Short
  <2>3. LeadsBack(t2, x)
    BY <1>0, <2>1, LeadsBackGrows
  <2> QED
    BY <2>2, <2>3
<1>6. ASSUME NEW x \in Real(t), x \notin X PROVE Dotted(t2, x)
  <2> DEFINE s == t.dir[x].subs
             s2 == t2.dir[x].subs
             u == t.dir[x].parent
  <2>1. x \in Nodes(t) /\ Dotted(t, x)
    BY <1>3, <1>6, Zenon DEF Undotted
  <2>2. s \in Seq(Nat) /\ s2 \in Seq(Nat)
    BY <1>0, <1>1, <2>1, ValidIs, NodeIs
  <2>3. Len(s) >= 2 /\ Len(s) <= Len(s2) /\ \A i \in 1 .. Len(s) : s2[i] = s[i] /\ s[i] \in Nodes(t)
    <3>1. Len(s) >= 2
      BY <2>1, DottedIs, Zenon
    <3>2. \A i \in 1 .. Len(s) : s[i] \in Nodes(t)
      BY <1>0, <2>1, Zenon DEF Valid, Holds
    <3> QED
      BY <1>1, <2>1, <3>1, <3>2, Zenon
  <2>4. Len(s2) >= 2 /\ 1 \in 1 .. Len(s) /\ 2 \in 1 .. Len(s)
    <3> HIDE DEF s, s2
    <3> QED
      BY <2>2, <2>3
  <2>5. s2[1] = s[1] /\ s2[2] = s[2] /\ s[1] \in Nodes(t) /\ s[2] \in Nodes(t)
    BY <2>3, <2>4, Zenon
  <2>6. Up(t2, x) = Up(t, x)
    BY <1>1, <2>1, Zenon DEF Up
  <2>7. /\ t2.dir[s2[1]].name = t.dir[s[1]].name /\ t2.dir[s2[1]].link = t.dir[s[1]].link
        /\ t2.dir[s2[2]].name = t.dir[s[2]].name /\ t2.dir[s2[2]].link = t.dir[s[2]].link
    BY <1>1, <2>5, Zenon
  <2>8. /\ Fits(t, x, 1) => t.dir[s[1]].name = DotName /\ t.dir[s[1]].link = x
        /\ t.dir[s[1]].name # UpName
        /\ Fits(t, x, 2) => t.dir[s[2]].name = UpName /\ t.dir[s[2]].link = Up(t, x)
    BY <2>1, DottedIs, Zenon
  <2>9. /\ Fits(t2, x, 1) => t2.dir[s2[1]].name = DotName /\ t2.dir[s2[1]].link = x
        /\ t2.dir[s2[1]].name # UpName
        /\ Fits(t2, x, 2) => t2.dir[s2[2]].name = UpName /\ t2.dir[s2[2]].link = Up(t2, x)
    BY <1>2, <2>1, <2>6, <2>7, <2>8, Zenon
  <2> QED
    BY <2>4, <2>9, DottedIs, Zenon
<1>7. ASSUME NEW x \in Real(t), x # Root PROVE PathIs(t2, x)
  <2>1. PathIs(t, x) /\ x \in Nodes(t)
    BY <1>3, <1>7, Zenon DEF Undotted
  <2>2. t.dir[x].parent \in Real(t)
        /\ t.dir[x].fullpath = t.dir[t.dir[x].parent].fullpath \o Stripped(t.dir[x].name)
    BY <2>1, Zenon DEF PathIs
  <2>3. t2.dir[x].parent = t.dir[x].parent /\ t2.dir[x].fullpath = t.dir[x].fullpath
        /\ t2.dir[x].name = t.dir[x].name
        /\ t2.dir[t.dir[x].parent].fullpath = t.dir[t.dir[x].parent].fullpath
    BY <1>1, <1>3, <2>1, <2>2, Zenon
  <2> QED
    BY <1>3, <2>2, <2>3, Zenon DEF PathIs
<1>8. ASSUME NEW x \in Nodes(t), t2.dir[x].owner = None PROVE GivenUp(t2, x)
  <2>1. GivenUp(t, x)
    BY <1>1, <1>8, Zenon DEF Undotted
  <2>2. t.dir[x].parent \in Nodes(t)
    BY <1>4, <2>1, Zenon DEF GivenUp
  <2> QED
    BY <1>1, <1>2, <2>1, <2>2, Zenon DEF GivenUp
<1> QED
  BY <1>5, <1>6, <1>7, <1>8, Zenon

LEMMA DotsOrdered ==
    ASSUME NEW t, NEW d \in Real(t), Undotted(t, {d}), t.dir[d].subs = <<>>,
           NEW parent \in Real(t), parent = Up(t, d),
           NEW up, up.mode \in Modes, up.owner \in Nat \ {None}, up.group \in Nat
    PROVE  LET t2 == WithDots(t, d, parent, up) IN
           /\ Ordered(t2) /\ DotsIn(t, d, parent, up, t2) /\ Real(t2) = Real(t)
<1> DEFINE t2 == WithDots(t, d, parent, up)
           N == Len(t.dir)
<1>0. Valid(t) /\ d \in Nodes(t) /\ parent \in Nodes(t) /\ d # None /\ parent # None
      /\ t.dir[d].link = None /\ t.dir[parent].link = None /\ t.dir[d].owner # None
  <2>1. Valid(t) /\ d \in Nodes(t) /\ parent \in Nodes(t)
        /\ t.dir[d].link = None /\ t.dir[parent].link = None /\ t.dir[d].owner # None
    BY Zenon DEF Undotted, Real
  <2> QED
    BY <2>1, ValidIs, Zenon
<1>1. DotsIn(t, d, parent, up, t2)
  <2> HIDE DEF t2
  <2>1. up.owner \in Nat
    OBVIOUS
  <2> QED
    BY <1>0, <2>1, DotsMade DEF t2
<1> HIDE DEF t2
<1>2. /\ Valid(t2) /\ Grown(t, t2)
      /\ Nodes(t2) = Nodes(t) \cup {N + 1, N + 2} /\ N + 1 \notin Nodes(t) /\ N + 2 \notin Nodes(t)
      /\ \A x \in Nodes(t) : Same(t.dir[x], t2.dir[x])
      /\ t2.dir[d].subs = <<N + 1, N + 2>>
      /\ IsDot(t, d, DotName, d, t.dir[d].owner, t.dir[d].group, t2.dir[N + 1])
      /\ IsDot(t, d, UpName, parent, up.owner, up.group, t2.dir[N + 2])
  BY <1>1, Zenon DEF DotsIn
<1> DEFINE dot == t2.dir[N + 1]
           dots == t2.dir[N + 2]
<1>3. /\ PathFits(t, d, DotName) <=> Fits(t, d, 1)
      /\ PathFits(t, d, UpName) <=> Fits(t, d, 2)
      /\ ~ Fits(t, d, 1) => ~ Fits(t, d, MAX_NAME_LENGTH)
      /\ ~ Fits(t, d, 2) => ~ Fits(t, d, MAX_NAME_LENGTH)
  <2>1. DotName \in LastName /\ UpName \in LastName
    BY DotsAre, NamesAre
  <2>2. 1 \in Nat /\ 2 \in Nat
    OBVIOUS
  <2> QED
    BY <1>0, <2>1, <2>2, DotsAre, FitsIs, Zenon
<1>4. /\ dot.parent = d /\ dots.parent = d
      /\ Fits(t, d, 1) => dot.name = DotName /\ dot.link = d
      /\ ~ Fits(t, d, 1) => IsNameless(dot)
      /\ Fits(t, d, 2) => dots.name = UpName /\ dots.link = parent /\ dots.owner = up.owner
      /\ ~ Fits(t, d, 2) => IsNameless(dots)
      /\ Fits(t, d, 1) => dot.owner = t.dir[d].owner
  BY <1>2, <1>3, Zenon DEF IsDot
<1>5. Real(t2) = Real(t)
  <2>1. \A x \in Nodes(t) : x \in Real(t2) <=> x \in Real(t)
    BY <1>2, Zenon DEF Real, Same
  <2>2. N + 1 \notin Real(t2) /\ N + 2 \notin Real(t2)
    BY <1>0, <1>4, Zenon DEF Real, IsNameless
  <2>3. Real(t2) \subseteq Nodes(t) \cup {N + 1, N + 2} /\ Real(t) \subseteq Nodes(t)
    BY <1>2, Zenon DEF Real
  <2> HIDE DEF N
  <2> QED
    BY <2>1, <2>2, <2>3, Zenon
<1>6. /\ \A x \in Real(t) : /\ Short(t2, x) /\ LeadsBack(t2, x)
                            /\ x \notin {d} => Dotted(t2, x)
                            /\ x # Root => PathIs(t2, x)
      /\ \A x \in Nodes(t) : t2.dir[x].owner = None => GivenUp(t2, x)
  BY <1>2, SoundGrows
<1>7. t2.dir[d].fullpath = t.dir[d].fullpath /\ t2.dir[d].parent = t.dir[d].parent
  BY <1>0, <1>2, Zenon DEF Same
<1>8. \A n : Fits(t2, d, n) <=> Fits(t, d, n)
  BY <1>7, Zenon DEF Fits
<1>9. Dotted(t2, d)
  <2> DEFINE s == <<N + 1, N + 2>>
  <2>1. Len(s) >= 2 /\ s[1] = N + 1 /\ s[2] = N + 2
    OBVIOUS
  <2>2. Up(t2, d) = parent
    BY <1>7, Zenon DEF Up
  <2> HIDE DEF s, N
  <2>3. t2.dir[d].subs = s
    BY <1>2 DEF s
  <2>4. t2.dir[s[1]].name # UpName
    BY <1>4, <2>1, DotsAre, Zenon DEF IsNameless
  <2>5. Fits(t2, d, 1) => t2.dir[s[1]].name = DotName /\ t2.dir[s[1]].link = d
    BY <1>4, <1>8, <2>1, Zenon
  <2>6. Fits(t2, d, 2) => t2.dir[s[2]].name = UpName /\ t2.dir[s[2]].link = Up(t2, d)
    BY <1>4, <1>8, <2>1, <2>2, Zenon
  <2> QED
    BY <2>1, <2>3, <2>4, <2>5, <2>6, DottedIs, Zenon
<1>10. ASSUME NEW x \in {N + 1, N + 2}, t2.dir[x].owner = None PROVE GivenUp(t2, x)
  <2>1. x # Root
    BY <1>0, <1>2, ValidIs, Zenon
  <2>2. t2.dir[x].parent = d
    BY <1>4, Zenon
  <2>3. IsNameless(t2.dir[x]) /\ ~ Fits(t, d, MAX_NAME_LENGTH)
    <3>1. CASE x = N + 1
      BY <1>0, <1>3, <1>4, <1>10, <3>1, Zenon
    <3>2. CASE x = N + 2
      <4>1. up.owner # None
        OBVIOUS
      <4> QED
        BY <1>3, <1>4, <1>10, <3>2, <4>1, Zenon
    <3> QED
      BY <3>1, <3>2, Zenon
  <2> QED
    BY <1>8, <2>1, <2>2, <2>3, Zenon DEF GivenUp, IsNameless, Empty
<1>11. Ordered(t2)
  <2>1. \A x \in Real(t2) : Dotted(t2, x) /\ Short(t2, x) /\ LeadsBack(t2, x)
    <3> TAKE x \in Real(t2)
    <3>1. x \in Real(t)
      BY <1>5, Zenon
    <3>2. CASE x = d
      BY <1>6, <1>9, <3>1, <3>2, Zenon
    <3>3. CASE x # d
      BY <1>6, <3>1, <3>3, Zenon
    <3> QED
      BY <3>2, <3>3
  <2>2. \A x \in Real(t2) \ {Root} : PathIs(t2, x)
    BY <1>5, <1>6, Zenon
  <2>3. \A x \in Nodes(t2) : t2.dir[x].owner = None => GivenUp(t2, x)
    BY <1>2, <1>6, <1>10, Zenon
  <2> QED
    BY <1>2, <2>1, <2>2, <2>3, Zenon DEF Ordered
<1> QED
  BY <1>1, <1>5, <1>11, Zenon DEF t2

-----------------------------------------------------------------------------
(* A directory is made.                                                    *)

LEMMA PrefixOn ==
    ASSUME NEW s \in Seq(Name), NEW u \in Seq(Name), NEW v \in Seq(Name), IsPrefix(s, u)
    PROVE  IsPrefix(s, u \o v)
<1> DEFINE k == Len(s)
           m == Len(u)
           w == u \o v
<1>1. k \in Nat /\ m \in Nat /\ k <= m /\ SubSeq(s, 1, k) = SubSeq(u, 1, k)
  BY DEF IsPrefix
<1>2. Len(w) = m + Len(v) /\ Len(v) \in Nat
  BY ConcatProperties
<1>3. SubSeq(w, 1, k) = SubSeq(u, 1, k)
  <2>1. CASE k = 0
    BY <2>1
  <2>2. CASE k # 0
    <3>1. 1 \in 1 .. Len(u) /\ k \in 1 .. Len(u)
      BY <1>1, <2>2
    <3> QED
      BY <3>1, SubSeqOfConcat1
  <2> QED
    BY <2>1, <2>2
<1>4. k <= Len(w)
  <2> HIDE DEF k, m, w
  <2> QED
    BY <1>1, <1>2
<1> QED
  BY <1>1, <1>3, <1>4, Zenon DEF IsPrefix

LEMMA PrefixOfSelf ==
    ASSUME NEW s \in Seq(Name)
    PROVE  IsPrefix(s, s)
<1>1. Len(s) \in Nat
  BY LenProperties
<1>2. Len(s) <= Len(s)
  BY <1>1
<1> QED
  BY <1>2 DEF IsPrefix

\* The full path with one more name.
LEMMA FullIs ==
    ASSUME NEW full \in Seq(Name), NEW h \in Name
    PROVE  /\ full \o <<h>> \in Seq(Name) /\ Len(full) \in Nat
           /\ Len(full \o <<h>>) = Len(full) + 1 /\ (full \o <<h>>)[Len(full) + 1] = h
           /\ \A i \in 1 .. Len(full) : (full \o <<h>>)[i] = full[i]
           /\ Absolute(full) \in Seq(Name)
           /\ Absolute(full \o <<h>>) = Append(Absolute(full), h)
<1> DEFINE e == <<Empty>>
           u == <<h>>
<1>1. e \in Seq(Name) /\ u \in Seq(Name) /\ Len(u) = 1 /\ u[1] = h
  BY NamesAre
<1>2. full \o u = Append(full, h)
  BY AppendIsConcat
<1>3. Append(full, h) \in Seq(Name) /\ Len(full) \in Nat /\ Len(Append(full, h)) = Len(full) + 1
      /\ Append(full, h)[Len(full) + 1] = h /\ \A i \in 1 .. Len(full) : Append(full, h)[i] = full[i]
  OBVIOUS
<1> HIDE DEF e
<1>4. e \o full \in Seq(Name)
  BY <1>1, ConcatProperties
<1>5. e \o (full \o u) = (e \o full) \o u
  <2>1. \A a, b, c \in Seq(Name) : (a \o b) \o c = a \o (b \o c)
    <3> TAKE a, b, c \in Seq(Name)
    <3>1. /\ (a \o b) \o c \in Seq(Name) /\ a \o (b \o c) \in Seq(Name)
          /\ Len((a \o b) \o c) = Len(a \o (b \o c))
      OBVIOUS
    <3>2. \A i \in 1 .. Len((a \o b) \o c) : ((a \o b) \o c)[i] = (a \o (b \o c))[i]
      OBVIOUS
    <3> QED
      BY <3>1, <3>2, SeqEqual
  <2> HIDE DEF u
  <2> QED
    BY <1>1, <2>1, Zenon
<1>6. (e \o full) \o u = Append(e \o full, h)
  BY <1>4, AppendIsConcat
<1>7. Absolute(full) \in Seq(Name) /\ Absolute(full \o u) = Append(Absolute(full), h)
  BY <1>4, <1>5, <1>6, Zenon DEF Absolute, e
<1> QED
  BY <1>2, <1>3, <1>7, Zenon

LEMMA LeadsBackIs ==
    \A t, d : LeadsBack(t, d) <=> (Plain(t, d) => Walk(t, Root, Absolute(t.dir[d].fullpath)) = d)
BY Zenon DEF LeadsBack, Absolute, Empty

\* What is entered under a name that was not there is found.
LEMMA EnteredIsFound ==
    ASSUME NEW t, Valid(t), NEW p \in Nodes(t), NEW node, Fresh(t, p, node), NEW t2,
           With(t, p, node, t2), Named(t.dir, t.dir[p].subs, node.name) = None
    PROVE  Named(t2.dir, t2.dir[p].subs, node.name) = Len(t.dir) + 1
<1> DEFINE N == Len(t.dir)
           s == t.dir[p].subs
           k == Len(s)
<1>1. s \in Seq(Nat) /\ N + 1 \in Nat /\ k \in Nat
  BY ValidIs, NodeIs, LenProperties
<1>2. \A i \in 1 .. k : s[i] \in Nodes(t) /\ s[i] # None
  <2>1. \A i \in 1 .. k : s[i] \in Nodes(t)
    BY Zenon DEF Valid, Holds
  <2> QED
    BY <2>1, ValidIs, Zenon
<1>3. \A i \in 1 .. k : t.dir[s[i]].name # node.name
  <2>1. CASE \E i : IsFirst(t.dir, s, node.name, i) /\ Named(t.dir, s, node.name) = s[i]
    BY <1>2, <2>1, Zenon DEF IsFirst
  <2>2. CASE ~ \E i : IsFirst(t.dir, s, node.name, i) /\ Named(t.dir, s, node.name) = s[i]
    <3> HIDE DEF s
    <3> QED
      BY <1>1, <2>2, NamedIs, Zenon
  <2> QED
    BY <2>1, <2>2
<1>4. t2.dir[p].subs = Append(s, N + 1) /\ t2.dir[N + 1].name = node.name
  BY Zenon DEF With
<1>5. \A x \in Nodes(t) : t2.dir[x].name = t.dir[x].name
  BY Zenon DEF With, Same
<1> DEFINE s2 == Append(s, N + 1)
<1>6. s2 \in Seq(Nat) /\ Len(s2) = k + 1 /\ s2[k + 1] = N + 1 /\ \A i \in 1 .. k : s2[i] = s[i]
  <2> HIDE DEF s, N
  <2> QED
    BY <1>1
<1> HIDE DEF s, N, s2
<1>7. IsFirst(t2.dir, s2, node.name, k + 1)
  <2>1. k + 1 \in 1 .. k + 1 /\ \A j \in 1 .. k + 1 : j < k + 1 => j \in 1 .. k
    BY <1>1 DEF k
  <2>2. \A j \in 1 .. k : t2.dir[s2[j]].name # node.name
    BY <1>2, <1>3, <1>5, <1>6, Zenon
  <2> QED
    BY <1>4, <1>6, <2>1, <2>2, Zenon DEF IsFirst
<1>8. Named(t2.dir, s2, node.name) = s2[k + 1]
  BY <1>6, <1>7, FirstIs
<1> QED
  BY <1>4, <1>6, <1>8 DEF s2, N

LEMMA DirectoryEntered ==
    ASSUME NEW t, Ordered(t), NEW p \in Real(t), Len(t.dir[p].subs) < MAX_DIRECTORIES,
           NEW name \in LastName, ~ Long(Head(Stripped(name))),
           Named(t.dir, t.dir[p].subs, Stripped(name)) = None,
           NEW mode \in Modes, NEW owner \in Nat \ {None}, NEW group \in Nat
    PROVE  LET n == Len(t.dir) + 1
               node == Directory(t, p, name, None, mode, owner, group)
               t2 == Entered(t, p, node)
           IN  /\ Undotted(t2, {n}) /\ Real(t2) = Real(t) \cup {n} /\ t2.dir[n].subs = <<>>
               /\ With(t, p, node, t2) /\ Fresh(t, p, node)
               /\ IsNamed(t, p, name, None, mode, owner, group, node)
               /\ Grown(t, t2) /\ Nodes(t2) = Nodes(t) \cup {n} /\ n \notin Nodes(t)
<1> DEFINE n == Len(t.dir) + 1
           node == Directory(t, p, name, None, mode, owner, group)
           t2 == Entered(t, p, node)
<1>0. Undotted(t, {}) /\ Valid(t) /\ p \in Nodes(t) /\ p # None
  <2>1. Undotted(t, {}) /\ Valid(t) /\ p \in Nodes(t)
    BY UndottedIs, Zenon DEF Ordered, Real
  <2> QED
    BY <2>1, ValidIs, Zenon
<1>1. Fresh(t, p, node) /\ IsNamed(t, p, name, None, mode, owner, group, node)
  <2>1. None \in Nat /\ owner \in Nat
    BY DEF None
  <2> QED
    BY <1>0, <2>1, DirectoryIs
<1> HIDE DEF node
<1>2. With(t, p, node, t2)
  BY <1>0, <1>1, EnteredIs DEF Fresh
<1> HIDE DEF t2
<1>3. Grown(t, t2) /\ Valid(t2) /\ Nodes(t2) = Nodes(t) \cup {n} /\ n \notin Nodes(t) /\ n # None
  BY <1>0, <1>1, <1>2, WithGrows, WithIsValid
<1>4. /\ \A x \in Real(t) : /\ Short(t2, x) /\ LeadsBack(t2, x)
                            /\ x \notin {} => Dotted(t2, x)
                            /\ x # Root => PathIs(t2, x)
      /\ \A x \in Nodes(t) : t2.dir[x].owner = None => GivenUp(t2, x)
  BY <1>0, <1>3, SoundGrows
<1>5. /\ t2.dir[n].name = name /\ t2.dir[n].link = None /\ t2.dir[n].owner = owner
      /\ t2.dir[n].fullpath = t.dir[p].fullpath \o Stripped(name)
      /\ t2.dir[n].parent = p /\ t2.dir[n].subs = <<>>
  BY <1>1, <1>2, Zenon DEF With, Fresh, IsNamed
<1>6. Real(t2) = Real(t) \cup {n}
  <2>1. \A x \in Nodes(t) : x \in Real(t2) <=> x \in Real(t)
    BY <1>2, <1>3, Zenon DEF Real, With, Same
  <2>2. n \in Real(t2)
    <3>1. owner # None
      OBVIOUS
    <3> QED
      BY <1>3, <1>5, <3>1, Zenon DEF Real
  <2>3. Real(t2) \subseteq Nodes(t) \cup {n} /\ Real(t) \subseteq Nodes(t)
    BY <1>3, Zenon DEF Real
  <2> HIDE DEF n
  <2> QED
    BY <2>1, <2>2, <2>3, Zenon
<1> DEFINE full == t.dir[p].fullpath
<1>7. full \in Seq(Name) /\ t2.dir[p].fullpath = full
  BY <1>0, <1>2, ValidIs, NodeIs DEF With, Same
<1>8. PICK h \in Name : /\ Stripped(name) = <<h>> /\ Head(Stripped(name)) = h
                        /\ \/ name = <<h>> /\ (Slashed(name) <=> h = Empty)
                           \/ name = <<h, Empty>> /\ Slashed(name)
  BY LastNameIs, Zenon
<1>9. t2.dir[n].fullpath = full \o <<h>>
  BY <1>5, <1>8, Zenon
<1> HIDE DEF full, n
<1>10. Short(t2, n)
  <2>1. \A i \in 1 .. Len(full) : NameLen(full[i]) <= MAX_NAME_LENGTH
    <3>1. Short(t2, p)
      BY <1>4, Zenon
    <3> QED
      BY <1>7, <3>1, Zenon DEF Short
  <2>2. NameLen(h) <= MAX_NAME_LENGTH
    <3>1. ~ NameLen(h) > MAX_NAME_LENGTH
      BY <1>8, Zenon DEF Long
    <3>2. NameLen(h) \in Nat /\ MAX_NAME_LENGTH \in Nat
      BY NameAssumption, DotsAre, Zenon
    <3> QED
      BY <3>1, <3>2
  <2>3. \A i \in 1 .. Len(full) + 1 : i \in 1 .. Len(full) \/ i = Len(full) + 1
    BY <1>7, FullIs
  <2>4. Len(full \o <<h>>) = Len(full) + 1 /\ (full \o <<h>>)[Len(full) + 1] = h
        /\ \A i \in 1 .. Len(full) : (full \o <<h>>)[i] = full[i]
    BY <1>7, FullIs
  <2>5. \A i \in 1 .. Len(full) + 1 : NameLen((full \o <<h>>)[i]) <= MAX_NAME_LENGTH
    BY <2>1, <2>2, <2>3, <2>4, Zenon
  <2> QED
    BY <1>9, <2>4, <2>5, Zenon DEF Short
<1>11. LeadsBack(t2, n)
  <2> SUFFICES ASSUME Plain(t2, n) PROVE Walk(t2, Root, Absolute(t2.dir[n].fullpath)) = n
    BY LeadsBackIs, Zenon
  <2>1. Plain(t2, p)
    <3> SUFFICES ASSUME NEW q \in Real(t2), q # Root, IsPrefix(t2.dir[q].fullpath, full)
                 PROVE  ~ Slashed(t2.dir[q].name)
      BY <1>7, Zenon DEF Plain
    <3>1. t2.dir[q].fullpath \in Seq(Name) /\ <<h>> \in Seq(Name)
      BY <1>3, ValidIs, NodeIs
    <3>2. IsPrefix(t2.dir[q].fullpath, full \o <<h>>)
      BY <1>7, <3>1, PrefixOn
    <3> QED
      BY <1>9, <3>2, Zenon DEF Plain
  <2>2. Walk(t2, Root, Absolute(full)) = p
    BY <1>4, <1>7, <2>1, LeadsBackIs, Zenon
  <2>3. name = <<h>> /\ h # Empty
    <3>1. full \o <<h>> \in Seq(Name)
      BY <1>7, FullIs
    <3>2. IsPrefix(full \o <<h>>, full \o <<h>>)
      BY <3>1, PrefixOfSelf
    <3>3. n \in Real(t2) /\ n # Root
      BY <1>0, <1>3, <1>6, ValidIs, Zenon
    <3>4. ~ Slashed(name)
      BY <1>5, <1>9, <3>2, <3>3, Zenon DEF Plain
    <3> QED
      BY <1>8, <3>4, Zenon
  <2>4. Walk(t2, Root, Absolute(full \o <<h>>)) = Down(t2, p, h)
    <3>1. Absolute(full \o <<h>>) = Append(Absolute(full), h) /\ Absolute(full) \in Seq(Name)
      BY <1>7, FullIs
    <3>2. Walk(t2, Root, Append(Absolute(full), h)) = Down(t2, Walk(t2, Root, Absolute(full)), h)
      BY <3>1, WalkOn
    <3> QED
      BY <2>2, <3>1, <3>2, Zenon
  <2>5. Down(t2, p, h) = Child(t2, p, <<h>>)
    BY <1>0, <2>3, FoundIs, Zenon
  <2>6. Named(t2.dir, t2.dir[p].subs, <<h>>) = n
    <3>1. node.name = <<h>>
      BY <1>1, <2>3, Zenon DEF IsNamed
    <3>2. Named(t.dir, t.dir[p].subs, node.name) = None
      BY <1>8, <3>1, Zenon
    <3>3. Named(t2.dir, t2.dir[p].subs, node.name) = n
      BY <1>0, <1>1, <1>2, <3>2, EnteredIsFound DEF n
    <3> QED
      BY <3>1, <3>3, Zenon
  <2>7. Child(t2, p, <<h>>) = n
    BY <1>5, <2>6, Zenon DEF Child
  <2> QED
    BY <1>9, <2>4, <2>5, <2>7, Zenon
<1>12. PathIs(t2, n)
  BY <1>5, <1>6, <1>7, Zenon DEF PathIs, full
<1>13. Undotted(t2, {n})
  <2>1. \A x \in Real(t2) : Short(t2, x) /\ LeadsBack(t2, x) /\ (x \notin {n} => Dotted(t2, x))
    <3> TAKE x \in Real(t2)
    <3>1. CASE x = n
      BY <1>10, <1>11, <3>1, Zenon
    <3>2. CASE x # n
      <4>1. x \in Real(t)
        BY <1>6, <3>2, Zenon
      <4>2. x \notin {}
        OBVIOUS
      <4> QED
        BY <1>4, <4>1, <4>2, Zenon
    <3> QED
      BY <3>1, <3>2
  <2>2. \A x \in Real(t2) \ {Root} : PathIs(t2, x)
    BY <1>4, <1>6, <1>12, Zenon
  <2>3. \A x \in Nodes(t2) : t2.dir[x].owner = None => GivenUp(t2, x)
    <3>1. t2.dir[n].owner # None
      BY <1>5
    <3> QED
      BY <1>3, <1>4, <3>1, Zenon
  <2> QED
    BY <1>3, <2>1, <2>2, <2>3, Zenon DEF Undotted
<1> QED
  BY <1>1, <1>2, <1>3, <1>5, <1>6, <1>13 DEF n, node, t2

\* What the directory n is, the last of t2 that is not symbolic.
IsMade(t, p, name, mode, owner, group, t2, n) ==
    /\ Grown(t, t2) /\ t2.file = t.file
    /\ n = Len(t.dir) + 1 /\ n \notin Nodes(t) /\ n \in Nodes(t2) /\ Real(t2) = Real(t) \cup {n}
    /\ IsNamed(t, p, name, None, mode, owner, group, t2.dir[n])

LEMMA MadeIs ==
    ASSUME NEW t, Ordered(t), NEW p \in Real(t), Len(t.dir[p].subs) < MAX_DIRECTORIES,
           NEW name \in LastName, ~ Long(Head(Stripped(name))),
           Named(t.dir, t.dir[p].subs, Stripped(name)) = None,
           NEW mode \in Modes, NEW owner \in Nat \ {None}, NEW group \in Nat,
           NEW up, up.mode \in Modes, up.owner \in Nat \ {None}, up.group \in Nat
    PROVE  LET n == Len(t.dir) + 1
               t1 == Entered(t, p, Directory(t, p, name, None, mode, owner, group))
               t2 == WithDots(t1, n, p, up)
           IN  /\ Ordered(t2) /\ IsMade(t, p, name, mode, owner, group, t2, n)
               /\ \A U, G : OwnedBy(t, U, G) /\ owner \in U /\ up.owner \in U
                            /\ group \in G /\ up.group \in G => OwnedBy(t2, U, G)
               /\ AllOwned(t) /\ PathLen(t.dir[p].fullpath \o Stripped(name)) + 3 <= MAX_FULL_PATH_LENGTH
                      => AllOwned(t2)
<1> DEFINE n == Len(t.dir) + 1
           node == Directory(t, p, name, None, mode, owner, group)
           t1 == Entered(t, p, node)
           t2 == WithDots(t1, n, p, up)
<1>1. /\ Undotted(t1, {n}) /\ Real(t1) = Real(t) \cup {n} /\ t1.dir[n].subs = <<>>
      /\ With(t, p, node, t1) /\ Fresh(t, p, node)
      /\ IsNamed(t, p, name, None, mode, owner, group, node)
      /\ Grown(t, t1) /\ Nodes(t1) = Nodes(t) \cup {n} /\ n \notin Nodes(t)
  BY DirectoryEntered
<1>0. Valid(t) /\ Valid(t1) /\ Root \in Nodes(t)
  <2>1. Valid(t) /\ Valid(t1)
    BY <1>1, Zenon DEF Ordered, Undotted
  <2> QED
    BY <2>1, ValidIs, Zenon
<1> HIDE DEF t1, node
<1>2. t1.dir[n] = node /\ t1.file = t.file /\ Len(t1.dir) = n
  BY <1>1, Zenon DEF With
<1>3. node.parent = p
  BY <1>1, Zenon DEF Fresh
<1>4. p = Up(t1, n)
  BY <1>0, <1>1, <1>2, <1>3, Zenon DEF Up
<1>5. Ordered(t2) /\ DotsIn(t1, n, p, up, t2) /\ Real(t2) = Real(t1)
  <2>1. n \in Real(t1) /\ p \in Real(t1)
    BY <1>1, Zenon
  <2> HIDE DEF n
  <2> QED
    BY <1>1, <1>4, <2>1, DotsOrdered
<1> HIDE DEF t2
<1> DEFINE d1 == Len(t1.dir) + 1
           d2 == Len(t1.dir) + 2
<1>6. /\ Valid(t2) /\ Grown(t1, t2) /\ t2.file = t.file
      /\ Nodes(t2) = Nodes(t1) \cup {d1, d2}
      /\ \A x \in Nodes(t1) : Same(t1.dir[x], t2.dir[x])
      /\ IsDot(t1, n, DotName, n, t1.dir[n].owner, t1.dir[n].group, t2.dir[d1])
      /\ IsDot(t1, n, UpName, p, up.owner, up.group, t2.dir[d2])
  BY <1>2, <1>5, Zenon DEF DotsIn
<1> HIDE DEF d1, d2, n
<1>7. Grown(t, t2)
  BY <1>0, <1>1, <1>6, GrownOn
<1>8. Same(node, t2.dir[n])
  BY <1>1, <1>2, <1>6, Zenon
<1>9. IsNamed(t, p, name, None, mode, owner, group, t2.dir[n])
  BY <1>1, <1>8, Zenon DEF IsNamed, Same
<1>10. IsMade(t, p, name, mode, owner, group, t2, n)
  BY <1>1, <1>5, <1>6, <1>7, <1>9, Zenon DEF IsMade, n
<1>11. \A x \in Nodes(t) : t2.dir[x].owner = t.dir[x].owner /\ t2.dir[x].group = t.dir[x].group
  <2> TAKE x \in Nodes(t)
  <2>1. Same(t.dir[x], t1.dir[x]) /\ Same(t1.dir[x], t2.dir[x])
    BY <1>1, <1>6, Zenon DEF With
  <2> QED
    BY <2>1, Zenon DEF Same
<1>12. /\ t2.dir[n].owner = owner /\ t2.dir[n].group = group
       /\ t1.dir[n].owner = owner /\ t1.dir[n].group = group
  BY <1>1, <1>2, <1>9, Zenon DEF IsNamed
<1>13. ASSUME NEW U, NEW G, OwnedBy(t, U, G), owner \in U, up.owner \in U, group \in G, up.group \in G
       PROVE  OwnedBy(t2, U, G)
  <2> SUFFICES ASSUME NEW x \in Nodes(t2), t2.dir[x].owner # None
               PROVE  t2.dir[x].owner \in U /\ t2.dir[x].group \in G
    BY Zenon DEF OwnedBy
  <2>1. CASE x \in Nodes(t)
    BY <1>11, <1>13, <2>1, Zenon DEF OwnedBy
  <2>2. CASE x = n
    BY <1>12, <1>13, <2>2, Zenon
  <2>3. CASE x = d1
    BY <1>6, <1>12, <1>13, <2>3, Zenon DEF IsDot, IsNameless
  <2>4. CASE x = d2
    BY <1>6, <1>13, <2>4, Zenon DEF IsDot, IsNameless
  <2> QED
    BY <1>1, <1>6, <2>1, <2>2, <2>3, <2>4, Zenon
<1>14. ASSUME AllOwned(t), PathLen(t.dir[p].fullpath \o Stripped(name)) + 3 <= MAX_FULL_PATH_LENGTH
       PROVE  AllOwned(t2)
  <2>1. PathLen(t1.dir[n].fullpath) + 3 <= MAX_FULL_PATH_LENGTH
    BY <1>1, <1>2, <1>14, Zenon DEF IsNamed
  <2>2. n \in Nodes(t1)
    BY <1>1, Zenon
  <2>3. Fits(t1, n, 2) /\ Fits(t1, n, 1)
    <3> DEFINE k == PathLen(t1.dir[n].fullpath)
    <3>1. k \in Nat /\ k + 3 <= MAX_FULL_PATH_LENGTH
      BY <1>0, <2>1, <2>2, FitsIs
    <3> HIDE DEF k
    <3>2. k + 2 + 1 <= MAX_FULL_PATH_LENGTH /\ k + 1 + 1 <= MAX_FULL_PATH_LENGTH
      BY <3>1, MaximaAssumption
    <3> QED
      BY <3>2 DEF Fits, k
  <2>4. PathFits(t1, n, DotName) /\ PathFits(t1, n, UpName)
    <3>1. DotName \in LastName /\ UpName \in LastName
      BY DotsAre, NamesAre
    <3> QED
      BY <1>0, <2>2, <2>3, <3>1, DotsAre, FitsIs, Zenon
  <2>5. owner # None /\ up.owner # None
    OBVIOUS
  <2>6. t2.dir[d1].owner # None /\ t2.dir[d2].owner # None /\ t2.dir[n].owner # None
    BY <1>6, <1>12, <2>4, <2>5, Zenon DEF IsDot
  <2> QED
    BY <1>1, <1>6, <1>11, <1>14, <2>6, Zenon DEF AllOwned
<1> QED
  BY <1>5, <1>10, <1>13, <1>14, Zenon DEF n, t1, t2, node

\* A directory that is entered and given up.
LEMMA NamelessEntered ==
    ASSUME NEW t, Ordered(t), NEW p \in Nodes(t), Len(t.dir[p].subs) < MAX_DIRECTORIES,
           ~ Fits(t, p, MAX_NAME_LENGTH)
    PROVE  LET t2 == Entered(t, p, Nameless(p)) IN
           /\ Ordered(t2) /\ Grown(t, t2) /\ t2.file = t.file /\ Real(t2) = Real(t)
           /\ Len(t2.dir) = Len(t.dir) + 1 /\ t2.dir[Len(t.dir) + 1].owner = None
           /\ \A U, G : OwnedBy(t, U, G) => OwnedBy(t2, U, G)
<1> DEFINE n == Len(t.dir) + 1
           node == Nameless(p)
           t2 == Entered(t, p, node)
<1>0. Undotted(t, {}) /\ Valid(t)
  BY UndottedIs, Zenon DEF Ordered
<1>1. Fresh(t, p, node) /\ IsNameless(node)
  BY <1>0, NamelessIs
<1> HIDE DEF node
<1>2. With(t, p, node, t2)
  BY <1>0, <1>1, EnteredIs DEF Fresh
<1> HIDE DEF t2
<1>3. Grown(t, t2) /\ Valid(t2) /\ Nodes(t2) = Nodes(t) \cup {n} /\ n \notin Nodes(t) /\ n # None
  BY <1>0, <1>1, <1>2, WithGrows, WithIsValid
<1>4. /\ \A x \in Real(t) : /\ Short(t2, x) /\ LeadsBack(t2, x)
                            /\ x \notin {} => Dotted(t2, x)
                            /\ x # Root => PathIs(t2, x)
      /\ \A x \in Nodes(t) : t2.dir[x].owner = None => GivenUp(t2, x)
  BY <1>0, <1>3, SoundGrows
<1>5. t2.dir[n] = node /\ t2.file = t.file /\ Len(t2.dir) = n
      /\ \A x \in Nodes(t) : Same(t.dir[x], t2.dir[x])
  BY <1>2, Zenon DEF With
<1>6. Real(t2) = Real(t)
  <2>1. \A x \in Nodes(t) : x \in Real(t2) <=> x \in Real(t)
    BY <1>3, <1>5, Zenon DEF Real, Same
  <2>2. n \notin Real(t2)
    BY <1>1, <1>5, Zenon DEF Real, IsNameless
  <2>3. Real(t2) \subseteq Nodes(t) \cup {n} /\ Real(t) \subseteq Nodes(t)
    BY <1>3, Zenon DEF Real
  <2> HIDE DEF n
  <2> QED
    BY <2>1, <2>2, <2>3, Zenon
<1>7. GivenUp(t2, n)
  <2>1. n # Root
    BY <1>0, <1>3, ValidIs, Zenon
  <2>2. t2.dir[n].parent = p
    BY <1>1, <1>5, Zenon DEF Fresh
  <2>3. ~ Fits(t2, p, MAX_NAME_LENGTH)
    BY <1>5, Zenon DEF Fits, Same
  <2> QED
    BY <1>1, <1>5, <2>1, <2>2, <2>3, Zenon DEF GivenUp, IsNameless, Empty
<1>8. Ordered(t2)
  <2>1. \A x \in Real(t2) : Dotted(t2, x) /\ Short(t2, x) /\ LeadsBack(t2, x)
    BY <1>4, <1>6, Zenon
  <2>2. \A x \in Real(t2) \ {Root} : PathIs(t2, x)
    BY <1>4, <1>6, Zenon
  <2>3. \A x \in Nodes(t2) : t2.dir[x].owner = None => GivenUp(t2, x)
    BY <1>3, <1>4, <1>7, Zenon
  <2> QED
    BY <1>3, <2>1, <2>2, <2>3, Zenon DEF Ordered
<1>9. t2.dir[n].owner = None
  BY <1>1, <1>5, Zenon DEF IsNameless
<1>10. \A U, G : OwnedBy(t, U, G) => OwnedBy(t2, U, G)
  BY <1>3, <1>5, <1>9, Zenon DEF OwnedBy, Same
<1> QED
  BY <1>3, <1>5, <1>6, <1>8, <1>9, <1>10, Zenon DEF n, node, t2

LEMMA CreateDirectoryIs ==
    ASSUME NEW t, Ordered(t), NEW p \in Real(t),
           NEW name \in LastName, ~ Long(Head(Stripped(name))),
           Named(t.dir, t.dir[p].subs, Stripped(name)) = None,
           NEW mode \in Modes, NEW owner \in Nat \ {None}, NEW group \in Nat
    PROVE  LET r == CreateDirectory(t, p, name, mode, owner, group) IN
           /\ Ordered(r.tree) /\ Grown(t, r.tree) /\ r.tree.file = t.file
           /\ \/ r.tree = t /\ r.dir = None
              \/ /\ Len(r.tree.dir) = Len(t.dir) + 1 /\ r.tree.dir[Len(t.dir) + 1].owner = None
                 /\ r.dir = None /\ Real(r.tree) = Real(t)
              \/ IsMade(t, p, name, mode, owner, group, r.tree, r.dir)
           /\ \A U, G : OwnedBy(t, U, G) /\ owner \in U /\ group \in G => OwnedBy(r.tree, U, G)
<1> DEFINE r == CreateDirectory(t, p, name, mode, owner, group)
           n == Len(t.dir) + 1
<1>0. Valid(t) /\ p \in Nodes(t)
  BY Zenon DEF Ordered, Real
<1>1. CASE DirectoryFull(t, p)
  <2>1. r = [tree |-> t, dir |-> None]
    BY <1>1, Zenon DEF CreateDirectory
  <2>2. r.tree = t /\ r.dir = None
    BY <2>1
  <2>3. Grown(t, t)
    <3>1. \A x \in Nodes(t) : Len(t.dir[x].subs) <= Len(t.dir[x].subs)
                              /\ Len(t.dir[x].files) <= Len(t.dir[x].files)
      <4> TAKE x \in Nodes(t)
      <4>1. t.dir[x].subs \in Seq(Nat) /\ t.dir[x].files \in Seq(Nat)
        BY <1>0, ValidIs, NodeIs
      <4> QED
        BY <4>1, LenProperties
    <3> QED
      BY <3>1, Zenon DEF Grown
  <2> HIDE DEF r
  <2> QED
    BY <2>2, <2>3, Zenon DEF r
<1>2. ~ DirectoryFull(t, p) => Len(t.dir[p].subs) < MAX_DIRECTORIES
  <2>1. t.dir[p].subs \in Seq(Nat)
    BY <1>0, ValidIs, NodeIs
  <2> DEFINE k == Len(t.dir[p].subs)
  <2>2. k \in Nat
    BY <2>1
  <2> HIDE DEF k
  <2>3. ~ k >= MAX_DIRECTORIES => k < MAX_DIRECTORIES
    BY <2>2, MaximaAssumption
  <2> QED
    BY <2>3 DEF DirectoryFull, k
<1>3. CASE ~ DirectoryFull(t, p) /\ ~ PathFits(t, p, name)
  <2> DEFINE t2 == Entered(t, p, Nameless(p))
  <2>1. r = [tree |-> t2, dir |-> None]
    BY <1>3, Zenon DEF CreateDirectory
  <2>2. r.tree = t2 /\ r.dir = None
    BY <2>1
  <2>3. ~ Fits(t, p, MAX_NAME_LENGTH)
    <3> DEFINE k == NameLen(Head(Stripped(name)))
    <3>1. k \in Nat
      BY LastNameIs, NameAssumption, Zenon
    <3>2. k <= MAX_NAME_LENGTH
      <4>1. ~ k > MAX_NAME_LENGTH
        BY DEF Long
      <4> HIDE DEF k
      <4> QED
        BY <3>1, <4>1, DotsAre
    <3>3. ~ Fits(t, p, k)
      BY <1>0, <1>3, FitsIs, Zenon
    <3> HIDE DEF k
    <3> QED
      BY <1>0, <3>1, <3>2, <3>3, DotsAre, FitsIs, Zenon
  <2>4. /\ Ordered(t2) /\ Grown(t, t2) /\ t2.file = t.file /\ Real(t2) = Real(t)
        /\ Len(t2.dir) = Len(t.dir) + 1 /\ t2.dir[Len(t.dir) + 1].owner = None
        /\ \A U, G : OwnedBy(t, U, G) => OwnedBy(t2, U, G)
    BY <1>0, <1>2, <1>3, <2>3, NamelessEntered
  <2> HIDE DEF r, t2
  <2> QED
    BY <2>2, <2>4, Zenon DEF r
<1>4. CASE ~ DirectoryFull(t, p) /\ PathFits(t, p, name)
  <2> DEFINE t2 == WithDots(Entered(t, p, Directory(t, p, name, None, mode, owner, group)), n, p,
                            t.dir[p])
  <2>1. r = [tree |-> t2, dir |-> n]
    BY <1>4, Zenon DEF CreateDirectory
  <2>2. r.tree = t2 /\ r.dir = n
    BY <2>1
  <2>3. t.dir[p].mode \in Modes /\ t.dir[p].owner \in Nat \ {None} /\ t.dir[p].group \in Nat
    <3>1. t.dir[p].mode \in Modes /\ t.dir[p].owner \in Nat /\ t.dir[p].group \in Nat
      BY <1>0, ValidIs, NodeIs
    <3>2. t.dir[p].owner # None
      BY Zenon DEF Real
    <3> QED
      BY <3>1, <3>2
  <2>4. /\ Ordered(t2) /\ IsMade(t, p, name, mode, owner, group, t2, n)
        /\ \A U, G : OwnedBy(t, U, G) /\ owner \in U /\ t.dir[p].owner \in U
                     /\ group \in G /\ t.dir[p].group \in G => OwnedBy(t2, U, G)
    BY <1>2, <1>4, <2>3, MadeIs
  <2>5. \A U, G : OwnedBy(t, U, G) => t.dir[p].owner \in U /\ t.dir[p].group \in G
    BY <1>0, Zenon DEF OwnedBy, Real
  <2> HIDE DEF r, t2, n
  <2>6. Grown(t, t2) /\ t2.file = t.file
    BY <2>4, Zenon DEF IsMade
  <2> QED
    BY <2>2, <2>4, <2>5, <2>6, Zenon DEF r
<1> QED
  BY <1>1, <1>3, <1>4

\* Another value of the same directories and files: with the owners of some
\* changed, or with files more.
Alike(t, t2) ==
    /\ t2 \in Tree /\ Nodes(t2) = Nodes(t) /\ Files(t) \subseteq Files(t2)
    /\ \A d \in Nodes(t) : LET n == t.dir[d]  m == t2.dir[d] IN
          /\ m.name = n.name /\ m.fullpath = n.fullpath /\ m.parent = n.parent /\ m.link = n.link
          /\ m.mode = n.mode /\ (m.owner = None <=> n.owner = None) /\ m.subs = n.subs
          /\ Len(m.files) <= MAX_FILES /\ Len(n.files) <= Len(m.files)
          /\ \A i \in 1 .. Len(n.files) : m.files[i] = n.files[i]
          /\ \A i \in 1 .. Len(m.files) : m.files[i] \in Files(t2)
    /\ \A f \in Files(t) : t2.file[f].name = t.file[f].name
    /\ \A f \in Files(t2) : t2.file[f].parent \in Nodes(t)

LEMMA AlikeIs ==
    ASSUME NEW t, Ordered(t), NEW t2, Alike(t, t2)
    PROVE  Ordered(t2) /\ Grown(t, t2) /\ Real(t2) = Real(t)
<1>0. Undotted(t, {}) /\ Valid(t)
  BY UndottedIs, Zenon DEF Ordered
<1>1. /\ t2 \in Tree /\ Nodes(t2) = Nodes(t) /\ Files(t) \subseteq Files(t2)
      /\ \A f \in Files(t) : t2.file[f].name = t.file[f].name
      /\ \A f \in Files(t2) : t2.file[f].parent \in Nodes(t)
  BY Zenon DEF Alike
<1>2. \A d \in Nodes(t) : LET n == t.dir[d]  m == t2.dir[d] IN
          /\ m.name = n.name /\ m.fullpath = n.fullpath /\ m.parent = n.parent /\ m.link = n.link
          /\ m.mode = n.mode /\ (m.owner = None <=> n.owner = None) /\ m.subs = n.subs
  BY Zenon DEF Alike
<1>3. \A d \in Nodes(t) : LET n == t.dir[d]  m == t2.dir[d] IN
          /\ Len(m.files) <= MAX_FILES /\ Len(n.files) <= Len(m.files)
          /\ \A i \in 1 .. Len(n.files) : m.files[i] = n.files[i]
          /\ \A i \in 1 .. Len(m.files) : m.files[i] \in Files(t2)
  BY Zenon DEF Alike
<1>4. \A d \in Nodes(t) : Len(t.dir[d].subs) <= Len(t.dir[d].subs)
  <2> TAKE d \in Nodes(t)
  <2>1. t.dir[d].subs \in Seq(Nat)
    BY <1>0, ValidIs, NodeIs
  <2> QED
    BY <2>1, LenProperties
<1>5. Grown(t, t2)
  BY <1>1, <1>2, <1>3, <1>4, Zenon DEF Grown
<1>6. Valid(t2)
  <2>1. Root \in Nodes(t) /\ RootIs(t)
    BY <1>0, Zenon DEF Valid
  <2>2. RootIs(t2)
    BY <1>2, <2>1, Zenon DEF RootIs
  <2>3. ASSUME NEW d \in Nodes(t) PROVE Holds(t2, d)
    <3> DEFINE s == t.dir[d].subs
    <3>1. /\ Len(s) <= MAX_DIRECTORIES
          /\ \A i \in 1 .. Len(s) : s[i] \in Nodes(t) /\ s[i] # Root /\ t.dir[s[i]].parent = d
          /\ \A i, j \in 1 .. Len(s) : s[i] = s[j] => i = j
      BY <1>0, Zenon DEF Valid, Holds
    <3>2. t2.dir[d].subs = s
      BY <1>2, Zenon
    <3>3. \A i \in 1 .. Len(s) : s[i] \in Nodes(t2) /\ s[i] # Root /\ t2.dir[s[i]].parent = d
      BY <1>1, <1>2, <3>1, Zenon
    <3>4. Len(t2.dir[d].files) <= MAX_FILES
          /\ \A i \in 1 .. Len(t2.dir[d].files) : t2.dir[d].files[i] \in Files(t2)
      BY <1>3, Zenon
    <3> HIDE DEF s
    <3> QED
      BY <3>1, <3>2, <3>3, <3>4, Zenon DEF Holds
  <2>4. ASSUME NEW d \in Nodes(t), d # Root PROVE IsEntered(t2, d)
    <3>1. IsEntered(t, d)
      BY <1>0, <2>4, Zenon DEF Valid
    <3>2. t.dir[d].parent \in Nodes(t)
      BY <3>1, Zenon DEF IsEntered
    <3>3. t2.dir[d].parent = t.dir[d].parent /\ t2.dir[t.dir[d].parent].subs = t.dir[t.dir[d].parent].subs
      BY <1>2, <3>2, Zenon
    <3> QED
      BY <1>1, <3>1, <3>3, Zenon DEF IsEntered
  <2>5. ASSUME NEW d \in Nodes(t), t2.dir[d].link # None
        PROVE  t2.dir[d].link \in Nodes(t) /\ t2.dir[t2.dir[d].link].link = None
    <3>1. t2.dir[d].link = t.dir[d].link
      BY <1>2, Zenon
    <3>2. t.dir[d].link \in Nodes(t) /\ t.dir[t.dir[d].link].link = None
      BY <1>0, <2>5, <3>1, Zenon DEF Valid
    <3> QED
      BY <1>2, <3>1, <3>2, Zenon
  <2> QED
    BY <1>1, <2>1, <2>2, <2>3, <2>4, <2>5, Zenon DEF Valid
<1>7. /\ \A x \in Real(t) : /\ Short(t2, x) /\ LeadsBack(t2, x)
                            /\ x \notin {} => Dotted(t2, x)
                            /\ x # Root => PathIs(t2, x)
      /\ \A x \in Nodes(t) : t2.dir[x].owner = None => GivenUp(t2, x)
  BY <1>0, <1>5, <1>6, SoundGrows
<1>8. Real(t2) = Real(t)
  <2>1. \A x \in Nodes(t) : x \in Real(t2) <=> x \in Real(t)
    BY <1>1, <1>2, Zenon DEF Real
  <2>2. Real(t2) \subseteq Nodes(t) /\ Real(t) \subseteq Nodes(t)
    BY <1>1, Zenon DEF Real
  <2> QED
    BY <2>1, <2>2, Zenon
<1>9. Ordered(t2)
  <2>1. \A x \in Real(t2) : Dotted(t2, x) /\ Short(t2, x) /\ LeadsBack(t2, x)
    BY <1>7, <1>8, Zenon
  <2>2. \A x \in Real(t2) \ {Root} : PathIs(t2, x)
    BY <1>7, <1>8, Zenon
  <2>3. \A x \in Nodes(t2) : t2.dir[x].owner = None => GivenUp(t2, x)
    BY <1>1, <1>7, Zenon
  <2> QED
    BY <1>6, <2>1, <2>2, <2>3, Zenon DEF Ordered
<1> QED
  BY <1>5, <1>8, <1>9

\* The tree t2 is t with one more file, node, the last of p.
WithFile(t, p, node, t2) ==
    LET N == Len(t.file) + 1 IN
    /\ t2 \in Tree /\ Len(t2.dir) = Len(t.dir)
    /\ Len(t2.file) = N /\ t2.file[N] = node
    /\ \A f \in Files(t) : t2.file[f] = t.file[f]
    /\ \A d \in Nodes(t) :
          /\ Same(t.dir[d], t2.dir[d]) /\ t2.dir[d].subs = t.dir[d].subs
          /\ t2.dir[d].files = IF d = p THEN Append(t.dir[d].files, N) ELSE t.dir[d].files

LEMMA EnteredFileIs ==
    ASSUME NEW t, Valid(t), NEW p \in Nodes(t), NEW node \in FileNode
    PROVE  WithFile(t, p, node, EnteredFile(t, p, node))
<1> DEFINE N == Len(t.file) + 1
           old == t.dir[p]
           new == [old EXCEPT !.files = Append(old.files, N)]
           mid == [t.dir EXCEPT ![p] = new]
           all == Append(t.file, node)
           t2 == EnteredFile(t, p, node)
<1>1. t.dir \in Seq(Node) /\ N \in Nat /\ DOMAIN t.dir = Nodes(t) /\ t.file \in Seq(FileNode)
  BY ValidIs
<1>2. old \in Node
  BY ValidIs, Zenon
<1>3. t \in [dir : Seq(Node), file : Seq(FileNode)]
  BY Zenon DEF Valid, Tree
<1>4. t2 = [t EXCEPT !.dir = mid, !.file = all]
  <2> DEFINE inner == [t.dir EXCEPT ![p].files = Append(@, N)]
  <2>1. t2 = [t EXCEPT !.dir = inner, !.file = all]
    BY <1>3 DEF EnteredFile
  <2>2. inner = mid
    BY <1>1
  <2> HIDE DEF inner, mid, t2, all
  <2> QED
    BY <2>1, <2>2
<1> HIDE DEF t2
<1>5. new \in Node /\ Same(old, new) /\ new.subs = old.subs /\ new.files = Append(old.files, N)
  <2> DEFINE more == Append(old.files, N)
  <2>1. old.files \in Seq(Nat)
    BY <1>2, NodeIs
  <2>2. more \in Seq(Nat)
    BY <1>1, <2>1
  <2> HIDE DEF old, N, more
  <2>3. [old EXCEPT !.files = more] \in Node
    BY <1>2, <2>2, Zenon DEF Node
  <2>4. Same(old, [old EXCEPT !.files = more])
    BY <1>2, Zenon DEF Same, Node
  <2>5. [old EXCEPT !.files = more].subs = old.subs /\ [old EXCEPT !.files = more].files = more
    BY <1>2, Zenon DEF Node
  <2> QED
    BY <2>3, <2>4, <2>5, Zenon DEF new, more
<1> HIDE DEF new
<1>6. mid \in Seq(Node) /\ Len(mid) = Len(t.dir) /\ \A d \in Nodes(t) : mid[d] = IF d = p THEN new ELSE t.dir[d]
  BY <1>1, <1>5, ExceptSeq DEF Nodes
<1>7. /\ all \in Seq(FileNode) /\ Len(all) = N /\ all[N] = node
      /\ \A f \in Files(t) : all[f] = t.file[f]
  BY <1>1, AppendProperties DEF Files
<1> HIDE DEF mid, all, N
<1>8. t2.dir = mid /\ t2.file = all /\ t2 \in Tree
  <2>1. [t EXCEPT !.dir = mid, !.file = all] \in Tree /\ [t EXCEPT !.dir = mid, !.file = all].dir = mid
        /\ [t EXCEPT !.dir = mid, !.file = all].file = all
    BY <1>3, <1>6, <1>7, Zenon DEF Tree
  <2> QED
    BY <1>4, <2>1, Zenon
<1>9. \A d \in Nodes(t) :
          /\ Same(t.dir[d], t2.dir[d]) /\ t2.dir[d].subs = t.dir[d].subs
          /\ t2.dir[d].files = IF d = p THEN Append(t.dir[d].files, N) ELSE t.dir[d].files
  <2> TAKE d \in Nodes(t)
  <2>1. t2.dir[d] = IF d = p THEN new ELSE t.dir[d]
    BY <1>6, <1>8, Zenon
  <2>2. Same(t.dir[d], t.dir[d])
    BY Zenon DEF Same
  <2> QED
    BY <1>5, <2>1, <2>2, Zenon
<1>10. Len(t2.dir) = Len(t.dir) /\ Len(t2.file) = N /\ t2.file[N] = node
       /\ \A f \in Files(t) : t2.file[f] = t.file[f]
  BY <1>6, <1>7, <1>8, Zenon
<1> QED
  BY <1>8, <1>9, <1>10, Zenon DEF WithFile, t2, N

LEMMA FileEntered ==
    ASSUME NEW t, Ordered(t), NEW p \in Nodes(t), Len(t.dir[p].files) < MAX_FILES,
           NEW node \in FileNode, node.parent = p
    PROVE  LET t2 == EnteredFile(t, p, node) IN
           /\ Ordered(t2) /\ Grown(t, t2) /\ Real(t2) = Real(t) /\ Nodes(t2) = Nodes(t)
           /\ WithFile(t, p, node, t2)
           /\ Len(t.file) + 1 \in Files(t2) /\ Files(t2) = Files(t) \cup {Len(t.file) + 1}
           /\ AllOwned(t) => AllOwned(t2)
           /\ \A U, G : OwnedBy(t, U, G) => OwnedBy(t2, U, G)
<1> DEFINE N == Len(t.file) + 1
           t2 == EnteredFile(t, p, node)
<1>0. Valid(t)
  BY Zenon DEF Ordered
<1>1. WithFile(t, p, node, t2)
  BY <1>0, EnteredFileIs
<1> HIDE DEF t2
<1>2. /\ t2 \in Tree /\ Len(t2.dir) = Len(t.dir)
      /\ Len(t2.file) = N /\ t2.file[N] = node
      /\ \A f \in Files(t) : t2.file[f] = t.file[f]
      /\ \A d \in Nodes(t) :
            /\ Same(t.dir[d], t2.dir[d]) /\ t2.dir[d].subs = t.dir[d].subs
            /\ t2.dir[d].files = IF d = p THEN Append(t.dir[d].files, N) ELSE t.dir[d].files
  BY <1>1, Zenon DEF WithFile
<1>3. Files(t2) = Files(t) \cup {N} /\ N \in Files(t2) /\ Nodes(t2) = Nodes(t) /\ N \in Nat
  <2>1. Len(t.file) \in Nat
    BY <1>0, ValidIs
  <2> QED
    BY <1>2, <2>1 DEF Files, Nodes
<1>4. ASSUME NEW d \in Nodes(t)
      PROVE  LET n == t.dir[d].files  m == t2.dir[d].files IN
             /\ Len(m) <= MAX_FILES /\ Len(n) <= Len(m)
             /\ \A i \in 1 .. Len(n) : m[i] = n[i]
             /\ \A i \in 1 .. Len(m) : m[i] \in Files(t2)
  <2> DEFINE n == t.dir[d].files
             m == t2.dir[d].files
  <2>1. n \in Seq(Nat)
    BY <1>0, ValidIs, NodeIs
  <2>2. Len(n) <= MAX_FILES /\ \A i \in 1 .. Len(n) : n[i] \in Files(t)
    BY <1>0, Zenon DEF Valid, Holds
  <2>3. m = IF d = p THEN Append(n, N) ELSE n
    BY <1>2, Zenon
  <2>4. d = p => Len(n) < MAX_FILES
    OBVIOUS
  <2> HIDE DEF n, m, N
  <2>5. CASE d = p
    <3>1. Len(m) = Len(n) + 1 /\ m[Len(n) + 1] = N /\ \A i \in 1 .. Len(n) : m[i] = n[i]
      BY <1>3, <2>1, <2>3, <2>5
    <3>2. \A i \in 1 .. Len(n) + 1 : i \in 1 .. Len(n) \/ i = Len(n) + 1
      BY <2>1
    <3>3. \A i \in 1 .. Len(m) : m[i] \in Files(t2)
      BY <1>3, <2>2, <3>1, <3>2, Zenon
    <3>4. Len(m) <= MAX_FILES /\ Len(n) <= Len(m)
      BY <2>1, <2>4, <2>5, <3>1, MaximaAssumption
    <3> QED
      BY <3>1, <3>3, <3>4 DEF n, m
  <2>6. CASE d # p
    <3>1. m = n
      BY <2>3, <2>6
    <3>2. Len(n) <= Len(n)
      BY <2>1
    <3> QED
      BY <1>3, <2>2, <3>1, <3>2, Zenon DEF n, m
  <2> QED
    BY <2>5, <2>6
<1>5. Alike(t, t2)
  <2>1. \A f \in Files(t2) : t2.file[f].parent \in Nodes(t)
    <3>1. \A f \in Files(t) : t.file[f].parent \in Nodes(t)
      BY <1>0, Zenon DEF Valid
    <3> QED
      BY <1>2, <1>3, <3>1, Zenon
  <2>2. Files(t) \subseteq Files(t2) /\ \A f \in Files(t) : t2.file[f].name = t.file[f].name
    BY <1>2, <1>3, Zenon
  <2> QED
    BY <1>2, <1>3, <1>4, <2>1, <2>2, Zenon DEF Alike, Same
<1>6. Ordered(t2) /\ Grown(t, t2) /\ Real(t2) = Real(t)
  BY <1>5, AlikeIs
<1>7. AllOwned(t) => AllOwned(t2)
  BY <1>2, <1>3, Zenon DEF AllOwned, Same
<1>8. \A U, G : OwnedBy(t, U, G) => OwnedBy(t2, U, G)
  BY <1>2, <1>3, Zenon DEF OwnedBy, Same
<1> QED
  BY <1>1, <1>3, <1>6, <1>7, <1>8, Zenon DEF t2, N

LEMMA NotChanged ==
    ASSUME NEW t, Valid(t)
    PROVE  Grown(t, t)
<1>1. \A x \in Nodes(t) : Len(t.dir[x].subs) <= Len(t.dir[x].subs)
                          /\ Len(t.dir[x].files) <= Len(t.dir[x].files)
  <2> TAKE x \in Nodes(t)
  <2>1. t.dir[x].subs \in Seq(Nat) /\ t.dir[x].files \in Seq(Nat)
    BY ValidIs, NodeIs
  <2> QED
    BY <2>1, LenProperties
<1> QED
  BY <1>1, Zenon DEF Grown

LEMMA FileIs ==
    ASSUME NEW t, Valid(t), NEW p \in Nodes(t), NEW name \in LastName, NEW mode \in Modes,
           NEW owner \in Nat, NEW group \in Nat
    PROVE  LET node == File(p, name, mode, owner, group) IN
           /\ node \in FileNode /\ node.parent = p /\ node.mode = mode /\ node.owner = owner
<1>1. p \in Nat
  BY ValidIs
<1>2. File(p, name, mode, owner, group) =
          [name |-> name, parent |-> p, mode |-> mode, owner |-> owner, group |-> group]
  BY Zenon DEF File
<1> QED
  BY <1>1, <1>2 DEF FileNode

LEMMA CreateFileIs ==
    ASSUME NEW t, Ordered(t), NEW p \in Nodes(t), NEW name \in LastName, NEW mode \in Modes,
           NEW owner \in Nat, NEW group \in Nat
    PROVE  LET r == CreateFile(t, p, name, mode, owner, group)
               node == File(p, name, mode, owner, group)
           IN  /\ Ordered(r.tree) /\ Grown(t, r.tree)
               /\ Real(r.tree) = Real(t) /\ Nodes(r.tree) = Nodes(t)
               /\ \/ r.tree = t /\ r.file = None
                  \/ /\ WithFile(t, p, node, r.tree) /\ r.file = Len(t.file) + 1
                     /\ Files(r.tree) = Files(t) \cup {r.file}
               /\ \A U, G : OwnedBy(t, U, G) => OwnedBy(r.tree, U, G)
<1> DEFINE r == CreateFile(t, p, name, mode, owner, group)
           node == File(p, name, mode, owner, group)
           t2 == EnteredFile(t, p, node)
           n == Len(t.file) + 1
<1>0. Valid(t) /\ node \in FileNode /\ node.parent = p
  <2>1. Valid(t)
    BY Zenon DEF Ordered
  <2> QED
    BY <2>1, FileIs
<1>1. CASE Len(t.dir[p].files) >= MAX_FILES \/ ~ PathFits(t, p, name)
  <2>1. r = [tree |-> t, file |-> None]
    BY <1>1, Zenon DEF CreateFile
  <2>2. r.tree = t /\ r.file = None
    BY <2>1
  <2>3. Grown(t, t)
    BY <1>0, NotChanged
  <2> HIDE DEF r
  <2> QED
    BY <2>2, <2>3, Zenon DEF r
<1>2. CASE ~ (Len(t.dir[p].files) >= MAX_FILES \/ ~ PathFits(t, p, name))
  <2>1. r = [tree |-> t2, file |-> n]
    BY <1>2, Zenon DEF CreateFile
  <2>2. r.tree = t2 /\ r.file = n
    BY <2>1
  <2>3. Len(t.dir[p].files) < MAX_FILES
    <3> DEFINE k == Len(t.dir[p].files)
    <3>1. t.dir[p].files \in Seq(Nat)
      BY <1>0, ValidIs, NodeIs
    <3>2. k \in Nat
      BY <3>1
    <3>3. ~ k >= MAX_FILES
      BY <1>2
    <3> HIDE DEF k
    <3>4. k < MAX_FILES
      BY <3>2, <3>3, MaximaAssumption
    <3> QED
      BY <3>4 DEF k
  <2> HIDE DEF node
  <2>4. /\ Ordered(t2) /\ Grown(t, t2) /\ Real(t2) = Real(t) /\ Nodes(t2) = Nodes(t)
        /\ WithFile(t, p, node, t2) /\ Files(t2) = Files(t) \cup {n}
        /\ \A U, G : OwnedBy(t, U, G) => OwnedBy(t2, U, G)
    BY <1>0, <2>3, FileEntered
  <2> HIDE DEF r, t2, n
  <2> QED
    BY <2>2, <2>4, Zenon DEF r, n, node
<1> QED
  BY <1>1, <1>2

-----------------------------------------------------------------------------
(* The archive.                                                            *)

\* A root that has nothing yet.
Bald(t, mode, owner, group) ==
    /\ Undotted(t, {Root}) /\ Real(t) = {Root} /\ Nodes(t) = {Root}
    /\ t.dir[Root].subs = <<>> /\ t.dir[Root].fullpath = <<>>
    /\ t.dir[Root].owner = owner /\ t.dir[Root].group = group

LEMMA BaldIs ==
    ASSUME NEW mode \in Modes, NEW owner \in Nat \ {None}, NEW group \in Nat
    PROVE  Bald([dir  |-> <<[Nameless(None) EXCEPT !.name = SlashOnly, !.mode = mode,
                                                   !.owner = owner, !.group = group]>>,
                 file |-> <<>>], mode, owner, group)
<1> DEFINE o == Nameless(None)
           r == [o EXCEPT !.name = SlashOnly, !.mode = mode, !.owner = owner, !.group = group]
           t == [dir |-> <<r>>, file |-> <<>>]
<1>1. /\ o \in Node /\ o.parent = None /\ o.link = None
      /\ o.subs = <<>> /\ o.files = <<>> /\ o.fullpath = <<>>
  <2>1. None \in Nat
    BY DEF None
  <2> QED
    BY <2>1, NamelessNode, Zenon DEF IsNameless
<1>2. SlashOnly \in LastName
  BY NamesAre, Zenon DEF SlashOnly
<1> HIDE DEF o
<1>3. /\ r \in Node /\ r.name = SlashOnly /\ r.mode = mode /\ r.owner = owner /\ r.group = group
      /\ r.parent = o.parent /\ r.link = o.link /\ r.subs = o.subs /\ r.files = o.files
      /\ r.fullpath = o.fullpath
  <2>1. owner \in Nat
    OBVIOUS
  <2>2. r \in Node
    BY <1>1, <1>2, <2>1, Zenon DEF Node
  <2>3. /\ r.name = SlashOnly /\ r.mode = mode /\ r.owner = owner /\ r.group = group
        /\ r.parent = o.parent /\ r.link = o.link /\ r.subs = o.subs /\ r.files = o.files
        /\ r.fullpath = o.fullpath
    BY <1>1, Zenon DEF Node
  <2> QED
    BY <2>2, <2>3
<1>4. r.parent = None /\ r.link = None /\ r.subs = <<>> /\ r.files = <<>> /\ r.fullpath = <<>>
  BY <1>1, <1>3, Zenon
<1> HIDE DEF r
<1>5. t.dir = <<r>> /\ t.file = <<>>
  OBVIOUS
<1>6. t \in Tree
  BY <1>3 DEF Tree
<1> HIDE DEF t
<1>7. /\ Len(t.dir) = 1 /\ t.dir[1] = r /\ Nodes(t) = {Root} /\ Files(t) = {}
      /\ t.dir[Root] = r /\ Len(<<>>) = 0 /\ 1 .. 0 = {}
  BY <1>5 DEF Nodes, Files, Root
<1>8. Valid(t)
  <2>1. r.owner # None
    BY <1>3
  <2>2. RootIs(t)
    BY <1>3, <1>4, <1>7, <2>1, Zenon DEF RootIs, SlashOnly, Empty
  <2>3. 0 <= MAX_DIRECTORIES /\ 0 <= MAX_FILES
    BY MaximaAssumption
  <2>4. Holds(t, Root)
    BY <1>4, <1>7, <2>3, Zenon DEF Holds
  <2> QED
    BY <1>4, <1>6, <1>7, <2>2, <2>4, Zenon DEF Valid
<1>9. Real(t) = {Root}
  <2>1. r.owner # None
    BY <1>3
  <2> QED
    BY <1>4, <1>7, <2>1, Zenon DEF Real
<1>10. Short(t, Root)
  BY <1>4, <1>7, Zenon DEF Short
<1>11. LeadsBack(t, Root)
  <2> DEFINE none == <<>>
  <2>1. Absolute(<<>>) = Append(<<>>, Empty) /\ <<>> \in Seq(Name)
    <3> DEFINE e == Empty
    <3> HIDE DEF e
    <3>1. <<e>> \o <<>> = Append(<<>>, e) /\ <<>> \in Seq(Name)
      OBVIOUS
    <3> QED
      BY <3>1 DEF Absolute, e
  <2>2. Walk(t, Root, <<>>) = Root
    BY WalkNone
  <2>3. Walk(t, Root, Append(<<>>, Empty)) = Down(t, Walk(t, Root, <<>>), Empty)
    BY <2>1, NamesAre, WalkOn
  <2>4. Root # None
    BY DEF Root, None
  <2>5. Down(t, Root, Empty) = Root
    BY <2>4, FoundIs, Zenon
  <2>6. t.dir[Root].fullpath = <<>>
    BY <1>4, <1>7, Zenon
  <2>7. Walk(t, Root, Absolute(t.dir[Root].fullpath)) = Root
    BY <2>1, <2>2, <2>3, <2>5, <2>6, Zenon
  <2> QED
    BY <2>7, LeadsBackIs, Zenon
<1>12. Undotted(t, {Root})
  <2>1. \A d \in Nodes(t) : t.dir[d].owner = None => GivenUp(t, d)
    <3>1. r.owner # None
      BY <1>3
    <3> QED
      BY <1>7, <3>1, Zenon
  <2>2. \A d \in Real(t) : Short(t, d) /\ LeadsBack(t, d) /\ (d \notin {Root} => Dotted(t, d))
    BY <1>9, <1>10, <1>11, Zenon
  <2>3. \A d \in Real(t) \ {Root} : PathIs(t, d)
    BY <1>9, Zenon
  <2> QED
    BY <1>8, <2>1, <2>2, <2>3, Zenon DEF Undotted
<1> QED
  BY <1>3, <1>4, <1>7, <1>9, <1>12, Zenon DEF Bald, t, r, o

\* What the root has to begin with.
LEMMA RootTreeIs ==
    ASSUME NEW mode \in Modes, NEW owner \in Nat \ {None}, NEW group \in Nat
    PROVE  LET t == RootTree(mode, owner, group) IN
           Ordered(t) /\ AllOwned(t) /\ OwnedBy(t, {owner}, {group}) /\ Files(t) = {}
<1> DEFINE t0 == [dir  |-> <<[Nameless(None) EXCEPT !.name = SlashOnly, !.mode = mode,
                                                    !.owner = owner, !.group = group]>>,
                  file |-> <<>>]
           up == [mode |-> mode, owner |-> owner, group |-> group]
           t2 == WithDots(t0, Root, Root, up)
<1>1. RootTree(mode, owner, group) = t2
  BY Zenon DEF RootTree, SlashOnly, Empty
<1>2. Bald(t0, mode, owner, group)
  BY BaldIs
<1>3. t0.file = <<>>
  OBVIOUS
<1> HIDE DEF t0
<1>4. up.mode = mode /\ up.owner = owner /\ up.group = group
  OBVIOUS
<1> HIDE DEF up
<1>5. /\ Undotted(t0, {Root}) /\ Real(t0) = {Root} /\ Nodes(t0) = {Root} /\ Valid(t0)
      /\ t0.dir[Root].subs = <<>> /\ t0.dir[Root].fullpath = <<>>
      /\ t0.dir[Root].owner = owner /\ t0.dir[Root].group = group
  BY <1>2, Zenon DEF Bald, Undotted
<1>6. Ordered(t2) /\ DotsIn(t0, Root, Root, up, t2)
  <2>1. Root \in Real(t0) /\ Root = Up(t0, Root)
    BY <1>5, Zenon DEF Up
  <2> QED
    BY <1>4, <1>5, <2>1, DotsOrdered
<1> HIDE DEF t2
<1> DEFINE d1 == Len(t0.dir) + 1
           d2 == Len(t0.dir) + 2
<1>7. /\ t2.file = t0.file /\ Nodes(t2) = {Root, d1, d2}
      /\ Same(t0.dir[Root], t2.dir[Root])
      /\ IsDot(t0, Root, DotName, Root, owner, group, t2.dir[d1])
      /\ IsDot(t0, Root, UpName, Root, up.owner, up.group, t2.dir[d2])
  BY <1>5, <1>6, Zenon DEF DotsIn
<1> HIDE DEF d1, d2
<1>8. PathFits(t0, Root, DotName) /\ PathFits(t0, Root, UpName)
  <2>1. PathLen(t0.dir[Root].fullpath) = 1
    BY <1>5, Zenon DEF PathLen
  <2>2. Fits(t0, Root, 1) /\ Fits(t0, Root, 2)
    BY <2>1, MaximaAssumption DEF Fits
  <2>3. DotName \in LastName /\ UpName \in LastName
    BY DotsAre, NamesAre
  <2>4. Root \in Nodes(t0)
    BY <1>5
  <2> QED
    BY <1>5, <2>2, <2>3, <2>4, DotsAre, FitsIs, Zenon
<1>9. \A x \in Nodes(t2) : t2.dir[x].owner = owner /\ t2.dir[x].group = group
  BY <1>4, <1>5, <1>7, <1>8, Zenon DEF IsDot, Same
<1>10. AllOwned(t2) /\ OwnedBy(t2, {owner}, {group})
  <2>1. owner # None
    OBVIOUS
  <2> QED
    BY <1>9, <2>1, Zenon DEF AllOwned, OwnedBy
<1>11. Files(t2) = {}
  <2>1. t2.file = <<>>
    BY <1>3, <1>7, Zenon
  <2> QED
    BY <2>1 DEF Files
<1> QED
  BY <1>1, <1>6, <1>10, <1>11, Zenon

\* What the archive makes is root's.
Loadable(t) ==
    /\ Ordered(t) /\ AllOwned(t) /\ OwnedBy(t, {root}, {root})
    /\ \A f \in Files(t) : t.file[f].owner = root

LEMMA ParsedIs ==
    ASSUME NEW t, Loadable(t), NEW entry \in [path : SomePath, mode : Modes, file : BOOLEAN],
           Loads(t, FindParent(t, Root, entry.path), entry)
    PROVE  Loadable(Parsed(t, entry, root, root))
<1> DEFINE p == FindParent(t, Root, entry.path)
           d == p.dir
           t2 == Parsed(t, entry, root, root)
<1>1. Ordered(t) /\ AllOwned(t) /\ OwnedBy(t, {root}, {root}) /\ Valid(t)
      /\ \A f \in Files(t) : t.file[f].owner = root
  BY Zenon DEF Loadable, Ordered
<1>2. entry.path \in SomePath /\ entry.mode \in Modes /\ entry.file \in BOOLEAN
  OBVIOUS
<1>3. /\ d # None
      /\ entry.file => Len(t.dir[d].files) < MAX_FILES
      /\ ~ entry.file => /\ ~ DirectoryFull(t, d)
                         /\ Named(t.dir, t.dir[d].subs, Stripped(p.name)) = None
                         /\ PathLen(t.dir[d].fullpath \o Stripped(p.name)) + 3 <= MAX_FULL_PATH_LENGTH
  BY <1>2, Zenon DEF Loads
<1>4. d \in Real(t) /\ d \in Nodes(t) /\ p.name \in LastName /\ ~ Long(Head(Stripped(p.name)))
  <2>1. Root \in Ends(t)
    BY <1>1, ValidIs
  <2>2. d \in Ends(t) /\ p.name \in LastName /\ ~ Long(Head(Stripped(p.name)))
    BY <1>1, <1>2, <1>3, <2>1, FindParentIn, Zenon
  <2>3. d \in Nodes(t) /\ t.dir[d].link = None
    BY <1>3, <2>2, Zenon DEF Ends
  <2>4. t.dir[d].owner # None
    BY <1>1, <2>3, Zenon DEF AllOwned
  <2> QED
    BY <2>2, <2>3, <2>4, Zenon DEF Real
<1>5. root \in Nat \ {None} /\ root \in Nat
  BY DEF root, None
<1> DEFINE mode == t.dir[d].mode
<1>6. mode \in Modes
  BY <1>1, <1>4, ValidIs, NodeIs
<1> DEFINE name == p.name
           node == File(d, name, entry.mode, root, root)
           up == [mode |-> mode, owner |-> root, group |-> root]
           made == WithDots(Entered(t, d, Directory(t, d, name, None, entry.mode, root, root)),
                            Len(t.dir) + 1, d, up)
<1>7. t2 = IF entry.file THEN EnteredFile(t, d, node) ELSE made
  BY Zenon DEF Parsed, Parse
<1>8. CASE entry.file
  <2>1. t2 = EnteredFile(t, d, node)
    BY <1>7, <1>8
  <2>2. node \in FileNode /\ node.parent = d /\ node.owner = root
    BY <1>1, <1>2, <1>4, <1>5, FileIs
  <2> HIDE DEF node
  <2>3. /\ Ordered(t2) /\ WithFile(t, d, node, t2)
        /\ Files(t2) = Files(t) \cup {Len(t.file) + 1}
        /\ AllOwned(t) => AllOwned(t2)
        /\ \A U, G : OwnedBy(t, U, G) => OwnedBy(t2, U, G)
    <3> DEFINE u == EnteredFile(t, d, node)
    <3>1. Len(t.dir[d].files) < MAX_FILES
      BY <1>3, <1>8
    <3>2. /\ Ordered(u) /\ WithFile(t, d, node, u)
          /\ Files(u) = Files(t) \cup {Len(t.file) + 1}
          /\ AllOwned(t) => AllOwned(u)
          /\ \A U, G : OwnedBy(t, U, G) => OwnedBy(u, U, G)
      <4> HIDE DEF p
      <4> QED
        BY <1>1, <1>4, <2>2, <3>1, FileEntered
    <3> HIDE DEF u, t2
    <3>3. t2 = u
      BY <2>1 DEF u
    <3> QED
      BY <3>2, <3>3, Zenon
  <2> HIDE DEF t2, p
  <2>4. \A f \in Files(t2) : t2.file[f].owner = root
    BY <1>1, <2>2, <2>3, Zenon DEF WithFile
  <2> QED
    BY <1>1, <2>3, <2>4, Zenon DEF Loadable, t2
<1>9. CASE ~ entry.file
  <2>1. t2 = made
    BY <1>7, <1>9
  <2>2. up.mode = mode /\ up.owner = root /\ up.group = root
    OBVIOUS
  <2> HIDE DEF up, mode
  <2>3. Len(t.dir[d].subs) < MAX_DIRECTORIES
    <3> DEFINE k == Len(t.dir[d].subs)
    <3>1. t.dir[d].subs \in Seq(Nat)
      BY <1>1, <1>4, ValidIs, NodeIs
    <3>2. k \in Nat
      BY <3>1
    <3>3. ~ k >= MAX_DIRECTORIES
      BY <1>3, <1>9, Zenon DEF DirectoryFull
    <3> HIDE DEF k
    <3>4. k < MAX_DIRECTORIES
      BY <3>2, <3>3, MaximaAssumption
    <3> QED
      BY <3>4 DEF k
  <2>4. Named(t.dir, t.dir[d].subs, Stripped(name)) = None
        /\ PathLen(t.dir[d].fullpath \o Stripped(name)) + 3 <= MAX_FULL_PATH_LENGTH
    BY <1>3, <1>9
  <2> DEFINE n == Len(t.dir) + 1
  <2> HIDE DEF p
  <2>5. /\ Ordered(made) /\ IsMade(t, d, name, entry.mode, root, root, made, n)
        /\ \A U, G : OwnedBy(t, U, G) /\ root \in U /\ root \in G => OwnedBy(made, U, G)
        /\ AllOwned(t) => AllOwned(made)
    BY <1>1, <1>2, <1>4, <1>5, <1>6, <2>2, <2>3, <2>4, MadeIs
  <2> HIDE DEF made, n
  <2>6. made.file = t.file
    BY <2>5, Zenon DEF IsMade
  <2>7. Files(made) = Files(t)
    BY <2>6, Zenon DEF Files
  <2>8. OwnedBy(made, {root}, {root})
    BY <1>1, <2>5, Zenon
  <2>9. \A f \in Files(made) : made.file[f].owner = root
    BY <1>1, <2>6, <2>7, Zenon
  <2>10. Loadable(made)
    BY <1>1, <2>5, <2>8, <2>9, Zenon DEF Loadable
  <2> QED
    BY <2>1, <2>10
<1> QED
  BY <1>8, <1>9

\* What the boot begins with.
LEMMA LoadedIsGood ==
    ASSUME NEW a \in Archive
    PROVE  /\ Loadable(Loaded(a))
           /\ GetFileFrom(Loaded(a), None, InitialProgram) # None
           /\ GetFileFrom(Loaded(a), None, SudoPath) # None
<1> DEFINE E == [path : SomePath, mode : Modes, file : BOOLEAN]
           N == Len(a)
           T(k) == Loaded(SubSeq(a, 1, k))
           X == {t \in Tree : Loadable(t)}
           f == [k \in 0 .. N |-> T(k)]
<1>1. /\ a \in Seq(E)
      /\ \A i \in DOMAIN a : Loads(T(i - 1), FindParent(T(i - 1), Root, a[i].path), a[i])
      /\ GetFileFrom(Loaded(a), None, InitialProgram) # None
      /\ GetFileFrom(Loaded(a), None, SudoPath) # None
  BY ArchiveAssumption, Zenon DEF SudoPath
<1> HIDE DEF E
<1>2. /\ T(0) = RootTree(Mode755, root, root) /\ T(N) = Loaded(a)
      /\ \A k \in 1 .. N : T(k) = Parsed(T(k - 1), a[k], root, root)
  BY <1>1, LoadedIs
<1>3. N \in Nat /\ DOMAIN a = 1 .. N /\ \A i \in 1 .. N : a[i] \in E
  BY <1>1
<1> HIDE DEF N
<1>4. T(0) \in X
  <2>1. Mode755 \in Modes /\ root \in Nat \ {None} /\ root \in Nat
    <3>1. Mode755 \in Modes
      BY DEF Mode755, Modes, Permission
    <3> QED
      BY <3>1 DEF root, None
  <2> DEFINE t == RootTree(Mode755, root, root)
  <2>2. Ordered(t) /\ AllOwned(t) /\ OwnedBy(t, {root}, {root}) /\ Files(t) = {}
    BY <2>1, RootTreeIs
  <2> HIDE DEF t
  <2>3. t \in Tree /\ Loadable(t)
    BY <2>2, Zenon DEF Loadable, Ordered, Valid
  <2> QED
    BY <1>2, <2>3, Zenon DEF t
<1>5. ASSUME NEW k \in 1 .. N, T(k - 1) \in X PROVE T(k) \in X
  <2> DEFINE t == T(k - 1)
             e == a[k]
  <2>1. e \in E /\ Loads(t, FindParent(t, Root, e.path), e) /\ T(k) = Parsed(t, e, root, root)
    BY <1>1, <1>2, <1>3, Zenon
  <2>2. Loadable(t)
    BY <1>5, Zenon
  <2> HIDE DEF t, e, T
  <2>3. Loadable(T(k))
    BY <2>1, <2>2, ParsedIs, Zenon DEF E
  <2>4. T(k) \in Tree
    BY <2>3, Zenon DEF Loadable, Ordered, Valid
  <2> QED
    BY <2>3, <2>4, Zenon
<1> HIDE DEF T, X
<1>6. 0 \in 0 .. N /\ N \in 0 .. N /\ \A k \in 1 .. N : k \in 0 .. N /\ k - 1 \in 0 .. N
  BY <1>3
<1>7. f[0] = T(0) /\ f[N] = T(N) /\ \A k \in 1 .. N : f[k] = T(k) /\ f[k - 1] = T(k - 1)
  BY <1>6, Zenon
<1> HIDE DEF f
<1>8. f[N] \in X
  <2>1. \A k \in 1 .. N : f[k - 1] \in X => f[k] \in X
    BY <1>5, <1>7, Zenon
  <2> QED
    BY <1>3, <1>4, <1>7, <2>1, Within, Zenon
<1>9. Loadable(Loaded(a))
  BY <1>2, <1>7, <1>8, Zenon DEF X
<1> QED
  BY <1>1, <1>9

\* The owners of some are changed, in a tree that has nothing given up.
LEMMA WithOwnerIs ==
    ASSUME NEW t, Ordered(t), AllOwned(t), NEW dirs, NEW files,
           NEW owner \in Nat \ {None}, NEW group \in Nat
    PROVE  LET t2 == WithOwner(t, dirs, files, owner, group) IN
           /\ Ordered(t2) /\ AllOwned(t2) /\ Grown(t, t2) /\ Real(t2) = Real(t)
           /\ Files(t2) = Files(t)
           /\ \A f \in Files(t) : t2.file[f].owner \in {t.file[f].owner, owner}
           /\ \A U, G : OwnedBy(t, U, G) /\ owner \in U /\ group \in G => OwnedBy(t2, U, G)
<1> DEFINE D(x) == [t.dir[x] EXCEPT !.owner = owner, !.group = group]
           F(f) == [t.file[f] EXCEPT !.owner = owner, !.group = group]
           dir == [x \in DOMAIN t.dir |-> IF x \in dirs THEN D(x) ELSE t.dir[x]]
           file == [f \in DOMAIN t.file |-> IF f \in files THEN F(f) ELSE t.file[f]]
           t2 == WithOwner(t, dirs, files, owner, group)
<1>1. t2.dir = dir /\ t2.file = file /\ t2 = [dir |-> dir, file |-> file]
  <2>1. t2 = [dir |-> dir, file |-> file]
    BY Zenon DEF WithOwner
  <2> HIDE DEF dir, file
  <2> QED
    BY <2>1
<1>2. Valid(t) /\ owner \in Nat
  BY Zenon DEF Ordered
<1>3. /\ DOMAIN t.dir = Nodes(t) /\ DOMAIN t.file = Files(t)
      /\ Len(t.dir) \in Nat /\ Len(t.file) \in Nat
      /\ \A d \in Nodes(t) : t.dir[d] \in Node
      /\ \A f \in Files(t) : t.file[f] \in FileNode
  BY <1>2, ValidIs
<1>4. ASSUME NEW x \in Nodes(t)
      PROVE  LET n == t.dir[x] IN
             /\ D(x) \in Node /\ D(x).owner = owner /\ D(x).group = group
             /\ D(x).name = n.name /\ D(x).fullpath = n.fullpath /\ D(x).parent = n.parent
             /\ D(x).link = n.link /\ D(x).mode = n.mode /\ D(x).subs = n.subs
             /\ D(x).files = n.files
  <2> DEFINE n == t.dir[x]
             m == [n EXCEPT !.owner = owner, !.group = group]
  <2>1. n \in Node
    BY <1>3, Zenon
  <2> HIDE DEF n
  <2>2. m \in Node
    BY <1>2, <2>1, Zenon DEF Node
  <2>3. /\ m.owner = owner /\ m.group = group
        /\ m.name = n.name /\ m.fullpath = n.fullpath /\ m.parent = n.parent
        /\ m.link = n.link /\ m.mode = n.mode /\ m.subs = n.subs
        /\ m.files = n.files
    BY <2>1, Zenon DEF Node
  <2> QED
    BY <2>2, <2>3, Zenon DEF n
<1>5. ASSUME NEW f \in Files(t)
      PROVE  LET n == t.file[f] IN
             /\ F(f) \in FileNode /\ F(f).owner = owner
             /\ F(f).name = n.name /\ F(f).parent = n.parent
  <2> DEFINE n == t.file[f]
             m == [n EXCEPT !.owner = owner, !.group = group]
  <2>1. n \in FileNode
    BY <1>3, Zenon
  <2> HIDE DEF n
  <2>2. m \in FileNode
    BY <1>2, <2>1, Zenon DEF FileNode
  <2>3. m.owner = owner /\ m.name = n.name /\ m.parent = n.parent
    BY <2>1, Zenon DEF FileNode
  <2> QED
    BY <2>2, <2>3, Zenon DEF n
<1> HIDE DEF D, F
<1>6. /\ \A x \in Nodes(t) : dir[x] = IF x \in dirs THEN D(x) ELSE t.dir[x]
      /\ \A f \in Files(t) : file[f] = IF f \in files THEN F(f) ELSE t.file[f]
      /\ DOMAIN dir = Nodes(t) /\ DOMAIN file = Files(t)
  BY <1>3, Zenon
<1>7. dir \in [Nodes(t) -> Node] /\ file \in [Files(t) -> FileNode]
  <2>1. \A x \in Nodes(t) : (IF x \in dirs THEN D(x) ELSE t.dir[x]) \in Node
    BY <1>3, <1>4, Zenon
  <2>2. \A f \in Files(t) : (IF f \in files THEN F(f) ELSE t.file[f]) \in FileNode
    BY <1>3, <1>5, Zenon
  <2> QED
    BY <1>3, <2>1, <2>2, Zenon
<1> HIDE DEF dir, file, t2
<1>8. dir \in Seq(Node) /\ file \in Seq(FileNode) /\ Len(dir) = Len(t.dir) /\ Len(file) = Len(t.file)
  <2> DEFINE m == Len(t.dir)
             k == Len(t.file)
  <2>1. dir \in [1 .. m -> Node] /\ file \in [1 .. k -> FileNode] /\ m \in Nat /\ k \in Nat
    BY <1>3, <1>7 DEF Nodes, Files
  <2> HIDE DEF m, k
  <2>2. dir \in Seq(Node) /\ Len(dir) = m
    BY <2>1
  <2>3. file \in Seq(FileNode) /\ Len(file) = k
    BY <2>1
  <2> QED
    BY <2>2, <2>3 DEF m, k
<1>9. t2 \in Tree /\ Nodes(t2) = Nodes(t) /\ Files(t2) = Files(t)
  <2>1. t2 \in Tree
    BY <1>1, <1>8 DEF Tree
  <2> QED
    BY <1>1, <1>8, <2>1, Zenon DEF Nodes, Files
<1>10. ASSUME NEW d \in Nodes(t)
       PROVE  LET n == t.dir[d]  m == t2.dir[d] IN
              /\ m.name = n.name /\ m.fullpath = n.fullpath /\ m.parent = n.parent /\ m.link = n.link
              /\ m.mode = n.mode /\ (m.owner = None <=> n.owner = None) /\ m.subs = n.subs
              /\ m.files = n.files
              /\ \/ m.owner = n.owner /\ m.group = n.group
                 \/ m.owner = owner /\ m.group = group
  <2>1. owner # None /\ t.dir[d].owner # None
    BY Zenon DEF AllOwned
  <2>2. t2.dir[d] = IF d \in dirs THEN D(d) ELSE t.dir[d]
    BY <1>1, <1>6, Zenon
  <2>3. CASE d \in dirs
    BY <1>4, <2>1, <2>2, <2>3, Zenon
  <2>4. CASE d \notin dirs
    BY <2>2, <2>4, Zenon
  <2> QED
    BY <2>3, <2>4, Zenon
<1>11. ASSUME NEW f \in Files(t)
       PROVE  /\ t2.file[f].name = t.file[f].name /\ t2.file[f].parent = t.file[f].parent
              /\ t2.file[f].owner \in {t.file[f].owner, owner}
  <2>1. t2.file[f] = IF f \in files THEN F(f) ELSE t.file[f]
    BY <1>1, <1>6, Zenon
  <2>2. CASE f \in files
    BY <1>5, <2>1, <2>2, Zenon
  <2>3. CASE f \notin files
    BY <2>1, <2>3, Zenon
  <2> QED
    BY <2>2, <2>3, Zenon
<1>12. Alike(t, t2)
  <2>1. \A d \in Nodes(t) : LET n == t.dir[d].files IN
            /\ Len(n) <= MAX_FILES /\ Len(n) <= Len(n)
            /\ \A i \in 1 .. Len(n) : n[i] \in Files(t)
    <3> TAKE d \in Nodes(t)
    <3>1. t.dir[d].files \in Seq(Nat)
      BY <1>2, ValidIs, NodeIs
    <3>2. Len(t.dir[d].files) <= Len(t.dir[d].files)
      BY <3>1, LenProperties
    <3> QED
      BY <1>2, <3>2, Zenon DEF Valid, Holds
  <2>2. \A f \in Files(t) : t.file[f].parent \in Nodes(t)
    BY <1>2, Zenon DEF Valid
  <2>3. \A d \in Nodes(t) : LET n == t.dir[d].files  m == t2.dir[d].files IN
            /\ Len(m) <= MAX_FILES /\ Len(n) <= Len(m)
            /\ \A i \in 1 .. Len(n) : m[i] = n[i]
            /\ \A i \in 1 .. Len(m) : m[i] \in Files(t2)
    BY <1>9, <1>10, <2>1, Zenon
  <2>4. \A f \in Files(t2) : t2.file[f].parent \in Nodes(t)
    BY <1>9, <1>11, <2>2, Zenon
  <2> QED
    BY <1>9, <1>10, <1>11, <2>3, <2>4, Zenon DEF Alike
<1>13. Ordered(t2) /\ Grown(t, t2) /\ Real(t2) = Real(t)
  BY <1>12, AlikeIs
<1>14. AllOwned(t2)
  BY <1>9, <1>10, Zenon DEF AllOwned
<1>15. \A U, G : OwnedBy(t, U, G) /\ owner \in U /\ group \in G => OwnedBy(t2, U, G)
  BY <1>9, <1>10, Zenon DEF OwnedBy
<1> QED
  BY <1>9, <1>11, <1>13, <1>14, <1>15, Zenon DEF t2

-----------------------------------------------------------------------------
(* Users and groups.                                                       *)

LEMMA TablesAre ==
    ASSUME NEW a \in Tables
    PROVE  /\ a.user \in Seq(Account) /\ a.group \in Seq(Group)
           /\ Len(a.user) \in Nat /\ Len(a.group) \in Nat
           /\ DOMAIN a.user = Users(a) /\ DOMAIN a.group = Groups(a)
           /\ \A u \in Users(a) : a.user[u] \in Account /\ a.user[u].groups \in Seq(Nat)
                                  /\ a.user[u].iwdir \in Nat /\ u \in Nat
           /\ \A g \in Groups(a) : a.group[g] \in Group /\ a.group[g].members \in Seq(Nat)
                                   /\ g \in Nat
<1>1. a.user \in Seq(Account) /\ a.group \in Seq(Group)
  BY DEF Tables
<1>2. \A u \in Account : u.groups \in Seq(Nat) /\ u.iwdir \in Nat
  BY DEF Account
<1>3. \A g \in Group : g.members \in Seq(Nat)
  BY DEF Group
<1>4. DOMAIN a.user = Users(a) /\ \A u \in Users(a) : a.user[u] \in Account /\ u \in Nat
  BY <1>1 DEF Users
<1>5. DOMAIN a.group = Groups(a) /\ \A g \in Groups(a) : a.group[g] \in Group /\ g \in Nat
  BY <1>1 DEF Groups
<1>6. Len(a.user) \in Nat /\ Len(a.group) \in Nat
  BY <1>1
<1> QED
  BY <1>1, <1>2, <1>3, <1>4, <1>5, <1>6, Zenon

\* A user who is in a group.
LEMMA AddUserIs ==
    ASSUME NEW a \in Tables, NEW u \in Users(a), NEW g \in Groups(a)
    PROVE  LET b == AddUserToGroup(a, u, g) IN
           /\ b \in Tables /\ Len(b.user) = Len(a.user) /\ Len(b.group) = Len(a.group)
           /\ \A x \in Users(a) : b.user[x].iwdir = a.user[x].iwdir /\ b.user[x].name = a.user[x].name
                                  /\ (x # u => b.user[x] = a.user[x])
           /\ \/ b.user[u].groups = a.user[u].groups
              \/ b.user[u].groups = Append(a.user[u].groups, g)
           /\ Len(a.group[g].members) = 0 /\ Len(a.user[u].groups) = 0 =>
                  b.user[u].groups = Append(a.user[u].groups, g)
<1> DEFINE b == AddUserToGroup(a, u, g)
           joined == Append(a.user[u].groups, g)
           members == Append(a.group[g].members, u)
           user == [a.user[u] EXCEPT !.groups = joined]
           group == [a.group[g] EXCEPT !.members = members]
           full == \/ Len(a.group[g].members) >= MAX_GROUP_MEMBERS
                   \/ Len(a.user[u].groups) >= MAX_USER_GROUPS
<1>1. /\ a.user \in Seq(Account) /\ a.group \in Seq(Group)
      /\ DOMAIN a.user = Users(a) /\ DOMAIN a.group = Groups(a)
      /\ a.user[u] \in Account /\ a.user[u].groups \in Seq(Nat)
      /\ a.group[g] \in Group /\ a.group[g].members \in Seq(Nat) /\ u \in Nat /\ g \in Nat
  BY TablesAre
<1>2. joined \in Seq(Nat) /\ members \in Seq(Nat)
  BY <1>1
<1>3. full => b = a
  BY Zenon DEF AddUserToGroup
<1>4. Len(a.group[g].members) = 0 /\ Len(a.user[u].groups) = 0 => ~ full
  BY TableAssumption
<1>5. CASE full
  BY <1>3, <1>4, <1>5, Zenon
<1>6. CASE ~ full
  <2>1. b = [a EXCEPT !.group = [a.group EXCEPT ![g] = group], !.user = [a.user EXCEPT ![u] = user]]
    <3> DEFINE gs == [a.group EXCEPT ![g].members = Append(@, u)]
               us == [a.user EXCEPT ![u].groups = Append(@, g)]
    <3>1. b = [a EXCEPT !.group = gs, !.user = us]
      BY <1>6 DEF AddUserToGroup, Tables
    <3>2. gs = [a.group EXCEPT ![g] = group]
      BY <1>1
    <3>3. us = [a.user EXCEPT ![u] = user]
      BY <1>1
    <3> HIDE DEF gs, us, b
    <3> QED
      BY <3>1, <3>2, <3>3
  <2> HIDE DEF joined, members, b
  <2>2. user \in Account /\ user.groups = joined /\ user.iwdir = a.user[u].iwdir
        /\ user.name = a.user[u].name
    BY <1>1, <1>2, Zenon DEF Account
  <2>3. group \in Group
    BY <1>1, <1>2, Zenon DEF Group
  <2> HIDE DEF user, group
  <2> DEFINE us == [a.user EXCEPT ![u] = user]
             gs == [a.group EXCEPT ![g] = group]
  <2>4. us \in Seq(Account) /\ Len(us) = Len(a.user) /\ us[u] = user
        /\ \A x \in Users(a) : x # u => us[x] = a.user[x]
    BY <1>1, <2>2, ExceptSeq DEF Users
  <2>5. gs \in Seq(Group) /\ Len(gs) = Len(a.group)
    BY <1>1, <2>3, ExceptSeq DEF Groups
  <2> HIDE DEF us, gs
  <2>6. b \in Tables /\ b.user = us /\ b.group = gs
    <3>1. b = [a EXCEPT !.group = gs, !.user = us]
      BY <2>1 DEF us, gs
    <3> QED
      BY <2>4, <2>5, <3>1, Zenon DEF Tables
  <2> QED
    BY <2>2, <2>4, <2>5, <2>6, Zenon DEF b, joined
<1> QED
  BY <1>5, <1>6

LEMMA CreateGroupIs ==
    ASSUME NEW a \in Tables, NEW name \in Name \cup {"sudoers"}
    PROVE  LET b == CreateGroup(a, name)
               k == Len(a.group) + 1
           IN  /\ b \in Tables /\ b.user = a.user /\ Len(b.group) = k /\ k \in Groups(b)
               /\ b.group[k].members = <<>>
<1> DEFINE k == Len(a.group) + 1
           new == [name |-> name, members |-> <<>>]
           gs == Append(a.group, new)
           b == CreateGroup(a, name)
<1>1. a.group \in Seq(Group) /\ Len(a.group) \in Nat
  BY TablesAre
<1>2. new \in Group /\ new.members = <<>>
  <2>1. <<>> \in Seq(Nat)
    OBVIOUS
  <2>2. [name |-> name, members |-> <<>>].members = <<>>
    BY Zenon
  <2> QED
    BY <2>1, <2>2, Zenon DEF Group
<1>3. b = [a EXCEPT !.group = gs]
  BY Zenon DEF CreateGroup
<1> HIDE DEF new
<1>4. gs \in Seq(Group) /\ Len(gs) = k /\ gs[k] = new /\ k \in 1 .. k
  BY <1>1, <1>2
<1> HIDE DEF gs, k, b
<1>5. b \in Tables /\ b.group = gs /\ b.user = a.user
  BY <1>3, <1>4, Zenon DEF Tables
<1> QED
  BY <1>2, <1>4, <1>5, Zenon DEF k, b, Groups

LEMMA CreateUserIs ==
    ASSUME NEW m \in Nat, NEW n \in Nat, NEW a, AccountsAre(a, m, n), m < MAX_USERS,
           NEW name \in Name
    PROVE  LET b == CreateUser(a, name) IN
           /\ AccountsAre(b, m + 1, n + 1)
           /\ b.user[m + 1].name = name /\ Head(b.user[m + 1].groups) = n + 1
           /\ m + 1 \in Users(b) /\ n + 1 \in Groups(b) /\ Len(b.user) = m + 1
<1> DEFINE u == m + 1
           g == n + 1
           new == [name |-> name, groups |-> <<>>, home |-> 0, iwdir |-> 1]
           us == Append(a.user, new)
           c == CreateGroup(a, name)
           d == [c EXCEPT !.user = us]
           b == CreateUser(a, name)
<1>1. /\ a \in Tables /\ Len(a.user) = m /\ Len(a.group) = n
      /\ \A x \in Users(a) : Len(a.user[x].groups) > 0 /\ Head(a.user[x].groups) \in Groups(a)
  BY Zenon DEF AccountsAre, Tables
<1>2. /\ c \in Tables /\ c.user = a.user /\ Len(c.group) = g /\ g \in Groups(c)
      /\ c.group[g].members = <<>>
  BY <1>1, CreateGroupIs
<1>3. b = AddUserToGroup(d, u, g)
  <2>1. ~ Len(a.user) >= MAX_USERS
    BY <1>1, TableAssumption
  <2>2. d = [c EXCEPT !.user = Append(@, new)]
    BY <1>2 DEF Tables
  <2> QED
    BY <1>1, <2>1, <2>2 DEF CreateUser
<1>4. new \in Account /\ new.name = name /\ new.groups = <<>>
  <2>1. <<>> \in Seq(Nat) /\ 0 \in Nat /\ 1 \in Nat
    OBVIOUS
  <2>2. /\ [name |-> name, groups |-> <<>>, home |-> 0, iwdir |-> 1].name = name
        /\ [name |-> name, groups |-> <<>>, home |-> 0, iwdir |-> 1].groups = <<>>
    BY Zenon
  <2> QED
    BY <2>1, <2>2, Zenon DEF Account
<1> HIDE DEF new
<1>5. /\ us \in Seq(Account) /\ Len(us) = u /\ us[u] = new /\ u \in 1 .. u
      /\ \A x \in Users(a) : us[x] = a.user[x]
      /\ \A x \in 1 .. u : x \in Users(a) \/ x = u
  <2>1. a.user \in Seq(Account)
    BY <1>1, TablesAre
  <2> QED
    BY <1>1, <1>4, <2>1 DEF Users
<1> HIDE DEF us, c, b
<1>6. d \in Tables /\ d.user = us /\ d.group = c.group
  BY <1>2, <1>5, Zenon DEF Tables
<1> HIDE DEF d, u, g
<1>7. /\ u \in Users(d) /\ g \in Groups(d) /\ Users(d) = 1 .. u /\ Groups(d) = Groups(c)
      /\ d.user[u].groups = <<>> /\ d.user[u].name = name /\ d.group[g].members = <<>>
      /\ Len(d.user) = u /\ Len(d.group) = g
  BY <1>2, <1>4, <1>5, <1>6, Zenon DEF Users, Groups
<1>8. /\ b \in Tables /\ Len(b.user) = u /\ Len(b.group) = g
      /\ \A x \in Users(d) : b.user[x].name = d.user[x].name /\ (x # u => b.user[x] = d.user[x])
      /\ b.user[u].groups = Append(<<>>, g)
  <2>1. Len(<<>>) = 0
    OBVIOUS
  <2>2. LET e == AddUserToGroup(d, u, g) IN
        /\ e \in Tables /\ Len(e.user) = Len(d.user) /\ Len(e.group) = Len(d.group)
        /\ \A x \in Users(d) : e.user[x].iwdir = d.user[x].iwdir /\ e.user[x].name = d.user[x].name
                               /\ (x # u => e.user[x] = d.user[x])
        /\ Len(d.group[g].members) = 0 /\ Len(d.user[u].groups) = 0 =>
               e.user[u].groups = Append(d.user[u].groups, g)
    BY <1>6, <1>7, AddUserIs
  <2> QED
    BY <1>3, <1>7, <2>1, <2>2, Zenon
<1>9. Len(Append(<<>>, g)) > 0 /\ Head(Append(<<>>, g)) = g
  OBVIOUS
<1>10. Groups(a) \subseteq Groups(b) /\ g \in Groups(b) /\ Users(b) = 1 .. u
  <2>1. Groups(a) \subseteq 1 .. g /\ g \in 1 .. g
    BY <1>1 DEF Groups, g
  <2> QED
    BY <1>8, <2>1, Zenon DEF Groups, Users
<1>11. \A x \in Users(b) : Len(b.user[x].groups) > 0 /\ Head(b.user[x].groups) \in Groups(b)
  <2> TAKE x \in Users(b)
  <2>1. CASE x = u
    BY <1>8, <1>9, <1>10, <2>1, Zenon
  <2>2. CASE x # u
    <3>1. x \in Users(a) /\ x \in Users(d)
      BY <1>5, <1>7, <1>10, <2>2, Zenon
    <3>2. b.user[x] = a.user[x]
      BY <1>5, <1>6, <1>8, <2>2, <3>1, Zenon
    <3> QED
      BY <1>1, <1>10, <3>1, <3>2, Zenon
  <2> QED
    BY <2>1, <2>2
<1>12. AccountsAre(b, u, g)
  BY <1>8, <1>11, Zenon DEF AccountsAre, Tables
<1> QED
  BY <1>7, <1>8, <1>9, <1>10, <1>12, Zenon DEF u, g, b

-----------------------------------------------------------------------------
(* The homes.                                                              *)

\* A directory that was made is found, with nothing but its dots.
LEMMA CreatedIsFound ==
    ASSUME NEW t, Ordered(t), NEW p \in Real(t), NEW h \in Name, h # Empty, ~ Long(h),
           Child(t, p, <<h>>) = None,
           NEW mode \in Modes, NEW owner \in Nat \ {None}, NEW group \in Nat
    PROVE  LET t2 == CreateDirectory(t, p, <<h>>, mode, owner, group).tree
               e  == Child(t2, p, <<h>>)
           IN  \/ e = None
               \/ /\ e \in Real(t2)
                  /\ \A c : c \notin {DotName, UpName, <<Empty>>} => Child(t2, e, c) = None
<1> DEFINE name == <<h>>
           r == CreateDirectory(t, p, name, mode, owner, group)
           n == Len(t.dir) + 1
<1>0. Valid(t) /\ p \in Nodes(t) /\ p # None
  <2>1. Valid(t) /\ p \in Nodes(t)
    BY Zenon DEF Ordered, Real
  <2> QED
    BY <2>1, ValidIs, Zenon
<1>1. name \in LastName /\ Stripped(name) = name /\ Head(Stripped(name)) = h /\ name # <<Empty>>
  <2>1. name \in LastName
    BY NamesAre, Zenon
  <2>2. Stripped(name) = name /\ Head(Stripped(name)) = h
    BY StrippedOf, Zenon
  <2>3. name[1] = h /\ <<Empty>>[1] = Empty
    OBVIOUS
  <2> QED
    BY <2>1, <2>2, <2>3, Zenon
<1>2. Named(t.dir, t.dir[p].subs, name) = None
  BY ChildNone, Zenon
<1> HIDE DEF name
<1>3. CASE DirectoryFull(t, p)
  <2>1. r = [tree |-> t, dir |-> None]
    BY <1>3, Zenon DEF CreateDirectory
  <2>2. r.tree = t
    BY <2>1
  <2> HIDE DEF r
  <2> QED
    BY <2>2, Zenon DEF r, name
<1>4. ~ DirectoryFull(t, p) => Len(t.dir[p].subs) < MAX_DIRECTORIES
  <2>1. t.dir[p].subs \in Seq(Nat)
    BY <1>0, ValidIs, NodeIs
  <2> DEFINE k == Len(t.dir[p].subs)
  <2>2. k \in Nat
    BY <2>1
  <2> HIDE DEF k
  <2>3. ~ k >= MAX_DIRECTORIES => k < MAX_DIRECTORIES
    BY <2>2, MaximaAssumption
  <2> QED
    BY <2>3 DEF DirectoryFull, k
<1>5. CASE ~ DirectoryFull(t, p) /\ ~ PathFits(t, p, name)
  <2> DEFINE t2 == Entered(t, p, Nameless(p))
             s == t.dir[p].subs
             s2 == t2.dir[p].subs
  <2>1. r = [tree |-> t2, dir |-> None]
    BY <1>5, Zenon DEF CreateDirectory
  <2>2. r.tree = t2
    BY <2>1
  <2>3. Fresh(t, p, Nameless(p)) /\ IsNameless(Nameless(p))
    BY <1>0, NamelessIs
  <2>4. With(t, p, Nameless(p), t2)
    BY <1>0, <2>3, EnteredIs DEF Fresh
  <2> HIDE DEF t2, r
  <2>5. /\ t2.dir[n] = Nameless(p) /\ s2 = Append(s, n)
        /\ \A d \in Nodes(t) : t2.dir[d].name = t.dir[d].name
    BY <1>0, <2>4, Zenon DEF With, Same
  <2>6. s \in Seq(Nat) /\ n \in Nat /\ \A i \in 1 .. Len(s) : s[i] \in Nodes(t)
    <3>1. s \in Seq(Nat) /\ n \in Nat
      BY <1>0, ValidIs, NodeIs
    <3>2. \A i \in 1 .. Len(s) : s[i] \in Nodes(t)
      BY <1>0, Zenon DEF Valid, Holds
    <3> QED
      BY <3>1, <3>2
  <2>7. \A i \in 1 .. Len(s) : t.dir[s[i]].name # name
    <3>1. \A i : IsFirst(t.dir, s, name, i) => s[i] # None
      <4>1. \A i : IsFirst(t.dir, s, name, i) => i \in 1 .. Len(s)
        BY Zenon DEF IsFirst
      <4>2. \A d \in Nodes(t) : d # None
        BY <1>0, ValidIs, Zenon
      <4> QED
        BY <2>6, <4>1, <4>2, Zenon
    <3>2. ASSUME NEW c
          PROVE  \/ /\ Named(t.dir, s, c) = None
                    /\ \A i \in 1 .. Len(s) : t.dir[s[i]].name # c
                 \/ \E i : IsFirst(t.dir, s, c, i) /\ Named(t.dir, s, c) = s[i]
      <4> HIDE DEF s
      <4> QED
        BY <2>6, NamedIs
    <3>3. Named(t.dir, s, name) = None
      BY <1>2 DEF s
    <3> HIDE DEF s
    <3> QED
      BY <3>1, <3>2, <3>3, Zenon
  <2> HIDE DEF s, s2, n
  <2>8. s2 \in Seq(Nat) /\ Len(s2) = Len(s) + 1 /\ s2[Len(s) + 1] = n
        /\ \A i \in 1 .. Len(s) : s2[i] = s[i]
    BY <2>5, <2>6
  <2>9. \A i \in 1 .. Len(s) + 1 : i \in 1 .. Len(s) \/ i = Len(s) + 1
    BY <2>6
  <2>10. \A i \in 1 .. Len(s2) : t2.dir[s2[i]].name # name
    <3> TAKE i \in 1 .. Len(s2)
    <3>1. CASE i \in 1 .. Len(s)
      BY <2>5, <2>6, <2>7, <2>8, <3>1, Zenon
    <3>2. CASE i = Len(s) + 1
      <4>1. t2.dir[s2[i]].name = <<Empty>>
        BY <2>3, <2>5, <2>8, <3>2, Zenon DEF IsNameless
      <4> QED
        BY <1>1, <4>1, Zenon
    <3> QED
      BY <2>8, <2>9, <3>1, <3>2, Zenon
  <2>11. Named(t2.dir, s2, name) = None
    <3>1. ASSUME NEW c
          PROVE  \/ /\ Named(t2.dir, s2, c) = None
                    /\ \A i \in 1 .. Len(s2) : t2.dir[s2[i]].name # c
                 \/ \E i : IsFirst(t2.dir, s2, c, i) /\ Named(t2.dir, s2, c) = s2[i]
      <4>1. s2 \in Seq(Nat)
        BY <2>8
      <4> QED
        BY <4>1, NamedIs
    <3> QED
      BY <2>10, <3>1, Zenon DEF IsFirst
  <2>12. Child(t2, p, name) = None
    BY <2>11, Zenon DEF Child, s2
  <2> QED
    BY <2>2, <2>12, Zenon DEF r, name
<1>6. CASE ~ DirectoryFull(t, p) /\ PathFits(t, p, name)
  <2> DEFINE node == Directory(t, p, name, None, mode, owner, group)
             t1 == Entered(t, p, node)
             t2 == WithDots(t1, n, p, t.dir[p])
  <2>1. r = [tree |-> t2, dir |-> n]
    BY <1>6, Zenon DEF CreateDirectory
  <2>2. r.tree = t2
    BY <2>1
  <2>3. ~ Long(Head(Stripped(name))) /\ Named(t.dir, t.dir[p].subs, Stripped(name)) = None
    BY <1>1, <1>2, Zenon
  <2>4. /\ Undotted(t1, {n}) /\ Real(t1) = Real(t) \cup {n} /\ t1.dir[n].subs = <<>>
        /\ With(t, p, node, t1) /\ Fresh(t, p, node)
        /\ IsNamed(t, p, name, None, mode, owner, group, node)
        /\ Grown(t, t1) /\ Nodes(t1) = Nodes(t) \cup {n} /\ n \notin Nodes(t)
    BY <1>1, <1>4, <1>6, <2>3, DirectoryEntered
  <2> HIDE DEF node, t1
  <2>5. t1.dir[n] = node /\ Valid(t1) /\ node.parent = p
    BY <2>4, Zenon DEF With, Fresh, Undotted
  <2>6. Ordered(t2) /\ DotsIn(t1, n, p, t.dir[p], t2) /\ Real(t2) = Real(t1)
    <3>1. n \in Real(t1) /\ p \in Real(t1)
      BY <2>4, Zenon
    <3>2. Root \in Nodes(t)
      BY <1>0, ValidIs
    <3>3. p = Up(t1, n)
      BY <2>4, <2>5, <3>2, Zenon DEF Up
    <3>4. t.dir[p].mode \in Modes /\ t.dir[p].owner \in Nat \ {None} /\ t.dir[p].group \in Nat
      <4>1. t.dir[p].mode \in Modes /\ t.dir[p].owner \in Nat /\ t.dir[p].group \in Nat
        BY <1>0, ValidIs, NodeIs
      <4>2. t.dir[p].owner # None
        BY Zenon DEF Real
      <4> QED
        BY <4>1, <4>2
    <3> HIDE DEF n
    <3> QED
      BY <2>4, <3>1, <3>3, <3>4, DotsOrdered
  <2> HIDE DEF t2, r
  <2>7. Valid(t2) /\ Grown(t1, t2) /\ n \in Real(t2) /\ n # None
    <3>1. Valid(t2) /\ Grown(t1, t2) /\ n \in Real(t2)
      BY <2>4, <2>6, Zenon DEF Ordered, DotsIn
    <3>2. n \in Nodes(t2)
      BY <3>1, Zenon DEF Real
    <3> QED
      BY <3>1, <3>2, ValidIs, Zenon
  <2>8. Child(t2, p, name) = n
    <3>1. Named(t1.dir, t1.dir[p].subs, name) = n
      <4>1. node.name = name
        BY <2>4, Zenon DEF IsNamed
      <4>2. Named(t1.dir, t1.dir[p].subs, node.name) = Len(t.dir) + 1
        BY <1>0, <1>2, <2>4, <4>1, EnteredIsFound
      <4> QED
        BY <4>1, <4>2 DEF n
    <3>2. t1.dir[n].link = None
      BY <2>4, <2>5, Zenon DEF IsNamed
    <3> HIDE DEF n
    <3>3. Child(t1, p, name) = n
      BY <3>1, <3>2, Zenon DEF Child
    <3>4. p \in Nodes(t1)
      BY <1>0, <2>4, Zenon
    <3>5. Child(t1, p, name) # None
      BY <2>7, <3>3, Zenon
    <3>6. Child(t2, p, name) = Child(t1, p, name)
      BY <2>5, <2>7, <3>4, <3>5, ChildGrows
    <3> QED
      BY <3>3, <3>6, Zenon
  <2> DEFINE d1 == Len(t1.dir) + 1
             d2 == Len(t1.dir) + 2
             s == t2.dir[n].subs
  <2>9. /\ s = <<d1, d2>>
        /\ t2.dir[d1].name \in {DotName, <<Empty>>} /\ t2.dir[d2].name \in {UpName, <<Empty>>}
    BY <2>6, Zenon DEF DotsIn, IsDot, IsNameless
  <2>10. s \in Seq(Nat) /\ \A i \in 1 .. Len(s) : s[i] \in {d1, d2}
    <3>1. Len(t1.dir) \in Nat
      BY <2>5, ValidIs
    <3> DEFINE e == <<d1, d2>>
    <3>2. e \in Seq(Nat) /\ \A i \in 1 .. Len(e) : e[i] \in {d1, d2}
      BY <3>1
    <3> HIDE DEF e, s, d1, d2
    <3> QED
      BY <2>9, <3>2 DEF e
  <2> HIDE DEF s, d1, d2
  <2>11. ASSUME NEW c, c \notin {DotName, UpName, <<Empty>>} PROVE Child(t2, n, c) = None
    <3>1. \/ /\ Named(t2.dir, s, c) = None
             /\ \A i \in 1 .. Len(s) : t2.dir[s[i]].name # c
          \/ \E i : IsFirst(t2.dir, s, c, i) /\ Named(t2.dir, s, c) = s[i]
      BY <2>10, NamedIs
    <3>2. \A i \in 1 .. Len(s) : t2.dir[s[i]].name # c
      BY <2>9, <2>10, <2>11, Zenon
    <3>3. Named(t2.dir, s, c) = None
      BY <3>1, <3>2, Zenon DEF IsFirst
    <3> QED
      BY <3>3, Zenon DEF Child, s
  <2> QED
    BY <2>2, <2>7, <2>8, <2>11, Zenon DEF r, name
<1> QED
  BY <1>3, <1>5, <1>6

HomeName == "home"
NicoName == "nico"

LEMMA HomeIs ==
    /\ HomeName \in Name /\ HomeName # Empty /\ ~ Long(HomeName)
    /\ NicoName \in Name /\ NicoName # Empty /\ ~ Long(NicoName)
    /\ <<NicoName>> \notin {DotName, UpName, <<Empty>>}
    /\ Home \in SomePath /\ "root" \in Name /\ Home = <<Empty, HomeName>>
<1>1. HomeName \in Name /\ NicoName \in Name /\ "root" \in Name
  BY InputAssumption, Zenon DEF HomeName, NicoName
<1>2. /\ NameLen(HomeName) \in Nat /\ NameLen(NicoName) \in Nat /\ MAX_NAME_LENGTH \in Nat
      /\ NameLen(HomeName) <= MAX_NAME_LENGTH /\ NameLen(NicoName) <= MAX_NAME_LENGTH
  <2>1. NameLen(HomeName) <= MAX_NAME_LENGTH /\ NameLen(NicoName) <= MAX_NAME_LENGTH
    BY InputAssumption, Zenon DEF HomeName, NicoName
  <2> QED
    BY <1>1, <2>1, NameAssumption, DotsAre, Zenon
<1>3. ~ Long(HomeName) /\ ~ Long(NicoName)
  <2> DEFINE a == NameLen(HomeName)
             b == NameLen(NicoName)
  <2>1. a \in Nat /\ b \in Nat /\ MAX_NAME_LENGTH \in Nat /\ a <= MAX_NAME_LENGTH
        /\ b <= MAX_NAME_LENGTH
    BY <1>2
  <2> HIDE DEF a, b
  <2>2. ~ a > MAX_NAME_LENGTH /\ ~ b > MAX_NAME_LENGTH
    BY <2>1
  <2> QED
    BY <2>2 DEF Long, a, b
<1>4. HomeName # Empty /\ NicoName # Empty
  BY Zenon DEF HomeName, NicoName, Empty
<1>5. <<NicoName>> # DotName /\ <<NicoName>> # UpName /\ <<NicoName>> # <<Empty>>
  BY DEF NicoName, DotName, UpName, Empty
<1>6. Home = <<Empty, HomeName>>
  BY Zenon DEF Home, HomeName, Empty
<1>7. Home \in SomePath
  <2> DEFINE e == Empty
             h == HomeName
  <2>1. e \in Name /\ h \in Name
    BY <1>1, NamesAre
  <2> HIDE DEF e, h
  <2>2. <<e, h>> \in Seq(Name) /\ <<e, h>> # <<>>
    BY <2>1
  <2> QED
    BY <1>6, <2>2, Zenon DEF SomePath, e, h
<1> QED
  BY <1>1, <1>3, <1>4, <1>5, <1>6, <1>7

\* /home is what the root has by that name.
LEMMA HomeFound ==
    ASSUME NEW t, Valid(t)
    PROVE  Leads(t, None, Home) = Child(t, Root, <<HomeName>>)
<1> DEFINE e == Empty
           h == HomeName
           path == <<e, h>>
<1>0. h # e /\ e \in Name /\ h \in Name /\ path = Home /\ Root # None
  BY HomeIs, NamesAre, ValidIs DEF Root, None
<1> HIDE DEF e, h
<1>1. /\ path # <<e, e>> /\ Len(path) = 2 /\ Last(path) = h /\ DOMAIN path = {1, 2}
      /\ path[1] = e /\ path[2] = h
      /\ SubSeq(path, 1, 1) = <<e>> /\ SubSeq(path, 2, 2) = <<h>>
  <2>1. path # <<e, e>> /\ Len(path) = 2 /\ DOMAIN path = {1, 2} /\ path[1] = e /\ path[2] = h
    BY <1>0
  <2>2. Last(path) = h
    BY FrontOf, Zenon
  <2>3. SubSeq(path, 1, 1) = <<e>> /\ SubSeq(path, 2, 2) = <<h>>
    <3>1. path \in Seq(Name) /\ Len(path) = 2 /\ path[1] = e /\ path[2] = h
      BY <1>0
    <3> HIDE DEF path
    <3> DEFINE p1 == SubSeq(path, 1, 1)
               p2 == SubSeq(path, 2, 2)
    <3>2. p1 \in Seq(Name) /\ Len(p1) = 1 /\ p1[1] = e
      BY <3>1
    <3>3. p2 \in Seq(Name) /\ Len(p2) = 1 /\ p2[1] = h
      BY <3>1
    <3> HIDE DEF p1, p2
    <3>4. p1 = <<e>>
      BY <3>2
    <3>5. p2 = <<h>>
      BY <3>3
    <3> QED
      BY <3>4, <3>5 DEF p1, p2
  <2> QED
    BY <2>1, <2>2, <2>3
<1> HIDE DEF path
<1>2. ~ EndsInSlash(path)
  BY <1>0, <1>1, EmptyIs, Zenon DEF e
<1>3. NamesBefore(path) = 1
  BY <1>1, <1>2 DEF NamesBefore
<1>4. Before(path) = <<e>> /\ After(path) = <<h>>
  BY <1>1, <1>3 DEF Before, After
<1>5. ~ HasLong(path)
  <2>1. ~ Long(h)
    BY HomeIs DEF h
  <2>2. ~ Long(e)
    <3>1. NameLen(Empty) = 0 /\ MAX_NAME_LENGTH \in Nat
      BY NamesAre, DotsAre
    <3> QED
      BY <3>1 DEF Long, e
  <2> QED
    BY <1>1, <2>1, <2>2, Zenon DEF HasLong
<1>6. From(None, path) = Root
  BY <1>3 DEF From
<1>7. Walk(t, Root, <<e>>) = Root
  <2>1. Walk(t, Root, Append(<<>>, e)) = Down(t, Walk(t, Root, <<>>), e)
    <3>1. <<>> \in Seq(Name)
      OBVIOUS
    <3> QED
      BY <1>0, <3>1, WalkOn
  <2>2. Append(<<>>, e) = <<e>>
    OBVIOUS
  <2>3. Walk(t, Root, <<>>) = Root
    BY WalkNone
  <2>4. Down(t, Root, Empty) = Root
    BY <1>0, FoundIs, Zenon
  <2> QED
    BY <2>1, <2>2, <2>3, <2>4, Zenon DEF e
<1>8. FindParent(t, None, path) = [dir |-> Root, name |-> <<h>>]
  <2>1. path # SlashOnly
    BY <1>1, Zenon DEF SlashOnly, e
  <2> QED
    BY <1>4, <1>5, <1>6, <1>7, <2>1, FindParentOf, Zenon
<1>9. FindParent(t, None, path).dir = Root /\ FindParent(t, None, path).name = <<h>>
  BY <1>8
<1>10. t.dir[Root].name # path
  <2>1. t.dir[Root].name = <<e, e>>
    BY Zenon DEF Valid, RootIs, e, Empty
  <2> QED
    BY <1>1, <2>1, Zenon
<1>11. Leads(t, None, path) = GetDirectoryFromParent(t, Root, <<h>>, TRUE)
  BY <1>0, <1>9, <1>10, Zenon DEF Leads, GetDirectoryFrom, DirectoryAt
<1>12. <<h>> \in LastName /\ Stripped(<<h>>) = <<h>>
  BY <1>0, NamesAre, StrippedOf, Zenon
<1>13. GetDirectoryFromParent(t, Root, <<h>>, TRUE) = Child(t, Root, <<h>>)
  BY <1>12, FoundIs, Zenon
<1> QED
  BY <1>0, <1>11, <1>13, Zenon DEF h

-----------------------------------------------------------------------------
(* The boot.                                                               *)

LEMMA OwnedMore ==
    ASSUME NEW t, NEW a, NEW b, Owned(t, a), Len(a.user) \in Nat, Len(a.group) \in Nat,
           Len(b.user) \in Nat, Len(b.group) \in Nat,
           Len(a.user) <= Len(b.user), Len(a.group) <= Len(b.group)
    PROVE  Owned(t, b)
<1>1. Users(a) \subseteq Users(b) /\ Groups(a) \subseteq Groups(b)
  BY DEF Users, Groups
<1> QED
  BY <1>1, Zenon DEF Owned, OwnedBy

LEMMA LoadableIs ==
    ASSUME NEW t, Loadable(t), NEW a
    PROVE  Ordered(t) /\ AllOwned(t) /\ Owned(t, a)
BY Zenon DEF Loadable, Owned, OwnedBy

LEMMA InitIs ==
    ASSUME Init
    PROVE  IInv
<1> DEFINE none == [i \in 1 .. MAX_ENVIROMENT_VARIABLES |-> NoVariable]
           nobody == [user |-> <<>>, group |-> <<>>]
<1>1. /\ boot = 1 /\ accounts = nobody /\ globals = none
      /\ process = [cwdir |-> None, owner |-> None, file |-> None, variables |-> none]
      /\ result = "ok" /\ plain = {} /\ hung = FALSE
  BY Zenon DEF Init
<1>2. PICK a \in Archive : tree = Loaded(a)
  BY Zenon DEF Init, Loaded
<1>3. /\ Loadable(tree) /\ Program(InitialProgram) /\ Program(SudoPath)
  BY <1>2, LoadedIsGood, Zenon DEF Program
<1>4. none \in Table /\ \A i \in 1 .. MAX_ENVIROMENT_VARIABLES : none[i] = NoVariable
  BY NoVariableIs, Zenon DEF Table
<1> HIDE DEF none
<1>5. process \in Process /\ process.variables = none
  <2>1. None \in Nat
    BY DEF None
  <2>2. [cwdir |-> None, owner |-> None, file |-> None, variables |-> none].variables = none
    BY Zenon
  <2> QED
    BY <1>1, <1>4, <2>1, <2>2, Zenon DEF Process
<1>6. AccountsAre(accounts, 0, 0)
  <2>1. nobody.user = <<>> /\ nobody.group = <<>> /\ <<>> \in Seq(Account) /\ <<>> \in Seq(Group)
        /\ Len(<<>>) = 0 /\ 1 .. 0 = {}
    OBVIOUS
  <2>2. nobody \in Tables
    BY <2>1, Zenon DEF Tables
  <2> HIDE DEF nobody
  <2> QED
    BY <1>1, <2>1, <2>2, Zenon DEF AccountsAre, Users
<1>7. Distinct(process.variables, plain)
  BY <1>4, <1>5, Zenon DEF Distinct
<1>8. Ordered(tree) /\ AllOwned(tree) /\ Owned(tree, accounts)
  BY <1>3, LoadableIs
<1>9. Typed
  <2>1. boot \in 1 .. 5
    BY <1>1
  <2> QED
    BY <1>1, <1>4, <1>5, <2>1, Zenon DEF Typed
<1>10. Phase /\ Started
  <2>1. boot = 1 /\ 1 # 2 /\ 1 # 3 /\ 1 \notin {4, 5} /\ ~ 1 > 2 /\ 1 # 5
    BY <1>1
  <2> QED
    BY <1>6, <2>1, Zenon DEF Phase, Started
<1>11. Booting
  BY <1>1, <1>3, <1>8, Zenon DEF Booting
<1> QED
  BY <1>7, <1>8, <1>9, <1>10, <1>11, Zenon DEF IInv

LEMMA BootUserRoot ==
    ASSUME IInv, boot = 1, BootUser("root", FALSE)
    PROVE  IInv'
<1> DEFINE a == CreateUser(accounts, "root")
<1>1. /\ ~ hung /\ boot' = boot + 1 /\ accounts' = a /\ tree' = tree /\ hung' = hung
      /\ globals' = globals /\ process' = process /\ result' = result /\ plain' = plain
  BY Zenon DEF BootUser
<1>2. AccountsAre(accounts, 0, 0)
  BY <1>1, Zenon DEF IInv, Phase
<1>3. AccountsAre(a, 1, 1)
  <2>1. 0 \in Nat /\ 0 < MAX_USERS /\ 0 + 1 = 1
    BY InputAssumption, TableAssumption
  <2> HIDE DEF a
  <2>2. AccountsAre(a, 0 + 1, 0 + 1)
    BY <1>2, <2>1, HomeIs, CreateUserIs, Zenon DEF a
  <2> QED
    BY <2>1, <2>2
<1> HIDE DEF a
<1>4. Owned(tree, a)
  <2>1. Len(accounts.user) = 0 /\ Len(accounts.group) = 0 /\ Len(a.user) = 1 /\ Len(a.group) = 1
    BY <1>2, <1>3, Zenon DEF AccountsAre
  <2>2. Owned(tree, accounts)
    BY Zenon DEF IInv
  <2> QED
    BY <2>1, <2>2, OwnedMore
<1>5. boot' = 2 /\ 2 \in 1 .. 5 /\ 2 \in 1 .. 2 /\ 2 \in 1 .. 4 /\ 2 # 1 /\ 2 # 3 /\ 2 # 5
      /\ 2 \notin {4, 5} /\ ~ 2 > 2 /\ 1 \in 1 .. 4 /\ 1 \in 1 .. 2
  BY <1>1
<1>6. Typed'
  BY <1>1, <1>5, Zenon DEF IInv, Typed
<1>7. Booting'
  BY <1>1, <1>5, Zenon DEF IInv, Booting, Program
<1>8. Phase' /\ Started'
  BY <1>1, <1>3, <1>5, Zenon DEF Phase, Started
<1> QED
  BY <1>1, <1>4, <1>6, <1>7, <1>8, Zenon DEF IInv

LEMMA BootGroupIs ==
    ASSUME IInv, BootGroup
    PROVE  IInv'
<1> DEFINE a == CreateGroup(accounts, "sudoers")
           b == AddUserToGroup(a, 2, 3)
<1>1. /\ boot = 3 /\ ~ hung /\ boot' = 4 /\ tree' = tree /\ globals' = globals
      /\ process' = process /\ result' = result /\ plain' = plain /\ hung' = hung
      /\ accounts' = AddUserToGroup(a, 2, Len(a.group))
  BY Zenon DEF BootGroup
<1>2. AccountsAre(accounts, 2, 2) /\ accounts.user[2].iwdir \in Real(tree)
  <2>1. 3 > 2
    OBVIOUS
  <2> QED
    BY <1>1, <2>1, Zenon DEF IInv, Phase
<1>3. /\ accounts \in Tables /\ Len(accounts.user) = 2 /\ Len(accounts.group) = 2
      /\ \A u \in Users(accounts) : /\ Len(accounts.user[u].groups) > 0
                                    /\ Head(accounts.user[u].groups) \in Groups(accounts)
  BY <1>2, Zenon DEF AccountsAre
<1>4. /\ a \in Tables /\ a.user = accounts.user /\ Len(a.group) = 3 /\ 3 \in Groups(a)
  <2>0. 2 + 1 = 3
    OBVIOUS
  <2>1. 2 + 1 = 3 /\ "sudoers" \in Name \cup {"sudoers"}
    BY <2>0, Zenon
  <2>2. LET c == CreateGroup(accounts, "sudoers")
            k == Len(accounts.group) + 1
        IN  /\ c \in Tables /\ c.user = accounts.user /\ Len(c.group) = k /\ k \in Groups(c)
    BY <1>3, <2>1, CreateGroupIs, Zenon
  <2> QED
    BY <1>3, <2>1, <2>2, Zenon
<1>5. accounts' = b
  BY <1>1, <1>4, Zenon
<1> HIDE DEF a
<1>6. 2 \in Users(a) /\ Users(a) = Users(accounts) /\ Groups(accounts) = 1 .. 2
  <2>1. Len(a.user) = 2 /\ Len(accounts.user) = 2 /\ Len(accounts.group) = 2
    BY <1>3, <1>4, Zenon
  <2> QED
    BY <2>1 DEF Users, Groups
<1>7. /\ b \in Tables /\ Len(b.user) = Len(a.user) /\ Len(b.group) = Len(a.group)
      /\ \A x \in Users(a) : b.user[x].iwdir = a.user[x].iwdir /\ (x # 2 => b.user[x] = a.user[x])
      /\ \/ b.user[2].groups = a.user[2].groups
         \/ b.user[2].groups = Append(a.user[2].groups, 3)
  BY <1>4, <1>6, AddUserIs
<1> HIDE DEF b
<1>8. Len(b.user) = 2 /\ Len(b.group) = 3 /\ Users(b) = Users(a) /\ Groups(b) = 1 .. 3
  BY <1>3, <1>4, <1>7 DEF Users, Groups
<1>9. \A u \in Users(b) : Len(b.user[u].groups) > 0 /\ Head(b.user[u].groups) \in Groups(b)
  <2> TAKE u \in Users(b)
  <2> DEFINE s == accounts.user[u].groups
  <2>1. s \in Seq(Nat) /\ Len(s) > 0 /\ Head(s) \in 1 .. 2
    BY <1>3, <1>6, <1>8, TablesAre
  <2>2. b.user[u].groups = s \/ b.user[u].groups = Append(s, 3)
    BY <1>4, <1>7, <1>8, Zenon
  <2> HIDE DEF s
  <2>3. Len(Append(s, 3)) > 0 /\ Head(Append(s, 3)) = Head(s)
    BY <2>1
  <2>4. Head(s) \in 1 .. 3
    BY <2>1
  <2> QED
    BY <1>8, <2>1, <2>2, <2>3, <2>4, Zenon
<1>10. AccountsAre(b, 2, 3) /\ b.user[2].iwdir \in Real(tree)
  BY <1>2, <1>4, <1>6, <1>7, <1>8, <1>9, Zenon DEF AccountsAre
<1>11. Owned(tree, b)
  <2>1. Owned(tree, accounts)
    BY Zenon DEF IInv
  <2>2. Len(accounts.user) = 2 /\ Len(accounts.group) = 2 /\ Len(b.user) = 2 /\ Len(b.group) = 3
    BY <1>3, <1>8, Zenon
  <2>3. /\ Len(accounts.user) \in Nat /\ Len(accounts.group) \in Nat
        /\ Len(b.user) \in Nat /\ Len(b.group) \in Nat
        /\ Len(accounts.user) <= Len(b.user) /\ Len(accounts.group) <= Len(b.group)
    BY <2>2
  <2> QED
    BY <2>1, <2>3, OwnedMore, Zenon
<1>12. 4 \in 1 .. 5 /\ 4 \notin 1 .. 2 /\ 4 \in 1 .. 4 /\ 4 # 1 /\ 4 # 2 /\ 4 # 3 /\ 4 # 5
       /\ 4 \in {4, 5} /\ 4 > 2 /\ 3 \in 1 .. 4
  OBVIOUS
<1>13. Typed'
  BY <1>1, <1>12, Zenon DEF IInv, Typed
<1>14. Booting'
  BY <1>1, <1>12, Zenon DEF IInv, Booting, Program
<1>15. Phase' /\ Started'
  BY <1>1, <1>5, <1>10, <1>12, Zenon DEF Phase, Started
<1> QED
  BY <1>1, <1>5, <1>11, <1>13, <1>14, <1>15, Zenon DEF IInv

LEMMA WithHomesIs ==
    ASSUME NEW t, Ordered(t), AllOwned(t), NEW U, NEW G, OwnedBy(t, U, G), root \in U, root \in G
    PROVE  LET t1   == WithHomes(t)
               home == Leads(t1, None, Home)
           IN  /\ Ordered(t1) /\ Grown(t, t1) /\ t1.file = t.file /\ OwnedBy(t1, U, G)
               /\ \/ home = None
                  \/ /\ home \in Real(t1)
                     /\ AllOwned(t1) \/ Child(t1, home, <<NicoName>>) = None
<1> DEFINE made == CreateDirectory(t, Root, <<HomeName>>, Mode755, root, root).tree
           t1 == WithHomes(t)
<1>1. t1 = IF Leads(t, None, Home) # None THEN t ELSE made
  BY Zenon DEF WithHomes, Leads, HomeName
<1>2. Valid(t) /\ Root \in Real(t)
  <2>1. Valid(t)
    BY Zenon DEF Ordered
  <2> QED
    BY <2>1, ValidIs
<1>3. CASE Leads(t, None, Home) # None
  <2>1. t1 = t
    BY <1>1, <1>3
  <2>2. Leads(t, None, Home) \in Ends(t)
    <3>1. None \in Ends(t)
      BY Zenon DEF Ends
    <3> QED
      BY <1>2, <3>1, HomeIs, LeadsIn
  <2>3. Leads(t, None, Home) \in Real(t)
    BY <1>3, <2>2, Zenon DEF Ends, Real, AllOwned
  <2>4. Grown(t, t)
    BY <1>2, NotChanged
  <2> HIDE DEF t1
  <2> QED
    BY <2>1, <2>3, <2>4, Zenon DEF t1
<1>4. CASE Leads(t, None, Home) = None
  <2>1. t1 = made
    BY <1>1, <1>4
  <2>2. Child(t, Root, <<HomeName>>) = None
    BY <1>2, <1>4, HomeFound, Zenon
  <2>3. Mode755 \in Modes /\ root \in Nat \ {None} /\ root \in Nat
    <3>1. Mode755 \in Modes
      BY DEF Mode755, Modes, Permission
    <3> QED
      BY <3>1 DEF root, None
  <2>4. /\ HomeName \in Name /\ HomeName # Empty /\ ~ Long(HomeName)
        /\ <<HomeName>> \in LastName /\ Stripped(<<HomeName>>) = <<HomeName>>
        /\ Head(Stripped(<<HomeName>>)) = HomeName
    BY HomeIs, NamesAre, StrippedOf, Zenon
  <2>5. LET e == Child(made, Root, <<HomeName>>) IN
        \/ e = None
        \/ /\ e \in Real(made)
           /\ \A c : c \notin {DotName, UpName, <<Empty>>} => Child(made, e, c) = None
    BY <1>2, <2>2, <2>3, <2>4, CreatedIsFound
  <2>6. /\ Ordered(made) /\ Grown(t, made) /\ made.file = t.file
        /\ \A V, H : OwnedBy(t, V, H) /\ root \in V /\ root \in H => OwnedBy(made, V, H)
    <3>1. ~ Long(Head(Stripped(<<HomeName>>)))
          /\ Named(t.dir, t.dir[Root].subs, Stripped(<<HomeName>>)) = None
      BY <2>2, <2>4, ChildNone, Zenon
    <3> QED
      BY <1>2, <2>3, <2>4, <3>1, CreateDirectoryIs
  <2> HIDE DEF made, t1
  <2>7. Leads(made, None, Home) = Child(made, Root, <<HomeName>>)
    <3>1. Valid(made)
      BY <2>6, Zenon DEF Ordered
    <3> QED
      BY <3>1, HomeFound
  <2>8. OwnedBy(made, U, G)
    BY <2>6, Zenon
  <2>9. \/ Leads(made, None, Home) = None
        \/ /\ Leads(made, None, Home) \in Real(made)
           /\ Child(made, Leads(made, None, Home), <<NicoName>>) = None
    BY <2>5, <2>7, HomeIs, Zenon
  <2> QED
    BY <2>1, <2>6, <2>8, <2>9, Zenon DEF t1
<1> QED
  BY <1>3, <1>4

LEMMA WithHomeIs ==
    ASSUME NEW t, Ordered(t), NEW home \in Real(t), NEW u \in Nat \ {None}, NEW g \in Nat,
           AllOwned(t) \/ Child(t, home, <<NicoName>>) = None
    PROVE  LET t2  == WithHome(t, home, NicoName, u, g)
               own == GetDirectoryFromParent(t2, home, <<NicoName>>, TRUE)
           IN  /\ Ordered(t2) /\ Grown(t, t2) /\ Files(t2) = Files(t)
               /\ \A f \in Files(t) : t2.file[f].owner \in {t.file[f].owner, u}
               /\ \A U, G : OwnedBy(t, U, G) /\ u \in U /\ g \in G => OwnedBy(t2, U, G)
               /\ own = None \/ own \in Real(t2)
<1> DEFINE t2 == WithHome(t, home, NicoName, u, g)
           made == CreateDirectory(t, home, <<NicoName>>, Mode755, u, g).tree
           given == ChangeDirectoryOwner(t, home, u, g)
<1>0. /\ NicoName \in Name /\ NicoName # Empty /\ ~ Long(NicoName)
      /\ <<NicoName>> \in LastName /\ Stripped(<<NicoName>>) = <<NicoName>>
      /\ Head(Stripped(<<NicoName>>)) = NicoName
  BY HomeIs, NamesAre, StrippedOf, Zenon
<1>1. \A x : GetDirectoryFromParent(x, home, <<NicoName>>, TRUE) = Child(x, home, <<NicoName>>)
  BY <1>0, FoundIs, Zenon
<1>2. t2 = IF Child(t, home, <<NicoName>>) # None THEN given ELSE made
  BY <1>1, Zenon DEF WithHome
<1>3. Valid(t) /\ home \in Nodes(t)
  BY Zenon DEF Ordered, Real
<1>4. CASE Child(t, home, <<NicoName>>) # None
  <2>1. t2 = given
    BY <1>2, <1>4
  <2>2. PICK dirs, files : given = WithOwner(t, dirs, files, u, g)
    BY Zenon DEF ChangeDirectoryOwner, OwnerChanged
  <2> DEFINE w == WithOwner(t, dirs, files, u, g)
  <2>3. AllOwned(t)
    BY <1>4
  <2>4. /\ Ordered(w) /\ AllOwned(w) /\ Grown(t, w) /\ Real(w) = Real(t)
        /\ Files(w) = Files(t)
        /\ \A f \in Files(t) : w.file[f].owner \in {t.file[f].owner, u}
        /\ \A U, G : OwnedBy(t, U, G) /\ u \in U /\ g \in G => OwnedBy(w, U, G)
    BY <2>3, WithOwnerIs
  <2> HIDE DEF w, t2, given
  <2>5. t2 = w
    BY <2>1, <2>2, Zenon DEF w
  <2>6. Child(w, home, <<NicoName>>) \in Ends(w)
    <3>1. Valid(w) /\ home \in Nodes(w)
      BY <2>4, Zenon DEF Ordered, Real
    <3> QED
      BY <3>1, ChildIn
  <2>7. Child(w, home, <<NicoName>>) = None \/ Child(w, home, <<NicoName>>) \in Real(w)
    BY <2>4, <2>6, Zenon DEF Ends, Real, AllOwned
  <2> QED
    BY <1>1, <2>4, <2>5, <2>7, Zenon DEF t2
<1>5. CASE Child(t, home, <<NicoName>>) = None
  <2>1. t2 = made
    BY <1>2, <1>5
  <2>2. Mode755 \in Modes
    BY DEF Mode755, Modes, Permission
  <2>3. Child(made, home, <<NicoName>>) = None \/ Child(made, home, <<NicoName>>) \in Real(made)
    BY <1>0, <1>5, <2>2, CreatedIsFound
  <2>4. /\ Ordered(made) /\ Grown(t, made) /\ made.file = t.file
        /\ \A U, G : OwnedBy(t, U, G) /\ u \in U /\ g \in G => OwnedBy(made, U, G)
    <3>1. ~ Long(Head(Stripped(<<NicoName>>)))
          /\ Named(t.dir, t.dir[home].subs, Stripped(<<NicoName>>)) = None
      BY <1>0, <1>5, ChildNone, Zenon
    <3>2. LET r == CreateDirectory(t, home, <<NicoName>>, Mode755, u, g) IN
            /\ Ordered(r.tree) /\ Grown(t, r.tree) /\ r.tree.file = t.file
            /\ \A U, G : OwnedBy(t, U, G) /\ u \in U /\ g \in G => OwnedBy(r.tree, U, G)
      <4> DEFINE name == <<NicoName>>
      <4>1. name \in LastName /\ ~ Long(Head(Stripped(name)))
            /\ Named(t.dir, t.dir[home].subs, Stripped(name)) = None
        BY <1>0, <3>1, Zenon
      <4> HIDE DEF name
      <4>2. LET r == CreateDirectory(t, home, name, Mode755, u, g) IN
              /\ Ordered(r.tree) /\ Grown(t, r.tree) /\ r.tree.file = t.file
              /\ \A U, G : OwnedBy(t, U, G) /\ u \in U /\ g \in G => OwnedBy(r.tree, U, G)
        <5>1. Ordered(t) /\ home \in Real(t) /\ Mode755 \in Modes /\ u \in Nat \ {None} /\ g \in Nat
          BY <1>0, <2>2, Zenon
        <5>2. LET r == CreateDirectory(t, home, name, Mode755, u, g) IN
                /\ Ordered(r.tree) /\ Grown(t, r.tree) /\ r.tree.file = t.file
                /\ \/ r.tree = t /\ r.dir = None
                   \/ /\ Len(r.tree.dir) = Len(t.dir) + 1 /\ r.tree.dir[Len(t.dir) + 1].owner = None
                      /\ r.dir = None /\ Real(r.tree) = Real(t)
                   \/ IsMade(t, home, name, Mode755, u, g, r.tree, r.dir)
                /\ \A U, G : OwnedBy(t, U, G) /\ u \in U /\ g \in G => OwnedBy(r.tree, U, G)
          BY <5>1, <4>1, CreateDirectoryIs, Zenon
        <5> QED
          BY <5>2, Zenon
      <4> QED
        BY <4>2, Zenon DEF name
    <3> QED
      BY <3>2, Zenon
  <2> HIDE DEF made, t2
  <2>5. Files(made) = Files(t) /\ \A f \in Files(t) : made.file[f].owner \in {t.file[f].owner, u}
    BY <2>4, Zenon DEF Files
  <2> QED
    BY <1>1, <2>1, <2>3, <2>4, <2>5, Zenon DEF t2
<1> QED
  BY <1>4, <1>5

\* The user's home.
LEMMA MovedIn ==
    ASSUME NEW a, AccountsAre(a, 2, 2), NEW own \in Nat
    PROVE  LET b == [a EXCEPT !.user[2].home = own, !.user[2].iwdir = own] IN
           AccountsAre(b, 2, 2) /\ b.user[2].iwdir = own
<1> DEFINE old == a.user[2]
           new == [old EXCEPT !.home = own, !.iwdir = own]
           us == [a.user EXCEPT ![2] = new]
           b == [a EXCEPT !.user[2].home = own, !.user[2].iwdir = own]
<1>1. /\ a \in Tables /\ Len(a.user) = 2 /\ Len(a.group) = 2
      /\ \A u \in Users(a) : Len(a.user[u].groups) > 0 /\ Head(a.user[u].groups) \in Groups(a)
  BY Zenon DEF AccountsAre
<1>2. 2 \in Users(a) /\ Users(a) = 1 .. 2
  BY <1>1 DEF Users
<1>3. a.user \in Seq(Account) /\ old \in Account /\ DOMAIN a.user = 1 .. 2
  BY <1>1, <1>2, TablesAre
<1>4. b = [a EXCEPT !.user = us]
  <2> DEFINE u1 == [a.user EXCEPT ![2].home = own]
             u2 == [u1 EXCEPT ![2].iwdir = own]
  <2>1. b = [a EXCEPT !.user = u2]
    BY <1>1 DEF Tables
  <2>2. u2 = us
    BY <1>3 DEF Account
  <2> HIDE DEF u2, us, b
  <2> QED
    BY <2>1, <2>2
<1> HIDE DEF b
<1>5. new \in Account /\ new.groups = old.groups /\ new.iwdir = own
  BY <1>3, Zenon DEF Account
<1> HIDE DEF new
<1>6. us \in Seq(Account) /\ Len(us) = 2 /\ us[2] = new /\ \A x \in 1 .. 2 : x # 2 => us[x] = a.user[x]
  BY <1>1, <1>3, <1>5, ExceptSeq
<1> HIDE DEF us
<1>7. b \in Tables /\ b.user = us /\ b.group = a.group
  BY <1>1, <1>4, <1>6, Zenon DEF Tables
<1>8. Users(b) = Users(a) /\ Groups(b) = Groups(a)
  BY <1>1, <1>6, <1>7, Zenon DEF Users, Groups
<1>9. \A u \in Users(b) : Len(b.user[u].groups) > 0 /\ Head(b.user[u].groups) \in Groups(b)
  <2> TAKE u \in Users(b)
  <2>1. b.user[u].groups = a.user[u].groups
    BY <1>2, <1>5, <1>6, <1>7, <1>8, Zenon DEF old
  <2> QED
    BY <1>1, <1>8, <2>1, Zenon
<1> QED
  BY <1>1, <1>5, <1>6, <1>7, <1>9, Zenon DEF AccountsAre, b

LEMMA InitialIs == InitialProgram \in SomePath /\ SudoPath \in SomePath
<1>1. InitialProgram \in SomePath
  BY InputAssumption, Zenon
<1>2. SudoPath \in SomePath
  <2> DEFINE e == ""
             b == "bin"
             s == "sudo"
  <2>1. e \in Name /\ b \in Name /\ s \in Name
    BY InputAssumption, NameAssumption, Zenon
  <2>2. SudoPath = <<e, b, s>>
    BY Zenon DEF SudoPath
  <2> HIDE DEF e, b, s
  <2>3. <<e, b, s>> \in Seq(Name) /\ <<e, b, s>> # <<>>
    BY <2>1
  <2> QED
    BY <2>2, <2>3, Zenon DEF SomePath
<1> QED
  BY <1>1, <1>2

LEMMA BootUserNico ==
    ASSUME IInv, boot = 2, BootUser("nico", TRUE)
    PROVE  IInv'
<1> DEFINE a == CreateUser(accounts, NicoName)
           t1 == WithHomes(tree)
           home == Leads(t1, None, Home)
           t2 == WithHome(t1, home, NicoName, 2, 2)
           own == GetDirectoryFromParent(t2, home, <<NicoName>>, TRUE)
           b == [a EXCEPT !.user[2].home = own, !.user[2].iwdir = own]
<1>1. /\ ~ hung /\ boot' = boot + 1 /\ globals' = globals /\ process' = process
      /\ result' = result /\ plain' = plain
      /\ MoveIn(a, Len(a.user), t1, home)
  BY Zenon DEF BootUser, Leads, NicoName
<1>2. AccountsAre(accounts, 1, 1)
  BY <1>1, Zenon DEF IInv, Phase
<1>3. /\ AccountsAre(a, 2, 2) /\ a.user[2].name = NicoName /\ Head(a.user[2].groups) = 2
      /\ Len(a.user) = 2
  <2>1. 1 \in Nat /\ 1 < MAX_USERS /\ 1 + 1 = 2
    BY InputAssumption, TableAssumption
  <2>2. /\ AccountsAre(a, 1 + 1, 1 + 1)
        /\ a.user[1 + 1].name = NicoName /\ Head(a.user[1 + 1].groups) = 1 + 1
        /\ Len(a.user) = 1 + 1
    <3> DEFINE name == NicoName
    <3>1. name \in Name
      BY HomeIs
    <3> HIDE DEF name
    <3>2. LET c == CreateUser(accounts, name) IN
            /\ AccountsAre(c, 1 + 1, 1 + 1)
            /\ c.user[1 + 1].name = name /\ Head(c.user[1 + 1].groups) = 1 + 1
            /\ Len(c.user) = 1 + 1
      <4> DEFINE m == 1
      <4>1. m \in Nat /\ m < MAX_USERS /\ AccountsAre(accounts, m, m)
        BY <1>2, <2>1
      <4> HIDE DEF m
      <4> SUFFICES LET c == CreateUser(accounts, name) IN
                      /\ AccountsAre(c, m + 1, m + 1)
                      /\ c.user[m + 1].name = name /\ Head(c.user[m + 1].groups) = m + 1
                      /\ Len(c.user) = m + 1
        BY Zenon DEF m
      <4> QED
        BY <3>1, <4>1, CreateUserIs
    <3> QED
      BY <3>2, Zenon DEF name
  <2> HIDE DEF a
  <2> QED
    BY <2>1, <2>2
<1> HIDE DEF a
<1>4. MoveIn(a, 2, t1, home)
  BY <1>1, <1>3, Zenon
<1>5. \/ hung' = TRUE /\ accounts' = accounts /\ tree' = tree
      \/ home # None /\ own # None /\ tree' = t2 /\ accounts' = b /\ hung' = hung
  <2>1. CASE home = None
    BY <1>4, <2>1, Zenon DEF MoveIn
  <2>2. CASE home # None
    <3>1. Housed(a, 2, t2, own)
      BY <1>3, <1>4, <2>2, Zenon DEF MoveIn
    <3> HIDE DEF t2
    <3> QED
      BY <2>2, <3>1, Zenon DEF Housed
  <2> QED
    BY <2>1, <2>2
<1>6. boot' = 3 /\ 3 \in 1 .. 5 /\ 3 \notin 1 .. 2 /\ 3 \in 1 .. 4 /\ 3 # 1 /\ 3 # 2 /\ 3 # 5
      /\ 3 \notin {4, 5} /\ 3 > 2 /\ 2 \in 1 .. 4 /\ 2 \in 1 .. 2
  BY <1>1
<1>7. Started' /\ Distinct(process.variables, plain)'
  BY <1>1, <1>6, Zenon DEF IInv, Started
<1>8. CASE hung' = TRUE /\ accounts' = accounts /\ tree' = tree
  <2>1. Typed'
    BY <1>1, <1>6, <1>8, Zenon DEF IInv, Typed
  <2>2. Booting'
    BY <1>1, <1>6, <1>8, Zenon DEF IInv, Booting, Program
  <2> QED
    BY <1>6, <1>7, <1>8, <2>1, <2>2, Zenon DEF IInv
<1>9. CASE home # None /\ own # None /\ tree' = t2 /\ accounts' = b /\ hung' = hung
  <2>0. Ordered(tree) /\ AllOwned(tree) /\ Owned(tree, accounts)
    BY <1>6, Zenon DEF IInv, Booting
  <2> DEFINE U == Users(a) \cup {root}
             G == Groups(a) \cup {root}
  <2>1. Owned(tree, a)
    <3>1. Len(accounts.user) = 1 /\ Len(accounts.group) = 1 /\ Len(a.user) = 2 /\ Len(a.group) = 2
      BY <1>2, <1>3, Zenon DEF AccountsAre
    <3>2. /\ Len(accounts.user) \in Nat /\ Len(accounts.group) \in Nat
          /\ Len(a.user) \in Nat /\ Len(a.group) \in Nat
          /\ Len(accounts.user) <= Len(a.user) /\ Len(accounts.group) <= Len(a.group)
      <4>1. 1 \in Nat /\ 2 \in Nat /\ 1 <= 2
        OBVIOUS
      <4> QED
        BY <3>1, <4>1, Zenon
    <3> QED
      BY <2>0, <3>2, OwnedMore, Zenon
  <2>2. root \in U /\ root \in G /\ 2 \in U /\ 2 \in G /\ 2 \in Nat \ {None} /\ 2 \in Nat
    <3>1. Len(a.user) = 2 /\ Len(a.group) = 2
      BY <1>3, Zenon DEF AccountsAre
    <3> QED
      BY <3>1 DEF Users, Groups, None
  <2>3. OwnedBy(tree, U, G) /\ \A f \in Files(tree) : tree.file[f].owner \in U
    BY <2>1, Zenon DEF Owned
  <2> HIDE DEF U, G
  <2>4. /\ Ordered(t1) /\ Grown(tree, t1) /\ t1.file = tree.file /\ OwnedBy(t1, U, G)
        /\ home \in Real(t1)
        /\ AllOwned(t1) \/ Child(t1, home, <<NicoName>>) = None
    BY <1>9, <2>0, <2>2, <2>3, WithHomesIs
  <2> HIDE DEF t1, home
  <2>5. /\ Ordered(t2) /\ Grown(t1, t2) /\ Files(t2) = Files(t1)
        /\ \A f \in Files(t1) : t2.file[f].owner \in {t1.file[f].owner, 2}
        /\ OwnedBy(t2, U, G)
        /\ own \in Real(t2)
    <3> DEFINE u == 2
               g == 2
    <3>1. u \in Nat \ {None} /\ g \in Nat /\ u \in U /\ g \in G
      BY <2>2
    <3> HIDE DEF u, g, b
    <3>2. LET c == WithHome(t1, home, NicoName, u, g)
              o == GetDirectoryFromParent(c, home, <<NicoName>>, TRUE)
          IN  /\ Ordered(c) /\ Grown(t1, c) /\ Files(c) = Files(t1)
              /\ \A f \in Files(t1) : c.file[f].owner \in {t1.file[f].owner, u}
              /\ \A V, H : OwnedBy(t1, V, H) /\ u \in V /\ g \in H => OwnedBy(c, V, H)
              /\ o = None \/ o \in Real(c)
      BY <2>4, <3>1, WithHomeIs
    <3> QED
      BY <1>9, <2>4, <3>1, <3>2, Zenon DEF u, g
  <2> HIDE DEF t2, own
  <2>6. Valid(tree) /\ Valid(t1) /\ Valid(t2)
    BY <2>0, <2>4, <2>5, Zenon DEF Ordered
  <2>7. Grown(tree, t2)
    BY <2>4, <2>5, <2>6, GrownOn
  <2>8. AccountsAre(b, 2, 2) /\ b.user[2].iwdir = own
    <3>1. own \in Nat
      BY <2>5, <2>6, ValidIs
    <3> QED
      BY <1>3, <3>1, MovedIn
  <2> HIDE DEF b
  <2>9. Owned(t2, b)
    <3>1. \A f \in Files(t2) : t2.file[f].owner \in U
      <4> TAKE f \in Files(t2)
      <4>1. f \in Files(t1) /\ f \in Files(tree) /\ t1.file[f] = tree.file[f]
        BY <2>4, <2>5, Zenon DEF Files
      <4>2. t2.file[f].owner \in {tree.file[f].owner, 2} /\ tree.file[f].owner \in U
        BY <2>3, <2>5, <4>1, Zenon
      <4> QED
        BY <2>2, <4>2, Zenon
    <3>2. Owned(t2, a)
      BY <2>5, <3>1, Zenon DEF Owned, U, G
    <3>3. Len(b.user) = 2 /\ Len(b.group) = 2 /\ Len(a.user) = 2 /\ Len(a.group) = 2
      BY <1>3, <2>8, Zenon DEF AccountsAre
    <3> QED
      BY <3>2, <3>3, OwnedMore
  <2>10. /\ GetFileFrom(t2, None, InitialProgram) # None
         /\ GetFileFrom(t2, None, SudoPath) # None
    <3>1. None \in Ends(tree) /\ InitialProgram \in SomePath /\ SudoPath \in SomePath
      BY InitialIs, Zenon DEF Ends
    <3>2. /\ GetFileFrom(tree, None, InitialProgram) # None
          /\ GetFileFrom(tree, None, SudoPath) # None
      BY <1>6, Zenon DEF IInv, Booting, Program
    <3>3. GetFileFrom(t2, None, InitialProgram) = GetFileFrom(tree, None, InitialProgram)
      BY <2>6, <2>7, <3>1, <3>2, FileGrows
    <3>4. GetFileFrom(t2, None, SudoPath) = GetFileFrom(tree, None, SudoPath)
      BY <2>6, <2>7, <3>1, <3>2, FileGrows
    <3> QED
      BY <3>2, <3>3, <3>4, Zenon
  <2>11. Booting'
    BY <1>1, <1>6, <1>9, <2>10, Zenon DEF IInv, Booting, Program
  <2>12. Phase'
    BY <1>6, <1>9, <2>5, <2>8, Zenon DEF Phase
  <2>13. Typed'
    BY <1>1, <1>6, <1>9, Zenon DEF IInv, Typed
  <2> QED
    BY <1>7, <1>9, <2>5, <2>9, <2>11, <2>12, <2>13, Zenon DEF IInv
<1> QED
  BY <1>5, <1>8, <1>9

\* The group of a file is changed.
LEMMA FileGroupIs ==
    ASSUME NEW t, Ordered(t), NEW f \in Files(t), NEW g \in Nat
    PROVE  LET t2 == [t EXCEPT !.file[f].group = g] IN
           /\ Ordered(t2) /\ Real(t2) = Real(t) /\ Files(t2) = Files(t)
           /\ \A x \in Files(t) : t2.file[x].owner = t.file[x].owner
           /\ \A U, G : OwnedBy(t, U, G) => OwnedBy(t2, U, G)
<1> DEFINE old  == t.file[f]
           new  == [old EXCEPT !.group = g]
           file == [t.file EXCEPT ![f] = new]
           t2   == [t EXCEPT !.file[f].group = g]
<1>1. Valid(t) /\ t \in Tree
  BY Zenon DEF Ordered, Valid
<1>2. /\ t.file \in Seq(FileNode) /\ DOMAIN t.file = Files(t) /\ old \in FileNode
      /\ Len(t.file) \in Nat
  BY <1>1, ValidIs
<1>3. t2 = [t EXCEPT !.file = file]
  BY <1>1, Zenon DEF Tree
<1> HIDE DEF t2
<1>4. new \in FileNode /\ new.name = old.name /\ new.parent = old.parent /\ new.owner = old.owner
  <2> HIDE DEF old
  <2> QED
    BY <1>2, Zenon DEF FileNode
<1> HIDE DEF new
<1>5. /\ file \in Seq(FileNode) /\ Len(file) = Len(t.file) /\ file[f] = new
      /\ \A x \in Files(t) : x # f => file[x] = t.file[x]
  <2>1. f \in 1 .. Len(t.file)
    BY DEF Files
  <2> QED
    BY <1>2, <1>4, <2>1, ExceptSeq DEF Files
<1> HIDE DEF file
<1>6. t2 \in Tree /\ t2.dir = t.dir /\ t2.file = file
  BY <1>1, <1>3, <1>5, Zenon DEF Tree
<1>7. Nodes(t2) = Nodes(t) /\ Files(t2) = Files(t)
  BY <1>5, <1>6, Zenon DEF Nodes, Files
<1>8. \A x \in Files(t) : /\ t2.file[x].name = t.file[x].name
                          /\ t2.file[x].parent = t.file[x].parent
                          /\ t2.file[x].owner = t.file[x].owner
  BY <1>4, <1>5, <1>6, Zenon DEF old
<1>9. Alike(t, t2)
  <2>1. \A d \in Nodes(t) : LET n == t.dir[d].files IN
            /\ Len(n) <= MAX_FILES /\ Len(n) <= Len(n)
            /\ \A i \in 1 .. Len(n) : n[i] \in Files(t)
    <3> TAKE d \in Nodes(t)
    <3>1. t.dir[d].files \in Seq(Nat)
      BY <1>1, ValidIs, NodeIs
    <3>2. Len(t.dir[d].files) <= Len(t.dir[d].files)
      BY <3>1, LenProperties
    <3> QED
      BY <1>1, <3>2, Zenon DEF Valid, Holds
  <2>2. \A x \in Files(t) : t.file[x].parent \in Nodes(t)
    BY <1>1, Zenon DEF Valid
  <2> QED
    BY <1>6, <1>7, <1>8, <2>1, <2>2, Zenon DEF Alike
<1>10. Ordered(t2) /\ Real(t2) = Real(t)
  BY <1>9, AlikeIs
<1>11. \A U, G : OwnedBy(t, U, G) => OwnedBy(t2, U, G)
  BY <1>6, <1>7, Zenon DEF OwnedBy
<1> QED
  BY <1>7, <1>8, <1>10, <1>11, Zenon DEF t2

\* The paths of the two global variables.
LEMMA ListIs ==
    ASSUME NEW x \in Name, NEW b \in Name, NEW c \in Name, NEW d \in Name
    PROVE  <<<<x, b>>, <<x, c, d>>>> \in Values
<1>1. <<x, b>> \in Seq(Name) /\ <<x, c, d>> \in Seq(Name) /\ <<x, b>> # <<>> /\ <<x, c, d>> # <<>>
  OBVIOUS
<1> DEFINE p == <<x, b>>
           q == <<x, c, d>>
<1>2. p \in SomePath /\ q \in SomePath
  BY <1>1, Zenon DEF SomePath
<1> HIDE DEF p, q
<1>3. <<p, q>> \in Seq(SomePath) /\ <<p, q>> # <<>>
  BY <1>2
<1> QED
  BY <1>3, Zenon DEF Values, p, q

LEMMA BootStartIs ==
    ASSUME IInv, BootStart
    PROVE  IInv'
<1> DEFINE sudo == GetFileFrom(tree, None, SudoPath)
           first == GetFileFrom(tree, None, InitialProgram)
           t == [tree EXCEPT !.file[sudo].group = 3]
           paths == <<<<"", "bin">>, <<"", "usr", "bin">>>>
           libs == <<<<"", "lib">>, <<"", "usr", "lib">>>>
           g1 == SetGlobalEnvVariable(globals, "PATH", paths)
           g2 == SetGlobalEnvVariable(g1, "LIBPATH", libs)
           home == accounts.user[2].iwdir
           p == [process EXCEPT !.owner = 2, !.cwdir = home, !.file = first]
<1>1. /\ boot = 4 /\ ~ hung /\ globals' = g2 /\ tree' = t /\ process' = p /\ boot' = 5
      /\ accounts' = accounts /\ result' = result /\ plain' = plain /\ hung' = hung
  BY Zenon DEF BootStart, SudoPath
<1>2. /\ AccountsAre(accounts, 2, 3) /\ home \in Real(tree) /\ result = "ok"
      /\ Program(InitialProgram) /\ Program(SudoPath)
  <2>1. 4 \in {4, 5} /\ 4 > 2 /\ 4 \in 1 .. 4
    OBVIOUS
  <2> QED
    BY <1>1, <2>1, Zenon DEF IInv, Phase, Booting
<1>3. Ordered(tree) /\ Valid(tree) /\ Owned(tree, accounts) /\ process \in Process /\ globals \in Table
  BY Zenon DEF IInv, Typed, Ordered
<1>4. sudo \in Files(tree) /\ first \in Files(tree)
  <2>1. None \in Ends(tree) /\ sudo # None /\ first # None
    BY <1>2, Zenon DEF Ends, Program
  <2> QED
    BY <1>3, <2>1, InitialIs, FileFromIn
<1> HIDE DEF sudo, first
<1>5. 3 \in Nat /\ 2 \in Nat
  OBVIOUS
<1>6. /\ Ordered(t) /\ Real(t) = Real(tree) /\ Files(t) = Files(tree)
      /\ \A x \in Files(tree) : t.file[x].owner = tree.file[x].owner
      /\ \A U, G : OwnedBy(tree, U, G) => OwnedBy(t, U, G)
  BY <1>3, <1>4, <1>5, FileGroupIs
<1> HIDE DEF t
<1>7. g2 \in Table
  <2>1. "PATH" \in Key /\ "LIBPATH" \in Key
    BY Zenon DEF Key
  <2>2. paths \in Values /\ libs \in Values
    <3>1. {"", "bin", "usr", "lib"} \subseteq Name
      BY InputAssumption, NameAssumption, Zenon
    <3> DEFINE e == ""
               b == "bin"
               u == "usr"
               l == "lib"
    <3>2. e \in Name /\ b \in Name /\ u \in Name /\ l \in Name
      BY <3>1, Zenon
    <3>3. paths = <<<<e, b>>, <<e, u, b>>>> /\ libs = <<<<e, l>>, <<e, u, l>>>>
      BY Zenon
    <3> HIDE DEF e, b, u, l, paths, libs
    <3>4. <<<<e, b>>, <<e, u, b>>>> \in Values /\ <<<<e, l>>, <<e, u, l>>>> \in Values
      BY <3>2, ListIs
    <3> QED
      BY <3>3, <3>4, Zenon
  <2> HIDE DEF paths, libs
  <2>3. g1 \in Table
    BY <1>3, <2>1, <2>2, GlobalsAre, Zenon
  <2> HIDE DEF g1
  <2> QED
    BY <2>1, <2>2, <2>3, GlobalsAre, Zenon
<1> HIDE DEF g2
<1>8. /\ p \in Process /\ p.variables = process.variables
      /\ p.owner = 2 /\ p.cwdir = home /\ p.file = first
  <2>1. home \in Nat /\ first \in Nat
    BY <1>2, <1>3, <1>4, ValidIs
  <2> HIDE DEF home
  <2> QED
    BY <1>3, <1>5, <2>1, Zenon DEF Process
<1> HIDE DEF p
<1>9. 5 \in 1 .. 5 /\ 5 \notin 1 .. 4 /\ 5 \notin 1 .. 2 /\ 5 # 1 /\ 5 # 2 /\ 5 # 3
      /\ 5 \in {4, 5}
  OBVIOUS
<1>10. Typed'
  BY <1>1, <1>7, <1>8, <1>9, Zenon DEF IInv, Typed
<1>11. Owned(tree', accounts')
  BY <1>1, <1>3, <1>6, Zenon DEF Owned
<1>12. Booting' /\ Phase'
  BY <1>1, <1>2, <1>6, <1>9, Zenon DEF Booting, Phase
<1>13. Started'
  <2>1. 2 \in Users(accounts)
    <3>1. Len(accounts.user) = 2
      BY <1>2, Zenon DEF AccountsAre
    <3> QED
      BY <3>1 DEF Users
  <2> QED
    BY <1>1, <1>2, <1>4, <1>6, <1>8, <2>1, Zenon DEF Started
<1> QED
  BY <1>1, <1>6, <1>8, <1>10, <1>11, <1>12, <1>13, Zenon DEF IInv, Distinct

-----------------------------------------------------------------------------
(* The calls of a process.                                                 *)

LEMMA RunningIs ==
    ASSUME IInv, boot = 5
    PROVE  /\ Ordered(tree) /\ Valid(tree) /\ Owned(tree, accounts)
           /\ AccountsAre(accounts, 2, 3) /\ accounts.user[2].iwdir \in Real(tree)
           /\ process \in Process /\ process.variables \in Table /\ globals \in Table
           /\ hung \in BOOLEAN
           /\ process.cwdir \in Real(tree) /\ process.cwdir \in Ends(tree)
           /\ Owner \in Users(accounts) /\ Owner \in Nat \ {None}
           /\ FirstGroup(Owner) \in Groups(accounts) /\ FirstGroup(Owner) \in Nat
           /\ process.file \in Files(tree)
           /\ Distinct(process.variables, plain)
<1>1. /\ Ordered(tree) /\ Valid(tree) /\ Owned(tree, accounts)
      /\ process \in Process /\ globals \in Table /\ hung \in BOOLEAN
      /\ Distinct(process.variables, plain)
  BY Zenon DEF IInv, Typed, Ordered
<1>2. AccountsAre(accounts, 2, 3) /\ accounts.user[2].iwdir \in Real(tree)
  <2>1. 5 \in {4, 5} /\ 5 > 2
    OBVIOUS
  <2> QED
    BY <2>1, Zenon DEF IInv, Phase
<1>3. process.cwdir \in Real(tree) /\ Owner \in Users(accounts) /\ process.file \in Files(tree)
  BY Zenon DEF IInv, Started, Owner
<1>4. process.variables \in Table /\ process.cwdir \in Ends(tree)
  BY <1>1, <1>3, Zenon DEF Process, Real, Ends
<1>5. FirstGroup(Owner) \in Groups(accounts)
  BY <1>2, <1>3, Zenon DEF AccountsAre, FirstGroup
<1>6. Owner \in Nat \ {None} /\ FirstGroup(Owner) \in Nat
  BY <1>3, <1>5 DEF Users, Groups, None
<1> QED
  BY <1>1, <1>2, <1>3, <1>4, <1>5, <1>6

\* What a step must leave in order.
LEMMA StepIs ==
    ASSUME IInv, boot = 5, boot' = boot, hung' \in BOOLEAN, result' \in {"ok", "error"},
           process' \in Process, globals' \in Table, accounts' = accounts,
           Ordered(tree'), Grown(tree, tree'), Owned(tree', accounts),
           process'.cwdir \in Real(tree'), process'.owner \in Users(accounts),
           process'.file \in Files(tree'), Distinct(process'.variables, plain')
    PROVE  IInv'
<1>1. 5 \in 1 .. 5 /\ 5 \notin 1 .. 4 /\ 5 \notin 1 .. 2 /\ 5 # 1 /\ 5 # 2 /\ 5 # 3
  OBVIOUS
<1>2. AccountsAre(accounts, 2, 3) /\ accounts.user[2].iwdir \in Real(tree')
  BY RunningIs, RealGrows
<1>3. Typed' /\ Booting'
  BY <1>1, Zenon DEF Typed, Booting
<1>4. Phase'
  BY <1>1, <1>2, Zenon DEF Phase
<1>5. Started'
  BY Zenon DEF Started
<1>6. Owned(tree, accounts)' /\ Distinct(process.variables, plain)'
  BY Zenon DEF Owned, Distinct
<1> QED
  BY <1>3, <1>4, <1>5, <1>6, Zenon DEF IInv

\* A step of the process alone.
LEMMA ProcessStep ==
    ASSUME IInv, boot = 5, boot' = boot, hung' \in BOOLEAN, result' \in {"ok", "error"},
           process' \in Process, globals' \in Table, accounts' = accounts, tree' = tree,
           process'.cwdir \in Real(tree), process'.owner \in Users(accounts),
           process'.file \in Files(tree), Distinct(process'.variables, plain')
    PROVE  IInv'
<1>1. Ordered(tree) /\ Valid(tree) /\ Owned(tree, accounts)
  BY RunningIs
<1>2. Grown(tree, tree)
  BY <1>1, NotChanged
<1>3. Ordered(tree') /\ Owned(tree', accounts) /\ Grown(tree, tree')
  BY <1>1, <1>2, Zenon
<1> QED
  BY <1>3, StepIs, Zenon

LEMMA HangIs ==
    ASSUME IInv, boot = 5, Hang
    PROVE  IInv'
<1>1. /\ hung' = TRUE /\ boot' = boot /\ tree' = tree /\ accounts' = accounts
      /\ globals' = globals /\ process' = process /\ result' = result /\ plain' = plain
  BY Zenon DEF Hang
<1>2. result' \in {"ok", "error"} /\ hung' \in BOOLEAN
  BY <1>1, Zenon DEF IInv, Typed
<1> QED
  BY <1>1, <1>2, RunningIs, ProcessStep, Zenon DEF Owner

LEMMA ReplyIs ==
    ASSUME IInv, boot = 5, NEW r \in {"ok", "error"}, Reply(r), tree' = tree, process' = process
    PROVE  IInv'
<1>1. /\ boot' = boot /\ accounts' = accounts /\ hung' = hung
      /\ globals' = globals /\ result' = r /\ plain' = plain
  BY Zenon DEF Reply
<1> QED
  BY <1>1, RunningIs, ProcessStep, Zenon DEF Owner

LEMMA ErrorIs ==
    ASSUME IInv, boot = 5, Reply("error"), tree' = tree, process' = process
    PROVE  IInv'
BY ReplyIs, Zenon

LEMMA AnswerIs ==
    ASSUME IInv, boot = 5, NEW node, Answer(node), tree' = tree, process' = process
    PROVE  IInv'
<1>1. PICK r \in {"ok", "error"} : Reply(r)
  BY Zenon DEF Answer
<1> QED
  BY <1>1, ReplyIs

\* Who may write to a directory writes to one that was not given up.
LEMMA WritableIs ==
    ASSUME IInv, boot = 5, NEW d \in Ends(tree), MayWrite(d)
    PROVE  d \in Real(tree)
<1>1. d \in Nodes(tree) /\ tree.dir[d].link = None
  BY Zenon DEF Ends, MayWrite
<1>2. tree.dir[d].mode # {}
  BY Zenon DEF MayWrite, Allowed, AccessAllowed
<1>3. tree.dir[d].owner # None
  BY <1>1, <1>2, RunningIs, Zenon DEF Ordered, GivenUp
<1> QED
  BY <1>1, <1>3, Zenon DEF Real

\* Who made something and may not read it made it so.
LEMMA AnsweredIs ==
    ASSUME NEW node, Answer(node), node.owner = Owner
    PROVE  result' = "ok" \/ <<"owner", "read">> \notin node.mode
BY Zenon DEF Answer, Reply, Allowed, AccessAllowed

\* The directory that openProcessFile makes.
DirectoryMadeBy(path, mode) ==
    \E p \in Real(tree), name \in LastName :
        LET r == CreateDirectory(tree, p, name, mode, Owner, FirstGroup(Owner)) IN
        /\ DirectoryMade(r) /\ Ordered(r.tree) /\ Grown(tree, r.tree) /\ r.tree.file = tree.file
        /\ Owned(r.tree, accounts)
        /\ \/ r.tree = tree /\ r.dir = None
           \/ /\ Len(r.tree.dir) = Len(tree.dir) + 1 /\ r.tree.dir[Len(tree.dir) + 1].owner = None
              /\ r.dir = None /\ Real(r.tree) = Real(tree)
           \/ IsMade(tree, p, name, mode, Owner, FirstGroup(Owner), r.tree, r.dir)

LEMMA OpenDirectoryDoes ==
    ASSUME IInv, NEW path \in SomePath, NEW creat, NEW mode \in Modes,
           OpenDirectory(path, creat, mode)
    PROVE  /\ boot = 5 /\ process' = process
           /\ \/ tree' = tree /\ Reply("error")
              \/ tree' = tree /\ \E node : Answer(node)
              \/ DirectoryMadeBy(path, mode)
<1> DEFINE d == Leads(tree, process.cwdir, path)
           p == FindParent(tree, process.cwdir, path)
           r == CreateDirectory(tree, p.dir, p.name, mode, Owner, FirstGroup(Owner))
<1>1. boot = 5 /\ process' = process
  BY Zenon DEF OpenDirectory, Running
<1>2. \/ tree' = tree /\ Reply("error")
      \/ tree' = tree /\ Answer(tree.dir[d])
      \/ d = None /\ MayWrite(p.dir) /\ DirectoryMade(r)
  BY Zenon DEF OpenDirectory, Leads
<1>3. CASE d = None /\ MayWrite(p.dir) /\ DirectoryMade(r)
  <2>1. /\ Valid(tree) /\ Ordered(tree) /\ process.cwdir \in Ends(tree) /\ Owned(tree, accounts)
        /\ Owner \in Nat \ {None} /\ FirstGroup(Owner) \in Nat
        /\ Owner \in Users(accounts) /\ FirstGroup(Owner) \in Groups(accounts)
    BY <1>1, RunningIs
  <2>2. p.dir \in Ends(tree) /\ p.dir # None
    <3>1. p.dir # None
      BY <1>3, Zenon DEF MayWrite
    <3> QED
      BY <2>1, <3>1, FindParentIn, Zenon
  <2>3. p.name \in LastName /\ ~ Long(Head(Stripped(p.name)))
    BY <2>1, <2>2, FindParentIn, Zenon
  <2>4. Named(tree.dir, tree.dir[p.dir].subs, Stripped(p.name)) = None
    BY <1>3, <2>1, <2>2, LeadsIn, Zenon
  <2>5. p.dir \in Real(tree)
    BY <1>1, <1>3, <2>2, WritableIs, Zenon
  <2> DEFINE q == p.dir
             name == p.name
             g == FirstGroup(Owner)
             c == CreateDirectory(tree, q, name, mode, Owner, g)
             U == Users(accounts) \cup {root}
             G == Groups(accounts) \cup {root}
  <2>6. /\ q \in Real(tree) /\ name \in LastName /\ ~ Long(Head(Stripped(name))) /\ g \in Nat
        /\ Named(tree.dir, tree.dir[q].subs, Stripped(name)) = None
        /\ Owner \in U /\ g \in G /\ OwnedBy(tree, U, G)
        /\ \A f \in Files(tree) : tree.file[f].owner \in U
    BY <2>1, <2>3, <2>4, <2>5, Zenon DEF Owned
  <2> HIDE DEF q, name, g, p, d, r, U, G
  <2>7. /\ Ordered(c.tree) /\ Grown(tree, c.tree) /\ c.tree.file = tree.file
        /\ \/ c.tree = tree /\ c.dir = None
           \/ /\ Len(c.tree.dir) = Len(tree.dir) + 1 /\ c.tree.dir[Len(tree.dir) + 1].owner = None
              /\ c.dir = None /\ Real(c.tree) = Real(tree)
           \/ IsMade(tree, q, name, mode, Owner, g, c.tree, c.dir)
        /\ \A V, H : OwnedBy(tree, V, H) /\ Owner \in V /\ g \in H => OwnedBy(c.tree, V, H)
    BY <2>1, <2>6, CreateDirectoryIs
  <2> HIDE DEF c
  <2>8. Owned(c.tree, accounts)
    <3>1. OwnedBy(c.tree, U, G)
      BY <2>6, <2>7, Zenon
    <3>2. \A f \in Files(c.tree) : c.tree.file[f].owner \in U
      BY <2>6, <2>7, Zenon DEF Files
    <3> QED
      BY <3>1, <3>2, Zenon DEF Owned, U, G
  <2>9. DirectoryMade(c)
    BY <1>3, Zenon DEF c, r, q, name, g
  <2> QED
    BY <1>1, <2>6, <2>7, <2>8, <2>9, Zenon DEF DirectoryMadeBy, c, g
<1> QED
  BY <1>1, <1>2, <1>3, Zenon

LEMMA OpenDirectoryIs ==
    ASSUME IInv, NEW path \in SomePath, NEW creat, NEW mode \in Modes,
           OpenDirectory(path, creat, mode)
    PROVE  IInv'
<1>1. boot = 5 /\ process' = process
  BY OpenDirectoryDoes
<1>2. CASE tree' = tree /\ Reply("error")
  BY <1>1, <1>2, ErrorIs
<1>3. CASE tree' = tree /\ \E node : Answer(node)
  BY <1>1, <1>3, AnswerIs
<1>4. CASE DirectoryMadeBy(path, mode)
  <2>1. PICK r : /\ DirectoryMade(r) /\ Ordered(r.tree) /\ Grown(tree, r.tree)
                 /\ Owned(r.tree, accounts)
                 /\ Files(r.tree) = Files(tree)
    BY <1>4, Zenon DEF DirectoryMadeBy, Files
  <2>2. tree' = r.tree /\ (Reply("error") \/ Answer(r.tree.dir[r.dir]))
    BY <2>1, Zenon DEF DirectoryMade
  <2>3. PICK e \in {"ok", "error"} : Reply(e)
    BY <2>2, Zenon DEF Answer
  <2>4. /\ boot' = boot /\ accounts' = accounts /\ hung' = hung
        /\ globals' = globals /\ result' = e /\ plain' = plain
    BY <2>3, Zenon DEF Reply
  <2>5. Real(tree) \subseteq Real(tree')
    BY <2>1, <2>2, RealGrows
  <2>6. /\ process \in Process /\ globals \in Table /\ hung \in BOOLEAN
        /\ process.cwdir \in Real(tree') /\ process.owner \in Users(accounts)
        /\ process.file \in Files(tree') /\ Distinct(process.variables, plain)
    BY <1>1, <2>1, <2>2, <2>5, RunningIs, Zenon DEF Owner
  <2> QED
    BY <1>1, <2>1, <2>2, <2>3, <2>4, <2>6, StepIs, Zenon
<1> QED
  BY <1>2, <1>3, <1>4, OpenDirectoryDoes, Zenon

\* The file that openProcessFile makes.
FileMadeBy(path, mode) ==
    \E p \in Nodes(tree), name \in LastName :
        LET node == File(p, name, mode, Owner, FirstGroup(Owner))
            r == CreateFile(tree, p, name, mode, Owner, FirstGroup(Owner))
        IN
        /\ FileMade(r) /\ Ordered(r.tree) /\ Grown(tree, r.tree)
        /\ Owned(r.tree, accounts)
        /\ node.mode = mode /\ node.owner = Owner
        /\ \/ r.tree = tree /\ r.file = None
           \/ /\ WithFile(tree, p, node, r.tree) /\ r.file = Len(tree.file) + 1
              /\ Files(r.tree) = Files(tree) \cup {r.file}

LEMMA OpenFileDoes ==
    ASSUME IInv, NEW path \in SomePath, NEW creat, NEW mode \in Modes,
           OpenFile(path, creat, mode)
    PROVE  /\ boot = 5 /\ process' = process
           /\ \/ tree' = tree /\ Reply("error")
              \/ tree' = tree /\ \E node : Answer(node)
              \/ FileMadeBy(path, mode)
<1> DEFINE f == GetFileFrom(tree, process.cwdir, path)
           p == FindParent(tree, process.cwdir, path)
           r == CreateFile(tree, p.dir, p.name, mode, Owner, FirstGroup(Owner))
<1>1. boot = 5 /\ process' = process
  BY Zenon DEF OpenFile, Running
<1>2. \/ tree' = tree /\ Reply("error")
      \/ tree' = tree /\ Answer(tree.file[f])
      \/ MayWrite(p.dir) /\ FileMade(r)
  BY Zenon DEF OpenFile
<1>3. CASE MayWrite(p.dir) /\ FileMade(r)
  <2>1. /\ Valid(tree) /\ Ordered(tree) /\ process.cwdir \in Ends(tree) /\ Owned(tree, accounts)
        /\ Owner \in Nat \ {None} /\ FirstGroup(Owner) \in Nat
        /\ Owner \in Users(accounts) /\ FirstGroup(Owner) \in Groups(accounts)
    BY <1>1, RunningIs
  <2>2. p.dir \in Ends(tree) /\ p.dir # None
    <3>1. p.dir # None
      BY <1>3, Zenon DEF MayWrite
    <3> QED
      BY <2>1, <3>1, FindParentIn, Zenon
  <2>3. p.name \in LastName /\ p.dir \in Nodes(tree)
    BY <2>1, <2>2, FindParentIn, Zenon DEF Ends
  <2> DEFINE q == p.dir
             name == p.name
             g == FirstGroup(Owner)
             node == File(q, name, mode, Owner, g)
             c == CreateFile(tree, q, name, mode, Owner, g)
             U == Users(accounts) \cup {root}
             G == Groups(accounts) \cup {root}
  <2>4. /\ q \in Nodes(tree) /\ name \in LastName /\ g \in Nat /\ Owner \in Nat
        /\ Owner \in U /\ OwnedBy(tree, U, G)
        /\ \A x \in Files(tree) : tree.file[x].owner \in U
    BY <2>1, <2>3, Zenon DEF Owned
  <2> HIDE DEF q, name, g, p, f, r, U, G
  <2>5. /\ Ordered(c.tree) /\ Grown(tree, c.tree)
        /\ \/ c.tree = tree /\ c.file = None
           \/ /\ WithFile(tree, q, node, c.tree) /\ c.file = Len(tree.file) + 1
              /\ Files(c.tree) = Files(tree) \cup {c.file}
        /\ \A V, H : OwnedBy(tree, V, H) => OwnedBy(c.tree, V, H)
    <3>1. LET e == CreateFile(tree, q, name, mode, Owner, g)
              n == File(q, name, mode, Owner, g)
          IN  /\ Ordered(e.tree) /\ Grown(tree, e.tree)
              /\ Real(e.tree) = Real(tree) /\ Nodes(e.tree) = Nodes(tree)
              /\ \/ e.tree = tree /\ e.file = None
                 \/ /\ WithFile(tree, q, n, e.tree) /\ e.file = Len(tree.file) + 1
                    /\ Files(e.tree) = Files(tree) \cup {e.file}
              /\ \A V, H : OwnedBy(tree, V, H) => OwnedBy(e.tree, V, H)
      BY <2>1, <2>4, CreateFileIs, Zenon
    <3> QED
      BY <3>1, Zenon
  <2>6. node.mode = mode /\ node.owner = Owner
    BY <2>1, <2>4, FileIs
  <2> HIDE DEF c, node
  <2>7. Owned(c.tree, accounts)
    <3>1. OwnedBy(c.tree, U, G)
      BY <2>4, <2>5, Zenon
    <3>2. \A x \in Files(c.tree) : c.tree.file[x].owner \in U
      <4>1. CASE c.tree = tree
        BY <2>4, <4>1, Zenon
      <4>2. CASE /\ WithFile(tree, q, node, c.tree) /\ c.file = Len(tree.file) + 1
                 /\ Files(c.tree) = Files(tree) \cup {c.file}
        BY <2>4, <2>6, <4>2, Zenon DEF WithFile
      <4> QED
        BY <2>5, <4>1, <4>2, Zenon
    <3> QED
      BY <3>1, <3>2, Zenon DEF Owned, U, G
  <2>8. FileMade(c)
    BY <1>3, Zenon DEF c, r, q, name, g
  <2> QED
    BY <1>1, <2>4, <2>5, <2>6, <2>7, <2>8, Zenon DEF FileMadeBy, c, g, node
<1> QED
  BY <1>1, <1>2, <1>3, Zenon

LEMMA OpenFileIs ==
    ASSUME IInv, NEW path \in SomePath, NEW creat, NEW mode \in Modes,
           OpenFile(path, creat, mode)
    PROVE  IInv'
<1>1. boot = 5 /\ process' = process
  BY OpenFileDoes
<1>2. CASE tree' = tree /\ Reply("error")
  BY <1>1, <1>2, ErrorIs
<1>3. CASE tree' = tree /\ \E node : Answer(node)
  BY <1>1, <1>3, AnswerIs
<1>4. CASE FileMadeBy(path, mode)
  <2>1. PICK r : /\ FileMade(r) /\ Ordered(r.tree) /\ Grown(tree, r.tree)
                 /\ Owned(r.tree, accounts)
    BY <1>4, Zenon DEF FileMadeBy
  <2>2. tree' = r.tree /\ (Reply("error") \/ Answer(r.tree.file[r.file]))
    BY <2>1, Zenon DEF FileMade
  <2>3. PICK e \in {"ok", "error"} : Reply(e)
    BY <2>2, Zenon DEF Answer
  <2>4. /\ boot' = boot /\ accounts' = accounts /\ hung' = hung
        /\ globals' = globals /\ result' = e /\ plain' = plain
    BY <2>3, Zenon DEF Reply
  <2>5. Real(tree) \subseteq Real(tree') /\ Files(tree) \subseteq Files(tree')
    BY <2>1, <2>2, RealGrows, Zenon DEF Grown
  <2>6. /\ process \in Process /\ globals \in Table /\ hung \in BOOLEAN
        /\ process.cwdir \in Real(tree') /\ process.owner \in Users(accounts)
        /\ process.file \in Files(tree') /\ Distinct(process.variables, plain)
    BY <1>1, <2>5, RunningIs, Zenon DEF Owner
  <2> QED
    BY <1>1, <2>1, <2>2, <2>3, <2>4, <2>6, StepIs, Zenon
<1> QED
  BY <1>2, <1>3, <1>4, OpenFileDoes, Zenon

LEMMA StatIs ==
    ASSUME IInv, NEW path, NEW redirectSymbolic, Stat(path, redirectSymbolic)
    PROVE  IInv'
<1>1. boot = 5
  BY Zenon DEF Stat, Running
<1>2. \/ Hang
      \/ tree' = tree /\ process' = process /\ Reply("error")
      \/ tree' = tree /\ process' = process /\ \E node : Answer(node)
  BY Zenon DEF Stat
<1>3. CASE Hang
  BY <1>1, <1>3, HangIs
<1>4. CASE tree' = tree /\ process' = process /\ Reply("error")
  BY <1>1, <1>4, ErrorIs
<1>5. CASE tree' = tree /\ process' = process /\ \E node : Answer(node)
  BY <1>1, <1>5, AnswerIs
<1> QED
  BY <1>2, <1>3, <1>4, <1>5, Zenon

\* The path of a directory, as PWD holds it.
LEMMA PathToIs ==
    ASSUME NEW d \in Nodes(tree), Valid(tree)
    PROVE  PathTo(d) \in SomePath /\ <<PathTo(d)>> \in Values
<1> DEFINE e == Empty
           full == tree.dir[d].fullpath
           q == PathTo(d)
<1>1. e \in Name /\ full \in Seq(Name)
  BY ValidIs, NodeIs, NamesAre
<1>2. q = IF d = Root THEN <<e, e>> ELSE <<e>> \o full
  BY Zenon DEF PathTo, Empty
<1> HIDE DEF e, full, q
<1>3. /\ <<e, e>> \in Seq(Name) /\ <<e, e>> # <<>>
      /\ <<e>> \o full \in Seq(Name) /\ <<e>> \o full # <<>>
  BY <1>1
<1>4. q \in SomePath
  BY <1>2, <1>3, Zenon DEF SomePath
<1>5. <<q>> \in Seq(SomePath) /\ <<q>> # <<>>
  BY <1>4
<1> QED
  BY <1>4, <1>5, Zenon DEF Values, q

LEMMA EnteringIs ==
    ASSUME IInv, boot = 5, NEW d \in Real(tree), Entering(d)
    PROVE  IInv'
<1> DEFINE fits == PathLen(tree.dir[d].fullpath) <= MAX_VARIABLE_VALUE_LENGTH
           own  == Slots(process.variables, "PWD") # {}
           v == IF fits /\ own THEN Overwritten(process.variables, "PWD", <<PathTo(d)>>)
                ELSE process.variables
           w == IF fits /\ ~ own /\ Slots(globals, "PWD") # {}
                THEN Overwritten(globals, "PWD", <<PathTo(d)>>) ELSE globals
           p == [process EXCEPT !.cwdir = d, !.variables = v]
<1>1. /\ process' = p /\ globals' = w /\ result' = "ok" /\ boot' = boot /\ tree' = tree
      /\ accounts' = accounts /\ plain' = plain /\ hung' = hung
  BY Zenon DEF Entering
<1>2. /\ Valid(tree) /\ process \in Process /\ process.variables \in Table /\ globals \in Table
      /\ Distinct(process.variables, plain) /\ hung \in BOOLEAN
      /\ process.owner \in Users(accounts) /\ process.file \in Files(tree)
  BY RunningIs DEF Owner
<1>3. d \in Nodes(tree) /\ d \in Nat
  BY <1>2, ValidIs
<1>4. <<PathTo(d)>> \in Values /\ "PWD" \in Key
  BY <1>2, <1>3, PathToIs, Zenon DEF Key
<1> HIDE DEF fits
<1>5. v \in Table /\ Distinct(v, plain)
  <2>1. own => /\ Overwritten(process.variables, "PWD", <<PathTo(d)>>) \in Table
               /\ Distinct(Overwritten(process.variables, "PWD", <<PathTo(d)>>), plain)
    BY <1>2, <1>4, OverwrittenIs, Zenon
  <2> QED
    BY <1>2, <2>1, Zenon
<1>6. w \in Table
  <2>1. Slots(globals, "PWD") # {} => Overwritten(globals, "PWD", <<PathTo(d)>>) \in Table
    BY <1>2, <1>4, OverwrittenIs, Zenon
  <2> QED
    BY <1>2, <2>1, Zenon
<1> HIDE DEF v, w
<1>7. /\ p \in Process /\ p.cwdir = d /\ p.variables = v
      /\ p.owner = process.owner /\ p.file = process.file
  BY <1>2, <1>3, <1>5, Zenon DEF Process
<1> HIDE DEF p
<1> QED
  BY <1>1, <1>2, <1>5, <1>6, <1>7, ProcessStep, Zenon

LEMMA ChdirIs ==
    ASSUME IInv, NEW path \in SomePath, Chdir(path)
    PROVE  IInv'
<1> DEFINE d == Leads(tree, process.cwdir, path)
<1>1. boot = 5
  BY Zenon DEF Chdir, Running
<1>2. \/ tree' = tree /\ process' = process /\ Reply("error")
      \/ d # None /\ Allowed(tree.dir[d], "execute") /\ Entering(d)
  BY Zenon DEF Chdir, Leads
<1>3. CASE tree' = tree /\ process' = process /\ Reply("error")
  BY <1>1, <1>3, ErrorIs
<1>4. CASE d # None /\ Allowed(tree.dir[d], "execute") /\ Entering(d)
  <2>1. Valid(tree) /\ Ordered(tree) /\ process.cwdir \in Ends(tree)
    BY <1>1, RunningIs
  <2>2. d \in Nodes(tree) /\ tree.dir[d].link = None
    BY <1>4, <2>1, LeadsIn, Zenon DEF Ends
  <2> HIDE DEF d
  <2>3. tree.dir[d].mode # {}
    BY <1>4, Zenon DEF Allowed, AccessAllowed
  <2>4. d \in Real(tree)
    BY <2>1, <2>2, <2>3, Zenon DEF Ordered, GivenUp, Real
  <2> QED
    BY <1>1, <1>4, <2>4, EnteringIs
<1> QED
  BY <1>2, <1>3, <1>4

LEMMA SetenvIs ==
    ASSUME IInv, NEW key \in Key, NEW value \in Values, NEW overwrite \in BOOLEAN,
           Setenv(key, value, overwrite)
    PROVE  IInv'
<1> DEFINE v == SetEnvVariable(process.variables, key, value, overwrite)
           p == [process EXCEPT !.variables = v]
           more == plain \cup IF ~ overwrite /\ Slots(process.variables, key) # {}
                              THEN {key} ELSE {}
<1>1. boot = 5
  BY Zenon DEF Setenv, Running
<1>2. CASE Hang
  BY <1>1, <1>2, HangIs
<1>3. CASE /\ CanSet(process.variables, key, overwrite)
           /\ process' = p /\ plain' = more /\ result' = "ok" /\ boot' = boot /\ tree' = tree
           /\ accounts' = accounts /\ globals' = globals /\ hung' = hung
  <2>1. /\ process \in Process /\ process.variables \in Table /\ globals \in Table
        /\ Distinct(process.variables, plain) /\ hung \in BOOLEAN
        /\ process.cwdir \in Real(tree)
        /\ process.owner \in Users(accounts) /\ process.file \in Files(tree)
    BY <1>1, RunningIs DEF Owner
  <2>2. v \in Table /\ Distinct(v, more)
    BY <1>3, <2>1, SetEnvIs
  <2> HIDE DEF v, more
  <2>3. /\ p \in Process /\ p.cwdir = process.cwdir /\ p.variables = v
        /\ p.owner = process.owner /\ p.file = process.file
    BY <2>1, <2>2, Zenon DEF Process
  <2> HIDE DEF p
  <2> QED
    BY <1>1, <1>3, <2>1, <2>2, <2>3, ProcessStep, Zenon
<1> QED
  BY <1>2, <1>3, Zenon DEF Setenv

LEMMA UnsetenvIs ==
    ASSUME IInv, NEW key \in Key, Unsetenv(key)
    PROVE  IInv'
<1> DEFINE v == UnsetEnvVariable(process.variables, key)
           p == [process EXCEPT !.variables = v]
<1>1. /\ boot = 5
      /\ process' = p /\ plain' = plain /\ result' = "ok" /\ boot' = boot /\ tree' = tree
      /\ accounts' = accounts /\ globals' = globals /\ hung' = hung
  BY Zenon DEF Unsetenv, Running, Reply
<1>2. /\ process \in Process /\ process.variables \in Table /\ globals \in Table
      /\ Distinct(process.variables, plain) /\ hung \in BOOLEAN
      /\ process.cwdir \in Real(tree)
      /\ process.owner \in Users(accounts) /\ process.file \in Files(tree)
  BY <1>1, RunningIs DEF Owner
<1>3. v \in Table /\ Distinct(v, plain)
  BY <1>2, UnsetEnvIs
<1> HIDE DEF v
<1>4. /\ p \in Process /\ p.cwdir = process.cwdir /\ p.variables = v
      /\ p.owner = process.owner /\ p.file = process.file
  BY <1>2, <1>3, Zenon DEF Process
<1> HIDE DEF p
<1> QED
  BY <1>1, <1>2, <1>3, <1>4, ProcessStep, Zenon

LEMMA LoadingIs ==
    ASSUME IInv, boot = 5, NEW f \in Files(tree) \cup {None}, Loading(f)
    PROVE  IInv'
<1> DEFINE p == [process EXCEPT !.file = f]
<1>1. CASE Hang
  BY <1>1, HangIs
<1>2. CASE tree' = tree /\ process' = process /\ Reply("error")
  BY <1>2, ErrorIs
<1>3. CASE f # None /\ process' = p /\ Reply("ok") /\ tree' = tree
  <2>1. /\ plain' = plain /\ result' = "ok" /\ boot' = boot
        /\ accounts' = accounts /\ globals' = globals /\ hung' = hung
    BY <1>3, Zenon DEF Reply
  <2>2. /\ process \in Process /\ process.variables \in Table /\ globals \in Table
        /\ Distinct(process.variables, plain) /\ hung \in BOOLEAN
        /\ process.cwdir \in Real(tree) /\ process.owner \in Users(accounts)
    BY RunningIs DEF Owner
  <2>3. f \in Files(tree) /\ f \in Nat
    BY <1>3 DEF Files
  <2>4. /\ p \in Process /\ p.cwdir = process.cwdir /\ p.variables = process.variables
        /\ p.owner = process.owner /\ p.file = f
    BY <2>2, <2>3, Zenon DEF Process
  <2> HIDE DEF p
  <2> QED
    BY <1>3, <2>1, <2>2, <2>3, <2>4, ProcessStep, Zenon
<1> QED
  BY <1>1, <1>2, <1>3, Zenon DEF Loading

LEMMA ExecvpIs ==
    ASSUME IInv, NEW path \in SomePath, Execvp(path)
    PROVE  IInv'
<1> DEFINE own == GetFileFrom(tree, process.cwdir, path)
           other == GetFileWEnv(tree, Listed, path)
<1>1. boot = 5
  BY Zenon DEF Execvp, Running
<1>2. /\ Valid(tree) /\ process.cwdir \in Ends(tree)
      /\ process.variables \in Table /\ globals \in Table
  BY <1>1, RunningIs
<1>3. Listed \in Seq(SomePath)
  <2> DEFINE V == Seq(SomePath)
             key == "PATH"
  <2>1. <<>> \in V
    OBVIOUS
  <2>2. ASSUME NEW table \in Table, Slots(table, key) # {}
        PROVE  table[Min(Slots(table, key))].value \in V
    <3>1. Min(Slots(table, key)) \in 1 .. MAX_ENVIROMENT_VARIABLES
      BY <2>2, SlotsAre
    <3>2. table[Min(Slots(table, key))] \in Variable
      BY <3>1, Zenon DEF Table
    <3> QED
      BY <3>2, Zenon DEF Variable
  <2>3. Listed = IF HasVariable(process.variables, globals, key)
                 THEN GetEnvVariable(process.variables, globals, key) ELSE <<>>
    BY Zenon DEF Listed
  <2> HIDE DEF V, key
  <2>4. HasVariable(process.variables, globals, key) =>
            GetEnvVariable(process.variables, globals, key) \in V
    BY <1>2, <2>2, Zenon DEF HasVariable, GetEnvVariable
  <2>5. Listed \in V
    BY <2>1, <2>3, <2>4, Zenon
  <2> QED
    BY <2>5, Zenon DEF V
<1>4. own \in Files(tree) \cup {None} /\ other \in Files(tree) \cup {None}
  BY <1>2, <1>3, FileFromIn, FileWEnvIn
<1>5. Hang \/ Loading(own) \/ Loading(other)
  BY Zenon DEF Execvp
<1> HIDE DEF own, other
<1> QED
  BY <1>1, <1>4, <1>5, HangIs, LoadingIs

LEMMA SetuidIs ==
    ASSUME IInv, NEW u, Setuid(u)
    PROVE  IInv'
<1> DEFINE file == tree.file[process.file]
           may == file.owner = u /\ S_ISUID \in file.mode
           own == IF may THEN u ELSE process.owner
           p == [process EXCEPT !.owner = own]
           r == IF may THEN "ok" ELSE "error"
<1>1. boot = 5 /\ process' = p /\ Reply(r) /\ tree' = tree
  BY Zenon DEF Setuid, Running
<1>2. /\ plain' = plain /\ result' = r /\ boot' = boot
      /\ accounts' = accounts /\ globals' = globals /\ hung' = hung
  BY <1>1, Zenon DEF Reply
<1>3. /\ process \in Process /\ process.variables \in Table /\ globals \in Table
      /\ Distinct(process.variables, plain) /\ hung \in BOOLEAN
      /\ process.cwdir \in Real(tree) /\ process.owner \in Users(accounts)
      /\ process.file \in Files(tree) /\ AccountsAre(accounts, 2, 3) /\ Owned(tree, accounts)
  BY <1>1, RunningIs DEF Owner
<1>4. root \in Users(accounts) /\ Users(accounts) \subseteq Nat
  <2>1. Len(accounts.user) = 2
    BY <1>3, Zenon DEF AccountsAre
  <2> QED
    BY <2>1 DEF Users, root
<1>5. own \in Users(accounts)
  <2>1. file.owner \in Users(accounts)
    BY <1>3, <1>4, Zenon DEF Owned
  <2> QED
    BY <1>3, <2>1, Zenon
<1>6. r \in {"ok", "error"}
  BY Zenon
<1> HIDE DEF own, r
<1>7. /\ p \in Process /\ p.cwdir = process.cwdir /\ p.variables = process.variables
      /\ p.owner = own /\ p.file = process.file
  <2>1. own \in Nat
    BY <1>4, <1>5, Zenon
  <2> QED
    BY <1>3, <2>1, Zenon DEF Process
<1> HIDE DEF p
<1> QED
  BY <1>1, <1>2, <1>3, <1>5, <1>6, <1>7, ProcessStep, Zenon

LEMMA LookupIs ==
    ASSUME IInv, NEW kind, NEW id, NEW bufsize, Lookup(kind, id, bufsize)
    PROVE  IInv'
<1>1. boot = 5 /\ tree' = tree /\ process' = process
  BY Zenon DEF Lookup, Running
<1>2. PICK r \in {"ok", "error"} : Reply(r)
  BY Zenon DEF Lookup
<1> QED
  BY <1>1, <1>2, ReplyIs

LEMMA NextIs ==
    ASSUME IInv, Next
    PROVE  IInv'
<1>1. CASE boot = 1 /\ BootUser("root", FALSE)
  BY <1>1, BootUserRoot, Zenon
<1>2. CASE boot = 2 /\ BootUser("nico", TRUE)
  BY <1>2, BootUserNico, Zenon
<1>3. CASE BootGroup
  BY <1>3, BootGroupIs, Zenon
<1>4. CASE BootStart
  BY <1>4, BootStartIs, Zenon
<1>5. CASE \E creat \in BOOLEAN, mode \in Mode :
              \/ \E path \in DirPath : OpenDirectory(path, creat, mode)
              \/ \E path \in FilePath : OpenFile(path, creat, mode)
  <2>1. Mode \subseteq Modes /\ DirPath \subseteq SomePath /\ FilePath \subseteq SomePath
    BY InputAssumption, Zenon
  <2> QED
    BY <1>5, <2>1, OpenDirectoryIs, OpenFileIs, Zenon
<1>6. CASE \E path \in Path :
              \/ \E redirectSymbolic \in BOOLEAN : Stat(path, redirectSymbolic)
              \/ Chdir(path)
              \/ Execvp(path)
  <2>1. Path \subseteq SomePath
    BY InputAssumption, Zenon
  <2> QED
    BY <1>6, <2>1, StatIs, ChdirIs, ExecvpIs, Zenon
<1>7. CASE \E s \in Setting : \/ \E overwrite \in BOOLEAN : Setenv(s.key, s.value, overwrite)
                              \/ Unsetenv(s.key)
  <2>1. \A s \in Setting : s.key \in Key /\ s.value \in Values
    BY InputAssumption, Zenon DEF Key, Values
  <2> QED
    BY <1>7, <2>1, SetenvIs, UnsetenvIs, Zenon
<1>8. CASE \E id \in User : \/ Setuid(id)
                            \/ \E kind \in {"passwd", "group", "shadow"}, n \in Bufsize :
                                  Lookup(kind, id, n)
  BY <1>8, SetuidIs, LookupIs, Zenon
<1>9. CASE hung /\ UNCHANGED vars
  BY <1>9, Zenon DEF vars, IInv, Typed, Ordered, Owned, Booting, Phase, Started, Program, Distinct
<1> QED
  BY <1>1, <1>2, <1>3, <1>4, <1>5, <1>6, <1>7, <1>8, <1>9, Zenon DEF Next

\* Whatever archive the boot loads and whatever calls a process makes, the
\* tree, the tables and the variables stay in order.
THEOREM SessionInvariant == Spec => []IInv
<1>1. Init => IInv
  BY InitIs
<1>2. IInv /\ [Next]_vars => IInv'
  <2> SUFFICES ASSUME IInv, [Next]_vars PROVE IInv'
    OBVIOUS
  <2>1. CASE Next
    BY <2>1, NextIs
  <2>2. CASE UNCHANGED vars
    BY <2>2, Zenon DEF vars, IInv, Typed, Ordered, Owned, Booting, Phase, Started, Program, Distinct
  <2> QED
    BY <2>1, <2>2
<1> QED
  BY <1>1, <1>2, PTL DEF Spec

-----------------------------------------------------------------------------
(* What follows.                                                           *)

LEMMA OneValueIs ==
    ASSUME IInv
    PROVE  OneValuePerVariable
BY DistinctIs, Zenon DEF IInv, Typed

\* A variable that is only ever set to be overwritten has one value
\* (setEnvVariable, usermode.c:1366-1415).
THEOREM SessionOneValue == Spec => []OneValuePerVariable
<1>1. IInv => OneValuePerVariable
  BY OneValueIs
<1> QED
  BY <1>1, SessionInvariant, PTL

\* A step of which the tree is the outcome: it stays, or the call does not fail.
LEMMA FailureIs ==
    ASSUME IInv, Next, result' = "error", tree' # tree
    PROVE  \/ tree'.dir[Len(tree'.dir)].owner = None /\ Len(tree'.dir) = Len(tree.dir) + 1
           \/ \E d \in DOMAIN tree'.dir \ Dirs :
                 /\ tree'.dir[d].link = None /\ <<"owner", "read">> \notin tree'.dir[d].mode
                 /\ tree'.file = tree.file
           \/ /\ Len(tree'.dir) = Len(tree.dir) /\ Len(tree'.file) = Len(tree.file) + 1
              /\ <<"owner", "read">> \notin Last(tree'.file).mode
<1>1. /\ ~ (boot = 1 /\ BootUser("root", FALSE)) /\ ~ (boot = 2 /\ BootUser("nico", TRUE))
      /\ ~ BootGroup /\ ~ BootStart
  <2>1. 1 \in 1 .. 4 /\ 2 \in 1 .. 4 /\ 3 \in 1 .. 4 /\ 4 \in 1 .. 4
    OBVIOUS
  <2>2. boot \in {1, 2, 3, 4} => result = "ok"
    BY <2>1, Zenon DEF IInv, Booting
  <2>3. ASSUME NEW name, NEW b, BootUser(name, b) PROVE result' = result
    BY <2>3, Zenon DEF BootUser
  <2>4. BootGroup \/ BootStart => result' = result /\ boot \in {1, 2, 3, 4}
    BY Zenon DEF BootGroup, BootStart
  <2>5. boot \notin {1, 2, 3, 4} \/ result' # result
    BY <2>2, Zenon
  <2> QED
    BY <2>3, <2>4, <2>5, Zenon
<1>2. ASSUME NEW path, NEW redirectSymbolic, Stat(path, redirectSymbolic) PROVE FALSE
  BY <1>2, Zenon DEF Stat, Hang
<1>3. ASSUME NEW path, Chdir(path) PROVE FALSE
  BY <1>3, Zenon DEF Chdir, Entering
<1>4. ASSUME NEW path, Execvp(path) PROVE FALSE
  BY <1>4, Zenon DEF Execvp, Hang, Loading
<1>5. ASSUME NEW key, NEW value, NEW overwrite, Setenv(key, value, overwrite) PROVE FALSE
  BY <1>5, Zenon DEF Setenv, Hang
<1>6. ASSUME NEW key, Unsetenv(key) PROVE FALSE
  BY <1>6, Zenon DEF Unsetenv
<1>7. ASSUME NEW id, Setuid(id) PROVE FALSE
  BY <1>7, Zenon DEF Setuid
<1>8. ASSUME NEW kind, NEW id, NEW n, Lookup(kind, id, n) PROVE FALSE
  BY <1>8, Zenon DEF Lookup
<1>9. ~ UNCHANGED vars
  BY Zenon DEF vars
<1>10. \E creat \in BOOLEAN, mode \in Mode :
          \/ \E path \in DirPath : OpenDirectory(path, creat, mode)
          \/ \E path \in FilePath : OpenFile(path, creat, mode)
  BY <1>1, <1>2, <1>3, <1>4, <1>5, <1>6, <1>7, <1>8, <1>9, Zenon DEF Next
<1>11. PICK creat \in BOOLEAN, mode \in Modes, path \in SomePath :
          OpenDirectory(path, creat, mode) \/ OpenFile(path, creat, mode)
  BY <1>10, InputAssumption, Zenon
<1>12. ASSUME NEW node, Answer(node), node.owner = Owner
       PROVE  <<"owner", "read">> \notin node.mode
  BY <1>12, AnsweredIs, Zenon
<1>13. CASE OpenDirectory(path, creat, mode)
  <2>1. DirectoryMadeBy(path, mode)
    BY <1>13, OpenDirectoryDoes, Zenon
  <2>2. PICK p \in Real(tree), name \in LastName :
          LET r == CreateDirectory(tree, p, name, mode, Owner, FirstGroup(Owner)) IN
          /\ DirectoryMade(r) /\ Ordered(r.tree) /\ r.tree.file = tree.file
          /\ \/ r.tree = tree /\ r.dir = None
             \/ /\ Len(r.tree.dir) = Len(tree.dir) + 1 /\ r.tree.dir[Len(tree.dir) + 1].owner = None
                /\ r.dir = None /\ Real(r.tree) = Real(tree)
             \/ IsMade(tree, p, name, mode, Owner, FirstGroup(Owner), r.tree, r.dir)
    BY <2>1, Zenon DEF DirectoryMadeBy
  <2> DEFINE r == CreateDirectory(tree, p, name, mode, Owner, FirstGroup(Owner))
  <2> HIDE DEF r
  <2>3. /\ DirectoryMade(r) /\ Ordered(r.tree) /\ r.tree.file = tree.file
        /\ \/ r.tree = tree /\ r.dir = None
           \/ Len(r.tree.dir) = Len(tree.dir) + 1 /\ r.tree.dir[Len(tree.dir) + 1].owner = None
           \/ IsMade(tree, p, name, mode, Owner, FirstGroup(Owner), r.tree, r.dir)
    BY <2>2, Zenon DEF r
  <2>4. tree' = r.tree /\ (r.dir # None => Answer(r.tree.dir[r.dir]))
    BY <2>3, Zenon DEF DirectoryMade
  <2>5. CASE Len(r.tree.dir) = Len(tree.dir) + 1 /\ r.tree.dir[Len(tree.dir) + 1].owner = None
    BY <2>4, <2>5, Zenon
  <2>6. CASE IsMade(tree, p, name, mode, Owner, FirstGroup(Owner), r.tree, r.dir)
    <3>1. /\ r.dir \notin Nodes(tree) /\ r.dir \in Nodes(r.tree)
          /\ r.tree.dir[r.dir].owner = Owner /\ r.tree.dir[r.dir].link = None
      BY <2>6, Zenon DEF IsMade, IsNamed
    <3>2. Valid(tree) /\ Valid(r.tree)
      BY <2>3, Zenon DEF IInv, Ordered
    <3>3. r.dir # None
      BY <3>1, <3>2, ValidIs
    <3>4. <<"owner", "read">> \notin r.tree.dir[r.dir].mode
      BY <1>12, <2>4, <3>1, <3>3, Zenon
    <3>5. DOMAIN tree.dir = Nodes(tree) /\ DOMAIN r.tree.dir = Nodes(r.tree)
      BY <3>2, ValidIs
    <3> QED
      BY <2>3, <2>4, <3>1, <3>4, <3>5, Zenon DEF Dirs
  <2> QED
    BY <2>3, <2>4, <2>5, <2>6, Zenon
<1>14. CASE OpenFile(path, creat, mode)
  <2>1. FileMadeBy(path, mode)
    BY <1>14, OpenFileDoes, Zenon
  <2>2. PICK node, r, p :
          /\ FileMade(r) /\ node.mode = mode /\ node.owner = Owner
          /\ \/ r.tree = tree
             \/ WithFile(tree, p, node, r.tree) /\ r.file = Len(tree.file) + 1
    BY <2>1, Zenon DEF FileMadeBy
  <2>3. tree' = r.tree /\ (r.file # None => Answer(r.tree.file[r.file]))
    BY <2>2, Zenon DEF FileMade
  <2>4. /\ Len(r.tree.dir) = Len(tree.dir) /\ Len(r.tree.file) = Len(tree.file) + 1
        /\ r.file = Len(tree.file) + 1 /\ r.tree.file[r.file] = node
    BY <2>2, <2>3, Zenon DEF WithFile
  <2>5. r.file # None
    <3>1. Len(tree.file) \in Nat
      BY ValidIs, Zenon DEF IInv, Ordered
    <3> DEFINE n == Len(tree.file)
    <3>2. n \in Nat /\ r.file = n + 1
      BY <2>4, <3>1
    <3> HIDE DEF n
    <3> QED
      BY <3>2 DEF None
  <2>6. <<"owner", "read">> \notin node.mode
    BY <1>12, <2>2, <2>3, <2>4, <2>5, Zenon
  <2>7. Last(r.tree.file) = node
    BY <2>4, Zenon DEF Last
  <2> QED
    BY <2>3, <2>4, <2>6, <2>7, Zenon
<1> QED
  BY <1>11, <1>13, <1>14, Zenon

\* A call that fails leaves the tree as it was, but for an entry that was
\* given up and for what its maker may not read (usermode.c:1499-1551).
THEOREM SessionFailure == Spec => FailureLeavesTree
<1>1. IInv /\ [Next]_vars =>
        [(result' = "error" /\ tree' # tree) =>
          \/ tree'.dir[Len(tree'.dir)].owner = None /\ Len(tree'.dir) = Len(tree.dir) + 1
          \/ \E d \in DOMAIN tree'.dir \ Dirs :
                /\ tree'.dir[d].link = None /\ <<"owner", "read">> \notin tree'.dir[d].mode
                /\ tree'.file = tree.file
          \/ /\ Len(tree'.dir) = Len(tree.dir) /\ Len(tree'.file) = Len(tree.file) + 1
             /\ <<"owner", "read">> \notin Last(tree'.file).mode]_vars
  <2> SUFFICES ASSUME IInv, Next, result' = "error", tree' # tree
               PROVE  \/ tree'.dir[Len(tree'.dir)].owner = None /\ Len(tree'.dir) = Len(tree.dir) + 1
                      \/ \E d \in DOMAIN tree'.dir \ Dirs :
                            /\ tree'.dir[d].link = None
                            /\ <<"owner", "read">> \notin tree'.dir[d].mode
                            /\ tree'.file = tree.file
                      \/ /\ Len(tree'.dir) = Len(tree.dir) /\ Len(tree'.file) = Len(tree.file) + 1
                         /\ <<"owner", "read">> \notin Last(tree'.file).mode
    BY Zenon
  <2> QED
    BY FailureIs
<1> QED
  BY <1>1, SessionInvariant, PTL DEF Spec, FailureLeavesTree

LEMMA TypesAre ==
    ASSUME IInv
    PROVE  TypeOK
<1>1. boot \in 1 .. 5 /\ hung \in BOOLEAN /\ result \in {"ok", "error"}
  BY Zenon DEF IInv, Typed
<1>2. /\ Valid(tree) /\ Owned(tree, accounts)
  BY Zenon DEF IInv, Ordered
<1>3. DOMAIN tree.dir = Nodes(tree) /\ DOMAIN tree.file = Files(tree)
  BY <1>2, ValidIs
<1>4. boot = 5 => DOMAIN accounts.user = Users(accounts) /\ DOMAIN accounts.group = Groups(accounts)
                  /\ root \in Users(accounts) /\ root \in Groups(accounts)
  <2> SUFFICES ASSUME boot = 5
               PROVE  /\ DOMAIN accounts.user = Users(accounts)
                      /\ DOMAIN accounts.group = Groups(accounts)
                      /\ root \in Users(accounts) /\ root \in Groups(accounts)
    OBVIOUS
  <2>1. accounts \in Tables /\ Len(accounts.user) = 2 /\ Len(accounts.group) = 3
    BY RunningIs, Zenon DEF AccountsAre
  <2>2. root \in Users(accounts) /\ root \in Groups(accounts)
    BY <2>1 DEF Users, Groups, root
  <2> QED
    BY <2>1, <2>2, TablesAre
<1>5. ASSUME NEW d \in Dirs
      PROVE  LET n == tree.dir[d] IN
             /\ n.parent \in Dirs \cup {None} /\ n.link \in Dirs \cup {None}
             /\ Len(n.subs) <= MAX_DIRECTORIES /\ Len(n.files) <= MAX_FILES
             /\ n.owner # None /\ boot = 5 => /\ n.owner \in DOMAIN accounts.user
                                              /\ n.group \in DOMAIN accounts.group
  <2>1. d \in Nodes(tree)
    BY <1>3, Zenon DEF Dirs
  <2>2. tree.dir[d].parent \in Dirs \cup {None}
    BY <1>2, <1>3, <2>1, Zenon DEF Valid, RootIs, IsEntered, Dirs
  <2>3. tree.dir[d].link \in Dirs \cup {None}
    BY <1>2, <1>3, <2>1, Zenon DEF Valid, Dirs
  <2>4. Len(tree.dir[d].subs) <= MAX_DIRECTORIES /\ Len(tree.dir[d].files) <= MAX_FILES
    BY <1>2, <2>1, Zenon DEF Valid, Holds
  <2>5. tree.dir[d].owner # None /\ boot = 5 => /\ tree.dir[d].owner \in DOMAIN accounts.user
                                                /\ tree.dir[d].group \in DOMAIN accounts.group
    BY <1>2, <1>4, <2>1, Zenon DEF Owned, OwnedBy
  <2> QED
    BY <2>2, <2>3, <2>4, <2>5
<1>6. \A f \in DOMAIN tree.file : tree.file[f].parent \in Dirs
  BY <1>2, <1>3, Zenon DEF Valid, Dirs
<1>7. boot = 5 => /\ process.cwdir \in Dirs /\ tree.dir[process.cwdir].link = None
                  /\ process.owner \in DOMAIN accounts.user
                  /\ process.file \in DOMAIN tree.file
  BY <1>3, <1>4, RunningIs, Zenon DEF Dirs, Real, Owner
<1> QED
  BY <1>1, <1>5, <1>6, <1>7, Zenon DEF TypeOK

\* What "." and ".." lead to.
LEMMA DotsLead ==
    ASSUME NEW t, Ordered(t), NEW d \in Real(t)
    PROVE  /\ Fits(t, d, 1) => Child(t, d, DotName) = d
           /\ Fits(t, d, 2) => Child(t, d, UpName) = Up(t, d)
<1>1. Valid(t) /\ d \in Nodes(t) /\ Dotted(t, d)
  BY Zenon DEF Ordered, Real
<1> DEFINE subs == t.dir[d].subs
<1>2. subs \in Seq(Nat) /\ d # None
  BY <1>1, ValidIs, NodeIs
<1>3. /\ Len(subs) >= 2 /\ t.dir[subs[1]].name # UpName
      /\ Fits(t, d, 1) => t.dir[subs[1]].name = DotName /\ t.dir[subs[1]].link = d
      /\ Fits(t, d, 2) => t.dir[subs[2]].name = UpName /\ t.dir[subs[2]].link = Up(t, d)
  BY <1>1, DottedIs, Zenon
<1>4. 1 \in 1 .. Len(subs) /\ 2 \in 1 .. Len(subs)
      /\ \A j \in 1 .. Len(subs) : ~ j < 1 /\ (j < 2 => j = 1)
  <2> DEFINE n == Len(subs)
  <2>1. n \in Nat /\ n >= 2
    BY <1>2, <1>3
  <2> HIDE DEF n
  <2>2. 1 \in 1 .. n /\ 2 \in 1 .. n /\ \A j \in 1 .. n : ~ j < 1 /\ (j < 2 => j = 1)
    BY <2>1
  <2> QED
    BY <2>2, Zenon DEF n
<1>5. subs[1] # None /\ subs[2] # None
  <2>1. subs[1] \in Nodes(t) /\ subs[2] \in Nodes(t)
    BY <1>1, <1>4, Zenon DEF Valid, Holds
  <2> QED
    BY <1>1, <2>1, ValidIs
<1>6. Up(t, d) # None
  <2>1. d # Root => t.dir[d].parent \in Nodes(t)
    BY <1>1, Zenon DEF Valid, IsEntered
  <2>2. Root # None
    BY DEF Root, None
  <2>3. None \notin Nodes(t)
    BY <1>1, ValidIs
  <2> QED
    BY <2>1, <2>2, <2>3, Zenon DEF Up
<1> HIDE DEF subs
<1>7. Fits(t, d, 1) => Named(t.dir, subs, DotName) = subs[1]
  <2> SUFFICES ASSUME Fits(t, d, 1) PROVE Named(t.dir, subs, DotName) = subs[1]
    OBVIOUS
  <2>1. IsFirst(t.dir, subs, DotName, 1)
    BY <1>3, <1>4, Zenon DEF IsFirst
  <2> QED
    BY <1>2, <2>1, FirstIs
<1>8. Fits(t, d, 2) => Named(t.dir, subs, UpName) = subs[2]
  <2> SUFFICES ASSUME Fits(t, d, 2) PROVE Named(t.dir, subs, UpName) = subs[2]
    OBVIOUS
  <2>1. IsFirst(t.dir, subs, UpName, 2)
    BY <1>3, <1>4, Zenon DEF IsFirst
  <2> QED
    BY <1>2, <2>1, FirstIs
<1> QED
  BY <1>2, <1>3, <1>5, <1>6, <1>7, <1>8, Zenon DEF Child, subs

LEMMA TreeIs ==
    ASSUME IInv
    PROVE  TreeSound
<1>1. Ordered(tree) /\ Valid(tree)
  BY Zenon DEF IInv, Ordered
<1>2. /\ Dirs = Nodes(tree) /\ RealDirs = Real(tree)
      /\ \A d \in Nodes(tree) : tree.dir[d].subs \in Seq(Nat) /\ tree.dir[d].fullpath \in Seq(Name)
  <2>1. Dirs = Nodes(tree)
    BY <1>1, ValidIs DEF Dirs
  <2>2. RealDirs = Real(tree)
    BY <2>1, Zenon DEF RealDirs, Real
  <2> QED
    BY <1>1, <2>1, <2>2, ValidIs, NodeIs
<1>3. \A d \in Nodes(tree) : DOMAIN tree.dir[d].subs = 1 .. Len(tree.dir[d].subs)
  BY <1>2
<1>4. ASSUME NEW d \in Dirs \ {Root}
      PROVE  {p \in Dirs : d \in Entries(p)} = {tree.dir[d].parent}
  <2>1. d \in Nodes(tree) /\ d # Root
    BY <1>2
  <2>2. \A p \in Nodes(tree) : d \in Entries(p) => p = tree.dir[d].parent
    <3> TAKE p \in Nodes(tree)
    <3>1. \A i \in 1 .. Len(tree.dir[p].subs) : tree.dir[tree.dir[p].subs[i]].parent = p
      BY <1>1, Zenon DEF Valid, Holds
    <3>2. d \in Entries(p) => \E i \in 1 .. Len(tree.dir[p].subs) : tree.dir[p].subs[i] = d
      BY <1>3, Zenon DEF Entries
    <3> QED
      BY <3>1, <3>2, Zenon
  <2>3. tree.dir[d].parent \in Nodes(tree)
        /\ \E i \in 1 .. Len(tree.dir[tree.dir[d].parent].subs) :
               tree.dir[tree.dir[d].parent].subs[i] = d
    BY <1>1, <2>1, Zenon DEF Valid, IsEntered
  <2>4. d \in Entries(tree.dir[d].parent)
    BY <1>3, <2>3, Zenon DEF Entries
  <2> QED
    BY <1>2, <2>2, <2>3, <2>4, Zenon
<1>5. \A d \in Dirs : IsInjective(tree.dir[d].subs)
  <2> TAKE d \in Dirs
  <2> DEFINE subs == tree.dir[d].subs
  <2>1. d \in Nodes(tree) /\ DOMAIN subs = 1 .. Len(subs)
    BY <1>2, <1>3
  <2>2. \A i, j \in 1 .. Len(subs) : subs[i] = subs[j] => i = j
    BY <1>1, <2>1, Zenon DEF Valid, Holds
  <2> HIDE DEF subs
  <2>3. IsInjective(subs)
    BY <2>1, <2>2, Zenon DEF IsInjective
  <2> QED
    BY <2>3 DEF subs
<1>6. ASSUME NEW d \in Real(tree)
      PROVE  LET length == PathLen(tree.dir[d].fullpath)
                 up     == IF d = Root THEN Root ELSE tree.dir[d].parent
             IN  /\ length + 2 <= MAX_FULL_PATH_LENGTH =>
                        GetDirectoryFromParent(tree, d, <<".">>, TRUE) = d
                 /\ length + 3 <= MAX_FULL_PATH_LENGTH =>
                        GetDirectoryFromParent(tree, d, <<"..">>, TRUE) = up
  <2> DEFINE length == PathLen(tree.dir[d].fullpath)
             up     == IF d = Root THEN Root ELSE tree.dir[d].parent
  <2>1. d \in Nodes(tree) /\ length \in Nat
    BY <1>2, PathLenIsNat, Zenon DEF Real
  <2>2. up = Up(tree, d)
    BY Zenon DEF Up
  <2>3. /\ GetDirectoryFromParent(tree, d, <<".">>, TRUE) = Child(tree, d, DotName)
        /\ GetDirectoryFromParent(tree, d, <<"..">>, TRUE) = Child(tree, d, UpName)
    <3>1. DotName \in LastName /\ UpName \in LastName
      BY DotsAre, NamesAre, Zenon
    <3>2. Stripped(DotName) = DotName /\ Stripped(UpName) = UpName
      BY StrippedOf, Zenon DEF DotName, UpName
    <3>3. /\ GetDirectoryFromParent(tree, d, DotName, TRUE) = Child(tree, d, DotName)
          /\ GetDirectoryFromParent(tree, d, UpName, TRUE) = Child(tree, d, UpName)
      BY <3>1, <3>2, FoundIs, Zenon
    <3> QED
      BY <3>3, Zenon DEF DotName, UpName
  <2>4. /\ Fits(tree, d, 1) <=> length + 2 <= MAX_FULL_PATH_LENGTH
        /\ Fits(tree, d, 2) <=> length + 3 <= MAX_FULL_PATH_LENGTH
    <3>1. /\ Fits(tree, d, 1) <=> length + 1 + 1 <= MAX_FULL_PATH_LENGTH
          /\ Fits(tree, d, 2) <=> length + 2 + 1 <= MAX_FULL_PATH_LENGTH
      BY Zenon DEF Fits
    <3> HIDE DEF length
    <3>2. length + 1 + 1 = length + 2 /\ length + 2 + 1 = length + 3
      BY <2>1
    <3> QED
      BY <3>1, <3>2, Zenon
  <2> HIDE DEF length, up
  <2>5. /\ length + 2 <= MAX_FULL_PATH_LENGTH =>
               GetDirectoryFromParent(tree, d, <<".">>, TRUE) = d
        /\ length + 3 <= MAX_FULL_PATH_LENGTH =>
               GetDirectoryFromParent(tree, d, <<"..">>, TRUE) = up
    BY <1>1, <2>2, <2>3, <2>4, DotsLead, Zenon
  <2> QED
    BY <2>5, Zenon DEF length, up
<1>7. ASSUME NEW d \in Nodes(tree), tree.dir[d].owner = None
      PROVE  PathLen(tree.dir[tree.dir[d].parent].fullpath) + MAX_NAME_LENGTH + 1
                 > MAX_FULL_PATH_LENGTH
  <2> DEFINE p == tree.dir[d].parent
             length == PathLen(tree.dir[p].fullpath)
  <2>1. ~ Fits(tree, p, MAX_NAME_LENGTH) /\ d # Root
    BY <1>1, <1>7, Zenon DEF Ordered, GivenUp
  <2>2. p \in Nodes(tree)
    BY <1>1, <2>1, Zenon DEF Valid, IsEntered
  <2>3. length \in Nat
    BY <1>2, <2>2, PathLenIsNat, Zenon
  <2>4. ~ length + MAX_NAME_LENGTH + 1 <= MAX_FULL_PATH_LENGTH
    BY <2>1, Zenon DEF Fits
  <2>5. MAX_NAME_LENGTH \in Nat /\ MAX_FULL_PATH_LENGTH \in Nat
    BY MaximaAssumption, DotsAre, Zenon
  <2> HIDE DEF length
  <2>6. length + MAX_NAME_LENGTH + 1 > MAX_FULL_PATH_LENGTH
    BY <2>3, <2>4, <2>5
  <2> QED
    BY <2>6, Zenon DEF length, p
<1>8. TypeOK
  BY TypesAre
<1> QED
  BY <1>2, <1>4, <1>5, <1>6, <1>7, <1>8, Zenon DEF TreeSound

\* Every directory is entered once, in its parent; "." leads to itself and
\* ".." to its parent; and what was given up is where a path was too long
\* (createDirectory, createSymbolicDirectory: file.c:668-789).
THEOREM SessionTree == Spec => []TreeSound
<1>1. IInv => TreeSound
  BY TreeIs
<1> QED
  BY <1>1, SessionInvariant, PTL

\* A path that does not end in a slash, before its last name and after.
LEMMA PathOn ==
    ASSUME NEW q \in Seq(Name), Len(q) > 0, NEW n \in Name, n # Empty
    PROVE  LET path == Append(q, n) IN
           /\ Before(path) = q /\ After(path) = <<n>>
           /\ path # SlashOnly /\ path \notin LastName
<1> DEFINE path == Append(q, n)
           N == Len(q)
<1>1. /\ N \in Nat \ {0} /\ path \in Seq(Name) /\ Len(path) = N + 1 /\ path[N + 1] = n
      /\ SubSeq(path, 1, N) = q
      /\ SubSeq(path, N + 1, N + 1) = <<n>>
  <2>1. N \in Nat \ {0} /\ path \in Seq(Name) /\ Len(path) = N + 1 /\ path[N + 1] = n
        /\ \A i \in 1 .. N : path[i] = q[i]
    OBVIOUS
  <2> HIDE DEF path
  <2>2. SubSeq(path, 1, N) = q
    <3>1. /\ SubSeq(path, 1, N) \in Seq(Name) /\ Len(SubSeq(path, 1, N)) = N
          /\ \A i \in 1 .. N : SubSeq(path, 1, N)[i] = path[i]
      BY <2>1
    <3> DEFINE s == SubSeq(path, 1, N)
    <3>2. s \in Seq(Name) /\ Len(s) = Len(q) /\ \A i \in 1 .. Len(s) : s[i] = q[i]
      BY <2>1, <3>1
    <3> HIDE DEF s
    <3>3. s = q
      BY <3>2, SeqEqual
    <3> QED
      BY <3>3 DEF s
  <2>3. SubSeq(path, N + 1, N + 1) = <<n>>
    <3>1. /\ SubSeq(path, N + 1, N + 1) \in Seq(Name) /\ Len(SubSeq(path, N + 1, N + 1)) = 1
          /\ SubSeq(path, N + 1, N + 1)[1] = n
      BY <2>1
    <3> DEFINE s == SubSeq(path, N + 1, N + 1)
    <3>2. s \in Seq(Name) /\ Len(s) = 1 /\ s[1] = n
      BY <3>1, Zenon
    <3> HIDE DEF s
    <3>3. s = <<n>>
      BY <3>2
    <3> QED
      BY <3>3 DEF s
  <2> QED
    BY <2>1, <2>2, <2>3
<1> HIDE DEF path, N
<1>2. path # SlashOnly /\ path \notin LastName
  <2>1. ASSUME NEW m, path = <<m, Empty>> PROVE FALSE
    <3>1. Len(<<m, Empty>>) = 2 /\ <<m, Empty>>[2] = Empty
      OBVIOUS
    <3>2. N + 1 = 2
      BY <1>1, <2>1, <3>1, Zenon
    <3>3. path[2] = n
      BY <1>1, <3>2, Zenon
    <3> QED
      BY <2>1, <3>1, <3>3, Zenon
  <2>2. ASSUME NEW m, path = <<m>> PROVE FALSE
    <3>1. Len(<<m>>) = 1
      OBVIOUS
    <3>2. N + 1 = 1
      BY <1>1, <2>2, <3>1, Zenon
    <3> QED
      BY <1>1, <3>2
  <2>3. \A name \in LastName : \E m : name = <<m>> \/ name = <<m, Empty>>
    BY Zenon DEF LastName, Empty
  <2> QED
    BY <2>1, <2>2, <2>3, Zenon DEF SlashOnly
<1>3. ~ EndsInSlash(path)
  <2>1. Last(path) = n
    BY <1>1, Zenon DEF Last
  <2> QED
    BY <2>1, EmptyIs, Zenon
<1>4. NamesBefore(path) = N
  BY <1>1, <1>3 DEF NamesBefore
<1>5. Before(path) = q /\ After(path) = <<n>>
  <2>1. Len(path) = N + 1
    BY <1>1
  <2> QED
    BY <1>1, <1>4, <2>1, Zenon DEF Before, After
<1> QED
  BY <1>2, <1>5 DEF path

\* No name of a full path is too long.
LEMMA AbsoluteIs ==
    ASSUME NEW t, Valid(t), NEW d \in Nodes(t), Short(t, d)
    PROVE  /\ Absolute(t.dir[d].fullpath) \in Seq(Name)
           /\ Len(Absolute(t.dir[d].fullpath)) > 0
           /\ ~ HasLong(Absolute(t.dir[d].fullpath))
<1> DEFINE full == t.dir[d].fullpath
           q == Absolute(full)
<1>1. full \in Seq(Name) /\ Empty \in Name
  BY ValidIs, NodeIs, NamesAre
<1>2. \A i \in 1 .. Len(full) : NameLen(full[i]) <= MAX_NAME_LENGTH
  BY Zenon DEF Short
<1> HIDE DEF full
<1>3. /\ q \in Seq(Name) /\ Len(q) = Len(full) + 1 /\ DOMAIN q = 1 .. Len(full) + 1
      /\ Len(full) \in Nat
      /\ q[1] = Empty /\ \A i \in 1 .. Len(full) : q[i + 1] = full[i]
  BY <1>1 DEF Absolute
<1>4. \A i \in 1 .. Len(full) : full[i] \in Name
  BY <1>1
<1> HIDE DEF q
<1>5. ASSUME NEW i \in DOMAIN q PROVE ~ Long(q[i])
  <2>1. i = 1 \/ \E j \in 1 .. Len(full) : i = j + 1
    <3>1. i = 1 \/ (i - 1 \in 1 .. Len(full) /\ i = (i - 1) + 1)
      BY <1>3
    <3> QED
      BY <3>1
  <2>2. CASE i = 1
    <3>1. ~ Long(Empty)
      BY NamesAre, MaximaAssumption DEF Long
    <3> QED
      BY <1>3, <2>2, <3>1, Zenon
  <2>3. CASE \E j \in 1 .. Len(full) : i = j + 1
    <3>1. PICK j \in 1 .. Len(full) : i = j + 1
      BY <2>3
    <3> DEFINE x == NameLen(full[j])
    <3>2. x \in Nat /\ MAX_NAME_LENGTH \in Nat
      BY <1>4, NameAssumption, DotsAre, Zenon
    <3>3. x <= MAX_NAME_LENGTH /\ q[i] = full[j]
      BY <1>2, <1>3, <3>1, Zenon
    <3> HIDE DEF x
    <3>4. ~ x > MAX_NAME_LENGTH
      BY <3>2, <3>3
    <3> QED
      BY <3>3, <3>4, Zenon DEF Long, x
  <2> QED
    BY <2>1, <2>2, <2>3
<1>6. Len(q) > 0
  <2> DEFINE m == Len(full)
  <2>1. m \in Nat /\ Len(q) = m + 1
    BY <1>3
  <2> HIDE DEF m
  <2> QED
    BY <2>1
<1> QED
  BY <1>3, <1>5, <1>6, Zenon DEF HasLong, q, full

LEMMA FullpathIs ==
    ASSUME NEW t, Ordered(t), NEW d \in Real(t), d # Root, Plain(t, d)
    PROVE  Leads(t, Root, Absolute(t.dir[d].fullpath)) = d
<1> DEFINE p == t.dir[d].parent
           full == t.dir[d].fullpath
           upper == t.dir[p].fullpath
<1>1. /\ Valid(t) /\ d \in Nodes(t) /\ Short(t, d) /\ LeadsBack(t, d) /\ PathIs(t, d)
  BY Zenon DEF Ordered, Real
<1>2. p \in Real(t) /\ full = upper \o Stripped(t.dir[d].name)
  BY <1>1, Zenon DEF PathIs
<1>3. /\ p \in Nodes(t) /\ p # None /\ upper \in Seq(Name) /\ full \in Seq(Name)
      /\ t.dir[d].name \in LastName /\ t.dir[p].name \in LastName
  <2>1. p \in Nodes(t) /\ p # None
    BY <1>1, <1>2, ValidIs
  <2> QED
    BY <1>1, <2>1, ValidIs, NodeIs
<1>4. ~ Slashed(t.dir[d].name)
  <2>1. IsPrefix(full, full)
    BY <1>3, PrefixOfSelf
  <2> QED
    BY <2>1, Zenon DEF Plain
<1>5. PICK n \in Name : t.dir[d].name = <<n>> /\ Stripped(t.dir[d].name) = <<n>> /\ n # Empty
  BY <1>3, <1>4, LastNameIs, Zenon
<1>6. full = upper \o <<n>>
  BY <1>2, <1>5, Zenon
<1>7. Plain(t, p)
  <2> SUFFICES ASSUME NEW x \in Real(t), x # Root, IsPrefix(t.dir[x].fullpath, upper)
               PROVE  ~ Slashed(t.dir[x].name)
    BY Zenon DEF Plain
  <2>1. t.dir[x].fullpath \in Seq(Name) /\ <<n>> \in Seq(Name)
    BY <1>1, ValidIs, NodeIs
  <2>2. IsPrefix(t.dir[x].fullpath, upper \o <<n>>)
    BY <1>3, <2>1, PrefixOn
  <2> QED
    BY <1>6, <2>2, Zenon DEF Plain
<1>8. Walk(t, Root, Absolute(upper)) = p
  <2>1. LeadsBack(t, p)
    BY <1>2, Zenon DEF Ordered
  <2> QED
    BY <1>7, <2>1, LeadsBackIs, Zenon
<1>9. Absolute(full) = Append(Absolute(upper), n) /\ Absolute(upper) \in Seq(Name)
  BY <1>3, <1>6, FullIs
<1>10. Len(Absolute(upper)) > 0
  <2>1. Short(t, p)
    BY <1>2, Zenon DEF Ordered
  <2> QED
    BY <1>1, <1>3, <2>1, AbsoluteIs
<1> DEFINE path == Absolute(full)
           q == Absolute(upper)
<1>11. ~ HasLong(path)
  BY <1>1, AbsoluteIs
<1>12. Walk(t, Root, path) = d
  BY <1>1, LeadsBackIs, Zenon
<1> HIDE DEF full, upper, p, q, path
<1>13. q \in Seq(Name) /\ Len(q) > 0 /\ path = Append(q, n) /\ Walk(t, Root, q) = p
  BY <1>8, <1>9, <1>10, Zenon DEF q, path
<1>14. Before(path) = q /\ After(path) = <<n>> /\ path # SlashOnly /\ path \notin LastName
  BY <1>5, <1>13, PathOn, Zenon
<1>15. Down(t, p, n) = d
  <2>1. Walk(t, Root, Append(q, n)) = Down(t, Walk(t, Root, q), n)
    BY <1>13, WalkOn
  <2> QED
    BY <1>12, <1>13, <2>1, Zenon
<1>16. Child(t, p, <<n>>) = d
  BY <1>3, <1>5, <1>15, FoundIs, Zenon
<1> DEFINE f == FindParent(t, Root, path)
<1>17. f.dir = p /\ f.name = <<n>>
  <2>1. From(Root, path) = Root
    BY DEF From, Root, None
  <2>2. f = [dir |-> Walk(t, From(Root, path), Before(path)), name |-> After(path)]
    BY <1>11, <1>14, FindParentOf, Zenon
  <2>3. f = [dir |-> p, name |-> <<n>>]
    BY <1>13, <1>14, <2>1, <2>2, Zenon
  <2> HIDE DEF f
  <2> QED
    BY <2>3
<1> HIDE DEF f
<1>18. Leads(t, Root, path) = GetDirectoryFromParent(t, p, <<n>>, TRUE)
  <2>1. Leads(t, Root, path) =
            IF f.dir = None THEN None ELSE IF t.dir[f.dir].name = path THEN f.dir
            ELSE GetDirectoryFromParent(t, f.dir, f.name, TRUE)
    BY Zenon DEF Leads, GetDirectoryFrom, DirectoryAt, f
  <2>2. t.dir[p].name # path
    BY <1>3, <1>14, Zenon
  <2> QED
    BY <1>3, <1>17, <2>1, <2>2, Zenon
<1>19. GetDirectoryFromParent(t, p, <<n>>, TRUE) = Child(t, p, <<n>>)
  <2>1. <<n>> \in LastName /\ Stripped(<<n>>) = <<n>>
    BY NamesAre, StrippedOf, Zenon
  <2> QED
    BY <2>1, FoundIs, Zenon
<1> QED
  BY <1>16, <1>18, <1>19, Zenon DEF path, full

LEMMA LeadsBackHolds ==
    ASSUME IInv
    PROVE  FullpathLeadsBack
<1>1. Ordered(tree) /\ Valid(tree)
  BY Zenon DEF IInv, Ordered
<1>2. RealDirs = Real(tree)
  <2>1. Dirs = Nodes(tree)
    BY <1>1, ValidIs DEF Dirs
  <2> QED
    BY <2>1, Zenon DEF RealDirs, Real
<1>3. ASSUME NEW d \in Real(tree), ~ \E p \in Ancestry(d) : p # Root /\ Last(tree.dir[p].name) = ""
      PROVE  GetDirectoryFrom(tree, Root, PathTo(d), TRUE) = d
  <2>1. Plain(tree, d)
    BY <1>2, <1>3, Zenon DEF Plain, Ancestry, Slashed
  <2>2. CASE d # Root
    <3>1. PathTo(d) = Absolute(tree.dir[d].fullpath)
      BY <2>2, Zenon DEF PathTo, Absolute, Empty
    <3>2. Leads(tree, Root, Absolute(tree.dir[d].fullpath)) = d
      BY <1>1, <2>1, <2>2, FullpathIs
    <3> QED
      BY <3>1, <3>2, Zenon DEF Leads
  <2>3. CASE d = Root
    <3>1. PathTo(d) = SlashOnly
      BY <2>3, Zenon DEF PathTo, SlashOnly, Empty
    <3>2. FindParent(tree, Root, SlashOnly) = [dir |-> Root, name |-> SlashOnly]
      BY FindParentOf, Zenon
    <3>3. FindParent(tree, Root, SlashOnly).dir = Root
      BY <3>2
    <3>4. tree.dir[Root].name = SlashOnly /\ Root # None
      <4>1. Root # None
        BY DEF Root, None
      <4> QED
        BY <1>1, <4>1, Zenon DEF Valid, RootIs, SlashOnly, Empty
    <3>5. GetDirectoryFrom(tree, Root, SlashOnly, TRUE) = Root
      BY <3>3, <3>4, Zenon DEF GetDirectoryFrom, DirectoryAt
    <3> QED
      BY <2>3, <3>1, <3>5, Zenon
  <2> QED
    BY <2>2, <2>3
<1> QED
  BY <1>2, <1>3, Zenon DEF FullpathLeadsBack

\* The full path of a directory, as getcwd gives it and as PWD holds it, leads
\* back to it, but where a name has a slash (file.c:687-703).
THEOREM SessionFullpath == Spec => []FullpathLeadsBack
<1>1. IInv => FullpathLeadsBack
  BY LeadsBackHolds
<1> QED
  BY <1>1, SessionInvariant, PTL
=============================================================================

----------------------------- MODULE MCSession ------------------------------
(* Session with names of one or two characters and paths of at most seven. *)
EXTENDS Session

Names == {"", ".", "..", "a", "b", "long", "home", "nico", "root", "bin", "usr", "lib", "sudo", "shell"}
Characters(name) == CASE name = "" -> 0 [] name = ".." -> 2 [] name = "long" -> 3 [] OTHER -> 1

Sbit == Mode755 \cup {S_ISUID}
Bin  == <<[path |-> <<"", "bin">>, mode |-> Mode755, file |-> FALSE]>>
Executables == <<[path |-> <<"", "bin", "shell">>, mode |-> Mode755, file |-> TRUE],
              [path |-> <<"", "bin", "sudo">>, mode |-> Sbit, file |-> TRUE]>>
FirstProgram == <<"", "bin", "shell">>
Dir(path) == <<[path |-> path, mode |-> Mode755, file |-> FALSE]>>

\* One archive with /home/nico, as the repository's is made, and one with no /home.
Archives == {Bin \o Executables,
             Bin \o Executables \o Dir(<<"", "home">>) \o Dir(<<"", "home", "nico">>)}
Paths == {<<"a">>, <<"..">>, <<"a", "a">>, <<"", "">>, <<"">>, <<"sudo">>, <<"long">>}
DirPaths == {<<"a">>, <<"a", "">>, <<"nico">>}
FilePaths == {<<"a">>}
Settings == {[key |-> "PATH", value |-> <<<<"a", "b">>>>], [key |-> "PWD", value |-> <<<<"", "bin">>>>]}
SomeModes == {Mode755, {<<"group", "read">>}}
=============================================================================

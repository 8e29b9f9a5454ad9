------------------------------ MODULE MCShell -------------------------------
(* Shell on a terminal of two rows of twelve cells. *)
EXTENDS Shell

User == <<"u">>
Directories == {<<"/">>, <<"/", "h">>}
Programs ==     \* more than a row, an open sequence, a step back, a saved and a restored screen
    {[k \in 1 .. 13 |-> "x"] \o <<"\t">>, <<"x", Esc, "[", "1">>, <<Bs>>, <<Esc, "[", "?", "4", "7", "h">>,
     <<Esc, "[", "?", "4", "7", "l">>}
=============================================================================

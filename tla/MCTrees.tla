------------------------------ MODULE MCTrees ------------------------------
(* A DirTree on its own, under keys of every form: relative, absolute,     *)
(* with a leading dot, hidden, empty, with a trailing slash and with a     *)
(* doubled one, wildcards, and paths above, below and beside each other.   *)
(* Or a Router, with exact, nested, wildcard, replaced and hidden routes   *)
(* of two methods.                                                         *)
EXTENDS DirTree, Router

\* One of the two is in use.
MCInit == TreeInit /\ RouterInit
TreeStep == alive /\ added = <<>> /\ TreeNext /\ UNCHANGED routerVars
RouterStep == heap = NewTree /\ RouterNext /\ UNCHANGED heap
MCSpec == MCInit /\ [][TreeStep \/ RouterStep]_<<heap, routerVars>>

MCKeys == { <<"a">>, <<"", "a", "b">>, <<".", "a", "*">>, <<"a", "", "b">>, <<"">>, <<".h">> }
MCProbes == MCKeys \cup { <<".">>, <<"b">>, <<"a", "">>, <<"a", "c">>, <<"a", "b", "c">>, <<".h", "a">> }

Route(i, m, p) == [id |-> i, method |-> m, path |-> p]
MCRoutes == { Route(1, "GET", <<"", "a">>),           Route(2, "GET", <<"", "a">>),
              Route(3, "GET", <<"", "a", "b", "c">>), Route(4, "GET", <<"", "a", "*">>),
              Route(5, "POST", <<"", "a", "">>),      Route(6, "GET", <<".h">>) }
MCRequests == { <<"", "a">>, <<"", "a", "">>, <<"", "a", "b">>, <<"", "a", "x">>,
                <<"", "a", "x", "y">>, <<"", "">>, <<"", "a", "b", "x">>, <<".h">>, <<".g">> }
=============================================================================

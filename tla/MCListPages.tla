----------------------------- MODULE MCListPages ----------------------------
(***************************************************************************)
(* A model-checking instance of ListPages.                                 *)
(***************************************************************************)
EXTENDS ListPages

SomeIDs == 1..4
SomeTimes == 1..2
SomeMarkers == {2, 5}
SomeMaxItems ==
    {[kind |-> "missing", n |-> 0], [kind |-> "text", n |-> 0]}
    \cup {[kind |-> "number", n |-> n] : n \in {0, 1, 3}}
=============================================================================

---------------------------- MODULE MCInspector ----------------------------
(***************************************************************************)
(* An instance of Inspector for TLC: a page of four nodes on three levels, *)
(* one that has lost a node and one in which a node has moved.             *)
(***************************************************************************)
EXTENDS Inspector

Leaf == <<>>
Trees == { [r |-> <<"a", "b">>, a |-> <<"c">>, b |-> Leaf, c |-> Leaf],
           [r |-> <<"b">>, b |-> Leaf],
           [r |-> <<"a", "b">>, a |-> Leaf, b |-> <<"c">>, c |-> Leaf] }
=============================================================================

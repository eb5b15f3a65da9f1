------------------------------ MODULE MCPushDB ------------------------------
(***************************************************************************)
(* An instance of PushDB for TLC, with trees that initStructTree makes.    *)
(***************************************************************************)
EXTENDS PushDB, AXTrees

NoTrees == {}
S == INSTANCE Rows WITH Trees <- NoTrees, ax <- 0, st <- 0, step <- 0

\* A node, and leaves whose ids are counted from id.
Node(id, role, kids) == [id |-> id, role |-> role, ignored |-> FALSE, kids |-> kids]
Leaves(roles, id)    == [i \in DOMAIN roles |-> Node(id + i, roles[i], <<>>)]
Made(tree)           == S!RowsOf(InDocumentOrder(tree))

\* A page with a list, one with objects, a subtree of the first, and a tree in
\* which a node is twice.
Page    == Made(Node(1, "root", <<Node(2, "box", Leaves(<<"a", "a">>, 2)), Node(5, "b", <<>>)>>))
Objects == Made(Node(1, "root", Leaves(<<"a", "b", "a", "b">>, 5)))
Box     == Made(Node(2, "box", Leaves(<<"a", "b">>, 2)))
Twice   == Made(Node(1, "root", Leaves(<<"a", "b">>, 1) \o Leaves(<<"c">>, 1)))

Stream == { [type |-> "reset", trees |-> <<Page>>],
            [type |-> "reset", trees |-> <<Objects>>],
            [type |-> "patch", trees |-> <<Box, Page>>],
            [type |-> "patch", trees |-> <<Twice>>],
            [type |-> "patch", trees |-> <<>>] }
=============================================================================

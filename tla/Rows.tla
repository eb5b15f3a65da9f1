-------------------------------- MODULE Rows --------------------------------
(***************************************************************************)
(* What pushDB makes of a structure tree: its nodes in the order of        *)
(* pushInstancesInner and pushStructures, with what is stored of each.     *)
(* Nullable columns are sets of at most one element, up is the place of    *)
(* the parent (0 for the root).                                            *)
(***************************************************************************)
EXTENDS Structure

InitStructTree(root) ==
    MakeSynthetics(UpdateParentRecursively(UpdatePHash(UpdateSHash(MakeStructTree(root)))))

FirstOf(nodes) == {n.hash : n \in Range(SubSeq(nodes, 1, Min({1, Len(nodes)})))}

Row(id, up, hash, kids, rest, path, parentPath) ==
    [ax |-> id, up |-> up, shash |-> hash, firstChild |-> FirstOf(kids),
     nextSibling |-> FirstOf(rest), path |-> path, parentPath |-> parentPath \ {<<>>}]

\* The rows of a part of the list of instance i, the first row being row at.
RECURSIVE RowsBelow(_, _, _, _, _, _)
RowsBelow(root, tree, i, nodes, at, up) ==
    IF nodes = <<>> THEN <<>>
    ELSE LET node  == Head(nodes)
             child == tree[i].kids[node.id]
             row   == IF node.id = 0
                      THEN Row({}, up, node.hash, node.kids, Tail(nodes), <<>>, {})
                      ELSE Row({root[child].id}, up, node.hash, tree[child].list, Tail(nodes),
                               tree[child].path, {tree[child].up})
             below == IF node.id = 0 THEN RowsBelow(root, tree, i, node.kids, at + 1, at)
                      ELSE RowsBelow(root, tree, child, tree[child].list, at + 1, at)
         IN  <<row>> \o below \o RowsBelow(root, tree, i, Tail(nodes), at + 1 + Len(below), up)

RowsOf(root) ==
    LET tree == InitStructTree(root)
    IN  <<Row({root[1].id}, 0, tree[1].hash, tree[1].list, <<>>, tree[1].path, {})>>
        \o RowsBelow(root, tree, 1, tree[1].list, 2, 1)
=============================================================================

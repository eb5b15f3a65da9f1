----------------------------- MODULE Structure -----------------------------
(***************************************************************************)
(* initStructTree (persistent.go, structure.go): from an AX tree to a tree *)
(* of structure instances with structure hashes, path hashes and parents,  *)
(* in which what is repeated is wrapped (module Wrappers).                 *)
(*                                                                         *)
(* A tree is a function of its nodes.  An AX node is the place it has in   *)
(* the document; it is [role, ignored, kids, last]: its children, and the  *)
(* last node below it (itself if there is none).  An instance has the      *)
(* number of its AX node.  A path hash is the sequence of steps [role,     *)
(* nth] from the root, empty where there is none: the hash of a hash and a *)
(* step is taken to be injective.                                          *)
(***************************************************************************)
EXTENDS Wrappers

CONSTANT Trees   \* AX trees to try

\* The first node is the root; a node comes right behind the ones below its
\* sibling before it, or behind its parent.
IsTree(tree) ==
    LET n == Len(tree)
        end(i, k) == IF k = 0 THEN i ELSE tree[tree[i].kids[k]].last
    IN  /\ tree \in Seq(Range(tree)) /\ tree # <<>> /\ tree[1].last = n
        /\ \A i \in 1..n :
              /\ tree[i].ignored \in BOOLEAN
              /\ tree[i].kids \in Seq((i + 1)..n)
              /\ tree[i].last = end(i, Len(tree[i].kids))
              /\ \A k \in 1..Len(tree[i].kids) : tree[i].kids[k] = end(i, k - 1) + 1

ASSUME TreesOK == \A tree \in Trees : IsTree(tree)

VARIABLES
    ax,   \* the AX tree
    st,   \* the structure tree made of it
    step  \* the step of initStructTree that comes next

treeVars == <<ax, st, step>>
-----------------------------------------------------------------------------
(* makeStructTree.                                                         *)

\* Mutant: a text box is ignored whether or not it has children.
AnyTextBox(node) == ~(node.ignored \/ node.role = "InlineTextBox")

IsNotIgnored(node) ==
    ~(node.ignored \/ (node.kids = <<>> /\ node.role = "InlineTextBox"))

\* What is found below each node: its children, each child that is ignored
\* replaced by what is found below it.
FilterDescendentsShallow(tree) ==
    LET below[i \in DOMAIN tree] ==
            FlattenSeq([k \in DOMAIN tree[i].kids |->
                           LET child == tree[i].kids[k]
                           IN  IF IsNotIgnored(tree[child]) THEN <<child>> ELSE below[child]])
    IN  below

\* The list of an instance's children as it is linked: a child has its place
\* among them as id.
Siblings(kids, hash) ==
    [k \in DOMAIN kids |->
        [id |-> k, role |-> hash[kids[k]].role, hash |-> hash[kids[k]], kids |-> <<>>]]

Unset == [role |-> "", of |-> <<>>]

MakeStructTree(tree) ==
    LET below == FilterDescendentsShallow(tree)
        made  == {1} \cup {i \in DOMAIN tree : IsNotIgnored(tree[i])}
    IN  [i \in made |->
            [role |-> tree[i].role, hash |-> Unset, path |-> <<>>, up |-> <<>>,
             kids |-> below[i], list |-> Siblings(below[i], [j \in made |-> Unset])]]
-----------------------------------------------------------------------------
(* Hashes and parents.  initStructTree computes them before it wraps, so   *)
(* the cases for synthetic nodes are not reached.                          *)

\* Mutant: a node is hashed before its children are.
HashedFirst(tree) ==
    [i \in DOMAIN tree |->
        [tree[i] EXCEPT !.hash =
            [role |-> tree[i].role,
             of   |-> [k \in DOMAIN tree[i].kids |-> tree[tree[i].kids[k]].hash]]]]

UpdateSHash(tree) ==
    LET hash[i \in DOMAIN tree] ==
            [role |-> tree[i].role,
             of   |-> [k \in DOMAIN tree[i].kids |-> hash[tree[i].kids[k]]]]
    IN  [i \in DOMAIN tree |-> [tree[i] EXCEPT !.hash = hash[i]]]

\* The instance that has a node among its children, and the node's place there.
Parent(tree, i) == CHOOSE p \in DOMAIN tree : i \in Range(tree[p].kids)

Place(tree, i) ==
    LET kids == tree[Parent(tree, i)].kids IN CHOOSE k \in DOMAIN kids : kids[k] = i

\* childRoleHash: the hash of the parent's role.
ChildRole(node, child) == node.role

\* Mutant: the histogram is not counted up.
FirstStep(node, k) == [role |-> ChildRole(node, node.kids[k]), nth |-> 0]

\* The histogram numbers the children that have the same childRoleHash.
PathStep(node, k) ==
    LET role(j) == ChildRole(node, node.kids[j])
    IN  [role |-> role(k), nth |-> Cardinality({j \in 1..(k - 1) : role(j) = role(k)})]

UpdatePHash(tree) ==
    LET path[i \in DOMAIN tree] ==
            IF i = 1 THEN <<[role |-> tree[1].role, nth |-> 0]>>
            ELSE Append(path[Parent(tree, i)], PathStep(tree[Parent(tree, i)], Place(tree, i)))
    IN  [i \in DOMAIN tree |-> [tree[i] EXCEPT !.path = path[i]]]

\* Of a parent only its path hash is used; a wrapper has none.
UpdateParentRecursively(tree) ==
    LET linked(i) == {node.id : node \in Range(tree[i].list)}
        up(i) == IF i # 1 /\ Place(tree, i) \in linked(Parent(tree, i))
                 THEN tree[Parent(tree, i)].path ELSE <<>>
    IN  [i \in DOMAIN tree |-> [tree[i] EXCEPT !.up = up(i)]]
-----------------------------------------------------------------------------
(* makeSynthetics.                                                         *)

Round(nodes) == IF Repeated(nodes) THEN DeleteAdjacent(SlideWindow(nodes)) ELSE nodes

\* The loop, each round of which makes the list shorter.
Rounds(nodes) ==
    LET after[n \in 0..Len(nodes)] ==
            IF n = 0 THEN DeleteAdjacent(nodes) ELSE Round(after[n - 1])
    IN  after[Len(nodes)]

MakeSynthetics(tree) ==
    LET hash == [i \in DOMAIN tree |-> tree[i].hash]
    IN  [i \in DOMAIN tree |->
            [tree[i] EXCEPT !.list = Rounds(Siblings(tree[i].kids, hash))]]
-----------------------------------------------------------------------------
(* initStructTree, step by step.                                           *)

TreeInit ==
    /\ ax \in Trees
    /\ st = MakeStructTree(ax)
    /\ step = "shash"

HashStructures ==
    /\ step = "shash"
    /\ st' = UpdateSHash(st)
    /\ step' = "phash"
    /\ UNCHANGED ax

HashPaths ==
    /\ step = "phash"
    /\ st' = UpdatePHash(st)
    /\ step' = "parent"
    /\ UNCHANGED ax

\* Mutant: parents are set when the wrappers are already there.
SetParentsLast ==
    /\ step = "parent"
    /\ st' = UpdateParentRecursively(MakeSynthetics(st))
    /\ step' = "wrap"
    /\ UNCHANGED ax

SetParents ==
    /\ step = "parent"
    /\ st' = UpdateParentRecursively(st)
    /\ step' = "wrap"
    /\ UNCHANGED ax

Wrap ==
    /\ step = "wrap"
    /\ st' = MakeSynthetics(st)
    /\ step' = "done"
    /\ UNCHANGED ax

TreeNext == HashStructures \/ HashPaths \/ SetParents \/ Wrap
TreeSpec == TreeInit /\ [][TreeNext]_treeVars
-----------------------------------------------------------------------------
(* Properties.                                                             *)

\* The children of an instance, seen through the wrappers.
Seen(i) ==
    LET leaves == Unwrapped(st[i].list, Len(st[i].kids))
    IN  [k \in DOMAIN leaves |-> st[i].kids[leaves[k].id]]

Above(i, j) == i < j /\ j <= ax[i].last

Visible(node) == ~node.ignored /\ (node.role = "InlineTextBox" => node.kids # <<>>)
Kept          == {i \in DOMAIN ax : i = 1 \/ Visible(ax[i])}

\* The nodes that have i as the nearest node above that is kept.
KeptBelow(i) ==
    {j \in Kept : Above(i, j) /\ ~ \E between \in Kept : Above(i, between) /\ Above(between, j)}

\* "Nodes with Ignored: true are transparent", and so are text boxes without
\* children: the others (and the root) are kept, each below the nearest node
\* above it that is kept, in document order.  Wrapping takes no node elsewhere;
\* the nodes missing after it are the last ones of a list.
KeptNodes ==
    /\ DOMAIN st = Kept
    /\ \A i \in Kept :
          /\ Range(Seen(i)) \subseteq KeptBelow(i)
          /\ \A k, l \in DOMAIN Seen(i) : k < l => Seen(i)[k] < Seen(i)[l]
          /\ \A j \in KeptBelow(i) \ Range(Seen(i)) :
                step = "done" /\ \A k \in Range(Seen(i)) : k < j

\* A path hash is that of one instance of the tree only, also when the
\* instance is in a wrapper: "resolve a node uniquely".
PathsDiffer ==
    step \in {"parent", "wrap", "done"} =>
        \A i, j \in DOMAIN st : st[i].path = st[j].path => i = j

\* "synthetics are supposed to be transparent when it comes to structural
\* identity": what is stored as the parent of a path is the path of the nearest
\* instance above that stands for an AX node.
ParentPath ==
    step \in {"wrap", "done"} =>
        \A i \in DOMAIN st : \A j \in Range(Seen(i)) :
            st[j].up = st[i].path /\ Front(st[j].path) = st[i].path

\* The tree below an instance: its role, how its children are wrapped, and what
\* is below them.
Shapes ==
    LET shape[i \in DOMAIN st] ==
            [role |-> st[i].role, list |-> st[i].list,
             kids |-> [k \in DOMAIN st[i].kids |-> shape[st[i].kids[k]]]]
    IN  shape

\* "Every instance with that hash has the same role tree shape": instances with
\* one structure hash have the same tree of roles, the wrappers included, though
\* hashes are computed before anything is wrapped and nodes may be lost in it.
HashIsShape ==
    step # "shash" =>
        \A i, j \in DOMAIN st : st[i].hash = st[j].hash => Shapes[i] = Shapes[j]
=============================================================================

------------------------------ MODULE MCTrees ------------------------------
(***************************************************************************)
(* Structure and Synthetics for TLC.  A behavior makes the structure tree  *)
(* of an AX tree, or wraps one list; the other's variables stay as they    *)
(* are at first.                                                           *)
(*                                                                         *)
(* The AX trees are all of up to MaxNodes nodes, and those with two lists  *)
(* of up to MaxLeaves leaves, so long that what is repeated in them is     *)
(* wrapped.  The lists are all of up to MaxLength over Letters, and those  *)
(* of the code's tests (TestConstructFlat).                                *)
(***************************************************************************)
EXTENDS Synthetics, Structure, AXTrees

CONSTANTS MaxNodes, MaxLeaves, Labels, Letters, MaxLength

VARIABLE which
-----------------------------------------------------------------------------
\* Every forest of n nodes, ids counted from id in document order.
RECURSIVE Forests(_, _)
Forests(n, id) ==
    IF n = 0 THEN {<<>>}
    ELSE UNION {
        {<<[id |-> id, role |-> label.role, ignored |-> label.ignored, kids |-> below]>> \o rest :
            label \in Labels, below \in Forests(k - 1, id + 1), rest \in Forests(n - k, id + k)} :
        k \in 1..n}

Root(kids) == [id |-> 1, role |-> "A", ignored |-> FALSE, kids |-> kids]
AllTrees   == {Root(kids) : kids \in UNION {Forests(n, 2) : n \in 0..(MaxNodes - 1)}}

Node(id, role, kids) == [id |-> id, role |-> role, ignored |-> FALSE, kids |-> kids]
Lists                == UNION {[1..n -> {"A", "B"}] : n \in 0..MaxLeaves}
Flat(roles, id)      == [i \in DOMAIN roles |-> Node(id + i, roles[i], <<>>)]
Twins == {Root(<<Node(2, "A", Flat(s, 2)), Node(3 + Len(s), "A", Flat(t, 3 + Len(s)))>>) :
             s, t \in Lists}
Samples == {InDocumentOrder(tree) : tree \in AllTrees \cup Twins}

AllLabels == { [role |-> "A", ignored |-> FALSE], [role |-> "B", ignored |-> FALSE],
               [role |-> "B", ignored |-> TRUE],
               [role |-> "InlineTextBox", ignored |-> FALSE] }

Tests ==
    LET group == <<"2", "3", "3", "3", "3", "4">>
    IN  { <<"A", "B", "A", "B">>, <<"A", "B", "A", "B", "C">>, <<"A", "B", "C", "A", "B", "C">>,
          <<"F", "A", "B", "B", "B", "A", "B", "B", "A", "B", "G">>,
          <<"1">> \o group \o group \o group \o group
                  \o <<"2", "4", "5", "6", "2", "7", "8", "2", "7">> }

Short == UNION {[1..n -> Letters] : n \in 1..MaxLength} \cup Tests
-----------------------------------------------------------------------------
TreesInit ==
    \/ which = "tree" /\ input = <<"A">> /\ Init /\ TreeInit
    \/ which = "list" /\ ax = InDocumentOrder(Root(<<>>)) /\ TreeInit /\ Init

TreesNext ==
    /\ UNCHANGED which
    /\ \/ which = "list" /\ Next /\ UNCHANGED treeVars
       \/ which = "tree" /\ TreeNext /\ UNCHANGED vars

TreesSpec == TreesInit /\ [][TreesNext]_<<which, vars, treeVars>>
-----------------------------------------------------------------------------
(* A property of Synthetics that takes recursion to state.                 *)

\* The pattern language of a hash: an input node repeated, or a sequence of
\* patterns repeated.
RECURSIVE Word(_, _), Words(_, _)
Words(hashes, s) ==
    IF hashes = <<>> THEN s = <<>>
    ELSE \E n \in 1..Len(s) : /\ Word(Head(hashes), SubSeq(s, 1, n))
                              /\ Words(Tail(hashes), SubSeq(s, n + 1, Len(s)))
Word(hash, s) ==
    IF hash.of = <<>> THEN s # <<>> /\ \A i \in DOMAIN s : s[i] = hash.role
    ELSE \E n \in 1..Len(s) : /\ Words(hash.of, SubSeq(s, 1, n))
                              /\ n = Len(s) \/ Word(hash, SubSeq(s, n + 1, Len(s)))

\* A hash tells what a node stands for, up to repetition, through all rounds of
\* wrapping lists in objects in lists.
HashTells ==
    \A i \in DOMAIN layer :
        LET ids == Leaves(<<layer[i]>>)
        IN  Word(layer[i].hash, [k \in DOMAIN ids |-> input[ids[k]]])
=============================================================================

------------------------------ MODULE Wrappers ------------------------------
(***************************************************************************)
(* internal/structure/synthetics.go: deleteAdjacent and slideWindow, which *)
(* put synthetic nodes around what is repeated in a list of siblings.      *)
(*                                                                         *)
(* A list of siblings is a sequence.  A node (StructureInstance) has an id *)
(* (0 if it is synthetic), its role, its structure hash, and the nodes     *)
(* that it wraps.                                                          *)
(*                                                                         *)
(* A structure hash is a term: the role and the children's hashes that are *)
(* hashed.  Two terms are equal exactly when the bytes are, so xxh3 is     *)
(* taken to be injective.                                                  *)
(***************************************************************************)
EXTENDS Integers, Sequences, FiniteSets, SequencesExt, FiniteSetsExt

Hash(nodes) == [i \in DOMAIN nodes |-> nodes[i].hash]

\* newSyntheticList, newSyntheticObject: a node of no AX node.
Synthetic(role, hash, nodes) == [id |-> 0, role |-> role, hash |-> hash, kids |-> nodes]

List(nodes)   == Synthetic("SYNTHETIC_LIST", nodes[1].hash, nodes)

\* comboHash hashes no role.
Object(nodes) == Synthetic("SYNTHETIC_OBJECT", [role |-> "", of |-> Hash(nodes)], nodes)
-----------------------------------------------------------------------------
(* deleteAdjacent: every run of nodes with one hash becomes a list.        *)

\* Mutant: the wrapper also gets the node behind the run.
RunEndLate(nodes, i) ==
    LET equal == {j \in i..Len(nodes) : \A k \in i..j : nodes[k].hash = nodes[i].hash}
    IN  IF Max(equal) > i /\ Max(equal) < Len(nodes) THEN Max(equal) + 1 ELSE Max(equal)

\* Where the run that starts at i ends.
RunEnd(nodes, i) ==
    Max({j \in i..Len(nodes) : \A k \in i..j : nodes[k].hash = nodes[i].hash})

DeleteAdjacent(nodes) ==
    LET from[i \in 1..(Len(nodes) + 1)] ==
            IF i > Len(nodes) THEN <<>>
            ELSE LET run == SubSeq(nodes, i, RunEnd(nodes, i))
                 IN  <<IF Len(run) = 1 THEN nodes[i] ELSE List(run)>>
                     \o from[i + Len(run)]
    IN  from[1]
-----------------------------------------------------------------------------
(* slideWindow: the most frequent pattern becomes an object, wherever it   *)
(* occurs.                                                                 *)

\* The length hashes from position i on.
Window(nodes, length, i) == Hash(SubSeq(nodes, i, i + length - 1))

Overlaps(nodes, length, i) ==
    \E j \in 1..(i - 1) : /\ i - j < length
                          /\ Window(nodes, length, i) = Window(nodes, length, j)

\* Mutant: the overlap with the last instance is not looked at.
CountedAll(nodes, length) == 1..(Len(nodes) - length + 1)

\* Mutant: the last position is not looked at.
CountedShort(nodes, length) ==
    LET all == 1..(Len(nodes) - length)
        overlaps == {i \in all : Overlaps(nodes, length, i)}
    IN  {i \in all : \A k \in overlaps : i < k}

\* The positions recorded for a length.  At the first one whose pattern
\* overlaps its last instance, the scan of the whole length is given up
\* (continue outer).
Counted(nodes, length) ==
    LET all == 1..(Len(nodes) - length + 1)
        overlaps == {i \in all : Overlaps(nodes, length, i)}
    IN  {i \in all : \A k \in overlaps : i < k}

\* The ordered map: every pattern with its length, its instances and where it
\* was recorded first.
Patterns(nodes) ==
    LET of(length) ==
            LET counted == Counted(nodes, length)
                same(i) == {j \in counted : Window(nodes, length, j) = Window(nodes, length, i)}
            IN  {[length |-> length, instances |-> Cardinality(same(i)), first |-> Min(same(i))] :
                    i \in counted}
    IN  UNION {of(length) : length \in 2..Len(nodes)}

\* More instances, then a longer pattern, then the one earlier in the map.
Better(p, q) ==
    \/ p.instances > q.instances
    \/ p.instances = q.instances /\ (p.length > q.length
                                     \/ (p.length = q.length /\ p.first <= q.first))

\* maxPattern
Best(nodes) ==
    LET all == Patterns(nodes) IN CHOOSE p \in all : \A q \in all : Better(p, q)

Repeated(nodes) == Len(nodes) >= 2 /\ Best(nodes).instances >= 2

BestWindow(nodes) == Window(nodes, Best(nodes).length, Best(nodes).first)

\* Does the pattern occur at position i?
At(nodes, pattern, i) == IsPrefix(pattern, SubSeq(Hash(nodes), i, Len(nodes)))

\* Mutant: after a match the scan goes on with the second node of it.
ReplaceShort(nodes, pattern) ==
    LET length == Len(pattern)
        ends(i) == IsStrictPrefix(SubSeq(Hash(nodes), i, Len(nodes)), pattern)
        from[at \in (1..(Len(nodes) + length)) \X BOOLEAN] ==
            LET i            == at[1]
                afterWrapper == at[2]
            IN  IF i > Len(nodes) THEN <<>>
                ELSE IF ends(i) THEN IF afterWrapper THEN <<>> ELSE SubSeq(nodes, i, Len(nodes))
                ELSE IF At(nodes, pattern, i)
                THEN <<Object(SubSeq(nodes, i, i + length - 1))>> \o from[<<i + 1, TRUE>>]
                ELSE <<nodes[i]>> \o from[<<i + 1, FALSE>>]
    IN  from[<<1, FALSE>>]

\* The second half of slideWindow.  Where the nodes end in the middle of a
\* match the loop is left (break curStart); what is left is still linked behind
\* a plain node, but nothing is linked behind a wrapper.
Replace(nodes, pattern) ==
    LET length == Len(pattern)
        ends(i) == IsStrictPrefix(SubSeq(Hash(nodes), i, Len(nodes)), pattern)
        from[at \in (1..(Len(nodes) + length)) \X BOOLEAN] ==
            LET i            == at[1]
                afterWrapper == at[2]
            IN  IF i > Len(nodes) THEN <<>>
                ELSE IF ends(i) THEN IF afterWrapper THEN <<>> ELSE SubSeq(nodes, i, Len(nodes))
                ELSE IF At(nodes, pattern, i)
                THEN <<Object(SubSeq(nodes, i, i + length - 1))>> \o from[<<i + length, TRUE>>]
                ELSE <<nodes[i]>> \o from[<<i + 1, FALSE>>]
    IN  from[<<1, FALSE>>]

SlideWindow(nodes) ==
    IF Repeated(nodes) THEN Replace(nodes, BestWindow(nodes)) ELSE nodes
-----------------------------------------------------------------------------
(* What a list stands for.                                                 *)

\* A list with one level of wrappers less.
Unwrap(nodes) ==
    FlattenSeq([i \in DOMAIN nodes |-> IF nodes[i].id = 0 THEN nodes[i].kids ELSE <<nodes[i]>>])

\* A list without its wrappers down to a depth.
Unwrapped(nodes, depth) ==
    LET after[d \in Nat] == IF d = 0 THEN nodes ELSE Unwrap(after[d - 1]) IN after[depth]
=============================================================================

----------------------------- MODULE Synthetics -----------------------------
(***************************************************************************)
(* The loop of Construct (and of Persistent.makeSyntheticsInner) that      *)
(* wraps what is repeated in one list of siblings, in rounds of            *)
(* deleteAdjacent and slideWindow (module Wrappers).                       *)
(***************************************************************************)
EXTENDS Wrappers

CONSTANT Inputs   \* lists of siblings to try, as lists of roles

ASSUME InputsOK == \A s \in Inputs : s # <<>> /\ s \in Seq(Range(s))

VARIABLES
    input,  \* the roles of the siblings
    layer,  \* the list as it is now
    stage   \* what the loop does next

vars == <<input, layer, stage>>

\* A sibling without children: convertToStructure hashes its role.
Plain(i, role) ==
    [id |-> i, role |-> role, hash |-> [role |-> role, of |-> <<>>], kids |-> <<>>]

Init ==
    /\ input \in Inputs
    /\ layer = [i \in DOMAIN input |-> Plain(i, input[i])]
    /\ stage = "adjacent"
-----------------------------------------------------------------------------
(* The loop of Construct.                                                  *)

Adjacent ==
    /\ stage = "adjacent"
    /\ layer' = DeleteAdjacent(layer)
    /\ stage' = "slide"
    /\ UNCHANGED input

Slide ==
    /\ stage = "slide"
    /\ layer' = SlideWindow(layer)
    /\ stage' = IF Repeated(layer) THEN "adjacent" ELSE "done"
    /\ UNCHANGED input

Next == Adjacent \/ Slide
Spec == Init /\ [][Next]_vars
-----------------------------------------------------------------------------
(* Properties.                                                             *)

\* The siblings a list stands for, in the order of a walk along FirstChild and
\* NextSibling.  (Wrappers have two nodes or more, so they are nested less deep
\* than there are siblings.)
Leaves(nodes) ==
    LET leaves == Unwrapped(nodes, Len(input)) IN [i \in DOMAIN leaves |-> leaves[i].id]

\* Nodes stay in their order and none is there twice: what the list stands for
\* is the input without its last few nodes.
KeptInOrder ==
    /\ layer # <<>>
    /\ Leaves(layer) = [i \in 1..Len(Leaves(layer)) |-> i]
    /\ Len(Leaves(layer)) <= Len(input)

\* The step in which slideWindow reports a replacement wraps two nodes or more,
\* all of one pattern.
WrapsTwo ==
    stage = "slide" /\ stage' = "adjacent" =>
        LET made == {i \in DOMAIN layer' : layer'[i] \notin Range(layer)}
        IN  /\ Cardinality(made) >= 2
            /\ \A i, j \in made : layer'[i].hash = layer'[j].hash

\* Whenever slideWindow reports a replacement, it has wrapped at least two
\* instances of one pattern, though it counts the instances in one loop and
\* replaces them in another.  Every round thus shortens the list, so the loop
\* of Construct ends.
WrapsTwice == [][WrapsTwo]_vars

\* "rinse and repeat until no patterns are found": when the loop ends no two
\* neighbours are equal and nothing occurs twice, although the scan counts less
\* than what occurs.
StopsAtNone ==
    stage = "done" =>
        /\ \A i \in 2..Len(layer) : layer[i].hash # layer[i - 1].hash
        /\ \A length \in 2..Len(layer) : \A j \in 1..(Len(layer) - length + 1) :
              \A i \in 1..(j - length) : Window(layer, length, i) # Window(layer, length, j)

\* "ABABC -> R_1 R_1 C" (slideWindow), "replace all instances of it with a
\* wrapper" (Construct): wrapping loses no node.
NothingLost == Len(Leaves(layer)) = Len(input)
=============================================================================

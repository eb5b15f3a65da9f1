---------------------------- MODULE SubtreeFetch ----------------------------
(***************************************************************************)
(* What subscribing to subtrees promises, without goroutines, channels or  *)
(* counters: the stored nodes only grow, and only by the roots and by      *)
(* children of stored nodes; completion is announced once, when each newly *)
(* stored node and each root has been asked for and either its children    *)
(* are all stored or the browser refused to name them.  Module SubSubtree  *)
(* implements it; that completion is reached is its property AllEnd.       *)
(***************************************************************************)
CONSTANTS Node, Child, Roots

VARIABLES before, known, asked, failed, done
vars == <<before, known, asked, failed, done>>

Init ==
    /\ before \in SUBSET Node
    /\ known = before
    /\ asked = {}
    /\ failed = {}
    /\ done = FALSE

\* A root, or a child of a node asked for before, is stored.
Learn(n) ==
    /\ n \in Roots \/ \E m \in asked : n \in Child[m]
    /\ known' = known \cup {n}
    /\ UNCHANGED <<before, asked, failed, done>>

\* The children of a stored node are asked for.
Ask(n) ==
    /\ n \in known
    /\ asked' = asked \cup {n}
    /\ UNCHANGED <<before, known, failed, done>>

\* The browser refuses: the node's children stay unknown.
Refuse(n) ==
    /\ n \in asked
    /\ failed' = failed \cup {n}
    /\ UNCHANGED <<before, known, asked, done>>

Finish ==
    /\ \A n \in Roots \cup (known \ before) :
          /\ n \in known \cap asked
          /\ n \in failed \/ Child[n] \subseteq known
    /\ done' = TRUE
    /\ UNCHANGED <<before, known, asked, failed>>

Next == ~done /\ (Finish \/ \E n \in Node : Learn(n) \/ Ask(n) \/ Refuse(n))

Spec == Init /\ [][Next]_vars
=============================================================================

------------------------------ MODULE AXTrees ------------------------------
(***************************************************************************)
(* AX trees for TLC, written as nodes [id, role, ignored, kids] that       *)
(* contain each other, and put into the form of module Structure.          *)
(***************************************************************************)
EXTENDS Integers, Sequences, SequencesExt

\* The nodes of a forest in document order, the first one being node number at.
RECURSIVE Numbered(_, _)
Numbered(nodes, at) ==
    IF nodes = <<>> THEN <<>>
    ELSE LET node  == Head(nodes)
             below == Numbered(node.kids, at + 1)
             last  == at + Len(below)
             from[k \in 1..(Len(node.kids) + 1)] ==
                 IF k = 1 THEN at + 1 ELSE below[from[k - 1] - at].last + 1
         IN  <<[id |-> node.id, role |-> node.role, ignored |-> node.ignored, last |-> last,
                kids |-> [k \in DOMAIN node.kids |-> from[k]]]>>
             \o below \o Numbered(Tail(nodes), last + 1)

InDocumentOrder(root) == Numbered(<<root>>, 1)
=============================================================================

----------------------------- MODULE MCListener -----------------------------
(***************************************************************************)
(* Instances of Listener for TLC: a page whose root r has two children p   *)
(* and q, and ids n, m that insertions can give to new nodes; and one on   *)
(* which q is a child of p.                                                *)
(***************************************************************************)
EXTENDS Listener

CONSTANTS r, p, q, n, m

Loaded == [id \in Node |-> IF id = r THEN <<p, q>> ELSE <<>>]
Chain  == [id \in Node |-> CASE id = r -> <<p>> [] id = p -> <<q>> [] OTHER -> <<>>]

\* No page has n or m when it is loaded.
Symmetry == Permutations({n, m})
=============================================================================

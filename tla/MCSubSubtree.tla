---------------------------- MODULE MCSubSubtree ----------------------------
(***************************************************************************)
(* The instance of SubSubtree for TLC: two calls, the root of one below    *)
(* that of the other, in a graph with a cycle (a child that is its         *)
(* grandparent, as when a node moves between two answers) and with an id   *)
(* in two answers; the first call has two dispatchers, the second one.     *)
(***************************************************************************)
EXTENDS SubSubtree

CONSTANTS p, a, b, x, c1, c2, w1, w2, w3

Graph == [n \in Node |->
              CASE n = p -> {a, b} [] n = a -> {b, x} [] n = x -> {p} [] OTHER -> {}]

Roots  == [c \in Call |-> IF c = c1 THEN p ELSE a]
Owners == [w \in Worker |-> IF w = w3 THEN c2 ELSE c1]
=============================================================================

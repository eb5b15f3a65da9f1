---------------------------- MODULE MCSynthetics ----------------------------
(***************************************************************************)
(* Synthetics alone for TLC: all short lists over a few roles.             *)
(***************************************************************************)
EXTENDS Synthetics

CONSTANTS Letters, MaxLength

Short == UNION {[1..n -> Letters] : n \in 1..MaxLength}
=============================================================================

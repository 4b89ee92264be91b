------------------------------- MODULE MCShelf ------------------------------
(* Three calls, each with one of two bodies; the constants are in the cfg. *)
EXTENDS Shelf, TLC

CONSTANTS c1, c2, c3, b1, b2

Swaps == Permutations({c1, c2, c3}) \cup Permutations({b1, b2})
=============================================================================

------------------------------ MODULE MCConfine -----------------------------
(* Two calls of one manager; the constants are model values in the cfg. *)
EXTENDS Confine, TLC

CONSTANTS r1, r2

Calls == Permutations({r1, r2})
=============================================================================

------------------------------- MODULE MCDoor ------------------------------
(* A listener, its call and a guest; the constants are in the cfg. *)
EXTENDS Door
=============================================================================

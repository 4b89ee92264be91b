-------------------------- MODULE MCDecisionChain --------------------------
(* Two threads of one manager process and one of another, on one file. *)
EXTENDS DecisionChain

CONSTANTS t1, t2, t3, p1, p2

MCProcOf == t1 :> p1 @@ t2 :> p1 @@ t3 :> p2
=============================================================================

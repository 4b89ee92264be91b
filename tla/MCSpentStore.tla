---------------------------- MODULE MCSpentStore ----------------------------
(* Three calls: two spend the same box ticket, the third one of its own. *)
EXTENDS SpentStore, TLC

CONSTANTS c1, c2, c3, p1, p2

MCKey == {"receipt:1", "receipt:2", "ticket:1", "ticket:2"}
SharedTicket == c1 :> {"receipt:1", "ticket:1"}
             @@ c2 :> {"receipt:2", "ticket:1"}
             @@ c3 :> {"ticket:2"}
TwoProcs == c1 :> p1 @@ c2 :> p2 @@ c3 :> p1
=============================================================================

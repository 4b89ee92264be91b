----------------------------- MODULE DoorProofs -----------------------------
(* Proofs about Door: what its receipt and its exit codes mean, for any       *)
(* deadlines, and whatever the guest, its listener and the gate do.           *)
EXTENDS Door, GuestListenerProofs

\* A door runs its listener and its call as GuestListener does, or not at all.
LEMMA DoorStepIsListenerStep == [DoorNext]_allVars => [Next]_vars
BY DEF DoorNext, allVars

\* What holds of a listener holds of the one inside a door.
LEMMA ListenerInDoor == DoorSpec => []ListenerInv
<1>1. DoorInit => Init
  BY DEF DoorInit
<1> QED BY <1>1, DoorStepIsListenerStep, ListenerInit, ListenerStep, PTL DEF DoorSpec

\* A step of the listener or its call does not touch the delivery once the door
\* has heard of it.
LEMMA DeliveryStays ==
  ASSUME TypeOK, kind = "door", parent \in {"recv", "ok", "err", "late", "died"}, Next
  PROVE  /\ parent' \in {"recv", "ok", "err", "late", "died"}
         /\ parent # "recv" => parent' = parent
BY DEF Next, Listener, Call, BaseAppears, Connect, Send, Close, AwaitBase, Bind, Harden, Accept,
   AcceptTimesOut, ReadHead, ReadBody, ReadEnds, ReadExpires, CapHit,
   WriteGoes, WriteFails, PongDone, Panic, SeePath, SeeExit,
   AwaitTimesOut, WriteCommand, Join, Receive, Delivery, DoorTimesOut, Tick, Overdue

\* The rows of a door, one by one.
LEMMA RowsGrow ==
  ASSUME NEW what
  PROVE  /\ Append(<<>>, "launch") = <<"launch">>
         /\ Append(<<"launch">>, what) = <<"launch", what>>
         /\ Append(<<"launch", what>>, "teardown") = <<"launch", what, "teardown">>
<1> DEFINE S == {"launch", what, "teardown"}
           Extends(s, v, t) == Len(t) = Len(s) + 1 /\ t[Len(t)] = v
                                /\ \A i \in 1..Len(s) : t[i] = s[i]
<1>1. ASSUME NEW s \in Seq(S), NEW t \in Seq(S), NEW v \in S, Extends(s, v, t)
      PROVE  Append(s, v) = t
  <2>1. /\ Append(s, v) \in Seq(S)
        /\ Len(Append(s, v)) = Len(s) + 1
        /\ Append(s, v)[Len(s) + 1] = v
        /\ \A i \in 1..Len(s) : Append(s, v)[i] = s[i]
        /\ Len(s) \in Nat
    OBVIOUS
  <2>2. \A i \in 1..Len(Append(s, v)) : Append(s, v)[i] = t[i]
    BY <1>1, <2>1
  <2> QED BY <1>1, <2>1, <2>2, SeqEqual
<1>2. "launch" \in S /\ what \in S /\ "teardown" \in S
  OBVIOUS
<1>3. <<>> \in Seq(S) /\ <<"launch">> \in Seq(S) /\ <<"launch", what>> \in Seq(S)
      /\ <<"launch", what, "teardown">> \in Seq(S)
  OBVIOUS
<1>4. /\ Extends(<<>>, "launch", <<"launch">>)
      /\ Extends(<<"launch">>, what, <<"launch", what>>)
      /\ Extends(<<"launch", what>>, "teardown", <<"launch", what, "teardown">>)
  OBVIOUS
<1> HIDE DEF S, Extends
<1> QED BY <1>1, <1>2, <1>3, <1>4

\* Every step keeps the rows and the body of a door in order.
LEMMA RouteStep ==
  ListenerInv /\ RouteInv /\ [DoorNext]_allVars => RouteInv'
<1> SUFFICES ASSUME ListenerInv, RouteInv, [DoorNext]_allVars PROVE RouteInv'
  OBVIOUS
<1> USE DEF RouteInv, AnswerBorneOut, Ending, NoCode, Killed, Exit, Goto, Row, doorVars
<1>1. CASE Delivering /\ Next /\ UNCHANGED doorVars
  <2>1. kind' = kind
    BY <1>1 DEF Next, fixed
  <2> QED BY <1>1, <2>1, DeliveryStays DEF Delivering, ListenerInv
<1>2. ASSUME UNCHANGED vars, Kill PROVE RouteInv'
  BY <1>2 DEF Kill, vars, fixed, endVars
<1>3. ASSUME UNCHANGED vars, ParseTask PROVE RouteInv'
  BY <1>3 DEF ParseTask, vars, fixed, endVars
<1>4. ASSUME UNCHANGED vars, OpenState PROVE RouteInv'
  BY <1>4 DEF OpenState, vars, fixed, endVars
<1>5. ASSUME UNCHANGED vars, Launch PROVE RouteInv'
  BY <1>5, RowsGrow DEF Launch, vars, fixed, endVars
<1>6. ASSUME UNCHANGED vars, FailClosed PROVE RouteInv'
  <2>1. rows = <<"launch">> /\ Append(rows, "fail_closed") = <<"launch", "fail_closed">>
    BY <1>6, RowsGrow DEF FailClosed
  <2> QED BY <1>6, <2>1 DEF FailClosed, vars, fixed, endVars
<1>7. ASSUME UNCHANGED vars, Reject PROVE RouteInv'
  <2>1. rows = <<"launch">> /\ Append(rows, "reject") = <<"launch", "reject">>
    BY <1>7, RowsGrow DEF Reject
  <2> QED BY <1>7, <2>1 DEF Reject, vars, fixed, endVars
<1>8. ASSUME UNCHANGED vars, Handoff PROVE RouteInv'
  BY <1>8 DEF Handoff, vars, fixed, endVars
<1>9. ASSUME UNCHANGED vars, Decide PROVE RouteInv'
  <2>1. disposition' # "rejected"
    BY <1>9 DEF Decide, V!Decide
  <2>2. rows = <<"launch">>
    BY <1>9 DEF Decide
  <2>3. Append(rows, "prove") = <<"launch", "prove">>
    BY <2>2, RowsGrow
  <2> QED BY <1>9, <2>1, <2>2, <2>3 DEF Decide, vars, fixed, endVars
<1>10. ASSUME UNCHANGED vars, Dispose PROVE RouteInv'
  BY <1>10 DEF Dispose, vars, fixed, endVars
<1>11. ASSUME UNCHANGED vars, Finish PROVE RouteInv'
  <2>0. rows = <<"launch", Ending>>
    BY <1>11 DEF Finish
  <2>a. Append(<<"launch", Ending>>, "teardown") = <<"launch", Ending, "teardown">>
    BY RowsGrow
  <2>1. Append(rows, "teardown") = <<"launch", Ending, "teardown">>
    BY <2>0, <2>a
  <2>2. clean' => ~jail'
    BY <1>11 DEF Finish
  <2>3. \/ door' = "close" /\ rows' = <<"launch", Ending, "teardown">> /\ code' = code
        \/ door' = "over" /\ code' = 5
    BY <1>11, <2>1 DEF Finish, TeardownRow
  <2>4. door = "finish" /\ UNCHANGED <<kind, parent, outcome, shelved, disposition>>
    BY <1>11 DEF Finish, vars, fixed, endVars
  <2> QED BY <2>2, <2>3, <2>4
<1>12. ASSUME UNCHANGED vars, Conclude PROVE RouteInv'
  <2>1. door = "close" /\ door' = "over" /\ UNCHANGED <<kind, parent, outcome, rows, shelved, disposition, clean>>
    BY <1>12 DEF Conclude, vars, fixed, endVars
  <2>2. clean' => ~jail'
    BY <1>12 DEF Conclude
  <2>3. /\ code' \in {0, 4, 5, 6}
        /\ code' = 0 => parent \notin {"died", "late"}
        /\ code' = 4 => parent = "late"
    BY <1>12 DEF Conclude
  <2>4. parent = "ok" => outcome = "accepted"
    BY DEF ListenerInv, EndInv
  <2>5. parent \in {"ok", "err", "late", "died"}
    BY <2>1
  <2> QED BY <2>1, <2>2, <2>3, <2>4, <2>5
<1>13. CASE UNCHANGED allVars
  BY <1>13 DEF allVars, vars, fixed, endVars
<1> QED BY <1>1, <1>2, <1>3, <1>4, <1>5, <1>6, <1>7, <1>8, <1>9, <1>10, <1>11, <1>12, <1>13
        DEF DoorNext, Route

\* Stage by stage, a door has written the rows that its stage says.
THEOREM RouteInvariant == DoorSpec => []RouteInv
<1>1. DoorInit => RouteInv
  BY DEF DoorInit, Init, RouteInv, AnswerBorneOut, NoCode
<1> QED BY <1>1, RouteStep, ListenerInDoor, PTL DEF DoorSpec

\* A receipt is told only of a jail on record from launch to teardown, whose body was
\* rejected and never shelved or read whole and decided on; a failure closed is on the
\* chain; teardown_clean means gone.
THEOREM DoorAnswerBorneOut == DoorSpec => []AnswerBorneOut
<1>1. RouteInv => AnswerBorneOut
  BY DEF RouteInv
<1> QED BY <1>1, RouteInvariant, PTL

\* What holds of a listener holds of every listener run behind a door: the runs check
\* these under the specification of the door.
THEOREM ListenerOfDoor ==
  DoorSpec => [](TypeOK /\ TakenIsSound /\ OneDeadline /\ NoListenerLeft /\ RefusalOnRecord)
BY ListenerInDoor, ListenerMeans, PTL

----------------------------------------------------------------------------

\* A step of the listener, its call or its guest keeps what is known of the frame and
\* of the time its read ended.
LEMMA SentStepWithin ==
  ASSUME ListenerInv, RouteInv, SentInv, kind = "door", Next
  PROVE  SentInv'
<1>0. /\ UNCHANGED fixed
      /\ parent \in {"recv", "ok", "err", "late", "died"}
      /\ pc \notin {"base", "harden"}
      /\ Timeout \in Nat /\ wait \in Nat /\ clock \in Nat /\ ended \in Nat /\ MaxFrame \in Nat
      /\ spoken \in Nat /\ claim \in Nat /\ until \in Nat
      /\ wire \in Seq(Unit) /\ Len(wire) \in Nat /\ got \in Seq(Unit) /\ Len(got) \in Nat
      /\ pc \in Reading => until = Timeout
      /\ parent \in {"ok", "err"} => pc = "over"
      /\ outcome \in {"accepted", "refused"} => peer = "accepted"
      /\ pc = "over" <=> outcome # "none"
      /\ peer = "accepted" => pc \in Reading \cup {"over"}
      /\ pc = "head" => got = <<>>
      /\ pc \in Reading => peer = "accepted"
      /\ outcome \in Outcomes
  <2>1. UNCHANGED fixed
    BY DEF Next
  <2>2. /\ parent \in {"recv", "ok", "err", "late", "died"}
        /\ pc \notin {"base", "harden"}
    BY DEF RouteInv, ListenerInv, ConnInv
  <2>3. /\ Timeout \in Nat /\ MaxFrame \in Nat
        /\ wait \in Nat /\ clock \in Nat /\ ended \in Nat
        /\ spoken \in Nat /\ claim \in Nat /\ until \in Nat
        /\ wire \in Seq(Unit) /\ got \in Seq(Unit)
        /\ outcome \in Outcomes
    BY ListenerAssumption DEF ListenerInv, ListenerAssumption, TypeOK
  <2>4. Len(wire) \in Nat /\ Len(got) \in Nat
    BY <2>3
  <2>5. pc \in Reading => until = Timeout
    BY DEF ListenerInv, TimeInv
  <2>6. /\ parent \in {"ok", "err"} => pc = "over"
        /\ outcome \in {"accepted", "refused"} => peer = "accepted"
        /\ pc = "over" <=> outcome # "none"
    BY DEF ListenerInv, EndInv
  <2>7. /\ peer = "accepted" => pc \in Reading \cup {"over"}
        /\ pc = "head" => got = <<>>
        /\ pc \in Reading => peer = "accepted"
    BY DEF ListenerInv, ConnInv, Reading, Writing
  <2> QED BY <2>1, <2>2, <2>3, <2>4, <2>5, <2>6, <2>7
<1> USE <1>0 DEF SentInv, Outcomes, Reading, fixed, hostVars, readVars, endVars, guestVars
<1>1. CASE BaseAppears \/ AwaitBase \/ Harden \/ SeePath \/ SeeExit \/ WriteCommand \/ Join
  BY <1>1 DEF BaseAppears, AwaitBase, Harden, SeePath, SeeExit, WriteCommand, Join
<1>2. CASE Connect
  <2>1. Len(wire') = 0 /\ spoken' = 0 /\ peer = "none" /\ peer' = "queued"
    BY <1>2, EmptySeq DEF Connect
  <2>2. UNCHANGED <<kind, wait, clock, pc, got, parent, outcome, ended>>
    BY <1>2 DEF Connect
  <2>3. pc \notin Reading /\ outcome \notin {"accepted", "refused"}
    BY <2>1
  <2> QED BY <2>1, <2>2, <2>3
<1>3. CASE Send
  <2>1. Len(wire') = Len(wire) + 1 /\ spoken' = spoken + 1 /\ pc # "over"
    BY <1>3 DEF Send
  <2>2. UNCHANGED <<kind, wait, clock, pc, got, parent, peer, shut, claim, outcome, ended>>
    BY <1>3 DEF Send
  <2> QED BY <2>1, <2>2
<1>4. CASE Close
  BY <1>4 DEF Close
<1>5. CASE Bind
  BY <1>5 DEF Bind, End
<1>6. CASE Accept
  <2>1. pc' = "head" /\ pc = "accept" /\ peer = "queued" /\ peer' = "accepted"
    BY <1>6 DEF Accept
  <2> QED BY <1>6, <2>1 DEF Accept
<1>7. CASE AcceptTimesOut
  BY <1>7 DEF AcceptTimesOut, End
<1>8. CASE ReadHead
  <2>1. Len(wire) = Len(wire') + 1 /\ Len(wire') \in Nat /\ Len(got) = 0
    BY <1>8, HeadTailProperties, EmptySeq DEF ReadHead
  <2>2. UNCHANGED <<kind, wait, clock, got, parent, peer, shut, spoken, claim>>
    BY <1>8 DEF ReadHead, Head4, Hello
  <2>3. pc = "head" /\ \/ pc' = "body" /\ UNCHANGED <<outcome, ended>>
                       \/ /\ claim \notin 1..MaxFrame /\ pc' = "over"
                          /\ outcome' = "refused" /\ ended' = clock
    BY <1>8 DEF ReadHead, Head4, Hello, Refuse, End
  <2>4. spoken = Len(wire') + 1
    BY <2>1, <2>3
  <2>5. CASE pc' = "body"
    BY <2>1, <2>2, <2>3, <2>4, <2>5
  <2>6. CASE pc' = "over"
    BY <2>2, <2>3, <2>4, <2>6, <2>1
  <2> QED BY <2>3, <2>5, <2>6
<1>9. CASE ReadBody
  <2>1. /\ Len(got') = Len(got) + 1 /\ Len(wire) = Len(wire') + 1 /\ Len(wire') \in Nat
    BY <1>9, TakeUnit DEF ListenerInv
  <2>2. UNCHANGED <<kind, wait, clock, parent, shut, spoken, claim>> /\ pc = "body"
    BY <1>9 DEF ReadBody
  <2>3. /\ peer' = peer
        /\ \/ pc' = "body" /\ UNCHANGED <<outcome, ended>>
           \/ /\ Len(got') = claim /\ pc' = "over" /\ ended' = clock
              /\ outcome' \in {"accepted", "refused"}
    BY <1>9, TakenUnit DEF ListenerInv
  <2> QED BY <2>1, <2>2, <2>3
<1>10. CASE ReadEnds
  <2>1. /\ pc \in Reading /\ pc' = "over" /\ outcome' = "refused" /\ ended' = clock
        /\ shut
    BY <1>10 DEF ReadEnds, Refuse, End
  <2>2. UNCHANGED <<kind, wait, clock, got, parent, peer, shut, wire, spoken, claim>>
    BY <1>10 DEF ReadEnds
  <2> QED BY <2>1, <2>2
<1>11. CASE ReadExpires
  <2>1. /\ pc \in Reading /\ pc' = "over" /\ outcome' = "refused" /\ ended' = clock
        /\ clock >= Timeout
    BY <1>11 DEF ReadExpires, Refuse, End
  <2>2. UNCHANGED <<kind, wait, clock, got, parent, peer, shut, wire, spoken, claim>>
    BY <1>11 DEF ReadExpires
  <2> QED BY <2>1, <2>2
<1>12. CASE CapHit \/ AwaitTimesOut \/ WriteGoes \/ WriteFails
  BY <1>12 DEF CapHit, OverCap, AwaitTimesOut, Overdue, WriteGoes, WriteFails, ListenerInv, ConnInv
<1>13. CASE Panic
  BY <1>13 DEF Panic, End, elsewhere
<1>14. CASE Receive
  <2>1. parent = "recv" /\ pc = "over" /\ parent' = Delivery
    BY <1>14 DEF Receive
  <2>2. UNCHANGED <<kind, wait, clock, pc, got, peer, shut, wire, spoken, claim, outcome, ended>>
    BY <1>14 DEF Receive
  <2>3. parent' = "err" => outcome \in {"failed", "unbound", "refused"}
    BY <2>1 DEF Delivery
  <2>4. ended <= wait
    BY <2>1
  <2>5. parent' # "recv"
    BY <2>1 DEF Delivery
  <2> QED BY <2>1, <2>2, <2>3, <2>4, <2>5
<1>15. CASE DoorTimesOut
  BY <1>15 DEF DoorTimesOut
<1>16. CASE Tick
  BY <1>16 DEF Tick, Due, RecvExpires
<1> QED BY <1>1, <1>2, <1>3, <1>4, <1>5, <1>6, <1>7, <1>8, <1>9, <1>10, <1>11, <1>12, <1>13,
           <1>14, <1>15, <1>16 DEF Next, Listener, Call

\* Every step keeps it, the door's own among them.
LEMMA SentStep == ListenerInv /\ RouteInv /\ SentInv /\ [DoorNext]_allVars => SentInv'
<1> SUFFICES ASSUME ListenerInv, RouteInv, SentInv, [DoorNext]_allVars PROVE SentInv'
  OBVIOUS
<1>1. CASE UNCHANGED vars
  BY <1>1 DEF SentInv, vars, fixed, readVars, endVars, guestVars
<1>2. CASE Next
  <2>1. kind' = kind
    BY <1>2 DEF Next, fixed
  <2>2. CASE kind # "door"
    BY <2>1, <2>2 DEF SentInv
  <2> QED BY <1>2, <2>2, SentStepWithin
<1> QED BY <1>1, <1>2 DEF DoorNext, allVars

\* What a guest has sent is known whenever a door runs.
THEOREM SentInvariant == DoorSpec => []SentInv
<1>1. DoorInit => SentInv
  <2> SUFFICES ASSUME DoorInit, kind = "door" PROVE SentInv
    BY DEF SentInv
  <2>1. wait \in Nat
    BY ListenerAssumption DEF ListenerAssumption, DoorInit, Init
  <2> QED BY <2>1 DEF DoorInit, Init, SentInv
<1> QED BY <1>1, SentStep, ListenerInDoor, RouteInvariant, PTL DEF DoorSpec

\* A guest that sends nothing, or stops within a frame, never gets a receipt out of a
\* door whose guest deadline is shorter than the listener's own: the default is, and
\* a longer one may be given (the run DoorDeadline shows what happens then).
THEOREM StalledGuestGetsNoReceipt ==
  ASSUME \A w \in DoorWaits : w < Timeout
  PROVE  DoorSpec => []StalledGuestTimesOut
<1>1. ListenerInv /\ RouteInv /\ SentInv => StalledGuestTimesOut
  <2> SUFFICES ASSUME ListenerInv, RouteInv, SentInv, kind = "door", Stalls, outcome # "unbound", code = 0
               PROVE  FALSE
    BY DEF StalledGuestTimesOut
  <2>1. /\ Timeout \in Nat /\ wait \in Nat /\ ended \in Nat /\ MaxFrame \in Nat
        /\ spoken \in Nat /\ claim \in Nat
        /\ wait \in DoorWaits \/ wait = 0
        /\ Timeout > 0
    BY SMTT(30), ListenerAssumption DEF ListenerInv, TypeOK, ListenerAssumption
  <2>2. wait < Timeout
    BY <2>1
  <2>3. ~shut /\ ~(claim \notin 1..MaxFrame /\ spoken > 0) /\ ~(spoken > claim)
    BY <2>1 DEF Stalls
  <2>4. parent # "ok"
    BY <2>3 DEF SentInv, ListenerInv, EndInv
  <2>5. parent = "err"
    BY <2>4 DEF RouteInv
  <2>6. ended <= wait /\ outcome \in {"failed", "refused"}
    BY <2>5 DEF SentInv
  <2>7. ended >= Timeout
    BY <2>3, <2>6 DEF SentInv
  <2> QED BY <2>1, <2>2, <2>6, <2>7
<1> QED BY <1>1, ListenerInDoor, RouteInvariant, SentInvariant, PTL
=============================================================================

------------------------ MODULE GuestListenerProofs ------------------------
(* Proofs about GuestListener, for any deadlines and limits, and a guest that *)
(* does what it likes.                                                        *)
EXTENDS GuestListener, FiniteSetTheorems, SequenceTheorems, TLAPS

USE DEF Kind, Framed, Unit, Reading, Writing, Outcomes

\* A reply whose first line is not empty does not start with a newline.
LEMMA FirstLineNotEmpty ==
  ASSUME NEW reply \in Seq(Unit), FirstLine(reply) # <<>>
  PROVE  reply # <<>> /\ reply[1] # "nl"
<1>1. reply # <<>>
  <2> SUFFICES ASSUME reply = <<>> PROVE FALSE
    OBVIOUS
  <2>1. Len(reply) = 0
    BY EmptySeq
  <2>2. FirstNl(reply) = 0
    BY <2>1 DEF FirstNl, SelectInSeq
  <2> QED BY <2>2 DEF FirstLine
<1>2. reply[1] # "nl"
  <2> SUFFICES ASSUME reply[1] = "nl" PROVE FALSE
    OBVIOUS
  <2> DEFINE I == {i \in 1..Len(reply) : reply[i] = "nl"}
  <2>1. 1 \in I
    BY <1>1, EmptySeq
  <2>2. \A i \in I : 1 <= i
    OBVIOUS
  <2>3. FirstNl(reply) = Min(I)
    BY <2>1 DEF FirstNl, SelectInSeq
  <2> HIDE DEF I
  <2>4. Min(I) \in I /\ Min(I) <= 1
    BY <2>1, <2>2 DEF Min
  <2>5. Min(I) = 1
    BY <2>4 DEF I
  <2>6. SubSeq(reply, 1, 0) = <<>>
    BY SubSeqEmpty
  <2> QED BY <2>3, <2>5, <2>6 DEF FirstLine
<1> QED BY <1>1, <1>2

\* What becomes of a reply: it is taken, or its connection dropped.
LEMMA Finished ==
  ASSUME NEW reply \in Seq(Unit), FinishReply(reply)
  PROVE  \/ pc' = "accept" /\ peer' = "none" /\ UNCHANGED <<path, outcome, ended, rejects>>
         \/ /\ pc' = "over" /\ outcome' = "accepted" /\ ended' = clock /\ rejects' = rejects
            /\ path' = FALSE /\ peer' = peer
            /\ Len(reply) <= ReplyMax /\ reply # <<>> /\ reply[1] # "nl"
            /\ \A i \in DOMAIN reply : reply[i] # "bad"
<1>1. CASE Len(reply) > ReplyMax \/ (\E i \in DOMAIN reply : reply[i] = "bad") \/ FirstLine(reply) = <<>>
  BY <1>1 DEF FinishReply, Retry, endVars
<1>2. CASE ~(Len(reply) > ReplyMax \/ (\E i \in DOMAIN reply : reply[i] = "bad") \/ FirstLine(reply) = <<>>)
  <2>1. Len(reply) <= ReplyMax
    BY <1>2, ListenerAssumption DEF ListenerAssumption
  <2>2. reply # <<>> /\ reply[1] # "nl"
    BY <1>2, FirstLineNotEmpty
  <2> QED BY <1>2, <2>1, <2>2 DEF FinishReply, End
<1> QED BY <1>1, <1>2

\* One unit is read and added to the message.
LEMMA TakeUnit ==
  ASSUME TypeOK, ConnInv, ReadBody
  PROVE  /\ got' = Append(got, Head(wire)) /\ got' \in Seq(Unit)
         /\ Len(got') = Len(got) + 1 /\ got' # <<>> /\ Len(got) \in Nat
         /\ wire' \in Seq(Unit) /\ Len(wire') = Len(wire) - 1 /\ Len(wire) \in Nat
         /\ conns \in 1..MaxConn /\ sources' = {conns}
<1>1. Head(wire) \in Unit /\ Tail(wire) \in Seq(Unit) /\ Len(Tail(wire)) = Len(wire) - 1
  BY HeadTailProperties DEF TypeOK, ReadBody
<1>2. got' = Append(got, Head(wire)) /\ wire' = Tail(wire)
  BY DEF ReadBody
<1>3. got' \in Seq(Unit) /\ Len(got') = Len(got) + 1 /\ Len(got) \in Nat /\ Len(wire) \in Nat
  BY <1>1, <1>2 DEF TypeOK
<1>4. got' # <<>>
  BY <1>3
<1>5. conns \in 1..MaxConn
  BY DEF ReadBody, ConnInv, TypeOK
<1>6. sources' = {conns}
  BY DEF ReadBody, ConnInv
<1> QED BY <1>1, <1>2, <1>3, <1>4, <1>5, <1>6

\* What then becomes of the message: more is to come, it is a frame the schema takes
\* or does not, or a reply that has its newline.
LEMMA TakenUnit ==
  ASSUME TypeOK, ConnInv, ReadBody
  PROVE  \/ /\ pc' = "body" /\ UNCHANGED <<peer, path, outcome, ended, rejects>>
            /\ kind \in Framed => Len(got') < claim
         \/ /\ kind \in Framed /\ Len(got') = claim /\ UNCHANGED <<peer, path>>
            /\ pc' = "over" /\ ended' = clock
            /\ \/ outcome' = "accepted" /\ rejects' = rejects /\ \A i \in DOMAIN got' : got'[i] = "good"
               \/ outcome' = "refused" /\ rejects' = IF logOpen THEN rejects + 1 ELSE rejects
         \/ kind = "inspect" /\ FinishReply(got')
<1>1. pc = "body" /\ Grown(got')
  BY DEF ReadBody
<1>2. CASE /\ kind = "ping" \/ (kind \in Framed /\ Len(got') < claim)
              \/ (kind = "inspect" /\ Last(got') # "nl")
           /\ UNCHANGED <<pc, peer, path, endVars>>
  BY <1>1, <1>2 DEF endVars
<1>3. CASE /\ kind \in Framed /\ Len(got') = claim
           /\ UNCHANGED <<peer, path>>
           /\ IF \A i \in DOMAIN got' : got'[i] = "good"
                THEN End("accepted") /\ UNCHANGED rejects
                ELSE Refuse("schema")
  BY <1>3 DEF End, Refuse
<1>4. CASE kind = "inspect" /\ FinishReply(got')
  BY <1>4
<1> QED BY <1>1, <1>2, <1>3, <1>4 DEF Grown

\* Every step keeps the types.
LEMMA TypeStep == TypeOK /\ ConnInv /\ EndInv /\ [Next]_vars => TypeOK'
<1> SUFFICES ASSUME TypeOK, ConnInv, EndInv, [Next]_vars PROVE TypeOK'
  OBVIOUS
<1>0. UNCHANGED fixed
  BY DEF Next, vars
<1>a. /\ Timeout \in Nat /\ HardenWait \in Nat /\ HelloWait \in Nat /\ ReplyWait \in Nat
      /\ MaxFrame \in Nat /\ ReplyMax \in Nat /\ MaxConn \in Nat /\ MaxSend \in Nat /\ MaxClock \in Nat
      /\ PushUnits \in Nat \ {0}
  BY ListenerAssumption DEF ListenerAssumption
<1> USE <1>0, <1>a DEF TypeOK, ConnInv, EndInv, fixed, hostVars, readVars, endVars, guestVars
<1>1. CASE BaseAppears
  BY <1>1 DEF BaseAppears
<1>2. CASE Connect
  <2>1. base' \in BOOLEAN /\ path' \in BOOLEAN /\ hardened' \in BOOLEAN /\ shut' \in BOOLEAN
    BY <1>2 DEF Connect
  <2> QED BY <1>2, <2>1 DEF Connect
<1>3. CASE Send
  <2>1. PICK u \in Unit : wire' = Append(wire, u)
    BY <1>3 DEF Send, Says
  <2>2. wire' \in Seq(Unit)
    BY <2>1
  <2>3. spoken' \in 0..MaxSend
    BY <1>3 DEF Send
  <2> QED BY <1>3, <2>2, <2>3 DEF Send
<1>4. CASE Close
  BY <1>4 DEF Close
<1>5. CASE AwaitBase
  BY <1>5 DEF AwaitBase, End
<1>6. CASE Bind
  <2>1. base' \in BOOLEAN /\ path' \in BOOLEAN /\ hardened' \in BOOLEAN /\ shut' \in BOOLEAN
    BY <1>6 DEF Bind, End
  <2> QED BY <1>6, <2>1 DEF Bind, End
<1>7. CASE Harden
  <2>1. base' \in BOOLEAN /\ path' \in BOOLEAN /\ hardened' \in BOOLEAN /\ shut' \in BOOLEAN
    BY <1>7 DEF Harden, End
  <2> QED BY <1>7, <2>1 DEF Harden, End
<1>8. CASE Accept
  BY <1>8 DEF Accept, ReadUntil
<1>9. CASE AcceptTimesOut
  BY <1>9 DEF AcceptTimesOut, End
<1>10. CASE ReadHead
  BY SMTT(30), <1>10 DEF ReadHead, Head4, Hello, StartWrites, Refuse, Retry, End, ReadUntil, InTime
<1>11. CASE ReadBody
  <2> USE <1>11, TakeUnit, TakenUnit, Finished
  <2>1. /\ got' \in Seq(Unit) /\ wire' \in Seq(Unit) /\ sources' \subseteq 1..MaxConn
        /\ kind \in Framed => Len(got') <= MaxFrame
        /\ kind = "inspect" => Len(got') <= ReplyMax + 1
    <3>1. kind \in Framed => Len(got') <= claim
      BY DEF ReadBody, Grown
    <3> QED BY <3>1 DEF ReadBody, OverCap
  <2>2. /\ pc' \in {"body", "accept", "over"} /\ peer' \in {peer, "none"} /\ path' \in BOOLEAN
        /\ outcome' \in Outcomes /\ ended' \in {clock, ended} /\ rejects' \in 0..1
    <3>1. CASE kind = "inspect" /\ FinishReply(got')
      BY <3>1
    <3>2. CASE ~(kind = "inspect" /\ FinishReply(got'))
      <4>1. pc = "body"
        BY DEF ReadBody
      <4> HIDE Finished
      <4> QED BY <3>2, <4>1
    <3> QED BY <3>1, <3>2
  <2> QED BY <2>1, <2>2 DEF ReadBody, ReadUntil
<1>12. CASE ReadEnds
  <2>1. /\ pc' \in {"body", "accept", "over", "pong"} /\ peer' \in {peer, "none"} /\ path' \in BOOLEAN
        /\ outcome' \in Outcomes /\ ended' \in {clock, ended} /\ rejects' \in 0..1
    <3>1. CASE kind = "ping"
      BY <1>12, <3>1 DEF ReadEnds, StartWrites
    <3>2. CASE kind \in Framed
      BY <1>12, <3>2 DEF ReadEnds, Refuse, End
    <3>3. CASE kind = "inspect" /\ pc = "head"
      BY <1>12, <3>3 DEF ReadEnds, Retry
    <3>4. CASE kind = "inspect" /\ pc = "body"
      BY <1>12, <3>4, Finished DEF ReadEnds
    <3> QED BY <1>12, <3>1, <3>2, <3>3, <3>4 DEF ReadEnds
  <2>2. until' \in Nat /\ owed' \in Nat /\ pace' \in Nat
    <3>1. TimeLeft \in Nat /\ 1 + Len(got) \in Nat
      BY DEF TimeLeft
    <3> QED BY <1>12, <3>1 DEF ReadEnds, StartWrites
  <2> QED BY <1>12, <2>1, <2>2 DEF ReadEnds
<1>13. CASE ReadExpires
  <2>1. /\ pc' \in {"body", "accept", "over"} /\ peer' \in {peer, "none"} /\ path' \in BOOLEAN
        /\ outcome' \in Outcomes /\ ended' \in {clock, ended} /\ rejects' \in 0..1
    <3>1. CASE kind = "ping"
      BY <1>13, <3>1 DEF ReadExpires, End
    <3>2. CASE kind \in Framed
      BY <1>13, <3>2 DEF ReadExpires, Refuse, End
    <3>3. CASE kind = "inspect" /\ pc = "head"
      BY <1>13, <3>3 DEF ReadExpires, Retry
    <3>4. CASE kind = "inspect" /\ pc = "body"
      BY <1>13, <3>4, Finished DEF ReadExpires
    <3> QED BY <1>13, <3>1, <3>2, <3>3, <3>4 DEF ReadExpires
  <2> QED BY <1>13, <2>1 DEF ReadExpires
<1>14. CASE CapHit
  BY <1>14 DEF CapHit, Retry, OverCap
<1>w. CASE WriteGoes
  BY <1>w DEF WriteGoes, PongDone, End, ReadUntil
<1>x. CASE WriteFails
  BY <1>x DEF WriteFails, PongDone, End
<1>15. CASE Panic
  BY <1>15 DEF Panic, End, elsewhere
<1>16. CASE SeePath
  BY <1>16 DEF SeePath, elsewhere
<1>17. CASE SeeExit
  BY <1>17 DEF SeeExit, elsewhere
<1>18. CASE AwaitTimesOut
  BY <1>18 DEF AwaitTimesOut, Overdue, End, elsewhere
<1>19. CASE WriteCommand
  BY <1>19 DEF WriteCommand, elsewhere
<1>20. CASE Join
  BY <1>20 DEF Join, elsewhere
<1>21. CASE Receive
  <2>1. base' \in BOOLEAN /\ path' \in BOOLEAN /\ hardened' \in BOOLEAN /\ shut' \in BOOLEAN
    BY <1>21 DEF Receive
  <2> QED BY <1>21, <2>1 DEF Receive, Delivery
<1>22. CASE DoorTimesOut
  <2>1. base' \in BOOLEAN /\ path' \in BOOLEAN /\ hardened' \in BOOLEAN /\ shut' \in BOOLEAN
    BY <1>22 DEF DoorTimesOut
  <2> QED BY <1>22, <2>1 DEF DoorTimesOut, RecvExpires
<1>23. CASE Tick
  BY <1>23 DEF Tick, Due, Overdue, OverCap
<1>24. CASE UNCHANGED vars
  BY <1>24 DEF vars
<1> QED BY <1>1, <1>2, <1>3, <1>4, <1>5, <1>6, <1>7, <1>8, <1>9, <1>10, <1>11, <1>12, <1>13,
       <1>14, <1>w, <1>x, <1>15, <1>16, <1>17, <1>18, <1>19, <1>20, <1>21, <1>22, <1>23, <1>24 DEF Next,
       Listener, Call

\* Every step keeps to the connection the message is read from.
LEMMA ConnStep == TypeOK /\ ConnInv /\ EndInv /\ [Next]_vars => ConnInv'
<1> SUFFICES ASSUME TypeOK, ConnInv, EndInv, [Next]_vars PROVE ConnInv'
  OBVIOUS
<1>0. UNCHANGED fixed
  BY DEF Next, vars
<1> USE <1>0 DEF TypeOK, ConnInv, EndInv, fixed, hostVars, readVars, endVars, guestVars
<1>1. CASE BaseAppears
  BY <1>1 DEF BaseAppears
<1>2. CASE Connect
  BY <1>2 DEF Connect
<1>3. CASE Send
  BY <1>3 DEF Send, Says
<1>4. CASE Close
  BY <1>4 DEF Close
<1>5. CASE AwaitBase
  BY <1>5 DEF AwaitBase, End
<1>6. CASE Bind
  BY <1>6 DEF Bind, End
<1>7. CASE Harden
  BY <1>7 DEF Harden, End
<1>8. CASE Accept
  BY <1>8 DEF Accept, ReadUntil
<1>9. CASE AcceptTimesOut
  BY <1>9 DEF AcceptTimesOut, End
<1>10. CASE ReadHead
  <2>1. CASE Head4
    BY <1>10, <2>1 DEF ReadHead, Head4, Refuse, End
  <2>2. CASE Hello
    <3>a. PushUnits \in Nat \ {0}
      BY ListenerAssumption DEF ListenerAssumption
    <3>1. PushUnits \in 1..PushUnits
      BY <3>a
    <3>2. /\ pc = "head" /\ kind = "inspect" /\ got' = got /\ sources' = sources
          /\ UNCHANGED <<shut, claim, conns, hardened>>
      BY <1>10, <2>2 DEF ReadHead, Hello
    <3>3. \/ pc' = "push" /\ owed' = PushUnits /\ UNCHANGED peer
          \/ pc' = "accept" /\ peer' = "none" /\ UNCHANGED owed
      BY <2>2 DEF Hello, StartWrites, Retry
    <3> QED BY <3>1, <3>2, <3>3
  <2> QED BY <1>10, <2>1, <2>2 DEF ReadHead
<1>11. CASE ReadBody
  BY <1>11, TakeUnit, TakenUnit, Finished DEF ReadBody
<1>12. CASE ReadEnds
  <2>1. CASE kind = "ping"
    <3>1. 1 + Len(got) \in 1..(1 + Len(got))
      OBVIOUS
    <3> QED BY <1>12, <2>1, <3>1 DEF ReadEnds, StartWrites
  <2>2. CASE kind # "ping"
    BY <1>12, <2>2 DEF ReadEnds, FinishReply, Refuse, Retry, End
  <2> QED BY <2>1, <2>2
<1>13. CASE ReadExpires
  BY <1>13 DEF ReadExpires, FinishReply, Refuse, Retry, End, OverCap
<1>14. CASE CapHit
  BY <1>14 DEF CapHit, Retry, OverCap
<1>w. CASE WriteGoes
  <2>1. owed > 0 /\ Len(got) \in Nat /\ PushUnits \in Nat
    BY SMTT(30), <1>w, ListenerAssumption DEF WriteGoes, ListenerAssumption
  <2>2. owed' \in Nat /\ (owed' = 0 \/ owed' \in 1..owed)
    BY <1>w, <2>1 DEF WriteGoes
  <2>3. CASE pc = "push"
    BY <1>w, <2>1, <2>2, <2>3 DEF WriteGoes
  <2>4. CASE pc = "pong"
    BY <1>w, <2>1, <2>2, <2>4 DEF WriteGoes, PongDone, End
  <2> QED BY <1>w, <2>3, <2>4 DEF WriteGoes
<1>x. CASE WriteFails
  BY <1>x DEF WriteFails, PongDone, End
<1>15. CASE Panic
  BY <1>15 DEF Panic, End, elsewhere
<1>16. CASE SeePath
  BY <1>16 DEF SeePath, elsewhere
<1>17. CASE SeeExit
  BY <1>17 DEF SeeExit, elsewhere
<1>18. CASE AwaitTimesOut
  BY <1>18 DEF AwaitTimesOut, Overdue, End, elsewhere
<1>19. CASE WriteCommand
  BY <1>19 DEF WriteCommand, elsewhere
<1>20. CASE Join
  BY <1>20 DEF Join, elsewhere
<1>21. CASE Receive
  BY <1>21 DEF Receive, Delivery
<1>22. CASE DoorTimesOut
  BY <1>22 DEF DoorTimesOut, RecvExpires
<1>23. CASE Tick
  BY <1>23 DEF Tick, Due, Overdue, OverCap
<1>24. CASE UNCHANGED vars
  BY <1>24 DEF vars
<1> QED BY <1>1, <1>2, <1>3, <1>4, <1>5, <1>6, <1>7, <1>8, <1>9, <1>10, <1>11, <1>12, <1>13,
       <1>14, <1>w, <1>x, <1>15, <1>16, <1>17, <1>18, <1>19, <1>20, <1>21, <1>22, <1>23, <1>24 DEF Next,
       Listener, Call

\* Every step keeps how the listener ended and what its call made of that.
LEMMA EndStep == TypeOK /\ ConnInv /\ EndInv /\ [Next]_vars => EndInv'
<1> SUFFICES ASSUME TypeOK, ConnInv, EndInv, [Next]_vars PROVE EndInv'
  OBVIOUS
<1>0. UNCHANGED fixed
  BY DEF Next, vars
<1> USE <1>0 DEF TypeOK, ConnInv, EndInv, fixed, hostVars, readVars, endVars, guestVars
<1>1. CASE BaseAppears
  BY <1>1 DEF BaseAppears
<1>2. CASE Connect
  BY <1>2 DEF Connect
<1>3. CASE Send
  BY <1>3 DEF Send, Says
<1>4. CASE Close
  BY <1>4 DEF Close
<1>5. CASE AwaitBase
  BY <1>5 DEF AwaitBase, End
<1>6. CASE Bind
  BY <1>6 DEF Bind, End
<1>7. CASE Harden
  BY <1>7 DEF Harden, End
<1>8. CASE Accept
  BY <1>8 DEF Accept, ReadUntil
<1>9. CASE AcceptTimesOut
  BY <1>9 DEF AcceptTimesOut, End
<1>10. CASE ReadHead
  BY <1>10 DEF ReadHead, Head4, Hello, StartWrites, Refuse, Retry, End, ReadUntil, InTime
<1>11. CASE ReadBody
  BY <1>11 DEF ReadBody, Grown, FinishReply, Refuse, Retry, End, ReadUntil, InTime, OverCap
<1>12. CASE ReadEnds
  <2>1. CASE kind = "ping"
    BY <1>12, <2>1 DEF ReadEnds, StartWrites
  <2>2. CASE kind # "ping"
    BY <1>12, <2>2 DEF ReadEnds, FinishReply, Refuse, Retry, End
  <2> QED BY <2>1, <2>2
<1>13. CASE ReadExpires
  BY <1>13 DEF ReadExpires, FinishReply, Refuse, Retry, End, OverCap
<1>14. CASE CapHit
  BY <1>14 DEF CapHit, Retry, OverCap
<1>w. CASE WriteGoes
  BY <1>w DEF WriteGoes, PongDone, End, ReadUntil
<1>x. CASE WriteFails
  BY <1>x DEF WriteFails, PongDone, End
<1>15. CASE Panic
  BY <1>15 DEF Panic, End, elsewhere
<1>16. CASE SeePath
  BY <1>16 DEF SeePath, elsewhere
<1>17. CASE SeeExit
  BY <1>17 DEF SeeExit, elsewhere
<1>18. CASE AwaitTimesOut
  BY <1>18 DEF AwaitTimesOut, Overdue, End, elsewhere
<1>19. CASE WriteCommand
  BY <1>19 DEF WriteCommand, elsewhere
<1>20. CASE Join
  BY <1>20 DEF Join, elsewhere
<1>21. CASE Receive
  BY <1>21 DEF Receive, Delivery
<1>22. CASE DoorTimesOut
  BY <1>22 DEF DoorTimesOut, RecvExpires
<1>23. CASE Tick
  BY <1>23 DEF Tick, Due, Overdue, OverCap
<1>24. CASE UNCHANGED vars
  BY <1>24 DEF vars
<1> QED BY <1>1, <1>2, <1>3, <1>4, <1>5, <1>6, <1>7, <1>8, <1>9, <1>10, <1>11, <1>12, <1>13,
       <1>14, <1>w, <1>x, <1>15, <1>16, <1>17, <1>18, <1>19, <1>20, <1>21, <1>22, <1>23, <1>24 DEF Next,
       Listener, Call

\* Every step keeps what is accepted sound.
LEMMA SoundStep == TypeOK /\ ConnInv /\ EndInv /\ SoundInv /\ [Next]_vars => SoundInv'
<1> SUFFICES ASSUME TypeOK, ConnInv, EndInv, SoundInv, [Next]_vars PROVE SoundInv'
  OBVIOUS
<1>0. UNCHANGED fixed
  BY DEF Next, vars
<1> USE <1>0 DEF TypeOK, ConnInv, EndInv, SoundInv, fixed, hostVars, readVars, endVars, guestVars
<1>1. CASE BaseAppears
  BY <1>1 DEF BaseAppears
<1>2. CASE Connect
  BY <1>2 DEF Connect
<1>3. CASE Send
  BY <1>3 DEF Send, Says
<1>4. CASE Close
  BY <1>4 DEF Close
<1>5. CASE AwaitBase
  BY <1>5 DEF AwaitBase, End
<1>6. CASE Bind
  BY <1>6 DEF Bind, End
<1>7. CASE Harden
  BY <1>7 DEF Harden, End
<1>8. CASE Accept
  BY <1>8 DEF Accept, ReadUntil
<1>9. CASE AcceptTimesOut
  BY <1>9 DEF AcceptTimesOut, End
<1>10. CASE ReadHead
  BY <1>10 DEF ReadHead, Head4, Hello, StartWrites, Refuse, Retry, End, ReadUntil, InTime
<1>11. CASE ReadBody
  BY <1>11, TakeUnit, TakenUnit, Finished DEF ReadBody
<1>12. CASE ReadEnds
  <2>1. CASE kind = "inspect" /\ pc = "body"
    BY <1>12, <2>1, Finished DEF ReadEnds
  <2>2. CASE ~(kind = "inspect" /\ pc = "body")
    BY <1>12, <2>2 DEF ReadEnds, Refuse, Retry, End
  <2> QED BY <2>1, <2>2
<1>13. CASE ReadExpires
  <2>1. CASE kind = "inspect" /\ pc = "body"
    BY <1>13, <2>1, Finished DEF ReadExpires
  <2>2. CASE ~(kind = "inspect" /\ pc = "body")
    BY <1>13, <2>2 DEF ReadExpires, Refuse, Retry, End
  <2> QED BY <2>1, <2>2
<1>14. CASE CapHit
  BY <1>14 DEF CapHit, Retry, OverCap
<1>w. CASE WriteGoes
  BY <1>w DEF WriteGoes, PongDone, End, ReadUntil
<1>x. CASE WriteFails
  BY <1>x DEF WriteFails, PongDone, End
<1>15. CASE Panic
  BY <1>15 DEF Panic, End, elsewhere
<1>16. CASE SeePath
  BY <1>16 DEF SeePath, elsewhere
<1>17. CASE SeeExit
  BY <1>17 DEF SeeExit, elsewhere
<1>18. CASE AwaitTimesOut
  BY <1>18 DEF AwaitTimesOut, Overdue, End, elsewhere
<1>19. CASE WriteCommand
  BY <1>19 DEF WriteCommand, elsewhere
<1>20. CASE Join
  BY <1>20 DEF Join, elsewhere
<1>21. CASE Receive
  BY <1>21 DEF Receive, Delivery
<1>22. CASE DoorTimesOut
  BY <1>22 DEF DoorTimesOut, RecvExpires
<1>23. CASE Tick
  BY <1>23 DEF Tick, Due, Overdue, OverCap
<1>24. CASE UNCHANGED vars
  BY <1>24 DEF vars
<1> QED BY <1>1, <1>2, <1>3, <1>4, <1>5, <1>6, <1>7, <1>8, <1>9, <1>10, <1>11, <1>12, <1>13,
       <1>14, <1>w, <1>x, <1>15, <1>16, <1>17, <1>18, <1>19, <1>20, <1>21, <1>22, <1>23, <1>24 DEF Next,
       Listener, Call

\* Products that the prover is to take as one number.
LEMMA OneMore ==
  ASSUME NEW n \in Nat, NEW m \in Nat, n <= m, NEW w \in Nat
  PROVE  n * w \in Nat /\ n * w <= m * w /\ (n + 1) * w = n * w + w /\ 0 * w = 0
OBVIOUS

\* A write of a pong, a write of a body and a read of a reply more.
LEMMA OnePongMore ==
  ASSUME NEW n \in Nat, NEW m \in Nat, n <= m, NEW w \in Nat
  PROVE  /\ PongUntil(n, w) \in Nat /\ PongUntil(n, w) <= PongUntil(m, w)
         /\ PongUntil(n + 1, w) = PongUntil(n, w) + w
         /\ PongUntil(0, w) = Timeout
<1>1. Timeout \in Nat
  BY ListenerAssumption DEF ListenerAssumption
<1>2. n * w \in Nat /\ m * w \in Nat
  BY OneMore, m <= m
<1> QED BY <1>1, <1>2, OneMore DEF PongUntil

LEMMA OnePushMore ==
  ASSUME NEW n \in Nat, NEW m \in Nat, n <= m
  PROVE  /\ PushUntil(n) \in Nat /\ PushUntil(n) <= PushUntil(m)
         /\ PushUntil(n + 1) = PushUntil(n) + HelloWait
         /\ PushUntil(0) = (Timeout - 1) + HelloWait
<1>1. Timeout \in Nat \ {0} /\ HelloWait \in Nat \ {0}
  BY ListenerAssumption DEF ListenerAssumption
<1>2. n * HelloWait \in Nat /\ m * HelloWait \in Nat
  BY <1>1, OneMore, m <= m
<1> QED BY <1>1, <1>2, OneMore DEF PushUntil

LEMMA OneReadMore ==
  ASSUME NEW n \in Nat, NEW m \in Nat, n <= m
  PROVE  /\ ReplyUntil(n) \in Nat /\ ReplyUntil(n) <= ReplyUntil(m)
         /\ ReplyUntil(n + 1) = ReplyUntil(n) + ReplyWait
         /\ ReplyUntil(0) = PushUntil(PushUnits)
<1>1. PushUnits \in Nat /\ ReplyWait \in Nat
  BY ListenerAssumption DEF ListenerAssumption
<1>2. n * ReplyWait \in Nat /\ m * ReplyWait \in Nat
  BY <1>1, OneMore, m <= m
<1>3. PushUntil(PushUnits) \in Nat
  BY <1>1, OnePushMore, PushUnits <= PushUnits
<1> QED BY <1>1, <1>2, <1>3, OneMore DEF ReplyUntil

\* The order of the ends of an inspector's connection.
LEMMA InspectorTimes ==
  /\ PushUntil(0) = (Timeout - 1) + HelloWait
  /\ PushUntil(0) \in Nat /\ PushUntil(0) <= PushUntil(PushUnits)
  /\ PushUntil(1) = PushUntil(0) + HelloWait
  /\ PushUntil(PushUnits) \in Nat /\ PushUntil(PushUnits) <= ReplyUntil(ReplyMax + 1)
  /\ ReplyUntil(1) = PushUntil(PushUnits) + ReplyWait
  /\ ReplyUntil(ReplyMax + 1) \in Nat
  /\ Timeout + HardenWait <= ReplyUntil(ReplyMax + 1)
<1>1. /\ Timeout \in Nat \ {0} /\ HardenWait \in Nat \ {0} /\ HelloWait \in Nat \ {0}
      /\ ReplyWait \in Nat \ {0} /\ ReplyMax \in Nat /\ HardenWait <= ReplyWait
      /\ PushUnits \in Nat
  BY ListenerAssumption DEF ListenerAssumption
<1>2. /\ PushUntil(0) \in Nat /\ PushUntil(0) <= PushUntil(PushUnits)
      /\ PushUntil(0 + 1) = PushUntil(0) + HelloWait /\ PushUntil(0) = (Timeout - 1) + HelloWait
      /\ PushUntil(PushUnits) \in Nat
  BY <1>1, OnePushMore, 0 \in Nat, 0 <= PushUnits, PushUnits <= PushUnits
<1>3. /\ ReplyUntil(0) <= ReplyUntil(ReplyMax + 1) /\ ReplyUntil(0) = PushUntil(PushUnits)
      /\ ReplyUntil(0 + 1) = ReplyUntil(0) + ReplyWait
      /\ ReplyUntil(1) <= ReplyUntil(ReplyMax + 1)
      /\ ReplyUntil(ReplyMax + 1) \in Nat
  BY <1>1, OneReadMore, 0 \in Nat, 1 \in Nat, ReplyMax + 1 \in Nat, 0 <= ReplyMax + 1, 1 <= ReplyMax + 1,
     ReplyMax + 1 <= ReplyMax + 1
<1> QED BY <1>1, <1>2, <1>3

\* A read that starts in time ends in time.
LEMMA LaterRead ==
  ASSUME NEW c \in Nat, NEW u \in Nat, NEW w \in Nat, NEW r \in Nat, c <= u, u <= r
  PROVE  c + w <= r + w
OBVIOUS

\* What is known while a listener writes.
LEMMA WritingTimes ==
  ASSUME TypeOK, ConnInv, EndInv, TimeInv, pc \in Writing
  PROVE  /\ Len(got) \in Nat /\ clock \in Nat /\ until \in Nat /\ owed \in Nat \ {0}
         /\ clock <= until /\ outcome = "none"
         /\ pc = "pong" =>
              /\ (1 + Len(got)) - owed \in Nat /\ pace \in 1..Timeout /\ pace \in Nat
              /\ until <= PongUntil((1 + Len(got)) - owed, pace)
         /\ pc = "push" =>
              /\ (1 + PushUnits) - owed \in Nat /\ (1 + PushUnits) - owed <= PushUnits
              /\ pace = HelloWait /\ until <= PushUntil((1 + PushUnits) - owed)
<1>1. Len(got) \in Nat /\ clock \in Nat /\ until \in Nat
  BY DEF TypeOK
<1>2. outcome = "none"
  BY DEF EndInv, TypeOK
<1>3. PushUnits \in Nat /\ Timeout \in Nat
  BY ListenerAssumption DEF ListenerAssumption
<1>4. pc = "pong" => /\ owed \in 1..(1 + Len(got)) /\ pace \in 1..Timeout /\ clock <= until
                     /\ until <= PongUntil((1 + Len(got)) - owed, pace)
  BY DEF ConnInv, TimeInv
<1>5. pc = "push" => /\ owed \in 1..PushUnits /\ pace = HelloWait /\ clock <= until
                     /\ until <= PushUntil((1 + PushUnits) - owed)
  BY DEF ConnInv, TimeInv
<1> QED BY <1>1, <1>2, <1>3, <1>4, <1>5

\* What is said of the clock.
LEMMA TimeStep == TypeOK /\ ConnInv /\ EndInv /\ TimeInv /\ [Next]_vars => TimeInv'
<1> SUFFICES ASSUME TypeOK, ConnInv, EndInv, TimeInv, [Next]_vars PROVE TimeInv'
  OBVIOUS
<1>0. UNCHANGED fixed
  BY DEF Next, vars
<1>a. /\ Timeout \in Nat \ {0} /\ HardenWait \in Nat \ {0} /\ HelloWait \in Nat \ {0}
      /\ ReplyWait \in Nat \ {0} /\ ReplyMax \in Nat /\ MaxClock \in Nat
      /\ HardenWait <= ReplyWait /\ PushUnits \in Nat \ {0}
  BY ListenerAssumption DEF ListenerAssumption
<1>b. /\ PushUntil(0) = (Timeout - 1) + HelloWait
      /\ PushUntil(0) \in Nat /\ PushUntil(0) <= PushUntil(PushUnits)
      /\ PushUntil(1) = PushUntil(0) + HelloWait
      /\ PushUntil(PushUnits) \in Nat /\ PushUntil(PushUnits) <= ReplyUntil(ReplyMax + 1)
      /\ ReplyUntil(1) = PushUntil(PushUnits) + ReplyWait
      /\ ReplyUntil(ReplyMax + 1) \in Nat
      /\ Timeout + HardenWait <= ReplyUntil(ReplyMax + 1)
  BY InspectorTimes
<1> USE <1>0, <1>a, <1>b DEF ListenUntil, OverCap, TypeOK, ConnInv, EndInv, TimeInv, fixed, hostVars, readVars, endVars, guestVars
<1>1. CASE BaseAppears
  BY <1>1 DEF BaseAppears
<1>2. CASE Connect
  BY <1>2 DEF Connect
<1>3. CASE Send
  BY <1>3 DEF Send, Says
<1>4. CASE Close
  BY <1>4 DEF Close
<1>5. CASE AwaitBase
  BY <1>5 DEF AwaitBase, End
<1>6. CASE Bind
  <2>1. /\ UNCHANGED <<clock, got, kind>> /\ pc' \notin {"base", "bind"} \cup Reading \cup Writing
        /\ clock <= Timeout /\ outcome' # "accepted"
    BY <1>6 DEF Bind, End
  <2>2. pc' = "harden" => until' = clock + HardenWait
    BY <1>6 DEF Bind, End
  <2>3. clock' <= Timeout + HardenWait /\ clock' <= ReplyUntil(ReplyMax + 1)
    BY <2>1
  <2> QED BY SMTT(60), <2>1, <2>2, <2>3
<1>7. CASE Harden
  BY SMTT(30), <1>7 DEF Harden, End
<1>8. CASE Accept
  BY SMTT(30), <1>8 DEF Accept, ReadUntil
<1>9. CASE AcceptTimesOut
  BY <1>9 DEF AcceptTimesOut, End
<1>10. CASE ReadHead
  <2>1. CASE kind # "inspect"
    <3>1. Head4 /\ pc = "head" /\ clock' = clock /\ kind' = kind
      BY <1>10, <2>1 DEF ReadHead, Hello
    <3>2. until' = Timeout /\ outcome' \in {outcome, "refused"} /\ pc' \in {"body", "over"}
      BY <2>1, <3>1 DEF Head4, Refuse, End, ReadUntil
    <3>3. clock <= ListenUntil /\ ListenUntil' = ListenUntil /\ outcome # "accepted"
      BY <2>1, <3>1
    <3> QED BY <2>1, <3>1, <3>2, <3>3
  <2>2. CASE kind = "inspect"
    <3>1. /\ clock' = clock /\ got' = got /\ got = <<>> /\ kind' = kind
          /\ outcome' = outcome /\ outcome = "none" /\ clock <= until /\ until <= PushUntil(0)
      BY <1>10, <2>2 DEF ReadHead, Head4, Hello, Retry, StartWrites
    <3>2. clock <= PushUntil(0) /\ clock <= ReplyUntil(ReplyMax + 1)
      BY SMTT(30), <3>1
    <3>3. CASE pc' = "accept"
      BY <2>2, <3>1, <3>2, <3>3
    <3>4. CASE pc' = "push"
      <4>1. owed' = PushUnits /\ pace' = HelloWait /\ until' = clock + HelloWait
        BY <1>10, <2>2, <3>4 DEF ReadHead, Head4, Hello, Retry, StartWrites
      <4>2. (1 + PushUnits) - owed' = 1
        BY <4>1
      <4>3. until' <= PushUntil(1) /\ clock' <= until'
        BY <3>1, <3>2, <4>1
      <4> QED BY <2>2, <3>1, <3>4, <4>1, <4>2, <4>3
    <3>5. pc' \in {"accept", "push"}
      BY <1>10, <2>2 DEF ReadHead, Head4, Hello, Retry, StartWrites
    <3> QED BY <3>3, <3>4, <3>5
  <2> QED BY <2>1, <2>2
<1>11. CASE ReadBody
  <2>1. CASE kind # "inspect"
    BY <1>11, <2>1, TakeUnit, TakenUnit DEF ReadBody, ReadUntil, InTime
  <2>2. CASE kind = "inspect"
    <3>1. /\ Len(got) \in Nat /\ Len(got) <= ReplyMax /\ Len(got') = Len(got) + 1
          /\ clock <= until /\ until <= ReplyUntil(Len(got) + 1) /\ until' = clock + ReplyWait
      BY SMTT(30), <1>11, <2>2, TakeUnit DEF ReadBody, ReadUntil
    <3>2. ReplyUntil(Len(got) + 1) <= ReplyUntil(ReplyMax + 1)
      BY <3>1, OneReadMore, Len(got) + 1 \in Nat, ReplyMax + 1 \in Nat, Len(got) + 1 <= ReplyMax + 1
    <3>3. ReplyUntil(Len(got') + 1) = ReplyUntil(Len(got) + 1) + ReplyWait
      BY SMTT(30), <3>1, OneReadMore, Len(got) + 1 \in Nat
    <3>4. ReplyUntil(Len(got) + 1) \in Nat
      BY <3>1, OneReadMore, Len(got) + 1 \in Nat
    <3>5. pc' \in {"body", "accept", "over"}
      BY <1>11, <2>2, TakeUnit, TakenUnit, Finished
    <3>6. pc' = "over" => outcome' = "accepted"
      BY <1>11, <2>2, TakeUnit, TakenUnit, Finished
    <3>7. clock' = clock
      BY <1>11 DEF ReadBody
    <3>8. clock' <= ReplyUntil(ReplyMax + 1)
      BY SMTT(30), <3>1, <3>2, <3>4, <3>7
    <3>9. clock' <= until'
      BY <3>1, <3>7
    <3>10. Len(got') + 1 = (Len(got) + 1) + 1
      BY <3>1
    <3>11. until' <= ReplyUntil(Len(got) + 1) + ReplyWait
      <4>1. clock \in Nat /\ until \in Nat /\ ReplyWait \in Nat
        OBVIOUS
      <4>2. clock <= until /\ until <= ReplyUntil(Len(got) + 1) /\ until' = clock + ReplyWait
        BY <3>1
      <4> HIDE <1>0, <1>a, <1>b DEF TypeOK, ConnInv, EndInv, TimeInv, OverCap
      <4>3. clock + ReplyWait <= ReplyUntil(Len(got) + 1) + ReplyWait
        BY <3>4, <4>1, <4>2, LaterRead
      <4> QED BY <4>2, <4>3
    <3> QED BY <2>2, <3>3, <3>5, <3>6, <3>8, <3>9, <3>11
  <2> QED BY <2>1, <2>2
<1>12. CASE ReadEnds
  <2>0. CASE kind = "ping"
    <3>1. /\ clock < Timeout /\ clock' = clock /\ kind' = kind /\ got' = got
          /\ Len(got) \in Nat /\ outcome' = "none"
      BY <1>12, <2>0 DEF ReadEnds, InTime
    <3>2. pace' = Timeout - clock /\ until' = clock + pace' /\ owed' = 1 + Len(got) /\ pc' = "pong"
      BY <1>12, <2>0, <3>1 DEF ReadEnds, StartWrites, TimeLeft
    <3>3. pace' \in 1..Timeout /\ until' = Timeout /\ (1 + Len(got')) - owed' = 0
      BY <3>1, <3>2
    <3>4. PongUntil(0, pace') = Timeout
      BY <3>3, OnePongMore, 0 \in Nat, 0 <= 0, pace' \in Nat
    <3> QED BY <2>0, <3>1, <3>2, <3>3, <3>4
  <2>1. CASE kind \in Framed
    BY <1>12, <2>1 DEF ReadEnds, Refuse, End
  <2>2. CASE kind = "inspect"
    <3>1. clock <= ReplyUntil(ReplyMax + 1)
      <4>1. CASE pc = "head"
        BY SMTT(30), <1>12, <2>2, <4>1 DEF ReadEnds, InTime
      <4>2. CASE pc = "body" /\ ~OverCap
        <5>1. Len(got) \in Nat /\ Len(got) <= ReplyMax
          BY SMTT(30), <2>2, <4>2
        <5>2. ReplyUntil(Len(got) + 1) <= ReplyUntil(ReplyMax + 1) /\ ReplyUntil(Len(got) + 1) \in Nat
          BY <5>1, OneReadMore, Len(got) + 1 \in Nat, ReplyMax + 1 \in Nat, Len(got) + 1 <= ReplyMax + 1
        <5> QED BY SMTT(30), <2>2, <4>2, <5>2
      <4>3. CASE pc = "body" /\ OverCap
        BY <2>2, <4>3
      <4> QED BY <1>12, <4>1, <4>2, <4>3 DEF ReadEnds
    <3>2. pc' \in {"accept", "over"} /\ clock' = clock
      BY <1>12, <2>2, Finished DEF ReadEnds, Retry
    <3>3. pc' = "over" => outcome' = "accepted"
      BY <1>12, <2>2, Finished DEF ReadEnds, Retry
    <3> QED BY <2>2, <3>1, <3>2, <3>3
  <2> QED BY <2>0, <2>1, <2>2
<1>13. CASE ReadExpires
  <2>1. CASE kind # "inspect"
    BY <1>13, <2>1 DEF ReadExpires, Refuse, Retry, End, InTime
  <2>2. CASE kind = "inspect"
    <3>1. clock <= ReplyUntil(ReplyMax + 1)
      <4>1. CASE pc = "head"
        BY SMTT(30), <1>13, <2>2, <4>1 DEF ReadExpires, InTime
      <4>2. CASE pc = "body" /\ ~OverCap
        <5>1. Len(got) \in Nat /\ Len(got) <= ReplyMax
          BY SMTT(30), <2>2, <4>2
        <5>2. ReplyUntil(Len(got) + 1) <= ReplyUntil(ReplyMax + 1) /\ ReplyUntil(Len(got) + 1) \in Nat
          BY <5>1, OneReadMore, Len(got) + 1 \in Nat, ReplyMax + 1 \in Nat, Len(got) + 1 <= ReplyMax + 1
        <5> QED BY SMTT(30), <2>2, <4>2, <5>2
      <4>3. CASE pc = "body" /\ OverCap
        BY <2>2, <4>3
      <4> QED BY <1>13, <4>1, <4>2, <4>3 DEF ReadExpires
    <3>2. pc' \in {"accept", "over"} /\ clock' = clock
      BY <1>13, <2>2, Finished DEF ReadExpires, Retry
    <3>3. pc' = "over" => outcome' = "accepted"
      BY <1>13, <2>2, Finished DEF ReadExpires, Retry
    <3> QED BY <2>2, <3>1, <3>2, <3>3
  <2> QED BY <2>1, <2>2
<1>14. CASE CapHit
  BY <1>14 DEF CapHit, Retry, OverCap
<1>w. CASE WriteGoes
  <2>0. pc \in Writing /\ UNCHANGED <<clock, got, pace, kind>> /\ owed' = owed - 1
    BY <1>w DEF WriteGoes
  <2> HIDE <1>0, <1>a, <1>b DEF TypeOK, ConnInv, EndInv, TimeInv, OverCap
  <2>1. /\ Len(got) \in Nat /\ clock \in Nat /\ until \in Nat /\ owed \in Nat \ {0}
        /\ clock <= until /\ outcome = "none"
    BY <2>0, WritingTimes
  <2>2. CASE pc = "pong"
    <3> DEFINE n == (1 + Len(got)) - owed
    <3>1. /\ n \in Nat /\ pace \in 1..Timeout /\ pace \in Nat /\ until <= PongUntil(n, pace)
          /\ (1 + Len(got)) - owed' = n + 1
      BY <2>0, <2>1, <2>2, WritingTimes
    <3> HIDE DEF n
    <3>2. PongUntil(n + 1, pace) = PongUntil(n, pace) + pace /\ PongUntil(n, pace) \in Nat
      BY <3>1, OnePongMore, n <= n
    <3>3. clock + pace <= PongUntil(n + 1, pace) /\ clock <= clock + pace
      <4>1. clock + pace <= PongUntil(n, pace) + pace
        BY <2>1, <3>1, <3>2, LaterRead
      <4> QED BY <2>1, <3>1, <3>2, <4>1
    <3>4. CASE owed' > 0
      <4>1. pc' = pc /\ until' = clock + pace /\ outcome' = outcome
        BY <1>w, <3>4 DEF WriteGoes, endVars
      <4> QED BY <2>0, <2>1, <2>2, <3>1, <3>3, <4>1 DEF TimeInv
    <3>5. CASE ~(owed' > 0)
      <4>1. pc' = "over" /\ kind = "ping"
        BY <1>w, <2>2, <3>5 DEF WriteGoes, PongDone, End, ConnInv
      <4> QED BY <2>0, <2>1, <3>1, <4>1 DEF TimeInv
    <3> QED BY <3>4, <3>5
  <2>3. CASE pc = "push"
    <3> DEFINE n == (1 + PushUnits) - owed
    <3>1. /\ n \in Nat /\ n <= PushUnits /\ pace = HelloWait /\ until <= PushUntil(n)
          /\ PushUnits \in Nat /\ HelloWait \in Nat /\ ReplyWait \in Nat
          /\ (1 + PushUnits) - owed' = n + 1
      BY <1>a, <2>0, <2>1, <2>3, WritingTimes
    <3> HIDE DEF n
    <3>2. /\ PushUntil(n + 1) = PushUntil(n) + HelloWait /\ PushUntil(n) \in Nat
          /\ PushUntil(n) <= PushUntil(PushUnits)
      BY <3>1, OnePushMore
    <3>3. clock + pace <= PushUntil(n + 1) /\ clock <= clock + pace
      <4>1. clock + pace <= PushUntil(n) + pace
        BY <2>1, <3>1, <3>2, LaterRead
      <4> QED BY <2>1, <3>1, <3>2, <4>1
    <3>4. clock + ReplyWait <= ReplyUntil(1) /\ clock <= clock + ReplyWait
      <4>1. until <= PushUntil(PushUnits) /\ PushUntil(PushUnits) \in Nat
        BY <1>b, <2>1, <3>1, <3>2
      <4>2. clock + ReplyWait <= PushUntil(PushUnits) + ReplyWait
        BY <2>1, <3>1, <4>1, LaterRead
      <4> QED BY <1>b, <2>1, <3>1, <4>2
    <3>5. CASE owed' > 0
      <4>1. pc' = pc /\ until' = clock + pace /\ outcome' = outcome
        BY <1>w, <3>5 DEF WriteGoes, endVars
      <4> QED BY <2>0, <2>1, <2>3, <3>1, <3>3, <4>1 DEF TimeInv
    <3>6. CASE ~(owed' > 0)
      <4>1. pc' = "body" /\ kind = "inspect" /\ until' = clock + ReplyWait /\ outcome' = outcome
            /\ got = <<>>
        BY <1>w, <2>3, <3>6 DEF WriteGoes, ReadUntil, ConnInv, endVars
      <4>2. Len(got') = 0 /\ ~OverCap'
        BY <1>a, <2>0, <4>1 DEF OverCap
      <4> QED BY <2>0, <2>1, <3>4, <4>1, <4>2 DEF TimeInv
    <3> QED BY <3>5, <3>6
  <2> QED BY <1>w, <2>2, <2>3 DEF WriteGoes
<1>x. CASE WriteFails
  <2>0. pc \in Writing /\ UNCHANGED <<clock, got, pace, kind>>
    BY <1>x DEF WriteFails
  <2> HIDE <1>0, <1>a, <1>b DEF TypeOK, ConnInv, EndInv, TimeInv, OverCap
  <2>1. /\ Len(got) \in Nat /\ clock \in Nat /\ until \in Nat /\ owed \in Nat \ {0}
        /\ clock <= until /\ outcome = "none"
    BY <2>0, WritingTimes
  <2>2. CASE pc' = "over"
    <3>1. /\ pc = "pong" \/ (pc = "push" /\ outcome' = "failed")
          /\ pc = "pong" => kind = "ping" /\ pace \in 1..Timeout
          /\ pc = "push" => kind = "inspect"
      BY <1>x, <2>0, WritingTimes DEF WriteFails, End, ConnInv
    <3> QED BY <2>0, <2>2, <3>1 DEF TimeInv
  <2>3. CASE pc' # "over"
    <3>1. /\ pc = "pong" /\ owed = 1 + Len(got) /\ owed' = Len(got) /\ until' = clock + pace
          /\ pc' = pc /\ outcome' = outcome
      BY <1>x, <2>3 DEF WriteFails, PongDone, End, endVars
    <3>2. pace \in 1..Timeout /\ pace \in Nat /\ until <= PongUntil((1 + Len(got)) - owed, pace)
      BY <2>0, <3>1, WritingTimes
    <3>3. (1 + Len(got)) - owed' = 1 /\ (1 + Len(got)) - owed = 0
      BY <2>1, <3>1
    <3>4. PongUntil(0 + 1, pace) = PongUntil(0, pace) + pace /\ PongUntil(0, pace) \in Nat
      BY <3>2, OnePongMore, 0 \in Nat, 0 <= 0
    <3>5. until' <= PongUntil(1, pace) /\ clock' <= until'
      <4>1. clock + pace <= PongUntil(0, pace) + pace
        BY <2>1, <3>2, <3>3, <3>4, LaterRead
      <4> QED BY <2>0, <2>1, <3>1, <3>2, <3>4, <4>1
    <3> QED BY <2>0, <2>1, <3>1, <3>2, <3>3, <3>5 DEF TimeInv
  <2> QED BY <2>2, <2>3
<1>15. CASE Panic
  BY <1>15 DEF Panic, End, elsewhere
<1>16. CASE SeePath
  BY <1>16 DEF SeePath, elsewhere
<1>17. CASE SeeExit
  BY <1>17 DEF SeeExit, elsewhere
<1>18. CASE AwaitTimesOut
  BY <1>18 DEF AwaitTimesOut, Overdue, End, elsewhere
<1>19. CASE WriteCommand
  BY <1>19 DEF WriteCommand, elsewhere
<1>20. CASE Join
  BY <1>20 DEF Join, elsewhere
<1>21. CASE Receive
  BY <1>21 DEF Receive, Delivery
<1>22. CASE DoorTimesOut
  BY <1>22 DEF DoorTimesOut, RecvExpires
<1>23. CASE Tick
  BY SMTT(30), <1>23 DEF Tick, Due, Overdue, OverCap
<1>24. CASE UNCHANGED vars
  BY <1>24 DEF vars
<1> QED BY <1>1, <1>2, <1>3, <1>4, <1>5, <1>6, <1>7, <1>8, <1>9, <1>10, <1>11, <1>12, <1>13,
       <1>14, <1>w, <1>x, <1>15, <1>16, <1>17, <1>18, <1>19, <1>20, <1>21, <1>22, <1>23, <1>24 DEF Next,
       Listener, Call

----------------------------------------------------------------------------

\* The inductive invariant holds at the start,
LEMMA ListenerInit == Init => ListenerInv
<1> SUFFICES ASSUME Init PROVE ListenerInv
  OBVIOUS
<1>1. /\ Timeout \in Nat \ {0} /\ HardenWait \in Nat \ {0} /\ HelloWait \in Nat \ {0}
      /\ ReplyWait \in Nat \ {0} /\ ReplyMax \in Nat /\ MaxClock \in Nat /\ MaxFrame \in Nat
      /\ MaxConn \in Nat /\ MaxSend \in Nat
  BY ListenerAssumption DEF ListenerAssumption
<1>2. <<>> \in Seq(Unit) /\ Len(<<>>) = 0
  OBVIOUS
<1>3. TypeOK
  <2>1. base \in BOOLEAN /\ path \in BOOLEAN /\ hardened \in BOOLEAN /\ shut \in BOOLEAN
    BY DEF Init
  <2>2. kind \in Kind /\ logOpen \in BOOLEAN /\ wait \in DoorWaits \cup {0}
    BY DEF Init
  <2>3. parent \in {"await", "write", "join", "left", "recv", "ok", "err", "late", "died"}
    BY DEF Init
  <2> QED BY <1>1, <1>2, <2>1, <2>2, <2>3 DEF Init, TypeOK
<1>4. ConnInv /\ EndInv /\ SoundInv
  BY DEF Init, ConnInv, EndInv, SoundInv
<1>5. TimeInv
  BY <1>1 DEF Init, TimeInv
<1> QED BY <1>3, <1>4, <1>5 DEF ListenerInv

\* and every step keeps it.
LEMMA ListenerStep == ListenerInv /\ [Next]_vars => ListenerInv'
BY TypeStep, ConnStep, EndStep, SoundStep, TimeStep DEF ListenerInv

\* The inductive invariant says what the call goes on with, when the listener is
\* over, whether it is reaped, and what the reject log holds.
LEMMA ListenerMeans ==
  ListenerInv => TypeOK /\ TakenIsSound /\ OneDeadline /\ NoListenerLeft /\ RefusalOnRecord
<1> SUFFICES ASSUME ListenerInv
             PROVE  TypeOK /\ TakenIsSound /\ OneDeadline /\ NoListenerLeft /\ RefusalOnRecord
  OBVIOUS
<1> USE DEF ListenerInv
<1>1. TakenIsSound
  <2> SUFFICES ASSUME parent = "ok" PROVE TakenIsSound
    BY DEF TakenIsSound
  <2>1. outcome = "accepted" /\ got # <<>> /\ pc = "over" /\ peer = "accepted"
    BY DEF EndInv, SoundInv
  <2>2. Cardinality(sources) = 1
    BY <2>1, FS_Singleton DEF ConnInv
  <2>3. kind = "inspect" => Len(got) \in 1..ReplyMax
    BY <2>1, EmptySeq, ListenerAssumption DEF SoundInv, TypeOK, ListenerAssumption
  <2> QED BY <2>1, <2>2, <2>3 DEF SoundInv, TakenIsSound
<1>2. OneDeadline
  <2>1. /\ Timeout \in Nat \ {0} /\ HardenWait \in Nat \ {0} /\ ReplyMax \in Nat /\ PushUnits \in Nat
    BY ListenerAssumption DEF ListenerAssumption
  <2>2. kind # "inspect" =>
          /\ pc \notin Writing \cup {"over"} => clock <= ListenUntil
          /\ outcome = "accepted" => IF kind = "ping" THEN pace \in 1..Timeout ELSE ended < Timeout
    BY <2>1 DEF ConnInv, TimeInv, TypeOK, ListenUntil
  <2>3. pc = "pong" => clock <= PongUntil(Len(got), pace)
    <3> SUFFICES ASSUME pc = "pong" PROVE clock <= PongUntil(Len(got), pace)
      OBVIOUS
    <3> DEFINE n == (1 + Len(got)) - owed
    <3>1. /\ n \in Nat /\ Len(got) \in Nat /\ n <= Len(got) /\ pace \in Nat /\ clock \in Nat
          /\ until \in Nat /\ clock <= until /\ until <= PongUntil(n, pace)
      BY WritingTimes
    <3> HIDE DEF n
    <3>2. /\ PongUntil(n, pace) \in Nat /\ PongUntil(n, pace) <= PongUntil(Len(got), pace)
          /\ PongUntil(Len(got), pace) \in Nat
      BY <3>1, OnePongMore, Len(got) <= Len(got)
    <3> QED BY <3>1, <3>2
  <2>4. kind = "inspect" /\ pc # "over" => clock <= ReplyUntil(ReplyMax + 1)
    <3> SUFFICES ASSUME kind = "inspect", pc # "over" PROVE clock <= ReplyUntil(ReplyMax + 1)
      OBVIOUS
    <3>0. clock \in Nat /\ until \in Nat /\ Len(got) \in Nat
      BY DEF TypeOK
    <3>1. CASE pc \in {"base", "bind", "harden", "accept"}
      BY <2>1, <3>0, <3>1, InspectorTimes DEF TimeInv
    <3>2. CASE pc = "head"
      BY <3>0, <3>2, InspectorTimes DEF TimeInv
    <3>3. CASE pc = "push"
      <4> DEFINE n == (1 + PushUnits) - owed
      <4>1. n \in Nat /\ n <= PushUnits /\ clock <= until /\ until <= PushUntil(n)
        BY <3>3, WritingTimes
      <4> HIDE DEF n
      <4>2. PushUntil(n) <= PushUntil(PushUnits) /\ PushUntil(n) \in Nat
        BY <2>1, <4>1, OnePushMore
      <4> QED BY <3>0, <4>1, <4>2, InspectorTimes
    <3>4. CASE pc = "body"
      <4>1. CASE OverCap
        BY <3>4, <4>1 DEF TimeInv
      <4>2. CASE ~OverCap
        <5>1. Len(got) + 1 \in Nat /\ ReplyMax + 1 \in Nat /\ Len(got) + 1 <= ReplyMax + 1
          BY <2>1, <3>0, <4>2 DEF OverCap
        <5>2. ReplyUntil(Len(got) + 1) <= ReplyUntil(ReplyMax + 1) /\ ReplyUntil(Len(got) + 1) \in Nat
          BY <5>1, OneReadMore
        <5>3. clock <= until /\ until <= ReplyUntil(Len(got) + 1)
          BY <3>4, <4>2 DEF TimeInv
        <5> QED BY <3>0, <5>2, <5>3, InspectorTimes
      <4> QED BY <4>1, <4>2
    <3> QED BY <3>1, <3>2, <3>3, <3>4 DEF TypeOK, ConnInv
  <2> QED BY <2>2, <2>3, <2>4 DEF OneDeadline
<1>3. NoListenerLeft /\ RefusalOnRecord
  BY DEF EndInv, NoListenerLeft, RefusalOnRecord
<1> QED BY <1>1, <1>2, <1>3

\* What holds of the connection, of the end, of what is accepted and of the clock holds
\* whenever a listener runs.
THEOREM ListenerInvariant == Spec => []ListenerInv
BY ListenerInit, ListenerStep, PTL DEF Spec

\* The state of a listener has its types: no message outgrows its limit.
THEOREM ListenerTypeCorrect == Spec => []TypeOK
BY ListenerInvariant, ListenerMeans, PTL

\* However the guest drips, a listener reads nothing after its deadline, and ends by it:
\* all but ping, which its pong may hold by the timeouts of its writes, and the
\* inspector's, which a connection may hold by those of its writes and reads.
THEOREM ListenerEndsInTime == Spec => []OneDeadline
BY ListenerInvariant, ListenerMeans, PTL

\* What a call goes on with was read whole, from one connection, by a hardened listener.
THEOREM TakenWhole == Spec => []TakenIsSound
BY ListenerInvariant, ListenerMeans, PTL

\* No call that answers leaves its listener running.
THEOREM ListenerReaped == Spec => []NoListenerLeft
BY ListenerInvariant, ListenerMeans, PTL

\* Every refusal of a connection is in the reject log, and nothing else is.
THEOREM RefusalsLogged == Spec => []RefusalOnRecord
BY ListenerInvariant, ListenerMeans, PTL
=============================================================================

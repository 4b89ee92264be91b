--------------------------- MODULE GuestListener ---------------------------
(***************************************************************************)
(* One host listener for a guest, and the call that waits for it.  Four    *)
(* kinds share a shape:                                                    *)
(*   ping     port 52, vsock_roundtrip in a thread (firecracker.rs)        *)
(*   result   port 53, the process vestibule-listen (vestibule/listen.rs)  *)
(*   inspect  port 54, vsock_inspect_reply in a thread (firecracker.rs)    *)
(*   door     a unix socket, serve_one_with_opts in a thread of the route  *)
(*            door (vestibule/listen.rs, sandbox-demo/route.rs)            *)
(* Each waits for the base socket (not door), binds, hardens itself (not   *)
(* ping and door), accepts and reads; ping then writes back what it read,  *)
(* and inspect pushes its body between HELLO and the reply.  The guest may *)
(* do anything: never connect, stall, drip one unit at a time, take no     *)
(* bytes, lie about the length, close early.                               *)
(*                                                                         *)
(* Bytes are counted in units: a header or HELLO, then whatever one read   *)
(* returns or one write takes.  Time passes only while somebody waits, in  *)
(* ticks of the clock.                                                     *)
(***************************************************************************)
EXTENDS Naturals, Sequences, FiniteSets, SequencesExt

CONSTANTS
  Timeout,    \* the deadline of a listener, from its start
  HardenWait, \* how long the move to a cgroup may be polled for
  BindWait,   \* how long the parent waits for the listen path
  HelloWait,  \* the timeout of the first read of an inspector connection,
              \* and of each write of the body
  PushUnits,  \* the writes it takes to push the body
  ReplyWait,  \* the timeout of each read of its reply
  DoorWaits,  \* the guest deadlines a door may be given
  MaxFrame,   \* MAX_FRAME_BYTES
  ReplyMax,   \* INSPECT_REPLY_MAX
  MaxConn, MaxSend, MaxClock  \* bounds: connections, units of one, clock

ASSUME ListenerAssumption ==
  /\ {Timeout, HardenWait, BindWait, HelloWait, PushUnits, ReplyWait}
       \subseteq Nat \ {0}
  /\ {MaxFrame, ReplyMax, MaxConn, MaxSend, MaxClock} \subseteq Nat
  /\ BindWait < Timeout
  /\ HardenWait <= ReplyWait
  /\ DoorWaits \subseteq Nat \ {0}

VARIABLES
  kind,      \* which listener; never changes
  logOpen,   \* the reject log can be written; never changes
  wait,      \* the guest deadline of a door; never changes
  clock,
  base,      \* Firecracker has created the base socket
  path,      \* the listen path is bound and on disk
  pc,        \* the stage of the listener
  hardened,  \* apply_listener_hardening_with_fs_roots has succeeded
  until,     \* when the read, write or hardening under way times out
  got,       \* the units of the message read so far
  sources,   \* history: the connections those units came from
  owed,      \* the units still to be written
  pace,      \* the timeout of each of those writes
  outcome,   \* how the listener ended
  ended,     \* history: when
  rejects,   \* lines in the reject log
  parent,    \* the stage of the call that waits
  peer,      \* the connection: none, queued or accepted
  shut,      \* the guest has closed it
  wire,      \* units sent on it and not yet read
  spoken,    \* units sent on it
  claim,     \* the length its header announces
  conns      \* connections the guest has made

fixed == <<kind, logOpen, wait>>
hostVars == <<base, path, hardened>>
readVars == <<until, got, sources, owed, pace>>
endVars == <<outcome, ended, rejects>>
guestVars == <<peer, shut, wire, spoken, claim, conns>>
vars == <<fixed, clock, hostVars, pc, readVars, endVars, parent, guestVars>>

Kind == {"ping", "result", "inspect", "door"}
Framed == {"result", "door"}
\* What a unit may be: HELLO, content, content no parser takes, a newline.
Unit == {"hello", "good", "bad", "nl"}
Says == CASE kind = "ping" -> {"good"}
          [] kind \in Framed -> {"good", "bad"}
          [] OTHER -> IF spoken = 0 THEN {"hello", "bad"} ELSE {"good", "bad", "nl"}

Reading == {"head", "body"}
Writing == {"push", "pong"}

Init ==
  /\ kind \in Kind
  /\ logOpen \in BOOLEAN
  /\ wait \in IF kind = "door" THEN DoorWaits ELSE {0}
  /\ clock = 0
  /\ base = FALSE /\ path = FALSE /\ hardened = FALSE
  /\ pc = IF kind = "door" THEN "bind" ELSE "base"
  /\ until = 0 /\ got = <<>> /\ sources = {} /\ owed = 0 /\ pace = 0
  /\ outcome = "none" /\ ended = 0 /\ rejects = 0
  /\ parent = CASE kind = "result" -> "await" [] kind = "door" -> "recv" [] OTHER -> "write"
  /\ peer = "none" /\ shut = FALSE /\ wire = <<>>
  /\ spoken = 0 /\ claim = 0 /\ conns = 0

----------------------------------------------------------------------------
(* The guest and its VMM; nothing reads what a guest does once the listener *)
(* is over. *)

BaseAppears ==
  /\ ~base /\ kind # "door"
  /\ base' = TRUE
  /\ UNCHANGED <<clock, path, hardened, pc, readVars, endVars, parent, guestVars>>

Connect ==
  /\ path /\ peer = "none" /\ conns < MaxConn
  /\ peer' = "queued"
  /\ conns' = conns + 1
  /\ shut' = FALSE /\ wire' = <<>> /\ spoken' = 0
  /\ claim' \in IF kind \in Framed THEN 0..(MaxFrame + 1) ELSE {0}
  /\ UNCHANGED <<clock, hostVars, pc, readVars, endVars, parent>>

Send ==
  /\ peer # "none" /\ ~shut /\ spoken < MaxSend /\ pc # "over"
  /\ \E u \in Says : wire' = Append(wire, u)
  /\ spoken' = spoken + 1
  /\ UNCHANGED <<clock, hostVars, pc, readVars, endVars, parent, peer, shut, claim, conns>>

Close ==
  /\ peer # "none" /\ ~shut /\ pc # "over"
  /\ shut' = TRUE
  /\ UNCHANGED <<clock, hostVars, pc, readVars, endVars, parent, peer, wire, spoken, claim, conns>>

----------------------------------------------------------------------------
(* The listener *)

End(how) == pc' = "over" /\ outcome' = how /\ ended' = clock

\* A base socket that never comes is NotFound.
AwaitBase ==
  /\ pc = "base"
  /\ \/ base /\ pc' = "bind" /\ UNCHANGED endVars
     \/ ~base /\ clock >= Timeout /\ End("failed") /\ UNCHANGED rejects
  /\ UNCHANGED <<clock, hostVars, readVars, parent, guestVars>>

Bind ==
  /\ pc = "bind"
  /\ \/ /\ path' = TRUE
        /\ pc' = IF kind \in {"ping", "door"} THEN "accept" ELSE "harden"
        /\ until' = clock + HardenWait
        /\ UNCHANGED endVars
     \/ End("unbound") /\ UNCHANGED <<path, until, rejects>>
  /\ UNCHANGED <<clock, base, hardened, got, sources, owed, pace, parent, guestVars>>

\* After the bind and before the accept.  An error leaves the path on disk.
Harden ==
  /\ pc = "harden"
  /\ \/ hardened' = TRUE /\ pc' = "accept" /\ UNCHANGED endVars
     \/ End("failed") /\ UNCHANGED <<hardened, rejects>>
  /\ UNCHANGED <<clock, base, path, readVars, parent, guestVars>>

\* Mutant: each read of a frame may take the whole timeout again.
ReadUntilPerRead(stage) ==
  IF kind # "inspect" THEN clock + Timeout
  ELSE IF stage = "head" THEN clock + HelloWait ELSE clock + ReplyWait
\* The socket timeout of the next read.  ping and result set it to the time left
\* before every read, inspect to a fixed time.
ReadUntil(stage) ==
  IF kind # "inspect" THEN Timeout
  ELSE IF stage = "head" THEN clock + HelloWait ELSE clock + ReplyWait

\* ping reads to the end of the stream, the others a header or HELLO first.
\* The result listener unlinks its path here, ping and inspect when they end;
\* the path of a door is unlinked by the call.
Accept ==
  /\ pc = "accept" /\ peer = "queued"
  /\ kind = "inspect" => clock < Timeout
  /\ pc' = IF kind = "ping" THEN "body" ELSE "head"
  /\ peer' = "accepted"
  /\ path' = (path /\ kind # "result")
  /\ until' = ReadUntil(pc')
  /\ got' = <<>> /\ sources' = {}
  /\ UNCHANGED <<clock, base, hardened, owed, pace, endVars, parent, shut, wire, spoken, claim, conns>>

\* Mutant: a guest that never connects is waited for.
AcceptForever ==
  /\ pc = "accept" /\ kind = "inspect" /\ clock >= Timeout
  /\ path' = (path /\ kind = "door")
  /\ End("failed")
  /\ UNCHANGED <<clock, base, hardened, readVars, rejects, parent, guestVars>>
\* The poll of ping, result and door tries to accept before it looks at the clock.
AcceptTimesOut ==
  /\ pc = "accept" /\ clock >= Timeout
  /\ kind # "inspect" => peer # "queued"
  /\ path' = (path /\ kind = "door")
  /\ End("failed")
  /\ UNCHANGED <<clock, base, hardened, readVars, rejects, parent, guestVars>>

\* Mutant: only refusals by the schema are logged.
RefuseSchemaOnly(reason) ==
  /\ End("refused")
  /\ rejects' = IF logOpen /\ reason = "schema" THEN rejects + 1 ELSE rejects
\* accept_one_result_logged: an error of the frame or of the schema is appended
\* to the reject log; an append that fails is ignored.
Refuse(reason) ==
  /\ End("refused")
  /\ rejects' = IF logOpen THEN rejects + 1 ELSE rejects

\* The inspector loop drops the connection and accepts the next.
Retry == pc' = "accept" /\ peer' = "none" /\ UNCHANGED <<path, endVars>>

\* read_one_frame and decode_frame, when the header is there.
Head4 ==
  /\ kind \in Framed
  /\ peer' = peer
  /\ until' = ReadUntil("body")
  /\ UNCHANGED <<path, owed, pace>>
  /\ \/ claim \in 1..MaxFrame /\ pc' = "body" /\ UNCHANGED endVars
     \/ claim \notin 1..MaxFrame /\ Refuse("frame")

\* set_write_timeout: every write may take that long.  (The ACK of a frame is one
\* small write into an empty socket buffer, part of the step that takes the frame.)
StartWrites(stage, units, each) ==
  /\ pc' = stage
  /\ owed' = units /\ pace' = each
  /\ until' = clock + each

\* The first read of an inspector connection must start with HELLO; then the
\* body is pushed.
Hello ==
  /\ kind = "inspect"
  /\ IF Head(wire) # "hello" THEN Retry /\ UNCHANGED <<until, owed, pace>>
     ELSE /\ StartWrites("push", PushUnits, HelloWait)
          /\ UNCHANGED <<peer, path, endVars>>

\* A read the kernel times out may still return what arrived that instant;
\* DeadlineStream and ping look at the clock first.
InTime == clock < until \/ (kind = "inspect" /\ clock = until)

ReadHead ==
  /\ pc = "head" /\ wire # <<>> /\ InTime
  /\ wire' = Tail(wire)
  /\ Head4 \/ Hello
  /\ UNCHANGED <<clock, base, hardened, got, sources, parent, shut, spoken, claim, conns>>

FirstNl(reply) == SelectInSeq(reply, LAMBDA u : u = "nl")
\* The first line of the reply, without its newline.
FirstLine(reply) ==
  IF FirstNl(reply) = 0 THEN reply ELSE SubSeq(reply, 1, FirstNl(reply) - 1)

\* A reply over the limit, not UTF-8, or with an empty first line is dropped.
FinishReply(reply) ==
  IF \/ Len(reply) > ReplyMax
     \/ \E i \in DOMAIN reply : reply[i] = "bad"
     \/ FirstLine(reply) = <<>>
  THEN Retry
  ELSE path' = FALSE /\ peer' = peer /\ End("accepted") /\ UNCHANGED rejects

\* Mutant: the length of the reply is looked at only once it is complete.
OverCapNever == FALSE
OverCap == kind = "inspect" /\ Len(got) > ReplyMax

\* The message with one unit more.
Grown(data) ==
  \/ /\ kind = "ping" \/ (kind \in Framed /\ Len(data) < claim)
        \/ (kind = "inspect" /\ Last(data) # "nl")
     /\ UNCHANGED <<pc, peer, path, endVars>>
  \/ /\ kind \in Framed /\ Len(data) = claim
     /\ UNCHANGED <<peer, path>>
     /\ IF \A i \in DOMAIN data : data[i] = "good"
          THEN End("accepted") /\ UNCHANGED rejects
          ELSE Refuse("schema")
  \/ kind = "inspect" /\ Last(data) = "nl" /\ FinishReply(data)

ReadBody ==
  /\ pc = "body" /\ wire # <<>> /\ InTime /\ ~OverCap
  /\ wire' = Tail(wire)
  /\ got' = Append(got, Head(wire))
  /\ sources' = sources \cup {conns}
  /\ until' = ReadUntil("body")
  /\ Grown(got')
  /\ UNCHANGED <<clock, base, hardened, owed, pace, parent, shut, spoken, claim, conns>>

\* Mutant: a frame cut short by the guest is parsed as it is.
ReadEndsEarly ==
  /\ pc \in Reading /\ wire = <<>> /\ shut /\ InTime
  /\ UNCHANGED <<peer, path>>
  /\ End("accepted") /\ UNCHANGED rejects
  /\ UNCHANGED <<clock, base, hardened, wire, readVars, parent, shut, spoken, claim, conns>>
\* The time left to ping at the end of the stream: the timeout of each write of
\* its answer, 1 ms at the least.
TimeLeft == IF clock < Timeout THEN Timeout - clock ELSE 1

\* The guest has closed.  ping writes back "pong:" and what it has.
ReadEnds ==
  /\ pc \in Reading /\ wire = <<>> /\ shut /\ InTime
  /\ \/ /\ kind = "ping"
        /\ path' = FALSE
        /\ StartWrites("pong", 1 + Len(got), TimeLeft)
        /\ UNCHANGED <<peer, endVars>>
     \/ /\ \/ kind \in Framed /\ Refuse("frame") /\ UNCHANGED <<peer, path>>
           \/ kind = "inspect" /\ pc = "head" /\ Retry
           \/ kind = "inspect" /\ pc = "body" /\ FinishReply(got)
        /\ UNCHANGED <<until, owed, pace>>
  /\ UNCHANGED <<clock, base, hardened, wire, got, sources, parent, shut, spoken, claim, conns>>

\* The read times out.  The inspector loop takes a reply without a newline.
ReadExpires ==
  /\ pc \in Reading /\ clock >= until /\ ~OverCap
  /\ \/ /\ kind = "ping"
        /\ path' = FALSE /\ peer' = peer
        /\ End("failed") /\ UNCHANGED rejects
     \/ kind \in Framed /\ Refuse("frame") /\ UNCHANGED <<peer, path>>
     \/ kind = "inspect" /\ pc = "head" /\ Retry
     \/ kind = "inspect" /\ pc = "body" /\ FinishReply(got)
  /\ UNCHANGED <<clock, base, hardened, wire, readVars, parent, shut, spoken, claim, conns>>

\* The limit is looked at before each read of the reply.
CapHit ==
  /\ pc = "body" /\ OverCap
  /\ Retry
  /\ UNCHANGED <<clock, base, hardened, wire, readVars, parent, shut, spoken, claim, conns>>

\* Nothing of the pong is owed any more: ping takes what it has read, unless it is
\* nothing.
PongDone == End(IF got = <<>> THEN "failed" ELSE "accepted") /\ UNCHANGED rejects

\* The guest takes a unit, at once or as late as the timeout lets it.
WriteGoes ==
  /\ pc \in Writing
  /\ owed' = owed - 1
  /\ \/ owed' > 0 /\ until' = clock + pace /\ UNCHANGED <<pc, endVars>>
     \/ owed' = 0 /\ pc = "pong" /\ PongDone /\ UNCHANGED until
     \/ owed' = 0 /\ pc = "push" /\ pc' = "body" /\ until' = ReadUntil("body") /\ UNCHANGED endVars
  /\ UNCHANGED <<clock, hostVars, got, sources, pace, parent, guestVars>>

\* A write fails, at once or by its timeout.  The push ends the listener; ping
\* ignores it: after "pong:" it tries the payload, after that it is done.
WriteFails ==
  /\ pc \in Writing
  /\ \/ pc = "push" /\ End("failed") /\ UNCHANGED <<until, owed, rejects>>
     \/ /\ pc = "pong" /\ owed = 1 + Len(got) /\ got # <<>>
        /\ owed' = Len(got) /\ until' = clock + pace
        /\ UNCHANGED <<pc, endVars>>
     \/ pc = "pong" /\ (owed <= Len(got) \/ got = <<>>) /\ PongDone /\ UNCHANGED <<until, owed>>
  /\ UNCHANGED <<clock, hostVars, got, sources, pace, parent, guestVars>>

Listener ==
  \/ AwaitBase \/ Bind \/ Harden \/ Accept \/ AcceptTimesOut
  \/ ReadHead \/ ReadBody \/ ReadEnds \/ ReadExpires \/ CapHit
  \/ WriteGoes \/ WriteFails

----------------------------------------------------------------------------
(* The prove call *)

elsewhere == <<clock, hostVars, readVars, guestVars>>

\* wait_for_listen_path: a listener is ready once its path is there.
SeePath ==
  /\ parent = "await" /\ path
  /\ parent' = "write"
  /\ UNCHANGED <<elsewhere, pc, endVars>>

SeeExit ==
  /\ parent = "await" /\ ~path /\ pc = "over"
  /\ parent' = "err"
  /\ UNCHANGED <<elsewhere, pc, endVars>>

Overdue == parent = "await" /\ clock > BindWait

\* Mutant: the call gives up on the listener and leaves it running.
AwaitAbandons ==
  /\ Overdue /\ ~path /\ pc # "over"
  /\ parent' = "err"
  /\ UNCHANGED <<elsewhere, pc, endVars>>
\* The listener is killed and reaped.
AwaitTimesOut ==
  /\ Overdue /\ ~path /\ pc # "over"
  /\ parent' = "err"
  /\ End("killed")
  /\ UNCHANGED <<elsewhere, rejects>>

\* The serial command that makes the guest connect is written; an error
\* returns at once and leaves the thread or process to its own deadline.
WriteCommand ==
  /\ parent = "write"
  /\ parent' \in {"join", "left"}
  /\ UNCHANGED <<elsewhere, pc, endVars>>

\* finish_vestibule_listener, or the join of the thread.
Join ==
  /\ parent = "join" /\ pc = "over"
  /\ parent' = IF outcome = "accepted" THEN "ok" ELSE "err"
  /\ UNCHANGED <<elsewhere, pc, endVars>>

----------------------------------------------------------------------------
(* deliver_with_deadline of the door *)

\* The thread of a listener panics: its sender is dropped.
Panic ==
  /\ kind = "door" /\ parent = "recv" /\ pc # "over"
  /\ End("died")
  /\ UNCHANGED <<elsewhere, rejects, parent>>

\* What the door learns from the channel; then it removes the socket.
Delivery == CASE outcome = "accepted" -> "ok" [] outcome = "died" -> "died" [] OTHER -> "err"
Receive ==
  /\ parent = "recv" /\ pc = "over"
  /\ parent' = Delivery
  /\ path' = FALSE
  /\ UNCHANGED <<clock, base, hardened, readVars, guestVars, pc, endVars>>

\* Mutant: the door waits for whatever its listener says.
RecvForever == FALSE
RecvExpires == clock >= wait
\* recv_timeout: an answer that comes after it goes nowhere.
DoorTimesOut ==
  /\ parent = "recv" /\ RecvExpires
  /\ parent' = "late"
  /\ path' = FALSE
  /\ UNCHANGED <<clock, base, hardened, readVars, guestVars, pc, endVars>>

Call ==
  \/ SeePath \/ SeeExit \/ AwaitTimesOut \/ WriteCommand \/ Join
  \/ Receive \/ DoorTimesOut

----------------------------------------------------------------------------
(* Time *)

\* What no longer waits acts before the next tick; nobody waits after the end.
Due ==
  \/ pc = "bind"
  \/ pc = "harden" /\ clock >= until
  \/ pc \in {"base", "accept"} /\ clock >= Timeout
  \/ pc \in Reading /\ (clock >= until \/ OverCap)
  \/ pc \in Writing /\ clock >= until
  \/ Overdue
  \/ parent = "recv" /\ (pc = "over" \/ RecvExpires)

Tick ==
  /\ clock < MaxClock /\ ~Due /\ pc # "over"
  /\ clock' = clock + 1
  /\ UNCHANGED <<hostVars, pc, readVars, endVars, parent, guestVars>>

Next ==
  /\ \/ BaseAppears \/ Connect \/ Send \/ Close
     \/ Listener \/ Panic \/ Call \/ Tick
  /\ UNCHANGED fixed

Spec == Init /\ [][Next]_vars

----------------------------------------------------------------------------
(* Properties *)

\* When a listener other than the inspector's has read all it will.
ListenUntil == IF kind = "result" THEN Timeout + HardenWait ELSE Timeout
\* When the writes of a pong are over, if n units of its payload were tried.
PongUntil(n, each) == Timeout + n * each
\* When the writes of a body are over, if n were tried,
PushUntil(n) == (Timeout - 1) + HelloWait + n * HelloWait
\* and when the reads of a reply are over, if it has n units already.
ReplyUntil(n) == PushUntil(PushUnits) + n * ReplyWait

Outcomes == {"none", "accepted", "failed", "unbound", "refused", "killed", "died"}

\* The state has its types; in particular no reply grows past one read over
\* INSPECT_REPLY_MAX, and no frame past MAX_FRAME_BYTES.
TypeOK ==
  /\ kind \in Kind /\ logOpen \in BOOLEAN /\ wait \in DoorWaits \cup {0}
  /\ clock \in 0..MaxClock
  /\ base \in BOOLEAN /\ path \in BOOLEAN /\ hardened \in BOOLEAN /\ shut \in BOOLEAN
  /\ pc \in {"base", "bind", "harden", "accept", "over"} \cup Reading \cup Writing
  /\ until \in Nat /\ owed \in Nat /\ pace \in Nat
  /\ got \in Seq(Unit)
  /\ kind \in Framed => Len(got) <= MaxFrame
  /\ kind = "inspect" => Len(got) <= ReplyMax + 1
  /\ sources \subseteq 1..MaxConn
  /\ outcome \in Outcomes /\ ended \in 0..MaxClock /\ rejects \in 0..1
  /\ parent \in {"await", "write", "join", "left", "recv", "ok", "err", "late", "died"}
  /\ peer \in {"none", "queued", "accepted"}
  /\ wire \in Seq(Unit) /\ spoken \in 0..MaxSend
  /\ claim \in 0..(MaxFrame + 1) /\ conns \in 0..MaxConn

\* However the guest drips, ping, result and door listeners read nothing after their
\* deadline (accept_and_read_until, DeadlineStream), and result and door listeners end
\* by it, or as soon as a late hardening returns.  ping then writes back what it read,
\* each write with the time that was left at the end of the stream: a guest that sends
\* much and takes it slowly holds it past the deadline by that time for every unit, and
\* no more.  The inspector loop has no deadline over a connection: a guest that
\* connects at the last moment and drips both ways can hold it by the timeouts of its
\* writes and reads, and no more.
OneDeadline ==
  /\ kind # "inspect" =>
       /\ pc \notin Writing \cup {"over"} => clock <= ListenUntil
       /\ pc = "pong" => clock <= PongUntil(Len(got), pace)
       /\ outcome = "accepted" => IF kind = "ping" THEN pace \in 1..Timeout ELSE ended < Timeout
  /\ kind = "inspect" /\ pc # "over" => clock <= ReplyUntil(ReplyMax + 1)

\* What the call goes on with was read whole by a hardened listener: a frame of
\* the announced length that the schema takes, or the first line of a reply
\* within its limit; and never pieced together from two connections.
TakenIsSound ==
  parent = "ok" =>
    /\ outcome = "accepted"
    /\ Cardinality(sources) = 1
    /\ kind = "ping" => got # <<>> /\ shut
    /\ kind \in {"result", "inspect"} => hardened
    /\ kind \in Framed =>
         /\ Len(got) = claim /\ claim \in 1..MaxFrame
         /\ \A i \in DOMAIN got : got[i] = "good"
    /\ kind = "inspect" =>
         /\ Len(got) \in 1..ReplyMax /\ got[1] # "nl"
         /\ \A i \in DOMAIN got : got[i] # "bad"

\* A call that returns an answer or an error of the listener has reaped it; only
\* a failed serial write, and the deadline of a door, leave one behind.
NoListenerLeft == parent \in {"ok", "err"} => pc = "over"

\* Each refusal of an accepted result or door connection leaves one line in the reject
\* log when the log can be written, and an accepted message leaves none.
RefusalOnRecord ==
  /\ kind \in Framed /\ logOpen /\ peer = "accepted" /\ pc = "over" =>
       \/ outcome \in {"accepted", "killed", "died"} /\ rejects = 0
       \/ rejects = 1
  /\ outcome = "accepted" => rejects = 0

----------------------------------------------------------------------------
(* The inductive invariant *)

\* The connection a message is read from, and who has accepted it.
ConnInv ==
  /\ peer # "none" => conns > 0
  /\ pc \in Reading \cup Writing => peer = "accepted"
  /\ peer = "accepted" => pc \in Reading \cup Writing \cup {"over"}
  /\ pc \in {"head", "push"} => got = <<>>
  /\ pc = "push" => kind = "inspect" /\ owed \in 1..PushUnits
  /\ pc = "pong" => kind = "ping" /\ shut /\ owed \in 1..(1 + Len(got))
  /\ kind = "ping" => pc \notin {"head", "harden"}
  /\ pc = "body" /\ kind \in Framed => claim \in 1..MaxFrame
  /\ peer = "accepted" => sources = IF got = <<>> THEN {} ELSE {conns}
  /\ kind = "door" => pc \notin {"base", "harden"}
  /\ kind \in {"result", "inspect"} /\ pc \in {"accept", "push"} \cup Reading => hardened

\* How the listener ended, and what its call made of it.
EndInv ==
  /\ pc = "over" <=> outcome # "none"
  /\ rejects = IF logOpen /\ outcome = "refused" THEN 1 ELSE 0
  /\ outcome \in {"accepted", "refused"} => peer = "accepted"
  /\ outcome = "refused" => kind \in Framed
  /\ kind \in Framed /\ peer = "accepted" => outcome \in {"none", "accepted", "refused", "killed", "died"}
  /\ parent = "ok" => outcome = "accepted"
  /\ parent \in {"ok", "err"} => pc = "over"

\* What a listener accepts.
SoundInv ==
  outcome = "accepted" =>
    /\ got # <<>>
    /\ kind = "ping" => shut
    /\ kind \in {"result", "inspect"} => hardened
    /\ kind \in Framed =>
         /\ Len(got) = claim /\ claim \in 1..MaxFrame
         /\ \A i \in DOMAIN got : got[i] = "good"
    /\ kind = "inspect" =>
         /\ Len(got) <= ReplyMax /\ got[1] # "nl"
         /\ \A i \in DOMAIN got : got[i] # "bad"

\* The clock at each stage.
TimeInv ==
  /\ pc \in {"base", "bind"} => clock <= Timeout
  /\ pc = "harden" => clock <= until /\ until <= Timeout + HardenWait
  /\ pc = "accept" => clock <= IF kind = "inspect" THEN ReplyUntil(ReplyMax + 1) ELSE ListenUntil
  /\ pc \in Reading /\ kind # "inspect" => clock <= ListenUntil /\ until = Timeout
  /\ pc = "pong" => clock <= until /\ until <= PongUntil((1 + Len(got)) - owed, pace)
  /\ pc = "head" /\ kind = "inspect" => clock <= until /\ until <= PushUntil(0)
  /\ pc = "push" =>
       /\ pace = HelloWait
       /\ clock <= until /\ until <= PushUntil((1 + PushUnits) - owed)
  /\ pc = "body" /\ kind = "inspect" =>
       IF OverCap THEN clock <= ReplyUntil(ReplyMax + 1)
       ELSE clock <= until /\ until <= ReplyUntil(Len(got) + 1)
  /\ pc = "pong" \/ (kind = "ping" /\ outcome = "accepted") => pace \in 1..Timeout
  /\ outcome = "accepted" /\ kind \in Framed => ended < Timeout

ListenerInv == TypeOK /\ ConnInv /\ EndInv /\ SoundInv /\ TimeInv
=============================================================================

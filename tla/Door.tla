-------------------------------- MODULE Door --------------------------------
(***************************************************************************)
(* The route door (sandbox-demo route): one task in, one receipt out, on   *)
(* the stub VM host.  run_route is wrapped around the door's listener, a   *)
(* kind of GuestListener; the other kinds run here as they do there.       *)
(*                                                                         *)
(* The rows, the jail directory and the shelf are the call's own: tickets  *)
(* are fresh, so jails, sockets and bodies of two doors differ.  Of the    *)
(* chain a door sees only that an append or a read may fail.               *)
(***************************************************************************)
EXTENDS GuestListener

V == INSTANCE Verdict WITH MaxReasons <- 4, MaxFilename <- 128

VARIABLES
  door,     \* the stage of run_route; "off" of the other kinds
  rows,     \* the rows of this jail on the chain
  jail,     \* its directory is on the host
  clean,    \* teardown_clean of the receipt
  shelved,  \* the body is on the shelf
  disposition,
  code      \* the exit code

doorVars == <<door, rows, jail, clean, shelved, disposition, code>>

NoCode == 99
Killed == 137

DoorInit ==
  /\ Init
  /\ door = IF kind = "door" THEN "start" ELSE "off"
  /\ rows = <<>> /\ jail = FALSE /\ clean = FALSE
  /\ shelved = FALSE /\ disposition = "none" /\ code = NoCode

\* The threads of the listener and of the guest end with the process.
Delivering == door \notin {"start", "open", "launch", "over"}

Exit(c) == door' = "over" /\ code' = c
Goto(stage) == door' = stage /\ UNCHANGED code

\* An append that fails may have written its row.
Row(verdict, stage) ==
  \/ rows' = Append(rows, verdict) /\ Goto(stage)
  \/ rows' \in {rows, Append(rows, verdict)} /\ Exit(5)

----------------------------------------------------------------------------
(* run_route *)

\* parse_task: a task that is too large or malformed is refused.
ParseTask ==
  /\ door = "start"
  /\ Exit(2) \/ Goto("open")
  /\ UNCHANGED <<rows, jail, clean, shelved, disposition>>

\* The state directory, and the chain in it, which must verify.
OpenState ==
  /\ door = "open"
  /\ Exit(6) \/ Exit(5) \/ Goto("launch")
  /\ UNCHANGED <<rows, jail, clean, shelved, disposition>>

Launch ==
  /\ door = "launch"
  /\ jail' = TRUE
  /\ Row("launch", "deliver")
  /\ UNCHANGED <<clean, shelved, disposition>>

\* A listener that died, and a guest that did not answer in time.
FailClosed ==
  /\ door = "deliver" /\ parent \in {"died", "late"}
  /\ Row("fail_closed", "finish")
  /\ UNCHANGED <<jail, clean, shelved, disposition>>

Reject ==
  /\ door = "deliver" /\ parent = "err"
  /\ Row("reject", "finish")
  /\ disposition' = "rejected"
  /\ UNCHANGED <<jail, clean, shelved>>

\* handoff_roundtrip, stage_from_guard and the read of the staged body.
Handoff ==
  /\ door = "deliver" /\ parent = "ok"
  /\ \/ shelved' = TRUE /\ Goto("decide")
     \/ shelved' \in BOOLEAN /\ Exit(6)
  /\ UNCHANGED <<rows, jail, clean, disposition>>

Decide ==
  /\ door = "decide"
  /\ \E claimed \in V!Outcome, same \in BOOLEAN :
       disposition' = V!Decide([outcome |-> claimed, same |-> same])
  /\ Row("prove", "dispose")
  /\ UNCHANGED <<jail, clean, shelved>>

Dispose ==
  /\ door = "dispose"
  /\ Goto("finish") \/ Exit(6)
  /\ UNCHANGED <<rows, jail, clean, shelved, disposition>>

\* Mutant: an append of the Teardown row that fails is passed over.
TeardownRowBestEffort ==
  Goto("close") /\ rows' \in {rows, Append(rows, "teardown")}
TeardownRow == Row("teardown", "close")

\* StubHost::teardown: an error of the removal is ignored, and seen.
Finish ==
  /\ door = "finish"
  /\ jail' \in BOOLEAN
  /\ clean' = ~jail'
  /\ TeardownRow
  /\ UNCHANGED <<shelved, disposition>>

\* The second teardown and the removal of the host directory; then the answer:
\* the tip is read and the receipt written, or the failure is returned.
Conclude ==
  /\ door = "close"
  /\ jail' \in {jail, FALSE}
  /\ CASE parent = "died" -> Exit(6)
       [] parent = "late" -> Exit(4)
       [] OTHER -> Exit(0) \/ Exit(5) \/ Exit(6)
  /\ UNCHANGED <<rows, clean, shelved, disposition>>

Route ==
  \/ ParseTask \/ OpenState \/ Launch \/ FailClosed \/ Reject \/ Handoff
  \/ Decide \/ Dispose \/ Finish \/ Conclude

\* The gate gives up on the door.
Kill ==
  /\ door \notin {"off", "over"}
  /\ Exit(Killed)
  /\ UNCHANGED <<rows, jail, clean, shelved, disposition>>

DoorNext ==
  \/ Delivering /\ Next /\ UNCHANGED doorVars
  \/ (Route \/ Kill) /\ UNCHANGED vars

allVars == <<vars, doorVars>>
DoorSpec == DoorInit /\ [][DoorNext]_allVars

\* The scheduler runs the listener, the call and the door, and time passes.  The
\* guest, its VMM and the gate owe nothing.
During(A) == Delivering /\ A /\ UNCHANGED <<fixed, doorVars>>
FairSpec ==
  /\ DoorSpec
  /\ WF_allVars(During(Listener))
  /\ WF_allVars(During(Call))
  /\ WF_allVars(During(Tick))
  /\ WF_allVars(Route /\ UNCHANGED vars)

----------------------------------------------------------------------------
(* Properties *)

\* The answer of a door is borne out by what it did, whatever failed and
\* whenever the guest, its listener or the gate gave up: a receipt means that
\* the jail is on record from launch to teardown, that a rejected body never
\* came near the shelf and any other was read whole; a failure closed says so
\* on the chain; teardown_clean means gone.
AnswerBorneOut ==
  /\ code = 0 =>
       /\ \/ rows = <<"launch", "reject", "teardown">> /\ disposition = "rejected" /\ ~shelved
          \/ /\ rows = <<"launch", "prove", "teardown">> /\ shelved
             /\ disposition # "rejected" /\ outcome = "accepted"
       /\ clean => ~jail
  /\ code = 4 => rows = <<"launch", "fail_closed", "teardown">> /\ ~shelved
  /\ code = 2 => rows = <<>> /\ ~jail

\* The guest holds its connection, or makes none, without a whole frame.
Stalls ==
  ~shut /\ (spoken = 0 \/ (claim \in 1..MaxFrame /\ spoken <= claim))

\* demos/README.md:32: a guest that sends nothing, or stops mid frame, ends the
\* run with exit 4, and never with a receipt (where the listener was bound).
StalledGuestTimesOut == kind = "door" /\ Stalls /\ outcome # "unbound" => code # 0

\* Whatever the guest does, the listener ends, and so do its call and the door.
ListenersEnd ==
  <>(IF kind = "door" THEN door = "over"
     ELSE pc = "over" /\ parent \in {"ok", "err", "left"})

----------------------------------------------------------------------------
(* The inductive invariant *)

\* The row that says how the delivery went.
Ending == CASE parent = "ok" -> "prove" [] parent = "err" -> "reject" [] OTHER -> "fail_closed"

\* The rows of a door and what it did with the body, stage by stage.
RouteInv ==
  /\ door = "off" <=> kind # "door"
  /\ kind = "door" => parent \in {"recv", "ok", "err", "late", "died"}
  /\ door \in {"start", "open", "launch"} => rows = <<>> /\ ~jail /\ ~shelved
  /\ door = "deliver" => rows = <<"launch">> /\ ~shelved
  /\ door = "decide" => rows = <<"launch">> /\ shelved /\ parent = "ok"
  /\ door \in {"dispose", "finish"} => rows = <<"launch", Ending>>
  /\ door = "dispose" => parent = "ok"
  /\ door = "close" => rows = <<"launch", Ending, "teardown">> /\ (clean => ~jail)
  /\ door \in {"dispose", "finish", "close"} =>
       /\ parent # "recv"
       /\ shelved <=> parent = "ok"
       /\ parent = "ok" => disposition # "rejected"
       /\ parent = "err" => disposition = "rejected"
  /\ code = NoCode <=> door # "over"
  /\ code = 0 => parent \in {"ok", "err"}
  /\ AnswerBorneOut

\* What a guest has sent, while its frame is read and when that has ended.
SentInv ==
  kind = "door" =>
    /\ parent = "recv" => clock <= wait
    /\ peer = "queued" \/ pc = "head" => spoken = Len(wire)
    /\ pc = "body" => spoken = Len(wire) + Len(got) + 1
    /\ outcome # "killed"
    /\ parent = "err" => outcome \in {"failed", "unbound", "refused"}
    /\ outcome = "accepted" => spoken > claim
    /\ outcome = "refused" =>
         shut \/ (claim \notin 1..MaxFrame /\ spoken > 0) \/ spoken > claim \/ ended >= Timeout
    /\ outcome = "failed" => ended >= Timeout
    /\ pc = "over" => ended <= clock
    /\ parent = "err" => ended <= wait
=============================================================================

---------------------------- MODULE ProveProofs ----------------------------
(* Proofs about Prove, for any requests, processes and jails. *)
EXTENDS Prove, TLAPS

USE DEF Kind, Guest

\* The names of the stages, one by one.
LEMMA StageNames ==
  /\ "idle" \in Stages /\ "anchor" \in Stages /\ "preflight" \in Stages /\ "before" \in Stages
  /\ "launchRow" \in Stages /\ "boot" \in Stages /\ "exec" \in Stages /\ "api" \in Stages
  /\ "guard" \in Stages /\ "checks" \in Stages /\ "put" \in Stages /\ "take" \in Stages
  /\ "stage" \in Stages /\ "read" \in Stages /\ "inspect" \in Stages /\ "dispose" \in Stages
  /\ "checked" \in Stages /\ "stop" \in Stages /\ "clean" \in Stages /\ "stopRow" \in Stages
  /\ "after" \in Stages /\ "hostRow" \in Stages /\ "result" \in Stages /\ "final" \in Stages
  /\ "answered" \in Stages /\ "dead" \in Stages /\ "failRow" \in Stages
BY DEF Stages, Answered, Quiet, Launching, Checking, Inspecting, Closing

\* A step of a request moves that request from one stage to another.
LEMMA StageStep ==
  ASSUME NEW r \in Req, Step(r)
  PROVE  \E x \in Stages : pc' = [pc EXCEPT ![r] = x]
<1> USE StageNames
<1>1. CASE Anchor(r)
  BY <1>1 DEF Anchor, Return
<1>2. CASE Preflight(r)
  BY <1>2 DEF Preflight, Go, Fail
<1>3. CASE SnapshotBefore(r)
  BY <1>3 DEF SnapshotBefore, Go, Fail
<1>4. CASE LaunchRow(r)
  BY <1>4 DEF LaunchRow, RowOrAbort, Record, Return
<1>5. CASE FailRow(r)
  BY <1>5 DEF FailRow, Record, Return
<1>6. CASE PrepareJail(r)
  BY <1>6 DEF PrepareJail, Go, At, Cell
<1>7. CASE StartGuest(r)
  BY <1>7 DEF StartGuest, Go, At, Cell
<1>8. CASE Launched(r)
  BY <1>8 DEF Launched, Go
<1>9. CASE LaunchFails(r)
  BY <1>9 DEF LaunchFails
<1>10. CASE Guard(r)
  BY <1>10 DEF Guard, GuardKills, Cleanup, MayFail, Fail, ChecksReturn, At, Cell
<1>11. CASE GuestChecks(r)
  BY <1>11 DEF GuestChecks, Go
<1>12. CASE Put(r)
  BY <1>12 DEF Put, Go
<1>13. CASE Take(r)
  BY <1>13 DEF Take, Go
<1>14. CASE Stage(r)
  BY <1>14 DEF Stage, Go
<1>15. CASE ReadStaged(r)
  BY <1>15 DEF ReadStaged, Go
<1>16. CASE BlobGone(r)
  BY <1>16 DEF BlobGone, ChecksReturn
<1>17. CASE Inspect(r)
  BY <1>17 DEF Inspect, Go
<1>18. CASE Dispose(r)
  BY <1>18 DEF Dispose, MayFail, ChecksReturn
<1>19. CASE ChecksFail(r)
  BY <1>19 DEF ChecksFail, ChecksReturn
<1>20. CASE Stop(r)
  BY <1>20 DEF Stop, Go, At, Cell
<1>21. CASE Clean(r)
  BY <1>21 DEF Clean, Cleanup, MayFail, At, Cell
<1>22. CASE Checked(r)
  BY <1>22 DEF Checked
<1>23. CASE StopRow(r)
  BY <1>23 DEF StopRow, RowOrAbort, Record, Return, Fail
<1>24. CASE SnapshotAfter(r)
  BY <1>24 DEF SnapshotAfter, Fail
<1>25. CASE HostRow(r)
  BY <1>25 DEF HostRow, RowOrAbort, Record, Return
<1>26. CASE Result(r)
  BY <1>26 DEF Result, RowOrAbort, Record, Return, Fail
<1>27. CASE Final(r)
  BY <1>27 DEF Final, Return
<1> QED BY <1>1, <1>2, <1>3, <1>4, <1>5, <1>6, <1>7, <1>8, <1>9, <1>10, <1>11, <1>12, <1>13,
       <1>14, <1>15, <1>16, <1>17, <1>18, <1>19, <1>20, <1>21, <1>22, <1>23, <1>24, <1>25, <1>26,
       <1>27 DEF Step

\* A step of a request records at most one row.
LEMMA RowStep ==
  ASSUME TypeOK, NEW r \in Req, Step(r)
  PROVE  \/ rows' = rows
         \/ \E v \in Verdict : rows' = [rows EXCEPT ![r] = Append(@, v)]
<1> USE DEF TypeOK, Verdict, callVars
<1>1. CASE LaunchRow(r)
  BY <1>1 DEF LaunchRow, RowOrAbort, Record, Return
<1>2. CASE FailRow(r)
  BY <1>2 DEF FailRow, Record, Return
<1>3. CASE StopRow(r)
  BY <1>3 DEF StopRow, RowOrAbort, Record, Return, Fail
<1>4. CASE HostRow(r)
  BY <1>4 DEF HostRow, RowOrAbort, Record, Return
<1>5. CASE Result(r)
  BY <1>5 DEF Result, RowOrAbort, Record, Return, Fail
<1>6. CASE ~(LaunchRow(r) \/ FailRow(r) \/ StopRow(r) \/ HostRow(r) \/ Result(r))
  BY <1>6 DEF Step, Anchor, Preflight, SnapshotBefore, PrepareJail, StartGuest, Launched,
     LaunchFails, Guard, GuestChecks, Put, Take, Stage, ReadStaged, BlobGone, Inspect, Dispose,
     ChecksFail, Stop, Clean, Checked, SnapshotAfter, Final
<1> QED BY <1>1, <1>2, <1>3, <1>4, <1>5, <1>6

\* It sets at most its own exit code.
LEMMA CodeStep ==
  ASSUME TypeOK, NEW r \in Req, Step(r)
  PROVE  \/ code' = code
         \/ \E c \in {0, 1, 2} : code' = [code EXCEPT ![r] = c]
<1> USE DEF TypeOK, Verdict, callVars
<1>1. CASE Anchor(r)
  BY <1>1 DEF Anchor, Return
<1>2. CASE Preflight(r)
  BY <1>2 DEF Preflight, Fail
<1>3. CASE SnapshotBefore(r)
  BY <1>3 DEF SnapshotBefore, Fail
<1>4. CASE Guard(r)
  BY <1>4 DEF Guard, Fail
<1>5. CASE SnapshotAfter(r)
  BY <1>5 DEF SnapshotAfter, Fail
<1>6. CASE Final(r)
  BY <1>6 DEF Final, Return
<1>7. CASE LaunchRow(r)
  BY <1>7 DEF LaunchRow, RowOrAbort, Record, Return
<1>8. CASE FailRow(r)
  BY <1>8 DEF FailRow, Record, Return
<1>9. CASE StopRow(r)
  BY <1>9 DEF StopRow, RowOrAbort, Record, Return, Fail
<1>10. CASE HostRow(r)
  BY <1>10 DEF HostRow, RowOrAbort, Record, Return
<1>11. CASE Result(r)
  BY <1>11 DEF Result, RowOrAbort, Record, Return, Fail
<1>12. CASE ~(Anchor(r) \/ Preflight(r) \/ SnapshotBefore(r) \/ Guard(r) \/ SnapshotAfter(r) \/ Final(r) \/ LaunchRow(r) \/ FailRow(r) \/ StopRow(r) \/ HostRow(r) \/ Result(r))
  BY <1>12 DEF Step, PrepareJail, StartGuest, Launched, LaunchFails, GuestChecks, Put, Take,
     Stage, ReadStaged, BlobGone, Inspect, Dispose, ChecksFail, Stop, Clean, Checked
<1> QED BY <1>1, <1>2, <1>3, <1>4, <1>5, <1>6, <1>7, <1>8, <1>9, <1>10, <1>11, <1>12

\* Every step keeps the types.
LEMMA TypeStep == TypeOK /\ [Next]_vars => TypeOK'
<1> SUFFICES ASSUME TypeOK, [Next]_vars PROVE TypeOK'
  OBVIOUS
<1> USE ProveAssumption
        DEF ProveAssumption, TypeOK, HostTypeOK, RunTypeOK,
            fixed, hostVars, blobVars, callVars, runVars
<1>1. ASSUME NEW r \in Req, Request(r), UNCHANGED fixed PROVE TypeOK'
  <2>1. pc' \in [Req -> Stages]
    BY <1>1, StageNames DEF Request, Go
  <2>2. HostTypeOK' /\ RunTypeOK' /\ rows' = rows /\ code' = code
    BY <1>1 DEF Request, Active
  <2> QED BY <1>1, <2>1, <2>2
<1>2. ASSUME NEW r \in Req, Step(r) PROVE HostTypeOK' /\ RunTypeOK'
<2>1. CASE Anchor(r)
    BY <2>1 DEF Anchor, Return
<2>2. CASE Preflight(r)
    BY <2>2 DEF Preflight, Go, Fail
<2>3. CASE SnapshotBefore(r)
    <3>1. before' \in [Req -> [guests : SUBSET Guest, dirs : SUBSET Jail]]
      <4>1. [guests |-> live, dirs |-> dirs] \in [guests : SUBSET Guest, dirs : SUBSET Jail]
        OBVIOUS
      <4>2. \/ before' = before
            \/ before' = [before EXCEPT ![r] = [guests |-> live, dirs |-> dirs]]
        BY <2>3 DEF SnapshotBefore
      <4>3. CASE before' = before
        BY <4>3
      <4>4. CASE before' = [before EXCEPT ![r] = [guests |-> live, dirs |-> dirs]]
        BY <4>1, <4>4
      <4> QED BY <4>2, <4>3, <4>4
    <3> QED BY <2>3, <3>1 DEF SnapshotBefore
<2>4. CASE LaunchRow(r)
    BY <2>4 DEF LaunchRow, RowOrAbort, Record, Return
<2>5. CASE FailRow(r)
    BY <2>5 DEF FailRow, Record, Return
<2>6. CASE PrepareJail(r)
    BY <2>6 DEF PrepareJail, Go, At, Cell
<2>7. CASE StartGuest(r)
    BY <2>7 DEF StartGuest, Go, At, Cell
<2>8. CASE Launched(r)
    BY <2>8 DEF Launched, Go
<2>9. CASE LaunchFails(r)
    BY <2>9 DEF LaunchFails
<2>10. CASE Guard(r)
    <3>1. live' \subseteq live /\ dirs' \subseteq dirs
      BY <2>10 DEF Guard, GuardKills, Cleanup, MayFail
    <3>2. box' \in [Req -> Kind] /\ checks' \in [Req -> {"none", "ok", "err"}]
      <4>1. (box' = box /\ checks' = checks) \/ ChecksReturn(r, "err")
        BY <2>10 DEF Guard
      <4>2. CASE ChecksReturn(r, "err")
        BY <4>2 DEF ChecksReturn
      <4> QED BY <4>1, <4>2
    <3> QED BY <2>10, <3>1, <3>2 DEF Guard
<2>11. CASE GuestChecks(r)
    BY <2>11 DEF GuestChecks, Go
<2>12. CASE Put(r)
    BY <2>12 DEF Put, Go
<2>13. CASE Take(r)
    BY <2>13 DEF Take, Go
<2>14. CASE Stage(r)
    BY <2>14 DEF Stage, Go
<2>15. CASE ReadStaged(r)
    BY <2>15 DEF ReadStaged, Go
<2>16. CASE BlobGone(r)
    BY <2>16 DEF BlobGone, ChecksReturn
<2>17. CASE Inspect(r)
    BY <2>17 DEF Inspect, Go
<2>18. CASE Dispose(r)
    BY <2>18 DEF Dispose, MayFail, ChecksReturn
<2>19. CASE ChecksFail(r)
    BY <2>19 DEF ChecksFail, ChecksReturn
<2>20. CASE Stop(r)
    BY <2>20 DEF Stop, Go, At, Cell
<2>21. CASE Clean(r)
    BY ZenonT(60), <2>21 DEF Clean, Cleanup, MayFail, At, Cell
<2>22. CASE Checked(r)
    BY <2>22 DEF Checked
<2>23. CASE StopRow(r)
    BY <2>23 DEF StopRow, RowOrAbort, Record, Return, Fail
<2>24. CASE SnapshotAfter(r)
    BY <2>24 DEF SnapshotAfter, Fail
<2>25. CASE HostRow(r)
    BY <2>25 DEF HostRow, RowOrAbort, Record, Return
<2>26. CASE Result(r)
    BY <2>26 DEF Result, RowOrAbort, Record, Return, Fail
<2>27. CASE Final(r)
    BY <2>27 DEF Final, Return
  <2> QED BY <1>2, <2>1, <2>2, <2>3, <2>4, <2>5, <2>6, <2>7, <2>8, <2>9, <2>10, <2>11, <2>12,
         <2>13, <2>14, <2>15, <2>16, <2>17, <2>18, <2>19, <2>20, <2>21, <2>22, <2>23, <2>24,
         <2>25, <2>26, <2>27 DEF Step
<1>3. ASSUME NEW r \in Req, Step(r), UNCHANGED fixed PROVE TypeOK'
  <2>1. pc' \in [Req -> Stages]
    BY <1>3, StageStep DEF TypeOK
  <2>2. rows' \in [Req -> Seq(Verdict)]
    <3>1. CASE rows' = rows
      BY <3>1
    <3>2. ASSUME NEW v \in Verdict, rows' = [rows EXCEPT ![r] = Append(@, v)]
          PROVE  rows' \in [Req -> Seq(Verdict)]
      <4>1. Append(rows[r], v) \in Seq(Verdict)
        OBVIOUS
      <4> QED BY <3>2, <4>1
    <3> QED BY <1>3, <3>1, <3>2, RowStep
  <2>3. code' \in [Req -> {0, 1, 2}]
    BY <1>3, CodeStep
  <2> QED BY <2>1, <2>2, <2>3, <1>2, <1>3
<1>4. ASSUME NEW p \in Proc, Crash(p), UNCHANGED fixed PROVE TypeOK'
  <2>1. pc' \in [Req -> Stages]
    BY <1>4, StageNames DEF Crash
  <2> QED BY <1>4, <2>1 DEF Crash
<1>5. ASSUME NEW g \in Guest, GuestEnds(g), UNCHANGED fixed PROVE TypeOK'
  BY <1>5 DEF GuestEnds
<1>6. CASE UNCHANGED vars
  BY <1>6 DEF vars
<1> QED BY <1>1, <1>3, <1>4, <1>5, <1>6 DEF Next

\* A step of one request leaves the stage and the locals of the others alone, and
\* starts no guest but its own.
LEMMA OthersStay ==
  ASSUME TypeOK, NEW r \in Req, NEW s \in Req, r # s, Step(r)
  PROVE  /\ pc'[s] = pc[s] /\ box'[s] = box[s] /\ cleaned'[s] = cleaned[s]
         /\ rows'[s] = rows[s] /\ checks'[s] = checks[s] /\ before'[s] = before[s]
         /\ \A k \in Kind : <<s, k>> \in live' => <<s, k>> \in live
<1> USE DEF TypeOK, HostTypeOK, RunTypeOK, hostVars, blobVars, callVars, runVars
<1>1. CASE Anchor(r)
  BY <1>1 DEF Anchor, Return
<1>2. CASE Preflight(r)
  BY <1>2 DEF Preflight, Go, Fail
<1>3. CASE SnapshotBefore(r)
  BY <1>3 DEF SnapshotBefore, Go, Fail
<1>4. CASE LaunchRow(r)
  BY <1>4 DEF LaunchRow, RowOrAbort, Record, Return
<1>5. CASE FailRow(r)
  BY <1>5 DEF FailRow, Record, Return
<1>6. CASE PrepareJail(r)
  BY <1>6 DEF PrepareJail, Go, At, Cell
<1>7. CASE StartGuest(r)
  BY <1>7 DEF StartGuest, Go, At, Cell
<1>8. CASE Launched(r)
  BY <1>8 DEF Launched, Go
<1>9. CASE LaunchFails(r)
  BY <1>9 DEF LaunchFails
<1>10. CASE Guard(r)
  BY <1>10 DEF Guard, GuardKills, Cleanup, MayFail, Fail, ChecksReturn, At, Cell
<1>11. CASE GuestChecks(r)
  BY <1>11 DEF GuestChecks, Go
<1>12. CASE Put(r)
  BY <1>12 DEF Put, Go
<1>13. CASE Take(r)
  BY <1>13 DEF Take, Go
<1>14. CASE Stage(r)
  BY <1>14 DEF Stage, Go
<1>15. CASE ReadStaged(r)
  BY <1>15 DEF ReadStaged, Go
<1>16. CASE BlobGone(r)
  BY <1>16 DEF BlobGone, ChecksReturn
<1>17. CASE Inspect(r)
  BY <1>17 DEF Inspect, Go
<1>18. CASE Dispose(r)
  BY <1>18 DEF Dispose, MayFail, ChecksReturn
<1>19. CASE ChecksFail(r)
  BY <1>19 DEF ChecksFail, ChecksReturn
<1>20. CASE Stop(r)
  BY <1>20 DEF Stop, Go, At, Cell
<1>21. CASE Clean(r)
  BY <1>21 DEF Clean, Cleanup, MayFail, At, Cell
<1>22. CASE Checked(r)
  BY <1>22 DEF Checked
<1>23. CASE StopRow(r)
  BY <1>23 DEF StopRow, RowOrAbort, Record, Return, Fail
<1>24. CASE SnapshotAfter(r)
  BY <1>24 DEF SnapshotAfter, Fail
<1>25. CASE HostRow(r)
  BY <1>25 DEF HostRow, RowOrAbort, Record, Return
<1>26. CASE Result(r)
  BY <1>26 DEF Result, RowOrAbort, Record, Return, Fail
<1>27. CASE Final(r)
  BY <1>27 DEF Final, Return
<1> QED BY <1>1, <1>2, <1>3, <1>4, <1>5, <1>6, <1>7, <1>8, <1>9, <1>10, <1>11, <1>12, <1>13,
       <1>14, <1>15, <1>16, <1>17, <1>18, <1>19, <1>20, <1>21, <1>22, <1>23, <1>24, <1>25, <1>26,
       <1>27 DEF Step

\* A step of a request keeps its own part of BoxInv.
LEMMA OwnBox ==
  ASSUME TypeOK, NEW r \in Req, BoxAt(r), Step(r)
  PROVE  BoxAt(r)'
<1> USE DEF TypeOK, HostTypeOK, RunTypeOK, hostVars, blobVars, callVars, runVars,
            BoxAt, Quiet, Launching, Checking, Inspecting, Closing
<1>1. CASE Anchor(r)
  BY <1>1 DEF Anchor, Return
<1>2. CASE Preflight(r)
  BY <1>2 DEF Preflight, Go, Fail
<1>3. CASE SnapshotBefore(r)
  BY <1>3 DEF SnapshotBefore, Go, Fail
<1>4. CASE LaunchRow(r)
  BY <1>4 DEF LaunchRow, RowOrAbort, Record, Return
<1>5. CASE FailRow(r)
  BY <1>5 DEF FailRow, Record, Return
<1>6. CASE PrepareJail(r)
  BY <1>6 DEF PrepareJail, Go, At, Cell
<1>7. CASE StartGuest(r)
  BY <1>7 DEF StartGuest, Go, At, Cell
<1>8. CASE Launched(r)
  BY <1>8 DEF Launched, Go
<1>9. CASE LaunchFails(r)
  BY <1>9 DEF LaunchFails
<1>10. CASE Guard(r)
  BY <1>10 DEF Guard, GuardKills, Cleanup, MayFail, Fail, ChecksReturn, At, Cell
<1>11. CASE GuestChecks(r)
  BY <1>11 DEF GuestChecks, Go
<1>12. CASE Put(r)
  BY <1>12 DEF Put, Go
<1>13. CASE Take(r)
  BY <1>13 DEF Take, Go
<1>14. CASE Stage(r)
  BY <1>14 DEF Stage, Go
<1>15. CASE ReadStaged(r)
  BY <1>15 DEF ReadStaged, Go
<1>16. CASE BlobGone(r)
  BY <1>16 DEF BlobGone, ChecksReturn
<1>17. CASE Inspect(r)
  BY <1>17 DEF Inspect, Go
<1>18. CASE Dispose(r)
  BY <1>18 DEF Dispose, MayFail, ChecksReturn
<1>19. CASE ChecksFail(r)
  BY <1>19 DEF ChecksFail, ChecksReturn
<1>20. CASE Stop(r)
  BY <1>20 DEF Stop, Go, At, Cell
<1>21. CASE Clean(r)
  BY <1>21 DEF Clean, Cleanup, MayFail, At, Cell
<1>22. CASE Checked(r)
  BY <1>22 DEF Checked
<1>23. CASE StopRow(r)
  BY <1>23 DEF StopRow, RowOrAbort, Record, Return, Fail
<1>24. CASE SnapshotAfter(r)
  BY <1>24 DEF SnapshotAfter, Fail
<1>25. CASE HostRow(r)
  BY <1>25 DEF HostRow, RowOrAbort, Record, Return
<1>26. CASE Result(r)
  BY <1>26 DEF Result, RowOrAbort, Record, Return, Fail
<1>27. CASE Final(r)
  BY <1>27 DEF Final, Return
<1> QED BY <1>1, <1>2, <1>3, <1>4, <1>5, <1>6, <1>7, <1>8, <1>9, <1>10, <1>11, <1>12, <1>13,
       <1>14, <1>15, <1>16, <1>17, <1>18, <1>19, <1>20, <1>21, <1>22, <1>23, <1>24, <1>25, <1>26,
       <1>27 DEF Step

\* What a request has recorded, when it records nothing and when it records v.
LEMMA SameRows ==
  ASSUME NEW r \in Req, rows' = rows, NEW w
  PROVE  Recorded(r, w)' <=> Recorded(r, w)
BY DEF Recorded

\* An appended row is the only one that becomes recorded.
LEMMA MoreRows ==
  ASSUME TypeOK, NEW r \in Req, NEW v \in Verdict, NEW w,
         rows' = [rows EXCEPT ![r] = Append(@, v)]
  PROVE  Recorded(r, w)' <=> Recorded(r, w) \/ w = v
<1>1. rows[r] \in Seq(Verdict) /\ rows'[r] = Append(rows[r], v)
  BY DEF TypeOK
<1>2. /\ Len(rows'[r]) = Len(rows[r]) + 1
      /\ \A i \in 1..Len(rows[r]) : rows'[r][i] = rows[r][i]
      /\ rows'[r][Len(rows[r]) + 1] = v
      /\ Len(rows[r]) \in Nat
  BY <1>1
<1>3. ASSUME Recorded(r, w)' PROVE Recorded(r, w) \/ w = v
  BY <1>2, <1>3 DEF Recorded
<1>4. ASSUME Recorded(r, w) PROVE Recorded(r, w)'
  BY <1>2, <1>4 DEF Recorded
<1>5. ASSUME w = v PROVE Recorded(r, w)'
  BY <1>2, <1>5 DEF Recorded
<1> QED BY <1>3, <1>4, <1>5

\* A step of a request keeps its own part of RowInv.
LEMMA OwnRow ==
  ASSUME TypeOK, NEW r \in Req, GuestAt(r), RowAt(r), Step(r)
  PROVE  RowAt(r)'
<1> USE SameRows DEF TypeOK, HostTypeOK, RunTypeOK, hostVars, blobVars, callVars, runVars,
            RowAt, GuestAt, Answered, Launching, Checking, Inspecting, Closing, Verdict
<1>1. CASE Anchor(r)
  BY <1>1 DEF Anchor, Return
<1>2. CASE Preflight(r)
  BY <1>2 DEF Preflight, Go, Fail
<1>3. CASE SnapshotBefore(r)
  BY <1>3 DEF SnapshotBefore, Go, Fail
<1>4. CASE LaunchRow(r)
  <2>1. CASE rows' = rows
    BY <1>4, <2>1 DEF LaunchRow, RowOrAbort, Record, Return
  <2>2. CASE rows' = [rows EXCEPT ![r] = Append(@, "Launch")]
    BY <1>4, <2>2, MoreRows DEF LaunchRow, RowOrAbort, Record, Return
  <2> QED BY <1>4, <2>1, <2>2 DEF LaunchRow, RowOrAbort, Record, Return
<1>5. CASE FailRow(r)
  <2>1. CASE rows' = rows
    BY <1>5, <2>1 DEF FailRow, Record, Return
  <2>2. CASE rows' = [rows EXCEPT ![r] = Append(@, "FailClosed")]
    BY ZenonT(60), <1>5, <2>2, MoreRows DEF FailRow, Record, Return
  <2> QED BY <1>5, <2>1, <2>2 DEF FailRow, Record, Return
<1>6. CASE PrepareJail(r)
  BY <1>6 DEF PrepareJail, Go, At, Cell
<1>7. CASE StartGuest(r)
  BY <1>7 DEF StartGuest, Go, At, Cell
<1>8. CASE Launched(r)
  BY <1>8 DEF Launched, Go
<1>9. CASE LaunchFails(r)
  BY <1>9 DEF LaunchFails
<1>10. CASE Guard(r)
  BY <1>10 DEF Guard, GuardKills, Cleanup, MayFail, Fail, ChecksReturn, At, Cell
<1>11. CASE GuestChecks(r)
  BY <1>11 DEF GuestChecks, Go
<1>12. CASE Put(r)
  BY <1>12 DEF Put, Go
<1>13. CASE Take(r)
  BY <1>13 DEF Take, Go
<1>14. CASE Stage(r)
  BY <1>14 DEF Stage, Go
<1>15. CASE ReadStaged(r)
  BY <1>15 DEF ReadStaged, Go
<1>16. CASE BlobGone(r)
  BY <1>16 DEF BlobGone, ChecksReturn
<1>17. CASE Inspect(r)
  BY <1>17 DEF Inspect, Go
<1>18. CASE Dispose(r)
  BY <1>18 DEF Dispose, MayFail, ChecksReturn
<1>19. CASE ChecksFail(r)
  BY <1>19 DEF ChecksFail, ChecksReturn
<1>20. CASE Stop(r)
  BY <1>20 DEF Stop, Go, At, Cell
<1>21. CASE Clean(r)
  BY <1>21 DEF Clean, Cleanup, MayFail, At, Cell
<1>22. CASE Checked(r)
  BY <1>22 DEF Checked
<1>23. CASE StopRow(r)
  <2>1. CASE rows' = rows
    BY <1>23, <2>1 DEF StopRow, RowOrAbort, Record, Return, Fail
  <2>2. CASE rows' = [rows EXCEPT ![r] = Append(@, "Teardown")]
    BY <1>23, <2>2, MoreRows DEF StopRow, RowOrAbort, Record, Return, Fail
  <2> QED BY <1>23, <2>1, <2>2 DEF StopRow, RowOrAbort, Record, Return, Fail
<1>24. CASE SnapshotAfter(r)
  BY <1>24 DEF SnapshotAfter, Fail
<1>25. CASE HostRow(r)
  <2>1. CASE rows' = rows
    BY <1>25, <2>1 DEF HostRow, RowOrAbort, Record, Return
  <2>2. CASE rows' = [rows EXCEPT ![r] = Append(@, "HostUntouched")]
    BY <1>25, <2>2, MoreRows DEF HostRow, RowOrAbort, Record, Return
  <2> QED BY <1>25, <2>1, <2>2 DEF HostRow, RowOrAbort, Record, Return
<1>26. CASE Result(r)
  <2>1. CASE rows' = rows
    BY <1>26, <2>1 DEF Result, RowOrAbort, Record, Return, Fail
  <2>2. CASE rows' = [rows EXCEPT ![r] = Append(@, "Prove")]
    BY <1>26, <2>2, MoreRows DEF Result, RowOrAbort, Record, Return, Fail
  <2> QED BY <1>26, <2>1, <2>2 DEF Result, RowOrAbort, Record, Return, Fail
<1>27. CASE Final(r)
  BY <1>27 DEF Final, Return
<1> QED BY <1>1, <1>2, <1>3, <1>4, <1>5, <1>6, <1>7, <1>8, <1>9, <1>10, <1>11, <1>12, <1>13,
       <1>14, <1>15, <1>16, <1>17, <1>18, <1>19, <1>20, <1>21, <1>22, <1>23, <1>24, <1>25, <1>26,
       <1>27 DEF Step

\* A step of a request keeps its own part of GuestInv.
LEMMA OwnGuest ==
  ASSUME TypeOK, NEW r \in Req, BoxAt(r), GuestAt(r), RowAt(r), Step(r)
  PROVE  GuestAt(r)'
<1> USE SameRows DEF TypeOK, HostTypeOK, RunTypeOK, hostVars, blobVars, callVars, runVars,
            BoxAt, RowAt, GuestAt, Quiet, Answered, Launching, Checking, Inspecting, Closing, Verdict
<1>1. CASE Anchor(r)
  BY <1>1 DEF Anchor, Return
<1>2. CASE Preflight(r)
  BY <1>2 DEF Preflight, Go, Fail
<1>3. CASE SnapshotBefore(r)
  BY <1>3 DEF SnapshotBefore, Go, Fail
<1>4. CASE LaunchRow(r)
  <2>1. CASE rows' = rows
    BY <1>4, <2>1 DEF LaunchRow, RowOrAbort, Record, Return
  <2>2. CASE rows' = [rows EXCEPT ![r] = Append(@, "Launch")]
    BY <1>4, <2>2, MoreRows DEF LaunchRow, RowOrAbort, Record, Return
  <2> QED BY <1>4, <2>1, <2>2 DEF LaunchRow, RowOrAbort, Record, Return
<1>5. CASE FailRow(r)
  <2>1. CASE rows' = rows
    BY <1>5, <2>1 DEF FailRow, Record, Return
  <2>2. CASE rows' = [rows EXCEPT ![r] = Append(@, "FailClosed")]
    BY ZenonT(60), <1>5, <2>2, MoreRows DEF FailRow, Record, Return
  <2> QED BY <1>5, <2>1, <2>2 DEF FailRow, Record, Return
<1>6. CASE PrepareJail(r)
  BY <1>6 DEF PrepareJail, Go, At, Cell
<1>7. CASE StartGuest(r)
  BY <1>7 DEF StartGuest, Go, At, Cell
<1>8. CASE Launched(r)
  BY <1>8 DEF Launched, Go
<1>9. CASE LaunchFails(r)
  BY <1>9 DEF LaunchFails
<1>10. CASE Guard(r)
  BY <1>10 DEF Guard, GuardKills, Cleanup, MayFail, Fail, ChecksReturn, At, Cell
<1>11. CASE GuestChecks(r)
  BY <1>11 DEF GuestChecks, Go
<1>12. CASE Put(r)
  BY <1>12 DEF Put, Go
<1>13. CASE Take(r)
  BY <1>13 DEF Take, Go
<1>14. CASE Stage(r)
  BY <1>14 DEF Stage, Go
<1>15. CASE ReadStaged(r)
  BY <1>15 DEF ReadStaged, Go
<1>16. CASE BlobGone(r)
  BY <1>16 DEF BlobGone, ChecksReturn
<1>17. CASE Inspect(r)
  BY <1>17 DEF Inspect, Go
<1>18. CASE Dispose(r)
  BY <1>18 DEF Dispose, MayFail, ChecksReturn
<1>19. CASE ChecksFail(r)
  BY <1>19 DEF ChecksFail, ChecksReturn
<1>20. CASE Stop(r)
  BY <1>20 DEF Stop, Go, At, Cell
<1>21. CASE Clean(r)
  BY <1>21 DEF Clean, Cleanup, MayFail, At, Cell
<1>22. CASE Checked(r)
  BY <1>22 DEF Checked
<1>23. CASE StopRow(r)
  <2>1. CASE rows' = rows
    BY <1>23, <2>1 DEF StopRow, RowOrAbort, Record, Return, Fail
  <2>2. CASE rows' = [rows EXCEPT ![r] = Append(@, "Teardown")]
    BY ZenonT(60), <1>23, <2>2, MoreRows DEF StopRow, RowOrAbort, Record, Return, Fail
  <2> QED BY <1>23, <2>1, <2>2 DEF StopRow, RowOrAbort, Record, Return, Fail
<1>24. CASE SnapshotAfter(r)
  BY <1>24 DEF SnapshotAfter, HygieneHolds, Fail
<1>25. CASE HostRow(r)
  <2>1. CASE rows' = rows
    BY <1>25, <2>1 DEF HostRow, RowOrAbort, Record, Return
  <2>2. CASE rows' = [rows EXCEPT ![r] = Append(@, "HostUntouched")]
    BY <1>25, <2>2, MoreRows DEF HostRow, RowOrAbort, Record, Return
  <2> QED BY <1>25, <2>1, <2>2 DEF HostRow, RowOrAbort, Record, Return
<1>26. CASE Result(r)
  <2>1. CASE rows' = rows
    BY <1>26, <2>1 DEF Result, RowOrAbort, Record, Return, Fail
  <2>2. CASE rows' = [rows EXCEPT ![r] = Append(@, "Prove")]
    BY <1>26, <2>2, MoreRows DEF Result, RowOrAbort, Record, Return, Fail
  <2> QED BY <1>26, <2>1, <2>2 DEF Result, RowOrAbort, Record, Return, Fail
<1>27. CASE Final(r)
  BY <1>27 DEF Final, Return
<1> QED BY <1>1, <1>2, <1>3, <1>4, <1>5, <1>6, <1>7, <1>8, <1>9, <1>10, <1>11, <1>12, <1>13,
       <1>14, <1>15, <1>16, <1>17, <1>18, <1>19, <1>20, <1>21, <1>22, <1>23, <1>24, <1>25, <1>26,
       <1>27 DEF Step

\* A step of a request keeps its own part of StoppedInv.
LEMMA OwnStopped ==
  ASSUME TypeOK, DistinctJails, NEW r \in Req, BoxAt(r), GuestAt(r), StoppedAt(r), Step(r),
         faults' = faults
  PROVE  StoppedAt(r)'
<1> USE DEF TypeOK, HostTypeOK, RunTypeOK, hostVars, blobVars, callVars, runVars,
            BoxAt, StoppedAt, At, Quiet, Launching, Checking, Inspecting, Closing
<1>a. \A k \in Kind : JailOf[<<r, k>>] \in Jail
                     /\ (JailOf[<<r, k>>] = Cell(r) => k = box[r])
  BY ProveAssumption DEF ProveAssumption, DistinctJails, Cell, At
<1>1. CASE Anchor(r)
  BY <1>1 DEF Anchor, Return
<1>2. CASE Preflight(r)
  BY <1>2 DEF Preflight, Go, Fail
<1>3. CASE SnapshotBefore(r)
  BY <1>3 DEF SnapshotBefore, Go, Fail
<1>4. CASE LaunchRow(r)
  BY <1>4 DEF LaunchRow, RowOrAbort, Record, Return
<1>5. CASE FailRow(r)
  BY <1>5 DEF FailRow, Record, Return
<1>6. CASE PrepareJail(r)
  <2>1. At(r) \notin live
    BY <1>6 DEF PrepareJail, Go, GuestAt
  <2>2. \A k \in Kind : <<r, k>> \in live => pidFile'[JailOf[<<r, k>>]] = pidFile[JailOf[<<r, k>>]]
    BY <1>a, <1>6, <2>1 DEF PrepareJail
  <2>3. pc'[r] = "exec" /\ UNCHANGED <<live, cleaned, box>>
    BY <1>6 DEF PrepareJail, Go
  <2> QED BY <2>2, <2>3
<1>7. CASE StartGuest(r)
  <2>1. ASSUME NEW k \in Kind, <<r, k>> \in live'
        PROVE  pidFile'[JailOf[<<r, k>>]] = <<r, k>>
    <3>1. CASE k = box[r]
      BY <1>a, <1>7, <3>1 DEF StartGuest, Cell
    <3>2. CASE k # box[r]
      BY <1>a, <1>7, <2>1, <3>2 DEF StartGuest
    <3> QED BY <3>1, <3>2
  <2>2. pc[r] = "exec" /\ pc'[r] = "api" /\ UNCHANGED <<cleaned, box>>
    BY <1>7 DEF StartGuest, Go
  <2>3. <<r, "main">> \in live' => <<r, "main">> \in live \/ box[r] = "main"
    BY <1>7 DEF StartGuest
  <2> QED BY <2>1, <2>2, <2>3
<1>8. CASE Launched(r)
  BY <1>8 DEF Launched, Go
<1>9. CASE LaunchFails(r)
  BY <1>9 DEF LaunchFails
<1>10. CASE Guard(r)
  BY <1>10 DEF Guard, GuardKills, Cleanup, MayFail, Fail, ChecksReturn, At, Cell
<1>11. CASE GuestChecks(r)
  BY <1>11 DEF GuestChecks, Go
<1>12. CASE Put(r)
  BY <1>12 DEF Put, Go
<1>13. CASE Take(r)
  BY <1>13 DEF Take, Go
<1>14. CASE Stage(r)
  BY <1>14 DEF Stage, Go
<1>15. CASE ReadStaged(r)
  BY <1>15 DEF ReadStaged, Go
<1>16. CASE BlobGone(r)
  BY <1>16 DEF BlobGone, ChecksReturn
<1>17. CASE Inspect(r)
  BY <1>17 DEF Inspect, Go
<1>18. CASE Dispose(r)
  BY <1>18 DEF Dispose, MayFail, ChecksReturn
<1>19. CASE ChecksFail(r)
  BY <1>19 DEF ChecksFail, ChecksReturn
<1>20. CASE Stop(r)
  BY <1>20 DEF Stop, Go, At, Cell
<1>21. CASE Clean(r)
  BY <1>21 DEF Clean, Cleanup, MayFail, At, Cell
<1>22. CASE Checked(r)
  BY <1>22 DEF Checked
<1>23. CASE StopRow(r)
  BY <1>23 DEF StopRow, RowOrAbort, Record, Return, Fail
<1>24. CASE SnapshotAfter(r)
  BY <1>24 DEF SnapshotAfter, Fail
<1>25. CASE HostRow(r)
  BY <1>25 DEF HostRow, RowOrAbort, Record, Return
<1>26. CASE Result(r)
  BY <1>26 DEF Result, RowOrAbort, Record, Return, Fail
<1>27. CASE Final(r)
  BY <1>27 DEF Final, Return
<1> QED BY <1>1, <1>2, <1>3, <1>4, <1>5, <1>6, <1>7, <1>8, <1>9, <1>10, <1>11, <1>12, <1>13,
       <1>14, <1>15, <1>16, <1>17, <1>18, <1>19, <1>20, <1>21, <1>22, <1>23, <1>24, <1>25, <1>26,
       <1>27 DEF Step

\* A step of a request makes no directory that is another request's.
LEMMA OthersDirs ==
  ASSUME TypeOK, DistinctJails, NEW r \in Req, NEW s \in Req, r # s, NEW k \in Kind,
         Step(r), JailOf[<<s, k>>] \in dirs'
  PROVE  JailOf[<<s, k>>] \in dirs
<1>1. JailOf[<<s, k>>] # Cell(r)
  BY DEF TypeOK, RunTypeOK, DistinctJails, Cell, At
<1>2. CASE PrepareJail(r)
  BY <1>1, <1>2 DEF PrepareJail
<1>3. CASE Guard(r) \/ Clean(r)
  BY <1>3 DEF Guard, Clean, Cleanup, MayFail
<1>4. CASE ~(PrepareJail(r) \/ Guard(r) \/ Clean(r))
  BY <1>4 DEF Step, hostVars, Anchor, Preflight, SnapshotBefore, LaunchRow, FailRow, StartGuest,
     Launched, LaunchFails, GuestChecks, Put, Take, Stage, ReadStaged, BlobGone, Inspect,
     Dispose, ChecksFail, Stop, Checked, StopRow, SnapshotAfter, HostRow, Result, Final
<1> QED BY <1>2, <1>3, <1>4

\* A step of a request writes no pid file of another's jail.
LEMMA OthersPids ==
  ASSUME TypeOK, DistinctJails, NEW r \in Req, NEW s \in Req, r # s, NEW k \in Kind, Step(r)
  PROVE  pidFile'[JailOf[<<s, k>>]] = pidFile[JailOf[<<s, k>>]]
<1>1. JailOf[<<s, k>>] # Cell(r) /\ JailOf[<<s, k>>] \in Jail
  BY ProveAssumption DEF ProveAssumption, TypeOK, RunTypeOK, DistinctJails, Cell, At
<1>2. CASE PrepareJail(r) \/ StartGuest(r)
  BY <1>1, <1>2 DEF PrepareJail, StartGuest, TypeOK, HostTypeOK
<1>3. CASE ~(PrepareJail(r) \/ StartGuest(r))
  BY <1>3 DEF Step, hostVars, Anchor, Preflight, SnapshotBefore, LaunchRow, FailRow, Launched,
     LaunchFails, Guard, GuestChecks, Put, Take, Stage, ReadStaged, BlobGone, Inspect, Dispose,
     ChecksFail, Stop, Clean, Checked, StopRow, SnapshotAfter, HostRow, Result, Final
<1> QED BY <1>2, <1>3

\* A step of a request keeps its own part of GoneInv.
LEMMA OwnGone ==
  ASSUME TypeOK, NEW r \in Req, GuestAt(r), RowAt(r), GoneAt(r), Step(r)
  PROVE  GoneAt(r)'
<1> USE SameRows DEF TypeOK, HostTypeOK, RunTypeOK, hostVars, blobVars, callVars, runVars,
            GuestAt, RowAt, GoneAt, Gone, Quiet, Answered, Verdict
<1>1. CASE Anchor(r)
  BY <1>1 DEF Anchor, Return
<1>2. CASE Preflight(r)
  BY <1>2 DEF Preflight, Go, Fail
<1>3. CASE SnapshotBefore(r)
  BY <1>3 DEF SnapshotBefore, Go, Fail
<1>4. CASE LaunchRow(r)
  <2>1. CASE rows' = rows
    BY <1>4, <2>1 DEF LaunchRow, RowOrAbort, Record, Return
  <2>2. CASE rows' = [rows EXCEPT ![r] = Append(@, "Launch")]
    BY <1>4, <2>2, MoreRows DEF LaunchRow, RowOrAbort, Record, Return
  <2> QED BY <1>4, <2>1, <2>2 DEF LaunchRow, RowOrAbort, Record, Return
<1>5. CASE FailRow(r)
  <2>1. CASE rows' = rows
    BY <1>5, <2>1 DEF FailRow, Record, Return
  <2>2. CASE rows' = [rows EXCEPT ![r] = Append(@, "FailClosed")]
    BY <1>5, <2>2, MoreRows DEF FailRow, Record, Return
  <2> QED BY <1>5, <2>1, <2>2 DEF FailRow, Record, Return
<1>6. CASE PrepareJail(r)
  BY <1>6 DEF PrepareJail, Go, At, Cell
<1>7. CASE StartGuest(r)
  BY <1>7 DEF StartGuest, Go, At, Cell
<1>8. CASE Launched(r)
  BY <1>8 DEF Launched, Go
<1>9. CASE LaunchFails(r)
  BY <1>9 DEF LaunchFails
<1>10. CASE Guard(r)
  BY <1>10 DEF Guard, GuardKills, Cleanup, MayFail, Fail, ChecksReturn, At, Cell
<1>11. CASE GuestChecks(r)
  BY <1>11 DEF GuestChecks, Go
<1>12. CASE Put(r)
  BY <1>12 DEF Put, Go
<1>13. CASE Take(r)
  BY <1>13 DEF Take, Go
<1>14. CASE Stage(r)
  BY <1>14 DEF Stage, Go
<1>15. CASE ReadStaged(r)
  BY <1>15 DEF ReadStaged, Go
<1>16. CASE BlobGone(r)
  BY <1>16 DEF BlobGone, ChecksReturn
<1>17. CASE Inspect(r)
  BY <1>17 DEF Inspect, Go
<1>18. CASE Dispose(r)
  BY <1>18 DEF Dispose, MayFail, ChecksReturn
<1>19. CASE ChecksFail(r)
  BY <1>19 DEF ChecksFail, ChecksReturn
<1>20. CASE Stop(r)
  BY <1>20 DEF Stop, Go, At, Cell
<1>21. CASE Clean(r)
  BY <1>21 DEF Clean, Cleanup, MayFail, At, Cell
<1>22. CASE Checked(r)
  BY <1>22 DEF Checked
<1>23. CASE StopRow(r)
  <2>1. CASE rows' = rows
    BY <1>23, <2>1 DEF StopRow, RowOrAbort, Record, Return, Fail
  <2>2. CASE rows' = [rows EXCEPT ![r] = Append(@, "Teardown")]
    BY ZenonT(60), <1>23, <2>2, MoreRows DEF StopRow, RowOrAbort, Record, Return, Fail
  <2> QED BY <1>23, <2>1, <2>2 DEF StopRow, RowOrAbort, Record, Return, Fail
<1>24. CASE SnapshotAfter(r)
  BY <1>24 DEF SnapshotAfter, Fail, HygieneHolds
<1>25. CASE HostRow(r)
  <2>1. CASE rows' = rows
    BY <1>25, <2>1 DEF HostRow, RowOrAbort, Record, Return
  <2>2. CASE rows' = [rows EXCEPT ![r] = Append(@, "HostUntouched")]
    BY <1>25, <2>2, MoreRows DEF HostRow, RowOrAbort, Record, Return
  <2> QED BY <1>25, <2>1, <2>2 DEF HostRow, RowOrAbort, Record, Return
<1>26. CASE Result(r)
  <2>1. CASE rows' = rows
    BY <1>26, <2>1 DEF Result, RowOrAbort, Record, Return, Fail
  <2>2. CASE rows' = [rows EXCEPT ![r] = Append(@, "Prove")]
    BY <1>26, <2>2, MoreRows DEF Result, RowOrAbort, Record, Return, Fail
  <2> QED BY <1>26, <2>1, <2>2 DEF Result, RowOrAbort, Record, Return, Fail
<1>27. CASE Final(r)
  BY <1>27 DEF Final, Return
<1> QED BY <1>1, <1>2, <1>3, <1>4, <1>5, <1>6, <1>7, <1>8, <1>9, <1>10, <1>11, <1>12, <1>13,
       <1>14, <1>15, <1>16, <1>17, <1>18, <1>19, <1>20, <1>21, <1>22, <1>23, <1>24, <1>25, <1>26,
       <1>27 DEF Step

\* The parts of the invariant that speak of one request at a time.
LEMMA InvStep ==
  TypeOK /\ BoxInv /\ GuestInv /\ RowInv /\ [Next]_vars
    => BoxInv' /\ GuestInv' /\ RowInv'
<1> SUFFICES ASSUME TypeOK, BoxInv, GuestInv, RowInv, [Next]_vars, NEW s \in Req
             PROVE  BoxAt(s)' /\ GuestAt(s)' /\ RowAt(s)'
  BY DEF BoxInv, GuestInv, RowInv
<1>0. BoxAt(s) /\ GuestAt(s) /\ RowAt(s)
  BY DEF BoxInv, GuestInv, RowInv
<1>1. ASSUME NEW r \in Req, Step(r)
      PROVE  BoxAt(s)' /\ GuestAt(s)' /\ RowAt(s)'
  <2>1. CASE r = s
    BY <1>0, <1>1, <2>1, OwnBox, OwnGuest, OwnRow
  <2>2. CASE r # s
    BY <1>0, <1>1, <2>2, OthersStay DEF BoxAt, GuestAt, RowAt, Recorded
  <2> QED BY <2>1, <2>2
<1>2. ASSUME NEW r \in Req, Request(r)
      PROVE  BoxAt(s)' /\ GuestAt(s)' /\ RowAt(s)'
  BY <1>0, <1>2 DEF Request, Go, hostVars, runVars, TypeOK, BoxAt, GuestAt, RowAt, Recorded,
     Quiet, Launching, Checking, Inspecting, Closing, Answered
<1>3. ASSUME NEW p \in Proc, Crash(p)
      PROVE  BoxAt(s)' /\ GuestAt(s)' /\ RowAt(s)'
  BY <1>0, <1>3 DEF Crash, Active, hostVars, runVars, TypeOK, BoxAt, GuestAt, RowAt, Recorded,
     Quiet, Launching, Checking, Inspecting, Closing, Answered
<1>4. ASSUME NEW g \in Guest, GuestEnds(g)
      PROVE  BoxAt(s)' /\ GuestAt(s)' /\ RowAt(s)'
  BY <1>0, <1>4 DEF GuestEnds, runVars, BoxAt, GuestAt, RowAt, Recorded
<1>5. CASE UNCHANGED vars
  BY <1>0, <1>5 DEF vars, BoxAt, GuestAt, RowAt, Recorded
<1> QED BY <1>1, <1>2, <1>3, <1>4, <1>5 DEF Next

\* No step of any call makes a pid file name the wrong guest, or lets a main guest
\* outlive a teardown whose kills arrive.
LEMMA StoppedStep ==
  TypeOK /\ BoxInv /\ GuestInv /\ StoppedInv /\ [Next]_vars => StoppedInv'
<1> SUFFICES ASSUME TypeOK, BoxInv, GuestInv, StoppedInv, [Next]_vars, DistinctJails,
                    NEW s \in Req
             PROVE  StoppedAt(s)'
  BY DEF StoppedInv
<1>0. BoxAt(s) /\ GuestAt(s) /\ StoppedAt(s) /\ faults' = faults
  BY DEF BoxInv, GuestInv, StoppedInv, Next, fixed, vars
<1>1. ASSUME NEW r \in Req, Step(r) PROVE StoppedAt(s)'
  <2>1. CASE r = s
    BY <1>0, <1>1, <2>1, OwnStopped
  <2>2. CASE r # s
    BY <1>0, <1>1, <2>2, OthersStay, OthersPids DEF StoppedAt
  <2> QED BY <2>1, <2>2
<1>2. ASSUME NEW r \in Req, Request(r) PROVE StoppedAt(s)'
  BY <1>0, <1>2 DEF Request, Go, hostVars, runVars, TypeOK, StoppedAt
<1>3. ASSUME NEW p \in Proc, Crash(p) PROVE StoppedAt(s)'
  BY <1>0, <1>3 DEF Crash, hostVars, runVars, TypeOK, StoppedAt
<1>4. ASSUME NEW g \in Guest, GuestEnds(g) PROVE StoppedAt(s)'
  BY <1>0, <1>4 DEF GuestEnds, runVars, StoppedAt
<1>5. CASE UNCHANGED vars
  BY <1>0, <1>5 DEF vars, StoppedAt
<1> QED BY <1>1, <1>2, <1>3, <1>4, <1>5 DEF Next

\* A step of any call leaves what a call has found gone from the host gone.
LEMMA GoneStep ==
  TypeOK /\ GuestInv /\ RowInv /\ GoneInv /\ [Next]_vars => GoneInv'
<1> SUFFICES ASSUME TypeOK, GuestInv, RowInv, GoneInv, [Next]_vars, DistinctJails, NEW s \in Req
             PROVE  GoneAt(s)'
  BY DEF GoneInv
<1>0. GoneAt(s) /\ RowAt(s) /\ GuestAt(s)
  BY DEF GoneInv, RowInv, GuestInv
<1>1. ASSUME NEW r \in Req, Step(r) PROVE GoneAt(s)'
  <2>1. CASE r = s
    BY <1>0, <1>1, <2>1, OwnGone
  <2>2. CASE r # s
    <3>1. Gone(s) => Gone(s)'
      BY <1>1, <2>2, OthersStay, OthersDirs DEF Gone
    <3> QED BY <1>0, <1>1, <2>2, <3>1, OthersStay DEF GoneAt, Recorded
  <2> QED BY <2>1, <2>2
<1>2. ASSUME NEW r \in Req, Request(r) PROVE GoneAt(s)'
  BY <1>0, <1>2 DEF Request, Go, hostVars, runVars, TypeOK, GoneAt, Gone, Recorded, Quiet
<1>3. ASSUME NEW p \in Proc, Crash(p) PROVE GoneAt(s)'
  BY <1>0, <1>3 DEF Crash, hostVars, runVars, TypeOK, GoneAt, Gone, Recorded, Quiet
<1>4. ASSUME NEW g \in Guest, GuestEnds(g) PROVE GoneAt(s)'
  BY <1>0, <1>4 DEF GuestEnds, runVars, GoneAt, Gone, Recorded
<1>5. CASE UNCHANGED vars
  BY <1>0, <1>5 DEF vars, GoneAt, Gone, Recorded
<1> QED BY <1>1, <1>2, <1>3, <1>4, <1>5 DEF Next

----------------------------------------------------------------------------

\* Before any request, nothing runs and nothing is recorded.
LEMMA InitInv == Init => ProveInv
<1> SUFFICES ASSUME Init PROVE ProveInv
  OBVIOUS
<1>1. TypeOK
  <2>1. home \in [Req -> Proc] /\ faults \subseteq Fault
    BY ProveAssumption DEF Init, ProveAssumption
  <2> QED BY <2>1, StageNames DEF Init, TypeOK, HostTypeOK, RunTypeOK
<1>2. BoxInv /\ GuestInv /\ RowInv /\ GoneInv /\ StoppedInv
  BY DEF Init, BoxInv, GuestInv, RowInv, GoneInv, StoppedInv, BoxAt, GuestAt, RowAt, GoneAt,
     StoppedAt, Gone, Recorded, Quiet, Launching, Checking, Inspecting, Closing
<1> QED BY <1>1, <1>2 DEF ProveInv

\* Every variable of Prove keeps its type.
THEOREM ProveTypeCorrect == Spec => []TypeOK
<1>1. Init => TypeOK
  BY InitInv DEF ProveInv
<1> QED BY <1>1, TypeStep, PTL DEF Spec

\* The inductive invariant of Prove.
THEOREM ProveInvariant == Spec => []ProveInv
<1>1. ProveInv /\ [Next]_vars => ProveInv'
  BY TypeStep, InvStep, GoneStep, StoppedStep DEF ProveInv
<1> QED BY <1>1, InitInv, PTL DEF Spec

\* A Prove row on the chain means that the checks passed and that no guest and no
\* jail directory of that call is left on the host, for good.
THEOREM ProveRowMeansGone == Spec => []ProvedMeansGone
<1>1. ProveInv => ProvedMeansGone
  BY DEF ProveInv, RowInv, RowAt, GoneInv, GoneAt, ProvedMeansGone
<1> QED BY <1>1, ProveInvariant, PTL

\* No guest runs whose call has no Launch row on the chain.
THEOREM GuestsAreOnRecord == Spec => []GuestOnRecord
<1>1. ProveInv => GuestOnRecord
  BY DEF ProveInv, RowInv, RowAt, GuestOnRecord
<1> QED BY <1>1, ProveInvariant, PTL

\* As long as kills arrive, a call never has its main guest and its inspector's
\* guest running at once: the pid file of its jail names the one to end.
THEOREM SingleGuest == Spec => []OneGuestAtATime
<1>1. ProveInv => OneGuestAtATime
  BY DEF ProveInv, GuestInv, GuestAt, StoppedInv, StoppedAt, OneGuestAtATime
<1> QED BY <1>1, ProveInvariant, PTL
=============================================================================

-------------------------- MODULE ProveAnswerProofs --------------------------
(* Proofs about Prove: what a call's rows and its exit code say of it. *)
EXTENDS ProveProofs, SequenceTheorems

\* The story grows by one row at a time, to the end.
LEMMA StoryGrows ==
  /\ Append(Told(0), "Launch") = Told(1)
  /\ Append(Told(1), "Teardown") = Told(2)
  /\ Append(Told(2), "HostUntouched") = Told(3)
  /\ Append(Told(3), "Prove") = Told(4)
  /\ Told(0) = <<>>
  /\ Told(4) = Story
<1>1. Story \in Seq(Verdict) /\ Len(Story) = 4
  BY DEF Story, Verdict
<1>2. ASSUME NEW n \in 0..4
      PROVE  /\ Told(n) \in Seq(Verdict) /\ Len(Told(n)) = n
             /\ \A i \in 1..n : Told(n)[i] = Story[i]
  <2>1. \A i \in 1..n : Story[i] \in Verdict
    <3>1. \A i \in 1..n : i \in 1..4
      OBVIOUS
    <3> QED BY <1>1, <3>1, ElementOfSeq
  <2>2. /\ SubSeq(Story, 1, n) \in Seq(Verdict)
        /\ Len(SubSeq(Story, 1, n)) = IF 1 <= n THEN n - 1 + 1 ELSE 0
        /\ \A i \in 1..n - 1 + 1 : SubSeq(Story, 1, n)[i] = Story[1 + i - 1]
    BY <2>1, SubSeqProperties, 1 \in Int, n \in Int
  <2>3. Len(Told(n)) = n
    BY <2>2 DEF Told
  <2>4. \A i \in 1..n : Told(n)[i] = Story[i]
    BY <2>2 DEF Told
  <2> QED BY <2>2, <2>3, <2>4 DEF Told
<1>3. ASSUME NEW n \in 0..3 PROVE Append(Told(n), Story[n + 1]) = Told(n + 1)
  <2>1. n \in 0..4 /\ n + 1 \in 0..4 /\ n + 1 \in 1..4
    OBVIOUS
  <2>7. Story[n + 1] \in Verdict
    BY <1>1, <2>1, ElementOfSeq
  <2> DEFINE more == Append(Told(n), Story[n + 1])
  <2>2. /\ Told(n) \in Seq(Verdict) /\ Len(Told(n)) = n
        /\ Told(n + 1) \in Seq(Verdict) /\ Len(Told(n + 1)) = n + 1
    BY <1>2, <2>1
  <2>3. \A i \in 1..n + 1 : Told(n + 1)[i] = Story[i]
    BY <1>2, <2>1
  <2>4. \A i \in 1..n : Told(n)[i] = Story[i]
    BY <1>2, <2>1
  <2>5. more \in Seq(Verdict) /\ Len(more) = n + 1
    BY <2>1, <2>2, <2>7
  <2>6. \A i \in 1..n + 1 : more[i] = Told(n + 1)[i]
    BY <2>1, <2>2, <2>3, <2>4, <2>7
  <2> QED BY <2>2, <2>5, <2>6, SeqEqual
<1>4. /\ Story[1] = "Launch" /\ Story[2] = "Teardown"
      /\ Story[3] = "HostUntouched" /\ Story[4] = "Prove"
  BY DEF Story
<1>5. Told(0) = <<>>
  BY SubSeqEmpty DEF Told
<1>6. Told(4) = Story
  BY <1>1, SubSeqFull DEF Told
<1>7. /\ Append(Told(0), Story[0 + 1]) = Told(0 + 1)
      /\ Append(Told(1), Story[1 + 1]) = Told(1 + 1)
      /\ Append(Told(2), Story[2 + 1]) = Told(2 + 1)
      /\ Append(Told(3), Story[3 + 1]) = Told(3 + 1)
  BY <1>3
<1> QED BY <1>4, <1>5, <1>6, <1>7

\* A row that is recorded is the last one.
LEMMA OneMoreRow ==
  ASSUME TypeOK, NEW r \in Req, NEW v \in Verdict,
         rows' = [rows EXCEPT ![r] = Append(@, v)]
  PROVE  /\ rows'[r] = Append(rows[r], v)
         /\ Ends(r, v)'
<1>1. rows[r] \in Seq(Verdict) /\ rows'[r] = Append(rows[r], v)
  BY DEF TypeOK
<1>2. Len(rows'[r]) = Len(rows[r]) + 1 /\ rows'[r][Len(rows[r]) + 1] = v /\ Len(rows[r]) \in Nat
  BY <1>1
<1>3. rows'[r] # <<>>
  BY <1>1, <1>2
<1> QED BY <1>1, <1>2, <1>3 DEF Ends, Last

\* The whole story ends with Prove.
LEMMA StoryEnds ==
  ASSUME NEW r \in Req, rows[r] = Told(4)
  PROVE  rows[r] # <<>> /\ Ends(r, "Prove")
BY StoryGrows DEF Story, Ends, Last

\* A step of a request keeps its own part of StoryInv.
LEMMA OwnStory ==
  ASSUME TypeOK, NEW r \in Req, StoryAt(r), Step(r), faults' = faults
  PROVE  StoryAt(r)'
<1> USE DEF TypeOK, HostTypeOK, RunTypeOK, hostVars, blobVars, callVars, runVars,
            StoryAt, Quiet, Answered, Launching, Checking, Inspecting, Closing, Verdict
<1>1. CASE Anchor(r)
  BY <1>1, StoryGrows DEF Anchor, Return
<1>2. CASE Preflight(r)
  BY <1>2 DEF Preflight, Go, Fail
<1>3. CASE SnapshotBefore(r)
  BY <1>3 DEF SnapshotBefore, Go, Fail
<1>4. CASE LaunchRow(r)
  <2>1. CASE rows' = rows
    BY <1>4, <2>1 DEF LaunchRow, RowOrAbort, Record, Return
  <2>2. CASE rows' = [rows EXCEPT ![r] = Append(@, "Launch")]
    <3>1. rows'[r] = Append(rows[r], "Launch") /\ Ends(r, "Launch")'
      BY <2>2, OneMoreRow
    <3>2. /\ pc[r] = "launchRow" /\ code'[r] \in {code[r], 1}
          /\ pc'[r] \in {"boot", "answered"}
          /\ pc'[r] = "answered" => code'[r] = 1 /\ "append" \in faults
      BY <1>4 DEF LaunchRow, RowOrAbort, Return
    <3> QED BY SMTT(30), <3>1, <3>2, StoryGrows
  <2> QED BY <1>4, <2>1, <2>2 DEF LaunchRow, RowOrAbort, Record, Return
<1>5. CASE FailRow(r)
  <2>1. CASE rows' = rows
    BY <1>5, <2>1 DEF FailRow, Record, Return
  <2>2. CASE rows' = [rows EXCEPT ![r] = Append(@, "FailClosed")]
    <3>1. rows'[r] = Append(rows[r], "FailClosed") /\ Ends(r, "FailClosed")'
      BY <2>2, OneMoreRow
    <3>2. /\ pc[r] = "failRow" /\ code'[r] \in {code[r], 1}
          /\ pc' \in {[pc EXCEPT ![r] = x] : x \in {"answered"}}
      BY <1>5 DEF FailRow, Return
    <3> QED BY <3>1, <3>2
  <2> QED BY <1>5, <2>1, <2>2 DEF FailRow, Record, Return
<1>6. CASE PrepareJail(r)
  BY <1>6 DEF PrepareJail, Go
<1>7. CASE StartGuest(r)
  BY <1>7 DEF StartGuest, Go
<1>8. CASE Launched(r)
  BY <1>8 DEF Launched, Go
<1>9. CASE LaunchFails(r)
  BY <1>9 DEF LaunchFails
<1>10. CASE Guard(r)
  BY <1>10 DEF Guard, GuardKills, Cleanup, MayFail, Fail, ChecksReturn
<1>11. CASE GuestChecks(r)
  BY <1>11 DEF GuestChecks, Go
<1>12. CASE Put(r)
  BY <1>12 DEF Put, Go
<1>13. CASE Take(r)
  BY <1>13 DEF Take, Go
<1>14. CASE Stage(r)
  BY <1>14 DEF Stage, Go
<1>15. CASE ReadStaged(r)
  BY <1>15 DEF ReadStaged, Go
<1>16. CASE BlobGone(r)
  BY <1>16 DEF BlobGone, ChecksReturn
<1>17. CASE Inspect(r)
  BY <1>17 DEF Inspect, Go
<1>18. CASE Dispose(r)
  BY <1>18 DEF Dispose, MayFail, ChecksReturn
<1>19. CASE ChecksFail(r)
  BY <1>19 DEF ChecksFail, ChecksReturn
<1>20. CASE Stop(r)
  BY <1>20 DEF Stop, Go
<1>21. CASE Clean(r)
  BY <1>21 DEF Clean, Cleanup, MayFail
<1>22. CASE Checked(r)
  BY <1>22 DEF Checked
<1>23. CASE StopRow(r)
  <2>1. CASE rows' = rows
    BY <1>23, <2>1 DEF StopRow, RowOrAbort, Record, Return, Fail
  <2>2. CASE rows' = [rows EXCEPT ![r] = Append(@, "Teardown")]
    <3>1. rows'[r] = Append(rows[r], "Teardown") /\ Ends(r, "Teardown")'
      BY <2>2, OneMoreRow
    <3>2. /\ pc[r] = "stopRow" /\ code'[r] \in {code[r], 1}
          /\ pc'[r] \in {"after", "failRow", "answered"}
          /\ pc'[r] = "failRow" => code'[r] = 1
          /\ pc'[r] = "answered" => code'[r] = 1 /\ "append" \in faults
      BY <1>23 DEF StopRow, RowOrAbort, Return, Fail
    <3>3. rows'[r] = Told(2)
      BY <3>1, <3>2, StoryGrows
    <3>4. pc'[r] \notin Quiet \cup Launching \cup Checking \cup Inspecting
                        \cup {"checked", "stop", "clean", "stopRow"}
      BY <3>2
    <3> QED BY <3>2, <3>3, <3>4
  <2> QED BY <1>23, <2>1, <2>2 DEF StopRow, RowOrAbort, Record, Return, Fail
<1>24. CASE SnapshotAfter(r)
  BY <1>24 DEF SnapshotAfter, Fail
<1>25. CASE HostRow(r)
  <2>1. CASE rows' = rows
    BY <1>25, <2>1 DEF HostRow, RowOrAbort, Record, Return
  <2>2. CASE rows' = [rows EXCEPT ![r] = Append(@, "HostUntouched")]
    <3>1. rows'[r] = Append(rows[r], "HostUntouched") /\ Ends(r, "HostUntouched")'
      BY <2>2, OneMoreRow
    <3>2. /\ pc[r] = "hostRow" /\ code'[r] \in {code[r], 1}
          /\ pc'[r] \in {"result", "answered"}
          /\ pc'[r] = "answered" => code'[r] = 1 /\ "append" \in faults
      BY <1>25 DEF HostRow, RowOrAbort, Return
    <3>3. rows'[r] = Told(3)
      BY <3>1, <3>2, StoryGrows
    <3>4. pc'[r] \notin Quiet \cup Launching \cup Checking \cup Inspecting
                        \cup {"checked", "stop", "clean", "stopRow"}
      BY <3>2
    <3> QED BY <3>2, <3>3, <3>4
  <2> QED BY <1>25, <2>1, <2>2 DEF HostRow, RowOrAbort, Record, Return
<1>26. CASE Result(r)
  <2>1. CASE rows' = rows
    BY <1>26, <2>1 DEF Result, RowOrAbort, Record, Return, Fail
  <2>2. CASE rows' = [rows EXCEPT ![r] = Append(@, "Prove")]
    <3>1. rows'[r] = Append(rows[r], "Prove") /\ Ends(r, "Prove")'
      BY <2>2, OneMoreRow
    <3>2. /\ pc[r] = "result" /\ code'[r] \in {code[r], 1}
          /\ pc'[r] \in {"final", "failRow", "answered"}
          /\ pc'[r] = "failRow" => code'[r] = 1
          /\ pc'[r] = "answered" => code'[r] = 1 /\ "append" \in faults
      BY <1>26 DEF Result, RowOrAbort, Return, Fail
    <3>3. rows'[r] = Told(4)
      BY <3>1, <3>2, StoryGrows
    <3>4. pc'[r] \notin Quiet \cup Launching \cup Checking \cup Inspecting
                        \cup {"checked", "stop", "clean", "stopRow"}
      BY <3>2
    <3> QED BY <3>2, <3>3, <3>4
  <2> QED BY <1>26, <2>1, <2>2 DEF Result, RowOrAbort, Record, Return, Fail
<1>27. CASE Final(r)
  BY <1>27, StoryEnds DEF Final, Return, Ends
<1> QED BY <1>1, <1>2, <1>3, <1>4, <1>5, <1>6, <1>7, <1>8, <1>9, <1>10, <1>11, <1>12, <1>13,
       <1>14, <1>15, <1>16, <1>17, <1>18, <1>19, <1>20, <1>21, <1>22, <1>23, <1>24, <1>25, <1>26,
       <1>27 DEF Step

\* What every request has recorded, and what it told its client.
LEMMA StoryStep == TypeOK /\ StoryInv /\ [Next]_vars => StoryInv'
<1> SUFFICES ASSUME TypeOK, StoryInv, [Next]_vars, NEW s \in Req PROVE StoryAt(s)'
  BY DEF StoryInv
<1>0. StoryAt(s)
  BY DEF StoryInv
<1>1. ASSUME NEW r \in Req, Step(r), faults' = faults PROVE StoryAt(s)'
  <2>1. CASE r = s
    BY <1>0, <1>1, <2>1, OwnStory
  <2>2. CASE r # s
    <3>1. code'[s] = code[s]
      BY <1>1, <2>2, CodeStep DEF TypeOK
    <3> QED BY <1>0, <1>1, <2>2, <3>1, OthersStay DEF StoryAt, Ends
  <2> QED BY <2>1, <2>2
<1>2. ASSUME NEW r \in Req, Request(r), faults' = faults PROVE StoryAt(s)'
  BY <1>0, <1>2 DEF Request, Go, TypeOK, StoryAt, Ends,
     Quiet, Launching, Checking, Inspecting, Closing
<1>3. ASSUME NEW p \in Proc, Crash(p), faults' = faults PROVE StoryAt(s)'
  BY <1>0, <1>3 DEF Crash, callVars, TypeOK, StoryAt, Ends,
     Quiet, Launching, Checking, Inspecting, Closing
<1>4. ASSUME NEW g \in Guest, GuestEnds(g), faults' = faults PROVE StoryAt(s)'
  BY <1>0, <1>4 DEF GuestEnds, callVars, StoryAt, Ends
<1>5. CASE UNCHANGED vars
  BY <1>0, <1>5 DEF vars, StoryAt, Ends
<1> QED BY <1>1, <1>2, <1>3, <1>4, <1>5 DEF Next, fixed

\* The rows of a call tell the story of prove::run up to where the call is, and the
\* exit code it has is the one of that story, whatever other calls do.
THEOREM StoryInvariant == Spec => []StoryInv
<1>1. Init => StoryInv
  BY StoryGrows DEF Init, StoryInv, StoryAt, Quiet, Launching, Checking, Inspecting, Closing
<1> QED BY <1>1, StoryStep, ProveTypeCorrect, PTL DEF Spec

\* Exit code 0 is told only with the whole story on the chain, and 2, blocked, only
\* with a FailClosed row.
THEOREM RowsBearTheAnswerOut == Spec => []AnswerBorneOut
<1>1. StoryInv => AnswerBorneOut
  BY StoryGrows DEF StoryInv, StoryAt, AnswerBorneOut
<1> QED BY <1>1, StoryInvariant, PTL

\* Unless an append failed, the last row of a call that returned is Prove or FailClosed.
THEOREM NoLaunchLeftOpen == Spec => []LaunchClosed
<1>1. StoryInv => LaunchClosed
  BY DEF StoryInv, StoryAt, LaunchClosed
<1> QED BY <1>1, StoryInvariant, PTL

\* The row a story ends with is recorded.
LEMMA LastIsRecorded ==
  ASSUME TypeOK, NEW r \in Req, NEW v, Ends(r, v)
  PROVE  Recorded(r, v)
<1>1. rows[r] \in Seq(Verdict) /\ rows[r] # <<>>
  BY DEF TypeOK, Ends
<1>2. Len(rows[r]) \in 1..Len(rows[r])
  BY <1>1
<1> QED BY <1>2 DEF Recorded, Ends, Last

\* What a call that returned has left running is on record: an exit code that is
\* not 0 and, where the append did not fail, a FailClosed row.
THEOREM NoSilentLeak == Spec => []LeakOnRecord
<1>1. ProveInv /\ StoryInv => LeakOnRecord
  <2> SUFFICES ASSUME ProveInv, StoryInv, NEW r \in Req, NEW k \in Kind,
                      <<r, k>> \in live, pc[r] = "answered"
               PROVE  code[r] # 0 /\ ("append" \in faults \/ Ends(r, "FailClosed"))
    BY DEF LeakOnRecord
  <2>1. TypeOK /\ ~Recorded(r, "Prove") /\ Recorded(r, "Launch") /\ StoryAt(r)
    BY DEF ProveInv, GuestInv, GuestAt, RowInv, RowAt, StoryInv
  <2>2. ~Ends(r, "Prove")
    BY <2>1, LastIsRecorded
  <2>3. rows[r] # <<>>
    BY <2>1 DEF Recorded
  <2> QED BY <2>1, <2>2, <2>3, StoryEnds DEF StoryAt
<1> QED BY <1>1, ProveInvariant, StoryInvariant, PTL

----------------------------------------------------------------------------
(* A call that no other call overlaps *)

\* A request that takes a step is at work; it meets nobody new, and does not die of it.
LEMMA AtWork ==
  ASSUME TypeOK, NEW r \in Req, Step(r)
  PROVE  r \in Active /\ met' = met /\ pc'[r] \notin {"dead", "idle"}
<1>1. pc[r] \notin Answered \cup {"idle"}
  BY DEF Step, Answered, Go, RowOrAbort, Anchor, Preflight, SnapshotBefore, LaunchRow, FailRow,
     PrepareJail, StartGuest, Launched, LaunchFails, Guard, GuestChecks, Put, Take, Stage,
     ReadStaged, BlobGone, Inspect, Dispose, ChecksFail, Stop, Clean, Checked, StopRow,
     SnapshotAfter, HostRow, Result, Final
<1>2. met' = met
  BY DEF Step, callVars, Anchor, Preflight, SnapshotBefore, LaunchRow, FailRow,
     PrepareJail, StartGuest, Launched, LaunchFails, Guard, GuestChecks, Put, Take, Stage,
     ReadStaged, BlobGone, Inspect, Dispose, ChecksFail, Stop, Clean, Checked, StopRow,
     SnapshotAfter, HostRow, Result, Final
<1>3. pc'[r] \notin {"dead", "idle"}
  BY DEF TypeOK, Step, Go, RowOrAbort, Return, Fail, ChecksReturn, Anchor, Preflight,
     SnapshotBefore, LaunchRow, FailRow,
     PrepareJail, StartGuest, Launched, LaunchFails, Guard, GuestChecks, Put, Take, Stage,
     ReadStaged, BlobGone, Inspect, Dispose, ChecksFail, Stop, Clean, Checked, StopRow,
     SnapshotAfter, HostRow, Result, Final
<1> QED BY <1>1, <1>2, <1>3 DEF Active

\* A step of a request that is alone, when nothing fails, keeps it on course.
LEMMA OwnAlone ==
  ASSUME TypeOK, NEW r \in Req, BoxAt(r), StoryAt(r), AloneAt(r), Step(r),
         faults = {}, ~AllowGenesis, PriorRows > 0, home' = home,
         \A s \in Req : pc[s] # "dead"
  PROVE  AloneAt(r)'
<1>a. r \in Active' => Active' = {r}
  <2>1. Active = {r}
    BY AtWork DEF AloneAt
  <2>2. \A s \in Req : s # r => pc'[s] = pc[s]
    BY OthersStay
  <2> QED BY <2>1, <2>2 DEF Active
<1>b. ~SharedGoing(r)
  <2>1. Active = {r}
    BY AtWork DEF AloneAt
  <2> QED BY <2>1 DEF SharedGoing, Active, Answered
<1>c. rows[r] = <<>> => pc[r] # "final"
  BY StoryEnds DEF StoryAt
<1> USE <1>a, <1>b, <1>c
    DEF TypeOK, HostTypeOK, RunTypeOK, hostVars, blobVars, callVars, runVars,
        BoxAt, AloneAt, Cell, At, Quiet, Launching, Checking, Inspecting, Closing
<1>1. CASE Anchor(r)
  BY <1>1 DEF Anchor, Return, AnchorHolds, ChainEmpty
<1>2. CASE Preflight(r)
  BY <1>2 DEF Preflight, Go, Fail
<1>3. CASE SnapshotBefore(r)
  BY <1>3 DEF SnapshotBefore, Go, Fail
<1>4. CASE LaunchRow(r)
  BY <1>4 DEF LaunchRow, RowOrAbort, Return
<1>5. CASE FailRow(r)
  BY <1>5 DEF FailRow
<1>6. CASE PrepareJail(r)
  BY <1>6 DEF PrepareJail, Go
<1>7. CASE StartGuest(r)
  <2>1. pc[r] = "exec" /\ pc'[r] = "api" /\ UNCHANGED <<dirs, box, cleaned, checks, before, staged, shelf>>
    BY <1>7 DEF StartGuest, Go
  <2>2. At(r) \in Guest /\ Cell(r) \in Jail /\ At(r)' = At(r) /\ Cell(r)' = Cell(r)
    BY <2>1, ProveAssumption DEF ProveAssumption, Guest
  <2>3. /\ live' \subseteq before[r].guests \cup {At(r)} /\ At(r) \in live'
        /\ pidFile'[Cell(r)] = At(r)
    <3>1. live \subseteq before[r].guests
      BY <2>1
    <3>2. live' = live \cup {At(r)} /\ pidFile' = [pidFile EXCEPT ![Cell(r)] = At(r)]
      BY <1>7 DEF StartGuest
    <3> HIDE DEF At, Cell
    <3> QED BY <2>2, <3>1, <3>2
  <2>4. before'[r] = before[r]
    BY <2>1
  <2>5. dirs' \subseteq before[r].dirs \cup {Cell(r)} /\ checks'[r] = "none" /\ (box'[r] = "insp" => cleaned'[r])
    BY <2>1
  <2>6. home'[r] = home[r] /\ pc'[r] \notin {"answered", "read", "idle"}
    BY <2>1
  <2> HIDE DEF At, Cell
  <2> QED BY SMTT(30), <2>1, <2>2, <2>3, <2>4, <2>5, <2>6
<1>8. CASE Launched(r)
  BY <1>8 DEF Launched, Go
<1>9. CASE LaunchFails(r)
  BY <1>9 DEF LaunchFails
<1>10. CASE Guard(r)
  BY <1>10 DEF Guard
<1>11. CASE GuestChecks(r)
  BY <1>11 DEF GuestChecks, Go
<1>12. CASE Put(r)
  BY <1>12 DEF Put, Go
<1>13. CASE Take(r)
  BY <1>13 DEF Take, Go
<1>14. CASE Stage(r)
  BY <1>14 DEF Stage, Go
<1>15. CASE ReadStaged(r)
  BY <1>15 DEF ReadStaged, Go
<1>16. CASE BlobGone(r)
  BY <1>16 DEF BlobGone
<1>17. CASE Inspect(r)
  BY <1>17 DEF Inspect, Go
<1>18. CASE Dispose(r)
  BY <1>18 DEF Dispose, MayFail, ChecksReturn
<1>19. CASE ChecksFail(r)
  BY <1>19 DEF ChecksFail
<1>20. CASE Stop(r)
  <2>1. pc[r] = "stop" /\ pc'[r] = "clean"
        /\ UNCHANGED <<dirs, box, cleaned, checks, before, staged, shelf, stopped>>
    BY <1>20 DEF Stop, Go
  <2>2. At(r)' = At(r) /\ Cell(r)' = Cell(r) /\ before'[r] = before[r]
    BY <2>1
  <2>3. pidFile[Cell(r)] = At(r) /\ live \subseteq before[r].guests \cup {At(r)}
    BY <2>1
  <2>4. live' \subseteq before[r].guests
    <3> HIDE DEF TypeOK, HostTypeOK, RunTypeOK, BoxAt, AloneAt, At, Cell
    <3>1. PICK hit : pidFile[Cell(r)] \in hit /\ live' = live \ hit
      BY <1>20 DEF Stop
    <3> QED BY <2>3, <3>1
  <2>5. dirs' \subseteq before[r].dirs \cup {Cell(r)} /\ checks'[r] = "none"
        /\ (box'[r] = "insp" => cleaned'[r]) /\ (box'[r] = "main" => r \in staged')
    BY <2>1
  <2> HIDE DEF At, Cell
  <2> QED BY SMTT(30), <2>1, <2>2, <2>4, <2>5
<1>21. CASE Clean(r)
  BY <1>21 DEF Clean, Cleanup, MayFail
<1>22. CASE Checked(r)
  BY <1>22 DEF Checked
<1>23. CASE StopRow(r)
  BY <1>23 DEF StopRow, RowOrAbort, Return, Fail
<1>24. CASE SnapshotAfter(r)
  BY <1>24 DEF SnapshotAfter, Fail, HygieneHolds
<1>25. CASE HostRow(r)
  BY <1>25 DEF HostRow, RowOrAbort, Return
<1>26. CASE Result(r)
  BY <1>26 DEF Result, RowOrAbort, Return, Fail
<1>27. CASE Final(r)
  BY <1>27 DEF Final, Return
<1> QED BY <1>1, <1>2, <1>3, <1>4, <1>5, <1>6, <1>7, <1>8, <1>9, <1>10, <1>11, <1>12, <1>13,
       <1>14, <1>15, <1>16, <1>17, <1>18, <1>19, <1>20, <1>21, <1>22, <1>23, <1>24, <1>25, <1>26,
       <1>27 DEF Step

\* Only a request that met nobody is spoken of: a step of another one means that it
\* is not at work, and a request that comes in while it is at work meets it.
LEMMA AloneStep ==
  TypeOK /\ BoxInv /\ StoryInv /\ AloneInv /\ [Next]_vars => AloneInv'
<1> DEFINE Course(s) == /\ pc'[s] # "dead" /\ (pc'[s] = "idle" => met'[s] = {})
                        /\ met'[s] = {} => AloneAt(s)'
<1> SUFFICES ASSUME TypeOK, BoxInv, StoryInv, AloneInv, [Next]_vars,
                    faults' = {}, ~AllowGenesis, PriorRows > 0, NEW s \in Req
             PROVE  Course(s)
  BY DEF AloneInv
<1>0. faults = {} /\ UNCHANGED <<home, faults>>
  BY DEF Next, fixed, vars
<1>a. /\ \A q \in Req : /\ pc[q] # "dead" /\ (pc[q] = "idle" => met[q] = {})
                        /\ met[q] = {} => AloneAt(q)
      /\ BoxAt(s) /\ StoryAt(s)
  BY <1>0 DEF AloneInv, BoxInv, StoryInv
<1>1. ASSUME NEW r \in Req, Step(r)
      PROVE  Course(s)
  <2>0. r \in Active /\ met' = met /\ pc'[r] \notin {"dead", "idle"}
    BY <1>1, AtWork
  <2>1. CASE r = s
    BY <1>0, <1>a, <1>1, <2>0, <2>1, OwnAlone
  <2>2. CASE r # s
    <3>1. pc'[s] = pc[s] /\ cleaned'[s] = cleaned[s] /\ checks'[s] = checks[s] /\ box'[s] = box[s]
      BY <1>1, <2>2, OthersStay
    <3>2. code'[s] = code[s]
      BY <1>1, <2>2, CodeStep DEF TypeOK
    <3>3. met[s] = {} => s \notin Active
      BY <1>a, <2>0, <2>2 DEF AloneAt
    <3> QED BY <1>a, <2>0, <3>1, <3>2, <3>3 DEF AloneAt, Active, Answered, Checking, Quiet,
               Launching, Inspecting, Closing
  <2> QED BY <2>1, <2>2
<1>2. ASSUME NEW r \in Req, Request(r)
      PROVE  Course(s)
  <2>0. /\ pc[r] = "idle" /\ pc' = [pc EXCEPT ![r] = "anchor"]
        /\ UNCHANGED <<before, box, cleaned, checks, stopped, code>>
    BY <1>2 DEF Request, Go, runVars
  <2>1. CASE r = s
    <3>1. met'[s] = Active
      BY <1>2, <2>1 DEF Request
    <3>2. Active = {} => (s \in Active' => Active' = {s})
      BY <2>0, <2>1 DEF Active, TypeOK
    <3>3. pc'[s] = "anchor" /\ box[s] = "main"
      BY <1>a, <2>0, <2>1 DEF TypeOK, BoxAt, Quiet
    <3>4. checks[s] = "none"
      BY <1>a, <2>0, <2>1 DEF AloneAt, Quiet
    <3> QED BY <1>a, <2>0, <2>1, <3>1, <3>2, <3>3, <3>4 DEF AloneAt, Checking
  <2>2. CASE r # s
    <3>1. s \in Active => met'[s] = met[s] \cup {r}
      BY <1>2, <2>2 DEF Request
    <3>2. s \notin Active => met'[s] = met[s] /\ s \notin Active'
      BY <1>2, <2>0, <2>2 DEF Request, Active, TypeOK
    <3>3. pc'[s] = pc[s]
      BY <2>0, <2>2 DEF TypeOK
    <3> QED BY <1>a, <2>0, <3>1, <3>2, <3>3 DEF AloneAt, Active, Answered, Checking, Quiet,
               Launching, Inspecting, Closing
  <2> QED BY <2>1, <2>2
<1>3. ASSUME NEW p \in Proc, Crash(p)
      PROVE  FALSE
  BY <1>0, <1>3 DEF Crash
<1>4. ASSUME NEW g \in Guest, GuestEnds(g)
      PROVE  FALSE
  BY <1>0, <1>4 DEF GuestEnds
<1>5. CASE UNCHANGED vars
  BY <1>a, <1>5 DEF vars, AloneAt, Active, Cell, At
<1> QED BY <1>1, <1>2, <1>3, <1>4, <1>5 DEF Next

\* A call that has met no other and no fault finds the host as it left it at every
\* step, and every check of prove::run passes.
THEOREM AloneInvariant == Spec => []AloneInv
<1>1. Init => AloneInv
  BY DEF Init, AloneInv, AloneAt, Active, Quiet, Launching, Checking, Inspecting, Closing
<1>2. ProveInv /\ StoryInv /\ AloneInv /\ [Next]_vars => AloneInv'
  BY AloneStep DEF ProveInv
<1> QED BY <1>1, <1>2, ProveInvariant, StoryInvariant, PTL DEF Spec

\* A call that no other overlapped exits with 0 when nothing failed: on a manager
\* that requires an ancestor, over a chain that has a row.
THEOREM AloneCallSucceeds ==
  ASSUME ~AllowGenesis, PriorRows > 0
  PROVE  Spec => []AloneSucceeds
<1>1. AloneInv => AloneSucceeds
  BY DEF AloneInv, AloneAt, AloneSucceeds
<1> QED BY <1>1, AloneInvariant, PTL
=============================================================================

------------------------------- MODULE Prove -------------------------------
(***************************************************************************)
(* One prove call of crates/isolation-manager, from the request on the     *)
(* serve socket (serve.rs) through prove::run (prove.rs): launch a guest   *)
(* through the jailer helper (launch.rs), check it, hand its result to the *)
(* shelf, tear it down, launch and tear down the inspector guest           *)
(* (inspect_vm.rs), compare the host with its snapshot (host_snapshot.rs)  *)
(* and record each stage on the decision chain.  Several calls run at      *)
(* once: serve starts a thread per connection, and a second manager may    *)
(* run beside it.                                                          *)
(*                                                                         *)
(* Appends are atomic here and may fail: DecisionChain shows that they     *)
(* take effect at one instant.                                             *)
(***************************************************************************)
EXTENDS Naturals, Sequences, SequencesExt, FiniteSets

CONSTANTS
  Req, Proc,
  Jail, JailOf,       \* JailOf[g] is the jail id of guest g
  None,               \* the pid file of a jail names no guest
  AllowGenesis,       \* started with --allow-genesis, else with --require-ancestor
  PriorRows,          \* rows on the chain before these requests
  Settings            \* which process serves which request, and what may fail meanwhile

Kind == {"main", "insp"}
Guest == Req \X Kind

\* What may fail: appends, reads of the chain, steps on the host (a guest that
\* goes down among them), the kills of a teardown, a manager.
Fault == {"append", "read", "host", "kill", "crash"}

ASSUME ProveAssumption ==
  /\ JailOf \in [Guest -> Jail]
  /\ None \notin Guest
  /\ AllowGenesis \in BOOLEAN
  /\ Settings \subseteq [home : [Req -> Proc], faults : SUBSET Fault]
  /\ PriorRows \in Nat

VARIABLES
  home,      \* the manager process that serves each request; never changes
  faults,    \* what may fail in this behaviour; never changes
  pc,        \* the stage of each request
  rows,      \* the verdicts each request has recorded, in order
  live,      \* the guests that run
  dirs,      \* the jail directories on disk
  pidFile,   \* the guest firecracker.pid names in each jail
  shelf,     \* the processes whose handoff shelf holds the blob
  staged,    \* the requests whose stage directory holds the blob
  before,    \* the host snapshot taken before the launch
  box,       \* which of its two guests the request is at
  cleaned,   \* LaunchedVm::cleaned of the main guest
  checks,    \* what run_checks returned, "none" while it runs
  stopped,   \* what the teardown that prove::run looks at returned
  code,      \* the exit code, told to the client with the reply
  met        \* history: the requests served at the same time

vars == <<home, faults, pc, rows, live, dirs, pidFile, shelf, staged, before, box, cleaned,
          checks, stopped, code, met>>

fixed == <<home, faults>>
hostVars == <<live, dirs, pidFile>>
blobVars == <<shelf, staged>>
callVars == <<code, met>>
runVars == <<before, box, cleaned, checks, stopped>>

Answered == {"answered", "dead"}
Active == {r \in Req : pc[r] \notin Answered \cup {"idle"}}
At(r) == <<r, box[r]>>
Cell(r) == JailOf[At(r)]

Go(r, from, to) == pc[r] = from /\ pc' = [pc EXCEPT ![r] = to]

\* chain_append, when the append succeeds.
Record(r, verdict) == rows' = [rows EXCEPT ![r] = Append(@, verdict)]

\* What a call that may fail adds to its outcomes.
MayFail(what, outcome) == IF what \in faults THEN {outcome} ELSE {}

Init ==
  /\ \E s \in Settings : home = s.home /\ faults = s.faults
  /\ pc = [r \in Req |-> "idle"]
  /\ rows = [r \in Req |-> <<>>]
  /\ live = {}
  /\ dirs = {}
  /\ pidFile = [j \in Jail |-> None]
  /\ shelf = {}
  /\ staged = {}
  /\ before = [r \in Req |-> [guests |-> {}, dirs |-> {}]]
  /\ box = [r \in Req |-> "main"]
  /\ cleaned = [r \in Req |-> FALSE]
  /\ checks = [r \in Req |-> "none"]
  /\ stopped = [r \in Req |-> "none"]
  /\ code = [r \in Req |-> 0]
  /\ met = [r \in Req |-> {}]

----------------------------------------------------------------------------
(* handle_conn, and prove::run up to the launch *)

Request(r) ==
  /\ Go(r, "idle", "anchor")
  /\ met' = [s \in Req |-> IF s = r THEN Active
                           ELSE IF s \in Active THEN met[s] \cup {r} ELSE met[s]]
  /\ UNCHANGED <<rows, hostVars, blobVars, runVars, code>>

\* Mutant: one is added to the exit code.
ReturnPlusOne(r, c) ==
  /\ pc' = [pc EXCEPT ![r] = "answered"]
  /\ code' = [code EXCEPT ![r] = c + 1]
\* prove::run returns, and the reply gives its exit code.
Return(r, c) ==
  /\ pc' = [pc EXCEPT ![r] = "answered"]
  /\ code' = [code EXCEPT ![r] = c]

ChainEmpty == PriorRows = 0 /\ \A s \in Req : rows[s] = <<>>

\* Mutant: an ancestor is never enough.
AnchorOnlyGenesis == AllowGenesis /\ ChainEmpty
\* --allow-genesis is for an empty chain, and an ancestor needs a chain.
AnchorHolds == AllowGenesis <=> ChainEmpty

\* The arguments, tip_hash, verify and require_ancestor.  A malformed digest or
\* jail id, a read of the chain that fails (it takes no lock and may meet half a
\* row) and a missing anchor are refused without a row.
Anchor(r) ==
  /\ pc[r] = "anchor"
  /\ \/ /\ AnchorHolds
        /\ pc' = [pc EXCEPT ![r] = "preflight"]
        /\ UNCHANGED code
     \/ /\ ~AnchorHolds \/ "read" \in faults
        /\ Return(r, 1)
  /\ UNCHANGED <<rows, hostVars, blobVars, runVars, met>>

\* A stage that failed: its row is next, then prove::run returns c.
Fail(r, c) ==
  /\ pc' = [pc EXCEPT ![r] = "failRow"]
  /\ code' = [code EXCEPT ![r] = c]

\* Every FailClosed row.  A row that cannot be appended makes the exit code 1.
FailRow(r) ==
  /\ pc[r] = "failRow"
  /\ \/ Record(r, "FailClosed") /\ Return(r, code[r])
     \/ "append" \in faults /\ Return(r, 1) /\ UNCHANGED rows
  /\ UNCHANGED <<hostVars, blobVars, runVars, met>>

Preflight(r) ==
  /\ \/ /\ Go(r, "preflight", "before")
        /\ UNCHANGED code
     \/ /\ "host" \in faults
        /\ pc[r] = "preflight"
        /\ Fail(r, 2)
  /\ UNCHANGED <<rows, hostVars, blobVars, runVars, met>>

SnapshotBefore(r) ==
  /\ \/ /\ Go(r, "before", "launchRow")
        /\ before' = [before EXCEPT ![r] = [guests |-> live, dirs |-> dirs]]
        /\ UNCHANGED code
     \/ /\ "host" \in faults
        /\ pc[r] = "before"
        /\ Fail(r, 1)
        /\ UNCHANGED before
  /\ UNCHANGED <<rows, hostVars, blobVars, met, box, cleaned, checks, stopped>>

\* Mutant: prove::run goes on without a row that could not be appended.
RowOrGoOn(r, verdict, from, to) ==
  /\ Go(r, from, to)
  /\ Record(r, verdict) \/ ("append" \in faults /\ UNCHANGED rows)
  /\ UNCHANGED code
\* A row of prove::run, and what it does when the append fails.
RowOrAbort(r, verdict, from, to) ==
  /\ pc[r] = from
  /\ \/ /\ Record(r, verdict)
        /\ pc' = [pc EXCEPT ![r] = to]
        /\ UNCHANGED code
     \/ /\ "append" \in faults
        /\ Return(r, 1)
        /\ UNCHANGED rows

\* Mutant: launch, though the Launch row could not be appended.
LaunchRowIgnored(r) ==
  /\ Go(r, "launchRow", "boot")
  /\ \/ Record(r, "Launch")
     \/ "append" \in faults /\ UNCHANGED rows
  /\ UNCHANGED <<hostVars, blobVars, runVars, callVars>>
LaunchRow(r) ==
  /\ RowOrAbort(r, "Launch", "launchRow", "boot")
  /\ UNCHANGED <<hostVars, blobVars, runVars, met>>

----------------------------------------------------------------------------
(* launch_via_helper, for the main guest and again for the inspector's *)

\* prepare_jail_root: whatever is in the directory of that jail id is removed.
PrepareJail(r) ==
  /\ Go(r, "boot", "exec")
  /\ dirs' = dirs \cup {Cell(r)}
  /\ pidFile' = [pidFile EXCEPT ![Cell(r)] = None]
  /\ UNCHANGED <<live, rows, blobVars, runVars, callVars>>

StartGuest(r) ==
  /\ Go(r, "exec", "api")
  /\ live' = live \cup {At(r)}
  /\ pidFile' = [pidFile EXCEPT ![Cell(r)] = At(r)]
  /\ UNCHANGED <<dirs, rows, blobVars, runVars, callVars>>

\* The API socket answered.
Launched(r) ==
  /\ At(r) \in live
  /\ Go(r, "api", IF box[r] = "main" THEN "checks" ELSE "inspect")
  /\ UNCHANGED <<rows, hostVars, blobVars, runVars, callVars>>

\* sudo, validation, the directory, the jailer or the API socket: some step of
\* the launch failed, and SpawnGuard is dropped.
LaunchFails(r) ==
  /\ \/ "host" \in faults /\ pc[r] \in {"boot", "exec", "api"}
     \/ pc[r] = "api" /\ At(r) \notin live
  /\ pc' = [pc EXCEPT ![r] = "guard"]
  /\ UNCHANGED <<rows, hostVars, blobVars, runVars, callVars>>

\* What becomes of run_checks, and with it of the guests it used.
ChecksReturn(r, result) ==
  /\ pc' = [pc EXCEPT ![r] = "checked"]
  /\ checks' = [checks EXCEPT ![r] = result]
  /\ box' = [box EXCEPT ![r] = "main"]

\* Removing the jail directory may fail, and its error may be a false alarm.
Cleanup(r) == dirs' \in {dirs \ {Cell(r)}} \cup MayFail("host", dirs)

\* child.kill() and child.wait() end the sudo process.  The guest ends with it
\* only if it is a child that notices: nobody reads firecracker.pid here.
GuardKills(r) == live' \in {live, live \ {At(r)}}

\* SpawnGuard::drop: kill the child, wait for it, run the helper's cleanup.
Guard(r) ==
  /\ pc[r] = "guard"
  /\ GuardKills(r)
  /\ Cleanup(r)
  /\ \/ /\ box[r] = "main"
        /\ Fail(r, 2)
        /\ UNCHANGED <<box, checks>>
     \/ /\ box[r] = "insp"
        /\ ChecksReturn(r, "err")
        /\ UNCHANGED code
  /\ UNCHANGED <<pidFile, rows, blobVars, met,
                 before, cleaned, stopped>>

----------------------------------------------------------------------------
(* run_checks *)

\* Another thread of the process is at remove_dir_all of what they share.
SharedGoing(r) == \E s \in Req \ {r} : home[s] = home[r] /\ pc[s] = "dispose"

\* Mutant: the wait for the guest's boot has no deadline.
ChecksFailNotAtBoot(r) ==
  /\ pc[r] \in {"put", "take", "stage", "read", "dispose"}
  /\ "host" \in faults \/ SharedGoing(r)
  /\ ChecksReturn(r, "err")
  /\ UNCHANGED <<rows, hostVars, blobVars, callVars, before, cleaned, stopped>>
\* Any of its steps returns Err.
ChecksFail(r) ==
  /\ \/ pc[r] = "checks" /\ ("host" \in faults \/ At(r) \notin live)
     \/ /\ pc[r] \in {"put", "take", "stage", "read", "dispose"}
        /\ "host" \in faults \/ SharedGoing(r)
  /\ ChecksReturn(r, "err")
  /\ UNCHANGED <<rows, hostVars, blobVars, callVars, before,
                 cleaned, stopped>>

\* Boot, the probes, vsock and the vestibule listener.
GuestChecks(r) ==
  /\ At(r) \in live
  /\ Go(r, "checks", "put")
  /\ UNCHANGED <<rows, hostVars, blobVars, runVars, callVars>>

\* handoff_result_message, on a shelf all threads of the process share.
Put(r) ==
  /\ Go(r, "put", "take")
  /\ shelf' = shelf \cup {home[r]}
  /\ UNCHANGED <<staged, rows, hostVars, runVars, callVars>>

\* The blob another thread of this process has removed is not there.
BlobGone(r) ==
  /\ \/ pc[r] \in {"take", "stage"} /\ home[r] \notin shelf
     \/ pc[r] = "read" /\ r \notin staged
  /\ ChecksReturn(r, "err")
  /\ UNCHANGED <<rows, hostVars, blobVars, callVars, before,
                 cleaned, stopped>>

Take(r) ==
  /\ home[r] \in shelf
  /\ Go(r, "take", "stage")
  /\ UNCHANGED <<rows, hostVars, blobVars, runVars, callVars>>

\* Mutant: the main guest is left running for the inspector.
StageKeepsGuest(r) ==
  /\ home[r] \in shelf
  /\ Go(r, "stage", "read")
  /\ staged' = staged \cup {r}
  /\ box' = [box EXCEPT ![r] = "insp"]
  /\ UNCHANGED <<shelf, rows, hostVars, callVars, before, cleaned, checks, stopped>>
Stage(r) ==
  /\ home[r] \in shelf
  /\ Go(r, "stage", "stop")
  /\ staged' = staged \cup {r}
  /\ UNCHANGED <<shelf, rows, hostVars, runVars, callVars>>

\* run_disposable_inspect reads the staged blob before it launches.
ReadStaged(r) ==
  /\ r \in staged
  /\ Go(r, "read", "boot")
  /\ UNCHANGED <<rows, hostVars, blobVars, runVars, callVars>>

\* The claim of the inspector's guest, or no claim: known after its teardown.
Inspect(r) ==
  /\ Go(r, "inspect", "stop")
  /\ UNCHANGED <<rows, hostVars, blobVars, runVars, callVars>>

\* dispose, then remove_dir_all of the stage and the shelf of the process.
Dispose(r) ==
  /\ pc[r] = "dispose"
  /\ staged' = {s \in staged : home[s] # home[r]}
  /\ shelf' = shelf \ {home[r]}
  /\ \E result \in {"ok"} \cup MayFail("host", "err") : ChecksReturn(r, result)
  /\ UNCHANGED <<rows, hostVars, callVars, before, cleaned, stopped>>

----------------------------------------------------------------------------
(* teardown_vm: of the main guest inside run_checks, its error dropped; of  *)
(* the inspector's guest, its error logged; of the main guest in            *)
(* prove::run, which does nothing if the first has run.                     *)

\* The guest named in the jail's pid file is killed, then the child, with which
\* the request's own guest may go.  Every error is ignored: a pid file that is
\* missing or does not parse, a kill that cannot be run or is refused.
Stop(r) ==
  /\ Go(r, "stop", "clean")
  /\ \E hit \in SUBSET {pidFile[Cell(r)], At(r)} :
       /\ "kill" \in faults \/ pidFile[Cell(r)] \in hit
       /\ live' = live \ hit
  /\ UNCHANGED <<dirs, pidFile, rows, blobVars, runVars, callVars>>

\* The helper's cleanup and the removal of the jail directory.
Clean(r) ==
  /\ pc[r] = "clean"
  /\ Cleanup(r)
  /\ \E outcome \in {"ok"} \cup MayFail("host", "err") :
       /\ outcome = "ok" => Cell(r) \notin dirs'
       /\ \/ /\ box[r] = "insp"
             /\ pc' = [pc EXCEPT ![r] = "dispose"]
             /\ UNCHANGED <<box, cleaned, stopped>>
          \/ /\ box[r] = "main"
             /\ cleaned' = [cleaned EXCEPT ![r] = TRUE]
             /\ IF checks[r] = "none"
                  THEN /\ pc' = [pc EXCEPT ![r] = "read"]
                       /\ box' = [box EXCEPT ![r] = "insp"]
                       /\ UNCHANGED stopped
                  ELSE /\ pc' = [pc EXCEPT ![r] = "stopRow"]
                       /\ stopped' = [stopped EXCEPT ![r] = outcome]
                       /\ UNCHANGED box
  /\ UNCHANGED <<live, pidFile, rows, blobVars, callVars, before,
                 checks>>

Checked(r) ==
  /\ pc[r] = "checked"
  /\ IF cleaned[r]
       THEN /\ pc' = [pc EXCEPT ![r] = "stopRow"]
            /\ stopped' = [stopped EXCEPT ![r] = "ok"]
       ELSE /\ pc' = [pc EXCEPT ![r] = "stop"]
            /\ UNCHANGED stopped
  /\ UNCHANGED <<rows, hostVars, blobVars, callVars, before, box,
                 cleaned, checks>>

----------------------------------------------------------------------------
(* prove::run after run_checks *)

StopRow(r) ==
  /\ \/ stopped[r] = "ok" /\ RowOrAbort(r, "Teardown", "stopRow", "after")
     \/ /\ stopped[r] = "err"
        /\ pc[r] = "stopRow"
        /\ Fail(r, 1)
        /\ UNCHANGED rows
  /\ UNCHANGED <<hostVars, blobVars, runVars, met>>

\* Mutants: directories are not compared; guests are not.
HygieneOfGuests(r) == live \subseteq before[r].guests
HygieneOfDirs(r) == dirs \subseteq before[r].dirs
\* assert_host_vmm_hygiene: nothing on the host that was not there before.
HygieneHolds(r) ==
  /\ live \subseteq before[r].guests
  /\ dirs \subseteq before[r].dirs

\* Mutant: a host that is not as before ends the call without a row.
SnapshotAfterSilent(r) ==
  /\ pc[r] = "after"
  /\ \/ /\ HygieneHolds(r)
        /\ pc' = [pc EXCEPT ![r] = "hostRow"]
        /\ UNCHANGED code
     \/ /\ ~HygieneHolds(r) \/ "host" \in faults
        /\ Return(r, 1)
  /\ UNCHANGED <<rows, hostVars, blobVars, runVars, met>>
SnapshotAfter(r) ==
  /\ pc[r] = "after"
  /\ \/ /\ HygieneHolds(r)
        /\ pc' = [pc EXCEPT ![r] = "hostRow"]
        /\ UNCHANGED code
     \/ /\ ~HygieneHolds(r) \/ "host" \in faults
        /\ Fail(r, 1)
  /\ UNCHANGED <<rows, hostVars, blobVars, runVars, met>>

HostRow(r) ==
  /\ RowOrAbort(r, "HostUntouched", "hostRow", "result")
  /\ UNCHANGED <<hostVars, blobVars, runVars, met>>

Result(r) ==
  /\ \/ checks[r] = "ok" /\ RowOrAbort(r, "Prove", "result", "final")
     \/ /\ checks[r] = "err"
        /\ pc[r] = "result"
        /\ Fail(r, 1)
        /\ UNCHANGED rows
  /\ UNCHANGED <<hostVars, blobVars, runVars, met>>

\* The tip has moved, by this call's own rows, and the chain verifies; or the
\* chain cannot be read, and the exit code is 1 after all.
Final(r) ==
  /\ pc[r] = "final"
  /\ \/ rows[r] # <<>> /\ Return(r, 0)
     \/ /\ rows[r] = <<>> \/ "read" \in faults
        /\ Return(r, 1)
  /\ UNCHANGED <<rows, hostVars, blobVars, runVars, met>>

\* The manager dies.  Its guests, directories and rows stay.
Crash(p) ==
  /\ "crash" \in faults
  /\ \E r \in Active : home[r] = p
  /\ pc' = [r \in Req |-> IF r \in Active /\ home[r] = p THEN "dead" ELSE pc[r]]
  /\ UNCHANGED <<rows, hostVars, blobVars, runVars, callVars>>

\* A guest, or its VMM, goes down by itself, whatever became of its manager.
GuestEnds(g) ==
  /\ "host" \in faults
  /\ g \in live
  /\ live' = live \ {g}
  /\ UNCHANGED <<pc, dirs, pidFile, rows, blobVars, runVars, callVars>>

----------------------------------------------------------------------------

Step(r) ==
  \/ Anchor(r) \/ Preflight(r)
  \/ SnapshotBefore(r) \/ LaunchRow(r) \/ FailRow(r)
  \/ PrepareJail(r) \/ StartGuest(r) \/ Launched(r) \/ LaunchFails(r) \/ Guard(r)
  \/ GuestChecks(r) \/ Put(r) \/ Take(r) \/ Stage(r) \/ ReadStaged(r) \/ BlobGone(r)
  \/ Inspect(r) \/ Dispose(r) \/ ChecksFail(r)
  \/ Stop(r) \/ Clean(r) \/ Checked(r)
  \/ StopRow(r) \/ SnapshotAfter(r) \/ HostRow(r) \/ Result(r) \/ Final(r)

Next ==
  /\ \/ \E r \in Req : Request(r) \/ Step(r)
     \/ \E p \in Proc : Crash(p)
     \/ \E g \in Guest : GuestEnds(g)
  /\ UNCHANGED fixed

Spec == Init /\ [][Next]_vars

\* The stages that wait for another process without a deadline: strings, pgrep,
\* the helper's metadata line, sudo, kill, and wait() on the child.  (A listener's
\* process is waited for too, but has deadlines of its own: GuestListener.)
OnProcess == {"preflight", "before", "boot", "guard", "stop", "clean", "after"}

\* Every other wait has a deadline: a request at another stage is carried on.
FairSpec ==
  Spec /\ \A r \in Req : WF_vars(pc[r] \notin OnProcess /\ Step(r) /\ UNCHANGED fixed)

----------------------------------------------------------------------------
(* Properties *)

Recorded(r, verdict) == \E i \in 1..Len(rows[r]) : rows[r][i] = verdict
Ends(r, verdict) == rows[r] # <<>> /\ Last(rows[r]) = verdict
Story == <<"Launch", "Teardown", "HostUntouched", "Prove">>
Verdict == {"Launch", "Teardown", "HostUntouched", "Prove", "FailClosed"}

\* Nothing of request r is left on the host.
Gone(r) == \A k \in Kind : <<r, k>> \notin live /\ JailOf[<<r, k>>] \notin dirs

\* fresh_jail_id never repeats; a caller that names jails itself must not either.
DistinctJails == \A g, h \in Guest : JailOf[g] = JailOf[h] => g = h

Quiet == {"idle", "anchor", "preflight", "before", "launchRow"}
Launching == {"boot", "exec", "api", "guard"}
Checking == {"checks", "put", "take", "stage"}
Inspecting == {"read", "inspect", "dispose"}
Closing == {"checked", "stop", "clean", "stopRow", "after", "hostRow", "result", "final"}
Stages == Quiet \cup Launching \cup Checking \cup Inspecting \cup Closing
            \cup Answered \cup {"failRow"}

HostTypeOK ==
  /\ live \subseteq Guest
  /\ dirs \subseteq Jail
  /\ pidFile \in [Jail -> Guest \cup {None}]
  /\ shelf \subseteq Proc
  /\ staged \subseteq Req

RunTypeOK ==
  /\ before \in [Req -> [guests : SUBSET Guest, dirs : SUBSET Jail]]
  /\ box \in [Req -> Kind]
  /\ cleaned \in [Req -> BOOLEAN]
  /\ checks \in [Req -> {"none", "ok", "err"}]
  /\ stopped \in [Req -> {"none", "ok", "err"}]
  /\ met \in [Req -> SUBSET Req]

\* Every variable keeps its type.
TypeOK ==
  /\ pc \in [Req -> Stages]
  /\ rows \in [Req -> Seq(Verdict)]
  /\ code \in [Req -> {0, 1, 2}]
  /\ home \in [Req -> Proc]
  /\ faults \subseteq Fault
  /\ HostTypeOK
  /\ RunTypeOK

\* A Prove row on the chain means the checks passed and nothing of that call is
\* left on the host, neither guest nor jail directory of either kind: though
\* one teardown error is dropped, another logged, and other calls come and go.
ProvedMeansGone ==
  DistinctJails => \A r \in Req : Recorded(r, "Prove") => checks[r] = "ok" /\ Gone(r)

\* No guest ever runs, crashes included, whose call has no Launch row.
GuestOnRecord ==
  \A r \in Req, k \in Kind : <<r, k>> \in live => Recorded(r, "Launch")

\* Unless an append failed, no call that returns leaves its launch open on the
\* chain: the last of its rows is Prove or FailClosed.
LaunchClosed ==
  "append" \notin faults =>
    \A r \in Req : pc[r] = "answered" /\ rows[r] # <<>> =>
      Ends(r, "Prove") \/ Ends(r, "FailClosed")

\* A failed launch and a failed kill leave the guest running, silently.  What a
\* call that returned has left is on record all the same: its exit code is not
\* 0, and its rows end with FailClosed unless that append failed.
LeakOnRecord ==
  \A r \in Req, k \in Kind : <<r, k>> \in live /\ pc[r] = "answered" =>
    /\ code[r] # 0
    /\ "append" \in faults \/ Ends(r, "FailClosed")

\* As long as kills arrive, the inspector's guest starts after the main guest has
\* gone (prove.rs calls it the "single-guest surface for inspect receipt").
OneGuestAtATime ==
  DistinctJails /\ "kill" \notin faults =>
    \A r \in Req : ~(<<r, "main">> \in live /\ <<r, "insp">> \in live)

\* An exit code is told only with the rows that bear it out: 0 with the whole
\* story, 2 (blocked) with a FailClosed row.
AnswerBorneOut ==
  \A r \in Req : pc[r] = "answered" =>
    /\ code[r] = 0 => rows[r] = Story
    /\ code[r] = 2 => Ends(r, "FailClosed")

\* When nothing fails, a call that no other call overlapped exits with 0: its
\* own two guests are no residue, and what earlier calls left is none either.
AloneSucceeds ==
  faults = {} =>
    \A r \in Req : pc[r] = "answered" /\ met[r] = {} => code[r] = 0

\* Every request is answered unless its manager dies or a process it waits for
\* without a deadline never ends: a guest that hangs or goes down at any moment,
\* and threads that remove the directories they share, hold no call for ever.
EveryRequestAnswered ==
  \A r \in Req :
    \/ <>[](pc[r] \in OnProcess)
    \/ pc[r] \notin Answered \cup {"idle"} ~>
         \/ pc[r] = "answered"
         \/ pc[r] = "dead" /\ "crash" \in faults

\* teardown_vm: "Idempotent. Returns Err if cleanup could not confirm."  If so,
\* a Teardown row would mean that the jail directory is gone.
TeardownRowTrue ==
  \A r \in Req : Ends(r, "Teardown") => JailOf[<<r, "main">>] \notin dirs

\* prove.rs: "--allow-genesis refused on non-empty chain".  If so, only one
\* call of a manager that runs with it could ever record a row.
GenesisOnlyOnEmptyChain ==
  AllowGenesis => Cardinality({r \in Req : rows[r] # <<>>}) <= 1

----------------------------------------------------------------------------
(* The inductive invariant *)

\* Which guest a request is at, and whether its main guest was torn down.
BoxAt(r) ==
  /\ pc[r] \in Quiet \cup Checking \cup (Closing \ {"stop", "clean"}) => box[r] = "main"
  /\ pc[r] \in Inspecting => box[r] = "insp"
  /\ pc[r] \in Quiet \cup Checking \cup {"stop", "clean"} \cup Launching
       => box[r] = "insp" \/ ~cleaned[r]
  /\ box[r] = "insp" => cleaned[r]

\* Where a request whose guest runs cannot be: the snapshot it compares with has
\* no guest of its own in it, so it passes the comparison only without one.
GuestAt(r) ==
  /\ \A k \in Kind : <<r, k>> \notin before[r].guests
  /\ \A k \in Kind : <<r, k>> \in live =>
       /\ pc[r] \notin Quiet \cup {"hostRow", "result", "final"}
       /\ ~Recorded(r, "Prove")
       /\ k = box[r] => pc[r] \notin {"boot", "exec"}
  /\ <<r, "insp">> \in live => cleaned[r] /\ pc[r] # "read"

\* A jail's pid file names the guest that runs there, and a teardown whose kills
\* arrive ends it.
StoppedAt(r) ==
  /\ \A k \in Kind : <<r, k>> \in live => pidFile[JailOf[<<r, k>>]] = <<r, k>>
  /\ <<r, "main">> \in live /\ "kill" \notin faults =>
       ~cleaned[r] /\ (box[r] = "main" => pc[r] # "clean")

\* The rows a request must have, and those it cannot have yet.
RowAt(r) ==
  /\ pc[r] \in Launching \cup Checking \cup Inspecting \cup Closing => Recorded(r, "Launch")
  /\ \A k \in Kind : <<r, k>> \in live => Recorded(r, "Launch")
  /\ Recorded(r, "Prove") => pc[r] \in {"final"} \cup Answered /\ checks[r] = "ok"

\* The snapshot a request compares with has nothing of its own in it, so a
\* request that passed the comparison has left nothing behind.
GoneAt(r) ==
  /\ pc[r] \in Quiet => Gone(r)
  /\ \A k \in Kind : JailOf[<<r, k>>] \notin before[r].dirs
  /\ pc[r] \in {"hostRow", "result", "final"} \/ Recorded(r, "Prove") => Gone(r)

\* The rows of a request, stage by stage, and the answer they bear out.
Told(n) == SubSeq(Story, 1, n)
StoryAt(r) ==
  /\ pc[r] \in Quiet => rows[r] = Told(0)
  /\ pc[r] \in Launching \cup Checking \cup Inspecting \cup {"checked", "stop", "clean", "stopRow"}
       => rows[r] = Told(1)
  /\ pc[r] \in {"after", "hostRow"} => rows[r] = Told(2)
  /\ pc[r] = "result" => rows[r] = Told(3)
  /\ pc[r] = "final" => rows[r] = Told(4)
  /\ pc[r] = "failRow" => code[r] # 0
  /\ pc[r] = "answered" =>
       /\ code[r] = 0 => rows[r] = Told(4)
       /\ code[r] = 2 => Ends(r, "FailClosed")
       /\ \/ "append" \in faults
          \/ rows[r] = <<>> \/ Ends(r, "Prove") \/ Ends(r, "FailClosed")

\* A call that no other call overlaps, when nothing fails: it is the only one at
\* work, its blob is where it put it, and beside what its snapshot shows there is
\* at most the guest it is at and its directory.
AloneAt(r) ==
  /\ r \in Active => Active = {r}
  /\ pc[r] \notin {"guard", "failRow"}
  /\ pc[r] \in {"launchRow", "boot", "read", "dispose", "checked", "stopRow", "after"}
       => dirs \subseteq before[r].dirs
  /\ pc[r] \in {"exec", "api", "inspect", "stop", "clean"} \cup Checking
       => dirs \subseteq before[r].dirs \cup {Cell(r)}
  /\ pc[r] \in {"launchRow", "boot", "exec", "clean", "read", "dispose", "checked", "stopRow", "after"}
       => live \subseteq before[r].guests
  /\ pc[r] \in {"api", "inspect", "stop"} \cup Checking
       => live \subseteq before[r].guests \cup {At(r)} /\ pidFile[Cell(r)] = At(r)
  /\ pc[r] \in {"api", "checks"} => At(r) \in live
  /\ pc[r] \in {"take", "stage"} => home[r] \in shelf
  /\ pc[r] = "read" \/ (pc[r] \in {"stop", "clean"} /\ box[r] = "main") => r \in staged
  /\ box[r] = "insp" \/ pc[r] = "checked" => cleaned[r]
  /\ pc[r] \in {"checked", "stopRow", "after", "hostRow", "result"} => checks[r] = "ok"
  /\ pc[r] \in Quiet \cup Launching \cup Checking \cup Inspecting \cup {"stop", "clean"}
       => checks[r] = "none"
  /\ pc[r] = "stopRow" => stopped[r] = "ok"
  /\ pc[r] = "answered" => code[r] = 0

BoxInv == \A r \in Req : BoxAt(r)
GuestInv == \A r \in Req : GuestAt(r)
StoppedInv == DistinctJails => \A r \in Req : StoppedAt(r)
RowInv == \A r \in Req : RowAt(r)
GoneInv == DistinctJails => \A r \in Req : GoneAt(r)

StoryInv == \A r \in Req : StoryAt(r)
AloneInv ==
  faults = {} /\ ~AllowGenesis /\ PriorRows > 0 =>
    \A r \in Req : /\ pc[r] # "dead" /\ (pc[r] = "idle" => met[r] = {})
                   /\ met[r] = {} => AloneAt(r)

ProveInv == TypeOK /\ BoxInv /\ GuestInv /\ RowInv /\ GoneInv /\ StoppedInv
=============================================================================

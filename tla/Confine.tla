------------------------------ MODULE Confine -------------------------------
(***************************************************************************)
(* Who is confined by the hardening of the guest listeners.  A manager     *)
(* serves calls, one thread each; a call launches its main guest, runs the *)
(* result listener as a process of its own, launches an inspector guest    *)
(* and runs the hardened reply listener in a thread of the manager.        *)
(*                                                                         *)
(* no_new_privs, Landlock and the seccomp filter belong to the thread that *)
(* asks for them (prctl and landlock_restrict_self without TSYNC); the     *)
(* cgroup, the dumpable flag and RLIMIT_CORE belong to its whole process,  *)
(* and a child process starts in the cgroup of its parent.                 *)
(***************************************************************************)
EXTENDS Naturals, Sequences, FiniteSets, SequencesExt

CONSTANTS
  Req,      \* calls of one manager process
  Manager,  \* that process
  Outside   \* the cgroup it was started in

Hardener == Req \X {"listener", "inspector"}
Caller(h) == h[1]

\* Mutant: the result listener is a thread of the manager.
ListenerInProcess(h) == Manager
\* spawn_vestibule_listener starts a process, run_disposable_inspect a thread.
ProcessOf(h) == IF h[2] = "listener" THEN h ELSE Manager

\* Mutant: the inspector's hook runs in the thread of the call.
HookThreadIsCaller(h) == IF h[2] = "inspector" THEN Caller(h) ELSE h
HookThread(h) == h

Listeners == {h \in Hardener : h[2] = "listener"}
Process == {Manager} \cup Listeners
Thread == Req \cup Hardener

VARIABLES
  host,      \* what the host offers and refuses; never changes
  call,      \* the stage of each call
  step,      \* how far each hardening is: 0 not begun, n the nth of Steps
  attach,    \* inside the cgroup step: "try", or "poll" from busctl on
  queued,    \* StartTransientUnit jobs: the hardenings whose scope is not entered yet
  leaf,      \* the cgroup of each process: Outside, or the hardening that made it
  nodump, nocore,        \* of each process
  nnp, fenced, filter,   \* of each thread
  report,    \* the HardenReport of each hardening
  ran        \* history: the last program started, and how it was confined

threadVars == <<nnp, fenced, filter>>
processVars == <<leaf, nodump, nocore>>
vars == <<host, call, step, attach, queued, processVars, threadVars, report, ran>>

\* apply_listener_hardening_with_fs_roots, in order.
Steps == <<"cgroup", "nnp", "dumpable", "core", "landlock", "seccomp">>
Done == Len(Steps) + 1
Failed == Len(Steps) + 2
At(h, name) == step[h] \in DOMAIN Steps /\ Steps[step[h]] = name

\* Steps whose failure counts as FALSE in the report and stops nothing.
Soft == {"dumpable_cleared", "rlimit_core_zero", "landlock"}

\* An app.slice under user@.service, the memory and pids controllers in it, a
\* user bus, and the soft steps the kernel refuses.
Hosts == [delegated : BOOLEAN, controllers : BOOLEAN, bus : BOOLEAN, refuses : SUBSET Soft]

Init ==
  /\ host \in Hosts
  /\ call = [r \in Req |-> "idle"]
  /\ step = [h \in Hardener |-> 0]
  /\ attach = [h \in Hardener |-> "try"]
  /\ queued = {}
  /\ leaf = [p \in Process |-> Outside]
  /\ nodump = {} /\ nocore = {}
  /\ nnp = {} /\ fenced = {} /\ filter = {}
  /\ report = [h \in Hardener |-> {}]
  /\ ran = [what |-> "none"]

\* The hardenings of inspector replies that have begun.
Hooked == {h \in Hardener : h[2] = "inspector" /\ step[h] # 0}

\* A program is started by a thread, in the cgroup of the thread's process.
Exec(what, thread, process, r) ==
  ran' = [what |-> what, by |-> r, nnp |-> thread \in nnp, filter |-> thread \in filter,
          capped |-> leaf[process] # Outside, after |-> {Caller(h) : h \in Hooked}]

----------------------------------------------------------------------------
(* A call *)

\* launch_via_helper: sudo jailer-launch from the thread of the call.
Launch(r, from, to) ==
  /\ call[r] = from
  /\ call' = [call EXCEPT ![r] = to]
  /\ Exec("launch", r, Manager, r)
  /\ UNCHANGED <<host, step, attach, queued, processVars, threadVars, report>>

LaunchMain(r) == Launch(r, "idle", "guest")
LaunchInspector(r) == Launch(r, "listened", "inspecting")

\* The listener starts hardening, its process in the cgroup of the manager.
SpawnListener(r) ==
  LET h == <<r, "listener">> IN
  /\ call[r] = "guest"
  /\ call' = [call EXCEPT ![r] = "listening"]
  /\ step' = [step EXCEPT ![h] = 1]
  /\ leaf' = [leaf EXCEPT ![ProcessOf(h)] = leaf[Manager]]
  /\ UNCHANGED <<host, attach, queued, nodump, nocore, threadVars, report, ran>>

\* The hook of vsock_inspect_reply, after its bind.
SpawnInspector(r) ==
  /\ call[r] = "inspecting"
  /\ call' = [call EXCEPT ![r] = "hooked"]
  /\ step' = [step EXCEPT ![<<r, "inspector">>] = 1]
  /\ UNCHANGED <<host, attach, queued, processVars, threadVars, report, ran>>

\* The call waits for its listener; an error of one ends the call.
Join(r) ==
  LET h == <<r, IF call[r] = "listening" THEN "listener" ELSE "inspector">> IN
  /\ call[r] \in {"listening", "hooked"}
  /\ step[h] \in {Done, Failed}
  /\ call' = [call EXCEPT ![r] =
       IF call[r] = "listening" /\ step[h] = Done THEN "listened" ELSE "ending"]
  /\ UNCHANGED <<host, step, attach, queued, processVars, threadVars, report, ran>>

\* Anything else that fails, at any point between two launches.
Fail(r) ==
  /\ call[r] \in {"guest", "listening", "listened", "inspecting"}
  /\ call' = [call EXCEPT ![r] = "ending"]
  /\ UNCHANGED <<host, step, attach, queued, processVars, threadVars, report, ran>>

\* teardown_vm: sudo jailer-launch --cleanup.
Teardown(r) ==
  /\ call[r] = "ending"
  /\ call' = [call EXCEPT ![r] = "over"]
  /\ Exec("teardown", r, Manager, r)
  /\ UNCHANGED <<host, step, attach, queued, processVars, threadVars, report>>

----------------------------------------------------------------------------
(* enter_listener_cgroup *)

Next_(h) == step' = [step EXCEPT ![h] = step[h] + 1]
Flag(h, name) == report' = [report EXCEPT ![h] = @ \cup {name}]

\* Mutant: a name of ours is taken for a jail.
JailedByName(p) == leaf[p] # Outside
\* already_jailed: a leaf of ours that has both limits.
Jailed(p) == leaf[p] # Outside /\ host.controllers

\* The cgroup step ends; its error counts as FALSE.
EndCgroup(h, entered) ==
  /\ Next_(h)
  /\ IF entered THEN Flag(h, "cgroup_jail") ELSE UNCHANGED report
  /\ UNCHANGED attach

AlreadyJailed(h) ==
  /\ At(h, "cgroup") /\ attach[h] \in {"try", "poll"} /\ Jailed(ProcessOf(h))
  /\ EndCgroup(h, TRUE)
  /\ UNCHANGED <<host, call, queued, processVars, threadVars, ran>>

\* try_fs_cgroup_leaf: mkdir, both limits, then the pid.  An error of any of
\* them returns past attach_via_user_systemd, and the directory stays.
FsLeaf(h) ==
  /\ At(h, "cgroup") /\ attach[h] = "try" /\ ~Jailed(ProcessOf(h))
  /\ host.delegated
  /\ \/ /\ host.controllers
        /\ leaf' = [leaf EXCEPT ![ProcessOf(h)] = h]
        /\ EndCgroup(h, TRUE)
     \/ EndCgroup(h, FALSE) /\ UNCHANGED leaf
  /\ UNCHANGED <<host, call, queued, nodump, nocore, threadVars, ran>>

\* attach_via_user_systemd, outside user@.service: busctl asks the user manager for
\* a scope, and may fail though it is given one.  Its failure counts, like the end
\* of the poll, unless the process is jailed by then: both are PollGivesUp.
Busctl(h) ==
  /\ At(h, "cgroup") /\ attach[h] = "try" /\ ~Jailed(ProcessOf(h))
  /\ ~host.delegated
  /\ Exec("busctl", HookThread(h), ProcessOf(h), Caller(h))
  /\ attach' = [attach EXCEPT ![h] = "poll"]
  /\ queued' = IF host.bus THEN queued \cup {h} ELSE queued
  /\ UNCHANGED <<host, call, step, report, processVars, threadVars>>

\* The queued job runs, perhaps after the poll has given up.
Migrate(h) ==
  /\ h \in queued
  /\ queued' = queued \ {h}
  /\ leaf' = [leaf EXCEPT ![ProcessOf(h)] = h]
  /\ UNCHANGED <<host, call, step, attach, nodump, nocore, threadVars, report, ran>>

PollGivesUp(h) ==
  /\ At(h, "cgroup") /\ attach[h] = "poll" /\ ~Jailed(ProcessOf(h))
  /\ EndCgroup(h, FALSE)
  /\ UNCHANGED <<host, call, queued, processVars, threadVars, ran>>

----------------------------------------------------------------------------
(* The other steps *)

Abort(h) == step' = [step EXCEPT ![h] = Failed]

SetNnp(h) ==
  /\ At(h, "nnp")
  /\ \/ Next_(h) /\ nnp' = nnp \cup {HookThread(h)}
     \/ Abort(h) /\ UNCHANGED nnp
  /\ UNCHANGED <<host, call, attach, queued, processVars, fenced, filter, report, ran>>

ClearDumpable(h) ==
  /\ At(h, "dumpable")
  /\ Next_(h)
  /\ IF "dumpable_cleared" \in host.refuses THEN UNCHANGED <<nodump, report>>
     ELSE nodump' = nodump \cup {ProcessOf(h)} /\ Flag(h, "dumpable_cleared")
  /\ UNCHANGED <<host, call, attach, queued, leaf, nocore, threadVars, ran>>

ZeroCore(h) ==
  /\ At(h, "core")
  /\ Next_(h)
  /\ IF "rlimit_core_zero" \in host.refuses THEN UNCHANGED <<nocore, report>>
     ELSE nocore' = nocore \cup {ProcessOf(h)} /\ Flag(h, "rlimit_core_zero")
  /\ UNCHANGED <<host, call, attach, queued, leaf, nodump, threadVars, ran>>

\* install_landlock: no ruleset, no usable root or a refused rule is FALSE.
Landlock(h) ==
  /\ At(h, "landlock")
  /\ Next_(h)
  /\ IF HookThread(h) \notin nnp \/ "landlock" \in host.refuses
       THEN UNCHANGED <<fenced, report>>
       ELSE fenced' = fenced \cup {HookThread(h)} /\ Flag(h, "landlock")
  /\ UNCHANGED <<host, call, attach, queued, processVars, nnp, filter, ran>>

Seccomp(h) ==
  /\ At(h, "seccomp")
  /\ \/ HookThread(h) \in nnp /\ Next_(h) /\ filter' = filter \cup {HookThread(h)}
     \/ Abort(h) /\ UNCHANGED filter
  /\ UNCHANGED <<host, call, attach, queued, processVars, nnp, fenced, report, ran>>

Next ==
  \/ \E r \in Req :
       \/ LaunchMain(r) \/ SpawnListener(r) \/ LaunchInspector(r)
       \/ SpawnInspector(r) \/ Join(r) \/ Fail(r) \/ Teardown(r)
  \/ \E h \in Hardener :
       \/ AlreadyJailed(h) \/ FsLeaf(h) \/ Busctl(h) \/ Migrate(h) \/ PollGivesUp(h)
       \/ SetNnp(h) \/ ClearDumpable(h) \/ ZeroCore(h) \/ Landlock(h) \/ Seccomp(h)

Spec == Init /\ [][Next]_vars

----------------------------------------------------------------------------
(* Properties *)

\* A report says nothing that is not in force: each flag it sets holds of the
\* listener from then on, whatever other hardenings of the process do.
ReportTrue ==
  \A h \in Hardener : step[h] = Done =>
    /\ HookThread(h) \in filter
    /\ "cgroup_jail" \in report[h] => leaf[ProcessOf(h)] # Outside /\ host.controllers
    /\ "dumpable_cleared" \in report[h] => ProcessOf(h) \in nodump
    /\ "rlimit_core_zero" \in report[h] => ProcessOf(h) \in nocore
    /\ "landlock" \in report[h] => HookThread(h) \in fenced

\* Whatever hardening its threads are in, the manager keeps what it needs: no
\* program is started by a filtered thread, which would kill the process and every
\* call it serves, and sudo finds no no_new_privs on the thread of a call, though
\* threads it starts ask for it in the same process.
ManagerCanLaunch ==
  /\ ran.what # "none" => ~ran.filter
  /\ ran.what \in {"launch", "teardown"} => ~ran.nnp

\* A call never caps its own launches: one that starts in a listener's cgroup
\* was put there by the inspector hook of another call.
CappedByAnother == ran.what = "launch" /\ ran.capped => ran.after \ {ran.by} # {}

\* prove.rs:482: the listener is a process of its own so that its limits do not
\* cap the inspector launch, which was OOM-killed inside them.
LaunchesUncapped == ran.what = "launch" => ~ran.capped

----------------------------------------------------------------------------
(* The inductive invariant *)

\* A hardening is not begun before its call comes to it.
StageInv ==
  /\ call \in [Req -> {"idle", "guest", "listening", "listened", "inspecting", "hooked",
                       "ending", "over"}]
  /\ step \in [Hardener -> 0..Failed]
  /\ report \in [Hardener -> SUBSET (Soft \cup {"cgroup_jail"})]
  /\ queued \subseteq {h \in Hardener : step[h] # 0}
  /\ \A r \in Req :
       /\ call[r] \in {"idle", "guest"} => step[<<r, "listener">>] = 0
       /\ call[r] \in {"idle", "guest", "listening", "listened", "inspecting"} =>
            step[<<r, "inspector">>] = 0
  /\ \A h \in Hardener : step[h] = 0 => report[h] = {}

\* Only threads that harden themselves are confined, and a filter is the last of it.
ThreadInv ==
  /\ nnp \subseteq Hardener
  /\ filter \subseteq {h \in Hardener : step[h] = Done}

\* The manager is in a cgroup of ours only once an inspector's hook has begun.
CappedInv ==
  /\ leaf \in [Process -> Hardener \cup {Outside}]
  /\ leaf[Manager] = Outside \/ leaf[Manager] \in Hooked

\* What a flag of a report says holds from the moment it is set.
FlagInv ==
  \A h \in Hardener :
    /\ step[h] = Done => h \in filter
    /\ "cgroup_jail" \in report[h] => leaf[ProcessOf(h)] # Outside /\ host.controllers
    /\ "dumpable_cleared" \in report[h] => ProcessOf(h) \in nodump
    /\ "rlimit_core_zero" \in report[h] => ProcessOf(h) \in nocore
    /\ "landlock" \in report[h] => h \in fenced

ConfineInv ==
  StageInv /\ ThreadInv /\ CappedInv /\ FlagInv /\ ManagerCanLaunch /\ CappedByAnother
=============================================================================

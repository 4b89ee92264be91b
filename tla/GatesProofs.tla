---------------------------- MODULE GatesProofs -----------------------------
(* Proofs about Gates: what each check lets pass, for any inputs of the kinds *)
(* it is asked, any number of calls of a manager, and any paths, whatever     *)
(* another user of the host does to them.                                     *)
EXTENDS Gates, FiniteSetTheorems, SequenceTheorems, WellFoundedInduction, TLAPS

----------------------------------------------------------------------------
(* The hardening of the listeners (Confine) *)

\* The steps of a hardening, by number.
LEMMA StepNumbers ==
  /\ C!Done = 7 /\ C!Failed = 8
  /\ \A h : /\ C!At(h, "cgroup") <=> stage[h] = 1
            /\ C!At(h, "nnp") <=> stage[h] = 2
            /\ C!At(h, "dumpable") <=> stage[h] = 3
            /\ C!At(h, "core") <=> stage[h] = 4
            /\ C!At(h, "landlock") <=> stage[h] = 5
            /\ C!At(h, "seccomp") <=> stage[h] = 6
<1>1. Len(C!Steps) = 6 /\ DOMAIN C!Steps = 1..6
  BY DEF C!Steps
<1>2. /\ C!Steps[1] = "cgroup" /\ C!Steps[2] = "nnp" /\ C!Steps[3] = "dumpable"
      /\ C!Steps[4] = "core" /\ C!Steps[5] = "landlock" /\ C!Steps[6] = "seccomp"
  BY DEF C!Steps
<1>3. \A n \in 1..6 : n \in {1, 2, 3, 4, 5, 6}
  OBVIOUS
<1> QED BY <1>1, <1>2, <1>3 DEF C!Done, C!Failed, C!At

\* A hardening is of one of two kinds, and of one call.
LEMMA Hardeners ==
  /\ \A r \in Req : <<r, "listener">> \in C!Hardener /\ <<r, "inspector">> \in C!Hardener
  /\ \A r, q \in Req : <<r, "listener">> # <<q, "inspector">>
  /\ \A r, q \in Req : r # q => <<r, "listener">> # <<q, "listener">> /\ <<r, "inspector">> # <<q, "inspector">>
  /\ \A h \in C!Hardener : C!Caller(h) \in Req /\ C!ProcessOf(h) \in C!Process
  /\ \A r \in Req : C!ProcessOf(<<r, "listener">>) = <<r, "listener">>
  /\ \A h \in C!Hardener : C!ProcessOf(h) = Manager => h = <<C!Caller(h), "inspector">>
  /\ Manager \in C!Process /\ Manager \notin C!Hardener /\ Outside \notin C!Hardener
  /\ \A r \in Req : r \notin C!Hardener
BY GatesAssumption DEF GatesAssumption, C!Hardener, C!Caller, C!ProcessOf, C!Process, C!Listeners

\* Every step keeps the order of a call and its hardenings.
LEMMA StageStep == C!StageInv /\ [C!Next]_(C!vars) => C!StageInv'
<1> SUFFICES ASSUME C!StageInv, [C!Next]_(C!vars) PROVE C!StageInv'
  OBVIOUS
<1> USE StepNumbers, Hardeners DEF C!StageInv, C!threadVars, C!processVars
<1>1. CASE UNCHANGED C!vars
  BY <1>1 DEF C!vars
<1>2. ASSUME NEW r \in Req,
             C!LaunchMain(r) \/ C!LaunchInspector(r) \/ C!Join(r) \/ C!Fail(r) \/ C!Teardown(r)
      PROVE  C!StageInv'
  BY <1>2 DEF C!LaunchMain, C!LaunchInspector, C!Launch, C!Join, C!Fail, C!Teardown
<1>3. ASSUME NEW r \in Req, C!SpawnListener(r) PROVE C!StageInv'
  <2> DEFINE g == <<r, "listener">>
  <2>1. /\ call' = [call EXCEPT ![r] = "listening"] /\ stage' = [stage EXCEPT ![g] = 1]
        /\ UNCHANGED <<queued, report>> /\ g \in C!Hardener
    BY <1>3 DEF C!SpawnListener
  <2>2. stage' \in [C!Hardener -> 0..C!Failed] /\ stage'[g] # 0
        /\ \A h \in C!Hardener : h # g => stage'[h] = stage[h]
    BY <2>1
  <2>3. \A q \in Req : q # r => call'[q] = call[q] /\ g # <<q, "listener">> /\ g # <<q, "inspector">>
    BY <2>1
  <2>4. call'[r] = "listening" /\ call[r] = "guest" /\ g # <<r, "inspector">>
    BY <1>3, <2>1 DEF C!SpawnListener
  <2> HIDE DEF g
  <2> QED BY <2>1, <2>2, <2>3, <2>4
<1>4. ASSUME NEW r \in Req, C!SpawnInspector(r) PROVE C!StageInv'
  <2> DEFINE g == <<r, "inspector">>
  <2>1. /\ call' = [call EXCEPT ![r] = "hooked"] /\ stage' = [stage EXCEPT ![g] = 1]
        /\ UNCHANGED <<queued, report>> /\ g \in C!Hardener
    BY <1>4 DEF C!SpawnInspector
  <2>2. stage' \in [C!Hardener -> 0..C!Failed] /\ stage'[g] # 0
        /\ \A h \in C!Hardener : h # g => stage'[h] = stage[h]
    BY <2>1
  <2>3. \A q \in Req : q # r => call'[q] = call[q] /\ g # <<q, "listener">> /\ g # <<q, "inspector">>
    BY <2>1
  <2>4. call'[r] = "hooked" /\ call[r] = "inspecting" /\ g # <<r, "listener">>
    BY <1>4, <2>1 DEF C!SpawnInspector
  <2> HIDE DEF g
  <2> QED BY <2>1, <2>2, <2>3, <2>4
<1>5. ASSUME NEW h \in C!Hardener,
             C!AlreadyJailed(h) \/ C!FsLeaf(h) \/ C!Busctl(h) \/ C!PollGivesUp(h)
      PROVE  C!StageInv'
  BY <1>5 DEF C!AlreadyJailed, C!FsLeaf, C!Busctl, C!PollGivesUp, C!EndCgroup, C!Next_, C!Flag
<1>6. ASSUME NEW h \in C!Hardener, C!Migrate(h) PROVE C!StageInv'
  BY <1>6 DEF C!Migrate
<1>7. ASSUME NEW h \in C!Hardener, C!SetNnp(h) \/ C!Seccomp(h) PROVE C!StageInv'
  BY <1>7 DEF C!SetNnp, C!Seccomp, C!Next_, C!Abort
<1>8. ASSUME NEW h \in C!Hardener, C!ClearDumpable(h) \/ C!ZeroCore(h) \/ C!Landlock(h) PROVE C!StageInv'
  BY <1>8 DEF C!ClearDumpable, C!ZeroCore, C!Landlock, C!Next_, C!Flag, C!Soft
<1> QED BY <1>1, <1>2, <1>3, <1>4, <1>5, <1>6, <1>7, <1>8 DEF C!Next

\* Every step keeps the confinement of threads to those that ask for it.
LEMMA ThreadStep == C!StageInv /\ C!ThreadInv /\ [C!Next]_(C!vars) => C!ThreadInv'
<1> SUFFICES ASSUME C!StageInv, C!ThreadInv, [C!Next]_(C!vars) PROVE C!ThreadInv'
  OBVIOUS
<1> USE StepNumbers, Hardeners DEF C!StageInv, C!ThreadInv, C!threadVars, C!HookThread
<1>1. CASE UNCHANGED C!vars
  BY <1>1 DEF C!vars
<1>2. ASSUME NEW r \in Req,
             C!LaunchMain(r) \/ C!LaunchInspector(r) \/ C!Join(r) \/ C!Fail(r) \/ C!Teardown(r)
             \/ C!SpawnListener(r) \/ C!SpawnInspector(r)
      PROVE  C!ThreadInv'
  BY <1>2 DEF C!LaunchMain, C!LaunchInspector, C!Launch, C!Join, C!Fail, C!Teardown,
     C!SpawnListener, C!SpawnInspector
<1>3. ASSUME NEW h \in C!Hardener,
             C!AlreadyJailed(h) \/ C!FsLeaf(h) \/ C!Busctl(h) \/ C!PollGivesUp(h) \/ C!Migrate(h)
      PROVE  C!ThreadInv'
  BY <1>3 DEF C!AlreadyJailed, C!FsLeaf, C!Busctl, C!PollGivesUp, C!Migrate, C!EndCgroup, C!Next_
<1>4. ASSUME NEW h \in C!Hardener,
             C!SetNnp(h) \/ C!ClearDumpable(h) \/ C!ZeroCore(h) \/ C!Landlock(h)
      PROVE  C!ThreadInv'
  BY <1>4 DEF C!SetNnp, C!ClearDumpable, C!ZeroCore, C!Landlock, C!Next_, C!Abort
<1>5. ASSUME NEW h \in C!Hardener, C!Seccomp(h) PROVE C!ThreadInv'
  <2>1. UNCHANGED nnp /\ stage[h] = 6
        /\ \/ stage' = [stage EXCEPT ![h] = 7] /\ filter' = filter \cup {h}
           \/ stage' = [stage EXCEPT ![h] = 8] /\ filter' = filter
    BY <1>5 DEF C!Seccomp, C!Next_, C!Abort
  <2> QED BY <2>1
<1> QED BY <1>1, <1>2, <1>3, <1>4, <1>5 DEF C!Next

\* Every step keeps the manager out of a cgroup of ours until an inspector's hook
\* has taken it there.
LEMMA CappedStep == C!StageInv /\ C!CappedInv /\ [C!Next]_(C!vars) => C!CappedInv'
<1> SUFFICES ASSUME C!StageInv, C!CappedInv, [C!Next]_(C!vars) PROVE C!CappedInv'
  OBVIOUS
<1> USE StepNumbers, Hardeners DEF C!StageInv, C!CappedInv, C!processVars
<1>1. CASE UNCHANGED <<leaf, stage>>
  BY <1>1 DEF C!Hooked
<1>2. ASSUME UNCHANGED leaf, NEW h \in C!Hardener, NEW n \in 1..8, stage' = [stage EXCEPT ![h] = n]
      PROVE  C!CappedInv'
  BY <1>2 DEF C!Hooked
<1>3. ASSUME NEW r \in Req, C!SpawnListener(r) PROVE C!CappedInv'
  <2> DEFINE h == <<r, "listener">>
  <2>1. leaf' = [leaf EXCEPT ![h] = leaf[Manager]] /\ stage' = [stage EXCEPT ![h] = 1]
    BY <1>3 DEF C!SpawnListener
  <2>2. h \in C!Hardener /\ h # Manager
    OBVIOUS
  <2>3. leaf' \in [C!Process -> C!Hardener \cup {Outside}] /\ leaf'[Manager] = leaf[Manager]
    BY <2>1, <2>2
  <2>4. C!Hooked \subseteq C!Hooked'
    BY <2>1, <2>2 DEF C!Hooked
  <2> QED BY <2>3, <2>4
<1>4. ASSUME NEW h \in C!Hardener, stage[h] # 0, leaf' = [leaf EXCEPT ![C!ProcessOf(h)] = h],
             NEW g \in C!Hardener, NEW n \in 1..8, stage' \in {stage, [stage EXCEPT ![g] = n]}
      PROVE  C!CappedInv'
  <2>1. leaf' \in [C!Process -> C!Hardener \cup {Outside}]
    BY <1>4
  <2>2. C!Hooked \subseteq C!Hooked' /\ stage'[h] # 0
    BY <1>4 DEF C!Hooked
  <2>3. CASE C!ProcessOf(h) = Manager
    <3>1. h[2] = "inspector" /\ leaf'[Manager] = h
      BY <1>4, <2>3
    <3> QED BY <2>1, <2>2, <3>1 DEF C!Hooked
  <2>4. CASE C!ProcessOf(h) # Manager
    <3>1. leaf'[Manager] = leaf[Manager]
      BY <1>4, <2>4
    <3> QED BY <2>1, <2>2, <3>1
  <2> QED BY <2>3, <2>4
<1>5. ASSUME NEW r \in Req,
             C!LaunchMain(r) \/ C!LaunchInspector(r) \/ C!Join(r) \/ C!Fail(r) \/ C!Teardown(r)
      PROVE  C!CappedInv'
  BY <1>1, <1>5 DEF C!LaunchMain, C!LaunchInspector, C!Launch, C!Join, C!Fail, C!Teardown
<1>6. ASSUME NEW r \in Req, C!SpawnInspector(r) PROVE C!CappedInv'
  <2> DEFINE g == <<r, "inspector">>
  <2>1. stage' = [stage EXCEPT ![g] = 1] /\ UNCHANGED leaf
    BY <1>6 DEF C!SpawnInspector
  <2>2. g \in C!Hardener
    BY DEF C!Hardener
  <2>3. 1 \in 1..8
    OBVIOUS
  <2> HIDE DEF g
  <2> QED BY <1>2, <2>1, <2>2, <2>3
<1>7. ASSUME NEW h \in C!Hardener,
             C!AlreadyJailed(h) \/ C!Busctl(h) \/ C!PollGivesUp(h) \/ C!SetNnp(h) \/ C!ClearDumpable(h)
             \/ C!ZeroCore(h) \/ C!Landlock(h) \/ C!Seccomp(h)
      PROVE  C!CappedInv'
  <2>1. leaf' = leaf /\ stage[h] \in 1..6
        /\ stage' \in {stage, [stage EXCEPT ![h] = stage[h] + 1], [stage EXCEPT ![h] = 8]}
    BY <1>7 DEF C!AlreadyJailed, C!Busctl, C!PollGivesUp, C!SetNnp, C!ClearDumpable, C!ZeroCore,
       C!Landlock, C!Seccomp, C!EndCgroup, C!Next_, C!Abort
  <2>2. stage[h] + 1 \in 1..8 /\ 8 \in 1..8
    BY <2>1
  <2> QED BY <1>1, <1>2, <2>1, <2>2
<1>8. ASSUME NEW h \in C!Hardener, C!FsLeaf(h) PROVE C!CappedInv'
  <2>1. stage[h] = 1 /\ stage' = [stage EXCEPT ![h] = 2]
        /\ (leaf' = leaf \/ leaf' = [leaf EXCEPT ![C!ProcessOf(h)] = h])
    BY <1>8 DEF C!FsLeaf, C!EndCgroup, C!Next_
  <2>2. 2 \in 1..8 /\ stage[h] # 0
    BY <2>1
  <2>3. CASE leaf' = leaf
    BY <1>2, <2>1, <2>2, <2>3
  <2>4. CASE leaf' = [leaf EXCEPT ![C!ProcessOf(h)] = h]
    <3>1. stage' \in {stage, [stage EXCEPT ![h] = 2]}
      BY <2>1
    <3> QED BY <1>4, <2>2, <2>4, <3>1
  <2> QED BY <2>1, <2>3, <2>4
<1>9. ASSUME NEW h \in C!Hardener, C!Migrate(h) PROVE C!CappedInv'
  <2>1. stage[h] # 0 /\ stage' = stage /\ leaf' = [leaf EXCEPT ![C!ProcessOf(h)] = h] /\ 1 \in 1..8
    BY <1>9 DEF C!Migrate
  <2> QED BY <1>4, <2>1
<1> QED BY <1>1, <1>3, <1>5, <1>6, <1>7, <1>8, <1>9 DEF C!Next, C!vars

\* Every step keeps the reports true.
LEMMA FlagStep ==
  C!StageInv /\ C!ThreadInv /\ C!CappedInv /\ C!FlagInv /\ [C!Next]_(C!vars) => C!FlagInv'
<1> SUFFICES ASSUME C!StageInv, C!ThreadInv, C!CappedInv, C!FlagInv, [C!Next]_(C!vars) PROVE C!FlagInv'
  OBVIOUS
<1> USE StepNumbers, Hardeners
    DEF C!StageInv, C!CappedInv, C!FlagInv, C!threadVars, C!processVars, C!HookThread
<1>1. CASE UNCHANGED C!vars
  BY <1>1 DEF C!vars
<1>2. ASSUME NEW r \in Req,
             C!LaunchMain(r) \/ C!LaunchInspector(r) \/ C!Join(r) \/ C!Fail(r) \/ C!Teardown(r)
      PROVE  C!FlagInv'
  BY <1>2 DEF C!LaunchMain, C!LaunchInspector, C!Launch, C!Join, C!Fail, C!Teardown
<1>3. ASSUME NEW r \in Req, C!SpawnListener(r) PROVE C!FlagInv'
  <2> DEFINE g == <<r, "listener">>
  <2>1. leaf' = [leaf EXCEPT ![g] = leaf[Manager]] /\ stage' = [stage EXCEPT ![g] = 1]
        /\ stage[g] = 0 /\ g \in C!Hardener
        /\ UNCHANGED <<host, nodump, nocore, fenced, filter, report>>
    BY <1>3 DEF C!SpawnListener
  <2>2. report[g] = {} /\ stage'[g] = 1
    BY <2>1
  <2>3. \A h \in C!Hardener : h # g => C!ProcessOf(h) # g
    BY DEF C!ProcessOf
  <2>4. \A h \in C!Hardener : h # g => stage'[h] = stage[h] /\ leaf'[C!ProcessOf(h)] = leaf[C!ProcessOf(h)]
    BY <2>1, <2>3
  <2> HIDE DEF g
  <2> QED BY <2>1, <2>2, <2>4
<1>4. ASSUME NEW r \in Req, C!SpawnInspector(r) PROVE C!FlagInv'
  BY <1>4 DEF C!SpawnInspector
<1>5. ASSUME NEW h \in C!Hardener, C!AlreadyJailed(h) \/ C!Busctl(h) \/ C!PollGivesUp(h)
      PROVE  C!FlagInv'
  BY <1>5 DEF C!AlreadyJailed, C!Busctl, C!PollGivesUp, C!EndCgroup, C!Next_, C!Flag, C!Jailed
<1>6. ASSUME NEW h \in C!Hardener, C!FsLeaf(h) PROVE C!FlagInv'
  BY <1>6 DEF C!FsLeaf, C!EndCgroup, C!Next_, C!Flag
<1>7. ASSUME NEW h \in C!Hardener, C!Migrate(h) PROVE C!FlagInv'
  BY <1>7 DEF C!Migrate
<1>8. ASSUME NEW h \in C!Hardener, C!SetNnp(h) \/ C!Seccomp(h) PROVE C!FlagInv'
  BY <1>8 DEF C!SetNnp, C!Seccomp, C!Next_, C!Abort
<1>9. ASSUME NEW h \in C!Hardener, C!ClearDumpable(h) \/ C!ZeroCore(h) \/ C!Landlock(h) PROVE C!FlagInv'
  BY <1>9 DEF C!ClearDumpable, C!ZeroCore, C!Landlock, C!Next_, C!Flag
<1> QED BY <1>1, <1>2, <1>3, <1>4, <1>5, <1>6, <1>7, <1>8, <1>9 DEF C!Next

\* Every step that starts a program starts it from a thread without a filter; one that
\* acts for the manager from a thread without no_new_privs; and a launch in a cgroup of
\* ours is put there by the hook of another call.
LEMMA ProgramStep ==
  C!StageInv /\ C!ThreadInv /\ C!CappedInv /\ C!ManagerCanLaunch /\ C!CappedByAnother
  /\ [C!Next]_(C!vars) => C!ManagerCanLaunch' /\ C!CappedByAnother'
<1> SUFFICES ASSUME C!StageInv, C!ThreadInv, C!CappedInv, C!ManagerCanLaunch, C!CappedByAnother,
                    [C!Next]_(C!vars)
             PROVE  C!ManagerCanLaunch' /\ C!CappedByAnother'
  OBVIOUS
<1>1. CASE UNCHANGED ran
  BY <1>1 DEF C!ManagerCanLaunch, C!CappedByAnother
<1>2. ASSUME NEW what \in {"launch", "teardown", "busctl"}, NEW thread, NEW process, NEW r,
             C!Exec(what, thread, process, r), thread \notin filter, what # "busctl" => thread \notin nnp
      PROVE  C!ManagerCanLaunch'
  BY <1>2 DEF C!Exec, C!ManagerCanLaunch
<1>3. ASSUME NEW r \in Req, NEW from \in {"idle", "listened"}, NEW to, C!Launch(r, from, to)
      PROVE  C!ManagerCanLaunch' /\ C!CappedByAnother'
  <2>1. C!Exec("launch", r, Manager, r) /\ call[r] = from
    BY <1>3 DEF C!Launch
  <2>2. r \notin filter /\ r \notin nnp
    BY Hardeners DEF C!ThreadInv
  <2>3. C!CappedByAnother'
    <3> SUFFICES ASSUME leaf[Manager] # Outside
                 PROVE  {C!Caller(h) : h \in C!Hooked} \ {r} # {}
      BY <2>1 DEF C!Exec, C!CappedByAnother
    <3> DEFINE h == leaf[Manager]
    <3>1. h \in C!Hooked /\ h \in C!Hardener /\ h[2] = "inspector" /\ stage[h] # 0
      BY DEF C!CappedInv, C!Hooked
    <3>2. stage[<<r, "inspector">>] = 0
      BY <2>1 DEF C!StageInv
    <3>3. h # <<r, "inspector">> => C!Caller(h) # r
      BY <3>1 DEF C!Caller, C!Hardener
    <3> QED BY <3>1, <3>2, <3>3
  <2> QED BY <1>2, <2>1, <2>2, <2>3
<1>4. ASSUME NEW r \in Req, C!Teardown(r) PROVE C!ManagerCanLaunch' /\ C!CappedByAnother'
  <2>1. C!Exec("teardown", r, Manager, r)
    BY <1>4 DEF C!Teardown
  <2>2. r \notin filter /\ r \notin nnp
    BY Hardeners DEF C!ThreadInv
  <2> QED BY <1>2, <2>1, <2>2 DEF C!Exec, C!CappedByAnother
<1>5. ASSUME NEW h \in C!Hardener, C!Busctl(h) PROVE C!ManagerCanLaunch' /\ C!CappedByAnother'
  <2>1. C!Exec("busctl", h, C!ProcessOf(h), C!Caller(h)) /\ stage[h] = 1
    BY <1>5, StepNumbers DEF C!Busctl, C!HookThread
  <2>2. h \notin filter
    BY <2>1, StepNumbers DEF C!ThreadInv
  <2> QED BY <1>2, <2>1, <2>2 DEF C!Exec, C!CappedByAnother
<1>6. \/ UNCHANGED ran
      \/ \E r \in Req : \/ C!Launch(r, "idle", "guest") \/ C!Launch(r, "listened", "inspecting")
                        \/ C!Teardown(r)
      \/ \E h \in C!Hardener : C!Busctl(h)
  BY DEF C!Next, C!vars, C!LaunchMain, C!LaunchInspector, C!SpawnListener, C!SpawnInspector, C!Join,
     C!Fail, C!AlreadyJailed, C!FsLeaf, C!Migrate, C!PollGivesUp, C!SetNnp, C!ClearDumpable,
     C!ZeroCore, C!Landlock, C!Seccomp
<1> QED BY <1>1, <1>3, <1>4, <1>5, <1>6

\* The invariant holds at the start, whatever the host,
LEMMA ConfineInit == C!Init => C!ConfineInv
<1> SUFFICES ASSUME C!Init PROVE C!ConfineInv
  OBVIOUS
<1>1. 0 \in 0..C!Failed /\ C!Done # 0
  BY StepNumbers
<1>2. C!StageInv /\ C!ThreadInv
  <2>1. stage \in [C!Hardener -> 0..C!Failed] /\ \A h \in C!Hardener : stage[h] = 0 /\ report[h] = {}
    BY <1>1 DEF C!Init
  <2>2. /\ call \in [Req -> {"idle", "guest", "listening", "listened", "inspecting", "hooked",
                            "ending", "over"}]
        /\ report \in [C!Hardener -> SUBSET (C!Soft \cup {"cgroup_jail"})]
    BY DEF C!Init
  <2>3. \A r \in Req : stage[<<r, "listener">>] = 0 /\ stage[<<r, "inspector">>] = 0
    BY <2>1, Hardeners
  <2>4. queued = {} /\ nnp = {} /\ filter = {}
    BY DEF C!Init
  <2> QED BY <2>1, <2>2, <2>3, <2>4 DEF C!StageInv, C!ThreadInv
<1>3. C!CappedInv
  BY Hardeners DEF C!Init, C!CappedInv
<1>4. C!FlagInv /\ C!ManagerCanLaunch /\ C!CappedByAnother
  BY <1>1 DEF C!Init, C!FlagInv, C!ManagerCanLaunch, C!CappedByAnother
<1> QED BY <1>2, <1>3, <1>4 DEF C!ConfineInv

\* and every step keeps it.
LEMMA ConfineStep == C!ConfineInv /\ [C!Next]_(C!vars) => C!ConfineInv'
BY StageStep, ThreadStep, CappedStep, FlagStep, ProgramStep DEF C!ConfineInv

\* The gates other than Confine leave its state alone.
LEMMA GatesConfine == [GatesNext]_<<vars, confine, asked>> => [C!Next]_(C!vars)
BY DEF GatesNext, AskVerdict, AskMessage, AskFilter, AskRead, AskProbe, Ask, Launch, Harden, confine,
   C!vars, C!processVars, C!threadVars

\* In every behaviour of the gates the hardening keeps its invariant.
THEOREM ConfineInvariant == GatesSpec => []C!ConfineInv
<1>1. GatesInit => C!ConfineInv
  BY ConfineInit DEF GatesInit, NotHardened
<1> QED BY <1>1, ConfineStep, GatesConfine, PTL DEF GatesSpec

\* A report of a hardening says nothing that is not in force, for any number of calls.
THEOREM ReportsAreTrue == GatesSpec => []ReportTrue
<1>1. C!ConfineInv => ReportTrue
  BY DEF C!ConfineInv, C!FlagInv, ReportTrue, C!ReportTrue, C!HookThread
<1> QED BY <1>1, ConfineInvariant, PTL

\* No hardening of its threads stops a manager from starting programs or sudo.
THEOREM ManagerKeepsItsRights == GatesSpec => []ManagerCanLaunch
<1>1. C!ConfineInv => ManagerCanLaunch
  BY DEF C!ConfineInv, ManagerCanLaunch
<1> QED BY <1>1, ConfineInvariant, PTL

\* A launch that is capped was capped by the inspector hook of another call.
THEOREM NoCallCapsItself == GatesSpec => []CappedByAnother
<1>1. C!ConfineInv => CappedByAnother
  BY DEF C!ConfineInv, CappedByAnother
<1> QED BY <1>1, ConfineInvariant, PTL

----------------------------------------------------------------------------
(* jailer-launch (LaunchGate) *)

\* The walk goes through the entries of the base, then of a launch's image.
LEMMA WalkShape ==
  ASSUME tree \in Paths
  PROVE  LET b == Len(tree["base"])
             i == IF request.verb = "launch" THEN Len(tree["image"]) ELSE 0
         IN  /\ b \in Nat /\ i \in Nat /\ Len(Walk) = b + i /\ DOMAIN Walk = 1..Len(Walk)
             /\ \A n \in 1..b : Walk[n] = <<"base", n>>
             /\ \A n \in 1..i : Walk[b + n] = <<"image", n>>
             /\ DOMAIN tree["base"] = 1..b /\ (i > 0 => DOMAIN tree["image"] = 1..i)
<1> DEFINE b == Len(tree["base"])
           i == IF request.verb = "launch" THEN Len(tree["image"]) ELSE 0
           S == {"base", "image"} \X Nat
           s == [k \in DOMAIN tree.base |-> <<"base", k>>]
           t == IF request.verb = "launch" THEN [k \in DOMAIN tree.image |-> <<"image", k>>] ELSE <<>>
<1>1. tree["base"] \in Seq(Entry) /\ tree["image"] \in Seq(Entry)
  BY DEF Paths
<1>2. b \in Nat /\ i \in Nat /\ DOMAIN tree["base"] = 1..b /\ DOMAIN tree["image"] = 1..Len(tree["image"])
  BY <1>1, LenProperties
<1>3. s = [k \in 1..b |-> <<"base", k>>]
  BY <1>2
<1>4. s \in Seq(S) /\ Len(s) = b
  BY <1>2, <1>3
<1>5. t \in Seq(S) /\ Len(t) = i /\ \A k \in 1..i : t[k] = <<"image", k>>
  <2>1. CASE request.verb = "launch"
    <3>1. t = [k \in 1..i |-> <<"image", k>>]
      BY <1>2, <2>1
    <3> QED BY <1>2, <2>1, <3>1
  <2>2. CASE request.verb # "launch"
    BY <2>2, EmptySeq
  <2> QED BY <2>1, <2>2
<1>6. Walk = s \o t
  BY DEF Walk
<1>7. \A k \in 1..b : s[k] = <<"base", k>>
  BY <1>3
<1> HIDE DEF s, t, S, b, i
<1>8. /\ s \o t \in Seq(S) /\ Len(s \o t) = Len(s) + Len(t)
      /\ \A n \in 1..(Len(s) + Len(t)) : (s \o t)[n] = IF n <= Len(s) THEN s[n] ELSE t[n - Len(s)]
  BY <1>4, <1>5, ConcatProperties
<1>9. Len(Walk) = b + i /\ DOMAIN Walk = 1..Len(Walk)
      /\ \A n \in 1..(b + i) : Walk[n] = IF n <= b THEN s[n] ELSE t[n - b]
  BY <1>4, <1>5, <1>6, <1>8, LenProperties
<1>10. ASSUME NEW n \in 1..b PROVE Walk[n] = <<"base", n>>
  <2>1. n \in 1..(b + i) /\ n <= b
    BY <1>2
  <2> QED BY <1>7, <1>9, <2>1
<1>11. ASSUME NEW n \in 1..i PROVE Walk[b + n] = <<"image", n>>
  <2>1. b + n \in 1..(b + i) /\ ~(b + n <= b) /\ (b + n) - b = n
    BY <1>2
  <2> QED BY <1>5, <1>9, <2>1
<1>12. b \in Nat /\ i \in Nat /\ DOMAIN tree["base"] = 1..b /\ (i > 0 => DOMAIN tree["image"] = 1..i)
  BY <1>2 DEF i
<1> QED BY <1>9, <1>10, <1>11, <1>12 DEF b, i

\* An entry is walked through after all that are above it in its path.
LEMMA WalkOrder ==
  ASSUME tree \in Paths, NEW n \in 1..Len(Walk)
  PROVE  \E p \in {"base", "image"} : \E k \in DOMAIN tree[p] :
           /\ Walk[n] = <<p, k>> /\ k \in Nat /\ k >= 1 /\ n \in Nat
           /\ \A j \in 1..k : \E m \in 1..n : Walk[m] = <<p, j>>
           /\ k > 1 => n > 1 /\ Walk[n - 1] = <<p, k - 1>>
<1> DEFINE b == Len(tree["base"])
           i == IF request.verb = "launch" THEN Len(tree["image"]) ELSE 0
<1>1. /\ b \in Nat /\ i \in Nat /\ Len(Walk) = b + i
      /\ \A m \in 1..b : Walk[m] = <<"base", m>>
      /\ \A m \in 1..i : Walk[b + m] = <<"image", m>>
      /\ DOMAIN tree["base"] = 1..b /\ (i > 0 => DOMAIN tree["image"] = 1..i)
  BY WalkShape
<1> HIDE DEF b, i
<1>2. CASE n <= b
  <2>1. n \in 1..b /\ n \in Nat /\ n >= 1
    BY <1>1, <1>2
  <2>2. \A j \in 1..n : j \in 1..b
    BY <1>1, <2>1
  <2>3. n > 1 => n - 1 \in 1..b
    BY <1>1, <2>1
  <2>4. /\ Walk[n] = <<"base", n>> /\ \A j \in 1..n : Walk[j] = <<"base", j>>
        /\ n > 1 => Walk[n - 1] = <<"base", n - 1>>
    BY <1>1, <2>1, <2>2, <2>3
  <2> WITNESS "base" \in {"base", "image"}
  <2>5. n \in DOMAIN tree["base"]
    BY <1>1, <2>1
  <2> WITNESS n \in DOMAIN tree["base"]
  <2> QED BY <2>1, <2>4
<1>3. CASE ~(n <= b)
  <2> DEFINE k == n - b
  <2>1. k \in 1..i /\ n = b + k /\ k \in Nat /\ k >= 1 /\ n \in Nat /\ i > 0
    BY <1>1, <1>3
  <2>2. \A j \in 1..k : j \in 1..i /\ b + j \in 1..n
    BY <1>1, <2>1
  <2>3. k > 1 => k - 1 \in 1..i /\ n - 1 = b + (k - 1) /\ n > 1
    BY <1>1, <2>1
  <2> HIDE DEF k
  <2>4. /\ Walk[n] = <<"image", k>> /\ \A j \in 1..k : Walk[b + j] = <<"image", j>>
        /\ k > 1 => Walk[n - 1] = <<"image", k - 1>>
    BY <1>1, <2>1, <2>2, <2>3
  <2>5. \A j \in 1..k : \E m \in 1..n : Walk[m] = <<"image", j>>
    BY <2>2, <2>4
  <2> WITNESS "image" \in {"base", "image"}
  <2>6. k \in DOMAIN tree["image"]
    BY <1>1, <2>1
  <2> WITNESS k \in DOMAIN tree["image"]
  <2> QED BY <2>1, <2>3, <2>4, <2>5
<1> QED BY <1>2, <1>3

\* The user changes no entry that the walk has passed, and what it changes stays below
\* an entry that the walk does not pass.
LEMMA UserStep == LaunchInv /\ UserMoves => LaunchInv'
<1> SUFFICES ASSUME LaunchInv, UserMoves PROVE LaunchInv'
  OBVIOUS
<1>1. PICK p \in DOMAIN tree : \E i \in DOMAIN tree[p] : Rewrite(p, i) \/ Replace(p, i)
  BY DEF UserMoves
<1>2. PICK i \in DOMAIN tree[p] : Rewrite(p, i) \/ Replace(p, i)
  BY <1>1
<1>3. tree \in Paths /\ p \in {"base", "image"} /\ UNCHANGED <<request, step, at, code>>
  BY <1>1 DEF LaunchInv, Paths, UserMoves
<1>4. tree[p] \in Seq(Entry) /\ DOMAIN tree[p] = 1..Len(tree[p]) /\ Len(tree[p]) \in Nat
      /\ i \in 1..Len(tree[p]) /\ i \in Nat /\ i >= 1
  BY <1>2, <1>3, LenProperties DEF Paths
<1>5. \E e \in Entry :
        /\ tree' = [tree EXCEPT ![p] = [tree[p] EXCEPT ![i] = e]]
        /\ \/ ~Trusted(tree[p][i]) /\ ~Trusted(e)
           \/ i > 1 /\ ~Trusted(tree[p][i - 1])
  <2>1. CASE Rewrite(p, i)
    <3>1. PICK s \in BOOLEAN :
            /\ s = tree[p][i].shared \/ tree[p][i].owner = "user"
            /\ tree' = [tree EXCEPT ![p][i].moved = TRUE, ![p][i].shared = s]
      BY <2>1 DEF Rewrite
    <3> DEFINE x == tree[p][i]
               e == [x EXCEPT !.moved = TRUE, !.shared = s]
    <3>2. x \in Entry
      BY <1>4
    <3>3. tree' = [tree EXCEPT ![p] = [tree[p] EXCEPT ![i] = e]]
      BY <1>3, <1>4, <3>1 DEF Paths
    <3>4. (x.owner = "user" \/ x.shared) /\ (s = x.shared \/ x.owner = "user")
      BY <2>1, <3>1 DEF Rewrite
    <3> HIDE DEF x
    <3>5. e \in Entry /\ e.owner = x.owner /\ e.shared = s
      BY <3>2 DEF Entry
    <3>6. ~Trusted(x) /\ ~Trusted(e)
      BY <3>4, <3>5 DEF Trusted
    <3> QED BY <3>3, <3>5, <3>6 DEF x
  <2>2. CASE Replace(p, i)
    BY <2>2 DEF Replace, Trusted
  <2> QED BY <1>2, <2>1, <2>2
<1>6. PICK e \in Entry :
        /\ tree' = [tree EXCEPT ![p] = [tree[p] EXCEPT ![i] = e]]
        /\ \/ ~Trusted(tree[p][i]) /\ ~Trusted(e)
           \/ i > 1 /\ ~Trusted(tree[p][i - 1])
  BY <1>5
<1> DEFINE t == [tree[p] EXCEPT ![i] = e]
<1>7. t \in Seq(Entry) /\ DOMAIN t = DOMAIN tree[p] /\ t[i] = e
      /\ \A j \in DOMAIN tree[p] : j # i => t[j] = tree[p][j]
  <2>1. t \in Seq(Entry)
    BY <1>4, ExceptSeq
  <2> QED BY <1>4, <2>1
<1> HIDE DEF t
<1>8. tree' = [tree EXCEPT ![p] = t]
  BY <1>6 DEF t
<1>9. tree' \in Paths /\ tree'[p] = t /\ \A q \in {"base", "image"} : q # p => tree'[q] = tree[q]
  BY <1>3, <1>7, <1>8 DEF Paths
<1>10. \A q \in {"base", "image"} : DOMAIN tree'[q] = DOMAIN tree[q]
  BY <1>7, <1>9
<1>11. Walk' = Walk
  BY <1>3, <1>10 DEF Walk
<1>12. ASSUME NEW n \in 1..(at - 1) PROVE Trusted(EntryAt(n))'
  <2>0. n \in Nat /\ at \in Nat /\ n <= at - 1 /\ at <= Len(Walk) + 1 /\ Len(Walk) \in Nat
    BY <1>3, WalkShape DEF LaunchInv
  <2>1. n \in 1..Len(Walk)
    BY <2>0
  <2>2. PICK q \in {"base", "image"} : \E k \in DOMAIN tree[q] :
           /\ Walk[n] = <<q, k>> /\ k \in Nat
           /\ k > 1 => n > 1 /\ Walk[n - 1] = <<q, k - 1>>
    BY <1>3, <2>1, WalkOrder
  <2>3. PICK k \in DOMAIN tree[q] :
           /\ Walk[n] = <<q, k>> /\ k \in Nat
           /\ k > 1 => n > 1 /\ Walk[n - 1] = <<q, k - 1>>
    BY <2>2
  <2>4. Trusted(tree[q][k])
    BY <2>3 DEF LaunchInv, EntryAt
  <2>5. ~(q = p /\ k = i)
    <3> SUFFICES ASSUME q = p, k = i PROVE FALSE
      OBVIOUS
    <3>1. i > 1 /\ ~Trusted(tree[p][i - 1])
      BY <1>6, <2>4
    <3>2. n - 1 \in 1..(at - 1) /\ Walk[n - 1] = <<p, i - 1>>
      BY <2>0, <2>3, <3>1
    <3> QED BY <3>1, <3>2 DEF LaunchInv, EntryAt
  <2>6. tree'[q][k] = tree[q][k]
    BY <1>7, <1>9, <2>3, <2>5
  <2> QED BY <1>11, <2>3, <2>4, <2>6 DEF EntryAt, Trusted
<1>13. ASSUME NEW q \in {"base", "image"}, NEW k \in DOMAIN tree[q], tree'[q][k].moved
       PROVE  \E j \in 1..k : ~Trusted(tree'[q][j])
  <2>1. CASE q # p
    BY <1>3, <1>9, <1>13, <2>1 DEF LaunchInv, Paths
  <2>2. CASE q = p /\ k < i
    <3>1. k \in Nat /\ \A j \in 1..k : j \in DOMAIN tree[p] /\ j # i
      BY <1>4, <2>2
    <3>2. tree[p][k].moved
      BY <1>7, <1>9, <1>13, <2>2, <3>1
    <3>3. \E j \in 1..k : ~Trusted(tree[p][j])
      BY <1>3, <2>2, <3>2 DEF LaunchInv, Paths
    <3> QED BY <1>7, <1>9, <2>2, <3>1, <3>3
  <2>3. CASE q = p /\ ~(k < i)
    <3>1. k \in Nat /\ i <= k
      BY <1>4, <2>3
    <3>2. CASE ~Trusted(e)
      <4>1. i \in 1..k /\ tree'[q][i] = e
        BY <1>4, <1>7, <1>9, <2>3, <3>1
      <4> QED BY <3>2, <4>1
    <3>3. CASE i > 1 /\ ~Trusted(tree[p][i - 1])
      <4>1. i - 1 \in 1..k /\ i - 1 \in DOMAIN tree[p] /\ i - 1 # i
        BY <1>4, <3>1, <3>3
      <4>2. tree'[q][i - 1] = tree[p][i - 1]
        BY <1>7, <1>9, <2>3, <4>1
      <4> QED BY <3>3, <4>1, <4>2
    <3> QED BY <1>6, <3>2, <3>3
  <2> QED BY <1>4, <2>1, <2>2, <2>3
<1>14. DOMAIN tree' = {"base", "image"}
  BY <1>9 DEF Paths
<1> QED BY <1>3, <1>9, <1>10, <1>11, <1>12, <1>13, <1>14 DEF LaunchInv, Valid, ValidJailId, IdEnds

\* Every step of the program and of the user keeps what the program goes on with.
LEMMA LaunchStep == LaunchInv /\ [Next]_vars => LaunchInv'
<1> SUFFICES ASSUME LaunchInv, [Next]_vars PROVE LaunchInv'
  OBVIOUS
<1>0. tree \in Paths /\ at \in Nat /\ Len(Walk) \in Nat
  BY WalkShape DEF LaunchInv
<1>1. ASSUME UNCHANGED <<request, tree, at>>,
             step' \in {"start", "walk", "exec", "remove", "over"},
             step' \in {"walk", "exec", "remove"} \/ (step' = "over" /\ code' # 3) => Valid(request),
             step' \in {"exec", "remove"} => at > Len(Walk)
      PROVE  LaunchInv'
  BY <1>1 DEF LaunchInv, Walk, EntryAt, Trusted, Valid, ValidJailId, IdEnds
<1>2. CASE UNCHANGED vars
  BY <1>1, <1>2 DEF LaunchInv, vars
<1>3. CASE Validate
  BY <1>1, <1>3 DEF Validate, Go, End
<1>4. CASE CheckEntry
  <2>1. CASE Trusted(EntryAt(at))
    <3>1. at' = at + 1 /\ at <= Len(Walk) /\ UNCHANGED <<request, tree, step, code>>
      BY <1>4, <2>1 DEF CheckEntry, EntryAt
    <3>2. Walk' = Walk
      BY <3>1 DEF Walk
    <3>3. \A n \in 1..(at' - 1) : n \in 1..(at - 1) \/ n = at
      BY <1>0, <3>1
    <3>4. \A n \in 1..(at' - 1) : Trusted(EntryAt(n))'
      BY <2>1, <3>1, <3>2, <3>3 DEF LaunchInv, EntryAt, Trusted
    <3>5. at' \in 1..(Len(Walk) + 1)
      BY <1>0, <3>1
    <3>6. step = "walk"
      BY <1>4 DEF CheckEntry
    <3> QED BY <3>1, <3>2, <3>4, <3>5, <3>6 DEF LaunchInv, Valid, ValidJailId, IdEnds, Trusted
  <2>2. CASE ~Trusted(EntryAt(at))
    <3>1. End(3)
      BY <1>4, <2>2 DEF CheckEntry, EntryAt
    <3> QED BY <1>1, <3>1 DEF End
  <2> QED BY <2>1, <2>2
<1>5. CASE Prepare
  <2>1. step = "walk" /\ at > Len(Walk) /\ (End(4) \/ Go("exec"))
    BY <1>5 DEF Prepare
  <2> QED BY <1>1, <2>1 DEF LaunchInv, End, Go
<1>6. CASE Exec
  <2>1. step = "exec" /\ (End(5) \/ End(0))
    BY <1>6 DEF Exec
  <2> QED BY <1>1, <2>1 DEF LaunchInv, End
<1>7. CASE Resolve
  <2>1. step = "walk" /\ at > Len(Walk) /\ (End(4) \/ End(0) \/ End(3) \/ Go("remove"))
    BY <1>7 DEF Resolve
  <2> QED BY <1>1, <2>1 DEF LaunchInv, End, Go
<1>8. CASE RemoveJail
  <2>1. step = "remove" /\ (End(4) \/ End(0))
    BY <1>8 DEF RemoveJail
  <2> QED BY <1>1, <2>1 DEF LaunchInv, End
<1> QED BY <1>2, <1>3, <1>4, <1>5, <1>6, <1>7, <1>8, UserStep DEF Next

\* In every behaviour of the gates, jailer-launch keeps its invariant.
THEOREM LaunchInvariant == GatesSpec => [](IF gate = "launch" THEN LaunchInv ELSE step = "idle")
<1> DEFINE Inv == IF gate = "launch" THEN LaunchInv ELSE step = "idle"
<1>1. GatesInit => Inv
  <2> SUFFICES ASSUME Init PROVE LaunchInv
    BY DEF GatesInit, NotLaunched
  <2>1. PICK c \in Cases : request = c.request /\ tree = c.tree
    BY DEF Init
  <2>2. /\ request.verb \in {"launch", "cleanup"} /\ request.id \in Seq(Char) /\ tree \in Paths
        /\ \A p \in DOMAIN tree : \A i \in DOMAIN tree[p] : ~tree[p][i].moved
    BY <2>1, LaunchAssumption DEF LaunchAssumption
  <2>3. Len(Walk) \in Nat
    BY <2>2, WalkShape
  <2>4. step = "start" /\ at = 1
    BY DEF Init
  <2> QED BY <2>2, <2>3, <2>4 DEF LaunchInv
<1>2. Inv /\ [GatesNext]_<<vars, confine, asked>> => Inv'
  <2> SUFFICES ASSUME Inv, [GatesNext]_<<vars, confine, asked>> PROVE Inv'
    OBVIOUS
  <2>1. CASE gate = "launch"
    <3>1. gate' = "launch" /\ [Next]_vars
      BY <2>1 DEF GatesNext, AskVerdict, AskMessage, AskFilter, AskRead, AskProbe, Ask, Launch,
         Harden, asked
    <3> QED BY <2>1, <3>1, LaunchStep
  <2>2. CASE gate # "launch"
    <3>1. gate' # "launch" /\ step' = step
      BY <2>2 DEF GatesNext, AskVerdict, AskMessage, AskFilter, AskRead, AskProbe, Ask, Launch, Harden,
         asked, vars
    <3> QED BY <2>2, <3>1
  <2> QED BY <2>1, <2>2
<1> QED BY <1>1, <1>2, PTL DEF GatesSpec

\* Root acts on nothing the user ever had a hand in, in paths of any length, whatever the
\* user changes between any two steps of the walk and after it.
THEOREM RootActsOnWhatItChecked == GatesSpec => []NobodySteersRoot
<1>1. LaunchInv => NobodySteersRoot
  <2> SUFFICES ASSUME LaunchInv, Acts, NEW n \in DOMAIN Walk PROVE ~tree[Walk[n][1]][Walk[n][2]].moved
    BY DEF NobodySteersRoot
  <2>1. tree \in Paths /\ at \in Nat /\ Len(Walk) \in Nat /\ at > Len(Walk)
    BY WalkShape DEF LaunchInv, Acts
  <2>2. DOMAIN Walk = 1..Len(Walk)
    BY <2>1, WalkShape
  <2>3. PICK p \in {"base", "image"} : \E k \in DOMAIN tree[p] :
           Walk[n] = <<p, k>> /\ \A j \in 1..k : \E m \in 1..n : Walk[m] = <<p, j>>
    BY <2>1, <2>2, WalkOrder
  <2>4. PICK k \in DOMAIN tree[p] :
           Walk[n] = <<p, k>> /\ \A j \in 1..k : \E m \in 1..n : Walk[m] = <<p, j>>
    BY <2>3
  <2>5. \A m \in 1..n : Trusted(EntryAt(m))
    <3>1. \A m \in 1..n : m \in 1..(at - 1)
      BY <2>1, <2>2
    <3> QED BY <3>1 DEF LaunchInv
  <2>6. \A j \in 1..k : Trusted(tree[p][j])
    BY <2>4, <2>5 DEF EntryAt
  <2>7. p \in DOMAIN tree
    BY <2>1 DEF Paths
  <2> QED BY <2>4, <2>6, <2>7 DEF LaunchInv
<1>2. step = "idle" => NobodySteersRoot
  BY DEF NobodySteersRoot, Acts
<1>3. (IF gate = "launch" THEN LaunchInv ELSE step = "idle") => NobodySteersRoot
  BY <1>1, <1>2
<1> QED BY <1>3, LaunchInvariant, PTL

----------------------------------------------------------------------------
(* The gates that answer at once (Verdict, ReadGate, SpotCheck) *)

\* A gate is put an input of its own kind, and keeps it.
LEMMA AskedInvariant == GatesSpec => []AskedInv
<1>1. GatesInit => AskedInv
  BY DEF GatesInit, AskedInv
<1>2. AskedInv /\ [GatesNext]_<<vars, confine, asked>> => AskedInv'
  <2> SUFFICES ASSUME AskedInv, [GatesNext]_<<vars, confine, asked>> PROVE AskedInv'
    OBVIOUS
  <2>1. CASE UNCHANGED asked
    BY <2>1 DEF AskedInv, asked
  <2>2. CASE ~UNCHANGED asked
    <3>1. AskVerdict \/ AskMessage \/ AskFilter \/ AskRead \/ AskProbe
      BY <2>2 DEF GatesNext, Launch, Harden
    <3>2. gate' \in {"claim", "message", "call", "read", "probe"}
      BY <3>1 DEF AskVerdict, AskMessage, AskFilter, AskRead, AskProbe, Ask
    <3> QED
      BY <3>1, <3>2 DEF AskedInv, AskVerdict, AskMessage, AskFilter, AskRead, AskProbe, Ask
  <2> QED BY <2>1, <2>2
<1> QED BY <1>1, <1>2, PTL DEF GatesSpec

\* A claim with the reasons it names reaches no further than each allows.
LEMMA DispositionFits ==
  ASSUME NEW c \in [framed : BOOLEAN, same : BOOLEAN, outcome : V!Outcome, reasons : Seq(V!Reason)]
  PROVE  V!GravestReasonHolds(c)
<1> DEFINE R == V!Range(c.reasons)
<1>1. R \subseteq V!Reason
  BY DEF V!Range
<1>2. c.outcome \in {"clear", "suspect", "failed"} /\ c.same \in BOOLEAN
  BY DEF V!Outcome
<1>3. ~V!ValidClaim(c) => V!Disposition(c) = "error"
  BY DEF V!Disposition
<1>4. V!ValidClaim(c) /\ V!Disposition(c) = "advance" => c.same /\ c.outcome = "clear"
  BY <1>2 DEF V!Disposition, V!Decide
<1>5. V!ValidClaim(c) /\ V!Disposition(c) = "hold" => c.same /\ c.outcome = "suspect"
  BY <1>2 DEF V!Disposition, V!Decide
<1>6. V!Disposition(c) \in {"advance", "hold", "drop", "error"}
  BY <1>2 DEF V!Disposition, V!Decide
<1>7. V!ValidClaim(c) /\ c.outcome = "clear" => c.reasons = <<"hash_ok">>
  BY <1>2 DEF V!ValidClaim, V!Consistent
<1>8. V!ValidClaim(c) /\ c.outcome = "suspect" => "marker_failed" \notin R /\ "size_cap" \notin R
  BY <1>2 DEF V!ValidClaim, V!Consistent
<1>9. c.reasons = <<"hash_ok">> => R = {"hash_ok"}
  <2> SUFFICES ASSUME c.reasons = <<"hash_ok">> PROVE R = {"hash_ok"}
    OBVIOUS
  <2>1. DOMAIN c.reasons = {1} /\ c.reasons[1] = "hash_ok"
    OBVIOUS
  <2> QED BY <2>1 DEF V!Range
<1>10. \A r \in R : V!Reach(V!Disposition(c)) <= V!Deserves(r)
  <2> SUFFICES ASSUME NEW r \in R PROVE V!Reach(V!Disposition(c)) <= V!Deserves(r)
    OBVIOUS
  <2> HIDE DEF R
  <2>1. CASE V!Disposition(c) = "advance"
    <3>1. r = "hash_ok"
      BY <1>3, <1>4, <1>7, <1>9, <2>1
    <3> QED BY <2>1, <3>1 DEF V!Reach, V!Deserves
  <2>2. CASE V!Disposition(c) = "hold"
    <3>1. r \in {"hash_ok", "hash_mismatch", "analyzer_stub", "marker_suspect"}
      BY <1>1, <1>3, <1>5, <1>8, <2>2 DEF V!Reason
    <3> QED BY <2>2, <3>1 DEF V!Reach, V!Deserves
  <2>3. CASE V!Disposition(c) \in {"drop", "error"}
    <3>1. V!Reach(V!Disposition(c)) = 0
      BY <2>3 DEF V!Reach
    <3>2. V!Deserves(r) \in 0..2
      BY DEF V!Deserves
    <3> QED BY <3>1, <3>2
  <2> QED BY <1>6, <2>1, <2>2, <2>3
<1>11. V!Reach(V!Disposition(c)) > 0 => c.same
  BY <1>3, <1>4, <1>5, <1>6 DEF V!Reach
<1>12. V!InspectionPasses(c) => c.reasons = <<"hash_ok">>
  BY <1>3, <1>7 DEF V!InspectionPasses
<1> QED BY <1>10, <1>11, <1>12 DEF V!GravestReasonHolds

\* No claim of a guest, however long, takes a body further than the gravest reason it carries
\* allows, nor a body that does not hash to what was staged anywhere.
THEOREM NoClaimGoesTooFar == GatesSpec => []GravestReasonHolds
<1>1. AskedInv => GravestReasonHolds
  BY DispositionFits, GatesAssumption DEF AskedInv, GravestReasonHolds, GatesAssumption
<1> QED BY <1>1, AskedInvariant, PTL

\* A name without a separator is cut into itself.
LEMMA OneComponent ==
  ASSUME NEW s \in Seq(V!Char), {"/", "\\"} \cap V!Range(s) = {}
  PROVE  V!Components(s) = {s}
<1> DEFINE cuts == {0, Len(s) + 1} \cup {i \in DOMAIN s : s[i] \in {"/", "\\"}}
<1> DEFINE next(i) == CHOOSE j \in cuts : j > i /\ \A k \in cuts : k > i => j <= k
<1>1. Len(s) \in Nat
  OBVIOUS
<1>2. cuts = {0, Len(s) + 1}
  BY DEF V!Range
<1>3. next(0) = Len(s) + 1
  BY <1>1, <1>2
<1>4. cuts \ {Len(s) + 1} = {0}
  BY <1>1, <1>2
<1>5. V!Components(s) = {SubSeq(s, i + 1, next(i) - 1) : i \in cuts \ {Len(s) + 1}}
  BY DEF V!Components
<1> HIDE DEF next, cuts
<1>6. V!Components(s) = {SubSeq(s, 0 + 1, next(0) - 1)}
  BY <1>4, <1>5
<1>7. 0 + 1 = 1 /\ next(0) - 1 = Len(s)
  BY <1>1, <1>3
<1>8. SubSeq(s, 1, Len(s)) = s
  OBVIOUS
<1> QED BY <1>6, <1>7, <1>8

\* A filename a guest chose is taken only when it is one entry of a directory, and so is the
\* jail id a caller chose, whatever their length.
THEOREM NamesAreOneEntry == GatesSpec => []NamesAreOpaque
<1>1. ASSUME NEW m, m.filename \in Seq(V!Char) PROVE V!FilenameIsOpaque(m)
  <2> SUFFICES ASSUME V!Accepts(m)
               PROVE  /\ V!Components(m.filename) = {m.filename}
                      /\ m.filename \notin {<<>>, <<".">>, <<".", ".">>}
                      /\ "NUL" \notin V!Range(m.filename)
                      /\ ~(Len(m.filename) > 1 /\ m.filename[2] = ":")
    BY DEF V!FilenameIsOpaque
  <2> DEFINE s == m.filename
  <2>1. s \in Seq(V!Char) /\ V!ValidFilename(s)
    BY <1>1 DEF V!Accepts
  <2> HIDE DEF s
  <2>2. Len(s) \in Nat /\ Len(s) >= 1
    BY <2>1, GatesAssumption DEF V!ValidFilename, GatesAssumption
  <2>3. {"/", "\\", "NUL"} \cap V!Range(s) = {} /\ s \notin {<<".">>, <<".", ".">>}
    BY <2>1 DEF V!ValidFilename, V!NoTraversal
  <2>4. V!Components(s) = {s}
    BY <2>1, <2>3, OneComponent
  <2>5. ~(Len(s) > 1 /\ s[2] = ":")
    BY <2>1, <2>2 DEF V!ValidFilename
  <2>6. s # <<>>
    BY <2>2
  <2> QED BY <2>3, <2>4, <2>5, <2>6 DEF s
<1>2. LaunchInv => JailIdIsOneName
  <2> SUFFICES ASSUME LaunchInv, Valid(request)
               PROVE  /\ {"/", "."} \cap Range(request.id) = {}
                      /\ Head(request.id) # "-" /\ Last(request.id) # "-" /\ Len(request.id) >= MinId
    BY DEF JailIdIsOneName, LaunchInv
  <2> DEFINE id == request.id
  <2>1. id \in Seq(Char) /\ ValidJailId(id)
    BY DEF Valid, LaunchInv
  <2> HIDE DEF id
  <2>2. Len(id) \in Nat /\ Len(id) >= 1 /\ Len(id) >= MinId /\ DOMAIN id = 1..Len(id)
    BY <2>1, LaunchAssumption DEF ValidJailId, LaunchAssumption
  <2>3. Head(id) = id[1] /\ Last(id) = id[Len(id)]
    BY <2>1, <2>2 DEF Last
  <2>4. \A i \in DOMAIN id : id[i] \in {"alnum", "-"}
    BY <2>1, <2>2, <2>3 DEF ValidJailId, IdEnds
  <2>5. {"/", "."} \cap Range(id) = {}
    BY <2>4 DEF Range
  <2>6. Head(id) # "-" /\ Last(id) # "-"
    BY <2>1, <2>3 DEF ValidJailId, IdEnds
  <2> QED BY <2>2, <2>5, <2>6 DEF id
<1>3. AskedInv => (gate = "message" => V!FilenameIsOpaque(input))
  BY <1>1, GatesAssumption DEF AskedInv, GatesAssumption
<1>4. AskedInv /\ (IF gate = "launch" THEN LaunchInv ELSE step = "idle") => NamesAreOpaque
  BY <1>2, <1>3 DEF NamesAreOpaque
<1> QED BY <1>4, AskedInvariant, LaunchInvariant, PTL

\* Of the checks of a read, the first that hits is found.
LEMMA FirstHit ==
  ASSUME NEW I \in SUBSET (1..13), I # {}
  PROVE  Min(I) \in I
<1>1. \E i \in I : \A j \in I : i <= j
  <2> SUFFICES ASSUME \A i \in I : \E j \in I : j < i PROVE FALSE
    OBVIOUS
  <2>1. 1 \notin I /\ 2 \notin I /\ 3 \notin I /\ 4 \notin I
    OBVIOUS
  <2>2. 5 \notin I /\ 6 \notin I /\ 7 \notin I
    BY <2>1
  <2>3. 8 \notin I /\ 9 \notin I /\ 10 \notin I
    BY <2>1, <2>2
  <2>4. 11 \notin I /\ 12 \notin I /\ 13 \notin I
    BY <2>1, <2>2, <2>3
  <2>5. \A i \in 1..13 : \/ i \in 1..4 \/ i \in 5..7 \/ i \in 8..10 \/ i \in 11..13
    OBVIOUS
  <2>6. \A i \in 1..4 : i \notin I
    BY <2>1
  <2>7. \A i \in 5..7 : i \notin I
    BY <2>2
  <2>8. \A i \in 8..10 : i \notin I
    BY <2>3
  <2>9. \A i \in 11..13 : i \notin I
    BY <2>4
  <2> QED BY <2>5, <2>6, <2>7, <2>8, <2>9
<1> QED BY <1>1 DEF Min

\* Sequences of six and of seven.
LEMMA SixAndSeven ==
  ASSUME NEW T, NEW u \in T, NEW v \in T, NEW w \in T, NEW x \in T, NEW y \in T, NEW z \in T,
         NEW t \in T
  PROVE  <<u, v, w, x, y, z>> \in Seq(T) /\ <<u, v, w, x, y, z, t>> \in Seq(T)
OBVIOUS

\* The checks of a read, one after another: each denies with an exit code of its own, and
\* a call is allowed only when none hits.
LEMMA ReadChecks ==
  ASSUME NEW c
  PROVE  \/ \E check : check.exit \in {1, 2} /\ Answer(c) = Emit(c, Deny(check))
         \/ /\ Answer(c) = Emit(c, Allow(c))
            /\ \A i \in 1..6 : ~PathChecks(c)[i].hit
            /\ \A i \in 1..7 : ~FileChecks(c)[i].hit
<1> DEFINE path == PathChecks(c)
<1> DEFINE file == FileChecks(c)
<1> DEFINE checks == path \o file
<1> DEFINE I == {i \in 1..Len(checks) : checks[i].hit}
<1> DEFINE first == IF I # {} THEN Min(I) ELSE 0
<1> DEFINE T == {path[i] : i \in 1..6} \cup {file[i] : i \in 1..7}
<1>1. Answer(c) = Emit(c, IF first = 0 THEN Allow(c) ELSE Deny(checks[first]))
  BY DEF Answer, SelectInSeq
<1>2. Len(path) = 6 /\ Len(file) = 7
  BY DEF PathChecks, FileChecks
<1>3. path = <<path[1], path[2], path[3], path[4], path[5], path[6]>>
  BY DEF PathChecks
<1>4. file = <<file[1], file[2], file[3], file[4], file[5], file[6], file[7]>>
  BY DEF FileChecks
<1>5. \A i \in 1..6 : path[i].exit \in {1, 2}
  <2>1. path[1].exit = 2 /\ path[2].exit = 2 /\ path[3].exit = 2
    BY DEF PathChecks
  <2>2. path[4].exit = 2 /\ path[5].exit = 2 /\ path[6].exit = 2
    BY DEF PathChecks
  <2> HIDE DEF path
  <2> QED BY <2>1, <2>2
<1>6. \A i \in 1..7 : file[i].exit \in {1, 2}
  <2>1. file[1].exit = 1 /\ file[2].exit = 1 /\ file[3].exit = 2 /\ file[4].exit = 2
    BY DEF FileChecks
  <2>2. file[5].exit = 1 /\ file[6].exit = 2 /\ file[7].exit = 1
    BY DEF FileChecks
  <2> HIDE DEF file
  <2> QED BY <2>1, <2>2
<1> HIDE DEF path, file
<1>7. path \in Seq(T) /\ file \in Seq(T)
  <2>1. /\ path[1] \in T /\ path[2] \in T /\ path[3] \in T /\ path[4] \in T /\ path[5] \in T
        /\ path[6] \in T
    OBVIOUS
  <2>2. /\ file[1] \in T /\ file[2] \in T /\ file[3] \in T /\ file[4] \in T /\ file[5] \in T
        /\ file[6] \in T /\ file[7] \in T
    OBVIOUS
  <2> HIDE DEF T
  <2>3. path \in Seq(T)
    <3>1. <<path[1], path[2], path[3], path[4], path[5], path[6]>> \in Seq(T)
      BY <2>1, SixAndSeven
    <3> QED BY <1>3, <3>1, Zenon
  <2>4. file \in Seq(T)
    <3>1. <<file[1], file[2], file[3], file[4], file[5], file[6], file[7]>> \in Seq(T)
      BY <2>2, SixAndSeven
    <3> QED BY <1>4, <3>1, Zenon
  <2> QED BY <2>3, <2>4
<1>8. /\ Len(checks) = 13
      /\ \A i \in 1..6 : checks[i] = path[i]
      /\ \A i \in 1..7 : checks[6 + i] = file[i]
  <2> HIDE DEF T
  <2>1. path \in Seq(T) /\ file \in Seq(T)
    BY <1>7
  <2>2. /\ Len(checks) = Len(path) + Len(file)
        /\ \A i \in 1..(Len(path) + Len(file)) :
             checks[i] = IF i <= Len(path) THEN path[i] ELSE file[i - Len(path)]
    BY <2>1, ConcatProperties
  <2> HIDE DEF checks
  <2>3. Len(checks) = 13
    BY <1>2, <2>2
  <2>4. \A i \in 1..6 : checks[i] = path[i]
    BY <1>2, <2>2
  <2>5. ASSUME NEW i \in 1..7 PROVE checks[6 + i] = file[i]
    <3>1. 6 + i \in 1..13 /\ ~(6 + i <= 6) /\ (6 + i) - 6 = i
      OBVIOUS
    <3> QED BY <1>2, <2>2, <3>1
  <2> QED BY <2>3, <2>4, <2>5
<1>9. \A i \in 1..13 : checks[i].exit \in {1, 2}
  <2> HIDE DEF checks
  <2> SUFFICES ASSUME NEW i \in 1..13 PROVE checks[i].exit \in {1, 2}
    OBVIOUS
  <2>1. CASE i \in 1..6
    BY <1>5, <1>8, <2>1
  <2>2. CASE i \notin 1..6
    <3>1. i - 6 \in 1..7 /\ 6 + (i - 6) = i
      BY <2>2
    <3> QED BY <1>6, <1>8, <3>1
  <2> QED BY <2>1, <2>2
<1> HIDE DEF checks
<1>10. CASE I = {}
  <2>1. first = 0
    BY <1>10
  <2>2. \A i \in 1..6 : ~checks[i].hit
    BY <1>8, <1>10
  <2>3. \A i \in 1..7 : ~checks[6 + i].hit
    <3> SUFFICES ASSUME NEW i \in 1..7 PROVE ~checks[6 + i].hit
      OBVIOUS
    <3>1. 6 + i \in 1..Len(checks)
      BY <1>8
    <3> QED BY <1>10, <3>1
  <2>4. Answer(c) = Emit(c, Allow(c))
    BY <1>1, <2>1
  <2> QED BY <1>8, <2>2, <2>3, <2>4 DEF path, file
<1>11. CASE I # {}
  <2>1. I \in SUBSET (1..13)
    BY <1>8
  <2>2. first \in 1..13 /\ first # 0
    <3>1. Min(I) \in I
      BY <1>11, <2>1, FirstHit
    <3>2. first = Min(I)
      BY <1>11
    <3>3. Min(I) \in 1..13
      BY <2>1, <3>1
    <3> HIDE DEF first
    <3> QED BY <3>2, <3>3
  <2> HIDE DEF first
  <2>3. checks[first].exit \in {1, 2}
    BY <1>9, <2>2
  <2>4. Answer(c) = Emit(c, Deny(checks[first]))
    BY <1>1, <2>2
  <2> QED BY <2>3, <2>4
<1> QED BY <1>10, <1>11

\* A read that exits with 0 has printed an allowlisted file, whole, and its receipt says so;
\* a denied read printed nothing, whatever changes between its checks.
THEOREM ReadsAreHonest == GatesSpec => []ReadIsHonest
<1>1. ASSUME NEW c, {c.bytes, c.size} \subseteq Nat PROVE ReadHonestly(c)
  <2> DEFINE a == Answer(c)
  <2>1. CASE \E check : check.exit \in {1, 2} /\ Answer(c) = Emit(c, Deny(check))
    <3>1. PICK check : check.exit \in {1, 2} /\ Answer(c) = Emit(c, Deny(check))
      BY <2>1
    <3>2. a.exit # 0 /\ a.printed = 0
      BY <3>1 DEF Emit, Deny
    <3> QED BY <3>2 DEF ReadHonestly
  <2>2. CASE /\ Answer(c) = Emit(c, Allow(c))
             /\ \A i \in 1..6 : ~PathChecks(c)[i].hit
             /\ \A i \in 1..7 : ~FileChecks(c)[i].hit
    <3>1. /\ a.verdict = "allow" /\ a.printed = Bytes(c)
          /\ a.exit = IF c.fails = "receipt" THEN 1 ELSE 0
      BY <2>2 DEF Emit, Allow
    <3>2. ~(Flag(c) > HardCap)
      <4>1. ~PathChecks(c)[1].hit
        BY <2>2
      <4> QED BY <4>1 DEF PathChecks
    <3>3. ~(\A e \in AllowEntries : e.request = c.path => e.canonical # c.canonical)
      <4>1. ~PathChecks(c)[6].hit
        BY <2>2
      <4> QED BY <4>1 DEF PathChecks
    <3>4. c.type = "file"
      <4>1. ~FileChecks(c)[3].hit
        BY <2>2
      <4> QED BY <4>1 DEF FileChecks
    <3>5. c.opened = c.looked
      <4>1. ~FileChecks(c)[4].hit
        BY <2>2
      <4> QED BY <4>1 DEF FileChecks
    <3>6. ~(Bytes(c) > Ceiling(c))
      <4>1. ~FileChecks(c)[6].hit
        BY <2>2
      <4> QED BY <4>1 DEF FileChecks
    <3>7. Bytes(c) = c.size /\ c.size <= HardCap /\ (c.flag # "none" => c.size <= c.bytes)
      <4>1. c.size \in Nat /\ c.bytes \in Nat
        BY <1>1
      <4> QED BY <3>6, <4>1, ReadAssumption DEF Bytes, Ceiling, Least, Flag, ReadAssumption
    <3> QED BY <3>1, <3>3, <3>4, <3>5, <3>7 DEF ReadHonestly
  <2> QED BY <2>1, <2>2, ReadChecks
<1>2. AskedInv => ReadIsHonest
  BY <1>1, GatesAssumption DEF AskedInv, GatesAssumption, ReadIsHonest
<1> QED BY <1>2, AskedInvariant, PTL

\* Both instances of the library count alike.
LEMMA SameCount == ASSUME NEW S PROVE H!Cardinality(S) = Cardinality(S)
BY DEF H!Cardinality, Cardinality

\* A finite set laid out as a sequence: every element is there, and nothing else.
LEMMA LaidOut ==
  ASSUME NEW S, IsFiniteSet(S)
  PROVE  /\ H!SetToSeq(S) \in Seq(S)
         /\ Len(H!SetToSeq(S)) = Cardinality(S)
         /\ \A x \in S : \E i \in 1..Len(H!SetToSeq(S)) : H!SetToSeq(S)[i] = x
<1> DEFINE n == Cardinality(S)
<1> DEFINE s == H!SetToSeq(S)
<1>1. n \in Nat /\ ExistsBijection(1..n, S)
  BY FS_CardinalityType
<1>2. \E f \in [1..n -> S] : H!IsInjective(f)
  BY <1>1 DEF ExistsBijection, Bijection, Injection, IsInjective, H!IsInjective
<1>3. s \in [1..n -> S] /\ H!IsInjective(s)
  <2>1. \E f \in [1..H!Cardinality(S) -> S] : H!IsInjective(f)
    BY <1>2, SameCount, Zenon
  <2>2. s \in [1..H!Cardinality(S) -> S] /\ H!IsInjective(s)
    BY <2>1 DEF H!SetToSeq
  <2> QED BY <2>2, SameCount, Zenon
<1>4. s \in Injection(1..n, S)
  BY <1>3 DEF Injection, IsInjective, H!IsInjective
<1>5. Cardinality(1..n) = n
  BY <1>1, FS_Interval
<1>6. s \in Surjection(1..n, S)
  BY <1>4, <1>5, FS_Injection
<1> HIDE DEF s
<1>7. \A x \in S : \E i \in 1..n : s[i] = x
  BY <1>6 DEF Surjection
<1>8. s \in Seq(S) /\ Len(s) = n
  BY <1>1, <1>3
<1> QED BY <1>7, <1>8 DEF s

\* The homes a probe looks for.
LEMMA HomesFinite ==
  ASSUME NEW accounts, NEW manager, IsFiniteSet(accounts)
  PROVE  /\ IsFiniteSet(H!HostHomes(accounts, manager))
         /\ manager \in H!HostHomes(accounts, manager)
         /\ Cardinality(H!HostHomes(accounts, manager)) \in Nat \ {0}
<1> DEFINE persons == {b \in accounts : H!Person(b)}
<1> DEFINE theirs == {a.home : a \in persons}
<1> DEFINE homes == H!HostHomes(accounts, manager)
<1>1. IsFiniteSet(persons)
  BY FS_Subset
<1>2. IsFiniteSet(theirs)
  <2> HIDE DEF persons
  <2> DEFINE f == [a \in persons |-> a.home]
  <2>1. f \in Surjection(persons, theirs)
    BY DEF Surjection
  <2> HIDE DEF f, theirs
  <2> QED BY <1>1, <2>1, FS_Surjection
<1>3. homes = {manager} \cup theirs
  BY DEF H!HostHomes
<1> HIDE DEF homes, theirs
<1>4. IsFiniteSet({manager})
  BY FS_Singleton
<1>5. IsFiniteSet(homes)
  BY <1>2, <1>3, <1>4, FS_Union
<1>6. homes # {}
  BY <1>3
<1>7. Cardinality(homes) \in Nat /\ Cardinality(homes) # 0
  BY <1>5, <1>6, FS_CardinalityType, FS_EmptySet
<1> QED BY <1>3, <1>5, <1>7 DEF homes

\* The last line a probe shows.
LastLine(homes, guest) == IF homes \cap guest = {} THEN H!Absent(homes) ELSE <<H!Visible, 0>>

\* A transcript: two typed lines, the n homes that are listed, and one line more.
Transcript(all, listed, last, n) ==
  /\ all \in Seq({all[i] : i \in 1..(n + 3)}) /\ Len(all) = n + 3
  /\ all[1].echo /\ all[2].echo /\ all[n + 3] = H!Shown(last)
  /\ \A i \in 1..n : \E h \in listed : all[2 + i] = H!Shown(<<h, 0>>)
  /\ \A h \in listed : \E i \in 1..n : all[2 + i] = H!Shown(<<h, 0>>)

\* What the console shows of a probe is such a transcript.
LEMMA ProbeShape ==
  ASSUME NEW homes, NEW guest, NEW listed, IsFiniteSet(listed)
  PROVE  \E n \in Nat : Transcript(H!ProbeShows(homes, guest, listed), listed, LastLine(homes, guest), n)
<1> DEFINE A == {H!Shown(<<h, 0>>) : h \in listed}
<1> DEFINE last == H!Shown(LastLine(homes, guest))
<1> DEFINE t1 == H!Typed(<<H!Visible, 0>>)
<1> DEFINE t2 == H!Typed(H!Absent(homes))
<1> DEFINE U == {t1, t2, last} \cup A
<1> DEFINE mid == H!SetToSeq(A)
<1> DEFINE end == IF homes \cap guest = {} THEN <<H!Shown(H!Absent(homes))>>
                  ELSE H!SetToSeq({H!Shown(<<H!Visible, 0>>)})
<1> DEFINE front == <<t1, t2>> \o mid
<1> DEFINE all == front \o end
<1> DEFINE n == Len(mid)
<1>1. H!ProbeShows(homes, guest, listed) = all
  BY DEF H!ProbeShows
<1>2. IsFiniteSet(A)
  <2> DEFINE f == [h \in listed |-> H!Shown(<<h, 0>>)]
  <2>1. f \in Surjection(listed, A)
    BY DEF Surjection
  <2> HIDE DEF f, A
  <2> QED BY <2>1, FS_Surjection
<1>3. mid \in Seq(A) /\ \A x \in A : \E i \in 1..n : mid[i] = x
  <2> HIDE DEF A
  <2> QED BY <1>2, LaidOut
<1>4. end \in Seq({last}) /\ Len(end) = 1
  <2>1. CASE homes \cap guest = {}
    BY <2>1 DEF LastLine
  <2>2. CASE homes \cap guest # {}
    <3> DEFINE x == H!Shown(<<H!Visible, 0>>)
    <3>1. last = x /\ end = H!SetToSeq({x})
      BY <2>2 DEF LastLine
    <3> HIDE DEF x, last, end
    <3>2. IsFiniteSet({x}) /\ Cardinality({x}) = 1
      BY FS_Singleton
    <3> QED BY <3>1, <3>2, LaidOut
  <2> QED BY <2>1, <2>2
<1>5. t1.echo /\ t2.echo
  BY DEF H!Typed
<1>6. A \subseteq U /\ last \in U /\ t1 \in U /\ t2 \in U
  OBVIOUS
<1>7. n \in Nat
  BY <1>3
<1>8. (\A h \in listed : H!Shown(<<h, 0>>) \in A) /\ \A x \in A : \E h \in listed : x = H!Shown(<<h, 0>>)
  OBVIOUS
<1>9. last = H!Shown(LastLine(homes, guest))
  OBVIOUS
<1> HIDE DEF A, last, t1, t2, U, mid, end
<1>10. mid \in Seq(U) /\ end \in Seq(U) /\ end[1] = last /\ \A i \in 1..n : mid[i] \in A
  <2>1. mid \in Seq(U)
    BY <1>3, <1>6
  <2>2. end \in Seq(U)
    BY <1>4, <1>6
  <2>3. end[1] = last
    BY <1>4
  <2>4. \A i \in 1..n : mid[i] \in A
    BY <1>3
  <2> QED BY <2>1, <2>2, <2>3, <2>4
<1>11. <<t1, t2>> \in Seq(U) /\ Len(<<t1, t2>>) = 2 /\ <<t1, t2>>[1] = t1 /\ <<t1, t2>>[2] = t2
  BY <1>6
<1>12. /\ front \in Seq(U) /\ Len(front) = n + 2 /\ front[1] = t1 /\ front[2] = t2
       /\ \A i \in 1..n : front[2 + i] = mid[i]
  <2> DEFINE two == <<t1, t2>>
  <2> HIDE DEF two
  <2>1. /\ front \in Seq(U) /\ Len(front) = Len(<<t1, t2>>) + Len(mid)
        /\ \A i \in 1..(Len(<<t1, t2>>) + Len(mid)) :
             front[i] = IF i <= Len(<<t1, t2>>) THEN <<t1, t2>>[i] ELSE mid[i - Len(<<t1, t2>>)]
    BY <1>10, <1>11, ConcatProperties
  <2> HIDE DEF front, n
  <2>2. /\ Len(front) = 2 + Len(mid)
        /\ \A i \in 1..(2 + Len(mid)) : front[i] = IF i <= 2 THEN <<t1, t2>>[i] ELSE mid[i - 2]
    BY <1>11, <2>1
  <2>3. n = Len(mid)
    BY DEF n
  <2>4. front[1] = t1 /\ front[2] = t2
    BY <1>7, <1>11, <2>2, <2>3
  <2>5. ASSUME NEW i \in 1..n PROVE front[2 + i] = mid[i]
    <3>1. 2 + i \in 1..(2 + Len(mid)) /\ ~(2 + i <= 2) /\ (2 + i) - 2 = i
      BY <1>7, <2>3
    <3> QED BY <2>2, <3>1
  <2> QED BY <1>7, <2>1, <2>2, <2>3, <2>4, <2>5
<1> HIDE DEF front, n
<1>13. /\ all \in Seq(U) /\ Len(all) = n + 3 /\ all[n + 3] = last
       /\ \A i \in 1..(n + 2) : all[i] = front[i]
  <2>1. /\ all \in Seq(U) /\ Len(all) = Len(front) + Len(end)
        /\ \A i \in 1..(Len(front) + Len(end)) :
             all[i] = IF i <= Len(front) THEN front[i] ELSE end[i - Len(front)]
    BY <1>10, <1>12, ConcatProperties
  <2> HIDE DEF all
  <2>2. /\ Len(all) = n + 3
        /\ \A i \in 1..(n + 3) : all[i] = IF i <= n + 2 THEN front[i] ELSE end[i - (n + 2)]
    BY <1>4, <1>7, <1>12, <2>1
  <2>3. n + 3 \in 1..(n + 3) /\ ~(n + 3 <= n + 2) /\ (n + 3) - (n + 2) = 1
    BY <1>7
  <2>4. all[n + 3] = last
    BY <1>10, <2>2, <2>3
  <2>5. \A i \in 1..(n + 2) : all[i] = front[i]
    BY <1>7, <2>2
  <2> QED BY <2>1, <2>2, <2>4, <2>5
<1> HIDE DEF all
<1>14. all[1].echo /\ all[2].echo
  <2>1. 1 \in 1..(n + 2) /\ 2 \in 1..(n + 2)
    BY <1>7
  <2> QED BY <1>5, <1>12, <1>13, <2>1
<1>15. \A i \in 1..n : all[2 + i] = mid[i]
  <2> SUFFICES ASSUME NEW i \in 1..n PROVE all[2 + i] = mid[i]
    OBVIOUS
  <2>1. 2 + i \in 1..(n + 2)
    BY <1>7
  <2> QED BY <1>12, <1>13, <2>1
<1>16. \A i \in 1..n : \E h \in listed : all[2 + i] = H!Shown(<<h, 0>>)
  BY <1>8, <1>10, <1>15
<1>17. \A h \in listed : \E i \in 1..n : all[2 + i] = H!Shown(<<h, 0>>)
  BY <1>3, <1>8, <1>15
<1>18. all \in Seq({all[i] : i \in 1..(n + 3)})
  <2>1. all \in [1..(n + 3) -> {all[i] : i \in 1..(n + 3)}]
    BY <1>13
  <2> QED BY <1>7, <2>1
<1>19. Transcript(all, listed, LastLine(homes, guest), n)
  BY <1>9, <1>13, <1>14, <1>16, <1>17, <1>18 DEF Transcript
<1> QED BY <1>1, <1>7, <1>19

\* A line is in what is seen of a probe, the last of it cut off.
Seen(homes, guest, listed, cut, line) ==
  LET all == H!ProbeShows(homes, guest, listed)
  IN  H!HasLine(SubSeq(all, 1, Len(all) - cut), line)

\* Which lines a transcript that is cut holds.
LEMMA LinesSeen ==
  ASSUME NEW homes, NEW guest, NEW listed, IsFiniteSet(listed), NEW cut \in Nat, NEW line
  PROVE  /\ Seen(homes, guest, listed, cut, line) =>
              \/ \E h \in listed : line = <<h, 0>>
              \/ cut = 0 /\ line = LastLine(homes, guest)
         /\ cut = 0 /\ ((\E h \in listed : line = <<h, 0>>) \/ line = LastLine(homes, guest)) =>
              Seen(homes, guest, listed, cut, line)
<1> DEFINE all == H!ProbeShows(homes, guest, listed)
<1> DEFINE last == LastLine(homes, guest)
<1> DEFINE seen == SubSeq(all, 1, Len(all) - cut)
<1>1. PICK n \in Nat : Transcript(all, listed, last, n)
  BY ProbeShape
<1> HIDE DEF all, last
<1>2. DOMAIN seen = 1..(n + 3 - cut) /\ \A i \in 1..(n + 3 - cut) : seen[i] = all[i]
  BY <1>1 DEF Transcript
<1> HIDE DEF seen
<1>3. H!HasLine(seen, line) <=> \E i \in 1..(n + 3 - cut) : all[i] = H!Shown(line)
  BY <1>2 DEF H!HasLine
<1>4. ASSUME NEW x, H!Shown(line) = H!Shown(x) PROVE line = x
  BY <1>4 DEF H!Shown
<1>5. ~H!Shown(line).echo
  BY DEF H!Shown
<1>6. ASSUME NEW i \in 1..(n + 3 - cut), all[i] = H!Shown(line)
      PROVE  (\E h \in listed : line = <<h, 0>>) \/ (cut = 0 /\ line = last)
  <2>1. i # 1 /\ i # 2
    BY <1>1, <1>5, <1>6 DEF Transcript
  <2>2. CASE i = n + 3
    BY <1>1, <1>4, <1>6, <2>2 DEF Transcript
  <2>3. CASE i # n + 3
    <3>1. i - 2 \in 1..n /\ 2 + (i - 2) = i
      BY <2>1, <2>3
    <3>2. PICK h \in listed : all[2 + (i - 2)] = H!Shown(<<h, 0>>)
      BY <1>1, <3>1 DEF Transcript
    <3> QED BY <1>4, <1>6, <3>1, <3>2
  <2> QED BY <2>2, <2>3
<1>7. ASSUME cut = 0, NEW h \in listed, line = <<h, 0>> PROVE H!HasLine(seen, line)
  <2>1. PICK i \in 1..n : all[2 + i] = H!Shown(<<h, 0>>)
    BY <1>1 DEF Transcript
  <2>2. 2 + i \in 1..(n + 3 - cut)
    BY <1>7
  <2> QED BY <1>3, <1>7, <2>1, <2>2
<1>8. ASSUME cut = 0, line = last PROVE H!HasLine(seen, line)
  <2>1. n + 3 \in 1..(n + 3 - cut)
    BY <1>8
  <2> QED BY <1>1, <1>3, <1>8, <2>1 DEF Transcript
<1>9. Seen(homes, guest, listed, cut, line) <=> H!HasLine(seen, line)
  BY DEF Seen, seen, all
<1>10. last = LastLine(homes, guest)
  BY DEF last
<1> QED BY <1>3, <1>6, <1>7, <1>8, <1>9, <1>10

\* The verdict of prove on the homes of the host is right about the guest, for any accounts
\* and homes, wherever the transcript is cut.
THEOREM ProbeIsRight == GatesSpec => []VerdictIsRight
<1>1. ASSUME NEW c, c.listed \subseteq Home, c.cut \in Nat, IsFiniteSet(c.accounts),
             IsFiniteSet(c.listed)
      PROVE  H!VerdictIsRight(c)
  <2> DEFINE homes == H!HostHomes(c.accounts, c.manager)
  <2> DEFINE all == H!ProbeShows(homes, c.guest, c.listed)
  <2> DEFINE seen == SubSeq(all, 1, Len(all) - c.cut)
  <2> DEFINE last == LastLine(homes, c.guest)
  <2> DEFINE n == H!Cardinality(homes)
  <2>1. homes # {} /\ n \in Nat \ {0}
    BY <1>1, HomesFinite, SameCount
  <2>2. /\ all = H!ProbeShows(homes, c.guest, c.listed) /\ last = LastLine(homes, c.guest)
        /\ seen = SubSeq(all, 1, Len(all) - c.cut)
    OBVIOUS
  <2>4. last = IF homes \cap c.guest = {} THEN <<"NO_HOST_HOME", n>> ELSE <<H!Visible, 0>>
    BY DEF LastLine, H!Absent
  <2>5. H!Absent(homes) = <<"NO_HOST_HOME", n>>
    BY DEF H!Absent
  <2>6. H!Visible \notin c.listed /\ H!Visible # "NO_HOST_HOME"
    BY <1>1, GatesAssumption DEF GatesAssumption, H!Visible
  <2>7. H!VerdictIsRight(c) <=>
          /\ H!Invisible(c.read, homes, seen) =>
               c.read /\ homes \cap (c.guest \cup c.listed) = {} /\ c.cut = 0
          /\ c.read /\ c.cut = 0 /\ H!NoName \notin homes /\ homes \cap (c.guest \cup c.listed) = {} =>
               H!Invisible(c.read, homes, seen)
    BY DEF H!VerdictIsRight
  <2> HIDE DEF homes, all, seen, last, n
  <2>3. \A line :
          /\ H!HasLine(seen, line) => \/ \E h \in c.listed : line = <<h, 0>>
                                      \/ c.cut = 0 /\ line = last
          /\ c.cut = 0 /\ ((\E h \in c.listed : line = <<h, 0>>) \/ line = last) =>
               H!HasLine(seen, line)
    <3> SUFFICES ASSUME NEW line
                 PROVE  /\ H!HasLine(seen, line) => \/ \E h \in c.listed : line = <<h, 0>>
                                                    \/ c.cut = 0 /\ line = last
                        /\ c.cut = 0 /\ ((\E h \in c.listed : line = <<h, 0>>) \/ line = last) =>
                             H!HasLine(seen, line)
      OBVIOUS
    <3>1. Seen(homes, c.guest, c.listed, c.cut, line) <=> H!HasLine(seen, line)
      BY <2>2 DEF Seen
    <3> QED BY <1>1, <2>2, <3>1, LinesSeen
  <2>8. ASSUME H!Invisible(c.read, homes, seen)
        PROVE  c.read /\ homes \cap (c.guest \cup c.listed) = {} /\ c.cut = 0
    <3>1. /\ c.read /\ ~H!HasLine(seen, <<H!Visible, 0>>) /\ H!HasLine(seen, <<"NO_HOST_HOME", n>>)
          /\ \A h \in homes : ~H!HasLine(seen, <<h, 0>>)
      BY <2>5, <2>8 DEF H!Invisible
    <3>2. \A h : <<h, 0>> # <<"NO_HOST_HOME", n>>
      BY <2>1
    <3>3. c.cut = 0 /\ <<"NO_HOST_HOME", n>> = last
      BY <2>3, <3>1, <3>2
    <3>4. homes \cap c.guest = {}
      BY <2>4, <2>6, <3>3
    <3>5. ASSUME NEW h \in homes, h \in c.listed PROVE FALSE
      BY <2>3, <3>1, <3>3, <3>5
    <3> QED BY <3>1, <3>3, <3>4, <3>5
  <2>9. ASSUME c.read, c.cut = 0, H!NoName \notin homes, homes \cap (c.guest \cup c.listed) = {}
        PROVE  H!Invisible(c.read, homes, seen)
    <3>1. last = <<"NO_HOST_HOME", n>>
      BY <2>4, <2>9
    <3>2. H!HasLine(seen, H!Absent(homes))
      BY <2>3, <2>5, <2>9, <3>1
    <3>3. ~H!HasLine(seen, <<H!Visible, 0>>)
      BY <2>3, <2>6, <3>1
    <3>4. ASSUME NEW h \in homes PROVE h # H!NoName /\ ~H!HasLine(seen, <<h, 0>>)
      <4>1. <<h, 0>> # last
        BY <2>1, <3>1
      <4>2. \A g \in c.listed : <<h, 0>> # <<g, 0>>
        BY <2>9
      <4> QED BY <2>3, <2>9, <4>1, <4>2
    <3> QED BY <2>1, <2>9, <3>2, <3>3, <3>4 DEF H!Invisible
  <2> QED BY <2>7, <2>8, <2>9
<1>2. AskedInv => VerdictIsRight
  BY <1>1, GatesAssumption DEF AskedInv, GatesAssumption, VerdictIsRight
<1> QED BY <1>2, AskedInvariant, PTL

----------------------------------------------------------------------------
(* The filter of the listeners (Seccomp): what its program decides of a system *)
(* call is worked out from the last instruction back, and compared with the    *)
(* policy.                                                                     *)

\* How many system calls are allowed without a condition.
AllowLen == Len(BPF!ALLOW)

\* The instructions the filter is made of.
Insn ==
  {BPF!Ld(field) : field \in {"arch", "nr", "prot"}} \cup {BPF!Kill, BPF!Allow}
  \cup {BPF!Jeq(k, jt, jf) : k \in Nat, jt \in Nat, jf \in Nat}
  \cup {BPF!Jset(k, jt, jf) : k \in Nat, jt \in Nat, jf \in Nat}

\* Allowed numbers are far below X32_SYSCALL_BIT.
LEMMA Allowed ==
  /\ AllowLen \in Nat
  /\ BPF!ALLOW \in [1..AllowLen -> 0..441]
<1>1. BPF!ALLOW \in Seq(0..441)
  BY DEF BPF!ALLOW
<1> QED BY ZenonT(60), <1>1, LenProperties DEF AllowLen

\* Every instruction the filter pushes is one of them.
LEMMA Insns ==
  /\ \A field \in {"arch", "nr", "prot"} : BPF!Ld(field) \in Insn
  /\ BPF!Kill \in Insn /\ BPF!Allow \in Insn
  /\ \A k, jt, jf \in Nat : BPF!Jeq(k, jt, jf) \in Insn /\ BPF!Jset(k, jt, jf) \in Insn
BY DEF Insn

\* The checks of the architecture and of the x32 bit.
FilterHead ==
  <<BPF!Ld("arch"), BPF!Jeq(BPF!X86_64, 1, 0), BPF!Kill,
    BPF!Ld("nr"), BPF!Jset(BPF!X32_SYSCALL_BIT, 0, 1), BPF!Kill>>

\* The parts that install_allowlist_seccomp pushes one after another.
LEMMA FilterParts ==
  /\ FilterHead \in Seq(Insn) /\ Len(FilterHead) = 6
  /\ \A nr \in Nat : BPF!ProtCheck(nr) \in Seq(Insn) /\ Len(BPF!ProtCheck(nr)) = 5
  /\ <<BPF!Ld("nr")>> \in Seq(Insn) /\ <<BPF!Kill>> \in Seq(Insn)
<1>1. BPF!X86_64 \in Nat /\ BPF!X32_SYSCALL_BIT \in Nat /\ BPF!PROT_EXEC \in Nat
  BY DEF BPF!X86_64, BPF!X32_SYSCALL_BIT, BPF!PROT_EXEC
<1>2. \A nr \in Nat : BPF!ProtCheck(nr) \in Seq(Insn) /\ Len(BPF!ProtCheck(nr)) = 5
  BY Insns, <1>1 DEF BPF!ProtCheck
<1> QED BY Insns, <1>1, <1>2 DEF FilterHead

\* The ladder has a test and an answer for each allowed number.
LEMMA LadderIs ==
  /\ BPF!Ladder \in Seq(Insn) /\ Len(BPF!Ladder) = 2 * AllowLen
  /\ \A i \in 1..AllowLen : /\ BPF!Ladder[2 * i - 1] = BPF!Jeq(BPF!ALLOW[i], 0, 1)
                            /\ BPF!Ladder[2 * i] = BPF!Allow
<1>1. \A n \in 1..(2 * AllowLen) : BPF!Ladder[n] \in Insn
  <2> SUFFICES ASSUME NEW n \in 1..(2 * AllowLen) PROVE BPF!Ladder[n] \in Insn
    OBVIOUS
  <2>1. CASE n % 2 = 1
    <3>1. (n + 1) \div 2 \in 1..AllowLen
      BY <2>1, Allowed
    <3>2. BPF!ALLOW[(n + 1) \div 2] \in 0..441
      BY <3>1, Allowed
    <3>3. BPF!Ladder[n] = BPF!Jeq(BPF!ALLOW[(n + 1) \div 2], 0, 1)
      BY <2>1 DEF BPF!Ladder, AllowLen
    <3>4. BPF!ALLOW[(n + 1) \div 2] \in Nat /\ 0 \in Nat /\ 1 \in Nat
      BY <3>2
    <3> QED BY <3>3, <3>4, Insns, Zenon
  <2>2. CASE n % 2 # 1
    BY <2>2, Insns DEF BPF!Ladder, AllowLen
  <2> QED BY <2>1, <2>2
<1>2. BPF!Ladder \in [1..(2 * AllowLen) -> Insn]
  BY <1>1 DEF BPF!Ladder, AllowLen
<1>3. BPF!Ladder \in Seq(Insn) /\ Len(BPF!Ladder) = 2 * AllowLen
  BY <1>2, Allowed, LenProperties
<1>4. ASSUME NEW i \in 1..AllowLen
      PROVE  BPF!Ladder[2 * i - 1] = BPF!Jeq(BPF!ALLOW[i], 0, 1) /\ BPF!Ladder[2 * i] = BPF!Allow
  <2>1. 2 * i - 1 \in 1..(2 * AllowLen) /\ 2 * i \in 1..(2 * AllowLen) /\ i \in Nat
    BY <1>4, Allowed
  <2>2. (2 * i - 1) % 2 = 1 /\ (2 * i) % 2 = 0 /\ (2 * i - 1 + 1) \div 2 = i
    BY <2>1
  <2> QED BY <2>1, <2>2 DEF BPF!Ladder, AllowLen
<1> QED BY <1>3, <1>4

\* The program, instruction by instruction.
LEMMA FilterIs ==
  /\ BPF!Filter \in Seq(Insn)
  /\ Len(BPF!Filter) = 2 * AllowLen + 18
  /\ BPF!Filter[1] = BPF!Ld("arch") /\ BPF!Filter[2] = BPF!Jeq(62, 1, 0) /\ BPF!Filter[3] = BPF!Kill
  /\ BPF!Filter[4] = BPF!Ld("nr") /\ BPF!Filter[5] = BPF!Jset(BPF!X32_SYSCALL_BIT, 0, 1) /\ BPF!Filter[6] = BPF!Kill
  /\ BPF!Filter[7] = BPF!Jeq(9, 0, 4) /\ BPF!Filter[8] = BPF!Ld("prot") /\ BPF!Filter[9] = BPF!Jset(4, 0, 1)
  /\ BPF!Filter[10] = BPF!Kill /\ BPF!Filter[11] = BPF!Allow
  /\ BPF!Filter[12] = BPF!Jeq(10, 0, 4) /\ BPF!Filter[13] = BPF!Ld("prot") /\ BPF!Filter[14] = BPF!Jset(4, 0, 1)
  /\ BPF!Filter[15] = BPF!Kill /\ BPF!Filter[16] = BPF!Allow
  /\ BPF!Filter[17] = BPF!Ld("nr")
  /\ \A i \in 1..AllowLen : /\ BPF!Filter[2 * i + 16] = BPF!Jeq(BPF!ALLOW[i], 0, 1)
                            /\ BPF!Filter[2 * i + 17] = BPF!Allow
  /\ BPF!Filter[2 * AllowLen + 18] = BPF!Kill
<1> DEFINE M == BPF!ProtCheck(9)
           P == BPF!ProtCheck(10)
           ld == <<BPF!Ld("nr")>>
           kill == <<BPF!Kill>>
           f1 == FilterHead \o M
           f2 == f1 \o P
           f3 == f2 \o ld
           f4 == f3 \o BPF!Ladder
           f5 == f4 \o kill
<1>0. BPF!Filter = f5
  BY Zenon DEF BPF!Filter, FilterHead, BPF!NR_MMAP, BPF!NR_MPROTECT
<1>1. /\ FilterHead \in Seq(Insn) /\ Len(FilterHead) = 6
      /\ M \in Seq(Insn) /\ Len(M) = 5 /\ P \in Seq(Insn) /\ Len(P) = 5
      /\ <<BPF!Ld("nr")>> \in Seq(Insn) /\ Len(<<BPF!Ld("nr")>>) = 1 /\ <<BPF!Ld("nr")>>[1] = BPF!Ld("nr")
      /\ <<BPF!Kill>> \in Seq(Insn) /\ Len(<<BPF!Kill>>) = 1 /\ <<BPF!Kill>>[1] = BPF!Kill
      /\ BPF!Ladder \in Seq(Insn) /\ Len(BPF!Ladder) = 2 * AllowLen /\ AllowLen \in Nat
  BY FilterParts, LadderIs, Allowed
<1>2. /\ FilterHead[1] = BPF!Ld("arch") /\ FilterHead[2] = BPF!Jeq(62, 1, 0) /\ FilterHead[3] = BPF!Kill
      /\ FilterHead[4] = BPF!Ld("nr") /\ FilterHead[5] = BPF!Jset(BPF!X32_SYSCALL_BIT, 0, 1)
      /\ FilterHead[6] = BPF!Kill
  BY DEF FilterHead, BPF!X86_64
<1>3. /\ M[1] = BPF!Jeq(9, 0, 4) /\ M[2] = BPF!Ld("prot") /\ M[3] = BPF!Jset(4, 0, 1)
      /\ M[4] = BPF!Kill /\ M[5] = BPF!Allow
      /\ P[1] = BPF!Jeq(10, 0, 4) /\ P[2] = BPF!Ld("prot") /\ P[3] = BPF!Jset(4, 0, 1)
      /\ P[4] = BPF!Kill /\ P[5] = BPF!Allow
  BY DEF BPF!ProtCheck, BPF!PROT_EXEC
<1> HIDE DEF M, P, ld, kill
<1>4. f1 \in Seq(Insn) /\ Len(f1) = Len(FilterHead) + Len(M)
      /\ \A i \in 1..Len(FilterHead) + Len(M) :
           f1[i] = IF i <= Len(FilterHead) THEN FilterHead[i] ELSE M[i - Len(FilterHead)]
  BY <1>1, ConcatProperties, Zenon
<1> HIDE DEF f1
<1>5. f2 \in Seq(Insn) /\ Len(f2) = Len(f1) + Len(P)
      /\ \A i \in 1..Len(f1) + Len(P) : f2[i] = IF i <= Len(f1) THEN f1[i] ELSE P[i - Len(f1)]
  <2>1. f1 \in Seq(Insn) /\ P \in Seq(Insn)
    BY <1>1, <1>4
  <2> QED BY <2>1, ConcatProperties, Zenon
<1> HIDE DEF f2
<1>6. f3 \in Seq(Insn) /\ Len(f3) = Len(f2) + Len(ld)
      /\ \A i \in 1..Len(f2) + Len(ld) : f3[i] = IF i <= Len(f2) THEN f2[i] ELSE ld[i - Len(f2)]
  <2>1. f2 \in Seq(Insn) /\ ld \in Seq(Insn)
    BY <1>1, <1>5 DEF ld
  <2> QED BY <2>1, ConcatProperties, Zenon
<1> HIDE DEF f3
<1>7. f4 \in Seq(Insn) /\ Len(f4) = Len(f3) + Len(BPF!Ladder)
      /\ \A i \in 1..Len(f3) + Len(BPF!Ladder) : f4[i] = IF i <= Len(f3) THEN f3[i] ELSE BPF!Ladder[i - Len(f3)]
  <2>1. f3 \in Seq(Insn) /\ BPF!Ladder \in Seq(Insn)
    BY <1>1, <1>6
  <2> QED BY <2>1, ConcatProperties, Zenon
<1> HIDE DEF f4
<1>8. f5 \in Seq(Insn) /\ Len(f5) = Len(f4) + Len(kill)
      /\ \A i \in 1..Len(f4) + Len(kill) : f5[i] = IF i <= Len(f4) THEN f4[i] ELSE kill[i - Len(f4)]
  <2>1. f4 \in Seq(Insn) /\ kill \in Seq(Insn)
    BY <1>1, <1>7 DEF kill
  <2> QED BY <2>1, ConcatProperties, Zenon
<1> HIDE DEF f5
<1>9. Len(ld) = 1 /\ ld[1] = BPF!Ld("nr") /\ Len(kill) = 1 /\ kill[1] = BPF!Kill
  BY <1>1 DEF ld, kill
<1>10. Len(f1) = 11 /\ Len(f2) = 16 /\ Len(f3) = 17 /\ Len(f4) = 2 * AllowLen + 17
  BY <1>1, <1>4, <1>5, <1>6, <1>7, <1>9
<1>a. \A i \in 1..16 : f5[i] = f2[i]
  <2> SUFFICES ASSUME NEW i \in 1..16 PROVE f5[i] = f2[i]
    OBVIOUS
  <2>1. f3[i] = f2[i]
    BY SMTT(30), <1>6, <1>9, <1>10
  <2>2. f4[i] = f3[i]
    BY <1>1, <1>7, <1>10
  <2>3. f5[i] = f4[i]
    BY <1>1, <1>8, <1>9, <1>10
  <2> QED BY <2>1, <2>2, <2>3
<1>b. \A i \in 1..16 : f2[i] = IF i <= 11 THEN f1[i] ELSE P[i - 11]
  BY <1>1, <1>5, <1>10
<1>11. \A i \in 1..11 : f5[i] = f1[i]
  BY <1>a, <1>b
<1>12. \A i \in 1..6 : f5[i] = FilterHead[i]
  BY <1>1, <1>4, <1>11
<1>13. \A i \in 1..5 : f5[i + 6] = M[i]
  BY SMTT(60), <1>1, <1>4, <1>11
<1>14. \A i \in 1..5 : f5[i + 11] = P[i]
  BY <1>a, <1>b
<1>15. f5[17] = BPF!Ld("nr") /\ f5[2 * AllowLen + 18] = BPF!Kill
  BY <1>1, <1>6, <1>7, <1>8, <1>9, <1>10
<1>16. \A i \in 1..(2 * AllowLen) : f5[i + 17] = BPF!Ladder[i]
  BY <1>1, <1>7, <1>8, <1>9, <1>10
<1>17. ASSUME NEW i \in 1..AllowLen
       PROVE  f5[2 * i + 16] = BPF!Jeq(BPF!ALLOW[i], 0, 1) /\ f5[2 * i + 17] = BPF!Allow
  <2>1. /\ 2 * i - 1 \in 1..(2 * AllowLen) /\ 2 * i \in 1..(2 * AllowLen)
        /\ 2 * i - 1 + 17 = 2 * i + 16
    BY <1>1
  <2> QED BY <1>16, <2>1, LadderIs
<1>18. Len(f5) = 2 * AllowLen + 18
  BY <1>1, <1>8, <1>9, <1>10
<1>19. /\ f5[1] = FilterHead[1] /\ f5[2] = FilterHead[2] /\ f5[3] = FilterHead[3]
       /\ f5[4] = FilterHead[4] /\ f5[5] = FilterHead[5] /\ f5[6] = FilterHead[6]
       /\ f5[7] = M[1] /\ f5[8] = M[2] /\ f5[9] = M[3] /\ f5[10] = M[4] /\ f5[11] = M[5]
       /\ f5[12] = P[1] /\ f5[13] = P[2] /\ f5[14] = P[3] /\ f5[15] = P[4] /\ f5[16] = P[5]
  BY <1>12, <1>13, <1>14
<1> QED BY <1>0, <1>8, <1>2, <1>3, <1>15, <1>17, <1>18, <1>19

SystemCall == [arch : Nat, nr : Nat, prot : Nat]
Positions == Nat \ {0}

\* One step of the machine, where f says what is decided from each position on.
After(sc, f, pc, acc) ==
  IF pc > Len(BPF!Filter) THEN "off the end"
  ELSE IF BPF!Filter[pc].op = "ret" THEN BPF!Filter[pc].k
  ELSE IF BPF!Filter[pc].op = "ld" THEN f[pc + 1][sc[BPF!Filter[pc].k]]
  ELSE f[BPF!Jump(BPF!Filter[pc], pc, acc)][acc]

\* f says what the machine decides.
Runs(sc, f) == f = [pc \in Positions |-> [acc \in Nat |-> After(sc, f, pc, acc)]]

\* The machine is what its recursive definition says, if anything is.
LEMMA MachineRuns ==
  ASSUME NEW sc, NEW g, Runs(sc, g)
  PROVE  Runs(sc, BPF!Machine(sc))
<1>1. BPF!Machine(sc) = CHOOSE f : Runs(sc, f)
  BY Zenon DEF BPF!Machine, Runs, After, Positions
<1> QED BY <1>1, Zenon

\* Jumps lead forward.
LEMMA Forward ==
  ASSUME NEW sc \in SystemCall, NEW pc \in 1..Len(BPF!Filter), NEW acc \in Nat
  PROVE  \/ BPF!Filter[pc].op = "ret"
         \/ BPF!Filter[pc].op = "ld" /\ sc[BPF!Filter[pc].k] \in Nat
         \/ /\ BPF!Filter[pc].op \notin {"ret", "ld"}
            /\ BPF!Jump(BPF!Filter[pc], pc, acc) \in Nat
            /\ BPF!Jump(BPF!Filter[pc], pc, acc) > pc
<1>1. BPF!Filter[pc] \in Insn
  BY FilterIs
<1>2. CASE \E field \in {"arch", "nr", "prot"} : BPF!Filter[pc] = BPF!Ld(field)
  BY <1>2 DEF BPF!Ld, SystemCall
<1>3. CASE BPF!Filter[pc] \in {BPF!Kill, BPF!Allow}
  BY <1>3 DEF BPF!Kill, BPF!Allow
<1>4. CASE \E k, jt, jf \in Nat : BPF!Filter[pc] = BPF!Jeq(k, jt, jf) \/ BPF!Filter[pc] = BPF!Jset(k, jt, jf)
  <2>1. PICK k \in Nat, jt \in Nat, jf \in Nat :
          BPF!Filter[pc] = BPF!Jeq(k, jt, jf) \/ BPF!Filter[pc] = BPF!Jset(k, jt, jf)
    BY <1>4
  <2>2. /\ BPF!Filter[pc].jt \in Nat /\ BPF!Filter[pc].jf \in Nat /\ BPF!Filter[pc].op \notin {"ret", "ld"}
    BY <2>1 DEF BPF!Jeq, BPF!Jset
  <2>3. pc \in Nat
    BY FilterIs, Allowed
  <2> QED BY <2>2, <2>3 DEF BPF!Jump
<1>5. \/ \E field \in {"arch", "nr", "prot"} : BPF!Filter[pc] = BPF!Ld(field)
      \/ BPF!Filter[pc] \in {BPF!Kill, BPF!Allow}
      \/ \E k, jt, jf \in Nat : BPF!Filter[pc] = BPF!Jeq(k, jt, jf) \/ BPF!Filter[pc] = BPF!Jset(k, jt, jf)
  <2> DEFINE insn == BPF!Filter[pc]
             A == {BPF!Ld(field) : field \in {"arch", "nr", "prot"}}
             B == {BPF!Jeq(k, jt, jf) : k \in Nat, jt \in Nat, jf \in Nat}
             D == {BPF!Jset(k, jt, jf) : k \in Nat, jt \in Nat, jf \in Nat}
  <2>1. insn \in A => \E field \in {"arch", "nr", "prot"} : insn = BPF!Ld(field)
    OBVIOUS
  <2>2. insn \in B => \E k, jt, jf \in Nat : insn = BPF!Jeq(k, jt, jf)
    OBVIOUS
  <2>3. insn \in D => \E k, jt, jf \in Nat : insn = BPF!Jset(k, jt, jf)
    OBVIOUS
  <2>4. insn \in A \/ insn \in {BPF!Kill, BPF!Allow} \/ insn \in B \/ insn \in D
    <3>1. Insn = A \cup {BPF!Kill, BPF!Allow} \cup B \cup D
      BY DEF Insn
    <3> HIDE DEF A, B, D
    <3> QED BY <1>1, <3>1
  <2> HIDE DEF A, B, D
  <2> QED BY <2>1, <2>2, <2>3, <2>4
<1> QED BY <1>2, <1>3, <1>4, <1>5

\* So there is one answer from each position on.
LEMMA OneDecision ==
  ASSUME NEW sc \in SystemCall, NEW f, NEW g, Runs(sc, f), Runs(sc, g)
  PROVE  f = g
<1> DEFINE L == Len(BPF!Filter)
           T == {n \in Nat : n \in 1..L /\ \E acc \in Nat : f[L + 1 - n][acc] # g[L + 1 - n][acc]}
<1>0. L \in Nat
  BY FilterIs, Allowed
<1>1. \A pc \in Positions, acc \in Nat :
        f[pc][acc] = After(sc, f, pc, acc) /\ g[pc][acc] = After(sc, g, pc, acc)
  <2>1. ASSUME NEW h, Runs(sc, h), NEW pc \in Positions, NEW acc \in Nat
        PROVE  h[pc][acc] = After(sc, h, pc, acc)
    <3> DEFINE said == [p \in Positions |-> [a \in Nat |-> After(sc, h, p, a)]]
    <3>1. h = said
      BY <2>1, Zenon DEF Runs
    <3>2. said[pc][acc] = After(sc, h, pc, acc)
      OBVIOUS
    <3> HIDE DEF said
    <3> QED BY <3>1, <3>2
  <2> QED BY <2>1
<1>2. \A pc \in Positions, acc \in Nat : pc > L => f[pc][acc] = "off the end" /\ g[pc][acc] = "off the end"
  BY <1>1 DEF After
<1>3. T = {}
  <2> SUFFICES ASSUME T # {} PROVE FALSE
    OBVIOUS
  <2>1. PICK n \in T : \A m \in T : ~(<<m, n>> \in OpToRel(<, Nat))
    <3>1. T \subseteq Nat
      OBVIOUS
    <3> HIDE DEF T
    <3> QED BY <3>1, NatLessThanWellFounded, WFMin
  <2>2. n \in 1..L /\ n \in Nat
    OBVIOUS
  <2>3. \A m \in Nat : m \in 1..L /\ m < n => m \notin T
    BY <2>1 DEF OpToRel
  <2> DEFINE pc == L + 1 - n
  <2>4. pc \in 1..L /\ pc \in Positions /\ pc \in Nat
    BY <1>0, <2>2 DEF Positions
  <2>5. PICK acc \in Nat : f[pc][acc] # g[pc][acc]
    OBVIOUS
  <2>6. ASSUME NEW q \in Nat, q > pc, NEW a \in Nat
        PROVE  f[q][a] = g[q][a]
    <3>1. CASE q > L
      <4>1. q \in Positions
        BY <2>4, <2>6 DEF Positions
      <4>2. f[q][a] = "off the end" /\ g[q][a] = "off the end"
        BY <1>2, <3>1, <4>1
      <4> QED BY <4>2
    <3>2. CASE q <= L
      <4>1. L + 1 - q \in 1..L /\ L + 1 - q < n /\ L + 1 - (L + 1 - q) = q /\ L + 1 - q \in Nat
        BY <1>0, <2>2, <2>4, <2>6, <3>2
      <4> QED BY <2>3, <4>1
    <3> QED BY <3>1, <3>2, <1>0
  <2> HIDE DEF T, pc
  <2>7. After(sc, f, pc, acc) = After(sc, g, pc, acc)
    <3>1. CASE BPF!Filter[pc].op = "ret"
      BY <3>1 DEF After
    <3>2. CASE BPF!Filter[pc].op = "ld" /\ sc[BPF!Filter[pc].k] \in Nat
      <4>1. pc + 1 \in Nat /\ pc + 1 > pc
        BY <2>4
      <4>2. f[pc + 1][sc[BPF!Filter[pc].k]] = g[pc + 1][sc[BPF!Filter[pc].k]]
        BY <2>6, <3>2, <4>1
      <4> QED BY <3>2, <4>2 DEF After
    <3>3. CASE /\ BPF!Filter[pc].op \notin {"ret", "ld"}
               /\ BPF!Jump(BPF!Filter[pc], pc, acc) \in Nat
               /\ BPF!Jump(BPF!Filter[pc], pc, acc) > pc
      BY <3>3, <2>4, <2>6 DEF After
    <3> QED BY <2>4, <3>1, <3>2, <3>3, Forward
  <2> QED BY <1>1, <2>4, <2>5, <2>7
<1>4. \A pc \in Positions, acc \in Nat : f[pc][acc] = g[pc][acc]
  <2> SUFFICES ASSUME NEW pc \in Positions, NEW acc \in Nat PROVE f[pc][acc] = g[pc][acc]
    OBVIOUS
  <2>0. CASE pc > L
    <3>1. f[pc][acc] = "off the end" /\ g[pc][acc] = "off the end"
      BY <1>2, <2>0
    <3> QED BY <3>1
  <2>a. CASE ~(pc > L)
   <3>1. L + 1 - pc \in 1..L /\ L + 1 - pc \in Nat /\ L + 1 - (L + 1 - pc) = pc
     BY <1>0, <2>a DEF Positions
   <3> QED BY <1>3, <3>1
  <2> QED BY <2>0, <2>a
<1>5. \A pc \in Positions : f[pc] = g[pc]
  <2> SUFFICES ASSUME NEW pc \in Positions PROVE f[pc] = g[pc]
    OBVIOUS
  <2>1. f[pc] = [acc \in Nat |-> f[pc][acc]] /\ g[pc] = [acc \in Nat |-> g[pc][acc]]
    BY DEF Runs
  <2> QED BY <1>4, <2>1
<1>6. f = [pc \in Positions |-> f[pc]] /\ g = [pc \in Positions |-> g[pc]]
  BY DEF Runs
<1> QED BY <1>5, <1>6

\* The answer from each position on, in closed form.
Bit(acc, k) == (acc \div k) % 2 = 1
Unless(acc, k) == IF Bit(acc, k) THEN "kill" ELSE "allow"
FromLadder(acc, pc) ==
  IF \E i \in 1..AllowLen : pc <= 2 * i + 16 /\ BPF!ALLOW[i] = acc THEN "allow" ELSE "kill"
From12(sc, acc) == IF acc = 10 THEN Unless(sc.prot, 4) ELSE FromLadder(sc.nr, 18)
From7(sc, acc) == IF acc = 9 THEN Unless(sc.prot, 4) ELSE From12(sc, acc)
From5(sc, acc) == IF Bit(acc, BPF!X32_SYSCALL_BIT) THEN "kill" ELSE From7(sc, acc)
From2(sc, acc) == IF acc = 62 THEN From5(sc, sc.nr) ELSE "kill"
BeforeLadder(sc, pc, acc) ==
  << From2(sc, sc.arch), From2(sc, acc), "kill",
     From5(sc, sc.nr), From5(sc, acc), "kill",
     From7(sc, acc), Unless(sc.prot, 4), Unless(acc, 4), "kill", "allow",
     From12(sc, acc), Unless(sc.prot, 4), Unless(acc, 4), "kill", "allow",
     FromLadder(sc.nr, 18) >>[pc]
Decided(sc, pc, acc) ==
  IF pc > 2 * AllowLen + 18 THEN "off the end"
  ELSE IF pc < 18 THEN BeforeLadder(sc, pc, acc)
  ELSE IF pc % 2 = 1 THEN "allow"
  ELSE FromLadder(acc, pc)
Decisions(sc) == [pc \in Positions |-> [acc \in Nat |-> Decided(sc, pc, acc)]]

\* What it says of one position.
LEMMA DecisionsAt ==
  ASSUME NEW sc, NEW pc \in Positions, NEW acc \in Nat
  PROVE  Decisions(sc)[pc][acc] = Decided(sc, pc, acc)
BY DEF Decisions

\* The answer, part by part.
LEMMA DecidedParts ==
  ASSUME NEW sc, NEW pc, NEW acc
  PROVE  /\ pc > 2 * AllowLen + 18 => Decided(sc, pc, acc) = "off the end"
         /\ ~(pc > 2 * AllowLen + 18) /\ pc < 18 => Decided(sc, pc, acc) = BeforeLadder(sc, pc, acc)
         /\ ~(pc > 2 * AllowLen + 18) /\ ~(pc < 18) /\ pc % 2 = 1 => Decided(sc, pc, acc) = "allow"
         /\ ~(pc > 2 * AllowLen + 18) /\ ~(pc < 18) /\ pc % 2 # 1 =>
              Decided(sc, pc, acc) = FromLadder(acc, pc)
BY Zenon DEF Decided

\* The ladder.
LEMMA LadderRuns ==
  ASSUME NEW sc \in SystemCall, NEW i \in 1..AllowLen, NEW acc \in Nat
  PROVE  /\ After(sc, Decisions(sc), 2 * i + 16, acc) = Decided(sc, 2 * i + 16, acc)
         /\ After(sc, Decisions(sc), 2 * i + 17, acc) = Decided(sc, 2 * i + 17, acc)
<1> DEFINE pc == 2 * i + 16
<1>1. /\ i \in Nat /\ AllowLen \in Nat /\ Len(BPF!Filter) = 2 * AllowLen + 18 /\ i <= AllowLen /\ 1 <= i
  BY Allowed, FilterIs
<1>2. BPF!Filter[pc] = BPF!Jeq(BPF!ALLOW[i], 0, 1) /\ BPF!Filter[pc + 1] = BPF!Allow
  BY FilterIs, <1>1
<1>3. /\ pc \in Nat /\ pc >= 18 /\ pc + 1 < 2 * AllowLen + 18 /\ pc + 1 = 2 * i + 17
      /\ pc % 2 = 0 /\ (pc + 1) % 2 = 1
  BY <1>1
<1>4. Decided(sc, pc + 1, acc) = "allow" /\ Decided(sc, pc, acc) = FromLadder(acc, pc)
  <2>1. /\ ~(pc > 2 * AllowLen + 18) /\ ~(pc < 18) /\ pc % 2 # 1
        /\ ~(pc + 1 > 2 * AllowLen + 18) /\ ~(pc + 1 < 18) /\ (pc + 1) % 2 = 1
    BY <1>1, <1>3
  <2> HIDE DEF pc
  <2>2. Decided(sc, pc + 1, acc) = "allow"
    BY <2>1, DecidedParts, Zenon
  <2>3. Decided(sc, pc, acc) = FromLadder(acc, pc)
    BY <2>1, DecidedParts, Zenon
  <2> QED BY <2>2, <2>3
<1>5. Decided(sc, pc + 2, acc) = FromLadder(acc, pc + 2)
  <2>1. ~(pc + 2 > 2 * AllowLen + 18) /\ ~(pc + 2 < 18) /\ (pc + 2) % 2 # 1
    BY <1>1, <1>3
  <2> QED BY <2>1, DecidedParts
<1> HIDE DEF pc
<1>6. After(sc, Decisions(sc), pc + 1, acc) = "allow"
  BY <1>1, <1>2, <1>3 DEF After, BPF!Allow
<1>7. After(sc, Decisions(sc), pc, acc) =
        (IF acc = BPF!ALLOW[i] THEN Decided(sc, pc + 1, acc) ELSE Decided(sc, pc + 2, acc))
  <2>1. After(sc, Decisions(sc), pc, acc) =
          IF acc = BPF!ALLOW[i] THEN Decisions(sc)[pc + 1][acc] ELSE Decisions(sc)[pc + 2][acc]
    <3>1. ~(pc > Len(BPF!Filter)) /\ pc + 1 + 0 = pc + 1 /\ pc + 1 + 1 = pc + 2
      BY <1>1, <1>3
    <3> QED BY <1>2, <3>1 DEF After, BPF!Jeq, BPF!Jump, BPF!Holds
  <2>2. pc + 1 \in Positions /\ pc + 2 \in Positions
    BY <1>3 DEF Positions
  <2> QED BY <2>1, <2>2, DecisionsAt
<1>8. FromLadder(acc, pc) = IF acc = BPF!ALLOW[i] THEN "allow" ELSE FromLadder(acc, pc + 2)
  BY <1>1 DEF FromLadder, pc
<1> QED BY <1>3, <1>4, <1>5, <1>6, <1>7, <1>8 DEF pc

\* The instructions before it.
LEMMA HeadRuns ==
  ASSUME NEW sc \in SystemCall, NEW pc \in 1..17, NEW acc \in Nat
  PROVE  After(sc, Decisions(sc), pc, acc) = Decided(sc, pc, acc)
<1> DEFINE f == Decisions(sc)
<1>1. /\ AllowLen \in Nat /\ Len(BPF!Filter) = 2 * AllowLen + 18
      /\ sc.arch \in Nat /\ sc.nr \in Nat /\ sc.prot \in Nat
  BY Allowed, FilterIs DEF SystemCall
<1>2. \A n \in 1..17 : ~(n > Len(BPF!Filter)) /\ ~(n > 2 * AllowLen + 18) /\ n < 18 /\ n \in Positions
  BY <1>1 DEF Positions
<1>3. \A n \in 1..17, a \in Nat : f[n][a] = Decided(sc, n, a) /\ Decided(sc, n, a) = BeforeLadder(sc, n, a)
  <2> SUFFICES ASSUME NEW n \in 1..17, NEW a \in Nat
               PROVE  f[n][a] = Decided(sc, n, a) /\ Decided(sc, n, a) = BeforeLadder(sc, n, a)
    OBVIOUS
  <2>1. Decided(sc, n, a) = BeforeLadder(sc, n, a)
    BY <1>2, DecidedParts, Zenon
  <2> QED BY <1>2, <2>1, DecisionsAt
<1>4. \A a \in Nat : f[18][a] = FromLadder(a, 18)
  <2> SUFFICES ASSUME NEW a \in Nat PROVE f[18][a] = FromLadder(a, 18)
    OBVIOUS
  <2>1. ~(18 > 2 * AllowLen + 18) /\ ~(18 < 18) /\ 18 % 2 # 1 /\ 18 \in Positions
    BY <1>1 DEF Positions
  <2>2. Decided(sc, 18, a) = FromLadder(a, 18)
    BY <2>1, DecidedParts, Zenon
  <2> QED BY <2>1, <2>2, DecisionsAt
<1> HIDE DEF f
<1>5. After(sc, f, 1, acc) = BeforeLadder(sc, 1, acc)
  <2>1. BPF!Filter[1] = BPF!Ld("arch") /\ ~(1 > Len(BPF!Filter))
    BY <1>2, FilterIs
  <2>2. After(sc, f, 1, acc) = f[2][sc.arch]
    BY <2>1 DEF After, BPF!Ld
  <2>3. f[2][sc.arch] = BeforeLadder(sc, 2, sc.arch)
    <3>1. 2 \in 1..17
      OBVIOUS
    <3>2. \A a \in Nat : f[2][a] = BeforeLadder(sc, 2, a)
      BY <1>3, <3>1
    <3> QED BY <1>1, <3>2
  <2> QED BY <2>2, <2>3 DEF BeforeLadder
<1>6. After(sc, f, 2, acc) = BeforeLadder(sc, 2, acc)
  <2>1. BPF!Filter[2] = BPF!Jeq(62, 1, 0) /\ ~(2 > Len(BPF!Filter))
    BY <1>2, FilterIs
  <2>2. After(sc, f, 2, acc) = IF acc = 62 THEN f[4][acc] ELSE f[3][acc]
    BY <2>1 DEF After, BPF!Jump, BPF!Holds, BPF!Jeq
  <2>3. f[4][acc] = BeforeLadder(sc, 4, acc) /\ f[3][acc] = BeforeLadder(sc, 3, acc)
    BY <1>3
  <2> QED BY <2>2, <2>3 DEF BeforeLadder, From2
<1>7. After(sc, f, 3, acc) = BeforeLadder(sc, 3, acc)
  <2>1. BPF!Filter[3] = BPF!Kill /\ ~(3 > Len(BPF!Filter))
    BY <1>2, FilterIs
  <2> QED BY <2>1 DEF After, BeforeLadder, BPF!Kill
<1>8. After(sc, f, 4, acc) = BeforeLadder(sc, 4, acc)
  <2>1. BPF!Filter[4] = BPF!Ld("nr") /\ ~(4 > Len(BPF!Filter))
    BY <1>2, FilterIs
  <2>2. After(sc, f, 4, acc) = f[5][sc.nr]
    BY <2>1 DEF After, BPF!Ld
  <2>3. f[5][sc.nr] = BeforeLadder(sc, 5, sc.nr)
    <3>1. 5 \in 1..17
      OBVIOUS
    <3>2. \A a \in Nat : f[5][a] = BeforeLadder(sc, 5, a)
      BY <1>3, <3>1
    <3> QED BY <1>1, <3>2
  <2> QED BY <2>2, <2>3 DEF BeforeLadder
<1>9. After(sc, f, 5, acc) = BeforeLadder(sc, 5, acc)
  <2>1. BPF!Filter[5] = BPF!Jset(BPF!X32_SYSCALL_BIT, 0, 1) /\ ~(5 > Len(BPF!Filter))
    BY <1>2, FilterIs
  <2>2. After(sc, f, 5, acc) = IF Bit(acc, BPF!X32_SYSCALL_BIT) THEN f[6][acc] ELSE f[7][acc]
    BY <2>1 DEF After, BPF!Jump, BPF!Holds, BPF!Jset, Bit
  <2>3. f[6][acc] = BeforeLadder(sc, 6, acc) /\ f[7][acc] = BeforeLadder(sc, 7, acc)
    BY <1>3
  <2> QED BY <2>2, <2>3 DEF BeforeLadder, From5
<1>10. After(sc, f, 6, acc) = BeforeLadder(sc, 6, acc)
  <2>1. BPF!Filter[6] = BPF!Kill /\ ~(6 > Len(BPF!Filter))
    BY <1>2, FilterIs
  <2> QED BY <2>1 DEF After, BeforeLadder, BPF!Kill
<1>11. After(sc, f, 7, acc) = BeforeLadder(sc, 7, acc)
  <2>1. BPF!Filter[7] = BPF!Jeq(9, 0, 4) /\ ~(7 > Len(BPF!Filter))
    BY <1>2, FilterIs
  <2>2. After(sc, f, 7, acc) = IF acc = 9 THEN f[8][acc] ELSE f[12][acc]
    BY <2>1 DEF After, BPF!Jump, BPF!Holds, BPF!Jeq
  <2>3. f[8][acc] = BeforeLadder(sc, 8, acc) /\ f[12][acc] = BeforeLadder(sc, 12, acc)
    BY <1>3
  <2> QED BY <2>2, <2>3 DEF BeforeLadder, From7
<1>12. After(sc, f, 8, acc) = BeforeLadder(sc, 8, acc)
  <2>1. BPF!Filter[8] = BPF!Ld("prot") /\ ~(8 > Len(BPF!Filter))
    BY <1>2, FilterIs
  <2>2. After(sc, f, 8, acc) = f[9][sc.prot]
    BY <2>1 DEF After, BPF!Ld
  <2>3. f[9][sc.prot] = BeforeLadder(sc, 9, sc.prot)
    <3>1. 9 \in 1..17
      OBVIOUS
    <3>2. \A a \in Nat : f[9][a] = BeforeLadder(sc, 9, a)
      BY <1>3, <3>1
    <3> QED BY <1>1, <3>2
  <2> QED BY <2>2, <2>3 DEF BeforeLadder
<1>13. After(sc, f, 9, acc) = BeforeLadder(sc, 9, acc)
  <2>1. BPF!Filter[9] = BPF!Jset(4, 0, 1) /\ ~(9 > Len(BPF!Filter))
    BY <1>2, FilterIs
  <2>2. After(sc, f, 9, acc) = IF Bit(acc, 4) THEN f[10][acc] ELSE f[11][acc]
    BY <2>1 DEF After, BPF!Jump, BPF!Holds, BPF!Jset, Bit
  <2>3. f[10][acc] = BeforeLadder(sc, 10, acc) /\ f[11][acc] = BeforeLadder(sc, 11, acc)
    BY <1>3
  <2> QED BY <2>2, <2>3 DEF BeforeLadder, Unless
<1>14. After(sc, f, 10, acc) = BeforeLadder(sc, 10, acc)
  <2>1. BPF!Filter[10] = BPF!Kill /\ ~(10 > Len(BPF!Filter))
    BY <1>2, FilterIs
  <2> QED BY <2>1 DEF After, BeforeLadder, BPF!Kill
<1>15. After(sc, f, 11, acc) = BeforeLadder(sc, 11, acc)
  <2>1. BPF!Filter[11] = BPF!Allow /\ ~(11 > Len(BPF!Filter))
    BY <1>2, FilterIs
  <2> QED BY <2>1 DEF After, BeforeLadder, BPF!Allow
<1>16. After(sc, f, 12, acc) = BeforeLadder(sc, 12, acc)
  <2>1. BPF!Filter[12] = BPF!Jeq(10, 0, 4) /\ ~(12 > Len(BPF!Filter))
    BY <1>2, FilterIs
  <2>2. After(sc, f, 12, acc) = IF acc = 10 THEN f[13][acc] ELSE f[17][acc]
    BY <2>1 DEF After, BPF!Jump, BPF!Holds, BPF!Jeq
  <2>3. f[13][acc] = BeforeLadder(sc, 13, acc) /\ f[17][acc] = BeforeLadder(sc, 17, acc)
    BY <1>3
  <2> QED BY <2>2, <2>3 DEF BeforeLadder, From12
<1>17. After(sc, f, 13, acc) = BeforeLadder(sc, 13, acc)
  <2>1. BPF!Filter[13] = BPF!Ld("prot") /\ ~(13 > Len(BPF!Filter))
    BY <1>2, FilterIs
  <2>2. After(sc, f, 13, acc) = f[14][sc.prot]
    BY <2>1 DEF After, BPF!Ld
  <2>3. f[14][sc.prot] = BeforeLadder(sc, 14, sc.prot)
    <3>1. 14 \in 1..17
      OBVIOUS
    <3>2. \A a \in Nat : f[14][a] = BeforeLadder(sc, 14, a)
      BY <1>3, <3>1
    <3> QED BY <1>1, <3>2
  <2> QED BY <2>2, <2>3 DEF BeforeLadder
<1>18. After(sc, f, 14, acc) = BeforeLadder(sc, 14, acc)
  <2>1. BPF!Filter[14] = BPF!Jset(4, 0, 1) /\ ~(14 > Len(BPF!Filter))
    BY <1>2, FilterIs
  <2>2. After(sc, f, 14, acc) = IF Bit(acc, 4) THEN f[15][acc] ELSE f[16][acc]
    BY <2>1 DEF After, BPF!Jump, BPF!Holds, BPF!Jset, Bit
  <2>3. f[15][acc] = BeforeLadder(sc, 15, acc) /\ f[16][acc] = BeforeLadder(sc, 16, acc)
    BY <1>3
  <2> QED BY <2>2, <2>3 DEF BeforeLadder, Unless
<1>19. After(sc, f, 15, acc) = BeforeLadder(sc, 15, acc)
  <2>1. BPF!Filter[15] = BPF!Kill /\ ~(15 > Len(BPF!Filter))
    BY <1>2, FilterIs
  <2> QED BY <2>1 DEF After, BeforeLadder, BPF!Kill
<1>20. After(sc, f, 16, acc) = BeforeLadder(sc, 16, acc)
  <2>1. BPF!Filter[16] = BPF!Allow /\ ~(16 > Len(BPF!Filter))
    BY <1>2, FilterIs
  <2> QED BY <2>1 DEF After, BeforeLadder, BPF!Allow
<1>21. After(sc, f, 17, acc) = BeforeLadder(sc, 17, acc)
  <2>1. BPF!Filter[17] = BPF!Ld("nr") /\ ~(17 > Len(BPF!Filter))
    BY <1>2, FilterIs
  <2>2. After(sc, f, 17, acc) = f[18][sc.nr]
    BY <2>1 DEF After, BPF!Ld
  <2>3. f[18][sc.nr] = FromLadder(sc.nr, 18)
    BY <1>1, <1>4
  <2> QED BY <2>2, <2>3 DEF BeforeLadder
<1>22. pc \in {1, 2, 3, 4, 5, 6, 7, 8, 9, 10, 11, 12, 13, 14, 15, 16, 17}
  OBVIOUS
<1> QED
  BY <1>3, <1>5, <1>6, <1>7, <1>8, <1>9, <1>10, <1>11, <1>12, <1>13, <1>14, <1>15, <1>16,
     <1>17, <1>18, <1>19, <1>20, <1>21, <1>22 DEF f

\* The closed form is what the machine does, so the machine decides as it says.
LEMMA DecisionsRun == ASSUME NEW sc \in SystemCall PROVE Runs(sc, Decisions(sc))
<1>1. ASSUME NEW pc \in Positions, NEW acc \in Nat
      PROVE  After(sc, Decisions(sc), pc, acc) = Decided(sc, pc, acc)
  <2>0. pc \in Nat /\ pc >= 1 /\ AllowLen \in Nat /\ Len(BPF!Filter) = 2 * AllowLen + 18
    BY Allowed, FilterIs DEF Positions
  <2>1. CASE pc < 18
    BY <2>0, <2>1, HeadRuns
  <2>2. CASE pc >= 18 /\ pc < 2 * AllowLen + 18 /\ pc % 2 = 0
    <3>1. PICK i \in 1..AllowLen : pc = 2 * i + 16
      <4>1. (pc - 16) \div 2 \in 1..AllowLen /\ pc = 2 * ((pc - 16) \div 2) + 16
        BY <2>0, <2>2
      <4> QED BY <4>1
    <3> QED BY <3>1, LadderRuns
  <2>3. CASE pc >= 18 /\ pc < 2 * AllowLen + 18 /\ pc % 2 = 1
    <3>1. PICK i \in 1..AllowLen : pc = 2 * i + 17
      <4>1. (pc - 17) \div 2 \in 1..AllowLen /\ pc = 2 * ((pc - 17) \div 2) + 17
        BY <2>0, <2>3
      <4> QED BY <4>1
    <3> QED BY <3>1, LadderRuns
  <2>4. CASE pc = 2 * AllowLen + 18
    <3>1. ~(pc > 2 * AllowLen + 18) /\ ~(pc < 18) /\ pc % 2 # 1
      BY <2>0, <2>4
    <3>2. FromLadder(acc, pc) = "kill"
      BY <2>0, <2>4 DEF FromLadder
    <3>3. After(sc, Decisions(sc), pc, acc) = "kill"
      <4>1. BPF!Filter[pc] = BPF!Kill /\ ~(pc > Len(BPF!Filter))
        BY <2>0, <2>4, FilterIs
      <4> QED BY <4>1 DEF After, BPF!Kill
    <3> QED BY <3>1, <3>2, <3>3, DecidedParts
  <2>5. CASE pc > 2 * AllowLen + 18
    BY <2>0, <2>5, DecidedParts DEF After
  <2>6. pc % 2 \in {0, 1}
    BY <2>0
  <2> QED BY <2>0, <2>1, <2>2, <2>3, <2>4, <2>5, <2>6
<1> QED BY <1>1, Zenon DEF Runs, Decisions

\* The program decides as the policy does, for any architecture, number and
\* protection.
LEMMA ProgramIsPolicy == ASSUME NEW sc \in SystemCall PROVE BPF!FilterIsPolicy(sc)
<1>1. BPF!Machine(sc) = Decisions(sc)
  BY DecisionsRun, MachineRuns, OneDecision
<1>2. BPF!Decision(sc) = From2(sc, sc.arch)
  <2>1. ~(1 > 2 * AllowLen + 18) /\ 1 < 18 /\ 1 \in Positions /\ 0 \in Nat
    BY Allowed DEF Positions
  <2>2. BeforeLadder(sc, 1, 0) = From2(sc, sc.arch)
    BY DEF BeforeLadder
  <2> QED BY ZenonT(60), <1>1, <2>1, <2>2, DecisionsAt, DecidedParts DEF BPF!Decision
<1>3. BPF!Range(BPF!ALLOW) = {BPF!ALLOW[i] : i \in 1..AllowLen}
  BY Allowed DEF BPF!Range
<1>4. FromLadder(sc.nr, 18) = IF sc.nr \in BPF!Range(BPF!ALLOW) THEN "allow" ELSE "kill"
  BY <1>3, Allowed DEF FromLadder
<1>5. 9 \notin BPF!Range(BPF!ALLOW) /\ 10 \notin BPF!Range(BPF!ALLOW)
  BY DEF BPF!ALLOW, BPF!Range
<1>6. \A n \in BPF!Range(BPF!ALLOW) : n < BPF!X32_SYSCALL_BIT
  <2>1. \A n \in 0..441 : n < BPF!X32_SYSCALL_BIT
    BY SMT DEF BPF!X32_SYSCALL_BIT
  <2> SUFFICES ASSUME NEW n \in BPF!Range(BPF!ALLOW) PROVE n < BPF!X32_SYSCALL_BIT
    OBVIOUS
  <2>2. PICK i \in 1..AllowLen : n = BPF!ALLOW[i]
    BY <1>3
  <2> QED BY <2>1, <2>2, Allowed
<1>7. sc.nr < BPF!X32_SYSCALL_BIT => ~Bit(sc.nr, BPF!X32_SYSCALL_BIT)
  <2>1. \A n \in Nat : n < 1073741824 => n \div 1073741824 = 0
    BY SMT
  <2>2. sc.nr < BPF!X32_SYSCALL_BIT => sc.nr \div BPF!X32_SYSCALL_BIT = 0
    BY <2>1, SMT DEF SystemCall, BPF!X32_SYSCALL_BIT
  <2> QED BY <2>2 DEF Bit
<1>8. (sc.prot \div BPF!PROT_EXEC) % 2 = 0 <=> ~Bit(sc.prot, 4)
  BY DEF Bit, SystemCall, BPF!PROT_EXEC
<1>9. 9 < BPF!X32_SYSCALL_BIT /\ 10 < BPF!X32_SYSCALL_BIT
  BY SMT DEF BPF!X32_SYSCALL_BIT
<1>10. /\ sc.nr \in {9, 10} <=> sc.nr = 9 \/ sc.nr = 10
       /\ BPF!X86_64 = 62 /\ {BPF!NR_MMAP, BPF!NR_MPROTECT} = {9, 10}
  BY DEF BPF!X86_64, BPF!NR_MMAP, BPF!NR_MPROTECT
<1> DEFINE Good == /\ sc.arch = 62 /\ sc.nr < BPF!X32_SYSCALL_BIT
                   /\ sc.nr \in BPF!Range(BPF!ALLOW) \/ (sc.nr \in {9, 10} /\ ~Bit(sc.prot, 4))
<1>11. BPF!Policy(sc) = IF Good THEN "allow" ELSE "kill"
  BY <1>8, <1>10, Zenon DEF BPF!Policy
<1>12. BPF!Decision(sc) = IF Good THEN "allow" ELSE "kill"
  <2>1. CASE sc.arch # 62
    BY <1>2, <2>1 DEF From2
  <2>2. CASE sc.arch = 62 /\ sc.nr \in BPF!Range(BPF!ALLOW)
    <3>1. sc.nr # 9 /\ sc.nr # 10 /\ sc.nr < BPF!X32_SYSCALL_BIT
      BY <1>5, <1>6, <2>2
    <3> QED BY <1>2, <1>4, <1>7, <2>2, <3>1 DEF From2, From5, From7, From12
  <2>3. CASE sc.arch = 62 /\ sc.nr \in {9, 10}
    <3>1. sc.nr < BPF!X32_SYSCALL_BIT /\ sc.nr \notin BPF!Range(BPF!ALLOW)
      BY <1>5, <1>9, <2>3
    <3> QED BY <1>2, <1>7, <2>3, <3>1 DEF From2, From5, From7, From12, Unless
  <2>4. CASE sc.arch = 62 /\ sc.nr \notin BPF!Range(BPF!ALLOW) /\ sc.nr \notin {9, 10}
    BY <1>2, <1>4, <2>4 DEF From2, From5, From7, From12
  <2> QED BY <2>1, <2>2, <2>3, <2>4
<1> QED BY <1>11, <1>12 DEF BPF!FilterIsPolicy

\* The BPF program decides every system call as the policy does.
THEOREM FilterDecidesAsPolicy == GatesSpec => []FilterIsPolicy
<1>1. AskedInv => FilterIsPolicy
  BY ProgramIsPolicy, GatesAssumption DEF AskedInv, GatesAssumption, FilterIsPolicy, SystemCall
<1> QED BY <1>1, AskedInvariant, PTL
=============================================================================

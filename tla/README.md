# Verification of the isolation layer

TLA+ modules, model-checking configurations and machine-checked proofs for this repository: the
decision chain, the `prove` orchestration of the isolation manager, the spent store of the box entry,
the listeners that face a guest and their hardening, the shelf, the route door, and the checks at each
entrance. Paths below are relative to the repository root.

## 1. The system

One *tool call* enters through `scripts/box_entry.py`. With `BOX_LIVE_PROVE=1` it starts
`isolation-manager prove`, which boots a Firecracker guest through the root helper
`jailer-launch`, checks it, takes its result over vsock, hands the result to an inert shelf, lets a
second, disposable guest inspect it, tears both down, compares the host with a snapshot and records
every stage on a hash-linked *decision chain*. `isolation-manager serve` does the same for each
connection of a Unix socket, in a thread of its own. The receipt that comes back, and the box
ticket, are spent once in a store beside the chain.

| component | source | state | operations | interacts through |
|---|---|---|---|---|
| decision chain | `aegis-common/src/decision_chain.rs` | the JSON-lines file, the process mutex `APPEND_GATE`, `flock` | `append`, `tip_hash`, `require_ancestor`, `read_all`, `verify` | the file, shared by threads and processes |
| prove orchestration | `isolation-manager/src/prove.rs`, `serve.rs` | where a call is, its exit code | `handle_conn`, `run`, `run_checks` | chain rows, guests, directories, the reply |
| launch and teardown | `isolation-manager/src/launch.rs`, `jailer-launch/src/main.rs`, `aegis-common/src/firecracker.rs` | guests, jail directories, pid files, `LaunchedVm::cleaned` | `launch_via_helper`, `SpawnGuard::drop`, `teardown_vm`, `prepare_jail_root`, `cleanup_jail` | sudo, signals, the file system |
| host snapshot | `aegis-common/src/host_snapshot.rs` | none | `capture`, `assert_host_vmm_hygiene` | process table, jail base |
| shelf and handoff | `dropbox/src/*.rs`, `isolation-manager/src/handoff.rs` | objects by hash, temporary files | `put`, `take`, `verify`, `handoff_roundtrip` | a directory per process |
| inspection | `inspector/src/*.rs`, `isolation-manager/src/inspect_vm.rs` | the staged blob | `stage_from_guard`, `dispose`, `run_disposable_inspect`, verdict parsing | shelf, second guest |
| vestibule | `vestibule/src/*.rs` | listener socket, deadline, reject log | listen, accept, read one frame, validate, harden | vsock, its parent process |
| spent store | `scripts/box_entry.py` | the store file, its lock file, temporary files | `_spent_keys`, `_sweep_temps`, `_replace_store`, `_accept_once`, `run` | files, shared by threads and processes |
| launch validation, path trust | `aegis-common/src/validate.rs`, `trust.rs` | none | pure checks | called by the helper |
| read tool, command line | `isolation-manager/src/read.rs`, `main.rs` | none | allow-listed reads | |
| vsock helpers | `aegis-common/src/firecracker.rs`, `inspect_vm.rs` | a listener in a thread | `vsock_roundtrip`, `vsock_inspect_reply` | vsock, the call that joins them |
| route door | `demos/sandbox-demo/src/route.rs` | one task in, one receipt out | `run_route`, `deliver_with_deadline` | chain, shelf, a listener thread, the gate that started it |
| sandbox demo scenarios | `demos/sandbox-demo` | none kept | seeded scenarios on `StubHost` | the manager's pieces |
| scripts, floor, deployment | `scripts/`, `.floor/`, `deploy/` | none kept | operator glue, text gates | |

What is hard here:

* **concurrency**: threads of `serve` and several managers append to one chain, watch one host
  and (threads) share shelf and stage directories; several box entries spend tickets from one store.
* **crashes and power**: half-written lines, rows that were answered but not synced, rename without
  a synced directory, guests without a manager, temporary files without an owner.
* **partial failure**: each `prove` has about twenty places where it may fail, each with rows to
  write and guests to stop; one teardown error is dropped and another is logged.
* **ordering**: Launch row before the guest, main guest gone before the inspector's guest, the host
  compared after both; lookup, decision and record of a ticket under one lock.
* **deadlines**: the API socket, the guest's boot, its probes and the listeners have one. Reading the helper's
  metadata line (`launch.rs:146`), `status()` and `output()` of sudo, kill, pgrep and strings, and `child.wait()`
  after a kill have none, and what a listener writes to a guest has one per write only.

What makes the components correct, in one line each:

* *chain*: whatever happens, the lines of the file link from genesis; a recorded tip stays; no row
  goes behind torn bytes; `append` returns.
* *prove*: rows tell the truth about the host; no guest without its Launch row, and none left behind that the
  answer and the rows are silent about; exit codes are borne out by rows; independent calls do not fail each other.
* *spent store*: no receipt id and no ticket is accepted twice in a lifetime, and none is refused
  without cause.
* *shelf*: what was handed over stays and stays whole; only calls that overlap hurt each other.
* *listeners*: one deadline bounds what is read however the guest drips, and the timeouts of the writes what is
  written; what a call goes on with was
  read whole, from one connection, by a hardened listener; a refusal leaves a log line and no message.
* *hardening*: a report claims only what is in force; what binds a process must not bind the launches
  of other calls; a filtered thread starts no program.
* *route door*: the receipt and the exit code are borne out by the rows and by what became of the body.
* *checks at an entrance*: the filter decides as its policy, a claim goes no further than its gravest
  reason, root acts only on paths no other user had a hand in, a printed file is the allow-listed one.

## 2. Modules

| module | models | checked by | proved in |
|---|---|---|---|
| `AppendLog` | what the chain promises: an append-only log whose calls take effect once | (abstract) | |
| `DecisionChain` | `decision_chain.rs` | `MCDecisionChain`: `Chain`, `ChainReaders` | `DecisionChainProofs` |
| `Prove` | `prove.rs`, `serve.rs`, `launch.rs`, `inspect_vm.rs`, `host_snapshot.rs` and the helper | `MCProve`: `Prove`, `ProveTeardown`, `ProveGenesis` | `ProveProofs`, `ProveAnswerProofs` |
| `SpentStore` | the spent store of `box_entry.py` | `MCSpentStore`: `Spent`, `SpentNames` | `SpentStoreProofs` |
| `GuestListener` | `vestibule/src/*.rs` and the vsock helpers: one listener, its guest and the call that waits | `MCDoor`: `Listener`, `DoorDeadline` | `GuestListenerProofs` |
| `Door` | `demos/sandbox-demo/src/route.rs` around a `GuestListener` | the same | `DoorProofs` |
| `Shelf` | `dropbox/src/*.rs`, `handoff.rs`, staging | `MCShelf`: `Shelf` | `ShelfProofs` |
| `Confine` | `vestibule/src/harden.rs` and who shares a process with whom | `MCGates`: `Gates`; `MCConfine`: `ConfineServe` | `GatesProofs` |
| `Seccomp` | the BPF program of `harden.rs` and the machine that runs it | `MCGates`: `Gates` | `GatesProofs` |
| `Verdict` | `inspector/src/verdict.rs`, `vestibule/src/schema.rs` | `MCGates`: `Gates` | `GatesProofs` |
| `LaunchGate` | `jailer-launch`, `validate.rs`, `trust.rs` | `MCGates`: `Gates` | `GatesProofs` |
| `ReadGate` | `isolation-manager/src/read.rs` | `MCGates`: `Gates` | `GatesProofs` |
| `SpotCheck` | the host-home probe of `prove.rs` and the reading of its transcript | `MCGates`: `Gates` | `GatesProofs` |
| `Gates` | the checks at the entrances: one input to one of them, or one of the two that take many steps | `MCGates`: `Gates` | `GatesProofs` |

`Door` extends `GuestListener` and uses `Verdict`; `Gates` extends `LaunchGate` and `ReadGate` and
instantiates `Verdict`, `Seccomp`, `SpotCheck` and `Confine`. `DecisionChain` refines `AppendLog`,
which is what `Prove` and `Door` take an append to be.

### DecisionChain

State: `lines` (complete lines, each with its entry, `prev`, `sha` and whether it parses), `torn`
(bytes after the last newline), `synced` (how many lines a power cut cannot take), the process mutex
`gate`, the holder of `flock`, and per thread a program counter, argument, predecessor and answer.
An append is `Call, TakeGate, OpenFile, TakeFlock, ReadTip, WritePart?, WriteLine, Sync, Unlock`, with
`LockError`, `TipError` and `WriteError` where `?` leaves the function. `Return` is the drop of the
file and of the guard. The readers `TipHash`, `Verify`, `RequireAncestor` take no lock, as in the
code. `Crash(p)` kills a process (its flock goes with it), `PowerCut(n)` keeps at least the
synced lines. A digest is the sequence of entries it covers: injective, as SHA-256 is taken to be.
`fsync`'s result is ignored in the code, so `Sync` may have synced nothing.

### Prove

A request's program counter follows `prove::run`, `run_checks` and `run_disposable_inspect` line by
line; `box[r]` says which of its two guests it is at, so that launching and tearing down are one set
of actions for both. `live`, `dirs`, `pidFile` are the host, `shelf` and `staged` the directories that
threads of a process share, `before` the snapshot. Appends are atomic here and may fail:
`DecisionChain` refines exactly that. `Settings` is a set of pairs of a placement (which
process serves which request) and the faults of that setting, one of which a behaviour starts in:
`"append"`, `"read"` (of the
chain), `"host"` (every launch, check, teardown, snapshot step, and a guest or VMM that goes down by itself),
`"kill"` (a kill of a teardown that does not reach its guest: `teardown_vm` ignores a pid file that is missing or
unparsable and every error of `kill`) and `"crash"` (of a manager). What depends on a guest's output is one choice between
`ok` and `err`.

A guest is not its launcher's child. `SpawnGuard::drop` kills and waits for sudo and has the directory removed; nobody reads
`firecracker.pid` there, and the guest may run on (`GuardKills`). `Stop` kills the guest the pid file names, and the
sudo child, with which the guest may or may not go. The stages that wait for another process without a deadline are `OnProcess`.

### SpentStore

`store` is the file in memory, `flushed` what of it is on the disk, `settled` whether its name is,
and `base` the file the name would lead to if not. A call is `Start, TakeLock, Read`, then either
`WriteRows, Sync` or (when rows have expired) `Sweep, Replace, DirSync`; `IOError` is an exception at
any of them, after which `_accept_once` refuses (`Fail`). A file is its readable rows, whether one line of
it is unreadable (which refuses every call) and whether its last line lacks the newline (the
next row then lands on that line). `Torn` enumerates where a write may stop, `Survivors` what a power
cut may leave of bytes that were not synced. `NamesDurable` says whether `fsync` of a file also makes
its directory entry durable, as on ext4, or not, as POSIX allows.

### GuestListener

Four listeners share one shape, and `kind` says which it is: `ping` (`vsock_roundtrip`), `result` (the
process `vestibule-listen`), `inspect` (`vsock_inspect_reply`) and `door` (`serve_one_with_opts` in a
thread of the route door). Each waits for Firecracker's socket (not the door), binds, hardens (not ping and
door), accepts, reads and answers; what differs is a constant of the code and is named where it does:
which clock a read is given (`ReadUntil`), whether a failed connection ends the listener (`Refuse`)
or is dropped for the next (`Retry`), who logs and who unlinks. Two of them write: after the end of the stream
`ping` writes `pong:` and all it has read back, each write with the time that was left then; `inspect` pushes its body
after HELLO, each write with a timeout of its own (`WriteGoes`, `WriteFails`). The guest may connect, send a
unit at a time, take nothing or one unit at a time, lie about the length, close, or do nothing. The call that waits is `parent`: for the
path, for the serial command to be written, for the listener's end. Time is a clock that `Tick` moves
only when somebody waits and nothing is due.

### Door

`run_route` from the parsed task to the exit code, with every row and every error return. While a
call is delivering, the steps are those of the door's listener; the other kinds run in this module
as in `GuestListener`. The gate may kill a door at any step.

### Shelf

`object` and `temp` map a body to a file, by number, so that a rename and an unlink move names and
not bytes: a writer keeps writing to the file it opened. A file is a sequence of chunks, a hole where a
writer's file was truncated under it. `serve` callers share a directory and each removes it at its
end, while another may be opening it (`Cleaning`); `cli` callers keep theirs and may be
killed. Every input or output may fail (`IoFails`).

### Confine, Seccomp

`Confine` keeps for each thread whether it has `no_new_privs`, Landlock and a filter, for each process its
cgroup leaf, dumpable flag and core limit: which of the two a step binds is what goes wrong. The hardening steps
are taken in the order of `Steps`, each with its failures; entering a cgroup tries what is there, then a leaf
through the file system, then `busctl`, whose migration comes later (`Migrate`) or not in time (`PollGivesUp`); a `busctl`
that fails counts only if the process is in no jail's leaf by then.
`ran` is the last program started, with the state of the thread that started it. `Seccomp` holds the BPF
instructions as the code pushes them, `Machine` the interpreter of the kernel as a recursive function, and
`Policy` what the filter is for.

### The checks

`Verdict` and `SpotCheck` are operators from an input to an answer, with the property in terms of what
the input means and not of how the code decides. `ReadGate` is one operator too, from what the
program meets at each of the four moments it asks the file system, since the answers need not agree.
`LaunchGate` walks paths entry by entry while another user changes what permissions let it (`UserMoves`).

## 3. What is checked

Every passing run finishes its whole state space.

| run | bounds | properties |
|---|---|---|
| `chain` | 3 threads in 2 processes, 1 append each, 1 power cut, one good and one refused entry; fairness | `TypeOK`, `ChainVerifies`, `PinnedTipStays`, `TornTailBlocks`, `ImplementsAppendLog`, `CallsReturn` |
| `prove` | 2 requests, as threads of one manager or as 2 managers, four sets of faults; fairness | `TypeOK`, `ProvedMeansGone`, `GuestOnRecord`, `LeakOnRecord`, `OneGuestAtATime`, `AnswerBorneOut`, `LaunchClosed`, `AloneSucceeds`, `EveryRequestAnswered` |
| `spent` | 3 calls in 2 processes, two share a ticket, one is not bound; lifetime 2, clock to 2, 1 power cut, every fault; fairness | `TypeOK`, `OnceInLifetime`, `TempsDoNotPile`, `RefusedForCause`, `CallsAnswered` |
| `listener` | each of the four kinds, 2 connections of 4 units, a body of 2 writes, clock to 11, `Timeout` 2, a frame of 2 units; fairness | `TypeOK`, `OneDeadline`, `TakenIsSound`, `NoListenerLeft`, `RefusalOnRecord`, `AnswerBorneOut`, `StalledGuestTimesOut`, `ListenersEnd` |
| `shelf` | 3 callers of either kind, 2 bodies of 2 chunks | `HandedOverStays`, `FailsForCause`, `QuietShelfWhole` |
| `gates` | ids of up to 4 characters, paths of 2 entries, claims of up to 5 reasons, filenames of up to 4 characters, system calls 0 to 450, reads of up to 4 bytes, 2 calls of one manager with 4 hardenings on any host | `GravestReasonHolds`, `NamesAreOpaque`, `FilterIsPolicy`, `ReadIsHonest`, `VerdictIsRight`, `NobodySteersRoot`, `ReportTrue`, `ManagerCanLaunch`, `CappedByAnother` |

Why the bounds are enough for what they show. Three threads in two processes give both kinds of
contention (mutex within a process, flock between them) and a third writer behind a torn line. Two
requests give every overlap of two calls; each has both of its guests, and the second process shows
what a shared mutex would hide. For the store, two calls that clash and one that does not give a
lookup that must fail and a row that must survive a prune; lifetime 2 and clock 2 let a row be live,
expire, and be pruned with a killed prune before. One power cut is enough to lose whatever is not
durable. The theorems below remove these bounds for what they state.

A listener needs a timeout of two ticks to tell "before every read" from "once", a frame of two units to
be cut short, three units after a header to be too long, and two connections for the inspector's retry;
`MaxClock` 11 is beyond every deadline the run can reach, so no behaviour is cut off: the latest is that of a pong
of five writes (2 + 4 x 2 = 10). On a shelf, a third
caller can rename or remove between the steps of two that already disagree about the temporary name; two
chunks make a half-written file. An id of four characters is one over `MaxId`, one reason more than
`MaxReasons` and one character more than `MaxFilename` are given, and every number of a system call the
filter knows lies in its range, five of them with the x32 bit too. Two calls of one process show one
call's hook reaching another's launch. In `prove` a fault of one setting does not occur in all: the settings are,
for two threads, no faults, and host and readers; for two managers, appends and kills, and readers and a manager's death.

What some properties do not say. `PinnedTipStays` speaks of a chain whose power stays on, so it does not catch an ignored
`fsync` on its own. `ImplementsAppendLog` has no error after a complete row because the code has none (`File::flush` does
nothing). `RefusedForCause` leaves out refusals for an unreadable row, and to `CallsAnswered` a refusal is an answer, so a store
that refuses every call for ever breaks neither.

Fairness. In `prove`, a step of a request is weakly fair unless it waits for another process without a deadline
(`OnProcess`): `EveryRequestAnswered` says that a call that gets past those waits is answered, which leaves out just
what the code leaves to sudo, kill and the helper. The steps of `crash` and the end of a guest are not fair. In `chain` and `spent` only the steps that carry a call
on are fair, not the errors, so that a thread that waits for a lock gets it only because the holder gives it
up or is killed; each thread takes a lock once, so weak fairness is enough. In `listener` the listener, the call, the
door and the clock are weakly fair and the guest, its VMM and the gate are not: `ListenersEnd` holds of a guest that does
nothing for ever. Runs that end (`CHECK_DEADLOCK FALSE`) do so because all calls are over. Symmetry (`shelf`, `gates`) is
used only where every property is an invariant.

### Disagreements the runs show

* `chain_readers`: readers take no lock, though the comment of `read_all_unlocked`
  (`decision_chain.rs:393`) says its caller holds it: a reader may be told "torn tail" of a chain that
  is only being written.
* `prove_teardown`: `teardown_vm` says it returns `Err` if cleanup could not confirm
  (`launch.rs:259`), but a second call returns `Ok` whatever the first found, and the first one's
  result is dropped (`prove.rs:549`). A `Teardown` row may be recorded with the jail directory in
  place. `ProvedMeansGone` holds all the same, because the host comparison catches it.
* `prove_genesis`: the emptiness of the chain is checked at the start of a call, and two calls can
  both pass `--allow-genesis` (`prove.rs:167`).
* `spent_names`: where `fsync` of a file does not keep its name, the append path loses the store to
  a power cut (`box_entry.py:259`).
* `confine_serve`: `prove.rs:482` says the result listener is a process of its own because hardening
  in the manager capped the launches after it; the inspector's hook does harden in the manager, so
  in `serve` the launches of the next calls run capped. `CappedByAnother` shows that a call never does this to itself.
* `door_deadline`: `demos/README.md:32` says the door's deadline is the only one and a stalled guest ends in exit 4;
  `serve_one_with_opts` has one of 60 s, so with a longer `--guest-deadline-ms` the stall becomes a
  rejection, a receipt and exit 0. With `DoorWaits` below it `StalledGuestTimesOut` holds.

Three smaller ones have no run of their own. The comment at `serve.rs:96` has launches serialize, while
connections are served in threads; `AloneSucceeds` says what overlap costs. And a listener of the door that cannot bind
its socket ends in exit 0 with disposition rejected, while `demos/README.md:37` gives input and output errors exit 6.
And `crates/aegis-common/tests/vsock_roundtrip_deadline.rs:1` says `vsock_roundtrip` is bounded by its timeout, which holds of its
reads; what it writes back may take the time left once more for every write, and `OneDeadline` says by how much.

## 4. What is proved

All theorems hold for any sets of threads, processes, requests, guests, calls, keys, paths and inputs, any clock
and any faults, under the named assumptions of the modules (`ASSUME`), which TLC evaluates in the runs. Every
safety invariant and every action property of a passing run is a theorem. Each inductive invariant stands in the
module it is about, and TLC found it to hold there before it was proved.

**DecisionChainProofs.** `TypeCorrect`; `ChainInvariant`, whose `ChainInv` adds to the types that the
holder of the flock is the one thread between its two ends (`LockInv`) and that such a thread's `prev` is
the tip of the file as it is (`WriterInv`). `ChainVerifies` alone is not inductive: a writer
between `ReadTip` and `WriteLine` would append a row with any predecessor. From it:
`ChainAlwaysVerifies`, `TornTailStopsTheChain`, `PinnedTipIsAncestor`, and `ChainRefinesLog`, the step-by-step
refinement of `AppendLog` under the mapping of `ImplementsAppendLog`.

**ProveProofs.** `ProveInvariant`: which guest a call is at (`BoxInv`), that a running guest's call
has not passed the host comparison (`GuestInv`), which rows a call must have (`RowInv`), and, with
distinct jail ids, that a call that passed the comparison left nothing (`GoneInv`: its own snapshot has
nothing of its own in it) and that a jail's pid file names the guest that runs there, which a kill that arrives
ends (`StoppedInv`). It holds whatever a killed sudo leaves behind and whichever kills fail. Each request owns its part of every
variable, so a step of one request is shown to leave the invariant of the others alone once and for all. From it: `ProveRowMeansGone`,
`GuestsAreOnRecord`, and `SingleGuest`, whose hypothesis is that kills arrive.

**ProveAnswerProofs.** `AnswerBorneOut` compares an exit code with rows written long before, so it needs
`StoryInvariant`: at every stage the rows are the story of `prove::run` up to there, and what went wrong is still
to be recorded (`StoryAt`). From it `RowsBearTheAnswerOut` and `NoLaunchLeftOpen`, and, with `GuestInv`, `NoSilentLeak`: a guest that outlives
its call's answer, and the code has such guests, comes with an exit code and a last row that say so. `AloneCallSucceeds` has an
invariant of its own (`AloneInvariant`): a call that has met no other finds the host, the shelf and the stage
as it left them. Its hypothesis is that the manager requires an ancestor and that the chain has a row, the
configuration in which such a call is meant to succeed; the run has it too.

**SpentStoreProofs.** `StoreInvariant`: every accepted call is carried by the store in memory, by what is
synced, and by the file an unsettled name would fall back to (`SpentInv`); a call that has decided to
accept clashes with no accepted call (`ClearInv`), its rows are written before it answers
(`WrittenInv`), and pruning starts from a readable file (`CleanInv`). `OnceInLifetime` says nothing of
files, so it is not inductive. From it, `NoKeyIsSpentTwice`, under the hypothesis
`NamesDurable \/ "power" \notin Faults`, which `spent_names` shows to be needed. `AtMostOneTemp` needs only the lock.
`RefusalHasItsCause` is the converse and needs no such hypothesis: until the power goes, every row of the store is
one of a call that was let through and got as far as its write (`RowsInv`), and a call that will be refused clashes
with such a call (`CauseInv`).

**GuestListenerProofs.** `ListenerInvariant`: which connection a message is read from and who accepted it
(`ConnInv`), how a listener ended and what its call made of that (`EndInv`), what may be accepted (`SoundInv`), and the clock at
each stage (`TimeInv`). `OneDeadline` is not inductive for what has a timeout for each read or write: `TimeInv` says when the writes of a
pong or a body are over if so many units are owed, and when the reads of a reply are if it has so many. From it `ListenerTypeCorrect`, `ListenerEndsInTime`,
`TakenWhole`, `ListenerReaped`, `RefusalsLogged`, for any timeouts and limits that satisfy `ListenerAssumption`. Of
its conditions, `HardenWait <= ReplyWait` (one second of polling against thirty of reading) was found by the proof: without it an
inspector's listener could overrun by its hardening instead.

**DoorProofs.** A step of the door is a step of its listener or leaves the listener alone, so `ListenerInv` holds there too.
`RouteInvariant` adds the rows, the shelf and the disposition of each stage; `DoorAnswerBorneOut` follows.
`StalledGuestGetsNoReceipt` has the hypothesis that the door's deadline is shorter than the listener's own (the default is; `door_deadline`
shows that a longer one breaks it), and needs `SentInv`: what the guest has sent is what the listener has read or
has still to read.

**ShelfProofs.** `ShelfInvariant`: no file has two names (`NameInv`); every object is whole or will be, because one of its writers has
left no hole so far (`FillInv`), which is what a truncation by another writer cannot undo; a call that met no other is
alone with its file (`LoneInv`); an object of a process that keeps its shelf keeps its name (`KeptInv`). From it `HandoffKept`, `OnlyOverlapFails`, `ShelfAtRestWhole`, for any finite set of
callers and any number of chunks.

**GatesProofs.** Four parts.

* `Confine`: `ConfineInvariant` (what binds a thread or process at each stage, `FlagInv`; who may be in a listener's
  cgroup, `CappedInv`) gives `ReportsAreTrue`, `ManagerKeepsItsRights`, `NoCallCapsItself`, for any number of calls.
* `LaunchGate`: `LaunchInvariant` says that what the walk has passed is trusted, and that whatever another user had a hand in lies
  below an entry that is not. That second half is what the user's moves keep, and `RootActsOnWhatItChecked`, for
  paths of any length, follows at the end of the walk.
* `Verdict`, `ReadGate`, `SpotCheck`: no induction but that an input stays as it was (`AskedInvariant`). `NoClaimGoesTooFar`,
  `NamesAreOneEntry`, `ReadsAreHonest` and `ProbeIsRight` are then facts about one input, which the run compares on bounded ones and the
  proofs establish for claims and names of any length, files of any size and homes of any number.
* `Seccomp`: `FilterDecidesAsPolicy`. The program is laid out instruction by instruction (`FilterIs`), its jumps lead forward
  (`Forward`), so the machine's recursive definition has one solution (`OneDecision`, by a least counterexample) and a
  closed form that satisfies it is that solution (`DecisionsRun`). It covers numbers and registers of any size, the x32 bit included.

Only model-checked: liveness, which needs fairness and `ENABLED` (`CallsReturn`, `EveryRequestAnswered`, `CallsAnswered`,
`ListenersEnd`), and the runs that end in a violation.

No module uses a recursive operator; `Seccomp!Machine` is a recursive function.

## 5. Assumptions and what is left out

* Pids are not reused within a call. A jailer that has started no guest when its call's wait for the API socket ends, or
  when its manager dies, starts none afterwards: the first has its directory removed.
* A host snapshot is taken at one instant; mounts and golden hashes are not part of it.
* Guests survive the crash of a manager. `fresh_jail_id` does not repeat (`DistinctJails` is a hypothesis
  where it is needed).
* The chain file is not moved while managers run. Timestamps and their floating-point text are left
  out of a row.
* `time.time()` does not go back. A power cut keeps what was synced.
* The reply's `tip` and `chain_grew` fields are left out; they read the chain without a lock.
* Two doors are never given one ticket: `parse_task` checks the form of a ticket, the gate keeps them fresh.
* A read or write takes no more time than its timeout; writing a serial command, the ACK of a frame and renaming a file take
  none. `busctl` returns (`harden.rs:331`; a call on the bus has a timeout of its own), which bounds the hardening of a listener.
* In `LaunchGate` root's own programs do not change the paths it walks.

Not modelled:

* the seeded scenarios of the sandbox demo: sequential checks that compose the pieces above with made-up input;
* the scripts of the box beside `box_entry.py`, the repository floor (`.floor/`: lint and release gates over
  text) and `deploy/` (installation scripts and unit files): no state and no concurrency of their own;
* argument parsing of the command line, and the stage-Q1 harness, whose fixtures run one after another;
* how a floating-point timestamp is printed, which decides whether a row verifies: its value space is out of
  TLC's reach;
* the memory and the threads of the host: `vsock_roundtrip` reads an answer without a cap
  (`firecracker.rs:193`), a client that feeds the manager's socket a byte at a time holds a thread
  (`serve.rs:176`), and cgroup leaves pile up below `user@.service` (`harden.rs:310`);
* `invoke_live_prove` reads the chain's last line without a lock and does not catch the `ValueError` of half a
  line (`box_entry.py:231`): an exception instead of an answer, and no text promises either.

## 6. Plan

1. `Prove`: an abstract story of one call (launch, check, stop, compare, prove or fail closed) that it refines;
   `StoryInv` and `GuestInv` have what the mapping needs.
2. `SpentStore`: an abstract set of spent keys with their instants, which it refines until the power goes, as
   `DecisionChain` does `AppendLog`.
3. The result listener and the inspector's in one composition with `Prove`, in place of the choice between `ok` and `err`.

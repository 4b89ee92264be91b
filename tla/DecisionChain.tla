--------------------------- MODULE DecisionChain ---------------------------
(***************************************************************************)
(* crates/aegis-common/src/decision_chain.rs: an append-only JSONL file of *)
(* rows, each carrying the digest of its predecessor.  Threads of several  *)
(* processes append to and read the same file.  An append serialises twice,*)
(* on a process-wide mutex (APPEND_GATE) and on an exclusive flock of the  *)
(* file; readers take neither.                                             *)
(*                                                                         *)
(* The file is the sequence of its newline-terminated lines and a flag for *)
(* bytes after the last newline.  SHA-256 is collision free here: the      *)
(* digest of an entry over a predecessor digest is the sequence of entries *)
(* so far, from which both can be read back.                               *)
(***************************************************************************)
EXTENDS Naturals, Sequences, SequencesExt

CONSTANTS
  Thread, Proc, ProcOf,  \* ProcOf[t] is the process thread t runs in
  NoThread,              \* nobody holds the lock
  Entry,                 \* what a caller asks to record (jail, verdict, reason, ids)
  BadEntry,              \* the entries append refuses: blank reason, or a '|' in a field
  MaxCalls,              \* bound: appends each thread makes
  MaxCuts                \* bound: power cuts

ASSUME ChainAssumption ==
  /\ ProcOf \in [Thread -> Proc]
  /\ NoThread \notin Thread
  /\ BadEntry \subseteq Entry
  /\ Entry # {}
  /\ MaxCalls \in Nat
  /\ MaxCuts \in Nat

VARIABLES
  exists,   \* the file exists
  lines,    \* its complete lines
  torn,     \* there are bytes after the last newline
  synced,   \* how many lines an fsync has covered
  gate,     \* APPEND_GATE, one per process
  flock,    \* holder of the exclusive lock on the file
  pc,       \* where each thread is inside append
  arg,      \* the entry each thread is appending
  prev,     \* the tip each thread read under the lock
  answer,   \* what the thread's last append returned
  pin,      \* the tip hash tip_hash last returned, noted by an operator
  read,     \* what the last read returned
  left,     \* appends each thread may still make
  cuts      \* power cuts so far

vars == <<exists, lines, torn, synced, gate, flock, pc, arg, prev,
          answer, pin, read, left, cuts>>

fileVars == <<exists, lines, torn, synced>>
lockVars == <<gate, flock>>
callVars == <<pc, arg, prev, answer>>
readVars == <<pin, read>>
boundVars == <<left, cuts>>

----------------------------------------------------------------------------
(* Rows and digests *)

Genesis == <<>>                    \* "0" * 64
Digest(e, p) == Append(p, e)       \* row_digest_v2
Hash == Seq(Entry)

\* A row of an entry append takes.  Its line parses unless it was written behind
\* someone else's torn bytes.
Row == [entry : Entry \ BadEntry, prev : Hash, sha : Hash, parses : BOOLEAN]

TipOf(ls) == IF ls = <<>> THEN Genesis ELSE ls[Len(ls)].sha

PrevOf(ls, i) == IF i = 1 THEN Genesis ELSE ls[i - 1].sha

\* Mutant of Reads: bytes after the last newline are no reason to stop.
ReadsTolerant(ls, tail) == \A i \in 1..Len(ls) : ls[i].parses

\* read_all_unlocked returns rows: no torn tail, every line is JSON.
Reads(ls, tail) ==
  /\ ~tail
  /\ \A i \in 1..Len(ls) : ls[i].parses

\* The loop of verify() over the rows read.
Verifies(ls) ==
  \A i \in 1..Len(ls) :
    /\ ls[i].prev = PrevOf(ls, i)
    /\ ls[i].sha = Digest(ls[i].entry, ls[i].prev)

\* Mutant: the fields are not looked at.
WellFormedUnchecked(e) == TRUE
WellFormed(e) == e \notin BadEntry

----------------------------------------------------------------------------
(* append *)

Init ==
  /\ exists = FALSE
  /\ lines = <<>>
  /\ torn = FALSE
  /\ synced = 0
  /\ gate = [p \in Proc |-> NoThread]
  /\ flock = NoThread
  /\ pc = [t \in Thread |-> "idle"]
  /\ arg = [t \in Thread |-> CHOOSE e \in Entry : TRUE]
  /\ prev = [t \in Thread |-> Genesis]
  /\ answer = [t \in Thread |-> "none"]
  /\ pin = Genesis
  /\ read = "none"
  /\ left = [t \in Thread |-> MaxCalls]
  /\ cuts = 0

Go(t, from, to) == pc[t] = from /\ pc' = [pc EXCEPT ![t] = to]

\* A blank reason or a '|' is refused before any lock is taken.
Refuse(t, e) ==
  /\ pc[t] = "idle"
  /\ ~WellFormed(e)
  /\ answer' = [answer EXCEPT ![t] = "refused"]
  /\ UNCHANGED <<fileVars, gate, flock, pc, arg, prev, readVars, boundVars>>

Call(t, e) ==
  /\ WellFormed(e)
  /\ left[t] > 0
  /\ Go(t, "idle", "gate")
  /\ arg' = [arg EXCEPT ![t] = e]
  /\ answer' = [answer EXCEPT ![t] = "none"]
  /\ left' = [left EXCEPT ![t] = @ - 1]
  /\ UNCHANGED <<fileVars, gate, flock, prev, readVars, cuts>>

TakeGate(t) ==
  /\ gate[ProcOf[t]] = NoThread
  /\ Go(t, "gate", "open")
  /\ gate' = [gate EXCEPT ![ProcOf[t]] = t]
  /\ UNCHANGED <<fileVars, flock, arg, prev, answer, readVars, boundVars>>

OpenFile(t) ==
  /\ Go(t, "open", "flock")
  /\ exists' = TRUE
  /\ UNCHANGED <<lines, torn, synced, gate, flock, arg, prev, answer,
                 readVars, boundVars>>

\* Mutant: the return code of flock is not looked at.
FlockIgnored(t) == TRUE
FlockFree(t) == flock = NoThread

TakeFlock(t) ==
  /\ FlockFree(t)
  /\ Go(t, "flock", "tip")
  /\ flock' = t
  /\ UNCHANGED <<fileVars, gate, arg, prev, answer, readVars, boundVars>>

\* Mutant: an early return that forgets the mutex.
ReturnKeepsGate(t, result) ==
  /\ pc' = [pc EXCEPT ![t] = "idle"]
  /\ answer' = [answer EXCEPT ![t] = result]
  /\ flock' = IF flock = t THEN NoThread ELSE flock
  /\ UNCHANGED gate

\* Returning drops the file (and with it the flock) and the gate.
Return(t, result) ==
  /\ pc' = [pc EXCEPT ![t] = "idle"]
  /\ answer' = [answer EXCEPT ![t] = result]
  /\ flock' = IF flock = t THEN NoThread ELSE flock
  /\ gate' = [gate EXCEPT ![ProcOf[t]] = NoThread]

\* create_dir_all, open or flock fails.
LockError(t) ==
  /\ pc[t] \in {"open", "flock"}
  /\ Return(t, "io")
  /\ UNCHANGED <<fileVars, arg, prev, readVars, boundVars>>

\* The file is read again under the lock; its last row is the predecessor.
ReadTip(t) ==
  /\ Reads(lines, torn)
  /\ Go(t, "tip", "write")
  /\ prev' = [prev EXCEPT ![t] = TipOf(lines)]
  /\ UNCHANGED <<fileVars, gate, flock, arg, answer, readVars, boundVars>>

\* Mutant: heal a torn chain by dropping its last line.
TipErrorHeals(t) ==
  /\ Go(t, "tip", "flock")
  /\ ~Reads(lines, torn)
  /\ lines' = SubSeq(lines, 1, Len(lines) - 1)
  /\ synced' = 0
  /\ torn' = FALSE
  /\ flock' = NoThread
  /\ UNCHANGED <<exists, gate, arg, prev, answer, readVars, boundVars>>
TipError(t) ==
  /\ pc[t] = "tip"
  /\ \/ ~Reads(lines, torn) /\ Return(t, "torn")
     \/ Return(t, "io")
  /\ UNCHANGED <<fileVars, arg, prev, readVars, boundVars>>

\* write_all is a loop of write(2): a prefix of the line may land first.
WritePart(t) ==
  /\ Go(t, "write", "rest")
  /\ torn' = TRUE
  /\ UNCHANGED <<exists, lines, synced, gate, flock, arg, prev, answer,
                 readVars, boundVars>>

\* The line is complete.  Behind bytes of another writer it does not parse.
WriteLine(t) ==
  /\ pc[t] \in {"write", "rest"}
  /\ pc' = [pc EXCEPT ![t] = "sync"]
  /\ lines' = Append(lines, [entry |-> arg[t], prev |-> prev[t],
                             sha |-> Digest(arg[t], prev[t]),
                             parses |-> pc[t] = "rest" \/ ~torn])
  /\ torn' = FALSE
  /\ UNCHANGED <<exists, synced, gate, flock, arg, prev, answer,
                 readVars, boundVars>>

\* Mutant: the error of write_all is dropped.
WriteErrorIgnored(t) ==
  /\ pc[t] \in {"write", "rest"}
  /\ Return(t, "ok")
  /\ UNCHANGED <<fileVars, arg, prev, readVars, boundVars>>

\* A full disk or an I/O error: what was written of the line stays.
WriteError(t) ==
  /\ pc[t] \in {"write", "rest"}
  /\ Return(t, "io")
  /\ UNCHANGED <<fileVars, arg, prev, readVars, boundVars>>

\* The result of fsync is ignored: it may have covered nothing.
Sync(t) ==
  /\ Go(t, "sync", "unlock")
  /\ synced' \in {synced, Len(lines)}
  /\ UNCHANGED <<exists, lines, torn, gate, flock, arg, prev, answer,
                 readVars, boundVars>>

Unlock(t) ==
  /\ pc[t] = "unlock"
  /\ Return(t, "ok")
  /\ UNCHANGED <<fileVars, arg, prev, readVars, boundVars>>

----------------------------------------------------------------------------
(* The readers.  They go through read_all_unlocked, take no lock and keep   *)
(* nothing but the tip they were told: any process may be one, at any time. *)

\* tip_hash
TipHash ==
  /\ IF Reads(lines, torn)
       THEN pin' = TipOf(lines) /\ read' = "ok"
       ELSE UNCHANGED pin /\ read' = "error"
  /\ UNCHANGED <<fileVars, lockVars, callVars, boundVars>>

\* verify
Verify ==
  /\ read' = IF ~Reads(lines, torn) THEN "error"
             ELSE IF Verifies(lines) THEN "ok" ELSE "mismatch"
  /\ UNCHANGED <<fileVars, lockVars, callVars, pin, boundVars>>

\* require_ancestor, given the tip an earlier run reported
RequireAncestor ==
  /\ pin # Genesis
  /\ read' = IF ~Reads(lines, torn) THEN "error"
             ELSE IF \E i \in 1..Len(lines) : lines[i].sha = pin
                  THEN "ok" ELSE "absent"
  /\ UNCHANGED <<fileVars, lockVars, callVars, pin, boundVars>>

----------------------------------------------------------------------------
(* Crashes *)

\* A process dies: the kernel drops its flock, its mutex is gone with it.
Crash(p) ==
  /\ \E t \in Thread : ProcOf[t] = p /\ pc[t] # "idle"
  /\ pc' = [t \in Thread |-> IF ProcOf[t] = p THEN "idle" ELSE pc[t]]
  /\ gate' = [gate EXCEPT ![p] = NoThread]
  /\ flock' = IF \E t \in Thread : ProcOf[t] = p /\ flock = t
              THEN NoThread ELSE flock
  /\ UNCHANGED <<fileVars, arg, prev, answer, readVars, boundVars>>

\* The host loses power: bytes past the last fsync may be gone, at any byte.
PowerCut(n) ==
  /\ cuts < MaxCuts
  /\ cuts' = cuts + 1
  /\ pc' = [t \in Thread |-> "idle"]
  /\ gate' = [p \in Proc |-> NoThread]
  /\ flock' = NoThread
  /\ lines' = SubSeq(lines, 1, n)
  /\ torn' \in (IF n < Len(lines) \/ torn THEN BOOLEAN ELSE {FALSE})
  /\ UNCHANGED <<exists, synced, arg, prev, answer, readVars, left>>

----------------------------------------------------------------------------

Step(t) ==
  \/ TakeGate(t) \/ OpenFile(t) \/ TakeFlock(t) \/ LockError(t)
  \/ ReadTip(t) \/ TipError(t)
  \/ WritePart(t) \/ WriteLine(t) \/ WriteError(t)
  \/ Sync(t) \/ Unlock(t)

Next ==
  \/ \E t \in Thread :
       \/ \E e \in Entry : Refuse(t, e) \/ Call(t, e)
       \/ Step(t)
  \/ TipHash \/ Verify \/ RequireAncestor
  \/ \E p \in Proc : Crash(p)
  \/ \E n \in synced..Len(lines) : PowerCut(n)

Spec == Init /\ [][Next]_vars

\* A thread inside append runs on, and takes a lock that stays free: it is not
\* enough for it that open, flock or a write could fail instead.
Carry(t) ==
  \/ TakeGate(t) \/ OpenFile(t) \/ TakeFlock(t)
  \/ ReadTip(t) \/ TipError(t) \/ WriteLine(t) \/ Sync(t) \/ Unlock(t)

FairSpec == Spec /\ \A t \in Thread : WF_vars(Carry(t))

----------------------------------------------------------------------------
(* Properties *)

Gated == {"open", "flock", "tip", "write", "rest", "sync", "unlock"}
Locked == {"tip", "write", "rest", "sync", "unlock"}

\* Every variable keeps its type; neither the file nor a call past the checks holds
\* an entry append must refuse.
TypeOK ==
  /\ exists \in BOOLEAN
  /\ lines \in Seq(Row)
  /\ torn \in BOOLEAN
  /\ synced \in 0..Len(lines)
  /\ gate \in [Proc -> Thread \cup {NoThread}]
  /\ flock \in Thread \cup {NoThread}
  /\ pc \in [Thread -> Gated \cup {"idle", "gate"}]
  /\ arg \in [Thread -> Entry]
  /\ \A t \in Thread : pc[t] # "idle" => arg[t] \notin BadEntry
  /\ prev \in [Thread -> Hash]
  /\ answer \in [Thread -> {"none", "ok", "refused", "torn", "io"}]
  /\ pin \in Hash
  /\ read \in {"none", "ok", "error", "mismatch", "absent"}
  /\ left \in [Thread -> Nat]
  /\ cuts \in Nat

\* However appends interleave, die or run out of disk, the whole lines of the
\* file parse and pass verify(): no two rows share a predecessor (no fork).
ChainVerifies ==
  /\ \A i \in 1..Len(lines) : lines[i].parses
  /\ Verifies(lines)

\* A torn tail nobody is still completing ends the chain: no row lands behind
\* it (demos/README.md: "a torn tail blocks the next append").
TornTailBlocks ==
  [][(torn /\ \A t \in Thread : pc[t] # "rest") => (lines' = lines \/ cuts' > cuts)]_vars

\* A tip a caller obtained from tip_hash is an ancestor for good, so a later run
\* that requires it is not told "absent", unless the host lost power since.
PinnedTipStays ==
  cuts = 0 /\ pin # Genesis => \E i \in 1..Len(lines) : lines[i].sha = pin

\* Every call of append returns: the mutex and the flock are always taken in
\* that order, and no error path keeps either.
CallsReturn == \A t \in Thread : (pc[t] # "idle") ~> (pc[t] = "idle")

\* read_all_unlocked says of its callers: "caller already holds LOCK_EX, or
\* single-threaded test".  If so, no reader could meet a writer's half line.
ReadersSeeWholeLines ==
  [][read' = "error" /\ read # "error" => \A t \in Thread : pc[t] # "rest"]_vars

----------------------------------------------------------------------------
(* The inductive invariant *)

\* Who is past the gate holds it, who is past the flock holds that.
LockInv ==
  /\ \A t \in Thread : pc[t] \in Gated => gate[ProcOf[t]] = t
  /\ \A t \in Thread : pc[t] \in Locked => flock = t

\* A writer's predecessor is the last row of the file it is writing to, and a
\* writer that has written nothing yet found the file whole.
WriterInv ==
  \A t \in Thread :
    /\ pc[t] \in {"write", "rest"} => prev[t] = TipOf(lines)
    /\ pc[t] = "write" => ~torn

ChainInv == TypeOK /\ LockInv /\ WriterInv /\ ChainVerifies

----------------------------------------------------------------------------
(* Refinement *)

Phase(t) ==
  CASE pc[t] \in {"sync", "unlock"} -> "taken"
    [] pc[t] = "idle"               -> "quiet"
    [] OTHER                        -> "pending"

LogOf(ls) == [i \in 1..Len(ls) |-> ls[i].entry]

Abstract == INSTANCE AppendLog WITH
  log    <- LogOf(lines),
  phase  <- [t \in Thread |-> Phase(t)],
  want   <- arg,
  kept   <- synced

\* Each append takes effect at one instant, answers Ok exactly when its row is
\* in the file, and leaves no row behind when it answers Err.
ImplementsAppendLog == Abstract!LogSpec
=============================================================================

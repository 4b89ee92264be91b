----------------------------- MODULE SpentStore -----------------------------
(***************************************************************************)
(* The store of spent receipt ids and box tickets of scripts/box_entry.py: *)
(* a JSON-lines file beside the decision chain, read and extended by       *)
(* _spent_keys under an exclusive lock on a second file, and replaced      *)
(* whole by _replace_store when rows in it have expired.  Calls of several *)
(* threads and processes use it; disks fail, processes are killed and the  *)
(* power goes.                                                             *)
(***************************************************************************)
EXTENDS Naturals

CONSTANTS
  Call, Proc, ProcOf,  \* ProcOf[c] is the process that call c runs in
  Key, KeysOf,         \* KeysOf[c]: the receipt id and the ticket of call c
  Bound,               \* the calls whose receipt is bound to its call
  NoCall,              \* nobody holds the lock
  Lifetime,            \* BOX_TICKET_LIFETIME_S
  NamesDurable,        \* whether fsync of a file makes its directory entry durable
  Faults,              \* what may fail: input and output, processes, the power
  MaxClock, MaxCuts    \* bounds: the last instant, the number of power cuts

ASSUME StoreAssumption ==
  /\ ProcOf \in [Call -> Proc]
  /\ KeysOf \in [Call -> SUBSET Key]
  /\ Bound \subseteq Call
  /\ NoCall \notin Call
  /\ Lifetime \in Nat
  /\ NamesDurable \in BOOLEAN
  /\ Faults \subseteq {"io", "crash", "power"}
  /\ MaxClock \in Nat
  /\ MaxCuts \in Nat

VARIABLES
  pc,       \* where each call is
  answer,   \* what run() gave its caller: a receipt, None, or an exception
  at,       \* time.time() as each call read it under the lock
  ok,       \* what accept_bound_receipt returned
  store,    \* the file that the store's name leads to
  flushed,  \* what of that file is on the disk
  settled,  \* whether its name is on the disk
  base,     \* if not, the file that the name on the disk leads to
  temps,    \* the calls whose temporary file is in the directory
  holder,   \* the call that holds the lock
  clock,
  cuts

vars == <<pc, answer, at, ok, store, flushed, settled, base, temps, holder, clock, cuts>>
fileVars == <<store, flushed, settled, base>>
envVars == <<clock, cuts>>

Row == [key : Key, exp : Nat]
\* A file: its readable rows, whether some line of it cannot be read, and
\* whether the last line lacks its newline.
File == [rows : SUBSET Row, bad : BOOLEAN, tail : BOOLEAN]
Empty == [rows |-> {}, bad |-> FALSE, tail |-> FALSE]

\* Mutant: a row is good for its last instant too.
FreshInclusive(f, now) == {row \in f.rows : row.exp >= now}
\* The rows of f that have not expired.
Fresh(f, now) == {row \in f.rows : row.exp > now}

Init ==
  /\ pc = [c \in Call |-> "idle"]
  /\ answer = [c \in Call |-> "none"]
  /\ at = [c \in Call |-> 0]
  /\ ok = [c \in Call |-> FALSE]
  /\ store = Empty
  /\ flushed = Empty
  /\ settled = FALSE
  /\ base = Empty
  /\ temps = {}
  /\ holder = NoCall
  /\ clock = 0
  /\ cuts = 0

----------------------------------------------------------------------------
(* run, up to the store *)

\* The three-object check, and the live prove, have a receipt for the store.
Start(c) ==
  /\ pc[c] = "idle"
  /\ pc' = [pc EXCEPT ![c] = "lock"]
  /\ UNCHANGED <<answer, at, ok, fileVars, temps, holder, envVars>>

\* Blocked, no ticket, or prove refused: None.  A chain whose last line cannot
\* be read is not the RuntimeError that run() catches: it raises.
Decline(c) ==
  /\ pc[c] = "idle"
  /\ pc' = [pc EXCEPT ![c] = "declined"]
  /\ \E a \in {"no", "raised"} : answer' = [answer EXCEPT ![c] = a]
  /\ UNCHANGED <<at, ok, fileVars, temps, holder, envVars>>

----------------------------------------------------------------------------
(* _spent_keys and _accept_once *)

TakeLock(c) ==
  /\ pc[c] = "lock"
  /\ holder = NoCall
  /\ pc' = [pc EXCEPT ![c] = "read"]
  /\ holder' = c
  /\ UNCHANGED <<answer, at, ok, fileVars, temps, envVars>>

\* Mutant: the lock stays held when a call is refused.
AnswerKeepsLock(c, yes) ==
  /\ pc' = [pc EXCEPT ![c] = "done"]
  /\ answer' = [answer EXCEPT ![c] = IF yes THEN "yes" ELSE "no"]
  /\ holder' = IF holder = c /\ yes THEN NoCall ELSE holder
\* The lock is closed, and run() returns a receipt or None.
Answer(c, yes) ==
  /\ pc' = [pc EXCEPT ![c] = "done"]
  /\ answer' = [answer EXCEPT ![c] = IF yes THEN "yes" ELSE "no"]
  /\ holder' = IF holder = c THEN NoCall ELSE holder

\* _accept_once catches an exception: the lock is closed, and run() returns None.
Fail(c) ==
  /\ pc' = [pc EXCEPT ![c] = "failed"]
  /\ answer' = [answer EXCEPT ![c] = "no"]
  /\ holder' = IF holder = c THEN NoCall ELSE holder

\* accept_bound_receipt: the receipt fits the call, and none of its keys is spent.
Accepts(c, f, now) ==
  c \in Bound /\ KeysOf[c] \cap {row.key : row \in Fresh(f, now)} = {}

\* Mutant: an instant is taken off for skew.
NowBackdated == clock - 1
\* time.time(), under the lock.
Now == clock

\* A row that cannot be read refuses the call.  Else its keys are looked up.
Read(c) ==
  /\ pc[c] = "read"
  /\ at' = [at EXCEPT ![c] = Now]
  /\ \/ store.bad /\ Fail(c) /\ UNCHANGED ok
     \/ /\ ~store.bad
        /\ ok' = [ok EXCEPT ![c] = Accepts(c, store, Now)]
        /\ pc' = [pc EXCEPT ![c] =
                    IF store.rows = Fresh(store, Now) THEN "append" ELSE "sweep"]
        /\ UNCHANGED <<answer, holder>>
  /\ UNCHANGED <<fileVars, temps, envVars>>

\* The rows of a call that is accepted.
New(c) == {[key |-> k, exp |-> at[c] + Lifetime] : k \in IF ok[c] THEN KeysOf[c] ELSE {}}

\* f after rows were written at its end: on a line of their own each, unless
\* the last line of f lacks its newline.
Appended(f, rows) ==
  [rows |-> f.rows \cup rows,
   bad |-> f.bad \/ (f.tail /\ rows # {}),
   tail |-> f.tail /\ rows = {}]

\* f after a write that stopped anywhere in those rows: at the end of a line,
\* inside the row after it, or at the end of a row, before its newline.
Torn(f, rows) ==
  UNION {{Appended(f, some)}
         \cup {[Appended(f, some) EXCEPT !.bad = TRUE, !.tail = TRUE] : r \in rows \ some}
         \cup {[Appended(f, some) EXCEPT !.tail = TRUE] : r \in some} : some \in SUBSET rows}

WriteRows(c) ==
  /\ pc[c] = "append"
  /\ store' = Appended(store, New(c))
  /\ pc' = [pc EXCEPT ![c] = "sync"]
  /\ UNCHANGED <<answer, at, ok, flushed, settled, base, temps, holder, envVars>>

\* Mutant: the rows are left to the page cache.
SyncNothing(c) ==
  /\ pc[c] = "sync"
  /\ Answer(c, ok[c])
  /\ UNCHANGED <<at, ok, fileVars, temps, envVars>>
\* fsync of the store, also when there was nothing to add.
Sync(c) ==
  /\ pc[c] = "sync"
  /\ flushed' = store
  /\ settled' = (settled \/ NamesDurable)
  /\ Answer(c, ok[c])
  /\ UNCHANGED <<at, ok, store, base, temps, envVars>>

----------------------------------------------------------------------------
(* _sweep_temps and _replace_store, when some row has expired *)

\* Mutant: what killed prunes left is left.
SweepNothing(c) ==
  /\ pc[c] = "sweep"
  /\ temps' = temps \cup {c}
  /\ pc' = [pc EXCEPT ![c] = "replace"]
  /\ UNCHANGED <<answer, at, ok, fileVars, holder, envVars>>
\* The temporary files of prunes that were killed go; mkstemp makes a new one.
Sweep(c) ==
  /\ pc[c] = "sweep"
  /\ temps' = {c}
  /\ pc' = [pc EXCEPT ![c] = "replace"]
  /\ UNCHANGED <<answer, at, ok, fileVars, holder, envVars>>

Pruned(c) == [Empty EXCEPT !.rows = Fresh(store, at[c]) \cup New(c)]

\* What a power cut makes of a file of which f is on the disk and g in memory:
\* of the rest, rows may be kept, lost or cut.
Survivors(f, g) ==
  IF f = g THEN {f}
  ELSE {[rows |-> f.rows \cup some, bad |-> b, tail |-> t] :
          some \in SUBSET (g.rows \ f.rows), b \in {f.bad, TRUE}, t \in BOOLEAN}

\* The temporary file is written, synced, and renamed over the store.
Replace(c) ==
  /\ pc[c] = "replace"
  /\ base' \in Survivors(flushed, store) \cup (IF settled THEN {} ELSE {base})
  /\ store' = Pruned(c)
  /\ flushed' = store'
  /\ settled' = FALSE
  /\ temps' = temps \ {c}
  /\ pc' = [pc EXCEPT ![c] = "dirSync"]
  /\ UNCHANGED <<answer, at, ok, holder, envVars>>

DirSync(c) ==
  /\ pc[c] = "dirSync"
  /\ settled' = TRUE
  /\ Answer(c, ok[c])
  /\ UNCHANGED <<at, ok, store, flushed, base, temps, envVars>>

----------------------------------------------------------------------------
(* What fails *)

InStore == {"lock", "read", "append", "sync", "sweep", "replace", "dirSync"}

\* An OSError anywhere: _accept_once refuses the call, whatever has been
\* written.  A failed prune removes its temporary file, or cannot.
IOError(c) ==
  /\ "io" \in Faults
  /\ pc[c] \in InStore
  /\ store' \in IF pc[c] = "append" THEN Torn(store, New(c)) ELSE {store}
  /\ temps' \in {temps} \cup (IF pc[c] \in {"sweep", "replace"} THEN {{}} ELSE {})
  /\ Fail(c)
  /\ UNCHANGED <<at, ok, flushed, settled, base, envVars>>

\* The calls die.  The kernel drops the lock, and a write may be cut short.
Die(calls) ==
  /\ pc' = [c \in Call |-> IF c \in calls /\ pc[c] \in InStore THEN "dead" ELSE pc[c]]
  /\ holder' = IF holder \in calls THEN NoCall ELSE holder
  /\ UNCHANGED <<answer, at, ok>>

\* Process p is killed.
Crash(p) ==
  LET calls == {c \in Call : ProcOf[c] = p} IN
  /\ "crash" \in Faults
  /\ \E c \in calls : pc[c] \in InStore
  /\ Die(calls)
  /\ store' \in IF \E c \in calls : c = holder /\ pc[c] = "append"
                  THEN Torn(store, New(holder)) ELSE {store}
  /\ UNCHANGED <<flushed, settled, base, temps, envVars>>

\* The power goes.  The name leads to its file, or to the one that it last led
\* to durably (to none, if it was never durable).
PowerCut ==
  /\ "power" \in Faults
  /\ cuts < MaxCuts
  /\ cuts' = cuts + 1
  /\ Die(Call)
  /\ \/ store' \in Survivors(flushed, store) /\ settled' = TRUE
     \/ ~settled /\ store' = base /\ settled' = (base # Empty)
  /\ flushed' = store'
  /\ base' = store'
  /\ temps' \in SUBSET temps
  /\ UNCHANGED clock

Tick ==
  /\ clock < MaxClock
  /\ clock' = clock + 1
  /\ UNCHANGED <<pc, answer, at, ok, fileVars, temps, holder, cuts>>

----------------------------------------------------------------------------

Step(c) ==
  \/ TakeLock(c) \/ Read(c) \/ WriteRows(c) \/ Sync(c)
  \/ Sweep(c) \/ Replace(c) \/ DirSync(c)

Next ==
  \/ \E c \in Call : Start(c) \/ Decline(c) \/ Step(c) \/ IOError(c)
  \/ \E p \in Proc : Crash(p)
  \/ PowerCut
  \/ Tick

Spec == Init /\ [][Next]_vars

\* A call that waits for the lock or holds it is carried on; nothing has to fail.
FairSpec == Spec /\ \A c \in Call : WF_vars(Step(c))

----------------------------------------------------------------------------
(* Properties *)

\* Every variable keeps its type.
TypeOK ==
  /\ pc \in [Call -> {"idle", "declined", "done", "failed", "dead"} \cup InStore]
  /\ answer \in [Call -> {"none", "yes", "no", "raised"}]
  /\ at \in [Call -> Nat]
  /\ ok \in [Call -> BOOLEAN]
  /\ store \in File /\ flushed \in File /\ base \in File
  /\ settled \in BOOLEAN
  /\ temps \subseteq Call
  /\ holder \in Call \cup {NoCall}
  /\ clock \in Nat /\ cuts \in Nat

Accepted == {c \in Call : answer[c] = "yes"}
Clash(c, d) == KeysOf[c] \cap KeysOf[d] # {}

\* The comment over the store: "a replay is refused across calls, threads,
\* processes and restarts".  Two accepted calls that share a receipt id or a
\* ticket read the clock a lifetime apart, with any of them failing half way.
OnceInLifetime ==
  \A c, d \in Accepted : c # d /\ Clash(c, d) =>
    at[c] + Lifetime <= at[d] \/ at[d] + Lifetime <= at[c]

\* Killed and failed prunes never leave more than one temporary file behind, and
\* no sweep takes the file of a prune that runs.
TempsDoNotPile ==
  /\ \A c, d \in temps : c = d
  /\ \A c \in Call : pc[c] = "replace" => c \in temps

\* Another call has spent a key of c, were it killed or failed since, and the key
\* had not expired when c looked it up.
SpentBefore(c) ==
  \E d \in Call \ {c} :
    /\ ok[d] /\ pc[d] \in {"done", "failed", "dead"}
    /\ Clash(c, d) /\ at[d] <= at[c] /\ at[c] < at[d] + Lifetime

\* Until the power goes, a bound receipt that is looked up is refused only for a
\* key that was spent before: pruning and torn rows never refuse it.
RefusedForCause ==
  cuts = 0 => \A c \in Bound : pc[c] = "done" /\ answer[c] = "no" => SpentBefore(c)

\* Every call that came to the store is answered, though calls that hold the
\* lock fail or are killed, unless it is killed itself.
CallsAnswered == \A c \in Call : (pc[c] = "lock") ~> (pc[c] \in {"done", "failed", "dead"})

----------------------------------------------------------------------------
(* The inductive invariant *)

Held == InStore \ {"lock"}
Pruning == {"sweep", "replace"}
Deciding == Held \ {"read"}

\* f refuses these keys until that instant has come, or refuses everything.
Refuses(f, keys, till, now) ==
  f.bad \/ \A k \in keys : till <= now \/ \E row \in f.rows : row.key = k /\ till <= row.exp
Carries(f, c) == Refuses(f, KeysOf[c], at[c] + Lifetime, clock)

\* The lock is held by the one call that is between its two ends.
LockInv == \A c \in Call : pc[c] \in Held => holder = c
\* No call has read a time that is still to come, and accepted calls are over.
TimeInv == \A c \in Call : at[c] <= clock /\ (answer[c] = "yes" => pc[c] = "done")
\* Rows are added and pruned only behind lines that can be read.
CleanInv == \A c \in Call : pc[c] \in Pruning \cup {"append"} => ~store.bad
\* Every accepted call is in the store: in memory, and in what a power cut leaves.
SpentInv == \A c \in Accepted :
  /\ Carries(store, c)
  /\ "power" \in Faults => Carries(flushed, c) /\ (~settled => Carries(base, c))
\* A call that has decided to accept clashes with no accepted call.
ClearInv == \A c \in Call : pc[c] \in Deciding /\ ok[c] =>
  \A d \in Accepted : Clash(c, d) => at[d] + Lifetime <= at[c]
\* Its rows are written before it answers.
WrittenInv == \A c \in Call : ok[c] =>
  /\ pc[c] \in {"sync", "dirSync"} => Carries(store, c)
  /\ pc[c] = "dirSync" => Carries(flushed, c)

\* Until the power goes, every row is one of a call that was let through and has
\* got as far as its write.
Written == {"sync", "dirSync", "done", "failed", "dead"}
RowsInv == cuts = 0 => \A row \in store.rows : \E d \in Call :
  /\ ok[d] /\ pc[d] \in Written
  /\ row.key \in KeysOf[d] /\ row.exp = at[d] + Lifetime
\* And a call that is going to be refused, or was, has its cause; the answer is
\* what the lookup said.
CauseInv ==
  /\ cuts = 0 => \A c \in Bound : pc[c] \in Deciding \cup {"done"} /\ ~ok[c] => SpentBefore(c)
  /\ \A c \in Call : pc[c] = "done" /\ answer[c] = "no" => ~ok[c]
RefusalInv == RowsInv /\ CauseInv

StoreInv ==
  /\ TypeOK /\ LockInv /\ TimeInv /\ CleanInv
  /\ SpentInv /\ ClearInv /\ WrittenInv
=============================================================================

----------------------------- MODULE AppendLog -----------------------------
(***************************************************************************)
(* What the decision chain promises its callers: a log of entries to which *)
(* each call adds its entry at most once, at one instant between the call  *)
(* and its answer, and which answers "ok" exactly when it did.  A process  *)
(* that dies takes its calls with it; a power cut may take the entries     *)
(* past the durable ones.  DecisionChain is shown to implement this.       *)
(***************************************************************************)
EXTENDS Naturals, Sequences

CONSTANTS Thread, Entry

VARIABLES
  log,      \* the entries, oldest first
  phase,    \* per thread: "quiet", "pending" (called) or "taken" (in the log)
  want,     \* per thread: the entry of its call
  answer,   \* per thread: how its last call ended
  kept      \* how many entries no power cut can take

lvars == <<log, phase, want, answer, kept>>

LogInit ==
  /\ log = <<>>
  /\ phase = [t \in Thread |-> "quiet"]
  /\ want \in [Thread -> Entry]
  /\ answer = [t \in Thread |-> "none"]
  /\ kept = 0

\* A call that is refused before it begins.
Decline(t) ==
  /\ phase[t] = "quiet"
  /\ answer' = [answer EXCEPT ![t] = "refused"]
  /\ UNCHANGED <<log, phase, want, kept>>

Invoke(t, e) ==
  /\ phase[t] = "quiet"
  /\ phase' = [phase EXCEPT ![t] = "pending"]
  /\ want' = [want EXCEPT ![t] = e]
  /\ answer' = [answer EXCEPT ![t] = "none"]
  /\ UNCHANGED <<log, kept>>

\* The instant at which the call takes effect.
TakeEffect(t) ==
  /\ phase[t] = "pending"
  /\ phase' = [phase EXCEPT ![t] = "taken"]
  /\ log' = Append(log, want[t])
  /\ UNCHANGED <<want, answer, kept>>

Harden(t) ==
  /\ phase[t] = "taken"
  /\ kept' = Len(log)
  /\ UNCHANGED <<log, phase, want, answer>>

AnswerOk(t) ==
  /\ phase[t] = "taken"
  /\ phase' = [phase EXCEPT ![t] = "quiet"]
  /\ answer' = [answer EXCEPT ![t] = "ok"]
  /\ UNCHANGED <<log, want, kept>>

AnswerErr(t) ==
  /\ phase[t] = "pending"
  /\ phase' = [phase EXCEPT ![t] = "quiet"]
  /\ \E r \in {"torn", "io"} : answer' = [answer EXCEPT ![t] = r]
  /\ UNCHANGED <<log, want, kept>>

\* The threads of ts die with their process; nobody is answered.
Die(ts) ==
  /\ phase' = [t \in Thread |-> IF t \in ts THEN "quiet" ELSE phase[t]]
  /\ UNCHANGED <<log, want, answer, kept>>

Lose(n) ==
  /\ log' = SubSeq(log, 1, n)
  /\ phase' = [t \in Thread |-> "quiet"]
  /\ UNCHANGED <<want, answer, kept>>

LogNext ==
  \/ \E t \in Thread :
       \/ Decline(t)
       \/ \E e \in Entry : Invoke(t, e)
       \/ TakeEffect(t)
       \/ Harden(t)
       \/ AnswerOk(t)
       \/ AnswerErr(t)
  \/ \E ts \in SUBSET Thread : Die(ts)
  \/ \E n \in kept..Len(log) : Lose(n)

LogSpec == LogInit /\ [][LogNext]_lvars
=============================================================================

-------------------------------- MODULE Gates -------------------------------
(***************************************************************************)
(* The checks a call must pass where it enters: what a guest says          *)
(* (Verdict), what the host probes in a guest (SpotCheck), the system calls*)
(* of a listener (Seccomp), the files read tool prints (ReadGate), the     *)
(* hardening of the listeners (Confine), and jailer-launch (LaunchGate).   *)
(* The last two take many steps; the others are decided in one, and an     *)
(* action of this module puts one input to one of them.                    *)
(***************************************************************************)
EXTENDS LaunchGate, ReadGate

CONSTANTS
  MaxReasons, MaxFilename, Home,              \* of Verdict and SpotCheck
  Claims, Messages, Calls, Reads, Probes,     \* the inputs of each gate
  Req, Manager, Outside                       \* of Confine

VARIABLES
  gate,   \* the gate last asked
  input,  \* what it was asked
  \* of Confine; "stage" is its "step"
  host, call, stage, attach, queued, leaf, nodump, nocore, nnp, fenced, filter, report, ran

V == INSTANCE Verdict
BPF == INSTANCE Seccomp
H == INSTANCE SpotCheck
C == INSTANCE Confine WITH step <- stage

\* The processes, threads and cgroups of a hardening are distinct, and the gates
\* are asked what they can be asked; the guest has no home whose name is the marker.
ASSUME GatesAssumption ==
  /\ {Outside, Manager} \cap C!Hardener = {} /\ Req \cap C!Hardener = {}
  /\ MaxReasons \in Nat /\ MaxFilename \in Nat
  /\ Claims \subseteq [framed : BOOLEAN, same : BOOLEAN, outcome : V!Outcome, reasons : Seq(V!Reason)]
  /\ \A m \in Messages : m.filename \in Seq(V!Char)
  /\ Calls \subseteq [arch : Nat, nr : Nat, prot : Nat]
  /\ \A c \in Reads : {c.bytes, c.size} \subseteq Nat
  /\ H!Visible \notin Home
  /\ \A p \in Probes :
       /\ p.listed \subseteq Home /\ p.cut \in Nat
       /\ IsFiniteSet(p.accounts) /\ IsFiniteSet(p.listed)

asked == <<gate, input>>
confine == <<host, call, stage, attach, queued, leaf, nodump, nocore, nnp, fenced, filter,
             report, ran>>

NotLaunched ==
  step = "idle" /\ request = <<>> /\ tree = <<>> /\ at = 1 /\ code = NoCode
NotHardened ==
  C!Init /\ host = [delegated |-> FALSE, controllers |-> FALSE, bus |-> FALSE, refuses |-> {}]

\* jailer-launch is started, a manager serves calls, or another gate is asked.
GatesInit ==
  /\ input = <<>>
  /\ \/ gate = "launch" /\ Init /\ NotHardened
     \/ gate = "harden" /\ C!Init /\ NotLaunched
     \/ gate = "none" /\ NotLaunched /\ NotHardened

Ask(g, inputs) ==
  /\ gate = "none"
  /\ gate' = g /\ input' \in inputs
  /\ UNCHANGED <<vars, confine>>

AskVerdict == Ask("claim", Claims)
AskMessage == Ask("message", Messages)
AskFilter == Ask("call", Calls)
AskRead == Ask("read", Reads)
AskProbe == Ask("probe", Probes)
Launch == gate = "launch" /\ Next /\ UNCHANGED <<asked, confine>>
Harden == gate = "harden" /\ C!Next /\ UNCHANGED <<asked, vars>>

GatesNext ==
  \/ AskVerdict \/ AskMessage \/ AskFilter \/ AskRead \/ AskProbe
  \/ Launch \/ Harden
GatesSpec == GatesInit /\ [][GatesNext]_<<vars, confine, asked>>

\* A gate is asked what it can be asked, and its input stays as it is.
AskedInv ==
  /\ gate = "claim" => input \in Claims
  /\ gate = "message" => input \in Messages
  /\ gate = "call" => input \in Calls
  /\ gate = "read" => input \in Reads
  /\ gate = "probe" => input \in Probes

----------------------------------------------------------------------------
(* Properties: each gate's own, for the input it was put.  NobodySteersRoot *)
(* is that of LaunchGate.                                                   *)

\* No claim takes a body further than its gravest reason (Verdict).
GravestReasonHolds == gate = "claim" => V!GravestReasonHolds(input)
\* A name somebody else chose, the filename of a guest (Verdict) or the jail id of
\* a caller (LaunchGate), is accepted only when it is one entry of a directory.
NamesAreOpaque ==
  /\ gate = "message" => V!FilenameIsOpaque(input)
  /\ gate = "launch" => JailIdIsOneName
\* The BPF program decides as the policy does (Seccomp).
FilterIsPolicy == gate = "call" => BPF!FilterIsPolicy(input)
\* A success is an allowlisted file, whole, with its receipt (ReadGate).
ReadIsHonest == gate = "read" => ReadHonestly(input)
\* The probe's verdict is right about the guest (SpotCheck).
VerdictIsRight == gate = "probe" => H!VerdictIsRight(input)

\* The hardening of listeners (Confine): what a report claims, and whom the
\* confinement must not reach.
ReportTrue == C!ReportTrue
ManagerCanLaunch == C!ManagerCanLaunch
CappedByAnother == C!CappedByAnother
=============================================================================

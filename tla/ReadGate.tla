------------------------------ MODULE ReadGate ------------------------------
(***************************************************************************)
(* isolation-manager read (read.rs): one allowlisted host file is printed  *)
(* with a receipt, or nothing is.  A call is what the program meets on its *)
(* way: the path is resolved, looked up, opened and read at four moments,  *)
(* and the file system may change between any two of them.                 *)
(*                                                                         *)
(* A path is the sequence of its names; a file is its inode.               *)
(***************************************************************************)
EXTENDS Naturals, Sequences, FiniteSets, SequencesExt

CONSTANTS
  DefaultMax, HardCap   \* DEFAULT_MAX_BYTES and HARD_CAP_MAX_BYTES

ASSUME ReadAssumption == {DefaultMax, HardCap} \subseteq Nat /\ DefaultMax <= HardCap

AllowEntries ==
  {[request |-> <<"etc", "os-release">>, canonical |-> <<"usr", "lib", "os-release">>],
   [request |-> <<"etc", "lsb-release">>, canonical |-> <<"etc", "lsb-release">>]}

\* NEVER_GRANT: whole paths, subtrees, directories anywhere, and base names.
Secrets == {<<"etc", "shadow">>, <<"etc", "gshadow">>, <<"etc", "machine-id">>,
            <<"var", "lib", "dbus", "machine-id">>}
Subtrees == {<<"etc", "ssh">>, <<"proc">>, <<"sys">>, <<"dev">>,
             <<"var", "spool", "cron">>, <<"root">>}
SecretDirs == {".ssh", ".aws"}
SecretBases == {".env", ".netrc", ".git-credentials"}
\* Names that /etc/cron*/**, *.pem, *.key, id_*, .env.* and credentials* match.
CronNames == {"crontab", "cron.d"}
SecretNames == {"tls.pem", "tls.key", "id_rsa", ".env.local", "credentials.json"}

\* never_grant_hit
NeverGrant(path) ==
  \/ path \in Secrets
  \/ \E prefix \in Subtrees : IsPrefix(prefix, path)
  \/ Len(path) > 1 /\ path[1] = "etc" /\ path[2] \in CronNames
  \/ Range(path) \cap SecretDirs # {}
  \/ path # <<>> /\ Last(path) \in SecretBases \cup SecretNames

Least(a, b) == IF a <= b THEN a ELSE b
Flag(c) == IF c.flag = "none" THEN DefaultMax ELSE c.bytes
\* min(flag, the entry's ceiling, the hard cap)
Ceiling(c) == Least(Least(Flag(c), DefaultMax), HardCap)

\* Mutant: the read stops at the ceiling.
ReadAtMost(c) == Least(c.size, Ceiling(c))
\* take(max_bytes + 1): one byte more tells a longer file.
Bytes(c) == Least(c.size, Ceiling(c) + 1)

\* The checks in order: the reason each denies with, its exit code, and when.
PathChecks(c) == <<
  [why |-> "max_bytes_too_large", exit |-> 2, hit |-> Flag(c) > HardCap],
  [why |-> "path_not_allowlisted", exit |-> 2, hit |-> ~c.absolute],
  [why |-> "canonicalize_failed", exit |-> 2, hit |-> c.canonical = <<>>],
  [why |-> "never_grant", exit |-> 2, hit |-> NeverGrant(c.canonical)],
  [why |-> "path_not_allowlisted", exit |-> 2,
   hit |-> \A e \in AllowEntries : e.request # c.path],
  [why |-> "canonical_not_allowlisted", exit |-> 2,
   hit |-> \A e \in AllowEntries : e.request = c.path => e.canonical # c.canonical] >>

\* open_nofollow gives no descriptor: nothing is there, or a link is.
OpenFails(c) == c.opened = 0 \/ c.type = "link"

FileChecks(c) == <<
  [why |-> "io_error", exit |-> 1, hit |-> c.looked = 0],
  [why |-> IF c.type = "link" THEN "not_regular_file" ELSE "io_error", exit |-> 1,
   hit |-> OpenFails(c)],
  [why |-> "not_regular_file", exit |-> 2, hit |-> c.type # "file"],
  [why |-> "toctou_mismatch", exit |-> 2, hit |-> c.opened # c.looked],
  [why |-> "io_error", exit |-> 1, hit |-> c.fails = "read"],
  [why |-> "over_ceiling", exit |-> 2, hit |-> Bytes(c) > Ceiling(c)],
  [why |-> "io_error", exit |-> 1, hit |-> c.fails = "stdout"] >>

Deny(check) == [verdict |-> "deny", reason |-> check.why, exit |-> check.exit, printed |-> 0]
Allow(c) == [verdict |-> "allow", reason |-> "", exit |-> 0, printed |-> Bytes(c)]

\* emit_receipt: a receipt that cannot be written turns any exit into 1.
Emit(c, answer) ==
  [answer EXCEPT !.exit = IF c.fails = "receipt" THEN 1 ELSE answer.exit]

Answer(c) ==
  LET checks == PathChecks(c) \o FileChecks(c)
      first == SelectInSeq(checks, LAMBDA check : check.hit)
  IN  Emit(c, IF first = 0 THEN Allow(c) ELSE Deny(checks[first]))

\* What a caller may rely on.  Exit 0 means that a receipt says allow and the
\* whole file was printed: the regular file that sat at an allowlisted path when
\* it was looked up, no longer than every ceiling.  A call that was denied, or
\* that has no receipt, is never reported as a success.
ReadHonestly(c) ==
  LET a == Answer(c) IN
  /\ a.exit = 0 =>
       /\ c.fails # "receipt" /\ a.verdict = "allow"
       /\ a.printed = c.size /\ c.size <= HardCap
       /\ c.flag # "none" => c.size <= c.bytes
       /\ c.opened = c.looked /\ c.type = "file"
       /\ \E e \in AllowEntries : e.request = c.path /\ e.canonical = c.canonical
  /\ a.verdict = "deny" => a.exit # 0 /\ a.printed = 0
=============================================================================

------------------------------ MODULE Verdict -------------------------------
(***************************************************************************)
(* What the host accepts from a guest: the claim of the inspector          *)
(* (inspector/verdict.rs) and the result message of the task               *)
(* (vestibule/schema.rs), as pure operators.                               *)
(*                                                                         *)
(* A claim says of its kind, version and hash only whether they are right  *)
(* or well formed; a message the same of its version, kind and sizes.  The *)
(* reasons, and the characters of a filename, are spelled out.             *)
(***************************************************************************)
EXTENDS Naturals, Sequences, FiniteSets, SequencesExt

CONSTANTS
  MaxReasons,     \* MAX_REASONS
  MaxFilename     \* MAX_FILENAME_LEN

Reason == {"hash_ok", "hash_mismatch", "analyzer_stub",
           "marker_suspect", "marker_failed", "size_cap"}
Outcome == {"clear", "suspect", "failed"}

----------------------------------------------------------------------------
(* InspectVerdict::validate and decide_disposition *)

\* Mutant: a suspect claim may carry the grounds of a failed one.
ConsistentSuspectAny(outcome, reasons) ==
  LET has(S) == Range(reasons) \cap S # {} IN
  CASE outcome = "clear" -> reasons = <<"hash_ok">>
    [] outcome = "suspect" -> has({"marker_suspect", "analyzer_stub"})
    [] OTHER -> has({"marker_failed", "size_cap", "hash_mismatch", "analyzer_stub"})
\* The reasons bear the outcome out.
Consistent(outcome, reasons) ==
  LET has(S) == Range(reasons) \cap S # {} IN
  CASE outcome = "clear" -> reasons = <<"hash_ok">>
    [] outcome = "suspect" -> /\ has({"marker_suspect", "analyzer_stub"})
                              /\ ~has({"marker_failed", "size_cap"})
    [] OTHER -> has({"marker_failed", "size_cap", "hash_mismatch", "analyzer_stub"})

ValidClaim(c) ==
  /\ c.framed                  \* kind, schema version and the form of the hash
  /\ Len(c.reasons) \in 1..MaxReasons
  /\ IsInjective(c.reasons)
  /\ Consistent(c.outcome, c.reasons)

\* decide_disposition: "same" says the claimed hash is the host's own.
Decide(c) ==
  IF ~c.same THEN "drop"
  ELSE CASE c.outcome = "clear" -> "advance"
         [] c.outcome = "suspect" -> "hold"
         [] OTHER -> "drop"

\* parse_verdict_line, then the decision; a claim that does not parse ends the
\* inspection with an error.
Disposition(c) == IF ValidClaim(c) THEN Decide(c) ELSE "error"

\* The spot checks of prove: insp_vm_ok and inspector_verdict_ok.
InspectionPasses(c) == Disposition(c) = "advance" /\ c.same /\ c.outcome = "clear"

\* How far a ground lets a body go at most, were it the only one.
Deserves(reason) ==
  CASE reason = "hash_ok" -> 2
    [] reason \in {"marker_suspect", "analyzer_stub", "hash_mismatch"} -> 1
    [] OTHER -> 0
Reach(disposition) ==
  CASE disposition = "advance" -> 2 [] disposition = "hold" -> 1 [] OTHER -> 0

\* No claim takes a body further than the gravest reason it carries allows, and
\* only a body that hashes to what the host staged goes anywhere.
GravestReasonHolds(c) ==
  /\ \A r \in Range(c.reasons) : Reach(Disposition(c)) <= Deserves(r)
  /\ Reach(Disposition(c)) > 0 => c.same
  /\ InspectionPasses(c) => c.reasons = <<"hash_ok">>

----------------------------------------------------------------------------
(* parse_result_message_raw in Enforce mode *)

Char == {"a", "/", "\\", "NUL", ".", ":"}

NoTraversal(s) ==
  /\ s \notin {<<".">>, <<".", ".">>}
  /\ ~({"/", "\\", "NUL"} \cap Range(s) # {})
  /\ ~IsPrefix(<<".", ".">>, s)

ValidFilename(s) ==
  /\ Len(s) \in 1..MaxFilename
  /\ NoTraversal(s)
  /\ ~(Len(s) >= 2 /\ s[2] = ":")

Accepts(m) ==
  /\ m.fits /\ m.shallow      \* payload size, nesting depth
  /\ m.json /\ m.version /\ m.kind = "result" /\ m.task
  /\ ValidFilename(m.filename)
  /\ m.body

\* What the file system makes of a name in a directory: the components a
\* separator or a drive letter cuts it into.
Components(s) ==
  LET cuts == {0, Len(s) + 1} \cup {i \in DOMAIN s : s[i] \in {"/", "\\"}}
      next(i) == CHOOSE j \in cuts : j > i /\ \A k \in cuts : k > i => j <= k
  IN  {SubSeq(s, i + 1, next(i) - 1) : i \in cuts \ {Len(s) + 1}}

\* An accepted filename names one entry of whatever directory it is put in: not
\* the directory, its parent, something elsewhere, nor a truncated name.
FilenameIsOpaque(m) ==
  Accepts(m) =>
    /\ Components(m.filename) = {m.filename}
    /\ m.filename \notin {<<>>, <<".">>, <<".", ".">>}
    /\ "NUL" \notin Range(m.filename)
    /\ ~(Len(m.filename) > 1 /\ m.filename[2] = ":")
=============================================================================

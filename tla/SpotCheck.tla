------------------------------ MODULE SpotCheck -----------------------------
(***************************************************************************)
(* The probe a prove call types into the guest's serial console to see     *)
(* that no home of the host is visible there, and the verdict it reads off *)
(* the transcript (prove.rs).                                              *)
(*                                                                         *)
(* The console echoes what is typed, so the transcript holds the text of   *)
(* the probe besides its output.  A line is a home's last name, a marker,  *)
(* a typed marker, or something else.                                      *)
(***************************************************************************)
EXTENDS Naturals, Sequences, FiniteSets, SequencesExt

CONSTANT Home   \* homes, each named by its last component

NoName == ""     \* the last name of the home /
Visible == "HOST_HOME_VISIBLE"
\* NO_HOST_HOME with the number of homes probed behind it.
Absent(homes) == <<"NO_HOST_HOME", Cardinality(homes)>>

\* An account of the host's list that is a person's: a uid in range, a shell to
\* log in with, an absolute home.
Person(account) == account.uid = "person" /\ account.login /\ account.absolute
\* host_homes: those and the manager's own.
HostHomes(accounts, manager) == {manager} \cup {a.home : a \in {b \in accounts : Person(b)}}

\* Mutant: markers are typed as they are.
TypedPlain(marker) == [echo |-> FALSE, line |-> marker]
\* typed_marker: a quote pair makes the typed text differ from the output.
Typed(marker) == [echo |-> TRUE, line |-> marker]
Shown(line) == [echo |-> FALSE, line |-> line]

\* What the console shows of a probe in a guest with these homes, of which it
\* lists some under /home: the text, the listing, then one line per home found
\* or the absence marker.
ProbeShows(homes, guest, listed) ==
  <<Typed(<<Visible, 0>>), Typed(Absent(homes))>>
  \o SetToSeq({Shown(<<h, 0>>) : h \in listed})
  \o (IF homes \cap guest = {} THEN <<Shown(Absent(homes))>>
      ELSE SetToSeq({Shown(<<Visible, 0>>)}))

HasLine(transcript, line) == \E i \in DOMAIN transcript : transcript[i] = Shown(line)

\* host_homes_invisible, with the account list that was read, or none.
Invisible(read, homes, transcript) ==
  /\ read /\ homes # {}
  /\ ~HasLine(transcript, <<Visible, 0>>)
  /\ HasLine(transcript, Absent(homes))
  /\ \A h \in homes : h # NoName /\ ~HasLine(transcript, <<h, 0>>)

\* The verdict is right about the guest: however early the transcript is cut, it
\* passes only when the probe ran to its end and found no home, and when it did,
\* and the listing names none, it passes.
VerdictIsRight(c) ==
  LET homes == HostHomes(c.accounts, c.manager)
      all == ProbeShows(homes, c.guest, c.listed)
      seen == SubSeq(all, 1, Len(all) - c.cut)
  IN  /\ Invisible(c.read, homes, seen) =>
           c.read /\ homes \cap (c.guest \cup c.listed) = {} /\ c.cut = 0
      /\ c.read /\ c.cut = 0 /\ NoName \notin homes /\ homes \cap (c.guest \cup c.listed) = {} =>
           Invisible(c.read, homes, seen)
=============================================================================

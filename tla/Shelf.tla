------------------------------- MODULE Shelf --------------------------------
(***************************************************************************)
(* The dropbox: a directory of objects named by their hash, with a         *)
(* temporary name beside each, and the calls that put bytes there and take *)
(* them back.  Two kinds of callers share one shelf directory:             *)
(*   serve  threads of one manager; the directory is named by the process  *)
(*          id, and each call removes it when it is through                *)
(*   cli    isolation-manager handoff; any of them may be killed           *)
(*                                                                         *)
(* A body is its hash.  A file is the sequence of its chunks: one of the   *)
(* body, or a hole left by a writer whose file was truncated under it.     *)
(***************************************************************************)
EXTENDS Naturals, Sequences, FiniteSets, FiniteSetsExt

CONSTANTS
  Caller,   \* the calls
  Body,     \* what they hand over
  Chunks    \* the writes a body takes; a bound

ASSUME ShelfAssumption == IsFiniteSet(Caller) /\ Chunks \in Nat \ {0}

VARIABLES
  mode,     \* "serve" or "cli"; never changes
  dir,      \* the directory objects exists
  object,   \* the file under the hash of each body, 0 when there is none
  temp,     \* the file under its temporary name
  file,     \* the content of each file made so far
  pc, body, \* the stage of each call, and what it hands over
  fd, pos,  \* the file it has open and how far it has written
  outcome,  \* how it ended
  met,      \* history: calls that ran at the same time as another
  hurt      \* history: such a call was killed or could not write

vars == <<mode, dir, object, temp, file, pc, body, fd, pos, outcome, met, hurt>>
shelf == <<dir, object, temp, file>>
writer == <<fd, pos>>

Whole == [i \in 1..Chunks |-> "good"]
Active == {t \in Caller : pc[t] \notin {"idle", "over"}}

Init ==
  /\ mode \in {"serve", "cli"}
  /\ dir = FALSE
  /\ object = [b \in Body |-> 0]
  /\ temp = [b \in Body |-> 0]
  /\ file = <<>>
  /\ pc = [t \in Caller |-> "idle"]
  /\ body \in [Caller -> Body]
  /\ fd = [t \in Caller |-> 0]
  /\ pos = [t \in Caller |-> 0]
  /\ outcome = [t \in Caller |-> "none"]
  /\ met = {} /\ hurt = FALSE

Goto(t, stage) == pc' = [pc EXCEPT ![t] = stage] /\ UNCHANGED outcome
End(t, how) ==
  /\ pc' = [pc EXCEPT ![t] = "over"]
  /\ outcome' = [outcome EXCEPT ![t] = how]

----------------------------------------------------------------------------
(* Shelf::open and put *)

\* Another thread is at its remove_dir_all, of the shelf or of the stages.
Cleaning(t) == \E u \in Caller \ {t} : pc[u] = "clean"

Open(t) ==
  /\ pc[t] = "idle"
  /\ \/ dir' = TRUE /\ Goto(t, "put")
     \/ Cleaning(t) /\ End(t, "failed") /\ UNCHANGED dir
  /\ met' = IF Active = {} THEN met ELSE met \cup Active \cup {t}
  /\ UNCHANGED <<mode, object, temp, file, body, writer, hurt>>

LooksFor(t) ==
  /\ pc[t] = "put"
  /\ Goto(t, IF object[body[t]] # 0 THEN "verify" ELSE "create")
  /\ UNCHANGED <<mode, shelf, body, writer, met, hurt>>

\* fs::read and content_hash: the file is there and is the body.
Matches(b) == object[b] # 0 /\ file[object[b]] = Whole

VerifyExisting(t) ==
  /\ pc[t] = "verify"
  /\ IF Matches(body[t]) THEN Goto(t, "take") ELSE End(t, "failed")
  /\ UNCHANGED <<mode, shelf, body, writer, met, hurt>>

\* Mutant: the temporary file must be new.
CreateNew(t) ==
  LET b == body[t] IN
  /\ pc[t] = "create"
  /\ pos' = [pos EXCEPT ![t] = 0]
  /\ IF dir /\ temp[b] = 0
       THEN /\ file' = Append(file, <<>>)
            /\ temp' = [temp EXCEPT ![b] = Len(file')]
            /\ fd' = [fd EXCEPT ![t] = Len(file')]
            /\ Goto(t, "write")
       ELSE End(t, "failed") /\ UNCHANGED <<temp, file, fd>>
  /\ UNCHANGED <<mode, dir, object, body, met, hurt>>
\* File::create: the file under the temporary name, of whoever made it, is
\* truncated; without one a new file is made.
Create(t) ==
  LET b == body[t] IN
  /\ pc[t] = "create"
  /\ pos' = [pos EXCEPT ![t] = 0]
  /\ \/ /\ dir /\ temp[b] # 0
        /\ file' = [file EXCEPT ![temp[b]] = <<>>]
        /\ fd' = [fd EXCEPT ![t] = temp[b]]
        /\ Goto(t, "write") /\ UNCHANGED temp
     \/ /\ dir /\ temp[b] = 0
        /\ file' = Append(file, <<>>)
        /\ temp' = [temp EXCEPT ![b] = Len(file')]
        /\ fd' = [fd EXCEPT ![t] = Len(file')]
        /\ Goto(t, "write")
     \/ ~dir /\ End(t, "failed") /\ UNCHANGED <<temp, file, fd>>
  /\ UNCHANGED <<mode, dir, object, body, met, hurt>>

\* Chunk n is written at its place, past the end of a truncated file too.
WrittenAt(content, n) ==
  [i \in 1..Max({n, Len(content)}) |->
     IF i = n THEN "good" ELSE IF i \in DOMAIN content THEN content[i] ELSE "hole"]

\* Mutant: the file is renamed when its first chunk is there.
EnoughAtFirst(n) == n >= 1
Enough(n) == n = Chunks

\* write_all and sync_all.
Write(t) ==
  /\ pc[t] = "write"
  /\ pos' = [pos EXCEPT ![t] = @ + 1]
  /\ file' = [file EXCEPT ![fd[t]] = WrittenAt(@, pos[t] + 1)]
  /\ Goto(t, IF Enough(pos[t] + 1) THEN "rename" ELSE "write")
  /\ UNCHANGED <<mode, dir, object, temp, body, fd, met, hurt>>

\* Any input or output may fail; a write may leave its file unfinished.
IoFails(t) ==
  /\ pc[t] \in {"idle", "verify", "create", "write", "rename", "take", "again", "stage"}
  /\ End(t, "io")
  /\ hurt' = (hurt \/ (pc[t] = "write" /\ t \in met))
  /\ UNCHANGED <<mode, shelf, body, writer, met>>

\* Mutant: the name is cleared before the rename.
RenameOntoCleared(t) ==
  LET b == body[t] IN
  /\ pc[t] = "rename"
  /\ object' = [object EXCEPT ![b] = temp[b]]
  /\ temp' = [temp EXCEPT ![b] = 0]
  /\ IF temp[b] # 0 THEN Goto(t, "take") ELSE End(t, "failed")
  /\ UNCHANGED <<mode, dir, file, body, writer, met, hurt>>
\* Whatever file is under the temporary name now becomes the object.
Rename(t) ==
  LET b == body[t] IN
  /\ pc[t] = "rename"
  /\ IF temp[b] # 0
       THEN /\ object' = [object EXCEPT ![b] = temp[b]]
            /\ temp' = [temp EXCEPT ![b] = 0]
            /\ Goto(t, "take")
       ELSE End(t, "failed") /\ UNCHANGED <<object, temp>>
  /\ UNCHANGED <<mode, dir, file, body, writer, met, hurt>>

----------------------------------------------------------------------------
(* take: by handoff_roundtrip, by the check of the prove call, by the stage *)

After(t) == IF pc[t] = "take" THEN "again" ELSE "stage"

Take(t) ==
  /\ pc[t] \in {"take", "again"}
  /\ IF ~Matches(body[t]) THEN End(t, "failed")
     ELSE IF mode = "cli" THEN End(t, "ok") ELSE Goto(t, After(t))
  /\ UNCHANGED <<mode, shelf, body, writer, met, hurt>>

\* stage_from_shelf: take, and a copy in a directory of its own below one that all
\* stages share; the shelf is opened, hence made, again.
StageBlob(t) ==
  /\ pc[t] = "stage"
  /\ \/ dir' = TRUE /\ IF Matches(body[t]) THEN Goto(t, "clean") ELSE End(t, "failed")
     \/ Cleaning(t) /\ End(t, "failed") /\ UNCHANGED dir
  /\ UNCHANGED <<mode, object, temp, file, body, writer, met, hurt>>

\* remove_dir_all(shelf_root), one name at a time; its error is ignored.
Unlink(t) ==
  /\ pc[t] = "clean"
  /\ \E b \in Body :
       \/ object[b] # 0 /\ object' = [object EXCEPT ![b] = 0] /\ UNCHANGED temp
       \/ temp[b] # 0 /\ temp' = [temp EXCEPT ![b] = 0] /\ UNCHANGED object
  /\ UNCHANGED <<mode, dir, file, pc, body, writer, outcome, met, hurt>>

RemoveDir(t) ==
  /\ pc[t] = "clean"
  /\ dir' = (dir /\ \E b \in Body : object[b] # 0 \/ temp[b] # 0)
  /\ End(t, "ok")
  /\ UNCHANGED <<mode, object, temp, file, body, writer, met, hurt>>

Kill(t) ==
  /\ mode = "cli" /\ t \in Active
  /\ End(t, "killed")
  /\ hurt' = (hurt \/ t \in met)
  /\ UNCHANGED <<mode, shelf, body, writer, met>>

Next ==
  \E t \in Caller :
    \/ Open(t) \/ LooksFor(t) \/ VerifyExisting(t) \/ Create(t) \/ Write(t)
    \/ IoFails(t) \/ Rename(t) \/ Take(t) \/ StageBlob(t)
    \/ Unlink(t) \/ RemoveDir(t) \/ Kill(t)

Spec == Init /\ [][Next]_vars

----------------------------------------------------------------------------
(* Properties *)

\* What a handoff has put on a shelf that is kept can be taken from then on: whatever
\* other calls do to the name, the temporary name and the file, it is there, and whole
\* or being written whole again, unless an overlapping call was killed or could not
\* write (Shelf::put truncates and renames files of others).
HandedOverStays ==
  mode = "cli" /\ ~hurt =>
    \A t \in Caller : outcome[t] = "ok" =>
      LET f == object[body[t]] IN
      f # 0 /\ (file[f] = Whole \/ \E u \in Caller : pc[u] = "write" /\ fd[u] = f)

\* Only calls at the same time get in each other's way: one that met no other
\* fails only on what an overlapping call left when it was killed or could not
\* write.  In particular a call killed half way blocks none after it.
FailsForCause ==
  \A t \in Caller : outcome[t] = "failed" => t \in met \/ hurt

\* A shelf nobody is using holds whole objects only, unless an overlapping call
\* was killed or could not write.
QuietShelfWhole ==
  Active = {} /\ ~hurt => \A b \in Body : object[b] # 0 => file[object[b]] = Whole

----------------------------------------------------------------------------
(* The inductive invariant *)

Writing == {"write", "rename"}
Taking == {"verify", "take", "again", "stage"}
Stage == {"idle", "put", "create", "clean", "over"} \cup Writing \cup Taking
Outcome == {"none", "ok", "io", "failed", "killed"}
Content == {c \in Seq({"good", "hole"}) : Len(c) <= Chunks}

TypeInv ==
  /\ mode \in {"serve", "cli"} /\ dir \in BOOLEAN /\ hurt \in BOOLEAN
  /\ file \in Seq(Content)
  /\ object \in [Body -> {0} \cup DOMAIN file] /\ temp \in [Body -> {0} \cup DOMAIN file]
  /\ pc \in [Caller -> Stage] /\ body \in [Caller -> Body]
  /\ fd \in [Caller -> {0} \cup DOMAIN file] /\ pos \in [Caller -> 0..Chunks]
  /\ outcome \in [Caller -> Outcome]
  /\ met \subseteq Caller
  /\ \A t \in Caller : pc[t] \in Writing => fd[t] # 0
  /\ \A t \in Caller : pc[t] = "write" => pos[t] < Chunks

\* No file has two names.
NameInv ==
  \A b \in Body : temp[b] # 0 => \A c \in Body : temp[b] # object[c] /\ (b # c => temp[b] # temp[c])

\* A file is whole, or will be: one of its writers has left no hole so far.
Fills(t, f) ==
  /\ pc[t] = "write" /\ fd[t] = f
  /\ \A i \in 1..pos[t] : i \in DOMAIN file[f] /\ file[f][i] = "good"
Filled(f) == file[f] = Whole \/ \E t \in Caller : Fills(t, f)

\* So is every object, and what may become one: under a temporary name there may
\* also be what a call that met no other left behind, until the next one truncates it.
FillInv ==
  ~hurt =>
    /\ \A b \in Body : object[b] # 0 => Filled(object[b])
    /\ \A b \in Body : temp[b] # 0 =>
         Filled(temp[b]) \/ \A t \in Caller : body[t] = b => pc[t] \notin Writing

\* A call that has met no other is alone, with its file and its object in place.
LoneInv ==
  \A t \in Active \ met :
    /\ Active = {t} /\ dir
    /\ pc[t] \in Writing => temp[body[t]] = fd[t]
    /\ pc[t] \in Taking => object[body[t]] # 0

\* A process only puts and takes, and what it has taken once keeps its name.
KeptInv ==
  mode = "cli" =>
    \A t \in Caller :
      /\ pc[t] \notin {"again", "stage", "clean"}
      /\ pc[t] \in {"verify", "take"} \/ outcome[t] = "ok" => object[body[t]] # 0

ShelfInv == TypeInv /\ NameInv /\ FillInv /\ LoneInv /\ KeptInv /\ FailsForCause
=============================================================================

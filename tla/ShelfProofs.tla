---------------------------- MODULE ShelfProofs -----------------------------
(* Proofs about Shelf, for any number of calls and bodies, and bodies of any  *)
(* length: what a handoff has put stays, whatever the other calls do with the *)
(* names and files they share, and only calls that overlap hurt each other.   *)
EXTENDS Shelf, FiniteSetTheorems, SequenceTheorems, TLAPS

----------------------------------------------------------------------------
(* Files *)

\* The body itself is a content.
LEMMA WholeIsContent == Whole \in Content /\ Len(Whole) = Chunks /\ DOMAIN Whole = 1..Chunks
<1>1. Chunks \in Nat
  BY ShelfAssumption DEF ShelfAssumption
<1> QED BY <1>1 DEF Whole, Content

\* The greater of two numbers.
LEMMA MaxOfTwo ==
  ASSUME NEW m \in Nat, NEW n \in Nat
  PROVE  Max({m, n}) \in {m, n} /\ Max({m, n}) >= m /\ Max({m, n}) >= n
<1> DEFINE S == {m, n}
<1>1. \E x \in S : \A y \in S : x >= y
  OBVIOUS
<1>2. Max(S) \in S /\ \A y \in S : Max(S) >= y
  BY <1>1 DEF Max
<1> QED BY <1>2

\* A chunk written at its place spoils nothing that was there.
LEMMA WrittenChunk ==
  ASSUME NEW c \in Content, NEW n \in 1..Chunks
  PROVE  LET w == WrittenAt(c, n) IN
         /\ w \in Content
         /\ n \in DOMAIN w /\ w[n] = "good"
         /\ \A i \in DOMAIN c : i \in DOMAIN w /\ (c[i] = "good" => w[i] = "good")
<1>1. /\ Chunks \in Nat /\ n \in Nat /\ n >= 1 /\ n <= Chunks
      /\ c \in Seq({"good", "hole"}) /\ Len(c) \in Nat /\ Len(c) <= Chunks /\ DOMAIN c = 1..Len(c)
  BY ShelfAssumption, LenProperties DEF ShelfAssumption, Content
<1> DEFINE m == Max({n, Len(c)})
           w == WrittenAt(c, n)
<1>2. m \in Nat /\ m >= n /\ m >= Len(c) /\ m <= Chunks
  BY <1>1, MaxOfTwo
<1> HIDE DEF m
<1>3. w = [i \in 1..m |-> IF i = n THEN "good" ELSE IF i \in DOMAIN c THEN c[i] ELSE "hole"]
  BY DEF WrittenAt, m
<1> HIDE DEF w
<1>4. \A i \in 1..m : w[i] \in {"good", "hole"}
  <2> SUFFICES ASSUME NEW i \in 1..m PROVE w[i] \in {"good", "hole"}
    OBVIOUS
  <2>1. i \in DOMAIN c => c[i] \in {"good", "hole"}
    BY <1>1
  <2> QED BY <2>1, <1>3
<1>5. w \in Seq({"good", "hole"}) /\ Len(w) = m /\ DOMAIN w = 1..m
  BY <1>2, <1>3, <1>4
<1>6. w \in Content
  BY <1>2, <1>5 DEF Content
<1>7. n \in DOMAIN w /\ w[n] = "good"
  BY <1>1, <1>2, <1>3, <1>5
<1>8. \A i \in DOMAIN c : i \in DOMAIN w /\ (c[i] = "good" => w[i] = "good")
  BY <1>1, <1>2, <1>3, <1>5
<1> QED BY <1>6, <1>7, <1>8 DEF w

\* A content whose every chunk is good is the body.
LEMMA AllGood ==
  ASSUME NEW c \in Content, \A i \in 1..Chunks : i \in DOMAIN c /\ c[i] = "good"
  PROVE  c = Whole
<1>1. Chunks \in Nat /\ Chunks >= 1 /\ c \in Seq({"good", "hole"}) /\ Len(c) \in Nat /\ Len(c) <= Chunks
      /\ DOMAIN c = 1..Len(c)
  BY ShelfAssumption, LenProperties DEF ShelfAssumption, Content
<1>2. Chunks \in 1..Len(c)
  BY <1>1
<1>3. Len(c) = Chunks
  <2>1. \A m \in Nat : m <= Chunks /\ Chunks \in 1..m => m = Chunks
    BY <1>1
  <2>2. Len(c) \in Nat /\ Len(c) <= Chunks
    BY <1>1
  <2> QED BY <1>2, <2>1, <2>2
<1> QED BY <1>1, <1>3, SeqEqual, WholeIsContent DEF Whole, Content

\* Create leaves the call with an empty file under the temporary name, that of
\* another call or a new one; no other file is touched.
LEMMA Created ==
  ASSUME TypeInv, NEW t \in Caller, Create(t)
  PROVE  \/ ~dir /\ End(t, "failed") /\ UNCHANGED <<temp, file, fd>>
         \/ /\ dir /\ Goto(t, "write")
            /\ file' \in Seq(Content)
            /\ \E f \in DOMAIN file' :
                 /\ fd' = [fd EXCEPT ![t] = f] /\ temp' = [temp EXCEPT ![body[t]] = f]
                 /\ f # 0 /\ file'[f] = <<>>
                 /\ f \notin DOMAIN file \/ f = temp[body[t]]
                 /\ \A g \in DOMAIN file : g \in DOMAIN file' /\ (g # f => file'[g] = file[g])
<1> DEFINE b == body[t]
<1>1. file \in Seq(Content) /\ Len(file) \in Nat /\ DOMAIN file = 1..Len(file) /\ b \in Body
      /\ temp \in [Body -> {0} \cup DOMAIN file]
  BY LenProperties DEF TypeInv
<1>2. <<>> \in Content
  BY EmptySeq, ShelfAssumption DEF Content, ShelfAssumption
<1>3. CASE ~dir
  BY <1>3 DEF Create
<1>4. CASE dir /\ temp[b] # 0
  <2>1. file' = [file EXCEPT ![temp[b]] = <<>>] /\ fd' = [fd EXCEPT ![t] = temp[b]]
        /\ temp' = temp /\ Goto(t, "write")
    BY <1>4 DEF Create
  <2>2. temp[b] \in 1..Len(file)
    BY <1>1, <1>4
  <2>3. /\ file' \in Seq(Content) /\ Len(file') = Len(file) /\ DOMAIN file' = 1..Len(file')
        /\ \A g \in 1..Len(file) : file'[g] = IF g = temp[b] THEN <<>> ELSE file[g]
    BY <1>1, <1>2, <2>1, <2>2, ExceptSeq, LenProperties
  <2>4. temp' = [temp EXCEPT ![b] = temp[b]]
    BY <1>1, <2>1
  <2> QED BY <1>1, <1>4, <2>1, <2>2, <2>3, <2>4
<1>5. CASE dir /\ temp[b] = 0
  <2> DEFINE f == Len(file')
  <2>1. file' = Append(file, <<>>) /\ fd' = [fd EXCEPT ![t] = f]
        /\ temp' = [temp EXCEPT ![b] = f] /\ Goto(t, "write")
    BY <1>5 DEF Create
  <2>2. /\ file' \in Seq(Content) /\ Len(file') = Len(file) + 1 /\ DOMAIN file' = 1..Len(file')
        /\ file'[Len(file) + 1] = <<>>
        /\ \A g \in 1..Len(file) : file'[g] = file[g]
    BY <1>1, <1>2, <2>1, AppendProperties, LenProperties
  <2>3. f \in DOMAIN file' /\ f # 0 /\ f \notin DOMAIN file /\ file'[f] = <<>>
    BY <1>1, <2>2
  <2>4. \A g \in DOMAIN file : g \in DOMAIN file' /\ file'[g] = file[g]
    BY <1>1, <2>2
  <2> HIDE DEF f
  <2> QED BY <1>5, <2>1, <2>2, <2>3, <2>4
<1> QED BY <1>3, <1>4, <1>5

\* Write adds a good chunk to the file of the call, and spoils none.
LEMMA Wrote ==
  ASSUME TypeInv, NEW t \in Caller, Write(t)
  PROVE  /\ file' \in Seq(Content) /\ DOMAIN file' = DOMAIN file
         /\ fd[t] \in DOMAIN file /\ pos[t] + 1 \in 1..Chunks
         /\ \A g \in DOMAIN file : g # fd[t] => file'[g] = file[g]
         /\ pos[t] + 1 \in DOMAIN file'[fd[t]] /\ file'[fd[t]][pos[t] + 1] = "good"
         /\ \A i \in DOMAIN file[fd[t]] :
              i \in DOMAIN file'[fd[t]] /\ (file[fd[t]][i] = "good" => file'[fd[t]][i] = "good")
         /\ file[fd[t]] = Whole => file'[fd[t]] = Whole
<1> DEFINE f == fd[t]
           w == WrittenAt(file[f], pos[t] + 1)
<1>1. file \in Seq(Content) /\ DOMAIN file = 1..Len(file) /\ pc[t] = "write"
  BY LenProperties DEF TypeInv, Write
<1>2. f \in DOMAIN file /\ pos[t] \in Nat /\ pos[t] < Chunks
  BY <1>1, ShelfAssumption DEF TypeInv, Writing, ShelfAssumption
<1>3. pos[t] + 1 \in 1..Chunks
  BY <1>2, ShelfAssumption DEF ShelfAssumption
<1>4. file[f] \in Content
  BY <1>1, <1>2
<1>5. /\ w \in Content /\ pos[t] + 1 \in DOMAIN w /\ w[pos[t] + 1] = "good"
      /\ \A i \in DOMAIN file[f] : i \in DOMAIN w /\ (file[f][i] = "good" => w[i] = "good")
  BY <1>3, <1>4, WrittenChunk
<1>6. file[f] = Whole => w = Whole
  <2> SUFFICES ASSUME file[f] = Whole PROVE w = Whole
    OBVIOUS
  <2>1. \A i \in 1..Chunks : i \in DOMAIN file[f] /\ file[f][i] = "good"
    BY WholeIsContent DEF Whole
  <2> HIDE DEF w
  <2>2. \A i \in 1..Chunks : i \in DOMAIN w /\ w[i] = "good"
    BY <2>1, <1>5
  <2> QED BY <1>5, <2>2, AllGood
<1>7. file' = [file EXCEPT ![f] = w]
  BY DEF Write
<1> HIDE DEF w
<1>8. /\ file' \in Seq(Content) /\ DOMAIN file' = DOMAIN file /\ file'[f] = w
      /\ \A g \in DOMAIN file : g # f => file'[g] = file[g]
  <2>1. /\ file' \in Seq(Content) /\ Len(file') = Len(file)
        /\ \A j \in 1..Len(file) : file'[j] = IF j = f THEN w ELSE file[j]
    BY <1>1, <1>2, <1>5, <1>7, ExceptSeq
  <2> QED BY <1>1, <1>2, <2>1, LenProperties
<1> QED BY <1>2, <1>3, <1>5, <1>6, <1>8

----------------------------------------------------------------------------
(* The inductive invariant, step by step *)

\* Every step keeps the types.
LEMMA TypeStep == TypeInv /\ [Next]_vars => TypeInv'
<1> SUFFICES ASSUME TypeInv, [Next]_vars PROVE TypeInv'
  OBVIOUS
<1> USE DEF TypeInv, Stage, Outcome, Writing, Taking, shelf, writer, Goto, End
<1>1. CASE UNCHANGED vars
  BY <1>1 DEF vars
<1>2. ASSUME NEW t \in Caller, Open(t) PROVE TypeInv'
  <2>1. met' \subseteq Caller
    BY <1>2 DEF Open, Active
  <2> QED BY <1>2, <2>1 DEF Open
<1>3. ASSUME NEW t \in Caller, LooksFor(t) PROVE TypeInv'
  BY <1>3 DEF LooksFor
<1>4. ASSUME NEW t \in Caller, VerifyExisting(t) PROVE TypeInv'
  BY <1>4 DEF VerifyExisting
<1>5. ASSUME NEW t \in Caller, Create(t) PROVE TypeInv'
  <2>1. UNCHANGED <<mode, dir, object, body, met, hurt>> /\ pos' = [pos EXCEPT ![t] = 0]
    BY <1>5 DEF Create
  <2>2. 0 \in 0..Chunks /\ 0 < Chunks
    BY ShelfAssumption DEF ShelfAssumption
  <2>3. CASE ~dir /\ End(t, "failed") /\ UNCHANGED <<temp, file, fd>>
    BY <2>1, <2>2, <2>3
  <2>4. CASE /\ dir /\ Goto(t, "write")
             /\ file' \in Seq(Content)
             /\ \E f \in DOMAIN file' :
                  /\ fd' = [fd EXCEPT ![t] = f] /\ temp' = [temp EXCEPT ![body[t]] = f]
                  /\ f # 0 /\ file'[f] = <<>>
                  /\ f \notin DOMAIN file \/ f = temp[body[t]]
                  /\ \A g \in DOMAIN file : g \in DOMAIN file' /\ (g # f => file'[g] = file[g])
    <3>1. PICK f \in DOMAIN file' :
            /\ fd' = [fd EXCEPT ![t] = f] /\ temp' = [temp EXCEPT ![body[t]] = f] /\ f # 0
            /\ \A g \in DOMAIN file : g \in DOMAIN file'
      BY <2>4
    <3>2. fd' \in [Caller -> {0} \cup DOMAIN file'] /\ fd'[t] # 0 /\ \A u \in Caller : u # t => fd'[u] = fd[u]
      BY <3>1
    <3>3. temp' \in [Body -> {0} \cup DOMAIN file'] /\ object' \in [Body -> {0} \cup DOMAIN file']
      BY <2>1, <3>1
    <3>4. pos' \in [Caller -> 0..Chunks] /\ pos'[t] = 0 /\ \A u \in Caller : u # t => pos'[u] = pos[u]
      BY <2>1, <2>2
    <3>5. pc' \in [Caller -> Stage] /\ \A u \in Caller : u # t => pc'[u] = pc[u]
      BY <2>4
    <3> QED BY <2>1, <2>2, <2>4, <3>2, <3>3, <3>4, <3>5
  <2> QED BY <1>5, <2>3, <2>4, Created
<1>6. ASSUME NEW t \in Caller, Write(t) PROVE TypeInv'
  <2>1. file' \in Seq(Content) /\ DOMAIN file' = DOMAIN file /\ pos[t] + 1 \in 1..Chunks
    BY <1>6, Wrote
  <2>2. UNCHANGED <<mode, dir, object, temp, body, fd, met, hurt, outcome>> /\ pc[t] = "write"
        /\ pos' = [pos EXCEPT ![t] = pos[t] + 1]
    BY <1>6 DEF Write
  <2>3. pc' = [pc EXCEPT ![t] = IF pos[t] + 1 = Chunks THEN "rename" ELSE "write"]
    BY <1>6 DEF Write, Enough
  <2>4. pos' \in [Caller -> 0..Chunks] /\ \A u \in Caller : u # t => pos'[u] = pos[u]
    BY <2>1, <2>2
  <2>5. pc'[t] = "write" => pos'[t] < Chunks
    BY <2>1, <2>2, <2>3, ShelfAssumption DEF ShelfAssumption
  <2> QED BY <2>1, <2>2, <2>3, <2>4, <2>5
<1>7. ASSUME NEW t \in Caller, IoFails(t) PROVE TypeInv'
  BY <1>7 DEF IoFails
<1>8. ASSUME NEW t \in Caller, Rename(t) PROVE TypeInv'
  <2>1. /\ object' \in [Body -> {0} \cup DOMAIN file]
        /\ temp' \in [Body -> {0} \cup DOMAIN file]
    <3>1. temp[body[t]] \in {0} \cup DOMAIN file /\ 0 \in {0} \cup DOMAIN file
      OBVIOUS
    <3>2. CASE UNCHANGED <<object, temp>>
      BY <3>2
    <3>3. CASE /\ object' = [object EXCEPT ![body[t]] = temp[body[t]]]
               /\ temp' = [temp EXCEPT ![body[t]] = 0]
      BY <3>1, <3>3
    <3> QED BY <1>8, <3>2, <3>3 DEF Rename
  <2>2. UNCHANGED <<mode, dir, hurt, file, body, fd, pos, met>>
    BY <1>8 DEF Rename
  <2>3. pc' \in [Caller -> Stage] /\ outcome' \in [Caller -> Outcome]
        /\ \A u \in Caller : pc'[u] \in Writing => pc'[u] = pc[u]
    BY <1>8 DEF Rename
  <2> QED BY <2>1, <2>2, <2>3
<1>9. ASSUME NEW t \in Caller, Take(t) PROVE TypeInv'
  BY <1>9 DEF Take, After
<1>10. ASSUME NEW t \in Caller, StageBlob(t) PROVE TypeInv'
  BY <1>10 DEF StageBlob
<1>11. ASSUME NEW t \in Caller, Unlink(t) PROVE TypeInv'
  BY <1>11 DEF Unlink
<1>12. ASSUME NEW t \in Caller, RemoveDir(t) PROVE TypeInv'
  BY <1>12 DEF RemoveDir
<1>13. ASSUME NEW t \in Caller, Kill(t) PROVE TypeInv'
  BY <1>13 DEF Kill, Active
<1> QED BY <1>1, <1>2, <1>3, <1>4, <1>5, <1>6, <1>7, <1>8, <1>9, <1>10, <1>11, <1>12, <1>13 DEF Next

\* Every step keeps the names of the files apart.
LEMMA NameStep == TypeInv /\ NameInv /\ [Next]_vars => NameInv'
<1> SUFFICES ASSUME TypeInv, NameInv, [Next]_vars PROVE NameInv'
  OBVIOUS
<1>1. CASE UNCHANGED <<object, temp>>
  BY <1>1 DEF NameInv
<1>2. ASSUME NEW t \in Caller, Create(t) PROVE NameInv'
  <2>1. object' = object
    BY <1>2 DEF Create
  <2>2. CASE UNCHANGED temp
    BY <2>1, <2>2, <1>1
  <2>3. CASE \E f : /\ temp' = [temp EXCEPT ![body[t]] = f]
                    /\ f # 0 /\ (f \notin DOMAIN file \/ f = temp[body[t]])
    BY <2>1, <2>3 DEF NameInv, TypeInv
  <2> QED BY <1>2, <2>2, <2>3, Created
<1>3. ASSUME NEW t \in Caller, Rename(t) PROVE NameInv'
  <2>1. CASE UNCHANGED <<object, temp>>
    BY <2>1, <1>1
  <2>2. CASE temp[body[t]] # 0 /\ ~UNCHANGED <<object, temp>>
    <3> DEFINE b == body[t]
    <3>1. b \in Body
      BY DEF TypeInv
    <3>2. /\ \A c \in Body : object'[c] = IF c = b THEN temp[b] ELSE object[c]
          /\ \A c \in Body : temp'[c] = IF c = b THEN 0 ELSE temp[c]
      BY <1>3, <2>2 DEF Rename, TypeInv
    <3>3. SUFFICES ASSUME NEW d \in Body, temp'[d] # 0, NEW c \in Body
                   PROVE  temp'[d] # object'[c] /\ (d # c => temp'[d] # temp'[c])
      BY DEF NameInv
    <3>4. d # b /\ temp'[d] = temp[d] /\ temp[d] # temp[b]
      BY <3>1, <3>2, <3>3 DEF NameInv
    <3>5. temp[d] # object[c] /\ (d # c => temp[d] # temp[c])
      BY <3>3, <3>4 DEF NameInv
    <3> QED BY <3>2, <3>3, <3>4, <3>5
  <2> QED BY <1>3, <2>1, <2>2 DEF Rename
<1>4. ASSUME NEW t \in Caller, Unlink(t) PROVE NameInv'
  <2>1. /\ \A c \in Body : object'[c] \in {object[c], 0}
        /\ \A c \in Body : temp'[c] \in {temp[c], 0}
    BY <1>4 DEF Unlink, TypeInv
  <2>2. SUFFICES ASSUME NEW b \in Body, temp'[b] # 0, NEW c \in Body
                 PROVE  temp'[b] # object'[c] /\ (b # c => temp'[b] # temp'[c])
    BY DEF NameInv
  <2>3. temp'[b] = temp[b] /\ temp[b] # object[c] /\ (b # c => temp[b] # temp[c])
    BY <2>1, <2>2 DEF NameInv
  <2> QED BY <2>1, <2>2, <2>3
<1>5. ASSUME NEW t \in Caller, Open(t) \/ LooksFor(t) \/ VerifyExisting(t) PROVE UNCHANGED <<object, temp>>
  BY <1>5 DEF Open, LooksFor, VerifyExisting, shelf
<1>6. ASSUME NEW t \in Caller, Write(t) \/ IoFails(t) \/ Take(t) PROVE UNCHANGED <<object, temp>>
  BY <1>6 DEF Write, IoFails, Take, shelf
<1>7. ASSUME NEW t \in Caller, StageBlob(t) \/ RemoveDir(t) \/ Kill(t) PROVE UNCHANGED <<object, temp>>
  BY <1>7 DEF StageBlob, RemoveDir, Kill, shelf
<1>8. CASE UNCHANGED vars
  BY <1>1, <1>8 DEF vars, shelf
<1> QED BY <1>1, <1>2, <1>3, <1>4, <1>5, <1>6, <1>7, <1>8 DEF Next

\* A step that touches no file, and neither starts a writer nor ends one, leaves every
\* file as it was.
LEMMA FilesStay ==
  ASSUME TypeInv, FillInv, ~hurt, UNCHANGED <<file, fd, pos, body>>,
         \A b \in Body : object'[b] \in {0, object[b]} /\ temp'[b] \in {0, temp[b]},
         \A u \in Caller : (pc'[u] \in Writing <=> pc[u] \in Writing) /\ (pc'[u] = "write" <=> pc[u] = "write")
  PROVE  FillInv'
<1> DEFINE FilledThen(f) == file'[f] = Whole \/ \E t \in Caller :
                              /\ pc'[t] = "write" /\ fd'[t] = f
                              /\ \A i \in 1..pos'[t] : i \in DOMAIN file'[f] /\ file'[f][i] = "good"
           Idle(b) == \A t \in Caller : body[t] = b => pc[t] \notin Writing
           IdleThen(b) == \A t \in Caller : body'[t] = b => pc'[t] \notin Writing
<1>1. \A f : Filled(f) => FilledThen(f)
  BY DEF Filled, Fills
<1>2. \A b \in Body : Idle(b) => IdleThen(b)
  BY DEF TypeInv
<1>3. /\ \A b \in Body : object[b] # 0 => Filled(object[b])
      /\ \A b \in Body : temp[b] # 0 => Filled(temp[b]) \/ Idle(b)
  BY DEF FillInv
<1>4. FillInv' <=> (~hurt' => /\ \A b \in Body : object'[b] # 0 => FilledThen(object'[b])
                             /\ \A b \in Body : temp'[b] # 0 => FilledThen(temp'[b]) \/ IdleThen(b))
  BY DEF FillInv, Filled, Fills, Whole
<1> HIDE DEF FilledThen, Idle, IdleThen
<1> QED BY <1>1, <1>2, <1>3, <1>4

\* Every step keeps every object whole or in the hands of a writer that will make it so.
LEMMA FillStep == TypeInv /\ NameInv /\ FillInv /\ LoneInv /\ [Next]_vars => FillInv'
<1> SUFFICES ASSUME TypeInv, NameInv, FillInv, LoneInv, [Next]_vars, ~hurt' PROVE FillInv'
  BY DEF FillInv
<1> DEFINE FilledThen(f) == file'[f] = Whole \/ \E t \in Caller :
                              /\ pc'[t] = "write" /\ fd'[t] = f
                              /\ \A i \in 1..pos'[t] : i \in DOMAIN file'[f] /\ file'[f][i] = "good"
           IdleThen(b) == \A t \in Caller : body'[t] = b => pc'[t] \notin Writing
<1>1. FillInv' <=> /\ \A b \in Body : object'[b] # 0 => FilledThen(object'[b])
                   /\ \A b \in Body : temp'[b] # 0 => FilledThen(temp'[b]) \/ IdleThen(b)
  BY DEF FillInv, Filled, Fills, Whole
<1>2. ~hurt
  BY DEF Next, vars, shelf, writer, Open, LooksFor, VerifyExisting, Create, Write, IoFails, Rename,
     Take, StageBlob, Unlink, RemoveDir, Kill
<1>3. /\ \A b \in Body : object[b] # 0 => Filled(object[b])
      /\ \A b \in Body : temp[b] # 0 =>
           Filled(temp[b]) \/ \A t \in Caller : body[t] = b => pc[t] \notin Writing
  BY <1>2 DEF FillInv
<1>4. CASE UNCHANGED vars
  BY <1>2, <1>4, FilesStay DEF vars
<1>5. ASSUME NEW t \in Caller,
             Open(t) \/ LooksFor(t) \/ VerifyExisting(t) \/ Take(t) \/ StageBlob(t) \/ RemoveDir(t)
      PROVE  FillInv'
  <2>1. UNCHANGED <<object, temp, file, fd, pos, body>>
    BY <1>5 DEF Open, LooksFor, VerifyExisting, Take, StageBlob, RemoveDir, shelf, writer
  <2>2. pc[t] \notin Writing /\ \E stage \in Stage \ Writing : pc' = [pc EXCEPT ![t] = stage]
    BY <1>5 DEF Open, LooksFor, VerifyExisting, Take, After, StageBlob, RemoveDir, Goto, End, Stage,
       Writing, Taking
  <2>3. \A u \in Caller : (pc'[u] \in Writing <=> pc[u] \in Writing) /\ (pc'[u] = "write" <=> pc[u] = "write")
    BY <2>2 DEF TypeInv, Writing
  <2> QED BY <1>2, <2>1, <2>3, FilesStay
<1>6. ASSUME NEW t \in Caller, Unlink(t) PROVE FillInv'
  BY <1>2, <1>6, FilesStay DEF Unlink, writer, TypeInv
<1>7. ASSUME NEW t \in Caller, IoFails(t) \/ Kill(t) PROVE FillInv'
  <2>1. UNCHANGED <<object, temp, file, fd, pos, body>> /\ pc' = [pc EXCEPT ![t] = "over"]
    BY <1>7 DEF IoFails, Kill, shelf, writer, End
  <2>2. CASE pc[t] # "write"
    <3>1. \A f : Filled(f) => FilledThen(f)
      BY <2>1, <2>2 DEF Filled, Fills, TypeInv
    <3>2. \A b \in Body : (\A u \in Caller : body[u] = b => pc[u] \notin Writing) => IdleThen(b)
      BY <2>1 DEF TypeInv, Writing
    <3> HIDE DEF FilledThen, IdleThen
    <3> QED BY <1>1, <1>3, <2>1, <3>1, <3>2
  <2>3. CASE pc[t] = "write"
    <3>1. t \in Active /\ t \notin met
      BY <1>7, <2>3 DEF IoFails, Kill, Active
    <3>2. Active = {t} /\ temp[body[t]] = fd[t] /\ fd[t] # 0 /\ body[t] \in Body
      BY <2>3, <3>1 DEF LoneInv, Writing, TypeInv
    <3>3. \A u \in Caller : pc[u] \in Writing => u = t
      BY <3>2 DEF Active, Writing
    <3>4. \A b \in Body : IdleThen(b)
      BY <2>1, <3>3 DEF TypeInv, Writing
    <3>5. ASSUME NEW b \in Body, object'[b] # 0 PROVE FilledThen(object'[b])
      <4>1. fd[t] # object[b] /\ object'[b] = object[b]
        BY <2>1, <3>2 DEF NameInv
      <4>2. file[object[b]] = Whole
        BY <1>3, <3>3, <3>5, <4>1 DEF Filled, Fills, Writing
      <4> QED BY <2>1, <4>1, <4>2
    <3> HIDE DEF FilledThen, IdleThen
    <3> QED BY <1>1, <3>4, <3>5
  <2> QED BY <2>2, <2>3
<1>8. ASSUME NEW t \in Caller, Create(t) PROVE FillInv'
  <2>1. UNCHANGED <<object, body>> /\ pos' = [pos EXCEPT ![t] = 0] /\ pc[t] = "create"
    BY <1>8 DEF Create
  <2>2. CASE ~dir /\ End(t, "failed") /\ UNCHANGED <<temp, file, fd>>
    <3>1. pc' = [pc EXCEPT ![t] = "over"]
      BY <2>2 DEF End
    <3>2. \A f : Filled(f) => FilledThen(f)
      BY <2>1, <2>2, <3>1 DEF Filled, Fills, TypeInv
    <3>3. \A b \in Body : (\A u \in Caller : body[u] = b => pc[u] \notin Writing) => IdleThen(b)
      BY <2>1, <3>1 DEF TypeInv, Writing
    <3> HIDE DEF FilledThen, IdleThen
    <3> QED BY <1>1, <1>3, <2>1, <2>2, <3>2, <3>3
  <2>3. CASE \E f \in DOMAIN file' :
               /\ Goto(t, "write")
               /\ fd' = [fd EXCEPT ![t] = f] /\ temp' = [temp EXCEPT ![body[t]] = f]
               /\ f # 0 /\ file'[f] = <<>>
               /\ f \notin DOMAIN file \/ f = temp[body[t]]
               /\ \A g \in DOMAIN file : g \in DOMAIN file' /\ (g # f => file'[g] = file[g])
    <3>1. PICK f \in DOMAIN file' :
            /\ pc' = [pc EXCEPT ![t] = "write"]
            /\ fd' = [fd EXCEPT ![t] = f] /\ temp' = [temp EXCEPT ![body[t]] = f]
            /\ (f # 0 /\ f \notin DOMAIN file) \/ f = temp[body[t]]
            /\ \A g \in DOMAIN file : g # f => file'[g] = file[g]
      BY <2>3 DEF Goto
    <3>2. FilledThen(f)
      BY <2>1, <3>1 DEF TypeInv
    <3>3. \A g \in DOMAIN file : g # f /\ Filled(g) => FilledThen(g)
      BY <2>1, <3>1 DEF Filled, Fills, TypeInv
    <3>4. \A b \in Body : object[b] # 0 => object[b] \in DOMAIN file /\ object[b] # f
      BY <3>1 DEF TypeInv, NameInv
    <3>5. \A b \in Body : b # body[t] /\ temp[b] # 0 =>
            temp[b] \in DOMAIN file /\ temp[b] # f /\ temp'[b] = temp[b]
      BY <3>1 DEF TypeInv, NameInv
    <3>6. \A b \in Body : b # body[t] /\ (\A u \in Caller : body[u] = b => pc[u] \notin Writing)
            => IdleThen(b)
      BY <2>1, <3>1 DEF TypeInv
    <3>7. temp'[body[t]] = f /\ \A b \in Body : b # body[t] => temp'[b] = temp[b]
      BY <3>1 DEF TypeInv
    <3> HIDE DEF FilledThen, IdleThen
    <3> QED BY <1>1, <1>3, <2>1, <3>2, <3>3, <3>4, <3>5, <3>6, <3>7
  <2> QED BY <1>8, <2>2, <2>3, Created
<1>9. ASSUME NEW t \in Caller, Write(t) PROVE FillInv'
  <2> DEFINE f == fd[t]
  <2>1. UNCHANGED <<object, temp, fd, body>> /\ pos' = [pos EXCEPT ![t] = pos[t] + 1] /\ pc[t] = "write"
        /\ pc' = [pc EXCEPT ![t] = IF pos[t] + 1 = Chunks THEN "rename" ELSE "write"]
    BY <1>9 DEF Write, Goto, Enough
  <2>2. /\ f \in DOMAIN file /\ pos[t] + 1 \in 1..Chunks
        /\ file' \in Seq(Content) /\ DOMAIN file' = DOMAIN file
        /\ \A g \in DOMAIN file : g # f => file'[g] = file[g]
        /\ pos[t] + 1 \in DOMAIN file'[f] /\ file'[f][pos[t] + 1] = "good"
        /\ \A i \in DOMAIN file[f] :
             i \in DOMAIN file'[f] /\ (file[f][i] = "good" => file'[f][i] = "good")
        /\ file[f] = Whole => file'[f] = Whole
    BY <1>9, Wrote
  <2>3. ASSUME NEW g \in DOMAIN file, g # f, Filled(g) PROVE FilledThen(g)
    <3>1. file'[g] = file[g]
      BY <2>2, <2>3
    <3>2. \A u \in Caller : fd[u] = g => u # t
      BY <2>3
    <3>3. \A u \in Caller : Fills(u, g) => pc'[u] = "write" /\ fd'[u] = g /\ pos'[u] = pos[u]
      BY <2>1, <3>2 DEF Fills, TypeInv
    <3> QED BY <2>3, <3>1, <3>3 DEF Filled, Fills
  <2>4. ASSUME Filled(f) PROVE FilledThen(f)
    <3>1. CASE file[f] = Whole
      BY <2>2, <3>1
    <3>2. ASSUME NEW u \in Caller, u # t, Fills(u, f) PROVE FilledThen(f)
      <4>1. pc'[u] = "write" /\ fd'[u] = f /\ pos'[u] = pos[u]
        BY <2>1, <3>2 DEF Fills, TypeInv
      <4> QED BY <2>2, <3>2, <4>1 DEF Fills
    <3>3. CASE Fills(t, f)
      <4>1. pos[t] \in Nat /\ \A i \in 1..(pos[t] + 1) : i \in 1..pos[t] \/ i = pos[t] + 1
        BY ShelfAssumption DEF TypeInv, ShelfAssumption
      <4>2. \A i \in 1..(pos[t] + 1) : i \in DOMAIN file'[f] /\ file'[f][i] = "good"
        BY <2>2, <3>3, <4>1 DEF Fills
      <4>3. CASE pos[t] + 1 = Chunks
        <5>1. file'[f] \in Content
          BY <2>2
        <5> QED BY <4>2, <4>3, <5>1, AllGood
      <4>4. CASE pos[t] + 1 # Chunks
        <5>1. pc'[t] = "write" /\ fd'[t] = f /\ pos'[t] = pos[t] + 1
          BY <2>1, <4>4 DEF TypeInv
        <5> QED BY <4>2, <5>1
      <4> QED BY <4>3, <4>4
    <3> QED BY <2>4, <3>1, <3>2, <3>3 DEF Filled
  <2>5. \A b \in Body : (\A u \in Caller : body[u] = b => pc[u] \notin Writing) => IdleThen(b)
    BY <2>1 DEF TypeInv, Writing
  <2>6. \A b \in Body : (object[b] # 0 => object[b] \in DOMAIN file) /\ (temp[b] # 0 => temp[b] \in DOMAIN file)
    BY DEF TypeInv
  <2> HIDE DEF FilledThen, IdleThen, f
  <2> QED BY <1>1, <1>3, <2>1, <2>3, <2>4, <2>5, <2>6
<1>10. ASSUME NEW t \in Caller, Rename(t) PROVE FillInv'
  <2>1. UNCHANGED <<file, fd, pos, body>> /\ pc[t] = "rename" /\ body[t] \in Body
        /\ \E stage \in {"take", "over"} : pc' = [pc EXCEPT ![t] = stage]
    BY <1>10 DEF Rename, writer, Goto, End, TypeInv
  <2>2. \A g : Filled(g) => FilledThen(g)
    BY <2>1 DEF Filled, Fills, TypeInv
  <2>3. \A b \in Body : (\A u \in Caller : body[u] = b => pc[u] \notin Writing) => IdleThen(b)
    BY <2>1 DEF TypeInv, Writing
  <2>4. temp[body[t]] # 0 => Filled(temp[body[t]])
    BY <1>3, <2>1 DEF Writing
  <2>5. \A b \in Body : /\ temp'[b] \in {0, temp[b]}
                        /\ object'[b] = object[b] \/ (b = body[t] /\ temp[b] # 0 /\ object'[b] = temp[b])
    BY <1>10 DEF Rename, TypeInv
  <2> HIDE DEF FilledThen, IdleThen
  <2> QED BY <1>1, <1>3, <2>2, <2>3, <2>4, <2>5
<1> QED BY <1>4, <1>5, <1>6, <1>7, <1>8, <1>9, <1>10 DEF Next

\* Every step keeps a call that has met no other alone with what it needs.
LEMMA LoneStep == TypeInv /\ LoneInv /\ [Next]_vars => LoneInv'
<1> SUFFICES ASSUME TypeInv, LoneInv, [Next]_vars PROVE LoneInv'
  OBVIOUS
<1>1. CASE UNCHANGED vars
  BY <1>1 DEF vars, LoneInv, Active
<1>2. ASSUME NEW t \in Caller, Open(t) PROVE LoneInv'
  <2>1. /\ pc[t] = "idle"
        /\ \/ pc' = [pc EXCEPT ![t] = "put"] /\ dir'
           \/ pc' = [pc EXCEPT ![t] = "over"] /\ Active # {}
        /\ met' = IF Active = {} THEN met ELSE met \cup Active \cup {t}
    BY <1>2 DEF Open, Goto, End, Cleaning, Active
  <2>2. Active' \subseteq Active \cup {t}
    BY <2>1 DEF Active, TypeInv
  <2>3. CASE Active = {}
    <3>1. Active' \subseteq {t} /\ pc'[t] = "put" /\ dir'
      BY <2>1, <2>2, <2>3 DEF TypeInv
    <3> QED BY <3>1 DEF LoneInv, Writing, Taking
  <2>4. CASE Active # {}
    <3>1. Active' \ met' = {}
      BY <2>1, <2>2, <2>4
    <3> QED BY <3>1 DEF LoneInv
  <2> QED BY <2>3, <2>4
<1>3. ASSUME NEW t \in Active,
             LooksFor(t) \/ VerifyExisting(t) \/ Create(t) \/ Write(t) \/ IoFails(t) \/ Rename(t)
             \/ Take(t) \/ StageBlob(t) \/ Unlink(t) \/ RemoveDir(t) \/ Kill(t)
      PROVE  LoneInv'
  <2> SUFFICES ASSUME NEW u \in Active' \ met'
               PROVE  /\ Active' = {u} /\ dir'
                      /\ pc'[u] \in Writing => temp'[body'[u]] = fd'[u]
                      /\ pc'[u] \in Taking => object'[body'[u]] # 0
    BY DEF LoneInv
  <2>1. met' = met /\ body' = body
    BY <1>3 DEF LooksFor, VerifyExisting, Create, Write, IoFails, Rename, Take, StageBlob, Unlink,
       RemoveDir, Kill, shelf, writer
  <2>2. \E stage : pc' = [pc EXCEPT ![t] = stage]
    <3>1. Unlink(t) => pc' = [pc EXCEPT ![t] = pc[t]]
      BY DEF Unlink, TypeInv
    <3> QED BY <1>3, <3>1 DEF LooksFor, VerifyExisting, Create, Write, IoFails, Rename, Take, After,
         StageBlob, RemoveDir, Kill, Goto, End
  <2>3. Active' \subseteq Active
    BY <2>1, <2>2 DEF Active, TypeInv
  <2>4. u = t /\ Active = {t} /\ t \notin met /\ Active' = {t} /\ dir
        /\ (pc[t] \in Writing => temp[body[t]] = fd[t]) /\ (pc[t] \in Taking => object[body[t]] # 0)
    BY <2>1, <2>3 DEF LoneInv
  <2>5. pc'[t] # "over" /\ t \in Caller /\ body[t] \in Body
    BY <2>4 DEF Active, TypeInv
  <2> USE <2>1, <2>4, <2>5 DEF TypeInv, Writing, Taking, Goto, End, shelf, writer
  <2>6. CASE LooksFor(t)
    BY <2>6 DEF LooksFor
  <2>7. CASE VerifyExisting(t)
    BY <2>7 DEF VerifyExisting
  <2>8. CASE Create(t)
    <3>1. PICK f \in DOMAIN file' :
            fd' = [fd EXCEPT ![t] = f] /\ temp' = [temp EXCEPT ![body[t]] = f]
            /\ pc' = [pc EXCEPT ![t] = "write"]
      BY <2>8, Created
    <3>2. dir' = dir
      BY <2>8 DEF Create
    <3> QED BY <3>1, <3>2
  <2>9. CASE Write(t)
    BY <2>9 DEF Write
  <2>10. CASE IoFails(t) \/ Kill(t)
    BY <2>10 DEF IoFails, Kill
  <2>11. CASE Rename(t)
    BY <2>11 DEF Rename
  <2>12. CASE Take(t)
    BY <2>12 DEF Take, After
  <2>13. CASE StageBlob(t)
    BY <2>13 DEF StageBlob
  <2>14. CASE Unlink(t)
    BY <2>14 DEF Unlink
  <2>15. CASE RemoveDir(t)
    BY <2>15 DEF RemoveDir
  <2> QED BY <1>3, <2>6, <2>7, <2>8, <2>9, <2>10, <2>11, <2>12, <2>13, <2>14, <2>15
<1>4. ASSUME NEW t \in Caller, IoFails(t), pc[t] = "idle" PROVE LoneInv'
  <2>1. Active' = Active /\ UNCHANGED <<dir, object, temp, fd, body, met>> /\ \A u \in Active : pc'[u] = pc[u]
    BY <1>4 DEF IoFails, End, Active, TypeInv, shelf, writer
  <2> QED BY <2>1 DEF LoneInv
<1>5. ASSUME NEW t \in Caller,
             \/ LooksFor(t) \/ VerifyExisting(t) \/ Create(t) \/ Write(t) \/ Rename(t)
             \/ Take(t) \/ StageBlob(t) \/ Unlink(t) \/ RemoveDir(t) \/ Kill(t)
             \/ IoFails(t) /\ pc[t] # "idle"
      PROVE  t \in Active
  BY <1>5 DEF LooksFor, VerifyExisting, Create, Write, IoFails, Rename, Take, StageBlob, Unlink,
     RemoveDir, Kill, Active
<1> QED BY <1>1, <1>2, <1>3, <1>4, <1>5 DEF Next

\* Every step keeps on a shelf that is kept what has been put there.
LEMMA KeptStep == TypeInv /\ KeptInv /\ [Next]_vars => KeptInv'
<1> SUFFICES ASSUME TypeInv, KeptInv, [Next]_vars PROVE KeptInv'
  OBVIOUS
<1>1. mode' = mode
  BY DEF Next, vars, Open, LooksFor, VerifyExisting, Create, Write, IoFails, Rename, Take, StageBlob, Unlink,
     RemoveDir, Kill
<1> SUFFICES ASSUME mode = "cli" PROVE KeptInv'
  BY <1>1 DEF KeptInv
<1> USE DEF KeptInv, TypeInv, Goto, End, shelf, writer
<1>2. CASE UNCHANGED vars
  BY <1>2 DEF vars
<1>3. ASSUME NEW t \in Caller, Open(t) PROVE KeptInv'
  BY <1>3 DEF Open
<1>4. ASSUME NEW t \in Caller, LooksFor(t) PROVE KeptInv'
  BY <1>4 DEF LooksFor
<1>5. ASSUME NEW t \in Caller, VerifyExisting(t) PROVE KeptInv'
  BY <1>5 DEF VerifyExisting, Matches
<1>6. ASSUME NEW t \in Caller, Create(t) PROVE KeptInv'
  <2>1. UNCHANGED <<object, body>>
    BY <1>6 DEF Create
  <2>2. Goto(t, "write") \/ End(t, "failed")
    BY <1>6 DEF Create
  <2> QED BY <2>1, <2>2
<1>7. ASSUME NEW t \in Caller, Write(t) PROVE KeptInv'
  <2>1. UNCHANGED <<object, body>> /\ (Goto(t, "rename") \/ Goto(t, "write"))
    BY <1>7 DEF Write
  <2> QED BY <2>1
<1>8. ASSUME NEW t \in Caller, IoFails(t) \/ Kill(t) PROVE KeptInv'
  BY <1>8 DEF IoFails, Kill
<1>9. ASSUME NEW t \in Caller, Rename(t) PROVE KeptInv'
  <2>1. body' = body /\ \A b \in Body : object[b] # 0 => object'[b] # 0
    BY <1>9 DEF Rename
  <2>2. \/ Goto(t, "take") /\ object'[body[t]] # 0
        \/ End(t, "failed")
    BY <1>9 DEF Rename
  <2> QED BY <2>1, <2>2
<1>10. ASSUME NEW t \in Caller, Take(t) PROVE KeptInv'
  BY <1>10 DEF Take, Matches
<1>11. ASSUME NEW t \in Caller, StageBlob(t) \/ Unlink(t) \/ RemoveDir(t) PROVE KeptInv'
  BY <1>11 DEF StageBlob, Unlink, RemoveDir
<1> QED BY <1>2, <1>3, <1>4, <1>5, <1>6, <1>7, <1>8, <1>9, <1>10, <1>11 DEF Next

\* A call that has met no other does not fail: what it needs is there, and whole.
LEMMA CauseStep ==
  TypeInv /\ FillInv /\ LoneInv /\ FailsForCause /\ [Next]_vars => FailsForCause'
<1> SUFFICES ASSUME TypeInv, FillInv, LoneInv, FailsForCause, [Next]_vars PROVE FailsForCause'
  OBVIOUS
<1>1. met \subseteq met' /\ (hurt => hurt')
  <2>1. CASE \E t \in Caller : Open(t)
    BY <2>1 DEF Open
  <2>2. CASE ~\E t \in Caller : Open(t)
    <3>1. met' = met
      BY <2>2 DEF Next, vars, LooksFor, VerifyExisting, Create, Write, IoFails, Rename, Take,
         StageBlob, Unlink, RemoveDir, Kill
    <3>2. hurt => hurt'
      BY <2>2 DEF Next, vars, LooksFor, VerifyExisting, Create, Write, IoFails, Rename, Take,
         StageBlob, Unlink, RemoveDir, Kill, TypeInv
    <3> QED BY <3>1, <3>2
  <2> QED BY <2>1, <2>2
<1>2. CASE UNCHANGED outcome
  BY <1>1, <1>2 DEF FailsForCause
<1>3. ASSUME NEW t \in Caller, NEW how, how # "failed", End(t, how) PROVE FailsForCause'
  BY <1>1, <1>3 DEF FailsForCause, TypeInv, End
<1>4. ASSUME NEW t \in Caller, End(t, "failed"), t \in met \/ hurt PROVE FailsForCause'
  BY <1>1, <1>4 DEF FailsForCause, TypeInv, End
<1>5. ASSUME NEW t \in Caller, t \in Active, t \notin met, ~hurt
      PROVE  /\ dir /\ ~Cleaning(t) /\ (pc[t] \in Taking => Matches(body[t]))
             /\ pc[t] = "rename" => temp[body[t]] # 0
  <2>1. Active = {t} /\ dir /\ (pc[t] \in Writing => temp[body[t]] = fd[t])
        /\ (pc[t] \in Taking => object[body[t]] # 0) /\ body[t] \in Body
    BY <1>5 DEF LoneInv, TypeInv
  <2>2. pc[t] \in Taking => \A u \in Caller : pc[u] # "write"
    BY <2>1 DEF Active, Taking
  <2>3. pc[t] \in Taking => file[object[body[t]]] = Whole
    BY <1>5, <2>1, <2>2 DEF FillInv, Filled, Fills
  <2>4. pc[t] = "rename" => fd[t] # 0
    BY DEF TypeInv, Writing
  <2>5. ~Cleaning(t)
    BY <2>1 DEF Cleaning, Active
  <2> QED BY <2>1, <2>3, <2>4, <2>5 DEF Matches, Writing
<1>6. ASSUME NEW t \in Caller, VerifyExisting(t) \/ Take(t) \/ StageBlob(t) \/ Create(t) \/ Rename(t)
      PROVE  FailsForCause'
  <2>1. \/ UNCHANGED outcome
        \/ End(t, "ok")
        \/ /\ End(t, "failed")
           /\ \/ pc[t] \in Taking /\ ~Matches(body[t])
              \/ ~dir
              \/ Cleaning(t)
              \/ pc[t] = "rename" /\ temp[body[t]] = 0
    <3>1. CASE VerifyExisting(t)
      BY <3>1 DEF VerifyExisting, Goto, Taking
    <3>2. CASE Take(t)
      BY <3>2 DEF Take, Goto, Taking
    <3>3. CASE StageBlob(t)
      BY <3>3 DEF StageBlob, Goto, Taking
    <3>4. CASE Create(t)
      BY <3>4, Created DEF Goto
    <3>5. CASE Rename(t)
      BY <3>5 DEF Rename, Goto
    <3> QED BY <1>6, <3>1, <3>2, <3>3, <3>4, <3>5
  <2>2. t \in Active
    BY <1>6 DEF VerifyExisting, Take, StageBlob, Create, Rename, Active
  <2> QED BY <1>2, <1>3, <1>4, <1>5, <2>1, <2>2
<1>7. ASSUME NEW t \in Caller, Open(t) PROVE FailsForCause'
  <2>1. CASE UNCHANGED outcome
    BY <1>2, <2>1
  <2>2. CASE Cleaning(t) /\ End(t, "failed")
    <3>1. t \in met' /\ \A u \in Caller : u # t => outcome'[u] = outcome[u]
      BY <1>7, <2>2 DEF Open, Cleaning, Active, End, TypeInv
    <3> QED BY <1>1, <3>1 DEF FailsForCause
  <2> QED BY <1>7, <2>1, <2>2 DEF Open, Goto
<1> QED BY <1>2, <1>3, <1>6, <1>7 DEF Next, vars, LooksFor, Write, IoFails, Unlink, RemoveDir,
       Kill, Goto

----------------------------------------------------------------------------
(* The theorems *)

\* Whatever calls share the shelf, the invariant holds.
THEOREM ShelfInvariant == Spec => []ShelfInv
<1>1. Init => ShelfInv
  <2> SUFFICES ASSUME Init PROVE ShelfInv
    OBVIOUS
  <2>1. <<>> \in Seq(Content) /\ <<>> \in Content /\ 0 \in 0..Chunks
    BY EmptySeq, ShelfAssumption DEF Content, ShelfAssumption
  <2>2. TypeInv
    BY <2>1 DEF Init, TypeInv, Stage, Outcome, Writing
  <2>3. Active = {}
    BY DEF Init, Active
  <2> QED BY <2>2, <2>3 DEF Init, ShelfInv, NameInv, FillInv, LoneInv, KeptInv, FailsForCause
<1>2. ShelfInv /\ [Next]_vars => ShelfInv'
  BY TypeStep, NameStep, FillStep, LoneStep, KeptStep, CauseStep DEF ShelfInv
<1> QED BY <1>1, <1>2, PTL DEF Spec

\* What a handoff has put on a shelf that is kept stays there, whole or being written whole
\* again, unless an overlapping call was killed or could not write.
THEOREM HandoffKept == Spec => []HandedOverStays
<1>1. ShelfInv => HandedOverStays
  <2> SUFFICES ASSUME ShelfInv, mode = "cli", ~hurt, NEW t \in Caller, outcome[t] = "ok"
               PROVE  /\ object[body[t]] # 0
                      /\ \/ file[object[body[t]]] = Whole
                         \/ \E u \in Caller : pc[u] = "write" /\ fd[u] = object[body[t]]
    BY DEF HandedOverStays
  <2>1. object[body[t]] # 0 /\ body[t] \in Body
    BY DEF ShelfInv, KeptInv, TypeInv
  <2> QED BY <2>1 DEF ShelfInv, FillInv, Filled, Fills
<1> QED BY <1>1, ShelfInvariant, PTL

\* A call that met no other fails only on what an overlapping call left when it was
\* killed or could not write.
THEOREM OnlyOverlapFails == Spec => []FailsForCause
<1>1. ShelfInv => FailsForCause
  BY DEF ShelfInv
<1> QED BY <1>1, ShelfInvariant, PTL

\* A shelf at rest holds whole objects only: every writer of an object has finished.
THEOREM ShelfAtRestWhole == Spec => []QuietShelfWhole
<1>1. ShelfInv => QuietShelfWhole
  <2> SUFFICES ASSUME ShelfInv, Active = {}, ~hurt, NEW b \in Body, object[b] # 0
               PROVE  file[object[b]] = Whole
    BY DEF QuietShelfWhole
  <2>1. \A t \in Caller : pc[t] # "write"
    BY DEF Active
  <2> QED BY <2>1 DEF ShelfInv, FillInv, Filled, Fills
<1> QED BY <1>1, ShelfInvariant, PTL
=============================================================================

------------------------ MODULE DecisionChainProofs ------------------------
(***************************************************************************)
(* Proofs about DecisionChain for every set of threads, processes and      *)
(* entries: the chain always verifies, and the code implements AppendLog.  *)
(***************************************************************************)
EXTENDS DecisionChain, SequenceTheorems, TLAPS

----------------------------------------------------------------------------
(* Types *)

\* The tip of a well-typed file is a digest.
LEMMA TipType ==
  ASSUME NEW ls \in Seq(Row)
  PROVE  TipOf(ls) \in Hash
<1>1. CASE ls = <<>>
  BY <1>1 DEF TipOf, Genesis, Hash
<1>2. CASE ls # <<>>
  <2>1. Len(ls) \in 1..Len(ls)
    BY <1>2, EmptySeq
  <2>2. ls[Len(ls)] \in Row
    BY <2>1, ElementOfSeq
  <2> QED
    BY <1>2, <2>2 DEF TipOf, Row
<1> QED
  BY <1>1, <1>2

\* Every step keeps the types.
LEMMA TypeStep ==
  ASSUME TypeOK, [Next]_vars
  PROVE  TypeOK'
<1> USE ChainAssumption DEF TypeOK, Gated
<1>1. ASSUME NEW t \in Thread, NEW e \in Entry, Refuse(t, e) \/ Call(t, e)
      PROVE  TypeOK'
  <2>1. CASE Refuse(t, e)
    BY <2>1 DEF Refuse, fileVars, readVars, boundVars
  <2>2. CASE Call(t, e)
    <3>1. left' \in [Thread -> Nat]
      BY <2>2 DEF Call
    <3>2. /\ arg' \in [Thread -> Entry]
          /\ \A u \in Thread : pc'[u] # "idle" => arg'[u] \notin BadEntry
      BY <2>2 DEF Call, Go, WellFormed
    <3> QED
      BY <2>2, <3>1, <3>2 DEF Call, Go, fileVars, readVars
  <2> QED
    BY <1>1, <2>1, <2>2
<1>2. ASSUME NEW t \in Thread, Step(t)
      PROVE  TypeOK'
  <2>1. CASE TakeGate(t)
    BY <2>1 DEF TakeGate, Go, fileVars, readVars, boundVars
  <2>2. CASE OpenFile(t)
    BY <2>2 DEF OpenFile, Go, readVars, boundVars
  <2>3. CASE TakeFlock(t)
    BY <2>3 DEF TakeFlock, Go, fileVars, readVars, boundVars
  <2>4. CASE LockError(t)
    BY <2>4 DEF LockError, Return, fileVars, readVars, boundVars
  <2>5. CASE ReadTip(t)
    BY <2>5, TipType DEF ReadTip, Go, fileVars, readVars, boundVars
  <2>6. CASE TipError(t)
    BY <2>6 DEF TipError, Return, fileVars, readVars, boundVars
  <2>7. CASE WritePart(t)
    BY <2>7 DEF WritePart, Go, readVars, boundVars
  <2>8. CASE WriteLine(t)
    <3> DEFINE row == [entry |-> arg[t], prev |-> prev[t],
                       sha |-> Digest(arg[t], prev[t]),
                       parses |-> pc[t] = "rest" \/ ~torn]
    <3>1. row \in Row
      <4>1. arg[t] \in Entry \ BadEntry
        BY <2>8 DEF WriteLine
      <4> QED
        BY <4>1 DEF Row, Digest, Hash
    <3>2. lines' = Append(lines, row)
      BY <2>8 DEF WriteLine
    <3>3. lines' \in Seq(Row) /\ Len(lines') = Len(lines) + 1
      BY <3>1, <3>2
    <3>4. synced' \in 0..Len(lines')
      BY <2>8, <3>3 DEF WriteLine
    <3> QED
      BY <2>8, <3>3, <3>4 DEF WriteLine, readVars, boundVars
  <2>9. CASE WriteError(t)
    BY <2>9 DEF WriteError, Return, fileVars, readVars, boundVars
  <2>10. CASE Sync(t)
    BY <2>10 DEF Sync, Go, readVars, boundVars
  <2>11. CASE Unlock(t)
    BY <2>11 DEF Unlock, Return, fileVars, readVars, boundVars
  <2> QED
    BY <1>2, <2>1, <2>2, <2>3, <2>4, <2>5, <2>6, <2>7, <2>8, <2>9, <2>10, <2>11
    DEF Step
<1>3. CASE TipHash
  BY <1>3, TipType DEF TipHash, fileVars, lockVars, callVars, boundVars
<1>4. CASE Verify
  BY <1>4 DEF Verify, fileVars, lockVars, callVars, boundVars
<1>5. CASE RequireAncestor
  BY <1>5 DEF RequireAncestor, fileVars, lockVars, callVars, boundVars
<1>6. ASSUME NEW p \in Proc, Crash(p)
      PROVE  TypeOK'
  BY <1>6 DEF Crash, fileVars, readVars, boundVars
<1>7. ASSUME NEW n \in synced..Len(lines), PowerCut(n)
      PROVE  TypeOK'
  <2>1. n \in 0..Len(lines)
    OBVIOUS
  <2>2. lines' \in Seq(Row) /\ Len(lines') = n
    BY <1>7, <2>1, SubSeqProperties DEF PowerCut
  <2>3. torn' \in BOOLEAN
    BY <1>7 DEF PowerCut
  <2> QED
    BY <1>7, <2>2, <2>3 DEF PowerCut, readVars, Genesis, Hash
<1>8. CASE UNCHANGED vars
  BY <1>8 DEF vars
<1> QED
  BY <1>1, <1>2, <1>3, <1>4, <1>5, <1>6, <1>7, <1>8 DEF Next

\* Every variable keeps its type, and no entry append must refuse gets in.
THEOREM TypeCorrect == Spec => []TypeOK
<1>1. ASSUME Init PROVE TypeOK
  <2>1. (CHOOSE e \in Entry : TRUE) \in Entry
    BY ChainAssumption
  <2>2. Genesis \in Hash
    BY DEF Genesis, Hash
  <2>3. <<>> \in Seq(Row) /\ 0 \in 0..Len(<<>>)
    OBVIOUS
  <2>4. lines \in Seq(Row) /\ synced \in 0..Len(lines)
    BY <1>1, <2>3 DEF Init
  <2>5. arg \in [Thread -> Entry] /\ prev \in [Thread -> Hash] /\ pin \in Hash
    BY <1>1, <2>1, <2>2 DEF Init
  <2> QED
    BY <1>1, <2>4, <2>5, ChainAssumption DEF Init, TypeOK, Gated
<1> QED
  BY <1>1, TypeStep, PTL DEF Spec

----------------------------------------------------------------------------
(* The chain verifies *)

\* The locks exclude: whoever is past the flock holds it, and steps of others
\* neither take it away nor touch the file.
LEMMA LockStep ==
  ASSUME TypeOK, LockInv, [Next]_vars
  PROVE  LockInv'
<1> USE ChainAssumption DEF TypeOK, LockInv, Gated, Locked
<1>1. ASSUME NEW t \in Thread, NEW e \in Entry, Refuse(t, e) \/ Call(t, e)
      PROVE  LockInv'
  BY <1>1 DEF Refuse, Call, Go
<1>2. ASSUME NEW t \in Thread, Step(t)
      PROVE  LockInv'
  <2>1. CASE TakeGate(t)
    BY <2>1 DEF TakeGate, Go
  <2>2. CASE OpenFile(t)
    BY <2>2 DEF OpenFile, Go
  <2>3. CASE TakeFlock(t)
    BY <2>3 DEF TakeFlock, FlockFree, Go
  <2>4. CASE ReadTip(t) \/ WritePart(t) \/ WriteLine(t) \/ Sync(t)
    BY <2>4 DEF ReadTip, WritePart, WriteLine, Sync, Go
  <2>5. ASSUME NEW r, pc[t] \in Gated, Return(t, r)
        PROVE  LockInv'
    BY <2>5 DEF Return
  <2> QED
    BY <1>2, <2>1, <2>2, <2>3, <2>4, <2>5
    DEF Step, LockError, TipError, WriteError, Unlock
<1>3. CASE TipHash \/ Verify \/ RequireAncestor \/ UNCHANGED vars
  BY <1>3 DEF TipHash, Verify, RequireAncestor, lockVars, callVars, vars
<1>4. ASSUME NEW p \in Proc, Crash(p)
      PROVE  LockInv'
  BY <1>4 DEF Crash
<1>5. ASSUME NEW n \in synced..Len(lines), PowerCut(n)
      PROVE  LockInv'
  BY <1>5 DEF PowerCut
<1> QED
  BY <1>1, <1>2, <1>3, <1>4, <1>5 DEF Next

\* A row whose predecessor is the tip extends a chain that verifies.
LEMMA VerifiesAppend ==
  ASSUME NEW ls \in Seq(Row), NEW row \in Row, Verifies(ls),
         row.prev = TipOf(ls), row.sha = Digest(row.entry, row.prev)
  PROVE  Verifies(Append(ls, row))
<1> DEFINE new == Append(ls, row)
<1>1. Len(new) = Len(ls) + 1 /\ Len(ls) \in Nat
  OBVIOUS
<1>2. \A i \in 1..Len(ls) : new[i] = ls[i]
  OBVIOUS
<1>3. new[Len(ls) + 1] = row
  OBVIOUS
<1>4. ASSUME NEW i \in 1..Len(new)
      PROVE  /\ new[i].prev = PrevOf(new, i)
             /\ new[i].sha = Digest(new[i].entry, new[i].prev)
  <2>1. CASE i \in 1..Len(ls)
    <3>1. i # 1 => i - 1 \in 1..Len(ls)
      BY <1>1, <2>1
    <3>2. PrevOf(new, i) = PrevOf(ls, i)
      BY <1>2, <3>1 DEF PrevOf
    <3> QED
      BY <1>2, <2>1, <3>2 DEF Verifies
  <2>2. CASE i = Len(ls) + 1
    <3>1. ls = <<>> <=> Len(ls) = 0
      BY EmptySeq
    <3>2. Len(ls) # 0 => new[i - 1] = ls[Len(ls)]
      BY <1>1, <1>2, <2>2
    <3>3. PrevOf(new, i) = TipOf(ls)
      BY <1>1, <2>2, <3>1, <3>2 DEF PrevOf, TipOf
    <3> QED
      BY <1>3, <2>2, <3>3
  <2> QED
    BY <1>1, <2>1, <2>2
<1> QED
  BY <1>4 DEF Verifies

\* So does what a power cut leaves of one.
LEMMA VerifiesPrefix ==
  ASSUME NEW ls \in Seq(Row), NEW n \in 0..Len(ls), Verifies(ls)
  PROVE  Verifies(SubSeq(ls, 1, n))
<1> DEFINE new == SubSeq(ls, 1, n)
<1>1. Len(new) = n
  BY SubSeqProperties
<1>2. \A i \in 1..n : new[i] = ls[i]
  BY SubSeqProperties
<1>3. ASSUME NEW i \in 1..Len(new)
      PROVE  /\ new[i].prev = PrevOf(new, i)
             /\ new[i].sha = Digest(new[i].entry, new[i].prev)
  <2>1. i \in 1..n /\ i \in 1..Len(ls) /\ (i # 1 => i - 1 \in 1..n)
    BY <1>1
  <2>2. PrevOf(new, i) = PrevOf(ls, i)
    BY <1>2, <2>1 DEF PrevOf
  <2> QED
    BY <1>2, <2>1, <2>2 DEF Verifies
<1> QED
  BY <1>3 DEF Verifies

\* The writer's predecessor stays the tip until its row lands, because nobody
\* else is past the flock; so each row lands on a chain that verifies.
LEMMA ChainStep ==
  ASSUME ChainInv, [Next]_vars
  PROVE  WriterInv' /\ ChainVerifies'
<1> USE ChainAssumption DEF ChainInv
<1>0. TypeOK' /\ LockInv'
  BY TypeStep, LockStep
<1>1. ASSUME UNCHANGED <<lines, torn, prev>>,
             \A t \in Thread : pc'[t] \in {"write", "rest"} => pc'[t] = pc[t]
      PROVE  WriterInv' /\ ChainVerifies'
  BY <1>1 DEF WriterInv, ChainVerifies
<1>2. ASSUME NEW t \in Thread, NEW e \in Entry, Refuse(t, e) \/ Call(t, e)
      PROVE  WriterInv' /\ ChainVerifies'
  BY <1>1, <1>2 DEF Refuse, Call, Go, fileVars, TypeOK
<1>3. ASSUME NEW t \in Thread, Step(t)
      PROVE  WriterInv' /\ ChainVerifies'
  <2>1. ASSUME TakeGate(t) \/ OpenFile(t) \/ TakeFlock(t) \/ LockError(t)
                 \/ TipError(t) \/ WriteError(t) \/ Sync(t) \/ Unlock(t)
        PROVE  WriterInv' /\ ChainVerifies'
    BY <1>1, <2>1 DEF TakeGate, OpenFile, TakeFlock, LockError, TipError,
                      WriteError, Sync, Unlock, Go, Return, fileVars, TypeOK
  <2>2. CASE ReadTip(t)
    <3>1. ChainVerifies'
      BY <2>2 DEF ReadTip, fileVars, ChainVerifies
    <3>2. WriterInv'
      BY <2>2 DEF ReadTip, Go, Reads, fileVars, WriterInv, TypeOK
    <3> QED
      BY <3>1, <3>2
  <2>3. CASE WritePart(t)
    <3>1. ChainVerifies'
      BY <2>3 DEF WritePart, ChainVerifies
    <3>2. ASSUME NEW u \in Thread, pc'[u] = "write"
          PROVE  FALSE
      BY <2>3, <3>2 DEF WritePart, Go, TypeOK, LockInv, Locked
    <3>3. WriterInv'
      BY <2>3, <3>2 DEF WritePart, Go, WriterInv, TypeOK
    <3> QED
      BY <3>1, <3>3
  <2>4. CASE WriteLine(t)
    <3> DEFINE row == [entry |-> arg[t], prev |-> prev[t],
                       sha |-> Digest(arg[t], prev[t]),
                       parses |-> pc[t] = "rest" \/ ~torn]
    <3>1. row \in Row /\ lines' = Append(lines, row)
      BY <2>4 DEF WriteLine, Row, Digest, Hash, TypeOK
    <3>2. row.prev = TipOf(lines)
      BY <2>4 DEF WriteLine, WriterInv
    <3>3. Verifies(lines')
      BY <3>1, <3>2, VerifiesAppend DEF TypeOK, ChainVerifies
    <3>4. row.parses
      BY <2>4 DEF WriteLine, WriterInv
    <3>5. \A i \in 1..Len(lines') : lines'[i].parses
      BY <3>1, <3>4 DEF TypeOK, ChainVerifies
    <3>6. ASSUME NEW u \in Thread, pc'[u] \in {"write", "rest"}
          PROVE  FALSE
      BY <2>4, <3>6 DEF WriteLine, TypeOK, LockInv, Locked
    <3> QED
      BY <3>3, <3>5, <3>6 DEF WriterInv, ChainVerifies
  <2> QED
    BY <1>3, <2>1, <2>2, <2>3, <2>4 DEF Step
<1>4. CASE TipHash \/ Verify \/ RequireAncestor \/ UNCHANGED vars
  BY <1>1, <1>4 DEF TipHash, Verify, RequireAncestor, fileVars, callVars, vars
<1>5. ASSUME NEW p \in Proc, Crash(p)
      PROVE  WriterInv' /\ ChainVerifies'
  BY <1>1, <1>5 DEF Crash, fileVars, TypeOK
<1>6. ASSUME NEW n \in synced..Len(lines), PowerCut(n)
      PROVE  WriterInv' /\ ChainVerifies'
  <2>1. n \in 0..Len(lines)
    BY DEF TypeOK
  <2>2. lines' = SubSeq(lines, 1, n)
    BY <1>6 DEF PowerCut
  <2>3. Verifies(lines')
    BY <2>1, <2>2, VerifiesPrefix DEF TypeOK, ChainVerifies
  <2>4. \A i \in 1..Len(lines') : lines'[i].parses
    BY <2>1, <2>2 DEF TypeOK, ChainVerifies
  <2>5. WriterInv'
    BY <1>6 DEF PowerCut, WriterInv
  <2> QED
    BY <2>3, <2>4, <2>5 DEF ChainVerifies
<1> QED
  BY <1>2, <1>3, <1>4, <1>5, <1>6 DEF Next

\* The strengthened invariant holds of every reachable state.
THEOREM ChainInvariant == Spec => []ChainInv
<1>1. ASSUME Init PROVE LockInv /\ WriterInv /\ ChainVerifies
  BY <1>1 DEF Init, LockInv, WriterInv, ChainVerifies, Verifies, Gated, Locked
<1>2. ChainInv /\ [Next]_vars => ChainInv'
  BY TypeStep, LockStep, ChainStep DEF ChainInv
<1> QED
  BY <1>1, <1>2, TypeCorrect, PTL DEF Spec, ChainInv

\* For any number of processes and threads, whatever dies or fails: the complete
\* lines of the chain file parse and verify.
THEOREM ChainAlwaysVerifies == Spec => []ChainVerifies
  BY ChainInvariant, PTL DEF ChainInv

\* A tip that tip_hash once returned stays the hash of a row of the file, through any number
\* of appends, errors and crashes of processes, as long as the host keeps its power.
THEOREM PinnedTipIsAncestor == Spec => []PinnedTipStays
<1>1. Init => PinnedTipStays
  BY DEF Init, PinnedTipStays
<1>2. ASSUME TypeOK, TypeOK', PinnedTipStays, [Next]_vars PROVE PinnedTipStays'
  <2>1. CASE UNCHANGED <<lines, pin, cuts>>
    BY <1>2, <2>1 DEF PinnedTipStays
  <2>2. ASSUME NEW t \in Thread, WriteLine(t) PROVE PinnedTipStays'
    <3>1. PICK row : lines' = Append(lines, row)
      BY <2>2 DEF WriteLine
    <3>2. \A i \in 1..Len(lines) : i \in 1..Len(lines') /\ lines'[i] = lines[i]
      BY <1>2, <3>1 DEF TypeOK
    <3>3. UNCHANGED <<pin, cuts>>
      BY <2>2 DEF WriteLine, readVars, boundVars
    <3> QED BY <1>2, <3>2, <3>3 DEF PinnedTipStays
  <2>3. CASE TipHash
    <3>1. UNCHANGED <<lines, cuts>> /\ (UNCHANGED pin \/ pin' = TipOf(lines))
      BY <2>3 DEF TipHash, fileVars, boundVars
    <3>2. ASSUME TipOf(lines) # Genesis PROVE \E i \in 1..Len(lines) : lines[i].sha = TipOf(lines)
      <4>1. lines # <<>> /\ TipOf(lines) = lines[Len(lines)].sha
        BY <3>2 DEF TipOf
      <4>2. Len(lines) \in 1..Len(lines)
        BY <1>2, <4>1 DEF TypeOK
      <4> QED BY <4>1, <4>2
    <3> QED BY <1>2, <3>1, <3>2 DEF PinnedTipStays
  <2>4. ASSUME NEW n, PowerCut(n) PROVE PinnedTipStays'
    <3>1. cuts' # 0
      BY <1>2, <2>4 DEF PowerCut, TypeOK
    <3> QED BY <3>1 DEF PinnedTipStays
  <2>5. CASE UNCHANGED vars
    BY <2>1, <2>5 DEF vars
  <2>6. ASSUME NEW t \in Thread, NEW e \in Entry, Refuse(t, e) \/ Call(t, e) PROVE PinnedTipStays'
    BY <2>1, <2>6 DEF Refuse, Call, fileVars, readVars, boundVars
  <2>7. ASSUME NEW t \in Thread, Step(t), ~WriteLine(t) PROVE PinnedTipStays'
    BY <2>1, <2>7 DEF Step, TakeGate, OpenFile, TakeFlock, LockError, ReadTip, TipError, WritePart,
       WriteError, Sync, Unlock, fileVars, readVars, boundVars
  <2>8. CASE Verify \/ RequireAncestor
    BY <2>1, <2>8 DEF Verify, RequireAncestor, fileVars, boundVars
  <2>9. ASSUME NEW p \in Proc, Crash(p) PROVE PinnedTipStays'
    BY <2>1, <2>9 DEF Crash, fileVars, readVars, boundVars
  <2> QED BY <1>2, <2>2, <2>3, <2>4, <2>5, <2>6, <2>7, <2>8, <2>9 DEF Next
<1> QED BY <1>1, <1>2, TypeCorrect, PTL DEF Spec

----------------------------------------------------------------------------
(* What a step may never do *)

\* Nothing is written behind a torn tail that no live writer is completing.
THEOREM TornTailStopsTheChain == Spec => TornTailBlocks
<1> USE ChainAssumption
<1>1. ASSUME ChainInv, [Next]_vars, torn, \A t \in Thread : pc[t] # "rest"
      PROVE  lines' = lines \/ cuts' > cuts
  <2>1. ASSUME NEW t \in Thread, WriteLine(t)
        PROVE  FALSE
    BY <1>1, <2>1 DEF WriteLine, ChainInv, WriterInv
  <2>2. ASSUME NEW t \in Thread, Step(t)
        PROVE  lines' = lines
    BY <2>1, <2>2 DEF Step, TakeGate, OpenFile, TakeFlock, LockError, ReadTip,
         TipError, WritePart, WriteError, Sync, Unlock, fileVars
  <2>3. ASSUME NEW n \in synced..Len(lines), PowerCut(n)
        PROVE  cuts' > cuts
    BY <1>1, <2>3 DEF PowerCut, ChainInv, TypeOK
  <2> QED
    BY <1>1, <2>2, <2>3 DEF Next, Refuse, Call, TipHash, Verify,
         RequireAncestor, Crash, fileVars, vars
<1> QED
  BY <1>1, ChainInvariant, PTL DEF TornTailBlocks, Spec

----------------------------------------------------------------------------
(* Refinement *)

\* The entries of a file are a sequence as long as the file.
LEMMA LogOfType ==
  ASSUME NEW ls \in Seq(Row)
  PROVE  LogOf(ls) \in Seq(Entry) /\ Len(LogOf(ls)) = Len(ls)
<1>1. Len(ls) \in Nat
  BY LenProperties
<1>2. ASSUME NEW i \in 1..Len(ls)
      PROVE  ls[i].entry \in Entry
  <2>1. ls[i] \in Row
    BY ElementOfSeq
  <2> QED
    BY <2>1 DEF Row
<1>3. LogOf(ls) \in [1..Len(ls) -> Entry]
  BY <1>2 DEF LogOf
<1>4. LogOf(ls) \in Seq(Entry)
  BY <1>1, <1>3, SeqDef
<1> QED
  BY <1>1, <1>3, <1>4

\* Appending a row appends its entry.
LEMMA LogOfAppend ==
  ASSUME NEW ls \in Seq(Row), NEW row \in Row
  PROVE  LogOf(Append(ls, row)) = Append(LogOf(ls), row.entry)
<1>1. LogOf(ls) \in Seq(Entry) /\ Len(LogOf(ls)) = Len(ls)
  BY LogOfType
<1>2. Len(Append(ls, row)) = Len(ls) + 1
  OBVIOUS
<1> QED
  BY <1>1, <1>2 DEF LogOf, Row

\* Cutting the file cuts the log.
LEMMA LogOfPrefix ==
  ASSUME NEW ls \in Seq(Row), NEW n \in 0..Len(ls)
  PROVE  LogOf(SubSeq(ls, 1, n)) = SubSeq(LogOf(ls), 1, n)
<1>1. LogOf(ls) \in Seq(Entry) /\ Len(LogOf(ls)) = Len(ls)
  BY LogOfType
<1>2. Len(SubSeq(ls, 1, n)) = n /\ \A i \in 1..n : SubSeq(ls, 1, n)[i] = ls[i]
  BY SubSeqProperties
<1>3. Len(SubSeq(LogOf(ls), 1, n)) = n
      /\ \A i \in 1..n : SubSeq(LogOf(ls), 1, n)[i] = LogOf(ls)[i]
  BY <1>1, SubSeqProperties
<1>4. SubSeq(ls, 1, n) \in Seq(Row)
  BY SubSeqProperties
<1>5. LogOf(SubSeq(ls, 1, n)) \in Seq(Entry)
      /\ Len(LogOf(SubSeq(ls, 1, n))) = n
  BY <1>2, <1>4, LogOfType
<1>6. SubSeq(LogOf(ls), 1, n) \in Seq(Entry)
  BY <1>1, SubSeqProperties
<1>7. \A i \in 1..n : LogOf(SubSeq(ls, 1, n))[i] = SubSeq(LogOf(ls), 1, n)[i]
  BY <1>2, <1>3 DEF LogOf
<1> QED
  BY <1>3, <1>5, <1>6, <1>7, SeqEqual

\* Every step of the code is a step of the abstract log, or none.
LEMMA LogStep ==
  ASSUME ChainInv, ChainInv', [Next]_vars
  PROVE  [Abstract!LogNext]_(Abstract!lvars)
<1> USE ChainAssumption DEF ChainInv, TypeOK
<1> DEFINE map == [t \in Thread |-> Phase(t)]
<1>1. ASSUME NEW t \in Thread, NEW e \in Entry, Refuse(t, e)
      PROVE  Abstract!Decline(t)
  BY <1>1 DEF Refuse, Abstract!Decline, Phase, fileVars
<1>2. ASSUME NEW t \in Thread, NEW e \in Entry, Call(t, e)
      PROVE  Abstract!Invoke(t, e)
  <2>1. map' = [map EXCEPT ![t] = "pending"]
    BY <1>2 DEF Call, Go, Phase
  <2> QED
    BY <1>2, <2>1 DEF Call, Go, Abstract!Invoke, Phase, fileVars
<1>3. ASSUME NEW t \in Thread, Step(t)
      PROVE  [Abstract!LogNext]_(Abstract!lvars)
  <2>1. ASSUME TakeGate(t) \/ OpenFile(t) \/ TakeFlock(t) \/ ReadTip(t)
                 \/ WritePart(t)
        PROVE  UNCHANGED Abstract!lvars
    <3>1. map' = map
      BY <2>1 DEF TakeGate, OpenFile, TakeFlock, ReadTip, WritePart, Go, Phase
    <3> QED
      BY <2>1, <3>1 DEF TakeGate, OpenFile, TakeFlock, ReadTip, WritePart,
                        fileVars, Abstract!lvars
  <2>2. ASSUME LockError(t) \/ TipError(t) \/ WriteError(t)
        PROVE  Abstract!AnswerErr(t)
    <3>1. /\ pc[t] \in {"open", "flock", "tip", "write", "rest"}
          /\ pc' = [pc EXCEPT ![t] = "idle"]
          /\ \E r \in {"torn", "io"} : answer' = [answer EXCEPT ![t] = r]
          /\ UNCHANGED <<lines, arg, synced>>
      BY <2>2 DEF LockError, TipError, WriteError, Return, fileVars
    <3>2. map' = [map EXCEPT ![t] = "quiet"]
      BY <3>1 DEF Phase
    <3> QED
      BY <3>1, <3>2 DEF Abstract!AnswerErr, Phase
  <2>3. CASE WriteLine(t)
    <3> DEFINE row == [entry |-> arg[t], prev |-> prev[t],
                       sha |-> Digest(arg[t], prev[t]),
                       parses |-> pc[t] = "rest" \/ ~torn]
    <3>1. row \in Row /\ lines' = Append(lines, row)
      BY <2>3 DEF WriteLine, Row, Digest, Hash
    <3>2. LogOf(lines') = Append(LogOf(lines), arg[t])
      BY <3>1, LogOfAppend
    <3>3. map' = [map EXCEPT ![t] = "taken"]
      BY <2>3 DEF WriteLine, Phase
    <3>4. Abstract!TakeEffect(t)
      BY <2>3, <3>2, <3>3 DEF WriteLine, Abstract!TakeEffect, Phase
    <3> QED
      BY <3>4 DEF Abstract!LogNext
  <2>4. CASE Sync(t)
    <3>1. map' = map
      BY <2>4 DEF Sync, Go, Phase
    <3>2. Len(LogOf(lines)) = Len(lines)
      BY DEF LogOf
    <3>3. Abstract!Harden(t) \/ UNCHANGED Abstract!lvars
      BY <2>4, <3>1, <3>2 DEF Sync, Go, Abstract!Harden, Abstract!lvars, Phase
    <3> QED
      BY <3>3 DEF Abstract!LogNext
  <2>5. CASE Unlock(t)
    <3>1. map' = [map EXCEPT ![t] = "quiet"]
      BY <2>5 DEF Unlock, Return, Phase
    <3>2. Abstract!AnswerOk(t)
      BY <2>5, <3>1 DEF Unlock, Return, Abstract!AnswerOk, Phase, fileVars
    <3> QED
      BY <3>2 DEF Abstract!LogNext
  <2> QED
    BY <1>3, <2>1, <2>2, <2>3, <2>4, <2>5 DEF Step, Abstract!LogNext
<1>4. CASE TipHash \/ Verify \/ RequireAncestor \/ UNCHANGED vars
  BY <1>4 DEF TipHash, Verify, RequireAncestor, fileVars, callVars, vars,
              Abstract!lvars, Phase
<1>5. ASSUME NEW p \in Proc, Crash(p)
      PROVE  \E ts \in SUBSET Thread : Abstract!Die(ts)
  <2> DEFINE ts == {t \in Thread : ProcOf[t] = p}
  <2>1. map' = [t \in Thread |-> IF t \in ts THEN "quiet" ELSE map[t]]
    BY <1>5 DEF Crash, Phase
  <2>2. Abstract!Die(ts)
    BY <1>5, <2>1 DEF Crash, fileVars, Abstract!Die
  <2> QED
    BY <2>2
<1>6. ASSUME NEW n \in synced..Len(lines), PowerCut(n)
      PROVE  \E m \in synced..Len(LogOf(lines)) : Abstract!Lose(m)
  <2>1. n \in 0..Len(lines) /\ Len(LogOf(lines)) = Len(lines)
    BY DEF LogOf
  <2>2. LogOf(lines') = SubSeq(LogOf(lines), 1, n)
    BY <1>6, <2>1, LogOfPrefix DEF PowerCut
  <2>3. map' = [t \in Thread |-> "quiet"]
    BY <1>6 DEF PowerCut, Phase
  <2> QED
    BY <1>6, <2>1, <2>2, <2>3 DEF PowerCut, Abstract!Lose
<1> QED
  BY <1>1, <1>2, <1>3, <1>4, <1>5, <1>6 DEF Next, Abstract!LogNext

\* The fine-grained appends of any number of processes implement the atomic,
\* answered-exactly-when-recorded log of AppendLog.
THEOREM ChainRefinesLog == Spec => ImplementsAppendLog
<1>1. ASSUME Init PROVE Abstract!LogInit
  <2>1. (CHOOSE e \in Entry : TRUE) \in Entry
    BY ChainAssumption
  <2>2. LogOf(lines) = <<>>
    BY <1>1 DEF Init, LogOf
  <2>3. arg \in [Thread -> Entry]
    BY <1>1, <2>1 DEF Init
  <2> QED
    BY <1>1, <2>2, <2>3 DEF Init, Abstract!LogInit, Phase
<1>2. ChainInv /\ ChainInv' /\ [Next]_vars => [Abstract!LogNext]_(Abstract!lvars)
  BY LogStep
<1> QED
  BY <1>1, <1>2, ChainInvariant, PTL DEF Spec, ImplementsAppendLog, Abstract!LogSpec
=============================================================================

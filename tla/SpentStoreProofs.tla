-------------------------- MODULE SpentStoreProofs --------------------------
(* Proofs about SpentStore, for any calls, keys, lifetime and clock. *)
EXTENDS SpentStore, TLAPS

----------------------------------------------------------------------------
(* Files *)

\* g has what f has, and refuses to be read if f does.
Grows(f, g) == f.rows \subseteq g.rows /\ (f.bad => g.bad)

\* No file yet reads as a file without rows.
LEMMA EmptyFile == Empty \in File
BY DEF Empty, File

\* Rows written whole add to a file.
LEMMA AppendedGrows ==
  ASSUME NEW f \in File, NEW rows \in SUBSET Row
  PROVE  Appended(f, rows) \in File /\ Grows(f, Appended(f, rows))
BY DEF File, Appended, Grows

\* A write that is cut short anywhere adds to the file too.
LEMMA TornGrows ==
  ASSUME NEW f \in File, NEW rows \in SUBSET Row, NEW g \in Torn(f, rows)
  PROVE  g \in File /\ Grows(f, g)
<1>1. PICK some \in SUBSET rows :
        \/ g = Appended(f, some)
        \/ g = [Appended(f, some) EXCEPT !.bad = TRUE, !.tail = TRUE]
        \/ g = [Appended(f, some) EXCEPT !.tail = TRUE]
  BY DEF Torn
<1>2. /\ Appended(f, some) \in File
      /\ Grows(f, Appended(f, some))
  BY AppendedGrows
<1> QED BY <1>1, <1>2 DEF File, Grows

\* So does whatever a power cut makes of the bytes that were not synced.
LEMMA SurvivorsGrow ==
  ASSUME NEW f \in File, NEW g \in File, NEW h \in Survivors(f, g)
  PROVE  h \in File /\ Grows(f, h)
<1>1. CASE f = g
  BY <1>1 DEF Survivors, Grows
<1>2. CASE f # g
  <2>1. PICK some \in SUBSET (g.rows \ f.rows), b \in {f.bad, TRUE}, t \in BOOLEAN :
          h = [rows |-> f.rows \cup some, bad |-> b, tail |-> t]
    BY <1>2 DEF Survivors
  <2> QED BY <2>1 DEF File, Grows
<1> QED BY <1>1, <1>2

\* The rows of a call are rows.
LEMMA NewRows ==
  ASSUME StoreAssumption, TypeOK, NEW c \in Call
  PROVE  New(c) \in SUBSET Row
BY DEF StoreAssumption, TypeOK, New, Row

\* What _replace_store writes is a file.
LEMMA PrunedFile ==
  ASSUME StoreAssumption, TypeOK, NEW c \in Call
  PROVE  Pruned(c) \in File
BY NewRows DEF TypeOK, Pruned, Fresh, File, Empty

----------------------------------------------------------------------------
(* Types *)

\* The store starts with its types.
LEMMA TypeInit == ASSUME StoreAssumption, Init PROVE TypeOK
<1>1. ok \in [Call -> BOOLEAN]
  BY DEF Init
<1>2. /\ pc \in [Call -> {"idle", "declined", "done", "failed", "dead"} \cup InStore]
      /\ answer \in [Call -> {"none", "yes", "no", "raised"}]
      /\ at \in [Call -> Nat]
  BY DEF Init
<1>3. /\ store \in File /\ flushed \in File /\ base \in File
      /\ settled \in BOOLEAN /\ temps \subseteq Call
      /\ holder \in Call \cup {NoCall} /\ clock \in Nat /\ cuts \in Nat
  BY EmptyFile DEF Init
<1> QED BY <1>1, <1>2, <1>3 DEF TypeOK

\* Every operation of the store, fault and power cut keeps the types.
LEMMA TypeStep ==
  ASSUME StoreAssumption, TypeOK, [Next]_vars
  PROVE  TypeOK'
<1> USE DEF TypeOK, StoreAssumption, InStore
<1>1. CASE UNCHANGED vars
  BY <1>1 DEF vars, fileVars, envVars
<1>2. ASSUME NEW c \in Call, Start(c)
      PROVE  TypeOK'
  BY <1>2 DEF Start, fileVars, envVars
<1>3. ASSUME NEW c \in Call, Decline(c)
      PROVE  TypeOK'
  BY <1>3 DEF Decline, fileVars, envVars
<1>4. ASSUME NEW c \in Call, TakeLock(c)
      PROVE  TypeOK'
  BY <1>4 DEF TakeLock, fileVars, envVars
<1>5. ASSUME NEW c \in Call, Read(c)
      PROVE  TypeOK'
  BY ZenonT(60), <1>5 DEF Read, Fail, Answer, Accepts, Now, fileVars, envVars
<1>6. ASSUME NEW c \in Call, WriteRows(c)
      PROVE  TypeOK'
  BY <1>6, NewRows, AppendedGrows DEF WriteRows, envVars
<1>7. ASSUME NEW c \in Call, Sync(c)
      PROVE  TypeOK'
  BY <1>7 DEF Sync, Answer, envVars
<1>8. ASSUME NEW c \in Call, Sweep(c)
      PROVE  TypeOK'
  BY <1>8 DEF Sweep, fileVars, envVars
<1>9. ASSUME NEW c \in Call, Replace(c)
      PROVE  TypeOK'
  <2>1. base' \in File
    BY <1>9, SurvivorsGrow DEF Replace
  <2>2. store' \in File
    BY <1>9, PrunedFile DEF Replace
  <2> QED BY <1>9, <2>1, <2>2 DEF Replace, envVars
<1>10. ASSUME NEW c \in Call, DirSync(c)
       PROVE  TypeOK'
  BY <1>10 DEF DirSync, Answer, envVars
<1>11. ASSUME NEW c \in Call, IOError(c)
       PROVE  TypeOK'
  <2>1. store' \in File
    BY <1>11, NewRows, TornGrows DEF IOError, Fail
  <2>2. temps' \subseteq Call
    BY <1>11 DEF IOError, Fail
  <2> QED BY <1>11, <2>1, <2>2 DEF IOError, Fail, Answer, envVars
<1>12. ASSUME NEW p \in Proc, Crash(p)
       PROVE  TypeOK'
  <2>1. store' \in File
    BY <1>12, NewRows, TornGrows DEF Crash
  <2> QED BY <1>12, <2>1 DEF Crash, Die, envVars
<1>13. CASE PowerCut
  <2>1. store' \in File
    BY <1>13, SurvivorsGrow DEF PowerCut
  <2>2. settled' \in BOOLEAN
    BY <1>13 DEF PowerCut
  <2> QED BY <1>13, <2>1, <2>2 DEF PowerCut, Die
<1>14. CASE Tick
  BY <1>14 DEF Tick, fileVars
<1> QED BY <1>1, <1>2, <1>3, <1>4, <1>5, <1>6, <1>7, <1>8, <1>9, <1>10, <1>11,
           <1>12, <1>13, <1>14 DEF Next, Step

\* Every variable keeps its type.
THEOREM SpentTypeCorrect == ASSUME StoreAssumption PROVE Spec => []TypeOK
<1>1. Init => TypeOK
  BY TypeInit
<1>2. TypeOK /\ [Next]_vars => TypeOK'
  BY TypeStep
<1> QED BY <1>1, <1>2, PTL DEF Spec

----------------------------------------------------------------------------
(* Who holds the lock *)

\* Only the holder of flock is inside _accept_once, and a killed process drops it.
LEMMA LockStep ==
  ASSUME StoreAssumption, TypeOK, LockInv, [Next]_vars
  PROVE  LockInv'
<1> USE DEF TypeOK, StoreAssumption, InStore, Held, LockInv
<1>1. CASE UNCHANGED vars
  BY <1>1 DEF vars
<1>2. ASSUME NEW c \in Call, Start(c) \/ Decline(c)
      PROVE  LockInv'
  BY <1>2 DEF Start, Decline
<1>3. ASSUME NEW c \in Call, Step(c) \/ IOError(c)
      PROVE  LockInv'
  BY <1>3 DEF Step, IOError, Fail, TakeLock, Read, WriteRows, Sync, Sweep, Replace, DirSync, Answer
<1>4. ASSUME NEW p \in Proc, Crash(p)
      PROVE  LockInv'
  BY <1>4 DEF Crash, Die
<1>5. CASE PowerCut
  BY <1>5 DEF PowerCut, Die
<1>6. CASE Tick
  BY <1>6 DEF Tick
<1> QED BY <1>1, <1>2, <1>3, <1>4, <1>5, <1>6 DEF Next

\* Two calls never are between the two ends of the lock.
LEMMA OneHolder ==
  ASSUME LockInv, NEW c \in Call, NEW d \in Call, pc[c] \in Held, pc[d] \in Held
  PROVE  c = d
BY DEF LockInv

\* _sweep_temps removes what a killed prune left before a prune writes its own file.
LEMMA TempsStep ==
  ASSUME StoreAssumption, TypeOK, LockInv, TempsDoNotPile, [Next]_vars
  PROVE  TempsDoNotPile'
<1> USE DEF TypeOK, StoreAssumption, InStore, Held, TempsDoNotPile
<1>1. CASE UNCHANGED vars
  BY <1>1 DEF vars
<1>2. ASSUME NEW c \in Call, Start(c) \/ Decline(c)
      PROVE  TempsDoNotPile'
  BY <1>2 DEF Start, Decline
<1>3. ASSUME NEW c \in Call, Step(c) \/ IOError(c)
      PROVE  TempsDoNotPile'
  <2>1. pc[c] \in Held => \A d \in Call : pc[d] \in Held => d = c
    BY OneHolder
  <2>2. CASE TakeLock(c) \/ Read(c) \/ WriteRows(c) \/ Sync(c) \/ DirSync(c)
    BY <2>2 DEF TakeLock, Read, Fail, WriteRows, Sync, DirSync, Answer
  <2>3. CASE Sweep(c)
    BY <2>1, <2>3 DEF Sweep
  <2>4. CASE Replace(c)
    BY <2>1, <2>4 DEF Replace
  <2>5. CASE IOError(c)
    <3>1. CASE temps' = temps
      BY <2>5, <3>1 DEF IOError, Fail, Answer
    <3>2. CASE temps' = {} /\ pc[c] \in {"sweep", "replace"}
      BY <2>1, <2>5, <3>2 DEF IOError, Fail, Answer
    <3> QED BY <2>5, <3>1, <3>2 DEF IOError, Fail
  <2> QED BY <1>3, <2>2, <2>3, <2>4, <2>5 DEF Step
<1>4. ASSUME NEW p \in Proc, Crash(p)
      PROVE  TempsDoNotPile'
  BY <1>4 DEF Crash, Die
<1>5. CASE PowerCut
  BY <1>5 DEF PowerCut, Die
<1>6. CASE Tick
  BY <1>6 DEF Tick
<1> QED BY <1>1, <1>2, <1>3, <1>4, <1>5, <1>6 DEF Next

\* At most one temporary file is ever left, and none is taken from a prune that
\* runs: _sweep_temps runs under the lock, before mkstemp.
THEOREM AtMostOneTemp == ASSUME StoreAssumption PROVE Spec => []TempsDoNotPile
<1>1. Init => TypeOK /\ LockInv /\ TempsDoNotPile
  BY TypeInit DEF Init, LockInv, TempsDoNotPile, Held, InStore
<1>2. TypeOK /\ LockInv /\ TempsDoNotPile /\ [Next]_vars
        => (TypeOK /\ LockInv /\ TempsDoNotPile)'
  BY TypeStep, LockStep, TempsStep
<1> QED BY <1>1, <1>2, PTL DEF Spec

----------------------------------------------------------------------------
(* No key is spent twice in a lifetime *)

\* What grows still refuses what it refused, and does so while time passes.
LEMMA RefusesGrows ==
  ASSUME NEW f \in File, NEW g \in File, Grows(f, g),
         NEW keys, NEW till \in Nat, NEW now \in Nat, NEW later \in Nat, now <= later,
         Refuses(f, keys, till, now)
  PROVE  Refuses(g, keys, till, later)
BY DEF File, Row, Grows, Refuses

\* A pruned file still refuses what the file refused.
LEMMA PrunedRefuses ==
  ASSUME StoreAssumption, TypeOK, NEW c \in Call, at[c] <= clock, ~store.bad,
         NEW keys, NEW till \in Nat, Refuses(store, keys, till, clock)
  PROVE  Refuses(Pruned(c), keys, till, clock)
<1>1. Pruned(c).rows = Fresh(store, at[c]) \cup New(c)
  BY DEF Pruned, Empty
<1>2. ASSUME NEW k \in keys, ~(till <= clock)
      PROVE  \E row \in Pruned(c).rows : row.key = k /\ till <= row.exp
  <2>1. PICK row \in store.rows : row.key = k /\ till <= row.exp
    BY <1>2 DEF Refuses
  <2>2. row.exp \in Nat /\ at[c] \in Nat /\ clock \in Nat
    BY DEF TypeOK, File, Row
  <2>3. row \in Fresh(store, at[c])
    BY <1>2, <2>1, <2>2 DEF Fresh
  <2> QED BY <1>1, <2>1, <2>3
<1> QED BY <1>2 DEF Refuses

\* A file with the rows of a call refuses its keys.
LEMMA NewRefuse ==
  ASSUME StoreAssumption, TypeOK, NEW c \in Call, ok[c], NEW f \in File, New(c) \subseteq f.rows
  PROVE  Refuses(f, KeysOf[c], at[c] + Lifetime, clock)
<1>1. ASSUME NEW k \in KeysOf[c]
      PROVE  \E row \in f.rows : row.key = k /\ at[c] + Lifetime <= row.exp
  <2>1. [key |-> k, exp |-> at[c] + Lifetime] \in New(c)
    BY <1>1 DEF New
  <2>2. at[c] + Lifetime <= at[c] + Lifetime
    BY DEF TypeOK, StoreAssumption
  <2> QED BY <2>1, <2>2
<1> QED BY <1>1 DEF Refuses

\* The lookup: a call that is let through clashes with no call whose rows the
\* file carries, unless a lifetime has passed since.
LEMMA LookupClear ==
  ASSUME StoreAssumption, TypeOK, NEW c \in Call, NEW d \in Call,
         ~store.bad, Carries(store, d), Accepts(c, store, clock), Clash(c, d)
  PROVE  at[d] + Lifetime <= clock
<1>1. PICK k \in KeysOf[c] : k \in KeysOf[d]
  BY DEF Clash
<1>2. CASE at[d] + Lifetime <= clock
  BY <1>2
<1>3. CASE \E row \in store.rows : row.key = k /\ at[d] + Lifetime <= row.exp
  <2>1. PICK row \in store.rows : row.key = k /\ at[d] + Lifetime <= row.exp
    BY <1>3
  <2>2. row.exp \in Nat /\ at[d] + Lifetime \in Nat /\ clock \in Nat
    BY DEF TypeOK, StoreAssumption, File, Row
  <2>3. row \notin Fresh(store, clock)
    BY <1>1, <2>1 DEF Accepts
  <2> QED BY <2>1, <2>2, <2>3 DEF Fresh
<1> QED BY <1>1, <1>2, <1>3 DEF Carries, Refuses

\* No call has asked for the time after now.
LEMMA TimeStep ==
  ASSUME StoreAssumption, TypeOK, TimeInv, [Next]_vars
  PROVE  TimeInv'
<1> USE DEF TypeOK, StoreAssumption, InStore, TimeInv
<1>1. CASE UNCHANGED vars
  BY <1>1 DEF vars, envVars
<1>2. ASSUME NEW c \in Call, Start(c) \/ Decline(c)
      PROVE  TimeInv'
  BY <1>2 DEF Start, Decline, envVars
<1>3. ASSUME NEW c \in Call, Step(c) \/ IOError(c)
      PROVE  TimeInv'
  <2>1. CASE Read(c)
    BY <2>1 DEF Read, Fail, Answer, Now, envVars
  <2>2. CASE ~Read(c)
    BY <1>3, <2>2 DEF Step, IOError, Fail, TakeLock, WriteRows, Sync, Sweep, Replace, DirSync,
       Answer, envVars
  <2> QED BY <2>1, <2>2
<1>4. ASSUME NEW p \in Proc, Crash(p)
      PROVE  TimeInv'
  BY <1>4 DEF Crash, Die, envVars
<1>5. CASE PowerCut
  BY <1>5 DEF PowerCut, Die
<1>6. CASE Tick
  BY <1>6 DEF Tick
<1> QED BY <1>1, <1>2, <1>3, <1>4, <1>5, <1>6 DEF Next

\* _replace_store is reached only with a store whose every line parses.
LEMMA CleanStep ==
  ASSUME StoreAssumption, TypeOK, LockInv, CleanInv, [Next]_vars
  PROVE  CleanInv'
<1> USE DEF TypeOK, StoreAssumption, InStore, Held, Pruning, CleanInv, LockInv
<1>1. CASE UNCHANGED vars
  BY <1>1 DEF vars, fileVars
<1>2. ASSUME NEW c \in Call, Start(c) \/ Decline(c)
      PROVE  CleanInv'
  BY <1>2 DEF Start, Decline, fileVars
<1>3. ASSUME NEW c \in Call, Step(c) \/ IOError(c)
      PROVE  CleanInv'
  <2>1. CASE store' = store
    BY <1>3, <2>1 DEF Step, IOError, Fail, TakeLock, Read, WriteRows, Sync, Sweep, Replace,
       DirSync, Answer
  <2>2. CASE store' # store
    <3>1. pc[c] \in Held /\ pc'[c] \in {"sync", "dirSync", "done", "failed"}
      BY <1>3, <2>2 DEF Step, IOError, Fail, TakeLock, Read, WriteRows, Sync, Sweep, Replace, DirSync,
                        Answer, fileVars
    <3>2. \A d \in Call \ {c} : pc'[d] = pc[d] /\ pc[d] \notin Held
      BY <1>3, <3>1, OneHolder
         DEF Step, IOError, Fail, TakeLock, Read, WriteRows, Sync, Sweep, Replace, DirSync, Answer
    <3> QED BY <3>1, <3>2
  <2> QED BY <2>1, <2>2
<1>4. ASSUME NEW p \in Proc, Crash(p)
      PROVE  CleanInv'
  <2>1. CASE store' = store
    BY <1>4, <2>1 DEF Crash, Die
  <2>2. CASE store' # store
    <3>1. PICK c \in Call : ProcOf[c] = p /\ c = holder /\ pc[c] = "append"
      BY <1>4, <2>2 DEF Crash
    <3>2. \A d \in Call \ {c} : pc[d] \notin Held
      BY <3>1, OneHolder
    <3>3. pc'[c] = "dead" /\ \A d \in Call : pc'[d] \in {"dead", pc[d]}
      BY <1>4, <3>1 DEF Crash, Die
    <3> QED BY <3>2, <3>3
  <2> QED BY <2>1, <2>2
<1>5. CASE PowerCut
  BY <1>5 DEF PowerCut, Die
<1>6. CASE Tick
  BY <1>6 DEF Tick, fileVars
<1> QED BY <1>1, <1>2, <1>3, <1>4, <1>5, <1>6 DEF Next

\* What a file carries it carries on, as long as it only grows.
LEMMA CarriesOn ==
  ASSUME StoreAssumption, TypeOK, NEW c \in Call, NEW f \in File, NEW g \in File,
         Grows(f, g), Carries(f, c), NEW later \in Nat, clock <= later
  PROVE  Refuses(g, KeysOf[c], at[c] + Lifetime, later)
BY RefusesGrows DEF Carries, TypeOK, StoreAssumption

\* The cases of SpentInv in which the files grow or stay.
LEMMA SpentGrows ==
  ASSUME StoreAssumption, TypeOK, TypeOK', SpentInv, clock <= clock',
         \A c \in Accepted' : c \in Accepted /\ at'[c] = at[c],
         Grows(store, store'), Grows(flushed, flushed'),
         settled' = settled, base' = base
  PROVE  SpentInv'
<1> SUFFICES ASSUME NEW c \in Call, c \in Accepted'
             PROVE  /\ Carries(store, c)'
                    /\ "power" \in Faults => Carries(flushed, c)' /\ (~settled' => Carries(base, c)')
  BY DEF SpentInv, Accepted
<1>1. /\ store \in File /\ store' \in File /\ flushed \in File /\ flushed' \in File
      /\ base \in File /\ clock \in Nat /\ clock' \in Nat /\ at'[c] = at[c]
      /\ Grows(base, base)
  BY DEF TypeOK, Grows
<1>2. Carries(store, c)'
  BY <1>1, CarriesOn DEF SpentInv, Carries
<1>3. ASSUME "power" \in Faults PROVE Carries(flushed, c)'
  BY <1>1, <1>3, CarriesOn DEF SpentInv, Carries
<1>4. ASSUME "power" \in Faults, ~settled PROVE Carries(base, c)'
  BY <1>1, <1>4, CarriesOn DEF SpentInv, Carries
<1> QED BY <1>2, <1>3, <1>4

\* The rows of an accepted call stay in all that a power cut could make of the store.
LEMMA SpentStep ==
  ASSUME StoreAssumption, NamesDurable \/ "power" \notin Faults, StoreInv, TypeOK', [Next]_vars
  PROVE  SpentInv'
<1> USE DEF StoreInv, Accepted
<1>0. \A f \in File : Grows(f, f)
  BY DEF Grows
<1>1. CASE UNCHANGED vars
  BY <1>0, <1>1, SpentGrows DEF vars, fileVars, envVars, TypeOK
<1>2. ASSUME NEW c \in Call, Start(c) \/ Decline(c)
      PROVE  SpentInv'
  BY <1>0, <1>2, SpentGrows DEF Start, Decline, fileVars, envVars, TypeOK
<1>3. ASSUME NEW c \in Call, TakeLock(c) \/ Sweep(c)
      PROVE  SpentInv'
  BY <1>0, <1>3, SpentGrows DEF TakeLock, Sweep, fileVars, envVars, TypeOK
<1>4. ASSUME NEW c \in Call, Read(c)
      PROVE  SpentInv'
  <2>1. \A d \in Accepted' : d \in Accepted /\ at'[d] = at[d]
    BY <1>4 DEF Read, Fail, Answer, TypeOK, TimeInv
  <2> QED BY <1>0, <1>4, <2>1, SpentGrows DEF Read, Fail, fileVars, envVars, TypeOK
<1>5. ASSUME NEW c \in Call, WriteRows(c)
      PROVE  SpentInv'
  <2>1. Grows(store, store')
    BY <1>5, NewRows, AppendedGrows DEF WriteRows, TypeOK
  <2> QED BY <1>0, <1>5, <2>1, SpentGrows DEF WriteRows, envVars, TypeOK
<1>6. ASSUME NEW c \in Call, IOError(c)
      PROVE  SpentInv'
  <2>1. Grows(store, store')
    BY <1>0, <1>6, NewRows, TornGrows DEF IOError, Fail, TypeOK
  <2>2. \A d \in Accepted' : d \in Accepted /\ at'[d] = at[d]
    BY <1>6 DEF IOError, Fail, Answer, TypeOK
  <2> QED BY <1>0, <1>6, <2>1, <2>2, SpentGrows DEF IOError, Fail, envVars, TypeOK
<1>7. ASSUME NEW p \in Proc, Crash(p)
      PROVE  SpentInv'
  <2>1. Grows(store, store')
    BY <1>0, <1>7, NewRows, TornGrows DEF Crash, TypeOK
  <2> QED BY <1>0, <1>7, <2>1, SpentGrows DEF Crash, Die, envVars, TypeOK
<1>8. CASE Tick
  BY <1>0, <1>8, SpentGrows DEF Tick, fileVars, TypeOK
<1>9. ASSUME NEW c \in Call, Sync(c)
      PROVE  SpentInv'
  <2> SUFFICES ASSUME NEW d \in Call, d \in Accepted'
               PROVE  /\ Carries(store, d)'
                      /\ "power" \in Faults => Carries(flushed, d)' /\ (~settled' => Carries(base, d)')
    BY DEF SpentInv
  <2>1. d \in Accepted \/ (d = c /\ ok[c] /\ pc[c] = "sync")
    BY <1>9 DEF Sync, Answer, TypeOK
  <2>2. Carries(store, d)
    BY <2>1 DEF SpentInv, WrittenInv
  <2>3. Carries(store, d)' /\ Carries(flushed, d)'
    BY <1>9, <2>2 DEF Sync, envVars, Carries
  <2>4. "power" \in Faults => settled'
    BY <1>9 DEF Sync
  <2> QED BY <2>3, <2>4
<1>10. ASSUME NEW c \in Call, DirSync(c)
       PROVE  SpentInv'
  <2> SUFFICES ASSUME NEW d \in Call, d \in Accepted'
               PROVE  /\ Carries(store, d)'
                      /\ "power" \in Faults => Carries(flushed, d)'
    BY <1>10 DEF SpentInv, DirSync
  <2>1. d \in Accepted \/ (d = c /\ ok[c] /\ pc[c] = "dirSync")
    BY <1>10 DEF DirSync, Answer, TypeOK
  <2>2. Carries(store, d) /\ ("power" \in Faults => Carries(flushed, d))
    BY <2>1 DEF SpentInv, WrittenInv
  <2> QED BY <1>10, <2>2 DEF DirSync, envVars, Carries
<1>11. ASSUME NEW c \in Call, Replace(c)
       PROVE  SpentInv'
  <2> SUFFICES ASSUME NEW d \in Call, d \in Accepted
               PROVE  /\ Carries(store, d)' /\ Carries(flushed, d)'
                      /\ "power" \in Faults => Carries(base, d)'
    BY <1>11 DEF SpentInv, Replace
  <2>1. at[d] + Lifetime \in Nat /\ at[c] <= clock /\ ~store.bad
    BY <1>11 DEF Replace, TypeOK, StoreAssumption, TimeInv, CleanInv, Pruning
  <2>2. Refuses(Pruned(c), KeysOf[d], at[d] + Lifetime, clock)
    BY <2>1, PrunedRefuses DEF SpentInv, Carries
  <2>3. Carries(store, d)' /\ Carries(flushed, d)'
    BY <1>11, <2>2 DEF Replace, envVars, Carries
  <2>4. ASSUME "power" \in Faults PROVE Carries(base, d)'
    <3>1. CASE base' \in Survivors(flushed, store)
      <4>1. base' \in File /\ Grows(flushed, base')
        BY <3>1, SurvivorsGrow DEF TypeOK
      <4>2. Carries(flushed, d)
        BY <2>4 DEF SpentInv
      <4>3. Refuses(base', KeysOf[d], at[d] + Lifetime, clock)
        BY <4>1, <4>2, CarriesOn DEF TypeOK
      <4> QED BY <1>11, <4>3 DEF Replace, envVars, Carries
    <3>2. CASE ~settled /\ base' = base
      BY <1>11, <2>4, <3>2 DEF Replace, envVars, SpentInv, Carries
    <3> QED BY <1>11, <3>1, <3>2 DEF Replace
  <2> QED BY <2>3, <2>4
<1>12. CASE PowerCut
  <2> SUFFICES ASSUME NEW d \in Call, d \in Accepted
               PROVE  Carries(store, d)' /\ Carries(flushed, d)' /\ Carries(base, d)'
    BY <1>12 DEF SpentInv, PowerCut, Die
  <2>1. Refuses(store', KeysOf[d], at[d] + Lifetime, clock)
    <3>1. CASE store' \in Survivors(flushed, store)
      <4>1. store' \in File /\ Grows(flushed, store')
        BY <3>1, SurvivorsGrow DEF TypeOK
      <4>2. Carries(flushed, d)
        BY <1>12 DEF PowerCut, SpentInv
      <4> QED BY <4>1, <4>2, CarriesOn DEF TypeOK
    <3>2. CASE ~settled /\ store' = base
      BY <1>12, <3>2 DEF PowerCut, SpentInv, Carries
    <3> QED BY <1>12, <3>1, <3>2 DEF PowerCut
  <2> QED BY <1>12, <2>1 DEF PowerCut, Die, Carries
<1> QED BY <1>1, <1>2, <1>3, <1>4, <1>5, <1>6, <1>7, <1>8, <1>9, <1>10, <1>11, <1>12
        DEF Next, Step

\* A call that decides to accept does so under the lock, so no call that clashes with
\* it is accepted in between.
LEMMA ClearStep ==
  ASSUME StoreAssumption, StoreInv, TypeOK', [Next]_vars
  PROVE  ClearInv'
<1> USE DEF StoreInv, TypeOK, Accepted, InStore, Held, Deciding
<1> SUFFICES ASSUME NEW c \in Call, pc'[c] \in Deciding, ok'[c],
                    NEW d \in Call, d \in Accepted', Clash(c, d)
             PROVE  at'[d] + Lifetime <= at'[c]
  BY DEF ClearInv
<1>1. CASE pc[c] \in Deciding /\ ok[c] /\ at'[c] = at[c] /\ d \in Accepted /\ at'[d] = at[d]
  BY <1>1 DEF ClearInv
<1>2. CASE UNCHANGED vars
  BY <1>1, <1>2 DEF vars
<1>3. ASSUME NEW e \in Call, Start(e) \/ Decline(e)
      PROVE  at'[d] + Lifetime <= at'[c]
  BY <1>1, <1>3 DEF Start, Decline
<1>4. ASSUME NEW e \in Call, Step(e) \/ IOError(e)
      PROVE  at'[d] + Lifetime <= at'[c]
  <2>1. CASE e # c
    <3>1. pc'[c] = pc[c] /\ ok'[c] = ok[c] /\ at'[c] = at[c]
      BY ZenonT(60), <1>4, <2>1 DEF Step, IOError, Fail, TakeLock, Read, WriteRows, Sync, Sweep, Replace,
         DirSync, Answer
    <3>2. pc[e] \notin Held
      BY <2>1, <3>1, OneHolder
    <3>3. TakeLock(e) \/ (IOError(e) /\ pc[e] = "lock")
      BY <1>4, <3>2 DEF Step, IOError, Fail, Read, WriteRows, Sync, Sweep, Replace, DirSync
    <3>4. d \in Accepted /\ at'[d] = at[d]
      BY <3>3 DEF TakeLock, IOError, Fail, Answer
    <3> QED BY <1>1, <3>1, <3>4
  <2>2. CASE e = c /\ Read(c)
    <3>1. d \in Accepted /\ d # c
      BY <2>2 DEF Read, Fail, Answer, TimeInv
    <3>2. at'[c] = clock /\ at'[d] = at[d] /\ ~store.bad /\ Accepts(c, store, clock)
      BY ZenonT(60), <2>2, <3>1 DEF Read, Fail, Answer, Now
    <3>3. Carries(store, d)
      BY <3>1 DEF SpentInv
    <3> QED BY <3>2, <3>3, LookupClear
  <2>3. CASE e = c /\ ~Read(c)
    <3>1. WriteRows(c) \/ Sweep(c) \/ Replace(c)
      BY <1>4, <2>3 DEF Step, IOError, Fail, TakeLock, Sync, DirSync, Answer
    <3> QED BY <1>1, <3>1 DEF WriteRows, Sweep, Replace
  <2> QED BY <2>1, <2>2, <2>3
<1>5. ASSUME NEW p \in Proc, Crash(p)
      PROVE  at'[d] + Lifetime <= at'[c]
  BY <1>1, <1>5 DEF Crash, Die
<1>6. CASE PowerCut
  BY <1>1, <1>6 DEF PowerCut, Die
<1>7. CASE Tick
  BY <1>1, <1>7 DEF Tick
<1> QED BY <1>2, <1>3, <1>4, <1>5, <1>6, <1>7 DEF Next

\* Rows are in the file before it is synced, and synced before the directory is.
LEMMA WrittenStep ==
  ASSUME StoreAssumption, StoreInv, TypeOK', [Next]_vars
  PROVE  WrittenInv'
<1> USE DEF StoreInv, TypeOK, InStore, Held
<1> SUFFICES ASSUME NEW c \in Call, ok'[c], pc'[c] \in {"sync", "dirSync"}
             PROVE  Carries(store, c)' /\ (pc'[c] = "dirSync" => Carries(flushed, c)')
  BY DEF WrittenInv
<1>1. CASE /\ pc'[c] = pc[c] /\ ok[c] /\ at'[c] = at[c] /\ clock <= clock'
           /\ store' = store /\ flushed' = flushed
  <2>1. Grows(store, store) /\ Grows(flushed, flushed)
    BY DEF Grows
  <2> QED BY <1>1, <2>1, CarriesOn DEF WrittenInv, Carries
<1>2. CASE UNCHANGED vars
  BY <1>1, <1>2 DEF vars, fileVars, envVars
<1>3. ASSUME NEW e \in Call, Start(e) \/ Decline(e)
      PROVE  Carries(store, c)' /\ (pc'[c] = "dirSync" => Carries(flushed, c)')
  BY <1>1, <1>3 DEF Start, Decline, fileVars, envVars
<1>4. ASSUME NEW e \in Call, Step(e) \/ IOError(e)
      PROVE  Carries(store, c)' /\ (pc'[c] = "dirSync" => Carries(flushed, c)')
  <2>1. CASE e # c
    <3>1. pc'[c] = pc[c] /\ ok'[c] = ok[c] /\ at'[c] = at[c]
      BY ZenonT(60), <1>4, <2>1 DEF Step, IOError, Fail, TakeLock, Read, WriteRows, Sync, Sweep, Replace,
         DirSync, Answer
    <3>2. pc[e] \notin Held
      BY <2>1, <3>1, OneHolder
    <3>3. TakeLock(e) \/ (IOError(e) /\ pc[e] = "lock")
      BY <1>4, <3>2 DEF Step, IOError, Fail, Read, WriteRows, Sync, Sweep, Replace, DirSync
    <3>4. store' = store /\ flushed' = flushed /\ clock' = clock
      BY <3>3 DEF TakeLock, IOError, Fail, fileVars, envVars
    <3> QED BY <1>1, <3>1, <3>4
  <2>2. CASE e = c
    <3>1. WriteRows(c) \/ Replace(c)
      <4>1. ~TakeLock(c) /\ ~Sweep(c)
        BY DEF TakeLock, Sweep
      <4>2. ~Read(c)
        BY DEF Read, Fail, Answer
      <4>3. ~Sync(c) /\ ~DirSync(c) /\ ~IOError(c)
        BY DEF Sync, DirSync, IOError, Fail, Answer
      <4> QED BY <1>4, <2>2, <4>1, <4>2, <4>3 DEF Step
    <3>2. CASE WriteRows(c)
      <4>1. ok[c] /\ at' = at /\ clock' = clock /\ pc'[c] = "sync" /\ New(c) \subseteq store'.rows
        BY <3>2 DEF WriteRows, Appended, envVars
      <4> QED BY <4>1, NewRefuse DEF Carries
    <3>3. CASE Replace(c)
      <4>1. /\ ok[c] /\ at' = at /\ clock' = clock /\ flushed' = store'
            /\ New(c) \subseteq store'.rows
        BY <3>3 DEF Replace, Pruned, Empty, envVars
      <4> QED BY <4>1, NewRefuse DEF Carries
    <3> QED BY <3>1, <3>2, <3>3
  <2> QED BY <2>1, <2>2
<1>5. ASSUME NEW p \in Proc, Crash(p)
      PROVE  Carries(store, c)' /\ (pc'[c] = "dirSync" => Carries(flushed, c)')
  <2>1. pc'[c] = pc[c] /\ holder = c
    BY <1>5 DEF Crash, Die, LockInv
  <2>2. store' = store
    BY <1>5, <2>1 DEF Crash, Die
  <2> QED BY <1>1, <1>5, <2>1, <2>2 DEF Crash, Die, envVars
<1>6. CASE PowerCut
  BY <1>6 DEF PowerCut, Die
<1>7. CASE Tick
  BY <1>1, <1>7 DEF Tick, fileVars
<1> QED BY <1>2, <1>3, <1>4, <1>5, <1>6, <1>7 DEF Next

\* An empty store satisfies the invariant.
LEMMA StoreInit == ASSUME StoreAssumption, Init PROVE StoreInv
<1>1. \A c \in Call : pc[c] = "idle" /\ answer[c] = "none" /\ at[c] = 0 /\ clock = 0
  BY DEF Init
<1>2. LockInv /\ TimeInv /\ CleanInv
  BY <1>1 DEF LockInv, TimeInv, CleanInv, Held, InStore, Pruning
<1>3. SpentInv /\ ClearInv /\ WrittenInv
  BY <1>1 DEF SpentInv, ClearInv, WrittenInv, Accepted, Deciding, Held, InStore
<1> QED BY <1>2, <1>3, TypeInit DEF StoreInv

\* The inductive invariant of the store.
THEOREM StoreInvariant ==
  ASSUME StoreAssumption, NamesDurable \/ "power" \notin Faults
  PROVE  Spec => []StoreInv
<1>1. Init => StoreInv
  BY StoreInit
<1>2. StoreInv /\ [Next]_vars => StoreInv'
  <2> SUFFICES ASSUME StoreInv, [Next]_vars PROVE StoreInv'
    OBVIOUS
  <2>1. TypeOK'
    BY TypeStep DEF StoreInv
  <2>2. LockInv' /\ TimeInv' /\ CleanInv'
    BY LockStep, TimeStep, CleanStep DEF StoreInv
  <2>3. SpentInv' /\ ClearInv' /\ WrittenInv'
    BY <2>1, SpentStep, ClearStep, WrittenStep
  <2> QED BY <2>1, <2>2, <2>3 DEF StoreInv
<1> QED BY <1>1, <1>2, PTL DEF Spec

\* The acceptance of a call keeps accepted calls that clash a lifetime apart.
LEMMA OnceStep ==
  ASSUME StoreAssumption, StoreInv, OnceInLifetime, [Next]_vars
  PROVE  OnceInLifetime'
<1> USE DEF StoreInv, TypeOK, Accepted, InStore, Deciding, Held
<1> SUFFICES ASSUME NEW c \in Call, NEW d \in Call, c \in Accepted', d \in Accepted', c # d, Clash(c, d)
             PROVE  at'[c] + Lifetime <= at'[d] \/ at'[d] + Lifetime <= at'[c]
  BY DEF OnceInLifetime
<1>1. CASE c \in Accepted /\ d \in Accepted /\ at'[c] = at[c] /\ at'[d] = at[d]
  BY <1>1 DEF OnceInLifetime
<1>2. CASE UNCHANGED vars
  BY <1>1, <1>2 DEF vars
<1>3. ASSUME NEW e \in Call, Start(e) \/ Decline(e)
      PROVE  at'[c] + Lifetime <= at'[d] \/ at'[d] + Lifetime <= at'[c]
  BY <1>1, <1>3 DEF Start, Decline
<1>4. ASSUME NEW e \in Call, Step(e) \/ IOError(e)
      PROVE  at'[c] + Lifetime <= at'[d] \/ at'[d] + Lifetime <= at'[c]
  <2>1. CASE TakeLock(e) \/ Read(e) \/ WriteRows(e) \/ Sweep(e) \/ Replace(e) \/ IOError(e)
    <3>1. /\ c \in Accepted /\ d \in Accepted
          /\ at'[c] = at[c] /\ at'[d] = at[d]
      BY <2>1 DEF TakeLock, Read, Fail, WriteRows, Sweep, Replace, IOError, Answer, TimeInv
    <3> QED BY <1>1, <3>1
  <2>2. CASE Sync(e) \/ DirSync(e)
    <3>1. /\ at' = at
          /\ c \in Accepted \/ (c = e /\ ok[e] /\ pc[e] \in Deciding)
          /\ d \in Accepted \/ (d = e /\ ok[e] /\ pc[e] \in Deciding)
      BY <2>2 DEF Sync, DirSync, Answer
    <3>2. Clash(d, c)
      BY DEF Clash
    <3> QED BY <1>1, <3>1, <3>2 DEF ClearInv
  <2> QED BY <1>4, <2>1, <2>2 DEF Step
<1>5. ASSUME NEW p \in Proc, Crash(p)
      PROVE  at'[c] + Lifetime <= at'[d] \/ at'[d] + Lifetime <= at'[c]
  BY <1>1, <1>5 DEF Crash, Die
<1>6. CASE PowerCut
  BY <1>1, <1>6 DEF PowerCut, Die
<1>7. CASE Tick
  BY <1>1, <1>7 DEF Tick
<1> QED BY <1>2, <1>3, <1>4, <1>5, <1>6, <1>7 DEF Next

\* The comment over the store holds where a synced file keeps its name through
\* a power cut, or the power never goes: no receipt id and no ticket is accepted
\* twice within a lifetime, whichever calls fail, are killed or wait.
THEOREM NoKeyIsSpentTwice ==
  ASSUME StoreAssumption, NamesDurable \/ "power" \notin Faults
  PROVE  Spec => []OnceInLifetime
<1>1. Init => OnceInLifetime
  BY DEF Init, OnceInLifetime, Accepted
<1>2. StoreInv /\ OnceInLifetime /\ [Next]_vars => OnceInLifetime'
  BY OnceStep
<1>3. Spec => []StoreInv
  BY StoreInvariant
<1> QED BY <1>1, <1>2, <1>3, PTL DEF Spec

----------------------------------------------------------------------------
(* No bound receipt is refused without a cause *)

\* What a write that was cut short adds is some of what was to be written.
LEMMA TornAdds ==
  ASSUME NEW f \in File, NEW rows \in SUBSET Row, NEW g \in Torn(f, rows)
  PROVE  g.rows \subseteq f.rows \cup rows
<1>1. PICK some \in SUBSET rows :
        \/ g = Appended(f, some)
        \/ g = [Appended(f, some) EXCEPT !.bad = TRUE, !.tail = TRUE]
        \/ g = [Appended(f, some) EXCEPT !.tail = TRUE]
  BY DEF Torn
<1> DEFINE whole == Appended(f, some)
<1>2. whole \in File /\ whole.rows = f.rows \cup some
  BY DEF Appended, File
<1>3. whole = g \/ g = [whole EXCEPT !.bad = TRUE, !.tail = TRUE] \/ g = [whole EXCEPT !.tail = TRUE]
  BY <1>1
<1> HIDE DEF whole
<1>4. g.rows = whole.rows
  BY <1>2, <1>3 DEF File
<1> QED BY <1>2, <1>4

\* A call that was let through, and has written, keeps what it read and does not go back.
LEMMA SpendsOn ==
  ASSUME StoreAssumption, TypeOK, [Next]_vars, NEW d \in Call, pc[d] \in Written
  PROVE  /\ ok'[d] = ok[d] /\ at'[d] = at[d] /\ pc'[d] \in Written
         /\ pc[d] \in {"done", "failed", "dead"} => pc'[d] = pc[d]
<1> USE DEF TypeOK, StoreAssumption, InStore, Written
<1>1. CASE UNCHANGED vars
  BY <1>1 DEF vars
<1>2. ASSUME NEW c \in Call, Start(c) \/ Decline(c)
      PROVE  /\ ok'[d] = ok[d] /\ at'[d] = at[d] /\ pc'[d] \in Written
             /\ pc[d] \in {"done", "failed", "dead"} => pc'[d] = pc[d]
  BY <1>2 DEF Start, Decline
<1>3. ASSUME NEW c \in Call, Step(c) \/ IOError(c)
      PROVE  /\ ok'[d] = ok[d] /\ at'[d] = at[d] /\ pc'[d] \in Written
             /\ pc[d] \in {"done", "failed", "dead"} => pc'[d] = pc[d]
  BY <1>3 DEF Step, IOError, Fail, TakeLock, Read, WriteRows, Sync, Sweep, Replace, DirSync, Answer
<1>4. ASSUME NEW p \in Proc, Crash(p)
      PROVE  /\ ok'[d] = ok[d] /\ at'[d] = at[d] /\ pc'[d] \in Written
             /\ pc[d] \in {"done", "failed", "dead"} => pc'[d] = pc[d]
  BY <1>4 DEF Crash, Die
<1>5. CASE PowerCut
  BY <1>5 DEF PowerCut, Die
<1>6. CASE Tick
  BY <1>6 DEF Tick
<1> QED BY <1>1, <1>2, <1>3, <1>4, <1>5, <1>6 DEF Next

\* Only a power cut counts as one.
LEMMA CutsStay ==
  ASSUME TypeOK, [Next]_vars, cuts' = 0
  PROVE  cuts = 0
<1>1. CASE UNCHANGED vars
  BY <1>1 DEF vars
<1>2. ASSUME NEW c \in Call, Start(c) \/ Decline(c) \/ IOError(c) PROVE cuts' = cuts
  BY <1>2 DEF Start, Decline, IOError, envVars
<1>3. ASSUME NEW c \in Call, Step(c) PROVE cuts' = cuts
  BY <1>3 DEF Step, TakeLock, Read, WriteRows, Sync, Sweep, Replace, DirSync, envVars
<1>4. ASSUME NEW p \in Proc, Crash(p) PROVE cuts' = cuts
  BY <1>4 DEF Crash, envVars
<1>5. ~PowerCut
  BY DEF PowerCut, TypeOK
<1>6. CASE Tick
  BY <1>6 DEF Tick
<1> QED BY <1>1, <1>2, <1>3, <1>4, <1>5, <1>6 DEF Next

\* While the power stays, the rows that come are those of a call that goes on as written.
LEMMA RowsCome ==
  ASSUME StoreAssumption, TypeOK, LockInv, [Next]_vars, cuts' = 0, NEW row \in store'.rows
  PROVE  \/ row \in store.rows
         \/ \E c \in Call : row \in New(c) /\ ok'[c] = ok[c] /\ at'[c] = at[c] /\ pc'[c] \in Written
<1> USE DEF TypeOK
<1>1. CASE store' = store
  BY <1>1
<1>2. ASSUME NEW c \in Call, WriteRows(c) PROVE row \in store.rows \/ row \in New(c)
  BY <1>2 DEF WriteRows, Appended
<1>3. ASSUME NEW c \in Call, WriteRows(c)
      PROVE ok'[c] = ok[c] /\ at'[c] = at[c] /\ pc'[c] \in Written
  BY <1>3 DEF WriteRows, Written
<1>4. ASSUME NEW c \in Call, Replace(c) PROVE row \in store.rows \/ row \in New(c)
  BY <1>4 DEF Replace, Pruned, Empty, Fresh
<1>5. ASSUME NEW c \in Call, Replace(c)
      PROVE ok'[c] = ok[c] /\ at'[c] = at[c] /\ pc'[c] \in Written
  BY <1>5 DEF Replace, Written
<1>6. ASSUME NEW c \in Call, IOError(c), store' # store
      PROVE  /\ row \in store.rows \cup New(c)
             /\ ok'[c] = ok[c] /\ at'[c] = at[c] /\ pc'[c] \in Written
  <2>1. store' \in Torn(store, New(c))
    BY <1>6 DEF IOError
  <2>2. row \in store.rows \cup New(c)
    BY <2>1, NewRows, TornAdds
  <2> QED BY <1>6, <2>2 DEF IOError, Fail, Written
<1>7. ASSUME NEW p \in Proc, Crash(p), store' # store
      PROVE  \E c \in Call : /\ row \in store.rows \cup New(c)
                             /\ ok'[c] = ok[c] /\ at'[c] = at[c] /\ pc'[c] \in Written
  <2>1. PICK c \in Call : ProcOf[c] = p /\ c = holder /\ pc[c] = "append"
    BY <1>7 DEF Crash
  <2>2. store' \in Torn(store, New(c))
    BY <1>7, <2>1 DEF Crash
  <2>3. row \in store.rows \cup New(c)
    BY <2>2, NewRows, TornAdds
  <2> QED BY <1>7, <2>1, <2>3 DEF Crash, Die, Written, InStore
<1>8. ~PowerCut
  BY DEF PowerCut
<1>9. ASSUME NEW c \in Call, Start(c) \/ Decline(c) \/ TakeLock(c) \/ Read(c) \/ Sync(c) \/ Sweep(c) \/ DirSync(c)
      PROVE  store' = store
  BY <1>9 DEF Start, Decline, TakeLock, Read, Sync, Sweep, DirSync, fileVars
<1>10. UNCHANGED vars \/ Tick => store' = store
  BY DEF vars, Tick, fileVars
<1> QED BY <1>1, <1>2, <1>3, <1>4, <1>5, <1>6, <1>7, <1>8, <1>9, <1>10 DEF Next, Step

\* Every row stays one of a call that was let through.
LEMMA RowsStep ==
  ASSUME StoreAssumption, TypeOK, LockInv, RowsInv, [Next]_vars
  PROVE  RowsInv'
<1> SUFFICES ASSUME cuts' = 0, NEW row \in store'.rows
             PROVE  \E d \in Call : /\ ok'[d] /\ pc'[d] \in Written
                                    /\ row.key \in KeysOf[d] /\ row.exp = at'[d] + Lifetime
  BY DEF RowsInv, Written
<1>1. cuts = 0
  BY CutsStay
<1>2. CASE row \in store.rows
  <2>1. PICK d \in Call : ok[d] /\ pc[d] \in Written /\ row.key \in KeysOf[d] /\ row.exp = at[d] + Lifetime
    BY <1>1, <1>2 DEF RowsInv
  <2> QED BY <2>1, SpendsOn
<1>3. ASSUME NEW c \in Call, row \in New(c), ok'[c] = ok[c], at'[c] = at[c], pc'[c] \in Written
      PROVE  ok'[c] /\ row.key \in KeysOf[c] /\ row.exp = at'[c] + Lifetime
  BY <1>3 DEF New
<1> QED BY <1>2, <1>3, RowsCome

\* A call that the lookup refuses finds its cause in the store, and the cause stays.
LEMMA CauseStep ==
  ASSUME StoreAssumption, TypeOK, LockInv, TimeInv, RowsInv, CauseInv, [Next]_vars
  PROVE  CauseInv'
<1> USE DEF TypeOK, StoreAssumption, InStore, Held, Deciding
<1>1. ASSUME NEW c \in Call, pc'[c] \in Deciding \cup {"done"}
      PROVE  \/ pc[c] \in Deciding \cup {"done"} /\ ok'[c] = ok[c] /\ at'[c] = at[c]
             \/ pc[c] = "read" /\ Read(c) /\ pc'[c] # "done"
  <2>1. CASE UNCHANGED vars
    BY <1>1, <2>1 DEF vars
  <2>2. ASSUME NEW e \in Call, Start(e) \/ Decline(e) \/ TakeLock(e)
        PROVE  pc[c] \in Deciding \cup {"done"} /\ ok'[c] = ok[c] /\ at'[c] = at[c]
    BY <1>1, <2>2 DEF Start, Decline, TakeLock
  <2>3. ASSUME NEW e \in Call, Read(e)
        PROVE  \/ pc[c] \in Deciding \cup {"done"} /\ ok'[c] = ok[c] /\ at'[c] = at[c]
               \/ pc[c] = "read" /\ Read(c) /\ pc'[c] # "done"
    BY ZenonT(60), <1>1, <2>3 DEF Read, Fail
  <2>4. ASSUME NEW e \in Call,
               WriteRows(e) \/ Sync(e) \/ Sweep(e) \/ Replace(e) \/ DirSync(e) \/ IOError(e)
        PROVE  pc[c] \in Deciding \cup {"done"} /\ ok'[c] = ok[c] /\ at'[c] = at[c]
    BY <1>1, <2>4 DEF WriteRows, Sync, Sweep, Replace, DirSync, IOError, Fail, Answer
  <2>5. ASSUME NEW p \in Proc, Crash(p)
        PROVE  pc[c] \in Deciding \cup {"done"} /\ ok'[c] = ok[c] /\ at'[c] = at[c]
    BY <1>1, <2>5 DEF Crash, Die
  <2>6. CASE PowerCut
    BY <1>1, <2>6 DEF PowerCut, Die
  <2>7. CASE Tick
    BY <1>1, <2>7 DEF Tick
  <2> QED BY <2>1, <2>2, <2>3, <2>4, <2>5, <2>6, <2>7 DEF Next, Step
<1>2. ASSUME NEW c \in Call, SpentBefore(c), at'[c] = at[c] PROVE SpentBefore(c)'
  <2>1. PICK d \in Call \ {c} : /\ ok[d] /\ pc[d] \in {"done", "failed", "dead"}
                                /\ Clash(c, d) /\ at[d] <= at[c] /\ at[c] < at[d] + Lifetime
    BY <1>2 DEF SpentBefore
  <2>2. ok'[d] = ok[d] /\ at'[d] = at[d] /\ pc'[d] = pc[d]
    BY <2>1, SpendsOn DEF Written
  <2> QED BY <1>2, <2>1, <2>2 DEF SpentBefore, Clash
<1>3. ASSUME NEW c \in Bound, cuts = 0, Read(c), pc'[c] \in Deciding, ~ok'[c] PROVE SpentBefore(c)'
  <2>1. pc[c] = "read" /\ at'[c] = clock /\ ~Accepts(c, store, clock)
    BY <1>3 DEF Read, Fail, Now
  <2>2. PICK row \in store.rows : row.exp > clock /\ row.key \in KeysOf[c]
    BY <2>1 DEF Accepts, Fresh
  <2>3. PICK d \in Call : /\ ok[d] /\ pc[d] \in Written
                          /\ row.key \in KeysOf[d] /\ row.exp = at[d] + Lifetime
    BY <1>3, <2>2 DEF RowsInv
  <2>4. d # c /\ pc[d] \in {"done", "failed", "dead"}
    BY <2>1, <2>3 DEF LockInv, Written
  <2>5. ok'[d] = ok[d] /\ at'[d] = at[d] /\ pc'[d] = pc[d]
    BY <2>4, SpendsOn DEF Written
  <2>6. Clash(c, d)
    BY <2>2, <2>3 DEF Clash
  <2>7. at[d] <= clock
    BY DEF TimeInv
  <2>8. at'[d] <= at'[c] /\ at'[c] < at'[d] + Lifetime
    BY <2>1, <2>2, <2>3, <2>5, <2>7
  <2> QED BY <2>3, <2>4, <2>5, <2>6, <2>8 DEF SpentBefore, Clash
<1>4. cuts' = 0 => cuts = 0
  BY CutsStay
<1>5. ASSUME cuts' = 0, NEW c \in Bound, pc'[c] \in Deciding \cup {"done"}, ~ok'[c]
      PROVE  SpentBefore(c)'
  BY <1>1, <1>2, <1>3, <1>4, <1>5 DEF CauseInv
<1>6. ASSUME NEW c \in Call, pc'[c] = "done", answer'[c] = "no" PROVE ~ok'[c]
  <2>1. CASE pc[c] = "done"
    <3>1. ok'[c] = ok[c]
      BY <2>1, SpendsOn DEF Written
    <3>2. answer'[c] = answer[c]
      BY <2>1 DEF Next, vars, Start, Decline, Step, TakeLock, Read, Fail, WriteRows, Sync, Sweep,
         Replace, DirSync, Answer, IOError, Crash, Die, PowerCut, Tick
    <3> QED BY <1>6, <2>1, <3>1, <3>2 DEF CauseInv
  <2>2. CASE pc[c] # "done"
    <3>1. PICK e \in Call : Sync(e) \/ DirSync(e)
      BY <1>6, <2>2 DEF Next, vars, Start, Decline, Step, TakeLock, Read, Fail, WriteRows, Sweep,
         Replace, IOError, Crash, Die, PowerCut, Tick
    <3> QED BY <1>6, <2>2, <3>1 DEF Sync, DirSync, Answer
  <2> QED BY <2>1, <2>2
<1> QED BY <1>5, <1>6 DEF CauseInv

\* A bound receipt is refused only for a key that was spent and has not expired, whatever was
\* pruned, torn, killed or failed, as long as the host keeps its power.
THEOREM RefusalHasItsCause == ASSUME StoreAssumption PROVE Spec => []RefusedForCause
<1> DEFINE Inv == TypeOK /\ LockInv /\ TimeInv /\ RowsInv /\ CauseInv
<1>1. Init => Inv
  <2> SUFFICES ASSUME Init PROVE Inv
    OBVIOUS
  <2>1. \A c \in Call : pc[c] = "idle" /\ answer[c] = "none" /\ at[c] = 0 /\ clock = 0
    BY DEF Init
  <2>2. store.rows = {}
    BY DEF Init, Empty
  <2> QED BY <2>1, <2>2, TypeInit
          DEF LockInv, TimeInv, RowsInv, CauseInv, Held, Deciding, InStore, StoreAssumption
<1>2. Inv /\ [Next]_vars => Inv'
  BY TypeStep, LockStep, TimeStep, RowsStep, CauseStep
<1>3. Inv => RefusedForCause
  <2> SUFFICES ASSUME Inv, cuts = 0, NEW c \in Bound, pc[c] = "done", answer[c] = "no"
               PROVE  SpentBefore(c)
    BY DEF RefusedForCause
  <2> QED BY DEF CauseInv, StoreAssumption
<1> QED BY <1>1, <1>2, <1>3, PTL DEF Spec
=============================================================================

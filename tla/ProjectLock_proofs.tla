------------------------- MODULE ProjectLock_proofs -------------------------
(***************************************************************************)
(* What the check-then-write protocol of lock.py guarantees for any number *)
(* of drivers, process ids and crashes: type correctness, and exclusion    *)
(* among drivers that met no other acquisition and did not expire.         *)
(***************************************************************************)
EXTENDS ProjectLock, TLAPS

\* A step of one driver, or of its environment.
LEMMA StepCases ==
  ASSUME Next
  PROVE  \/ \E d \in Drivers : \/ Start(d) \/ AcquireExists(d) \/ AcquireReadMissing(d)
                               \/ AcquireReadTorn(d) \/ AcquireReadOwn(d)
                               \/ AcquireReadStale(d) \/ AcquireConflict(d)
                               \/ AcquireTruncate(d) \/ AcquireWrite(d) \/ EndRun(d)
                               \/ ReleaseExists(d) \/ ReleaseRead(d) \/ ReleaseUnlink(d)
                               \/ Crash(d)
         \/ ForeignStart \/ ForeignExit \/ Tick
BY DEF Next, Step, Acquire, Release

\* Every variable keeps its type.
LEMMA TypeStep == ASSUME TypeOK, [Next]_vars PROVE TypeOK'
<1> USE StaleAssumption, CrashAssumption
    DEF TypeOK, Goto, Places, Acquiring, Releasing, Ages, NoFile, Torn, Records, Record
<1>1. CASE UNCHANGED vars
  BY <1>1 DEF vars
<1>2. ASSUME NEW d \in Drivers,
             \/ Start(d) \/ AcquireReadMissing(d) \/ AcquireReadTorn(d)
             \/ AcquireReadStale(d) \/ AcquireConflict(d) \/ EndRun(d)
      PROVE  TypeOK'
  BY <1>2 DEF Start, AcquireReadMissing, AcquireReadTorn, AcquireReadStale,
              AcquireConflict, EndRun, Used
<1>3. ASSUME NEW d \in Drivers, AcquireExists(d) PROVE TypeOK'
  BY <1>3 DEF AcquireExists, EnterAcquire, Meets
<1>4. ASSUME NEW d \in Drivers, AcquireReadOwn(d) PROVE TypeOK'
  <2>1. lockFile \in Records
    BY <1>4 DEF AcquireReadOwn
  <2>2. lockFile.age \in Ages
    BY <2>1
  <2>3. QED
    BY <1>4, <2>2 DEF AcquireReadOwn
<1>5. ASSUME NEW d \in Drivers, AcquireTruncate(d) PROVE TypeOK'
  BY <1>5 DEF AcquireTruncate
<1>6. ASSUME NEW d \in Drivers, AcquireWrite(d) PROVE TypeOK'
  <2>1. Record(pid[d], 0) \in Records
    OBVIOUS
  <2>2. lockFile' \in {NoFile, Torn} \cup Records
    BY <1>6, <2>1 DEF AcquireWrite
  <2>3. QED
    BY <1>6, <2>2 DEF AcquireWrite
<1>7. ASSUME NEW d \in Drivers, ReleaseExists(d) \/ ReleaseRead(d) PROVE TypeOK'
  BY <1>7 DEF ReleaseExists, ReleaseRead, EnterRelease
<1>8. ASSUME NEW d \in Drivers, ReleaseUnlink(d) \/ Crash(d) PROVE TypeOK'
  BY <1>8 DEF ReleaseUnlink, Crash
<1>9. CASE ForeignStart \/ ForeignExit
  BY <1>9 DEF ForeignStart, ForeignExit
<1>10. CASE Tick
  <2>1. \A a \in Ages : Older(a) \in Ages
    BY DEF Older
  <2>2. lockFile' \in {NoFile, Torn} \cup Records
    <3>1. CASE lockFile \in Records
      <4>1. lockFile.pid \in Pids /\ Older(lockFile.age) \in Ages
        BY <2>1, <3>1
      <4>2. Record(lockFile.pid, Older(lockFile.age)) \in Records
        BY <4>1
      <4>3. QED
        BY <1>10, <3>1, <4>2 DEF Tick
    <3>2. CASE lockFile \in {NoFile, Torn}
      BY <1>10, <3>2 DEF Tick
    <3>3. QED
      BY <3>1, <3>2
  <2>3. since' \in [Drivers -> Ages]
    BY <1>10, <2>1 DEF Tick
  <2>4. QED
    BY <1>10, <2>2, <2>3 DEF Tick
<1>11. QED
  BY <1>1, <1>2, <1>3, <1>4, <1>5, <1>6, <1>7, <1>8, <1>9, <1>10, StepCases

LEMMA InitInv == ASSUME Init PROVE IInv
BY StaleAssumption, CrashAssumption
   DEF Init, IInv, TypeOK, PidsDistinct, QuietIsAlone, QuietWriter, QuietOwner, Running,
       Up, Places, Acquiring, Releasing, Ages, NoFile

\* Every variable has its type in every reachable state.
THEOREM TypeCorrect == Spec => []TypeOK
<1>1. Init => TypeOK
  BY InitInv DEF IInv
<1>2. TypeOK /\ [Next]_vars => TypeOK'
  BY TypeStep
<1>3. QED
  BY <1>1, <1>2, PTL DEF Spec

\* Process ids stay distinct: a starting driver gets an unused one.
LEMMA PidStep == ASSUME IInv, [Next]_vars PROVE PidsDistinct'
<1> USE DEF IInv, PidsDistinct, Up, Used, Goto, TypeOK
<1>1. CASE UNCHANGED vars
  BY <1>1 DEF vars
<1>2. ASSUME NEW d \in Drivers, Start(d) PROVE PidsDistinct'
  BY <1>2 DEF Start
<1>3. ASSUME NEW d \in Drivers,
             \/ AcquireExists(d) \/ AcquireReadMissing(d) \/ AcquireReadTorn(d)
             \/ AcquireReadOwn(d) \/ AcquireReadStale(d) \/ AcquireConflict(d)
             \/ AcquireTruncate(d) \/ AcquireWrite(d) \/ EndRun(d)
             \/ ReleaseExists(d) \/ ReleaseRead(d) \/ ReleaseUnlink(d) \/ Crash(d)
      PROVE  PidsDistinct'
  <2>1. /\ UNCHANGED <<pid, foreign>>
        /\ Up(d)
        /\ \A e \in Drivers \ {d} : pc'[e] = pc[e]
    BY <1>3 DEF AcquireExists, AcquireReadMissing, AcquireReadTorn, AcquireReadOwn,
                AcquireReadStale, AcquireConflict, AcquireTruncate, AcquireWrite, EndRun,
                ReleaseExists, ReleaseRead, ReleaseUnlink, Crash
  <2>2. QED
    BY <2>1
<1>4. CASE ForeignStart \/ ForeignExit \/ Tick
  BY <1>4 DEF ForeignStart, ForeignExit, Tick
<1>5. QED
  BY <1>1, <1>2, <1>3, <1>4, StepCases

\* A quiet acquisition is alone: who joins it makes it contested.
LEMMA AloneStep == ASSUME IInv, [Next]_vars PROVE QuietIsAlone'
<1> USE DEF IInv, QuietIsAlone, Quiet, Meets, Acquiring, Releasing, Goto, TypeOK
<1>1. CASE UNCHANGED vars
  BY <1>1 DEF vars
<1>2. ASSUME NEW d \in Drivers, AcquireExists(d) PROVE QuietIsAlone'
  BY <1>2 DEF AcquireExists, EnterAcquire
<1>3. ASSUME NEW d \in Drivers, ReleaseExists(d) PROVE QuietIsAlone'
  BY <1>3 DEF ReleaseExists, EnterRelease
<1>4. ASSUME NEW d \in Drivers,
             \/ Start(d) \/ AcquireReadMissing(d) \/ AcquireReadTorn(d)
             \/ AcquireReadOwn(d) \/ AcquireReadStale(d) \/ AcquireConflict(d)
             \/ AcquireTruncate(d) \/ AcquireWrite(d) \/ EndRun(d)
             \/ ReleaseRead(d) \/ ReleaseUnlink(d) \/ Crash(d)
      PROVE  QuietIsAlone'
  <2>1. /\ contested' = contested
        /\ \A e \in Drivers \ {d} : pc'[e] = pc[e]
        /\ pc'[d] \in Acquiring => pc[d] \in Acquiring
        /\ pc'[d] \in Releasing => pc[d] \in Releasing
    BY <1>4 DEF Start, AcquireReadMissing, AcquireReadTorn, AcquireReadOwn,
                AcquireReadStale, AcquireConflict, AcquireTruncate, AcquireWrite, EndRun,
                ReleaseRead, ReleaseUnlink, Crash
  <2>2. QED
    BY <2>1
<1>5. CASE ForeignStart \/ ForeignExit \/ Tick
  BY <1>5 DEF ForeignStart, ForeignExit, Tick
<1>6. QED
  BY <1>1, <1>2, <1>3, <1>4, <1>5, StepCases

\* A quiet driver finds the file as it truncated it.
LEMMA WriterStep == ASSUME IInv, [Next]_vars PROVE QuietWriter'
<1> USE DEF IInv, QuietIsAlone, QuietWriter, Quiet, Meets, Acquiring, Releasing, Goto, TypeOK
<1>1. CASE UNCHANGED vars
  BY <1>1 DEF vars
<1>2. ASSUME NEW d \in Drivers, AcquireExists(d) PROVE QuietWriter'
  BY <1>2 DEF AcquireExists, EnterAcquire
<1>3. ASSUME NEW d \in Drivers, AcquireTruncate(d) PROVE QuietWriter'
  BY <1>3 DEF AcquireTruncate
<1>4. ASSUME NEW d \in Drivers, AcquireWrite(d) \/ ReleaseUnlink(d) PROVE QuietWriter'
  BY <1>4 DEF AcquireWrite, ReleaseUnlink
<1>5. ASSUME NEW d \in Drivers,
             \/ Start(d) \/ AcquireReadMissing(d) \/ AcquireReadTorn(d)
             \/ AcquireReadOwn(d) \/ AcquireReadStale(d) \/ AcquireConflict(d)
             \/ EndRun(d) \/ ReleaseRead(d)
      PROVE  QuietWriter'
  BY <1>5 DEF Start, AcquireReadMissing, AcquireReadTorn, AcquireReadOwn,
              AcquireReadStale, AcquireConflict, EndRun, ReleaseRead
<1>6. ASSUME NEW d \in Drivers, ReleaseExists(d) \/ Crash(d) PROVE QuietWriter'
  BY <1>6 DEF ReleaseExists, EnterRelease, Crash
<1>7. CASE ForeignStart \/ ForeignExit
  BY <1>7 DEF ForeignStart, ForeignExit
<1>8. CASE Tick
  BY <1>8 DEF Tick, Torn
<1>9. QED
  BY <1>1, <1>2, <1>3, <1>4, <1>5, <1>6, <1>7, <1>8, StepCases

\* The record of a quiet driver that has not expired is neither adopted, nor
\* found stale, nor removed, by any other driver.
LEMMA OwnerStep == ASSUME IInv, [Next]_vars PROVE QuietOwner'
<1> SUFFICES ASSUME NEW o \in Drivers,
                    (Running(o) /\ Quiet(o) /\ Fresh(o))'
             PROVE  (/\ lockFile = Record(pid[o], since[o])
                     /\ \A e \in Drivers \ {o} : pc[e] \notin {"truncate", "write", "unlink"})'
  BY DEF QuietOwner
<1> USE DEF IInv, Running, Quiet, Fresh, Goto, TypeOK
<1> DEFINE Owns == /\ lockFile = Record(pid[o], since[o])
                   /\ \A e \in Drivers \ {o} : pc[e] \notin {"truncate", "write", "unlink"}
<1>1. CASE UNCHANGED vars
  BY <1>1 DEF vars, QuietOwner
<1>2. ASSUME NEW d \in Drivers, d # o,
             \/ Start(d) \/ AcquireExists(d) \/ AcquireReadMissing(d) \/ AcquireReadTorn(d)
             \/ AcquireReadOwn(d) \/ AcquireReadStale(d) \/ AcquireConflict(d)
             \/ AcquireTruncate(d) \/ AcquireWrite(d) \/ EndRun(d)
             \/ ReleaseExists(d) \/ ReleaseRead(d) \/ ReleaseUnlink(d) \/ Crash(d)
      PROVE  Owns'
  <2>1. /\ Running(o) /\ Quiet(o) /\ Fresh(o)
        /\ pid'[o] = pid[o] /\ since'[o] = since[o]
        /\ \A e \in Drivers \ {d} : pc'[e] = pc[e]
    BY <1>2 DEF Start, AcquireExists, AcquireReadMissing, AcquireReadTorn, AcquireReadOwn,
                AcquireReadStale, AcquireConflict, AcquireTruncate, AcquireWrite, EndRun,
                ReleaseExists, ReleaseRead, ReleaseUnlink, Crash, EnterAcquire, EnterRelease
  <2>2. Owns /\ pc[d] \notin {"truncate", "write", "unlink"}
    BY <1>2, <2>1 DEF QuietOwner
  <2>3. /\ lockFile.kind = "lock" /\ lockFile # NoFile /\ lockFile # Torn
        /\ lockFile.pid = pid[o] /\ lockFile.age < Stale
    BY <2>1, <2>2 DEF Record, NoFile, Torn
  <2>4. Up(d) => pid[d] # pid[o]
    BY <1>2, <2>1 DEF PidsDistinct, Up
  <2>5. ~IsStale(lockFile)
    BY <2>1, <2>3, StaleAssumption DEF IsStale, IsProcessRunning, Used, Up, Ages, Records, Record
  <2>6. lockFile' = lockFile /\ pc'[d] \notin {"truncate", "write", "unlink"}
    BY <1>2, <2>2, <2>3, <2>4, <2>5
       DEF Start, AcquireExists, AcquireReadMissing, AcquireReadTorn, AcquireReadOwn,
           AcquireReadStale, AcquireConflict, AcquireTruncate, AcquireWrite, EndRun,
           ReleaseExists, ReleaseRead, ReleaseUnlink, Crash, Up
  <2>7. QED
    BY <2>1, <2>2, <2>6
<1>3. CASE AcquireReadOwn(o)
  <2>1. pc[o] \in Acquiring /\ Quiet(o)
    BY <1>3 DEF AcquireReadOwn, Acquiring
  <2>2. \A e \in Drivers \ {o} : pc[e] \notin Acquiring \cup Releasing
    BY <2>1 DEF QuietIsAlone, Meets
  <2>3. lockFile \in Records /\ lockFile.pid = pid[o] /\ since'[o] = lockFile.age
    BY <1>3 DEF AcquireReadOwn, NoFile, Torn
  <2>4. lockFile = Record(pid[o], since'[o])
    BY <2>3 DEF Records, Record
  <2>5. QED
    BY <1>3, <2>2, <2>4 DEF AcquireReadOwn, Acquiring, Releasing
<1>4. CASE AcquireWrite(o)
  <2>1. pc[o] = "write" /\ Quiet(o)
    BY <1>4 DEF AcquireWrite
  <2>2. \A e \in Drivers \ {o} : pc[e] \notin Acquiring \cup Releasing
    BY <2>1 DEF QuietIsAlone, Meets, Acquiring
  <2>3. o \in open /\ lockFile = Torn
    BY <2>1 DEF QuietWriter
  <2>4. lockFile' = Record(pid[o], 0)
    BY <1>4, <2>3 DEF AcquireWrite, Torn
  <2>5. QED
    BY <1>4, <2>2, <2>4 DEF AcquireWrite, Acquiring, Releasing
<1>5. ASSUME \/ Start(o) \/ AcquireExists(o) \/ AcquireReadMissing(o) \/ AcquireReadTorn(o)
             \/ AcquireReadStale(o) \/ AcquireConflict(o)
             \/ AcquireTruncate(o) \/ EndRun(o)
             \/ ReleaseExists(o) \/ ReleaseRead(o) \/ ReleaseUnlink(o) \/ Crash(o)
      PROVE  FALSE
  <2>1. pc'[o] # "running"
    BY <1>5 DEF Start, AcquireExists, AcquireReadMissing, AcquireReadTorn,
                AcquireReadStale, AcquireConflict, AcquireTruncate, EndRun,
                ReleaseExists, ReleaseRead, ReleaseUnlink, Crash
  <2>2. QED
    BY <2>1
<1>6. CASE ForeignStart \/ ForeignExit
  BY <1>6 DEF ForeignStart, ForeignExit, QuietOwner
<1>7. CASE Tick
  <2>1. Running(o) /\ Quiet(o) /\ since'[o] = Older(since[o])
    BY <1>7 DEF Tick
  <2>2. Fresh(o)
    BY <2>1, StaleAssumption DEF Older, Ages
  <2>3. Owns
    BY <2>1, <2>2 DEF QuietOwner
  <2>4. lockFile.kind = "lock" /\ lockFile.pid = pid[o] /\ lockFile.age = since[o]
    BY <2>3 DEF Record
  <2>5. lockFile' = Record(pid[o], since'[o])
    BY <1>7, <2>1, <2>4 DEF Tick
  <2>6. QED
    BY <1>7, <2>3, <2>5 DEF Tick
<1>8. QED
  BY <1>1, <1>2, <1>3, <1>4, <1>5, <1>6, <1>7, StepCases

\* IInv is inductive, and implies the properties.
LEMMA Invariance == Spec => []IInv
<1>1. Init => IInv
  BY InitInv
<1>2. IInv /\ [Next]_vars => IInv'
  BY TypeStep, PidStep, AloneStep, WriterStep, OwnerStep DEF IInv
<1>3. QED
  BY <1>1, <1>2, PTL DEF Spec

\* Drivers that met no other acquisition or release and have not outlived the
\* stale threshold exclude each other, however many drivers there are, whenever
\* they crash and whichever process ids are reused.
THEOREM QuietDriversExclude == Spec => []QuietExclusion
<1>1. IInv => QuietExclusion
  <2> SUFFICES ASSUME IInv, NEW d \in Drivers, NEW e \in Drivers, d # e,
                      Running(d), Running(e), Quiet(d), Quiet(e), Fresh(d), Fresh(e)
               PROVE  FALSE
    BY DEF QuietExclusion
  <2>1. Record(pid[d], since[d]) = Record(pid[e], since[e])
    BY DEF IInv, QuietOwner
  <2>2. pid[d] = pid[e]
    BY <2>1 DEF Record
  <2>3. QED
    BY <2>2 DEF IInv, PidsDistinct, Up, Running
<1>2. QED
  BY <1>1, Invariance, PTL

\* is_locked() tells the truth about such a driver.
THEOREM StatusIsTruthful == Spec => []StatusSeesDriver
<1>1. IInv => StatusSeesDriver
  <2> SUFFICES ASSUME IInv, NEW d \in Drivers, Running(d), Quiet(d), Fresh(d)
               PROVE  IsLocked /\ lockFile = Record(pid[d], since[d])
    BY DEF StatusSeesDriver
  <2>1. lockFile = Record(pid[d], since[d])
    BY DEF IInv, QuietOwner
  <2>2. IsProcessRunning(pid[d])
    BY DEF IsProcessRunning, Used, Up, Running
  <2>3. QED
    BY <2>1, <2>2 DEF IsLocked, Record, Fresh
<1>2. QED
  BY <1>1, Invariance, PTL
=============================================================================

-------------------------- MODULE PESEStore_proofs --------------------------
(***************************************************************************)
(* What the PESE store guarantees for any number of processes, revisions   *)
(* and crashes: type correctness and, where at most one process recovers,  *)
(* the exclusion of writers, a live file that recovery can repair, an      *)
(* audit of published revisions only, and the refinement of RevisionLog.   *)
(***************************************************************************)
EXTENDS PESEStore, TLAPS

\* A step of one process, or the end of a lease.
LEMMA StepCases ==
  ASSUME Next
  PROVE  \/ \E p \in Procs :
              \/ CallLoad(p) \/ CallUpdate(p) \/ CallRecover(p)
              \/ CreateLock(p) \/ WriteLock(p) \/ ReadOwn(p) \/ Unlink(p)
              \/ Lease(p) \/ ReadHistory(p) \/ ReadLive(p) \/ Reread(p)
              \/ AuditLock(p) \/ AuditTimeout(p) \/ AuditCreate(p) \/ AuditWrite(p)
              \/ AuditUnlock(p) \/ Decide(p) \/ Check(p) \/ PutHistory(p) \/ PutLive(p)
              \/ Checkpoint(p) \/ Validate(p) \/ ReadLock(p) \/ MoveLock(p)
              \/ Highest(p) \/ Promote(p) \/ Record(p) \/ Crash(p)
         \/ Expire
BY DEF Next, Call, Step

\* The highest revision and the successor of what was loaded are revisions.
LEMMA RevisionTypes ==
  ASSUME TypeOK
  PROVE  /\ Latest \in Revisions
         /\ \A p \in Procs : New(p) \in Revisions /\ New(p).rev \in Nat \ {0}
<1>1. Latest \in Revisions
  BY DEF TypeOK, Latest, L!Latest
<1>2. ASSUME NEW p \in Procs PROVE New(p) \in Revisions /\ New(p).rev \in Nat \ {0}
  <2>1. old[p] \in Revisions
    BY DEF TypeOK
  <2>2. QED
    BY <2>1 DEF New, L!Successor, Revisions
<1>3. QED
  BY <1>1, <1>2

\* The writer locks an operation or the environment makes.
LEMMA LockTypes ==
  /\ NoLock \in WriterLocks
  /\ \A p \in Procs \cup {Dead} : Lock(p, "torn") \in WriterLocks /\ Lock(p, "fresh") \in WriterLocks
  /\ \A k \in WriterLocks : Lock(Dead, k.state) \in WriterLocks
                            /\ [k EXCEPT !.state = "expired"] \in WriterLocks
BY DEF NoLock, Lock, WriterLocks, Owners

\* So are the audit streams.
LEMMA OwnerTypes ==
  ASSUME NEW a \in AuditStreams, NEW s \in Streams, NEW o \in Owners
  PROVE  [a EXCEPT ![s].owner = o] \in AuditStreams
<1>1. [a[s] EXCEPT !.owner = o] \in [owner : Owners, torn : BOOLEAN]
  BY Zenon DEF AuditStreams
<1>2. QED
  BY <1>1, Zenon DEF AuditStreams

LEMMA TornTypes ==
  ASSUME NEW a \in AuditStreams, NEW s \in Streams
  PROVE  /\ [a EXCEPT ![s].torn = TRUE] \in AuditStreams
         /\ [a EXCEPT ![s].torn = FALSE] \in AuditStreams
<1>1. ASSUME NEW b \in BOOLEAN PROVE [a EXCEPT ![s].torn = b] \in AuditStreams
  <2>1. [a[s] EXCEPT !.torn = b] \in [owner : Owners, torn : BOOLEAN]
    BY Zenon DEF AuditStreams
  <2>2. QED
    BY <2>1, Zenon DEF AuditStreams
<1>2. QED
  BY <1>1

LEMMA CrashedAuditTypes ==
  ASSUME NEW a \in AuditStreams, NEW p \in Procs
  PROVE  [s \in Streams |-> IF a[s].owner = p THEN [a[s] EXCEPT !.owner = Dead] ELSE a[s]]
           \in AuditStreams
<1>1. ASSUME NEW s \in Streams
      PROVE  [a[s] EXCEPT !.owner = Dead] \in [owner : Owners, torn : BOOLEAN]
  <2>1. Dead \in Owners
    BY DEF Owners
  <2>2. QED
    BY <2>1, Zenon DEF AuditStreams
<1>2. \A s \in Streams : a[s] \in [owner : Owners, torn : BOOLEAN]
  BY Zenon DEF AuditStreams
<1>3. QED
  BY <1>1, <1>2, Zenon DEF AuditStreams

\* Every step of a process takes it to a place.
LEMMA PlaceStep ==
  ASSUME TypeOK, NEW p \in Procs, NEW q, Goto(p, q), q \in Places
  PROVE  pc' \in [Procs -> Places]
BY DEF TypeOK, Goto

\* Every variable keeps its type.
LEMMA TypeStep == ASSUME TypeOK, [Next]_vars PROVE TypeOK'
<1>1. CASE UNCHANGED vars
  BY <1>1 DEF TypeOK, vars, files
<1>2. ASSUME NEW p \in Procs, CallLoad(p) \/ CallRecover(p)
      PROVE  TypeOK'
  <2>1. pc' \in [Procs -> Places]
    BY <1>2, PlaceStep DEF CallLoad, CallRecover, Places, Loading, Recovering
  <2>2. QED
    BY <1>2, <2>1 DEF TypeOK, CallLoad, CallRecover, files
<1>3. ASSUME NEW p \in Procs, CallUpdate(p) PROVE TypeOK'
  <2>1. pc' \in [Procs -> Places]
    BY <1>3, PlaceStep DEF CallUpdate, Places
  <2>2. PICK r \in 1..Len(history) : want' = [want EXCEPT ![p] = r]
    BY <1>3 DEF CallUpdate
  <2>3. r \in Nat
    BY <2>2 DEF TypeOK
  <2>4. QED
    BY <1>3, <2>1, <2>2, <2>3 DEF TypeOK, CallUpdate, files
<1>4. ASSUME NEW p \in Procs,
             \/ AuditTimeout(p) \/ ReadOwn(p) \/ Decide(p) \/ Check(p)
             \/ Validate(p) \/ ReadLock(p) \/ Record(p)
      PROVE  TypeOK'
  <2>1. pc' \in [Procs -> Places]
    BY <1>4, PlaceStep
       DEF AuditTimeout, ReadOwn, Decide, Check, Validate, ReadLock, Record, Leave,
           Places, Publishing, Recovering
  <2>2. QED
    BY <1>4, <2>1
       DEF TypeOK, AuditTimeout, ReadOwn, Decide, Check, Validate, ReadLock, Record, files
<1>5. ASSUME NEW p \in Procs,
             CreateLock(p) \/ WriteLock(p) \/ Unlink(p) \/ MoveLock(p)
      PROVE  TypeOK'
  <2>1. pc' \in [Procs -> Places]
    BY <1>5, PlaceStep
       DEF CreateLock, WriteLock, Unlink, MoveLock, Places, Loading, Recovering
  <2>2. lock' \in WriterLocks
    BY <1>5, LockTypes DEF TypeOK, CreateLock, WriteLock, Unlink, MoveLock
  <2>3. QED
    BY <1>5, <2>1, <2>2 DEF TypeOK, CreateLock, WriteLock, Unlink, MoveLock
<1>6. ASSUME NEW p \in Procs, Lease(p) \/ ReadLive(p) PROVE TypeOK'
  <2>1. pc' \in [Procs -> Places]
    BY <1>6, PlaceStep DEF Lease, ReadLive, Finding, Leave, Places, Loading
  <2>2. corrupt' \subseteq Procs
    BY <1>6 DEF TypeOK, Lease, ReadLive, Finding
  <2>3. QED
    BY <1>6, <2>1, <2>2 DEF TypeOK, Lease, ReadLive, files
<1>7. ASSUME NEW p \in Procs, ReadHistory(p) \/ Reread(p) \/ Highest(p) PROVE TypeOK'
  <2>1. pc' \in [Procs -> Places]
    BY <1>7, PlaceStep
       DEF ReadHistory, Reread, Highest, Finding, Leave, Places, Loading, Auditing, Recovering
  <2>2. corrupt' \subseteq Procs
    BY <1>7 DEF TypeOK, ReadHistory, Reread, Highest, Finding
  <2>3. old' \in [Procs -> Revisions]
    BY <1>7, RevisionTypes DEF TypeOK, ReadHistory, Reread, Highest
  <2>4. job' \in [Procs -> Jobs]
    BY <1>7 DEF TypeOK, ReadHistory, Reread, Highest, Jobs
  <2>5. QED
    BY <1>7, <2>1, <2>2, <2>3, <2>4 DEF TypeOK, ReadHistory, Reread, Highest, files
<1>8. ASSUME NEW p \in Procs, AuditLock(p) \/ AuditCreate(p) PROVE TypeOK'
  <2>1. pc' \in [Procs -> Places]
    BY <1>8, PlaceStep DEF AuditLock, AuditCreate, Places, Auditing
  <2>2. Stream(p) \in Streams /\ p \in Owners
    BY DEF Stream, Streams, Owners
  <2>3. audit \in AuditStreams
    BY DEF TypeOK
  <2>4. audit' \in AuditStreams
    <3>1. /\ [audit EXCEPT ![Stream(p)].owner = p] \in AuditStreams
          /\ [audit EXCEPT ![Stream(p)].torn = TRUE] \in AuditStreams
      BY <2>2, <2>3, OwnerTypes, TornTypes, Zenon
    <3>2. QED
      BY <1>8, <3>1 DEF AuditLock, AuditCreate
  <2>5. QED
    BY <1>8, <2>1, <2>4 DEF TypeOK, AuditLock, AuditCreate
<1>9. ASSUME NEW p \in Procs, AuditWrite(p) PROVE TypeOK'
  <2>1. pc' \in [Procs -> Places]
    BY <1>9, PlaceStep DEF AuditWrite, Places, Auditing
  <2>2. Stream(p) \in Streams
    BY DEF Stream, Streams
  <2>3. audit' \in AuditStreams
    <3>1. audit \in AuditStreams
      BY DEF TypeOK
    <3>2. [audit EXCEPT ![Stream(p)].torn = FALSE] \in AuditStreams
      BY <2>2, <3>1, TornTypes, Zenon
    <3>3. QED
      BY <1>9, <3>2 DEF AuditWrite
  <2>4. audited' \subseteq Revisions
    BY <1>9, RevisionTypes DEF TypeOK, AuditWrite
  <2>5. QED
    BY <1>9, <2>1, <2>3, <2>4 DEF TypeOK, AuditWrite
<1>10. ASSUME NEW p \in Procs, AuditUnlock(p) PROVE TypeOK'
  <2>1. pc' \in [Procs -> Places]
    <3>1. job[p] \in {"load", "transition", "save", "checkpoint"}
      BY DEF TypeOK, Jobs
    <3>2. QED
      BY <1>10, <3>1, PlaceStep DEF AuditUnlock, Places, Auditing, Publishing
  <2>2. Stream(p) \in Streams /\ NoOne \in Owners
    BY DEF Stream, Streams, Owners
  <2>3. audit' \in AuditStreams
    <3>1. audit \in AuditStreams
      BY DEF TypeOK
    <3>2. [audit EXCEPT ![Stream(p)].owner = NoOne] \in AuditStreams
      BY <2>2, <3>1, OwnerTypes
    <3>3. QED
      BY <1>10, <3>2 DEF AuditUnlock
  <2>4. acked' \subseteq Revisions
    BY <1>10, RevisionTypes DEF TypeOK, AuditUnlock
  <2>5. job' \in [Procs -> Jobs]
    BY <1>10 DEF TypeOK, AuditUnlock, Jobs
  <2>6. QED
    BY <1>10, <2>1, <2>3, <2>4, <2>5 DEF TypeOK, AuditUnlock
<1>11. ASSUME NEW p \in Procs, PutHistory(p) PROVE TypeOK'
  <2>1. pc' \in [Procs -> Places]
    BY <1>11, PlaceStep DEF PutHistory, Places, Publishing
  <2>2. history' \in Seq(Revisions) /\ Len(history') > 0
    <3>1. /\ history \in Seq(Revisions) /\ Len(history) > 0
          /\ New(p) \in Revisions /\ New(p).rev \in Nat \ {0}
      BY RevisionTypes DEF TypeOK
    <3>2. QED
      BY <1>11, <3>1 DEF PutHistory
  <2>3. QED
    BY <1>11, <2>1, <2>2 DEF TypeOK, PutHistory
<1>12. ASSUME NEW p \in Procs, PutLive(p) \/ Checkpoint(p) \/ Promote(p) PROVE TypeOK'
  <2>1. pc' \in [Procs -> Places]
    BY <1>12, PlaceStep
       DEF PutLive, Checkpoint, Promote, Places, Auditing, Recovering
  <2>2. live' \in Revisions /\ acked' \subseteq Revisions
    BY <1>12, RevisionTypes DEF TypeOK, PutLive, Checkpoint, Promote, files
  <2>3. job' \in [Procs -> Jobs]
    BY <1>12 DEF TypeOK, PutLive, Checkpoint, Promote, Jobs
  <2>4. QED
    BY <1>12, <2>1, <2>2, <2>3 DEF TypeOK, PutLive, Checkpoint, Promote, files
<1>13. ASSUME NEW p \in Procs, Crash(p) PROVE TypeOK'
  <2>1. pc' \in [Procs -> Places]
    BY <1>13, PlaceStep DEF Crash, Places
  <2>2. lock' \in WriterLocks
    BY <1>13, LockTypes DEF TypeOK, Crash
  <2>3. audit' \in AuditStreams
    BY <1>13, CrashedAuditTypes DEF TypeOK, Crash
  <2>4. crashes' \in 0..MaxCrashes
    BY <1>13, BoundsAssumption DEF TypeOK, Crash
  <2>5. QED
    BY <1>13, <2>1, <2>2, <2>3, <2>4 DEF TypeOK, Crash
<1>14. CASE Expire
  BY <1>14, LockTypes DEF TypeOK, Expire
<1>15. QED
  BY <1>1, <1>2, <1>3, <1>4, <1>5, <1>6, <1>7, <1>8, <1>9, <1>10, <1>11, <1>12, <1>13,
     <1>14, StepCases

LEMMA TypeInit == ASSUME Init PROVE TypeOK
<1>1. L!Initial \in Revisions /\ NoLive \in Revisions
  BY DEF L!Initial, NoLive, Revisions
<1>2. [s \in Streams |-> [owner |-> NoOne, torn |-> FALSE]] \in AuditStreams
  BY Zenon DEF AuditStreams, Owners
<1>3. QED
  BY <1>1, <1>2, LockTypes, BoundsAssumption DEF Init, TypeOK, Places, Jobs

\* Every variable has its type in every reachable state.
THEOREM TypeCorrect == Spec => []TypeOK
<1>1. Init => TypeOK
  BY TypeInit
<1>2. TypeOK /\ [Next]_vars => TypeOK'
  BY TypeStep
<1>3. QED
  BY <1>1, <1>2, PTL DEF Spec

-----------------------------------------------------------------------------
\* What a step of p leaves alone in the others.
Apart(p) == \A q \in Procs \ {p} : /\ pc'[q] = pc[q] /\ op'[q] = op[q]
                                   /\ job'[q] = job[q] /\ old'[q] = old[q]

\* A step disturbs the local state of its own process only.
LEMMA StepsApart ==
  ASSUME TypeOK, NEW p \in Procs, Call(p) \/ Step(p) \/ Crash(p)
  PROVE  Apart(p)
<1> USE DEF TypeOK, Apart, Goto, Leave
<1>1. CASE CallLoad(p) \/ CallUpdate(p) \/ CallRecover(p)
  BY <1>1 DEF CallLoad, CallUpdate, CallRecover
<1>2. CASE CreateLock(p) \/ WriteLock(p) \/ ReadOwn(p) \/ Unlink(p)
  BY <1>2 DEF CreateLock, WriteLock, ReadOwn, Unlink
<1>3. CASE Lease(p) \/ ReadHistory(p) \/ ReadLive(p) \/ Reread(p)
  BY <1>3 DEF Lease, ReadHistory, ReadLive, Reread, Finding
<1>4. CASE AuditLock(p) \/ AuditTimeout(p) \/ AuditCreate(p) \/ AuditWrite(p) \/ AuditUnlock(p)
  BY <1>4 DEF AuditLock, AuditTimeout, AuditCreate, AuditWrite, AuditUnlock
<1>5. CASE Decide(p) \/ Check(p) \/ PutHistory(p) \/ PutLive(p) \/ Checkpoint(p)
  BY <1>5 DEF Decide, Check, PutHistory, PutLive, Checkpoint
<1>6. CASE \/ Validate(p) \/ ReadLock(p) \/ MoveLock(p) \/ Highest(p) \/ Promote(p)
           \/ Record(p) \/ Crash(p)
  BY <1>6 DEF Validate, ReadLock, MoveLock, Highest, Promote, Record, Crash
<1>7. QED
  BY <1>1, <1>2, <1>3, <1>4, <1>5, <1>6 DEF Call, Step

\* Every operation stays where its kind allows it to be.
LEMMA PhaseStep ==
  ASSUME TypeOK, \A q \in Procs : Phase(q), [Next]_vars
  PROVE  \A q \in Procs : Phase(q)'
<1>1. CASE UNCHANGED vars
  BY <1>1 DEF vars, files, Phase
<1>2. CASE Expire
  BY <1>2 DEF Expire, Phase
<1>3. ASSUME NEW p \in Procs, Call(p) \/ Step(p) \/ Crash(p) PROVE \A q \in Procs : Phase(q)'
  <2>1. \A q \in Procs \ {p} : Phase(q)'
    BY <1>3, StepsApart DEF Apart, Phase
  <2>2. Phase(p)'
    <3> USE DEF TypeOK, Goto, Leave, Phase, Loading, Auditing, Publishing, Recovering
    <3>1. CASE CallLoad(p) \/ CallUpdate(p) \/ CallRecover(p)
      BY <3>1 DEF CallLoad, CallUpdate, CallRecover
    <3>2. CASE CreateLock(p) \/ WriteLock(p) \/ ReadOwn(p) \/ Unlink(p)
      BY <3>2 DEF CreateLock, WriteLock, ReadOwn, Unlink
    <3>3. CASE Lease(p) \/ ReadHistory(p) \/ ReadLive(p) \/ Reread(p)
      BY <3>3 DEF Lease, ReadHistory, ReadLive, Reread, Finding
    <3>4. CASE AuditLock(p) \/ AuditTimeout(p) \/ AuditCreate(p) \/ AuditWrite(p)
      BY <3>4 DEF AuditLock, AuditTimeout, AuditCreate, AuditWrite
    <3>5. CASE AuditUnlock(p)
      <4>1. job[p] \in {"load", "transition", "save", "checkpoint"}
        BY DEF Jobs
      <4>2. QED
        BY <3>5, <4>1 DEF AuditUnlock
    <3>6. CASE Decide(p) \/ Check(p) \/ PutHistory(p) \/ PutLive(p) \/ Checkpoint(p)
      BY <3>6 DEF Decide, Check, PutHistory, PutLive, Checkpoint
    <3>7. CASE Validate(p) \/ ReadLock(p) \/ MoveLock(p) \/ Highest(p) \/ Promote(p) \/ Record(p)
      BY <3>7 DEF Validate, ReadLock, MoveLock, Highest, Promote, Record
    <3>8. CASE Crash(p)
      BY <3>8 DEF Crash
    <3>9. QED
      BY <1>3, <3>1, <3>2, <3>3, <3>4, <3>5, <3>6, <3>7, <3>8 DEF Call, Step
  <2>3. QED
    BY <2>1, <2>2
<1>4. QED
  BY <1>1, <1>2, <1>3 DEF Next

\* Only a lock that is not there has no owner.
LEMMA OwnerStep ==
  ASSUME TypeOK, lock.owner = NoOne => lock = NoLock, [Next]_vars
  PROVE  (lock.owner = NoOne => lock = NoLock)'
<1>1. CASE \E p \in Procs : CreateLock(p) \/ WriteLock(p) \/ Unlink(p) \/ MoveLock(p) \/ Crash(p)
  BY <1>1, RolesAssumption DEF CreateLock, WriteLock, Unlink, MoveLock, Crash, Lock, NoLock
<1>2. CASE Expire
  BY <1>2 DEF Expire, NoLock, TypeOK, WriterLocks
<1>3. CASE UNCHANGED lock
  BY <1>3
<1>4. QED
  BY <1>1, <1>2, <1>3, StepCases
     DEF vars, files, CallLoad, CallUpdate, CallRecover, ReadOwn, Lease, ReadHistory, ReadLive,
         Reread, AuditLock, AuditTimeout, AuditCreate, AuditWrite, AuditUnlock, Decide, Check,
         PutHistory, PutLive, Checkpoint, Validate, ReadLock, Highest, Promote, Record

\* The writer lock stays with its owner, and with a dead one until it is moved.
LEMMA ExclusionStep ==
  ASSUME TypeOK, \A q \in Procs : Phase(q) /\ TakesFromDead(q), SoleRecoverer, WriterExclusion,
         lock.owner = NoOne => lock = NoLock, [Next]_vars
  PROVE  \A q \in Procs : TakesFromDead(q)' /\ (Holding(q) => lock.owner = q)'
<1>1. CASE UNCHANGED vars
  BY <1>1 DEF vars, files, WriterExclusion, Holding, TakesFromDead
<1>2. CASE Expire
  BY <1>2 DEF Expire, WriterExclusion, Holding, TakesFromDead, TypeOK, WriterLocks
<1>3. ASSUME NEW p \in Procs, Call(p) \/ Step(p) \/ Crash(p), NEW q \in Procs
      PROVE  TakesFromDead(q)' /\ (Holding(q) => lock.owner = q)'
  <2>1. q # p => (Holding(q)' <=> Holding(q)) /\ pc'[q] = pc[q]
    BY <1>3, StepsApart DEF Apart, Holding
  <2>2. Holding(q) => lock.owner = q
    BY DEF WriterExclusion
  <2>3. pc[q] = "moveLock" => lock.owner = Dead /\ q \in Recoverers
    BY DEF TakesFromDead, Phase, Recovering
  <2>4. CASE CreateLock(p)
    <3>1. CASE lock = NoLock
      <4>1. lock.owner \notin Procs /\ lock.owner # Dead
        BY <3>1, RolesAssumption DEF NoLock
      <4>2. pc'[p] = "writeLock" /\ lock'.owner = p
        BY <2>4, <3>1 DEF CreateLock, Goto, TypeOK, Lock
      <4>3. QED
        BY <2>1, <2>2, <2>3, <4>1, <4>2 DEF TakesFromDead
    <3>2. CASE lock # NoLock
      <4>1. pc'[p] = "idle" /\ lock' = lock
        BY <2>4, <3>2 DEF CreateLock, Goto, TypeOK
      <4>2. QED
        BY <2>1, <2>2, <2>3, <4>1 DEF TakesFromDead, Holding
    <3>3. QED
      BY <3>1, <3>2
  <2>5. CASE WriteLock(p)
    <3>1. Holding(p)
      BY <2>5 DEF WriteLock, Phase, Holding, Places
    <3>2. lock.owner = p /\ lock'.owner = p /\ pc'[p] # "moveLock"
      BY <2>5, <3>1 DEF WriterExclusion, WriteLock, Lock, Goto, TypeOK
    <3>3. QED
      BY <2>1, <2>2, <2>3, <3>2, RolesAssumption DEF TakesFromDead
  <2>6. CASE Unlink(p)
    <3>1. Holding(p)
      BY <2>6 DEF Unlink, Phase, Holding, Places
    <3>2. lock.owner = p /\ pc'[p] = "idle"
      BY <2>6, <3>1 DEF WriterExclusion, Unlink, Goto, TypeOK
    <3>3. QED
      BY <2>1, <2>2, <2>3, <3>2, RolesAssumption DEF TakesFromDead, Holding
  <2>7. CASE MoveLock(p)
    <3>1. lock.owner = Dead /\ p \in Recoverers /\ pc'[p] \in {"idle", "createLock"}
      BY <2>7 DEF MoveLock, Goto, TypeOK, TakesFromDead, Phase, Recovering
    <3>2. QED
      BY <2>1, <2>2, <2>3, <3>1, RolesAssumption DEF SoleRecoverer, TakesFromDead, Holding
  <2>8. CASE Crash(p)
    <3>1. pc'[p] = "idle" /\ (lock.owner = p \/ lock' = lock)
      BY <2>8 DEF Crash, Goto, TypeOK
    <3>2. QED
      BY <2>1, <2>2, <2>3, <3>1, RolesAssumption DEF TakesFromDead, Holding
  <2>9. CASE ReadLock(p)
    <3>1. /\ lock' = lock
          /\ pc'[p] \in {"createLock", "moveLock", "idle"}
          /\ pc'[p] = "moveLock" => lock.owner = Dead
          /\ op'[p] = "recover"
      BY <2>9 DEF ReadLock, Goto, TypeOK, files, Phase, Recovering
    <3>2. QED
      BY <2>1, <2>2, <2>3, <3>1 DEF TakesFromDead, Holding
  <2>10. CASE CallLoad(p) \/ CallUpdate(p) \/ CallRecover(p) \/ Validate(p)
    <3>1. lock' = lock /\ pc'[p] # "moveLock" /\ ~Holding(p)'
      BY <2>10 DEF CallLoad, CallUpdate, CallRecover, Validate, Goto, TypeOK, files, Phase,
                   Recovering, Holding
    <3>2. QED
      BY <2>1, <2>2, <2>3, <3>1 DEF TakesFromDead
  <2>11. CASE ReadOwn(p) \/ Highest(p) \/ Promote(p) \/ Record(p)
    <3>1. lock' = lock /\ pc'[p] # "moveLock" /\ Holding(p)
      BY <2>11 DEF ReadOwn, Highest, Promote, Record, Goto, TypeOK, files, Phase,
                   Recovering, Holding, Places
    <3>2. QED
      BY <2>1, <2>2, <2>3, <3>1 DEF TakesFromDead, WriterExclusion
  <2>12. CASE Lease(p) \/ ReadHistory(p) \/ ReadLive(p) \/ Reread(p)
    <3>1. lock' = lock /\ pc'[p] # "moveLock" /\ (Holding(p)' => Holding(p))
      BY <2>12 DEF Lease, ReadHistory, ReadLive, Reread, Finding, Leave, Goto, TypeOK, files,
                   Phase, Loading, Holding, Places
    <3>2. QED
      BY <2>1, <2>2, <2>3, <3>1 DEF TakesFromDead, WriterExclusion
  <2>13. CASE AuditLock(p) \/ AuditTimeout(p) \/ AuditCreate(p) \/ AuditWrite(p) \/ AuditUnlock(p)
    <3>1. pc[p] \in Auditing /\ op[p] \in {"read", "update"} /\ op'[p] = op[p] /\ lock' = lock
      BY <2>13 DEF AuditLock, AuditTimeout, AuditCreate, AuditWrite, AuditUnlock, files,
                   Phase, Auditing
    <3>2. pc'[p] # "moveLock"
      <4>1. job[p] \in {"load", "transition", "save", "checkpoint"}
        BY DEF TypeOK, Jobs
      <4>2. QED
        BY <2>13, <4>1 DEF AuditLock, AuditTimeout, AuditCreate, AuditWrite, AuditUnlock, Leave,
                   Goto, TypeOK
    <3>3. Holding(p)' => Holding(p)
      BY <3>1 DEF Holding, Auditing, Places
    <3>4. QED
      BY <2>1, <2>2, <2>3, <3>1, <3>2, <3>3 DEF TakesFromDead, WriterExclusion
  <2>14. CASE Decide(p) \/ Check(p) \/ PutHistory(p) \/ PutLive(p) \/ Checkpoint(p)
    <3>1. lock' = lock /\ pc'[p] # "moveLock" /\ Holding(p)
      BY <2>14 DEF Decide, Check, PutHistory, PutLive, Checkpoint, Goto, TypeOK, files, Phase,
                   Publishing, Holding, Places
    <3>2. QED
      BY <2>1, <2>2, <2>3, <3>1 DEF TakesFromDead, WriterExclusion
  <2>15. QED
    BY <1>3, <2>4, <2>5, <2>6, <2>7, <2>8, <2>9, <2>10, <2>11, <2>12, <2>13, <2>14
       DEF Call, Step
<1>4. QED
  BY <1>1, <1>2, <1>3 DEF Next

-----------------------------------------------------------------------------
\* Whoever publishes or promotes works under the lock, and alone.
LEMMA PublisherHolds ==
  ASSUME NEW p \in Procs, Phase(p), PutHistory(p) \/ PutLive(p) \/ Promote(p)
  PROVE  Holding(p)
BY DEF PutHistory, PutLive, Promote, Phase, Publishing, Recovering, Holding, Places

LEMMA HoldingAlone ==
  ASSUME SoleRecoverer, WriterExclusion, NEW p \in Procs, NEW q \in Procs,
         Holding(p), Holding(q)
  PROVE  p = q
BY DEF WriterExclusion

\* Nothing else changes history or live.json.
LEMMA PublishersOnly ==
  ASSUME NEW p \in Procs, Call(p) \/ Step(p) \/ Crash(p),
         ~(PutHistory(p) \/ PutLive(p) \/ Promote(p))
  PROVE  UNCHANGED <<history, live>>
BY DEF Call, Step, Crash, CallLoad, CallUpdate, CallRecover, CreateLock, WriteLock, ReadOwn,
       Unlink, Lease, ReadHistory, ReadLive, Reread, AuditLock, AuditTimeout, AuditCreate,
       AuditWrite, AuditUnlock, Decide, Check, Checkpoint, Validate, ReadLock, MoveLock,
       Highest, Record, files

\* A publication appends the successor of the highest revision.
LEMMA Publication ==
  ASSUME Inv, SoleRecoverer, NEW p \in Procs, PutHistory(p)
  PROVE  /\ history' = Append(history, New(p))
         /\ New(p) = L!Successor(Latest, p)
         /\ live = Latest /\ Latest' = New(p)
         /\ New(p).rev = Len(history) + 1 /\ Len(history') = Len(history) + 1
         /\ p \in Updaters
<1>1. op[p] = "update" /\ p \in Updaters
  BY DEF Inv, Phase, PutHistory, Publishing
<1>2. old[p] = Latest /\ live = Latest
  BY <1>1 DEF Inv, Reads, PutHistory
<1>3. New(p) = L!Successor(Latest, p)
  BY <1>2 DEF New
<1>4. Len(history) \in Nat /\ New(p).rev = Len(history) + 1
  BY <1>3 DEF Inv, TypeOK, LatestIsNumbered, L!Successor
<1>5. history' = Append(history, New(p))
  BY <1>4 DEF PutHistory
<1>6. New(p) \in Revisions /\ history \in Seq(Revisions)
  BY RevisionTypes DEF Inv, TypeOK
<1>7. Len(history') = Len(history) + 1 /\ history'[Len(history) + 1] = New(p)
  BY <1>4, <1>5, <1>6
<1>8. QED
  BY <1>1, <1>2, <1>3, <1>4, <1>5, <1>7 DEF Latest, L!Latest

\* What an operation has read under the lock stays so.
LEMMA ReadsStep ==
  ASSUME Inv, SoleRecoverer, [Next]_vars
  PROVE  \A q \in Procs : Reads(q)'
<1>1. CASE UNCHANGED vars
  BY <1>1 DEF vars, files, Inv, Reads, Latest, New
<1>2. CASE Expire
  BY <1>2 DEF Expire, Inv, Reads, Latest, New
<1>3. ASSUME NEW p \in Procs, Call(p) \/ Step(p) \/ Crash(p), NEW q \in Procs
      PROVE  Reads(q)'
  <2>1. CASE q # p
    <3>1. /\ pc'[q] = pc[q] /\ op'[q] = op[q] /\ job'[q] = job[q] /\ old'[q] = old[q]
      BY <1>3, <2>1, StepsApart DEF Apart, Inv
    <3>2. CASE PutHistory(p) \/ PutLive(p) \/ Promote(p)
      <4>1. ~Holding(q)
        BY <2>1, <3>2, PublisherHolds, HoldingAlone DEF Inv
      <4>2. /\ pc[q] # "promote"
            /\ op[q] = "update" => pc[q] \in {"idle", "createLock"}
        BY <4>1 DEF Inv, TypeOK, Phase, Holding, Recovering
      <4>3. QED
        BY <3>1, <4>2 DEF Reads, Auditing
    <3>3. CASE ~(PutHistory(p) \/ PutLive(p) \/ Promote(p))
      <4>1. UNCHANGED <<history, live>>
        BY <1>3, <3>3, PublishersOnly
      <4>2. QED
        BY <3>1, <4>1 DEF Inv, Reads, Latest, New
    <3>4. QED
      BY <3>2, <3>3
  <2>2. CASE q = p
    <3> USE DEF Goto
    <3>1. TypeOK /\ Phase(p) /\ Reads(p)
      BY DEF Inv
    <3>2. CASE \/ CallLoad(p) \/ CallUpdate(p) \/ CallRecover(p) \/ CreateLock(p)
               \/ WriteLock(p) \/ ReadOwn(p) \/ Unlink(p) \/ Lease(p) \/ AuditTimeout(p)
               \/ Validate(p) \/ ReadLock(p) \/ MoveLock(p) \/ Promote(p) \/ Record(p) \/ Crash(p)
      <4>1. pc'[p] \in {"idle", "createLock", "writeLock", "readOwn", "unlink", "lease",
                        "readHistory", "validate", "readLock", "moveLock", "highest", "record"}
        BY <3>1, <3>2 DEF TypeOK, CallLoad, CallUpdate, CallRecover, CreateLock, WriteLock,
              ReadOwn, Unlink, Lease, Finding, Leave, AuditTimeout, Validate, ReadLock, MoveLock,
              Promote, Record, Crash
      <4>2. QED
        BY <2>2, <4>1 DEF Reads, Auditing
    <3>3. CASE ReadHistory(p) \/ ReadLive(p) \/ Highest(p)
      BY <2>2, <3>1, <3>3
         DEF TypeOK, ReadHistory, ReadLive, Highest, Finding, Leave, files, Reads, Phase, Latest,
             Auditing, Recovering
    <3>4. CASE Reread(p)
      BY <2>2, <3>1, <3>4 DEF TypeOK, Reread, files, Reads, Latest, Auditing
    <3>5. CASE AuditLock(p) \/ AuditCreate(p) \/ AuditWrite(p)
      BY <2>2, <3>1, <3>5
         DEF TypeOK, AuditLock, AuditCreate, AuditWrite, Reads, Latest, New, Auditing
    <3>6. CASE AuditUnlock(p)
      <4>1. job[p] \in {"load", "transition", "save", "checkpoint"}
        BY <3>1 DEF TypeOK, Jobs
      <4>2. UNCHANGED <<history, live, op, old>> /\ pc[p] = "auditUnlock"
        BY <3>6 DEF AuditUnlock
      <4>3. CASE job[p] = "load"
        <5>1. pc'[p] \in {"idle", "decide"} /\ job'[p] = "load"
          BY <3>1, <3>6, <4>3 DEF AuditUnlock, TypeOK
        <5>2. QED
          BY <2>2, <3>1, <4>2, <4>3, <5>1 DEF Reads, Latest, Auditing
      <4>4. CASE job[p] # "load"
        <5>1. pc'[p] \in {"auditLock", "checkpoint", "readOwn"} /\ job'[p] # "load"
          BY <3>1, <3>6, <4>1, <4>4 DEF AuditUnlock, TypeOK
        <5>2. QED
          BY <2>2, <3>1, <4>2, <4>4, <5>1 DEF Reads, Latest, New, Auditing
      <4>5. QED
        BY <4>3, <4>4
    <3>7. CASE Decide(p) \/ Check(p)
      BY <2>2, <3>1, <3>7 DEF TypeOK, Decide, Check, files, Reads, Latest, Auditing
    <3>8. CASE PutHistory(p)
      <4>1. pc'[p] = "putLive" /\ Latest' = New(p) /\ New(p)' = New(p)
        BY <3>1, <3>8, Publication DEF TypeOK, PutHistory, New
      <4>2. QED
        BY <2>2, <4>1 DEF Reads, Auditing
    <3>9. CASE PutLive(p) \/ Checkpoint(p)
      <4>1. Latest' = Latest /\ New(p)' = New(p) /\ New(p) = Latest
        BY <3>1, <3>9
           DEF PutLive, Checkpoint, files, Latest, New, Reads, Phase, Publishing
      <4>2. pc'[p] \in {"auditLock", "readOwn"}
            /\ (pc'[p] = "auditLock" => job'[p] \in {"transition", "checkpoint"})
        BY <3>1, <3>9 DEF TypeOK, PutLive, Checkpoint
      <4>3. QED
        BY <2>2, <4>1, <4>2 DEF Reads, Auditing
    <3>10. QED
      BY <1>3, <3>2, <3>3, <3>4, <3>5, <3>6, <3>7, <3>8, <3>9 DEF Call, Step
  <2>3. QED
    BY <2>1, <2>2
<1>4. QED
  BY <1>1, <1>2, <1>3 DEF Next

\* The highest revision has the number of revisions, and live.json lags by one.
LEMMA LiveStep ==
  ASSUME Inv, SoleRecoverer, [Next]_vars
  PROVE  LatestIsNumbered' /\ LiveLagsByOne'
<1>1. CASE UNCHANGED <<history, live>>
  BY <1>1 DEF Inv, LatestIsNumbered, LiveLagsByOne, Latest
<1>2. ASSUME NEW p \in Procs, PutHistory(p) PROVE LatestIsNumbered' /\ LiveLagsByOne'
  <2>1. live' = live
    BY <1>2 DEF PutHistory
  <2>2. Len(history) \in Nat /\ Len(history) > 0 /\ New(p) \in Revisions /\ history \in Seq(Revisions)
    BY RevisionTypes DEF Inv, TypeOK
  <2>3. history'[Len(history)] = Latest
    BY <1>2, <2>2, Publication DEF Latest, L!Latest
  <2>4. QED
    BY <1>2, <2>1, <2>2, <2>3, Publication DEF LatestIsNumbered, LiveLagsByOne
<1>3. ASSUME NEW p \in Procs, PutLive(p) \/ Promote(p) PROVE LatestIsNumbered' /\ LiveLagsByOne'
  <2>1. history' = history /\ live' = Latest
    BY <1>3 DEF PutLive, Promote, Inv, Reads, Phase, Publishing
  <2>2. QED
    BY <2>1 DEF Inv, LatestIsNumbered, LiveLagsByOne, Latest
<1>4. QED
  BY <1>1, <1>2, <1>3, PublishersOnly DEF Next, Expire, vars, files

\* Audit entries are about published revisions.
LEMMA AuditStep ==
  ASSUME Inv, SoleRecoverer, [Next]_vars
  PROVE  AuditIsOfHistory'
<1>1. \A e \in audited : \E n \in 1..Len(history) : history[n] = e
  BY DEF Inv, AuditIsOfHistory
<1>2. CASE UNCHANGED <<history, audited>>
  BY <1>1, <1>2 DEF AuditIsOfHistory
<1>3. ASSUME NEW p \in Procs, PutHistory(p) PROVE AuditIsOfHistory'
  <2>1. history \in Seq(Revisions) /\ New(p) \in Revisions /\ Len(history) \in Nat
    BY RevisionTypes DEF Inv, TypeOK
  <2>2. \A n \in 1..Len(history) : n \in 1..Len(history') /\ history'[n] = history[n]
    BY <1>3, <2>1, Publication
  <2>3. audited' = audited
    BY <1>3 DEF PutHistory
  <2>4. QED
    BY <1>1, <2>2, <2>3 DEF AuditIsOfHistory
<1>4. ASSUME NEW p \in Procs, AuditWrite(p) PROVE AuditIsOfHistory'
  <2>1. history' = history
    BY <1>4 DEF AuditWrite
  <2>2. CASE job[p] = "transition"
    <3>1. op[p] = "update"
      BY <1>4, <2>2 DEF AuditWrite, Inv, Phase, Auditing
    <3>2. New(p) = Latest
      BY <1>4, <2>2, <3>1 DEF AuditWrite, Inv, Reads, Auditing
    <3>3. Len(history) \in 1..Len(history) /\ history[Len(history)] = New(p)
      BY <3>2 DEF Inv, TypeOK, Latest, L!Latest
    <3>4. audited' = audited \cup {New(p)}
      BY <1>4, <2>2 DEF AuditWrite
    <3>5. QED
      BY <1>1, <2>1, <3>3, <3>4 DEF AuditIsOfHistory
  <2>3. CASE job[p] # "transition"
    BY <1>1, <1>4, <2>1, <2>3 DEF AuditWrite, AuditIsOfHistory
  <2>4. QED
    BY <2>2, <2>3
<1>5. QED
  BY <1>2, <1>3, <1>4, StepCases
     DEF vars, files, CallLoad, CallUpdate, CallRecover, CreateLock, WriteLock, ReadOwn, Unlink,
         Lease, ReadHistory, ReadLive, Reread, AuditLock, AuditTimeout, AuditCreate, AuditUnlock,
         Decide, Check, PutLive, Checkpoint, Validate, ReadLock, MoveLock, Highest, Promote,
         Record, Crash, Expire

\* The inductive invariant holds at first and is preserved by every step.
LEMMA InvInit == ASSUME Init PROVE Inv
<1>1. TypeOK
  BY TypeInit
<1>2. \A p \in Procs : Phase(p) /\ TakesFromDead(p) /\ Reads(p) /\ ~Holding(p)
  BY DEF Init, Phase, TakesFromDead, Reads, Holding, Loading, Auditing, Publishing, Recovering
<1>3. LatestIsNumbered /\ LiveLagsByOne /\ AuditIsOfHistory
  BY DEF Init, LatestIsNumbered, LiveLagsByOne, AuditIsOfHistory, Latest, L!Latest, L!Initial
<1>4. QED
  BY <1>1, <1>2, <1>3 DEF Init, Inv, WriterExclusion

LEMMA InvStep == ASSUME Inv, [Next]_vars PROVE Inv'
<1>1. TypeOK' /\ (\A p \in Procs : Phase(p)') /\ (lock.owner = NoOne => lock = NoLock)'
  BY TypeStep, PhaseStep, OwnerStep DEF Inv
<1>2. CASE SoleRecoverer
  <2>1. \A p \in Procs : TakesFromDead(p)' /\ (Holding(p) => lock.owner = p)'
    BY <1>2, ExclusionStep DEF Inv
  <2>2. LatestIsNumbered' /\ LiveLagsByOne' /\ AuditIsOfHistory' /\ \A p \in Procs : Reads(p)'
    BY <1>2, LiveStep, AuditStep, ReadsStep
  <2>3. QED
    BY <1>1, <2>1, <2>2 DEF Inv, WriterExclusion
<1>3. CASE ~SoleRecoverer
  BY <1>1, <1>3 DEF Inv, WriterExclusion, LiveLagsByOne, AuditIsOfHistory, SoleRecoverer
<1>4. QED
  BY <1>2, <1>3

LEMMA Invariance == Spec => []Inv
<1>1. Init => Inv
  BY InvInit
<1>2. Inv /\ [Next]_vars => Inv'
  BY InvStep
<1>3. QED
  BY <1>1, <1>2, PTL DEF Spec

\* Where at most one process recovers, whoever works under the writer lock owns
\* it, whatever leases end and processes die.
THEOREM WritersExclude == Spec => []WriterExclusion
<1>1. Inv => WriterExclusion
  BY DEF Inv
<1>2. QED
  BY <1>1, Invariance, PTL

\* live.json is never more than one revision behind.
THEOREM LiveIsRepairable == Spec => []LiveLagsByOne
<1>1. Inv => LiveLagsByOne
  BY DEF Inv
<1>2. QED
  BY <1>1, Invariance, PTL

\* No transition audit entry is about a revision that is not in the history.
THEOREM AuditsArePublished == Spec => []AuditIsOfHistory
<1>1. Inv => AuditIsOfHistory
  BY DEF Inv
<1>2. QED
  BY <1>1, Invariance, PTL

-----------------------------------------------------------------------------
\* A step of the store publishes, acknowledges or is nothing to the log.
LEMMA LogStep ==
  ASSUME Inv, SoleRecoverer, [Next]_vars
  PROVE  [L!Next]_(L!vars)
<1>1. CASE UNCHANGED <<history, acked>>
  BY <1>1 DEF L!vars
<1>2. ASSUME NEW p \in Procs, PutHistory(p) PROVE L!Next
  <2>1. acked' = acked
    BY <1>2 DEF PutHistory
  <2>2. L!Publish(p)
    BY <1>2, <2>1, Publication DEF L!Publish, Latest
  <2>3. QED
    BY <1>2, <2>2, Publication DEF L!Next
<1>3. ASSUME NEW p \in Procs, AuditUnlock(p) \/ Checkpoint(p), acked' # acked PROVE L!Next
  <2>1. history' = history /\ acked' = acked \cup {New(p)}
    BY <1>3 DEF AuditUnlock, Checkpoint, files
  <2>2. op[p] = "update" /\ (pc[p] = "checkpoint" \/ (pc[p] \in Auditing /\ job[p] # "load"))
    BY <1>3 DEF AuditUnlock, Checkpoint, Inv, Phase, Auditing, Publishing
  <2>3. New(p) = history[Len(history)] /\ Len(history) \in 1..Len(history)
    BY <2>2 DEF Inv, TypeOK, Reads, Latest, L!Latest
  <2>4. L!Acknowledge(Len(history))
    BY <2>1, <2>3 DEF L!Acknowledge
  <2>5. QED
    BY <2>3, <2>4 DEF L!Next
<1>4. CASE ~UNCHANGED <<history, acked>>
  <2>1. \E p \in Procs : PutHistory(p) \/ AuditUnlock(p) \/ Checkpoint(p)
    BY <1>4, StepCases
       DEF vars, files, CallLoad, CallUpdate, CallRecover, CreateLock, WriteLock, ReadOwn, Unlink,
           Lease, ReadHistory, ReadLive, Reread, AuditLock, AuditTimeout, AuditCreate,
           AuditWrite, Decide, Check, PutLive, Validate, ReadLock, MoveLock, Highest, Promote,
           Record, Crash, Expire
  <2>2. QED
    BY <1>2, <1>3, <1>4, <2>1 DEF AuditUnlock, Checkpoint, files
<1>5. QED
  BY <1>1, <1>4

\* Where at most one process recovers, the store implements the revision log:
\* the history only grows, each revision upon the highest one, and what an
\* update reported stays in it.
THEOREM StoreImplementsLog == ASSUME SoleRecoverer PROVE Spec => ImplementsLog
<1>1. Init => L!Init
  BY DEF Init, L!Init
<1>2. Inv /\ [Next]_vars => [L!Next]_(L!vars)
  BY LogStep
<1>3. QED
  BY <1>1, <1>2, Invariance, PTL DEF Spec, ImplementsLog, L!Spec

-----------------------------------------------------------------------------
(* What the revision log promises, and with it what the store does.        *)

Entries == [rev : Nat, by : Updaters \cup {Root}, prev : Updaters \cup {Root}]

LogInv == history \in Seq(Entries) /\ acked \subseteq Entries /\ L!IsChain /\ L!AckedIsLogged

LEMMA LogInit == ASSUME L!Init PROVE LogInv
<1>1. L!Initial \in Entries
  BY DEF L!Initial, Entries
<1>2. QED
  BY <1>1 DEF L!Init, LogInv, L!IsChain, L!AckedIsLogged

LEMMA PublishInv == ASSUME LogInv, NEW w \in Updaters, L!Publish(w) PROVE LogInv'
<1>1. history \in Seq(Entries) /\ Len(history) \in Nat /\ Len(history) > 0 /\ L!Latest(history) \in Entries
  BY DEF LogInv, L!IsChain, L!Latest
<1> DEFINE e == L!Successor(L!Latest(history), w)
<1>2. e \in Entries /\ e.by = w
  BY <1>1 DEF L!Successor, Entries
<1>3. history' = Append(history, e) /\ acked' = acked
  BY DEF L!Publish
<1> HIDE DEF e
<1>4. /\ history' \in Seq(Entries) /\ Len(history') = Len(history) + 1 /\ history'[Len(history) + 1] = e
      /\ \A n \in 1..Len(history) : history'[n] = history[n]
  BY <1>1, <1>2, <1>3
<1>5. history'[Len(history) + 1] = L!Successor(history'[Len(history)], history'[Len(history) + 1].by)
  BY <1>1, <1>2, <1>4 DEF e, L!Latest
<1>6. L!IsChain'
  <2>1. history'[1] = L!Initial
    BY <1>1, <1>4 DEF LogInv, L!IsChain
  <2>2. ASSUME NEW n \in 2..Len(history') PROVE history'[n] = L!Successor(history'[n - 1], history'[n].by)
    <3>1. CASE n = Len(history) + 1
      BY <1>1, <1>5, <3>1
    <3>2. CASE n # Len(history) + 1
      <4>1. n \in 2..Len(history) /\ n \in 1..Len(history) /\ n - 1 \in 1..Len(history)
        BY <1>1, <1>4, <3>2
      <4>2. history[n] = L!Successor(history[n - 1], history[n].by)
        BY <4>1 DEF LogInv, L!IsChain
      <4>3. QED
        BY <1>4, <4>1, <4>2
    <3>3. QED
      BY <3>1, <3>2
  <2>3. QED
    BY <1>1, <1>4, <2>1, <2>2 DEF L!IsChain
<1>7. L!AckedIsLogged'
  <2>1. \A n \in 1..Len(history) : n \in 1..Len(history')
    BY <1>1, <1>4
  <2>2. QED
    BY <1>3, <1>4, <2>1 DEF LogInv, L!AckedIsLogged
<1>8. QED
  BY <1>3, <1>4, <1>6, <1>7 DEF LogInv

LEMMA AcknowledgeInv == ASSUME LogInv, NEW n \in 1..Len(history), L!Acknowledge(n) PROVE LogInv'
<1>1. history[n] \in Entries
  BY DEF LogInv
<1>2. QED
  BY <1>1 DEF LogInv, L!Acknowledge, L!IsChain, L!AckedIsLogged

\* The revisions form one chain, and every reported update is in it for ever.
THEOREM LogIsChain == L!Spec => [](L!IsChain /\ L!AckedIsLogged)
<1>1. L!Init => LogInv
  BY LogInit
<1>2. LogInv /\ [L!Next]_(L!vars) => LogInv'
  <2>1. LogInv /\ UNCHANGED L!vars => LogInv'
    BY DEF L!vars, LogInv, L!IsChain, L!AckedIsLogged
  <2>2. QED
    BY <2>1, PublishInv, AcknowledgeInv DEF L!Next
<1>3. LogInv => L!IsChain /\ L!AckedIsLogged
  BY DEF LogInv
<1>4. QED
  BY <1>1, <1>2, <1>3, PTL DEF L!Spec

\* So the history of the store is one chain, and what an update reported stays in it.
THEOREM HistoryIsChain ==
  ASSUME SoleRecoverer PROVE Spec => [](L!IsChain /\ L!AckedIsLogged)
BY StoreImplementsLog, LogIsChain, PTL DEF ImplementsLog

=============================================================================

------------------------ MODULE MissionDriver_proofs ------------------------
(***************************************************************************)
(* The mission driver implements Mission for every mission, budget and     *)
(* number of crashes, and its commits never contain work of an earlier     *)
(* run.                                                                    *)
(***************************************************************************)
EXTENDS MissionDriver, WellFoundedInduction, TLAPS

\* The steps by name, whatever groups them in Next.
LEMMA StepCases ==
  ASSUME Next
  PROVE  \/ Run \/ Resume \/ SaveDone \/ Preflight \/ ReconcileDone \/ Begin \/ Finish
         \/ \E t \in Tasks : SaveTask(t) \/ Reconcile(t) \/ Pick(t)
         \/ Increment \/ MarkRunning \/ Execute \/ RecordExecution \/ Verify
         \/ RecordVerification \/ Rollback \/ Exhausted \/ BlockTask
         \/ Complete \/ NothingToCommit \/ CommitRejected \/ Commit \/ CommitFails
         \/ RecordSha \/ Crash \/ UserEdit \/ OperatorCleans
BY DEF Next, Startup, Progress

-----------------------------------------------------------------------------
(* Types.                                                                  *)

\* The type of an attempt record.
EvidenceType == [attempt : Nat, stage : {"none", "execute", "verify"}, ok : BOOLEAN]

LEMMA TypeInit == Init => TypeOK
<1> SUFFICES ASSUME Init PROVE TypeOK
  OBVIOUS
<1>1. NoRecord \in EvidenceType
  BY DEF NoRecord, EvidenceType
<1>2. evidence \in [Tasks -> EvidenceType]
  BY <1>1 DEF Init
<1>3. ok \in BOOLEAN
  BY DEF Init
<1>4. QED
  BY <1>2, <1>3, BoundsAssumption
     DEF Init, TypeOK, M!Statuses, Owners, Places, EvidenceType

\* What a change of the working tree by somebody leaves well-typed.
LEMMA ChangeType ==
  ASSUME TypeOK, NEW area \in SUBSET Paths, NEW owner \in Owners, Change(area, owner)
  PROVE  /\ dirt' \in [Paths -> {"clean", "changed", "deleted", "dir"}]
         /\ whose' \in [Paths -> SUBSET Owners]
         /\ staged' \subseteq Paths
BY DEF TypeOK, Change

LEMMA RestoreType ==
  ASSUME TypeOK, NEW fixed, NEW next \in Owners, Restore(fixed, next)
  PROVE  /\ dirt' \in [Paths -> {"clean", "changed", "deleted", "dir"}]
         /\ whose' \in [Paths -> SUBSET Owners]
         /\ staged' \subseteq Paths
BY DEF TypeOK, Restore

LEMMA TypeNext == ASSUME TypeOK, [Next]_vars PROVE TypeOK'
<1> USE DEF dbVars, repoVars, runVars
<1>1. CASE UNCHANGED vars
  BY <1>1 DEF vars, TypeOK
<1>2. CASE \/ Run \/ Resume \/ SaveDone \/ ReconcileDone \/ Begin \/ NothingToCommit
  BY <1>2, BoundsAssumption DEF Run, Resume, SaveDone, ReconcileDone, Begin, NothingToCommit, TypeOK, Places
<1>3. CASE \/ Preflight \/ Finish \/ CommitRejected \/ Crash
  <2>0. Orphan \/ whose' = whose
    BY <1>3 DEF Preflight, Finish, CommitRejected, Crash
  <2>1. whose' \in [Paths -> SUBSET Owners]
    BY <2>0 DEF Orphan, TypeOK, Owners
  <2>2. crashes' \in 0..MaxCrashes
    BY <1>3, BoundsAssumption DEF Preflight, Finish, CommitRejected, Crash, TypeOK
  <2>3. mission' \in {"none", "PENDING", "RUNNING", "COMPLETE", "BLOCKED"} /\ pc' \in Places
    BY <1>3 DEF Preflight, Finish, CommitRejected, Crash, TypeOK, Places
  <2>4. QED
    BY <1>3, <2>1, <2>2, <2>3 DEF Preflight, Finish, CommitRejected, Crash, TypeOK
<1>4. ASSUME NEW t \in Tasks, SaveTask(t) \/ Reconcile(t) \/ Pick(t) PROVE TypeOK'
  <2>1. CASE SaveTask(t)
    BY <2>1, BoundsAssumption DEF SaveTask, TypeOK
  <2>2. CASE Reconcile(t)
    BY <2>2 DEF Reconcile, TypeOK, M!Statuses
  <2>3. CASE Pick(t)
    BY <2>3 DEF Pick, TypeOK, Places
  <2>4. QED
    BY <1>4, <2>1, <2>2, <2>3
<1>5. CASE Increment
  BY <1>5 DEF Increment, TypeOK, Places
<1>6. CASE \/ MarkRunning \/ Exhausted \/ BlockTask \/ Complete
  BY <1>6 DEF MarkRunning, Exhausted, BlockTask, Complete, TypeOK, Places, M!Statuses,
              DirtyFiles
<1>7. CASE Execute
  <2>1. Change(Scope[cur], "attempt") /\ Scope[cur] \in SUBSET Paths
    BY <1>7, PathsAssumption DEF Execute, TypeOK
  <2>2. QED
    BY <1>7, <2>1, ChangeType DEF Execute, TypeOK, Places, Owners
<1>8. CASE Verify
  <2>1. Change(Byproducts, "check") /\ Byproducts \in SUBSET Paths
    BY <1>8, PathsAssumption DEF Verify
  <2>2. QED
    BY <1>8, <2>1, ChangeType DEF Verify, TypeOK, Places, Owners
<1>9. CASE UserEdit
  <2>1. Change(UserPaths, "user") /\ UserPaths \in SUBSET Paths
    BY <1>9, PathsAssumption DEF UserEdit
  <2>2. QED
    BY <1>9, <2>1, ChangeType DEF UserEdit, TypeOK, Owners
<1>10. CASE RecordExecution \/ RecordVerification
  <2>1. PICK stage \in {"execute", "verify"} : AddRecord(stage)
    BY <1>10 DEF RecordExecution, RecordVerification
  <2>2. ok \in BOOLEAN /\ attempt \in Nat /\ evidence \in [Tasks -> EvidenceType]
    BY DEF TypeOK, EvidenceType
  <2>3. [attempt |-> attempt, stage |-> stage, ok |-> ok] \in EvidenceType
    BY <2>2, Zenon DEF EvidenceType
  <2>4. evidence' \in [Tasks -> EvidenceType]
    BY <2>1, <2>2, <2>3 DEF AddRecord
  <2>5. records' \in [Tasks -> Nat]
    BY <2>1 DEF AddRecord, TypeOK
  <2>6. ok' \in BOOLEAN
    BY <1>10, <2>2 DEF RecordExecution, RecordVerification
  <2>7. QED
    BY <1>10, <2>4, <2>5, <2>6
       DEF RecordExecution, RecordVerification, TypeOK, Places, DirtyFiles, EvidenceType
<1>11. CASE Rollback
  <2>1. Restore({p \in delta : Restorable(p)}, "failed")
    BY <1>11 DEF Rollback
  <2>2. QED
    BY <1>11, <2>1, RestoreType DEF Rollback, TypeOK, Places, Owners
<1>12. CASE Commit
  <2>1. PICK taken \in SUBSET Paths :
          /\ landed' = [landed EXCEPT ![cur] = UNION {whose[p] : p \in taken}]
          /\ Restore(taken, "left")
    BY <1>12 DEF Commit, DirtyFiles
  <2>2. UNION {whose[p] : p \in taken} \subseteq Owners
    BY DEF TypeOK
  <2>3. landed' \in [Tasks -> SUBSET Owners]
    BY <2>1, <2>2 DEF TypeOK
  <2>4. QED
    BY <1>12, <2>1, <2>3, RestoreType DEF Commit, TypeOK, Places, Owners
<1>13. CASE CommitFails
  <2>1. whose' \in [Paths -> SUBSET Owners]
    BY <1>13 DEF CommitFails, TypeOK, Owners
  <2>2. staged' \subseteq Paths
    BY <1>13 DEF CommitFails, TypeOK, DirtyFiles
  <2>3. QED
    BY <1>13, <2>1, <2>2 DEF CommitFails, TypeOK, Places
<1>14. CASE RecordSha
  BY <1>14 DEF RecordSha, TypeOK, Places
<1>15. CASE OperatorCleans
  BY <1>15, RestoreType DEF OperatorCleans, TypeOK, Owners
<1>16. QED
  BY <1>1, <1>2, <1>3, <1>4, <1>5, <1>6, <1>7, <1>8, <1>9, <1>10, <1>11, <1>12, <1>13,
     <1>14, <1>15, StepCases

\* Every variable has its type in every reachable state.
THEOREM TypeCorrect == Spec => []TypeOK
<1>1. TypeOK /\ [Next]_vars => TypeOK'
  BY TypeNext
<1>2. QED
  BY TypeInit, <1>1, PTL DEF Spec

-----------------------------------------------------------------------------
(* One task at a time, and the refinement of Mission.                      *)

\* RunningIsCurrent is inductive.
LEMMA RunningNext ==
  ASSUME TypeOK, RunningIsCurrent, [Next]_vars
  PROVE  RunningIsCurrent'
<1> USE TasksAssumption
    DEF dbVars, repoVars, runVars, RunningIsCurrent, Idle, Between, Entering, Attempting
<1>1. CASE UNCHANGED vars
  BY <1>1 DEF vars
<1>2. CASE Run \/ Resume \/ SaveDone \/ Preflight \/ ReconcileDone \/ Begin \/ Finish \/ Crash
  BY <1>2 DEF Run, Resume, SaveDone, Preflight, ReconcileDone, Begin, Finish, Crash
<1>3. ASSUME NEW t \in Tasks, SaveTask(t) PROVE RunningIsCurrent'
  BY <1>3 DEF SaveTask
<1>4. ASSUME NEW t \in Tasks, Reconcile(t) PROVE RunningIsCurrent'
  BY <1>4 DEF Reconcile, TypeOK
<1>5. ASSUME NEW t \in Tasks, Pick(t) PROVE RunningIsCurrent'
  BY <1>5 DEF Pick, IsNext, Ready
<1>6. CASE Increment
  BY <1>6 DEF Increment
<1>7. CASE MarkRunning
  BY <1>7 DEF MarkRunning, TypeOK
<1>8. CASE Execute \/ RecordExecution \/ Verify \/ RecordVerification
  BY <1>8 DEF Execute, RecordExecution, Verify, RecordVerification
<1>9. CASE Rollback
  BY <1>9 DEF Rollback
<1>10. CASE Exhausted \/ BlockTask \/ Complete
  BY <1>10 DEF Exhausted, BlockTask, Complete, TypeOK
<1>11. CASE NothingToCommit \/ CommitRejected \/ Commit \/ CommitFails \/ RecordSha
  BY <1>11 DEF NothingToCommit, CommitRejected, Commit, CommitFails, RecordSha
<1>12. CASE UserEdit \/ OperatorCleans
  BY <1>12 DEF UserEdit, OperatorCleans
<1>13. QED
  BY <1>1, <1>2, <1>3, <1>4, <1>5, <1>6, <1>7, <1>8, <1>9, <1>10, <1>11, <1>12, StepCases

LEMMA RunningInit == Init => RunningIsCurrent
BY DEF Init, RunningIsCurrent, Idle, Between, Entering, Attempting

\* A step of the driver that changes no status is a stuttering step of Mission.
LEMMA StepSimulates ==
  ASSUME TypeOK, RunningIsCurrent, [Next]_vars
  PROVE  [M!Next]_status
<1> USE TasksAssumption
    DEF dbVars, repoVars, runVars, RunningIsCurrent, Idle, Between, Entering, Attempting
<1>1. CASE UNCHANGED vars
  BY <1>1 DEF vars
<1>2. CASE \/ Run \/ Resume \/ SaveDone \/ Preflight \/ ReconcileDone \/ Begin \/ Finish
           \/ Crash \/ UserEdit \/ OperatorCleans
  BY <1>2 DEF Run, Resume, SaveDone, Preflight, ReconcileDone, Begin, Finish, Crash,
              UserEdit, OperatorCleans
<1>3. ASSUME NEW t \in Tasks, SaveTask(t) \/ Pick(t) PROVE UNCHANGED status
  BY <1>3 DEF SaveTask, Pick
<1>4. ASSUME NEW t \in Tasks, Reconcile(t) PROVE M!Interrupt(t) \/ M!Fail(t)
  BY <1>4 DEF Reconcile, M!Interrupt, M!Fail, M!Becomes
<1>5. CASE \/ Increment \/ Execute \/ RecordExecution \/ Verify \/ RecordVerification
           \/ Rollback \/ NothingToCommit \/ CommitRejected \/ Commit \/ CommitFails
           \/ RecordSha
  BY <1>5 DEF Increment, Execute, RecordExecution, Verify, RecordVerification, Rollback,
              NothingToCommit, CommitRejected, Commit, CommitFails, RecordSha
<1>6. CASE MarkRunning
  <2>1. cur \in Tasks /\ status \in [Tasks -> M!Statuses]
    BY DEF TypeOK
  <2>2. CASE status[cur] = "RUNNING"
    BY <1>6, <2>1, <2>2 DEF MarkRunning
  <2>3. CASE status[cur] \in {"PENDING", "INTERRUPTED"}
    <3>1. \A u \in Tasks : status[u] # "RUNNING"
      BY <1>6, <2>3 DEF MarkRunning
    <3>2. M!Begin(cur)
      BY <1>6, <2>3, <3>1 DEF MarkRunning, M!Begin, M!Ready, M!Becomes
    <3>3. QED
      BY <2>1, <3>2 DEF M!Next
  <2>4. QED
    BY <1>6, <2>2, <2>3 DEF MarkRunning
<1>7. CASE Exhausted
  BY <1>7 DEF Exhausted, M!Next, M!Fail, M!Ready, M!Becomes, TypeOK
<1>8. CASE BlockTask
  BY <1>8 DEF BlockTask, M!Next, M!Block, M!Becomes, TypeOK
<1>9. CASE Complete
  BY <1>9 DEF Complete, M!Next, M!Complete, M!Becomes, TypeOK
<1>10. QED
  BY <1>1, <1>2, <1>3, <1>4, <1>5, <1>6, <1>7, <1>8, <1>9, StepCases DEF M!Next

\* The driver implements Mission: whatever crashes and restarts happen, tasks
\* run one at a time, after their dependencies, and finished ones stay finished.
THEOREM DriverImplementsMission == Spec => ImplementsMission
<1>1. Init => M!Init
  BY DEF Init, M!Init
<1>2. TypeOK /\ RunningIsCurrent /\ [Next]_vars => [M!Next]_status
  BY StepSimulates
<1>3. TypeOK /\ RunningIsCurrent /\ [Next]_vars => RunningIsCurrent'
  BY RunningNext
<1>4. QED
  BY <1>1, <1>2, <1>3, RunningInit, TypeCorrect, PTL DEF Spec, M!Spec, ImplementsMission

-----------------------------------------------------------------------------
(* Commits and earlier runs.                                               *)

LEMMA CleansNext ==
  ASSUME TypeOK, PreflightCleans, [Next]_vars
  PROVE  PreflightCleans'
<1> USE DEF dbVars, repoVars, runVars, PreflightCleans, TypeOK
<1>1. CASE UNCHANGED vars
  BY <1>1 DEF vars
<1>2. CASE Run \/ Resume \/ SaveDone \/ ReconcileDone \/ Begin
  BY <1>2 DEF Run, Resume, SaveDone, ReconcileDone, Begin
<1>3. CASE Preflight
  BY <1>3 DEF Preflight, DirtyFiles, Orphan
<1>4. CASE Finish \/ CommitRejected \/ Crash
  BY <1>4 DEF Finish, CommitRejected, Crash, Orphan
<1>5. ASSUME NEW t \in Tasks, SaveTask(t) \/ Reconcile(t) \/ Pick(t)
      PROVE  PreflightCleans'
  BY <1>5 DEF SaveTask, Reconcile, Pick
<1>6. CASE \/ Increment \/ MarkRunning \/ RecordExecution \/ RecordVerification
           \/ Exhausted \/ BlockTask \/ Complete \/ NothingToCommit \/ RecordSha
  BY <1>6 DEF Increment, MarkRunning, RecordExecution, RecordVerification, Exhausted,
              BlockTask, Complete, NothingToCommit, RecordSha
<1>7. CASE Execute
  BY <1>7 DEF Execute, Change
<1>8. CASE Verify
  BY <1>8 DEF Verify, Change
<1>9. CASE UserEdit
  BY <1>9 DEF UserEdit, Change
<1>10. CASE Rollback
  BY <1>10 DEF Rollback, Restore
<1>11. CASE Commit
  BY <1>11 DEF Commit, Restore
<1>12. CASE CommitFails
  BY <1>12 DEF CommitFails
<1>13. CASE OperatorCleans
  BY <1>13 DEF OperatorCleans, Restore
<1>14. QED
  BY <1>1, <1>2, <1>3, <1>4, <1>5, <1>6, <1>7, <1>8, <1>9, <1>10, <1>11, <1>12, <1>13,
     StepCases

\* No commit contains what an earlier run, crashed or ended, left uncommitted.
THEOREM CommitsAreOfThisRun == Spec => []EarlierWorkNeverCommitted
<1> DEFINE Inv == PreflightCleans /\ EarlierWorkNeverCommitted
<1>1. Init => Inv
  BY DEF Init, PreflightCleans, EarlierWorkNeverCommitted
<1>2. TypeOK /\ Inv /\ [Next]_vars => Inv'
  <2> SUFFICES ASSUME TypeOK, Inv, [Next]_vars PROVE EarlierWorkNeverCommitted'
    BY CleansNext
  <2>1. CASE Commit
    <3>1. PICK taken \in SUBSET Paths :
            landed' = [landed EXCEPT ![cur] = UNION {whose[p] : p \in taken}]
      BY <2>1 DEF Commit, DirtyFiles
    <3>2. \A p \in Paths : "earlier" \notin whose[p]
      BY <2>1 DEF Commit, PreflightCleans
    <3>3. "earlier" \notin UNION {whose[p] : p \in taken}
      BY <3>2
    <3>4. QED
      BY <3>1, <3>3 DEF EarlierWorkNeverCommitted, TypeOK
  <2>2. CASE ~Commit
    <3>1. landed' = landed
      <4> USE DEF dbVars, repoVars, runVars
      <4>1. CASE UNCHANGED vars
        BY <4>1 DEF vars
      <4>2. CASE \/ Run \/ Resume \/ SaveDone \/ Preflight \/ ReconcileDone \/ Begin \/ Finish
                 \/ Crash \/ UserEdit \/ OperatorCleans
                 \/ \E t \in Tasks : SaveTask(t) \/ Reconcile(t) \/ Pick(t)
        BY <4>2 DEF Run, Resume, SaveDone, Preflight, ReconcileDone, Begin, Finish, Crash,
                    UserEdit, OperatorCleans, SaveTask, Reconcile, Pick
      <4>3. CASE \/ Increment \/ MarkRunning \/ Execute \/ RecordExecution \/ Verify
                 \/ RecordVerification \/ Rollback \/ Exhausted \/ BlockTask \/ Complete
                 \/ NothingToCommit \/ CommitRejected \/ CommitFails \/ RecordSha
        BY <4>3 DEF Increment, MarkRunning, Execute, RecordExecution, Verify,
                    RecordVerification, Rollback, Exhausted, BlockTask, Complete,
                    NothingToCommit, CommitRejected, CommitFails, RecordSha
      <4>4. QED
        BY <2>2, <4>1, <4>2, <4>3, StepCases
    <3>2. QED
      BY <3>1 DEF EarlierWorkNeverCommitted
  <2>3. QED
    BY <2>1, <2>2
<1>3. QED
  BY <1>1, <1>2, TypeCorrect, PTL DEF Spec

-----------------------------------------------------------------------------
(* Evidence of completed tasks.                                            *)

\* The record that a successful attempt of t leaves, its last one.
Success(t) == [attempt |-> attempts[t], stage |-> IF t \in Verified THEN "verify" ELSE "execute",
               ok |-> TRUE]
\* While an attempt is under way the local counter is the durable one, and what is
\* about to be completed has its record.
EvidenceKept ==
  /\ CompletedWasVerified
  /\ pc \in Attempting \cup {"mark"} => attempt = attempts[cur]
  /\ pc \in {"verify", "recordVerify"} => cur \in Verified
  /\ pc = "complete" => evidence[cur] = Success(cur)

LEMMA EvidenceNext ==
  ASSUME TypeOK, RunningIsCurrent, EvidenceKept, [Next]_vars
  PROVE  EvidenceKept'
<1> USE DEF dbVars, repoVars, runVars, EvidenceKept, CompletedWasVerified, Success, Attempting
<1>1. CASE UNCHANGED vars
  BY <1>1 DEF vars
<1>2. CASE \/ Run \/ Resume \/ SaveDone \/ Preflight \/ ReconcileDone \/ Begin \/ Finish
           \/ Crash \/ UserEdit \/ OperatorCleans \/ \E t \in Tasks : Pick(t)
  BY <1>2 DEF Run, Resume, SaveDone, Preflight, ReconcileDone, Begin, Finish, Crash, UserEdit,
              OperatorCleans, Pick
<1>3. ASSUME NEW t \in Tasks, SaveTask(t) \/ Reconcile(t) PROVE EvidenceKept'
  BY <1>3 DEF SaveTask, Reconcile, RunningIsCurrent, TypeOK
<1>4. CASE Increment
  <2>1. status[cur] # "COMPLETED"
    BY <1>4 DEF Increment, RunningIsCurrent, Entering
  <2>. QED
    BY <1>4, <2>1 DEF Increment, TypeOK
<1>5. CASE MarkRunning \/ Exhausted \/ BlockTask
  BY <1>5 DEF MarkRunning, Exhausted, BlockTask, TypeOK
<1>6. CASE Execute \/ Verify \/ Rollback
  BY <1>6 DEF Execute, Verify, Rollback
<1>7. CASE RecordExecution \/ RecordVerification
  <2>1. status[cur] # "COMPLETED" /\ cur \in Tasks /\ attempt = attempts[cur]
    BY <1>7 DEF RecordExecution, RecordVerification, RunningIsCurrent, TypeOK
  <2>2. PICK stage \in {"execute", "verify"} :
          /\ AddRecord(stage)
          /\ pc' = "complete" => ok /\ (stage = "verify" <=> cur \in Verified)
          /\ pc' = "verify" => cur \in Verified
          /\ pc' \in {"rollback", "verify", "complete"}
    BY <1>7 DEF RecordExecution, RecordVerification
  <2>3. /\ status' = status /\ attempts' = attempts /\ cur' = cur /\ attempt' = attempt
        /\ pc \in {"record", "recordVerify"}
    BY <1>7 DEF RecordExecution, RecordVerification
  <2>4. evidence'[cur] = [attempt |-> attempt, stage |-> stage, ok |-> ok]
        /\ \A t \in Tasks \ {cur} : evidence'[t] = evidence[t]
    BY <2>1, <2>2 DEF AddRecord, TypeOK
  <2>5. ok \in BOOLEAN
    BY DEF TypeOK
  <2>6. pc' = "complete" => evidence'[cur] = Success(cur)
    BY <2>1, <2>2, <2>4, <2>5
  <2>. QED
    BY <2>1, <2>2, <2>3, <2>4, <2>6
<1>8. CASE Complete
  BY <1>8 DEF Complete, TypeOK
<1>9. CASE NothingToCommit \/ CommitRejected \/ Commit \/ CommitFails \/ RecordSha
  BY <1>9 DEF NothingToCommit, CommitRejected, Commit, CommitFails, RecordSha
<1>. QED
  BY <1>1, <1>2, <1>3, <1>4, <1>5, <1>6, <1>7, <1>8, <1>9, StepCases

\* A task is COMPLETED only with the record of a successful execution, verified where
\* the task asks for it, of the attempt counted last; for any crashes and restarts.
THEOREM CompletedTasksWereVerified == Spec => []CompletedWasVerified
<1>1. Init => EvidenceKept
  BY DEF Init, EvidenceKept, CompletedWasVerified, Attempting
<1>2. TypeOK /\ RunningIsCurrent /\ EvidenceKept /\ [Next]_vars => EvidenceKept'
  BY EvidenceNext
<1>3. TypeOK /\ RunningIsCurrent /\ [Next]_vars => RunningIsCurrent'
  BY RunningNext
<1>4. EvidenceKept => CompletedWasVerified
  BY DEF EvidenceKept
<1>. QED
  BY <1>1, <1>2, <1>3, <1>4, RunningInit, TypeCorrect, PTL DEF Spec

-----------------------------------------------------------------------------
(* The budget of attempts.                                                 *)

\* A task that is not under way and may still run has not used its last attempt: its
\* counter stands where it started, or a crash has paid for the next one.
Rested(t) == attempts[t] <= FirstCount[t] \/ attempts[t] < MostAttempts(t) + crashes
UnderWay(t) == t = cur /\ pc \in Entering \cup Attempting
BudgetKept ==
  /\ AttemptsBounded /\ limit \in {MaxAttempts, ResumeAttempts}
  /\ \A t \in Tasks : status[t] \in {"PENDING", "INTERRUPTED", "RUNNING"} =>
       UnderWay(t) \/ Rested(t)
  /\ pc = "increment" => attempt = attempts[cur] \/ Rested(cur)

\* No run gives a task more attempts than its budget.
LEMMA LimitWithinBudget ==
  ASSUME TypeOK, BudgetKept, NEW t \in Tasks
  PROVE  /\ LimitOf(t) \in Nat /\ Budget(t) \in Nat /\ LimitOf(t) <= Budget(t)
         /\ FirstCount[t] \in Nat /\ MostAttempts(t) \in Nat
         /\ Budget(t) <= MostAttempts(t) /\ FirstCount[t] < MostAttempts(t)
BY BoundsAssumption DEF LimitOf, Budget, MostAttempts, BudgetKept

LEMMA BudgetNext ==
  ASSUME TypeOK, RunningIsCurrent, EvidenceKept, BudgetKept, [Next]_vars
  PROVE  BudgetKept'
<1> DEFINE Top(t) == MostAttempts(t)
<1>0. /\ \A t \in Tasks : /\ FirstCount[t] \in Nat /\ Top(t) \in Nat /\ FirstCount[t] < Top(t)
                          /\ LimitOf(t) \in Nat /\ LimitOf(t) <= Top(t)
      /\ \A t \in Tasks : MostAttempts(t)' = Top(t)
      /\ cur \in Tasks /\ attempts \in [Tasks -> Nat] /\ crashes \in Nat /\ attempt \in Nat
      /\ status \in [Tasks -> M!Statuses]
  BY LimitWithinBudget, BoundsAssumption DEF MostAttempts, Budget, TypeOK
<1> HIDE DEF Top
<1>00. \A t \in Tasks : MostAttempts(t) = Top(t)
  BY DEF Top
<1> USE <1>0, <1>00 DEF dbVars, repoVars, runVars, BudgetKept, AttemptsBounded, Rested, UnderWay,
                        Entering, Attempting
<1>1. CASE UNCHANGED vars
  BY <1>1 DEF vars
<1>2. CASE \/ Run \/ Resume \/ SaveDone \/ Preflight \/ ReconcileDone \/ Begin \/ Finish
           \/ UserEdit \/ OperatorCleans
  BY <1>2 DEF Run, Resume, SaveDone, Preflight, ReconcileDone, Begin, Finish, UserEdit,
              OperatorCleans
<1>3. CASE Crash
  BY <1>3 DEF Crash
<1>4. ASSUME NEW t \in Tasks, SaveTask(t) \/ Reconcile(t) \/ Pick(t) PROVE BudgetKept'
  <2>1. CASE SaveTask(t)
    BY <2>1 DEF SaveTask
  <2>2. CASE Reconcile(t)
    BY <2>2 DEF Reconcile
  <2>3. CASE Pick(t)
    BY <2>3 DEF Pick, IsNext, Ready
  <2>. QED
    BY <1>4, <2>1, <2>2, <2>3
<1>5. CASE Increment
  <2>1. attempts[cur] + 1 <= Top(cur) + crashes
    BY <1>5 DEF Increment
  <2>. QED
    BY <1>5, <2>1 DEF Increment
<1>6. CASE MarkRunning \/ Execute \/ RecordExecution \/ Verify \/ RecordVerification
  BY <1>6 DEF MarkRunning, Execute, RecordExecution, Verify, RecordVerification
<1>7. CASE Rollback
  BY <1>7 DEF Rollback, EvidenceKept
<1>8. CASE Exhausted \/ BlockTask \/ Complete
  BY <1>8 DEF Exhausted, BlockTask, Complete
<1>9. CASE NothingToCommit \/ CommitRejected \/ Commit \/ CommitFails \/ RecordSha
  BY <1>9 DEF NothingToCommit, CommitRejected, Commit, CommitFails, RecordSha
<1>. QED
  BY <1>1, <1>2, <1>3, <1>4, <1>5, <1>6, <1>7, <1>8, <1>9, StepCases

\* Over all runs together the counter of a task gets no further than its budget says, its
\* own one or the larger of those of the two commands, and one further for each crash; for
\* any budgets, zero included, and any count a task starts with.
THEOREM AttemptsAreBounded == Spec => []AttemptsBounded
<1>1. Init => EvidenceKept /\ BudgetKept
  BY BoundsAssumption DEF Init, EvidenceKept, CompletedWasVerified, Attempting, BudgetKept,
                          AttemptsBounded, Budget, MostAttempts, Rested
<1>2. TypeOK /\ RunningIsCurrent /\ EvidenceKept /\ BudgetKept /\ [Next]_vars => BudgetKept'
  BY BudgetNext
<1>3. TypeOK /\ RunningIsCurrent /\ EvidenceKept /\ [Next]_vars => RunningIsCurrent' /\ EvidenceKept'
  BY RunningNext, EvidenceNext
<1>4. BudgetKept => AttemptsBounded
  BY DEF BudgetKept
<1>. QED
  BY <1>1, <1>2, <1>3, <1>4, RunningInit, TypeCorrect, PTL DEF Spec

-----------------------------------------------------------------------------
(* Verdicts.                                                               *)

\* If some task can run, one is the first of them in the specification.
LEMMA FirstIsNext == ASSUME NEW t \in Tasks, Ready(t) PROVE \E u \in Tasks : IsNext(u)
<1> DEFINE ranks == {Rank[u] : u \in {v \in Tasks : Ready(v)}}
<1>1. ranks # {} /\ ranks \in SUBSET Nat
  BY TasksAssumption
<1>2. PICK n \in ranks : \A i \in ranks : ~(<<i, n>> \in OpToRel(<, Nat))
  BY <1>1, NatLessThanWellFounded, WFMin
<1>3. PICK u \in Tasks : Ready(u) /\ Rank[u] = n
  BY <1>2
<1>4. ASSUME NEW v \in Tasks, Ready(v) PROVE Rank[u] <= Rank[v]
  <2>1. Rank[v] \in ranks /\ Rank[v] \in Nat /\ n \in Nat
    BY <1>1, <1>2, <1>4
  <2>2. ~(Rank[v] < n)
    BY <1>2, <2>1 DEF OpToRel
  <2>. QED
    BY <1>3, <2>1, <2>2
<1>. QED
  BY <1>3, <1>4 DEF IsNext

\* What is written of a mission that ends is true: with COMPLETE all its tasks are
\* completed, with BLOCKED none of them could run or still does.
THEOREM VerdictsAreTrue == Spec => VerdictIsTrue
<1> DEFINE True ==
      /\ (mission' = "COMPLETE" /\ mission # mission') => \A t \in saved : status[t] = "COMPLETED"
      /\ (mission' = "BLOCKED" /\ mission # mission') =>
           \A t \in saved : ~Ready(t) /\ status[t] # "RUNNING"
<1>1. ASSUME TypeOK, RunningIsCurrent, Next PROVE True
  <2> USE DEF dbVars, repoVars, runVars
  <2>1. CASE Finish
    <3>1. \A t \in Tasks : status[t] # "RUNNING"
      BY <1>1, <2>1 DEF Finish, RunningIsCurrent, Idle, Entering, Attempting
    <3>2. SchedulerState = "COMPLETE" => \A t \in saved : status[t] = "COMPLETED"
      BY DEF SchedulerState
    <3>3. SchedulerState # "COMPLETE" => \A t \in saved : ~Ready(t)
      <4>1. SchedulerState \in {"COMPLETE", "BLOCKED"} \/ ~\E t \in Tasks : Ready(t)
        BY <2>1, FirstIsNext DEF Finish
      <4>2. SchedulerState = "BLOCKED" => \A t \in saved : ~Ready(t)
        BY DEF SchedulerState
      <4>. QED
        BY <1>1, <4>1, <4>2 DEF TypeOK
    <3>4. mission' = IF SchedulerState = "COMPLETE" THEN "COMPLETE" ELSE "BLOCKED"
      BY <2>1 DEF Finish
    <3>. QED
      BY <1>1, <3>1, <3>2, <3>3, <3>4 DEF TypeOK
  <2>2. CASE Run \/ Begin
    BY <1>1, <2>2 DEF Run, Begin, TypeOK
  <2>3. ASSUME NEW t \in Tasks, SaveTask(t) \/ Reconcile(t) \/ Pick(t) PROVE mission' = mission
    BY <2>3 DEF SaveTask, Reconcile, Pick
  <2>4. CASE \/ Resume \/ SaveDone \/ Preflight \/ ReconcileDone \/ Crash \/ UserEdit
             \/ OperatorCleans \/ Increment \/ MarkRunning \/ Execute \/ RecordExecution
    BY <2>4 DEF Resume, SaveDone, Preflight, ReconcileDone, Crash, UserEdit, OperatorCleans,
                Increment, MarkRunning, Execute, RecordExecution
  <2>5. CASE \/ Verify \/ RecordVerification \/ Rollback \/ Exhausted \/ BlockTask \/ Complete
             \/ NothingToCommit \/ CommitRejected \/ Commit \/ CommitFails \/ RecordSha
    BY <2>5 DEF Verify, RecordVerification, Rollback, Exhausted, BlockTask, Complete,
                NothingToCommit, CommitRejected, Commit, CommitFails, RecordSha
  <2>. QED
    BY <1>1, <2>1, <2>2, <2>3, <2>4, <2>5, StepCases
<1>2. TypeOK /\ RunningIsCurrent /\ [Next]_vars => [True]_vars
  BY <1>1
<1>3. TypeOK /\ RunningIsCurrent /\ [Next]_vars => RunningIsCurrent'
  BY RunningNext
<1>. QED
  BY <1>2, <1>3, RunningInit, TypeCorrect, PTL DEF Spec, VerdictIsTrue

-----------------------------------------------------------------------------
(* Commits, where nobody but the executor touches the tree.                *)

Clean == DirtyFiles = {}
\* The tree is clean outside an attempt; within one, all that is dirty is its own and,
\* once it was recorded, in its delta.
OwnWork == PlainEdits =>
  /\ \A p \in Paths : dirt[p] \in {"clean", "changed"}
  /\ staged = {} /\ OnlyOwnWorkCommitted
  /\ pc \in {"reconcile", "begin", "evaluate", "increment", "mark", "execute", "recordSha",
             "exhausted", "block"} => Clean
  /\ pc \in {"execute", "record"} => baseline = {}
  /\ pc \in {"verify", "recordVerify", "rollback", "complete", "commit"} => delta = DirtyFiles
  /\ pc \notin {"down", "save", "preflight"} => \A p \in Paths : whose[p] \subseteq {"attempt"}

\* What a change of the tree can do there.
LEMMA PlainChange ==
  ASSUME TypeOK, PlainEdits, NEW area \in SUBSET Paths, NEW owner, Change(area, owner),
         \A p \in Paths : dirt[p] \in {"clean", "changed"}, staged = {}
  PROVE  /\ \A p \in Paths : dirt'[p] \in {"clean", "changed"}
         /\ staged' = {} /\ \A p \in Paths : whose'[p] \subseteq whose[p] \cup {owner}
         /\ area = {} => dirt' = dirt /\ whose' = whose
<1>0. PICK touched \in SUBSET area : \E new \in [touched -> {"clean", "changed", "deleted", "dir"}] :
        /\ \A p \in touched : new[p] \in Dirts[p] \cup {"clean"}
        /\ dirt' = [p \in Paths |-> IF p \in touched THEN new[p] ELSE dirt[p]]
        /\ whose' = [p \in Paths |->
             IF p \notin touched THEN whose[p]
             ELSE IF new[p] = "clean" THEN {} ELSE whose[p] \cup {owner}]
        /\ staged' = staged \ {p \in touched : new[p] = "clean"}
  BY DEF Change
<1>1. PICK new \in [touched -> {"clean", "changed", "deleted", "dir"}] :
        /\ \A p \in touched : new[p] \in Dirts[p] \cup {"clean"}
        /\ dirt' = [p \in Paths |-> IF p \in touched THEN new[p] ELSE dirt[p]]
        /\ whose' = [p \in Paths |->
             IF p \notin touched THEN whose[p]
             ELSE IF new[p] = "clean" THEN {} ELSE whose[p] \cup {owner}]
        /\ staged' = staged \ {p \in touched : new[p] = "clean"}
  BY <1>0
<1>2. \A p \in Paths : dirt'[p] \in {"clean", "changed"}
  BY <1>1 DEF PlainEdits
<1>3. staged' = {} /\ \A p \in Paths : whose'[p] \subseteq whose[p] \cup {owner}
  BY <1>1
<1>4. area = {} => dirt' = dirt /\ whose' = whose
  BY <1>1 DEF TypeOK
<1>. QED
  BY <1>2, <1>3, <1>4

\* Restoring all that is dirty leaves a clean tree.
LEMMA RestoreAll ==
  ASSUME TypeOK, PreflightCleans, staged = {}, NEW next, Restore(DirtyFiles, next)
  PROVE  /\ \A p \in Paths : dirt'[p] = "clean" /\ whose'[p] = {}
         /\ staged' = {} /\ DirtyFiles' = {}
<1>1. \A p \in Paths : dirt'[p] = "clean"
  BY DEF Restore, DirtyFiles
<1>2. \A p \in Paths : whose'[p] = {}
  BY DEF Restore, DirtyFiles, PreflightCleans
<1>. QED
  BY <1>1, <1>2 DEF Restore, DirtyFiles

LEMMA OwnWorkNext ==
  ASSUME TypeOK, PreflightCleans, OwnWork, PlainEdits, [Next]_vars PROVE OwnWork'
<1> USE PathsAssumption
    DEF dbVars, repoVars, runVars, OwnWork, OnlyOwnWorkCommitted, PlainEdits, Clean, DirtyFiles, TypeOK
<1>1. CASE UNCHANGED vars
  BY <1>1 DEF vars
<1>2. CASE Run \/ Resume \/ SaveDone \/ ReconcileDone \/ Begin
  BY <1>2 DEF Run, Resume, SaveDone, ReconcileDone, Begin
<1>3. CASE Preflight
  BY <1>3 DEF Preflight, PreflightCleans, Orphan
<1>4. CASE Finish \/ CommitRejected \/ Crash
  BY <1>4 DEF Finish, CommitRejected, Crash, Orphan
<1>5. ASSUME NEW t \in Tasks, SaveTask(t) \/ Reconcile(t) \/ Pick(t) PROVE OwnWork'
  BY <1>5 DEF SaveTask, Reconcile, Pick
<1>6. CASE \/ Increment \/ MarkRunning \/ RecordExecution \/ RecordVerification
           \/ Exhausted \/ BlockTask \/ Complete \/ NothingToCommit \/ RecordSha
  BY <1>6 DEF Increment, MarkRunning, RecordExecution, RecordVerification, Exhausted,
              BlockTask, Complete, NothingToCommit, RecordSha
<1>7. CASE Execute
  <2>1. Change(Scope[cur], "attempt") /\ Scope[cur] \in SUBSET Paths
    BY <1>7 DEF Execute
  <2>2. /\ \A p \in Paths : dirt'[p] \in {"clean", "changed"}
        /\ staged' = {} /\ \A p \in Paths : whose'[p] \subseteq whose[p] \cup {"attempt"}
    BY <2>1, PlainChange
  <2>. QED
    BY <1>7, <2>2 DEF Execute
<1>8. CASE Verify \/ UserEdit
  <2>1. \E owner : Change({}, owner)
    BY <1>8 DEF Verify, UserEdit
  <2>2. dirt' = dirt /\ whose' = whose /\ staged' = {}
    BY <2>1, PlainChange
  <2>. QED
    BY <1>8, <2>2 DEF Verify, UserEdit
<1>9. CASE Rollback
  <2>1. {p \in delta : Restorable(p)} = DirtyFiles
    BY <1>9 DEF Rollback, Restorable
  <2>2. Restore(DirtyFiles, "failed")
    BY <1>9, <2>1, Zenon DEF Rollback
  <2>3. /\ \A p \in Paths : dirt'[p] = "clean" /\ whose'[p] = {}
        /\ staged' = {} /\ DirtyFiles' = {}
    BY <2>2, RestoreAll
  <2>. QED
    BY <1>9, <2>3 DEF Rollback
<1>10. CASE Commit
  <2>1. (FilesToStage \cup staged) \cap DirtyFiles = DirtyFiles
    BY <1>10 DEF Commit, FilesToStage
  <2>2. /\ Restore(DirtyFiles, "left")
        /\ landed' = [landed EXCEPT ![cur] = UNION {whose[p] : p \in DirtyFiles}]
    BY <1>10, <2>1, Zenon DEF Commit
  <2>3. /\ \A p \in Paths : dirt'[p] = "clean" /\ whose'[p] = {}
        /\ staged' = {} /\ DirtyFiles' = {}
    BY <2>2, RestoreAll
  <2>4. UNION {whose[p] : p \in DirtyFiles} \subseteq {"attempt"}
    BY <1>10 DEF Commit
  <2>5. \A t \in Tasks : landed'[t] \subseteq {"attempt"}
    BY <2>2, <2>4
  <2>. QED
    BY <1>10, <2>3, <2>5 DEF Commit
<1>11. CASE CommitFails
  BY <1>11 DEF CommitFails, FilesToStage
<1>12. CASE OperatorCleans
  BY <1>12 DEF OperatorCleans, Restore
<1>. QED
  BY <1>1, <1>2, <1>3, <1>4, <1>5, <1>6, <1>7, <1>8, <1>9, <1>10, <1>11, <1>12, StepCases

\* OwnWork holds of every state of the driver.
LEMMA OwnWorkAlways == Spec => []OwnWork
<1>1. Init => OwnWork /\ PreflightCleans
  BY DEF Init, OwnWork, OnlyOwnWorkCommitted, PreflightCleans
<1>2. TypeOK /\ PreflightCleans /\ OwnWork /\ [Next]_vars => OwnWork'
  <2>1. ~PlainEdits => OwnWork'
    BY DEF OwnWork, PlainEdits
  <2>. QED
    BY <2>1, OwnWorkNext
<1>3. TypeOK /\ PreflightCleans /\ [Next]_vars => PreflightCleans'
  BY CleansNext
<1>. QED
  BY <1>1, <1>2, <1>3, TypeCorrect, PTL DEF Spec

\* With executors that edit and create files only, and nobody else in the tree, a commit
\* holds the work of its own attempt and nothing else.
THEOREM CommitsAreOwn == Spec => []OnlyOwnWorkCommitted
<1>1. OwnWork => OnlyOwnWorkCommitted
  BY DEF OwnWork, OnlyOwnWorkCommitted
<1>. QED
  BY <1>1, OwnWorkAlways, PTL

\* And there it leaves none of its work behind.
THEOREM AllWorkIsCommitted == Spec => []WorkIsCommitted
<1>1. OwnWork => WorkIsCommitted
  BY DEF OwnWork, WorkIsCommitted, Clean
<1>. QED
  BY <1>1, OwnWorkAlways, PTL

-----------------------------------------------------------------------------
(* What Mission promises, from DepsAssumption alone, and with it what the  *)
(* driver does.                                                            *)

\* The conjunction is inductive as it stands: a completed dependency can never
\* change again, so no history of the dependencies has to be kept.
MissionInv == M!TypeOK /\ M!OneAtATime /\ M!DependenciesFirst

LEMMA MissionInvInit == M!Init => MissionInv
BY DEF M!Init, MissionInv, M!TypeOK, M!Statuses, M!OneAtATime, M!DependenciesFirst

LEMMA MissionInvNext ==
  ASSUME M!DepsAssumption, MissionInv, [M!Next]_status
  PROVE  MissionInv'
<1> USE DEF M!DepsAssumption, MissionInv, M!TypeOK, M!Statuses, M!OneAtATime,
            M!DependenciesFirst, M!Becomes
<1>1. ASSUME NEW t \in Tasks, M!Begin(t) PROVE MissionInv'
  BY <1>1 DEF M!Begin, M!Ready
<1>2. ASSUME NEW t \in Tasks, M!Complete(t) PROVE MissionInv'
  BY <1>2 DEF M!Complete
<1>3. ASSUME NEW t \in Tasks, M!Interrupt(t) PROVE MissionInv'
  BY <1>3 DEF M!Interrupt
<1>4. ASSUME NEW t \in Tasks, M!Fail(t) PROVE MissionInv'
  BY <1>4 DEF M!Fail, M!Ready
<1>5. ASSUME NEW t \in Tasks, M!Block(t) PROVE MissionInv'
  BY <1>5 DEF M!Block
<1>6. CASE UNCHANGED status
  BY <1>6
<1>7. QED
  BY <1>1, <1>2, <1>3, <1>4, <1>5, <1>6 DEF M!Next

\* Statuses, one task at a time and dependencies first, in every state.
THEOREM MissionSafety ==
  ASSUME M!DepsAssumption
  PROVE  M!Spec => [](M!TypeOK /\ M!OneAtATime /\ M!DependenciesFirst)
<1>1. MissionInv /\ [M!Next]_status => MissionInv'
  BY MissionInvNext
<1>2. QED
  BY <1>1, MissionInvInit, PTL DEF M!Spec, MissionInv

\* No step reopens a completed, failed or blocked task.
THEOREM MissionFinality == ASSUME M!DepsAssumption PROVE M!Spec => M!TerminalIsFinal
<1>1. M!TypeOK /\ [M!Next]_status =>
        [\A t \in Tasks :
           /\ status[t] \in {"COMPLETED", "BLOCKED"} => status'[t] = status[t]
           /\ status[t] = "FAILED" => status'[t] \in {"FAILED", "BLOCKED"}]_status
  <2> SUFFICES ASSUME M!TypeOK, M!Next, NEW t \in Tasks
               PROVE  /\ status[t] \in {"COMPLETED", "BLOCKED"} => status'[t] = status[t]
                      /\ status[t] = "FAILED" => status'[t] \in {"FAILED", "BLOCKED"}
    OBVIOUS
  <2>1. PICK u \in Tasks : M!Begin(u) \/ M!Complete(u) \/ M!Interrupt(u) \/ M!Fail(u) \/ M!Block(u)
    BY DEF M!Next
  <2>2. QED
    BY <2>1 DEF M!TypeOK, M!Begin, M!Ready, M!Complete, M!Interrupt, M!Fail, M!Block, M!Becomes
<1>2. QED
  BY <1>1, MissionSafety, PTL DEF M!Spec, M!TerminalIsFinal

\* So at every moment of a mission, whatever its drivers do: one task runs at a
\* time, a task that was begun has its dependencies completed, and what is
\* completed or blocked is never begun again.
THEOREM DriverKeepsPromises ==
  Spec => [](M!OneAtATime /\ M!DependenciesFirst) /\ M!TerminalIsFinal
<1>1. M!DepsAssumption
  BY TasksAssumption DEF M!DepsAssumption
<1>2. QED
  BY <1>1, DriverImplementsMission, MissionSafety, MissionFinality, PTL DEF ImplementsMission

=============================================================================

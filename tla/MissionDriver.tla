--------------------------- MODULE MissionDriver ---------------------------
(***************************************************************************)
(* The Universal ASC mission driver: MissionDriver.run (src/asc/driver.py) *)
(* with the state database (state.py), the scheduler (dag.py) and the git  *)
(* working tree (repo.py) it works on, through crashes and restarts by     *)
(* "asc run" and "asc resume".                                             *)
(*                                                                         *)
(* One driver at a time: ProjectLock says when the lock gives that.  Each  *)
(* commit to the data base, each call of the executor or the verifier and  *)
(* each change of the working tree is a step; the process may die between  *)
(* any two.                                                                *)
(*                                                                         *)
(* A path of the working tree is abstracted to how git status reports it   *)
(* and to whose changes it carries.                                        *)
(***************************************************************************)
EXTENDS Integers, FiniteSets

CONSTANTS
  Tasks,           \* the tasks of the mission specification
  Deps,            \* Deps[t]: the tasks t depends on
  Rank,            \* Rank[t]: the place of t in the specification
  Verified,        \* tasks that have verification commands
  Paths,           \* paths of the working tree
  Dirts,           \* Dirts[p]: how p can differ from HEAD
  Scope,           \* Scope[t]: paths that the executor may change for t
  CommitPaths,     \* CommitPaths[t]: the paths that t may commit
  Byproducts,      \* paths that verification commands may change
  UserPaths,       \* paths that the user may change at any time
  MaxAttempts,     \* attempts per task of "asc run"
  ResumeAttempts,  \* attempts per task of "asc resume", the default of the driver
  OwnAttempts,     \* OwnAttempts[t]: attempts of a task whose metadata says how many
  FirstCount,      \* FirstCount[t]: the attempt count that its metadata starts t with
  CommitMayFail,   \* whether git commit may fail (a hook, no identity)
  MaxCrashes       \* bound on the number of crashes in a behaviour

ASSUME TasksAssumption ==
  /\ Deps \in [Tasks -> SUBSET Tasks]
  /\ Rank \in [Tasks -> Nat]
  /\ \A t, u \in Tasks : Rank[t] = Rank[u] => t = u
  /\ \A t \in Tasks : \A d \in Deps[t] : Rank[d] < Rank[t]
  /\ Verified \subseteq Tasks
ASSUME PathsAssumption ==
  /\ Dirts \in [Paths -> SUBSET {"changed", "deleted", "dir"}]
  /\ Scope \in [Tasks -> SUBSET Paths]
  /\ CommitPaths \in [Tasks -> SUBSET Paths]
  /\ Byproducts \subseteq Paths
  /\ UserPaths \subseteq Paths
  /\ CommitMayFail \in BOOLEAN
ASSUME BoundsAssumption ==
  /\ MaxAttempts \in Nat /\ ResumeAttempts \in Nat
  /\ OwnAttempts \in [DOMAIN OwnAttempts -> Nat] /\ DOMAIN OwnAttempts \subseteq Tasks
  /\ FirstCount \in [Tasks -> Nat]
  /\ MaxCrashes \in Nat

VARIABLES
  \* the data base
  mission,    \* status column of the mission, "none" before it is saved
  saved,      \* tasks that have a row
  status,     \* status column of the tasks
  attempts,   \* attempt_count column of the tasks
  records,    \* number of attempt records of each task
  evidence,   \* the last attempt record of each task
  sha,        \* tasks that have a commit_sha
  \* the repository
  dirt,       \* how each path differs from HEAD
  whose,      \* whose changes each path carries
  staged,     \* paths that a failed git commit left in the index
  landed,     \* landed[t]: whose changes the commit of t took
  \* the driver process
  pc, limit, cur, attempt, ok, baseline, delta,
  crashes

dbVars   == <<mission, saved, status, attempts, records, evidence, sha>>
repoVars == <<dirt, whose, staged, landed>>
runVars  == <<limit, cur, attempt, ok, baseline, delta>>
vars     == <<dbVars, repoVars, pc, runVars, crashes>>

M == INSTANCE Mission

\* The attempt under way, a failed one, a completed task that did not commit
\* all of its work, verification commands, the user, or an earlier run.
Owners == {"attempt", "failed", "left", "check", "user", "earlier"}
Places == {"down", "save", "preflight", "reconcile", "begin", "evaluate",
           "increment", "mark", "execute", "record", "verify", "recordVerify",
           "rollback", "exhausted", "block", "complete", "commit", "recordSha"}

NoRecord == [attempt |-> 0, stage |-> "none", ok |-> FALSE]

Init ==
  /\ mission = "none" /\ saved = {}
  /\ status = [t \in Tasks |-> "PENDING"]
  /\ attempts = [t \in Tasks |-> 0]
  /\ records = [t \in Tasks |-> 0]
  /\ evidence = [t \in Tasks |-> NoRecord]
  /\ sha = {}
  /\ dirt = [p \in Paths |-> "clean"]
  /\ whose = [p \in Paths |-> {}]
  /\ staged = {}
  /\ landed = [t \in Tasks |-> {}]
  /\ pc = "down" /\ limit = MaxAttempts /\ cur \in Tasks /\ attempt = 0 /\ ok = FALSE
  /\ baseline = {} /\ delta = {}
  /\ crashes = 0

-----------------------------------------------------------------------------
(* The scheduler, dag.py.                                                  *)

\* Mistake: a dependency only must not have failed.
ReadyUnlessFailed(t) ==
  /\ t \in saved
  /\ status[t] \in {"PENDING", "INTERRUPTED"}
  /\ \A d \in Deps[t] : d \in saved /\ status[d] # "FAILED"

\* is_task_ready: a dependency that has no row is not completed.
Ready(t) ==
  /\ t \in saved
  /\ status[t] \in {"PENDING", "INTERRUPTED"}
  /\ \A d \in Deps[t] : d \in saved /\ status[d] = "COMPLETED"

\* evaluate_mission
SchedulerState ==
  IF saved # {} /\ \A t \in saved : status[t] = "COMPLETED" THEN "COMPLETE"
  ELSE IF \E t \in saved : status[t] = "RUNNING" THEN "RUNNING"
  ELSE IF \E t \in saved : Ready(t) THEN "RUNNABLE"
  ELSE "BLOCKED"

\* _get_next_task: the first runnable task in the order of the rows.
IsNext(t) == Ready(t) /\ \A u \in Tasks : Ready(u) => Rank[t] <= Rank[u]

-----------------------------------------------------------------------------
(* The repository, repo.py.                                                *)

\* get_dirty_files
DirtyFiles == {p \in Paths : dirt[p] # "clean"}

\* The paths of fixed are as in HEAD again; what else the attempt under way
\* changed is from now on owned by next.
Restore(fixed, next) ==
  /\ dirt'  = [p \in Paths |-> IF p \in fixed THEN "clean" ELSE dirt[p]]
  /\ whose' = [p \in Paths |->
       IF p \in fixed THEN {}
       ELSE IF "attempt" \in whose[p] THEN (whose[p] \ {"attempt"}) \cup {next}
       ELSE whose[p]]
  /\ staged' = staged \ fixed

\* Changes that owner makes to the paths of area.
Change(area, owner) ==
  \E touched \in SUBSET area : \E new \in [touched -> {"clean", "changed", "deleted", "dir"}] :
    /\ \A p \in touched : new[p] \in Dirts[p] \cup {"clean"}
    /\ dirt' = [p \in Paths |-> IF p \in touched THEN new[p] ELSE dirt[p]]
    /\ whose' = [p \in Paths |->
         IF p \notin touched THEN whose[p]
         ELSE IF new[p] = "clean" THEN {} ELSE whose[p] \cup {owner}]
    /\ staged' = staged \ {p \in touched : new[p] = "clean"}

\* rollback_attempt: a path that does not exist any more is skipped, and an
\* untracked directory is not a file that could be unlinked.
Restorable(p) == dirt[p] = "changed"

\* A process has ended: what it left uncommitted belongs to an earlier run.
Orphan ==
  whose' = [p \in Paths |-> IF whose[p] = {} THEN {} ELSE {"earlier"}]

-----------------------------------------------------------------------------
\* _get_max_attempts: a task's own number of attempts, else that of the run.
LimitOf(t) == IF t \in DOMAIN OwnAttempts THEN OwnAttempts[t] ELSE limit

-----------------------------------------------------------------------------
(* Starting: the constructor and the first half of run().                  *)

\* "asc run": the constructor saves the mission row ...
Run ==
  /\ pc = "down"
  /\ mission' = IF mission = "none" THEN "PENDING" ELSE mission
  /\ limit' = MaxAttempts
  /\ pc' = "save"
  /\ UNCHANGED <<saved, status, attempts, records, evidence, sha, repoVars,
                 cur, attempt, ok, baseline, delta, crashes>>

\* ... and then each task in a transaction of its own, a new row with the attempt
\* count of its metadata; a row that exists keeps its progress.
SaveTask(t) ==
  /\ pc = "save" /\ t \notin saved
  /\ \A u \in Tasks \ saved : Rank[t] <= Rank[u]
  /\ saved' = saved \cup {t}
  /\ attempts' = [attempts EXCEPT ![t] = FirstCount[t]]
  /\ UNCHANGED <<mission, status, records, evidence, sha, repoVars, pc, runVars, crashes>>

SaveDone ==
  /\ pc = "save" /\ saved = Tasks
  /\ pc' = "preflight"
  /\ UNCHANGED <<dbVars, repoVars, runVars, crashes>>

\* "asc resume": the mission as the data base has it, and the driver's own
\* default for the number of attempts.
Resume ==
  /\ pc = "down" /\ mission # "none"
  /\ limit' = ResumeAttempts
  /\ pc' = "preflight"
  /\ UNCHANGED <<dbVars, repoVars, cur, attempt, ok, baseline, delta, crashes>>

\* Mistake: the preflight check is made by the command line only.
PreflightSkipped ==
  /\ pc = "preflight"
  /\ pc' = "reconcile"
  /\ UNCHANGED <<dbVars, repoVars, runVars, crashes>>

\* run(): a working tree that is not clean ends the run before anything else.
Preflight ==
  /\ pc = "preflight"
  /\ IF DirtyFiles = {}
       THEN pc' = "reconcile" /\ UNCHANGED whose
       ELSE pc' = "down" /\ Orphan
  /\ UNCHANGED <<dbVars, dirt, staged, landed, runVars, crashes>>

\* Mistakes: an attempt whose last record is a success is taken for completed; a
\* status that is none; only tasks with attempts left are reconciled.
ReconcileTrusting(t) ==
  /\ pc = "reconcile" /\ t \in saved /\ status[t] = "RUNNING"
  /\ status' = [status EXCEPT ![t] = IF evidence[t].ok THEN "COMPLETED" ELSE "INTERRUPTED"]
  /\ UNCHANGED <<mission, saved, attempts, records, evidence, sha, repoVars, pc, runVars, crashes>>
ReconcileAborted(t) ==
  /\ pc = "reconcile" /\ t \in saved /\ status[t] = "RUNNING"
  /\ status' = [status EXCEPT ![t] = "ABORTED"]
  /\ UNCHANGED <<mission, saved, attempts, records, evidence, sha, repoVars, pc, runVars, crashes>>
ReconcileSome(t) ==
  /\ pc = "reconcile" /\ t \in saved /\ status[t] = "RUNNING" /\ records[t] < LimitOf(t)
  /\ status' = [status EXCEPT ![t] = "INTERRUPTED"]
  /\ UNCHANGED <<mission, saved, attempts, records, evidence, sha, repoVars, pc, runVars, crashes>>

\* _reconcile_stale_tasks: a task that is still RUNNING was interrupted; the
\* attempt records, of which an attempt may write two, decide what it becomes.
Reconcile(t) ==
  /\ pc = "reconcile" /\ t \in saved /\ status[t] = "RUNNING"
  /\ status' = [status EXCEPT ![t] = IF records[t] < LimitOf(t) THEN "INTERRUPTED" ELSE "FAILED"]
  /\ UNCHANGED <<mission, saved, attempts, records, evidence, sha, repoVars, pc, runVars, crashes>>

\* Mistake: no task is reconciled.
ReconcileNone ==
  /\ pc = "reconcile"
  /\ pc' = "begin"
  /\ UNCHANGED <<dbVars, repoVars, runVars, crashes>>

ReconcileDone ==
  /\ pc = "reconcile" /\ \A t \in saved : status[t] # "RUNNING"
  /\ pc' = "begin"
  /\ UNCHANGED <<dbVars, repoVars, runVars, crashes>>

Begin ==
  /\ pc = "begin"
  /\ mission' = "RUNNING"
  /\ pc' = "evaluate"
  /\ UNCHANGED <<saved, status, attempts, records, evidence, sha, repoVars, runVars, crashes>>

-----------------------------------------------------------------------------
(* The loop of run().                                                      *)

\* The next task enters _execute_task_with_retry with a local attempt of 0; one
\* that may not be attempted at all fails there without having run.
Pick(t) ==
  /\ pc = "evaluate" /\ SchedulerState \in {"RUNNABLE", "RUNNING"} /\ IsNext(t)
  /\ cur' = t /\ attempt' = 0 /\ delta' = {}
  /\ pc' = IF LimitOf(t) > 0 THEN "increment" ELSE "exhausted"
  /\ UNCHANGED <<dbVars, repoVars, limit, ok, baseline, crashes>>

\* The loop ends, with the verdict of the scheduler or because no task can be
\* picked; anything but COMPLETE is written as BLOCKED.
Finish ==
  /\ pc = "evaluate"
  /\ SchedulerState \in {"COMPLETE", "BLOCKED"} \/ ~\E t \in Tasks : IsNext(t)
  /\ mission' = IF SchedulerState = "COMPLETE" THEN "COMPLETE" ELSE "BLOCKED"
  /\ Orphan
  /\ pc' = "down"
  /\ UNCHANGED <<saved, status, attempts, records, evidence, sha, dirt, staged, landed, runVars, crashes>>

-----------------------------------------------------------------------------
(* _execute_task_with_retry                                                *)

\* Mistake: every run counts its attempts from one.
IncrementLocal ==
  /\ pc = "increment" /\ attempt < LimitOf(cur)
  /\ attempts' = [attempts EXCEPT ![cur] = @ + 1]
  /\ attempt' = attempt + 1
  /\ pc' = "mark"
  /\ UNCHANGED <<mission, saved, status, records, evidence, sha, repoVars,
                 limit, cur, ok, baseline, delta, crashes>>

\* "while attempt < max_attempts": the durable counter becomes the local one.
Increment ==
  /\ pc = "increment" /\ attempt < LimitOf(cur)
  /\ attempts' = [attempts EXCEPT ![cur] = @ + 1]
  /\ attempt' = attempts[cur] + 1
  /\ pc' = "mark"
  /\ UNCHANGED <<mission, saved, status, records, evidence, sha, repoVars,
                 limit, cur, ok, baseline, delta, crashes>>

MarkRunning ==
  /\ pc = "mark"
  /\ status' = [status EXCEPT ![cur] = "RUNNING"]
  /\ baseline' = DirtyFiles
  /\ pc' = "execute"
  /\ UNCHANGED <<mission, saved, attempts, records, evidence, sha, repoVars,
                 limit, cur, attempt, ok, delta, crashes>>

\* adapter.execute: whatever the executor does to the paths of the task, and
\* an exit code (a timeout is exit code 124, a failure).
Execute ==
  /\ pc = "execute"
  /\ Change(Scope[cur], "attempt")
  /\ ok' \in BOOLEAN
  /\ pc' = "record"
  /\ UNCHANGED <<dbVars, landed, limit, cur, attempt, baseline, delta, crashes>>

AddRecord(stage) ==
  /\ records' = [records EXCEPT ![cur] = @ + 1]
  /\ evidence' = [evidence EXCEPT ![cur] = [attempt |-> attempt, stage |-> stage, ok |-> ok]]

\* record_attempt for the execution, then the delta of the attempt.
RecordExecution ==
  /\ pc = "record"
  /\ AddRecord("execute")
  /\ delta' = DirtyFiles \ baseline
  /\ pc' = IF ~ok THEN "rollback" ELSE IF cur \in Verified THEN "verify" ELSE "complete"
  /\ UNCHANGED <<mission, saved, status, attempts, sha, repoVars,
                 limit, cur, attempt, ok, baseline, crashes>>

\* run_verification, whose commands may leave files behind; they come after
\* the delta was taken.
Verify ==
  /\ pc = "verify"
  /\ Change(Byproducts, "check")
  /\ ok' \in BOOLEAN
  /\ pc' = "recordVerify"
  /\ UNCHANGED <<dbVars, landed, limit, cur, attempt, baseline, delta, crashes>>

RecordVerification ==
  /\ pc = "recordVerify"
  /\ AddRecord("verify")
  /\ pc' = IF ok THEN "complete" ELSE "rollback"
  /\ UNCHANGED <<mission, saved, status, attempts, sha, repoVars, runVars, crashes>>

\* Mistake: only a failed verification is rolled back.
RollbackVerified ==
  /\ pc = "rollback"
  /\ Restore(IF evidence[cur].stage = "verify" THEN {p \in delta : Restorable(p)} ELSE {}, "failed")
  /\ pc' = IF attempt < LimitOf(cur) THEN "increment" ELSE "exhausted"
  /\ UNCHANGED <<dbVars, landed, runVars, crashes>>

\* rollback_attempt(task_delta); what it does not restore stays behind.
Rollback ==
  /\ pc = "rollback"
  /\ Restore({p \in delta : Restorable(p)}, "failed")
  /\ pc' = IF attempt < LimitOf(cur) THEN "increment" ELSE "exhausted"
  /\ UNCHANGED <<dbVars, landed, runVars, crashes>>

\* The attempts are used up: FAILED, written once here and once more by run().
Exhausted ==
  /\ pc = "exhausted"
  /\ status' = [status EXCEPT ![cur] = "FAILED"]
  /\ pc' = "block"
  /\ UNCHANGED <<mission, saved, attempts, records, evidence, sha, repoVars, runVars, crashes>>

\* _block_task
BlockTask ==
  /\ pc = "block"
  /\ status' = [status EXCEPT ![cur] = "BLOCKED"]
  /\ pc' = "evaluate"
  /\ UNCHANGED <<mission, saved, attempts, records, evidence, sha, repoVars, runVars, crashes>>

-----------------------------------------------------------------------------
(* _complete_task                                                          *)

\* The task is COMPLETED in the data base before anything is committed.
Complete ==
  /\ pc = "complete"
  /\ status' = [status EXCEPT ![cur] = "COMPLETED"]
  /\ pc' = "commit"
  /\ UNCHANGED <<mission, saved, attempts, records, evidence, sha, repoVars, runVars, crashes>>

\* Mistake: paths outside the commit scope are dropped instead of rejected.
FilesInScope == (IF delta # {} THEN delta ELSE DirtyFiles) \cap CommitPaths[cur]

\* commit_scoped stages the delta, or everything dirty if the delta is empty.
FilesToStage == IF delta # {} THEN delta ELSE DirtyFiles

NothingToCommit ==
  /\ pc = "commit" /\ DirtyFiles = {}
  /\ pc' = "evaluate"
  /\ UNCHANGED <<dbVars, repoVars, runVars, crashes>>

\* commit_scoped raises ValueError, which ends the run; the task stays
\* COMPLETED and its work stays in the working tree.
CommitRejected ==
  /\ pc = "commit" /\ DirtyFiles # {} /\ ~(FilesToStage \subseteq CommitPaths[cur])
  /\ Orphan
  /\ pc' = "down"
  /\ UNCHANGED <<dbVars, dirt, staged, landed, runVars, crashes>>

\* git commit takes the whole index, what an earlier failed commit staged too.
Commit ==
  /\ pc = "commit" /\ FilesToStage \subseteq CommitPaths[cur]
  /\ LET taken == (FilesToStage \cup staged) \cap DirtyFiles IN
     /\ taken # {}
     /\ landed' = [landed EXCEPT ![cur] = UNION {whose[p] : p \in taken}]
     /\ Restore(taken, "left")
  /\ pc' = "recordSha"
  /\ UNCHANGED <<dbVars, runVars, crashes>>

\* git commit fails, or finds nothing to commit: what was staged stays staged
\* and the task goes on without a commit_sha.
CommitFails ==
  /\ pc = "commit" /\ DirtyFiles # {} /\ FilesToStage \subseteq CommitPaths[cur]
  /\ CommitMayFail \/ (FilesToStage \cup staged) \cap DirtyFiles = {}
  /\ whose' = [p \in Paths |->
       IF "attempt" \in whose[p] THEN (whose[p] \ {"attempt"}) \cup {"left"} ELSE whose[p]]
  /\ staged' = staged \cup (FilesToStage \cap DirtyFiles)
  /\ pc' = "evaluate"
  /\ UNCHANGED <<dbVars, dirt, landed, runVars, crashes>>

RecordSha ==
  /\ pc = "recordSha"
  /\ sha' = sha \cup {cur}
  /\ pc' = "evaluate"
  /\ UNCHANGED <<mission, saved, status, attempts, records, evidence, repoVars, runVars, crashes>>

-----------------------------------------------------------------------------
(* The environment.                                                        *)

\* The process is killed, or an exception of the executor escapes run(): the
\* data base keeps what was committed to it, the working tree what was written.
Crash ==
  /\ pc # "down" /\ crashes < MaxCrashes
  /\ crashes' = crashes + 1
  /\ Orphan
  /\ pc' = "down"
  /\ UNCHANGED <<dbVars, dirt, staged, landed, runVars>>

\* The user works in the repository at the same time.  What the user changes
\* while the executor runs is part of Execute: nothing tells the two apart.
UserEdit ==
  /\ pc \notin {"execute", "record"}
  /\ Change(UserPaths, "user")
  /\ UNCHANGED <<dbVars, landed, pc, runVars, crashes>>

\* Between runs the operator commits, stashes or discards what is dirty.
OperatorCleans ==
  /\ pc = "down" /\ DirtyFiles # {}
  /\ Restore(Paths, "left")
  /\ UNCHANGED <<dbVars, landed, pc, runVars, crashes>>

Startup  == Run \/ Resume
Progress ==
  \/ SaveDone \/ Preflight \/ ReconcileDone \/ Begin \/ Finish
  \/ \E t \in Tasks : SaveTask(t) \/ Reconcile(t) \/ Pick(t)
  \/ Increment \/ MarkRunning \/ Execute \/ RecordExecution \/ Verify
  \/ RecordVerification \/ Rollback \/ Exhausted \/ BlockTask
  \/ Complete \/ NothingToCommit \/ CommitRejected \/ Commit \/ CommitFails \/ RecordSha

Next == Startup \/ Progress \/ Crash \/ UserEdit \/ OperatorCleans

Spec == Init /\ [][Next]_vars

\* A started driver is scheduled; the operator starts it again, with "asc run",
\* after it ended, and cleans the working tree that keeps it from running.
FairSpec == Spec /\ WF_vars(Progress) /\ SF_vars(Run) /\ SF_vars(OperatorCleans)

-----------------------------------------------------------------------------
\* Every variable has its type.
TypeOK ==
  /\ mission \in {"none", "PENDING", "RUNNING", "COMPLETE", "BLOCKED"}
  /\ saved \subseteq Tasks /\ sha \subseteq Tasks
  /\ status \in [Tasks -> M!Statuses]
  /\ attempts \in [Tasks -> Nat] /\ records \in [Tasks -> Nat]
  /\ evidence \in [Tasks -> [attempt : Nat, stage : {"none", "execute", "verify"}, ok : BOOLEAN]]
  /\ dirt \in [Paths -> {"clean", "changed", "deleted", "dir"}]
  /\ whose \in [Paths -> SUBSET Owners]
  /\ staged \subseteq Paths
  /\ landed \in [Tasks -> SUBSET Owners]
  /\ pc \in Places
  /\ limit \in Nat /\ cur \in Tasks /\ attempt \in Nat /\ ok \in BOOLEAN
  /\ baseline \subseteq Paths /\ delta \subseteq Paths
  /\ crashes \in 0..MaxCrashes

\* The driver, whatever crashes and restarts it goes through, runs one task at
\* a time, each after its dependencies, and never reopens a finished one.
ImplementsMission == M!Spec

\* A completed task was executed and verified in the attempt that the data base
\* counts last; no record of an older attempt, nor one of an execution that
\* still had to be verified, is taken for it after a crash.
CompletedWasVerified ==
  \A t \in Tasks : status[t] = "COMPLETED" =>
    evidence[t] = [attempt |-> attempts[t],
                   stage |-> IF t \in Verified THEN "verify" ELSE "execute",
                   ok |-> TRUE]

\* The attempts that t may have: its own number, or the larger of the budgets of
\* the two commands.
Budget(t) ==
  IF t \in DOMAIN OwnAttempts THEN OwnAttempts[t]
  ELSE IF MaxAttempts > ResumeAttempts THEN MaxAttempts ELSE ResumeAttempts

\* What it may count to; a count that starts at the budget allows one attempt.
MostAttempts(t) == IF Budget(t) > FirstCount[t] THEN Budget(t) ELSE FirstCount[t] + 1

\* The durable counter bounds the attempts over all runs by the budget of the
\* task, its own one where its metadata names one: only a crash gives one more.
AttemptsBounded == \A t \in Tasks : attempts[t] <= MostAttempts(t) + crashes

\* When run() writes the outcome of the mission, it is true of the tasks: all
\* completed, or nothing left to run, the tasks of a crashed run included.
VerdictIsTrue ==
  [][/\ (mission' = "COMPLETE" /\ mission # mission') =>
          \A t \in saved : status[t] = "COMPLETED"
     /\ (mission' = "BLOCKED" /\ mission # mission') =>
          \A t \in saved : ~Ready(t) /\ status[t] # "RUNNING"]_vars

\* Whatever a crash or a rejected commit left in the working tree, no commit of
\* a later run contains it: a task's commit never carries unverified work of a
\* dead attempt.
EarlierWorkNeverCommitted == \A t \in Tasks : "earlier" \notin landed[t]

\* Where executors only edit and create files, verification and users change
\* nothing, and git commit works, a commit contains the work of its own
\* successful attempt and nothing else, whatever failed or crashed before.
PlainEdits ==
  /\ \A p \in Paths : Dirts[p] = {"changed"}
  /\ Byproducts = {} /\ UserPaths = {} /\ ~CommitMayFail
OnlyOwnWorkCommitted == PlainEdits => \A t \in Tasks : landed[t] \subseteq {"attempt"}

\* Nor is any of it lost: in such a repository a task that is done with its
\* commit leaves nothing of its work uncommitted behind.
WorkIsCommitted ==
  (PlainEdits /\ pc \in {"recordSha", "evaluate", "increment", "mark"}) => DirtyFiles = {}

\* The inductive invariant behind ImplementsMission: where a task may be RUNNING
\* while the driver is at each place.
Idle      == {"down", "save", "preflight", "reconcile"}
Between   == {"begin", "evaluate", "block", "commit", "recordSha"}
Entering  == {"increment", "mark", "exhausted"}
Attempting == {"execute", "record", "verify", "recordVerify", "rollback", "complete"}
RunningIsCurrent ==
  /\ \A t \in Tasks : status[t] # "PENDING" => t \in saved
  /\ \A t \in Tasks : status[t] = "RUNNING" =>
       pc \in Idle \/ (t = cur /\ pc \in Entering \cup Attempting)
  /\ \A t, u \in Tasks : status[t] = "RUNNING" /\ status[u] = "RUNNING" => t = u
  /\ pc \in Entering => status[cur] \in {"PENDING", "INTERRUPTED", "RUNNING"}
  /\ pc \in Entering \cup Attempting =>
       cur \in saved /\ \A d \in Deps[cur] : status[d] = "COMPLETED"
  /\ pc \in Attempting => status[cur] = "RUNNING"
  /\ pc = "block" => status[cur] = "FAILED"

\* The one behind EarlierWorkNeverCommitted: the preflight check leaves nothing
\* of an earlier run behind.
PreflightCleans ==
  /\ \A p \in Paths : dirt[p] = "clean" => whose[p] = {}
  /\ pc \notin {"down", "save", "preflight"} => \A p \in Paths : "earlier" \notin whose[p]

\* An operator who restarts the driver, and cleans the tree when that is what
\* keeps it from running, always gets an outcome again.
MissionSettles == []<>(pc = "down" /\ mission \in {"COMPLETE", "BLOCKED"})

\* "reconciles stale RUNNING tasks to INTERRUPTED (runnable) if attempt budget
\* remains" (docs/ASC_ORCHESTRATOR_FINALIZATION_REPORT.md:44).
BudgetLeftIsKept ==
  [][\A t \in Tasks :
       (pc = "reconcile" /\ status[t] = "RUNNING" /\ status'[t] = "FAILED")
         => attempts[t] >= LimitOf(t)]_vars

\* "Unrelated working tree changes are never staged into task Git commits"
\* (docs/ASC_ORCHESTRATOR_FINALIZATION_REPORT.md:75).
UserWorkNeverCommitted == \A t \in Tasks : "user" \notin landed[t]
=============================================================================

# ASC Orchestrator: specifications, model checking and proofs

The repository holds two programs. `src/asc` is the Universal ASC driver: it runs the
tasks of a mission one after the other in a git repository, with retries, verification
and a commit per task. `src/asc_orchestrator` is the older governance stack: a durable
state store (PESE) and the engines that keep their state in it. This directory models
the parts of both whose correctness depends on orders of steps that tests hardly reach:
crashes between two durable writes, processes that interleave, leases and locks that
expire, states that are checked in one load and changed in another, and work that an
interrupted run leaves behind.

## Inventory

### The Universal ASC driver, `src/asc`

| Component | State it keeps | Operations | What makes it correct |
|---|---|---|---|
| Project lock (`lock.py`) | `.asc/mission.lock`: a process id and a time stamp | acquire, release, is_locked | one driver per repository; no file left by a crash locks it for ever |
| Task graph (`dag.py`) | none | is_task_ready, get_runnable_tasks, evaluate_mission | a task is ready only after its dependencies; the verdict is true |
| Mission driver (`driver.py`) | mission and task under way, attempt counter, baseline and delta of the working tree | run: preflight, reconcile, loop; execute with retry; complete; block | one task at a time, bounded attempts, evidence for what is COMPLETED |
| State data base (`state.py`) | SQLite rows of missions, tasks, attempt records and events, each write a transaction of its own | save, update, record, query | a row survives a crash; progress is never reset by saving again |
| Repository (`repo.py`) | working tree, index and HEAD of git | status, delta, rollback_attempt, commit_scoped | a commit holds the work of its task and nothing else |
| Verifier and adapters (`verifier.py`, `adapters/`) | none; child processes | execute, run_verification | exit codes and time-outs are failures of the attempt |
| Specification parser and models (`spec.py`, `models.py`) | none | parse, validate | dependencies exist, come first and form no cycle |
| Command line (`cli.py`) | none | init, run, resume, status, ... | the two ways to start a driver |
| Events, console, release (`events.py`, `console.py`, `release.py`) | event rows | emit, render | output only |

`asc run` and `asc resume` build a driver; the driver takes the project lock, reads and
writes the data base, calls an adapter and the verifier, and has the repository roll back
or commit. Two drivers meet only in the lock file. The executor works in the same tree
as git and the user, so what a commit takes depends on what everybody left there.

### The governance stack, `src/asc_orchestrator`

| Component | State it keeps | Operations | What makes it correct |
|---|---|---|---|
| PESE (`pese.py`) | `state/live.json`, `state/history/<n>.json`, writer lock with a lease, two audit streams with append locks, checkpoints, migration journals | initialize, load, validate, update, checkpoint, recover, migrate, resume, reconcile_repository | the history is an append-only chain; readers see a published revision; a crash is repairable |
| EEF (`execution.py`) | missions, sessions and assignments in the PESE state; an event journal | start, pause, resume, cancel, complete, update_milestone | work is open only under an active mission; dependents are woken |
| AEX (`aex.py`) | assignments in the PESE state; `result.json` files | dispatch, complete, fail, block, unblock | work begins after what it depends on; a result is that of completed work |
| AGC (`agent.py`) | agents in the PESE state | register, activate, ready, assign, start, complete, block, unblock, fail, quarantine, replace, release | an agent out of service stays there |
| REC (`recovery.py`) | recovery records in the PESE state | diagnose, run: up to nine updates one after the other | an agent is replaced once; a record that says COMPLETED is true |
| VAL (`validation.py`) | gates and digests of evidence in the PESE state | start, verdict, invalidate | a verdict is about the evidence as it is, and final |
| RKM (`risk.py`) | risks in the PESE state | open, mitigate, accept, resolve, halt, evaluate | a settled risk stays settled; a hold is seen |
| AWS (`aws.py`) | the cycle record in the PESE state, a lock file per process | schedule, tick, enable, disable | a hold stops it; a mission without trouble is carried to validation |
| CKS (`keys.py`) | one key file, status journal and signing ledger per key | create, issue, rotate, revoke, sign, validate | a retired key is never used again; a chain is never broken |
| Audit, health (`audit.py`, `health.py`), EEF events | hash-chained journals under a file lock | append, observe | a chain is never broken |
| ETR (`etr.py`), ACP (`acp.py`) | channels and envelopes in the PESE state, envelope files | bind, seal, open, revoke | a retired key or channel is silent; an envelope is opened once |
| TBE (`tbe.py`) | none; its result is bound to PESE | build a team from a contract | work is ordered; nobody judges their own work |
| MSS, registry, configuration | documents | validate | shape checks |
| Legacy command line and release (`cli.py`, `release.py`) | none | arguments, packaging | none of its own |

All engines reach durable state through `PESEStore.update(expected_revision=...)`, and all
in the same way: a call loads the state, checks its precondition and plans a mutation,
then loads AGAIN and updates with the revision of the second load. The expected revision
therefore protects the last two steps and not the check. What this lets through is the
common theme of the modules from `PESEState` on. AWS calls every other engine; REC calls
AGC; ETR calls CKS; the rest meet only in the state.

### Hard behaviours

* Interleaving: two acquisitions of the project lock; a reader beside a writer; two
  recoverers and one stale lock; an engine call that is applied to a state it never saw;
  two recoveries of one agent; a key that is rotated while it signs.
* Crashes: between any two data base commits of the driver; between history, live alias
  and audit entry of PESE; between the updates of a recovery; between the status
  journal and the ledger of a key; in the middle of a line.
* Time: lock records that expire under a living driver, leases nobody renews, process
  ids that come back.
* Partial failure: a rollback that cannot restore a path, a commit that fails after it
  staged, a checkpoint that is refused after its revision was published, a result that is
  written after the update that announced it.
* The world outside: files of evidence and a repository that change under a verdict.
* Long sequences of legal calls: crash, resume with another budget, retry, fail, clean
  up, run again; pause, resume and dispatch in any order.
* Liveness of a priority list: a scheduler that decides for ever what its engine refuses.

`PROJECT.json` lists them one by one with the line where each bites and the properties
that speak of it.

## The modules

| Module | Composes | Code |
|---|---|---|
| `ProjectLock` | | `asc/lock.py` and its calls |
| `Mission` | | abstract specification of a mission |
| `MissionDriver` | implements `Mission` | `asc/driver.py`, `dag.py`, `state.py`, `repo.py`, `cli.py` |
| `RevisionLog` | | abstract specification of the store |
| `PESEStore` | implements `RevisionLog` | `pese.py`: files and locks |
| `PESEState` | | `pese.py`: content of a revision, checks of `update`, `resume`; binding of a team |
| `Execution` | `PESEState` | `execution.py`, `aex.py` |
| `Agents` | `PESEState` | `agent.py`, `recovery.py` |
| `Gates` | `PESEState` | `validation.py`, `risk.py`, `reconcile_repository` |
| `Scheduler` | `Execution`, `Agents`, `Gates` | `aws.py` |
| `Journals` | | `keys.py`, `audit.py`, the event files |
| `Transport` | `Journals` | `etr.py` |
| `Teams` | | `tbe.py` |

A module `X_proofs` holds the proofs about `X` and about what `X` is built on and nothing
else proves: `MissionDriver_proofs` and `PESEStore_proofs` also about their abstract
specifications, `Transport_proofs` about `Journals`, `Scheduler_proofs` about `Agents`. A
module `MCX` is the small instance for TLC.
A definition whose comment begins with "Mistake:" is a plausible bug, kept beside the
definition it would replace; no specification uses one.

### ProjectLock (`lock.py`, and `driver.py` where it calls it)

One driver has a `pc` and each file system call of `acquire` and `release` is an action:
`exists`, `read_text`, truncation, the write, `unlink`. `lockFile` is absent, torn
(empty or half written) or a record with a process id and an age. A driver may crash at
any step; a later driver may get the process id of a dead one, and foreign processes
come and go with ids of their own. All drivers belong to one user: for a process of another
one `os.kill` fails, and `is_process_running` takes every failure for "not running", so that a
foreign process of another user is like an id not in use, and drivers of two users are beyond
what the lock is modelled for. `since` and `contested` are history variables: how
long a driver has been running, and whether its acquisition met another acquire or
release.

The protocol is check-then-write and does not exclude two drivers as it stands.
`QuietExclusion` states what it does give: two drivers run together only if one of them
met another acquisition, or has outlived the stale threshold of one hour. `StatusSeesDriver`
is the other half: as long as neither happened the lock file is the driver's own record.
`ProjectIsNeverWedged` says that no torn or orphaned file keeps all drivers out.

### Mission, MissionDriver (`driver.py`, `dag.py`, `state.py`, `repo.py`, `cli.py`)

`Mission` is the abstract specification: tasks run one at a time, after their
dependencies, and what is finished stays so. `MissionDriver` is the program: the places
of `pc` are the statements of `run`, `_execute_task_with_retry` and `_complete_task`
between two durable effects; the data base columns are variables that survive a crash,
the local variables of the driver are not read again after one. A path of the tree is
abstracted to how git status reports it (`clean`, `changed`, `deleted`, `dir` for an
untracked directory) and to whose changes it carries (`whose`): the attempt under way, a
failed attempt, verification commands, the user, or a run that has ended. `staged` is
what a failed `git commit` left in the index. `landed[t]` collects whose changes the
commit of `t` took.

`ImplementsMission` is the refinement of `Mission`, through every crash and restart.
The number of attempts of a task is that of its own metadata, else that of the run
(`LimitOf`, which the retry loop and `Reconcile` both ask); its counter starts at what its
metadata says (`FirstCount`). `AttemptsBounded` is about the budget the task really has
(`Budget`: its own one, else the larger of the two commands'; `MostAttempts`: a count that
starts at the budget or above it allows one attempt, since the loop compares a local counter
that begins at 0). A task whose budget is 0 is never attempted and fails when it is picked.

`CompletedWasVerified` relates a COMPLETED task to its last durable record, and
`VerdictIsTrue` the status of the mission to the rows of its tasks. The repository
properties say that a commit never takes what an earlier run left behind
(`EarlierWorkNeverCommitted`), and that with well-behaved executors it takes exactly the
work of its own attempt (`OnlyOwnWorkCommitted`, `WorkIsCommitted`).

### RevisionLog, PESEStore (`pese.py`)

`RevisionLog` is the abstract store: a growing chain of revisions, and a set of reported
updates that are in it for ever. `PESEStore` has `update`, `load` and `recover` as
sequences of file system calls of several processes: the exclusive creation of the lock
and its content are two steps, so is an audit entry, `os.replace` is one; the lease of a
held lock may end at any time. An envelope is abstracted to its number, its writer and
the writer of its predecessor, which stands for the predecessor's hash. A process that
dies leaves its locks to `Dead` and its half-written entries torn. The log of
`RevisionLog` is the history and its acknowledged updates are those that returned
UPDATED.

The takeover of a stale lock is not safe against a second recoverer (see the findings),
so the safety properties are stated under `SoleRecoverer`: at most one process calls
`recover`. Under it, whoever works under the lock owns it (`WriterExclusion`), the
history is the log (`ImplementsLog`), `live.json` is at most the one unfinished
publication behind (`LiveLagsByOne`), and no transition audit entry speaks of a revision
that was not published (`AuditIsOfHistory`).

### PESEState (`pese.py`)

The content of the highest revision as one record `state`: status of each mission,
session, assignment, agent, gate and risk, the active mission and its milestone. The
module has what PESE itself does with that content: the transition tables, the authority
rules, the relations between rows that `update` demands (`ShapeOK`), the computed
milestone and the plan of `resume`. Constants are the rows nobody changes: owners,
dependencies, phases, validators, severities. The operations stand on the store as
`PESEStore` and `RevisionLog` describe it: a successful update is one step here.

`Plan` is the first half of an engine call, `Update` the second. A call that has planned
while another one updates is in `overtaken`; an update from such a call counts in `races`,
which `MaxRaces` bounds. So a property that begins with `races = 0` says what holds as
long as no call acts on a state that has been overtaken, and one without says what
survives any order of calls. Between the two stands `EndsOvertaken(it)`: a call about `it` ends
that had looked at it before the last update. Finality cannot survive such a call, which
writes what it had decided, and survives everything else. `kept` are the missions with a
checkpoint: `Commit` writes the checkpoint that a transition demands (`Mandatory`,
`Checkpointed`), and `resume` has no plan for a mission without one (`MISSING_CHECKPOINT`).
A process that dies between the revision and its checkpoint is modelled where it can matter,
at the start of a mission. `Abandon` is the end of a call without effect: a conflict, a
busy lock, a refused transition or a dead process. `Bind` is `bind_manifest_to_pese`.

### Execution (`execution.py`, `aex.py`)

EEF moves a mission, AEX its assignments. `pause`, `cancel` and `finish` carry the rows that
were found in the first load; `complete` promotes dependents in the update itself. `results`
are the files that AEX writes after the update. `NoLostPromotion` holds under any races;
`WorkOnlyWhileActive`, `DependenciesRespected`, `ValidatedWorkIsDone` and `ResultIsOfCompleted`
need that no call was overtaken: an overtaking pause or cancel does break them, as the code
stands. `FinalStays` needs only that it is not an overtaken call about the very mission or
assignment. `DependenciesRespected` needs also that the mission was not resumed from a pause
(`resumed` is the history of that).

### Agents (`agent.py`, `recovery.py`)

Each AGC operation is a check and an update; PESE has no transition table for agents, so the
engine's check is all there is. A recovery is a process's `run`: open the record, quarantine,
release, register, activate, verify, ready and claim, each an AGC call of its own, between the
updates that create and close its record; any may be refused and the process may die after any
of them. The replacement gets any name that is free: one that REC suggests or one that the
caller gives (`Spares`); a name in use is refused at the registration, as one that is taken
meanwhile is. The two loads before the first update, which change nothing, are one. `records`
is the table of recovery records, whose identifiers are computed from its length. Two processes
can compute the same identifier, and the later record takes the place of the earlier; a mission
that is bound afterwards brings its agents back to READY, whatever a recovery did to them. Two
history fields of a record tell these cases from the others: `shared`, that another recovery
holds or held the identifier, and `bound`, the missions that were bound when the record was
written. `Replaced(i)`, a completed recovery whose record is not shared and whose agent was not
bound since, is the premise of both properties. Without it they are false: two recoverable
agents suffice for the first (`AgentsPair` has them and holds with the premise, and `AgentsIds`
shows the record that is lost), a manifest that binds a released agent for the second.

### Gates (`validation.py`, `risk.py`, `reconcile_repository` of `pese.py`)

A gate has one file of evidence whose content (`disk`) anybody may change at any time; a GREEN
verdict seals the content it has hashed (`sealed`). The validator hashes before the update and
`update` hashes again (`Green`; `GreenUnread` is the mistake of not doing so). The revision is
published after that second hash, and nothing keeps the file as it is until then: `Seal` lets
it change in the same step, so that the verdict may be about content that is gone when it
appears. What the second hash does give is `OnlyEditsShutTheStore`. Every `load` validates
every revision, so while a sealed file differs from its digest nothing can be loaded
(`Loadable`). `diverged` says that HEAD, branch or tree no longer are what the gate was bound
to. Risks are opened, mitigated, accepted, resolved or halt the system; `Hold` is what RKM
calls a hold. `VerdictsStay` says that a settled gate or risk stays settled, but for an
overtaken call about that very one: PESE has no table for risks, so a late resolve does rewrite
HALT.

### Scheduler (`aws.py`)

The composition: ticks over all engines, beside an operator and agents that work, fail
and validate. A tick is several steps: the first load with its fallback decision, the
look at holds, at failed agents, at work, the execution by the engine's own two steps,
and the record of the cycle. `late` counts decisions that are carried out during a hold.

### Journals (`keys.py`, `audit.py`, event files of EEF and AHP)

A journal is a sequence of lines that name their predecessor by its hash. `append` is two
steps, reading the last hash and writing the line; a thread that dies in between leaves nothing
or a part of a line (`torn`). A part is never the whole record without its newline: such a line
still verifies, and the next append, which continues it, spoils it, so that the journal then
ends as with any torn line, one append later. Event journals are under a lock on a file, which
the system frees when the process dies; the status journal and the ledger of a key are under a
thread lock, which holds no other process back. `sign` checks the status in one file and
appends to another.

### Transport (`etr.py`)

Channels and envelopes over the keys and journals. A call holds the thread lock of its process
from its check to its event. `late` counts how often a retired key or revoked channel is used
afterwards, `delivered` how often an envelope was opened by its identifier; both have their
exact bounds as properties. A damaged file may open or fail (`Outcomes`): what the tag covers
is noticed, and `status`, `created_at` and the stored `aad` are outside it. A file whose
`envelope_id` or `key_id` names another row is left out. The properties of `Journals` hold here
too: the transport rotates keys and signs by the steps of `Journals`.

### Teams (`tbe.py`)

The team builder is a pure function of a contract and a registry, and the module is
operators: injected demands, which sort before the demands of the contract under the
identifiers that the code gives them (a contract that names its demands so that they sort
otherwise is left out), selection by merit and capacity, reviewers, specialists for
the gates, instances, leads, phases, the repair of milestone order with its bounded loop,
and the rows that are bound. Its loops are `Repeated`: a step that is taken a given number
of times, as the code's `for _ in range(...)` takes it; a round of the loops over edges
(`Later`) updates all rows at once where the code updates them one by one, which ends in
the same phases when there is no cycle and in the same refusal when there is. The rows that
are bound are named by what they are for: the work of a demand, the review of one, the
validation of a gate. The state machine is one call for each contract; TLC runs it on all
of them.

`WorkIsOrdered` compares the milestones that the three functions of the code compute with
the dependencies that are bound, and asks that users of one scarce resource wait for one
another. `VerdictsAreIndependent` is about people and not types: nobody reviews what it has
built, and who decides a gate has neither built nor reviewed anything in the mission.

## Runs

| Run | Instance | Question | Result |
|---|---|---|---|
| `project_lock` | 2 drivers, 3 process ids, threshold 1, 2 crashes, fair | what does the lock give, and can a crash wedge the project? | holds |
| `driver` | 2 tasks in a chain, one with an own budget of 3 where the commands have 2, one whose count starts at 1, 3 paths that are edited, deleted or become directories, a user, failing commits, 1 crash | scheduling, evidence, attempts and verdicts over restarts; does anything of an ended run enter a later commit? | holds |
| `driver_edits` | 2 tasks, 2 paths, plain edits, a commit scope that may be exceeded, 1 crash, fair restarts | is a commit its attempt's work, and does the mission settle? | holds |
| `pese_store` | 2 writers, one also recovers, one also reads, 2 revisions, 1 crash, fair | is the history an append-only chain under one owner, and is a cut-short publication always repaired? | holds |
| `pese_takeover` | 2 processes that write and recover, 3 revisions, 1 crash | "A writer SHALL never overwrite a history revision" | violated: the second recoverer moves the first one's fresh lock |
| `execution` | 2 processes, a mission of 3 assignments in 2 phases (a join), 2 agents, 1 race | what survives any order of EEF and AEX calls, and what needs that none is overtaken? | holds |
| `agents` | 2 processes, an agent, 2 names for its replacement, 2 recoveries, 1 other call, 1 race | are two recoveries of one agent, refused or cut short anywhere, harmless? | holds |
| `gates` | 2 processes, 2 gates with 2 contents of evidence, a CRITICAL and a declared HIGH risk, 1 race | can a verdict shut the store while evidence is edited, and is it final? | holds |
| `scheduler` | a scheduler and another process, 2 assignments in 2 phases, a gate, a CRITICAL risk, a spare agent, 1 disturbance, no race, fair | does a hold stop the scheduler, and does it carry a mission to validation? | holds |
| `journals` | 3 threads in 2 processes, two of them share a key store, 3 keys, one event journal, 2 signatures, 2 events, 2 crashes | do chains stay whole and retired keys at rest? | holds |
| `transport` | 3 threads of 2 processes, 2 keys, 1 channel, 1 envelope, 1 failed update | how late is a retired key used, and how often is an envelope opened? | holds |
| `teams` | 3,656 contracts over 10 agent types: all dependency graphs of 3 builders, cycles too; chains of up to 5; two demands of any roles, paths and tags | can what is bound be worked off, and does anybody judge their own work? | holds |

Bounds. `MaxCrashes` bounds crashes in a behaviour, `MaxRev` revisions, `Stale` the age
at which a lock record expires (one step of the clock: only the order of expiry and other
steps matters), `MaxAttempts` and `ResumeAttempts` are the program's own budgets.
`MaxRaces` bounds updates from overtaken calls: one is enough for a property that must
survive it, and the properties that begin with `races = 0` look at the behaviours before
it. `MaxRecoveries` bounds recovery records, `MaxCommands` the AGC calls or disturbances
beside them, `MaxSignatures` and `MaxEvents` the lines of a journal, `MaxFailures` the
updates of an envelope that fail. Two processes are enough for every race of two. Two
tasks in a chain are enough for work that one leaves to the next; the join of `execution`
has a prerequisite that completes last in both orders, and a phase that must wait. Three
keys let a key be rotated twice. Two recoveries of one agent are what can go wrong between
recoveries; two identifiers let each find one of its own.

Symmetry is used for safety only, over processes or threads that play the same part, keys, and
the two names for a replacement.

Deadlock is checked in the runs of the driver, the lock and the store, where somebody can
always start, call or wait. The other runs turn the check off, since there the program may
really stop: a mission has ended, an altered file keeps every call from loading, a journal
is broken; and the bounds on races, records and lines end the model as well.

Configurations that are not in the list of runs are kept for a reader. `MissionDriverDag` (3
tasks in a tree, budgets 2 and 3, tasks with budgets of 1 and 0 of their own, 2 crashes) and
`PESEStoreRecover` (3 revisions, 2 crashes) are larger instances on which the properties also
hold, and on `AgentsPair`, with two recoverable agents of one mission, the first of which
validates in another, a completed record is as true as on `Agents`. The others each produce a
counterexample to a sentence of the documentation, see "Disagreements".

### Fairness

* `ProjectLock`: a driver process is scheduled, an operator starts drivers again, time
  passes. Weak fairness per driver is enough.
* `MissionDriver`: a started driver is scheduled (weak fairness of `Progress`). The
  operator starts it again with `asc run` and cleans a dirty tree, which preflight
  demands; both are strong, since either may be disabled in between. Nothing is assumed
  of the executor but that it returns, which its time-out enforces.
* `PESEStore`: processes are scheduled, leases end (the code never renews one), and
  somebody calls `recover` again and again. `StoreRecovers` is asked of callers that
  wait with their updates: a caller that keeps calling `update` on a broken store takes
  the lock each time and can starve the recoverer, which the model shows. The run leaves
  out crashes that leave a file torn or an append lock orphaned (`SafePlaces`): the code
  does not recover from those, and says so by SAFETY_HALT or IO_FAILURE.
* `Scheduler`: ticks are called again and again and a call that has begun goes on (weak
  fairness of `Tick` and `Engine`); agents complete the work they are given, and a member
  of the mission asks EEF for the next work, which is what advances the milestone.
  `MissionProceeds` ends in validation or in `Trouble`, which names what keeps a mission
  from it: a risk, failed work, a member that is not READY, a diverged repository, a
  scheduler that is turned off.

## Disagreements with the documentation

Each of these is a counterexample of a configuration in this directory; the first is a
listed run.

* `pese.py:993`: `recover` moves whatever lock is there by then (`PESE_v1.0.md:505`;
  `PESEStoreTakeover`).
* `lock.py:80`: the lock is tested and written in separate calls, so two drivers that start
  together both run (`lock.py:62`; `ProjectLockRace`). Beside this, a driver that outlives
  3600 seconds loses its lock to the next one although it is alive (`lock.py:93`);
  `QuietExclusion` names both exceptions.
* `driver.py:234`: reconciliation counts attempt records; an attempt with verification
  writes two. A task with attempts left becomes FAILED
  (`docs/ASC_ORCHESTRATOR_FINALIZATION_REPORT.md:44`; `MissionDriverBudget`). The same count
  lets a crash before the record give an attempt more: `AttemptsBounded` has the number of
  crashes in it.
* `driver.py:671`: with an empty delta the whole dirty tree is staged (the same report,
  line 75; `MissionDriverUser`).
* `pese.py:399`: `load` neither retries nor distinguishes a race from corruption
  (`PESE_v1.0.md:639`; `PESEStoreReader`).
* `pese.py:1011`: recovery repairs `live.json` and not the transition audit
  (`PESE_v1.0.md:240`; `PESEStoreAudit`).
* `recovery.py`: two processes compute the same recovery identifier from the length of the
  table and the second record takes the place of the first (`REC_v1.0.md:38`; `AgentsIds`).
* `tbe.py`: a gate may get an earlier milestone than the review it waits for
  (`TBE_v1.0.md:569`; `TeamsGate`).

Seen in the models and stated as definitions that no run checks:

* EEF: resume after a pause makes READY what was waiting for its dependencies
  (`EEF_v1.0.md:225`; `DependentsWait`); cancel of an interrupted mission is refused, since
  the transition table has no such entry (`EEF_v1.0.md:182`; `CancelIsLegal`).
* ETR: OPENED and AUTH_FAILED are left again when another process has checked the envelope
  before (`ETR_v1.0.md:146`; `ClosedStays`).

Read in the code while modelling, and followed by the modules:

* A store without a `liveness_check` never takes over a stale lock, and no caller in the
  repository passes one (`pese.py:982`); a torn writer lock or an orphaned append lock stays
  until someone deletes it.
* `AWS_v1.0.md` (key decision 6) lets the orchestrator execute any action of the engines
  directly, but `MILESTONE_STATUS` needs a member of the mission (`pese.py:2638`), so the
  scheduler never advances a milestone. With gates in different phases it starts none while
  the milestone waits for one.
* A QUARANTINED agent is diagnosed as recoverable (`REC_v1.0.md:5`) and its quarantine is
  refused: every tick decides for a recovery that fails.
* RKM and `PESEStore.resume` disagree about what holds: an ACCEPTED critical risk does not
  hold the one and stops the other, a HIGH risk with a declared block condition is the
  reverse.
* Completing a mission does not wait for the verdicts of its gates; VALIDATING then keeps
  every later mission out, since nothing in the engines ends it.
* Work of an agent that was recovered is not given to its replacement: `claim` writes the
  agent's row and not the assignment's owner.
* Binding writes the rows of agents anew, RELEASED ones included, against
  `AGC_v1.0.md:100`; hence the condition on bindings in the properties of `Agents`.
* The lock of a key ledger is a thread lock, not the exclusive process lock of
  `CKS_v1.0.md:205`; hence `OneKeyProcess`.
* Only the orchestrator can bind a channel or open a risk that others own; a builder
  without paths ends a team build in a KeyError; a builder may be reviewed by another
  instance of its own type.

## Proofs

Every safety invariant and action property of the passing runs is a theorem, for every
value of the constants.

| Module | Theorems | Argument |
|---|---|---|
| `ProjectLock_proofs` | `TypeCorrect`, `QuietDriversExclude`, `StatusIsTruthful` | `IInv`: process ids are distinct, an undisturbed acquirer is alone, the file an undisturbed writer opened is still torn, and a quiet owner's record stands and nobody is about to overwrite or unlink it. The last part is what makes exclusion inductive: exclusion alone says nothing of a driver that is about to write. |
| `MissionDriver_proofs` | `TypeCorrect`, `DriverImplementsMission`, `CommitsAreOfThisRun`, `CompletedTasksWereVerified`, `AttemptsAreBounded`, `VerdictsAreTrue`, `CommitsAreOwn`, `AllWorkIsCommitted`; of the abstract mission `MissionSafety`, `MissionFinality`, and of the driver `DriverKeepsPromises` | `RunningIsCurrent`: where a task may be RUNNING while the driver is at each place, and that the current task's dependencies are completed. `PreflightCleans`: after preflight nothing belongs to an earlier run. `EvidenceKept`: the last record of a completed task is that of its last attempt. `BudgetKept`: a task that is not under way and may still run stands where its count started, or below what it may count to plus the crashes. `OwnWork`: with plain edits a rollback leaves nothing. `FirstIsNext`: if some task is ready, the loop finds one, by well-foundedness of the order of the tasks; without it a run could end BLOCKED beside a ready task. The promises of `Mission` are inductive by themselves, and hold of the driver through the refinement. |
| `PESEStore_proofs` | `TypeCorrect`, `WritersExclude`, `LiveIsRepairable`, `AuditsArePublished`, `StoreImplementsLog`; of the abstract log `LogIsChain`, and of the store `HistoryIsChain` | `Inv`: operations stay where their kind allows (`Phase`), a lock about to be moved is a dead one's (`TakesFromDead`), and what was read under the lock is still so (`Reads`). With exclusion, whoever publishes has loaded the highest revision, so it appends its successor. The log is a chain by what appending leaves alone, and so is the history that implements it. |
| `Execution_proofs` | `TypesHold`, `PromotionsHold`, `WorkHolds`, `DependenciesHold`, `ValidationHolds`, `ResultsHold`, `FinalHolds` | Each step is described once by its effect on the state (`StepFacts`, `Effect`). `FreshCalls`: a call that was not overtaken still finds what it checked. `Ordered` strengthens the properties to what they need of one another: work is ordered by dependencies, and validation and results follow from it. `PromotionsHold` uses none of it: the promotion is in the update. |
| `Gates_proofs` | `OnlyEditsShut`, `VerdictsAlwaysStay` | The effects of the steps again, `FreshCalls`, and `UnboundHasNoGate`: a mission that is being bound has no gate with a verdict. The first theorem needs no freshness: only the update that hashes again seals a digest, that of content which lay there in its last look, and the store is shut only by what differs from a digest. |
| `Scheduler_proofs`, agents | `OutOfServiceStays`, `CompletedRecoveryHolds`, `ReplacedOnceHolds` | A step leaves the agents alone, binds a mission or does the AGC operation of one call (`Effect`). `RunsOK`: the call of a process is the one its run is at, and a record that is not shared belongs to one run, which is about the record's agents. `Served` says for each step of a recovery what its earlier steps have done to the old and the new agent; `Once`, that of two undisturbed recoveries of one agent one at most got past the quarantine: its check, still fresh, found the agent in service, which the other has ended. |
| `Scheduler_proofs`, scheduler | `HoldStopsHolds`, `GateAfterWorkHolds` | `HoldInv`: during a hold, the decisions already carried out and the ticks that may still carry one out (`Pending`) are together no more than the schedulers, and no tick becomes pending while the hold lasts, so the second number pays for the first. `GatesInv`: a decision for a gate and a call that starts one imply, unless a call was overtaken, that the work of the mission is completed; this needs that calls about work are fresh and that only bound missions have work, so that neither an engine nor a binding takes completion back. |
| `Transport_proofs`, journals | `ChainsAlwaysStay`, `RetiredKeysAlwaysRest` | `TaskOK`: a thread that is about to append holds the lock of its journal, and what it has read is still so: the key is ACTIVE, the line it will name is the last one. `Born`: a key whose first status is missing has a creator, unless a process has died. `OpenIs`: the line that a crash cuts is in no status journal of a retired key and in no journal of another process's keys. |
| `Transport_proofs`, transport | `RetiredAlwaysSilent`, `OpenedOnceHolds`, `ChainsStayInTransport`, `RetiredKeysRestInTransport` | The steps of the transport keep the invariant of the journals. `Counts` gives the bounds their reason: once a key is retired, the uses since and the calls that have found it ACTIVE are together at most one per process, since a call holds its process's lock (`CallsOK`, `CallsAreFew`); a retired key is not found ACTIVE again, so each late use is paid for by a call that ends. It is the same for the sealers of a revoked channel and, with failed updates on the other side, for those who have found an envelope SEALED. |
| `Teams_proofs` | `VerdictsAreAlwaysIndependent`, `WorkIsAlwaysOrdered` | `Inv`: a team that was built is `Sound`, and what is bound is computed from it. The rest is about the algorithms, for any registry and contract: `SettledOrders`, that after as many rounds as there are nodes an acyclic graph has every edge in order (a node's phase is settled after as many rounds as its place in a topological order); `TopologicalFull` and `FullOrder`, that the greedy order is complete if there is no cycle, and that the edges of a complete one go forward; `ScheduleOrders`, that the bound milestones are in order since work, reviews and validations stand in layers; `UsersWait`, that the chain of a resource's users leads from each to all later ones. |

The theorems hold for every value of the constants under the assumptions named in the
modules: roles are processes and `Root`, `Dead`, `NoOne` are not (`RolesAssumption`);
bounds are naturals; dependencies are earlier tasks of the mission, which
`MissionSpecParser` enforces (`TasksAssumption`, `DepsAssumption`); rows refer to rows of
their own mission (`RowsAssumption`), which the checks of the state's shape enforce; the
numbers of assignments are naturals (`IdsAssumption`); schedulers are finitely many
processes (`SchedulersAssumption`); key and event threads are threads
(`JournalsAssumption`), of which there are finitely many, some of them callers of the
transport, and no key has the name of a channel (`TransportAssumption`); types of agents
are positive numbers, each takes a natural number of demands, and a contract is a finite
sequence of demands with finitely many gates (`TypesAssumption`, `ContractsAssumption`).
`StoreImplementsLog` and `HistoryIsChain` assume `SoleRecoverer`; the other store theorems
carry it in the property, as those about engines carry `races = 0` or `EndsOvertaken` and those
about keys `OneKeyProcess`.

Model-checked only: liveness (`ProjectIsNeverWedged`, `MissionSettles`, `StoreRecovers`,
`MissionProceeds`), which is beyond the prover. Induction over the rounds of a loop, in
`Teams_proofs`, is by the least counterexample: the numbers are well-founded.

## Assumptions and what is not modelled

* `MissionDriver` has one driver at a time and one repository. A task with a
  `working_directory` of its own is committed in a tree that preflight did not look at.
* `git status` answers truthfully. In `repo.py` a failing one reads as a clean tree.
* Executors and verification commands change files and do not run git themselves.
* An empty `commit_paths` list is stored as NULL (`state.py:445`) and then restricts nothing;
  `CommitPaths` is what the row yields.
* A process of the store that comes back after a crash has another process id, so a dead
  owner of a lock is recognised as dead by a liveness check.
* Of `pese.py`: `migrate`, whose transform comes from the caller and which no engine or command
  calls; `renew_lock`, which nothing calls; the contents of checkpoints, and one whose writing
  fails in a process that lives on; and a race of two `initialize` calls.
* The engines stand on a store that works: one update is one step, a load sees the highest
  revision. What the files do below that is in `PESEStore`; the two are not composed, since
  `ImplementsLog` is what the engines use of it.
* Time stamps in names of audit entries are abstracted: the order of entries is that of
  their creation, which holds if the wall clock does not go back.
* Health observations read and report. Key material, signatures and the cipher are values:
  a signature is an entry of a ledger, a damaged file may fail to open.
* The specification parser of `src/asc`: its rule that a task depends only on tasks listed
  before it is an assumption of `MissionDriver`; the cycle check behind that rule can then
  find nothing.
* The message codec of ACP, mission specifications (MSS), the registry and the
  configuration: shape checks of documents. Command lines, console, packaging, scripts and
  benchmarks: output and glue.

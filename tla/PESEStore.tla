----------------------------- MODULE PESEStore -----------------------------
(***************************************************************************)
(* The PESE state store (src/asc_orchestrator/pese.py, class PESEStore):   *)
(* update, load and recover as sequences of file system calls of several   *)
(* processes that share .project-os/PESE and may die between any two.      *)
(*                                                                         *)
(* The envelope of a revision is abstracted to its number, its writer and  *)
(* the writer of its predecessor, which stands for the hash of that        *)
(* predecessor.  Each PESEStore object belongs to one process and runs one *)
(* operation at a time; a lock whose owner has died is owned by Dead.      *)
(***************************************************************************)
EXTENDS Naturals, Sequences

CONSTANTS
  Procs,          \* processes that use the store
  Updaters,       \* those that may call update
  Readers,        \* those that may call load
  Recoverers,     \* those that may call recover
  Root,           \* the process that initialized the store, now gone
  Dead,           \* owner of what a dead process has locked
  NoOne,          \* owner of what is not locked
  LivenessCheck,  \* whether the stores were given a liveness_check
  CrashPlaces,    \* where in an operation a process may die
  MaxRev,         \* bound on the number of revisions
  MaxCrashes      \* bound on the number of crashes in a behaviour

ASSUME RolesAssumption ==
  /\ Updaters \subseteq Procs /\ Readers \subseteq Procs /\ Recoverers \subseteq Procs
  /\ Root \notin Procs /\ Dead \notin Procs /\ NoOne \notin Procs /\ Dead # NoOne
ASSUME BoundsAssumption ==
  LivenessCheck \in BOOLEAN /\ MaxRev \in Nat \ {0} /\ MaxCrashes \in Nat

VARIABLES
  history,   \* state/history/<n>.json, n = 1, 2, ...
  live,      \* state/live.json, or NoLive
  lock,      \* locks/state.lock.json
  audit,     \* the audit-append lock of each stream, and whether an entry is torn
  audited,   \* revisions that have a transition audit entry
  acked,     \* revisions whose update reached its UPDATED outcome
  corrupt,   \* readers whose last load returned STATE_CORRUPT
  pc, op,    \* where each process is, and in which operation
  job,       \* what the audit entry being appended is about
  want,      \* expected_revision of the update under way
  old,       \* the revision that the operation has loaded
  crashes

files == <<history, live, lock, audit, audited>>
vars  == <<files, acked, corrupt, pc, op, job, want, old, crashes>>

L == INSTANCE RevisionLog WITH log <- history, Writers <- Updaters

NoLive  == [rev |-> 0, by |-> Root, prev |-> Root]
NoLock  == [owner |-> NoOne, state |-> "none"]
Lock(p, state) == [owner |-> p, state |-> state]   \* "torn", "fresh" or "expired"
Streams == {"access", "transitions"}
Jobs    == {"load", "transition", "save", "checkpoint"}

Loading    == {"lease", "readHistory", "readLive", "reread"}
Auditing   == {"auditLock", "auditCreate", "auditWrite", "auditUnlock"}
Publishing == {"decide", "check", "putHistory", "putLive", "checkpoint"}
Recovering == {"validate", "readLock", "moveLock", "highest", "promote", "record"}
Places     == {"idle", "createLock", "writeLock", "readOwn", "unlink"}
                \cup Loading \cup Auditing \cup Publishing \cup Recovering

Latest  == L!Latest(history)
New(p)  == L!Successor(old[p], p)
Stream(p) == IF job[p] = "transition" THEN "transitions" ELSE "access"
Torn    == \E s \in Streams : audit[s].torn

\* Mistake: initialize writes live.json before the first history file.
InitLiveFirst ==
  /\ history \in {<<>>, <<L!Initial>>} /\ live = L!Initial
  /\ lock = NoLock
  /\ audit = [s \in Streams |-> [owner |-> NoOne, torn |-> FALSE]]
  /\ audited = {} /\ acked = {} /\ corrupt = {}
  /\ pc = [p \in Procs |-> "idle"] /\ op = [p \in Procs |-> "none"]
  /\ job = [p \in Procs |-> "load"] /\ want = [p \in Procs |-> 1]
  /\ old = [p \in Procs |-> L!Initial]
  /\ crashes = 0

\* The store as initialize left it, complete or cut short before live.json.
Init ==
  /\ history = <<L!Initial>> /\ live \in {L!Initial, NoLive}
  /\ lock = NoLock
  /\ audit = [s \in Streams |-> [owner |-> NoOne, torn |-> FALSE]]
  /\ audited = {} /\ acked = {} /\ corrupt = {}
  /\ pc = [p \in Procs |-> "idle"] /\ op = [p \in Procs |-> "none"]
  /\ job = [p \in Procs |-> "load"] /\ want = [p \in Procs |-> 1]
  /\ old = [p \in Procs |-> L!Initial]
  /\ crashes = 0

Goto(p, place) == pc' = [pc EXCEPT ![p] = place]

\* An operation ends early: one that holds the writer lock releases it in its
\* finally clause, a load returns or raises.
Leave(p) == Goto(p, IF op[p] = "read" THEN "idle" ELSE "readOwn")

-----------------------------------------------------------------------------
(* Calls.                                                                  *)

\* load() without the writer lock.
CallLoad(p) ==
  /\ pc[p] = "idle" /\ p \in Readers
  /\ op' = [op EXCEPT ![p] = "read"]
  /\ Goto(p, "lease")
  /\ corrupt' = corrupt \ {p}
  /\ UNCHANGED <<files, acked, job, want, old, crashes>>

\* update(expected_revision=r): the caller has seen revision r at some time.
CallUpdate(p) ==
  /\ pc[p] = "idle" /\ p \in Updaters
  /\ \E r \in 1..Len(history) : want' = [want EXCEPT ![p] = r]
  /\ op' = [op EXCEPT ![p] = "update"]
  /\ Goto(p, "createLock")
  /\ UNCHANGED <<files, acked, corrupt, job, old, crashes>>

\* recover(stale_lock=True); without the flag a present lock always halts it.
CallRecover(p) ==
  /\ pc[p] = "idle" /\ p \in Recoverers
  /\ op' = [op EXCEPT ![p] = "recover"]
  /\ Goto(p, "validate")
  /\ UNCHANGED <<files, acked, corrupt, job, want, old, crashes>>

-----------------------------------------------------------------------------
(* acquire_lock, release_lock.                                             *)

\* Mistake: the lock is opened without O_EXCL.
CreateLockShared(p) ==
  /\ pc[p] = "createLock"
  /\ lock' = Lock(p, "torn")
  /\ Goto(p, "writeLock")
  /\ UNCHANGED <<history, live, audit, audited, acked, corrupt, op, job, want, old, crashes>>

\* _exclusive_write: O_CREAT | O_EXCL makes the file, or the outcome is LOCKED.
CreateLock(p) ==
  /\ pc[p] = "createLock"
  /\ IF lock = NoLock
       THEN lock' = Lock(p, "torn") /\ Goto(p, "writeLock")
       ELSE UNCHANGED lock /\ Goto(p, "idle")
  /\ UNCHANGED <<history, live, audit, audited, acked, corrupt, op, job, want, old, crashes>>

\* Its content follows.  Should the name have gone to another file meanwhile,
\* this one is written without a name.
WriteLock(p) ==
  /\ pc[p] = "writeLock"
  /\ lock' = IF lock.owner = p THEN Lock(p, "fresh") ELSE lock
  /\ Goto(p, IF op[p] = "recover" THEN "highest" ELSE "lease")
  /\ UNCHANGED <<history, live, audit, audited, acked, corrupt, op, job, want, old, crashes>>

\* release_lock: nothing there, another's lock, or a torn one, which raises.
ReadOwn(p) ==
  /\ pc[p] = "readOwn"
  /\ Goto(p, IF lock.owner = p /\ lock.state # "torn" THEN "unlink" ELSE "idle")
  /\ UNCHANGED <<files, acked, corrupt, op, job, want, old, crashes>>

Unlink(p) ==
  /\ pc[p] = "unlink"
  /\ lock' = NoLock
  /\ Goto(p, "idle")
  /\ UNCHANGED <<history, live, audit, audited, acked, corrupt, op, job, want, old, crashes>>

-----------------------------------------------------------------------------
(* load and the parts of validate that other processes can disturb.        *)

\* A finding: STATE_CORRUPT for a reader, HALTED for an update.
Finding(p) ==
  /\ Leave(p)
  /\ corrupt' = IF op[p] = "read" THEN corrupt \cup {p} ELSE corrupt

Lease(p) ==
  /\ pc[p] = "lease"
  /\ IF lock.state \in {"torn", "expired"}
       THEN Finding(p)
       ELSE Goto(p, "readHistory") /\ UNCHANGED corrupt
  /\ UNCHANGED <<files, acked, op, job, want, old, crashes>>

\* The history files, and their chain.
ReadHistory(p) ==
  /\ pc[p] = "readHistory"
  /\ IF L!IsChain
       THEN Goto(p, "readLive") /\ UNCHANGED corrupt
       ELSE Finding(p)
  /\ old' = [old EXCEPT ![p] = Latest]
  /\ UNCHANGED <<files, acked, op, job, want, crashes>>

\* live.json against the highest history, then the audit chains.
ReadLive(p) ==
  /\ pc[p] = "readLive"
  /\ IF live = old[p] /\ ~Torn
       THEN Goto(p, "reread") /\ UNCHANGED corrupt
       ELSE Finding(p)
  /\ UNCHANGED <<files, acked, op, job, want, old, crashes>>

\* load() reads live.json once more and audits the access.
Reread(p) ==
  /\ pc[p] = "reread"
  /\ old' = [old EXCEPT ![p] = live]
  /\ job' = [job EXCEPT ![p] = "load"]
  /\ Goto(p, "auditLock")
  /\ UNCHANGED <<files, acked, corrupt, op, want, crashes>>

-----------------------------------------------------------------------------
(* _audit                                                                  *)

AuditLock(p) ==
  /\ pc[p] = "auditLock" /\ audit[Stream(p)].owner = NoOne
  /\ audit' = [audit EXCEPT ![Stream(p)].owner = p]
  /\ Goto(p, "auditCreate")
  /\ UNCHANGED <<history, live, lock, audited, acked, corrupt, op, job, want, old, crashes>>

\* A thousand attempts have failed: IO_FAILURE.
AuditTimeout(p) ==
  /\ pc[p] = "auditLock" /\ audit[Stream(p)].owner # NoOne
  /\ Leave(p)
  /\ UNCHANGED <<files, acked, corrupt, op, job, want, old, crashes>>

\* The entry has a name before it has its content.
AuditCreate(p) ==
  /\ pc[p] = "auditCreate"
  /\ audit' = [audit EXCEPT ![Stream(p)].torn = TRUE]
  /\ Goto(p, "auditWrite")
  /\ UNCHANGED <<history, live, lock, audited, acked, corrupt, op, job, want, old, crashes>>

AuditWrite(p) ==
  /\ pc[p] = "auditWrite"
  /\ audit' = [audit EXCEPT ![Stream(p)].torn = FALSE]
  /\ audited' = IF job[p] = "transition" THEN audited \cup {New(p)} ELSE audited
  /\ Goto(p, "auditUnlock")
  /\ UNCHANGED <<history, live, lock, acked, corrupt, op, job, want, old, crashes>>

\* What follows the entry: the decision of an update, the entry about the save,
\* the checkpoint, or the end.
AuditUnlock(p) ==
  /\ pc[p] = "auditUnlock"
  /\ audit' = [audit EXCEPT ![Stream(p)].owner = NoOne]
  /\ Goto(p, CASE job[p] = "load"       -> IF op[p] = "read" THEN "idle" ELSE "decide"
               [] job[p] = "transition" -> "auditLock"
               [] job[p] = "save"       -> "checkpoint"
               [] job[p] = "checkpoint" -> "readOwn")
  /\ job' = [job EXCEPT ![p] = IF @ = "transition" THEN "save" ELSE @]
  /\ acked' = IF job[p] = "checkpoint" THEN acked \cup {New(p)} ELSE acked
  /\ UNCHANGED <<history, live, lock, audited, corrupt, op, want, old, crashes>>

-----------------------------------------------------------------------------
(* update                                                                  *)

\* CONFLICT, or a PESEError of the mutation, its transition or its shape, or
\* the new envelope is to be published; MaxRev bounds the revisions.
Decide(p) ==
  /\ pc[p] = "decide"
  /\ \/ old[p].rev = want[p] /\ old[p].rev < MaxRev /\ Goto(p, "check")
     \/ Goto(p, "readOwn")
  /\ UNCHANGED <<files, acked, corrupt, op, job, want, old, crashes>>

\* _atomic_write(overwrite=False): FileExistsError ends the update.
Check(p) ==
  /\ pc[p] = "check"
  /\ Goto(p, IF New(p).rev <= Len(history) THEN "readOwn" ELSE "putHistory")
  /\ UNCHANGED <<files, acked, corrupt, op, job, want, old, crashes>>

\* os.replace onto history/<n>.json, which overwrites what came since.
PutHistory(p) ==
  /\ pc[p] = "putHistory"
  /\ history' = IF New(p).rev > Len(history) THEN Append(history, New(p))
                ELSE [history EXCEPT ![New(p).rev] = New(p)]
  /\ Goto(p, "putLive")
  /\ UNCHANGED <<live, lock, audit, audited, acked, corrupt, op, job, want, old, crashes>>

PutLive(p) ==
  /\ pc[p] = "putLive"
  /\ live' = New(p)
  /\ job' = [job EXCEPT ![p] = "transition"]
  /\ Goto(p, "auditLock")
  /\ UNCHANGED <<history, lock, audit, audited, acked, corrupt, op, want, old, crashes>>

\* The checkpoint: not mandatory for this transition, refused (HALTED, with the
\* revision published), or written and to be audited.
Checkpoint(p) ==
  /\ pc[p] = "checkpoint"
  /\ \/ Goto(p, "readOwn") /\ acked' = acked \cup {New(p)} /\ UNCHANGED job
     \/ Goto(p, "readOwn") /\ UNCHANGED <<acked, job>>
     \/ Goto(p, "auditLock") /\ job' = [job EXCEPT ![p] = "checkpoint"] /\ UNCHANGED acked
  /\ UNCHANGED <<files, corrupt, op, want, old, crashes>>

-----------------------------------------------------------------------------
(* recover                                                                 *)

\* Everything but live.json, the lock and migrations must be valid.
Validate(p) ==
  /\ pc[p] = "validate"
  /\ Goto(p, IF L!IsChain /\ ~Torn THEN "readLock" ELSE "idle")
  /\ UNCHANGED <<files, acked, corrupt, op, job, want, old, crashes>>

\* Mistake: an expired lease suffices, whether its owner lives or not.
ReadLockLeaseOnly(p) ==
  /\ pc[p] = "readLock"
  /\ Goto(p, IF lock = NoLock THEN "createLock"
             ELSE IF lock.state = "expired" THEN "moveLock" ELSE "idle")
  /\ UNCHANGED <<files, acked, corrupt, op, job, want, old, crashes>>

\* A lock is stale if its lease has expired and its owner is known to be dead;
\* a torn one raises, any other one is a SAFETY_HALT.
ReadLock(p) ==
  /\ pc[p] = "readLock"
  /\ Goto(p, IF lock = NoLock THEN "createLock"
             ELSE IF lock.state = "expired" /\ LivenessCheck /\ lock.owner = Dead THEN "moveLock"
             ELSE "idle")
  /\ UNCHANGED <<files, acked, corrupt, op, job, want, old, crashes>>

\* os.replace moves whatever lock is there by now to recovery/, or raises.
MoveLock(p) ==
  /\ pc[p] = "moveLock"
  /\ lock' = NoLock
  /\ Goto(p, IF lock = NoLock THEN "idle" ELSE "createLock")
  /\ UNCHANGED <<history, live, audit, audited, acked, corrupt, op, job, want, old, crashes>>

Highest(p) ==
  /\ pc[p] = "highest"
  /\ old' = [old EXCEPT ![p] = Latest]
  /\ Goto(p, "promote")
  /\ UNCHANGED <<files, acked, corrupt, op, job, want, crashes>>

\* Mistake: the revision that was never reported is rolled back.
PromoteReported(p) ==
  /\ pc[p] = "promote"
  /\ live' = IF old[p] \in acked \/ old[p].rev = 1 THEN old[p] ELSE history[old[p].rev - 1]
  /\ Goto(p, "record")
  /\ UNCHANGED <<history, lock, audit, audited, acked, corrupt, op, job, want, old, crashes>>

Promote(p) ==
  /\ pc[p] = "promote"
  /\ live' = old[p]
  /\ Goto(p, "record")
  /\ UNCHANGED <<history, lock, audit, audited, acked, corrupt, op, job, want, old, crashes>>

\* The recovery record; the audit streams and checkpoints stay as they are.
Record(p) ==
  /\ pc[p] = "record"
  /\ Goto(p, "readOwn")
  /\ UNCHANGED <<files, acked, corrupt, op, job, want, old, crashes>>

-----------------------------------------------------------------------------
(* The environment.                                                        *)

\* A process dies: what it had locked stays locked, what it had begun to write
\* stays torn.  It comes back with another process id.
Crash(p) ==
  /\ pc[p] \in CrashPlaces \ {"idle"} /\ crashes < MaxCrashes
  /\ crashes' = crashes + 1
  /\ lock' = IF lock.owner = p THEN Lock(Dead, lock.state) ELSE lock
  /\ audit' = [s \in Streams |->
       IF audit[s].owner = p THEN [audit[s] EXCEPT !.owner = Dead] ELSE audit[s]]
  /\ Goto(p, "idle")
  /\ UNCHANGED <<history, live, audited, acked, corrupt, op, job, want, old>>

\* The lease of the lock ends; nothing in the repository renews it.
Expire ==
  /\ lock.state = "fresh"
  /\ lock' = [lock EXCEPT !.state = "expired"]
  /\ UNCHANGED <<history, live, audit, audited, acked, corrupt, pc, op, job, want, old, crashes>>

Call(p) == CallLoad(p) \/ CallUpdate(p) \/ CallRecover(p)
Step(p) ==
  \/ CreateLock(p) \/ WriteLock(p) \/ ReadOwn(p) \/ Unlink(p)
  \/ Lease(p) \/ ReadHistory(p) \/ ReadLive(p) \/ Reread(p)
  \/ AuditLock(p) \/ AuditTimeout(p) \/ AuditCreate(p) \/ AuditWrite(p) \/ AuditUnlock(p)
  \/ Decide(p) \/ Check(p) \/ PutHistory(p) \/ PutLive(p) \/ Checkpoint(p)
  \/ Validate(p) \/ ReadLock(p) \/ MoveLock(p) \/ Highest(p) \/ Promote(p) \/ Record(p)

Next == (\E p \in Procs : Call(p) \/ Step(p) \/ Crash(p)) \/ Expire

Spec == Init /\ [][Next]_vars

\* Processes are scheduled, leases end, and whoever may recover the store calls
\* recover again and again.
FairSpec ==
  /\ Spec /\ WF_vars(Expire)
  /\ \A p \in Procs : WF_vars(Step(p)) /\ SF_vars(CallRecover(p))

-----------------------------------------------------------------------------
Revisions == [rev : Nat, by : Procs \cup {Root}, prev : Procs \cup {Root}]
Owners == Procs \cup {Dead, NoOne}
WriterLocks == [owner : Owners, state : {"none", "torn", "fresh", "expired"}]
AuditStreams == [Streams -> [owner : Owners, torn : BOOLEAN]]

\* Every variable has its type.
TypeOK ==
  /\ history \in Seq(Revisions) /\ Len(history) > 0
  /\ live \in Revisions
  /\ lock \in WriterLocks
  /\ audit \in AuditStreams
  /\ audited \subseteq Revisions /\ acked \subseteq Revisions
  /\ corrupt \subseteq Procs
  /\ pc \in [Procs -> Places]
  /\ op \in [Procs -> {"none", "read", "update", "recover"}]
  /\ job \in [Procs -> Jobs]
  /\ want \in [Procs -> Nat]
  /\ old \in [Procs -> Revisions]
  /\ crashes \in 0..MaxCrashes

\* The stale-lock takeover of recover is not safe against a second one, so what
\* follows is claimed where at most one process recovers.
SoleRecoverer == \A p, q \in Recoverers : p = q

\* p is between the creation and the release of the writer lock.
Holding(p) ==
  \/ op[p] = "update" /\ pc[p] \in Places \ {"idle", "createLock"}
  \/ op[p] = "recover" /\ pc[p] \in {"writeLock", "highest", "promote", "record", "readOwn", "unlink"}

\* However leases end and processes die, a process that works under the writer
\* lock owns it: no takeover, release or restart takes it from a living owner.
WriterExclusion == SoleRecoverer => \A p \in Procs : Holding(p) => lock.owner = p

\* Where at most one process recovers, the history is an append-only chain, and
\* a reported update stays in it.
ImplementsLog == L!Spec

\* live.json is the highest revision or, while it is being published or a crash
\* has cut that short, the one before: recovery has at most one to promote.
LiveLagsByOne ==
  SoleRecoverer =>
    \/ live = Latest
    \/ Len(history) > 1 /\ live = history[Len(history) - 1]
    \/ Len(history) = 1 /\ live = NoLive

\* A transition audit entry is about a published revision.
AuditIsOfHistory ==
  SoleRecoverer => \A e \in audited : \E n \in 1..Len(history) : history[n] = e

\* The inductive invariant.  An operation is where its kind allows it to be, ...
Phase(p) ==
  /\ op[p] = "update" => p \in Updaters
  /\ op[p] = "recover" => p \in Recoverers
  /\ pc[p] \in Loading \cup Auditing => op[p] \in {"read", "update"}
  /\ pc[p] \in Auditing /\ op[p] = "read" => job[p] = "load"
  /\ pc[p] \in Publishing => op[p] = "update"
  /\ pc[p] \in Recovering => op[p] = "recover"
  /\ pc[p] \in {"createLock", "writeLock", "readOwn", "unlink"} => op[p] \in {"update", "recover"}

\* ... a lock that is about to be moved belongs to a dead process, ...
TakesFromDead(p) == pc[p] = "moveLock" => lock.owner = Dead

\* ... and what an operation has read under the lock is still so.
Reads(p) ==
  /\ pc[p] = "promote" => old[p] = Latest
  /\ op[p] = "update" =>
       /\ pc[p] = "readLive" => old[p] = Latest
       /\ pc[p] = "reread" => live = Latest
       /\ pc[p] \in {"decide", "check", "putHistory"} \/ (pc[p] \in Auditing /\ job[p] = "load")
            => old[p] = Latest /\ live = Latest
       /\ pc[p] \in {"putLive", "checkpoint"} \/ (pc[p] \in Auditing /\ job[p] # "load")
            => New(p) = Latest

LatestIsNumbered == Latest.rev = Len(history)

Inv ==
  /\ TypeOK
  /\ lock.owner = NoOne => lock = NoLock
  /\ \A p \in Procs : Phase(p)
  /\ SoleRecoverer => LatestIsNumbered /\ \A p \in Procs : TakesFromDead(p) /\ Reads(p)
  /\ WriterExclusion /\ LiveLagsByOne /\ AuditIsOfHistory

\* A crash of a writer does not stop the store for good: once the callers wait
\* with their updates, it is unlocked and consistent again and again.
StoreRecovers ==
  <>[][\A p \in Updaters : ~CallUpdate(p)]_vars => []<>(lock = NoLock /\ live = Latest)

\* "A writer SHALL never overwrite a history revision"
\* (docs/PESE_v1.0.md:505), whoever recovers.
NeverOverwritten ==
  [][/\ Len(history') >= Len(history)
     /\ \A n \in 1..Len(history) : history'[n] = history[n]]_vars

\* Readers "retry once if a replacement races their read, and otherwise return
\* `RETRYABLE_READ_CONFLICT`" (docs/PESE_v1.0.md:639): where nothing has crashed,
\* a load finds no corruption.
ReadersSeeRevisions == crashes = 0 => corrupt = {}

\* "Every committed change ... SHALL create exactly one transition audit entry in
\* the same durable transaction as its new state revision"
\* (docs/PESE_v1.0.md:240): no update builds on a revision without its entry.
CommittedIsAudited == \A n \in 2..(Len(history) - 1) : history[n] \in audited
=============================================================================

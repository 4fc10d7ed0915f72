------------------------------- MODULE Journals -------------------------------
(***************************************************************************)
(* The hash-chained journals of the orchestrator, and the key store CKS    *)
(* (src/asc_orchestrator/keys.py), whose state they are.                   *)
(*                                                                         *)
(* A journal is a file of lines.  To append, a writer reads the hash of    *)
(* the last line and then writes a line with it: two writers that read the *)
(* same line break the chain for good.  The journals of events (EEF        *)
(* events, ACP audit, AHP heartbeats) are held by a lock on a file from    *)
(* the first to the second step.  A key has a journal of statuses and a    *)
(* ledger of signatures; KeyStore has a lock in each process for them.     *)
(***************************************************************************)
EXTENDS Naturals, Sequences, FiniteSets

CONSTANTS
  Threads, ProcessOf,  \* ProcessOf[t]: the process of thread t
  KeyWriters,          \* the threads that use the key store
  EventWriters,        \* the threads that append events of their own
  Keys,                \* identifiers that keys may get
  Events,              \* the journals of events
  None,
  MaxSignatures,       \* bounds on the entries of a ledger and of events
  MaxEvents,
  MaxCrashes           \* a bound on crashes

ASSUME JournalsAssumption ==
  /\ KeyWriters \cup EventWriters \subseteq Threads /\ None \notin Threads \cup Keys
  /\ {MaxSignatures, MaxEvents, MaxCrashes} \subseteq Nat
  /\ Events \cap ({"status", "ledger"} \X Keys) = {}

VARIABLES
  records,  \* keys/<key>.json
  log,      \* the lines of each journal; prev is the line that a line names as
            \*   its predecessor by its hash, 0 if it names none
  torn,     \* journals that end in a part of a line
  lock,     \* the holder of each lock
  task,     \* what each thread is doing
  crashes

journalVars == <<records, log, torn, lock, task, crashes>>

Processes  == {ProcessOf[t] : t \in Threads}
Journals   == ({"status", "ledger"} \X Keys) \cup Events
\* The key store of a process, its ETR and an event journal each have a lock.
Locks      == ({"keys", "etr"} \X Processes) \cup Events
KeyLock(t) == <<"keys", ProcessOf[t]>>

NoTask     == [step |-> "none"]
Idle(t)    == task[t] = NoTask
At(t, step) == task[t].step = step
Free(l)    == lock[l] = None
Unlocked(t, locks) == [l \in Locks |-> IF l \in locks /\ lock[l] = t THEN None ELSE lock[l]]

Chained(j) == \A i \in DOMAIN log[j] : log[j][i].prev = i - 1
\* verify_chain.  A part of a line is no JSON.
Intact(j)  == j \notin torn /\ Chained(j)

\* status, which fails closed.
KeyStatus(k) ==
  LET j == <<"status", k>>
  IN  IF k \notin records THEN "none"
      ELSE IF log[j] = <<>> \/ ~Intact(j) THEN "BROKEN" ELSE log[j][Len(log[j])].what

Active(k)  == KeyStatus(k) = "ACTIVE"
Room(j)    == /\ j \in Events => Len(log[j]) < MaxEvents
              /\ j \in {"ledger"} \X Keys => Len(log[j]) < MaxSignatures

\* validate
StoreIsValid == \A k \in records : KeyStatus(k) # "BROKEN" /\ Intact(<<"ledger", k>>)

-----------------------------------------------------------------------------
(* Keys.  sign, rotate and revoke check that the key is ACTIVE, read the   *)
(* last line of the journal, and append.                                   *)

Target(op, k) == <<IF op = "sign" THEN "ledger" ELSE "status", k>>
Written == [sign |-> "SIGNED", rotate |-> "ROTATED", revoke |-> "REVOKED"]

\* Mistake: the key store has no lock.
RequireActiveUnlocked(t, op, k) ==
  /\ Idle(t) /\ Active(k) /\ Room(Target(op, k))
  /\ task' = [task EXCEPT ![t] = [step |-> "tail", op |-> op, journal |-> Target(op, k)]]
  /\ UNCHANGED <<records, log, torn, lock, crashes>>

RequireActive(t, op, k) ==
  /\ Idle(t) /\ Free(KeyLock(t))
  /\ Active(k) /\ Room(Target(op, k))
  /\ lock' = [lock EXCEPT ![KeyLock(t)] = t]
  /\ task' = [task EXCEPT ![t] = [step |-> "tail", op |-> op, journal |-> Target(op, k)]]
  /\ UNCHANGED <<records, log, torn, crashes>>

\* sign verifies its whole ledger, the others only look at the last line.
Readable(op, j) == j \notin torn /\ (op = "sign" => Chained(j))

ReadTail(t) ==
  /\ At(t, "tail")
  /\ LET op == task[t].op  j == task[t].journal
     IN  IF Readable(op, j)
         THEN /\ task' = [task EXCEPT ![t] = [step |-> "append", op |-> op, journal |-> j,
                                              tail |-> Len(log[j])]]
              /\ UNCHANGED lock
         ELSE task' = [task EXCEPT ![t] = NoTask] /\ lock' = Unlocked(t, {KeyLock(t)})
  /\ UNCHANGED <<records, log, torn, crashes>>

\* What follows a part of a line only makes that line longer.
Extended(j, prev, what) ==
  [log EXCEPT ![j] = IF j \in torn THEN @ ELSE Append(@, [prev |-> prev, what |-> what])]

\* After its entry, rotate goes on to create the successor.
AppendKey(t) ==
  /\ At(t, "append") /\ task[t].op \in DOMAIN Written
  /\ log' = Extended(task[t].journal, task[t].tail, Written[task[t].op])
  /\ IF task[t].op = "rotate"
     THEN task' = [task EXCEPT ![t] = [step |-> "file"]] /\ UNCHANGED lock
     ELSE task' = [task EXCEPT ![t] = NoTask] /\ lock' = Unlocked(t, {KeyLock(t)})
  /\ UNCHANGED <<records, torn, crashes>>

\* create_key, by itself (without the lock) or at the end of rotate: a record
\* with a fresh identifier, and then its first status.
CreateFile(t) ==
  /\ Idle(t) \/ At(t, "file")
  /\ \E k \in Keys \ records :
       /\ records' = records \cup {k}
       /\ task' = [task EXCEPT ![t] = [step |-> "first", journal |-> <<"status", k>>]]
  /\ UNCHANGED <<log, torn, lock, crashes>>
FirstStatus(t) ==
  /\ At(t, "first")
  /\ log' = Extended(task[t].journal, Len(log[task[t].journal]), "ACTIVE")
  /\ task' = [task EXCEPT ![t] = NoTask]
  /\ lock' = Unlocked(t, {KeyLock(t)})
  /\ UNCHANGED <<records, torn, crashes>>

-----------------------------------------------------------------------------
(* Events.  A broken journal takes no more of them.                        *)

Emitting(t) == (Idle(t) /\ t \in EventWriters) \/ At(t, "emit")

\* Mistake: the tail is read before the lock is taken.
OpenJournalUnlocked(t, e) ==
  /\ Emitting(t) /\ Intact(e) /\ Room(e)
  /\ task' = [task EXCEPT ![t] = [step |-> "append", op |-> "event", journal |-> e,
                                  tail |-> Len(log[e])]]
  /\ UNCHANGED <<records, log, torn, lock, crashes>>

OpenJournal(t, e) ==
  /\ Emitting(t) /\ Free(e) /\ Intact(e) /\ Room(e)
  /\ lock' = [lock EXCEPT ![e] = t]
  /\ task' = [task EXCEPT ![t] = [step |-> "append", op |-> "event", journal |-> e,
                                  tail |-> Len(log[e])]]
  /\ UNCHANGED <<records, log, torn, crashes>>

\* ETR emits its events while it holds its own lock.
AppendEvent(t) ==
  /\ At(t, "append") /\ task[t].op = "event"
  /\ log' = Extended(task[t].journal, task[t].tail, "event")
  /\ task' = [task EXCEPT ![t] = NoTask]
  /\ lock' = Unlocked(t, {task[t].journal, <<"etr", ProcessOf[t]>>})
  /\ UNCHANGED <<records, torn, crashes>>

-----------------------------------------------------------------------------
\* A process dies with all of its threads; a line that was being written may be
\* there in part.  The system takes its locks back.  Left out: a line that lacks
\* nothing but its newline verifies, and is spoiled by the next one, which then ends
\* the journal as a part of a line does.
Crash(pr) ==
  LET dead == {t \in Threads : ProcessOf[t] = pr}
      open == {task[t].journal : t \in {d \in dead : At(d, "append") \/ At(d, "first")}}
  IN  /\ crashes < MaxCrashes /\ crashes' = crashes + 1
      /\ \E part \in SUBSET open : torn' = torn \cup part
      /\ task' = [t \in Threads |-> IF t \in dead THEN NoTask ELSE task[t]]
      /\ lock' = [l \in Locks |-> IF lock[l] \in dead THEN None ELSE lock[l]]
      /\ UNCHANGED <<records, log>>

JournalsInit ==
  /\ records = {} /\ log = [j \in Journals |-> <<>>] /\ torn = {}
  /\ lock = [l \in Locks |-> None] /\ task = [t \in Threads |-> NoTask] /\ crashes = 0

KeyStep(t) ==
  \/ \E k \in Keys, op \in DOMAIN Written : RequireActive(t, op, k)
  \/ ReadTail(t) \/ AppendKey(t) \/ CreateFile(t) \/ FirstStatus(t)
EventStep(t) == AppendEvent(t) \/ \E e \in Events : OpenJournal(t, e)

JournalsNext ==
  \/ \E t \in KeyWriters : KeyStep(t)
  \/ \E t \in Threads : EventStep(t)
  \/ \E pr \in Processes : Crash(pr)
JournalsSpec == JournalsInit /\ [][JournalsNext]_journalVars

-----------------------------------------------------------------------------
(* Properties.                                                             *)

\* No event is ever chained to another entry than the one before it, whichever
\* processes append and die.  Neither is an entry of a key, as long as one process
\* uses the key store: then, when nothing is under way and nobody died, the store
\* validates.
OneKeyProcess == \A t, u \in KeyWriters : ProcessOf[t] = ProcessOf[u]
ChainsStay ==
  /\ \A e \in Events : Chained(e)
  /\ OneKeyProcess =>
       /\ \A k \in Keys : Chained(<<"status", k>>) /\ Chained(<<"ledger", k>>)
       /\ crashes = 0 /\ (\A t \in Threads : Idle(t)) => StoreIsValid

\* As long as one process uses the key store, a key is retired once, and then for
\* good: its status stays as it is and it signs no more, although status and
\* ledger are different files and any thread may die between two steps.
RetiredKeysRest ==
  [][OneKeyProcess => \A k \in Keys : KeyStatus(k) \in {"ROTATED", "REVOKED"} =>
       KeyStatus(k)' = KeyStatus(k) /\ log'[<<"ledger", k>>] = log[<<"ledger", k>>]]_journalVars
=============================================================================

---------------------------- MODULE ProjectLock ----------------------------
(***************************************************************************)
(* The project execution lock of the Universal ASC driver                  *)
(* (src/asc/lock.py, class ProjectLock): a JSON file that names the        *)
(* process id and the time of acquisition of the driver that owns the      *)
(* repository.  Every file system call of acquire() and release() is an    *)
(* action of its own, because drivers are separate operating system        *)
(* processes and nothing makes the sequence of calls atomic.               *)
(*                                                                         *)
(* Time is modelled by ages: the age of a record is how long ago its       *)
(* timestamp was taken, counted up to Stale, the first age that            *)
(* is_stale regards as expired (stale_threshold_seconds = 3600).           *)
(***************************************************************************)
EXTENDS Integers, FiniteSets

CONSTANTS Drivers,     \* driver processes that may be started, and restarted
          Pids,        \* operating system process ids
          Stale,       \* the age at which a lock record has expired
          MaxCrashes   \* bound on the number of crashes in a behaviour

ASSUME StaleAssumption == Stale \in Nat \ {0}
ASSUME CrashAssumption == MaxCrashes \in Nat

VARIABLES
  lockFile,   \* content of <lock_dir>/lock: NoFile, Torn, or a record
  open,       \* drivers whose handle for writing is on the file at the path
  pc,         \* where each driver is in acquire(), its run or release()
  pid,        \* process id of each driver that is up
  foreign,    \* process ids in use by processes that are not drivers
  since,      \* age of the acquisition of each driver that runs
  contested,  \* drivers whose acquire() overlapped another acquire or release
  crashes     \* number of crashes so far

vars == <<lockFile, open, pc, pid, foreign, since, contested, crashes>>

NoFile == [kind |-> "none"]
Torn   == [kind |-> "torn"]      \* truncated, or two payloads mixed
Record(p, age) == [kind |-> "lock", pid |-> p, age |-> age]

Ages     == 0..Stale
Records  == {Record(p, a) : p \in Pids, a \in Ages}

Acquiring == {"read", "truncate", "write"}
Releasing == {"relRead", "unlink"}
Places    == {"down", "exists", "running", "relExists"} \cup Acquiring \cup Releasing

Up(d)   == pc[d] # "down"
Used    == foreign \cup {pid[d] : d \in {e \in Drivers : Up(e)}}

\* is_process_running: some process, a driver or not, has the id.  All drivers are of
\* one user: os.kill fails for a process of another, which counts as not running, so
\* that its id is as good as unused here.
IsProcessRunning(p) == p \in Used

\* Plausible mistakes in the staleness test: the process check turned round, and
\* no expiry at all.
IsStaleInverted(rec) == rec.age >= Stale \/ IsProcessRunning(rec.pid)
IsStaleAgeless(rec)  == ~IsProcessRunning(rec.pid)

\* The test of acquire() on a record it could parse.
IsStale(rec) == rec.age >= Stale \/ ~IsProcessRunning(rec.pid)

\* is_locked(): a record that parses, of a live process, not expired.
IsLocked ==
  /\ lockFile.kind = "lock"
  /\ IsProcessRunning(lockFile.pid)
  /\ lockFile.age < Stale

Init ==
  /\ lockFile = NoFile
  /\ open = {}
  /\ pc = [d \in Drivers |-> "down"]
  /\ pid \in [Drivers -> Pids]
  /\ foreign = {}
  /\ since = [d \in Drivers |-> 0]
  /\ contested = {}
  /\ crashes = 0

Goto(d, place) == pc' = [pc EXCEPT ![d] = place]

\* Bookkeeping for the properties only.  Driver d enters the part of acquire()
\* or release() that looks at the file: every acquisition under way meanwhile,
\* its own included, is contested.
Meets(d) == {e \in Drivers \ {d} : pc[e] \in Acquiring \cup Releasing}
EnterAcquire(d) ==
  contested' = IF Meets(d) = {} THEN contested \ {d}
               ELSE contested \cup {d} \cup {e \in Drivers : pc[e] \in Acquiring}
EnterRelease(d) ==
  contested' = contested \cup {e \in Drivers : pc[e] \in Acquiring}

-----------------------------------------------------------------------------
\* A driver process starts (MissionDriver.run builds a ProjectLock) with a
\* process id that nobody uses, possibly that of an earlier driver.
Start(d) ==
  /\ ~Up(d)
  /\ \E p \in Pids \ Used : pid' = [pid EXCEPT ![d] = p]
  /\ Goto(d, "exists")
  /\ UNCHANGED <<lockFile, open, foreign, since, contested, crashes>>

\* acquire(): lock_file.exists().
AcquireExists(d) ==
  /\ pc[d] = "exists"
  /\ Goto(d, IF lockFile = NoFile THEN "truncate" ELSE "read")
  /\ EnterAcquire(d)
  /\ UNCHANGED <<lockFile, open, pid, foreign, since, crashes>>

\* acquire(): read_text() finds that the file has gone; FileNotFoundError is
\* not among the caught exceptions and ends the driver.
AcquireReadMissing(d) ==
  /\ pc[d] = "read" /\ lockFile = NoFile
  /\ Goto(d, "down")
  /\ UNCHANGED <<lockFile, open, pid, foreign, since, contested, crashes>>

\* acquire(): JSONDecodeError or ValueError, "treat as stale".
AcquireReadTorn(d) ==
  /\ pc[d] = "read" /\ lockFile = Torn
  /\ Goto(d, "truncate")
  /\ UNCHANGED <<lockFile, open, pid, foreign, since, contested, crashes>>

\* Mistake: the wrong field of the record is taken for its time.
AcquireReadOwnPid(d) ==
  /\ pc[d] = "read" /\ lockFile.kind = "lock"
  /\ lockFile.pid = pid[d]
  /\ since' = [since EXCEPT ![d] = lockFile.pid]
  /\ Goto(d, "running")
  /\ UNCHANGED <<lockFile, open, pid, foreign, contested, crashes>>

\* acquire(): the record carries this process's own id, left by a dead
\* process that had the same id; it is adopted as it is, old timestamp and all.
AcquireReadOwn(d) ==
  /\ pc[d] = "read" /\ lockFile.kind = "lock"
  /\ lockFile.pid = pid[d]
  /\ since' = [since EXCEPT ![d] = lockFile.age]
  /\ Goto(d, "running")
  /\ UNCHANGED <<lockFile, open, pid, foreign, contested, crashes>>

\* acquire(): a stale record of another process is to be overwritten.
AcquireReadStale(d) ==
  /\ pc[d] = "read" /\ lockFile.kind = "lock"
  /\ lockFile.pid # pid[d] /\ IsStale(lockFile)
  /\ Goto(d, "truncate")
  /\ UNCHANGED <<lockFile, open, pid, foreign, since, contested, crashes>>

\* acquire(): LockConflictError; MissionDriver.run re-raises it before its
\* try/finally, so the loser never calls release().
AcquireConflict(d) ==
  /\ pc[d] = "read" /\ lockFile.kind = "lock"
  /\ lockFile.pid # pid[d] /\ ~IsStale(lockFile)
  /\ Goto(d, "down")
  /\ UNCHANGED <<lockFile, open, pid, foreign, since, contested, crashes>>

\* write_text(): opening for writing creates or truncates the file ...
AcquireTruncate(d) ==
  /\ pc[d] = "truncate"
  /\ lockFile' = Torn
  /\ open' = open \cup {d}
  /\ Goto(d, "write")
  /\ UNCHANGED <<pid, foreign, since, contested, crashes>>

\* ... and the payload follows.  If the file was unlinked in between, the
\* payload goes to a file without a name; if another driver's payload is
\* already there, the shorter one may leave the tail of the longer one.
AcquireWrite(d) ==
  /\ pc[d] = "write"
  /\ IF d \in open
       THEN lockFile' \in {Record(pid[d], 0)}
                            \cup (IF lockFile.kind = "lock" THEN {Torn} ELSE {})
       ELSE UNCHANGED lockFile
  /\ open' = open \ {d}
  /\ since' = [since EXCEPT ![d] = 0]
  /\ Goto(d, "running")
  /\ UNCHANGED <<pid, foreign, contested, crashes>>

\* The run ends, normally or with an exception: the finally clause calls
\* release(), which first asks lock_file.exists().
EndRun(d) ==
  /\ pc[d] = "running"
  /\ Goto(d, "relExists")
  /\ UNCHANGED <<lockFile, open, pid, foreign, since, contested, crashes>>

ReleaseExists(d) ==
  /\ pc[d] = "relExists"
  /\ IF lockFile = NoFile
       THEN Goto(d, "down") /\ UNCHANGED contested
       ELSE Goto(d, "relRead") /\ EnterRelease(d)
  /\ UNCHANGED <<lockFile, open, pid, foreign, since, crashes>>

\* Mistake: the owner of the record is not compared before it is removed.
ReleaseReadAny(d) ==
  /\ pc[d] = "relRead"
  /\ Goto(d, "unlink")
  /\ UNCHANGED <<lockFile, open, pid, foreign, since, contested, crashes>>

\* release(): own record, or any exception while reading (a torn file, a
\* vanished file), leads to unlink; another process's record is left alone.
ReleaseRead(d) ==
  /\ pc[d] = "relRead"
  /\ Goto(d, IF lockFile.kind = "lock" /\ lockFile.pid # pid[d] THEN "down" ELSE "unlink")
  /\ UNCHANGED <<lockFile, open, pid, foreign, since, contested, crashes>>

\* release(): unlink(missing_ok=True) removes whatever is there by now.
ReleaseUnlink(d) ==
  /\ pc[d] = "unlink"
  /\ lockFile' = NoFile
  /\ open' = {}
  /\ Goto(d, "down")
  /\ UNCHANGED <<pid, foreign, since, contested, crashes>>

\* The process dies: the file stays as it is, torn if it died while writing.
Crash(d) ==
  /\ Up(d)
  /\ crashes < MaxCrashes
  /\ crashes' = crashes + 1
  /\ open' = open \ {d}
  /\ Goto(d, "down")
  /\ UNCHANGED <<lockFile, pid, foreign, since, contested>>

\* Processes that are not drivers come and go, and may reuse an id; the
\* operating system never runs out of ids for the drivers.
ForeignStart == \E p \in Pids \ Used :
  /\ Cardinality(foreign) + Cardinality(Drivers) < Cardinality(Pids)
  /\ foreign' = foreign \cup {p}
  /\ UNCHANGED <<lockFile, open, pc, pid, since, contested, crashes>>
ForeignExit == \E p \in foreign :
  /\ foreign' = foreign \ {p}
  /\ UNCHANGED <<lockFile, open, pc, pid, since, contested, crashes>>

\* Time passes; ages saturate at Stale.  Nothing refreshes a record.
Older(a) == IF a < Stale THEN a + 1 ELSE a
Tick ==
  /\ lockFile' = IF lockFile.kind = "lock"
                   THEN Record(lockFile.pid, Older(lockFile.age))
                   ELSE lockFile
  /\ since' = [d \in Drivers |-> IF pc[d] = "running" THEN Older(since[d]) ELSE since[d]]
  /\ UNCHANGED <<open, pc, pid, foreign, contested, crashes>>

Acquire(d) ==
  \/ AcquireExists(d) \/ AcquireReadMissing(d) \/ AcquireReadTorn(d)
  \/ AcquireReadOwn(d) \/ AcquireReadStale(d) \/ AcquireConflict(d)
  \/ AcquireTruncate(d) \/ AcquireWrite(d)
Release(d) == ReleaseExists(d) \/ ReleaseRead(d) \/ ReleaseUnlink(d)
Step(d)    == Start(d) \/ Acquire(d) \/ EndRun(d) \/ Release(d)

Next ==
  \/ \E d \in Drivers : Step(d) \/ Crash(d)
  \/ ForeignStart \/ ForeignExit \/ Tick

Spec == Init /\ [][Next]_vars

\* Every driver process is scheduled and, when it has ended, is started again
\* by an operator who wants the mission to run; time passes.
FairSpec == Spec /\ (\A d \in Drivers : WF_vars(Step(d))) /\ WF_vars(Tick)

-----------------------------------------------------------------------------
\* Every variable has its type.
TypeOK ==
  /\ lockFile \in {NoFile, Torn} \cup Records
  /\ open \in SUBSET Drivers
  /\ pc \in [Drivers -> Places]
  /\ pid \in [Drivers -> Pids]
  /\ foreign \in SUBSET Pids
  /\ since \in [Drivers -> Ages]
  /\ contested \in SUBSET Drivers
  /\ crashes \in 0..MaxCrashes

Running(d) == pc[d] = "running"
\* An acquisition that met no other one, and whose record has not expired.
Quiet(d) == d \notin contested
Fresh(d) == since[d] < Stale

\* Two drivers run at once only if one of them acquired the lock while another
\* acquire or release was under way, or has run for longer than the stale
\* threshold.  This is what the check-then-write protocol of lock.py does give,
\* across crashes, torn files and reused process ids.
QuietExclusion ==
  \A d, e \in Drivers :
    (d # e /\ Running(d) /\ Running(e)) =>
      \E x \in {d, e} : ~Quiet(x) \/ ~Fresh(x)

\* While such a driver runs, the lock file holds its record and is_locked(),
\* which "asc status" shows, says so: no one has deleted or overwritten it.
StatusSeesDriver ==
  \A d \in Drivers :
    (Running(d) /\ Quiet(d) /\ Fresh(d)) =>
       IsLocked /\ lockFile = Record(pid[d], since[d])

\* The inductive invariant behind the two: what a quiet driver knows of the
\* others at each place.
PidsDistinct ==
  \A d \in Drivers : Up(d) =>
    /\ pid[d] \notin foreign
    /\ \A e \in Drivers \ {d} : Up(e) => pid[e] # pid[d]
QuietIsAlone ==
  \A d \in Drivers : (pc[d] \in Acquiring /\ Quiet(d)) => Meets(d) = {}
QuietWriter ==
  \A d \in Drivers : (pc[d] = "write" /\ Quiet(d)) => d \in open /\ lockFile = Torn
QuietOwner ==
  \A d \in Drivers : (Running(d) /\ Quiet(d) /\ Fresh(d)) =>
    /\ lockFile = Record(pid[d], since[d])
    /\ \A e \in Drivers \ {d} : pc[e] \notin {"truncate", "write", "unlink"}
IInv == TypeOK /\ PidsDistinct /\ QuietIsAlone /\ QuietWriter /\ QuietOwner

\* No lock file, whatever a crash left in it, locks the project for ever: while
\* operators keep starting drivers, again and again some driver runs.
ProjectIsNeverWedged == []<>(\E d \in Drivers : Running(d))

\* "Guards repository against concurrent ASC driver executions" (lock.py:62),
\* asked of the drivers whose records have not expired.
ExclusiveWhileFresh ==
  \A d, e \in Drivers :
    (d # e /\ Running(d) /\ Running(e)) => ~Fresh(d) \/ ~Fresh(e)
=============================================================================

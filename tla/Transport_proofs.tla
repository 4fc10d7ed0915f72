-------------------------- MODULE Transport_proofs --------------------------
(***************************************************************************)
(* Theorems about the journals and the key store of Journals, and about    *)
(* the transport that uses them, for any threads, processes, keys, events, *)
(* channels and envelopes.  First the invariant of the journals, which the *)
(* transport keeps as well: the chains stay whole and retired keys rest.   *)
(* Then what the transport adds: a retired key and a revoked channel fall  *)
(* silent, and an envelope is opened once.                                 *)
(***************************************************************************)
EXTENDS Transport, SequenceTheorems, FiniteSetTheorems, TLAPS

Whats == {"ACTIVE", "SIGNED", "ROTATED", "REVOKED", "event"}
Lines == [prev : Nat, what : Whats]
Ops   == {"sign", "rotate", "revoke"}

\* What a thread can be doing.
FileTask             == [step |-> "file"]
TailTask(op, k)      == [step |-> "tail", op |-> op, journal |-> Target(op, k)]
AppendTask(op, j, n) == [step |-> "append", op |-> op, journal |-> j, tail |-> n]
FirstTask(k)         == [step |-> "first", journal |-> <<"status", k>>]

Types ==
  /\ records \subseteq Keys /\ log \in [Journals -> Seq(Lines)] /\ torn \subseteq Journals
  /\ lock \in [Locks -> Threads \cup {None}] /\ DOMAIN task = Threads /\ crashes \in Nat

\* A thread that is about to append holds the lock of its journal, and what it has
\* read is still so: the key is ACTIVE, the line it will name is the last one.
Holds(t, k) == /\ k \in records /\ log[<<"status", k>>] # <<>>
               /\ OneKeyProcess => lock[KeyLock(t)] = t /\ Active(k)
Tailing(t)  == \E op \in Ops, k \in Keys : Holds(t, k) /\ task[t] = TailTask(op, k)
Signing(t)  == \E op \in Ops, k \in Keys, n \in Nat :
  /\ Holds(t, k) /\ task[t] = AppendTask(op, Target(op, k), n)
  /\ OneKeyProcess => n = Len(log[Target(op, k)])
Starting(t) == \E k \in Keys :
  /\ k \in records /\ task[t] = FirstTask(k) /\ log[<<"status", k>>] = <<>>
  /\ \A u \in Threads \ {t} : task[u] # FirstTask(k)
Emits(t)    == \E e \in Events : lock[e] = t /\ task[t] = AppendTask("event", e, Len(log[e]))
Carrying(t) == task[t].step \in {"update", "persist", "emit"}
TaskOK(t) ==
  \/ task[t] \in {NoTask, FileTask} \/ Emits(t) \/ Carrying(t)
  \/ t \in KeyWriters /\ (Tailing(t) \/ Signing(t) \/ Starting(t))

Chains ==
  /\ \A e \in Events : Chained(e)
  /\ OneKeyProcess => \A k \in Keys : Chained(<<"status", k>>) /\ Chained(<<"ledger", k>>)
\* A key without a status is one that is being created, unless a process has died.
Born ==
  /\ \A k \in Keys \ records : log[<<"status", k>>] = <<>>
  /\ crashes = 0 => torn = {}
  /\ crashes = 0 => \A k \in records :
       log[<<"status", k>>] # <<>> \/ \E t \in KeyWriters : task[t] = FirstTask(k)
\* A key has been ACTIVE with its first line and is with no later one.
Lives == \A k \in Keys : \A i \in DOMAIN log[<<"status", k>>] :
           log[<<"status", k>>][i].what = "ACTIVE" <=> i = 1

Inv == Types /\ (\A t \in Threads : TaskOK(t)) /\ Chains /\ Born /\ Lives

-----------------------------------------------------------------------------
LEMMA KeyJournals ==
  ASSUME NEW k \in Keys
  PROVE  /\ <<"status", k>> \in Journals /\ <<"ledger", k>> \in Journals
         /\ <<"status", k>> \notin Events /\ <<"ledger", k>> \notin Events
         /\ \A op \in Ops : Target(op, k) \in {<<"status", k>>, <<"ledger", k>>}
BY JournalsAssumption DEF Journals, Target, Ops

LEMMA TargetIs ==
  ASSUME NEW op \in Ops, NEW k \in Keys
  PROVE  Target(op, k) \in Journals /\ Target(op, k) \in {<<"status", k>>, <<"ledger", k>>}
BY KeyJournals DEF Target

LEMMA StatusIs ==
  ASSUME Types, NEW k \in Keys
  PROVE  /\ KeyStatus(k) \in {"ACTIVE", "ROTATED", "REVOKED"} =>
              k \in records /\ log[<<"status", k>>] # <<>> /\ Intact(<<"status", k>>)
         /\ Active(k) <=> KeyStatus(k) = "ACTIVE"
BY DEF KeyStatus, Active

\* The status of a key is what its own journal says.
LEMMA StatusKept ==
  ASSUME Types, NEW k \in Keys, k \in records, records \subseteq records',
         log'[<<"status", k>>] = log[<<"status", k>>],
         <<"status", k>> \in torn' <=> <<"status", k>> \in torn
  PROVE  KeyStatus(k)' = KeyStatus(k) /\ (Active(k) => Active(k)')
BY DEF KeyStatus, Active, Intact, Chained

LEMMA ChainGrows ==
  ASSUME NEW s \in Seq(Lines), \A i \in DOMAIN s : s[i].prev = i - 1, NEW what \in Whats
  PROVE  \A i \in DOMAIN Append(s, [prev |-> Len(s), what |-> what]) :
           Append(s, [prev |-> Len(s), what |-> what])[i].prev = i - 1
<1> DEFINE line == [prev |-> Len(s), what |-> what]
           new  == Append(s, line)
<1>1. line \in Lines /\ line.prev = Len(s)
  BY DEF Lines
<1>2. /\ DOMAIN new = 1..(Len(s) + 1) /\ new[Len(s) + 1] = line
      /\ \A i \in 1..Len(s) : new[i] = s[i]
  BY <1>1
<1> HIDE DEF line, new
<1>3. ASSUME NEW i \in DOMAIN new PROVE new[i].prev = i - 1
  BY <1>1, <1>2, <1>3
<1>. QED
  BY <1>3 DEF new, line

LEMMA ExtendedIs ==
  ASSUME Types, NEW j \in Journals, NEW n \in Nat, NEW what \in Whats
  PROVE  /\ Extended(j, n, what) \in [Journals -> Seq(Lines)]
         /\ \A i \in Journals \ {j} : Extended(j, n, what)[i] = log[i]
         /\ j \in torn => Extended(j, n, what) = log
         /\ j \notin torn =>
              Extended(j, n, what)[j] = Append(log[j], [prev |-> n, what |-> what])
<1>1. [prev |-> n, what |-> what] \in Lines /\ log[j] \in Seq(Lines)
  BY DEF Lines, Types
<1>2. Append(log[j], [prev |-> n, what |-> what]) \in Seq(Lines)
  BY <1>1
<1>. QED
  BY <1>2 DEF Extended, Types

-----------------------------------------------------------------------------
(* What a step of a thread does.                                           *)

\* It appends at most one line, to a journal that it alone may append to.
Alone(t, j, k) ==
  \/ log[<<"status", k>>] = <<>> /\ j = <<"status", k>> /\ task[t] = FirstTask(k)
  \/ log[<<"status", k>>] # <<>> /\ (OneKeyProcess => lock[KeyLock(t)] = t /\ Active(k))
Grows(t) == \E j \in Journals, n \in Nat, what \in Whats :
  /\ log' = Extended(j, n, what)
  /\ \/ j \in Events /\ lock[j] = t /\ n = Len(log[j])
     \/ \E k \in Keys : /\ t \in KeyWriters /\ k \in records
                        /\ j \in {<<"status", k>>, <<"ledger", k>>}
                        /\ (OneKeyProcess => n = Len(log[j])) /\ Alone(t, j, k)
                        /\ j = <<"status", k>> => (what = "ACTIVE" <=> log[j] = <<>>)

StepOf(t) ==
  /\ Types' /\ Born' /\ TaskOK(t)'
  /\ torn' = torn /\ crashes' = crashes /\ records \subseteq records'
  /\ \A u \in Threads \ {t} : task'[u] = task[u]
  /\ \A l \in Locks : lock[l] \in Threads \ {t} => lock'[l] = lock[l]
  /\ \A k \in records : task'[t] = FirstTask(k) => task[t] = FirstTask(k)
  /\ log' = log \/ Grows(t)

\* A step that leaves the keys and their statuses alone.
LEMMA BornKept ==
  ASSUME Types, Born, NEW t \in Threads, records' = records, torn' = torn, crashes' = crashes,
         \A k \in Keys \ records : log'[<<"status", k>>] = log[<<"status", k>>],
         \A k \in Keys : log[<<"status", k>>] # <<>> => log'[<<"status", k>>] # <<>>,
         \A u \in Threads \ {t} : task'[u] = task[u],
         \A k \in Keys : task[t] # FirstTask(k)
  PROVE  Born'
<1>1. KeyWriters \subseteq Threads
  BY JournalsAssumption
<1>2. \A k \in records, u \in KeyWriters : task[u] = FirstTask(k) => task'[u] = FirstTask(k)
  BY <1>1 DEF Types
<1>. QED
  BY <1>2 DEF Born, Types

\* No line is ever lost.
LEMMA GrowsOnly ==
  ASSUME Types, NEW j \in Journals, NEW n \in Nat, NEW what \in Whats, NEW i \in Journals
  PROVE  /\ log[i] # <<>> => Extended(j, n, what)[i] # <<>>
         /\ i # j => Extended(j, n, what)[i] = log[i]
         /\ i = j /\ j \notin torn => Extended(j, n, what)[i] # <<>>
<1>1. ASSUME NEW s \in Seq(Lines), NEW line \in Lines PROVE Append(s, line) # <<>>
  <2>1. Len(Append(s, line)) = Len(s) + 1 /\ Len(s) \in Nat
    OBVIOUS
  <2>2. Len(Append(s, line)) # 0
    BY <2>1
  <2>3. Len(<<>>) = 0
    OBVIOUS
  <2>. QED
    BY <2>2, <2>3
<1>2. log[i] \in Seq(Lines) /\ [prev |-> n, what |-> what] \in Lines
  BY DEF Types, Lines
<1>3. CASE i # j
  BY <1>3 DEF Extended, Types
<1>4. CASE i = j
  <2>1. j \notin torn => Extended(j, n, what)[j] # <<>>
    BY <1>1, <1>2, <1>4, ExtendedIs
  <2>2. j \in torn => Extended(j, n, what)[j] = log[j]
    BY ExtendedIs
  <2>. QED
    BY <1>4, <2>1, <2>2
<1>. QED
  BY <1>3, <1>4

LEMMA RequireActiveStep ==
  ASSUME Inv, NEW t \in KeyWriters, NEW op \in DOMAIN Written, NEW k \in Keys, RequireActive(t, op, k)
  PROVE  StepOf(t)
<1>1. t \in Threads /\ op \in Ops /\ KeyLock(t) \in Locks /\ task[t] = NoTask
  BY JournalsAssumption DEF Written, Ops, RequireActive, Idle, KeyLock, Locks, Processes
<1>2. task' = [task EXCEPT ![t] = TailTask(op, k)] /\ lock' = [lock EXCEPT ![KeyLock(t)] = t]
  BY DEF RequireActive, TailTask
<1>3. /\ k \in records /\ Active(k)' /\ lock[KeyLock(t)] = None
      /\ log[<<"status", k>>] # <<>> /\ log' = log
  BY StatusIs DEF RequireActive, Active, KeyStatus, Intact, Chained, Free, Inv
<1>4. \A i \in Keys : task[t] # FirstTask(i) /\ TailTask(op, k) # FirstTask(i)
  BY <1>1 DEF NoTask, FirstTask, TailTask
<1>5. Types'
  BY <1>1, <1>2 DEF Inv, Types, RequireActive
<1>6. Born'
  BY <1>1, <1>2, <1>4, BornKept DEF Inv, RequireActive, Types
<1>7. task'[t] = TailTask(op, k) /\ lock'[KeyLock(t)] = t
  BY <1>1, <1>2 DEF Inv, Types
<1>8. TaskOK(t)'
  BY <1>1, <1>3, <1>7 DEF TaskOK, Tailing, Holds, RequireActive, KeyLock, OneKeyProcess, TailTask, Target
<1>. QED
  BY <1>1, <1>2, <1>3, <1>4, <1>5, <1>6, <1>7, <1>8, JournalsAssumption DEF StepOf, RequireActive, Inv, Types

\* Releasing a lock takes nothing from anybody else.
LEMMA UnlockedIs ==
  ASSUME Types, NEW t \in Threads, NEW locks
  PROVE  /\ Unlocked(t, locks) \in [Locks -> Threads \cup {None}]
         /\ \A l \in Locks : lock[l] \in Threads \ {t} => Unlocked(t, locks)[l] = lock[l]
BY DEF Unlocked, Types

\* The steps of a task that are told apart by what the thread is doing.
LEMMA TaskIs ==
  ASSUME NEW t \in Threads, TaskOK(t)
  PROVE  /\ At(t, "tail") => t \in KeyWriters /\ Tailing(t)
         /\ At(t, "append") /\ task[t].op \in DOMAIN Written => t \in KeyWriters /\ Signing(t)
         /\ At(t, "append") /\ task[t].op = "event" => Emits(t)
         /\ At(t, "first") => t \in KeyWriters /\ Starting(t)
         /\ At(t, "file") => task[t] = FileTask
<1>1. NoTask.step = "none" /\ FileTask.step = "file"
  BY DEF NoTask, FileTask
<1>2. Tailing(t) => task[t].step = "tail"
  BY DEF Tailing, TailTask
<1>3. Signing(t) => task[t].step = "append" /\ task[t].op \in Ops
  BY DEF Signing, AppendTask
<1>4. Starting(t) => task[t].step = "first"
  BY DEF Starting, FirstTask
<1>5. Emits(t) => task[t].step = "append" /\ task[t].op = "event"
  BY DEF Emits, AppendTask
<1>. QED
  BY <1>1, <1>2, <1>3, <1>4, <1>5 DEF TaskOK, Carrying, At, Ops, Written

LEMMA ReadTailStep == ASSUME Inv, NEW t \in KeyWriters, ReadTail(t) PROVE StepOf(t)
<1>1. t \in Threads /\ KeyLock(t) \in Locks
  BY JournalsAssumption DEF KeyLock, Locks, Processes
<1>2. PICK op \in Ops, k \in Keys : Holds(t, k) /\ task[t] = TailTask(op, k)
  BY <1>1, TaskIs DEF ReadTail, Tailing, Inv
<1> DEFINE j == Target(op, k)
<1>3. task[t].op = op /\ task[t].journal = j /\ \A i \in Keys : task[t] # FirstTask(i)
  BY <1>2 DEF TailTask, FirstTask
<1>4. j \in Journals /\ Len(log[j]) \in Nat
  BY TargetIs DEF Inv, Types
<1>5. \/ task' = [task EXCEPT ![t] = AppendTask(op, j, Len(log[j]))] /\ lock' = lock
      \/ task' = [task EXCEPT ![t] = NoTask] /\ lock' = Unlocked(t, {KeyLock(t)})
  BY <1>3 DEF ReadTail, AppendTask
<1>6. records' = records /\ log' = log /\ torn' = torn /\ crashes' = crashes
  BY DEF ReadTail
<1>7. Types'
  BY <1>1, <1>5, <1>6, UnlockedIs DEF Inv, Types
<1>8. Born'
  BY <1>1, <1>3, <1>5, <1>6, BornKept DEF Inv, Types
<1>9. \A i \in Keys : AppendTask(op, j, Len(log[j])) # FirstTask(i) /\ NoTask # FirstTask(i)
  BY DEF AppendTask, FirstTask, NoTask
<1>10. TaskOK(t)'
  <2>1. CASE task'[t] = NoTask
    BY <2>1 DEF TaskOK
  <2>2. CASE task'[t] = AppendTask(op, j, Len(log[j])) /\ lock' = lock
    <3>1. Holds(t, k)'
      BY <1>2, <1>6, <2>2, StatusKept DEF Holds, Inv, KeyLock, OneKeyProcess
    <3>2. task'[t] = AppendTask(op, Target(op, k)', Len(log[j])) /\ Len(log[j]) = Len(log[Target(op, k)])'
      BY <1>6, <2>2 DEF Target
    <3>. QED
      BY <1>4, <3>1, <3>2 DEF TaskOK, Signing
  <2>. QED
    BY <1>1, <1>5, <2>1, <2>2 DEF Inv, Types
<1>. QED
  BY <1>1, <1>5, <1>6, <1>7, <1>8, <1>9, <1>10, UnlockedIs DEF StepOf, Inv, Types

LEMMA AppendKeyStep == ASSUME Inv, NEW t \in KeyWriters, AppendKey(t) PROVE StepOf(t)
<1>1. t \in Threads /\ KeyLock(t) \in Locks
  BY JournalsAssumption DEF KeyLock, Locks, Processes
<1>2. PICK op \in Ops, k \in Keys, n \in Nat :
        /\ Holds(t, k) /\ task[t] = AppendTask(op, Target(op, k), n)
        /\ OneKeyProcess => n = Len(log[Target(op, k)])
  BY <1>1, TaskIs DEF AppendKey, Signing, Inv
<1> DEFINE j == Target(op, k)
           what == Written[op]
<1>3. /\ task[t].op = op /\ task[t].journal = j /\ task[t].tail = n
      /\ \A i \in Keys : task[t] # FirstTask(i)
  BY <1>2 DEF AppendTask, FirstTask
<1>4. what \in Whats
  BY DEF Written, Ops, Whats
<1>12. j \in Journals /\ j \in {<<"status", k>>, <<"ledger", k>>}
  BY TargetIs
<1>5. /\ task' = [task EXCEPT ![t] = FileTask] \/ task' = [task EXCEPT ![t] = NoTask]
      /\ lock' = lock \/ lock' = Unlocked(t, {KeyLock(t)})
      /\ log' = Extended(j, n, what)
  BY <1>3 DEF AppendKey, FileTask
<1>6. records' = records /\ torn' = torn /\ crashes' = crashes
  BY DEF AppendKey
<1> HIDE DEF what, j
<1>7. Types'
  <2>1. Types
    BY DEF Inv
  <2>2. log' \in [Journals -> Seq(Lines)]
    BY <1>4, <1>5, <1>12, <2>1, ExtendedIs
  <2>3. lock' \in [Locks -> Threads \cup {None}]
    BY <1>1, <1>5, <2>1, UnlockedIs DEF Types
  <2>. QED
    BY <1>1, <1>5, <1>6, <2>1, <2>2, <2>3 DEF Types
<1>8. Born'
  <2>1. \A i \in Keys \ records : log'[<<"status", i>>] = log[<<"status", i>>]
    <3>. SUFFICES ASSUME NEW i \in Keys \ records PROVE log'[<<"status", i>>] = log[<<"status", i>>]
      OBVIOUS
    <3>0. i # k /\ <<"status", i>> \in Journals
      BY <1>2, KeyJournals DEF Holds
    <3>1. <<"status", i>> # j
      BY <1>12, <3>0
    <3>. QED
      BY <1>4, <1>5, <1>12, <3>0, <3>1, GrowsOnly DEF Inv
  <2>2. ASSUME NEW i \in Keys, log[<<"status", i>>] # <<>> PROVE log'[<<"status", i>>] # <<>>
    <3>1. <<"status", i>> \in Journals
      BY KeyJournals
    <3>. QED
      BY <1>4, <1>5, <1>12, <2>2, <3>1, GrowsOnly DEF Inv
  <2>. QED
    BY <1>1, <1>3, <1>5, <1>6, <2>1, <2>2, BornKept DEF Inv, Types
<1>9. \A i \in Keys : FileTask # FirstTask(i) /\ NoTask # FirstTask(i)
  BY DEF FileTask, FirstTask, NoTask
<1>10. task'[t] \in {NoTask, FileTask}
  BY <1>1, <1>5 DEF Inv, Types
<1>13. j = <<"status", k>> => what # "ACTIVE"
  BY DEF j, what, Target, Written, Ops
<1>11. Grows(t)
  <2>1. Alone(t, j, k) /\ (j = <<"status", k>> => (what = "ACTIVE" <=> log[j] = <<>>))
    BY <1>2, <1>13 DEF Holds, Alone
  <2>2. OneKeyProcess => n = Len(log[j])
    BY <1>2 DEF j
  <2>. QED
    BY <1>2, <1>4, <1>5, <1>12, <2>1, <2>2 DEF Grows, Holds
<1>. QED
  BY <1>1, <1>5, <1>6, <1>7, <1>8, <1>9, <1>10, <1>11, UnlockedIs DEF StepOf, TaskOK, Inv, Types

LEMMA CreateFileStep == ASSUME Inv, NEW t \in KeyWriters, CreateFile(t) PROVE StepOf(t)
<1>1. t \in Threads
  BY JournalsAssumption
<1>2. PICK k \in Keys \ records :
        /\ records' = records \cup {k}
        /\ task' = [task EXCEPT ![t] = FirstTask(k)]
  BY DEF CreateFile, FirstTask
<1>3. log' = log /\ torn' = torn /\ lock' = lock /\ crashes' = crashes
  BY DEF CreateFile
<1>4. task[t] \in {NoTask, FileTask}
  BY <1>1, TaskIs DEF Inv, CreateFile, Idle
<1>5. \A i \in Keys : task[t] # FirstTask(i) /\ (FirstTask(i) = FirstTask(k) => i = k)
  BY <1>4 DEF FirstTask, NoTask, FileTask
<1>6. Types'
  BY <1>1, <1>2, <1>3 DEF Inv, Types
<1>7. task'[t] = FirstTask(k) /\ \A u \in Threads \ {t} : task'[u] = task[u]
  BY <1>1, <1>2 DEF Inv, Types
<1>8. Born'
  <2>1. \A u \in Threads, i \in Keys : task[u] = FirstTask(i) => task'[u] = FirstTask(i)
    BY <1>5, <1>7
  <2>2. \A i \in Keys \ records' : log'[<<"status", i>>] = <<>>
    BY <1>2, <1>3 DEF Inv, Born
  <2>3. ASSUME crashes' = 0, NEW i \in records', log'[<<"status", i>>] = <<>>
        PROVE  \E u \in KeyWriters : task'[u] = FirstTask(i)
    <3>1. CASE i = k
      BY <1>7, <3>1
    <3>2. CASE i # k
      <4>1. i \in records /\ i \in Keys
        BY <1>2, <1>6, <3>2 DEF Types
      <4>2. PICK u \in KeyWriters : task[u] = FirstTask(i)
        BY <1>3, <2>3, <4>1 DEF Inv, Born
      <4>. QED
        BY <2>1, <4>1, <4>2, JournalsAssumption
    <3>. QED
      BY <3>1, <3>2
  <2>. QED
    BY <1>3, <2>2, <2>3 DEF Inv, Born
<1>9. \A u \in Threads \ {t} : task'[u] # FirstTask(k)
  <2>. SUFFICES ASSUME NEW u \in Threads \ {t}, task[u] = FirstTask(k) PROVE FALSE
    BY <1>7
  <2>1. At(u, "first")
    BY DEF At, FirstTask
  <2>2. PICK i \in Keys : i \in records /\ task[u] = FirstTask(i)
    BY <2>1, TaskIs DEF Inv, Starting
  <2>. QED
    BY <2>2 DEF FirstTask
<1>10. TaskOK(t)'
  <2>1. k \in records' /\ log'[<<"status", k>>] = <<>>
    BY <1>2, <1>3 DEF Inv, Born
  <2>2. Starting(t)'
    BY <1>7, <1>9, <2>1 DEF Starting, FirstTask
  <2>. QED
    BY <2>2 DEF TaskOK
<1>11. \A i \in records : task'[t] # FirstTask(i)
  BY <1>2, <1>5, <1>6, <1>7 DEF Inv, Types
<1>. QED
  BY <1>2, <1>3, <1>6, <1>7, <1>8, <1>10, <1>11 DEF StepOf

LEMMA FirstStatusStep == ASSUME Inv, NEW t \in KeyWriters, FirstStatus(t) PROVE StepOf(t)
<1>1. t \in Threads /\ KeyLock(t) \in Locks
  BY JournalsAssumption DEF KeyLock, Locks, Processes
<1>2. PICK k \in Keys :
        k \in records /\ task[t] = FirstTask(k) /\ log[<<"status", k>>] = <<>>
  BY <1>1, TaskIs DEF FirstStatus, Starting, Inv
<1> DEFINE j == <<"status", k>>
<1>3. task[t].journal = j /\ \A i \in Keys : task[t] = FirstTask(i) => i = k
  BY <1>2 DEF FirstTask
<1>12. j \in Journals
  BY KeyJournals
<1>4. j \in Journals /\ "ACTIVE" \in Whats /\ Len(log[j]) \in Nat
  BY <1>12 DEF Whats, Inv, Types
<1>5. /\ task' = [task EXCEPT ![t] = NoTask] /\ lock' = Unlocked(t, {KeyLock(t)})
      /\ log' = Extended(j, Len(log[j]), "ACTIVE")
  BY <1>3 DEF FirstStatus
<1>6. records' = records /\ torn' = torn /\ crashes' = crashes
  BY DEF FirstStatus
<1>7. Types'
  <2>1. Types
    BY DEF Inv
  <2>2. log' \in [Journals -> Seq(Lines)]
    BY <1>4, <1>5, <2>1, ExtendedIs
  <2>3. lock' \in [Locks -> Threads \cup {None}]
    BY <1>1, <1>5, <2>1, UnlockedIs
  <2>. QED
    BY <1>1, <1>5, <1>6, <2>1, <2>2, <2>3 DEF Types
<1>8. Born'
  <2>1. ASSUME NEW i \in Keys
        PROVE  /\ log[<<"status", i>>] # <<>> => log'[<<"status", i>>] # <<>>
               /\ i # k => log'[<<"status", i>>] = log[<<"status", i>>]
               /\ i = k /\ j \notin torn => log'[<<"status", i>>] # <<>>
    <3>1. <<"status", i>> \in Journals /\ (i # k => <<"status", i>> # j)
      BY KeyJournals
    <3>. QED
      BY <1>4, <1>5, <3>1, GrowsOnly DEF Inv
  <2>2. \A u \in KeyWriters, i \in Keys : task[u] = FirstTask(i) => i = k \/ task'[u] = FirstTask(i)
    BY <1>1, <1>3, <1>5, JournalsAssumption DEF Inv, Types
  <2>. QED
    BY <1>2, <1>6, <2>1, <2>2 DEF Inv, Born, Types
<1>9. \A i \in Keys : NoTask # FirstTask(i)
  BY DEF FirstTask, NoTask
<1>10. task'[t] = NoTask
  BY <1>1, <1>5 DEF Inv, Types
<1>11. Grows(t)
  BY <1>2, <1>4, <1>5 DEF Grows, Alone
<1>13. TaskOK(t)' /\ \A i \in records : task'[t] # FirstTask(i)
  BY <1>9, <1>10 DEF TaskOK, Inv, Types
<1>14. /\ \A u \in Threads \ {t} : task'[u] = task[u]
       /\ \A l \in Locks : lock[l] \in Threads \ {t} => lock'[l] = lock[l]
  BY <1>1, <1>5, UnlockedIs DEF Inv, Types
<1>. QED
  BY <1>6, <1>7, <1>8, <1>11, <1>13, <1>14 DEF StepOf

LEMMA OpenJournalStep ==
  ASSUME Inv, NEW t \in Threads, NEW e \in Events, OpenJournal(t, e) PROVE StepOf(t)
<1>1. task[t].step \in {"none", "emit"} /\ e \in Journals /\ e \in Locks
  BY DEF OpenJournal, Emitting, Idle, At, NoTask, Journals, Locks
<1> DEFINE new == AppendTask("event", e, Len(log[e]))
<1>2. task' = [task EXCEPT ![t] = new] /\ lock' = [lock EXCEPT ![e] = t] /\ lock[e] = None
  BY DEF OpenJournal, AppendTask, Free
<1>3. records' = records /\ log' = log /\ torn' = torn /\ crashes' = crashes
  BY DEF OpenJournal
<1>4. \A i \in Keys : task[t] # FirstTask(i) /\ new # FirstTask(i)
  BY <1>1 DEF FirstTask, AppendTask
<1> HIDE DEF new
<1>5. task'[t] = new /\ lock'[e] = t /\ \A u \in Threads \ {t} : task'[u] = task[u]
  BY <1>1, <1>2 DEF Inv, Types
<1>6. Types'
  BY <1>1, <1>2, <1>3 DEF Inv, Types
<1>7. Born'
  BY <1>3, <1>4, <1>5, BornKept DEF Inv
<1>8. TaskOK(t)'
  BY <1>3, <1>5 DEF TaskOK, Emits, new
<1>9. \A l \in Locks : lock[l] \in Threads \ {t} => lock'[l] = lock[l]
  BY <1>1, <1>2, JournalsAssumption DEF Inv, Types
<1>10. \A i \in records : task'[t] # FirstTask(i)
  BY <1>4, <1>5 DEF Inv, Types
<1>. QED
  BY <1>3, <1>5, <1>6, <1>7, <1>8, <1>9, <1>10 DEF StepOf

LEMMA AppendEventStep == ASSUME Inv, NEW t \in Threads, AppendEvent(t) PROVE StepOf(t)
<1>1. PICK e \in Events : lock[e] = t /\ task[t] = AppendTask("event", e, Len(log[e]))
  BY TaskIs DEF AppendEvent, Emits, Inv
<1>2. /\ task[t].journal = e /\ task[t].tail = Len(log[e])
      /\ \A i \in Keys : task[t] # FirstTask(i) /\ NoTask # FirstTask(i)
  BY <1>1 DEF AppendTask, FirstTask, NoTask
<1>3. e \in Journals /\ "event" \in Whats /\ Len(log[e]) \in Nat
  BY DEF Whats, Journals, Inv, Types
<1>4. /\ task' = [task EXCEPT ![t] = NoTask]
      /\ lock' = Unlocked(t, {e, <<"etr", ProcessOf[t]>>})
      /\ log' = Extended(e, Len(log[e]), "event")
  BY <1>2 DEF AppendEvent
<1>5. records' = records /\ torn' = torn /\ crashes' = crashes
  BY DEF AppendEvent
<1>6. task'[t] = NoTask /\ \A u \in Threads \ {t} : task'[u] = task[u]
  BY <1>4 DEF Inv, Types
<1>7. Types'
  <2>1. Types
    BY DEF Inv
  <2>2. log' \in [Journals -> Seq(Lines)]
    BY <1>3, <1>4, <2>1, ExtendedIs
  <2>3. lock' \in [Locks -> Threads \cup {None}]
    BY <1>4, <2>1, UnlockedIs
  <2>. QED
    BY <1>4, <1>5, <2>1, <2>2, <2>3 DEF Types
<1>8. Born'
  <2>1. ASSUME NEW i \in Keys PROVE log'[<<"status", i>>] = log[<<"status", i>>]
    <3>1. <<"status", i>> \in Journals /\ <<"status", i>> # e
      BY KeyJournals
    <3>. QED
      BY <1>3, <1>4, <3>1, GrowsOnly DEF Inv
  <2>. QED
    BY <1>2, <1>5, <1>6, <2>1, BornKept DEF Inv
<1>9. TaskOK(t)' /\ \A i \in records : task'[t] # FirstTask(i)
  BY <1>2, <1>6 DEF TaskOK, Inv, Types
<1>10. \A l \in Locks : lock[l] \in Threads \ {t} => lock'[l] = lock[l]
  BY <1>4, UnlockedIs DEF Inv
<1>11. Grows(t)
  BY <1>1, <1>3, <1>4 DEF Grows
<1>. QED
  BY <1>5, <1>6, <1>7, <1>8, <1>9, <1>10, <1>11 DEF StepOf

-----------------------------------------------------------------------------
(* What a step of a thread leaves to the others.                           *)

\* A key that a thread has found ACTIVE under the lock of the key store is left
\* alone by all others: they append to other keys.
LEMMA LeftAlone ==
  ASSUME Inv, OneKeyProcess, NEW t \in Threads, StepOf(t), NEW u \in KeyWriters \ {t},
         NEW k \in Keys, lock[KeyLock(u)] = u, Active(k)
  PROVE  /\ log'[<<"status", k>>] = log[<<"status", k>>]
         /\ log'[<<"ledger", k>>] = log[<<"ledger", k>>]
         /\ Active(k)' /\ lock'[KeyLock(u)] = u
<1>1. u \in Threads /\ KeyLock(u) \in Locks
  BY JournalsAssumption DEF KeyLock, Locks, Processes
<1>2. lock'[KeyLock(u)] = u
  BY <1>1 DEF StepOf
<1>3. k \in records /\ log[<<"status", k>>] # <<>>
  BY StatusIs DEF Inv
<1>4. CASE log' = log
  BY <1>2, <1>3, <1>4, StatusKept DEF StepOf, Inv
<1>5. CASE Grows(t)
  <2>1. PICK j \in Journals, n \in Nat, what \in Whats :
          /\ log' = Extended(j, n, what)
          /\ \/ j \in Events
             \/ \E i \in Keys : /\ t \in KeyWriters /\ i \in records
                                /\ j \in {<<"status", i>>, <<"ledger", i>>} /\ Alone(t, j, i)
    BY <1>5 DEF Grows
  <2>2. j \notin {<<"status", k>>, <<"ledger", k>>}
    <3>1. ASSUME NEW i \in Keys, t \in KeyWriters, j \in {<<"status", i>>, <<"ledger", i>>},
                 Alone(t, j, i)
          PROVE  j \notin {<<"status", k>>, <<"ledger", k>>}
      <4>1. KeyLock(t) = KeyLock(u)
        BY <3>1 DEF OneKeyProcess, KeyLock
      <4>. QED
        BY <1>3, <3>1, <4>1 DEF Alone
    <3>. QED
      BY <2>1, <3>1, KeyJournals
  <2>3. ASSUME NEW q \in {<<"status", k>>, <<"ledger", k>>} PROVE log'[q] = log[q]
    <3>1. q \in Journals /\ q # j
      BY <2>2, KeyJournals
    <3>2. Extended(j, n, what)[q] = log[q]
      BY <3>1, GrowsOnly DEF Inv
    <3>. QED
      BY <2>1, <3>2
  <2>. QED
    BY <1>2, <1>3, <2>3, StatusKept DEF StepOf, Inv
<1>. QED
  BY <1>4, <1>5 DEF StepOf

\* What a key has for statuses only grows.
LEMMA StatusStays ==
  ASSUME Inv, NEW t \in Threads, StepOf(t), NEW k \in Keys
  PROVE  /\ log[<<"status", k>>] # <<>> => log'[<<"status", k>>] # <<>>
         /\ Len(log'[<<"status", k>>]) >= Len(log[<<"status", k>>])
<1> DEFINE s == <<"status", k>>
<1>1. s \in Journals /\ log[s] \in Seq(Lines)
  BY KeyJournals DEF Inv, Types
<1>2. CASE log' = log
  BY <1>1, <1>2
<1>3. CASE Grows(t)
  <2>1. PICK j \in Journals, n \in Nat, what \in Whats : log' = Extended(j, n, what)
    BY <1>3 DEF Grows
  <2>2. /\ (s # j \/ j \in torn) => log'[s] = log[s]
        /\ (s = j /\ j \notin torn) => log'[s] = Append(log[s], [prev |-> n, what |-> what])
    <3> HIDE DEF s
    <3>. QED
      BY <1>1, <2>1, ExtendedIs DEF Inv
  <2>3. [prev |-> n, what |-> what] \in Lines
    BY DEF Lines
  <2> DEFINE line == [prev |-> n, what |-> what]
  <2> HIDE DEF line
  <2>4. ASSUME NEW l \in Lines
        PROVE  Len(Append(log[s], l)) = Len(log[s]) + 1 /\ Len(log[s]) \in Nat
    BY <1>1
  <2>5. Len(log'[s]) >= Len(log[s])
    BY <1>1, <2>2, <2>3, <2>4
  <2>. QED
    BY <1>1, <2>1, <2>5, GrowsOnly DEF Inv
<1>. QED
  BY <1>2, <1>3 DEF StepOf

LEMMA OthersOK ==
  ASSUME Inv, NEW t \in Threads, StepOf(t), NEW u \in Threads \ {t} PROVE TaskOK(u)'
<1>1. task'[u] = task[u] /\ records \subseteq records' /\ TaskOK(u)
  BY DEF StepOf, Inv
<1>2. CASE task[u] \in {NoTask, FileTask}
  BY <1>1, <1>2 DEF TaskOK
<1>3. CASE Emits(u)
  <2>1. PICK e \in Events : lock[e] = u /\ task[u] = AppendTask("event", e, Len(log[e]))
    BY <1>3 DEF Emits
  <2>2. e \in Journals /\ e \in Locks
    BY DEF Journals, Locks
  <2>3. log'[e] = log[e]
    <3>1. CASE Grows(t)
      <4>1. PICK j \in Journals, n \in Nat, what \in Whats :
              /\ log' = Extended(j, n, what)
              /\ \/ j \in Events /\ lock[j] = t
                 \/ \E k \in Keys : j \in {<<"status", k>>, <<"ledger", k>>}
        BY <3>1 DEF Grows
      <4>2. j # e
        BY <2>1, <4>1, KeyJournals
      <4>. QED
        BY <2>2, <4>1, <4>2, GrowsOnly DEF Inv
    <3>. QED
      BY <3>1 DEF StepOf
  <2>4. lock'[e] = u
    BY <2>1, <2>2 DEF StepOf
  <2>. QED
    BY <1>1, <2>1, <2>3, <2>4 DEF TaskOK, Emits
<1>4. CASE u \in KeyWriters /\ Tailing(u)
  <2>1. PICK op \in Ops, k \in Keys : Holds(u, k) /\ task[u] = TailTask(op, k)
    BY <1>4 DEF Tailing
  <2>2. Holds(u, k)'
    BY <1>1, <1>4, <2>1, LeftAlone, StatusStays DEF Holds, KeyLock, OneKeyProcess
  <2>3. task'[u] = TailTask(op, k)
    BY <1>1, <2>1
  <2>4. Tailing(u)'
    BY <2>2, <2>3 DEF Tailing, TailTask, Target
  <2>. QED
    BY <1>4, <2>4 DEF TaskOK
<1>5. CASE u \in KeyWriters /\ Signing(u)
  <2>1. PICK op \in Ops, k \in Keys, n \in Nat :
          /\ Holds(u, k) /\ task[u] = AppendTask(op, Target(op, k), n)
          /\ OneKeyProcess => n = Len(log[Target(op, k)])
    BY <1>5 DEF Signing
  <2>2. Holds(u, k)'
    BY <1>1, <1>5, <2>1, LeftAlone, StatusStays DEF Holds, KeyLock, OneKeyProcess
  <2>3. OneKeyProcess => n = Len(log'[Target(op, k)])
    BY <1>5, <2>1, LeftAlone, TargetIs DEF Holds
  <2>4. task'[u] = AppendTask(op, Target(op, k), n)
    BY <1>1, <2>1
  <2>5. Signing(u)'
    BY <2>2, <2>3, <2>4 DEF Signing, AppendTask, Target, OneKeyProcess
  <2>. QED
    BY <1>5, <2>5 DEF TaskOK
<1>6. CASE u \in KeyWriters /\ Starting(u)
  <2>1. PICK k \in Keys :
          /\ k \in records /\ task[u] = FirstTask(k) /\ log[<<"status", k>>] = <<>>
          /\ \A w \in Threads \ {u} : task[w] # FirstTask(k)
    BY <1>6 DEF Starting
  <2>2. log'[<<"status", k>>] = <<>>
    <3>1. CASE Grows(t)
      <4>1. PICK j \in Journals, n \in Nat, what \in Whats :
              /\ log' = Extended(j, n, what)
              /\ \/ j \in Events
                 \/ \E i \in Keys : j \in {<<"status", i>>, <<"ledger", i>>} /\ Alone(t, j, i)
        BY <3>1 DEF Grows
      <4>3. ASSUME NEW i \in Keys, j = <<"status", k>>, j \in {<<"status", i>>, <<"ledger", i>>},
                   Alone(t, j, i)
            PROVE  FALSE
        <5>1. i = k
          BY <4>3
        <5>2. task[t] = FirstTask(i)
          BY <2>1, <4>3, <5>1 DEF Alone
        <5>. QED
          BY <2>1, <5>1, <5>2
      <4>5. j # <<"status", k>>
        BY <4>1, <4>3, KeyJournals
      <4>4. Extended(j, n, what)[<<"status", k>>] = log[<<"status", k>>]
        BY <4>5, KeyJournals, GrowsOnly DEF Inv
      <4>. QED
        BY <2>1, <4>1, <4>4
    <3>. QED
      BY <2>1, <3>1 DEF StepOf
  <2>3. ASSUME NEW w \in Threads \ {u} PROVE task'[w] # FirstTask(k)
    BY <2>1, <2>3 DEF StepOf
  <2>4. k \in records' /\ task'[u] = FirstTask(k)
    BY <1>1, <2>1
  <2>5. Starting(u)'
    BY <2>2, <2>3, <2>4 DEF Starting, FirstTask
  <2>. QED
    BY <1>6, <2>5 DEF TaskOK
<1>7. CASE Carrying(u)
  BY <1>1, <1>7 DEF TaskOK, Carrying
<1>. QED
  BY <1>1, <1>2, <1>3, <1>4, <1>5, <1>6, <1>7 DEF TaskOK

LEMMA ChainsStep == ASSUME Inv, NEW t \in Threads, StepOf(t) PROVE Chains'
<1>1. CASE log' = log
  BY <1>1 DEF Inv, Chains, Chained, OneKeyProcess
<1>2. CASE Grows(t)
  <2>1. PICK j \in Journals, n \in Nat, what \in Whats :
          /\ log' = Extended(j, n, what)
          /\ \/ j \in Events /\ n = Len(log[j])
             \/ /\ \E k \in Keys : j \in {<<"status", k>>, <<"ledger", k>>}
                /\ OneKeyProcess => n = Len(log[j])
    BY <1>2 DEF Grows
  <2>2. ASSUME NEW q \in Journals, Chained(q), q = j => n = Len(log[j]) PROVE Chained(q)'
    <3>1. CASE log'[q] = log[q]
      BY <2>2, <3>1 DEF Chained
    <3>2. CASE q = j /\ j \notin torn
      <4>1. log'[q] = Append(log[q], [prev |-> Len(log[q]), what |-> what])
        BY <2>1, <2>2, <3>2, ExtendedIs DEF Inv
      <4>2. log[q] \in Seq(Lines) /\ \A i \in DOMAIN log[q] : log[q][i].prev = i - 1
        BY <2>2 DEF Inv, Types, Chained
      <4>. QED
        BY <4>1, <4>2, ChainGrows DEF Chained
    <3>3. q # j => log'[q] = log[q]
      BY <2>1, GrowsOnly DEF Inv
    <3>4. j \in torn => log' = log
      BY <2>1, ExtendedIs DEF Inv
    <3>. QED
      BY <3>1, <3>2, <3>3, <3>4
  <2>3. ASSUME NEW e \in Events PROVE Chained(e)'
    BY <2>1, <2>2, KeyJournals DEF Inv, Chains, Journals
  <2>4. ASSUME OneKeyProcess, NEW k \in Keys
        PROVE  Chained(<<"status", k>>)' /\ Chained(<<"ledger", k>>)'
    <3>1. n = Len(log[j])
      BY <2>1, <2>4
    <3>2. Chained(<<"status", k>>) /\ Chained(<<"ledger", k>>)
      BY <2>4 DEF Inv, Chains
    <3>. QED
      BY <2>2, <3>1, <3>2, KeyJournals
  <2>. QED
    BY <2>3, <2>4 DEF Chains, OneKeyProcess
<1>. QED
  BY <1>1, <1>2 DEF StepOf

LEMMA LivesStep == ASSUME Inv, NEW t \in Threads, StepOf(t) PROVE Lives'
<1>. SUFFICES ASSUME NEW k \in Keys
              PROVE  \A i \in DOMAIN log'[<<"status", k>>] :
                       log'[<<"status", k>>][i].what = "ACTIVE" <=> i = 1
  BY DEF Lives
<1> DEFINE s == <<"status", k>>
<1>1. s \in Journals /\ log[s] \in Seq(Lines)
  BY KeyJournals DEF Inv, Types
<1>2. \A i \in DOMAIN log[s] : log[s][i].what = "ACTIVE" <=> i = 1
  BY DEF Inv, Lives
<1>3. CASE log'[s] = log[s]
  BY <1>2, <1>3
<1>4. CASE Grows(t) /\ log'[s] # log[s]
  <2>1. PICK j \in Journals, n \in Nat, what \in Whats :
          /\ log' = Extended(j, n, what)
          /\ \/ j \in Events
             \/ \E i \in Keys : /\ j \in {<<"status", i>>, <<"ledger", i>>}
                                /\ j = <<"status", i>> => (what = "ACTIVE" <=> log[j] = <<>>)
    BY <1>4 DEF Grows
  <2>2. j = s /\ j \notin torn
    <3> HIDE DEF s
    <3>1. log' = Extended(j, n, what) /\ Types
      BY <2>1 DEF Inv
    <3>2. s # j => log'[s] = log[s]
      BY <1>1, <3>1, GrowsOnly
    <3>3. j \in torn => log' = log
      BY <3>1, ExtendedIs
    <3>. QED
      BY <1>4, <3>2, <3>3
  <2>3. what = "ACTIVE" <=> log[s] = <<>>
    BY <2>1, <2>2, KeyJournals
  <2> DEFINE line == [prev |-> n, what |-> what]
  <2>4. log'[s] = Append(log[s], line)
    BY <1>1, <2>1, <2>2, ExtendedIs DEF Inv
  <2>5. line \in Lines /\ line.what = what
    BY DEF Lines
  <2> HIDE DEF line
  <2>6. ASSUME NEW q \in Seq(Lines), NEW l \in Lines
        PROVE  /\ DOMAIN Append(q, l) = 1..(Len(q) + 1) /\ Append(q, l)[Len(q) + 1] = l
               /\ \A i \in 1..Len(q) : Append(q, l)[i] = q[i]
               /\ DOMAIN q = 1..Len(q) /\ Len(q) \in Nat /\ (q = <<>> <=> Len(q) = 0)
    BY EmptySeq
  <2>7. /\ DOMAIN log'[s] = 1..(Len(log[s]) + 1) /\ log'[s][Len(log[s]) + 1] = line
        /\ \A i \in 1..Len(log[s]) : log'[s][i] = log[s][i]
        /\ DOMAIN log[s] = 1..Len(log[s]) /\ Len(log[s]) \in Nat
        /\ log[s] = <<>> <=> Len(log[s]) = 0
    BY <1>1, <2>4, <2>5, <2>6
  <2>8. ASSUME NEW i \in DOMAIN log'[s] PROVE log'[s][i].what = "ACTIVE" <=> i = 1
    <3>1. CASE i \in 1..Len(log[s])
      BY <1>2, <2>7, <3>1
    <3>2. CASE i = Len(log[s]) + 1
      <4>1. i = 1 <=> log[s] = <<>>
        BY <2>7, <3>2
      <4>2. log'[s][i].what = what
        BY <2>5, <2>7, <3>2
      <4>. QED
        BY <2>3, <4>1, <4>2
    <3>. QED
      BY <2>7, <3>1, <3>2
  <2>. QED
    BY <2>8
<1>. QED
  BY <1>3, <1>4 DEF StepOf

LEMMA ThreadStep == ASSUME Inv, NEW t \in Threads, StepOf(t) PROVE Inv'
<1>1. \A u \in Threads : TaskOK(u)'
  BY OthersOK DEF StepOf
<1>. QED
  BY <1>1, ChainsStep, LivesStep DEF StepOf, Inv

-----------------------------------------------------------------------------
(* Crashes.                                                                *)

Dead(pr) == {t \in Threads : ProcessOf[t] = pr}
Open(pr) == {task[t].journal : t \in {d \in Dead(pr) : At(d, "append") \/ At(d, "first")}}

\* With one process, a crash never tears the status of a retired key, nor that of a
\* key a living thread holds.
LEMMA OpenIs ==
  ASSUME Inv, NEW pr \in Processes
  PROVE  /\ Open(pr) \subseteq Journals
         /\ OneKeyProcess => \A u \in KeyWriters : ProcessOf[u] # pr => Open(pr) \subseteq Events
         /\ OneKeyProcess => \A k \in Keys :
              KeyStatus(k) \in {"ROTATED", "REVOKED"} => <<"status", k>> \notin Open(pr)
<1>. SUFFICES ASSUME NEW d \in Dead(pr), At(d, "append") \/ At(d, "first")
              PROVE  LET j == task[d].journal
                     IN  /\ j \in Journals
                         /\ OneKeyProcess =>
                              \A u \in KeyWriters : ProcessOf[u] # pr => j \in Events
                         /\ OneKeyProcess => \A k \in Keys :
                              KeyStatus(k) \in {"ROTATED", "REVOKED"} => j # <<"status", k>>
  BY DEF Open
<1>1. d \in Threads /\ ProcessOf[d] = pr /\ TaskOK(d)
  BY DEF Dead, Inv
<1>2. (d \in KeyWriters /\ (Signing(d) \/ Starting(d))) \/ Emits(d)
  <2>1. NoTask.step = "none" /\ FileTask.step = "file"
    BY DEF NoTask, FileTask
  <2>2. Tailing(d) => task[d].step = "tail"
    BY DEF Tailing, TailTask
  <2>. QED
    BY <1>1, <2>1, <2>2 DEF TaskOK, Carrying, At
<1>3. CASE Emits(d)
  <2>1. task[d].journal \in Events
    BY <1>3 DEF Emits, AppendTask
  <2>. QED
    BY <2>1, KeyJournals DEF Journals
<1>4. CASE d \in KeyWriters /\ Signing(d)
  <2>1. PICK op \in Ops, k \in Keys : Holds(d, k) /\ task[d].journal = Target(op, k)
    BY <1>4 DEF Signing, AppendTask
  <2>2. ASSUME OneKeyProcess, NEW i \in Keys, KeyStatus(i) \in {"ROTATED", "REVOKED"}
        PROVE  task[d].journal # <<"status", i>>
    <3>1. i # k
      BY <2>1, <2>2 DEF Holds, Active
    <3>. QED
      BY <2>1, <3>1, TargetIs
  <2>. QED
    BY <1>1, <1>4, <2>1, <2>2, TargetIs DEF OneKeyProcess
<1>5. CASE d \in KeyWriters /\ Starting(d)
  <2>1. PICK k \in Keys : /\ task[d].journal = <<"status", k>>
                          /\ OneKeyProcess => log[<<"status", k>>] = <<>>
    BY <1>5 DEF Starting, FirstTask
  <2>2. ASSUME OneKeyProcess, NEW i \in Keys, KeyStatus(i) \in {"ROTATED", "REVOKED"}
        PROVE  task[d].journal # <<"status", i>>
    <3>1. log[<<"status", i>>] # <<>>
      BY <2>2, StatusIs DEF Inv
    <3>. QED
      BY <2>1, <2>2, <3>1
  <2>. QED
    BY <1>1, <1>5, <2>1, <2>2, KeyJournals DEF OneKeyProcess
<1>. QED
  BY <1>2, <1>3, <1>4, <1>5

LEMMA CrashIs ==
  ASSUME Inv, NEW pr \in Processes, Crash(pr)
  PROVE  /\ crashes' \in Nat \ {0} /\ records' = records /\ log' = log
         /\ torn \subseteq torn' /\ torn' \subseteq torn \cup Open(pr)
         /\ DOMAIN task' = Threads
         /\ \A t \in Threads : task'[t] = IF ProcessOf[t] = pr THEN NoTask ELSE task[t]
         /\ \A l \in Locks :
              lock'[l] = IF lock[l] \in Dead(pr) THEN None ELSE lock[l]
         /\ lock' \in [Locks -> Threads \cup {None}]
<1>1. crashes' \in Nat \ {0} /\ records' = records /\ log' = log
  BY DEF Crash, Inv, Types
<1>2. PICK part \in SUBSET Open(pr) : torn' = torn \cup part
  BY DEF Crash, Open, Dead
<1>3. task' = [t \in Threads |-> IF t \in Dead(pr) THEN NoTask ELSE task[t]]
  BY DEF Crash, Dead
<1>4. lock' = [l \in Locks |-> IF lock[l] \in Dead(pr) THEN None ELSE lock[l]]
  BY DEF Crash, Dead
<1>. QED
  BY <1>1, <1>2, <1>3, <1>4 DEF Dead, Inv, Types

LEMMA CrashStep == ASSUME Inv, NEW pr \in Processes, Crash(pr) PROVE Inv'
<1>1. Types'
  BY CrashIs, OpenIs DEF Inv, Types
<1>2. Chains'
  BY CrashIs DEF Inv, Chains, Chained, OneKeyProcess
<1>3. Born' /\ Lives'
  BY CrashIs DEF Inv, Born, Lives
<1>4. ASSUME NEW u \in Threads PROVE TaskOK(u)'
  <2>1. TaskOK(u) /\ records' = records /\ log' = log
    BY CrashIs DEF Inv
  <2>2. CASE ProcessOf[u] = pr
    BY <2>2, CrashIs DEF TaskOK
  <2>3. CASE ProcessOf[u] # pr
    <3>1. task'[u] = task[u] /\ \A l \in Locks : lock[l] = u => lock'[l] = u
      BY <2>3, CrashIs DEF Dead
    <3>2. CASE task[u] \in {NoTask, FileTask}
      BY <3>1, <3>2 DEF TaskOK
    <3>3. CASE Emits(u)
      <4>1. Events \subseteq Locks
        BY DEF Locks
      <4>2. Emits(u)'
        BY <2>1, <3>1, <3>3, <4>1 DEF Emits, AppendTask
      <4>. QED
        BY <4>2 DEF TaskOK
    <3>4. ASSUME u \in KeyWriters, NEW k \in Keys, Holds(u, k) PROVE Holds(u, k)'
      <4>1. KeyLock(u) \in Locks
        BY DEF KeyLock, Locks, Processes
      <4>2. OneKeyProcess => (<<"status", k>> \in torn' <=> <<"status", k>> \in torn)
        BY <2>3, <3>4, OpenIs, CrashIs, KeyJournals
      <4>3. OneKeyProcess => Active(k)'
        BY <2>1, <3>4, <4>2, StatusKept DEF Holds, Inv
      <4>. QED
        BY <2>1, <3>1, <3>4, <4>1, <4>3 DEF Holds, KeyLock, OneKeyProcess
    <3>5. CASE u \in KeyWriters /\ Tailing(u)
      <4>1. Tailing(u)'
        BY <3>1, <3>4, <3>5 DEF Tailing, TailTask, Target
      <4>. QED
        BY <3>5, <4>1 DEF TaskOK
    <3>6. CASE u \in KeyWriters /\ Signing(u)
      <4>1. Signing(u)'
        BY <2>1, <3>1, <3>4, <3>6 DEF Signing, AppendTask, Target, OneKeyProcess
      <4>. QED
        BY <3>6, <4>1 DEF TaskOK
    <3>7. CASE u \in KeyWriters /\ Starting(u)
      <4>1. PICK k \in Keys :
              /\ k \in records /\ task[u] = FirstTask(k) /\ log[<<"status", k>>] = <<>>
              /\ \A w \in Threads \ {u} : task[w] # FirstTask(k)
        BY <3>7 DEF Starting
      <4>2. \A w \in Threads \ {u} : task'[w] \in {task[w], NoTask}
        BY CrashIs
      <4>3. NoTask # FirstTask(k)
        BY DEF NoTask, FirstTask
      <4>4. Starting(u)'
        BY <2>1, <3>1, <4>1, <4>2, <4>3 DEF Starting, FirstTask
      <4>. QED
        BY <3>7, <4>4 DEF TaskOK
    <3>8. CASE Carrying(u)
      BY <3>1, <3>8 DEF TaskOK, Carrying
    <3>. QED
      BY <2>1, <3>2, <3>3, <3>5, <3>6, <3>7, <3>8 DEF TaskOK
  <2>. QED
    BY <2>2, <2>3
<1>. QED
  BY <1>1, <1>2, <1>3, <1>4 DEF Inv

-----------------------------------------------------------------------------
(* The invariant.                                                          *)

LEMMA NextIs ==
  ASSUME Inv, JournalsNext
  PROVE  (\E t \in Threads : StepOf(t)) \/ (\E pr \in Processes : Crash(pr))
<1>1. ASSUME NEW t \in KeyWriters, KeyStep(t) PROVE t \in Threads /\ StepOf(t)
  BY <1>1, RequireActiveStep, ReadTailStep, AppendKeyStep, CreateFileStep, FirstStatusStep,
     JournalsAssumption DEF KeyStep
<1>2. ASSUME NEW t \in Threads, EventStep(t) PROVE StepOf(t)
  BY <1>2, AppendEventStep, OpenJournalStep DEF EventStep
<1>. QED
  BY <1>1, <1>2 DEF JournalsNext

LEMMA NoStep == ASSUME Inv, UNCHANGED journalVars PROVE Inv'
<1>1. /\ records' = records /\ log' = log /\ torn' = torn
      /\ lock' = lock /\ task' = task /\ crashes' = crashes
  BY DEF journalVars
<1>2. Types'
  BY <1>1 DEF Inv, Types
<1>3. Chains'
  BY <1>1 DEF Inv, Chains, Chained, OneKeyProcess
<1>4. Born' /\ Lives'
  BY <1>1 DEF Inv, Born, Lives, FirstTask
<1>5. ASSUME NEW t \in Threads PROVE TaskOK(t)'
  <2>1. \A k \in Keys : Holds(t, k)' <=> Holds(t, k)
    BY <1>1 DEF Holds, Active, KeyStatus, Intact, Chained, KeyLock, OneKeyProcess
  <2>2. TaskOK(t)
    BY DEF Inv
  <2>3. CASE task[t] \in {NoTask, FileTask} \/ Emits(t) \/ Carrying(t)
    BY <1>1, <2>3 DEF TaskOK, Emits, AppendTask, Carrying
  <2>4. Tailing(t) => Tailing(t)'
    BY <1>1, <2>1 DEF Tailing, TailTask, Target
  <2>5. Signing(t) => Signing(t)'
    BY <1>1, <2>1 DEF Signing, AppendTask, Target, OneKeyProcess
  <2>6. Starting(t) => Starting(t)'
    BY <1>1 DEF Starting, FirstTask
  <2>. QED
    BY <2>2, <2>3, <2>4, <2>5, <2>6 DEF TaskOK
<1>. QED
  BY <1>2, <1>3, <1>4, <1>5 DEF Inv

LEMMA InitIs == ASSUME JournalsInit PROVE Inv
<1>1. \A j \in Journals : log[j] = <<>> /\ Chained(j)
  BY DEF JournalsInit, Chained
<1>2. Types
  BY DEF JournalsInit, Types
<1>3. \A t \in Threads : TaskOK(t)
  BY DEF JournalsInit, TaskOK
<1>4. Chains /\ Born /\ Lives
  BY <1>1, KeyJournals DEF JournalsInit, Chains, Born, Lives, Journals
<1>. QED
  BY <1>2, <1>3, <1>4 DEF Inv

\* Inv holds of every state of the journals.
THEOREM JournalsInv == JournalsSpec => []Inv
<1>1. JournalsInit => Inv
  BY InitIs
<1>2. Inv /\ [JournalsNext]_journalVars => Inv'
  <2>. SUFFICES ASSUME Inv, [JournalsNext]_journalVars PROVE Inv'
    OBVIOUS
  <2>1. CASE JournalsNext
    BY <2>1, NextIs, ThreadStep, CrashStep
  <2>. QED
    BY <2>1, NoStep
<1>. QED
  BY <1>1, <1>2, PTL DEF JournalsSpec

LEMMA InvChains == Inv => ChainsStay
<1>. SUFFICES ASSUME Inv PROVE ChainsStay
  OBVIOUS
<1>. SUFFICES ASSUME OneKeyProcess, crashes = 0, \A t \in Threads : Idle(t)
              PROVE  StoreIsValid
  BY DEF Inv, Chains, ChainsStay
<1>. SUFFICES ASSUME NEW k \in records
              PROVE  KeyStatus(k) # "BROKEN" /\ Intact(<<"ledger", k>>)
  BY DEF StoreIsValid
<1>1. k \in Keys /\ torn = {} /\ Intact(<<"status", k>>) /\ Intact(<<"ledger", k>>)
  BY DEF Inv, Types, Born, Chains, Intact
<1>2. log[<<"status", k>>] # <<>>
  <2>1. NoTask # FirstTask(k)
    BY DEF NoTask, FirstTask
  <2>. QED
    BY <2>1, JournalsAssumption DEF Inv, Born, Idle
<1>3. log[<<"status", k>>] \in Seq(Lines)
  BY <1>1, KeyJournals DEF Inv, Types
<1>4. ASSUME NEW s \in Seq(Lines), s # <<>> PROVE s[Len(s)].what # "BROKEN"
  <2>1. Len(s) \in 1..Len(s) /\ s[Len(s)] \in Lines
    BY <1>4, EmptySeq
  <2>. QED
    BY <2>1 DEF Lines, Whats
<1>5. log[<<"status", k>>][Len(log[<<"status", k>>])].what # "BROKEN"
  BY <1>2, <1>3, <1>4
<1>. QED
  BY <1>1, <1>2, <1>5 DEF KeyStatus
\* No event is ever chained to another entry than the one before it, and, with one
\* process at the key store, no entry of a key either: for any number of threads,
\* processes, keys and journals, and any crashes.  With one such process and no
\* crash the store validates whenever all threads rest.
THEOREM ChainsAlwaysStay == JournalsSpec => []ChainsStay
BY InvChains, JournalsInv, PTL

\* A step of the journals leaves the status and the ledger of a retired key alone.
LEMMA RestStep ==
  ASSUME Inv, JournalsNext, OneKeyProcess, NEW k \in Keys,
         KeyStatus(k) \in {"ROTATED", "REVOKED"}
  PROVE  KeyStatus(k)' = KeyStatus(k) /\ log'[<<"ledger", k>>] = log[<<"ledger", k>>]
<1>1. k \in records /\ log[<<"status", k>>] # <<>> /\ ~Active(k)
  BY StatusIs DEF Inv
<1>2. ASSUME NEW t \in Threads, StepOf(t)
      PROVE  /\ log'[<<"status", k>>] = log[<<"status", k>>]
             /\ log'[<<"ledger", k>>] = log[<<"ledger", k>>]
  <2>1. CASE Grows(t)
    <3>1. PICK j \in Journals, n \in Nat, what \in Whats :
            /\ log' = Extended(j, n, what)
            /\ \/ j \in Events
               \/ \E i \in Keys : j \in {<<"status", i>>, <<"ledger", i>>} /\ Alone(t, j, i)
      BY <2>1 DEF Grows
    <3>2. ASSUME NEW i \in Keys, j \in {<<"status", i>>, <<"ledger", i>>}, Alone(t, j, i)
          PROVE  i # k
      BY <1>1, <3>2 DEF Alone
    <3>3. j \notin {<<"status", k>>, <<"ledger", k>>}
      <4>1. ASSUME NEW i \in Keys, i # k, j \in {<<"status", i>>, <<"ledger", i>>}
            PROVE  j \notin {<<"status", k>>, <<"ledger", k>>}
        BY <4>1
      <4>2. CASE j \in Events
        BY <4>2, KeyJournals
      <4>. QED
        BY <3>1, <3>2, <4>1, <4>2
    <3>4. /\ Extended(j, n, what)[<<"status", k>>] = log[<<"status", k>>]
          /\ Extended(j, n, what)[<<"ledger", k>>] = log[<<"ledger", k>>]
      BY <3>3, KeyJournals, GrowsOnly DEF Inv
    <3>. QED
      BY <3>1, <3>4
  <2>. QED
    BY <1>2, <2>1 DEF StepOf
<1>3. ASSUME NEW t \in Threads, StepOf(t) PROVE KeyStatus(k)' = KeyStatus(k)
  BY <1>1, <1>2, <1>3, StatusKept DEF StepOf, Inv
<1>4. ASSUME NEW pr \in Processes, Crash(pr)
      PROVE  KeyStatus(k)' = KeyStatus(k) /\ log' = log
  <2>1. <<"status", k>> \in torn' <=> <<"status", k>> \in torn
    BY <1>4, OpenIs, CrashIs
  <2>2. records' = records /\ log' = log
    BY <1>4, CrashIs
  <2>. QED
    BY <1>1, <2>1, <2>2, StatusKept DEF Inv
<1>. QED
  BY <1>2, <1>3, <1>4, NextIs

\* With one process at the key store, a key that was rotated or revoked keeps its
\* status and signs nothing more, whatever its threads do and whenever one dies.
THEOREM RetiredKeysAlwaysRest == JournalsSpec => RetiredKeysRest
<1>1. Inv /\ [JournalsNext]_journalVars =>
        [OneKeyProcess => \A k \in Keys : KeyStatus(k) \in {"ROTATED", "REVOKED"} =>
          KeyStatus(k)' = KeyStatus(k) /\ log'[<<"ledger", k>>] = log[<<"ledger", k>>]]_journalVars
  BY RestStep
<1>. QED
  BY <1>1, JournalsInv, PTL DEF JournalsSpec, RetiredKeysRest
-----------------------------------------------------------------------------
(* The transport.  A thread is in a call from the check to the update.  It *)
(* holds the lock of its process, so that a process has one call at most.  *)

Calling(t) == task[t].step \in {"update", "persist"}
Uses == {"seal", "open", "open_file"}

\* What a call is about, and what the other calls have left of it: an identifier
\* that it has drawn is still new.
CallOK(t) ==
  LET x == task[t].subject
  IN  /\ lock[EtrLock(t)] = t /\ task[t].key \in Keys
      /\ task[t] = [step |-> task[t].step, op |-> task[t].op, key |-> task[t].key,
                    subject |-> x, result |-> task[t].result]
      /\ \/ task[t].op = "bind" /\ x \in Channels /\ channels[x].status = "none"
            /\ task[t].result = "ACTIVE"
         \/ task[t].op = "revoke" /\ x \in Channels /\ channels[x].status # "none"
            /\ task[t].result = "REVOKED"
         \/ task[t].op = "seal" /\ x \in Envelopes /\ envelopes[x].status = "none"
         \/ task[t].op \in {"open", "open_file"} /\ x \in Envelopes
            /\ envelopes[x].status # "none" /\ task[t].result \in {"OPENED", "AUTH_FAILED"}
      /\ task[t].step = "persist" => task[t].op \in {"open", "open_file"}
CallsOK == \A t \in Threads : Calling(t) => CallOK(t)
\* No two calls have drawn the same identifier.
Fresh == \A t, u \in Threads :
  /\ Calling(t) /\ Calling(u) /\ task[t].op = task[u].op /\ task[t].op \in {"bind", "seal"}
  /\ task[t].subject = task[u].subject
  => t = u

Row(statuses) == [status : statuses, key : Keys \cup {None}]
Rows ==
  /\ channels \in [Channels -> Row({"none", "ACTIVE", "REVOKED"})]
  /\ envelopes \in [Envelopes -> Row({"none", "SEALED", "OPENED", "AUTH_FAILED"})]
  /\ \A c \in Channels : channels[c].status # "none" => channels[c].key \in Keys
  /\ \A e \in Envelopes : envelopes[e].status # "none" => envelopes[e].key \in Keys
  /\ files \subseteq Envelopes /\ \A e \in files : envelopes[e].status # "none"
  /\ delivered \in [Envelopes -> Nat] /\ failures \in Nat
  /\ late \in [Keys \cup Channels -> Nat]

\* The calls that have found the key ACTIVE, the channel ACTIVE, the envelope SEALED.
Users(k)   == {t \in Threads : Calling(t) /\ task[t].op \in Uses /\ task[t].key = k}
Sealers(c) == {t \in Threads : Calling(t) /\ task[t].op = "seal" /\ task[t].result = c}
Openers(e) == {t \in Threads : Calling(t) /\ task[t].op = "open" /\ task[t].subject = e}

\* A key with two lines of status is not ACTIVE again.  No call begins any more: those
\* that have used it since and those that still will are no more than the processes.
Spent(k)  == Len(log[<<"status", k>>]) >= 2
SilentKey(k) ==
  IF Spent(k) THEN late[k] + Cardinality(Users(k)) <= Cardinality(Processes) ELSE late[k] = 0
SilentChannel(c) ==
  IF channels[c].status = "REVOKED"
  THEN late[c] + Cardinality(Sealers(c)) < Cardinality(Processes) ELSE late[c] = 0
Opened(e) ==
  IF envelopes[e].status \in {"none", "SEALED"} THEN delivered[e] <= failures
  ELSE delivered[e] + Cardinality(Openers(e)) <= Cardinality(Processes) + failures

Counts == /\ \A k \in Keys : SilentKey(k)
          /\ \A c \in Channels : SilentChannel(c)
          /\ \A e \in Envelopes : Opened(e)

CarrierInv == Inv /\ CallsOK /\ Fresh /\ Rows /\ Counts


LEMMA ProcessesFinite == IsFiniteSet(Processes) /\ Cardinality(Processes) \in Nat
<1> DEFINE f == [t \in Threads |-> ProcessOf[t]]
<1>1. f \in Surjection(Threads, Processes)
  BY DEF Surjection, Processes
<1>2. IsFiniteSet(Processes)
  BY <1>1, FS_Surjection, TransportAssumption
<1>. QED
  BY <1>2, FS_CardinalityType

\* Calls that are under way are calls of different processes.
LEMMA CallsAreFew ==
  ASSUME CallsOK, NEW S, S \subseteq Threads, \A t \in S : Calling(t)
  PROVE  IsFiniteSet(S) /\ Cardinality(S) \in Nat /\ Cardinality(S) <= Cardinality(Processes)
<1> DEFINE f == [t \in S |-> ProcessOf[t]]
<1>0. \A t \in S : t \in Threads /\ lock[EtrLock(t)] = t
  BY DEF CallsOK, CallOK
<1>1. \A t, u \in S : ProcessOf[t] = ProcessOf[u] => t = u
  BY <1>0 DEF EtrLock
<1>4. f \in [S -> Processes]
  BY <1>0 DEF Processes
<1>5. \A t, u \in S : f[t] = f[u] => t = u
  BY <1>1
<1> HIDE DEF f
<1>2. f \in Injection(S, Processes)
  BY <1>4, <1>5 DEF Injection, IsInjective
<1>3. IsFiniteSet(S) /\ Cardinality(S) <= Cardinality(Processes)
  BY <1>2, FS_Injection, ProcessesFinite
<1>. QED
  BY <1>3, FS_CardinalityType

LEMMA CountsAre ==
  ASSUME CallsOK, NEW x
  PROVE  /\ IsFiniteSet(Users(x)) /\ Cardinality(Users(x)) \in Nat
         /\ Cardinality(Users(x)) <= Cardinality(Processes)
         /\ IsFiniteSet(Sealers(x)) /\ Cardinality(Sealers(x)) \in Nat
         /\ IsFiniteSet(Openers(x)) /\ Cardinality(Openers(x)) \in Nat
         /\ Cardinality(Openers(x)) <= Cardinality(Processes)
<1>1. /\ Users(x) \subseteq Threads /\ \A t \in Users(x) : Calling(t)
      /\ Sealers(x) \subseteq Threads /\ \A t \in Sealers(x) : Calling(t)
      /\ Openers(x) \subseteq Threads /\ \A t \in Openers(x) : Calling(t)
  BY DEF Users, Sealers, Openers
<1>. QED
  BY <1>1, CallsAreFew

LEMMA OneLess ==
  ASSUME NEW S, NEW t \in S, IsFiniteSet(S)
  PROVE  /\ IsFiniteSet(S \ {t}) /\ Cardinality(S \ {t}) = Cardinality(S) - 1
         /\ Cardinality(S) \in Nat
BY FS_RemoveElement, FS_CardinalityType

\* A retired key has two lines of status, an ACTIVE one has one.
LEMMA SpentIs ==
  ASSUME Inv, NEW k \in Keys
  PROVE  /\ Active(k) => ~Spent(k)
         /\ KeyRetired(k) => Spent(k)
<1> DEFINE s == <<"status", k>>
<1>1. s \in Journals /\ log[s] \in Seq(Lines)
  BY KeyJournals DEF Inv, Types
<1>2. ASSUME NEW q \in Seq(Lines), q # <<>>
      PROVE  Len(q) \in DOMAIN q /\ Len(q) \in Nat /\ (Len(q) = 1 <=> ~(Len(q) >= 2))
  <2>1. Len(q) \in Nat /\ Len(q) # 0 /\ DOMAIN q = 1..Len(q)
    BY <1>2, EmptySeq
  <2>. QED
    BY <2>1
<1>3. \A i \in DOMAIN log[s] : log[s][i].what = "ACTIVE" <=> i = 1
  BY DEF Inv, Lives
<1>4. KeyStatus(k) \in {"ACTIVE", "ROTATED", "REVOKED"} =>
        log[s] # <<>> /\ KeyStatus(k) = log[s][Len(log[s])].what
  BY DEF KeyStatus
<1> HIDE DEF s
<1>5. ASSUME KeyStatus(k) \in {"ACTIVE", "ROTATED", "REVOKED"}
      PROVE  KeyStatus(k) = "ACTIVE" <=> ~(Len(log[s]) >= 2)
  BY <1>1, <1>2, <1>3, <1>4, <1>5
<1>. QED
  BY <1>5 DEF Active, KeyRetired, Spent, s

\* What a step leaves of the calls of the threads that do not take it: rows that were
\* new for a call are still new, since no other call has drawn them.
Moved(rows, row, who, op) == \A x \in DOMAIN rows :
  /\ rows[x].status # "none" => row[x].status # "none"
  /\ rows[x].status = "none" /\ row[x].status # "none"
       => \E t \in who : Calling(t) /\ task[t].op = op /\ task[t].subject = x
Left(who) == \A u \in Threads \ who :
  task'[u] = task[u] /\ (lock[EtrLock(u)] = u => lock'[EtrLock(u)] = u)

LEMMA OthersCall ==
  ASSUME CallsOK, Fresh, Rows, Rows', NEW who \in SUBSET Threads, Left(who),
         Moved(channels, channels', who, "bind"), Moved(envelopes, envelopes', who, "seal"),
         NEW u \in Threads \ who, Calling(u)'
  PROVE  Calling(u) /\ CallOK(u)'
<1>1. task'[u] = task[u] /\ Calling(u) /\ CallOK(u) /\ lock'[EtrLock(u)] = u
  BY DEF Left, Calling, CallsOK, CallOK, EtrLock
<1>2. DOMAIN channels = Channels /\ DOMAIN envelopes = Envelopes
  BY DEF Rows
<1>3. ASSUME task[u].op = "bind", task[u].subject \in Channels,
             channels[task[u].subject].status = "none"
      PROVE  channels'[task[u].subject].status = "none"
  BY <1>1, <1>2, <1>3 DEF Moved, Fresh
<1>4. ASSUME task[u].op = "seal", task[u].subject \in Envelopes,
             envelopes[task[u].subject].status = "none"
      PROVE  envelopes'[task[u].subject].status = "none"
  BY <1>1, <1>2, <1>4 DEF Moved, Fresh
<1>5. /\ \A c \in Channels : channels[c].status # "none" => channels'[c].status # "none"
      /\ \A e \in Envelopes : envelopes[e].status # "none" => envelopes'[e].status # "none"
  BY <1>2 DEF Moved
<1>. QED
  BY <1>1, <1>3, <1>4, <1>5 DEF CallOK, EtrLock

\* A step in which calls at most end, and rows stay as they are.
LEMMA QuietStep ==
  ASSUME CarrierInv, Inv', NEW who \in SUBSET Threads, Left(who), \A t \in who : ~Calling(t)',
         UNCHANGED rowVars,
         \A k \in Keys : Len(log'[<<"status", k>>]) >= Len(log[<<"status", k>>])
  PROVE  CarrierInv'
<1>1. /\ channels' = channels /\ envelopes' = envelopes /\ files' = files
      /\ delivered' = delivered /\ failures' = failures /\ late' = late
  BY DEF rowVars
<1>2. Rows'
  BY <1>1 DEF CarrierInv, Rows, Row
<1>3. Moved(channels, channels', who, "bind") /\ Moved(envelopes, envelopes', who, "seal")
  BY <1>1 DEF Moved
<1>4. \A u \in Threads : Calling(u)' => Calling(u) /\ CallOK(u)' /\ task'[u] = task[u]
  BY <1>2, <1>3, OthersCall DEF CarrierInv, Left
<1>5. CallsOK' /\ Fresh'
  BY <1>4 DEF CallsOK, Fresh, CarrierInv
<1>6. ASSUME NEW x
      PROVE  Users(x)' \subseteq Users(x) /\ Sealers(x)' \subseteq Sealers(x) /\ Openers(x)' \subseteq Openers(x)
  BY <1>4 DEF Users, Sealers, Openers
<1>7. ASSUME NEW x
      PROVE  /\ Cardinality(Users(x)') <= Cardinality(Users(x))
             /\ Cardinality(Sealers(x)') <= Cardinality(Sealers(x))
             /\ Cardinality(Openers(x)') <= Cardinality(Openers(x))
             /\ Cardinality(Users(x)') \in Nat /\ Cardinality(Sealers(x)') \in Nat
             /\ Cardinality(Openers(x)') \in Nat
  <2>1. IsFiniteSet(Users(x)) /\ IsFiniteSet(Sealers(x)) /\ IsFiniteSet(Openers(x))
    BY CountsAre DEF CarrierInv
  <2>. QED
    BY <1>6, <2>1, FS_Subset, FS_CardinalityType
<1>8. ASSUME NEW k \in Keys PROVE SilentKey(k)'
  <2>1. SilentKey(k) /\ late[k] \in Nat
    BY DEF CarrierInv, Counts, Rows
  <2>2. Cardinality(Users(k)) \in Nat /\ Cardinality(Users(k)) <= Cardinality(Processes)
    BY CountsAre DEF CarrierInv
  <2>3. Len(log[<<"status", k>>]) \in Nat /\ Len(log'[<<"status", k>>]) \in Nat
    BY KeyJournals DEF CarrierInv, Inv, Types
  <2>4. Spent(k) => Spent(k)'
    BY <2>3 DEF Spent
  <2>. QED
    BY <1>1, <1>7, <2>1, <2>2, <2>4, ProcessesFinite DEF SilentKey
<1>9. ASSUME NEW c \in Channels PROVE SilentChannel(c)'
  BY <1>1, <1>7, <1>9, CountsAre, ProcessesFinite DEF SilentChannel, CarrierInv, Counts, Rows
<1>10. ASSUME NEW e \in Envelopes PROVE Opened(e)'
  BY <1>1, <1>7, <1>10, CountsAre, ProcessesFinite DEF Opened, CarrierInv, Counts, Rows
<1>. QED
  BY <1>2, <1>5, <1>8, <1>9, <1>10 DEF CarrierInv, Counts

-----------------------------------------------------------------------------
(* A call begins.                                                          *)

LEMMA EtrLocks == \A t \in Threads : EtrLock(t) \in Locks
BY DEF EtrLock, Locks, Processes

\* For the journals a call is nothing.
LEMMA CarryStep ==
  ASSUME Inv, NEW t \in Threads, DOMAIN task' = Threads,
         task[t].step \in {"none", "update", "persist", "emit"},
         task'[t].step \in {"update", "persist", "emit"} \/ task'[t] = NoTask,
         \A u \in Threads \ {t} : task'[u] = task[u],
         lock' \in [Locks -> Threads \cup {None}],
         \A l \in Locks : lock[l] \in Threads \ {t} => lock'[l] = lock[l],
         UNCHANGED <<records, log, torn, crashes>>
  PROVE  Inv'
<1>1. \A k \in Keys : task[t] # FirstTask(k) /\ task'[t] # FirstTask(k)
  BY DEF FirstTask, NoTask
<1>2. Types'
  BY DEF Inv, Types
<1>3. Born'
  BY <1>1, BornKept DEF Inv
<1>4. TaskOK(t)'
  BY DEF TaskOK, Carrying
<1>5. StepOf(t)
  BY <1>1, <1>2, <1>3, <1>4 DEF StepOf, Inv, Types
<1>. QED
  BY <1>5, ThreadStep

LEMMA BeginStep ==
  ASSUME CarrierInv, NEW t \in Threads, NEW op, NEW key \in Keys, NEW x, NEW r,
         BeginCall(t, op, key, x, r),
         \/ op = "bind" /\ x \in Channels /\ New(channels, x) /\ r = "ACTIVE"
         \/ op = "revoke" /\ x \in Channels /\ channels[x].status # "none" /\ r = "REVOKED"
         \/ op = "seal" /\ x \in Envelopes /\ New(envelopes, x)
         \/ op \in {"open", "open_file"} /\ x \in Envelopes /\ envelopes[x].status # "none"
              /\ r \in {"OPENED", "AUTH_FAILED"},
         op \in Uses => ~Spent(key),
         op = "seal" /\ r \in Channels => channels[r].status # "REVOKED",
         op = "open" => envelopes[x].status = "SEALED"
  PROVE  CarrierInv'
<1> DEFINE new == [step |-> "update", op |-> op, key |-> key, subject |-> x, result |-> r]
<1>1. /\ task[t].step = "none" /\ lock[EtrLock(t)] = None
      /\ lock' = [lock EXCEPT ![EtrLock(t)] = t] /\ task' = [task EXCEPT ![t] = new]
      /\ UNCHANGED <<records, log, torn, crashes>> /\ UNCHANGED rowVars
  BY DEF BeginCall, Idle, NoTask, Free
<1>2. Types /\ EtrLock(t) \in Locks
  BY EtrLocks DEF CarrierInv, Inv
<1>3. /\ task'[t] = new /\ \A u \in Threads \ {t} : task'[u] = task[u]
      /\ DOMAIN task' = Threads
  BY <1>1, <1>2 DEF Types
<1>4. /\ lock' \in [Locks -> Threads \cup {None}] /\ lock'[EtrLock(t)] = t
      /\ \A l \in Locks : lock[l] \in Threads \ {t} => lock'[l] = lock[l]
  BY <1>1, <1>2, JournalsAssumption DEF Types
<1>5. Inv'
  BY <1>1, <1>3, <1>4, CarryStep DEF CarrierInv
<1>6. /\ channels' = channels /\ envelopes' = envelopes /\ files' = files
      /\ delivered' = delivered /\ failures' = failures /\ late' = late /\ log' = log
  BY <1>1 DEF rowVars
<1>7. Rows'
  BY <1>6 DEF CarrierInv, Rows, Row
<1>8. Left({t})
  BY <1>3, <1>4, EtrLocks DEF Left
<1>9. \A u \in Threads \ {t} : Calling(u)' => Calling(u) /\ CallOK(u)'
  <2>1. Moved(channels, channels', {t}, "bind") /\ Moved(envelopes, envelopes', {t}, "seal")
    BY <1>6 DEF Moved
  <2>. QED
    BY <1>7, <1>8, <2>1, OthersCall DEF CarrierInv
<1>10. CallOK(t)'
  BY <1>3, <1>4, <1>6 DEF CallOK, EtrLock, New
<1>11. CallsOK'
  BY <1>9, <1>10 DEF CallsOK
<1>12. Fresh'
  <2>1. ASSUME NEW u \in Threads \ {t}, Calling(u)', op \in {"bind", "seal"}, task'[u].op = op,
               task'[u].subject = x
        PROVE  FALSE
    <3>1. Calling(u) /\ task[u].op = op /\ task[u].subject = x /\ CallOK(u)
      BY <1>3, <1>9, <2>1 DEF CarrierInv, CallsOK
    <3>2. task[u].step = "update"
      BY <2>1, <3>1 DEF Calling, CallOK
    <3>. QED
      BY <2>1, <3>1, <3>2 DEF New, At, Uses
  <2>2. /\ task'[t].op = op /\ task'[t].subject = x
        /\ \A u, w \in Threads \ {t} : Calling(u)' /\ Calling(w)' => Calling(u) /\ Calling(w)
    BY <1>3, <1>9
  <2>. SUFFICES ASSUME NEW u \in Threads, NEW w \in Threads,
                       Calling(u)', Calling(w)', task'[u].op = task'[w].op,
                       task'[u].op \in {"bind", "seal"}, task'[u].subject = task'[w].subject
                PROVE  u = w
    BY DEF Fresh
  <2>3. CASE u = t \/ w = t
    BY <2>1, <2>2, <2>3
  <2>4. CASE u # t /\ w # t
    BY <1>3, <2>2, <2>4 DEF CarrierInv, Fresh
  <2>. QED
    BY <2>3, <2>4
<1>13. ASSUME NEW u \in Threads \ {t} PROVE Calling(u)' <=> Calling(u)
  BY <1>3 DEF Calling
<1>14. ASSUME NEW k \in Keys PROVE SilentKey(k)'
  <2>1. CASE Spent(k)
    <3>1. Users(k)' = Users(k)
      <4>1. t \notin Users(k) /\ t \notin Users(k)'
        BY <1>1, <1>3, <2>1 DEF Users, Calling
      <4>. QED
        BY <1>3, <1>13, <4>1 DEF Users
    <3>. QED
      BY <1>6, <2>1, <3>1 DEF SilentKey, Spent, CarrierInv, Counts
  <2>2. CASE ~Spent(k)
    BY <1>6, <2>2 DEF SilentKey, Spent, CarrierInv, Counts
  <2>. QED
    BY <2>1, <2>2
<1>15. ASSUME NEW c \in Channels PROVE SilentChannel(c)'
  <2>1. CASE channels[c].status = "REVOKED"
    <3>1. Sealers(c)' = Sealers(c)
      <4>1. t \notin Sealers(c) /\ t \notin Sealers(c)'
        BY <1>1, <1>3, <2>1 DEF Sealers, Calling
      <4>. QED
        BY <1>3, <1>13, <4>1 DEF Sealers
    <3>. QED
      BY <1>6, <2>1, <3>1 DEF SilentChannel, CarrierInv, Counts
  <2>2. CASE channels[c].status # "REVOKED"
    BY <1>6, <2>2 DEF SilentChannel, CarrierInv, Counts
  <2>. QED
    BY <2>1, <2>2
<1>16. ASSUME NEW e \in Envelopes PROVE Opened(e)'
  <2>1. CASE envelopes[e].status \notin {"none", "SEALED"}
    <3>1. Openers(e)' = Openers(e)
      <4>1. t \notin Openers(e) /\ t \notin Openers(e)'
        BY <1>1, <1>3, <2>1 DEF Openers, Calling
      <4>. QED
        BY <1>3, <1>13, <4>1 DEF Openers
    <3>. QED
      BY <1>6, <2>1, <3>1 DEF Opened, CarrierInv, Counts
  <2>2. CASE envelopes[e].status \in {"none", "SEALED"}
    BY <1>6, <2>2 DEF Opened, CarrierInv, Counts
  <2>. QED
    BY <2>1, <2>2
<1>. QED
  BY <1>5, <1>7, <1>11, <1>12, <1>14, <1>15, <1>16 DEF CarrierInv, Counts

-----------------------------------------------------------------------------
(* A call changes its row and goes on to its event.                        *)

LEMMA DoneStep ==
  ASSUME CarrierInv, NEW t \in Threads, Calling(t), ThenEmit(t), Rows',
         Moved(channels, channels', {t}, "bind"), Moved(envelopes, envelopes', {t}, "seal")
  PROVE  /\ Inv' /\ CallsOK' /\ Fresh' /\ CallOK(t) /\ log' = log
         /\ \A x : /\ Users(x)' = Users(x) \ {t} /\ Sealers(x)' = Sealers(x) \ {t}
                   /\ Openers(x)' = Openers(x) \ {t}
<1>1. /\ task' = [task EXCEPT ![t] = [step |-> "emit"]]
      /\ UNCHANGED <<records, log, torn, lock, crashes>>
  BY DEF ThenEmit
<1>2. Types /\ CallOK(t) /\ task[t].step \in {"update", "persist"}
  BY DEF CarrierInv, Inv, CallsOK, Calling
<1>3. /\ task'[t] = [step |-> "emit"] /\ DOMAIN task' = Threads
      /\ \A u \in Threads \ {t} : task'[u] = task[u]
  BY <1>1, <1>2 DEF Types
<1>4. Inv'
  BY <1>1, <1>2, <1>3, CarryStep DEF CarrierInv, Types
<1>5. Left({t}) /\ ~Calling(t)'
  BY <1>1, <1>3 DEF Left, Calling
<1>6. \A u \in Threads : Calling(u)' => u # t /\ Calling(u) /\ CallOK(u)'
  BY <1>5, OthersCall DEF CarrierInv
<1>7. CallsOK'
  BY <1>6 DEF CallsOK
<1>8. Fresh'
  BY <1>3, <1>6 DEF Fresh, CarrierInv
<1>9. \A u \in Threads \ {t} : Calling(u)' <=> Calling(u)
  BY <1>3 DEF Calling
<1>10. ASSUME NEW x
       PROVE  /\ Users(x)' = Users(x) \ {t} /\ Sealers(x)' = Sealers(x) \ {t}
              /\ Openers(x)' = Openers(x) \ {t}
  BY <1>3, <1>5, <1>9 DEF Users, Sealers, Openers
<1>. QED
  BY <1>1, <1>2, <1>4, <1>7, <1>8, <1>10

LEMMA ChecksStep ==
  ASSUME CarrierInv, NEW t \in Threads,
         \/ \E c \in Channels : CheckRevoke(t, c) \/ \E k \in Keys : CheckBind(t, c, k)
         \/ \E e \in Envelopes :
              \/ \E via \in Channels \cup {None}, k \in Keys : CheckSeal(t, e, via, k)
              \/ \E file \in BOOLEAN : CheckOpen(t, e, file)
  PROVE  CarrierInv'
<1>1. ASSUME NEW c \in Channels, CheckRevoke(t, c) PROVE CarrierInv'
  <2>1. channels[c].key \in Keys
    BY <1>1 DEF CheckRevoke, CarrierInv, Rows
  <2>. QED
    BY <1>1, <2>1, BeginStep DEF CheckRevoke, Uses
<1>2. ASSUME NEW c \in Channels, NEW k \in Keys, CheckBind(t, c, k) PROVE CarrierInv'
  BY <1>2, BeginStep DEF CheckBind, Uses
<1>3. ASSUME NEW e \in Envelopes, NEW via \in Channels \cup {None}, NEW k \in Keys,
             CheckSeal(t, e, via, k)
      PROVE  CarrierInv'
  <2>1. ~Spent(k)
    BY <1>3, SpentIs DEF CheckSeal, CarrierInv
  <2>2. BeginCall(t, "seal", k, e, via) /\ New(envelopes, e)
        /\ (via \in Channels => channels[via].status # "REVOKED")
    BY <1>3 DEF CheckSeal
  <2>. QED
    BY <2>1, <2>2, BeginStep
<1>4. ASSUME NEW e \in Envelopes, NEW file \in BOOLEAN, CheckOpen(t, e, file) PROVE CarrierInv'
  <2>1. PICK result \in Outcomes(file, e) :
          /\ IF file THEN e \in files ELSE envelopes[e].status = "SEALED"
          /\ Active(envelopes[e].key)
          /\ BeginCall(t, IF file THEN "open_file" ELSE "open", envelopes[e].key, e, result)
    BY <1>4 DEF CheckOpen
  <2>2. envelopes[e].status # "none" /\ envelopes[e].key \in Keys
    BY <2>1 DEF CarrierInv, Rows
  <2>3. ~Spent(envelopes[e].key)
    BY <2>1, <2>2, SpentIs DEF CarrierInv
  <2>4. result \in {"OPENED", "AUTH_FAILED"}
    BY DEF Outcomes
  <2>5. CASE file
    BY <2>1, <2>2, <2>3, <2>4, <2>5, BeginStep
  <2>6. CASE ~file
    BY <2>1, <2>2, <2>3, <2>4, <2>6, BeginStep
  <2>. QED
    BY <2>5, <2>6
<1>. QED
  BY <1>1, <1>2, <1>3, <1>4

LEMMA UpdateChannelStep == ASSUME CarrierInv, NEW t \in Threads, UpdateChannel(t) PROVE CarrierInv'
<1> DEFINE c == task[t].subject
           row == [status |-> task[t].result, key |-> task[t].key]
<1>1. /\ Calling(t) /\ task[t].op \in {"bind", "revoke"} /\ ThenEmit(t)
      /\ channels' = [channels EXCEPT ![c] = row]
      /\ UNCHANGED <<envelopes, files, damaged, delivered, failures, late>>
  BY DEF UpdateChannel, InCall, At, Calling
<1>2. /\ c \in Channels /\ task[t].key \in Keys /\ task[t].result \in {"ACTIVE", "REVOKED"}
      /\ task[t].op = "bind" => channels[c].status = "none" /\ task[t].result = "ACTIVE"
      /\ task[t].op = "revoke" => channels[c].status # "none" /\ task[t].result = "REVOKED"
  BY <1>1 DEF CarrierInv, CallsOK, CallOK
<1>3. row \in Row({"none", "ACTIVE", "REVOKED"}) /\ row.key \in Keys /\ row.status # "none"
  BY <1>2 DEF Row
<1>4. /\ \A d \in Channels : channels'[d] = IF d = c THEN row ELSE channels[d]
      /\ DOMAIN channels' = Channels /\ DOMAIN channels = Channels
  BY <1>1, <1>2 DEF CarrierInv, Rows
<1> HIDE DEF row
<1>5. Rows'
  BY <1>1, <1>3, <1>4 DEF CarrierInv, Rows, Row
<1>6. Moved(channels, channels', {t}, "bind") /\ Moved(envelopes, envelopes', {t}, "seal")
  BY <1>1, <1>2, <1>3, <1>4 DEF Moved
<1>7. /\ Inv' /\ CallsOK' /\ Fresh' /\ CallOK(t) /\ log' = log
      /\ \A x : /\ Users(x)' = Users(x) \ {t} /\ Sealers(x)' = Sealers(x) \ {t}
                /\ Openers(x)' = Openers(x) \ {t}
  BY <1>1, <1>5, <1>6, DoneStep
<1>8. \A x : t \notin Users(x) /\ t \notin Sealers(x) /\ t \notin Openers(x)
  BY <1>1 DEF Users, Sealers, Openers, Uses
<1>9. \A x : Users(x)' = Users(x) /\ Sealers(x)' = Sealers(x) /\ Openers(x)' = Openers(x)
  BY <1>7, <1>8
<1>10. ASSUME NEW k \in Keys PROVE SilentKey(k)'
  BY <1>1, <1>7, <1>9 DEF SilentKey, Spent, CarrierInv, Counts
<1>11. ASSUME NEW e \in Envelopes PROVE Opened(e)'
  BY <1>1, <1>9 DEF Opened, CarrierInv, Counts
<1>12. ASSUME NEW d \in Channels PROVE SilentChannel(d)'
  <2>1. SilentChannel(d) /\ late'[d] = late[d]
    BY <1>1 DEF CarrierInv, Counts
  <2>2. CASE channels'[d].status # "REVOKED"
    <3>1. d = c /\ task[t].op = "revoke" => channels'[d].status = "REVOKED"
      BY <1>2, <1>4 DEF row
    <3>2. channels[d].status # "REVOKED"
      BY <1>1, <1>2, <1>4, <2>2, <3>1
    <3>. QED
      BY <2>1, <2>2, <3>2 DEF SilentChannel
  <2>3. CASE channels[d].status = "REVOKED" /\ channels'[d].status = "REVOKED"
    BY <1>9, <2>1, <2>3 DEF SilentChannel
  <2>4. CASE channels[d].status # "REVOKED" /\ channels'[d].status = "REVOKED"
    <3>1. late[d] = 0
      BY <2>1, <2>4 DEF SilentChannel
    <3>2. /\ Sealers(d) \cup {t} \subseteq Threads
          /\ \A u \in Sealers(d) \cup {t} : Calling(u)
      BY <1>1 DEF Sealers
    <3>3. Cardinality(Sealers(d) \cup {t}) <= Cardinality(Processes)
      BY <3>2, CallsAreFew DEF CarrierInv
    <3>4. Cardinality(Sealers(d) \cup {t}) = Cardinality(Sealers(d)) + 1
      BY <1>8, CountsAre, FS_AddElement DEF CarrierInv
    <3>5. Cardinality(Sealers(d)) \in Nat
      BY CountsAre DEF CarrierInv
    <3>6. late'[d] + Cardinality(Sealers(d)') < Cardinality(Processes)
      BY <1>9, <2>1, <3>1, <3>3, <3>4, <3>5, ProcessesFinite
    <3>. QED
      BY <2>4, <3>6 DEF SilentChannel
  <2>. QED
    BY <2>2, <2>3, <2>4
<1>. QED
  BY <1>5, <1>7, <1>10, <1>11, <1>12 DEF CarrierInv, Counts

\* A use is counted for the key or channel it comes too late for.
LEMMA LateUseIs ==
  ASSUME Rows, NEW uses, LateUse(uses)
  PROVE  /\ late' \in [Keys \cup Channels -> Nat]
         /\ \A x \in Keys \cup Channels : late'[x] = IF x \in uses THEN late[x] + 1 ELSE late[x]
BY DEF Rows, LateUse

\* The call that is counted is one of those that could still come.
LEMMA KeyCounted ==
  ASSUME CarrierInv, NEW t \in Threads, NEW k \in Keys, log' = log,
         Users(k)' = Users(k) \ {t}, late'[k] \in {late[k], late[k] + 1},
         late'[k] = late[k] + 1 => Spent(k) /\ t \in Users(k)
  PROVE  SilentKey(k)'
<1>1. SilentKey(k) /\ late[k] \in Nat /\ (Spent(k)' <=> Spent(k))
  BY DEF CarrierInv, Counts, Rows, Spent
<1>2. IsFiniteSet(Users(k)) /\ Cardinality(Users(k)) \in Nat
  BY CountsAre DEF CarrierInv
<1>3. CASE t \in Users(k)
  <2>1. Cardinality(Users(k)') = Cardinality(Users(k)) - 1
    BY <1>2, <1>3, OneLess
  <2>. QED
    BY <1>1, <1>2, <2>1, ProcessesFinite DEF SilentKey
<1>4. CASE t \notin Users(k)
  <2>1. Users(k)' = Users(k) /\ late'[k] = late[k]
    BY <1>1, <1>4
  <2>. QED
    BY <1>1, <2>1 DEF SilentKey
<1>. QED
  BY <1>3, <1>4

LEMMA SealStep == ASSUME CarrierInv, NEW t \in Threads, Seal(t) PROVE CarrierInv'
<1> DEFINE x == task[t].subject
           key == task[t].key
           row == [status |-> "SEALED", key |-> key]
           uses == RetiredKey(key) \cup
                     {c \in Channels \cap {task[t].result} : channels[c].status = "REVOKED"}
<1>1. /\ Calling(t) /\ task[t].op = "seal" /\ ThenEmit(t) /\ LateUse(uses)
      /\ envelopes' = [envelopes EXCEPT ![x] = row]
      /\ UNCHANGED <<channels, files, damaged, delivered, failures>>
  BY DEF Seal, InCall, At, Calling
<1>2. x \in Envelopes /\ key \in Keys /\ envelopes[x].status = "none"
  BY <1>1 DEF CarrierInv, CallsOK, CallOK
<1>3. row \in Row({"none", "SEALED", "OPENED", "AUTH_FAILED"}) /\ row.key \in Keys /\ row.status = "SEALED"
  BY <1>2 DEF Row
<1>4. /\ \A e \in Envelopes : envelopes'[e] = IF e = x THEN row ELSE envelopes[e]
      /\ DOMAIN envelopes' = Envelopes /\ DOMAIN envelopes = Envelopes
  BY <1>1, <1>2 DEF CarrierInv, Rows
<1> HIDE DEF row
<1>5. Rows'
  <2>1. late' \in [Keys \cup Channels -> Nat]
    BY <1>1, LateUseIs DEF CarrierInv
  <2>. QED
    BY <1>1, <1>3, <1>4, <2>1 DEF CarrierInv, Rows, Row
<1>6. Moved(channels, channels', {t}, "bind") /\ Moved(envelopes, envelopes', {t}, "seal")
  BY <1>1, <1>2, <1>3, <1>4 DEF Moved
<1>7. /\ Inv' /\ CallsOK' /\ Fresh' /\ CallOK(t) /\ log' = log
      /\ \A y : /\ Users(y)' = Users(y) \ {t} /\ Sealers(y)' = Sealers(y) \ {t}
                /\ Openers(y)' = Openers(y) \ {t}
  BY <1>1, <1>5, <1>6, DoneStep
<1>8. \A k \in Keys : k \in uses => k = key /\ Spent(k)
  BY <1>2, SpentIs, TransportAssumption DEF RetiredKey, CarrierInv
<1>9. \A c \in Channels : c \in uses => c = task[t].result /\ channels[c].status = "REVOKED"
  BY <1>2, TransportAssumption DEF RetiredKey
<1>10. \A y \in Keys \cup Channels : late'[y] = IF y \in uses THEN late[y] + 1 ELSE late[y]
  BY <1>1, LateUseIs DEF CarrierInv
<1> HIDE DEF uses
<1>11. ASSUME NEW k \in Keys PROVE SilentKey(k)'
  <2>1. late[k] \in Nat /\ Users(k)' = Users(k) \ {t}
    BY <1>7 DEF CarrierInv, Rows
  <2>2. k \in uses => t \in Users(k)
    BY <1>1, <1>8 DEF Users, Uses
  <2>. QED
    BY <1>7, <1>8, <1>10, <2>1, <2>2, KeyCounted
<1>12. ASSUME NEW c \in Channels PROVE SilentChannel(c)'
  <2>1. SilentChannel(c) /\ late[c] \in Nat /\ channels' = channels
    BY <1>1 DEF CarrierInv, Counts, Rows
  <2>2. IsFiniteSet(Sealers(c)) /\ Cardinality(Sealers(c)) \in Nat
    BY CountsAre DEF CarrierInv
  <2>3. c \in uses => t \in Sealers(c)
    BY <1>1, <1>9 DEF Sealers
  <2>4. CASE t \in Sealers(c)
    <3>1. Cardinality(Sealers(c)') = Cardinality(Sealers(c)) - 1
      BY <1>7, <2>2, <2>4, OneLess
    <3>. QED
      BY <1>9, <1>10, <2>1, <2>2, <3>1, ProcessesFinite DEF SilentChannel
  <2>5. CASE t \notin Sealers(c)
    <3>1. Sealers(c)' = Sealers(c) /\ late'[c] = late[c]
      BY <1>7, <1>10, <2>3, <2>5
    <3>. QED
      BY <2>1, <3>1 DEF SilentChannel
  <2>. QED
    BY <2>4, <2>5
<1>13. ASSUME NEW e \in Envelopes PROVE Opened(e)'
  <2>1. Openers(e)' = Openers(e)
    BY <1>1, <1>7 DEF Openers
  <2>2. CASE e = x
    <3>1. envelopes[e].status = "none" /\ envelopes'[e].status = "SEALED"
      BY <1>2, <1>3, <1>4, <2>2
    <3>. QED
      BY <1>1, <3>1 DEF Opened, CarrierInv, Counts
  <2>3. CASE e # x
    BY <1>1, <1>4, <2>1, <2>3 DEF Opened, CarrierInv, Counts
  <2>. QED
    BY <2>2, <2>3
<1>. QED
  BY <1>5, <1>7, <1>11, <1>12, <1>13 DEF CarrierInv, Counts

\* An opening is delivered, and the row is no longer SEALED or an update has failed.
LEMMA DeliverStep ==
  ASSUME CarrierInv, NEW t \in Threads, Calling(t), task[t].op \in {"open", "open_file"},
         ThenEmit(t), Deliver(t), UNCHANGED <<channels, files>>,
         failures' \in {failures, failures + 1},
         envelopes' = envelopes \/
           envelopes' = [envelopes EXCEPT ![task[t].subject].status = task[t].result],
         envelopes'[task[t].subject].status = "SEALED" => failures' = failures + 1
  PROVE  CarrierInv'
<1> DEFINE x == task[t].subject
           key == task[t].key
           opened == task[t].result = "OPENED"
           uses == IF opened THEN RetiredKey(key) ELSE {}
<1>1. /\ x \in Envelopes /\ key \in Keys /\ envelopes[x].status # "none"
      /\ task[t].result \in {"OPENED", "AUTH_FAILED"}
  BY DEF CarrierInv, CallsOK, CallOK
<1>2. /\ delivered' = [delivered EXCEPT ![x] = IF opened /\ task[t].op = "open" THEN @ + 1 ELSE @]
      /\ LateUse(uses)
  BY DEF Deliver
<1>3. /\ \A e \in Envelopes : e # x => envelopes'[e] = envelopes[e]
      /\ envelopes'[x].key = envelopes[x].key
      /\ envelopes'[x].status \in {envelopes[x].status, task[t].result}
      /\ envelopes' \in [Envelopes -> Row({"none", "SEALED", "OPENED", "AUTH_FAILED"})]
      /\ DOMAIN envelopes = Envelopes /\ DOMAIN envelopes' = Envelopes
  BY <1>1 DEF CarrierInv, Rows, Row
<1>4. \A k \in Keys : k \in uses => k = key /\ Spent(k)
  BY <1>1, SpentIs, TransportAssumption DEF RetiredKey, CarrierInv
<1>5. \A c \in Channels : c \notin uses
  BY <1>1, TransportAssumption DEF RetiredKey
<1>6. late' \in [Keys \cup Channels -> Nat]
      /\ \A y \in Keys \cup Channels : late'[y] = IF y \in uses THEN late[y] + 1 ELSE late[y]
  BY <1>2, LateUseIs DEF CarrierInv
<1>7. /\ delivered' \in [Envelopes -> Nat]
      /\ \A e \in Envelopes : e # x => delivered'[e] = delivered[e]
      /\ delivered'[x] \in {delivered[x], delivered[x] + 1}
      /\ delivered'[x] # delivered[x] => task[t].op = "open"
  BY <1>1, <1>2 DEF CarrierInv, Rows
<1> HIDE DEF uses
<1>8. \A e \in Envelopes : envelopes[e].status # "none" => envelopes'[e].status # "none"
  BY <1>1, <1>3
<1>9. Rows'
  <2>1. \A e \in Envelopes : envelopes'[e].status # "none" => envelopes'[e].key \in Keys
    <3>1. envelopes[x].key \in Keys
      BY <1>1 DEF CarrierInv, Rows
    <3>2. ASSUME NEW e \in Envelopes, e # x, envelopes'[e].status # "none"
          PROVE  envelopes'[e].key \in Keys
      BY <1>3, <3>2 DEF CarrierInv, Rows
    <3>. QED
      BY <1>3, <3>1, <3>2
  <2>2. failures' \in Nat
    BY DEF CarrierInv, Rows
  <2>. QED
    BY <1>3, <1>6, <1>7, <1>8, <2>1, <2>2 DEF CarrierInv, Rows
<1>10. Moved(channels, channels', {t}, "bind") /\ Moved(envelopes, envelopes', {t}, "seal")
  BY <1>1, <1>3, <1>8 DEF Moved
<1>11. /\ Inv' /\ CallsOK' /\ Fresh' /\ CallOK(t) /\ log' = log
       /\ \A y : /\ Users(y)' = Users(y) \ {t} /\ Sealers(y)' = Sealers(y) \ {t}
                 /\ Openers(y)' = Openers(y) \ {t}
  BY <1>9, <1>10, DoneStep
<1>12. ASSUME NEW k \in Keys PROVE SilentKey(k)'
  <2>1. late[k] \in Nat /\ Users(k)' = Users(k) \ {t}
    BY <1>11 DEF CarrierInv, Rows
  <2>2. k \in uses => t \in Users(k)
    BY <1>4 DEF Users, Uses
  <2>. QED
    BY <1>4, <1>6, <1>11, <2>1, <2>2, KeyCounted
<1>13. ASSUME NEW c \in Channels PROVE SilentChannel(c)'
  <2>1. Sealers(c)' = Sealers(c)
    BY <1>11 DEF Sealers
  <2>2. late'[c] = late[c]
    BY <1>5, <1>6
  <2>. QED
    BY <2>1, <2>2 DEF SilentChannel, CarrierInv, Counts
<1>14. ASSUME NEW e \in Envelopes PROVE Opened(e)'
  <2> DEFINE n  == Cardinality(Openers(e))
             n2 == Cardinality(Openers(e)')
             p  == Cardinality(Processes)
             closed  == envelopes[e].status \notin {"none", "SEALED"}
             closed2 == envelopes'[e].status \notin {"none", "SEALED"}
  <2>1. /\ delivered[e] \in Nat /\ failures \in Nat /\ delivered'[e] \in Nat
        /\ failures' \in Nat /\ failures' >= failures
        /\ ~closed => delivered[e] <= failures
        /\ closed => delivered[e] + n <= p + failures
    BY <1>7 DEF CarrierInv, Counts, Opened, Rows
  <2>2. t \in Openers(e) <=> (task[t].op = "open" /\ e = x)
    BY DEF Openers
  <2>3. /\ n \in Nat /\ p \in Nat /\ n <= p
        /\ t \in Openers(e) => n2 = n - 1
        /\ t \notin Openers(e) => n2 = n
    <3>1. IsFiniteSet(Openers(e)) /\ n \in Nat /\ n <= p
      BY CountsAre DEF CarrierInv
    <3>2. Openers(e)' = Openers(e) \ {t}
      BY <1>11
    <3>3. t \in Openers(e) => n2 = n - 1
      BY <3>1, <3>2, OneLess
    <3>4. t \notin Openers(e) => Openers(e)' = Openers(e)
      BY <3>2
    <3>. QED
      BY <3>1, <3>3, <3>4, ProcessesFinite
  <2>4. /\ delivered'[e] = delivered[e] \/ (delivered'[e] = delivered[e] + 1 /\ t \in Openers(e))
        /\ closed => closed2
        /\ t \in Openers(e) /\ ~closed2 => failures' = failures + 1
    BY <1>1, <1>3, <1>7, <2>2
  <2>5. SUFFICES /\ ~closed2 => delivered'[e] <= failures'
                 /\ closed2 => delivered'[e] + n2 <= p + failures'
    BY DEF Opened
  <2> HIDE DEF n, n2, p, closed, closed2
  <2>6. CASE t \in Openers(e)
    BY <2>1, <2>3, <2>4, <2>6
  <2>7. CASE t \notin Openers(e)
    BY <2>1, <2>3, <2>4, <2>7
  <2>. QED
    BY <2>6, <2>7
<1>. QED
  BY <1>9, <1>11, <1>12, <1>13, <1>14 DEF CarrierInv, Counts

LEMMA OpeningIs ==
  ASSUME CarrierInv, NEW t \in Threads, Opening(t) \/ At(t, "persist")
  PROVE  Calling(t) /\ task[t].op \in {"open", "open_file"} /\ CallOK(t)
BY DEF CarrierInv, CallsOK, CallOK, Calling, Opening, InCall, At

LEMMA OpeningStep ==
  ASSUME CarrierInv, NEW t \in Threads, Reload(t) \/ Persist(t) \/ PersistFails(t)
  PROVE  CarrierInv'
<1> DEFINE x == task[t].subject
<1>1. Calling(t) /\ task[t].op \in {"open", "open_file"} /\ CallOK(t)
  BY OpeningIs DEF Reload, Persist, PersistFails
<1>2. /\ x \in Envelopes /\ envelopes[x].status # "none" /\ failures \in Nat
      /\ task[t].result \in {"OPENED", "AUTH_FAILED"}
  BY <1>1 DEF CallOK, CarrierInv, Rows
<1>3. CASE Persist(t)
  <2>1. envelopes'[x].status # "SEALED"
    BY <1>2, <1>3 DEF Persist, CarrierInv, Rows, Row
  <2>. QED
    BY <1>1, <1>3, <2>1, DeliverStep DEF Persist
<1>4. CASE PersistFails(t)
  BY <1>1, <1>4, DeliverStep DEF PersistFails
<1>5. CASE Reload(t) /\ envelopes[x].status # "SEALED"
  BY <1>1, <1>5, DeliverStep DEF Reload
<1>6. CASE Reload(t) /\ envelopes[x].status = "SEALED"
  <2>1. /\ task' = [task EXCEPT ![t].step = "persist"]
        /\ UNCHANGED <<records, log, torn, lock, crashes>> /\ UNCHANGED rowVars
    BY <1>6 DEF Reload, rowVars
  <2>2. Types
    BY DEF CarrierInv, Inv
  <2>3. /\ task'[t].step = "persist" /\ task'[t].op = task[t].op /\ task'[t].key = task[t].key
        /\ task'[t].subject = x /\ task'[t].result = task[t].result
        /\ task'[t] = [step |-> "persist", op |-> task[t].op, key |-> task[t].key,
                       subject |-> x, result |-> task[t].result]
        /\ DOMAIN task' = Threads /\ \A u \in Threads \ {t} : task'[u] = task[u]
    BY <1>1, <2>1, <2>2 DEF CallOK, Types
  <2>4. Inv'
    BY <1>1, <2>1, <2>2, <2>3, CarryStep DEF CarrierInv, Types, Calling
  <2>5. /\ channels' = channels /\ envelopes' = envelopes /\ files' = files /\ lock' = lock
        /\ delivered' = delivered /\ failures' = failures /\ late' = late /\ log' = log
    BY <2>1 DEF rowVars
  <2>6. Rows'
    BY <2>5 DEF CarrierInv, Rows, Row
  <2>7. \A u \in Threads : /\ Calling(u)' <=> Calling(u)
                           /\ Calling(u) => task'[u].op = task[u].op /\ task'[u].key = task[u].key
                                /\ task'[u].subject = task[u].subject /\ task'[u].result = task[u].result
    BY <1>1, <2>3 DEF Calling
  <2>8. CallsOK'
    <3>1. CallOK(t)'
      BY <1>1, <2>3, <2>5 DEF CallOK, EtrLock
    <3>2. ASSUME NEW u \in Threads \ {t}, Calling(u)' PROVE CallOK(u)'
      <4>1. CallOK(u) /\ task'[u] = task[u]
        BY <2>3, <2>7, <3>2 DEF CarrierInv, CallsOK
      <4>. QED
        BY <2>5, <4>1 DEF CallOK, EtrLock
    <3>. QED
      BY <3>1, <3>2 DEF CallsOK
  <2>9. Fresh'
    BY <2>7 DEF Fresh, CarrierInv
  <2>10. \A y : Users(y)' = Users(y) /\ Sealers(y)' = Sealers(y) /\ Openers(y)' = Openers(y)
    BY <2>7 DEF Users, Sealers, Openers
  <2>11. Counts'
    BY <2>5, <2>10 DEF Counts, SilentKey, SilentChannel, Opened, Spent, CarrierInv
  <2>. QED
    BY <2>4, <2>6, <2>8, <2>9, <2>11 DEF CarrierInv
<1>. QED
  BY <1>3, <1>4, <1>5, <1>6

LEMMA SkipEventStep == ASSUME CarrierInv, NEW t \in Threads, SkipEvent(t) PROVE CarrierInv'
<1>1. /\ task' = [task EXCEPT ![t] = NoTask] /\ lock' = Unlocked(t, {EtrLock(t)})
      /\ UNCHANGED <<records, log, torn, crashes>> /\ UNCHANGED rowVars
      /\ task[t].step \in {"update", "emit"}
  BY DEF SkipEvent, At
<1>2. Types
  BY DEF CarrierInv, Inv
<1>3. /\ task'[t] = NoTask /\ DOMAIN task' = Threads /\ \A u \in Threads \ {t} : task'[u] = task[u]
      /\ lock' \in [Locks -> Threads \cup {None}]
      /\ \A l \in Locks : lock[l] \in Threads \ {t} => lock'[l] = lock[l]
  BY <1>1, <1>2, UnlockedIs DEF Types
<1>4. Inv'
  BY <1>1, <1>3, CarryStep DEF CarrierInv
<1>5. Left({t}) /\ ~Calling(t)'
  BY <1>3, EtrLocks DEF Left, Calling, NoTask
<1>6. ASSUME NEW k \in Keys PROVE Len(log'[<<"status", k>>]) >= Len(log[<<"status", k>>])
  <2>1. log[<<"status", k>>] \in Seq(Lines)
    BY <1>2, KeyJournals DEF Types
  <2>2. Len(log[<<"status", k>>]) \in Nat
    BY <2>1
  <2>. QED
    BY <1>1, <2>2
<1>. QED
  BY <1>1, <1>4, <1>5, <1>6, QuietStep

\* Files come and are damaged: no call and no row changes.
LEMMA FilesStep ==
  ASSUME CarrierInv, NEW e \in Envelopes, WriteEnvelope(e) \/ Damage(e)
  PROVE  CarrierInv'
<1>1. /\ UNCHANGED journalVars
      /\ channels' = channels /\ envelopes' = envelopes
      /\ delivered' = delivered /\ failures' = failures /\ late' = late
      /\ files' = files \/ (files' = files \cup {e} /\ envelopes[e].status # "none")
  BY DEF WriteEnvelope, Damage
<1>2. task' = task /\ lock' = lock /\ log' = log
  BY <1>1 DEF journalVars
<1>3. Inv'
  BY <1>1, NoStep DEF CarrierInv
<1>4. Rows'
  BY <1>1 DEF CarrierInv, Rows, Row
<1>5. CallsOK' /\ Fresh'
  BY <1>1, <1>2 DEF CarrierInv, CallsOK, CallOK, Fresh, Calling, EtrLock
<1>6. \A y : Users(y)' = Users(y) /\ Sealers(y)' = Sealers(y) /\ Openers(y)' = Openers(y)
  BY <1>2 DEF Users, Sealers, Openers, Calling
<1>7. Counts'
  BY <1>1, <1>2, <1>6 DEF Counts, SilentKey, SilentChannel, Opened, Spent, CarrierInv
<1>. QED
  BY <1>3, <1>4, <1>5, <1>7 DEF CarrierInv

\* The steps of the journals are no calls.
LEMMA JournalsStep == ASSUME CarrierInv, JournalsNext, UNCHANGED rowVars PROVE CarrierInv'
<1>1. ASSUME NEW t \in Threads, StepOf(t), ~Calling(t)' PROVE CarrierInv'
  <2>1. Inv'
    BY <1>1, ThreadStep DEF CarrierInv
  <2>2. Left({t})
    BY <1>1, EtrLocks DEF Left, StepOf
  <2>3. \A k \in Keys : Len(log'[<<"status", k>>]) >= Len(log[<<"status", k>>])
    BY <1>1, StatusStays DEF CarrierInv
  <2>. QED
    BY <1>1, <2>1, <2>2, <2>3, QuietStep
<1>2. ASSUME NEW t \in KeyWriters, KeyStep(t) PROVE CarrierInv'
  <2>1. t \in Threads /\ StepOf(t)
    BY <1>2, RequireActiveStep, ReadTailStep, AppendKeyStep, CreateFileStep, FirstStatusStep,
       JournalsAssumption DEF KeyStep, CarrierInv
  <2>2. ~Calling(t)'
    BY <1>2, <2>1 DEF KeyStep, RequireActive, ReadTail, AppendKey, CreateFile, FirstStatus, NoTask,
                      Calling, CarrierInv, Inv, Types
  <2>. QED
    BY <1>1, <2>1, <2>2
<1>3. ASSUME NEW t \in Threads, EventStep(t) PROVE CarrierInv'
  <2>1. StepOf(t)
    BY <1>3, AppendEventStep, OpenJournalStep DEF EventStep, CarrierInv
  <2>2. ~Calling(t)'
    BY <1>3 DEF EventStep, AppendEvent, OpenJournal, NoTask, Calling, CarrierInv, Inv, Types
  <2>. QED
    BY <1>1, <2>1, <2>2
<1>4. ASSUME NEW pr \in Processes, Crash(pr) PROVE CarrierInv'
  <2>1. Inv'
    BY <1>4, CrashStep DEF CarrierInv
  <2>2. /\ \A t \in Threads : task'[t] = IF ProcessOf[t] = pr THEN NoTask ELSE task[t]
        /\ \A l \in Locks : lock'[l] = IF lock[l] \in Dead(pr) THEN None ELSE lock[l]
        /\ log' = log
    BY <1>4, CrashIs DEF CarrierInv
  <2>3. Left(Dead(pr)) /\ Dead(pr) \in SUBSET Threads
    BY <2>2, EtrLocks DEF Left, Dead
  <2>4. \A t \in Dead(pr) : ~Calling(t)'
    BY <2>2 DEF Dead, Calling, NoTask
  <2>5. ASSUME NEW k \in Keys PROVE Len(log'[<<"status", k>>]) >= Len(log[<<"status", k>>])
    <3>1. log[<<"status", k>>] \in Seq(Lines)
      BY KeyJournals DEF Types, CarrierInv, Inv
    <3>2. Len(log[<<"status", k>>]) \in Nat
      BY <3>1
    <3>. QED
      BY <2>2, <3>2
  <2>. QED
    BY <2>1, <2>3, <2>4, <2>5, QuietStep
<1>. QED
  BY <1>2, <1>3, <1>4 DEF JournalsNext

\* CarrierInv, and with it the invariant of the journals, holds of every state of the
\* transport: a process has one call at most, which has found its key, channel and
\* envelope as they should be.
THEOREM CarriersInv == TransportSpec => []CarrierInv
<1>1. TransportInit => CarrierInv
  <2>. SUFFICES ASSUME TransportInit PROVE CarrierInv
    OBVIOUS
  <2>1. Inv
    BY InitIs DEF TransportInit
  <2>2. \A t \in Threads : ~Calling(t)
    BY DEF TransportInit, JournalsInit, Calling, NoTask
  <2>3. CallsOK /\ Fresh
    BY <2>2 DEF CallsOK, Fresh
  <2>4. Rows
    BY DEF TransportInit, Rows, Row
  <2>5. Counts
    <3>1. ASSUME NEW k \in Keys PROVE ~Spent(k)
      <4>1. log[<<"status", k>>] = <<>>
        BY KeyJournals DEF TransportInit, JournalsInit
      <4>2. Len(<<>>) = 0
        OBVIOUS
      <4>3. ~(0 >= 2)
        OBVIOUS
      <4>. QED
        BY <4>1, <4>2, <4>3 DEF Spent
    <3>. QED
      BY <3>1 DEF TransportInit, Counts, SilentKey, SilentChannel, Opened
  <2>. QED
    BY <2>1, <2>3, <2>4, <2>5 DEF CarrierInv
<1>2. CarrierInv /\ [TransportNext]_transportVars => CarrierInv'
  <2>. SUFFICES ASSUME CarrierInv, [TransportNext]_transportVars PROVE CarrierInv'
    OBVIOUS
  <2>1. ASSUME NEW t \in Carriers, EtrStep(t) PROVE CarrierInv'
    <3>1. t \in Threads
      BY TransportAssumption
    <3>2. CASE UpdateChannel(t)
      BY <3>1, <3>2, UpdateChannelStep
    <3>3. CASE Seal(t)
      BY <3>1, <3>3, SealStep
    <3>4. CASE Reload(t) \/ Persist(t) \/ PersistFails(t)
      BY <3>1, <3>4, OpeningStep
    <3>5. CASE SkipEvent(t)
      BY <3>1, <3>5, SkipEventStep
    <3>. QED
      BY <2>1, <3>1, <3>2, <3>3, <3>4, <3>5, ChecksStep DEF EtrStep
  <2>2. ASSUME NEW e \in Envelopes, WriteEnvelope(e) \/ Damage(e) PROVE CarrierInv'
    BY <2>2, FilesStep
  <2>3. CASE JournalsNext /\ UNCHANGED rowVars
    BY <2>3, JournalsStep
  <2>4. CASE UNCHANGED transportVars
    <3>1. UNCHANGED journalVars /\ UNCHANGED rowVars
      BY <2>4 DEF transportVars
    <3>2. Inv'
      BY <3>1, NoStep DEF CarrierInv
    <3>3. task' = task /\ lock' = lock /\ log' = log
      BY <3>1 DEF journalVars
    <3>4. ASSUME NEW k \in Keys PROVE Len(log'[<<"status", k>>]) >= Len(log[<<"status", k>>])
      <4>1. log[<<"status", k>>] \in Seq(Lines)
        BY KeyJournals DEF Types, CarrierInv, Inv
      <4>2. Len(log[<<"status", k>>]) \in Nat
        BY <4>1
      <4>. QED
        BY <3>3, <4>2
    <3>5. Left({})
      BY <3>3 DEF Left
    <3>. QED
      BY <3>1, <3>2, <3>4, <3>5, QuietStep
  <2>. QED
    BY <2>1, <2>2, <2>3, <2>4 DEF TransportNext
<1>. QED
  BY <1>1, <1>2, PTL DEF TransportSpec

\* Once a key is retired it is used no more, but for one call of each process, and a
\* revoked channel seals no more, but for one call of each other process: for any keys,
\* channels, threads and processes, and through any crashes.
THEOREM RetiredAlwaysSilent == TransportSpec => []RetiredIsSilent
<1>1. CarrierInv => RetiredIsSilent
  <2>. SUFFICES ASSUME CarrierInv PROVE RetiredIsSilent
    OBVIOUS
  <2>1. ASSUME NEW k \in Keys PROVE late[k] <= Cardinality(Processes)
    BY <2>1, CountsAre, ProcessesFinite DEF CarrierInv, Counts, SilentKey, Rows
  <2>2. Cardinality(Processes) # 0
    <3>1. Processes # {}
      BY TransportAssumption DEF Processes
    <3>. QED
      BY <3>1, ProcessesFinite, FS_EmptySet
  <2>3. ASSUME NEW c \in Channels PROVE late[c] < Cardinality(Processes)
    BY <2>2, <2>3, CountsAre, ProcessesFinite DEF CarrierInv, Counts, SilentChannel, Rows
  <2>. QED
    BY <2>1, <2>3 DEF RetiredIsSilent
<1>. QED
  BY <1>1, CarriersInv, PTL

\* By its identifier an envelope is opened once in each process at most, and once more
\* for each update of its status that failed.
THEOREM OpenedOnceHolds == TransportSpec => []OpenedOnce
<1>1. CarrierInv => OpenedOnce
  <2>. SUFFICES ASSUME CarrierInv, NEW e \in Envelopes
                PROVE  delivered[e] <= Cardinality(Processes) + failures
    BY DEF OpenedOnce
  <2>1. Opened(e) /\ delivered[e] \in Nat /\ failures \in Nat
    BY DEF CarrierInv, Counts, Rows
  <2>. QED
    BY <2>1, CountsAre, ProcessesFinite DEF Opened, CarrierInv
<1>. QED
  BY <1>1, CarriersInv, PTL

\* The chains stay whole when events of the transport are among those that are appended.
THEOREM ChainsStayInTransport == TransportSpec => []ChainsStay
BY CarriersInv, InvChains, PTL DEF CarrierInv

\* The same of retired keys: their status and their ledger rest while the transport seals
\* and opens.
THEOREM RetiredKeysRestInTransport == TransportSpec => RetiredKeysRest
<1>1. ASSUME CarrierInv, [TransportNext]_transportVars, ~UNCHANGED journalVars,
             OneKeyProcess, NEW k \in Keys, KeyStatus(k) \in {"ROTATED", "REVOKED"}
      PROVE  KeyStatus(k)' = KeyStatus(k) /\ log'[<<"ledger", k>>] = log[<<"ledger", k>>]
  <2>1. CASE JournalsNext
    BY <1>1, <2>1, RestStep DEF CarrierInv
  <2>2. CASE UNCHANGED <<records, log, torn>>
    BY <2>2 DEF KeyStatus, Intact, Chained
  <2>3. ASSUME NEW t \in Carriers, EtrStep(t) PROVE UNCHANGED <<records, log, torn>>
    BY <2>3 DEF EtrStep, CheckRevoke, CheckBind, CheckSeal, CheckOpen, BeginCall, UpdateChannel, Seal,
                Reload, Persist, PersistFails, ThenEmit, SkipEvent
  <2>4. ASSUME NEW e \in Envelopes, WriteEnvelope(e) \/ Damage(e) PROVE FALSE
    BY <1>1, <2>4 DEF WriteEnvelope, Damage
  <2>. QED
    BY <1>1, <2>1, <2>2, <2>3, <2>4 DEF TransportNext, transportVars
<1>2. CarrierInv /\ [TransportNext]_transportVars =>
        [OneKeyProcess => \A k \in Keys : KeyStatus(k) \in {"ROTATED", "REVOKED"} =>
          KeyStatus(k)' = KeyStatus(k) /\ log'[<<"ledger", k>>] = log[<<"ledger", k>>]]_journalVars
  BY <1>1
<1>. QED
  BY <1>2, CarriersInv, PTL DEF TransportSpec, RetiredKeysRest
=============================================================================

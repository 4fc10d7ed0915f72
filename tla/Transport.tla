------------------------------ MODULE Transport ------------------------------
(***************************************************************************)
(* The encrypted transport ETR (src/asc_orchestrator/etr.py) over the keys *)
(* and the event journal of Journals.  Channels and envelopes are rows of  *)
(* the PESE state; a sealed envelope may also travel as a file, which says *)
(* SEALED for ever.                                                        *)
(*                                                                         *)
(* A call holds the ETR lock of its process, a thread lock, from its check *)
(* to its event.  It checks channel, envelope and key, then loads again    *)
(* and updates; PESE does not compare the status that the call has seen.   *)
(***************************************************************************)
EXTENDS Journals

CONSTANTS
  Carriers,     \* the threads that call ETR
  Channels,
  Envelopes,
  MaxFailures   \* a bound on updates that fail
ASSUME TransportAssumption ==
  /\ Carriers \subseteq Threads /\ Threads # {} /\ IsFiniteSet(Threads)
  /\ None \notin Channels \cup Envelopes /\ Keys \cap Channels = {}
  /\ MaxFailures \in Nat

VARIABLES
  channels,   \* status and key of each channel
  envelopes,  \* status and key of each envelope
  files,      \* envelopes of which there is a file
  damaged,    \* files of which a byte has changed
  delivered,  \* history: how often each envelope was opened by its identifier
  failures,   \* updates that failed after an envelope was opened
  late        \* history: uses of each retired key and revoked channel

rowVars == <<channels, envelopes, files, damaged, delivered, failures, late>>
transportVars == <<journalVars, rowVars>>

EtrLock(t) == <<"etr", ProcessOf[t]>>
KeyRetired(k) == KeyStatus(k) \in {"ROTATED", "REVOKED"}
\* A new identifier is like no other, also none that a call under way has made.
New(rows, x) == rows[x].status = "none" /\ \A t \in Threads : At(t, "update") => task[t].subject # x
InCall(t, op)  == At(t, "update") /\ task[t].op = op

\* Mistake: a call does not wait for another one.
BeginCallAnytime(t, op, key, subject, result) ==
  /\ Idle(t)
  /\ task' = [task EXCEPT ![t] = [step |-> "update", op |-> op, key |-> key,
                                  subject |-> subject, result |-> result]]
  /\ UNCHANGED <<records, log, torn, lock, crashes, rowVars>>

\* The key is read without the lock of the key store.
BeginCall(t, op, key, subject, result) ==
  /\ Idle(t) /\ Free(EtrLock(t))
  /\ lock' = [lock EXCEPT ![EtrLock(t)] = t]
  /\ task' = [task EXCEPT ![t] = [step |-> "update", op |-> op, key |-> key,
                                  subject |-> subject, result |-> result]]
  /\ UNCHANGED <<records, log, torn, crashes, rowVars>>

Opening(t) == InCall(t, "open") \/ InCall(t, "open_file")

\* After the update comes the event, which may fail: nobody looks.
ThenEmit(t) ==
  /\ task' = [task EXCEPT ![t] = [step |-> "emit"]]
  /\ UNCHANGED <<records, log, torn, lock, crashes>>
SkipEvent(t) ==
  /\ At(t, "emit") \/ (At(t, "update") /\ ~Opening(t))  \* whose update is refused
  /\ task' = [task EXCEPT ![t] = NoTask] /\ lock' = Unlocked(t, {EtrLock(t)})
  /\ UNCHANGED <<records, log, torn, crashes, rowVars>>

LateUse(uses) ==
  late' = [x \in Keys \cup Channels |-> IF x \in uses THEN late[x] + 1 ELSE late[x]]
RetiredKey(k) == {key \in {k} : KeyRetired(key)}

-----------------------------------------------------------------------------
(* Channels.                                                               *)

CheckBind(t, c, k) ==
  /\ New(channels, c) /\ Active(k)
  /\ BeginCall(t, "bind", k, c, "ACTIVE")
CheckRevoke(t, c) ==
  /\ channels[c].status = "ACTIVE"
  /\ BeginCall(t, "revoke", channels[c].key, c, "REVOKED")
UpdateChannel(t) ==
  /\ InCall(t, "bind") \/ InCall(t, "revoke")
  /\ channels' = [channels EXCEPT ![task[t].subject] =
                    [status |-> task[t].result, key |-> task[t].key]]
  /\ ThenEmit(t)
  /\ UNCHANGED <<envelopes, files, damaged, delivered, failures, late>>

-----------------------------------------------------------------------------
(* Envelopes.                                                              *)

\* With a key, or through a channel and with its key.
CheckSeal(t, e, via, k) ==
  /\ New(envelopes, e)
  /\ via \in Channels => channels[via].status = "ACTIVE" /\ channels[via].key = k
  /\ Active(k)
  /\ BeginCall(t, "seal", k, e, via)
Seal(t) ==
  /\ InCall(t, "seal")
  /\ envelopes' = [envelopes EXCEPT ![task[t].subject] =
                     [status |-> "SEALED", key |-> task[t].key]]
  /\ LateUse(RetiredKey(task[t].key)
               \cup {c \in Channels \cap {task[t].result} : channels[c].status = "REVOKED"})
  /\ ThenEmit(t)
  /\ UNCHANGED <<channels, files, damaged, delivered, failures>>

\* seal_file writes what seal returned.
WriteEnvelope(e) ==
  /\ envelopes[e].status # "none" /\ e \notin files
  /\ files' = files \cup {e}
  /\ UNCHANGED <<journalVars, channels, envelopes, damaged, delivered, failures, late>>
Damage(e) ==
  /\ e \in files \ damaged
  /\ damaged' = damaged \cup {e}
  /\ UNCHANGED <<journalVars, channels, envelopes, files, delivered, failures, late>>

\* A changed byte of the ciphertext, or of the part of the record that it is bound to,
\* is noticed; one of the status, of created_at or of aad (aad is computed anew) is not.
\* An envelope_id or key_id that names another row is left out.
Outcomes(file, e) ==
  {"OPENED"} \cup {failed \in {"AUTH_FAILED"} : file /\ e \in damaged}

\* Mistake: any key will do that the store has.
CheckOpenAnyKey(t, e, file) ==
  /\ IF file THEN e \in files ELSE envelopes[e].status = "SEALED"
  /\ \E result \in Outcomes(file, e) :
       BeginCall(t, IF file THEN "open_file" ELSE "open", envelopes[e].key, e, result)

\* By identifier or from a file; the status is that of the record given.
CheckOpen(t, e, file) ==
  /\ IF file THEN e \in files ELSE envelopes[e].status = "SEALED"
  /\ Active(envelopes[e].key)
  /\ \E result \in Outcomes(file, e) :
       BeginCall(t, IF file THEN "open_file" ELSE "open", envelopes[e].key, e, result)

\* What comes back to the caller, whatever becomes of the stored status.
Deliver(t) ==
  LET opened == task[t].result = "OPENED"
  IN  /\ delivered' = [delivered EXCEPT ![task[t].subject] =
                         IF opened /\ task[t].op = "open" THEN @ + 1 ELSE @]
      /\ LateUse(IF opened THEN RetiredKey(task[t].key) ELSE {})

\* _persist_envelope_status: a load, and if the envelope is SEALED in it an
\* update of a second load.
Reload(t) ==
  /\ Opening(t)
  /\ IF envelopes[task[t].subject].status = "SEALED"
     THEN /\ task' = [task EXCEPT ![t].step = "persist"]
          /\ UNCHANGED <<records, log, torn, lock, crashes, delivered, late>>
     ELSE ThenEmit(t) /\ Deliver(t)
  /\ UNCHANGED <<channels, envelopes, files, damaged, failures>>
Persist(t) ==
  /\ At(t, "persist")
  /\ envelopes' = [envelopes EXCEPT ![task[t].subject].status = task[t].result]
  /\ ThenEmit(t) /\ Deliver(t)
  /\ UNCHANGED <<channels, files, damaged, failures>>
PersistFails(t) ==
  /\ At(t, "persist") \/ Opening(t)
  /\ failures < MaxFailures
  /\ failures' = failures + 1
  /\ ThenEmit(t) /\ Deliver(t)
  /\ UNCHANGED <<channels, envelopes, files, damaged>>

-----------------------------------------------------------------------------
TransportInit ==
  /\ JournalsInit
  /\ channels = [c \in Channels |-> [status |-> "none", key |-> None]]
  /\ envelopes = [e \in Envelopes |-> [status |-> "none", key |-> None]]
  /\ files = {} /\ damaged = {} /\ failures = 0
  /\ delivered = [e \in Envelopes |-> 0]
  /\ late = [x \in Keys \cup Channels |-> 0]

EtrStep(t) ==
  \/ \E c \in Channels : CheckRevoke(t, c) \/ \E k \in Keys : CheckBind(t, c, k)
  \/ \E e \in Envelopes :
       \/ \E via \in Channels \cup {None}, k \in Keys : CheckSeal(t, e, via, k)
       \/ \E file \in BOOLEAN : CheckOpen(t, e, file)
  \/ UpdateChannel(t) \/ Seal(t) \/ Reload(t) \/ Persist(t) \/ PersistFails(t)
  \/ SkipEvent(t)

TransportNext ==
  \/ \E t \in Carriers : EtrStep(t)
  \/ \E e \in Envelopes : WriteEnvelope(e) \/ Damage(e)
  \/ JournalsNext /\ UNCHANGED rowVars

TransportSpec == TransportInit /\ [][TransportNext]_transportVars

-----------------------------------------------------------------------------
(* Properties.                                                             *)

\* Once a key is retired it seals and opens no more, but for the one call that
\* each process may have under way; once a channel is revoked it seals no more,
\* but for the one call of each other process.  The checks are made in another
\* load, or file, than the one that is changed.
RetiredIsSilent ==
  /\ \A k \in Keys : late[k] <= Cardinality(Processes)
  /\ \A c \in Channels : late[c] < Cardinality(Processes)

\* By its identifier an envelope is opened once in each process at most, and
\* once more for each update that failed: its status is checked under a lock
\* that other processes do not have, and the payload is returned even if the
\* status could not be changed.
OpenedOnce ==
  \A e \in Envelopes : delivered[e] <= Cardinality(Processes) + failures

\* OPENED and AUTH_FAILED have no transitions (docs/ETR_v1.0.md).
ClosedStays ==
  [][\A e \in Envelopes : envelopes[e].status \in {"OPENED", "AUTH_FAILED"}
       => envelopes'[e] = envelopes[e]]_transportVars
=============================================================================

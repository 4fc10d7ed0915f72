------------------------------- MODULE Agents -------------------------------
(***************************************************************************)
(* The agent lifecycle AGC (src/asc_orchestrator/agent.py) and the         *)
(* recovery engine REC (recovery.py), which replaces a failed agent by a   *)
(* new one in eight updates.  PESE has no table for AGENT_STATUS and       *)
(* RECOVERY_STATUS: the engines' own checks are all there is, and each is  *)
(* made in an earlier load than the one that is updated.                   *)
(***************************************************************************)
EXTENDS PESEState, Sequences

CONSTANTS
  Spares,         \* Spares[x]: identifiers for a replacement of x
  Verdicts,       \* the dependency statuses that set_dependency is called with
  MaxRecoveries,  \* a bound on recovery records
  MaxCommands     \* a bound on AGC calls that are no part of a recovery

ASSUME SparesAssumption ==
  /\ Verdicts \subseteq DepStatuses
  /\ Spares \in [Agents -> SUBSET Agents]
  /\ MaxRecoveries \in Nat /\ MaxCommands \in Nat

VARIABLES
  records,  \* recovery_state: RECOVERY:0001, RECOVERY:0002, ...
  run,      \* the recovery that each process is running
  commands  \* AGC calls that were no part of a recovery

agentsVars == <<state, call, overtaken, races, records, run, commands>>
recoveryVars == <<records, run, commands>>

Alive == {"READY", "BUSY", "BLOCKED"}

-----------------------------------------------------------------------------
(* AGC                                                                     *)

\* The orchestrator and the agent itself have the authority for all of these,
\* except register.
CheckAgent(p, op, x, statuses) ==
  /\ state.agent[x] \in statuses
  /\ Plan(p, Call(op, x, state.agent[x], {}))

\* The update of an operation that writes the status, and clears or keeps the
\* assignment.
SetAgent(p, op, to, work) ==
  /\ Doing(p, op)
  /\ LET x == call[p].subject
     IN  Commit(p, "AGENT_STATUS", to, [state EXCEPT !.agent[x] = to, !.work[x] = work], NoCall)

Kept(p) == state.work[call[p].subject]

CheckRegister(p, x)   == CheckAgent(p, "register", x, {"none"})
CheckActivate(p, x)   == CheckAgent(p, "activate", x, {"INITIALIZING"})
CheckReady(p, x)      == CheckAgent(p, "ready", x, {"REGISTERED"}) /\ state.dep[x] = "VERIFIED"
CheckAgentComplete(p, x)   == CheckAgent(p, "agent_complete", x, {"BUSY"})
CheckAgentBlock(p, x)      == CheckAgent(p, "agent_block", x, {"READY", "BUSY"})
CheckAgentUnblock(p, x)    == CheckAgent(p, "agent_unblock", x, {"BLOCKED"})
CheckAgentFail(p, x)       == CheckAgent(p, "agent_fail", x, Alive)
CheckQuarantine(p, x) == CheckAgent(p, "quarantine", x, Alive \cup {"FAILED"})
CheckReplace(p, x)    == CheckAgent(p, "replace", x, {"FAILED", "QUARANTINED"})
CheckRelease(p, x)    == CheckAgent(p, "release", x, AgentStatuses \ {"none", "RELEASED"})

\* The new record takes the place of any that appeared meanwhile.
Register(p) ==
  /\ Doing(p, "register")
  /\ LET x == call[p].subject
     IN  Update(p, [state EXCEPT !.agent[x] = "INITIALIZING", !.work[x] = None,
                                 !.dep[x] = "UNKNOWN"], NoCall)
Activate(p)   == SetAgent(p, "activate", "REGISTERED", Kept(p))
Ready(p)      == SetAgent(p, "ready", "READY", Kept(p))
AgentComplete(p)   == SetAgent(p, "agent_complete", "READY", None)
AgentBlock(p)      == SetAgent(p, "agent_block", "BLOCKED", Kept(p))
AgentUnblock(p)    == SetAgent(p, "agent_unblock", "READY", None)
AgentFail(p)       == SetAgent(p, "agent_fail", "FAILED", Kept(p))
Quarantine(p) == SetAgent(p, "quarantine", "QUARANTINED", Kept(p))
Replace(p)    == SetAgent(p, "replace", "REPLACED", Kept(p))
Release(p)    == SetAgent(p, "release", "RELEASED", None)

\* Mistake: whoever is registered may claim.
CheckClaimAnyone(p, x, a) ==
  /\ state.agent[x] # "none"
  /\ Plan(p, Call("claim", x, state.agent[x], {a}))

\* claim takes any mission and assignment without looking at them.
CheckClaim(p, x, a) ==
  /\ state.agent[x] = "READY"
  /\ Plan(p, Call("claim", x, "READY", {a}))
Claim(p) == Doing(p, "claim") /\ \E a \in call[p].rows : SetAgent(p, "claim", "BUSY", a)

\* set_dependency and heartbeat keep the status that they have seen only as a
\* label: they write their own field, in whatever status the agent is by then.
CheckSetDependency(p, x, dep) ==
  /\ state.agent[x] # "none"
  /\ Plan(p, Call("dependency", x, dep, {}))
SetDependency(p) ==
  /\ Doing(p, "dependency")
  /\ Update(p, [state EXCEPT !.dep[call[p].subject] = call[p].from], NoCall)

\* heartbeat and update_checkpoint write references that nothing here reads;
\* what counts is the revision they take.
CheckTouch(p, x) ==
  /\ state.agent[x] # "none"
  /\ Plan(p, Call("touch", x, state.agent[x], {}))
Touch(p) == Doing(p, "touch") /\ Update(p, state, NoCall)

-----------------------------------------------------------------------------
(* REC                                                                     *)

NoRun == [step |-> "none"]
Running(p) == run[p] # NoRun
At(p, step) == run[p].step = step

\* Mistake: the replaced agent is not released.
SequenceShort == <<"create", "quarantine", "register", "activate",
                   "dependency", "ready", "claim", "close">>

\* The steps of run, in order, with the AGC operation that each makes.
Sequence == <<"create", "quarantine", "release", "register", "activate",
              "dependency", "ready", "claim", "close">>
After(step) == Sequence[1 + CHOOSE i \in DOMAIN Sequence : Sequence[i] = step]
GoTo(p, step) == run' = [run EXCEPT ![p].step = step]

\* Names that no agent has; _suggested_replacement takes the first of its own.
FreeSpares(x) == {y \in Spares[x] : state.agent[y] = "none"}

\* diagnose: FAILED, QUARANTINED, or stalled by its heartbeats.
Trigger(x) == state.agent[x] \in {"FAILED", "QUARANTINED"} \cup Alive

\* run, up to its first update.  The replacement is any identifier that is free:
\* x:recovery:1, x:recovery:2 and so on, or what the caller names.  diagnose and run
\* load the state one after the other; the two loads change nothing and are one here.  A
\* name in use is refused by register, like one that is taken meanwhile.
StartRecovery(p, x) ==
  /\ Idle(p) /\ ~Running(p)
  /\ Trigger(x)
  /\ Len(records) < MaxRecoveries
  /\ \E y \in FreeSpares(x) :
       run' = [run EXCEPT ![p] = [step |-> "create", id |-> Len(records) + 1,
                                  agent |-> x, new |-> y, work |-> state.work[x]]]
  /\ Plan(p, Call("create", x, "none", {}))
  /\ UNCHANGED <<records, commands>>

BoundMissions == {m \in Missions : state.mission[m] # "none"}

\* A second record with the same identifier overwrites the first.  History: if it
\* did, and the missions that were bound by then.
PutRecord(p, status) ==
  LET row == [agent |-> run[p].agent, new |-> run[p].new, status |-> status,
              shared |-> run[p].id <= Len(records), bound |-> BoundMissions]
  IN  records' = IF run[p].id > Len(records) THEN Append(records, row)
                 ELSE [records EXCEPT ![run[p].id] = row]
SetRecord(p, status) == records' = [records EXCEPT ![run[p].id].status = status]

CreateRecord(p) ==
  /\ Doing(p, "create")
  /\ Update(p, state, NoCall)
  /\ PutRecord(p, "IN_PROGRESS")
  /\ GoTo(p, After("create")) /\ UNCHANGED commands

\* What each step checks before its update.
StepCheck(p) ==
  LET x == run[p].agent  y == run[p].new
  IN  \/ At(p, "quarantine") /\ CheckQuarantine(p, x)
      \/ At(p, "release") /\ CheckRelease(p, x)
      \/ At(p, "register") /\ CheckRegister(p, y)
      \/ At(p, "activate") /\ CheckActivate(p, y)
      \/ At(p, "dependency") /\ CheckSetDependency(p, y, "VERIFIED")
      \/ At(p, "ready") /\ CheckReady(p, y)
      \/ At(p, "claim") /\ run[p].work # None /\ CheckClaim(p, y, run[p].work)
      \/ At(p, "close") /\ Plan(p, Call("close", x, "IN_PROGRESS", {}))
      \/ At(p, "failed") /\ Plan(p, Call("fail_record", x, "IN_PROGRESS", {}))
RecoveryCheck(p) ==
  /\ Running(p) /\ Idle(p)
  /\ StepCheck(p)
  /\ UNCHANGED recoveryVars

\* The precondition of the step of p does not hold.
Refused(p) ==
  LET x == run[p].agent  y == run[p].new
  IN  \/ At(p, "quarantine") /\ state.agent[x] \notin Alive \cup {"FAILED"}
      \/ At(p, "release") /\ state.agent[x] \in {"none", "RELEASED"}
      \/ At(p, "register") /\ state.agent[y] # "none"
      \/ At(p, "activate") /\ state.agent[y] # "INITIALIZING"
      \/ At(p, "dependency") /\ state.agent[y] = "none"
      \/ At(p, "ready") /\ ~(state.agent[y] = "REGISTERED" /\ state.dep[y] = "VERIFIED")
      \/ At(p, "claim") /\ run[p].work # None /\ state.agent[y] # "READY"

\* Mistake: the recovery goes on after a step that was refused.
StepIgnored(p) ==
  /\ Running(p) /\ Idle(p) /\ Refused(p)
  /\ GoTo(p, After(run[p].step))
  /\ UNCHANGED <<state, call, overtaken, races, records, commands>>

\* A refused step fails the recovery.
StepRefused(p) ==
  /\ Running(p) /\ Idle(p) /\ Refused(p)
  /\ GoTo(p, "failed")
  /\ UNCHANGED <<state, call, overtaken, races, records, commands>>

\* An agent without work is replaced by one that claims nothing.
SkipClaim(p) ==
  /\ Running(p) /\ Idle(p) /\ At(p, "claim") /\ run[p].work = None
  /\ GoTo(p, "close")
  /\ UNCHANGED <<state, call, overtaken, races, records, commands>>

\* The last update of a run.  Its outcome is not looked at: see StepAbandoned.
CloseRecord(p) ==
  /\ \E op \in {"close", "fail_record"} :
       LET status == IF op = "close" THEN "COMPLETED" ELSE "FAILED"
       IN  /\ Doing(p, op) /\ SetRecord(p, status)
           /\ Commit(p, "RECOVERY_STATUS", status, state, NoCall)
  /\ run' = [run EXCEPT ![p] = NoRun]
  /\ UNCHANGED commands

\* An update of a run fails.  A step that fails fails the recovery; the run ends
\* if no record was made yet or none can be written any more.
StepAbandoned(p) ==
  /\ Running(p) /\ Abandon(p)
  /\ IF At(p, "create") \/ At(p, "close") \/ At(p, "failed")
     THEN run' = [run EXCEPT ![p] = NoRun]
     ELSE GoTo(p, "failed")
  /\ UNCHANGED <<records, commands>>

\* The process dies; nobody takes its recovery up.
Crash(p) ==
  /\ Running(p)
  /\ run' = [run EXCEPT ![p] = NoRun]
  /\ call' = [call EXCEPT ![p] = NoCall]
  /\ overtaken' = overtaken \ {p}
  /\ UNCHANGED <<state, races, records, commands>>

-----------------------------------------------------------------------------
AgentsInit ==
  /\ InitState
  /\ records = <<>> /\ run = [p \in Procs |-> NoRun] /\ commands = 0

AgentCheck(p) ==
  \/ \E x \in Agents :
       \/ CheckRegister(p, x) \/ CheckActivate(p, x) \/ CheckReady(p, x)
       \/ CheckAgentComplete(p, x) \/ CheckAgentBlock(p, x) \/ CheckAgentUnblock(p, x)
       \/ CheckAgentFail(p, x) \/ CheckQuarantine(p, x) \/ CheckReplace(p, x)
       \/ CheckRelease(p, x) \/ CheckTouch(p, x)
       \/ \E dep \in Verdicts : CheckSetDependency(p, x, dep)
       \/ \E a \in Assignments : CheckClaim(p, x, a)
AgentCommit(p) ==
  \/ Register(p) \/ Activate(p) \/ Ready(p) \/ AgentComplete(p) \/ AgentBlock(p)
  \/ AgentUnblock(p) \/ AgentFail(p) \/ Quarantine(p) \/ Replace(p) \/ Release(p)
  \/ Claim(p) \/ SetDependency(p) \/ Touch(p)

\* A call of AGC by itself; the same commits are the steps of a recovery.
AgentCall(p) ==
  /\ ~Running(p)
  /\ UNCHANGED <<records, run>>
  /\ \/ commands < MaxCommands /\ AgentCheck(p) /\ commands' = commands + 1
     \/ (AgentCommit(p) \/ Abandon(p) \/ \E m \in Missions : Bind(p, m)) /\ UNCHANGED commands
StepDone(p) ==
  /\ Running(p) /\ AgentCommit(p)
  /\ GoTo(p, After(run[p].step))
  /\ UNCHANGED <<records, commands>>
RecoveryStep(p) ==
  \/ CreateRecord(p) \/ RecoveryCheck(p) \/ StepDone(p) \/ StepRefused(p)
  \/ SkipClaim(p) \/ CloseRecord(p) \/ StepAbandoned(p)

AgentsNext == \E p \in Procs :
  \/ AgentCall(p) \/ RecoveryStep(p) \/ Crash(p)
  \/ \E x \in Agents : StartRecovery(p, x)

AgentsSpec == AgentsInit /\ [][AgentsNext]_agentsVars

-----------------------------------------------------------------------------
(* Properties.                                                             *)

\* A released agent stays released and a quarantined one gets no more work, unless
\* a manifest binds the agent anew, or it is a call about that very agent which had
\* looked at it before.
OutOfService ==
  [][state'.mission = state.mission => \A x \in Agents : EndsOvertaken(x) \/
         /\ state.agent[x] = "RELEASED" => state'.agent[x] = "RELEASED"
         /\ state.agent[x] \in {"QUARANTINED", "REPLACED"}
              => state'.agent[x] \in {"QUARANTINED", "REPLACED", "RELEASED"}]_agentsVars

\* A recovery that completed under an identifier of its own, and whose agent no
\* manifest has bound since.
Replaced(i) ==
  /\ records[i].status = "COMPLETED" /\ ~records[i].shared
  /\ ~\E m \in BoundMissions \ records[i].bound : records[i].agent \in Members(m)

\* An agent is replaced at most once: the second of two recoveries of the same
\* agent finds it quarantined or released, and fails.
ReplacedOnce ==
  races = 0 => \A i, j \in DOMAIN records :
    Replaced(i) /\ Replaced(j) /\ records[i].agent = records[j].agent => i = j

\* A recovery that completed has taken its agent out of service and brought in
\* one that was not there before.
CompletedRecovery ==
  races = 0 => \A i \in DOMAIN records : Replaced(i) =>
    state.agent[records[i].agent] = "RELEASED" /\ state.agent[records[i].new] # "none"

\* A recovery record is never taken over by another recovery (docs/REC_v1.0.md:
\* attempts cannot collide on recovery-id allocation).  Two processes can.
RecordsAreKept ==
  [][\A i \in DOMAIN records :
       i \in DOMAIN records' /\ records'[i].agent = records[i].agent
         /\ (records[i].status # "IN_PROGRESS" => records'[i] = records[i])]_agentsVars
=============================================================================

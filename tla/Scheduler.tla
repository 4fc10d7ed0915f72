------------------------------ MODULE Scheduler ------------------------------
(***************************************************************************)
(* The autonomous scheduler AWS (src/asc_orchestrator/aws.py) over the     *)
(* engines that it calls: EEF and AEX (Execution), AGC and REC (Agents),   *)
(* VAL and RKM (Gates).  A tick makes one decision from several loads and  *)
(* carries it out by the calls of the engine in question.  Meanwhile the   *)
(* agents work, fail and validate, and an operator starts missions,        *)
(* advances the milestone and handles risks.                               *)
(*                                                                         *)
(* The ledger of cycles is not in the model.  It is written with the       *)
(* revision it was read in, so no cycle overwrites another; a tick whose   *)
(* last update fails has acted all the same.                               *)
(***************************************************************************)
EXTENDS Execution, Agents, Gates

CONSTANT Schedulers  \* the processes that tick; the others are agents and operators
ASSUME SchedulersAssumption == Schedulers \subseteq Procs /\ IsFiniteSet(Schedulers)

VARIABLES
  enabled,  \* the configuration of the scheduler
  tick,     \* the tick under way in each scheduler
  late      \* history: decisions whose call has ended during the present hold

schedulerVars ==
  <<state, call, overtaken, races, results, records, run, commands, disk, sealed, diverged,
    enabled, tick, late>>
tickVars == <<enabled, tick, late>>

NoTick == [step |-> "none"]
Ticking(p, step) == tick[p].step = step
Decision(kind, target) == [kind |-> kind, target |-> target]

-----------------------------------------------------------------------------
(* The decision.                                                           *)

FailedAgents(s) == {x \in Agents : s.agent[x] \in {"FAILED", "QUARANTINED"}}
PendingGates(s, m) == {g \in MissionGates(m) : s.gate[g] = "PENDING"}

\* Mistake: a pending gate is started whatever is left to do.
FallbacksEager(s) ==
  IF s.active = None THEN {Decision("IDLE", None)}
  ELSE {Decision("VALIDATE", g) : g \in PendingGates(s, s.active)}
         \cup {Decision("MONITOR_HEALTH", s.active)}

\* What comes after HOLD, RECOVER and DISPATCH, from the state the tick loaded
\* first.  START_MISSION needs a planned mission and no active one: binding makes
\* a mission active and nothing ends that, so it is never decided.
Fallbacks(s) ==
  CASE s.active = None -> {Decision("IDLE", None)}
    [] s.active # None /\ AllCompleted(s, s.active) /\ PendingGates(s, s.active) # {} ->
         {Decision("VALIDATE", g) : g \in PendingGates(s, s.active)}
    [] OTHER -> {Decision(IF AllCompleted(s, s.active) THEN "COMPLETE_MISSION"
                          ELSE "MONITOR_HEALTH", s.active)}

\* The first load.
TickLoad(p) ==
  /\ Idle(p) /\ tick[p] = NoTick
  /\ \E fallback \in Fallbacks(state) :
       tick' = [tick EXCEPT ![p] =
         [step |-> "hold", enabled |-> enabled, failed |-> FailedAgents(state),
          active |-> state.active, decision |-> fallback]]

Decide(p, decision) ==
  tick' = [tick EXCEPT ![p].decision = decision,
                       ![p].step = IF tick[p].enabled THEN "execute" ELSE "end"]

\* Mistake: only a failed agent is looked for.
TickHoldNever(p) ==
  /\ Ticking(p, "hold")
  /\ IF tick[p].failed # {}
     THEN \E x \in tick[p].failed : Decide(p, Decision("RECOVER", x))
     ELSE tick' = [tick EXCEPT ![p].step = "schedule"]

\* RKM loads again; a failed agent is known from the first load.
TickHold(p) ==
  /\ Ticking(p, "hold")
  /\ IF Hold(state) THEN Decide(p, Decision("HOLD", None))
     ELSE IF tick[p].failed # {}
          THEN \E x \in tick[p].failed : Decide(p, Decision("RECOVER", x))
          ELSE tick' = [tick EXCEPT ![p].step = "schedule"]

\* Or the heartbeats of a member are overdue, which is a disturbance.
TickStalled(p) ==
  /\ Ticking(p, "schedule") /\ tick[p].active # None
  /\ commands < MaxCommands /\ commands' = commands + 1
  /\ \E x \in Members(tick[p].active) : Decide(p, Decision("RECOVER", x))
  /\ UNCHANGED <<state, call, overtaken, races, results, records, run, worldVars, enabled>>

\* EEF's schedule loads again.  It asks as the orchestrator, which is no member
\* of the mission: a milestone that has to advance stops it, as does a repository
\* that has diverged.
TickSchedule(p) ==
  /\ Ticking(p, "schedule")
  /\ IF /\ tick[p].active # None /\ ~diverged
        /\ Scheduled(state, tick[p].active) = "RESUME_PLAN"
     THEN Decide(p, Decision("DISPATCH", Resume(state).next))
     ELSE Decide(p, tick[p].decision)

-----------------------------------------------------------------------------
(* Carrying it out.                                                        *)

\* The precondition of the engine's call, in the state as it is by then.
Applies(decision) ==
  LET target == decision.target
  IN  CASE decision.kind = "DISPATCH" -> state.asg[target] = "READY"
        [] decision.kind = "VALIDATE" -> state.gate[target] = "PENDING"
        [] decision.kind = "COMPLETE_MISSION" ->
             state.mission[target] = "ACTIVE" /\ AllCompleted(state, target)
        [] decision.kind = "RECOVER" ->
             Trigger(target) /\ FreeSpares(target) # {} /\ Len(records) < MaxRecoveries
        [] OTHER -> FALSE

Carry(p, decision) ==
  LET target == decision.target
  IN  CASE decision.kind = "DISPATCH" -> CheckDispatch(p, target) /\ UNCHANGED recoveryVars
        [] decision.kind = "VALIDATE" -> CheckStartGate(p, target) /\ UNCHANGED recoveryVars
        [] decision.kind = "COMPLETE_MISSION" -> CheckFinish(p, target) /\ UNCHANGED recoveryVars
        [] decision.kind = "RECOVER" -> StartRecovery(p, target)

TickExecute(p) ==
  /\ Ticking(p, "execute")
  /\ Applies(tick[p].decision) /\ Carry(p, tick[p].decision)
  /\ tick' = [tick EXCEPT ![p].step = "run"]
  /\ UNCHANGED <<enabled, results, worldVars>>

\* The decision needs nothing done, it was refused where the engine checked, or
\* its call is over: the cycle is recorded.
TickEnd(p) ==
  /\ Idle(p) /\ ~Running(p)
  /\ \/ tick[p].step \in {"run", "end"}
     \/ Ticking(p, "execute") /\ ~Applies(tick[p].decision)
  /\ tick' = [tick EXCEPT ![p] = NoTick]

\* enable and disable update with the revision that they loaded.
SetEnabled(p) ==
  /\ Idle(p)
  /\ Update(p, state, NoCall)
  /\ enabled' = ~enabled

-----------------------------------------------------------------------------
(* Everybody.                                                              *)

\* The second halves of the calls; an agent's failure is no part of a recovery.
\* A call that was overtaken may end in a conflict instead.
EngineCommit(p) ==
  \/ ExecutionCommit(p) /\ UNCHANGED <<recoveryVars, worldVars>>
  \/ GatesCommit(p) /\ UNCHANGED <<results, recoveryVars>>
  \/ RecoveryStep(p) /\ UNCHANGED <<results, worldVars>>
  \/ ~Running(p) /\ AgentFail(p) /\ UNCHANGED <<results, recoveryVars, worldVars>>
Engine(p) ==
  /\ \/ EngineCommit(p)
     \/ p \in overtaken /\ ~Running(p) /\ Abandon(p)
          /\ UNCHANGED <<results, recoveryVars, worldVars>>
  /\ UNCHANGED <<enabled, tick>>

\* An operator binds and starts the mission, advances the milestone as one of its
\* members, and handles risks; agents complete their work and give verdicts.
\* Nobody touches the evidence here: that is in Gates.
Work(p) ==
  /\ \/ /\ \/ \E m \in Missions : Bind(p, m) \/ CheckStart(p, m) \/ CheckAdvance(p, m)
           \/ \E a \in Assignments : CheckComplete(p, a)
           \/ Validate(p)
           \/ \E r \in Risks : CheckOpen(p, r) \/ CheckResolve(p, r)
        /\ UNCHANGED worldVars
     \/ Reconcile(p)
  /\ UNCHANGED <<results, recoveryVars, enabled, tick>>

\* What may go wrong, which MaxCommands bounds: work or an agent fails, somebody
\* turns the scheduler off or on or changes the repository, a call is refused, a
\* scheduler dies in the middle of a tick.
Mishap(p) ==
  \/ /\ (\E a \in Assignments : CheckFail(p, a)) \/ (\E x \in Agents : CheckAgentFail(p, x))
     /\ UNCHANGED <<worldVars, enabled>>
  \/ SetEnabled(p) /\ UNCHANGED worldVars
  \/ Diverge /\ UNCHANGED enabled
TickCrash(p) ==
  /\ tick[p] # NoTick /\ tick' = [tick EXCEPT ![p] = NoTick]
  /\ call' = [call EXCEPT ![p] = NoCall] /\ overtaken' = overtaken \ {p}
  /\ run' = [run EXCEPT ![p] = NoRun]
  /\ UNCHANGED <<state, races, worldVars, enabled>>
Disturb(p) ==
  /\ commands < MaxCommands /\ commands' = commands + 1
  /\ \/ ~Running(p) /\ Abandon(p) /\ UNCHANGED <<worldVars, enabled, run, tick>>
     \/ p \notin Schedulers /\ Mishap(p) /\ UNCHANGED <<run, tick>>
     \/ p \in Schedulers /\ TickCrash(p)
  /\ UNCHANGED <<results, records>>

Tick(p) ==
  \/ (TickLoad(p) \/ TickHold(p) \/ TickSchedule(p) \/ TickEnd(p))
       /\ UNCHANGED <<state, call, overtaken, races, results, recoveryVars, worldVars, enabled>>
  \/ TickStalled(p) \/ TickExecute(p)

SchedulerInit ==
  /\ ExecutionInit /\ AgentsInit /\ GatesInit
  /\ enabled = TRUE /\ tick = [p \in Procs |-> NoTick] /\ late = 0

Late == late' = IF ~Hold(state') THEN 0
                ELSE IF \E p \in Schedulers : Ticking(p, "run") /\ ~Ticking(p, "run")'
                     THEN late + 1 ELSE late

SchedulerNext ==
  /\ \/ \E p \in Schedulers : Tick(p)
     \/ \E p \in Procs \ Schedulers : Work(p)
     \/ \E p \in Procs : Engine(p) \/ Disturb(p)
  /\ Late

\* The scheduler is called again and again and every call comes to its end; agents
\* complete their work, and a member asks EEF for the next work, which advances the
\* milestone.
Fairness ==
  /\ \A p \in Procs : WF_schedulerVars(Engine(p) /\ Late)
  /\ \A p \in Schedulers : WF_schedulerVars(Tick(p) /\ Late)
  /\ \A p \in Procs \ Schedulers :
       WF_schedulerVars(Work(p) /\ call'[p].op \in {"complete", "advance"} /\ Late)

SchedulerSpec == SchedulerInit /\ [][SchedulerNext]_schedulerVars /\ Fairness

-----------------------------------------------------------------------------
(* Properties.                                                             *)

\* After a risk starts to hold the scheduler it carries out at most the decision
\* that it had made: nothing checks the hold again, but the next tick does.
HoldStops == late <= Cardinality(Schedulers)

\* The scheduler starts a gate only when all of the work is done, although it
\* looks at the work in an earlier load than the engine does at the gate.
GateAfterWork ==
  [][races' = 0 => \A p \in Schedulers, g \in Gates :
       call[p] # call'[p] /\ state.gate[g] = "PENDING" /\ state'.gate[g] = "RUNNING"
         => AllCompleted(state, GateMission[g])]_schedulerVars

\* What keeps a mission from its end, crashes and refused calls not included.
Trouble ==
  \/ \E r \in Risks : state.risk[r] # "none"
  \/ \E a \in Assignments : state.asg[a] = "FAILED"
  \/ \E x \in Members(state.active) : state.agent[x] # "READY"
  \/ diverged \/ ~enabled \/ state.active \notin state.kept

\* A started mission gets to validation by itself unless something keeps it, and
\* also if a scheduler dies in the middle of a tick or a call is refused.
MissionProceeds == \A m \in Missions :
  state.mission[m] = "ACTIVE" ~> state.mission[m] = "VALIDATING" \/ Trouble
=============================================================================

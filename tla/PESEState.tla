------------------------------ MODULE PESEState ------------------------------
(***************************************************************************)
(* The content of a PESE revision, and what PESEStore itself does with it  *)
(* (src/asc_orchestrator/pese.py): the checks that update makes of a new   *)
(* state, the milestone it computes and the plan that resume returns.      *)
(* bind_manifest_to_pese (tbe.py) creates a mission in it.                 *)
(*                                                                         *)
(* Every engine works in the same way.  A call loads the state, checks its *)
(* precondition and plans a mutation; it then loads again and updates with *)
(* the revision of that SECOND load.  So a call is two steps, and what it  *)
(* planned is applied to whatever the state has become in between.         *)
(***************************************************************************)
EXTENDS Naturals, FiniteSets, FiniteSetsExt

CONSTANTS
  Procs,          \* processes (or threads) that make engine calls
  Missions, Assignments, Agents, Gates, Risks,
  Orchestrator,   \* AGENT:orchestrator:local
  None,
  MissionOf,      \* MissionOf[a], OwnerOf[a], DependsOn[a], PhaseOf[a]:
  OwnerOf,        \*   the rows of assignment a that nobody ever changes
  DependsOn,
  PhaseOf,
  GateMission,    \* the same for gates; GatePhase[g] = 0 if the gate belongs
  GatePhase,      \*   to no milestone
  Validator,
  Severity,       \* risks: severity, declared block condition, owner
  BlockDeclared,
  RiskOwner,
  MaxRaces        \* a bound on updates from overtaken calls

\* Assignment identifiers are numbers: resume takes the least of its candidates.
ASSUME IdsAssumption ==
  /\ MaxRaces \in Nat
  /\ Assignments \subseteq Nat
  /\ Orchestrator \notin Agents /\ None \notin Agents /\ None \notin Missions
  /\ None \notin Assignments
ASSUME RowsAssumption ==
  /\ MissionOf \in [Assignments -> Missions] /\ OwnerOf \in [Assignments -> Agents]
  /\ DependsOn \in [Assignments -> SUBSET Assignments]
  /\ \A a \in Assignments : \A d \in DependsOn[a] : MissionOf[d] = MissionOf[a]
  /\ PhaseOf \in [Assignments -> Nat \ {0}]
  /\ GateMission \in [Gates -> Missions] /\ GatePhase \in [Gates -> Nat]
  /\ Validator \in [Gates -> Agents]
ASSUME RisksAssumption ==
  /\ Severity \in [Risks -> {"LOW", "MEDIUM", "HIGH", "CRITICAL"}]
  /\ BlockDeclared \subseteq Risks
  /\ RiskOwner \in [Risks -> Agents \cup {Orchestrator}]

VARIABLES
  state,      \* the content of the highest revision
  call,       \* the engine call of each process that has checked its precondition
  overtaken,  \* processes whose call was checked before a later update
  races       \* how many updates were made from an overtaken call

coreVars == <<state, call, overtaken, races>>

Actors == Agents \cup {Orchestrator}

MissionStatuses == {"none", "PLANNED", "ACTIVE", "INTERRUPTED", "VALIDATING",
                    "CANCELLED", "COMPLETED", "FAILED", "BLOCKED", "ARCHIVED"}
SessionStatuses == {"CREATED", "RUNNING", "PAUSED", "CANCELLED", "COMPLETED"}
AssignmentStatuses == {"none", "PENDING", "READY", "IN_PROGRESS", "BLOCKED",
                       "INTERRUPTED", "COMPLETED", "CANCELLED", "FAILED"}
AgentStatuses == {"none", "INITIALIZING", "REGISTERED", "READY", "BUSY", "BLOCKED",
                  "FAILED", "QUARANTINED", "REPLACED", "RELEASED"}
GateStatuses == {"none", "PENDING", "RUNNING", "GREEN", "RED", "BLOCKED", "INVALIDATED"}
RiskStatuses == {"none", "OPEN", "MITIGATING", "ACCEPTED", "RESOLVED", "HALT"}
DepStatuses  == {"VERIFIED", "MISSING", "MISMATCH", "UNKNOWN"}

States ==
  [mission : [Missions -> MissionStatuses], session : [Missions -> SessionStatuses],
   active : Missions \cup {None}, milestone : (Missions \cup {None}) \X Nat,
   asg : [Assignments -> AssignmentStatuses], resumed : SUBSET Missions,
   agent : [Agents -> AgentStatuses], work : [Agents -> Assignments \cup {None}],
   dep : [Agents -> DepStatuses], gate : [Gates -> GateStatuses],
   bound : SUBSET Gates, risk : [Risks -> RiskStatuses],
   kept : SUBSET Missions]   \* missions with a checkpoint, which is a file of its own

MissionAssignments(m) == {a \in Assignments : MissionOf[a] = m}
MissionGates(m)       == {g \in Gates : GateMission[g] = m}
Members(m) == {OwnerOf[a] : a \in MissionAssignments(m)}
                \cup {Validator[g] : g \in MissionGates(m)}
Roots(m)   == {a \in MissionAssignments(m) : DependsOn[a] = {}}
Phases(m)  == {PhaseOf[a] : a \in MissionAssignments(m)}

\* Default state of initialize: no mission, no agent.
EmptyState ==
  [mission |-> [m \in Missions |-> "none"], session |-> [m \in Missions |-> "CREATED"],
   active |-> None, milestone |-> <<None, 0>>,
   asg |-> [a \in Assignments |-> "none"], resumed |-> {},
   agent |-> [x \in Agents |-> "none"], work |-> [x \in Agents |-> None],
   dep |-> [x \in Agents |-> "UNKNOWN"], gate |-> [g \in Gates |-> "none"],
   bound |-> {}, risk |-> [r \in Risks |-> "none"], kept |-> {}]

-----------------------------------------------------------------------------
(* Reading a state.                                                        *)

DepsCompleted(s, a) == \A d \in DependsOn[a] : s.asg[d] = "COMPLETED"
AllCompleted(s, m)  == \A a \in MissionAssignments(m) : s.asg[a] = "COMPLETED"

\* _computed_milestone: the first phase that is not finished, gates included.
Unfinished(s, m, p) ==
  \/ \E a \in MissionAssignments(m) : PhaseOf[a] = p /\ s.asg[a] # "COMPLETED"
  \/ \E g \in MissionGates(m) : GatePhase[g] = p /\ s.gate[g] # "GREEN"
ComputedMilestone(s, m) ==
  LET open == {p \in Phases(m) : Unfinished(s, m, p)}
  IN  IF open = {} THEN <<None, 0>> ELSE <<m, Min(open)>>

\* resume refuses to plan while one of these stands; unlike RKM it does not
\* care for a mission, an acceptance or a declared block condition.
ResumeHold(s) ==
  \E r \in Risks : \/ s.risk[r] = "HALT"
                   \/ Severity[r] = "CRITICAL" /\ s.risk[r] \notin {"none", "RESOLVED"}

Startable(s, a) ==
  /\ MissionOf[a] = s.active /\ s.asg[a] = "READY" /\ DepsCompleted(s, a)
  /\ <<s.active, PhaseOf[a]>> = s.milestone
  /\ s.agent[OwnerOf[a]] = "READY" /\ s.dep[OwnerOf[a]] = "VERIFIED"
  /\ ~ResumeHold(s)

\* Assignments under way whose agent has failed.
Orphans(s) == {a \in Assignments : s.asg[a] = "IN_PROGRESS"
                                     /\ s.agent[OwnerOf[a]] \in {"FAILED", "QUARANTINED"}}

\* PESEStore.resume
Resume(s) ==
  CASE s.active = None -> [code |-> "NO_WORK", next |-> None]
    [] s.active # None /\ s.mission[s.active] \notin
         {"PLANNED", "ACTIVE", "BLOCKED", "INTERRUPTED", "VALIDATING"} ->
         [code |-> "SAFETY_HALT", next |-> None]
    [] OTHER ->
         LET ready == {a \in Assignments : Startable(s, a)}
         IN  CASE ComputedMilestone(s, s.active) # s.milestone ->
                    [code |-> "MILESTONE_MISMATCH", next |-> None]
               [] ComputedMilestone(s, s.active) = s.milestone /\ Orphans(s) # {} ->
                    [code |-> "RECOVERY_REQUIRED", next |-> None]
               [] OTHER ->
                    CASE ready = {} -> [code |-> "NO_WORK", next |-> None]
                      [] ready # {} /\ s.active \notin s.kept ->
                           [code |-> "MISSING_CHECKPOINT", next |-> None]
                      [] OTHER -> [code |-> "RESUME_PLAN", next |-> Min(ready)]

-----------------------------------------------------------------------------
(* What update checks of a mutation.                                       *)

LegalMission ==
  [PLANNED |-> {"ACTIVE"},
   ACTIVE |-> {"VALIDATING", "BLOCKED", "INTERRUPTED", "FAILED", "CANCELLED"},
   VALIDATING |-> {"COMPLETED", "BLOCKED", "INTERRUPTED", "FAILED", "CANCELLED"},
   COMPLETED |-> {"ARCHIVED"}]
LegalAssignment ==
  [PENDING |-> {"READY"},
   READY |-> {"IN_PROGRESS", "BLOCKED", "INTERRUPTED", "FAILED", "CANCELLED"},
   IN_PROGRESS |-> {"COMPLETED", "BLOCKED", "INTERRUPTED", "FAILED", "CANCELLED"},
   BLOCKED |-> {"READY"},
   INTERRUPTED |-> {"READY"}]
LegalGate ==
  [PENDING |-> {"RUNNING"},
   RUNNING |-> {"GREEN", "RED", "BLOCKED", "PENDING"},
   GREEN |-> {"INVALIDATED"}]

\* _validate_transition looks up the pair that the CALLER names, not the
\* status that the loaded state has.
Legal(kind, from, to) ==
  LET table == CASE kind = "MISSION_STATUS" -> LegalMission
                 [] kind = "ASSIGNMENT_STATUS" -> LegalAssignment
                 [] OTHER -> LegalGate
  IN  kind \in {"MISSION_STATUS", "ASSIGNMENT_STATUS", "VALIDATION_GATE"}
        => from \in DOMAIN table /\ to \in table[from]

\* Who may make a transition depends on rows that never change, so an engine
\* action demands it before the call; in the code it is update that refuses.
\* Kinds that are not listed need the orchestrator.
Authorized(kind, actor, subject) ==
  CASE kind = "ASSIGNMENT_STATUS" -> actor = OwnerOf[subject]
    [] kind \in {"MISSION_STATUS", "MILESTONE_STATUS"} -> actor \in Members(subject)
    [] kind = "MISSION_INTERRUPT_RECOVERY" -> actor \in Members(subject) \cup {Orchestrator}
    [] kind = "VALIDATION_GATE" -> actor = Validator[subject]
    [] kind = "AGENT_STATUS" -> actor \in {subject, Orchestrator}
    [] kind = "RISK_STATUS" -> actor \in {RiskOwner[subject], Orchestrator}
    [] OTHER -> actor = Orchestrator

ActiveStatuses == {"ACTIVE", "INTERRUPTED", "VALIDATING"}

\* _validate_state_shape: what it says of relations between rows.
OneMission(s) == \A m, n \in Missions :
  s.mission[m] \in ActiveStatuses /\ s.mission[n] \in ActiveStatuses => m = n
WorkersVerified(s) == \A a \in Assignments :
  s.asg[a] \in {"READY", "IN_PROGRESS"} => s.dep[OwnerOf[a]] = "VERIFIED"
GreenIsBound(s) == \A g \in Gates : s.gate[g] = "GREEN" => g \in s.bound
ShapeOK(s) == OneMission(s) /\ WorkersVerified(s) /\ GreenIsBound(s)

-----------------------------------------------------------------------------
(* Calls.                                                                  *)

Call(op, subject, from, rows) ==
  [op |-> op, subject |-> subject, from |-> from, rows |-> rows]
NoCall == Call("none", None, "none", {})
Idle(p) == call[p] = NoCall
Doing(p, op) == call[p].op = op

\* The first half: the precondition has held in the loaded state.
Plan(p, plan) ==
  /\ Idle(p)
  /\ call' = [call EXCEPT ![p] = plan]
  /\ UNCHANGED <<state, overtaken, races>>

\* The second half, update: the mutated state becomes the next revision.  Unless
\* it leaves these rows as they are (a recovery record, a cycle of the scheduler),
\* every other call under way has now seen older ones.
Update(p, new, next) ==
  /\ ShapeOK(new)
  /\ state' = new
  /\ call' = [call EXCEPT ![p] = next]
  /\ overtaken' = IF new = state THEN overtaken \ {p} ELSE {q \in Procs : q # p /\ ~Idle(q)}
  /\ p \in overtaken => races < MaxRaces
  /\ races' = IF p \in overtaken THEN races + 1 ELSE races

\* MANDATORY_CHECKPOINTS, and the mission that gets the checkpoint.
Mandatory(kind, to) ==
  \/ kind = "MISSION_STATUS" /\ to \in {"ACTIVE", "COMPLETED", "CANCELLED", "FAILED"}
  \/ kind = "VALIDATION_GATE" /\ to \in {"GREEN", "RED", "BLOCKED", "PENDING"}
  \/ kind = "AGENT_STATUS" /\ to \in {"FAILED", "QUARANTINED"}
  \/ kind = "RECOVERY_STATUS" /\ to = "FAILED"
  \/ kind = "REPOSITORY_RECONCILIATION"
Concerned(s, subject) ==
  CASE subject \in Missions    -> subject
    [] subject \in Assignments -> MissionOf[subject]
    [] OTHER                   -> s.active

\* The checkpoint is written after the revision, so a process that dies in between
\* leaves it out.  That is followed up only where it can be the first of a mission
\* under way, when the mission starts.
Checkpointed(kind, to, subject, new) ==
  LET with == [new EXCEPT !.kept = @ \cup ({Concerned(new, subject)} \cap Missions)]
  IN  IF ~Mandatory(kind, to) THEN {new}
      ELSE IF kind = "MISSION_STATUS" THEN {new, with} ELSE {with}

\* The update of a transition, from the status that the call has seen.
Commit(p, kind, to, new, next) ==
  /\ Legal(kind, call[p].from, to)
  /\ \E published \in Checkpointed(kind, to, call[p].subject, new) : Update(p, published, next)

\* A call about it ends, and some update came after its check.
EndsOvertaken(it) ==
  \E p \in overtaken : call'[p] # call[p] /\ (call[p].subject = it \/ it \in call[p].rows)

\* The call ends without effect: a conflict with an update between its two
\* last steps, a busy writer lock, a refused transition, or a process that dies.
Abandon(p) ==
  /\ ~Idle(p)
  /\ call' = [call EXCEPT ![p] = NoCall]
  /\ overtaken' = overtaken \ {p}
  /\ UNCHANGED <<state, races>>

\* bind_manifest_to_pese: the mission of a validated team manifest enters the
\* state and becomes the active one, whatever mission was.  It updates with the
\* revision it checked, so it is one step.
Bound(s, m, verified) ==
  [s EXCEPT !.mission[m] = "PLANNED", !.active = m,
            !.milestone = IF Phases(m) = {} THEN <<None, 0>> ELSE <<m, Min(Phases(m))>>,
            !.asg = [a \in Assignments |-> IF MissionOf[a] = m THEN "PENDING" ELSE s.asg[a]],
            !.agent = [x \in Agents |-> IF x \in Members(m) THEN "READY" ELSE s.agent[x]],
            !.work = [x \in Agents |->
               LET own == {a \in MissionAssignments(m) : OwnerOf[a] = x}
               IN  IF x \notin Members(m) THEN s.work[x]
                   ELSE IF own = {} THEN None ELSE Min(own)],
            !.dep = [x \in Agents |->
               IF x \notin Members(m) THEN s.dep[x]
               ELSE IF verified THEN "VERIFIED" ELSE "UNKNOWN"],
            !.gate = [g \in Gates |-> IF GateMission[g] = m THEN "PENDING" ELSE s.gate[g]]]
Bind(p, m) ==
  /\ Idle(p)
  /\ state.mission[m] = "none"
  /\ \E verified \in BOOLEAN : Update(p, Bound(state, m, verified), NoCall)

InitState ==
  /\ state = EmptyState
  /\ call = [p \in Procs |-> NoCall]
  /\ overtaken = {} /\ races = 0
=============================================================================

--------------------------- MODULE Scheduler_proofs ---------------------------
(***************************************************************************)
(* Theorems about the agents and their recovery (Agents), for any agents,  *)
(* missions, processes and number of recoveries; and about the scheduler   *)
(* that composes them with the other engines, for any number of            *)
(* schedulers: how long it goes on under a hold, and when it starts gates. *)
(***************************************************************************)
EXTENDS Scheduler, FiniteSetTheorems, SequenceTheorems, WellFoundedInduction, TLAPS

\* The least element of a set of numbers is one of it.
LEMMA LeastIsMember == ASSUME NEW S \in SUBSET Nat, S # {} PROVE Min(S) \in S
<1>1. PICK x \in S : \A y \in S : ~(<<y, x>> \in OpToRel(<, Nat))
  BY NatLessThanWellFounded, WFMin
<1>2. \A y \in S : x =< y
  <2>. SUFFICES ASSUME NEW y \in S, y < x PROVE FALSE
    OBVIOUS
  <2>1. <<y, x>> \in OpToRel(<, Nat)
    BY DEF OpToRel
  <2>. QED
    BY <1>1, <2>1
<1>. QED
  BY <1>2 DEF Min

-----------------------------------------------------------------------------
(* The calls under way.                                                    *)

\* The statuses in which an operation may be called, and the one it writes.
AgcFrom ==
  [register |-> {"none"}, activate |-> {"INITIALIZING"}, ready |-> {"REGISTERED"},
   agent_complete |-> {"BUSY"}, agent_block |-> {"READY", "BUSY"}, agent_unblock |-> {"BLOCKED"},
   agent_fail |-> Alive, quarantine |-> Alive \cup {"FAILED"},
   replace |-> {"FAILED", "QUARANTINED"}, release |-> AgentStatuses \ {"none", "RELEASED"},
   claim |-> {"READY"}]
AgcTo ==
  [register |-> "INITIALIZING", activate |-> "REGISTERED", ready |-> "READY",
   agent_complete |-> "READY", agent_block |-> "BLOCKED", agent_unblock |-> "READY",
   agent_fail |-> "FAILED", quarantine |-> "QUARANTINED", replace |-> "REPLACED",
   release |-> "RELEASED", claim |-> "BUSY"]
AgcOps == DOMAIN AgcFrom
RecOps == {"create", "close", "fail_record"}

AgentCalls ==
  [op : AgcOps \cup RecOps \cup {"none", "dependency", "touch"}, subject : Agents \cup {None},
   from : AgentStatuses \cup DepStatuses \cup {"IN_PROGRESS"}, rows : SUBSET Assignments]
Types ==
  /\ state \in States /\ call \in [Procs -> AgentCalls]
  /\ overtaken \subseteq Procs /\ races \in 0..MaxRaces

\* A call is about an agent; a process that no update overtook finds the agent in
\* the status that it has seen.
PlanOK(plan) ==
  /\ plan.op # "none" => plan.subject \in Agents
  /\ plan.op \in AgcOps => plan.from \in AgcFrom[plan.op]
  /\ plan.op = "dependency" => plan.from \in DepStatuses
CallsOK == \A p \in Procs : PlanOK(call[p])
Fresh(p) == call[p].op \in AgcOps => state.agent[call[p].subject] = call[p].from
FreshCalls == \A p \in Procs \ overtaken : Fresh(p)

CallInv == Types /\ CallsOK /\ FreshCalls

\* What a step does to the agents.
Quiet == state'.agent = state.agent /\ state'.mission = state.mission
Binding(m) ==
  /\ state.mission[m] = "none" /\ state'.mission = [state.mission EXCEPT ![m] = "PLANNED"]
  /\ state'.agent = [x \in Agents |-> IF x \in Members(m) THEN "READY" ELSE state.agent[x]]
Serving(p) ==
  /\ call[p].op \in AgcOps /\ call[p].subject \in Agents /\ state'.mission = state.mission
  /\ state'.agent = [state.agent EXCEPT ![call[p].subject] = AgcTo[call[p].op]]
  /\ races' = 0 => p \notin overtaken
Effect(p) == Quiet \/ (\E m \in Missions : Binding(m)) \/ Serving(p)

\* How a step of p leaves the calls: it checks one, it ends its own, or neither.
Checked(p) ==
  /\ state' = state /\ overtaken' = overtaken /\ races' = races /\ Idle(p)
  /\ \E plan \in AgentCalls :
       /\ call' = [call EXCEPT ![p] = plan] /\ PlanOK(plan)
       /\ plan.op \in AgcOps => state.agent[plan.subject] = plan.from
Ended(p) ==
  /\ call' = [call EXCEPT ![p] = NoCall]
  /\ state' = state \/ \A q \in Procs \ {p} : q \in overtaken' \/ Idle(q)
  /\ state' = state => overtaken' = overtaken \ {p}
  /\ races' = 0 => races = 0
Rest == UNCHANGED coreVars
StepOf(p) == Types' /\ Effect(p) /\ (Checked(p) \/ Ended(p) \/ Rest)

LEMMA NoCallIs ==
  /\ NoCall \in AgentCalls /\ NoCall.op = "none" /\ "none" \notin AgcOps \cup RecOps
  /\ AgcOps \cap (RecOps \cup {"dependency", "touch"}) = {}
BY DEF NoCall, Call, AgentCalls, AgentStatuses, AgcOps, AgcFrom, RecOps

LEMMA AgcTable ==
  /\ AgcOps = {"register", "activate", "ready", "agent_complete", "agent_block",
               "agent_unblock", "agent_fail", "quarantine", "replace", "release", "claim"}
  /\ \A op \in AgcOps : AgcTo[op] \in AgentStatuses \ {"none"} /\ AgcFrom[op] \subseteq AgentStatuses
BY DEF AgcOps, AgcFrom, AgcTo, AgentStatuses, Alive

LEMMA BoundEffect ==
  ASSUME NEW s \in States, NEW m \in Missions, NEW v \in BOOLEAN
  PROVE  /\ Bound(s, m, v) \in States
         /\ Bound(s, m, v).mission = [s.mission EXCEPT ![m] = "PLANNED"]
         /\ Bound(s, m, v).agent = [x \in Agents |-> IF x \in Members(m) THEN "READY" ELSE s.agent[x]]
<1>1. Phases(m) # {} => Min(Phases(m)) \in Nat
  BY LeastIsMember, RowsAssumption DEF Phases, MissionAssignments
<1>2. \A own \in SUBSET Assignments : own # {} => Min(own) \in Assignments
  BY LeastIsMember, IdsAssumption
<1>. QED
  BY <1>1, <1>2 DEF Bound, States, MissionStatuses, SessionStatuses, AssignmentStatuses,
                    DepStatuses, AgentStatuses, GateStatuses, MissionAssignments

LEMMA UpdateEnds ==
  ASSUME Types, NEW p \in Procs, NEW new \in States, Update(p, new, NoCall)
  PROVE  Ended(p) /\ state' = new /\ Types' /\ (races' = 0 => p \notin overtaken)
<1>1. state' = new /\ call' = [call EXCEPT ![p] = NoCall] /\ call' \in [Procs -> AgentCalls]
  BY NoCallIs DEF Update, Types
<1>2. races' \in 0..MaxRaces /\ (races' = 0 => races = 0 /\ p \notin overtaken)
  BY IdsAssumption DEF Update, Types
<1>3. overtaken' = IF new = state THEN overtaken \ {p} ELSE {q \in Procs : q # p /\ ~Idle(q)}
  BY DEF Update
<1>4. overtaken' \subseteq Procs
  BY <1>3 DEF Types
<1>5. state' = state => overtaken' = overtaken \ {p}
  BY <1>1, <1>3
<1>6. state' # state => \A q \in Procs \ {p} : q \in overtaken' \/ Idle(q)
  <2>. SUFFICES ASSUME state' # state, NEW q \in Procs \ {p}, ~Idle(q) PROVE q \in overtaken'
    OBVIOUS
  <2>1. overtaken' = {r \in Procs : r # p /\ ~Idle(r)}
    BY <1>1, <1>3
  <2>. QED
    BY <2>1
<1>. QED
  BY <1>1, <1>2, <1>4, <1>5, <1>6 DEF Ended, Types

\* A commit publishes the new state, with or without a checkpoint.
LEMMA KeptCommit ==
  ASSUME NEW p, NEW kind, NEW to, NEW new \in States, NEW next, Commit(p, kind, to, new, next)
  PROVE  \E published \in States :
           /\ Update(p, published, next)
           /\ published.agent = new.agent /\ published.mission = new.mission
<1>1. PICK published \in Checkpointed(kind, to, call[p].subject, new) : Update(p, published, next)
  BY DEF Commit
<1>2. ASSUME NEW set \in SUBSET Missions
      PROVE  LET with == [new EXCEPT !.kept = @ \cup set]
             IN  with \in States /\ with.agent = new.agent /\ with.mission = new.mission
  BY DEF States
<1>3. {Concerned(new, call[p].subject)} \cap Missions \in SUBSET Missions
  OBVIOUS
<1>. QED
  BY <1>1, <1>2, <1>3 DEF Checkpointed

LEMMA AbandonEnds ==
  ASSUME Types, NEW p \in Procs, Abandon(p) PROVE StepOf(p)
<1>1. Types'
  BY NoCallIs DEF Abandon, Types
<1>. QED
  BY <1>1 DEF Abandon, Ended, Quiet, Effect, StepOf

\* A call that has been checked.
LEMMA PlanIs ==
  ASSUME Types, NEW p \in Procs, NEW plan \in AgentCalls, Plan(p, plan), PlanOK(plan),
         plan.op \in AgcOps => state.agent[plan.subject] = plan.from
  PROVE  StepOf(p) /\ call'[p] = plan /\ state' = state
<1>1. Idle(p) /\ call' = [call EXCEPT ![p] = plan] /\ UNCHANGED <<state, overtaken, races>>
  BY DEF Plan
<1>2. Types' /\ Checked(p)
  BY <1>1 DEF Types, Checked
<1>. QED
  BY <1>1, <1>2 DEF StepOf, Effect, Quiet, Types

LEMMA CheckAgentIs ==
  ASSUME Types, NEW p \in Procs, NEW x \in Agents, NEW op \in AgcOps,
         CheckAgent(p, op, x, AgcFrom[op])
  PROVE  /\ StepOf(p) /\ call'[p].op = op /\ call'[p].subject = x /\ state' = state /\ Idle(p)
<1> DEFINE plan == Call(op, x, state.agent[x], {})
<1>1. /\ plan.op = op /\ plan.subject = x /\ plan.from = state.agent[x] /\ plan.rows = {}
      /\ plan.from \in AgcFrom[op]
  BY DEF Call, CheckAgent
<1>2. plan \in AgentCalls
  BY AgcTable DEF AgentCalls, Call, CheckAgent
<1>3. Plan(p, plan)
  BY DEF CheckAgent
<1>4. op # "dependency"
  BY NoCallIs
<1> HIDE DEF plan
<1>5. PlanOK(plan)
  BY <1>1, <1>4 DEF PlanOK
<1>. QED
  BY <1>1, <1>2, <1>3, <1>5, PlanIs DEF Plan

-----------------------------------------------------------------------------
(* The recoveries.                                                         *)

\* The operation that each step calls, and whether it is about the new agent.
OpOf ==
  [create |-> "create", quarantine |-> "quarantine", release |-> "release",
   register |-> "register", activate |-> "activate", dependency |-> "dependency",
   ready |-> "ready", claim |-> "claim", close |-> "close", failed |-> "fail_record"]
Steps == DOMAIN OpOf
OfNew == {"register", "activate", "dependency", "ready", "claim"}

\* What has been done by the time a run gets to a step.
OutSteps  == Steps \ {"create", "quarantine", "failed"}
GoneSteps == OutSteps \ {"release"}
NewSteps  == GoneSteps \ {"register"}

Runs == [step : Steps, id : Nat \ {0}, agent : Agents, new : Agents,
         work : Assignments \cup {None}]
Rows == [agent : Agents, new : Agents, status : {"IN_PROGRESS", "COMPLETED", "FAILED"},
         shared : BOOLEAN, bound : SUBSET Missions]
RunTypes == run \in [Procs -> Runs \cup {NoRun}] /\ records \in Seq(Rows)

\* The call of a process belongs to its run.
Subject(p) == IF run[p].step \in OfNew THEN run[p].new ELSE run[p].agent
Matches(p) ==
  /\ Running(p) /\ ~Idle(p) => call[p].op = OpOf[run[p].step] /\ call[p].subject = Subject(p)
  /\ ~Running(p) => call[p].op \notin RecOps
Numbered(p) == Running(p) =>
  /\ run[p].id <= Len(records) + 1
  /\ run[p].step # "create" => run[p].id <= Len(records)

\* A record that no other recovery took over belongs to one run, until that run
\* ends; no mission was bound when it was written that is not bound now.
Owned(p, i) == Running(p) /\ run[p].step # "create" /\ run[p].id = i
RecordOK(i) ==
  /\ \A p \in Procs : Owned(p, i) =>
       /\ run[p].agent = records[i].agent /\ run[p].new = records[i].new
       /\ records[i].status = "IN_PROGRESS"
  /\ \A p, q \in Procs : Owned(p, i) /\ Owned(q, i) => p = q
RunsOK ==
  /\ \A p \in Procs : Matches(p) /\ Numbered(p)
  /\ \A i \in DOMAIN records :
       records[i].bound \subseteq BoundMissions /\ (~records[i].shared => RecordOK(i))

\* What a record says was done to its agent, unless a manifest has bound it since.
Undisturbed(i) ==
  ~records[i].shared /\ ~\E m \in BoundMissions \ records[i].bound : records[i].agent \in Members(m)
Done(i, steps) ==
  records[i].status = "COMPLETED" \/ \E p \in Procs : Owned(p, i) /\ run[p].step \in steps
OutOf == {"QUARANTINED", "REPLACED", "RELEASED"}
Served == races = 0 => \A i \in DOMAIN records : Undisturbed(i) =>
  /\ Done(i, OutSteps) => state.agent[records[i].agent] \in OutOf
  /\ Done(i, GoneSteps) => state.agent[records[i].agent] = "RELEASED"
  /\ Done(i, NewSteps) => state.agent[records[i].new] # "none"
Once == races = 0 => \A i, j \in DOMAIN records :
  /\ Undisturbed(i) /\ Undisturbed(j) /\ records[i].agent = records[j].agent
  /\ Done(i, OutSteps) /\ Done(j, OutSteps)
  => i = j

Inv == CallInv /\ RunTypes /\ RunsOK /\ Served /\ Once

-----------------------------------------------------------------------------
(* What each step does to the agents and to the calls.                     *)

LEMMA ChecksAre ==
  ASSUME Types, NEW p \in Procs, NEW x \in Agents
  PROVE  /\ \A op \in AgcOps : CheckAgent(p, op, x, AgcFrom[op]) =>
              StepOf(p) /\ call'[p].op = op /\ call'[p].subject = x
         /\ \A a \in Assignments : CheckClaim(p, x, a) =>
              StepOf(p) /\ call'[p].op = "claim" /\ call'[p].subject = x
         /\ \A dep \in DepStatuses : CheckSetDependency(p, x, dep) =>
              StepOf(p) /\ call'[p].op = "dependency" /\ call'[p].subject = x
         /\ CheckTouch(p, x) => StepOf(p) /\ call'[p].op = "touch" /\ call'[p].subject = x
<1>1. ASSUME NEW op \in AgcOps, CheckAgent(p, op, x, AgcFrom[op])
      PROVE  StepOf(p) /\ call'[p].op = op /\ call'[p].subject = x
  BY <1>1, CheckAgentIs
<1>2. ASSUME NEW a \in Assignments, CheckClaim(p, x, a)
      PROVE  StepOf(p) /\ call'[p].op = "claim" /\ call'[p].subject = x
  <2> DEFINE plan == Call("claim", x, "READY", {a})
  <2>1. /\ plan.op = "claim" /\ plan.subject = x /\ plan.from = "READY" /\ plan \in AgentCalls
        /\ "claim" \in AgcOps /\ AgcFrom["claim"] = {"READY"}
    BY AgcTable DEF Call, AgentCalls, AgentStatuses, AgcFrom
  <2>2. Plan(p, plan) /\ state.agent[x] = "READY"
    BY <1>2 DEF CheckClaim
  <2> HIDE DEF plan
  <2>3. PlanOK(plan)
    BY <2>1 DEF PlanOK
  <2>. QED
    BY <2>1, <2>2, <2>3, PlanIs
<1>3. ASSUME NEW dep \in DepStatuses, CheckSetDependency(p, x, dep)
      PROVE  StepOf(p) /\ call'[p].op = "dependency" /\ call'[p].subject = x
  <2> DEFINE plan == Call("dependency", x, dep, {})
  <2>1. plan.op = "dependency" /\ plan.subject = x /\ plan.from = dep /\ plan \in AgentCalls
    BY DEF Call, AgentCalls
  <2>2. Plan(p, plan)
    BY <1>3 DEF CheckSetDependency
  <2> HIDE DEF plan
  <2>3. PlanOK(plan) /\ plan.op \notin AgcOps
    BY <2>1, NoCallIs DEF PlanOK
  <2>. QED
    BY <2>1, <2>2, <2>3, PlanIs
<1>4. ASSUME CheckTouch(p, x)
      PROVE  StepOf(p) /\ call'[p].op = "touch" /\ call'[p].subject = x
  <2> DEFINE plan == Call("touch", x, state.agent[x], {})
  <2>1. plan.op = "touch" /\ plan.subject = x /\ plan \in AgentCalls
    BY DEF Call, AgentCalls, Types, States
  <2>2. Plan(p, plan)
    BY <1>4 DEF CheckTouch
  <2> HIDE DEF plan
  <2>3. PlanOK(plan) /\ plan.op \notin AgcOps
    BY <2>1, NoCallIs DEF PlanOK
  <2>. QED
    BY <2>1, <2>2, <2>3, PlanIs
<1>. QED
  BY <1>1, <1>2, <1>3, <1>4

\* The operations of AGC are checked in the statuses of the table.
LEMMA AgentChecksAre ==
  ASSUME Types, NEW p \in Procs, NEW x \in Agents
  PROVE  /\ CheckRegister(p, x) => CheckAgent(p, "register", x, AgcFrom["register"])
         /\ CheckActivate(p, x) => CheckAgent(p, "activate", x, AgcFrom["activate"])
         /\ CheckReady(p, x) => CheckAgent(p, "ready", x, AgcFrom["ready"])
         /\ CheckAgentComplete(p, x) => CheckAgent(p, "agent_complete", x, AgcFrom["agent_complete"])
         /\ CheckAgentBlock(p, x) => CheckAgent(p, "agent_block", x, AgcFrom["agent_block"])
         /\ CheckAgentUnblock(p, x) => CheckAgent(p, "agent_unblock", x, AgcFrom["agent_unblock"])
         /\ CheckAgentFail(p, x) => CheckAgent(p, "agent_fail", x, AgcFrom["agent_fail"])
         /\ CheckQuarantine(p, x) => CheckAgent(p, "quarantine", x, AgcFrom["quarantine"])
         /\ CheckReplace(p, x) => CheckAgent(p, "replace", x, AgcFrom["replace"])
         /\ CheckRelease(p, x) => CheckAgent(p, "release", x, AgcFrom["release"])
BY DEF AgcFrom, CheckRegister, CheckActivate, CheckReady, CheckAgentComplete, CheckAgentBlock,
       CheckAgentUnblock, CheckAgentFail, CheckQuarantine, CheckReplace, CheckRelease

LEMMA AgentCheckIs ==
  ASSUME Types, NEW p \in Procs, AgentCheck(p)
  PROVE  StepOf(p) /\ call'[p].op \notin RecOps
<1>1. PICK x \in Agents :
       \/ CheckRegister(p, x) \/ CheckActivate(p, x) \/ CheckReady(p, x) \/ CheckAgentComplete(p, x)
       \/ CheckAgentBlock(p, x) \/ CheckAgentUnblock(p, x) \/ CheckAgentFail(p, x) \/ CheckQuarantine(p, x)
       \/ CheckReplace(p, x) \/ CheckRelease(p, x) \/ CheckTouch(p, x)
       \/ \E dep \in Verdicts : CheckSetDependency(p, x, dep)
       \/ \E a \in Assignments : CheckClaim(p, x, a)
  BY DEF AgentCheck
<1>2. /\ AgcOps \cap RecOps = {} /\ "dependency" \notin RecOps /\ "touch" \notin RecOps
      /\ "claim" \notin RecOps /\ Verdicts \subseteq DepStatuses
  BY NoCallIs, SparesAssumption DEF RecOps
<1>3. (\E op \in AgcOps : CheckAgent(p, op, x, AgcFrom[op])) => StepOf(p) /\ call'[p].op \notin RecOps
  BY <1>2, ChecksAre
<1>4. \/ \E op \in AgcOps : CheckAgent(p, op, x, AgcFrom[op])
      \/ CheckTouch(p, x) \/ (\E dep \in Verdicts : CheckSetDependency(p, x, dep))
      \/ \E a \in Assignments : CheckClaim(p, x, a)
  BY <1>1, AgcTable, AgentChecksAre
<1>. QED
  BY <1>2, <1>3, <1>4, ChecksAre

\* A step of a recovery checks the operation that it is named for.
LEMMA StepCheckIs ==
  ASSUME Types, RunTypes, NEW p \in Procs, Running(p), StepCheck(p)
  PROVE  StepOf(p) /\ call'[p].op = OpOf[run[p].step] /\ call'[p].subject = Subject(p)
<1> DEFINE x == run[p].agent  y == run[p].new
<1>1. run[p] \in Runs /\ x \in Agents /\ y \in Agents
  BY DEF RunTypes, Running, Runs
<1> HIDE DEF x, y
<1>2. ASSUME NEW op \in AgcOps, At(p, op), NEW z \in Agents, z = Subject(p), OpOf[op] = op,
             CheckAgent(p, op, z, AgcFrom[op])
      PROVE  StepOf(p) /\ call'[p].op = OpOf[run[p].step] /\ call'[p].subject = Subject(p)
  BY <1>2, ChecksAre DEF At
<1>3. /\ At(p, "quarantine") \/ At(p, "release") => Subject(p) = x
      /\ At(p, "register") \/ At(p, "activate") \/ At(p, "ready") => Subject(p) = y
      /\ At(p, "claim") \/ At(p, "dependency") => Subject(p) = y
      /\ At(p, "close") \/ At(p, "failed") => Subject(p) = x
  BY DEF At, Subject, OfNew, x, y
<1>4. CASE At(p, "quarantine") /\ CheckQuarantine(p, x)
  BY <1>1, <1>2, <1>3, <1>4, AgcTable, AgentChecksAre DEF OpOf
<1>5. CASE At(p, "release") /\ CheckRelease(p, x)
  BY <1>1, <1>2, <1>3, <1>5, AgcTable, AgentChecksAre DEF OpOf
<1>6. CASE At(p, "register") /\ CheckRegister(p, y)
  BY <1>1, <1>2, <1>3, <1>6, AgcTable, AgentChecksAre DEF OpOf
<1>7. CASE At(p, "activate") /\ CheckActivate(p, y)
  BY <1>1, <1>2, <1>3, <1>7, AgcTable, AgentChecksAre DEF OpOf
<1>8. CASE At(p, "ready") /\ CheckReady(p, y)
  BY <1>1, <1>2, <1>3, <1>8, AgcTable, AgentChecksAre DEF OpOf
<1>9. CASE At(p, "dependency") /\ CheckSetDependency(p, y, "VERIFIED")
  BY <1>1, <1>3, <1>9, ChecksAre DEF OpOf, DepStatuses, At
<1>10. CASE At(p, "claim") /\ run[p].work # None /\ CheckClaim(p, y, run[p].work)
  <2>1. run[p].work \in Assignments
    BY <1>1, <1>10 DEF Runs
  <2>. QED
    BY <1>1, <1>3, <1>10, <2>1, ChecksAre DEF OpOf, At
<1>11. ASSUME NEW op \in RecOps, Plan(p, Call(op, x, "IN_PROGRESS", {}))
       PROVE  StepOf(p) /\ call'[p].op = op /\ call'[p].subject = x
  <2> DEFINE plan == Call(op, x, "IN_PROGRESS", {})
  <2>1. plan.op = op /\ plan.subject = x /\ plan \in AgentCalls
    BY <1>1 DEF Call, AgentCalls
  <2>2. Plan(p, plan)
    BY <1>11
  <2> HIDE DEF plan
  <2>3. PlanOK(plan) /\ plan.op \notin AgcOps
    BY <1>1, <2>1, NoCallIs DEF PlanOK, RecOps
  <2>. QED
    BY <2>1, <2>2, <2>3, PlanIs
<1>12. CASE At(p, "close") /\ Plan(p, Call("close", x, "IN_PROGRESS", {}))
  BY <1>3, <1>11, <1>12 DEF RecOps, OpOf, At
<1>13. CASE At(p, "failed") /\ Plan(p, Call("fail_record", x, "IN_PROGRESS", {}))
  BY <1>3, <1>11, <1>13 DEF RecOps, OpOf, At
<1>. QED
  BY <1>4, <1>5, <1>6, <1>7, <1>8, <1>9, <1>10, <1>12, <1>13 DEF StepCheck, x, y

LEMMA SetAgentIs ==
  ASSUME CallInv, NEW p \in Procs, NEW op \in AgcOps, NEW work \in Assignments \cup {None},
         SetAgent(p, op, AgcTo[op], work)
  PROVE  Serving(p) /\ Ended(p) /\ Types'
<1> DEFINE x == call[p].subject
           new == [state EXCEPT !.agent[x] = AgcTo[op], !.work[x] = work]
<1>1. Types /\ state \in States /\ call[p].op = op /\ x \in Agents
  BY NoCallIs DEF CallInv, Types, CallsOK, PlanOK, SetAgent, Doing
<1>2. /\ new \in States /\ new.mission = state.mission
      /\ new.agent = [state.agent EXCEPT ![x] = AgcTo[op]]
  BY <1>1, AgcTable DEF States
<1>3. Commit(p, "AGENT_STATUS", AgcTo[op], new, NoCall)
  BY DEF SetAgent
<1> HIDE DEF new
<1>4. PICK published \in States :
        /\ Update(p, published, NoCall)
        /\ published.agent = new.agent /\ published.mission = new.mission
  BY <1>2, <1>3, KeptCommit
<1>. QED
  BY <1>1, <1>2, <1>4, UpdateEnds DEF Serving

\* The update of a call of AGC, and what it does.
LEMMA AgentCommitIs ==
  ASSUME CallInv, NEW p \in Procs, AgentCommit(p)
  PROVE  /\ Ended(p) /\ Types'
         /\ \/ Serving(p)
            \/ call[p].op \in {"dependency", "touch"} /\ Quiet
<1>1. Types /\ state \in States /\ call[p] \in AgentCalls /\ PlanOK(call[p])
  BY DEF CallInv, Types, CallsOK
<1>2. None \in Assignments \cup {None}
  OBVIOUS
<1>3. call[p].op \in AgcOps => Kept(p) \in Assignments \cup {None}
  BY <1>1, NoCallIs DEF Kept, PlanOK, States
<1>4. ASSUME NEW op \in AgcOps, NEW work, work \in {None, Kept(p)}, SetAgent(p, op, AgcTo[op], work)
      PROVE  Serving(p) /\ Ended(p) /\ Types'
  BY <1>2, <1>3, <1>4, SetAgentIs DEF SetAgent, Doing
<1>5. CASE Register(p)
  <2> DEFINE x == call[p].subject
             new == [state EXCEPT !.agent[x] = "INITIALIZING", !.work[x] = None,
                                  !.dep[x] = "UNKNOWN"]
  <2>1. Update(p, new, NoCall) /\ call[p].op = "register"
    BY <1>5 DEF Register, Doing
  <2>2. x \in Agents /\ AgcTo["register"] = "INITIALIZING"
    BY <1>1, <2>1, NoCallIs DEF PlanOK, AgcTo
  <2>3. /\ new \in States /\ new.mission = state.mission
        /\ new.agent = [state.agent EXCEPT ![x] = "INITIALIZING"]
    BY <1>1, <2>2 DEF States, AgentStatuses, DepStatuses
  <2> HIDE DEF new
  <2>. QED
    BY <1>1, <2>1, <2>2, <2>3, UpdateEnds, AgcTable DEF Serving
<1>6. CASE Claim(p)
  <2>1. PICK a \in call[p].rows : SetAgent(p, "claim", "BUSY", a)
    BY <1>6 DEF Claim
  <2>2. a \in Assignments
    BY <1>1 DEF AgentCalls
  <2>3. "BUSY" = AgcTo["claim"]
    BY DEF AgcTo
  <2>. QED
    BY <2>1, <2>2, <2>3, SetAgentIs, AgcTable
<1>7. CASE SetDependency(p)
  <2> DEFINE x == call[p].subject
             new == [state EXCEPT !.dep[x] = call[p].from]
  <2>1. Update(p, new, NoCall) /\ call[p].op = "dependency"
    BY <1>7 DEF SetDependency, Doing
  <2>2. x \in Agents /\ call[p].from \in DepStatuses
    BY <1>1, <2>1 DEF PlanOK
  <2>3. new \in States /\ new.mission = state.mission /\ new.agent = state.agent
    BY <1>1, <2>2 DEF States
  <2> HIDE DEF new
  <2>. QED
    BY <1>1, <2>1, <2>3, UpdateEnds DEF Quiet
<1>8. CASE Touch(p)
  <2>1. Update(p, state, NoCall) /\ call[p].op = "touch"
    BY <1>8 DEF Touch, Doing
  <2>. QED
    BY <1>1, <2>1, UpdateEnds DEF Quiet
<1>9. CASE Activate(p) \/ Ready(p) \/ AgentComplete(p) \/ AgentBlock(p) \/ AgentUnblock(p)
             \/ AgentFail(p) \/ Quarantine(p) \/ Replace(p) \/ Release(p)
  <2>1. \E op \in AgcOps, work \in {None, Kept(p)} : SetAgent(p, op, AgcTo[op], work)
    BY <1>9, AgcTable DEF AgcTo, Activate, Ready, AgentComplete, AgentBlock, AgentUnblock,
                          AgentFail, Quarantine, Replace, Release
  <2>. QED
    BY <1>4, <2>1
<1>. QED
  BY <1>5, <1>6, <1>7, <1>8, <1>9 DEF AgentCommit

-----------------------------------------------------------------------------
(* What each step does to the runs and the records.                        *)

NextStep ==
  [quarantine |-> "release", release |-> "register", register |-> "activate",
   activate |-> "dependency", dependency |-> "ready", ready |-> "claim", claim |-> "close"]

LEMMA AfterIs ==
  /\ After("create") = "quarantine"
  /\ \A step \in DOMAIN NextStep : After(step) = NextStep[step]
<1>1. \A i, j \in DOMAIN Sequence : Sequence[i] = Sequence[j] => i = j
  BY DEF Sequence
<1>2. ASSUME NEW n \in DOMAIN Sequence, NEW step, Sequence[n] = step
      PROVE  After(step) = Sequence[1 + n]
  <2>1. (CHOOSE i \in DOMAIN Sequence : Sequence[i] = step) = n
    BY <1>1, <1>2
  <2>. QED
    BY <2>1 DEF After
<1>3. /\ DOMAIN Sequence = 1..9
      /\ Sequence[1] = "create" /\ Sequence[2] = "quarantine" /\ Sequence[3] = "release"
      /\ Sequence[4] = "register" /\ Sequence[5] = "activate" /\ Sequence[6] = "dependency"
      /\ Sequence[7] = "ready" /\ Sequence[8] = "claim" /\ Sequence[9] = "close"
  BY DEF Sequence
<1>4. ASSUME NEW n \in 1..8, NEW step, Sequence[n] = step
      PROVE  After(step) = Sequence[1 + n]
  BY <1>2, <1>3, <1>4
<1> HIDE DEF Sequence
<1>5. After("create") = "quarantine" /\ After("quarantine") = "release"
  BY <1>3, <1>4
<1>6. After("release") = "register" /\ After("register") = "activate"
  BY <1>3, <1>4
<1>7. After("activate") = "dependency" /\ After("dependency") = "ready"
  BY <1>3, <1>4
<1>8. After("ready") = "claim" /\ After("claim") = "close"
  BY <1>3, <1>4
<1>. QED
  BY <1>5, <1>6, <1>7, <1>8 DEF NextStep

Still == UNCHANGED <<run, records>>
Begun(p) ==
  /\ ~Running(p) /\ records' = records
  /\ \E new \in Runs :
       new.step = "create" /\ new.id = Len(records) + 1 /\ run' = [run EXCEPT ![p] = new]
Dropped(p) ==
  /\ Running(p) /\ records' = records
  /\ \/ run' = [run EXCEPT ![p] = NoRun]
     \/ run[p].step # "create" /\ GoTo(p, "failed")
Advanced(p) ==
  /\ Running(p) /\ records' = records
  /\ run[p].step \in DOMAIN NextStep /\ GoTo(p, NextStep[run[p].step])
  /\ run[p].step \in {"quarantine", "release", "register"} =>
       call[p].op = run[p].step /\ call[p].subject = Subject(p) /\ Serving(p)
Recorded(p) ==
  /\ Running(p) /\ At(p, "create") /\ state' = state
  /\ PutRecord(p, "IN_PROGRESS") /\ GoTo(p, "quarantine")
Closed(p) ==
  /\ Running(p) /\ run' = [run EXCEPT ![p] = NoRun]
  /\ \/ At(p, "close") /\ SetRecord(p, "COMPLETED")
     \/ At(p, "failed") /\ SetRecord(p, "FAILED")
RunStep(p) ==
  /\ Matches(p)'
  /\ Still \/ Begun(p) \/ Dropped(p) \/ Advanced(p) \/ Recorded(p) \/ Closed(p)

\* A process whose call has ended matches whatever its run is.
LEMMA EndedMatches ==
  ASSUME Types, RunTypes, NEW p \in Procs, Ended(p) PROVE Matches(p)'
<1>1. call'[p] = NoCall
  BY DEF Ended, Types
<1>. QED
  BY <1>1, NoCallIs DEF Matches, Idle, Running

LEMMA RunIs ==
  ASSUME RunTypes, NEW p \in Procs, Running(p)
  PROVE  /\ run[p] \in Runs /\ run[p].step \in Steps /\ run[p].agent \in Agents
         /\ run[p].new \in Agents /\ run[p].id \in Nat \ {0}
BY DEF RunTypes, Running, Runs

LEMMA StartRecoveryIs ==
  ASSUME Inv, NEW p \in Procs, NEW x \in Agents, StartRecovery(p, x)
  PROVE  StepOf(p) /\ RunStep(p)
<1>0. PICK y \in FreeSpares(x) :
        run' = [run EXCEPT ![p] = [step |-> "create", id |-> Len(records) + 1,
                                   agent |-> x, new |-> y, work |-> state.work[x]]]
  BY DEF StartRecovery
<1> DEFINE new == [step |-> "create", id |-> Len(records) + 1, agent |-> x,
                   new |-> y, work |-> state.work[x]]
           plan == Call("create", x, "none", {})
<1>1. Types /\ RunTypes /\ state \in States /\ ~Running(p)
  BY DEF Inv, CallInv, Types, StartRecovery
<1>2. new \in Runs
  <2>1. y \in Agents
    BY SparesAssumption DEF FreeSpares
  <2>2. Len(records) + 1 \in Nat \ {0}
    BY <1>1 DEF RunTypes
  <2>3. state.work[x] \in Assignments \cup {None}
    BY <1>1 DEF States
  <2>. QED
    BY <2>1, <2>2, <2>3 DEF Runs, Steps, OpOf
<1>3. new.step = "create" /\ new.id = Len(records) + 1 /\ new.agent = x
  OBVIOUS
<1>4. run' = [run EXCEPT ![p] = new] /\ Plan(p, plan) /\ records' = records
  BY <1>0 DEF StartRecovery
<1>5. plan.op = "create" /\ plan.subject = x /\ plan \in AgentCalls
  BY DEF Call, AgentCalls, AgentStatuses, RecOps
<1> HIDE DEF plan, new
<1>6. PlanOK(plan) /\ plan.op \notin AgcOps
  BY <1>5, NoCallIs DEF PlanOK, RecOps
<1>7. StepOf(p) /\ call'[p] = plan
  BY <1>1, <1>4, <1>5, <1>6, PlanIs
<1>8. Begun(p)
  BY <1>1, <1>2, <1>3, <1>4 DEF Begun
<1>9. run'[p] = new
  BY <1>1, <1>4 DEF RunTypes
<1>10. Matches(p)'
  BY <1>3, <1>5, <1>7, <1>9 DEF Matches, Subject, OfNew, OpOf, Running, NoRun
<1>. QED
  BY <1>7, <1>8, <1>10 DEF RunStep

LEMMA AgentCallIs ==
  ASSUME Inv, NEW p \in Procs, AgentCall(p) PROVE StepOf(p) /\ RunStep(p)
<1>1. Types /\ RunTypes /\ CallInv /\ state \in States
  BY DEF Inv, CallInv, Types
<1>2. Still /\ ~Running(p) /\ ~Running(p)'
  BY DEF AgentCall, Still, Running
<1>3. CASE AgentCheck(p)
  BY <1>1, <1>2, <1>3, AgentCheckIs DEF RunStep, Matches
<1>4. CASE AgentCommit(p)
  BY <1>1, <1>2, <1>4, AgentCommitIs, EndedMatches DEF RunStep, StepOf, Effect
<1>5. CASE Abandon(p)
  <2>1. StepOf(p)
    BY <1>1, <1>5, AbandonEnds
  <2>2. call'[p] = NoCall
    BY <1>1, <1>5 DEF Abandon, Types
  <2>. QED
    BY <1>2, <2>1, <2>2, NoCallIs DEF RunStep, Matches
<1>6. ASSUME NEW m \in Missions, Bind(p, m) PROVE StepOf(p) /\ RunStep(p)
  <2>1. PICK v \in BOOLEAN : Update(p, Bound(state, m, v), NoCall)
    BY <1>6 DEF Bind
  <2>2. Bound(state, m, v) \in States
    BY <1>1, BoundEffect
  <2>3. Ended(p) /\ state' = Bound(state, m, v) /\ Types'
    BY <1>1, <2>1, <2>2, UpdateEnds
  <2>4. Binding(m)
    BY <1>1, <1>6, <2>3, BoundEffect DEF Binding, Bind
  <2>. QED
    BY <1>1, <1>2, <2>3, <2>4, EndedMatches DEF StepOf, Effect, RunStep
<1>. QED
  BY <1>3, <1>4, <1>5, <1>6 DEF AgentCall

LEMMA RecoveryStepIs ==
  ASSUME Inv, NEW p \in Procs, RecoveryStep(p) \/ Crash(p) PROVE StepOf(p) /\ RunStep(p)
<1>1. Types /\ RunTypes /\ CallInv /\ state \in States /\ Matches(p)
  BY DEF Inv, CallInv, Types, RunsOK
<1>2. ASSUME NEW op \in RecOps, Doing(p, op)
      PROVE  Running(p) /\ OpOf[run[p].step] = op
  BY <1>1, <1>2, NoCallIs DEF Matches, Doing, Idle
<1>3. ASSUME Update(p, state, NoCall) PROVE StepOf(p) /\ Ended(p) /\ state' = state
  BY <1>1, <1>3, UpdateEnds DEF StepOf, Effect, Quiet
<1>0. ASSUME NEW status, Commit(p, "RECOVERY_STATUS", status, state, NoCall)
      PROVE  StepOf(p) /\ Ended(p)
  <2>1. PICK published \in States :
          /\ Update(p, published, NoCall)
          /\ published.agent = state.agent /\ published.mission = state.mission
    BY <1>1, <1>0, KeptCommit
  <2>. QED
    BY <1>1, <2>1, UpdateEnds DEF StepOf, Effect, Quiet
<1>4. CASE CreateRecord(p)
  <2>1. Running(p) /\ OpOf[run[p].step] = "create"
    BY <1>2, <1>4 DEF CreateRecord, RecOps
  <2>2. At(p, "create")
    BY <1>1, <2>1, RunIs DEF At, OpOf, Steps
  <2>3. Recorded(p)
    BY <1>3, <1>4, <2>1, <2>2, AfterIs DEF CreateRecord, Recorded
  <2>. QED
    BY <1>1, <1>3, <1>4, <2>3, EndedMatches DEF RunStep, CreateRecord
<1>5. CASE CloseRecord(p)
  <2>3. StepOf(p) /\ Ended(p)
    BY <1>5, <1>0 DEF CloseRecord
  <2>1. CASE Doing(p, "close") /\ SetRecord(p, "COMPLETED")
    <3>1. Running(p) /\ OpOf[run[p].step] = "close"
      BY <1>2, <2>1 DEF RecOps
    <3>2. At(p, "close")
      BY <1>1, <3>1, RunIs DEF At, OpOf, Steps
    <3>. QED
      BY <1>1, <1>5, <2>1, <2>3, <3>1, <3>2, EndedMatches DEF RunStep, CloseRecord, Closed
  <2>2. CASE Doing(p, "fail_record") /\ SetRecord(p, "FAILED")
    <3>1. Running(p) /\ OpOf[run[p].step] = "fail_record"
      BY <1>2, <2>2 DEF RecOps
    <3>2. At(p, "failed")
      BY <1>1, <3>1, RunIs DEF At, OpOf, Steps
    <3>. QED
      BY <1>1, <1>5, <2>2, <2>3, <3>1, <3>2, EndedMatches DEF RunStep, CloseRecord, Closed
  <2>. QED
    BY <1>5, <2>1, <2>2 DEF CloseRecord
<1>6. CASE RecoveryCheck(p)
  <2>1. StepOf(p) /\ call'[p].op = OpOf[run[p].step] /\ call'[p].subject = Subject(p)
    BY <1>1, <1>6, StepCheckIs DEF RecoveryCheck
  <2>2. Still /\ Running(p)
    BY <1>6 DEF RecoveryCheck, recoveryVars, Still
  <2>. QED
    BY <2>1, <2>2 DEF RunStep, Matches, Still, Subject, Running
<1>7. CASE StepDone(p)
  <2>1. /\ Ended(p) /\ Types'
        /\ Serving(p) \/ (call[p].op \in {"dependency", "touch"} /\ Quiet)
    BY <1>1, <1>7, AgentCommitIs DEF StepDone
  <2>2. Running(p) /\ records' = records /\ GoTo(p, After(run[p].step))
    BY <1>7 DEF StepDone
  <2>3. call[p].op \in AgcOps \cup {"dependency", "touch"}
    BY <2>1 DEF Serving
  <2>4. call[p].op = OpOf[run[p].step] /\ call[p].subject = Subject(p)
    BY <1>1, <2>2, <2>3, NoCallIs DEF Matches, Idle
  <2>5. run[p].step \in DOMAIN NextStep /\ call[p].op = run[p].step
    BY <1>1, <2>2, <2>3, <2>4, RunIs, AgcTable DEF OpOf, Steps, NextStep
  <2>6. Advanced(p)
    BY <2>1, <2>2, <2>4, <2>5, AfterIs DEF Advanced
  <2>. QED
    BY <1>1, <2>1, <2>6, EndedMatches DEF RunStep, StepOf, Effect
<1>8. CASE StepRefused(p) \/ SkipClaim(p)
  <2>1. UNCHANGED coreVars /\ Running(p) /\ Idle(p) /\ records' = records
    BY <1>8 DEF StepRefused, SkipClaim, coreVars
  <2>2. Idle(p)'
    BY <2>1 DEF coreVars, Idle
  <2>3. StepOf(p) /\ Matches(p)'
    BY <1>1, <2>1, <2>2, NoCallIs DEF coreVars, StepOf, Types, Effect, Quiet, Rest, Matches, Idle
  <2>4. CASE StepRefused(p)
    <3>1. run[p].step # "create" /\ GoTo(p, "failed")
      BY <2>4 DEF StepRefused, Refused, At
    <3>. QED
      BY <2>1, <2>3, <3>1 DEF RunStep, Dropped
  <2>5. CASE SkipClaim(p)
    <3>1. run[p].step = "claim" /\ GoTo(p, "close")
      BY <2>5 DEF SkipClaim, At
    <3>. QED
      BY <2>1, <2>3, <3>1 DEF RunStep, Advanced, NextStep
  <2>. QED
    BY <1>8, <2>4, <2>5
<1>9. CASE StepAbandoned(p)
  <2>1. StepOf(p) /\ call'[p] = NoCall
    BY <1>1, <1>9, AbandonEnds DEF StepAbandoned, Abandon, Types
  <2>2. Dropped(p)
    BY <1>9 DEF StepAbandoned, Dropped, At
  <2>. QED
    BY <2>1, <2>2, NoCallIs DEF RunStep, Matches, Idle
<1>10. CASE Crash(p)
  <2>1. Types' /\ Ended(p) /\ Quiet
    BY <1>1, <1>10, NoCallIs DEF Crash, Types, Ended, Quiet
  <2>2. Dropped(p)
    BY <1>10 DEF Crash, Dropped
  <2>. QED
    BY <1>1, <2>1, <2>2, EndedMatches DEF RunStep, StepOf, Effect
<1>. QED
  BY <1>4, <1>5, <1>6, <1>7, <1>8, <1>9, <1>10 DEF RecoveryStep

LEMMA NextIs ==
  ASSUME Inv, [AgentsNext]_agentsVars
  PROVE  UNCHANGED agentsVars \/ \E p \in Procs : StepOf(p) /\ RunStep(p)
BY AgentCallIs, RecoveryStepIs, StartRecoveryIs DEF AgentsNext

-----------------------------------------------------------------------------
(* The invariant is kept.                                                  *)

LEMMA CallInvStep ==
  ASSUME CallInv, NEW p \in Procs, StepOf(p) PROVE CallInv'
<1>1. Types /\ CallsOK /\ FreshCalls /\ Types' /\ Effect(p)
  BY DEF StepOf, CallInv
<1>2. CASE Checked(p)
  <2>1. PICK plan \in AgentCalls :
          /\ call' = [call EXCEPT ![p] = plan] /\ PlanOK(plan)
          /\ plan.op \in AgcOps => state.agent[plan.subject] = plan.from
    BY <1>2 DEF Checked
  <2>2. state' = state /\ overtaken' = overtaken /\ races' = races
    BY <1>2 DEF Checked
  <2>3. call'[p] = plan /\ \A q \in Procs \ {p} : call'[q] = call[q]
    BY <1>1, <2>1 DEF Types
  <2>4. CallsOK'
    BY <1>1, <2>1, <2>3 DEF CallsOK
  <2>5. FreshCalls'
    BY <1>1, <2>1, <2>2, <2>3 DEF FreshCalls, Fresh
  <2>. QED
    BY <1>1, <2>4, <2>5 DEF CallInv
<1>3. CASE Ended(p)
  <2>1. call'[p] = NoCall /\ \A q \in Procs \ {p} : call'[q] = call[q]
    BY <1>1, <1>3 DEF Ended, Types
  <2>2. CallsOK'
    BY <1>1, <2>1, NoCallIs DEF CallsOK, PlanOK
  <2>3. FreshCalls'
    <3>. SUFFICES ASSUME NEW q \in Procs \ overtaken' PROVE Fresh(q)'
      BY DEF FreshCalls
    <3>1. CASE q = p
      BY <2>1, <3>1, NoCallIs DEF Fresh
    <3>2. CASE q # p /\ state' = state
      BY <1>1, <1>3, <2>1, <3>2 DEF Fresh, FreshCalls, Ended
    <3>3. CASE q # p /\ state' # state
      BY <1>3, <2>1, <3>3, NoCallIs DEF Fresh, Ended, Idle
    <3>. QED
      BY <3>1, <3>2, <3>3
  <2>. QED
    BY <1>1, <2>2, <2>3 DEF CallInv
<1>4. CASE Rest
  BY <1>1, <1>4 DEF Rest, coreVars, CallInv, CallsOK, FreshCalls, Fresh
<1>. QED
  BY <1>2, <1>3, <1>4 DEF StepOf

\* Missions stay bound, and so do agents.
LEMMA BoundStays ==
  ASSUME CallInv, NEW p \in Procs, StepOf(p)
  PROVE  /\ BoundMissions \subseteq BoundMissions'
         /\ \A x \in Agents : state.agent[x] # "none" => state'.agent[x] # "none"
<1>1. state \in States /\ state' \in States /\ Effect(p)
  BY DEF StepOf, CallInv, Types
<1>2. CASE Quiet
  BY <1>2 DEF Quiet, BoundMissions
<1>3. ASSUME NEW m \in Missions, Binding(m)
      PROVE  /\ BoundMissions \subseteq BoundMissions'
             /\ \A x \in Agents : state.agent[x] # "none" => state'.agent[x] # "none"
  BY <1>1, <1>3 DEF Binding, BoundMissions, States
<1>4. CASE Serving(p)
  BY <1>1, <1>4, AgcTable DEF Serving, BoundMissions, States
<1>. QED
  BY <1>1, <1>2, <1>3, <1>4 DEF Effect

\* Who is out of service stays so, but for overtaken calls about the agent and manifests
\* that bind it.
LEMMA OutStaysOut ==
  ASSUME CallInv, NEW p \in Procs, StepOf(p), NEW x \in Agents,
         ~(Serving(p) /\ p \in overtaken /\ call[p].subject = x),
         \A m \in Missions : Binding(m) => x \notin Members(m)
  PROVE  /\ state.agent[x] \in OutOf => state'.agent[x] \in OutOf
         /\ state.agent[x] = "RELEASED" => state'.agent[x] = "RELEASED"
<1>1. state \in States /\ state' \in States /\ Effect(p) /\ CallsOK
  BY DEF StepOf, CallInv, Types
<1>2. CASE Quiet
  BY <1>2 DEF Quiet
<1>3. ASSUME NEW m \in Missions, Binding(m) PROVE state'.agent[x] = state.agent[x]
  BY <1>1, <1>3 DEF Binding
<1>4. CASE Serving(p)
  <2>1. CASE x = call[p].subject
    <3>1. p \notin overtaken
      BY <1>4, <2>1
    <3>2. state.agent[x] = call[p].from /\ call[p].from \in AgcFrom[call[p].op]
      BY <1>1, <1>4, <2>1, <3>1 DEF Serving, CallInv, FreshCalls, Fresh, CallsOK, PlanOK
    <3>3. \A op \in AgcOps :
            /\ "RELEASED" \notin AgcFrom[op]
            /\ AgcFrom[op] \cap OutOf # {} => AgcTo[op] \in OutOf
      BY AgcTable DEF AgcFrom, AgcTo, AgentStatuses, Alive, OutOf
    <3>. QED
      BY <1>1, <1>4, <2>1, <3>2, <3>3 DEF Serving, States, OutOf
  <2>2. CASE x # call[p].subject
    BY <1>1, <1>4, <2>2 DEF Serving, States
  <2>. QED
    BY <2>1, <2>2
<1>. QED
  BY <1>1, <1>2, <1>3, <1>4 DEF Effect


\* A new record has the next number, or takes the place of one that is there.
LEMMA PutRecordIs ==
  ASSUME Inv, NEW p \in Procs, Recorded(p)
  PROVE  LET row == [agent |-> run[p].agent, new |-> run[p].new, status |-> "IN_PROGRESS",
                     shared |-> run[p].id <= Len(records), bound |-> BoundMissions]
         IN  /\ row \in Rows
             /\ \/ /\ run[p].id = Len(records) + 1 /\ records' = Append(records, row)
                   /\ ~row.shared
                \/ /\ run[p].id \in 1..Len(records) /\ records' = [records EXCEPT ![run[p].id] = row]
                   /\ row.shared
<1> DEFINE row == [agent |-> run[p].agent, new |-> run[p].new, status |-> "IN_PROGRESS",
                   shared |-> run[p].id <= Len(records), bound |-> BoundMissions]
<1>1. RunTypes /\ Running(p) /\ Numbered(p)
  BY DEF Inv, RunsOK, Recorded
<1>2. run[p].agent \in Agents /\ run[p].new \in Agents /\ run[p].id \in Nat \ {0}
  BY <1>1, RunIs
<1>3. row \in Rows
  BY <1>2 DEF Rows, BoundMissions
<1>4. Len(records) \in Nat /\ run[p].id <= Len(records) + 1
  BY <1>1 DEF RunTypes, Numbered
<1>5. records' = IF run[p].id > Len(records) THEN Append(records, row)
                 ELSE [records EXCEPT ![run[p].id] = row]
  BY DEF Recorded, PutRecord
<1>6. row.shared <=> run[p].id <= Len(records)
  OBVIOUS
<1> HIDE DEF row
<1>7. CASE run[p].id > Len(records)
  <2>1. run[p].id = Len(records) + 1 /\ ~row.shared /\ records' = Append(records, row)
    BY <1>2, <1>4, <1>5, <1>6, <1>7
  <2>. QED
    BY <1>3, <2>1 DEF row
<1>8. CASE ~(run[p].id > Len(records))
  <2>1. run[p].id \in 1..Len(records) /\ row.shared /\ records' = [records EXCEPT ![run[p].id] = row]
    BY <1>2, <1>4, <1>5, <1>6, <1>8
  <2>. QED
    BY <1>3, <2>1 DEF row
<1>. QED
  BY <1>7, <1>8

\* A record that is nobody else's: it was there before and at most its status is set,
\* by the run that it belongs to, or it is new.
OldRow(p, i) ==
  /\ i \in DOMAIN records /\ ~records[i].shared
  /\ records'[i].agent = records[i].agent /\ records'[i].new = records[i].new
  /\ records'[i].bound = records[i].bound
  /\ \/ records'[i].status = records[i].status
     \/ Closed(p) /\ Owned(p, i) /\ (records'[i].status = "COMPLETED" => run[p].step = "close")
NewRow(p, i) ==
  /\ Recorded(p) /\ i = run[p].id /\ i = Len(records) + 1
  /\ records'[i].agent = run[p].agent /\ records'[i].new = run[p].new
  /\ records'[i].bound = BoundMissions /\ records'[i].status = "IN_PROGRESS"

LEMMA RowsAre ==
  ASSUME Inv, NEW p \in Procs, RunStep(p)
  PROVE  /\ RunTypes' /\ Len(records) <= Len(records')
         /\ \A i \in DOMAIN records' :
              /\ ~records'[i].shared => OldRow(p, i) \/ NewRow(p, i)
              /\ \/ i \in DOMAIN records /\ records'[i].bound = records[i].bound
                 \/ records'[i].bound = BoundMissions
<1>1. RunTypes /\ records \in Seq(Rows) /\ run \in [Procs -> Runs \cup {NoRun}]
  BY DEF Inv, RunTypes
<1>2. run' \in [Procs -> Runs \cup {NoRun}]
  <2>1. \A step \in Steps : Running(p) => [run[p] EXCEPT !.step = step] \in Runs
    BY <1>1, RunIs DEF Runs
  <2>2. {"failed", "quarantine"} \subseteq Steps /\ \A s \in DOMAIN NextStep : NextStep[s] \in Steps
    BY DEF Steps, OpOf, NextStep
  <2>3. \A step \in Steps : Running(p) /\ GoTo(p, step) => run' \in [Procs -> Runs \cup {NoRun}]
    BY <1>1, <2>1 DEF GoTo
  <2>. QED
    BY <1>1, <2>2, <2>3 DEF RunStep, Still, Begun, Dropped, Advanced, Recorded, Closed
<1>3. CASE records' = records
  BY <1>1, <1>2, <1>3 DEF RunTypes, OldRow
<1>4. CASE Recorded(p)
  <2> DEFINE row == [agent |-> run[p].agent, new |-> run[p].new, status |-> "IN_PROGRESS",
                     shared |-> run[p].id <= Len(records), bound |-> BoundMissions]
  <2>1. /\ row.agent = run[p].agent /\ row.new = run[p].new /\ row.status = "IN_PROGRESS"
        /\ row.bound = BoundMissions
    OBVIOUS
  <2>2. /\ row \in Rows
        /\ \/ /\ run[p].id = Len(records) + 1 /\ records' = Append(records, row)
              /\ ~row.shared
           \/ /\ run[p].id \in 1..Len(records) /\ records' = [records EXCEPT ![run[p].id] = row]
              /\ row.shared
    BY <1>4, PutRecordIs
  <2> HIDE DEF row
  <2>3. CASE run[p].id = Len(records) + 1 /\ records' = Append(records, row) /\ ~row.shared
    <3>1. records' \in Seq(Rows) /\ Len(records') = Len(records) + 1
      BY <1>1, <2>2, <2>3
    <3>2. /\ records'[Len(records) + 1] = row
          /\ \A i \in 1..Len(records) : records'[i] = records[i]
      BY <1>1, <2>3
    <3>. QED
      BY <1>1, <1>2, <1>4, <2>1, <2>3, <3>1, <3>2 DEF RunTypes, OldRow, NewRow
  <2>4. CASE /\ run[p].id \in 1..Len(records) /\ records' = [records EXCEPT ![run[p].id] = row]
             /\ row.shared
    <3>1. records' \in Seq(Rows) /\ Len(records') = Len(records)
      BY <1>1, <2>2, <2>4
    <3>2. /\ records'[run[p].id] = row
          /\ \A i \in DOMAIN records : i # run[p].id => records'[i] = records[i]
          /\ DOMAIN records' = DOMAIN records
      BY <1>1, <2>4
    <3>. QED
      BY <1>1, <1>2, <2>1, <2>4, <3>1, <3>2 DEF RunTypes, OldRow
  <2>. QED
    BY <2>2, <2>3, <2>4
<1>5. CASE Closed(p)
  <2>1. PICK status \in {"COMPLETED", "FAILED"} :
          /\ records' = [records EXCEPT ![run[p].id].status = status]
          /\ status = "COMPLETED" => run[p].step = "close"
          /\ run[p].step # "create"
    BY <1>5 DEF Closed, SetRecord, At
  <2>2. run[p].id \in DOMAIN records
    <3>1. Running(p) /\ Numbered(p)
      BY <1>5 DEF Closed, Inv, RunsOK
    <3>. QED
      BY <1>1, <2>1, <3>1, RunIs DEF Numbered
  <2>6. records[run[p].id] \in Rows
    BY <1>1, <2>2
  <2>3. [records[run[p].id] EXCEPT !.status = status] \in Rows
    <3> DEFINE r == records[run[p].id]
    <3>1. r \in Rows
      BY <2>6
    <3> HIDE DEF r
    <3>2. [r EXCEPT !.status = status] \in Rows
      BY <3>1 DEF Rows
    <3>. QED
      BY <3>2 DEF r
  <2>4. records' \in Seq(Rows) /\ DOMAIN records' = DOMAIN records /\ Len(records') = Len(records)
    BY <1>1, <2>1, <2>2, <2>3
  <2>5. /\ records'[run[p].id] = [records[run[p].id] EXCEPT !.status = status]
        /\ \A i \in DOMAIN records : i # run[p].id => records'[i] = records[i]
    BY <1>1, <2>1, <2>2
  <2>7. Owned(p, run[p].id)
    BY <1>5, <2>1 DEF Owned, Closed
  <2>8. LET r == records[run[p].id]  new == records'[run[p].id]
        IN  /\ new.agent = r.agent /\ new.new = r.new /\ new.bound = r.bound
            /\ new.shared = r.shared /\ new.status = status
    BY <2>5, <2>6 DEF Rows
  <2>. QED
    BY <1>1, <1>2, <1>5, <2>1, <2>2, <2>4, <2>5, <2>7, <2>8 DEF RunTypes, OldRow
<1>. QED
  BY <1>3, <1>4, <1>5 DEF RunStep, Still, Begun, Dropped, Advanced

\* The runs: only that of p changes, and it owns what it owned or what it creates.
LEMMA OwnersAre ==
  ASSUME Inv, NEW p \in Procs, RunStep(p)
  PROVE  /\ \A q \in Procs \ {p} : run'[q] = run[q]
         /\ \A i : Owned(p, i)' =>
              /\ run'[p].agent = run[p].agent /\ run'[p].new = run[p].new
              /\ \/ Recorded(p) /\ i = run[p].id /\ run'[p].step = "quarantine"
                 \/ /\ Owned(p, i)
                    /\ \/ Still
                       \/ Dropped(p) /\ run'[p].step = "failed"
                       \/ Advanced(p) /\ run'[p].step = NextStep[run[p].step]
<1>1. run \in [Procs -> Runs \cup {NoRun}] /\ RunTypes
  BY DEF Inv, RunTypes
<1>2. ASSUME NEW step, Running(p), GoTo(p, step)
      PROVE  /\ run'[p].step = step /\ run'[p].id = run[p].id
             /\ run'[p].agent = run[p].agent /\ run'[p].new = run[p].new
  <2>1. run[p] \in Runs /\ run'[p] = [run[p] EXCEPT !.step = step]
    BY <1>1, <1>2, RunIs DEF GoTo
  <2>. QED
    BY <2>1 DEF Runs
<1>3. \A q \in Procs \ {p} : run'[q] = run[q]
  BY <1>1 DEF RunStep, Still, Begun, Dropped, Advanced, Recorded, Closed, GoTo
<1>4. CASE Still
  BY <1>4 DEF Still, Owned, Running
<1>5. CASE Begun(p)
  BY <1>1, <1>5 DEF Begun, Owned
<1>6. CASE Dropped(p)
  <2>1. CASE run' = [run EXCEPT ![p] = NoRun]
    BY <1>1, <1>3, <2>1 DEF Owned, Running
  <2>2. CASE run[p].step # "create" /\ GoTo(p, "failed")
    BY <1>2, <1>3, <1>6, <2>2 DEF Owned, Dropped
  <2>. QED
    BY <1>6, <2>1, <2>2 DEF Dropped
<1>7. CASE Advanced(p)
  <2>1. run[p].step # "create"
    BY <1>7 DEF Advanced, NextStep
  <2>. QED
    BY <1>2, <1>3, <1>7, <2>1 DEF Owned, Advanced
<1>8. CASE Recorded(p)
  BY <1>2, <1>3, <1>8 DEF Owned, Recorded
<1>9. CASE Closed(p)
  BY <1>1, <1>9 DEF Owned, Running, Closed
<1>. QED
  BY <1>3, <1>4, <1>5, <1>6, <1>7, <1>8, <1>9 DEF RunStep

LEMMA RunsOKStep ==
  ASSUME Inv, NEW p \in Procs, StepOf(p), RunStep(p) PROVE RunsOK'
<1>1. Types /\ RunTypes /\ RunTypes' /\ RunsOK /\ CallInv /\ BoundMissions \subseteq BoundMissions'
  BY RowsAre, BoundStays DEF Inv, CallInv
<1>2. Len(records) \in Nat /\ Len(records') \in Nat /\ Len(records) <= Len(records')
  BY <1>1, RowsAre DEF RunTypes
<1>3. \A q \in Procs \ {p} : run'[q] = run[q] /\ call'[q] = call[q]
  BY <1>1, OwnersAre DEF StepOf, Checked, Ended, Rest, coreVars, Types
<1>4. ASSUME NEW q \in Procs \ {p} PROVE Matches(q)' /\ Numbered(q)'
  <2>1. Matches(q) /\ Numbered(q) /\ run'[q] = run[q] /\ call'[q] = call[q]
    BY <1>1, <1>3 DEF RunsOK
  <2>2. Running(q) => run[q].id \in Nat
    BY <1>1, RunIs
  <2>3. Numbered(q)'
    BY <1>2, <2>1, <2>2 DEF Numbered, Running
  <2>. QED
    BY <2>1, <2>3 DEF Matches, Running, Idle, Subject
<1>5. Numbered(p)'
  <2>1. ASSUME NEW step, Running(p), GoTo(p, step)
        PROVE  run'[p].step = step /\ run'[p].id = run[p].id
    <3>1. run[p] \in Runs /\ run'[p] = [run[p] EXCEPT !.step = step]
      BY <1>1, <2>1, RunIs DEF GoTo, RunTypes
    <3>. QED
      BY <3>1 DEF Runs
  <2>2. Numbered(p) /\ (Running(p) => run[p].id \in Nat)
    BY <1>1, RunIs DEF RunsOK
  <2>3. CASE Still
    BY <1>2, <2>2, <2>3 DEF Still, Numbered, Running
  <2>4. CASE Begun(p)
    <3>1. run'[p].step = "create" /\ run'[p].id = Len(records) + 1
      BY <1>1, <2>4 DEF Begun, RunTypes
    <3>. QED
      BY <1>2, <3>1 DEF Numbered
  <2>5. CASE run' = [run EXCEPT ![p] = NoRun]
    BY <1>1, <2>5 DEF Numbered, Running, RunTypes
  <2>6. CASE Running(p) /\ records' = records /\ run[p].step # "create" /\ GoTo(p, "failed")
    BY <1>2, <2>1, <2>2, <2>6 DEF Numbered
  <2>7. CASE Advanced(p)
    <3>1. run[p].step # "create" /\ records' = records /\ Running(p)
      BY <2>7 DEF Advanced, NextStep
    <3>. QED
      BY <1>2, <2>1, <2>2, <2>7, <3>1 DEF Advanced, Numbered
  <2>8. CASE Recorded(p)
    <3>1. run[p].id <= Len(records')
      <4>1. \/ run[p].id = Len(records) + 1 /\ \E row : records' = Append(records, row)
            \/ run[p].id \in 1..Len(records)
        BY <2>8, PutRecordIs
      <4>2. \A row : records' = Append(records, row) => Len(records') = Len(records) + 1
        BY <1>1 DEF RunTypes
      <4>. QED
        BY <1>2, <4>1, <4>2
    <3>. QED
      BY <1>2, <2>1, <2>2, <2>8, <3>1 DEF Recorded, Numbered
  <2>. QED
    BY <2>3, <2>4, <2>5, <2>6, <2>7, <2>8 DEF RunStep, Dropped, Closed
<1>6. ASSUME NEW i \in DOMAIN records' PROVE records'[i].bound \subseteq BoundMissions'
  BY <1>1, <1>6, RowsAre DEF RunsOK
<1>7. ASSUME NEW i \in DOMAIN records', ~records'[i].shared PROVE RecordOK(i)'
  <2>1. \A q \in Procs \ {p} : Owned(q, i)' => Owned(q, i)
    BY <1>3 DEF Owned, Running
  <2>2. CASE OldRow(p, i)
    <3>1. i \in DOMAIN records /\ ~records[i].shared /\ RecordOK(i)
      BY <1>1, <2>2 DEF OldRow, RunsOK
    <3>2. ~(Recorded(p) /\ i = run[p].id)
      <4>. SUFFICES ASSUME Recorded(p), i = run[p].id PROVE FALSE
        OBVIOUS
      <4>1. i # Len(records) + 1
        BY <1>1, <1>2, <3>1 DEF RunTypes
      <4>2. PICK row \in Rows : row.shared /\ records' = [records EXCEPT ![i] = row]
        BY <4>1, PutRecordIs
      <4>. QED
        BY <1>7, <3>1, <4>2
    <3>3. Owned(p, i)' => /\ Owned(p, i) /\ ~Closed(p)
                          /\ run'[p].agent = run[p].agent /\ run'[p].new = run[p].new
      <4>1. Closed(p) => ~Running(p)'
        BY <1>1 DEF Closed, Running, RunTypes
      <4>. QED
        BY <3>2, <4>1, OwnersAre DEF Owned
    <3>4. \A q \in Procs \ {p} : Owned(q, i)' => ~Owned(p, i)
      BY <2>1, <3>1 DEF RecordOK
    <3>5. \A q \in Procs : Owned(q, i)' => records'[i].status = "IN_PROGRESS"
      BY <2>1, <2>2, <3>1, <3>3, <3>4 DEF OldRow, RecordOK
    <3>6. \A q \in Procs : Owned(q, i)' =>
            run'[q].agent = records'[i].agent /\ run'[q].new = records'[i].new
      BY <1>3, <2>1, <2>2, <3>1, <3>3 DEF OldRow, RecordOK
    <3>7. \A q, r \in Procs : Owned(q, i)' /\ Owned(r, i)' => q = r
      BY <2>1, <3>1, <3>3 DEF RecordOK
    <3>. QED
      BY <3>5, <3>6, <3>7 DEF RecordOK
  <2>3. CASE NewRow(p, i)
    <3>1. \A q \in Procs : ~Owned(q, i)
      <4>. SUFFICES ASSUME NEW q \in Procs, Owned(q, i) PROVE FALSE
        OBVIOUS
      <4>1. Running(q) /\ run[q].id = i /\ i <= Len(records)
        BY <1>1 DEF Owned, RunsOK, Numbered
      <4>. QED
        BY <1>2, <2>3, <4>1 DEF NewRow
    <3>2. \A q \in Procs : Owned(q, i)' => q = p
      BY <2>1, <3>1
    <3>3. Owned(p, i)' => run'[p].agent = run[p].agent /\ run'[p].new = run[p].new
      BY OwnersAre
    <3>. QED
      BY <2>3, <3>2, <3>3 DEF RecordOK, NewRow
  <2>. QED
    BY <1>7, <2>2, <2>3, RowsAre
<1>. QED
  BY <1>4, <1>5, <1>6, <1>7 DEF RunsOK, RunStep

\* The step of p takes the run that the record belongs to past one of its steps.
Doer(p, i, step) == Owned(p, i) /\ Advanced(p) /\ run[p].step = step

\* What has been done about a record after a step had been done before it, or is what
\* the step did; nothing has been done about a record that is new.
LEMMA DoneIs ==
  ASSUME Inv, NEW p \in Procs, StepOf(p), RunStep(p), NEW i \in DOMAIN records',
         Undisturbed(i)'
  PROVE  \/ /\ OldRow(p, i) /\ Undisturbed(i)
            /\ Done(i, OutSteps)' => Done(i, OutSteps) \/ Doer(p, i, "quarantine")
            /\ Done(i, GoneSteps)' => Done(i, GoneSteps) \/ Doer(p, i, "release")
            /\ Done(i, NewSteps)' => Done(i, NewSteps) \/ Doer(p, i, "register")
         \/ ~Done(i, OutSteps)' /\ ~Done(i, GoneSteps)' /\ ~Done(i, NewSteps)'
<1>1. Types /\ RunTypes /\ RunTypes' /\ RunsOK /\ CallInv /\ BoundMissions \subseteq BoundMissions'
  BY RowsAre, BoundStays DEF Inv, CallInv
<1>2. ~records'[i].shared /\ (OldRow(p, i) \/ NewRow(p, i))
  BY RowsAre DEF Undisturbed
<1>3. \A q \in Procs \ {p} : run'[q] = run[q] /\ (Owned(q, i)' => Owned(q, i))
  BY OwnersAre DEF Owned, Running
<1>4. /\ OutSteps = {"release", "register", "activate", "dependency", "ready", "claim", "close"}
      /\ GoneSteps = OutSteps \ {"release"} /\ NewSteps = GoneSteps \ {"register"}
  BY DEF OutSteps, GoneSteps, NewSteps, Steps, OpOf
<1>5. CASE NewRow(p, i)
  <2>1. \A q \in Procs : ~Owned(q, i)
    <3>. SUFFICES ASSUME NEW q \in Procs, Owned(q, i) PROVE FALSE
      OBVIOUS
    <3>1. Running(q) /\ run[q].id = i /\ i <= Len(records)
      BY <1>1 DEF Owned, RunsOK, Numbered
    <3>. QED
      BY <1>1, <1>5, <3>1 DEF NewRow, RunTypes
  <2>2. \A q \in Procs : Owned(q, i)' => run'[q].step = "quarantine"
    BY <1>3, <2>1, OwnersAre
  <2>. QED
    BY <1>4, <1>5, <2>2 DEF NewRow, Done
<1>6. CASE OldRow(p, i)
  <2>1. Undisturbed(i)
    BY <1>1, <1>6 DEF Undisturbed, OldRow
  <2>2. ~(Recorded(p) /\ i = run[p].id)
    <3>. SUFFICES ASSUME Recorded(p), i = run[p].id PROVE FALSE
      OBVIOUS
    <3>1. i \in DOMAIN records /\ i # Len(records) + 1
      BY <1>1, <1>6 DEF RunTypes, OldRow
    <3>2. PICK row \in Rows : row.shared /\ records' = [records EXCEPT ![i] = row]
      BY <3>1, PutRecordIs
    <3>. QED
      BY <1>2, <3>1, <3>2
  <2>3. ASSUME NEW steps \in {OutSteps, GoneSteps, NewSteps}, Done(i, steps)', ~Done(i, steps)
        PROVE  /\ Owned(p, i) /\ Advanced(p)
               /\ run[p].step \notin steps /\ NextStep[run[p].step] \in steps
    <3>1. records'[i].status # "COMPLETED"
      <4>. SUFFICES ASSUME records'[i].status = "COMPLETED" PROVE FALSE
        OBVIOUS
      <4>1. records[i].status # "COMPLETED"
        BY <2>3 DEF Done
      <4>2. Owned(p, i) /\ run[p].step = "close"
        BY <1>6, <4>1 DEF OldRow
      <4>. QED
        BY <1>4, <2>3, <4>2 DEF Done
    <3>2. PICK q \in Procs : Owned(q, i)' /\ run'[q].step \in steps
      BY <2>3, <3>1 DEF Done
    <3>3. q = p
      BY <1>3, <2>3, <3>2 DEF Done
    <3>4. "failed" \notin steps
      BY <1>4
    <3>5. Owned(p, i) /\ run[p].step \notin steps
      BY <2>2, <2>3, <3>2, <3>3, OwnersAre DEF Done
    <3>6. ~Still
      BY <3>2, <3>3, <3>5 DEF Still
    <3>. QED
      BY <2>2, <3>2, <3>3, <3>4, <3>5, <3>6, OwnersAre
  <2>4. \A s \in DOMAIN NextStep :
          /\ s \notin OutSteps /\ NextStep[s] \in OutSteps => s = "quarantine"
          /\ s \notin GoneSteps /\ NextStep[s] \in GoneSteps => s = "release"
          /\ s \notin NewSteps /\ NextStep[s] \in NewSteps => s = "register"
    BY <1>4 DEF NextStep
  <2>5. Advanced(p) => run[p].step \in DOMAIN NextStep
    BY DEF Advanced
  <2>. QED
    BY <1>6, <2>1, <2>3, <2>4, <2>5 DEF Doer
<1>. QED
  BY <1>2, <1>5, <1>6

\* What a step of a run does to the agent of its record.
LEMMA DoerIs ==
  ASSUME Inv, NEW p \in Procs, StepOf(p), races' = 0, NEW i \in DOMAIN records,
         ~records[i].shared, NEW step \in {"quarantine", "release", "register"}, Doer(p, i, step)
  PROVE  /\ step \in {"quarantine", "release"} =>
              /\ state.agent[records[i].agent] \in AgcFrom[step]
              /\ state'.agent[records[i].agent] = AgcTo[step]
         /\ step = "register" => state'.agent[records[i].new] # "none"
<1>1. Types /\ RunTypes /\ RunsOK /\ CallInv /\ state \in States /\ CallsOK /\ FreshCalls
  BY DEF Inv, CallInv, Types
<1>2. Owned(p, i) /\ Advanced(p) /\ run[p].step = step /\ Running(p)
  BY DEF Doer, Owned
<1>3. run[p].agent = records[i].agent /\ run[p].new = records[i].new
  BY <1>1, <1>2 DEF RunsOK, RecordOK
<1>4. call[p].op = step /\ call[p].subject = Subject(p) /\ Serving(p)
  BY <1>2 DEF Advanced
<1>5. races = 0 /\ p \notin overtaken
  BY <1>4 DEF Serving, StepOf, Checked, Ended, Rest, coreVars
<1>6. /\ state.agent[Subject(p)] \in AgcFrom[step] /\ Subject(p) \in Agents
      /\ state'.agent[Subject(p)] = AgcTo[step]
  BY <1>1, <1>4, <1>5 DEF Serving, FreshCalls, Fresh, CallsOK, PlanOK, States
<1>7. step \in {"quarantine", "release"} => Subject(p) = records[i].agent
  BY <1>2, <1>3 DEF Subject, OfNew
<1>8. step = "register" => Subject(p) = records[i].new
  BY <1>2, <1>3 DEF Subject, OfNew
<1>. QED
  BY <1>6, <1>7, <1>8, AgcTable

LEMMA ServedStep ==
  ASSUME Inv, NEW p \in Procs, StepOf(p), RunStep(p) PROVE Served' /\ Once'
<1>1. Types /\ RunTypes /\ RunTypes' /\ RunsOK /\ CallInv /\ BoundMissions \subseteq BoundMissions'
  BY RowsAre, BoundStays DEF Inv, CallInv
<1>. SUFFICES ASSUME races' = 0 PROVE Served' /\ Once'
  BY DEF Served, Once
<1>2. races = 0
  BY DEF StepOf, Checked, Ended, Rest, coreVars
<1>3. ASSUME NEW i \in DOMAIN records, Undisturbed(i), Undisturbed(i)', OldRow(p, i)
      PROVE  /\ Done(i, OutSteps) => state'.agent[records[i].agent] \in OutOf
             /\ Done(i, GoneSteps) => state'.agent[records[i].agent] = "RELEASED"
             /\ Done(i, NewSteps) => state'.agent[records[i].new] # "none"
  <2>1. records[i].agent \in Agents /\ records[i].new \in Agents
    <3>1. records[i] \in Rows
      BY <1>1 DEF RunTypes
    <3>. QED
      BY <3>1 DEF Rows
  <2>2. \A m \in Missions : Binding(m) => records[i].agent \notin Members(m)
    <3>. SUFFICES ASSUME NEW m \in Missions, Binding(m) PROVE records[i].agent \notin Members(m)
      OBVIOUS
    <3>1. m \in BoundMissions' /\ m \notin BoundMissions
      BY <1>1 DEF Binding, BoundMissions, CallInv, Types, States
    <3>2. m \notin records'[i].bound
      BY <1>1, <1>3, <3>1 DEF RunsOK, OldRow
    <3>. QED
      BY <1>3, <3>1, <3>2 DEF Undisturbed, OldRow
  <2>3. ~(Serving(p) /\ p \in overtaken /\ call[p].subject = records[i].agent)
    BY DEF Serving
  <2>. QED
    BY <1>1, <1>2, <1>3, <2>1, <2>2, <2>3, OutStaysOut, BoundStays DEF Inv, Served
<1>4. AgcTo["quarantine"] \in OutOf /\ AgcTo["release"] = "RELEASED"
      /\ AgcFrom["quarantine"] \cap OutOf = {}
  BY DEF AgcTo, AgcFrom, OutOf, Alive
<1>5. GoneSteps \subseteq OutSteps /\ \A i : Done(i, GoneSteps) => Done(i, OutSteps)
  BY DEF GoneSteps, Done
<1>6. Served'
  <2>. SUFFICES ASSUME NEW i \in DOMAIN records', Undisturbed(i)'
       PROVE  /\ Done(i, OutSteps)' => state'.agent[records'[i].agent] \in OutOf
              /\ Done(i, GoneSteps)' => state'.agent[records'[i].agent] = "RELEASED"
              /\ Done(i, NewSteps)' => state'.agent[records'[i].new] # "none"
    BY DEF Served
  <2>1. CASE OldRow(p, i) /\ Undisturbed(i)
    <3>1. /\ i \in DOMAIN records /\ ~records[i].shared
          /\ records'[i].agent = records[i].agent /\ records'[i].new = records[i].new
      BY <2>1 DEF OldRow
    <3>2. Done(i, OutSteps)' => state'.agent[records'[i].agent] \in OutOf
      BY <1>3, <1>4, <2>1, <3>1, DoneIs, DoerIs
    <3>3. Done(i, GoneSteps)' => state'.agent[records'[i].agent] = "RELEASED"
      BY <1>3, <1>4, <2>1, <3>1, DoneIs, DoerIs
    <3>4. Done(i, NewSteps)' => state'.agent[records'[i].new] # "none"
      BY <1>3, <1>4, <2>1, <3>1, DoneIs, DoerIs
    <3>. QED
      BY <3>2, <3>3, <3>4
  <2>. QED
    BY <2>1, DoneIs
<1>7. Once'
  <2>. SUFFICES ASSUME NEW i \in DOMAIN records', NEW j \in DOMAIN records',
                       Undisturbed(i)', Undisturbed(j)', records'[i].agent = records'[j].agent,
                       Done(i, OutSteps)', Done(j, OutSteps)'
       PROVE  i = j
    BY DEF Once
  <2>1. ASSUME NEW k \in {i, j}
        PROVE  /\ k \in DOMAIN records /\ ~records[k].shared /\ Undisturbed(k)
               /\ records'[k].agent = records[k].agent
               /\ Done(k, OutSteps) \/ Doer(p, k, "quarantine")
    BY DoneIs DEF OldRow
  <2>2. ASSUME NEW k \in {i, j}, Doer(p, k, "quarantine")
        PROVE  state.agent[records[k].agent] \notin OutOf
    BY <1>4, <2>1, <2>2, DoerIs
  <2>3. ASSUME NEW k \in {i, j}, Done(k, OutSteps)
        PROVE  state.agent[records[k].agent] \in OutOf
    BY <1>2, <2>1, <2>3 DEF Inv, Served
  <2>4. CASE Done(i, OutSteps) /\ Done(j, OutSteps)
    BY <1>2, <2>1, <2>4 DEF Inv, Once
  <2>5. CASE Doer(p, i, "quarantine") /\ Doer(p, j, "quarantine")
    BY <2>5 DEF Doer, Owned
  <2>. QED
    BY <2>1, <2>2, <2>3, <2>4, <2>5
<1>. QED
  BY <1>6, <1>7

-----------------------------------------------------------------------------
(* The theorems.                                                           *)

\* Inv holds of every state of the agents, the recoveries and their records.
THEOREM AgentsInv == AgentsSpec => []Inv
<1>1. AgentsInit => Inv
  <2>. SUFFICES ASSUME AgentsInit PROVE Inv
    OBVIOUS
  <2>1. EmptyState \in States
    BY DEF EmptyState, States, MissionStatuses, SessionStatuses, AssignmentStatuses,
           AgentStatuses, DepStatuses, GateStatuses, RiskStatuses
  <2>2. Types
    <3>1. 0 \in 0..MaxRaces
      BY IdsAssumption
    <3>2. call \in [Procs -> AgentCalls] /\ overtaken \subseteq Procs
      BY NoCallIs DEF AgentsInit, InitState
    <3>. QED
      BY <2>1, <3>1, <3>2 DEF AgentsInit, InitState, Types
  <2>3. CallInv
    BY <2>2, NoCallIs DEF AgentsInit, InitState, CallInv, CallsOK, PlanOK, FreshCalls, Fresh
  <2>4. records = <<>> /\ run = [p \in Procs |-> NoRun] /\ call = [p \in Procs |-> NoCall]
    BY DEF AgentsInit, InitState
  <2>5. RunTypes
    BY <2>4 DEF RunTypes
  <2>6. RunsOK
    BY <2>4, NoCallIs DEF RunsOK, Matches, Numbered, Running
  <2>7. Served /\ Once
    BY <2>4 DEF Served, Once
  <2>. QED
    BY <2>3, <2>5, <2>6, <2>7 DEF Inv
<1>2. Inv /\ [AgentsNext]_agentsVars => Inv'
  <2>. SUFFICES ASSUME Inv, [AgentsNext]_agentsVars PROVE Inv'
    OBVIOUS
  <2>1. CASE UNCHANGED agentsVars
    BY <2>1 DEF agentsVars, Inv, CallInv, Types, CallsOK, FreshCalls, Fresh, RunTypes, RunsOK,
       Matches, Running, Idle, Subject, Numbered, RecordOK, Owned, BoundMissions, Served,
       Undisturbed, Done, Once
  <2>2. ASSUME NEW p \in Procs, StepOf(p), RunStep(p) PROVE Inv'
    BY <2>2, CallInvStep, RowsAre, RunsOKStep, ServedStep DEF Inv
  <2>. QED
    BY <2>1, <2>2, NextIs
<1>. QED
  BY <1>1, <1>2, PTL DEF AgentsSpec

\* For any agents, missions and processes, an agent that was quarantined, replaced or
\* released gets no more work, but for overtaken calls about it and manifests that bind it.
THEOREM OutOfServiceStays == AgentsSpec => OutOfService
<1>1. ASSUME Inv, [AgentsNext]_agentsVars, state'.mission = state.mission,
             NEW x \in Agents, ~EndsOvertaken(x)
      PROVE  /\ state.agent[x] = "RELEASED" => state'.agent[x] = "RELEASED"
             /\ state.agent[x] \in OutOf => state'.agent[x] \in OutOf
  <2>1. CASE UNCHANGED agentsVars
    BY <2>1 DEF agentsVars
  <2>2. ASSUME NEW p \in Procs, StepOf(p)
        PROVE  /\ state.agent[x] = "RELEASED" => state'.agent[x] = "RELEASED"
               /\ state.agent[x] \in OutOf => state'.agent[x] \in OutOf
    <3>1. Types
      BY <1>1 DEF Inv, CallInv
    <3>2. \A m \in Missions : ~Binding(m)
      BY <1>1, <3>1 DEF Binding, Types, States
    <3>3. ASSUME state' # state, Serving(p), p \in overtaken, call[p].subject = x PROVE FALSE
      <4>1. Ended(p)
        BY <2>2, <3>3 DEF StepOf, Checked, Rest, coreVars
      <4>2. call'[p] # call[p]
        BY <3>1, <3>3, <4>1, NoCallIs DEF Ended, Types, Serving
      <4>. QED
        BY <1>1, <3>3, <4>2 DEF EndsOvertaken
    <3>4. CASE state' = state
      BY <3>4
    <3>5. CASE state' # state
      BY <1>1, <2>2, <3>2, <3>3, <3>5, OutStaysOut DEF Inv
    <3>. QED
      BY <3>4, <3>5
  <2>. QED
    BY <1>1, <2>1, <2>2, NextIs
<1>2. Inv /\ [AgentsNext]_agentsVars =>
        [state'.mission = state.mission =>
           \A x \in Agents : EndsOvertaken(x) \/
             /\ state.agent[x] = "RELEASED" => state'.agent[x] = "RELEASED"
             /\ state.agent[x] \in {"QUARANTINED", "REPLACED"}
                  => state'.agent[x] \in {"QUARANTINED", "REPLACED", "RELEASED"}]_agentsVars
  BY <1>1 DEF OutOf
<1>. QED
  BY <1>2, AgentsInv, PTL DEF AgentsSpec, OutOfService

\* For any agents, missions, processes and number of recoveries, a recovery that completed
\* under an identifier of its own has released its agent and registered another.
THEOREM CompletedRecoveryHolds == AgentsSpec => []CompletedRecovery
<1>1. Inv => CompletedRecovery
  BY DEF Inv, Served, CompletedRecovery, Replaced, Undisturbed, Done
<1>. QED
  BY <1>1, AgentsInv, PTL

\* No agent is replaced by two such recoveries.
THEOREM ReplacedOnceHolds == AgentsSpec => []ReplacedOnce
<1>1. Inv => ReplacedOnce
  BY DEF Inv, Once, ReplacedOnce, Replaced, Undisturbed, Done
<1>. QED
  BY <1>1, AgentsInv, PTL

-----------------------------------------------------------------------------
(* The scheduler.  A decision is pending from when the hold was looked at  *)
(* until its call has ended.  While the scheduler is held no decision      *)
(* becomes pending, and every one that is carried out was.                 *)

TickOK(t) ==
  \/ t = NoTick
  \/ t = [step |-> t.step, enabled |-> t.enabled, failed |-> t.failed,
          active |-> t.active, decision |-> t.decision]
PendingIn(t) ==
  \/ t.step \in {"schedule", "run"}
  \/ t.step = "execute" /\ t.decision.kind # "HOLD"
Pending == {p \in Schedulers : PendingIn(tick[p])}

TicksOK == tick = [p \in Procs |-> tick[p]] /\ \A p \in Procs : TickOK(tick[p])
HoldInv ==
  /\ TicksOK /\ late \in Nat
  /\ ~Hold(state) => late = 0
  /\ Hold(state) => late + Cardinality(Pending) <= Cardinality(Schedulers)

\* What a step does to the tick of p.
TickStep(p) ==
  /\ \E t : tick' = [tick EXCEPT ![p] = t] /\ TickOK(t)
  /\ Hold(state) => (PendingIn(tick'[p]) => PendingIn(tick[p]))
  /\ Ticking(p, "run") => tick'[p].step = "run" \/ ~PendingIn(tick'[p])

LEMMA NoTickIs == TickOK(NoTick) /\ ~PendingIn(NoTick) /\ NoTick.step = "none"
BY DEF TickOK, PendingIn, NoTick

LEMMA DecideIs ==
  ASSUME NEW p \in Procs, NEW d, TicksOK, tick[p] # NoTick, Decide(p, d)
  PROVE  /\ \E t : tick' = [tick EXCEPT ![p] = t] /\ TickOK(t)
         /\ tick'[p].step \in {"execute", "end"} /\ tick'[p].decision = d
<1> DEFINE t == tick[p]
           next == IF t.enabled THEN "execute" ELSE "end"
           new == [step |-> next, enabled |-> t.enabled, failed |-> t.failed,
                   active |-> t.active, decision |-> d]
<1>1. t = [step |-> t.step, enabled |-> t.enabled, failed |-> t.failed,
           active |-> t.active, decision |-> t.decision]
  BY DEF TicksOK, TickOK
<1>2. tick' = [tick EXCEPT ![p] = [[t EXCEPT !.decision = d] EXCEPT !.step = next]]
  BY DEF Decide, TicksOK
<1> HIDE DEF t
<1>3. [[t EXCEPT !.decision = d] EXCEPT !.step = next] = new
  <2> DEFINE u == [step |-> t.step, enabled |-> t.enabled, failed |-> t.failed,
                   active |-> t.active, decision |-> d]
  <2>1. [t EXCEPT !.decision = d] = u
    BY <1>1
  <2> HIDE DEF next
  <2>2. [u EXCEPT !.step = next] = new
    OBVIOUS
  <2>. QED
    BY <2>1, <2>2
<1>4. new.step = next /\ new.decision = d /\ TickOK(new)
  BY DEF TickOK
<1> HIDE DEF new
<1>5. tick'[p] = new
  BY <1>2, <1>3 DEF TicksOK
<1>. QED
  BY <1>2, <1>3, <1>4, <1>5

LEMMA StepIs ==
  ASSUME NEW p \in Procs, NEW s, TicksOK, tick[p] # NoTick, tick' = [tick EXCEPT ![p].step = s]
  PROVE  /\ \E t : tick' = [tick EXCEPT ![p] = t] /\ TickOK(t)
         /\ tick'[p].step = s /\ tick'[p].decision = tick[p].decision
<1> DEFINE t == tick[p]
           new == [step |-> s, enabled |-> t.enabled, failed |-> t.failed,
                   active |-> t.active, decision |-> t.decision]
<1>1. t = [step |-> t.step, enabled |-> t.enabled, failed |-> t.failed,
           active |-> t.active, decision |-> t.decision]
  BY DEF TicksOK, TickOK
<1>2. tick' = [tick EXCEPT ![p] = [t EXCEPT !.step = s]]
  OBVIOUS
<1> HIDE DEF t
<1>3. [t EXCEPT !.step = s] = new
  BY <1>1
<1>4. new.step = s /\ new.decision = t.decision /\ TickOK(new)
  BY DEF TickOK
<1> HIDE DEF new
<1>5. tick'[p] = new
  BY <1>2, <1>3 DEF TicksOK
<1>. QED
  BY <1>2, <1>3, <1>4, <1>5 DEF t

LEMMA TickIs ==
  ASSUME TicksOK, NEW p \in Procs, Tick(p) PROVE TickStep(p)
<1>1. \A q, s : Ticking(q, s) /\ s # "none" => tick[q] # NoTick
  BY DEF Ticking, NoTick
<1>2. CASE TickLoad(p)
  <2>1. PICK fallback \in Fallbacks(state) :
          tick' = [tick EXCEPT ![p] =
            [step |-> "hold", enabled |-> enabled, failed |-> FailedAgents(state),
             active |-> state.active, decision |-> fallback]]
    BY <1>2 DEF TickLoad
  <2> DEFINE new == [step |-> "hold", enabled |-> enabled, failed |-> FailedAgents(state),
                     active |-> state.active, decision |-> fallback]
  <2>2. new.step = "hold" /\ TickOK(new)
    BY DEF TickOK
  <2> HIDE DEF new
  <2>3. tick' = [tick EXCEPT ![p] = new] /\ tick'[p] = new
    BY <2>1 DEF TicksOK, new
  <2>. QED
    BY <1>2, <2>2, <2>3 DEF TickLoad, NoTick, Ticking, TickStep, PendingIn
<1>3. CASE TickHold(p)
  <2>1. tick[p] # NoTick
    BY <1>1, <1>3 DEF TickHold
  <2>2. CASE Hold(state)
    BY <1>3, <2>1, <2>2, DecideIs DEF TickHold, TickStep, PendingIn, Decision, Ticking
  <2>3. CASE ~Hold(state)
    BY <1>3, <2>1, <2>3, DecideIs, StepIs DEF TickHold, TickStep, Ticking
  <2>. QED
    BY <2>2, <2>3
<1>4. CASE TickSchedule(p) \/ TickStalled(p)
  <2>1. tick[p] # NoTick /\ PendingIn(tick[p])
    BY <1>1, <1>4 DEF TickSchedule, TickStalled, Ticking, PendingIn
  <2>. QED
    BY <1>4, <2>1, DecideIs DEF TickSchedule, TickStalled, TickStep, Ticking
<1>5. CASE TickEnd(p)
  <2>1. tick' = [tick EXCEPT ![p] = NoTick] /\ tick'[p] = NoTick
    BY <1>5 DEF TickEnd, TicksOK
  <2>. QED
    BY <2>1, NoTickIs DEF TickStep
<1>6. CASE TickExecute(p)
  <2>1. tick[p] # NoTick /\ Ticking(p, "execute") /\ Applies(tick[p].decision)
    BY <1>1, <1>6 DEF TickExecute
  <2>2. PendingIn(tick[p])
    BY <2>1 DEF Applies, Ticking, PendingIn
  <2>. QED
    BY <1>6, <2>1, <2>2, StepIs DEF TickExecute, TickStep
<1>. QED
  BY <1>2, <1>3, <1>4, <1>5, <1>6 DEF Tick

LEMMA TicksAre ==
  ASSUME TicksOK, [SchedulerNext]_schedulerVars
  PROVE  \/ tick' = tick
         \/ \E p \in Procs : TickStep(p)
<1>1. Schedulers \subseteq Procs
  BY SchedulersAssumption
<1>2. ASSUME NEW p \in Procs, Disturb(p) PROVE tick' = tick \/ TickStep(p)
  <2>1. CASE TickCrash(p)
    <3>1. tick' = [tick EXCEPT ![p] = NoTick] /\ tick'[p] = NoTick
      BY <2>1 DEF TickCrash, TicksOK
    <3>. QED
      BY <3>1, NoTickIs DEF TickStep
  <2>. QED
    BY <1>2, <2>1 DEF Disturb
<1>3. ASSUME NEW p \in Procs, Work(p) \/ Engine(p) PROVE tick' = tick
  BY <1>3 DEF Work, Engine
<1>. QED
  BY <1>1, <1>2, <1>3, TickIs DEF SchedulerNext, schedulerVars

LEMMA PendingFinite ==
  /\ IsFiniteSet(Schedulers) /\ Cardinality(Schedulers) \in Nat
  /\ \A S \in SUBSET Schedulers : IsFiniteSet(S) /\ Cardinality(S) \in Nat
                                    /\ Cardinality(S) <= Cardinality(Schedulers)
BY SchedulersAssumption, FS_Subset, FS_CardinalityType

\* A decision that has been carried out is not pending any more.
LEMMA HoldStep ==
  ASSUME HoldInv, [SchedulerNext]_schedulerVars PROVE HoldInv'
<1>1. TicksOK /\ late \in Nat
  BY DEF HoldInv
<1>2. CASE UNCHANGED schedulerVars
  BY <1>2 DEF schedulerVars, HoldInv, TicksOK, Hold, Blocks, Pending, PendingIn
<1>3. CASE SchedulerNext
  <2>1. tick' = tick \/ \E p \in Procs : TickStep(p)
    BY <1>1, TicksAre
  <2>2. TicksOK'
    BY <1>1, <2>1 DEF TickStep, TicksOK
  <2>3. Hold(state) => Pending' \subseteq Pending
    <3>1. ASSUME Hold(state), NEW q \in Schedulers, q \in Pending' PROVE q \in Pending
      <4>1. q \in Procs /\ PendingIn(tick[q])'
        BY <3>1, SchedulersAssumption DEF Pending
      <4>2. PendingIn(tick'[q])
        BY <4>1 DEF PendingIn
      <4>3. PendingIn(tick[q])
        <5>1. CASE tick' = tick
          BY <4>2, <5>1
        <5>2. ASSUME NEW p \in Procs, TickStep(p) PROVE PendingIn(tick[q])
          <6>1. q # p => tick'[q] = tick[q]
            BY <1>1, <4>1, <5>2 DEF TickStep, TicksOK
          <6>. QED
            BY <3>1, <4>2, <5>2, <6>1 DEF TickStep
        <5>. QED
          BY <2>1, <5>1, <5>2
      <4>. QED
        BY <4>3 DEF Pending
    <3>. QED
      BY <3>1 DEF Pending
  <2>4. ASSUME NEW q \in Schedulers, Ticking(q, "run"), ~Ticking(q, "run")'
        PROVE  q \in Pending /\ q \notin Pending'
    <3>1. q \in Procs
      BY SchedulersAssumption
    <3>2. PICK p \in Procs : TickStep(p) /\ tick' # tick
      BY <2>1, <2>4 DEF Ticking
    <3>3. q = p
      BY <1>1, <2>4, <3>1, <3>2 DEF TickStep, TicksOK, Ticking
    <3>. QED
      BY <2>4, <3>2, <3>3 DEF TickStep, Pending, PendingIn, Ticking
  <2>5. Late
    BY <1>3 DEF SchedulerNext
  <2> DEFINE size == Cardinality(Schedulers)
             left == \E q \in Schedulers : Ticking(q, "run") /\ ~Ticking(q, "run")'
  <2>6. /\ IsFiniteSet(Schedulers) /\ size \in Nat
        /\ Pending \subseteq Schedulers /\ Pending' \subseteq Schedulers
    BY PendingFinite DEF Pending
  <2>7. /\ Cardinality(Pending) \in Nat /\ Cardinality(Pending') \in Nat
        /\ Cardinality(Pending') <= size /\ IsFiniteSet(Pending)
    BY <2>6, PendingFinite
  <2>8. Hold(state) => Cardinality(Pending') <= Cardinality(Pending)
    BY <2>3, <2>7, FS_Subset
  <2>9. ASSUME NEW q \in Schedulers, Ticking(q, "run"), ~Ticking(q, "run")'
        PROVE  /\ Cardinality(Pending') <= size - 1
               /\ Hold(state) => Cardinality(Pending') <= Cardinality(Pending) - 1
    <3>1. /\ Pending' \subseteq Schedulers \ {q} /\ q \in Pending
          /\ Hold(state) => Pending' \subseteq Pending \ {q}
      BY <2>3, <2>4, <2>6, <2>9
    <3>2. /\ IsFiniteSet(Schedulers \ {q}) /\ Cardinality(Schedulers \ {q}) = size - 1
          /\ IsFiniteSet(Pending \ {q}) /\ Cardinality(Pending \ {q}) = Cardinality(Pending) - 1
      BY <2>6, <2>7, <3>1, FS_RemoveElement
    <3>. QED
      BY <3>1, <3>2, FS_Subset
  <2>10. CASE ~Hold(state')
    BY <2>2, <2>5, <2>10 DEF Late, HoldInv
  <2>11. CASE Hold(state') /\ left
    <3>1. late' = late + 1 /\ Cardinality(Pending') <= size - 1
      BY <2>5, <2>9, <2>11 DEF Late
    <3>2. Hold(state) => Cardinality(Pending') <= Cardinality(Pending) - 1
      BY <2>9, <2>11
    <3>3. late' + Cardinality(Pending') <= size
      BY <1>1, <2>6, <2>7, <3>1, <3>2 DEF HoldInv
    <3>. QED
      BY <1>1, <2>2, <2>11, <3>1, <3>3 DEF HoldInv
  <2>12. CASE Hold(state') /\ ~left
    <3>1. late' = late
      BY <2>5, <2>12 DEF Late
    <3>2. late' + Cardinality(Pending') <= size
      BY <1>1, <2>6, <2>7, <2>8, <3>1 DEF HoldInv
    <3>. QED
      BY <1>1, <2>2, <2>12, <3>1, <3>2 DEF HoldInv
  <2>. QED
    BY <2>10, <2>11, <2>12
<1>. QED
  BY <1>2, <1>3

\* For any number of schedulers, whatever the agents, operators and engines do meanwhile,
\* each scheduler carries out at most one decision after a risk starts to hold it.
THEOREM HoldStopsHolds == SchedulerSpec => []HoldStops
<1>1. SchedulerInit => HoldInv
  <2>. SUFFICES ASSUME SchedulerInit PROVE HoldInv
    OBVIOUS
  <2>1. tick = [p \in Procs |-> NoTick] /\ late = 0
    BY DEF SchedulerInit
  <2>2. TicksOK
    BY <2>1 DEF TicksOK, TickOK
  <2>3. Pending \in SUBSET Schedulers
    BY DEF Pending
  <2>. QED
    BY <2>1, <2>2, <2>3, PendingFinite DEF HoldInv
<1>2. HoldInv /\ [SchedulerNext]_schedulerVars => HoldInv'
  BY HoldStep
<1>3. HoldInv => HoldStops
  <2>. SUFFICES ASSUME HoldInv PROVE HoldStops
    OBVIOUS
  <2>1. Pending \in SUBSET Schedulers
    BY DEF Pending
  <2>. QED
    BY <2>1, PendingFinite DEF HoldInv, HoldStops
<1>. QED
  BY <1>1, <1>2, <1>3, PTL DEF SchedulerSpec

-----------------------------------------------------------------------------
(* Gates after work.  The scheduler decides for a gate when all work of    *)
(* the mission is done; as long as no call is overtaken, no engine takes   *)
(* completion back, so the work is still done when the gate starts.        *)

Uncalled == {"pause", "resume", "cancel", "block", "unblock"}  \* what nobody calls here
StatusesOK(s) ==
  /\ {"asg", "gate", "mission"} \subseteq DOMAIN s
  /\ s.asg \in [Assignments -> AssignmentStatuses] /\ s.gate \in [Gates -> GateStatuses]
  /\ s.mission \in [Missions -> MissionStatuses]

\* A call about an assignment, by a process that no update overtook.
FreshWork(plan) ==
  plan.subject \in Assignments =>
    /\ plan.op = "dispatch" => state.asg[plan.subject] = "READY"
    /\ plan.op \in {"complete", "fail"} => state.asg[plan.subject] = "IN_PROGRESS"
AfterWork(g) == races = 0 => AllCompleted(state, GateMission[g])
DecisionOK(d) == d.kind = "VALIDATE" => AfterWork(d.target)

CallOK(plan) ==
  /\ plan.op \notin Uncalled
  /\ plan.op \in {"dispatch", "complete", "fail"} /\ plan.subject \in Assignments
       => state.asg[plan.subject] # "none"
  /\ plan.op = "start_gate" => AfterWork(plan.subject)

WorkTypes == StatusesOK(state) /\ call = [p \in Procs |-> call[p]] /\ races \in Nat
GatesInv ==
  /\ TicksOK /\ WorkTypes
  /\ \A a \in Assignments : state.asg[a] # "none" => state.mission[MissionOf[a]] # "none"
  /\ \A p \in Procs : CallOK(call[p])
  /\ races = 0 => \A p \in Procs \ overtaken : FreshWork(call[p])
  /\ \A p \in Procs : tick[p] # NoTick => DecisionOK(tick[p].decision)

\* What a step of p does to the work.
Untouched == state'.asg = state.asg
Bringing(m) ==
  /\ state.mission[m] = "none" /\ state'.mission[m] # "none"
  /\ \A a \in Assignments : state'.asg[a] = IF MissionOf[a] = m THEN "PENDING" ELSE state.asg[a]
WorkMoved(p) == \A a \in Assignments :
  \/ state'.asg[a] = state.asg[a] \/ (state.asg[a] = "PENDING" /\ state'.asg[a] = "READY")
  \/ /\ a = call[p].subject
     /\ \/ Doing(p, "dispatch") /\ state'.asg[a] = "IN_PROGRESS"
        \/ Doing(p, "complete") /\ state'.asg[a] = "COMPLETED"
        \/ Doing(p, "fail") /\ state'.asg[a] = "FAILED"
WorkEffect(p) == Untouched \/ (\E m \in Missions : Bringing(m)) \/ WorkMoved(p)
GateEffect(p) == \A g \in Gates :
  state'.gate[g] = "RUNNING" /\ state.gate[g] # "RUNNING"
    => Doing(p, "start_gate") /\ call[p].subject = g
StateEffect(p) ==
  /\ StatusesOK(state') /\ WorkEffect(p) /\ GateEffect(p)
  /\ \A m \in Missions : state.mission[m] # "none" => state'.mission[m] # "none"

\* How it leaves the calls: it checks one, it ends its own, or neither.
PlanFits(plan) == CallOK(plan) /\ FreshWork(plan)
CallChecked(p) ==
  /\ state' = state /\ overtaken' = overtaken /\ races' = races
  /\ \E plan : call' = [call EXCEPT ![p] = plan] /\ PlanFits(plan)
CallEnded(p) ==
  /\ \E next : call' = [call EXCEPT ![p] = next] /\ next.op \in {"none", "write_result"}
  /\ state' = state \/ \A q \in Procs \ {p} : q \in overtaken' \/ Idle(q)
  /\ state' = state => overtaken' = overtaken \ {p}
  /\ races' \in Nat /\ (races' = 0 => races = 0)
  /\ races' = 0 => state' = state \/ p \notin overtaken
WorkStep(p) == StateEffect(p) /\ (CallChecked(p) \/ CallEnded(p) \/ Rest)

LEMMA NoEffect == ASSUME WorkTypes, NEW p, state' = state PROVE StateEffect(p)
BY DEF WorkTypes, StateEffect, WorkEffect, GateEffect, Untouched

LEMMA UpdateCall ==
  ASSUME WorkTypes, NEW p \in Procs, NEW new, NEW next, next.op \in {"none", "write_result"},
         Update(p, new, next)
  PROVE  CallEnded(p) /\ state' = new
<1>1. state' = new /\ call' = [call EXCEPT ![p] = next]
  BY DEF Update
<1>2. races' \in Nat /\ (races' = 0 => races = 0 /\ p \notin overtaken)
  BY DEF Update, WorkTypes
<1>3. overtaken' = IF new = state THEN overtaken \ {p} ELSE {q \in Procs : q # p /\ ~Idle(q)}
  BY DEF Update
<1>4. state' = state => overtaken' = overtaken \ {p}
  BY <1>1, <1>3
<1>5. state' # state => \A q \in Procs \ {p} : q \in overtaken' \/ Idle(q)
  <2>. SUFFICES ASSUME state' # state, NEW q \in Procs \ {p}, ~Idle(q) PROVE q \in overtaken'
    OBVIOUS
  <2>1. overtaken' = {r \in Procs : r # p /\ ~Idle(r)}
    BY <1>1, <1>3
  <2>. QED
    BY <2>1
<1>. QED
  BY <1>1, <1>2, <1>4, <1>5 DEF CallEnded

LEMMA NoCallEnds == NoCall.op = "none"
BY DEF NoCall, Call

\* An update that leaves the state as it is, and a call without effect.
LEMMA EmptyUpdate ==
  ASSUME WorkTypes, NEW p \in Procs, Update(p, state, NoCall) PROVE WorkStep(p)
BY UpdateCall, NoCallEnds, NoEffect DEF WorkStep

LEMMA AbandonedCall ==
  ASSUME WorkTypes, NEW p \in Procs, call' = [call EXCEPT ![p] = NoCall],
         overtaken' = overtaken \ {p}, UNCHANGED <<state, races>>
  PROVE  WorkStep(p)
BY NoCallEnds, NoEffect DEF WorkStep, CallEnded, WorkTypes

LEMMA PlannedCall ==
  ASSUME WorkTypes, NEW p \in Procs, NEW plan, Plan(p, plan), PlanFits(plan) PROVE WorkStep(p)
<1>1. state' = state /\ overtaken' = overtaken /\ races' = races
      /\ call' = [call EXCEPT ![p] = plan]
  BY DEF Plan
<1>. QED
  BY <1>1, NoEffect DEF WorkStep, CallChecked

\* A call that has nothing to do with work or gates.
LEMMA OtherPlan ==
  ASSUME NEW plan, plan.op \notin Uncalled \cup {"dispatch", "complete", "fail", "start_gate"}
  PROVE  PlanFits(plan)
BY DEF PlanFits, CallOK, FreshWork

-----------------------------------------------------------------------------
LEMMA BindWork ==
  ASSUME WorkTypes, NEW p \in Procs, NEW m \in Missions, Bind(p, m) PROVE WorkStep(p)
<1>1. PICK v \in BOOLEAN : Update(p, Bound(state, m, v), NoCall)
  BY DEF Bind
<1>2. state' = Bound(state, m, v) /\ CallEnded(p)
  BY <1>1, UpdateCall, NoCallEnds
<1>3. /\ {"asg", "gate", "mission"} \subseteq DOMAIN Bound(state, m, v)
      /\ Bound(state, m, v).mission = [state.mission EXCEPT ![m] = "PLANNED"]
      /\ Bound(state, m, v).asg = [a \in Assignments |-> IF MissionOf[a] = m THEN "PENDING" ELSE state.asg[a]]
      /\ Bound(state, m, v).gate = [g \in Gates |-> IF GateMission[g] = m THEN "PENDING" ELSE state.gate[g]]
  BY DEF Bound, WorkTypes, StatusesOK
<1>4. StatusesOK(state')
  BY <1>2, <1>3 DEF WorkTypes, StatusesOK, AssignmentStatuses, GateStatuses, MissionStatuses
<1>5. Bringing(m) /\ GateEffect(p) /\ \A n \in Missions : state.mission[n] # "none" => state'.mission[n] # "none"
  BY <1>2, <1>3 DEF Bind, Bringing, GateEffect, WorkTypes, StatusesOK
<1>. QED
  BY <1>2, <1>4, <1>5 DEF WorkStep, StateEffect, WorkEffect

\* An update of agents, risks or milestones, and one of missions.
LEMMA OtherUpdate ==
  ASSUME WorkTypes, NEW p \in Procs, NEW new, Update(p, new, NoCall), StatusesOK(new),
         new.asg = state.asg, new.gate = state.gate,
         \A m \in Missions : state.mission[m] # "none" => new.mission[m] # "none"
  PROVE  WorkStep(p)
BY UpdateCall, NoCallEnds DEF WorkStep, StateEffect, WorkEffect, Untouched, GateEffect

\* The same of a commit, which may come with a checkpoint.
LEMMA CommitIs ==
  ASSUME NEW p, NEW kind, NEW to, NEW new, NEW next, StatusesOK(new),
         Commit(p, kind, to, new, next)
  PROVE  \E published :
           /\ Update(p, published, next) /\ StatusesOK(published)
           /\ published.asg = new.asg /\ published.gate = new.gate
           /\ published.mission = new.mission
<1>1. PICK published \in Checkpointed(kind, to, call[p].subject, new) : Update(p, published, next)
  BY DEF Commit
<1>2. ASSUME NEW set
      PROVE  LET with == [new EXCEPT !.kept = set]
             IN  /\ {"asg", "gate", "mission"} \subseteq DOMAIN with
                 /\ with.asg = new.asg /\ with.gate = new.gate /\ with.mission = new.mission
  BY DEF StatusesOK
<1>3. published = new \/ \E set : published = [new EXCEPT !.kept = set]
  BY DEF Checkpointed
<1>4. /\ {"asg", "gate", "mission"} \subseteq DOMAIN published
      /\ published.asg = new.asg /\ published.gate = new.gate
      /\ published.mission = new.mission
  BY <1>2, <1>3 DEF StatusesOK
<1>. QED
  BY <1>1, <1>4 DEF StatusesOK

LEMMA OtherCommit ==
  ASSUME WorkTypes, NEW p \in Procs, NEW kind, NEW to, NEW new, StatusesOK(new),
         Commit(p, kind, to, new, NoCall), new.asg = state.asg, new.gate = state.gate,
         \A m \in Missions : state.mission[m] # "none" => new.mission[m] # "none"
  PROVE  WorkStep(p)
BY CommitIs, OtherUpdate

LEMMA AgentUpdate ==
  ASSUME WorkTypes, NEW p \in Procs, AgentCommit(p) PROVE WorkStep(p)
<1>1. ASSUME NEW op, NEW to, NEW work, SetAgent(p, op, to, work) PROVE WorkStep(p)
  <2> DEFINE x == call[p].subject
             new == [state EXCEPT !.agent[x] = to, !.work[x] = work]
  <2>1. Commit(p, "AGENT_STATUS", to, new, NoCall)
    BY <1>1 DEF SetAgent
  <2>2. StatusesOK(new) /\ new.asg = state.asg /\ new.gate = state.gate /\ new.mission = state.mission
    BY DEF WorkTypes, StatusesOK
  <2> HIDE DEF new
  <2>. QED
    BY <2>1, <2>2, OtherCommit
<1>2. CASE Register(p)
  <2> DEFINE x == call[p].subject
             new == [state EXCEPT !.agent[x] = "INITIALIZING", !.work[x] = None, !.dep[x] = "UNKNOWN"]
  <2>1. Update(p, new, NoCall)
    BY <1>2 DEF Register
  <2>2. StatusesOK(new) /\ new.asg = state.asg /\ new.gate = state.gate /\ new.mission = state.mission
    BY DEF WorkTypes, StatusesOK
  <2> HIDE DEF new
  <2>. QED
    BY <2>1, <2>2, OtherUpdate
<1>3. CASE SetDependency(p)
  <2> DEFINE new == [state EXCEPT !.dep[call[p].subject] = call[p].from]
  <2>1. Update(p, new, NoCall)
    BY <1>3 DEF SetDependency
  <2>2. StatusesOK(new) /\ new.asg = state.asg /\ new.gate = state.gate /\ new.mission = state.mission
    BY DEF WorkTypes, StatusesOK
  <2> HIDE DEF new
  <2>. QED
    BY <2>1, <2>2, OtherUpdate
<1>4. CASE Touch(p)
  BY <1>4, EmptyUpdate DEF Touch
<1>. QED
  BY <1>1, <1>2, <1>3, <1>4 DEF AgentCommit, Activate, Ready, AgentComplete, AgentBlock,
     AgentUnblock, AgentFail, Quarantine, Replace, Release, Claim

LEMMA GateUpdate ==
  ASSUME WorkTypes, NEW p \in Procs, GatesCommit(p) PROVE WorkStep(p)
<1>1. ASSUME NEW op, NEW to \in {"RUNNING", "GREEN", "RED", "BLOCKED", "INVALIDATED"}, NEW bound,
             SetGate(p, op, to, bound), to = "RUNNING" => op = "start_gate"
      PROVE  WorkStep(p)
  <2> DEFINE g == call[p].subject
             new == [state EXCEPT !.gate[g] = to, !.bound = bound]
  <2>1. Commit(p, "VALIDATION_GATE", to, new, NoCall) /\ Doing(p, op)
    BY <1>1 DEF SetGate
  <2>2. /\ {"asg", "gate", "mission"} \subseteq DOMAIN new /\ new.asg = state.asg
        /\ new.mission = state.mission /\ new.gate = [state.gate EXCEPT ![g] = to]
    BY DEF WorkTypes, StatusesOK
  <2> HIDE DEF new
  <2>3. StatusesOK(new)
    BY <1>1, <2>2 DEF WorkTypes, StatusesOK, GateStatuses
  <2>4. /\ CallEnded(p) /\ StatusesOK(state') /\ state'.asg = new.asg
        /\ state'.mission = new.mission /\ state'.gate = new.gate
    BY <2>1, <2>3, CommitIs, UpdateCall, NoCallEnds
  <2>5. GateEffect(p)
    BY <1>1, <2>1, <2>2, <2>4 DEF GateEffect, WorkTypes, StatusesOK
  <2>. QED
    BY <2>2, <2>4, <2>5 DEF WorkStep, StateEffect, WorkEffect, Untouched
<1>2. ASSUME NEW op, NEW to, SetRisk(p, op, to) PROVE WorkStep(p)
  <2> DEFINE new == [state EXCEPT !.risk[call[p].subject] = to]
  <2>1. Commit(p, "RISK_STATUS", to, new, NoCall)
    BY <1>2 DEF SetRisk
  <2>2. StatusesOK(new) /\ new.asg = state.asg /\ new.gate = state.gate /\ new.mission = state.mission
    BY DEF WorkTypes, StatusesOK
  <2> HIDE DEF new
  <2>. QED
    BY <2>1, <2>2, OtherCommit
<1>3. CASE StartGate(p) \/ Green(p) \/ Refuse(p) \/ Invalidate(p)
  BY <1>1, <1>3 DEF StartGate, Green, Seal, Refuse, Invalidate
<1>. QED
  BY <1>2, <1>3 DEF GatesCommit, Open, Mitigate, Accept, Halt, Resolve

LEMMA ExecutionUpdate ==
  ASSUME WorkTypes, NEW p \in Procs, CallOK(call[p]), ExecutionCommit(p) PROVE WorkStep(p)
<1> DEFINE m == call[p].subject
<1>1. CASE Start(p)
  <2> DEFINE new == Started(state, m)
             rows == Roots(m) \cap InStatus(state, m, {"PENDING"})
  <2>1. Commit(p, "MISSION_STATUS", "ACTIVE", new, NoCall)
    BY <1>1 DEF Start
  <2>2. /\ {"asg", "gate", "mission"} \subseteq DOMAIN new /\ new.gate = state.gate
        /\ new.asg = SetStatus(state, rows, "READY")
        /\ new.mission = [state.mission EXCEPT ![m] = "ACTIVE"]
    BY DEF WorkTypes, StatusesOK, Started
  <2>3. \A a \in rows : state.asg[a] = "PENDING"
    BY DEF InStatus
  <2> HIDE DEF new, rows
  <2>4. StatusesOK(new)
    <3>1. new.asg \in [Assignments -> AssignmentStatuses]
      BY <2>2 DEF WorkTypes, StatusesOK, SetStatus, AssignmentStatuses
    <3>2. new.mission \in [Missions -> MissionStatuses]
      BY <2>2 DEF WorkTypes, StatusesOK, MissionStatuses
    <3>. QED
      BY <2>2, <3>1, <3>2 DEF WorkTypes, StatusesOK
  <2>5. /\ CallEnded(p) /\ StatusesOK(state') /\ state'.asg = new.asg
        /\ state'.mission = new.mission /\ state'.gate = new.gate
    BY <2>1, <2>4, CommitIs, UpdateCall, NoCallEnds
  <2>6. WorkMoved(p)
    BY <2>2, <2>3, <2>5 DEF WorkMoved, SetStatus
  <2>7. GateEffect(p) /\ \A n \in Missions : state.mission[n] # "none" => state'.mission[n] # "none"
    BY <2>2, <2>5 DEF GateEffect, WorkTypes, StatusesOK
  <2>. QED
    BY <2>5, <2>6, <2>7 DEF WorkStep, StateEffect, WorkEffect
<1>2. CASE Finish(p)
  <2> DEFINE new == Finished(state, m)
  <2>1. Commit(p, "MISSION_STATUS", "VALIDATING", new, NoCall)
    BY <1>2 DEF Finish
  <2>2. /\ {"asg", "gate", "mission"} \subseteq DOMAIN new /\ new.gate = state.gate
        /\ new.asg = state.asg /\ new.mission = [state.mission EXCEPT ![m] = "VALIDATING"]
    BY DEF WorkTypes, StatusesOK, Finished
  <2> HIDE DEF new
  <2>3. StatusesOK(new) /\ \A n \in Missions : state.mission[n] # "none" => new.mission[n] # "none"
    BY <2>2 DEF WorkTypes, StatusesOK, MissionStatuses
  <2>. QED
    BY <2>1, <2>2, <2>3, OtherCommit
<1>3. CASE Advance(p)
  <2>1. PICK kind, to, milestone : Commit(p, kind, to, [state EXCEPT !.milestone = milestone], NoCall)
    BY <1>3 DEF Advance
  <2> DEFINE new == [state EXCEPT !.milestone = milestone]
  <2>2. StatusesOK(new) /\ new.asg = state.asg /\ new.gate = state.gate /\ new.mission = state.mission
    BY DEF WorkTypes, StatusesOK
  <2>3. Commit(p, kind, to, new, NoCall)
    BY <2>1
  <2> HIDE DEF new
  <2>. QED
    BY <2>2, <2>3, OtherCommit
<1>4. ASSUME NEW op, NEW to, Move(p, op, to),
             \/ op = "dispatch" /\ to = "IN_PROGRESS"
             \/ op = "fail" /\ to = "FAILED"
      PROVE  WorkStep(p)
  <2> DEFINE new == [state EXCEPT !.asg[m] = to]
  <2>1. Commit(p, "ASSIGNMENT_STATUS", to, new, NoCall) /\ Doing(p, op)
    BY <1>4 DEF Move
  <2>2. /\ {"asg", "gate", "mission"} \subseteq DOMAIN new /\ new.gate = state.gate
        /\ new.asg = [state.asg EXCEPT ![m] = to] /\ new.mission = state.mission
    BY DEF WorkTypes, StatusesOK
  <2> HIDE DEF new
  <2>3. StatusesOK(new)
    BY <1>4, <2>2 DEF WorkTypes, StatusesOK, AssignmentStatuses
  <2>4. /\ CallEnded(p) /\ StatusesOK(state') /\ state'.asg = new.asg
        /\ state'.mission = new.mission /\ state'.gate = new.gate
    BY <2>1, <2>3, CommitIs, UpdateCall, NoCallEnds
  <2>5. WorkMoved(p)
    <3>1. state.asg \in [Assignments -> AssignmentStatuses]
      BY DEF WorkTypes, StatusesOK
    <3>2. ASSUME NEW a \in Assignments PROVE state'.asg[a] = IF a = m THEN to ELSE state.asg[a]
      BY <2>2, <2>4, <3>1
    <3>3. QED
      BY <1>4, <2>1, <3>2 DEF WorkMoved
  <2>6. GateEffect(p) /\ \A n \in Missions : state.mission[n] # "none" => state'.mission[n] # "none"
    BY <2>2, <2>4 DEF GateEffect
  <2>. QED
    BY <2>4, <2>5, <2>6 DEF WorkStep, StateEffect, WorkEffect
<1>5. CASE Complete(p)
  <2> DEFINE next == Call("write_result", m, "COMPLETED", {})
             done == [state EXCEPT !.asg[m] = "COMPLETED"]
             woken == Promoted(done, MissionOf[m])
             new == [done EXCEPT !.asg = woken]
  <2>1. /\ Commit(p, "ASSIGNMENT_STATUS", "COMPLETED", new, next)
        /\ Doing(p, "complete") /\ next.op = "write_result"
    BY <1>5 DEF Complete, Completed, Call
  <2>2. /\ {"asg", "gate", "mission"} \subseteq DOMAIN done /\ done.gate = state.gate
        /\ done.mission = state.mission /\ done.asg = [state.asg EXCEPT ![m] = "COMPLETED"]
    BY DEF WorkTypes, StatusesOK
  <2> HIDE DEF done, next
  <2>3. /\ woken \in [Assignments -> AssignmentStatuses]
        /\ \A a \in Assignments : \/ woken[a] = done.asg[a]
                                  \/ done.asg[a] = "PENDING" /\ woken[a] = "READY"
    BY <2>2 DEF Promoted, SetStatus, InStatus, WorkTypes, StatusesOK, AssignmentStatuses
  <2> HIDE DEF woken
  <2>4. /\ {"asg", "gate", "mission"} \subseteq DOMAIN new /\ new.gate = state.gate
        /\ new.mission = state.mission /\ new.asg = woken
    BY <2>2
  <2> HIDE DEF new
  <2>5. StatusesOK(new)
    BY <2>3, <2>4 DEF WorkTypes, StatusesOK
  <2>6. /\ CallEnded(p) /\ StatusesOK(state') /\ state'.asg = new.asg
        /\ state'.mission = new.mission /\ state'.gate = new.gate
    BY <2>1, <2>5, CommitIs, UpdateCall
  <2>7. WorkMoved(p)
    <3>1. state.asg \in [Assignments -> AssignmentStatuses]
      BY DEF WorkTypes, StatusesOK
    <3>2. ASSUME NEW a \in Assignments
          PROVE  \/ state'.asg[a] = state.asg[a]
                 \/ state.asg[a] = "PENDING" /\ state'.asg[a] = "READY"
                 \/ a = m /\ state'.asg[a] = "COMPLETED"
      <4>1. done.asg[a] = IF a = m THEN "COMPLETED" ELSE state.asg[a]
        BY <2>2, <3>1
      <4>2. state'.asg[a] = woken[a]
        BY <2>4, <2>6
      <4>3. QED
        BY <2>3, <4>1, <4>2
    <3>3. QED
      BY <2>1, <3>2 DEF WorkMoved
  <2>8. GateEffect(p) /\ \A n \in Missions : state.mission[n] # "none" => state'.mission[n] # "none"
    BY <2>4, <2>6 DEF GateEffect
  <2>. QED
    BY <2>6, <2>7, <2>8 DEF WorkStep, StateEffect, WorkEffect
<1>6. CASE WriteResult(p)
  BY <1>6, AbandonedCall DEF WriteResult
<1>7. ~(Pause(p) \/ ResumeSession(p) \/ Cancel(p) \/ Block(p) \/ Unblock(p))
  BY DEF CallOK, Uncalled, Pause, ResumeSession, Cancel, Block, Unblock, Move, Doing
<1>. QED
  BY <1>1, <1>2, <1>3, <1>4, <1>5, <1>6, <1>7 DEF ExecutionCommit, Dispatch, Fail

-----------------------------------------------------------------------------
(* The calls that are checked.                                             *)

LEMMA RestStep == ASSUME WorkTypes, NEW p, UNCHANGED coreVars PROVE WorkStep(p)
<1>1. state' = state
  BY DEF coreVars
<1>. QED
  BY <1>1, NoEffect DEF WorkStep, Rest

LEMMA AgentPlan ==
  ASSUME WorkTypes, NEW p \in Procs, NEW op, NEW x, NEW statuses, CheckAgent(p, op, x, statuses),
         op \notin Uncalled \cup {"dispatch", "complete", "fail", "start_gate"}
  PROVE  WorkStep(p)
<1> DEFINE plan == Call(op, x, state.agent[x], {})
<1>1. Plan(p, plan) /\ plan.op = op
  BY DEF CheckAgent, Call
<1> HIDE DEF plan
<1>. QED
  BY <1>1, OtherPlan, PlannedCall

LEMMA RecoveryWork ==
  ASSUME WorkTypes, NEW p \in Procs, RecoveryStep(p) PROVE WorkStep(p)
<1>1. CASE RecoveryCheck(p)
  <2>1. CASE \E y : CheckSetDependency(p, y, "VERIFIED")
    <3>1. PICK y : Plan(p, Call("dependency", y, "VERIFIED", {}))
      BY <2>1 DEF CheckSetDependency
    <3> DEFINE plan == Call("dependency", y, "VERIFIED", {})
    <3>2. plan.op = "dependency" /\ Plan(p, plan)
      BY <3>1 DEF Call
    <3> HIDE DEF plan
    <3>. QED
      BY <3>2, OtherPlan, PlannedCall DEF Uncalled
  <2>2. CASE \E y, a : CheckClaim(p, y, a)
    <3>1. PICK y, a : Plan(p, Call("claim", y, "READY", {a}))
      BY <2>2 DEF CheckClaim
    <3> DEFINE plan == Call("claim", y, "READY", {a})
    <3>2. plan.op = "claim" /\ Plan(p, plan)
      BY <3>1 DEF Call
    <3> HIDE DEF plan
    <3>. QED
      BY <3>2, OtherPlan, PlannedCall DEF Uncalled
  <2>3. CASE \E op \in {"close", "fail_record"} : \E x : Plan(p, Call(op, x, "IN_PROGRESS", {}))
    <3>1. PICK op, x : op \in {"close", "fail_record"} /\ Plan(p, Call(op, x, "IN_PROGRESS", {}))
      BY <2>3
    <3> DEFINE plan == Call(op, x, "IN_PROGRESS", {})
    <3>2. plan.op = op /\ Plan(p, plan)
      BY <3>1 DEF Call
    <3> HIDE DEF plan
    <3>. QED
      BY <3>1, <3>2, OtherPlan, PlannedCall DEF Uncalled
  <2>4. CASE \E op \in {"quarantine", "release", "register", "activate", "ready"} : \E x, statuses :
               CheckAgent(p, op, x, statuses)
    BY <2>4, AgentPlan DEF Uncalled
  <2>. QED
    BY <1>1, <2>1, <2>2, <2>3, <2>4 DEF RecoveryCheck, StepCheck, CheckQuarantine, CheckRelease,
       CheckRegister, CheckActivate, CheckReady
<1>2. CASE CreateRecord(p) \/ CloseRecord(p)
  BY <1>2, EmptyUpdate, OtherCommit DEF CreateRecord, CloseRecord, WorkTypes
<1>3. CASE StepDone(p)
  BY <1>3, AgentUpdate DEF StepDone
<1>4. CASE StepRefused(p) \/ SkipClaim(p)
  BY <1>4, RestStep DEF StepRefused, SkipClaim, coreVars
<1>5. CASE StepAbandoned(p)
  BY <1>5, AbandonedCall DEF StepAbandoned, Abandon
<1>. QED
  BY <1>1, <1>2, <1>3, <1>4, <1>5 DEF RecoveryStep

\* The calls of AEX find the assignment as they need it.
LEMMA AssignmentPlan ==
  ASSUME WorkTypes, NEW p \in Procs, NEW a,
         NEW op, NEW status, CheckAssignment(p, a, op, {status}),
         \/ op = "dispatch" /\ status = "READY"
         \/ op \in {"complete", "fail"} /\ status = "IN_PROGRESS"
  PROVE  WorkStep(p)
<1> DEFINE plan == Call(op, a, state.asg[a], {})
<1>1. Plan(p, plan) /\ plan.op = op /\ plan.subject = a /\ state.asg[a] = status
  BY DEF CheckAssignment, Call
<1> HIDE DEF plan
<1>2. PlanFits(plan)
  BY <1>1 DEF PlanFits, CallOK, FreshWork, Uncalled
<1>. QED
  BY <1>1, <1>2, PlannedCall

\* The other calls of operators and agents.
LEMMA OtherCall ==
  ASSUME WorkTypes, NEW p \in Procs, NEW op, NEW x, NEW from, NEW rows,
         Plan(p, Call(op, x, from, rows)),
         op \in {"start", "finish", "advance", "green", "refuse", "open", "resolve", "create"}
  PROVE  WorkStep(p)
<1> DEFINE plan == Call(op, x, from, rows)
<1>1. plan.op = op /\ Plan(p, plan)
  BY DEF Call
<1> HIDE DEF plan
<1>. QED
  BY <1>1, OtherPlan, PlannedCall DEF Uncalled

\* The scheduler starts a gate after the work.
LEMMA GatePlan ==
  ASSUME WorkTypes, NEW p \in Procs, NEW g, CheckStartGate(p, g), AfterWork(g)
  PROVE  WorkStep(p)
<1> DEFINE plan == Call("start_gate", g, "PENDING", {})
<1>1. Plan(p, plan) /\ plan.op = "start_gate" /\ plan.subject = g
  BY DEF CheckStartGate, CheckGate, Call
<1> HIDE DEF plan
<1>2. PlanFits(plan)
  BY <1>1 DEF PlanFits, CallOK, FreshWork, Uncalled
<1>. QED
  BY <1>1, <1>2, PlannedCall

LEMMA ExecuteWork ==
  ASSUME WorkTypes, NEW p \in Procs, NEW d, DecisionOK(d), Carry(p, d), Applies(d)
  PROVE  WorkStep(p)
<1>1. CASE d.kind = "DISPATCH"
  BY <1>1, AssignmentPlan DEF Carry, CheckDispatch
<1>2. CASE d.kind = "VALIDATE"
  BY <1>2, GatePlan DEF Carry, DecisionOK
<1>3. CASE d.kind = "COMPLETE_MISSION"
  BY <1>3, OtherCall DEF Carry, CheckFinish
<1>4. CASE d.kind = "RECOVER"
  BY <1>4, OtherCall DEF Carry, StartRecovery
<1>. QED
  BY <1>1, <1>2, <1>3, <1>4 DEF Applies

LEMMA WorkIs == ASSUME WorkTypes, NEW p \in Procs, Work(p) PROVE WorkStep(p)
<1>1. CASE Reconcile(p)
  BY <1>1, OtherCommit DEF Reconcile, WorkTypes
<1>2. ASSUME NEW m \in Missions, Bind(p, m) \/ CheckStart(p, m) \/ CheckAdvance(p, m)
      PROVE  WorkStep(p)
  BY <1>2, BindWork, OtherCall DEF CheckStart, CheckAdvance
<1>3. ASSUME NEW a \in Assignments, CheckComplete(p, a) PROVE WorkStep(p)
  BY <1>3, AssignmentPlan DEF CheckComplete
<1>4. CASE Validate(p)
  BY <1>4, OtherCall DEF Validate, CheckGreen, CheckRefuse, CheckGate
<1>5. ASSUME NEW r \in Risks, CheckOpen(p, r) \/ CheckResolve(p, r) PROVE WorkStep(p)
  BY <1>5, OtherCall DEF CheckOpen, CheckResolve, CheckRisk
<1>. QED
  BY <1>1, <1>2, <1>3, <1>4, <1>5 DEF Work

LEMMA EngineIs ==
  ASSUME WorkTypes, NEW p \in Procs, CallOK(call[p]), Engine(p) PROVE WorkStep(p)
<1>1. CASE Abandon(p)
  BY <1>1, AbandonedCall DEF Abandon
<1>2. CASE AgentFail(p)
  BY <1>2, AgentUpdate DEF AgentCommit
<1>. QED
  BY <1>1, <1>2, ExecutionUpdate, GateUpdate, RecoveryWork DEF Engine, EngineCommit

LEMMA DisturbIs == ASSUME WorkTypes, NEW p \in Procs, Disturb(p) PROVE WorkStep(p)
<1>1. CASE Abandon(p) \/ TickCrash(p)
  BY <1>1, AbandonedCall DEF Abandon, TickCrash
<1>2. ASSUME NEW a \in Assignments, CheckFail(p, a) PROVE WorkStep(p)
  BY <1>2, AssignmentPlan DEF CheckFail
<1>3. ASSUME NEW x \in Agents, CheckAgentFail(p, x) PROVE WorkStep(p)
  BY <1>3, AgentPlan DEF CheckAgentFail, Uncalled
<1>4. CASE SetEnabled(p)
  BY <1>4, EmptyUpdate DEF SetEnabled
<1>5. CASE Diverge
  BY <1>5, RestStep DEF Diverge, coreVars
<1>. QED
  BY <1>1, <1>2, <1>3, <1>4, <1>5 DEF Disturb, Mishap

LEMMA TickWork ==
  ASSUME WorkTypes, NEW p \in Procs, Tick(p), tick[p] # NoTick => DecisionOK(tick[p].decision)
  PROVE  WorkStep(p)
<1>1. CASE TickExecute(p)
  <2>1. tick[p] # NoTick
    BY <1>1 DEF TickExecute, Ticking, NoTick
  <2>. QED
    BY <1>1, <2>1, ExecuteWork DEF TickExecute
<1>2. CASE ~TickExecute(p)
  BY <1>2, RestStep DEF Tick, TickStalled, coreVars
<1>. QED
  BY <1>1, <1>2

-----------------------------------------------------------------------------
(* Decisions.                                                              *)

LEMMA FallbackIs == ASSUME NEW d \in Fallbacks(state) PROVE DecisionOK(d)
<1>1. CASE d.kind # "VALIDATE"
  BY <1>1 DEF DecisionOK
<1>2. CASE d.kind = "VALIDATE"
  <2>1. PICK g \in PendingGates(state, state.active) :
          d = Decision("VALIDATE", g) /\ AllCompleted(state, state.active)
    BY <1>2 DEF Fallbacks, Decision
  <2>2. GateMission[g] = state.active /\ d.target = g
    BY <2>1 DEF PendingGates, MissionGates, Decision
  <2>. QED
    BY <2>1, <2>2 DEF DecisionOK, AfterWork
<1>. QED
  BY <1>1, <1>2

\* A tick starts, goes on with its decision, or makes one.
LEMMA DecisionsAre ==
  ASSUME TicksOK, NEW p \in Procs, Tick(p), tick[p] # NoTick => DecisionOK(tick[p].decision)
  PROVE  /\ \E t : tick' = [tick EXCEPT ![p] = t]
         /\ tick'[p] = NoTick \/ DecisionOK(tick'[p].decision)
<1>1. \A q, s : Ticking(q, s) /\ s # "none" => tick[q] # NoTick
  BY DEF Ticking, NoTick
<1>2. CASE TickLoad(p)
  <2>1. PICK fallback \in Fallbacks(state) :
          tick' = [tick EXCEPT ![p] =
            [step |-> "hold", enabled |-> enabled, failed |-> FailedAgents(state),
             active |-> state.active, decision |-> fallback]]
    BY <1>2 DEF TickLoad
  <2>2. tick'[p].decision = fallback
    BY <2>1 DEF TicksOK
  <2>. QED
    BY <2>1, <2>2, FallbackIs
<1>3. \A kind, x : kind \in {"HOLD", "RECOVER", "DISPATCH"} => DecisionOK(Decision(kind, x))
  BY DEF DecisionOK, Decision
<1>4. CASE TickHold(p)
  <2>1. tick[p] # NoTick
    BY <1>1, <1>4 DEF TickHold
  <2>2. CASE Hold(state)
    BY <1>3, <1>4, <2>1, <2>2, DecideIs DEF TickHold
  <2>3. CASE ~Hold(state)
    BY <1>3, <1>4, <2>1, <2>3, DecideIs, StepIs DEF TickHold
  <2>. QED
    BY <2>2, <2>3
<1>5. CASE TickSchedule(p) \/ TickStalled(p)
  <2>1. tick[p] # NoTick
    BY <1>1, <1>5 DEF TickSchedule, TickStalled
  <2>. QED
    BY <1>3, <1>5, <2>1, DecideIs DEF TickSchedule, TickStalled
<1>6. CASE TickEnd(p)
  BY <1>6 DEF TickEnd, TicksOK
<1>7. CASE TickExecute(p)
  <2>1. tick[p] # NoTick
    BY <1>1, <1>7 DEF TickExecute
  <2>. QED
    BY <1>7, <2>1, StepIs DEF TickExecute
<1>. QED
  BY <1>2, <1>4, <1>5, <1>6, <1>7 DEF Tick

\* Every step, by one process.
TickEffect(p) ==
  \/ tick' = tick
  \/ /\ \E t : tick' = [tick EXCEPT ![p] = t]
     /\ tick'[p] = NoTick \/ DecisionOK(tick'[p].decision)
LEMMA EveryStep ==
  ASSUME GatesInv, SchedulerNext PROVE \E p \in Procs : WorkStep(p) /\ TickEffect(p)
<1> USE DEF GatesInv
<1>1. ASSUME NEW p \in Schedulers, Tick(p) PROVE p \in Procs /\ WorkStep(p) /\ TickEffect(p)
  <2>1. p \in Procs
    BY SchedulersAssumption
  <2>. QED
    BY <1>1, <2>1, TickWork, DecisionsAre DEF TickEffect
<1>2. ASSUME NEW p \in Procs, Work(p) PROVE WorkStep(p) /\ TickEffect(p)
  BY <1>2, WorkIs DEF Work, TickEffect
<1>3. ASSUME NEW p \in Procs, Engine(p) PROVE WorkStep(p) /\ TickEffect(p)
  BY <1>3, EngineIs DEF Engine, TickEffect
<1>4. ASSUME NEW p \in Procs, Disturb(p) PROVE WorkStep(p) /\ TickEffect(p)
  <2>1. CASE TickCrash(p)
    <3>1. tick' = [tick EXCEPT ![p] = NoTick] /\ tick'[p] = NoTick
      BY <2>1 DEF TickCrash, TicksOK
    <3>. QED
      BY <1>4, <3>1, DisturbIs DEF TickEffect
  <2>2. CASE ~TickCrash(p)
    BY <1>4, <2>2, DisturbIs DEF Disturb, TickEffect
  <2>. QED
    BY <2>1, <2>2
<1>. QED
  BY <1>1, <1>2, <1>3, <1>4 DEF SchedulerNext

\* As long as no call is overtaken, completed work stays completed.
LEMMA CompletionStays ==
  ASSUME GatesInv, NEW p \in Procs, WorkStep(p), races' = 0, NEW a \in Assignments
  PROVE  races = 0 /\ (state.asg[a] = "COMPLETED" => state'.asg[a] = "COMPLETED")
<1>1. races = 0
  BY DEF WorkStep, CallChecked, CallEnded, Rest, coreVars
<1>2. MissionOf[a] \in Missions
  BY RowsAssumption
<1>3. CASE state' = state
  BY <1>1, <1>3
<1>4. CASE state' # state
  <2>1. p \notin overtaken
    BY <1>4 DEF WorkStep, CallChecked, CallEnded, Rest, coreVars
  <2>2. FreshWork(call[p])
    BY <1>1, <2>1 DEF GatesInv
  <2>3. ASSUME NEW m \in Missions, Bringing(m), state.asg[a] = "COMPLETED"
        PROVE  state'.asg[a] = "COMPLETED"
    BY <1>2, <2>3 DEF Bringing, GatesInv
  <2>4. ASSUME WorkMoved(p), state.asg[a] = "COMPLETED" PROVE state'.asg[a] = "COMPLETED"
    BY <2>2, <2>4 DEF WorkMoved, FreshWork, Doing
  <2>. QED
    BY <1>1, <2>3, <2>4 DEF WorkStep, StateEffect, WorkEffect, Untouched
<1>. QED
  BY <1>3, <1>4

LEMMA AfterWorkStays ==
  ASSUME GatesInv, NEW p \in Procs, WorkStep(p), NEW g, AfterWork(g) PROVE AfterWork(g)'
<1>. SUFFICES ASSUME races' = 0, NEW a \in MissionAssignments(GateMission[g])
     PROVE  state'.asg[a] = "COMPLETED"
  BY DEF AfterWork, AllCompleted, MissionAssignments
<1>1. a \in Assignments
  BY DEF MissionAssignments
<1>2. races = 0
  BY <1>1, CompletionStays
<1>3. state.asg[a] = "COMPLETED"
  BY <1>2 DEF AfterWork, AllCompleted
<1>. QED
  BY <1>1, <1>3, CompletionStays

LEMMA GatesInvStep ==
  ASSUME GatesInv, NEW p \in Procs, WorkStep(p), TickEffect(p), TicksOK' PROVE GatesInv'
<1>1. WorkTypes'
  <2>1. StatusesOK(state')
    BY DEF WorkStep, StateEffect
  <2>2. call' = [q \in Procs |-> call'[q]] /\ races' \in Nat
    BY DEF GatesInv, WorkTypes, WorkStep, CallChecked, CallEnded, Rest, coreVars
  <2>. QED
    BY <2>1, <2>2 DEF WorkTypes, StatusesOK
<1>2. ASSUME NEW a \in Assignments, state'.asg[a] # "none" PROVE state'.mission[MissionOf[a]] # "none"
  <2>1. MissionOf[a] \in Missions
    BY RowsAssumption
  <2>2. state.asg[a] = "none" => MissionOf[a] \in Missions /\ Bringing(MissionOf[a])
    <3>1. ASSUME state.asg[a] = "none", WorkMoved(p) PROVE FALSE
      BY <1>2, <3>1 DEF WorkMoved, GatesInv, CallOK, Doing
    <3>2. ASSUME NEW m \in Missions, Bringing(m), state.asg[a] = "none" PROVE MissionOf[a] = m
      BY <1>2, <3>2 DEF Bringing
    <3>. QED
      BY <1>2, <2>1, <3>1, <3>2 DEF WorkStep, StateEffect, WorkEffect, Untouched
  <2>3. state.asg[a] # "none" => state.mission[MissionOf[a]] # "none"
    BY DEF GatesInv
  <2>. QED
    BY <2>1, <2>2, <2>3 DEF Bringing, WorkStep, StateEffect
\* No work is taken back to where it was before its mission was bound.
<1>3. ASSUME NEW a \in Assignments, state.asg[a] # "none" PROVE state'.asg[a] # "none"
  BY <1>3 DEF WorkStep, StateEffect, WorkEffect, Untouched, Bringing, WorkMoved
<1>4. ASSUME NEW q \in Procs PROVE CallOK(call[q])'
  <2>1. ASSUME CallOK(call[q]), call'[q] = call[q] PROVE CallOK(call[q])'
    BY <1>3, <2>1, AfterWorkStays DEF CallOK
  <2>2. CASE call'[q] = call[q]
    BY <2>1, <2>2 DEF GatesInv
  <2>3. CASE call'[q] # call[q] /\ CallEnded(p)
    <3>1. call'[q].op \in {"none", "write_result"}
      BY <2>3 DEF CallEnded, GatesInv, WorkTypes
    <3>. QED
      BY <3>1 DEF CallOK, Uncalled
  <2>4. CASE call'[q] # call[q] /\ CallChecked(p)
    <3>1. CallOK(call'[q]) /\ state' = state /\ races' = races
      BY <2>4 DEF CallChecked, GatesInv, WorkTypes, PlanFits
    <3>. QED
      BY <3>1 DEF CallOK, AfterWork, AllCompleted
  <2>. QED
    BY <2>2, <2>3, <2>4 DEF WorkStep, Rest, coreVars
<1>5. ASSUME races' = 0, NEW q \in Procs \ overtaken' PROVE FreshWork(call[q])'
  <2>1. races = 0
    BY <1>5 DEF WorkStep, CallChecked, CallEnded, Rest, coreVars
  <2>2. ASSUME state' = state, call'[q] = call[q], q \notin overtaken PROVE FreshWork(call[q])'
    BY <2>1, <2>2 DEF GatesInv, FreshWork
  <2>3. CASE CallChecked(p)
    <3>1. CASE call'[q] = call[q]
      BY <1>5, <2>2, <2>3, <3>1 DEF CallChecked
    <3>2. CASE call'[q] # call[q]
      <4>1. FreshWork(call'[q]) /\ state' = state
        BY <2>3, <3>2 DEF CallChecked, GatesInv, WorkTypes, PlanFits
      <4>. QED
        BY <4>1 DEF FreshWork
    <3>. QED
      BY <3>1, <3>2
  <2>4. CASE CallEnded(p)
    <3>1. CASE q = p
      <4>1. call'[q].op \in {"none", "write_result"}
        BY <2>4, <3>1 DEF CallEnded, GatesInv, WorkTypes
      <4>. QED
        BY <4>1 DEF FreshWork
    <3>2. CASE q # p
      <4>1. call'[q] = call[q]
        BY <2>4, <3>2 DEF CallEnded, GatesInv, WorkTypes
      <4>2. CASE state' = state
        BY <1>5, <2>2, <2>4, <3>2, <4>1, <4>2 DEF CallEnded
      <4>3. CASE state' # state
        <5>1. call'[q].op = "none"
          BY <1>5, <2>4, <3>2, <4>1, <4>3, NoCallEnds DEF CallEnded, Idle
        <5>. QED
          BY <5>1 DEF FreshWork
      <4>. QED
        BY <4>2, <4>3
    <3>. QED
      BY <3>1, <3>2
  <2>5. CASE Rest
    BY <1>5, <2>2, <2>5 DEF Rest, coreVars
  <2>. QED
    BY <2>3, <2>4, <2>5 DEF WorkStep
<1>6. ASSUME NEW q \in Procs, tick'[q] # NoTick PROVE DecisionOK(tick[q].decision)'
  <2>1. DecisionOK(tick'[q].decision)
    BY <1>6 DEF TickEffect, GatesInv, TicksOK
  <2>. QED
    BY <2>1, AfterWorkStays DEF DecisionOK
<1>. QED
  BY <1>1, <1>2, <1>4, <1>5, <1>6 DEF GatesInv

\* Whatever happens between its loads and the update, the scheduler starts a gate only
\* when all of the work is done: for any number of schedulers, agents and missions.
THEOREM GateAfterWorkHolds == SchedulerSpec => GateAfterWork
<1>1. SchedulerInit => GatesInv
  <2>. SUFFICES ASSUME SchedulerInit PROVE GatesInv
    OBVIOUS
  <2>1. /\ state = EmptyState /\ call = [p \in Procs |-> NoCall] /\ races = 0
        /\ tick = [p \in Procs |-> NoTick]
    BY DEF SchedulerInit, AgentsInit, InitState
  <2>2. TicksOK
    BY <2>1 DEF TicksOK, TickOK
  <2>3. WorkTypes
    BY <2>1 DEF WorkTypes, StatusesOK, EmptyState, AssignmentStatuses, GateStatuses, MissionStatuses
  <2>4. \A a \in Assignments : state.asg[a] = "none"
    BY <2>1 DEF EmptyState
  <2>5. \A p \in Procs : CallOK(call[p]) /\ FreshWork(call[p])
    BY <2>1, NoCallEnds DEF CallOK, FreshWork, Uncalled
  <2>. QED
    BY <2>1, <2>2, <2>3, <2>4, <2>5 DEF GatesInv
<1>2. GatesInv /\ [SchedulerNext]_schedulerVars => GatesInv'
  <2>. SUFFICES ASSUME GatesInv, [SchedulerNext]_schedulerVars PROVE GatesInv'
    OBVIOUS
  <2>1. CASE UNCHANGED schedulerVars
    <3>1. state' = state /\ call' = call /\ overtaken' = overtaken /\ races' = races /\ tick' = tick
      BY <2>1 DEF schedulerVars
    <3>. QED
      BY <3>1 DEF GatesInv, TicksOK, WorkTypes, CallOK, FreshWork, DecisionOK, AfterWork, AllCompleted
  <2>2. CASE SchedulerNext
    <3>1. PICK p \in Procs : WorkStep(p) /\ TickEffect(p)
      BY <2>2, EveryStep
    <3>2. tick' = tick \/ \E q \in Procs : TickStep(q)
      BY <2>2, TicksAre DEF GatesInv
    <3>3. TicksOK'
      BY <3>2 DEF TickStep, TicksOK, GatesInv
    <3>. QED
      BY <3>1, <3>3, GatesInvStep
  <2>. QED
    BY <2>1, <2>2
<1>3. ASSUME GatesInv, [SchedulerNext]_schedulerVars, races' = 0, NEW g \in Gates,
             state.gate[g] = "PENDING", state'.gate[g] = "RUNNING"
      PROVE  AllCompleted(state, GateMission[g])
  <2>1. SchedulerNext
    BY <1>3 DEF schedulerVars
  <2>2. PICK p \in Procs : WorkStep(p)
    BY <1>3, <2>1, EveryStep
  <2>3. races = 0
    BY <1>3, <2>2 DEF WorkStep, CallChecked, CallEnded, Rest, coreVars
  <2>4. Doing(p, "start_gate") /\ call[p].subject = g
    BY <1>3, <2>2 DEF WorkStep, StateEffect, GateEffect
  <2>. QED
    BY <1>3, <2>3, <2>4 DEF GatesInv, CallOK, AfterWork, Doing
<1>4. GatesInv /\ [SchedulerNext]_schedulerVars =>
        [races' = 0 => \A p \in Schedulers, g \in Gates :
           call[p] # call'[p] /\ state.gate[g] = "PENDING" /\ state'.gate[g] = "RUNNING"
             => AllCompleted(state, GateMission[g])]_schedulerVars
  BY <1>3
<1>. QED
  BY <1>1, <1>2, <1>4, PTL DEF SchedulerSpec, GateAfterWork
===============================================================================

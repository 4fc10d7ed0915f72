----------------------------- MODULE Gates_proofs -----------------------------
(***************************************************************************)
(* Only edits of evidence shut the store and verdicts stay, for any gates, *)
(* risks, contents of evidence and number of processes.                    *)
(***************************************************************************)
EXTENDS Gates, WellFoundedInduction, TLAPS

\* The least element of a set of numbers is one of it.
LEMMA LeastIsMember == ASSUME NEW S \in SUBSET Nat, S # {} PROVE Min(S) \in S
<1>1. PICK x \in S : \A y \in S : ~(<<y, x>> \in OpToRel(<, Nat))
  BY NatLessThanWellFounded, WFMin
<1>2. \A y \in S : x =< y
  <2>. SUFFICES ASSUME NEW y \in S, y < x PROVE FALSE
    OBVIOUS
  <2>1. <<y, x>> \in OpToRel(<, Nat)
    BY DEF OpToRel
  <2>. QED
    BY <1>1, <2>1
<1>. QED
  BY <1>2 DEF Min

-----------------------------------------------------------------------------
(* What each mutation does to a state.                                     *)

LEMMA BoundEffect ==
  ASSUME NEW s \in States, NEW m \in Missions, NEW v \in BOOLEAN
  PROVE  /\ Bound(s, m, v) \in States
         /\ Bound(s, m, v).mission = [s.mission EXCEPT ![m] = "PLANNED"]
         /\ Bound(s, m, v).gate = [g \in Gates |-> IF GateMission[g] = m THEN "PENDING" ELSE s.gate[g]]
         /\ Bound(s, m, v).risk = s.risk
<1>1. Phases(m) # {} => Min(Phases(m)) \in Nat
  BY LeastIsMember, RowsAssumption DEF Phases, MissionAssignments
<1>2. \A own \in SUBSET Assignments : own # {} => Min(own) \in Assignments
  BY LeastIsMember, IdsAssumption
<1>. QED
  BY <1>1, <1>2 DEF Bound, States, MissionStatuses, SessionStatuses, AssignmentStatuses,
                    DepStatuses, AgentStatuses, GateStatuses, MissionAssignments

LEMMA RiskEffect ==
  ASSUME NEW s \in States, NEW r \in Risks, NEW to \in RiskStatuses
  PROVE  LET new == [s EXCEPT !.risk[r] = to]
         IN  /\ new \in States /\ new.mission = s.mission /\ new.gate = s.gate
             /\ new.risk = [s.risk EXCEPT ![r] = to]
BY DEF States

-----------------------------------------------------------------------------
(* The calls under way, and what a call that was not overtaken finds.      *)

GateFrom == [start_gate |-> "PENDING", green |-> "RUNNING", refuse |-> "RUNNING",
             invalidate |-> "GREEN"]
GateOps  == DOMAIN GateFrom
RiskFrom == [open |-> {"none"}, mitigate |-> {"OPEN"}, accept |-> {"OPEN"}, halt |-> {"OPEN"},
             resolve |-> {"OPEN", "MITIGATING"}]
RiskOps  == DOMAIN RiskFrom

Calls == [op : {"none"} \cup GateOps \cup RiskOps, subject : Gates \cup Risks \cup {None},
          from : GateStatuses \cup RiskStatuses, rows : SUBSET Versions]
Types ==
  /\ state \in States /\ call \in [Procs -> Calls]
  /\ overtaken \subseteq Procs /\ races \in 0..MaxRaces
  /\ disk \in [Gates -> Versions] /\ sealed \in [Gates -> Versions \cup {None}]
  /\ diverged \in BOOLEAN

\* A call is about a gate of a mission that was bound, or about a risk.
CallsOK == \A p \in Procs :
  /\ call[p].op \in GateOps =>
       /\ call[p].subject \in Gates /\ state.mission[GateMission[call[p].subject]] # "none"
       /\ call[p].from = GateFrom[call[p].op]
  /\ call[p].op \in RiskOps =>
       call[p].subject \in Risks /\ call[p].from \in RiskFrom[call[p].op]
UnboundHasNoGate ==
  \A g \in Gates : state.mission[GateMission[g]] = "none" => state.gate[g] = "none"

Fresh(p) ==
  /\ call[p].op \in GateOps => state.gate[call[p].subject] = call[p].from
  /\ call[p].op \in RiskOps => state.risk[call[p].subject] = call[p].from
FreshCalls == \A p \in Procs \ overtaken : Fresh(p)

Inv == Types /\ CallsOK /\ UnboundHasNoGate /\ FreshCalls

\* What a step of p does to gates and risks.
Same == state'.gate = state.gate /\ state'.risk = state.risk /\ state'.mission = state.mission
Binding(m) ==
  /\ state.mission[m] = "none" /\ state'.mission = [state.mission EXCEPT ![m] = "PLANNED"]
  /\ state'.gate = [g \in Gates |-> IF GateMission[g] = m THEN "PENDING" ELSE state.gate[g]]
  /\ state'.risk = state.risk
Judging(p, op, to) ==
  /\ Doing(p, op) /\ state'.mission = state.mission /\ state'.risk = state.risk
  /\ state'.gate = [state.gate EXCEPT ![call[p].subject] = to]
Settling(p, to) ==
  /\ call[p].op \in RiskOps /\ state'.mission = state.mission /\ state'.gate = state.gate
  /\ state'.risk = [state.risk EXCEPT ![call[p].subject] = to]
\* What it does to the evidence: nothing, or it seals what it has just read.
Unsealed == sealed' = sealed
Sealing(p) ==
  LET g == call[p].subject
  IN  /\ Loadable /\ g \in Gates /\ disk' \in [Gates -> Versions]
      /\ sealed' = [sealed EXCEPT ![g] = disk[g]]
Effect(p) ==
  \/ Same
  \/ \E m \in Missions : Binding(m)
  \/ Judging(p, "start_gate", "RUNNING")
  \/ \E verdict \in {"RED", "BLOCKED"} : Judging(p, "refuse", verdict)
  \/ Judging(p, "invalidate", "INVALIDATED")
  \/ Judging(p, "green", "GREEN")
  \/ \E to \in RiskStatuses : Settling(p, to)

\* How a step of p leaves the calls: it checks one, or it ends its own.
Checked(p) ==
  /\ state' = state /\ overtaken' = overtaken /\ races' = races /\ Idle(p)
  /\ \E plan \in Calls :
       /\ call' = [call EXCEPT ![p] = plan]
       /\ plan.op \in GateOps =>
            /\ plan.subject \in Gates /\ state.gate[plan.subject] = plan.from
            /\ plan.from = GateFrom[plan.op]
       /\ plan.op \in RiskOps =>
            /\ plan.subject \in Risks /\ state.risk[plan.subject] = plan.from
            /\ plan.from \in RiskFrom[plan.op]
Ended(p) ==
  /\ call' = [call EXCEPT ![p] = NoCall]
  /\ state' = state \/ \A q \in Procs \ {p} : q \in overtaken' \/ Idle(q)
  /\ state' = state => overtaken' = overtaken \ {p}
StepOf(p) ==
  /\ Types' /\ Effect(p) /\ (Checked(p) \/ Ended(p))
  /\ Unsealed \/ Sealing(p)

-----------------------------------------------------------------------------
(* Every step is one of these.                                             *)

LEMMA NoCallIs == NoCall \in Calls /\ NoCall.op = "none" /\ "none" \notin GateOps \cup RiskOps
BY DEF NoCall, Call, Calls, GateStatuses, GateOps, RiskOps, GateFrom, RiskFrom

LEMMA UpdateEnds ==
  ASSUME Types, NEW p \in Procs, NEW new \in States, Update(p, new, NoCall)
  PROVE  /\ Ended(p) /\ state' = new /\ call' \in [Procs -> Calls]
         /\ overtaken' \subseteq Procs /\ races' \in 0..MaxRaces
<1>1. state' = new /\ call' = [call EXCEPT ![p] = NoCall] /\ call' \in [Procs -> Calls]
  BY NoCallIs DEF Update, Types
<1>2. races' \in 0..MaxRaces
  BY IdsAssumption DEF Update, Types
<1>3. overtaken' = IF new = state THEN overtaken \ {p} ELSE {q \in Procs : q # p /\ ~Idle(q)}
  BY DEF Update
<1>4. overtaken' \subseteq Procs
  BY <1>3 DEF Types
<1>5. state' = state => overtaken' = overtaken \ {p}
  BY <1>1, <1>3
<1>6. state' # state => \A q \in Procs \ {p} : q \in overtaken' \/ Idle(q)
  <2>. SUFFICES ASSUME state' # state, NEW q \in Procs \ {p}, ~Idle(q) PROVE q \in overtaken'
    OBVIOUS
  <2>1. overtaken' = {r \in Procs : r # p /\ ~Idle(r)}
    BY <1>1, <1>3
  <2>. QED
    BY <2>1
<1>. QED
  BY <1>1, <1>2, <1>4, <1>5, <1>6 DEF Ended

\* A commit publishes the new state, with or without a checkpoint.
LEMMA KeptCommit ==
  ASSUME NEW p, NEW kind, NEW to, NEW new \in States, NEW next, Commit(p, kind, to, new, next)
  PROVE  \E published \in States :
           /\ Update(p, published, next) /\ published.mission = new.mission
           /\ published.gate = new.gate /\ published.risk = new.risk
<1>1. PICK published \in Checkpointed(kind, to, call[p].subject, new) : Update(p, published, next)
  BY DEF Commit
<1>2. ASSUME NEW set \in SUBSET Missions
      PROVE  LET with == [new EXCEPT !.kept = @ \cup set]
             IN  /\ with \in States /\ with.mission = new.mission
                 /\ with.gate = new.gate /\ with.risk = new.risk
  BY DEF States
<1>3. {Concerned(new, call[p].subject)} \cap Missions \in SUBSET Missions
  OBVIOUS
<1>. QED
  BY <1>1, <1>2, <1>3 DEF Checkpointed

LEMMA CheckGateIs ==
  ASSUME Types, NEW p \in Procs, NEW g \in Gates, NEW op \in GateOps,
         NEW content \in SUBSET Versions,
         CheckGate(p, g, op, GateFrom[op], content), UNCHANGED worldVars
  PROVE  StepOf(p)
<1> DEFINE plan == Call(op, g, GateFrom[op], content)
<1>1. plan \in Calls /\ plan.op = op /\ plan.subject = g /\ plan.from = GateFrom[op]
  BY DEF Call, Calls, GateOps, GateFrom, GateStatuses
<1>2. Idle(p) /\ call' = [call EXCEPT ![p] = plan] /\ state.gate[g] = plan.from
  BY <1>1 DEF CheckGate, Plan
<1>3. op \notin RiskOps
  BY DEF GateOps, RiskOps, GateFrom, RiskFrom
<1> HIDE DEF plan
<1>4. state' = state /\ overtaken' = overtaken /\ races' = races
  BY DEF CheckGate, Plan
<1>5. Checked(p)
  BY <1>1, <1>2, <1>3, <1>4 DEF Checked
<1>6. Types'
  BY <1>1, <1>2, <1>4 DEF Types, worldVars
<1>. QED
  BY <1>4, <1>5, <1>6 DEF StepOf, Effect, Same, Unsealed, worldVars

LEMMA CheckRiskIs ==
  ASSUME Types, NEW p \in Procs, NEW r \in Risks, NEW op \in RiskOps,
         CheckRisk(p, r, op, RiskFrom[op]), UNCHANGED worldVars
  PROVE  StepOf(p)
<1> DEFINE plan == Call(op, r, state.risk[r], {})
<1>1. plan \in Calls /\ plan.op = op /\ plan.subject = r /\ plan.from = state.risk[r]
  BY DEF Call, Calls, Types, States
<1>2. Idle(p) /\ call' = [call EXCEPT ![p] = plan] /\ plan.from \in RiskFrom[op]
  BY <1>1 DEF CheckRisk, Plan
<1>3. op \notin GateOps
  BY DEF GateOps, RiskOps, GateFrom, RiskFrom
<1> HIDE DEF plan
<1>4. state' = state /\ overtaken' = overtaken /\ races' = races
  BY DEF CheckRisk, Plan
<1>5. Checked(p)
  BY <1>1, <1>2, <1>3, <1>4 DEF Checked
<1>6. Types'
  BY <1>1, <1>2, <1>4 DEF Types, worldVars
<1>. QED
  BY <1>4, <1>5, <1>6 DEF StepOf, Effect, Same, Unsealed, worldVars

LEMMA ChecksAre ==
  ASSUME Inv, NEW p \in Procs, GatesCheck(p) PROVE StepOf(p)
<1>. Types /\ UNCHANGED worldVars
  BY DEF Inv, GatesCheck
<1>1. ASSUME NEW g \in Gates, CheckStartGate(p, g) \/ CheckGreen(p, g) \/ CheckRefuse(p, g)
                               \/ CheckInvalidate(p, g)
      PROVE  StepOf(p)
  <2>1. {disk[g]} \in SUBSET Versions /\ {} \in SUBSET Versions
    BY DEF Types
  <2>2. /\ {"start_gate", "green", "refuse", "invalidate"} \subseteq GateOps
        /\ GateFrom["start_gate"] = "PENDING" /\ GateFrom["green"] = "RUNNING"
        /\ GateFrom["refuse"] = "RUNNING" /\ GateFrom["invalidate"] = "GREEN"
    BY DEF GateOps, GateFrom
  <2>3. CASE CheckStartGate(p, g)
    BY <2>1, <2>2, <2>3, CheckGateIs DEF CheckStartGate
  <2>4. CASE CheckGreen(p, g)
    BY <2>1, <2>2, <2>4, CheckGateIs DEF CheckGreen
  <2>5. CASE CheckRefuse(p, g)
    BY <2>1, <2>2, <2>5, CheckGateIs DEF CheckRefuse
  <2>6. CASE CheckInvalidate(p, g)
    BY <2>1, <2>2, <2>6, CheckGateIs DEF CheckInvalidate
  <2>. QED
    BY <1>1, <2>3, <2>4, <2>5, <2>6
<1>2. ASSUME NEW r \in Risks, CheckOpen(p, r) \/ CheckMitigate(p, r) \/ CheckAccept(p, r)
                               \/ CheckHalt(p, r) \/ CheckResolve(p, r)
      PROVE  StepOf(p)
  <2>1. /\ {"open", "mitigate", "accept", "halt", "resolve"} \subseteq RiskOps
        /\ RiskFrom["open"] = {"none"} /\ RiskFrom["mitigate"] = {"OPEN"}
        /\ RiskFrom["accept"] = {"OPEN"} /\ RiskFrom["halt"] = {"OPEN"}
        /\ RiskFrom["resolve"] = {"OPEN", "MITIGATING"}
    BY DEF RiskOps, RiskFrom
  <2>2. CASE CheckOpen(p, r)
    <3>1. CheckRisk(p, r, "open", RiskFrom["open"])
      BY <2>1, <2>2 DEF CheckOpen
    <3>. QED
      BY <2>1, <3>1, CheckRiskIs
  <2>3. CASE CheckMitigate(p, r)
    <3>1. CheckRisk(p, r, "mitigate", RiskFrom["mitigate"])
      BY <2>1, <2>3 DEF CheckMitigate
    <3>. QED
      BY <2>1, <3>1, CheckRiskIs
  <2>4. CASE CheckAccept(p, r)
    <3>1. CheckRisk(p, r, "accept", RiskFrom["accept"])
      BY <2>1, <2>4 DEF CheckAccept
    <3>. QED
      BY <2>1, <3>1, CheckRiskIs
  <2>5. CASE CheckHalt(p, r)
    <3>1. CheckRisk(p, r, "halt", RiskFrom["halt"])
      BY <2>1, <2>5 DEF CheckHalt
    <3>. QED
      BY <2>1, <3>1, CheckRiskIs
  <2>6. CASE CheckResolve(p, r)
    <3>1. CheckRisk(p, r, "resolve", RiskFrom["resolve"])
      BY <2>1, <2>6 DEF CheckResolve
    <3>. QED
      BY <2>1, <3>1, CheckRiskIs
  <2>. QED
    BY <1>2, <2>2, <2>3, <2>4, <2>5, <2>6
<1>3. ASSUME NEW m \in Missions, Bind(p, m) PROVE StepOf(p)
  <2>1. PICK v \in BOOLEAN : Update(p, Bound(state, m, v), NoCall)
    BY <1>3 DEF Bind
  <2>2. state \in States
    BY DEF Types
  <2>6. Bound(state, m, v) \in States
    BY <2>2, BoundEffect
  <2>3. /\ Ended(p) /\ state' = Bound(state, m, v) /\ call' \in [Procs -> Calls]
        /\ overtaken' \subseteq Procs /\ races' \in 0..MaxRaces /\ state' \in States
    BY <2>1, <2>6, UpdateEnds
  <2>4. Binding(m)
    BY <1>3, <2>2, <2>3, BoundEffect DEF Binding, Bind
  <2>5. Types'
    BY <2>3 DEF Types, worldVars
  <2>. QED
    BY <2>3, <2>4, <2>5 DEF StepOf, Effect, Unsealed, worldVars
<1>4. CASE Abandon(p)
  <2>1. Types'
    BY <1>4, NoCallIs DEF Abandon, Types, worldVars
  <2>2. Ended(p) /\ Same
    BY <1>4 DEF Abandon, Ended, Same
  <2>. QED
    BY <2>1, <2>2 DEF StepOf, Effect, Unsealed, worldVars
<1>. QED
  BY <1>1, <1>2, <1>3, <1>4 DEF GatesCheck, Validate

LEMMA SetGateIs ==
  ASSUME Inv, NEW p \in Procs, NEW op \in GateOps, NEW to \in GateStatuses,
         NEW bound \in SUBSET Gates, SetGate(p, op, to, bound)
  PROVE  /\ Judging(p, op, to) /\ Ended(p) /\ call[p].subject \in Gates
         /\ state' \in States /\ call' \in [Procs -> Calls]
         /\ overtaken' \subseteq Procs /\ races' \in 0..MaxRaces
<1> DEFINE g == call[p].subject
           new == [state EXCEPT !.gate[g] = to, !.bound = bound]
<1>1. g \in Gates /\ state \in States /\ Types /\ Doing(p, op)
  BY DEF SetGate, Inv, CallsOK, Doing, Types
<1>2. /\ new \in States /\ new.mission = state.mission /\ new.risk = state.risk
      /\ new.gate = [state.gate EXCEPT ![g] = to]
  BY <1>1 DEF States
<1>3. Commit(p, "VALIDATION_GATE", to, new, NoCall)
  BY DEF SetGate
<1> HIDE DEF new
<1>4. PICK published \in States :
        /\ Update(p, published, NoCall) /\ published.mission = new.mission
        /\ published.gate = new.gate /\ published.risk = new.risk
  BY <1>2, <1>3, KeptCommit
<1>. QED
  BY <1>1, <1>2, <1>4, UpdateEnds DEF Judging

LEMMA SetRiskIs ==
  ASSUME Inv, NEW p \in Procs, NEW op \in RiskOps, NEW to \in RiskStatuses, SetRisk(p, op, to)
  PROVE  StepOf(p)
<1> DEFINE r == call[p].subject
           new == [state EXCEPT !.risk[r] = to]
<1>1. r \in Risks /\ state \in States /\ Types /\ call[p].op \in RiskOps
  BY DEF SetRisk, Inv, CallsOK, Doing, Types
<1>2. /\ new \in States /\ new.mission = state.mission /\ new.gate = state.gate
      /\ new.risk = [state.risk EXCEPT ![r] = to]
  BY <1>1, RiskEffect
<1>3. Commit(p, "RISK_STATUS", to, new, NoCall) /\ UNCHANGED worldVars
  BY DEF SetRisk
<1> HIDE DEF new
<1>4. PICK published \in States :
        /\ Update(p, published, NoCall) /\ published.mission = new.mission
        /\ published.gate = new.gate /\ published.risk = new.risk
  BY <1>2, <1>3, KeptCommit
<1>5. /\ Ended(p) /\ state' = published /\ call' \in [Procs -> Calls]
      /\ overtaken' \subseteq Procs /\ races' \in 0..MaxRaces
  BY <1>1, <1>4, UpdateEnds
<1>6. Settling(p, to)
  BY <1>1, <1>2, <1>4, <1>5 DEF Settling
<1>7. Types'
  BY <1>3, <1>4, <1>5 DEF Types, Inv, worldVars
<1>. QED
  BY <1>3, <1>5, <1>6, <1>7 DEF StepOf, Effect, Unsealed, worldVars

LEMMA CommitsAre == ASSUME Inv, NEW p \in Procs, GatesCommit(p) PROVE StepOf(p)
<1>. Types
  BY DEF Inv
<1>1. /\ {"start_gate", "green", "refuse", "invalidate"} \subseteq GateOps
      /\ {"open", "mitigate", "accept", "halt", "resolve"} \subseteq RiskOps
      /\ {"RUNNING", "GREEN", "RED", "BLOCKED", "INVALIDATED"} \subseteq GateStatuses
      /\ {"OPEN", "MITIGATING", "ACCEPTED", "HALT", "RESOLVED"} \subseteq RiskStatuses
  BY DEF GateOps, RiskOps, GateFrom, RiskFrom, GateStatuses, RiskStatuses
<1>2. state.bound \in SUBSET Gates
  BY DEF Types, States
<1>3. ASSUME NEW op \in GateOps, NEW to \in GateStatuses, SetGate(p, op, to, state.bound),
             UNCHANGED worldVars
      PROVE  Judging(p, op, to) /\ Ended(p) /\ Types'
  <2>1. /\ Judging(p, op, to) /\ Ended(p)
        /\ state' \in States /\ call' \in [Procs -> Calls]
        /\ overtaken' \subseteq Procs /\ races' \in 0..MaxRaces
    BY <1>2, <1>3, SetGateIs
  <2>. QED
    BY <1>3, <2>1 DEF Types, worldVars
<1>4. CASE StartGate(p)
  BY <1>1, <1>3, <1>4 DEF StartGate, StepOf, Effect, Unsealed, worldVars
<1>5. CASE Refuse(p)
  BY <1>1, <1>3, <1>5 DEF Refuse, StepOf, Effect, Unsealed, worldVars
<1>6. CASE Invalidate(p)
  BY <1>1, <1>3, <1>6 DEF Invalidate, StepOf, Effect, Unsealed, worldVars
<1>7. CASE Green(p)
  <2> DEFINE g == call[p].subject
  <2>1. PICK content \in call[p].rows : content = disk[g] /\ Seal(p, content)
    BY <1>7 DEF Green
  <2>2. SetGate(p, "green", "GREEN", state.bound \cup {g}) /\ Doing(p, "green") /\ Loadable
    BY <2>1 DEF Seal, SetGate
  <2>3. g \in Gates
    BY <1>1, <2>2 DEF Inv, CallsOK, Doing
  <2>4. state.bound \cup {g} \in SUBSET Gates
    BY <1>2, <2>3
  <2>5. /\ Judging(p, "green", "GREEN") /\ Ended(p)
        /\ state' \in States /\ call' \in [Procs -> Calls]
        /\ overtaken' \subseteq Procs /\ races' \in 0..MaxRaces
    BY <1>1, <2>2, <2>4, SetGateIs
  <2>6. /\ sealed' = [sealed EXCEPT ![g] = disk[g]] /\ diverged' = diverged
        /\ \E v \in Versions : disk' = [disk EXCEPT ![g] = v]
    BY <2>1 DEF Seal
  <2>7. disk' \in [Gates -> Versions] /\ sealed' \in [Gates -> Versions \cup {None}]
    BY <2>3, <2>6 DEF Types
  <2>8. Types' /\ Sealing(p)
    BY <2>2, <2>3, <2>5, <2>6, <2>7 DEF Types, Sealing
  <2>. QED
    BY <2>5, <2>8 DEF StepOf, Effect
<1>8. CASE Open(p) \/ Mitigate(p) \/ Accept(p) \/ Halt(p) \/ Resolve(p)
  BY <1>1, <1>8, SetRiskIs DEF Open, Mitigate, Accept, Halt, Resolve
<1>. QED
  BY <1>4, <1>5, <1>6, <1>7, <1>8 DEF GatesCommit

\* The world moves without any call.
World == /\ state' = state /\ call' = call /\ overtaken' = overtaken /\ Types' /\ Unsealed

LEMMA NextIs ==
  ASSUME Inv, [GatesNext]_gatesVars PROVE World \/ \E p \in Procs : StepOf(p)
<1>. Types
  BY DEF Inv
<1>1. ASSUME NEW p \in Procs, Reconcile(p) PROVE StepOf(p)
  <2>1. state \in States
    BY DEF Types
  <2>2. PICK published \in States :
          /\ Update(p, published, NoCall) /\ published.mission = state.mission
          /\ published.gate = state.gate /\ published.risk = state.risk
    BY <1>1, <2>1, KeptCommit DEF Reconcile
  <2>3. /\ Ended(p) /\ state' = published /\ call' \in [Procs -> Calls]
        /\ overtaken' \subseteq Procs /\ races' \in 0..MaxRaces
    BY <2>2, UpdateEnds
  <2>4. Types' /\ Same
    BY <1>1, <2>2, <2>3 DEF Types, Reconcile, Same
  <2>. QED
    BY <1>1, <2>3, <2>4 DEF StepOf, Effect, Reconcile, Unsealed
<1>2. CASE Diverge
  BY <1>2 DEF Diverge, World, Types, Unsealed
<1>3. ASSUME NEW g \in Gates, Edit(g) PROVE World
  BY <1>3 DEF Edit, World, Types, Unsealed
<1>4. CASE UNCHANGED gatesVars
  BY <1>4 DEF gatesVars, World, Types, Unsealed
<1>. QED
  BY <1>1, <1>2, <1>3, <1>4, ChecksAre, CommitsAre DEF GatesNext

LEMMA EffectKeeps ==
  ASSUME Inv, NEW p \in Procs, Effect(p)
  PROVE  /\ \A m \in Missions : state.mission[m] # "none" => state'.mission[m] # "none"
         /\ UnboundHasNoGate'
<1>1. GateMission \in [Gates -> Missions] /\ state \in States
  BY RowsAssumption DEF Inv, Types
<1>2. CASE Same
  BY <1>2 DEF Same, Inv, UnboundHasNoGate
<1>3. ASSUME NEW m \in Missions, Binding(m)
      PROVE  /\ \A n \in Missions : state.mission[n] # "none" => state'.mission[n] # "none"
             /\ UnboundHasNoGate'
  BY <1>1, <1>3 DEF Binding, Inv, UnboundHasNoGate, States
<1>4. ASSUME NEW op \in GateOps, NEW to, Judging(p, op, to)
      PROVE  /\ \A n \in Missions : state.mission[n] # "none" => state'.mission[n] # "none"
             /\ UnboundHasNoGate'
  <2>1. /\ call[p].subject \in Gates
        /\ state.mission[GateMission[call[p].subject]] # "none"
    BY <1>4 DEF Judging, Doing, Inv, CallsOK
  <2>. QED
    BY <1>1, <1>4, <2>1 DEF Judging, Inv, UnboundHasNoGate, States
<1>5. ASSUME NEW to, Settling(p, to)
      PROVE  /\ \A n \in Missions : state.mission[n] # "none" => state'.mission[n] # "none"
             /\ UnboundHasNoGate'
  BY <1>5 DEF Settling, Inv, UnboundHasNoGate
<1>6. {"start_gate", "green", "refuse", "invalidate"} \subseteq GateOps
  BY DEF GateOps, GateFrom
<1>. QED
  BY <1>2, <1>3, <1>4, <1>5, <1>6 DEF Effect

LEMMA InvStep == ASSUME Inv, NEW p \in Procs, StepOf(p) PROVE Inv'
<1>1. Types /\ CallsOK /\ FreshCalls /\ Types' /\ Effect(p)
  BY DEF StepOf, Inv
<1>2. /\ \A m \in Missions : state.mission[m] # "none" => state'.mission[m] # "none"
      /\ UnboundHasNoGate' /\ GateMission \in [Gates -> Missions]
  BY <1>1, EffectKeeps, RowsAssumption
<1>3. CASE Checked(p)
  <2>1. PICK plan \in Calls :
          /\ call' = [call EXCEPT ![p] = plan]
          /\ plan.op \in GateOps =>
               /\ plan.subject \in Gates /\ state.gate[plan.subject] = plan.from
               /\ plan.from = GateFrom[plan.op]
          /\ plan.op \in RiskOps =>
               /\ plan.subject \in Risks /\ state.risk[plan.subject] = plan.from
               /\ plan.from \in RiskFrom[plan.op]
    BY <1>3 DEF Checked
  <2>2. state' = state /\ overtaken' = overtaken /\ races' = races
    BY <1>3 DEF Checked
  <2>3. call'[p] = plan /\ \A q \in Procs \ {p} : call'[q] = call[q]
    BY <1>1, <2>1 DEF Types
  <2>4. \A op \in GateOps : GateFrom[op] # "none"
    BY DEF GateOps, GateFrom
  <2>5. plan.op \in GateOps => state.mission[GateMission[plan.subject]] # "none"
    BY <2>1, <2>4 DEF Inv, UnboundHasNoGate
  <2>6. CallsOK'
    BY <1>1, <2>1, <2>2, <2>3, <2>5 DEF CallsOK
  <2>7. FreshCalls'
    BY <1>1, <2>1, <2>2, <2>3 DEF FreshCalls, Fresh
  <2>. QED
    BY <1>1, <1>2, <2>6, <2>7 DEF Inv
<1>4. CASE Ended(p)
  <2>1. call'[p] = NoCall /\ \A q \in Procs \ {p} : call'[q] = call[q]
    BY <1>1, <1>4 DEF Ended, Types
  <2>2. CallsOK'
    BY <1>1, <1>2, <2>1, NoCallIs DEF CallsOK
  <2>3. FreshCalls'
    <3>. SUFFICES ASSUME NEW q \in Procs \ overtaken' PROVE Fresh(q)'
      BY DEF FreshCalls
    <3>1. CASE q = p
      BY <2>1, <3>1, NoCallIs DEF Fresh
    <3>2. CASE q # p /\ state' = state
      BY <1>1, <1>4, <2>1, <3>2 DEF Fresh, FreshCalls, Ended
    <3>3. CASE q # p /\ state' # state
      BY <1>4, <2>1, <3>3, NoCallIs DEF Fresh, Ended, Idle
    <3>. QED
      BY <3>1, <3>2, <3>3
  <2>. QED
    BY <1>1, <1>2, <2>2, <2>3 DEF Inv
<1>. QED
  BY <1>3, <1>4 DEF StepOf

\* Inv holds of every state of gates, risks and the calls about them.
THEOREM GatesInv == GatesSpec => []Inv
<1>1. GatesInit => Inv
  <2>. SUFFICES ASSUME GatesInit PROVE Inv
    OBVIOUS
  <2>1. EmptyState \in States
    BY DEF EmptyState, States, MissionStatuses, SessionStatuses, AssignmentStatuses,
           AgentStatuses, DepStatuses, GateStatuses, RiskStatuses
  <2>2. Types
    <3>1. 0 \in 0..MaxRaces
      BY IdsAssumption
    <3>2. call \in [Procs -> Calls] /\ overtaken \subseteq Procs
      BY NoCallIs DEF GatesInit, InitState
    <3>3. /\ disk \in [Gates -> Versions] /\ sealed \in [Gates -> Versions \cup {None}]
          /\ diverged \in BOOLEAN
      BY DEF GatesInit
    <3>. QED
      BY <2>1, <3>1, <3>2, <3>3 DEF GatesInit, InitState, Types
  <2>3. CallsOK /\ FreshCalls
    BY NoCallIs DEF GatesInit, InitState, CallsOK, FreshCalls, Fresh
  <2>4. UnboundHasNoGate
    BY DEF GatesInit, InitState, EmptyState, UnboundHasNoGate
  <2>. QED
    BY <2>2, <2>3, <2>4 DEF Inv
<1>2. Inv /\ [GatesNext]_gatesVars => Inv'
  <2>. SUFFICES ASSUME Inv, [GatesNext]_gatesVars PROVE Inv'
    OBVIOUS
  <2>1. CASE World
    BY <2>1 DEF World, Inv, CallsOK, UnboundHasNoGate, FreshCalls, Fresh
  <2>. QED
    BY <2>1, NextIs, InvStep
<1>. QED
  BY <1>1, <1>2, PTL DEF GatesSpec

\* For any gates, contents and processes, no step of the program shuts the store: only
\* an edit of evidence can.
THEOREM OnlyEditsShut == GatesSpec => OnlyEditsShutTheStore
<1>1. ASSUME Inv, [GatesNext]_gatesVars, Loadable, disk' = disk PROVE Loadable'
  <2>1. Unsealed \/ \E p \in Procs : Sealing(p)
    BY <1>1, NextIs DEF World, StepOf
  <2>2. CASE Unsealed
    BY <1>1, <2>2 DEF Unsealed, Loadable
  <2>3. ASSUME NEW p \in Procs, Sealing(p) PROVE Loadable'
    BY <1>1, <2>3 DEF Sealing, Loadable, Inv, Types
  <2>. QED
    BY <2>1, <2>2, <2>3
<1>. QED
  BY <1>1, GatesInv, PTL DEF GatesSpec, OnlyEditsShutTheStore

\* For any gates, risks and processes, verdicts and the ends of risks are final but for
\* overtaken calls about the very gate or risk.
THEOREM VerdictsAlwaysStay == GatesSpec => VerdictsStay
<1> DEFINE StaysGate(g) ==
             \/ state.gate[g] \in {"none", "PENDING", "RUNNING"} \/ state'.gate[g] = state.gate[g]
             \/ state.gate[g] = "GREEN" /\ state'.gate[g] = "INVALIDATED"
             \/ EndsOvertaken(g)
           StaysRisk(r) ==
             \/ state.risk[r] \in {"none", "OPEN", "MITIGATING"} \/ state'.risk[r] = state.risk[r]
             \/ EndsOvertaken(r)
           Stays == (\A g \in Gates : StaysGate(g)) /\ (\A r \in Risks : StaysRisk(r))
<1>1. World \/ Same => Stays
  BY DEF World, Same
<1>2. ASSUME Inv, NEW p \in Procs, StepOf(p), ~Same PROVE Stays
  <2>1. /\ Effect(p) /\ Ended(p) /\ CallsOK /\ UnboundHasNoGate
        /\ state \in States /\ call \in [Procs -> Calls]
    BY <1>2 DEF StepOf, Inv, Types, Checked, Same
  <2>2. p \in overtaken \/ Fresh(p)
    BY <1>2 DEF Inv, FreshCalls
  <2>3. call'[p] = NoCall
    BY <2>1 DEF Ended
  <2>4. ASSUME NEW m \in Missions, Binding(m) PROVE Stays
    BY <2>1, <2>4 DEF Binding, UnboundHasNoGate
  <2>5. ASSUME NEW op \in GateOps, NEW to, Judging(p, op, to),
               op = "invalidate" => to = "INVALIDATED"
        PROVE  Stays
    <3> DEFINE g == call[p].subject
    <3>1. g \in Gates /\ call'[p] # call[p] /\ call[p].from = GateFrom[op]
      BY <2>1, <2>3, <2>5, NoCallIs DEF Judging, Doing, CallsOK
    <3>2. state'.risk = state.risk /\ \A h \in Gates \ {g} : state'.gate[h] = state.gate[h]
      BY <2>1, <2>5 DEF Judging, States
    <3>3. CASE p \in overtaken
      <4>1. EndsOvertaken(g)
        BY <3>1, <3>3 DEF EndsOvertaken
      <4>. QED
        BY <3>2, <4>1
    <3>4. CASE Fresh(p)
      <4>1. /\ state.gate[g] = GateFrom[op]
            /\ GateFrom[op] \in {"PENDING", "RUNNING"} \/ op = "invalidate"
        BY <2>5, <3>1, <3>4 DEF Judging, Doing, Fresh, GateOps, GateFrom
      <4>2. op = "invalidate" => GateFrom[op] = "GREEN" /\ state'.gate[g] = "INVALIDATED"
        BY <2>1, <2>5, <3>1 DEF Judging, States, GateFrom
      <4>. QED
        BY <3>2, <4>1, <4>2
    <3>. QED
      BY <2>2, <3>3, <3>4
  <2>6. ASSUME NEW to, Settling(p, to) PROVE Stays
    <3> DEFINE r == call[p].subject
    <3>1. r \in Risks /\ call'[p] # call[p] /\ call[p].from \in RiskFrom[call[p].op]
      BY <2>1, <2>3, <2>6, NoCallIs DEF Settling, CallsOK
    <3>2. state'.gate = state.gate /\ \A q \in Risks \ {r} : state'.risk[q] = state.risk[q]
      BY <2>1, <2>6 DEF Settling, States
    <3>3. CASE p \in overtaken
      <4>1. EndsOvertaken(r)
        BY <3>1, <3>3 DEF EndsOvertaken
      <4>. QED
        BY <3>2, <4>1
    <3>4. CASE Fresh(p)
      <4>1. state.risk[r] \in {"none", "OPEN", "MITIGATING"}
        BY <2>6, <3>1, <3>4 DEF Settling, Fresh, RiskOps, RiskFrom
      <4>. QED
        BY <3>2, <4>1
    <3>. QED
      BY <2>2, <3>3, <3>4
  <2>7. {"start_gate", "green", "refuse", "invalidate"} \subseteq GateOps
    BY DEF GateOps, GateFrom
  <2>. HIDE DEF Stays
  <2>. QED
    BY <1>2, <2>1, <2>4, <2>5, <2>6, <2>7 DEF Effect
<1>3. Inv /\ [GatesNext]_gatesVars => Stays
  <2>. HIDE DEF Stays
  <2>. QED
    BY <1>1, <1>2, NextIs
<1>4. Inv /\ [GatesNext]_gatesVars =>
        [/\ \A g \in Gates :
              \/ state.gate[g] \in {"none", "PENDING", "RUNNING"} \/ state'.gate[g] = state.gate[g]
              \/ state.gate[g] = "GREEN" /\ state'.gate[g] = "INVALIDATED"
              \/ EndsOvertaken(g)
         /\ \A r \in Risks :
              \/ state.risk[r] \in {"none", "OPEN", "MITIGATING"} \/ state'.risk[r] = state.risk[r]
              \/ EndsOvertaken(r)]_gatesVars
  BY <1>3
<1>. QED
  BY <1>4, GatesInv, PTL DEF GatesSpec, VerdictsStay
===============================================================================

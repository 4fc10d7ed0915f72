-------------------------------- MODULE Teams --------------------------------
(***************************************************************************)
(* The team builder TBE (src/asc_orchestrator/tbe.py): from a mission      *)
(* contract and the registry of agent types it selects specialists, adds   *)
(* reviewers, validators and leads, orders the work and binds the result   *)
(* to PESE as assignments in milestones, and gates.                        *)
(*                                                                         *)
(* Agent types are numbers, in the order of their names.  A demand, and    *)
(* the assignment it becomes, is numbered by its place in the order of     *)
(* identifiers.                                                            *)
(***************************************************************************)
EXTENDS Naturals, FiniteSets, FiniteSetsExt, SequencesExt

CONSTANTS
  Contracts,     \* sequences of demands, and tags
  Types,         \* the active types of the registry that may do such a mission
  Competent,     \* Competent[t]: the capabilities of t, besides its own name
  Writable,      \* the areas that t may write
  Merit,         \* precision, qualification and version, as they rank types
  Versed,        \* types that know the languages and frameworks of the projects
  DutyGates,     \* the gates that t may decide
  Reviewing,     \* types that emit REVIEW
  Capacity,      \* how many demands an instance of t takes; 0: any number
  Resource,      \* the scarce resource that t needs, or "none"
  Trade,         \* the department of t as a builder
  Compatible,    \* <<t, u, message>>: u can read what t writes
  Overlaps,      \* pairs of areas with files in common
  GateOrder,     \* the gates, in the order of their names
  GateDefault,   \* the preferred type of a gate, 0 if there is none
  Auditor, Compliance, Writer, TeamLead, DepartmentLead  \* types known by name

GatesOf(demands) == UNION {d.gates : d \in Range(demands)}

ASSUME TypesAssumption ==
  /\ Types \subseteq Nat \ {0}
  /\ Capacity \in [Types -> Nat]
  /\ GateOrder \in Seq(Range(GateOrder))
ASSUME ContractsAssumption == \A c \in Contracts :
  c.demands \in Seq(Range(c.demands)) /\ IsFiniteSet(GatesOf(c.demands))

VARIABLES
  contract,
  team,   \* what build_team returned
  rows    \* what was bound to PESE

vars == <<contract, team, rows>>

\* n times a step.
Repeated(step, start, n) ==
  LET f[k \in 0..n] == IF k = 0 THEN start ELSE step[f[k - 1]] IN f[n]

Roles == {"builder", "reviewer", "validator"}
Demand(id, capability, role, paths, gates, deps) ==
  [id |-> id, capability |-> capability, role |-> role, paths |-> paths,
   gates |-> gates, deps |-> deps]
Tagged(tags)     == contract.tags \cap tags # {}

-----------------------------------------------------------------------------
(* Demands.                                                                *)

\* The constraints inject demands that no demand covers.
Covered(demands, capability, gate) ==
  \E d \in Range(demands) : d.capability = capability /\ gate \in d.gates
Injected(demands, tags, capability, gate, role) ==
  IF Tagged(tags) /\ ~Covered(demands, capability, gate)
  THEN Append(demands, Demand(Len(demands) + 1, capability, role, {}, {gate}, {}))
  ELSE demands
Constrained ==
  LET secured == Injected(contract.demands, {"regulated"}, Auditor, "security", "validator")
      complying == Injected(secured, {"regulated"}, Compliance, "compliance", "validator")
      audited == Injected(complying, {"security", "payments", "public-api"},
                          Auditor, "security", "validator")
  IN  Injected(audited, {"public-api"}, Writer, "documentation", "builder")

\* In the order of identifiers CONSTRAINT comes before CRITERION and DEMAND.
Demands ==
  LET own == Len(contract.demands)  new == Len(Constrained) - own
      Moved(d, i) == Demand(i, d.capability, d.role, d.paths, d.gates, {j + new : j \in d.deps})
  IN  [i \in DOMAIN Constrained |->
         Moved(Constrained[IF i <= new THEN own + i ELSE i - new], i)]

-----------------------------------------------------------------------------
(* Selection.                                                              *)

MayWrite(t, paths) ==
  \A path \in paths : \E area \in Writable[t] : path = area \/ <<path, area>> \in Overlaps
Covers(t, d) ==
  (t = d.capability \/ d.capability \in Competent[t]) /\ MayWrite(t, d.paths)
Fit(d) == {t \in Types : Covers(t, d) /\ (d.role = "validator" => DutyGates[t] # {})}

\* The widest coverage, then the exact type, then merit, then the name.
Coverage(t) == Cardinality({i \in DOMAIN Demands : Covers(t, Demands[i])})
Exact(t, d) == IF t = d.capability THEN 1 ELSE 0
Ahead(t, u, d) ==
  \/ Coverage(t) > Coverage(u)
  \/ Coverage(t) = Coverage(u) /\ Exact(t, d) > Exact(u, d)
  \/ /\ Coverage(t) = Coverage(u) /\ Exact(t, d) = Exact(u, d)
     /\ Merit[t] > Merit[u] \/ (Merit[t] = Merit[u] /\ t <= u)
Select(d) == CHOOSE t \in Fit(d) : \A u \in Fit(d) : Ahead(t, u, d)

Position(d, t) == [demand |-> d, type |-> t]
TypesOf(sel) == {s.type : s \in Range(sel)}
ByRole(sel, role) == {s \in Range(sel) : s.demand.role = role}
RoleTypes(sel, role) == {s.type : s \in ByRole(sel, role)}
Builders(sel) == {i \in DOMAIN sel : sel[i].demand.role = "builder"}

Added(sel, role, type, gates) ==
  Append(sel, Position(Demand(Len(sel) + 1, type, role, {}, gates, {}), type))

\* The first type that can do it and is not excluded, 0 if there is none.
Independent(able, exclude) == IF able \ exclude = {} THEN 0 ELSE Min(able \ exclude)
Deciders(gate) == {t \in Types : gate \in DutyGates[t]}

\* Each builder needs a reviewer of another type than its own: the first that
\* has none gets one, and then the first of that very type, if there is any.
Unreviewed(sel) == {i \in Builders(sel) : RoleTypes(sel, "reviewer") \ {sel[i].type} = {}}
WithReviewer(sel) ==
  IF Unreviewed(sel) = {} THEN sel
  ELSE Added(sel, "reviewer",
             Independent(Types \cap Reviewing, {sel[Min(Unreviewed(sel))].type}), {})
WithReviewers(sel) == WithReviewer(WithReviewer(sel))

\* Each gate needs a validator: the default type, even if it also builds, or
\* one that does not.
Unvalidated(sel) == {k \in DOMAIN GateOrder :
  /\ \E s \in Range(sel) : GateOrder[k] \in s.demand.gates
  /\ \A s \in ByRole(sel, "validator") : GateOrder[k] \notin s.demand.gates}
GateSpecialist(sel, gate) ==
  IF GateDefault[gate] \in Deciders(gate) THEN GateDefault[gate]
  ELSE Independent(Deciders(gate), RoleTypes(sel, "builder"))
Nth(numbers, n) == CHOOSE k \in numbers : Cardinality({j \in numbers : j <= k}) = n
WithValidators(sel) ==
  sel \o [n \in 1..Cardinality(Unvalidated(sel)) |->
           LET gate == GateOrder[Nth(Unvalidated(sel), n)]  type == GateSpecialist(sel, gate)
           IN  Position(Demand(Len(sel) + n, type, "validator", {}, {gate}, {}), type)]

\* A regulated mission names a second validator for compliance.
Regulated(sel) ==
  Tagged({"regulated"}) /\ \E s \in Range(sel) : "compliance" \in s.demand.gates
Fallback(sel) ==
  Independent(Deciders("compliance"),
    RoleTypes(sel, "builder")
      \cup {s.type : s \in {v \in ByRole(sel, "validator") : "compliance" \in v.demand.gates}})
WithFallback(sel) ==
  IF Regulated(sel) THEN Added(sel, "validator", Fallback(sel), {"compliance"}) ELSE sel

Selected ==
  WithFallback(WithValidators(WithReviewers(
    [i \in DOMAIN Demands |-> Position(Demands[i], Select(Demands[i]))])))

-----------------------------------------------------------------------------
(* Members.                                                                *)

Department(t, role) ==
  IF role \in {"reviewer", "validator"}
  THEN IF DutyGates[t] \cap {"security", "compliance"} # {} THEN "SECURITY" ELSE "QUALITY"
  ELSE Trade[t]
Member(t, role, n, department) ==
  [type |-> t, role |-> role, n |-> n, department |-> department]

\* The demands of a type and a role fill one instance after the other.
Owner(sel, i) ==
  LET t == sel[i].type  role == sel[i].demand.role
      before == Cardinality({j \in 1..(i - 1) :
                               sel[j].type = t /\ sel[j].demand.role = role})
  IN  Member(t, role, IF Capacity[t] = 0 THEN 0 ELSE before \div Capacity[t],
             Department(t, role))
Workers(sel) == {Owner(sel, i) : i \in DOMAIN sel}

\* More than five members have a lead, three of a department have one.
NeededLeads(members) ==
  (IF Cardinality(members) > 5 THEN {Member(TeamLead, "team-lead", 0, "LEADERSHIP")} ELSE {})
  \cup {Member(DepartmentLead, "department-lead", 0, d) :
          d \in {e \in {m.department : m \in members} :
                   Cardinality({m \in members : m.department = e}) >= 3}}

\* Up to the orchestrator and the human, over the leads.
Route(members, m) ==
  LET leads == {l \in members : l.role = "team-lead" \/
                  (l.role = "department-lead" /\ l.department = m.department)}
      above == CASE m.role = "team-lead" -> {}
                 [] m.role = "department-lead" -> {l \in leads : l.role = "team-lead"}
                 [] OTHER -> leads
  IN  <<m>> \o SetToSeq(above)

Earlier(m, n) == m.type < n.type \/ (m.type = n.type /\ m.n <= n.n)
FirstOf(members) == CHOOSE m \in members : \A n \in members : Earlier(m, n)

-----------------------------------------------------------------------------
(* The order of the work.                                                  *)

\* Only a builder with areas of its own becomes an assignment.
Owned(sel) == {i \in Builders(sel) : sel[i].demand.paths # {}}
Conflict(sel) == \E i, j \in Owned(sel) :
  /\ Owner(sel, i) # Owner(sel, j)
  /\ \E a \in sel[i].demand.paths, b \in sel[j].demand.paths : a = b \/ <<a, b>> \in Overlaps

InputEdges(sel) == UNION {{<<d, i>> : d \in sel[i].demand.deps} : i \in DOMAIN sel}
CanHandOff(sel) == \A edge \in InputEdges(sel) :
  <<sel[edge[1]].type, sel[edge[2]].type, "EVIDENCE">> \in Compatible

\* Again and again the first one that all it needs is before; shorter if there
\* is a cycle.
Free(order, nodes, edges) ==
  {a \in nodes \ Range(order) :
     \A e \in edges : e[2] = a /\ e[1] \in nodes => e[1] \in Range(order)}
Extended(order, nodes, edges) ==
  IF Free(order, nodes, edges) = {} THEN order ELSE Append(order, Min(Free(order, nodes, edges)))
Topological(nodes, edges) ==
  Repeated([order \in Seq(nodes) |-> Extended(order, nodes, edges)], <<>>, Cardinality(nodes))

\* Who needs the same scarce resource is put in a row.
Users(sel, order, r) == {k \in DOMAIN order : Resource[sel[order[k]].type] = r}
InARow(sel, order) ==
  {<<order[p[1]], order[p[2]]>> : p \in UNION {
     {q \in Users(sel, order, r) \X Users(sel, order, r) :
        q[1] < q[2] /\ ~\E k \in Users(sel, order, r) : q[1] < k /\ k < q[2]} :
     r \in {Resource[t] : t \in Types} \ {"none"}}}
ResourceEdges(sel) == InARow(sel, Topological(Owned(sel), InputEdges(sel)))
Edges(sel) == InputEdges(sel) \cup ResourceEdges(sel)

\* One round: what comes after something is in a later phase.
Later(phase, edges) ==
  [x \in DOMAIN phase |-> Max({phase[x]} \cup {phase[e[1]] + 1 : e \in {f \in edges : f[2] = x}})]
Settled(phase, edges) ==
  Repeated([f \in [DOMAIN phase -> Nat] |-> Later(f, edges)], phase, Cardinality(DOMAIN phase))

-----------------------------------------------------------------------------
(* Reviews and validations.                                                *)

\* A reviewer of another department, if there is one.
Reviewers(sel, members, i) == {m \in members : m.role = "reviewer" /\ m # Owner(sel, i)}
Reviewer(sel, members, i) ==
  LET versed == {m \in Reviewers(sel, members, i) : m.type \in Versed}
      able   == IF versed = {} THEN Reviewers(sel, members, i) ELSE versed
      far    == {m \in able : m.department # Owner(sel, i).department}
  IN  FirstOf(IF far = {} THEN able ELSE far)

\* Mistake: whoever may decide the gate.
AnyDecider(members, gate) == {m \in members : gate \in DutyGates[m.type]}

\* Neither a builder nor a reviewer.
Validators(members, gate) ==
  {m \in members : m.role \notin {"builder", "reviewer"} /\ gate \in DutyGates[m.type]}
Validator(members, gate) ==
  LET able == Validators(members, gate)
      preferred == {m \in able : m.type = GateDefault[gate]}
  IN  FirstOf(IF preferred = {} THEN able ELSE preferred)

MayReview(sel, members) == \A i \in Builders(sel) :
  /\ Reviewers(sel, members, i) # {}
  /\ <<sel[i].type, Reviewer(sel, members, i).type, "EVIDENCE">> \in Compatible
\* A mission that its projects make regulated needs a second one for compliance.
MayValidate(members, gate) ==
  /\ Validators(members, gate) # {}
  /\ gate = "compliance" /\ Tagged({"regulated"}) => Cardinality(Validators(members, gate)) > 1
  /\ LET v == Validator(members, gate).type
     IN  \A m \in members :
           /\ m.role = "builder" => <<m.type, v, "EVIDENCE">> \in Compatible
           /\ m.role = "reviewer" => <<m.type, v, "REVIEW">> \in Compatible

\* The phase of a member: that of its latest demand, but 3 for reviewers and for
\* validators what the last of their gates says, 5 for security and 7 for others;
\* then later than who it waits for.
LastGate(gates) ==
  GateOrder[Max({k \in DOMAIN GateOrder : GateOrder[k] \in gates})]
DemandPhase(sel) ==
  Settled([i \in DOMAIN sel |-> IF sel[i].demand.role = "builder" THEN 2 ELSE 4], Edges(sel))
FirstPhase(sel, members, m) ==
  LET own   == {i \in DOMAIN sel : Owner(sel, i) = m}
      gates == {g \in GatesOf(Demands) : Validator(members, g) = m}
  IN  CASE gates # {} -> IF LastGate(gates) = "security" THEN 5 ELSE 7
        [] gates = {} /\ \E i \in Builders(sel) : Reviewer(sel, members, i) = m -> 3
        [] OTHER -> Max({1} \cup {DemandPhase(sel)[i] : i \in own})
MemberEdges(sel) ==
  {<<Owner(sel, e[1]), Owner(sel, e[2])>> : e \in Edges(sel)} \ {<<m, m>> : m \in Workers(sel)}
MemberPhase(sel, members) ==
  Settled([m \in members |-> FirstPhase(sel, members, m)], MemberEdges(sel))

-----------------------------------------------------------------------------
(* build_team.                                                             *)

None == [code |-> "none"]
Refused(code) == [code |-> code]

\* Whether all of it can be done, in the order in which it is found out.
Compatibly(sel, members, gates) ==
  /\ CanHandOff(sel) /\ MayReview(sel, members)
  /\ \A g \in gates : MayValidate(members, g)
Orderly(sel, members) ==
  /\ Len(Topological(DOMAIN sel, Edges(sel))) = Len(sel)
  /\ LET phase == MemberPhase(sel, members) IN Later(phase, MemberEdges(sel)) = phase

Staffed(sel, members, gates) ==
  IF 0 \in TypesOf(sel) THEN Refused("REVIEWER_OR_VALIDATOR_GAP")
  ELSE IF ~({m.type : m \in members} \subseteq Types) THEN Refused("LEADERSHIP_GAP")
  ELSE IF Conflict(sel) THEN Refused("OWNERSHIP_CONFLICT")
  ELSE IF ~Compatibly(sel, members, gates) THEN Refused("CONTRACT_INCOMPATIBLE")
  ELSE IF ~Orderly(sel, members) THEN Refused("DEPENDENCY_CYCLE")
  ELSE [code |-> "BUILT", selected |-> sel, members |-> members, gates |-> gates,
        edges |-> Edges(sel), phase |-> MemberPhase(sel, members)]
Built ==
  IF \E d \in Range(Demands) : Fit(d) = {} THEN Refused("CAPABILITY_GAP")
  ELSE Staffed(Selected, Workers(Selected) \cup NeededLeads(Workers(Selected)), GatesOf(Demands))

Build ==
  /\ team = None
  /\ team' = Built
  /\ UNCHANGED <<contract, rows>>

\* validate_manifest.
Manifest(t) ==
  /\ \A e \in t.edges : {e[1], e[2]} \subseteq Owned(t.selected)
  /\ \A e \in MemberEdges(t.selected) : t.phase[e[1]] < t.phase[e[2]]
  /\ \A m \in t.members : Len(Route(t.members, m)) <= 3

-----------------------------------------------------------------------------
(* bind_manifest_to_pese.                                                  *)

\* The identifiers of assignments.
Work(i)       == <<"work", i>>
ReviewOf(i)   == <<"review", i>>
ValidateOf(g) == <<"gate", g>>

Assignments(t) ==
  {Work(i) : i \in Owned(t.selected)} \cup {ReviewOf(i) : i \in Builders(t.selected)}
    \cup {ValidateOf(g) : g \in t.gates}
AssignedTo(t) ==
  [a \in Assignments(t) |->
     CASE a[1] = "work"   -> Owner(t.selected, a[2])
       [] a[1] = "review" -> Reviewer(t.selected, t.members, a[2])
       [] a[1] = "gate"   -> Validator(t.members, a[2])]
\* Validation waits for all reviews.
Prerequisites(t) ==
  {<<Work(e[1]), Work(e[2])>> : e \in t.edges}
    \cup {<<Work(i), ReviewOf(i)>> : i \in Builders(t.selected)}
    \cup {<<ReviewOf(i), ValidateOf(g)>> : i \in Builders(t.selected), g \in t.gates}
\* Mistake: every assignment in the phase of who does it.
AsPlanned(t) == [a \in Assignments(t) |-> t.phase[AssignedTo(t)[a]]]

Scheduled(t) ==
  Settled([a \in Assignments(t) |-> t.phase[AssignedTo(t)[a]]], Prerequisites(t))
\* The milestone of a gate is that of its validator, 0 if no work is in it.
GateMilestone(t, phases) ==
  [g \in t.gates |-> LET p == t.phase[Validator(t.members, g)]
                     IN  IF p \in Range(phases) THEN p ELSE 0]

\* A builder without an assignment has a review all the same, and the phase of
\* what it reviews is not found: a KeyError.
Bind ==
  /\ team.code = "BUILT" /\ rows = None
  /\ rows' = IF ~Manifest(team) THEN Refused("MANIFEST_INVALID")
             ELSE IF Builders(team.selected) # Owned(team.selected) THEN Refused("KeyError")
             ELSE [code |-> "BOUND", owner |-> AssignedTo(team), needs |-> Prerequisites(team),
                   phase |-> Scheduled(team), gate |-> GateMilestone(team, Scheduled(team))]
  /\ UNCHANGED <<contract, team>>

Init == contract \in Contracts /\ team = None /\ rows = None
Next == Build \/ Bind
Spec == Init /\ [][Next]_vars

-----------------------------------------------------------------------------
(* Properties.                                                             *)

Bound == rows.code = "BOUND"

\* All that an assignment waits for, however far.
Nearer(found, a) == found \cup {e[1] : e \in {f \in rows.needs : f[2] \in found \cup {a}}}
Before(a) ==
  Repeated([found \in SUBSET DOMAIN rows.phase |-> Nearer(found, a)], {},
           Cardinality(DOMAIN rows.phase))

\* The work that is bound can be done milestone by milestone: what an assignment
\* waits for is in an earlier one (so nothing waits for itself), and of two
\* assignments that need the same resource one waits for the other.
WorkIsOrdered ==
  Bound => /\ \A e \in rows.needs : rows.phase[e[1]] < rows.phase[e[2]]
           /\ \A i, j \in Owned(team.selected) :
                i # j /\ Resource[rows.owner[Work(i)].type] = Resource[rows.owner[Work(j)].type]
                  /\ Resource[rows.owner[Work(i)].type] # "none"
                => Work(i) \in Before(Work(j)) \/ Work(j) \in Before(Work(i))

\* Nobody reviews what it has built, and who decides a gate has neither built nor
\* reviewed, with whatever instances of whatever types the team was filled.
VerdictsAreIndependent ==
  Bound => /\ \A i \in Builders(team.selected) : rows.owner[ReviewOf(i)] # rows.owner[Work(i)]
           /\ \A g \in team.gates, i \in Builders(team.selected) :
                rows.owner[ValidateOf(g)] \notin {rows.owner[Work(i)], rows.owner[ReviewOf(i)]}

\* Reviews come before gates: "Review APPROVAL before that deliverable's
\* validation gates execute" (docs/TBE_v1.0.md).
GatesAfterReviews ==
  Bound => \A g \in team.gates, i \in Builders(team.selected) :
             g \in team.selected[i].demand.gates /\ rows.gate[g] # 0
               => rows.phase[ReviewOf(i)] <= rows.gate[g]
=============================================================================

-------------------------------- MODULE Gates --------------------------------
(***************************************************************************)
(* Validation gates VAL (src/asc_orchestrator/validation.py) and risks RKM *)
(* (risk.py), with the two things outside the state that they depend on:   *)
(* the files of evidence, and the repository.                              *)
(*                                                                         *)
(* The artifacts of a gate are one file of evidence with a version.  Every *)
(* load validates every revision of the history, so a file that some       *)
(* revision holds as the evidence of a GREEN gate may never change again:  *)
(* while it differs, nothing can load the state.                           *)
(***************************************************************************)
EXTENDS PESEState

CONSTANT Versions   \* contents that a file of evidence may have
ASSUME VersionsAssumption == None \notin Versions

VARIABLES
  disk,      \* the content of the evidence of each gate
  sealed,    \* the content that the GREEN verdict of each gate recorded
  diverged   \* HEAD, branch or working tree differ from the bound repo_state

worldVars == <<disk, sealed, diverged>>
gatesVars == <<state, call, overtaken, races, disk, sealed, diverged>>

\* load: no altered evidence in any revision.
Loadable == \A g \in Gates : sealed[g] \in {None, disk[g]}

-----------------------------------------------------------------------------
(* VAL: the designated validator acts.                                     *)

CheckGate(p, g, op, status, content) ==
  /\ Loadable
  /\ state.gate[g] = status
  /\ Authorized("VALIDATION_GATE", Validator[g], g)
  /\ Plan(p, Call(op, g, status, content))

\* Whether the work is done is not asked.
CheckStartGate(p, g) == CheckGate(p, g, "start_gate", "PENDING", {})
\* For GREEN the content of the evidence is hashed here.
CheckGreen(p, g) == CheckGate(p, g, "green", "RUNNING", {disk[g]})
CheckRefuse(p, g) == CheckGate(p, g, "refuse", "RUNNING", {})
\* Altered evidence cannot be loaded, so what is left of _binding_failed is the
\* repository.
CheckInvalidate(p, g) == diverged /\ CheckGate(p, g, "invalidate", "GREEN", {})

SetGate(p, op, to, bound) ==
  /\ Doing(p, op) /\ Loadable
  /\ Commit(p, "VALIDATION_GATE", to,
            [state EXCEPT !.gate[call[p].subject] = to, !.bound = bound], NoCall)

StartGate(p)  == SetGate(p, "start_gate", "RUNNING", state.bound) /\ UNCHANGED worldVars
Refuse(p) == \E verdict \in {"RED", "BLOCKED"} :
  SetGate(p, "refuse", verdict, state.bound) /\ UNCHANGED worldVars
Invalidate(p) == SetGate(p, "invalidate", "INVALIDATED", state.bound) /\ UNCHANGED worldVars

\* The writer lock does not hold the files: the evidence may change once more
\* between the last look at it and the publication of the revision.
Seal(p, content) ==
  LET g == call[p].subject
  IN  /\ SetGate(p, "green", "GREEN", state.bound \cup {g})
      /\ sealed' = [sealed EXCEPT ![g] = content]
      /\ \E v \in Versions : disk' = [disk EXCEPT ![g] = v]
      /\ UNCHANGED diverged

\* Mistake: update does not look at the evidence again.
GreenUnread(p) == \E content \in call[p].rows : Seal(p, content)

\* update hashes the evidence again, and refuses it if its content is not the one
\* that the verdict was given on.
Green(p) == \E content \in call[p].rows : Seal(p, content) /\ content = disk[call[p].subject]

-----------------------------------------------------------------------------
(* RKM                                                                     *)

\* check: what holds the scheduler.
Blocks(s, r) ==
  /\ s.risk[r] # "none"
  /\ \/ s.risk[r] = "HALT"
     \/ Severity[r] = "CRITICAL" /\ s.risk[r] \notin {"RESOLVED", "ACCEPTED"}
     \/ Severity[r] = "HIGH" /\ r \in BlockDeclared
Hold(s) == \E r \in Risks : Blocks(s, r)

CheckRisk(p, r, op, statuses) ==
  /\ Loadable
  /\ state.risk[r] \in statuses
  /\ \E x \in Actors : Authorized("RISK_STATUS", x, r)
  /\ Plan(p, Call(op, r, state.risk[r], {}))

\* The owner opens a risk, and update, which finds no owner yet, demands the
\* orchestrator.
CheckOpen(p, r)     == RiskOwner[r] = Orchestrator /\ CheckRisk(p, r, "open", {"none"})
CheckMitigate(p, r) == CheckRisk(p, r, "mitigate", {"OPEN"})
CheckAccept(p, r)   == CheckRisk(p, r, "accept", {"OPEN"})
CheckHalt(p, r)     == CheckRisk(p, r, "halt", {"OPEN"})
\* Mistake: an accepted risk can still be resolved.
CheckResolveAccepted(p, r) == CheckRisk(p, r, "resolve", {"OPEN", "MITIGATING", "ACCEPTED"})

CheckResolve(p, r)  == CheckRisk(p, r, "resolve", {"OPEN", "MITIGATING"})

SetRisk(p, op, to) ==
  /\ Doing(p, op) /\ Loadable
  /\ Commit(p, "RISK_STATUS", to, [state EXCEPT !.risk[call[p].subject] = to], NoCall)
  /\ UNCHANGED worldVars

Open(p)     == SetRisk(p, "open", "OPEN")
Mitigate(p) == SetRisk(p, "mitigate", "MITIGATING")
Accept(p)   == SetRisk(p, "accept", "ACCEPTED")
Halt(p)     == SetRisk(p, "halt", "HALT")
Resolve(p)  == SetRisk(p, "resolve", "RESOLVED")

-----------------------------------------------------------------------------
(* The world, and PESEStore.reconcile_repository, which holds the writer   *)
(* lock from its load to its update.  It refuses a HEAD that does not      *)
(* descend from the bound one; then the operator has to put it back.       *)

Edit(g) == \E v \in Versions \ {disk[g]} :
  /\ disk' = [disk EXCEPT ![g] = v]
  /\ UNCHANGED <<state, call, overtaken, races, sealed, diverged>>

Diverge ==
  /\ ~diverged /\ diverged' = TRUE
  /\ UNCHANGED <<state, call, overtaken, races, disk, sealed>>

Reconcile(p) ==
  /\ Idle(p) /\ Loadable /\ diverged
  /\ Commit(p, "REPOSITORY_RECONCILIATION", "*", state, NoCall)
  /\ diverged' = FALSE
  /\ UNCHANGED <<disk, sealed>>

-----------------------------------------------------------------------------
GatesInit ==
  /\ InitState
  /\ disk \in [Gates -> Versions]
  /\ sealed = [g \in Gates |-> None] /\ diverged = FALSE

Validate(p) == \E g \in Gates : CheckGreen(p, g) \/ CheckRefuse(p, g)
GatesCheck(p) ==
  /\ \/ Validate(p) \/ \E m \in Missions : Loadable /\ Bind(p, m)
     \/ \E g \in Gates : CheckStartGate(p, g) \/ CheckInvalidate(p, g)
     \/ \E r \in Risks : CheckOpen(p, r) \/ CheckMitigate(p, r) \/ CheckAccept(p, r)
                           \/ CheckHalt(p, r) \/ CheckResolve(p, r)
     \/ Abandon(p)
  /\ UNCHANGED worldVars
GatesCommit(p) ==
  \/ StartGate(p) \/ Green(p) \/ Refuse(p) \/ Invalidate(p)
  \/ Open(p) \/ Mitigate(p) \/ Accept(p) \/ Halt(p) \/ Resolve(p)

GatesNext ==
  \/ \E p \in Procs : GatesCheck(p) \/ GatesCommit(p) \/ Reconcile(p)
  \/ Diverge \/ \E g \in Gates : Edit(g)
GatesSpec == GatesInit /\ [][GatesNext]_gatesVars

-----------------------------------------------------------------------------
(* Properties.                                                             *)

\* No step of the program shuts the store: it stays loadable for as long as nobody
\* edits evidence.  So an edit between the hash of a verdict and its update does no
\* harm: the verdict is refused.
OnlyEditsShutTheStore == [][Loadable /\ disk' = disk => Loadable']_gatesVars

\* A verdict is final and so is the end of a risk: a green gate can only be
\* invalidated and nothing reopens a settled risk, unless it is a call about that very
\* gate or risk that had checked it before.
VerdictsStay ==
  [][/\ \A g \in Gates :
          \/ state.gate[g] \in {"none", "PENDING", "RUNNING"} \/ state'.gate[g] = state.gate[g]
          \/ state.gate[g] = "GREEN" /\ state'.gate[g] = "INVALIDATED"
          \/ EndsOvertaken(g)
     /\ \A r \in Risks :
          \/ state.risk[r] \in {"none", "OPEN", "MITIGATING"} \/ state'.risk[r] = state.risk[r]
          \/ EndsOvertaken(r)]_gatesVars
=============================================================================

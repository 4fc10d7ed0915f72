------------------------------ MODULE Execution ------------------------------
(***************************************************************************)
(* The execution framework EEF (src/asc_orchestrator/execution.py), which  *)
(* moves a mission, and the agent runtime AEX (aex.py), which moves its    *)
(* assignments.  Both work on the state of PESEState, from any number of   *)
(* processes; their locks are thread locks and hold nobody else back.      *)
(*                                                                         *)
(* Each operation is a Check action (load, precondition, plan) followed by *)
(* the action that loads again and updates.  A call that is refused where  *)
(* it checks changes nothing and has no action.                            *)
(***************************************************************************)
EXTENDS PESEState

VARIABLE
  results   \* assignments with a result.json

executionVars == <<state, call, overtaken, races, results>>

\* Mistake: blocked work is forgotten.
NonTerminalOrBlocked == {"PENDING", "READY", "IN_PROGRESS"}

NonTerminal == {"PENDING", "READY", "IN_PROGRESS", "BLOCKED"}
Blockable   == {"READY", "IN_PROGRESS"}
InStatus(s, m, statuses) == {a \in MissionAssignments(m) : s.asg[a] \in statuses}

\* The rows of a set of assignments after the same change to each.
SetStatus(s, rows, to) ==
  [a \in Assignments |-> IF a \in rows THEN to ELSE s.asg[a]]

CanMove(m) == \E x \in Members(m) : Authorized("MISSION_STATUS", x, m)
CanWork(a) == Authorized("ASSIGNMENT_STATUS", OwnerOf[a], a)

-----------------------------------------------------------------------------
(* EEF                                                                     *)

\* The members' environment becomes VERIFIED, the roots become READY.
CheckStart(p, m) ==
  /\ state.mission[m] = "PLANNED" /\ CanMove(m)
  /\ Plan(p, Call("start", m, "PLANNED", {}))
Started(s, m) ==
  [s EXCEPT !.mission[m] = "ACTIVE", !.session[m] = "RUNNING",
            !.resumed = @ \ {m},
            !.dep = [x \in Agents |-> IF x \in Members(m) THEN "VERIFIED" ELSE s.dep[x]],
            !.asg = SetStatus(s, Roots(m) \cap InStatus(s, m, {"PENDING"}), "READY")]
Start(p) ==
  /\ Doing(p, "start")
  /\ Commit(p, "MISSION_STATUS", "ACTIVE", Started(state, call[p].subject), NoCall)
  /\ UNCHANGED results

\* Mistake: what is completed is interrupted, too.
CheckPauseAll(p, m) ==
  /\ state.mission[m] = "ACTIVE" /\ CanMove(m)
  /\ Plan(p, Call("pause", m, "ACTIVE", MissionAssignments(m)))

\* The assignments to interrupt are those of the state that was checked.
CheckPause(p, m) ==
  /\ state.mission[m] = "ACTIVE" /\ CanMove(m)
  /\ Plan(p, Call("pause", m, "ACTIVE", InStatus(state, m, NonTerminal)))
\* Mistake: the assignments get the status of the session.
PausedAlike(s, m, rows) ==
  [s EXCEPT !.mission[m] = "INTERRUPTED", !.session[m] = "PAUSED",
            !.asg = SetStatus(s, rows, "PAUSED")]

Paused(s, m, rows) ==
  [s EXCEPT !.mission[m] = "INTERRUPTED", !.session[m] = "PAUSED",
            !.asg = SetStatus(s, rows, "INTERRUPTED")]
Pause(p) ==
  /\ Doing(p, "pause")
  /\ Commit(p, "MISSION_STATUS", "INTERRUPTED",
            Paused(state, call[p].subject, call[p].rows), NoCall)
  /\ UNCHANGED results

\* Every interrupted assignment becomes READY, also one that was PENDING.
CheckResume(p, m) ==
  /\ state.mission[m] = "INTERRUPTED"
  /\ \E x \in Actors : Authorized("MISSION_INTERRUPT_RECOVERY", x, m)
  /\ Plan(p, Call("resume", m, "INTERRUPTED", InStatus(state, m, {"INTERRUPTED"})))
Resumed(s, m, rows) ==
  [s EXCEPT !.mission[m] = "ACTIVE", !.session[m] = "RUNNING",
            !.resumed = @ \cup {m}, !.asg = SetStatus(s, rows, "READY")]
ResumeSession(p) ==
  /\ Doing(p, "resume")
  /\ Commit(p, "MISSION_INTERRUPT_RECOVERY", "ACTIVE",
            Resumed(state, call[p].subject, call[p].rows), NoCall)
  /\ UNCHANGED results

\* A paused mission passes the check, and the table refuses its transition.
CheckCancel(p, m) ==
  /\ state.mission[m] \in {"ACTIVE", "INTERRUPTED"} /\ CanMove(m)
  /\ Plan(p, Call("cancel", m, state.mission[m], InStatus(state, m, NonTerminal)))
\* Mistake: completed work is cancelled, too.
CancelledAll(s, m, rows) ==
  [s EXCEPT !.mission[m] = "CANCELLED", !.session[m] = "CANCELLED",
            !.asg = SetStatus(s, MissionAssignments(m), "CANCELLED")]

Cancelled(s, m, rows) ==
  [s EXCEPT !.mission[m] = "CANCELLED", !.session[m] = "CANCELLED",
            !.asg = SetStatus(s, rows, "CANCELLED")]
Cancel(p) ==
  /\ Doing(p, "cancel")
  /\ Commit(p, "MISSION_STATUS", "CANCELLED",
            Cancelled(state, call[p].subject, call[p].rows), NoCall)
  /\ UNCHANGED results

\* Mistake: work that has failed is no longer waited for.
CheckFinishTerminal(p, m) ==
  /\ state.mission[m] = "ACTIVE" /\ CanMove(m)
  /\ InStatus(state, m, NonTerminal) = {}
  /\ Plan(p, Call("finish", m, "ACTIVE", {}))

CheckFinish(p, m) ==
  /\ state.mission[m] = "ACTIVE" /\ CanMove(m)
  /\ AllCompleted(state, m)
  /\ Plan(p, Call("finish", m, "ACTIVE", {}))
Finished(s, m) == [s EXCEPT !.mission[m] = "VALIDATING", !.session[m] = "COMPLETED"]
Finish(p) ==
  /\ Doing(p, "finish")
  /\ Commit(p, "MISSION_STATUS", "VALIDATING", Finished(state, call[p].subject), NoCall)
  /\ UNCHANGED results

\* schedule, which changes the state only when the computed milestone has moved
\* on: it writes the milestone it computed, and plans again.
CheckAdvance(p, m) ==
  /\ state.active = m
  /\ \E x \in Actors : Authorized("MILESTONE_STATUS", x, m)
  /\ Resume(state).code = "MILESTONE_MISMATCH"
  /\ ComputedMilestone(state, m) # <<None, 0>>
  /\ Plan(p, Call("advance", m, "milestone", {ComputedMilestone(state, m)[2]}))
Advance(p) ==
  /\ Doing(p, "advance")
  /\ \E phase \in call[p].rows :
       Commit(p, "MILESTONE_STATUS", "milestone",
              [state EXCEPT !.milestone = <<call[p].subject, phase>>], NoCall)
  /\ UNCHANGED results

\* What schedule returns once the milestone is right: the assignment to dispatch.
Scheduled(s, m) == IF s.active # m THEN "NO_ACTIVE_MISSION" ELSE Resume(s).code

-----------------------------------------------------------------------------
(* AEX                                                                     *)

\* Neither the mission nor the dependencies are looked at: only the owner and
\* the status.
CheckAssignment(p, a, op, statuses) ==
  /\ CanWork(a) /\ state.asg[a] \in statuses
  /\ Plan(p, Call(op, a, state.asg[a], {}))

CheckDispatch(p, a) == CheckAssignment(p, a, "dispatch", {"READY"})
CheckComplete(p, a) == CheckAssignment(p, a, "complete", {"IN_PROGRESS"})
CheckFail(p, a)     == CheckAssignment(p, a, "fail", {"IN_PROGRESS"})
CheckBlock(p, a)    == CheckAssignment(p, a, "block", Blockable)
CheckUnblock(p, a)  == CheckAssignment(p, a, "unblock", {"BLOCKED"})

Move(p, op, to) ==
  /\ Doing(p, op)
  /\ Commit(p, "ASSIGNMENT_STATUS", to,
            [state EXCEPT !.asg[call[p].subject] = to], NoCall)
  /\ UNCHANGED results

Dispatch(p) == Move(p, "dispatch", "IN_PROGRESS")
Fail(p)     == Move(p, "fail", "FAILED")
Block(p)    == Move(p, "block", "BLOCKED")
Unblock(p)  == Move(p, "unblock", "READY")

\* Mistake: one completed prerequisite is enough.
PromotedByAny(s, m) ==
  SetStatus(s, {a \in InStatus(s, m, {"PENDING"}) :
                  \E d \in DependsOn[a] : s.asg[d] = "COMPLETED"}, "READY")

\* The dependents whose last prerequisite this is become READY with it.
Promoted(s, m) ==
  SetStatus(s, {a \in InStatus(s, m, {"PENDING"}) :
                  DependsOn[a] # {} /\ DepsCompleted(s, a)}, "READY")
\* Mistake: dependents are promoted before the assignment is completed.
CompletedLast(s, a) ==
  [s EXCEPT !.asg = [Promoted(s, MissionOf[a]) EXCEPT ![a] = "COMPLETED"]]

Completed(s, a) ==
  LET done == [s EXCEPT !.asg[a] = "COMPLETED"]
  IN  [done EXCEPT !.asg = Promoted(done, MissionOf[a])]
Complete(p) ==
  /\ Doing(p, "complete")
  /\ Commit(p, "ASSIGNMENT_STATUS", "COMPLETED", Completed(state, call[p].subject),
            Call("write_result", call[p].subject, "COMPLETED", {}))
  /\ UNCHANGED results

\* Then the record is signed, which may fail (Abandon), and written.
WriteResult(p) ==
  /\ Doing(p, "write_result")
  /\ results' = results \cup {call[p].subject}
  /\ call' = [call EXCEPT ![p] = NoCall]
  /\ overtaken' = overtaken \ {p}
  /\ UNCHANGED <<state, races>>

-----------------------------------------------------------------------------
ExecutionInit == InitState /\ results = {}

ExecutionCheck(p) ==
  /\ Idle(p)
  /\ \/ \E m \in Missions : CheckStart(p, m) \/ CheckPause(p, m) \/ CheckResume(p, m)
                              \/ CheckCancel(p, m) \/ CheckFinish(p, m) \/ CheckAdvance(p, m)
     \/ \E a \in Assignments : CheckDispatch(p, a) \/ CheckComplete(p, a)
                                 \/ CheckFail(p, a) \/ CheckBlock(p, a) \/ CheckUnblock(p, a)
ExecutionCommit(p) ==
  \/ Start(p) \/ Pause(p) \/ ResumeSession(p) \/ Cancel(p) \/ Finish(p) \/ Advance(p)
  \/ Dispatch(p) \/ Complete(p) \/ WriteResult(p) \/ Fail(p) \/ Block(p) \/ Unblock(p)

ExecutionNext == \E p \in Procs :
  \/ (ExecutionCheck(p) \/ Abandon(p) \/ \E m \in Missions : Bind(p, m))
       /\ UNCHANGED results
  \/ ExecutionCommit(p)

ExecutionSpec == ExecutionInit /\ [][ExecutionNext]_executionVars

-----------------------------------------------------------------------------
(* Properties.                                                             *)

MissionOps == {"start", "pause", "resume", "cancel", "finish"}
WorkOps    == {"dispatch", "complete", "fail", "block", "unblock", "write_result"}
Calls == [op : {"none", "advance"} \cup MissionOps \cup WorkOps,
          subject : Missions \cup Assignments \cup {None},
          from : MissionStatuses \cup AssignmentStatuses \cup {"milestone"}, rows : SUBSET Nat]

\* Every component has its type.
ExecutionTypeOK ==
  /\ state \in States /\ overtaken \subseteq Procs /\ races \in 0..MaxRaces
  /\ results \subseteq Assignments /\ call \in [Procs -> Calls]

\* As long as no call was overtaken, work is open only under an active mission:
\* pause and cancel reach every assignment, AEX never asks for the mission.
WorkOnlyWhileActive ==
  races = 0 => \A a \in Assignments :
    state.asg[a] \in {"READY", "IN_PROGRESS", "BLOCKED"} => state.mission[MissionOf[a]] = "ACTIVE"

\* Completion wakes every dependent: under a mission that has started, an
\* assignment still waits only if something it depends on is not completed.
\* This holds whatever overtakes what, since complete promotes in the update.
NoLostPromotion ==
  \A a \in Assignments :
    state.asg[a] = "PENDING" /\ state.mission[MissionOf[a]] # "PLANNED"
      => \E d \in DependsOn[a] : state.asg[d] # "COMPLETED"

\* Work begins after what it depends on is done, unless its mission was resumed
\* from a pause (or a call was overtaken): dispatch does not ask.
DependenciesRespected ==
  races = 0 => \A a \in Assignments :
    state.asg[a] \in {"READY", "IN_PROGRESS", "COMPLETED"} /\ MissionOf[a] \notin state.resumed
      => DepsCompleted(state, a)

\* A mission in validation has all of its work completed, and nothing that is done to
\* it takes any of that back, as long as no call was overtaken.
ValidatedWorkIsDone ==
  races = 0 => \A m \in Missions :
    state.mission[m] = "VALIDATING" => AllCompleted(state, m)

\* A result on disk is that of a completed assignment, as long as no call was
\* overtaken: pause, which overtakes complete, takes completion back.
ResultIsOfCompleted ==
  races = 0 => \A a \in results : state.asg[a] = "COMPLETED"

\* What is final stays: a completed, failed or cancelled assignment and a mission
\* that has left execution, unless it is a call about that very mission or
\* assignment which had looked at it before.
FinalStays ==
  [][/\ \A a \in Assignments : state.asg[a] \in {"COMPLETED", "FAILED", "CANCELLED"}
                                 => state'.asg[a] = state.asg[a] \/ EndsOvertaken(a)
     /\ \A m \in Missions : state.mission[m] \in {"CANCELLED", "VALIDATING"}
                                 => state'.mission[m] = state.mission[m] \/ EndsOvertaken(m)
    ]_executionVars

\* Dependent assignments wait until their dependencies complete
\* (docs/EEF_v1.0.md).  A pause followed by a resume makes them READY.
DependentsWait ==
  races = 0 => \A a \in Assignments :
    state.asg[a] = "READY" => DepsCompleted(state, a)

\* cancel terminates an active or interrupted mission (docs/EEF_v1.0.md): the
\* transition it asks for is one that the table has.
CancelIsLegal ==
  \A p \in Procs : Doing(p, "cancel") => Legal("MISSION_STATUS", call[p].from, "CANCELLED")
=============================================================================

-------------------------- MODULE Execution_proofs --------------------------
(***************************************************************************)
(* What EEF and AEX guarantee for any missions, assignments and number of  *)
(* processes: type correctness, and the properties of Execution.           *)
(***************************************************************************)
EXTENDS Execution, WellFoundedInduction, TLAPS

\* The least element of a set of numbers is one of it.
LEMMA MinIsMember == ASSUME NEW S \in SUBSET Nat, S # {} PROVE Min(S) \in S
<1>1. PICK x \in S : \A y \in S : ~(<<y, x>> \in OpToRel(<, Nat))
  BY NatLessThanWellFounded, WFMin
<1>2. \A y \in S : x =< y
  <2>. SUFFICES ASSUME NEW y \in S, y < x PROVE FALSE
    OBVIOUS
  <2>1. <<y, x>> \in OpToRel(<, Nat)
    BY DEF OpToRel
  <2>. QED
    BY <1>1, <2>1
<1>. QED
  BY <1>2 DEF Min

-----------------------------------------------------------------------------
(* What each mutation does to a state.                                     *)

LEMMA StartedEffect ==
  ASSUME NEW s \in States, NEW m \in Missions
  PROVE  /\ Started(s, m) \in States
         /\ Started(s, m).mission = [s.mission EXCEPT ![m] = "ACTIVE"]
         /\ Started(s, m).resumed = s.resumed \ {m}
         /\ Started(s, m).asg = SetStatus(s, Roots(m) \cap InStatus(s, m, {"PENDING"}), "READY")
BY DEF Started, States, SetStatus, MissionStatuses, SessionStatuses, AssignmentStatuses,
       DepStatuses

LEMMA BoundEffect ==
  ASSUME NEW s \in States, NEW m \in Missions, NEW v \in BOOLEAN
  PROVE  /\ Bound(s, m, v) \in States
         /\ Bound(s, m, v).mission = [s.mission EXCEPT ![m] = "PLANNED"]
         /\ Bound(s, m, v).resumed = s.resumed
         /\ Bound(s, m, v).asg = [a \in Assignments |-> IF MissionOf[a] = m THEN "PENDING" ELSE s.asg[a]]
<1>1. Phases(m) # {} => Min(Phases(m)) \in Nat
  BY MinIsMember, RowsAssumption DEF Phases, MissionAssignments
<1>2. \A own \in SUBSET Assignments : own # {} => Min(own) \in Assignments
  BY MinIsMember, IdsAssumption
<1>. QED
  BY <1>1, <1>2 DEF Bound, States, MissionStatuses, SessionStatuses, AssignmentStatuses,
                    DepStatuses, AgentStatuses, GateStatuses, MissionAssignments

LEMMA PausedEffect ==
  ASSUME NEW s \in States, NEW m \in Missions, NEW rows
  PROVE  /\ Paused(s, m, rows) \in States
         /\ Paused(s, m, rows).mission = [s.mission EXCEPT ![m] = "INTERRUPTED"]
         /\ Paused(s, m, rows).resumed = s.resumed
         /\ Paused(s, m, rows).asg = SetStatus(s, rows, "INTERRUPTED")
BY DEF Paused, States, SetStatus, MissionStatuses, SessionStatuses, AssignmentStatuses

LEMMA ResumedEffect ==
  ASSUME NEW s \in States, NEW m \in Missions, NEW rows
  PROVE  /\ Resumed(s, m, rows) \in States
         /\ Resumed(s, m, rows).mission = [s.mission EXCEPT ![m] = "ACTIVE"]
         /\ Resumed(s, m, rows).resumed = s.resumed \cup {m}
         /\ Resumed(s, m, rows).asg = SetStatus(s, rows, "READY")
BY DEF Resumed, States, SetStatus, MissionStatuses, SessionStatuses, AssignmentStatuses

LEMMA CancelledEffect ==
  ASSUME NEW s \in States, NEW m \in Missions, NEW rows
  PROVE  /\ Cancelled(s, m, rows) \in States
         /\ Cancelled(s, m, rows).mission = [s.mission EXCEPT ![m] = "CANCELLED"]
         /\ Cancelled(s, m, rows).resumed = s.resumed
         /\ Cancelled(s, m, rows).asg = SetStatus(s, rows, "CANCELLED")
BY DEF Cancelled, States, SetStatus, MissionStatuses, SessionStatuses, AssignmentStatuses

LEMMA FinishedEffect ==
  ASSUME NEW s \in States, NEW m \in Missions
  PROVE  /\ Finished(s, m) \in States
         /\ Finished(s, m).mission = [s.mission EXCEPT ![m] = "VALIDATING"]
         /\ Finished(s, m).resumed = s.resumed
         /\ Finished(s, m).asg = s.asg
BY DEF Finished, States, MissionStatuses, SessionStatuses

LEMMA AdvancedEffect ==
  ASSUME NEW s \in States, NEW m \in Missions, NEW n \in Nat
  PROVE  /\ [s EXCEPT !.milestone = <<m, n>>] \in States
         /\ [s EXCEPT !.milestone = <<m, n>>].mission = s.mission
         /\ [s EXCEPT !.milestone = <<m, n>>].resumed = s.resumed
         /\ [s EXCEPT !.milestone = <<m, n>>].asg = s.asg
BY DEF States

LEMMA MovedEffect ==
  ASSUME NEW s \in States, NEW a \in Assignments, NEW to \in AssignmentStatuses
  PROVE  /\ [s EXCEPT !.asg[a] = to] \in States
         /\ [s EXCEPT !.asg[a] = to].mission = s.mission
         /\ [s EXCEPT !.asg[a] = to].resumed = s.resumed
         /\ [s EXCEPT !.asg[a] = to].asg = [s.asg EXCEPT ![a] = to]
BY DEF States

LEMMA AsgEffect ==
  ASSUME NEW s \in States, NEW asg \in [Assignments -> AssignmentStatuses]
  PROVE  /\ [s EXCEPT !.asg = asg] \in States
         /\ [s EXCEPT !.asg = asg].mission = s.mission
         /\ [s EXCEPT !.asg = asg].resumed = s.resumed
         /\ [s EXCEPT !.asg = asg].asg = asg
BY DEF States

\* What complete makes of the statuses: a is COMPLETED, and the dependents that wait for
\* nothing else are READY.
Done(asg, a) == [asg EXCEPT ![a] = "COMPLETED"]
Woken(asg, a) ==
  {b \in Assignments : /\ MissionOf[b] = MissionOf[a] /\ DependsOn[b] # {}
                       /\ Done(asg, a)[b] = "PENDING"
                       /\ \A d \in DependsOn[b] : Done(asg, a)[d] = "COMPLETED"}
LEMMA CompletedEffect ==
  ASSUME NEW s \in States, NEW a \in Assignments
  PROVE  /\ Completed(s, a) \in States
         /\ Completed(s, a).mission = s.mission
         /\ Completed(s, a).resumed = s.resumed
         /\ Completed(s, a).asg = [b \in Assignments |->
              IF b \in Woken(s.asg, a) THEN "READY" ELSE Done(s.asg, a)[b]]
<1> DEFINE done == [s EXCEPT !.asg[a] = "COMPLETED"]
           woken == Promoted(done, MissionOf[a])
<1>1. done \in States /\ done.asg = Done(s.asg, a) /\ done.mission = s.mission
      /\ done.resumed = s.resumed
  BY DEF States, Done, AssignmentStatuses
<1>2. Completed(s, a) = [done EXCEPT !.asg = woken]
  BY DEF Completed
<1> HIDE DEF done
<1>3. woken = [b \in Assignments |->
                 IF b \in Woken(s.asg, a) THEN "READY" ELSE Done(s.asg, a)[b]]
  BY <1>1 DEF Promoted, SetStatus, InStatus, MissionAssignments, DepsCompleted, Woken
<1>4. woken \in [Assignments -> AssignmentStatuses]
  BY <1>1 DEF Promoted, SetStatus, States, AssignmentStatuses
<1> HIDE DEF woken
<1>5. /\ [done EXCEPT !.asg = woken] \in States
      /\ [done EXCEPT !.asg = woken].mission = done.mission
      /\ [done EXCEPT !.asg = woken].resumed = done.resumed
      /\ [done EXCEPT !.asg = woken].asg = woken
  BY <1>1, <1>4, AsgEffect
<1>. QED
  BY <1>1, <1>2, <1>3, <1>5

-----------------------------------------------------------------------------
(* Types, and what a call under way is about.                              *)

\* Missions are bound before they are started, and started before they are worked on.
CallsOK == \A p \in Procs :
  /\ call[p].op \in MissionOps =>
       /\ call[p].subject \in Missions /\ state.mission[call[p].subject] # "none"
       /\ call[p].op # "start" => state.mission[call[p].subject] # "PLANNED"
       /\ call[p].rows \subseteq MissionAssignments(call[p].subject)
  /\ call[p].op = "cancel" => call[p].from \in {"ACTIVE", "INTERRUPTED"}
  /\ call[p].op = "advance" => call[p].subject \in Missions /\ call[p].rows \subseteq Nat
  /\ call[p].op \in WorkOps =>
       /\ call[p].subject \in Assignments
       /\ state.mission[MissionOf[call[p].subject]] \notin {"none", "PLANNED"}
UnboundIsEmpty == \A a \in Assignments :
  /\ state.mission[MissionOf[a]] = "none" => state.asg[a] = "none"
  /\ state.mission[MissionOf[a]] = "PLANNED" => state.asg[a] = "PENDING"

\* A call that was not overtaken finds what it has checked.
Fresh(p) ==
  LET m == call[p].subject  s == state
  IN  /\ Doing(p, "start") => s.mission[m] = "PLANNED"
      /\ Doing(p, "pause") => s.mission[m] = "ACTIVE" /\ call[p].rows = InStatus(s, m, NonTerminal)
      /\ Doing(p, "resume") => /\ s.mission[m] = "INTERRUPTED"
                               /\ call[p].rows = InStatus(s, m, {"INTERRUPTED"})
      /\ Doing(p, "cancel") => /\ s.mission[m] = call[p].from
                               /\ call[p].rows = InStatus(s, m, NonTerminal)
      /\ Doing(p, "finish") => s.mission[m] = "ACTIVE" /\ AllCompleted(s, m)
      /\ Doing(p, "dispatch") => s.asg[m] = "READY"
      /\ Doing(p, "complete") \/ Doing(p, "fail") => s.asg[m] = "IN_PROGRESS"
      /\ Doing(p, "block") => s.asg[m] \in Blockable
      /\ Doing(p, "unblock") => s.asg[m] = "BLOCKED"
FreshCalls == \A p \in Procs \ overtaken : Fresh(p)

\* The result that is about to be written is that of a completed assignment.
WritesCompleted ==
  races = 0 => \A p \in Procs : Doing(p, "write_result") => state.asg[call[p].subject] = "COMPLETED"

\* What a step of p does to missions and assignments.
Same == /\ state'.mission = state.mission /\ state'.asg = state.asg
        /\ state'.resumed = state.resumed /\ results' = results
Binding(m) ==
  /\ state.mission[m] = "none"
  /\ state'.mission = [state.mission EXCEPT ![m] = "PLANNED"]
  /\ state'.asg = [a \in Assignments |-> IF MissionOf[a] = m THEN "PENDING" ELSE state.asg[a]]
  /\ state'.resumed = state.resumed /\ results' = results
Moving(m, to, rows, status, resumed) ==
  /\ state'.mission = [state.mission EXCEPT ![m] = to]
  /\ state'.asg = SetStatus(state, rows, status)
  /\ state'.resumed = resumed /\ results' = results
Working(a, to) ==
  /\ state'.mission = state.mission /\ state'.asg = [state.asg EXCEPT ![a] = to]
  /\ state'.resumed = state.resumed /\ results' = results
Completing(a) ==
  /\ state'.mission = state.mission
  /\ state'.asg = [b \in Assignments |->
                     IF b \in Woken(state.asg, a) THEN "READY" ELSE Done(state.asg, a)[b]]
  /\ state'.resumed = state.resumed /\ results' = results
Writing(a) ==
  /\ state' = state /\ results' = results \cup {a}

Effect(p) ==
  LET m == call[p].subject  rows == call[p].rows  all == state.resumed
  IN  \/ Same
      \/ \E n \in Missions : Binding(n)
      \/ /\ Doing(p, "start")
         /\ Moving(m, "ACTIVE", Roots(m) \cap InStatus(state, m, {"PENDING"}), "READY", all \ {m})
      \/ Doing(p, "pause") /\ Moving(m, "INTERRUPTED", rows, "INTERRUPTED", all)
      \/ Doing(p, "resume") /\ Moving(m, "ACTIVE", rows, "READY", all \cup {m})
      \/ Doing(p, "cancel") /\ call[p].from = "ACTIVE" /\ Moving(m, "CANCELLED", rows, "CANCELLED", all)
      \/ Doing(p, "finish") /\ Moving(m, "VALIDATING", {}, "none", all)
      \/ Doing(p, "dispatch") /\ Working(m, "IN_PROGRESS")
      \/ Doing(p, "fail") /\ Working(m, "FAILED")
      \/ Doing(p, "block") /\ Working(m, "BLOCKED")
      \/ Doing(p, "unblock") /\ Working(m, "READY")
      \/ Doing(p, "complete") /\ Completing(m)
      \/ Doing(p, "write_result") /\ Writing(m)

\* How a step of p leaves the calls under way: it checks one, or ends its own.
Checked(p) ==
  /\ state' = state /\ overtaken' = overtaken /\ races' = races
  /\ \E plan \in Calls : call' = [call EXCEPT ![p] = plan]
Ended(p) ==
  /\ call'[p] = NoCall \/ (Doing(p, "complete") /\ call'[p].op = "write_result"
                             /\ call'[p].subject = call[p].subject
                             /\ Completing(call[p].subject))
  /\ \A q \in Procs \ {p} : call'[q] = call[q]
  /\ state' = state \/ \A q \in Procs \ {p} : q \in overtaken' \/ Idle(q)
  /\ state' = state => overtaken' = overtaken \ {p}

TypeInv == ExecutionTypeOK /\ CallsOK

LEMMA UpdateKeeps ==
  ASSUME TypeInv, NEW p \in Procs, NEW new \in States, NEW next \in Calls, Update(p, new, next)
  PROVE  /\ state' = new /\ state' \in States /\ call' = [call EXCEPT ![p] = next]
         /\ call' \in [Procs -> Calls]
         /\ overtaken' \subseteq Procs /\ races' \in 0..MaxRaces
         /\ races' = 0 => races = 0 /\ p \notin overtaken
         /\ state' = state => overtaken' = overtaken \ {p}
         /\ state' # state => \A q \in Procs \ {p} : q \in overtaken' \/ Idle(q)
<1>1. state' = new /\ call' = [call EXCEPT ![p] = next] /\ call' \in [Procs -> Calls]
  BY DEF Update, TypeInv, ExecutionTypeOK
<1>2. races' \in 0..MaxRaces /\ (races' = 0 => races = 0 /\ p \notin overtaken)
  BY IdsAssumption DEF Update, TypeInv, ExecutionTypeOK
<1>3. overtaken' = IF new = state THEN overtaken \ {p} ELSE {q \in Procs : q # p /\ ~Idle(q)}
  BY DEF Update
<1>4. overtaken' \subseteq Procs
  BY <1>3 DEF TypeInv, ExecutionTypeOK
<1>5. state' = state => overtaken' = overtaken \ {p}
  BY <1>1, <1>3
<1>6. state' # state => \A q \in Procs \ {p} : q \in overtaken' \/ Idle(q)
  <2>. SUFFICES ASSUME state' # state, NEW q \in Procs \ {p}, ~Idle(q) PROVE q \in overtaken'
    OBVIOUS
  <2>1. overtaken' = {r \in Procs : r # p /\ ~Idle(r)}
    BY <1>1, <1>3
  <2>. QED
    BY <2>1
<1>. QED
  BY <1>1, <1>2, <1>4, <1>5, <1>6

\* An update that demands no checkpoint, and one that may leave it out.
LEMMA PlainCommit ==
  ASSUME NEW p, NEW kind, NEW to, NEW new, NEW next, Commit(p, kind, to, new, next),
         ~Mandatory(kind, to)
  PROVE  Update(p, new, next)
BY DEF Commit, Checkpointed

LEMMA KeptCommit ==
  ASSUME NEW p, NEW kind, NEW to, NEW new \in States, NEW next, Commit(p, kind, to, new, next)
  PROVE  \E published \in States :
           /\ Update(p, published, next)
           /\ published.mission = new.mission /\ published.asg = new.asg
           /\ published.resumed = new.resumed
<1>1. PICK published \in Checkpointed(kind, to, call[p].subject, new) : Update(p, published, next)
  BY DEF Commit
<1>2. ASSUME NEW set \in SUBSET Missions
      PROVE  LET with == [new EXCEPT !.kept = @ \cup set]
             IN  /\ with \in States /\ with.mission = new.mission /\ with.asg = new.asg
                 /\ with.resumed = new.resumed
  BY DEF States
<1>3. {Concerned(new, call[p].subject)} \cap Missions \in SUBSET Missions
  OBVIOUS
<1>. QED
  BY <1>1, <1>2, <1>3 DEF Checkpointed

LEMMA NoCallType == NoCall \in Calls
BY DEF NoCall, Call, Calls, MissionStatuses

LEMMA CancelsActive == ~Legal("MISSION_STATUS", "INTERRUPTED", "CANCELLED")
BY DEF Legal, LegalMission

\* The second halves of the calls of EEF.
CommitFacts(p) ==
  /\ Effect(p) /\ Ended(p) /\ ExecutionTypeOK'
  /\ races' = 0 => races = 0 /\ p \notin overtaken

LEMMA StartFacts == ASSUME TypeInv, NEW p \in Procs, Start(p) PROVE CommitFacts(p)
<1> DEFINE m == call[p].subject
<1>1. m \in Missions /\ state \in States
  BY DEF TypeInv, CallsOK, ExecutionTypeOK, Start, Doing, MissionOps
<1>2. Started(state, m) \in States /\ results' = results /\ Doing(p, "start")
  BY <1>1, StartedEffect DEF Start
<1>3. PICK published \in States :
        /\ Update(p, published, NoCall) /\ published.mission = Started(state, m).mission
        /\ published.asg = Started(state, m).asg /\ published.resumed = Started(state, m).resumed
  BY <1>2, KeptCommit DEF Start
<1>4. state' = published /\ call' = [call EXCEPT ![p] = NoCall]
  BY <1>3, UpdateKeeps, NoCallType
<1>5. Moving(m, "ACTIVE", Roots(m) \cap InStatus(state, m, {"PENDING"}), "READY",
             state.resumed \ {m})
  BY <1>1, <1>2, <1>3, <1>4, StartedEffect DEF Moving
<1>. QED
  BY <1>2, <1>3, <1>5, UpdateKeeps, NoCallType
     DEF CommitFacts, Effect, Ended, ExecutionTypeOK, TypeInv

LEMMA PauseFacts == ASSUME TypeInv, NEW p \in Procs, Pause(p) PROVE CommitFacts(p)
<1> DEFINE m == call[p].subject
           rows == call[p].rows
<1>1. m \in Missions /\ state \in States
  BY DEF TypeInv, CallsOK, ExecutionTypeOK, Pause, Doing, MissionOps
<1>2. Update(p, Paused(state, m, rows), NoCall) /\ results' = results /\ Doing(p, "pause")
  BY PlainCommit DEF Pause, Mandatory
<1>3. Paused(state, m, rows) \in States
  BY <1>1, PausedEffect
<1>4. state' = Paused(state, m, rows) /\ call' = [call EXCEPT ![p] = NoCall]
  BY <1>2, <1>3, UpdateKeeps, NoCallType
<1>5. Moving(m, "INTERRUPTED", rows, "INTERRUPTED", state.resumed)
  BY <1>1, <1>2, <1>4, PausedEffect DEF Moving, SetStatus, States
<1>. QED
  BY <1>2, <1>3, <1>5, UpdateKeeps, NoCallType
     DEF CommitFacts, Effect, Ended, ExecutionTypeOK, TypeInv

LEMMA ResumeFacts == ASSUME TypeInv, NEW p \in Procs, ResumeSession(p) PROVE CommitFacts(p)
<1> DEFINE m == call[p].subject
           rows == call[p].rows
<1>1. m \in Missions /\ state \in States
  BY DEF TypeInv, CallsOK, ExecutionTypeOK, ResumeSession, Doing, MissionOps
<1>2. Update(p, Resumed(state, m, rows), NoCall) /\ results' = results /\ Doing(p, "resume")
  BY PlainCommit DEF ResumeSession, Mandatory
<1>3. Resumed(state, m, rows) \in States
  BY <1>1, ResumedEffect
<1>4. state' = Resumed(state, m, rows) /\ call' = [call EXCEPT ![p] = NoCall]
  BY <1>2, <1>3, UpdateKeeps, NoCallType
<1>5. Moving(m, "ACTIVE", rows, "READY", state.resumed \cup {m})
  BY <1>1, <1>2, <1>4, ResumedEffect DEF Moving, SetStatus, States
<1>. QED
  BY <1>2, <1>3, <1>5, UpdateKeeps, NoCallType
     DEF CommitFacts, Effect, Ended, ExecutionTypeOK, TypeInv

LEMMA CancelFacts == ASSUME TypeInv, NEW p \in Procs, Cancel(p) PROVE CommitFacts(p)
<1> DEFINE m == call[p].subject
           rows == call[p].rows
<1>1. m \in Missions /\ state \in States
  BY DEF TypeInv, CallsOK, ExecutionTypeOK, Cancel, Doing, MissionOps
<1>2. Cancelled(state, m, rows) \in States /\ results' = results /\ Doing(p, "cancel")
  BY <1>1, CancelledEffect DEF Cancel
<1>3. PICK published \in States :
        /\ Update(p, published, NoCall) /\ published.mission = Cancelled(state, m, rows).mission
        /\ published.asg = Cancelled(state, m, rows).asg
        /\ published.resumed = Cancelled(state, m, rows).resumed
  BY <1>2, KeptCommit DEF Cancel
<1>4. state' = published /\ call' = [call EXCEPT ![p] = NoCall]
  BY <1>3, UpdateKeeps, NoCallType
<1>5. Moving(m, "CANCELLED", rows, "CANCELLED", state.resumed)
  <2>1. /\ Cancelled(state, m, rows).mission = [state.mission EXCEPT ![m] = "CANCELLED"]
        /\ Cancelled(state, m, rows).asg = SetStatus(state, rows, "CANCELLED")
        /\ Cancelled(state, m, rows).resumed = state.resumed
    BY <1>1, CancelledEffect
  <2>. QED
    BY <1>2, <1>3, <1>4, <2>1 DEF Moving
<1>6. call[p].from = "ACTIVE"
  BY CancelsActive DEF TypeInv, CallsOK, Cancel, Commit, Doing
<1>. QED
  BY <1>2, <1>3, <1>5, UpdateKeeps, NoCallType, <1>6
     DEF CommitFacts, Effect, Ended, ExecutionTypeOK, TypeInv

LEMMA FinishFacts == ASSUME TypeInv, NEW p \in Procs, Finish(p) PROVE CommitFacts(p)
<1> DEFINE m == call[p].subject
           rows == call[p].rows
<1>1. m \in Missions /\ state \in States
  BY DEF TypeInv, CallsOK, ExecutionTypeOK, Finish, Doing, MissionOps
<1>2. Update(p, Finished(state, m), NoCall) /\ results' = results /\ Doing(p, "finish")
  BY PlainCommit DEF Finish, Mandatory
<1>3. Finished(state, m) \in States
  BY <1>1, FinishedEffect
<1>4. state' = Finished(state, m) /\ call' = [call EXCEPT ![p] = NoCall]
  BY <1>2, <1>3, UpdateKeeps, NoCallType
<1>5. Moving(m, "VALIDATING", {}, "none", state.resumed)
  BY <1>1, <1>2, <1>4, FinishedEffect DEF Moving, SetStatus, States
<1>. QED
  BY <1>2, <1>3, <1>5, UpdateKeeps, NoCallType
     DEF CommitFacts, Effect, Ended, ExecutionTypeOK, TypeInv

LEMMA AdvanceFacts == ASSUME TypeInv, NEW p \in Procs, Advance(p) PROVE CommitFacts(p)
<1> DEFINE m == call[p].subject
<1>1. m \in Missions /\ call[p].rows \subseteq Nat /\ state \in States
  BY DEF TypeInv, CallsOK, ExecutionTypeOK, Advance, Doing
<1>2. PICK n \in call[p].rows : Update(p, [state EXCEPT !.milestone = <<m, n>>], NoCall)
  BY PlainCommit DEF Advance, Mandatory
<1>3. results' = results /\ [state EXCEPT !.milestone = <<m, n>>] \in States
  BY <1>1, AdvancedEffect DEF Advance
<1>4. state' = [state EXCEPT !.milestone = <<m, n>>] /\ call' = [call EXCEPT ![p] = NoCall]
  BY <1>2, <1>3, UpdateKeeps, NoCallType
<1>5. Same
  BY <1>1, <1>3, <1>4, AdvancedEffect DEF Same
<1>. QED
  BY <1>2, <1>3, <1>5, UpdateKeeps, NoCallType
     DEF CommitFacts, Effect, Ended, ExecutionTypeOK, TypeInv

\* The second halves of the calls of AEX.
LEMMA MoveFacts ==
  ASSUME TypeInv, NEW p \in Procs, Dispatch(p) \/ Fail(p) \/ Block(p) \/ Unblock(p)
  PROVE  CommitFacts(p)
<1> DEFINE a == call[p].subject
           new(to) == [state EXCEPT !.asg[a] = to]
<1>1. a \in Assignments /\ state \in States
  BY DEF TypeInv, CallsOK, ExecutionTypeOK, Dispatch, Fail, Block, Unblock, Move, Doing, WorkOps
<1>2. ASSUME NEW op, NEW to \in {"IN_PROGRESS", "FAILED", "BLOCKED", "READY"}, Move(p, op, to)
      PROVE  /\ Working(a, to) /\ Ended(p) /\ ExecutionTypeOK' /\ Doing(p, op)
             /\ races' = 0 => races = 0 /\ p \notin overtaken
  <2>1. Update(p, new(to), NoCall) /\ results' = results /\ Doing(p, op)
    BY <1>2, PlainCommit DEF Move, Mandatory
  <2>2. to \in AssignmentStatuses
    BY DEF AssignmentStatuses
  <2>3. /\ new(to) \in States /\ new(to).mission = state.mission
        /\ new(to).resumed = state.resumed /\ new(to).asg = [state.asg EXCEPT ![a] = to]
    BY <1>1, <2>2, MovedEffect
  <2>4. state' = new(to) /\ call' = [call EXCEPT ![p] = NoCall]
    BY <2>1, <2>3, UpdateKeeps, NoCallType
  <2>5. Working(a, to)
    BY <2>1, <2>3, <2>4 DEF Working
  <2>. QED
    BY <2>1, <2>3, <2>5, UpdateKeeps, NoCallType DEF Ended, ExecutionTypeOK, TypeInv
<1>. QED
  BY <1>2 DEF CommitFacts, Effect, Dispatch, Fail, Block, Unblock

LEMMA CompleteFacts == ASSUME TypeInv, NEW p \in Procs, Complete(p) PROVE CommitFacts(p)
<1> DEFINE a == call[p].subject
           next == Call("write_result", a, "COMPLETED", {})
<1>1. a \in Assignments /\ state \in States
  BY DEF TypeInv, CallsOK, ExecutionTypeOK, Complete, Doing, WorkOps
<1>2. Update(p, Completed(state, a), next) /\ results' = results /\ Doing(p, "complete")
  BY PlainCommit DEF Complete, Mandatory
<1>3. Completed(state, a) \in States
  BY <1>1, CompletedEffect
<1>4. next \in Calls /\ next.op = "write_result" /\ next.subject = a
  BY <1>1 DEF Call, Calls, WorkOps, AssignmentStatuses
<1>5. state' = Completed(state, a) /\ call' = [call EXCEPT ![p] = next]
  BY <1>2, <1>3, <1>4, UpdateKeeps
<1>6. Completing(a)
  BY <1>1, <1>2, <1>5, CompletedEffect DEF Completing
<1> HIDE DEF next
<1>7. Ended(p)
  BY <1>2, <1>3, <1>4, <1>5, <1>6, UpdateKeeps DEF Ended, TypeInv, ExecutionTypeOK
<1>. QED
  BY <1>2, <1>3, <1>4, <1>6, <1>7, UpdateKeeps DEF CommitFacts, Effect, ExecutionTypeOK, TypeInv

LEMMA WriteResultFacts == ASSUME TypeInv, NEW p \in Procs, WriteResult(p)
                          PROVE  Effect(p) /\ Ended(p) /\ ExecutionTypeOK' /\ races' = races
<1>1. call[p].subject \in Assignments
  BY DEF TypeInv, CallsOK, ExecutionTypeOK, WriteResult, Doing, WorkOps
<1>. QED
  BY <1>1, NoCallType DEF WriteResult, Effect, Writing, Ended, ExecutionTypeOK, TypeInv

\* bind_manifest_to_pese, and a call that ends without effect.
LEMMA BindFacts ==
  ASSUME TypeInv, NEW p \in Procs, NEW m \in Missions, Bind(p, m), UNCHANGED results
  PROVE  CommitFacts(p)
<1>1. state \in States /\ state.mission[m] = "none"
  BY DEF TypeInv, ExecutionTypeOK, Bind
<1>2. PICK v \in BOOLEAN : Update(p, Bound(state, m, v), NoCall)
  BY DEF Bind
<1>3. Bound(state, m, v) \in States
  BY <1>1, BoundEffect
<1>4. state' = Bound(state, m, v) /\ call' = [call EXCEPT ![p] = NoCall]
  BY <1>2, <1>3, UpdateKeeps, NoCallType
<1>5. Binding(m)
  BY <1>1, <1>4, BoundEffect DEF Binding
<1>. QED
  BY <1>2, <1>3, <1>5, UpdateKeeps, NoCallType
     DEF CommitFacts, Effect, Ended, ExecutionTypeOK, TypeInv

LEMMA AbandonFacts ==
  ASSUME TypeInv, NEW p \in Procs, Abandon(p), UNCHANGED results
  PROVE  Same /\ Ended(p) /\ ExecutionTypeOK' /\ state' = state /\ races' = races
BY NoCallType DEF TypeInv, ExecutionTypeOK, Abandon, Same, Ended

\* A check leaves everything but its own call as it is.
CheckFacts(p) ==
  /\ Same /\ Checked(p) /\ ExecutionTypeOK' /\ CallsOK' /\ Fresh(p)'
  /\ call'[p].op # "write_result"

LEMMA PlanKeeps ==
  ASSUME TypeInv, NEW p \in Procs, NEW plan \in Calls, Plan(p, plan), UNCHANGED results
  PROVE  Same /\ Checked(p) /\ ExecutionTypeOK' /\ call' = [call EXCEPT ![p] = plan]
         /\ state' = state /\ call'[p] = plan
BY DEF TypeInv, ExecutionTypeOK, Plan, Same, Checked

LEMMA MissionCheckFacts ==
  ASSUME TypeInv, UNCHANGED results, NEW p \in Procs, NEW m \in Missions,
         \/ CheckStart(p, m) \/ CheckPause(p, m) \/ CheckResume(p, m)
         \/ CheckCancel(p, m) \/ CheckFinish(p, m)
  PROVE  CheckFacts(p)
<1>1. \A set : InStatus(state, m, set) \in SUBSET Nat /\ InStatus(state, m, set) \subseteq MissionAssignments(m)
  BY IdsAssumption DEF InStatus, MissionAssignments
<1>2. PICK op \in MissionOps, from \in {"PLANNED", "ACTIVE", "INTERRUPTED"},
           rows \in SUBSET MissionAssignments(m) :
        /\ Plan(p, Call(op, m, from, rows)) /\ state.mission[m] = from
        /\ op # "start" => from # "PLANNED"
        /\ op = "cancel" => from \in {"ACTIVE", "INTERRUPTED"}
        /\ op = "start" => from = "PLANNED"
        /\ op = "pause" => from = "ACTIVE" /\ rows = InStatus(state, m, NonTerminal)
        /\ op = "resume" => from = "INTERRUPTED" /\ rows = InStatus(state, m, {"INTERRUPTED"})
        /\ op = "cancel" => rows = InStatus(state, m, NonTerminal)
        /\ op = "finish" => from = "ACTIVE" /\ AllCompleted(state, m)
  <2>1. CASE CheckStart(p, m)
    BY <2>1 DEF CheckStart, MissionOps
  <2>2. CASE CheckPause(p, m)
    BY <1>1, <2>2 DEF CheckPause, MissionOps
  <2>3. CASE CheckResume(p, m)
    BY <1>1, <2>3 DEF CheckResume, MissionOps
  <2>4. CASE CheckCancel(p, m)
    BY <1>1, <2>4 DEF CheckCancel, MissionOps
  <2>5. CASE CheckFinish(p, m)
    BY <2>5 DEF CheckFinish, MissionOps
  <2>. QED
    BY <2>1, <2>2, <2>3, <2>4, <2>5
<1> DEFINE plan == Call(op, m, from, rows)
<1>3. /\ plan \in Calls /\ plan.op = op /\ plan.subject = m /\ plan.from = from
      /\ plan.rows = rows
  BY IdsAssumption DEF Call, Calls, MissionOps, MissionStatuses, MissionAssignments
<1> HIDE DEF plan
<1>4. Same /\ Checked(p) /\ ExecutionTypeOK' /\ call' = [call EXCEPT ![p] = plan] /\ state' = state
      /\ call'[p] = plan
  BY <1>2, <1>3, PlanKeeps DEF plan
<1>5. Fresh(p)'
  BY <1>2, <1>3, <1>4 DEF Fresh, Doing, MissionOps
<1>6. CallsOK'
  BY <1>2, <1>3, <1>4 DEF TypeInv, CallsOK, MissionOps, WorkOps, ExecutionTypeOK
<1>. QED
  BY <1>3, <1>4, <1>5, <1>6 DEF CheckFacts, MissionOps

LEMMA AdvanceCheckFacts ==
  ASSUME TypeInv, UNCHANGED results, NEW p \in Procs, NEW m \in Missions, CheckAdvance(p, m)
  PROVE  CheckFacts(p)
<1> DEFINE phase == ComputedMilestone(state, m)[2]
           plan  == Call("advance", m, "milestone", {phase})
<1>1. phase \in Nat
  <2> DEFINE open == {n \in Phases(m) : Unfinished(state, m, n)}
  <2>1. open \in SUBSET Nat
    BY RowsAssumption DEF Phases, MissionAssignments
  <2>2. open # {} => Min(open) \in Nat
    BY <2>1, MinIsMember
  <2>3. ComputedMilestone(state, m) = IF open = {} THEN <<None, 0>> ELSE <<m, Min(open)>>
    BY DEF ComputedMilestone
  <2> HIDE DEF open
  <2>. QED
    BY <2>2, <2>3
<1> HIDE DEF phase
<1>2. Plan(p, plan)
  BY DEF CheckAdvance, phase
<1>3. plan \in Calls /\ plan.op = "advance" /\ plan.subject = m /\ plan.rows = {phase}
  BY <1>1 DEF Call, Calls
<1> HIDE DEF plan
<1>4. Same /\ Checked(p) /\ ExecutionTypeOK' /\ call' = [call EXCEPT ![p] = plan]
      /\ state' = state /\ call'[p] = plan
  BY <1>2, <1>3, PlanKeeps
<1>5. Fresh(p)'
  BY <1>3, <1>4 DEF Fresh, Doing
<1>6. CallsOK'
  BY <1>1, <1>3, <1>4 DEF TypeInv, CallsOK, MissionOps, WorkOps, ExecutionTypeOK
<1>. QED
  BY <1>3, <1>4, <1>5, <1>6 DEF CheckFacts, MissionOps

LEMMA WorkCheckFacts ==
  ASSUME TypeInv, UnboundIsEmpty, UNCHANGED results, NEW p \in Procs, NEW a \in Assignments,
         \/ CheckDispatch(p, a) \/ CheckComplete(p, a) \/ CheckFail(p, a)
         \/ CheckBlock(p, a) \/ CheckUnblock(p, a)
  PROVE  CheckFacts(p)
<1>1. PICK op \in WorkOps \ {"write_result"} :
        /\ Plan(p, Call(op, a, state.asg[a], {}))
        /\ state.asg[a] \in {"READY", "IN_PROGRESS", "BLOCKED"}
        /\ op = "dispatch" => state.asg[a] = "READY"
        /\ op \in {"complete", "fail"} => state.asg[a] = "IN_PROGRESS"
        /\ op = "block" => state.asg[a] \in Blockable
        /\ op = "unblock" => state.asg[a] = "BLOCKED"
  BY DEF CheckDispatch, CheckComplete, CheckFail, CheckBlock, CheckUnblock, CheckAssignment,
         WorkOps, Blockable
<1> DEFINE plan == Call(op, a, state.asg[a], {})
<1>2. plan \in Calls /\ plan.op = op /\ plan.subject = a
  BY <1>1 DEF Call, Calls, WorkOps, AssignmentStatuses
<1> HIDE DEF plan
<1>3. Same /\ Checked(p) /\ ExecutionTypeOK' /\ call' = [call EXCEPT ![p] = plan]
      /\ state' = state /\ call'[p] = plan
  BY <1>1, <1>2, PlanKeeps DEF plan
<1>4. Fresh(p)'
  BY <1>1, <1>2, <1>3 DEF Fresh, Doing, WorkOps
<1>5. state.mission[MissionOf[a]] \notin {"none", "PLANNED"}
  BY <1>1 DEF UnboundIsEmpty
<1>6. CallsOK'
  BY <1>1, <1>2, <1>3, <1>5 DEF TypeInv, CallsOK, MissionOps, WorkOps, ExecutionTypeOK
<1>. QED
  BY <1>1, <1>2, <1>3, <1>4, <1>6 DEF CheckFacts

-----------------------------------------------------------------------------
(* Every step.                                                             *)

StepFacts(p) ==
  /\ ExecutionTypeOK' /\ Effect(p)
  /\ \/ CheckFacts(p)
     \/ Ended(p) /\ (Same \/ Doing(p, "write_result") \/ (races' = 0 => races = 0 /\ p \notin overtaken))
  /\ races' = 0 => races = 0

LEMMA Steps ==
  ASSUME TypeInv, UnboundIsEmpty, ExecutionNext PROVE \E p \in Procs : StepFacts(p)
<1>1. PICK p \in Procs :
        \/ /\ ExecutionCheck(p) \/ Abandon(p) \/ \E m \in Missions : Bind(p, m)
           /\ UNCHANGED results
        \/ ExecutionCommit(p)
  BY DEF ExecutionNext
<1>2. CASE ExecutionCheck(p) /\ UNCHANGED results
  <2>1. CheckFacts(p)
    BY <1>2, MissionCheckFacts, AdvanceCheckFacts, WorkCheckFacts DEF ExecutionCheck
  <2>. QED
    BY <2>1 DEF StepFacts, CheckFacts, Checked, Effect
<1>3. CASE Abandon(p) /\ UNCHANGED results
  BY <1>3, AbandonFacts DEF StepFacts, Effect
<1>4. ASSUME NEW m \in Missions, Bind(p, m), UNCHANGED results PROVE StepFacts(p)
  BY <1>4, BindFacts DEF StepFacts, CommitFacts
<1>5. CASE ExecutionCommit(p)
  <2>1. CASE WriteResult(p)
    BY <2>1, WriteResultFacts DEF StepFacts, WriteResult
  <2>2. CASE ~WriteResult(p)
    <3>1. CommitFacts(p)
      BY <1>5, <2>2, StartFacts, PauseFacts, ResumeFacts, CancelFacts, FinishFacts, AdvanceFacts,
         MoveFacts, CompleteFacts DEF ExecutionCommit
    <3>. QED
      BY <3>1 DEF StepFacts, CommitFacts
  <2>. QED
    BY <2>1, <2>2
<1>. QED
  BY <1>1, <1>2, <1>3, <1>4, <1>5

\* The types that the arguments below need.
LEMMA Shapes ==
  ASSUME ExecutionTypeOK
  PROVE  /\ state.mission \in [Missions -> MissionStatuses]
         /\ state.asg \in [Assignments -> AssignmentStatuses]
         /\ MissionOf \in [Assignments -> Missions]
         /\ \A a \in Assignments : DependsOn[a] \subseteq Assignments
BY RowsAssumption DEF ExecutionTypeOK, States

\* Whom an effect is about.
LEMMA Subjects ==
  ASSUME TypeInv, NEW p \in Procs
  PROVE  /\ call[p].op \in MissionOps =>
              /\ call[p].subject \in Missions /\ state.mission[call[p].subject] # "none"
              /\ call[p].rows \subseteq MissionAssignments(call[p].subject)
         /\ call[p].op \in MissionOps \ {"start"} =>
              state.mission[call[p].subject] \notin {"none", "PLANNED"}
         /\ call[p].op \in WorkOps =>
              /\ call[p].subject \in Assignments
              /\ state.mission[MissionOf[call[p].subject]] \notin {"none", "PLANNED"}
BY DEF TypeInv, CallsOK

LEMMA MissionsMoveOn ==
  ASSUME TypeInv, NEW p \in Procs, StepFacts(p), NEW m \in Missions
  PROVE  /\ state.mission[m] # "none" => state'.mission[m] # "none"
         /\ state.mission[m] \notin {"none", "PLANNED"} => state'.mission[m] \notin {"none", "PLANNED"}
BY Shapes, Subjects DEF TypeInv, StepFacts, Effect, Same, Binding, Moving, Working, Completing, Writing

LEMMA CallsStep ==
  ASSUME TypeInv, NEW p \in Procs, StepFacts(p) PROVE CallsOK'
<1>1. CASE CheckFacts(p)
  BY <1>1 DEF CheckFacts
<1>2. CASE Ended(p)
  <2>. SUFFICES ASSUME NEW q \in Procs
       PROVE  /\ call'[q].op \in MissionOps =>
                   /\ call'[q].subject \in Missions /\ state'.mission[call'[q].subject] # "none"
                   /\ call'[q].op # "start" => state'.mission[call'[q].subject] # "PLANNED"
                   /\ call'[q].rows \subseteq MissionAssignments(call'[q].subject)
              /\ call'[q].op = "cancel" => call'[q].from \in {"ACTIVE", "INTERRUPTED"}
              /\ call'[q].op = "advance" =>
                   call'[q].subject \in Missions /\ call'[q].rows \subseteq Nat
              /\ call'[q].op \in WorkOps =>
                   /\ call'[q].subject \in Assignments
                   /\ state'.mission[MissionOf[call'[q].subject]] \notin {"none", "PLANNED"}
    BY DEF CallsOK, MissionAssignments
  <2>1. CASE call'[q] = call[q]
    BY <2>1, MissionsMoveOn, RowsAssumption DEF TypeInv, CallsOK, MissionOps
  <2>2. CASE call'[q] = NoCall
    BY <2>2 DEF NoCall, Call, MissionOps, WorkOps
  <2>3. CASE /\ q = p /\ call'[q].op = "write_result" /\ Doing(q, "complete")
             /\ call'[q].subject = call[q].subject
    BY <2>3, MissionsMoveOn, RowsAssumption DEF TypeInv, CallsOK, MissionOps, WorkOps, Doing
  <2>. QED
    BY <1>2, <2>1, <2>2, <2>3 DEF Ended
<1>. QED
  BY <1>1, <1>2 DEF StepFacts

LEMMA UnboundStep ==
  ASSUME TypeInv, UnboundIsEmpty, NEW p \in Procs, StepFacts(p) PROVE UnboundIsEmpty'
<1>. SUFFICES ASSUME NEW a \in Assignments
     PROVE  /\ state'.mission[MissionOf[a]] = "none" => state'.asg[a] = "none"
            /\ state'.mission[MissionOf[a]] = "PLANNED" => state'.asg[a] = "PENDING"
  BY DEF UnboundIsEmpty
<1> USE Shapes, Subjects DEF TypeInv, UnboundIsEmpty
<1>0. CASE Same
  BY <1>0 DEF Same
<1>1. ASSUME NEW m \in Missions, Binding(m)
      PROVE  /\ state'.mission[MissionOf[a]] = "none" => state'.asg[a] = "none"
             /\ state'.mission[MissionOf[a]] = "PLANNED" => state'.asg[a] = "PENDING"
  <2>1. MissionOf[a] = m => state'.mission[MissionOf[a]] = "PLANNED" /\ state'.asg[a] = "PENDING"
    BY <1>1 DEF Binding
  <2>2. MissionOf[a] # m => /\ state'.mission[MissionOf[a]] = state.mission[MissionOf[a]]
                            /\ state'.asg[a] = state.asg[a]
    BY <1>1 DEF Binding
  <2>. QED
    BY <2>1, <2>2
<1>2. ASSUME NEW to \in MissionStatuses \ {"none", "PLANNED"}, NEW rows, NEW status, NEW resumed,
             call[p].op \in MissionOps, rows \subseteq MissionAssignments(call[p].subject),
             Moving(call[p].subject, to, rows, status, resumed)
      PROVE  /\ state'.mission[MissionOf[a]] = "none" => state'.asg[a] = "none"
             /\ state'.mission[MissionOf[a]] = "PLANNED" => state'.asg[a] = "PENDING"
  BY <1>2 DEF Moving, SetStatus, MissionAssignments
<1>3. ASSUME NEW to, call[p].op \in WorkOps, Working(call[p].subject, to)
      PROVE  /\ state'.mission[MissionOf[a]] = "none" => state'.asg[a] = "none"
             /\ state'.mission[MissionOf[a]] = "PLANNED" => state'.asg[a] = "PENDING"
  BY <1>3 DEF Working
<1>4. CASE call[p].op \in WorkOps /\ Completing(call[p].subject)
  BY <1>4 DEF Completing, Woken, Done
<1>5. CASE call[p].op \in WorkOps /\ Writing(call[p].subject)
  BY <1>5 DEF Writing
<1>. QED
  BY <1>0, <1>1, <1>2, <1>3, <1>4, <1>5
     DEF StepFacts, Effect, Doing, MissionOps, WorkOps, MissionStatuses, Roots, MissionAssignments

-----------------------------------------------------------------------------
(* The invariant, and the theorems that need no more.                      *)

LEMMA Initially ==
  ASSUME ExecutionInit
  PROVE  TypeInv /\ UnboundIsEmpty /\ NoLostPromotion /\ FreshCalls /\ WritesCompleted
<1>1. state \in States
  BY IdsAssumption DEF ExecutionInit, InitState, EmptyState, States, MissionStatuses,
     SessionStatuses, AssignmentStatuses, AgentStatuses, GateStatuses, RiskStatuses, DepStatuses
<1>2. call \in [Procs -> Calls] /\ \A p \in Procs : call[p].op = "none"
  BY NoCallType DEF ExecutionInit, InitState, NoCall, Call
<1>3. CallsOK
  BY <1>2 DEF CallsOK, MissionOps, WorkOps
<1>4. TypeInv
  BY <1>1, <1>2, <1>3, IdsAssumption DEF TypeInv, ExecutionTypeOK, ExecutionInit, InitState
<1>5. UnboundIsEmpty /\ NoLostPromotion
  BY RowsAssumption DEF ExecutionInit, InitState, EmptyState, UnboundIsEmpty, NoLostPromotion
<1>6. FreshCalls
  BY <1>2 DEF FreshCalls, Fresh, Doing
<1>7. WritesCompleted
  BY <1>2 DEF WritesCompleted, Doing
<1>. QED
  BY <1>4, <1>5, <1>6, <1>7

LEMMA TypeStep ==
  ASSUME TypeInv, UnboundIsEmpty, [ExecutionNext]_executionVars
  PROVE  TypeInv' /\ UnboundIsEmpty'
<1>1. CASE ExecutionNext
  BY <1>1, Steps, CallsStep, UnboundStep DEF TypeInv, StepFacts
<1>2. CASE UNCHANGED executionVars
  BY <1>2 DEF executionVars, TypeInv, ExecutionTypeOK, CallsOK, UnboundIsEmpty
<1>. QED
  BY <1>1, <1>2

\* Every component of the state of EEF and AEX has its type in every reachable state.
THEOREM TypesHold == ExecutionSpec => []ExecutionTypeOK
<1>1. ExecutionInit => TypeInv /\ UnboundIsEmpty
  BY Initially
<1>2. TypeInv /\ UnboundIsEmpty /\ [ExecutionNext]_executionVars => TypeInv' /\ UnboundIsEmpty'
  BY TypeStep
<1>3. TypeInv => ExecutionTypeOK
  BY DEF TypeInv
<1>. QED
  BY <1>1, <1>2, <1>3, PTL DEF ExecutionSpec

-----------------------------------------------------------------------------
(* No promotion is lost, whatever overtakes what.                          *)

\* Work that does not complete anything wakes nobody, and forgets nobody.
LEMMA PromotionKept ==
  ASSUME TypeInv, NoLostPromotion, NEW p \in Procs, StepFacts(p),
         NEW a \in Assignments, state.asg[a] = "PENDING",
         state.mission[MissionOf[a]] # "PLANNED",
         \A d \in DependsOn[a] : state'.asg[d] = "COMPLETED" => state.asg[d] = "COMPLETED"
  PROVE  \E d \in DependsOn[a] : state'.asg[d] # "COMPLETED"
BY DEF NoLostPromotion

LEMMA PromotionStep ==
  ASSUME TypeInv, UnboundIsEmpty, NoLostPromotion, NEW p \in Procs, StepFacts(p)
  PROVE  NoLostPromotion'
<1>. SUFFICES ASSUME NEW a \in Assignments, state'.asg[a] = "PENDING",
                     state'.mission[MissionOf[a]] # "PLANNED"
     PROVE  \E d \in DependsOn[a] : state'.asg[d] # "COMPLETED"
  BY DEF NoLostPromotion
<1> DEFINE m == call[p].subject
           Goal == \E d \in DependsOn[a] : state'.asg[d] # "COMPLETED"
<1>0. CASE Same
  BY <1>0, PromotionKept DEF Same
<1>1. ASSUME NEW n \in Missions, Binding(n) PROVE Goal
  <2>1. MissionOf[a] # n
    BY <1>1, Shapes DEF Binding, TypeInv
  <2>2. state.mission[MissionOf[a]] # "PLANNED" /\ state.asg[a] = "PENDING"
    BY <1>1, <2>1, Shapes DEF Binding, TypeInv
  <2>3. \A d \in DependsOn[a] : state'.asg[d] = state.asg[d]
    BY <1>1, <2>1, Shapes, RowsAssumption DEF Binding, TypeInv
  <2>. QED
    BY <2>2, <2>3, PromotionKept
<1>2. ASSUME Doing(p, "start"),
             Moving(m, "ACTIVE", Roots(m) \cap InStatus(state, m, {"PENDING"}), "READY",
                    state.resumed \ {m})
      PROVE  Goal
  <2>1. \A b \in Assignments : state'.asg[b] = "READY" \/ state'.asg[b] = state.asg[b]
    BY <1>2 DEF Moving, SetStatus
  <2>2. state.asg[a] = "PENDING"
    BY <2>1
  <2>3. CASE state.mission[MissionOf[a]] # "PLANNED"
    BY <2>1, <2>2, <2>3, Shapes, PromotionKept DEF TypeInv
  <2>4. CASE state.mission[MissionOf[a]] = "PLANNED"
    <3>1. MissionOf[a] = m
      BY <1>2, <2>4, Shapes, Subjects DEF Moving, MissionOps, Doing, TypeInv
    <3>2. a \notin Roots(m)
      BY <1>2, <2>2, <3>1 DEF Moving, SetStatus, InStatus, MissionAssignments
    <3>3. PICK d \in DependsOn[a] : TRUE
      BY <3>1, <3>2 DEF Roots, MissionAssignments
    <3>4. state.asg[d] = "PENDING"
      BY <2>4, Shapes, RowsAssumption DEF UnboundIsEmpty, TypeInv
    <3>. QED
      BY <2>1, <3>4, Shapes DEF TypeInv
  <2>. QED
    BY <2>3, <2>4
<1>3. ASSUME NEW to, NEW rows, NEW resumed,
             NEW status \in {"INTERRUPTED", "READY", "CANCELLED", "none"},
             call[p].op \in MissionOps \ {"start"}, Moving(m, to, rows, status, resumed)
      PROVE  Goal
  <2>1. \A b \in Assignments : state'.asg[b] = status \/ state'.asg[b] = state.asg[b]
    BY <1>3 DEF Moving, SetStatus
  <2>2. state.asg[a] = "PENDING"
    BY <2>1
  <2>3. state.mission[MissionOf[a]] # "PLANNED"
    BY <1>3, Shapes, Subjects DEF Moving, TypeInv
  <2>. QED
    BY <2>1, <2>2, <2>3, Shapes, PromotionKept DEF TypeInv
<1>4. ASSUME NEW to \in {"IN_PROGRESS", "FAILED", "BLOCKED", "READY"},
             call[p].op \in WorkOps, Working(m, to)
      PROVE  Goal
  <2>1. \A b \in Assignments : state'.asg[b] = to \/ state'.asg[b] = state.asg[b]
    BY <1>4, Shapes, Subjects DEF Working, TypeInv
  <2>. QED
    BY <1>4, <2>1, Shapes, PromotionKept DEF Working, TypeInv
<1>5. ASSUME call[p].op \in WorkOps, Completing(m) PROVE Goal
  <2>1. m \in Assignments
    BY <1>5, Subjects
  <2>2. a \notin Woken(state.asg, m) /\ a # m /\ state.asg[a] = "PENDING"
    BY <1>5, <2>1, Shapes DEF Completing, Done, TypeInv
  <2>3. state.mission[MissionOf[a]] # "PLANNED"
    BY <1>5 DEF Completing
  <2>4. \A d \in DependsOn[a] :
          state'.asg[d] = "COMPLETED" => state.asg[d] = "COMPLETED" \/ d = m
    BY <1>5, <2>1, Shapes DEF Completing, Done, TypeInv
  <2>5. CASE m \notin DependsOn[a]
    BY <2>2, <2>3, <2>4, <2>5, PromotionKept
  <2>6. CASE m \in DependsOn[a]
    <3>1. PICK d \in DependsOn[a] : Done(state.asg, m)[d] # "COMPLETED"
      BY <2>1, <2>2, <2>6, Shapes, RowsAssumption DEF Woken, Done, TypeInv
    <3>. QED
      BY <1>5, <3>1, Shapes DEF Completing, TypeInv
  <2>. QED
    BY <2>5, <2>6
<1>6. ASSUME Writing(m) PROVE Goal
  BY <1>6, PromotionKept DEF Writing
<1>7. Effect(p)
  BY DEF StepFacts
<1>. QED
  BY <1>0, <1>1, <1>2, <1>3, <1>4, <1>5, <1>6, <1>7 DEF Effect, Doing, MissionOps, WorkOps

\* Completion wakes every dependent, in every interleaving of calls: no started
\* mission is left with an assignment that waits for completed work only.
THEOREM PromotionsHold == ExecutionSpec => []NoLostPromotion
<1> DEFINE IInv == TypeInv /\ UnboundIsEmpty /\ NoLostPromotion
<1>1. ExecutionInit => IInv
  BY Initially
<1>2. IInv /\ [ExecutionNext]_executionVars => IInv'
  <2>. SUFFICES ASSUME IInv, [ExecutionNext]_executionVars PROVE NoLostPromotion'
    BY TypeStep
  <2>1. CASE ExecutionNext
    BY <2>1, Steps, PromotionStep
  <2>2. CASE UNCHANGED executionVars
    BY <2>2 DEF executionVars, NoLostPromotion
  <2>. QED
    BY <2>1, <2>2
<1>. QED
  BY <1>1, <1>2, PTL DEF ExecutionSpec

-----------------------------------------------------------------------------
(* What holds as long as no overtaken call has updated.                    *)

LEMMA FreshStep ==
  ASSUME TypeInv, FreshCalls, NEW p \in Procs, StepFacts(p) PROVE FreshCalls'
<1>. SUFFICES ASSUME NEW q \in Procs \ overtaken' PROVE Fresh(q)'
  BY DEF FreshCalls
<1>2. ASSUME state' = state, call'[q] = call[q], q \notin overtaken PROVE Fresh(q)'
  BY <1>2 DEF FreshCalls, Fresh, Doing
<1>3. CASE CheckFacts(p)
  BY <1>2, <1>3 DEF CheckFacts, Checked, TypeInv, ExecutionTypeOK
<1>4. CASE Ended(p) /\ q = p
  BY <1>4 DEF Ended, Fresh, Doing, NoCall, Call
<1>5. CASE Ended(p) /\ q # p
  <2>1. CASE Idle(q)
    BY <1>5, <2>1 DEF Ended, Idle, Fresh, Doing, NoCall, Call
  <2>2. CASE ~Idle(q)
    BY <1>2, <1>5, <2>2 DEF Ended
  <2>. QED
    BY <2>1, <2>2
<1>. QED
  BY <1>3, <1>4, <1>5 DEF StepFacts

\* The actor of a step that changes something finds what it has checked, unless it was
\* overtaken.
OnTime(p) == races' = 0 \/ p \notin overtaken
LEMMA ActsFresh ==
  ASSUME FreshCalls, NEW p \in Procs, StepFacts(p), OnTime(p)
  PROVE  Same \/ Doing(p, "write_result") \/ Fresh(p)
BY DEF FreshCalls, StepFacts, CheckFacts, OnTime

\* The step of one process, by what it does: what the arguments below need of it.
Kept(a) == state'.asg[a] = state.asg[a]
LEMMA FreshEffects ==
  ASSUME TypeInv, UnboundIsEmpty, FreshCalls, NEW p \in Procs, StepFacts(p), OnTime(p),
         NEW a \in Assignments
  PROVE  LET n == MissionOf[a]  m == call[p].subject
         IN  \/ Kept(a) /\ state'.mission[n] = state.mission[n]
                /\ (n \in state.resumed => n \in state'.resumed)
             \/ state.mission[n] = "none" /\ state'.asg[a] = "PENDING" /\ state'.mission[n] = "PLANNED"
             \/ /\ state.mission[n] = "PLANNED" /\ state'.mission[n] = "ACTIVE"
                /\ state.asg[a] = "PENDING"
                /\ IF DependsOn[a] = {} THEN state'.asg[a] = "READY" ELSE Kept(a)
             \/ /\ state.mission[n] = "ACTIVE"
                /\ state'.mission[n] \in {"INTERRUPTED", "CANCELLED"}
                /\ n \in state.resumed => n \in state'.resumed
                /\ IF state.asg[a] \in NonTerminal THEN state'.asg[a] \in {"INTERRUPTED", "CANCELLED"}
                   ELSE Kept(a)
             \/ /\ state.mission[n] = "INTERRUPTED" /\ state'.mission[n] = "ACTIVE"
                /\ n \in state'.resumed
                /\ IF state.asg[a] = "INTERRUPTED" THEN state'.asg[a] = "READY" ELSE Kept(a)
             \/ /\ state.mission[n] = "ACTIVE" /\ state'.mission[n] = "VALIDATING" /\ Kept(a)
                /\ AllCompleted(state, n)
                /\ n \in state.resumed => n \in state'.resumed
             \/ /\ state'.mission = state.mission /\ state'.resumed = state.resumed /\ a = m
                /\ state.asg[a] \in {"READY", "IN_PROGRESS", "BLOCKED"}
                /\ \/ state'.asg[a] = "FAILED"
                   \/ state.asg[a] = "IN_PROGRESS" /\ state'.asg[a] = "COMPLETED"
                   \/ state'.asg[a] \in {"READY", "IN_PROGRESS", "BLOCKED"}
             \/ /\ state'.mission = state.mission /\ state'.resumed = state.resumed
                /\ state.asg[a] = "PENDING" /\ state'.asg[a] = "READY"
                /\ m \in Assignments /\ MissionOf[m] = n /\ state.asg[m] = "IN_PROGRESS"
                /\ \A d \in DependsOn[a] : state.asg[d] = "COMPLETED" \/ d = m
                /\ state'.asg[m] = "COMPLETED"
<1> USE Shapes, Subjects DEF TypeInv, Kept
<1> DEFINE m == call[p].subject
           n == MissionOf[a]
           rows == call[p].rows
<1>0. Same \/ Doing(p, "write_result") \/ Fresh(p)
  BY ActsFresh
<1>1. CASE Same
  BY <1>1 DEF Same
<1>2. ASSUME NEW k \in Missions, Binding(k)
      PROVE  \/ Kept(a) /\ state'.mission[n] = state.mission[n] /\ state'.resumed = state.resumed
             \/ state.mission[n] = "none" /\ state'.asg[a] = "PENDING" /\ state'.mission[n] = "PLANNED"
  <2>1. CASE n = k
    BY <1>2, <2>1 DEF Binding
  <2>2. CASE n # k
    BY <1>2, <2>2 DEF Binding
  <2>. QED
    BY <2>1, <2>2
<1>3. ASSUME NEW to, NEW set, NEW status, NEW resumed, call[p].op \in MissionOps,
             set \subseteq MissionAssignments(m), Moving(m, to, set, status, resumed)
      PROVE  /\ n # m => Kept(a) /\ state'.mission[n] = state.mission[n]
             /\ n = m => /\ state'.mission[n] = to
                         /\ IF a \in set THEN state'.asg[a] = status ELSE Kept(a)
             /\ state'.resumed = resumed
  BY <1>3 DEF Moving, SetStatus, MissionAssignments
<1>4. ASSUME NEW to, call[p].op \in WorkOps, Working(m, to)
      PROVE  /\ a # m => Kept(a)
             /\ a = m => state'.asg[a] = to
             /\ state'.mission = state.mission /\ state'.resumed = state.resumed
  BY <1>4 DEF Working
<1>5. CASE call[p].op \in WorkOps /\ Completing(m) /\ Doing(p, "complete") /\ ~Same
  <2>1. m \in Assignments /\ state.asg[m] = "IN_PROGRESS"
    BY <1>0, <1>5 DEF Fresh, Doing
  <2>2. state'.mission = state.mission /\ state'.resumed = state.resumed /\ state'.asg[m] = "COMPLETED"
    BY <1>5, <2>1 DEF Completing, Done, Woken
  <2>3. state'.asg[a] = IF a \in Woken(state.asg, m) THEN "READY" ELSE Done(state.asg, m)[a]
    BY <1>5 DEF Completing
  <2>4. a # m /\ a \in Woken(state.asg, m) =>
          /\ state.asg[a] = "PENDING" /\ MissionOf[m] = n
          /\ \A d \in DependsOn[a] : state.asg[d] = "COMPLETED" \/ d = m
    BY <2>1 DEF Woken, Done
  <2>5. Done(state.asg, m)[a] = IF a = m THEN "COMPLETED" ELSE state.asg[a]
    BY <2>1 DEF Done
  <2>. QED
    BY <2>1, <2>2, <2>3, <2>4, <2>5
<1>6. CASE Doing(p, "start") /\ ~Same
           /\ Moving(m, "ACTIVE", Roots(m) \cap InStatus(state, m, {"PENDING"}), "READY",
                     state.resumed \ {m})
  <2>1. state.mission[m] = "PLANNED"
    BY <1>0, <1>6 DEF Fresh, Doing
  <2>2. n = m => state.asg[a] = "PENDING"
    BY <2>1 DEF UnboundIsEmpty
  <2>3. call[p].op \in MissionOps
    BY <1>6 DEF Doing, MissionOps
  <2> DEFINE set == Roots(m) \cap InStatus(state, m, {"PENDING"})
  <2>4. set \subseteq MissionAssignments(m) /\ (n = m => (a \in set <=> DependsOn[a] = {}))
    BY <2>2 DEF Roots, InStatus, MissionAssignments
  <2>5. Moving(m, "ACTIVE", set, "READY", state.resumed \ {m})
    BY <1>6
  <2> HIDE DEF set
  <2>. QED
    BY <1>3, <2>1, <2>2, <2>3, <2>4, <2>5
<1>7. CASE Doing(p, "pause") /\ ~Same /\ Moving(m, "INTERRUPTED", rows, "INTERRUPTED", state.resumed)
  <2>1. state.mission[m] = "ACTIVE" /\ rows = InStatus(state, m, NonTerminal)
    BY <1>0, <1>7 DEF Fresh, Doing
  <2>2. n = m => (a \in rows <=> state.asg[a] \in NonTerminal)
    BY <2>1 DEF InStatus, MissionAssignments
  <2>3. call[p].op \in MissionOps
    BY <1>7 DEF Doing, MissionOps
  <2>. QED
    BY <1>3, <1>7, <2>1, <2>2, <2>3
<1>8. CASE Doing(p, "cancel") /\ ~Same /\ call[p].from = "ACTIVE"
           /\ Moving(m, "CANCELLED", rows, "CANCELLED", state.resumed)
  <2>1. state.mission[m] = "ACTIVE" /\ rows = InStatus(state, m, NonTerminal)
    BY <1>0, <1>8 DEF Fresh, Doing
  <2>2. n = m => (a \in rows <=> state.asg[a] \in NonTerminal)
    BY <2>1 DEF InStatus, MissionAssignments
  <2>3. call[p].op \in MissionOps
    BY <1>8 DEF Doing, MissionOps
  <2>. QED
    BY <1>3, <1>8, <2>1, <2>2, <2>3
<1>9. CASE Doing(p, "resume") /\ ~Same /\ Moving(m, "ACTIVE", rows, "READY", state.resumed \cup {m})
  <2>1. state.mission[m] = "INTERRUPTED" /\ rows = InStatus(state, m, {"INTERRUPTED"})
    BY <1>0, <1>9 DEF Fresh, Doing
  <2>2. n = m => (a \in rows <=> state.asg[a] = "INTERRUPTED")
    BY <2>1 DEF InStatus, MissionAssignments
  <2>3. call[p].op \in MissionOps
    BY <1>9 DEF Doing, MissionOps
  <2>. QED
    BY <1>3, <1>9, <2>1, <2>2, <2>3
<1>10. CASE Doing(p, "finish") /\ ~Same /\ Moving(m, "VALIDATING", {}, "none", state.resumed)
  <2>1. state.mission[m] = "ACTIVE" /\ AllCompleted(state, m)
    BY <1>0, <1>10 DEF Fresh, Doing
  <2>2. call[p].op \in MissionOps
    BY <1>10 DEF Doing, MissionOps
  <2>. QED
    BY <1>3, <1>10, <2>1, <2>2
<1>11. CASE ~Same /\ (\/ Doing(p, "dispatch") /\ Working(m, "IN_PROGRESS")
                      \/ Doing(p, "fail") /\ Working(m, "FAILED")
                      \/ Doing(p, "block") /\ Working(m, "BLOCKED")
                      \/ Doing(p, "unblock") /\ Working(m, "READY"))
  <2>1. state.asg[m] \in {"READY", "IN_PROGRESS", "BLOCKED"}
    BY <1>0, <1>11 DEF Fresh, Doing, Blockable
  <2>2. call[p].op \in WorkOps
    BY <1>11 DEF Doing, WorkOps
  <2>. QED
    BY <1>4, <1>11, <2>1, <2>2
<1>12. CASE Writing(m)
  BY <1>12 DEF Writing
<1>13. Effect(p)
  BY DEF StepFacts
<1>. QED
  BY <1>1, <1>2, <1>5, <1>6, <1>7, <1>8, <1>9, <1>10, <1>11, <1>12, <1>13
     DEF Effect, Doing, WorkOps

LEMMA MissionEffects ==
  ASSUME TypeInv, UnboundIsEmpty, FreshCalls, NEW p \in Procs, StepFacts(p), OnTime(p),
         NEW n \in Missions
  PROVE  /\ state.mission[n] \in {"CANCELLED", "VALIDATING"} => state'.mission[n] = state.mission[n]
         /\ state'.mission[n] = "VALIDATING" =>
              state.mission[n] = "VALIDATING" \/ AllCompleted(state, n)
<1> DEFINE m == call[p].subject
<1>1. Same \/ Doing(p, "write_result") \/ Fresh(p)
  BY ActsFresh
<1>2. CASE Same \/ (\E k \in Missions : Binding(k)) \/ state'.mission = state.mission
  BY <1>2, Shapes DEF Same, Binding, TypeInv
<1>3. ASSUME NEW to, NEW set, NEW status, NEW resumed, Moving(m, to, set, status, resumed),
             call[p].op \in MissionOps, ~Same
      PROVE  /\ n # m => state'.mission[n] = state.mission[n]
             /\ n = m => state'.mission[n] = to /\ Fresh(p)
  BY <1>1, <1>3, Shapes, Subjects DEF Moving, TypeInv, Doing, MissionOps
<1>. QED
  BY <1>2, <1>3, Shapes, Subjects
     DEF TypeInv, StepFacts, Effect, Fresh, Doing, MissionOps, Working, Completing, Writing

LEMMA FinalStep ==
  ASSUME TypeInv, UnboundIsEmpty, FreshCalls, NEW p \in Procs, StepFacts(p), OnTime(p),
         NEW a \in Assignments, state.asg[a] \in {"COMPLETED", "FAILED", "CANCELLED"}
  PROVE  state'.asg[a] = state.asg[a]
BY FreshEffects DEF Kept, NonTerminal, UnboundIsEmpty

\* Stronger than DependenciesRespected: blocked work has its dependencies, too.
Ordered ==
  races = 0 => \A a \in Assignments :
    state.asg[a] \in {"READY", "IN_PROGRESS", "BLOCKED", "COMPLETED"}
      /\ MissionOf[a] \notin state.resumed => DepsCompleted(state, a)

LEMMA OrderStep ==
  ASSUME TypeInv, UnboundIsEmpty, FreshCalls, Ordered, NEW p \in Procs, StepFacts(p)
  PROVE  Ordered'
<1>. SUFFICES ASSUME races' = 0, NEW a \in Assignments,
                     state'.asg[a] \in {"READY", "IN_PROGRESS", "BLOCKED", "COMPLETED"},
                     MissionOf[a] \notin state'.resumed, NEW d \in DependsOn[a]
     PROVE  state'.asg[d] = "COMPLETED"
  BY DEF Ordered, DepsCompleted
<1>1. races = 0 /\ d \in Assignments
  BY Shapes DEF StepFacts, TypeInv
<1>2. state.asg[d] = "COMPLETED" => state'.asg[d] = "COMPLETED"
  BY <1>1, FinalStep DEF OnTime
<1>3. CASE /\ state.asg[a] \in {"READY", "IN_PROGRESS", "BLOCKED", "COMPLETED"}
           /\ MissionOf[a] \notin state.resumed
  BY <1>1, <1>2, <1>3 DEF Ordered, DepsCompleted
<1>4. CASE ~(/\ state.asg[a] \in {"READY", "IN_PROGRESS", "BLOCKED", "COMPLETED"}
             /\ MissionOf[a] \notin state.resumed)
  <2>1. DependsOn[a] # {}
    OBVIOUS
  <2>. QED
    BY <1>1, <1>2, <1>4, <2>1, FreshEffects DEF Kept, NonTerminal, UnboundIsEmpty, OnTime
<1>. QED
  BY <1>3, <1>4

LEMMA ActiveStep ==
  ASSUME TypeInv, UnboundIsEmpty, FreshCalls, WorkOnlyWhileActive, NEW p \in Procs, StepFacts(p)
  PROVE  WorkOnlyWhileActive'
<1>. SUFFICES ASSUME races' = 0, NEW a \in Assignments,
                     state'.asg[a] \in {"READY", "IN_PROGRESS", "BLOCKED"}
     PROVE  state'.mission[MissionOf[a]] = "ACTIVE"
  BY DEF WorkOnlyWhileActive
<1>1. races = 0
  BY DEF StepFacts
<1>2. \A b \in Assignments : state.asg[b] \in {"READY", "IN_PROGRESS", "BLOCKED"}
                               => state.mission[MissionOf[b]] = "ACTIVE"
  BY <1>1 DEF WorkOnlyWhileActive
<1>. QED
  BY <1>2, FreshEffects DEF Kept, NonTerminal, AllCompleted, MissionAssignments, OnTime

LEMMA ValidatedStep ==
  ASSUME TypeInv, UnboundIsEmpty, FreshCalls, ValidatedWorkIsDone, NEW p \in Procs, StepFacts(p)
  PROVE  ValidatedWorkIsDone'
<1>. SUFFICES ASSUME races' = 0, NEW n \in Missions, state'.mission[n] = "VALIDATING",
                     NEW a \in Assignments, MissionOf[a] = n
     PROVE  state'.asg[a] = "COMPLETED"
  BY DEF ValidatedWorkIsDone, AllCompleted, MissionAssignments
<1>1. races = 0
  BY DEF StepFacts
<1>2. AllCompleted(state, n)
  BY <1>1, MissionEffects DEF ValidatedWorkIsDone, OnTime
<1>. QED
  BY <1>2, FinalStep DEF AllCompleted, MissionAssignments, OnTime

LEMMA ResultsStep ==
  ASSUME TypeInv, UnboundIsEmpty, FreshCalls, WritesCompleted, ResultIsOfCompleted,
         NEW p \in Procs, StepFacts(p)
  PROVE  WritesCompleted' /\ ResultIsOfCompleted'
<1>. SUFFICES ASSUME races' = 0
     PROVE  /\ \A q \in Procs : Doing(q, "write_result")' => state'.asg[call'[q].subject] = "COMPLETED"
            /\ \A a \in results' : state'.asg[a] = "COMPLETED"
  BY DEF WritesCompleted, ResultIsOfCompleted
<1>1. races = 0
  BY DEF StepFacts
<1>2. \A a \in Assignments : state.asg[a] = "COMPLETED" => state'.asg[a] = "COMPLETED"
  BY FinalStep DEF OnTime
<1>3. ASSUME NEW q \in Procs, Doing(q, "write_result")' PROVE state'.asg[call'[q].subject] = "COMPLETED"
  <2>1. CASE call'[q] = call[q]
    BY <1>1, <1>2, <1>3, <2>1, Subjects DEF WritesCompleted, Doing, WorkOps
  <2>2. CASE q = p /\ Doing(p, "complete") /\ Completing(call[p].subject)
             /\ call'[p].subject = call[p].subject
    <3>1. call[p].subject \in Assignments
      BY <2>2, Subjects DEF Doing, WorkOps
    <3>. QED
      BY <2>2, <3>1, Shapes DEF Completing, Woken, Done, TypeInv
  <2>3. CASE CheckFacts(p)
    BY <1>3, <2>1, <2>3 DEF CheckFacts, Checked, Doing, TypeInv, ExecutionTypeOK
  <2>4. CASE Ended(p)
    BY <1>3, <2>1, <2>2, <2>4 DEF Ended, Doing, NoCall, Call
  <2>. QED
    BY <2>3, <2>4 DEF StepFacts
<1>4. results \subseteq Assignments
  BY DEF TypeInv, ExecutionTypeOK
<1>5. \A a \in results : state'.asg[a] = "COMPLETED"
  BY <1>1, <1>2, <1>4 DEF ResultIsOfCompleted
<1>6. results' = results \/ (Doing(p, "write_result") /\ Writing(call[p].subject))
  BY DEF StepFacts, Effect, Same, Binding, Moving, Working, Completing
<1>7. ASSUME Doing(p, "write_result"), Writing(call[p].subject) PROVE \A a \in results' : state'.asg[a] = "COMPLETED"
  <2>1. call[p].subject \in Assignments /\ state.asg[call[p].subject] = "COMPLETED"
    BY <1>1, <1>7, Subjects DEF WritesCompleted, WorkOps, Doing
  <2>. QED
    BY <1>5, <1>7, <2>1 DEF Writing
<1>8. \A a \in results' : state'.asg[a] = "COMPLETED"
  BY <1>5, <1>6, <1>7
<1>. QED
  BY <1>3, <1>8

\* The inductive invariant.
ExecutionInv ==
  /\ TypeInv /\ UnboundIsEmpty /\ FreshCalls /\ WritesCompleted
  /\ Ordered /\ WorkOnlyWhileActive /\ ValidatedWorkIsDone /\ ResultIsOfCompleted

LEMMA InvInitially == ASSUME ExecutionInit PROVE ExecutionInv
<1>1. \A a \in Assignments : state.asg[a] = "none"
  BY DEF ExecutionInit, InitState, EmptyState
<1>2. results = {} /\ \A m \in Missions : state.mission[m] = "none"
  BY DEF ExecutionInit, InitState, EmptyState
<1>. QED
  BY <1>1, <1>2, Initially
     DEF ExecutionInv, Ordered, WorkOnlyWhileActive, ValidatedWorkIsDone, ResultIsOfCompleted

LEMMA InvStep == ASSUME ExecutionInv, [ExecutionNext]_executionVars PROVE ExecutionInv'
<1>1. CASE ExecutionNext
  BY <1>1, Steps, TypeStep, FreshStep, OrderStep, ActiveStep, ValidatedStep, ResultsStep
     DEF ExecutionInv
<1>2. CASE UNCHANGED executionVars
  <2>1. FreshCalls' /\ WritesCompleted'
    BY <1>2 DEF ExecutionInv, FreshCalls, Fresh, WritesCompleted, Doing, executionVars
  <2>2. Ordered' /\ WorkOnlyWhileActive' /\ ValidatedWorkIsDone' /\ ResultIsOfCompleted'
    BY <1>2 DEF ExecutionInv, Ordered, WorkOnlyWhileActive, ValidatedWorkIsDone,
                ResultIsOfCompleted, AllCompleted, DepsCompleted, executionVars
  <2>. QED
    BY <1>2, <2>1, <2>2, TypeStep DEF ExecutionInv
<1>. QED
  BY <1>1, <1>2

LEMMA ExecutionInvHolds == ExecutionSpec => []ExecutionInv
BY InvInitially, InvStep, PTL DEF ExecutionSpec

\* As long as no call was overtaken, work is open only under an active mission,
\* although AEX never asks for the mission.
THEOREM WorkHolds == ExecutionSpec => []WorkOnlyWhileActive
BY ExecutionInvHolds, PTL DEF ExecutionInv

\* Work begins after what it depends on is done, unless its mission was resumed
\* from a pause or a call was overtaken.
THEOREM DependenciesHold == ExecutionSpec => []DependenciesRespected
<1>1. ExecutionInv => DependenciesRespected
  BY DEF ExecutionInv, Ordered, DependenciesRespected
<1>. QED
  BY <1>1, ExecutionInvHolds, PTL

\* A mission in validation has all of its work completed.
THEOREM ValidationHolds == ExecutionSpec => []ValidatedWorkIsDone
BY ExecutionInvHolds, PTL DEF ExecutionInv

\* A result on disk is that of a completed assignment.
THEOREM ResultsHold == ExecutionSpec => []ResultIsOfCompleted
BY ExecutionInvHolds, PTL DEF ExecutionInv

\* What is final stays final but for overtaken calls about the very mission or assignment.
Final(a) == state.asg[a] \in {"COMPLETED", "FAILED", "CANCELLED"}
Left(m)  == state.mission[m] \in {"CANCELLED", "VALIDATING"}
LEMMA OvertakenStep ==
  ASSUME TypeInv, UnboundIsEmpty, NEW p \in Procs, StepFacts(p), p \in overtaken
  PROVE  /\ \A a \in Assignments : Final(a) => Kept(a) \/ EndsOvertaken(a)
         /\ \A m \in Missions : Left(m) => state'.mission[m] = state.mission[m] \/ EndsOvertaken(m)
<1> USE Shapes, Subjects DEF TypeInv, Kept
<1> DEFINE m == call[p].subject
           rows == call[p].rows
           Stays == /\ \A a \in Assignments : Final(a) => Kept(a) \/ EndsOvertaken(a)
                    /\ \A n \in Missions : Left(n) => state'.mission[n] = state.mission[n] \/ EndsOvertaken(n)
<1>1. CASE Same
  BY <1>1 DEF Same
<1>2. ASSUME NEW k \in Missions, Binding(k) PROVE Stays
  BY <1>2 DEF Binding, UnboundIsEmpty, Final, Left
<1>3. ASSUME ~Same, call[p].op \in MissionOps \cup WorkOps PROVE Stays
  <2>1. call'[p] # call[p]
    BY <1>3 DEF StepFacts, CheckFacts, Ended, NoCall, Call, MissionOps, WorkOps, Doing
  <2>2. EndsOvertaken(m) /\ \A a \in rows : EndsOvertaken(a)
    BY <2>1 DEF EndsOvertaken
  <2>3. ASSUME NEW to, NEW set, NEW status, NEW resumed, Moving(m, to, set, status, resumed),
               \A a \in set : a \in rows \/ ~Final(a)
        PROVE  Stays
    BY <2>2, <2>3 DEF Moving, SetStatus
  <2>4. ASSUME NEW to, Working(m, to) PROVE Stays
    BY <2>2, <2>4 DEF Working
  <2>5. CASE Completing(m)
    <3>1. \A a \in Assignments : Final(a) /\ a # m => Kept(a)
      BY <2>5 DEF Completing, Woken, Done, Final
    <3>. QED
      BY <2>2, <2>5, <3>1 DEF Completing
  <2>6. CASE Writing(m)
    BY <2>6 DEF Writing
  <2>7. \A a \in Roots(m) \cap InStatus(state, m, {"PENDING"}) : ~Final(a)
    BY DEF InStatus, Final
  <2> HIDE DEF Stays
  <2>. QED
    BY <1>2, <1>3, <2>3, <2>4, <2>5, <2>6, <2>7 DEF StepFacts, Effect
<1>. QED
  BY <1>1, <1>2, <1>3 DEF StepFacts, Effect, MissionOps, WorkOps, Doing

THEOREM FinalHolds == ExecutionSpec => FinalStays
<1> DEFINE Stays ==
      /\ \A a \in Assignments : state.asg[a] \in {"COMPLETED", "FAILED", "CANCELLED"}
                                  => state'.asg[a] = state.asg[a] \/ EndsOvertaken(a)
      /\ \A m \in Missions : state.mission[m] \in {"CANCELLED", "VALIDATING"}
                                  => state'.mission[m] = state.mission[m] \/ EndsOvertaken(m)
<1>1. ExecutionInv /\ [ExecutionNext]_executionVars => [Stays]_executionVars
  <2>. SUFFICES ASSUME ExecutionInv, ExecutionNext PROVE Stays
    OBVIOUS
  <2>1. PICK p \in Procs : StepFacts(p)
    BY Steps DEF ExecutionInv
  <2>2. CASE p \in overtaken
    BY <2>1, <2>2, OvertakenStep DEF ExecutionInv, Final, Left, Kept
  <2>3. CASE p \notin overtaken
    BY <2>1, <2>3, FinalStep, MissionEffects DEF ExecutionInv, OnTime
  <2>. QED
    BY <2>2, <2>3
<1>2. ExecutionSpec => [][Stays]_executionVars
  BY <1>1, ExecutionInvHolds, PTL DEF ExecutionSpec
<1>. QED
  BY <1>2 DEF FinalStays
=============================================================================

------------------------------ MODULE Mission ------------------------------
(***************************************************************************)
(* What a mission promises its operator, without drivers, attempts, data   *)
(* bases or repositories: tasks run one at a time, a task only after all   *)
(* its dependencies have completed, and what has completed or failed for   *)
(* good stays so.  MissionDriver implements this specification.            *)
(***************************************************************************)
CONSTANTS Tasks,   \* the tasks of the mission
          Deps     \* Deps[t]: the tasks that t depends on

\* A task depends on tasks of the mission; the theorems assume it.
DepsAssumption == Deps \in [Tasks -> SUBSET Tasks]

VARIABLE status    \* the status of every task, as get_tasks() returns it

Statuses == {"PENDING", "RUNNING", "INTERRUPTED", "COMPLETED", "FAILED", "BLOCKED"}

\* is_task_ready
Ready(t) ==
  /\ status[t] \in {"PENDING", "INTERRUPTED"}
  /\ \A d \in Deps[t] : status[d] = "COMPLETED"

Becomes(t, s) == status' = [status EXCEPT ![t] = s]

Init == status = [t \in Tasks |-> "PENDING"]

Begin(t)     == Ready(t) /\ (\A u \in Tasks : status[u] # "RUNNING") /\ Becomes(t, "RUNNING")
Complete(t)  == status[t] = "RUNNING" /\ Becomes(t, "COMPLETED")
Interrupt(t) == status[t] = "RUNNING" /\ Becomes(t, "INTERRUPTED")
\* A task may fail without having run: it is allowed no attempt.
Fail(t)      == (status[t] = "RUNNING" \/ Ready(t)) /\ Becomes(t, "FAILED")
Block(t)     == status[t] = "FAILED" /\ Becomes(t, "BLOCKED")

Next == \E t \in Tasks : Begin(t) \/ Complete(t) \/ Interrupt(t) \/ Fail(t) \/ Block(t)

Spec == Init /\ [][Next]_status

-----------------------------------------------------------------------------
TypeOK == status \in [Tasks -> Statuses]

\* At most one task runs.
OneAtATime ==
  \A t, u \in Tasks : status[t] = "RUNNING" /\ status[u] = "RUNNING" => t = u

\* A task that has left PENDING has all its dependencies completed.
DependenciesFirst ==
  \A t \in Tasks : status[t] # "PENDING" => \A d \in Deps[t] : status[d] = "COMPLETED"

\* COMPLETED and BLOCKED are final, and FAILED can only become BLOCKED.
TerminalIsFinal ==
  [][\A t \in Tasks :
       /\ status[t] \in {"COMPLETED", "BLOCKED"} => status'[t] = status[t]
       /\ status[t] = "FAILED" => status'[t] \in {"FAILED", "BLOCKED"}]_status
=============================================================================

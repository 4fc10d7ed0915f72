-------------------------- MODULE MCMissionDriver --------------------------
(***************************************************************************)
(* Small instances of MissionDriver for TLC.                               *)
(***************************************************************************)
EXTENDS MissionDriver, TLC

CONSTANTS t1, t2, t3,   \* tasks
          f, g, u       \* paths

\* Three tasks: t2 and t3 both need t1; two of them have verification commands.
TreeDeps  == t1 :> {} @@ t2 :> {t1} @@ t3 :> {t1}
TreeRank  == t1 :> 1 @@ t2 :> 2 @@ t3 :> 3
\* Two tasks in a chain.
ChainDeps == t1 :> {} @@ t2 :> {t1}
ChainRank == t1 :> 1 @@ t2 :> 2

\* Budgets and first counts from the metadata of tasks: none; more attempts than
\* the commands allow and a count that starts at one; none at all for t3.
NoOwn     == [t \in {} |-> 0]
ZeroFirst == [t \in Tasks |-> 0]
OwnT1     == t1 :> 3
FirstT2   == [t \in Tasks |-> IF t = t2 THEN 1 ELSE 0]
OwnT2T3   == t2 :> 1 @@ t3 :> 0

\* No path at all: the working tree is always clean.
NoDirts == [p \in {} |-> {}]
NoScope == [t \in Tasks |-> {}]
\* A path that an executor edits, creates or deletes, a new directory, and a
\* path that only the user changes.
MixedDirts == f :> {"changed", "deleted"} @@ g :> {"dir"} @@ u :> {"changed"}
EditDirts  == f :> {"changed"} @@ g :> {"changed"}
ScopeFG    == [t \in Tasks |-> {f, g}]
AllPaths   == [t \in Tasks |-> Paths]
\* t2 may only commit f.
CommitF    == t1 :> {f, g} @@ t2 :> {f}
=============================================================================

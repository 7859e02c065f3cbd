------------------------- MODULE WorkflowRefinement -------------------------
(***************************************************************************)
(* The engine of module Workflow implements the tree of module WorkflowDag *)
(* as long as no fault occurs: every statement of the manager, of an       *)
(* executor and of a worker is one step of the tree or leaves it alone.    *)
(***************************************************************************)
EXTENDS Workflow

\* A task an executor has marked FAILED counts as failed before the commit.
Phase ==
    [t \in Tasks |->
        IF task_status[t] = "FAILED" \/ \E e \in Executors : t \in ex[e].dirty
        THEN "failed"
        ELSE CASE task_status[t] = "PENDING" -> "waiting"
               [] task_status[t] = "SUCCESSFUL" -> "done"
               [] OTHER -> "active"]

Verdict ==
    [r \in Roots |->
        CASE status[r] = "ON_HOLD" -> "held"
          [] status[r] \in Successful -> "succeeded"
          [] status[r] \in Failed -> "failed"
          [] status[r] = "DELETED" -> "dropped"
          [] OTHER -> "open"]

Final ==
    [r \in Roots |-> status[r] \in {"COMPLETED_SUCCESSFULLY", "COMPLETED_WITH_FAILURE"}]

Dag == INSTANCE WorkflowDag WITH phase <- Phase, verdict <- Verdict, final <- Final

\* The engine implements the tree: no interleaving of manager, executors and
\* workers starts a task early or twice, completes a root early, or reports
\* its end before the callbacks that hold it (workflow_tasks.py:41-194).
ImplementsDag == Dag!DagSpec
=============================================================================

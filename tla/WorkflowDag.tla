---------------------------- MODULE WorkflowDag -----------------------------
(***************************************************************************)
(* What the workflow engine promises about a workflow, without its         *)
(* manager, executors, workers, locks and queues: tasks are run in the     *)
(* order of the tree, each at most once; a root is given a verdict when    *)
(* nothing more can run; the verdict decides which callbacks run, and a    *)
(* root does not report the end before the callbacks that hold it.         *)
(*                                                                         *)
(* Source: the docstrings and status comments of                           *)
(* src/ibm/models/workflow/workflow_models.py and the executor in          *)
(* src/ibm/tasks/workflow_tasks/workflow_tasks.py.                         *)
(***************************************************************************)
CONSTANTS Roots, Tasks, RootOf, Previous, Parent, RootType, Holding

VARIABLES
    phase,    \* of a task: waiting, active, done or failed
    verdict,  \* of a root: held, open, succeeded, failed or dropped
    final     \* has the root reported its end?

dag == <<phase, verdict, final>>

Own(r) == {t \in Tasks : RootOf[t] = r}
Calls(r) == {c \in Roots : Parent[c] = r}

\* Callbacks a root waits for before it reports its end.  A callback that has
\* callbacks of its own does not wait for them.
HoldersOf(r) == IF RootType[r] = "NORMAL" THEN Calls(r) \cap Holding ELSE {}

Startable(t) ==
    /\ verdict[RootOf[t]] = "open"
    /\ phase[t] = "waiting"
    /\ \A p \in Previous[t] : phase[p] = "done"

DagInit ==
    /\ phase = [t \in Tasks |-> "waiting"]
    /\ verdict = [r \in Roots |-> IF RootType[r] = "NORMAL" THEN "open" ELSE "held"]
    /\ final = [r \in Roots |-> FALSE]

Start(t) ==
    /\ Startable(t)
    /\ phase' = [phase EXCEPT ![t] = "active"]
    /\ UNCHANGED <<verdict, final>>

End(t) ==
    /\ phase[t] = "active"
    /\ \E p \in {"done", "failed"} : phase' = [phase EXCEPT ![t] = p]
    /\ UNCHANGED <<verdict, final>>

\* The verdict falls when no task runs and none can be started.  Callbacks for
\* the other verdict are dropped with it.
Close(r) ==
    LET bad == \E t \in Own(r) : phase[t] = "failed"
        drop == {c \in Calls(r) : /\ verdict[c] = "held"
                                  /\ RootType[c] = IF bad THEN "ON_SUCCESS"
                                                          ELSE "ON_FAILURE"} IN
    /\ verdict[r] = "open"
    /\ \A t \in Own(r) : phase[t] # "active" /\ ~Startable(t)
    /\ verdict' = [q \in Roots |-> IF q = r THEN IF bad THEN "failed" ELSE "succeeded"
                                   ELSE IF q \in drop THEN "dropped"
                                   ELSE verdict[q]]
    /\ final' = [final EXCEPT ![r] = HoldersOf(r) \subseteq drop]
    /\ UNCHANGED phase

\* The callbacks left are opened together.
Release(r) ==
    /\ verdict[r] \in {"succeeded", "failed"}
    /\ \E c \in Calls(r) : verdict[c] = "held"
    /\ verdict' = [q \in Roots |-> IF q \in Calls(r) /\ verdict[q] = "held"
                                   THEN "open" ELSE verdict[q]]
    /\ UNCHANGED <<phase, final>>

Report(r) ==
    /\ verdict[r] \in {"succeeded", "failed"} /\ ~final[r]
    /\ \A c \in HoldersOf(r) : verdict[c] \notin {"held", "open"}
    /\ final' = [final EXCEPT ![r] = TRUE]
    /\ UNCHANGED <<phase, verdict>>

DagNext ==
    \/ \E t \in Tasks : Start(t) \/ End(t)
    \/ \E r \in Roots : Close(r) \/ Release(r) \/ Report(r)

DagSpec == DagInit /\ [][DagNext]_dag
=============================================================================

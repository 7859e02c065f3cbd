----------------------------- MODULE Workspace -----------------------------
(***************************************************************************)
(* The second engine: workspace_manager and workspace_executor hand the    *)
(* READY roots of a workspace to the workflow engine in the order of their *)
(* edges and give the workspace its verdict                                *)
(* (tasks/workflow_tasks/workspace_tasks.py).  What workflow_manager and   *)
(* workflow_executor do with a root is module Workflow; here a root that   *)
(* has been handed over is picked, run and ended.                          *)
(***************************************************************************)
EXTENDS WorkspaceRequests

untouched == <<form, lists, serving, provisioned>>

Finished == {"COMPLETED_SUCCESSFULLY", "COMPLETED_WITH_FAILURE"}
Successful(p) == rows[p].status = "COMPLETED_SUCCESSFULLY"

-----------------------------------------------------------------------------
(* workspace_manager, every few seconds.                                   *)

ManagerScan ==
    /\ manager = None /\ ~executor_running
    /\ status \in {"PENDING", "RUNNING", "ON_HOLD_WITH_SUCCESS"}
    /\ manager' = IF status = "PENDING" THEN "found" ELSE "sends"
    /\ overlapped' = (overlapped \/ request.pc # "idle")
    /\ UNCHANGED <<tables, untouched, broker, ex, executor_running>>

\* A workspace deleted since raises.
ManagerInitiate ==
    /\ manager = "found"
    /\ IF status = "absent"
       THEN manager' = None /\ UNCHANGED status
       ELSE manager' = "sends" /\ status' = "INITIATED"
    /\ UNCHANGED <<rows, untouched, overlapped, broker, ex, executor_running>>

\* A call whose lock is taken is dropped.
ManagerSend ==
    /\ manager = "sends" /\ manager' = None
    /\ message' = (message \/ ~locked) /\ locked' = TRUE
    /\ UNCHANGED <<tables, untouched, overlapped, ex, executor_running>>

-----------------------------------------------------------------------------
(* workspace_executor.  A step reads what the session sees after a commit  *)
(* and decides up to the next write; the write is a step of its own.       *)

Take ==
    /\ ex.pc = "idle" /\ message /\ message' = FALSE
    /\ IF status = "absent"
       THEN ex' = [ex EXCEPT !.pc = "return"] /\ UNCHANGED executor_running
       ELSE ex' = [ex EXCEPT !.pc = "branch"] /\ executor_running' = TRUE
    /\ UNCHANGED <<tables, untouched, overlapped, manager, locked>>

\* A row that is gone raises: the executor's on_failure looks for a root of the
\* workspace's identifier, finds none, and neither the flag nor the lock is
\* released.
Fails(gone) == gone /\ ex' = Resting /\ UNCHANGED <<tables, executor_running>>

Branch ==
    /\ ex.pc = "branch" /\ status # "RUNNING"
    /\ \/ Fails(status = "absent")
       \/ /\ status # "absent"
          /\ ex' = [ex EXCEPT !.pc = IF status \in {"INITIATED", "ON_HOLD_WITH_SUCCESS"}
                                     THEN "mark" ELSE "end"]
          /\ UNCHANGED <<tables, executor_running>>
    /\ UNCHANGED <<untouched, overlapped, manager, broker>>

Mark ==
    /\ ex.pc = "mark"
    /\ \/ Fails(status = "absent")
       \/ /\ status # "absent" /\ status' = "RUNNING"
          /\ ex' = [ex EXCEPT !.pc = "list", !.first = TRUE]
          /\ UNCHANGED <<rows, executor_running>>
    /\ UNCHANGED <<untouched, overlapped, manager, broker>>

\* What the loop is over, in the order the database gives it: READY roots the
\* first time, then those in focus.  What is appended comes last.
Looped ==
    IF ex.pc = "look" THEN {ex.todo}
    ELSE SetToSeqs({p \in Here : IF ex.first THEN rows[p].status = "READY"
                                           ELSE rows[p].in_focus})

Startable(p) == rows[p].status = "READY" /\ \A q \in rows[p].previous : Successful(q)
\* Mutant: the roots before it are not looked at.
is_provisionable_early(p) == rows[p].status \notin {"COMPLETED_SUCCESSFULLY", "RUNNING", "PENDING"}
is_provisionable(p) ==
    /\ \A q \in rows[p].previous : Successful(q)
    /\ rows[p].status \notin {"COMPLETED_SUCCESSFULLY", "RUNNING", "PENDING"}

\* The roots the loop writes to, and those it counts as running.
Starts(p) == IF ex.first THEN is_provisionable(p) ELSE Startable(p)
Acknowledges(p) == ~ex.first /\ Successful(p)
Writes(p) == Starts(p) \/ Acknowledges(p)
Counts(p) == ~ex.first /\ rows[p].status \in {"INITIATED", "RUNNING", "PENDING"}

\* Mutant: the roots on hold are not looked at.
Verdict_hasty ==
    IF \E p \in Here : rows[p].status = "COMPLETED_WITH_FAILURE"
    THEN "ON_HOLD_WITH_FAILURE" ELSE "COMPLETED_SUCCESSFULLY"
Verdict ==
    IF \E p \in Here : rows[p].status = "COMPLETED_WITH_FAILURE"
    THEN "ON_HOLD_WITH_FAILURE"
    ELSE IF \E p \in Here : rows[p].status = "ON_HOLD"
    THEN "ON_HOLD_WITH_SUCCESS" ELSE "COMPLETED_SUCCESSFULLY"

\* Roots are passed until there is one to write to ...
Running(loop, next) == ex.running \/ \E n \in 1..(next - 1) : Counts(loop[n])
Find(loop, next) ==
    ex' = [ex EXCEPT !.pc = "write", !.root = loop[next],
                     !.to = IF Starts(loop[next]) THEN "PENDING" ELSE "out",
                     !.todo = SubSeq(loop, next + 1, Len(loop)), !.seen = @ \cup ToSet(loop),
                     !.running = Running(loop, next)]

\* ... or, when there is none, the verdict.
Exhaust(loop) ==
    LET running == Running(loop, Len(loop) + 1)
        judges == status = "RUNNING" /\ ~running
    IN  ex' = [ex EXCEPT !.pc = IF judges THEN "verdict" ELSE "end",
                         !.to = IF judges THEN Verdict ELSE @,
                         !.todo = <<>>, !.seen = {}, !.running = running]

Gone(loop) == status = "absent" \/ \E n \in DOMAIN loop : rows[loop[n]].status = "absent"

Look ==
    /\ \/ ex.pc \in {"list", "look"}
       \/ ex.pc = "branch" /\ status = "RUNNING"
    /\ \E loop \in Looped : \E next \in 1..(Len(loop) + 1) :
          /\ \A n \in 1..(next - 1) : ~Writes(loop[n])
          /\ next <= Len(loop) => Writes(loop[next])
          /\ \/ Fails(Gone(loop))
             \/ /\ ~Gone(loop)
                /\ \/ next <= Len(loop) /\ Find(loop, next)
                   \/ next > Len(loop) /\ Exhaust(loop)
                /\ UNCHANGED <<tables, executor_running>>
    /\ UNCHANGED <<untouched, overlapped, manager, broker>>

\* A root is handed over to the workflow engine, and counts as running.
HandOver(p) ==
    /\ ex.to = "PENDING"
    /\ rows' = [rows EXCEPT ![p].status = "PENDING", ![p].in_focus = TRUE]
    /\ ex' = [ex EXCEPT !.pc = "look", !.root = NoRoot, !.to = None, !.running = TRUE]

\* A successful root leaves the focus, and those that follow it are appended.
Acknowledge(p) ==
    LET next == {q \in DOMAIN rows : p \in rows[q].previous} \ ex.seen IN
    /\ ex.to = "out"
    /\ rows' = [rows EXCEPT ![p].in_focus = FALSE]
    /\ \E more \in SetToSeqs(next) :
          ex' = [ex EXCEPT !.pc = "look", !.root = NoRoot, !.to = None,
                           !.todo = @ \o more, !.seen = @ \cup next]

Write ==
    /\ ex.pc = "write"
    /\ \/ Fails(rows[ex.root].status = "absent")
       \/ /\ rows[ex.root].status # "absent"
          /\ HandOver(ex.root) \/ Acknowledge(ex.root)
          /\ UNCHANGED <<status, executor_running>>
    /\ UNCHANGED <<untouched, overlapped, manager, broker>>

Conclude ==
    /\ ex.pc = "verdict"
    /\ \/ Fails(status = "absent")
       \/ /\ status # "absent" /\ status' = ex.to
          /\ ex' = [ex EXCEPT !.pc = "end", !.to = None]
          /\ UNCHANGED <<rows, executor_running>>
    /\ UNCHANGED <<untouched, overlapped, manager, broker>>

\* Mutant: executor_running is left set.
Done_busy ==
    /\ ex.pc = "end" /\ status # "absent"
    /\ ex' = [Resting EXCEPT !.pc = "return"]
    /\ UNCHANGED <<tables, untouched, overlapped, manager, broker, executor_running>>
Done ==
    /\ ex.pc = "end"
    /\ \/ Fails(status = "absent")
       \/ /\ status # "absent" /\ executor_running' = FALSE
          /\ ex' = [Resting EXCEPT !.pc = "return"]
          /\ UNCHANGED tables
    /\ UNCHANGED <<untouched, overlapped, manager, broker>>

Return ==
    /\ ex.pc = "return" /\ ex' = Resting /\ locked' = FALSE
    /\ UNCHANGED <<tables, untouched, overlapped, manager, message, executor_running>>

Executor ==
    Take \/ Branch \/ Mark \/ Look \/ Write \/ Conclude \/ Done \/ Return

-----------------------------------------------------------------------------
(* What the workflow engine does with a root (workflow_tasks.py): it takes *)
(* every PENDING root there is, in a workspace or not.                     *)

Moves(p, from, to) ==
    /\ rows[p].status = from
    /\ rows' = [rows EXCEPT ![p].status = to]
    /\ UNCHANGED <<status, untouched, overlapped, engine>>

Initiate(p) == Moves(p, "PENDING", "INITIATED")
Run(p) == Moves(p, "INITIATED", "RUNNING")
End(p) == \E to \in Finished : Moves(p, "RUNNING", to)

Manager == ManagerScan \/ ManagerInitiate \/ ManagerSend
Workflows(p) == Initiate(p) \/ Run(p) \/ End(p)

Next ==
    \/ Ask \/ Serve
    \/ Manager \/ Executor
    \/ \E p \in DOMAIN rows : Workflows(p)

\* Celery beat runs the managers, workers take what is queued, a request ends.
Fairness ==
    /\ WF_vars(Serve) /\ WF_vars(Manager) /\ WF_vars(Executor)
    /\ WF_vars(\E p \in DOMAIN rows : Workflows(p))

Spec == Init /\ [][Next]_vars /\ Fairness

-----------------------------------------------------------------------------
(* The verdict.                                                            *)

\* A VPC that a PATCH adds keeps the status PENDING of a new root: the workflow
\* engine runs it whatever the workspace does.
AtOnce(p) == Kind(p[1]) = "vpc_networks" /\ p[1] \notin form.asked

\* Edges join roots of the workspace, and of any of them one comes first.
Closed ==
    \A p \in DOMAIN rows : IF p \in Here THEN rows[p].previous \subseteq Here
                                        ELSE rows[p].previous \cap Here = {}
Followable ==
    Closed /\ \A some \in SUBSET Here \ {{}} : \E p \in some : rows[p].previous \cap some = {}

\* A root that failed and waits once more, for roots that a PATCH has put before it.
Retried(p) == rows[p].status = "READY" /\ rows[p].in_focus

\* "All the roots in the workspace were successful" (workflow_models.py:70): so
\* they are when the executor says so, although it counts during a walk in which
\* roots end, if no request has met the engine, the order can be followed, and
\* every root was for the executor to start.
VerdictIsSound ==
    [][/\ status # "COMPLETED_SUCCESSFULLY" /\ status' = "COMPLETED_SUCCESSFULLY"
       /\ ~overlapped /\ Followable
       /\ ~\E p \in Here : AtOnce(p) \/ Retried(p)
       => \A p \in Here : Successful(p)]_vars

\* A root runs when a request has asked for it and the roots before it are successful:
\* what the edges of a workspace are for.
StartsInOrder ==
    [][\A p \in Here :
          /\ rows[p].status = "INITIATED" /\ rows'[p].status = "RUNNING"
          /\ ~overlapped /\ ~AtOnce(p)
          => p \in provisioned /\ \A q \in rows[p].previous \cap DOMAIN rows : Successful(q)]_vars

TypeOK ==
    /\ \A p \in DOMAIN rows :
          /\ rows[p].status \in RootStatuses /\ rows[p].previous \subseteq DOMAIN rows
          /\ {rows[p].here, rows[p].in_focus, rows[p].doubled} \subseteq BOOLEAN
    /\ DOMAIN rows \subseteq composed
    /\ status \in WorkspaceStatuses
    /\ executor_running \in BOOLEAN /\ message \in BOOLEAN /\ locked \in BOOLEAN
    /\ manager \in {None, "found", "sends"}
    /\ lists \subseteq Resources /\ composed \subseteq Roots /\ provisioned \subseteq composed
    /\ DOMAIN session \subseteq composed
    /\ served \in 0..(form.more + 1) /\ overlapped \in BOOLEAN

=============================================================================

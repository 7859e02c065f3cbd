------------------------------ MODULE Workflow ------------------------------
(***************************************************************************)
(* The workflow engine: roots (one root is one tree of tasks), the tasks   *)
(* of every root, the manager that hands roots to executors, the executors *)
(* that walk a tree, and the workers that carry out single tasks.          *)
(*                                                                         *)
(*   src/ibm/models/workflow/workflow_models.py      the two tables        *)
(*   src/ibm/tasks/workflow_tasks/workflow_tasks.py  manager and executor  *)
(*   src/ibm/tasks/workflow_tasks/workflow_tasks_base.py,                  *)
(*   src/ibm/tasks/common/tasks_base.py              on_failure handlers   *)
(*   src/ibm/tasks/ibm/vpc_tasks.py                  RUN / WAIT pattern    *)
(*                                                                         *)
(* Every process works on MySQL through its own session.  A commit ends a  *)
(* transaction and expires what was loaded; the first read after it opens  *)
(* the next transaction, whose reads all come from one snapshot.  An       *)
(* executor therefore decides on its "view", which may be older than the   *)
(* tables, and writes single columns of the tables.                        *)
(*                                                                         *)
(* celery_singleton (external) keeps one lock per pair of a celery task    *)
(* and its arguments: delay() does nothing while the lock is held, and     *)
(* only a call that returns without an exception releases it, because both *)
(* on_failure handlers of the repository replace the library's own.        *)
(*                                                                         *)
(* An operator whose comment begins with "Slip" is no part of the engine:  *)
(* it is a slip of the kind the code could have, put in the place of the   *)
(* definition that follows it to see which property notices.               *)
(***************************************************************************)
EXTENDS Naturals, FiniteSets

CONSTANTS
    Roots,          \* workflow_roots rows
    Tasks,          \* workflow_tasks rows
    Executors,      \* slots of the workflow_initiator_queue worker
    None,           \* no root, no task
    RootOf,         \* RootOf[t]: the root of task t
    Previous,       \* Previous[t]: the tasks that must succeed before t
    Parent,         \* Parent[r]: the root r is a callback of, or None
    RootType,       \* RootType[r]: NORMAL or the kind of callback
    Holding,        \* callbacks added with hold_parent_status_update
    NoRun,          \* tasks MAPPER has no RUN entry for
    NoWait,         \* tasks MAPPER has no WAIT entry for
    FaultKinds,     \* the faults of this instance
    MaxFaults       \* bound on the number of faults

CallbackTypes == {"ON_SUCCESS", "ON_FAILURE", "ON_COMPLETE"}
RootTypes == {"NORMAL"} \cup CallbackTypes

\* "DELETED" stands for a row that is no longer there.
RootStatuses ==
    {"ON_HOLD", "PENDING", "INITIATED", "RUNNING",
     "COMPLETED_SUCCESSFULLY", "COMPLETED_SUCCESSFULLY_WFC",
     "COMPLETED_WITH_FAILURE", "COMPLETED_WITH_FAILURE_WFC", "DELETED"}

WaitingForCallbacks == {"COMPLETED_SUCCESSFULLY_WFC", "COMPLETED_WITH_FAILURE_WFC"}
Successful == {"COMPLETED_SUCCESSFULLY", "COMPLETED_SUCCESSFULLY_WFC"}
Failed == {"COMPLETED_WITH_FAILURE", "COMPLETED_WITH_FAILURE_WFC"}
Completed == Successful \cup Failed

\* Slip: a status left out of the list below.
UnfinishedButInitiated == {"ON_HOLD", "PENDING", "RUNNING"}

\* Statuses status_holding_callbacks_count looks for in a callback.
Unfinished == {"ON_HOLD", "PENDING", "INITIATED", "RUNNING"}

TaskStatuses ==
    {"PENDING", "INITIATED", "RUNNING", "RUNNING_WAIT",
     "RUNNING_WAIT_INITIATED", "SUCCESSFUL", "FAILED"}

\* Statuses the executor counts as running.
Active == {"INITIATED", "RUNNING_WAIT_INITIATED", "RUNNING"}

Jobs == Tasks \X {"RUN", "WAIT"}

TasksOf(r) == {t \in Tasks : RootOf[t] = r}
CallbacksOf(r) == {c \in Roots : Parent[c] = r}
FirstTasks(r) == {t \in TasksOf(r) : Previous[t] = {}}
NextTasks(t) == {u \in Tasks : t \in Previous[u]}

ASSUME ConstantsAssumption ==
    /\ None \notin Roots \cup Tasks
    /\ RootOf \in [Tasks -> Roots]
    /\ Previous \in [Tasks -> SUBSET Tasks]
    /\ \A t \in Tasks : \A p \in Previous[t] : RootOf[p] = RootOf[t]
    /\ Parent \in [Roots -> Roots \cup {None}]
    /\ RootType \in [Roots -> RootTypes]
    /\ \A r \in Roots : Parent[r] = None <=> RootType[r] = "NORMAL"
    /\ Holding \subseteq {r \in Roots : RootType[r] # "NORMAL"}
    /\ NoRun \subseteq Tasks
    /\ NoWait \subseteq Tasks
    /\ FaultKinds \subseteq {"crash", "raise", "worker_ready"}
    /\ MaxFaults \in Nat

\* A composer adds a task after tasks it has already made, so the order has no
\* cycle: of any tasks, one has none of them before it.
ASSUME OrderAssumption ==
    \A some \in SUBSET Tasks : some # {} =>
        \E t \in some : Previous[t] \cap some = {}

VARIABLES
    status,            \* workflow_roots.status
    executor_running,  \* workflow_roots.executor_running
    task_status,       \* workflow_tasks.status
    in_focus,          \* workflow_tasks.in_focus
    rootLock,          \* singleton locks of workflow_executor
    rootQueue,         \* messages of workflow_executor in the broker
    jobLock,           \* singleton locks of RUN and WAIT functions
    jobQueue,          \* messages of RUN and WAIT functions in the broker
    scan,              \* roots workflow_manager still has to go through
    picked,            \* the root it has just made INITIATED
    ex,                \* the executors
    working,           \* working[j]: workers inside the function of job j
    ending,            \* ending[j]: workers past their last commit
    faults             \* faults so far

tables == <<status, executor_running, task_status, in_focus>>
broker == <<rootLock, rootQueue, jobLock, jobQueue>>
manager == <<scan, picked>>
workers == <<working, ending>>
vars == <<tables, broker, manager, ex, workers, faults>>

(***************************************************************************)
(* Sessions.  View(r) is what a transaction of an executor of root r that  *)
(* opens now will read.                                                    *)
(***************************************************************************)
Views == [task : [Tasks -> TaskStatuses], root : [Roots -> RootStatuses]]

View(r) ==
    [task |-> [t \in Tasks |-> IF RootOf[t] = r THEN task_status[t] ELSE "PENDING"],
     root |-> [q \in Roots |-> IF q = r \/ Parent[q] = r THEN status[q] ELSE "ON_HOLD"]]

NoView ==
    [task |-> [t \in Tasks |-> "PENDING"], root |-> [q \in Roots |-> "ON_HOLD"]]

\* The session sees what it wrote itself.
Marked(v, t) == [task |-> [v.task EXCEPT ![t] = "FAILED"], root |-> v.root]

Idle ==
    [pc |-> "idle", root |-> None, view |-> NoView, first |-> FALSE,
     todo |-> {}, added |-> {}, listed |-> {}, cur |-> None,
     count |-> 0, dirty |-> {}]

\* The rows an executor's commit writes besides its own: tasks it marked
\* FAILED without a commit of their own.
Flush(e) == [t \in Tasks |-> IF t \in ex[e].dirty THEN "FAILED" ELSE task_status[t]]

\* Slip: workflow_executor an ordinary celery task.
DelayExecutorAlways(r) ==
    /\ rootLock' = rootLock \cup {r}
    /\ rootQueue' = [rootQueue EXCEPT ![r] = @ + 1]
    /\ UNCHANGED <<jobLock, jobQueue>>

\* delay() of a celery_singleton task.
DelayExecutor(r) ==
    /\ rootLock' = rootLock \cup {r}
    /\ rootQueue' = IF r \in rootLock THEN rootQueue
                                      ELSE [rootQueue EXCEPT ![r] = @ + 1]
    /\ UNCHANGED <<jobLock, jobQueue>>

DelayJob(j) ==
    /\ jobLock' = jobLock \cup {j}
    /\ jobQueue' = IF j \in jobLock THEN jobQueue
                                    ELSE [jobQueue EXCEPT ![j] = @ + 1]
    /\ UNCHANGED <<rootLock, rootQueue>>

\* The callbacks that keep root r from its final status, seen in view v.
HoldingCallbacks(r, v) ==
    {c \in CallbacksOf(r) \cap Holding :
        RootType[r] = "NORMAL" /\ v.root[c] \in Unfinished}

Init ==
    /\ status = [r \in Roots |-> IF RootType[r] = "NORMAL" THEN "PENDING"
                                                           ELSE "ON_HOLD"]
    /\ executor_running = [r \in Roots |-> FALSE]
    /\ task_status = [t \in Tasks |-> "PENDING"]
    /\ in_focus = [t \in Tasks |-> FALSE]
    /\ rootLock = {} /\ jobLock = {}
    /\ rootQueue = [r \in Roots |-> 0]
    /\ jobQueue = [j \in Jobs |-> 0]
    /\ scan = {} /\ picked = None
    /\ ex = [e \in Executors |-> Idle]
    /\ working = [j \in Jobs |-> 0]
    /\ ending = [j \in Jobs |-> 0]
    /\ faults = 0

-----------------------------------------------------------------------------
(* workflow_manager: one at a time, started every three seconds.           *)

Manageable(r) ==
    /\ ~executor_running[r]
    /\ status[r] \in {"PENDING", "RUNNING"} \cup WaitingForCallbacks

\* The query at the head of the manager.
ManagerScan ==
    /\ scan = {} /\ picked = None
    /\ \E r \in Roots : Manageable(r)
    /\ scan' = {r \in Roots : Manageable(r)}
    /\ UNCHANGED <<tables, broker, picked, ex, workers, faults>>

\* A PENDING root is committed as INITIATED before its executor is called.
ManagerInitiate(r) ==
    /\ r \in scan /\ picked = None
    /\ status[r] = "PENDING"
    /\ status' = [status EXCEPT ![r] = "INITIATED"]
    /\ picked' = r
    /\ UNCHANGED <<executor_running, task_status, in_focus, broker, scan, ex,
                   workers, faults>>

ManagerDelay(r) ==
    /\ r \in scan
    /\ picked = r \/ (picked = None /\ status[r] # "PENDING")
    /\ DelayExecutor(r)
    /\ scan' = scan \ {r}
    /\ picked' = None
    /\ UNCHANGED <<tables, ex, workers, faults>>

-----------------------------------------------------------------------------
(* workflow_executor.  An executor holds one root at a time; its pc names  *)
(* the statement it is about to run.                                       *)

\* Advances executor e, which keeps the fields the record rec leaves out.
Becomes(e, rec) == ex' = [ex EXCEPT ![e] = rec]

\* Takes a message, finds the row and raises executor_running.
ExecutorTake(e, r) ==
    /\ ex[e].pc = "idle"
    /\ rootQueue[r] > 0
    /\ rootQueue' = [rootQueue EXCEPT ![r] = @ - 1]
    /\ IF status[r] = "DELETED"
       THEN /\ Becomes(e, [Idle EXCEPT !.pc = "return", !.root = r])
            /\ UNCHANGED executor_running
       ELSE /\ Becomes(e, [Idle EXCEPT !.pc = "begin", !.root = r])
            /\ executor_running' = [executor_running EXCEPT ![r] = TRUE]
    /\ UNCHANGED <<status, task_status, in_focus, rootLock, jobLock, jobQueue,
                   manager, workers, faults>>

\* The first look at the status: INITIATED is committed as RUNNING, RUNNING
\* loads the tasks in focus, anything else goes straight to the tail.
BeginInitiated(e) ==
    LET r == ex[e].root IN
    /\ ex[e].pc = "begin" /\ status[r] = "INITIATED"
    /\ status' = [status EXCEPT ![r] = "RUNNING"]
    /\ Becomes(e, [ex[e] EXCEPT !.pc = "list"])
    /\ UNCHANGED <<executor_running, task_status, in_focus, broker, manager,
                   workers, faults>>

BeginRunning(e) ==
    LET r == ex[e].root
        focused == {t \in TasksOf(r) : in_focus[t]} IN
    /\ ex[e].pc = "begin" /\ status[r] = "RUNNING"
    /\ Becomes(e, [ex[e] EXCEPT !.pc = "loop", !.view = View(r),
                                !.todo = focused, !.listed = focused])
    /\ UNCHANGED <<tables, broker, manager, workers, faults>>

BeginOther(e) ==
    LET r == ex[e].root IN
    /\ ex[e].pc = "begin" /\ status[r] \notin {"INITIATED", "RUNNING"}
    /\ Becomes(e, [ex[e] EXCEPT !.pc = "loop", !.view = View(r)])
    /\ UNCHANGED <<tables, broker, manager, workers, faults>>

\* After the commit of RUNNING: the tasks nothing precedes.
ListFirst(e) ==
    LET r == ex[e].root IN
    /\ ex[e].pc = "list"
    /\ Becomes(e, [ex[e] EXCEPT !.pc = "loop", !.view = View(r), !.first = TRUE,
                                !.todo = FirstTasks(r)])
    /\ UNCHANGED <<tables, broker, manager, workers, faults>>

\* The loop goes through the tasks it was given in the order of the query,
\* which is unspecified, and then through those appended on the way.
Turn(e, t) ==
    /\ ex[e].pc = "loop"
    /\ IF ex[e].todo # {} THEN t \in ex[e].todo ELSE t \in ex[e].added

\* What executor e is left with once task t has had its turn.
Visited(e, t) == [ex[e] EXCEPT !.todo = @ \ {t}, !.added = @ \ {t}]

Seen(e, t) == ex[e].view.task[t]

\* Slip: any() for all().
AnyPreviousSeenSuccessful(e, t) ==
    Previous[t] = {} \/ \E p \in Previous[t] : Seen(e, p) = "SUCCESSFUL"

PreviousSeenSuccessful(e, t) == \A p \in Previous[t] : Seen(e, p) = "SUCCESSFUL"

\* Slip: the status of the task not looked at.
InitiateAnyTask(e, t) ==
    /\ Turn(e, t)
    /\ ex[e].first \/ PreviousSeenSuccessful(e, t)
    /\ task_status' = [Flush(e) EXCEPT ![t] = "INITIATED"]
    /\ in_focus' = [in_focus EXCEPT ![t] = TRUE]
    /\ Becomes(e, [Visited(e, t) EXCEPT !.pc = "run", !.cur = t, !.dirty = {}])
    /\ UNCHANGED <<status, executor_running, broker, manager, workers, faults>>

\* The first group is started whatever the status of its tasks; an appended
\* task is started when all the tasks before it were seen successful.
InitiateTask(e, t) ==
    /\ Turn(e, t)
    /\ ex[e].first \/ (Seen(e, t) = "PENDING" /\ PreviousSeenSuccessful(e, t))
    /\ task_status' = [Flush(e) EXCEPT ![t] = "INITIATED"]
    /\ in_focus' = [in_focus EXCEPT ![t] = TRUE]
    /\ Becomes(e, [Visited(e, t) EXCEPT !.pc = "run", !.cur = t, !.dirty = {}])
    /\ UNCHANGED <<status, executor_running, broker, manager, workers, faults>>

\* After that commit: delay the RUN function, or mark the task FAILED (in the
\* session only) when MAPPER does not know it.
DispatchRun(e) ==
    LET t == ex[e].cur
        next == [ex[e] EXCEPT !.pc = "loop", !.cur = None,
                              !.view = View(ex[e].root)] IN
    /\ ex[e].pc = "run"
    /\ IF t \in NoRun
       THEN /\ Becomes(e, [next EXCEPT !.dirty = {t}, !.view = Marked(@, t)])
            /\ UNCHANGED broker
       ELSE /\ Becomes(e, [next EXCEPT !.count = @ + 1])
            /\ DelayJob(<<t, "RUN">>)
    /\ UNCHANGED <<tables, manager, workers, faults>>

\* A PENDING task that still waits for a predecessor, and a FAILED one.
PassOver(e, t) ==
    /\ Turn(e, t) /\ ~ex[e].first
    /\ \/ Seen(e, t) = "PENDING" /\ ~PreviousSeenSuccessful(e, t)
       \/ Seen(e, t) = "FAILED"
    /\ Becomes(e, Visited(e, t))
    /\ UNCHANGED <<tables, broker, manager, workers, faults>>

\* Slip: an active task not counted.
SkipActive(e, t) ==
    /\ Turn(e, t) /\ ~ex[e].first
    /\ Seen(e, t) \in Active
    /\ Becomes(e, Visited(e, t))
    /\ UNCHANGED <<tables, broker, manager, workers, faults>>

CountActive(e, t) ==
    /\ Turn(e, t) /\ ~ex[e].first
    /\ Seen(e, t) \in Active
    /\ Becomes(e, [Visited(e, t) EXCEPT !.count = @ + 1])
    /\ UNCHANGED <<tables, broker, manager, workers, faults>>

\* A task that asked to be polled: committed as RUNNING_WAIT_INITIATED first.
InitiateWait(e, t) ==
    /\ Turn(e, t) /\ ~ex[e].first
    /\ Seen(e, t) = "RUNNING_WAIT" /\ t \notin NoWait
    /\ task_status' = [Flush(e) EXCEPT ![t] = "RUNNING_WAIT_INITIATED"]
    /\ Becomes(e, [Visited(e, t) EXCEPT !.pc = "wait", !.cur = t, !.dirty = {}])
    /\ UNCHANGED <<status, executor_running, in_focus, broker, manager, workers,
                   faults>>

\* MAPPER has no WAIT entry: FAILED, again without a commit.
WaitUnmapped(e, t) ==
    /\ Turn(e, t) /\ ~ex[e].first
    /\ Seen(e, t) = "RUNNING_WAIT" /\ t \in NoWait
    /\ Becomes(e, [Visited(e, t) EXCEPT !.dirty = @ \cup {t},
                                        !.view = Marked(@, t)])
    /\ UNCHANGED <<tables, broker, manager, workers, faults>>

DispatchWait(e) ==
    /\ ex[e].pc = "wait"
    /\ DelayJob(<<ex[e].cur, "WAIT">>)
    /\ Becomes(e, [ex[e] EXCEPT !.pc = "loop", !.cur = None, !.count = @ + 1,
                                !.view = View(ex[e].root)])
    /\ UNCHANGED <<tables, manager, workers, faults>>

\* A successful task is acknowledged: out of focus, committed; the tasks
\* after it that are not in the list yet are appended in the next transaction.
Acknowledge(e, t) ==
    /\ Turn(e, t) /\ ~ex[e].first
    /\ Seen(e, t) = "SUCCESSFUL"
    /\ in_focus' = [in_focus EXCEPT ![t] = FALSE]
    /\ task_status' = Flush(e)
    /\ Becomes(e, [Visited(e, t) EXCEPT !.pc = "append", !.cur = t, !.dirty = {}])
    /\ UNCHANGED <<status, executor_running, broker, manager, workers, faults>>

\* Slip: the following tasks not appended.
AppendNothing(e) ==
    /\ ex[e].pc = "append"
    /\ Becomes(e, [ex[e] EXCEPT !.pc = "loop", !.cur = None,
                                !.view = View(ex[e].root)])
    /\ UNCHANGED <<tables, broker, manager, workers, faults>>

AppendNext(e) ==
    LET new == NextTasks(ex[e].cur) \ ex[e].listed IN
    /\ ex[e].pc = "append"
    /\ Becomes(e, [ex[e] EXCEPT !.pc = "loop", !.cur = None,
                                !.view = View(ex[e].root),
                                !.added = @ \cup new, !.listed = @ \cup new])
    /\ UNCHANGED <<tables, broker, manager, workers, faults>>

LoopDone(e) == ex[e].pc = "loop" /\ ex[e].todo = {} /\ ex[e].added = {}
SeenStatus(e) == ex[e].view.root[ex[e].root]

\* Slip: the query for failed tasks not limited to the root.
AnyFailed(e) == \E t \in Tasks : task_status[t] = "FAILED"

\* Has a task of the root failed?  Pending writes of the session are flushed
\* before the query, so they count.
RootFailed(e) == \E t \in TasksOf(ex[e].root) : Seen(e, t) = "FAILED"

\* Slip: the two kinds of callback swapped.
DroppedSwapped(e) ==
    {c \in CallbacksOf(ex[e].root) :
        /\ RootType[c] = IF RootFailed(e) THEN "ON_FAILURE" ELSE "ON_SUCCESS"
        /\ ex[e].view.root[c] # "DELETED"}

\* Callbacks for the other verdict; their rows are deleted with the verdict.
DroppedCallbacks(e) ==
    {c \in CallbacksOf(ex[e].root) :
        /\ RootType[c] = IF RootFailed(e) THEN "ON_SUCCESS" ELSE "ON_FAILURE"
        /\ ex[e].view.root[c] # "DELETED"}

\* The verdict, held back while a holding callback is unfinished.
VerdictOf(e) ==
    IF HoldingCallbacks(ex[e].root, ex[e].view) \ DroppedCallbacks(e) # {}
    THEN IF RootFailed(e) THEN "COMPLETED_WITH_FAILURE_WFC"
                          ELSE "COMPLETED_SUCCESSFULLY_WFC"
    ELSE IF RootFailed(e) THEN "COMPLETED_WITH_FAILURE"
                          ELSE "COMPLETED_SUCCESSFULLY"

\* The tree is done: nothing was counted as running.
CompleteRoot(e) ==
    LET r == ex[e].root IN
    /\ LoopDone(e) /\ SeenStatus(e) = "RUNNING" /\ ex[e].count = 0
    /\ status' = [q \in Roots |-> IF q = r THEN VerdictOf(e)
                                  ELSE IF q \in DroppedCallbacks(e) THEN "DELETED"
                                  ELSE status[q]]
    /\ task_status' = Flush(e)
    /\ Becomes(e, [ex[e] EXCEPT !.pc = "callbacks", !.dirty = {}])
    /\ UNCHANGED <<executor_running, in_focus, broker, manager, workers, faults>>

\* Slip: the callbacks left on hold.
KeepCallbacks(e) ==
    LET r == ex[e].root IN
    /\ ex[e].pc = "callbacks"
    /\ executor_running' = [executor_running EXCEPT ![r] = FALSE]
    /\ Becomes(e, [Idle EXCEPT !.pc = "return", !.root = r])
    /\ UNCHANGED <<status, task_status, in_focus, broker, manager, workers, faults>>

\* The next transaction of a completed root releases its callbacks and lowers
\* executor_running in one commit.
ReleaseCallbacks(e) ==
    LET r == ex[e].root IN
    /\ ex[e].pc = "callbacks"
    /\ status' = [q \in Roots |->
                    IF q \in CallbacksOf(r) /\ status[q] = "ON_HOLD" THEN "PENDING"
                                                                     ELSE status[q]]
    /\ executor_running' = [executor_running EXCEPT ![r] = FALSE]
    /\ Becomes(e, [Idle EXCEPT !.pc = "return", !.root = r])
    /\ UNCHANGED <<task_status, in_focus, broker, manager, workers, faults>>

\* Slip: the two branches swapped.
ReleasedSwapped(verdict) ==
    IF verdict = "COMPLETED_SUCCESSFULLY_WFC" THEN "COMPLETED_WITH_FAILURE"
                                              ELSE "COMPLETED_SUCCESSFULLY"

\* The final status of a root that waited for its callbacks.
Released(verdict) ==
    IF verdict = "COMPLETED_SUCCESSFULLY_WFC" THEN "COMPLETED_SUCCESSFULLY"
                                              ELSE "COMPLETED_WITH_FAILURE"

\* The other ends of the function: a root waiting for callbacks gets its final
\* status once none is left to wait for, any other root keeps the one it has.
Leave(e) ==
    LET r == ex[e].root IN
    /\ LoopDone(e)
    /\ ~(SeenStatus(e) = "RUNNING" /\ ex[e].count = 0)
    /\ status' = IF /\ SeenStatus(e) \in WaitingForCallbacks
                    /\ HoldingCallbacks(r, ex[e].view) = {}
                 THEN [status EXCEPT ![r] = Released(SeenStatus(e))]
                 ELSE status
    /\ task_status' = Flush(e)
    /\ executor_running' = [executor_running EXCEPT ![r] = FALSE]
    /\ Becomes(e, [Idle EXCEPT !.pc = "return", !.root = r])
    /\ UNCHANGED <<in_focus, broker, manager, workers, faults>>

\* The function has returned: celery_singleton's on_success.
ExecutorRelease(e) ==
    /\ ex[e].pc = "return"
    /\ rootLock' = rootLock \ {ex[e].root}
    /\ Becomes(e, Idle)
    /\ UNCHANGED <<tables, rootQueue, jobLock, jobQueue, manager, workers, faults>>

ExecutorStep(e) ==
    \/ BeginInitiated(e) \/ BeginRunning(e) \/ BeginOther(e) \/ ListFirst(e)
    \/ \E t \in Tasks :
          \/ InitiateTask(e, t) \/ PassOver(e, t) \/ CountActive(e, t)
          \/ InitiateWait(e, t) \/ WaitUnmapped(e, t) \/ Acknowledge(e, t)
    \/ DispatchRun(e) \/ DispatchWait(e) \/ AppendNext(e)
    \/ CompleteRoot(e) \/ ReleaseCallbacks(e) \/ Leave(e) \/ ExecutorRelease(e)

-----------------------------------------------------------------------------
(* Workers.  A RUN or WAIT function commits RUNNING, calls the cloud, and  *)
(* commits what came of it.                                                *)

TaskExists(t) == status[RootOf[t]] # "DELETED"

\* Slip: the function entered without its message.
StartUncalled(t, kind) ==
    LET j == <<t, kind>> IN
    /\ TaskExists(t)
    /\ jobQueue' = [jobQueue EXCEPT ![j] = @ - 1]
    /\ task_status' = [task_status EXCEPT ![t] = "RUNNING"]
    /\ working' = [working EXCEPT ![j] = @ + 1]
    /\ UNCHANGED <<status, executor_running, in_focus, rootLock, rootQueue,
                   jobLock, manager, ex, ending, faults>>

StartJob(t, kind) ==
    LET j == <<t, kind>> IN
    /\ jobQueue[j] > 0
    /\ jobQueue' = [jobQueue EXCEPT ![j] = @ - 1]
    /\ IF TaskExists(t)
       THEN /\ task_status' = [task_status EXCEPT ![t] = "RUNNING"]
            /\ working' = [working EXCEPT ![j] = @ + 1]
            /\ UNCHANGED ending
       ELSE /\ ending' = [ending EXCEPT ![j] = @ + 1]
            /\ UNCHANGED <<task_status, working>>
    /\ UNCHANGED <<status, executor_running, in_focus, rootLock, rootQueue,
                   jobLock, manager, ex, faults>>

\* The last commit of the function.  It keeps its lock until it has returned.
FinishJob(t, kind, outcome) ==
    LET j == <<t, kind>> IN
    /\ working[j] > 0
    /\ outcome \in {"SUCCESSFUL", "FAILED", "RUNNING_WAIT"}
    /\ working' = [working EXCEPT ![j] = @ - 1]
    /\ task_status' = IF TaskExists(t) THEN [task_status EXCEPT ![t] = outcome]
                                       ELSE task_status
    /\ ending' = [ending EXCEPT ![j] = @ + 1]
    /\ UNCHANGED <<status, executor_running, in_focus, broker, manager, ex,
                   faults>>

\* Slip: a return that leaves the lock to the next worker_ready.
ReturnLocked(t, kind) ==
    LET j == <<t, kind>> IN
    /\ ending[j] > 0
    /\ ending' = [ending EXCEPT ![j] = @ - 1]
    /\ UNCHANGED <<tables, broker, manager, ex, working, faults>>

\* celery_singleton's on_success for a RUN or WAIT function.
ReleaseJob(t, kind) ==
    LET j == <<t, kind>> IN
    /\ ending[j] > 0
    /\ ending' = [ending EXCEPT ![j] = @ - 1]
    /\ jobLock' = jobLock \ {j}
    /\ UNCHANGED <<tables, rootLock, rootQueue, jobQueue, manager, ex, working,
                   faults>>

\* Slip: no on_failure handler.
RaiseUnhandled(t, kind) ==
    LET j == <<t, kind>> IN
    /\ working[j] > 0
    /\ working' = [working EXCEPT ![j] = @ - 1]
    /\ UNCHANGED <<tables, broker, manager, ex, ending, faults>>

\* The function raises: on_failure marks the task FAILED, the lock stays.
RaiseJob(t, kind) ==
    LET j == <<t, kind>> IN
    /\ working[j] > 0
    /\ working' = [working EXCEPT ![j] = @ - 1]
    /\ task_status' = IF TaskExists(t) THEN [task_status EXCEPT ![t] = "FAILED"]
                                       ELSE task_status
    /\ UNCHANGED <<status, executor_running, in_focus, broker, manager, ex,
                   ending, faults>>

-----------------------------------------------------------------------------
(* Faults.                                                                 *)

Fault(kind) ==
    /\ kind \in FaultKinds
    /\ faults < MaxFaults
    /\ faults' = faults + 1

\* A statement of the executor raises (the database or the broker is out of
\* reach, say): the session is rolled back and on_failure runs.
ExecutorRaise(e) ==
    LET r == ex[e].root
        exists == r # None /\ status[r] # "DELETED" IN
    /\ Fault("raise")
    /\ ex[e].pc \notin {"idle", "return"}
    /\ status' = IF exists THEN [status EXCEPT ![r] = "COMPLETED_WITH_FAILURE"]
                           ELSE status
    /\ executor_running' = IF exists THEN [executor_running EXCEPT ![r] = FALSE]
                                     ELSE executor_running
    /\ Becomes(e, Idle)
    /\ UNCHANGED <<task_status, in_focus, broker, manager, workers>>

\* The process of an executor dies.  Messages are acknowledged when they are
\* taken, so nothing takes the root up again in its place.
ExecutorCrash(e) ==
    /\ Fault("crash")
    /\ ex[e].pc # "idle"
    /\ Becomes(e, Idle)
    /\ UNCHANGED <<tables, broker, manager, workers>>

ManagerCrash ==
    /\ Fault("crash")
    /\ scan # {}
    /\ scan' = {} /\ picked' = None
    /\ UNCHANGED <<tables, broker, ex, workers>>

WorkerCrash(t, kind) ==
    LET j == <<t, kind>> IN
    /\ Fault("crash")
    /\ working[j] > 0
    /\ working' = [working EXCEPT ![j] = @ - 1]
    /\ UNCHANGED <<tables, broker, manager, ex, ending>>

\* Any worker service that comes up drops every singleton lock there is.
UnlockAll ==
    /\ Fault("worker_ready")
    /\ rootLock' = {} /\ jobLock' = {}
    /\ UNCHANGED <<tables, rootQueue, jobQueue, manager, ex, workers>>

-----------------------------------------------------------------------------
ManagerNext ==
    \/ ManagerScan
    \/ \E r \in Roots : ManagerInitiate(r) \/ ManagerDelay(r)

ExecutorNext ==
    \E e \in Executors : ExecutorStep(e) \/ \E r \in Roots : ExecutorTake(e, r)

WorkerNext ==
    \E t \in Tasks, kind \in {"RUN", "WAIT"} :
        \/ StartJob(t, kind) \/ ReleaseJob(t, kind) \/ RaiseJob(t, kind)
        \/ \E outcome \in TaskStatuses : FinishJob(t, kind, outcome)

FaultNext ==
    \/ \E e \in Executors : ExecutorRaise(e) \/ ExecutorCrash(e)
    \/ \E t \in Tasks, kind \in {"RUN", "WAIT"} : WorkerCrash(t, kind)
    \/ ManagerCrash \/ UnlockAll

Next == ManagerNext \/ ExecutorNext \/ WorkerNext \/ FaultNext

Spec == Init /\ [][Next]_vars

(***************************************************************************)
(* Fairness.  beat starts the manager every three seconds and the workers  *)
(* of every queue are always up, so a step of theirs that stays possible   *)
(* is taken.  The queue of the executors is first in, first out: a message *)
(* is not passed over for ever by later ones, which is strong fairness of  *)
(* taking it.  A poll that is repeated for ever finds the resource settled *)
(* at last: strong too, and an assumption about the cloud, not this code.  *)
(***************************************************************************)
Settle(t, kind) ==
    FinishJob(t, kind, "SUCCESSFUL") \/ FinishJob(t, kind, "FAILED")

Fairness ==
    /\ WF_vars(ManagerScan)
    /\ \A r \in Roots : WF_vars(ManagerInitiate(r)) /\ WF_vars(ManagerDelay(r))
    /\ \A r \in Roots : SF_vars(\E e \in Executors : ExecutorTake(e, r))
    /\ \A e \in Executors : WF_vars(ExecutorStep(e))
    /\ \A t \in Tasks, kind \in {"RUN", "WAIT"} :
          /\ WF_vars(StartJob(t, kind))
          /\ WF_vars(ReleaseJob(t, kind))
          /\ SF_vars(Settle(t, kind))

FairSpec == Spec /\ Fairness

-----------------------------------------------------------------------------
(* Types.                                                                  *)

ExecutorStates ==
    [pc : {"idle", "begin", "list", "loop", "run", "wait", "append",
           "callbacks", "return"},
     root : Roots \cup {None},
     view : Views, first : BOOLEAN, todo : SUBSET Tasks, added : SUBSET Tasks,
     listed : SUBSET Tasks, cur : Tasks \cup {None}, count : Nat,
     dirty : SUBSET Tasks]

TablesOK ==
    /\ status \in [Roots -> RootStatuses]
    /\ executor_running \in [Roots -> BOOLEAN]
    /\ task_status \in [Tasks -> TaskStatuses]
    /\ in_focus \in [Tasks -> BOOLEAN]

BrokerOK ==
    /\ rootLock \subseteq Roots /\ jobLock \subseteq Jobs
    /\ rootQueue \in [Roots -> Nat] /\ jobQueue \in [Jobs -> Nat]

WorkersOK == working \in [Jobs -> Nat] /\ ending \in [Jobs -> Nat]

\* An executor at work has a root; one that is about to send a task or to look
\* past it has that task.
RecordOK(x) ==
    /\ x \in ExecutorStates
    /\ x.pc = "idle" <=> x.root = None
    /\ x.pc \in {"run", "wait", "append"} => x.cur # None

ExecutorsOK ==
    /\ ex \in [Executors -> ExecutorStates]
    /\ \A e \in Executors : RecordOK(ex[e])

\* Every variable keeps its type: rows hold the statuses of the two enum
\* columns, queues and worker counts never go below zero (a message is taken
\* once), the manager's list holds roots, and executors are as above.
TypeOK ==
    /\ TablesOK /\ BrokerOK /\ WorkersOK /\ ExecutorsOK
    /\ scan \subseteq Roots /\ picked \in Roots \cup {None}
    /\ faults \in 0..MaxFaults

-----------------------------------------------------------------------------
(* Safety.                                                                 *)

\* Two executors never walk the same tree: the singleton lock that delay()
\* takes is given back only by the executor that used its message up, even
\* though the manager calls delay() again for every RUNNING root it lists
\* (workflow_tasks.py:33-38) from a query that is old by then.
OneExecutorPerRoot ==
    \A e, d \in Executors :
        ex[e].root = ex[d].root /\ ex[e].root # None => e = d

\* A task that has been started has only successful tasks before it, in the
\* tables and not just in the snapshot that was looked at, and they stay so
\* (add_previous_task, workflow_models.py:636-640).
PredecessorsDone ==
    \A t \in Tasks : TaskExists(t) /\ task_status[t] # "PENDING" =>
        \A p \in Previous[t] : task_status[p] = "SUCCESSFUL"

\* The executor of root r is gone without giving its singleton lock back: it
\* died, or it raised and on_failure (workflow_tasks_base.py:15-26, which takes
\* the place of Singleton's own) completed the root with failure as it stood.
Abandoned(r) ==
    /\ r \in rootLock /\ rootQueue[r] = 0
    /\ \A e \in Executors : ex[e].root # r

\* When a root is given its verdict by the count of its executor, no task of it
\* is started, running, being polled or waiting to be polled, and no worker or
\* message is left for it.
QuiescentWhenCompleted ==
    \A t \in Tasks : status[RootOf[t]] \in Completed /\ ~Abandoned(RootOf[t]) =>
        /\ task_status[t] \in {"PENDING", "SUCCESSFUL", "FAILED"}
        /\ \A kind \in {"RUN", "WAIT"} :
              jobQueue[<<t, kind>>] = 0 /\ working[<<t, kind>>] = 0

\* "All the tasks in the tree were successful" (workflow_models.py:243).
SuccessfulMeansAll ==
    \A r \in Roots : status[r] \in Successful =>
        \A t \in TasksOf(r) : task_status[t] = "SUCCESSFUL"

\* "One or more of the tasks in the tree failed" (workflow_models.py:248), when
\* it was the count that said so.
FailedMeansSome ==
    \A r \in Roots : status[r] \in Failed /\ ~Abandoned(r) =>
        \E t \in TasksOf(r) : task_status[t] = "FAILED"

\* A callback leaves ON_HOLD only for a parent that has its verdict, and the
\* verdict is the one the callback was added for.
CallbacksFollowVerdict ==
    \A q \in Roots :
        RootType[q] # "NORMAL" /\ status[q] \notin {"ON_HOLD", "DELETED"} =>
            /\ status[Parent[q]] \in Completed \cup {"DELETED"}
            /\ RootType[q] = "ON_SUCCESS" => status[Parent[q]] \notin Failed
            /\ RootType[q] = "ON_FAILURE" => status[Parent[q]] \notin Successful

\* An executor is about to send a function of task t.
Sending(pc, t) == \E e \in Executors : ex[e].pc = pc /\ ex[e].cur = t

\* A root the manager does not list has an executor, or its message, or the
\* manager at work on it.
RootAttended(r) ==
    executor_running[r] \/ status[r] = "INITIATED" =>
        \/ picked = r \/ rootQueue[r] > 0
        \/ \E e \in Executors : ex[e].root = r /\ ex[e].pc # "return"

\* A task that has been initiated or is running has a worker, or its message, or
\* the executor about to send or to fail it.
TaskAttended(t) ==
    /\ task_status[t] = "INITIATED" =>
          \/ Sending("run", t) \/ jobQueue[<<t, "RUN">>] > 0
          \/ \E e \in Executors : t \in ex[e].dirty
    /\ task_status[t] = "RUNNING" =>
          working[<<t, "RUN">>] + working[<<t, "WAIT">>] > 0

\* Nothing but a poll waits for a call that nobody is going to make: every lock
\* that could swallow the delay() of a root (workflow_tasks.py:38) or of a RUN
\* function (line 84) has its call, although locks outlive the last commit.
Attended ==
    /\ \A r \in Roots : RootAttended(r)
    /\ \A t \in Tasks : TaskAttended(t)

\* Why OneExecutorPerRoot holds: a root has at most one message or executor,
\* and never one without the singleton lock.
OneCallPerRoot ==
    /\ \A r \in Roots : rootQueue[r] \in {0, 1} /\ (rootQueue[r] = 1 => r \in rootLock)
    /\ \A e \in Executors : ex[e].root # None =>
          ex[e].root \in rootLock /\ rootQueue[ex[e].root] = 0
    /\ OneExecutorPerRoot

-----------------------------------------------------------------------------
(* Action properties.                                                      *)

\* A task is carried out once: it is initiated only from PENDING, its RUN
\* function is entered only while it is INITIATED, and what it came to,
\* SUCCESSFUL or FAILED, is never taken back, so no later writer - a second
\* worker, an executor with an old snapshot - overwrites the status column.
RunsOnce ==
    [][\A t \in Tasks :
          LET before == task_status[t]
              after == task_status'[t] IN
          /\ after = "INITIATED" /\ before # after => before = "PENDING"
          /\ jobQueue'[<<t, "RUN">>] < jobQueue[<<t, "RUN">>] => before = "INITIATED"
          /\ before \in {"SUCCESSFUL", "FAILED"} => after = before]_vars

\* A root that waits for callbacks is let go only when no holding callback is
\* unfinished in the tables, although the executor decides on its snapshot
\* (hold_parent_status_update, workflow_models.py:293-295).
HeldUntilCallbacksFinish ==
    [][\A r \in Roots :
          status[r] \in WaitingForCallbacks /\ status'[r] \notin WaitingForCallbacks =>
              \A q \in CallbacksOf(r) \cap Holding :
                  status[q] \in Completed \cup {"DELETED"}]_vars

\* A verdict is final: from then on a root may only move from waiting for its
\* callbacks to the same verdict without waiting.
VerdictIsFinal ==
    [][\A r \in Roots :
          /\ status[r] \in Successful => status'[r] \in Successful
          /\ status[r] \in Failed => status'[r] \in Failed]_vars

\* The executor counts task t as being polled, and no poll is on its way.
Lost(t) ==
    /\ task_status[t] = "RUNNING_WAIT_INITIATED"
    /\ jobQueue[<<t, "WAIT">>] = 0 /\ ~Sending("wait", t)

\* A poll is lost (delay() at workflow_tasks.py:148 does nothing) only while the
\* poll before it still holds the lock between its last commit and its return:
\* no lock of an earlier RUN, of a poll that has returned or of one that raised
\* is ever in the way.
PollsLostOnlyLate ==
    [][\A t \in Tasks :
          ~Lost(t) /\ Lost(t)' =>
              <<t, "WAIT">> \in jobLock /\ ending[<<t, "WAIT">>] > 0]_vars

-----------------------------------------------------------------------------
(* Liveness.                                                               *)

Settled(r) == status[r] \in {"COMPLETED_SUCCESSFULLY", "COMPLETED_WITH_FAILURE",
                             "DELETED"}

\* A root that is not settled: a poll of it is lost, or it waits for one that
\* is not - a callback for the verdict of its parent, a parent for a callback.
HeldUp(r) ==
    \/ \E t \in TasksOf(r) : Lost(t)
    \/ status[r] = "ON_HOLD" /\ status[Parent[r]] \notin Completed
    \/ /\ status[r] \in WaitingForCallbacks
       /\ \E c \in CallbacksOf(r) \cap Holding : ~Settled(c)

\* A task of a root that has started: finished, lost or still after one that
\* has not succeeded.
AtRest(t) ==
    \/ task_status[t] \in {"SUCCESSFUL", "FAILED"} \/ Lost(t)
    \/ /\ task_status[t] = "PENDING"
       /\ \E p \in Previous[t] : task_status[p] # "SUCCESSFUL"

\* Lost polls are all that keeps a workflow from its end, and a lost poll keeps
\* back only what comes after it: every other task is carried out, every root
\* without such a poll is completed for good, with its callbacks, or is a
\* callback that does not apply and has been deleted.
EverythingElseSettles ==
    <>[](/\ \A r \in Roots : Settled(r) \/ HeldUp(r)
         /\ \A t \in Tasks : status[RootOf[t]] \in {"ON_HOLD", "DELETED"} \/ AtRest(t))

\* "When the task needs to wait for something before declaring it
\* successful/failed" (workflow_models.py:535): it is declared one of them.
WaitIsDeclared ==
    \A t \in Tasks :
        task_status[t] = "RUNNING_WAIT" ~> task_status[t] \in {"SUCCESSFUL", "FAILED"}
=============================================================================

# A verification project for the VPC+ IBM backend

The program under `src/` is the backend of a multi-tenant console for IBM Cloud:
a Flask API, a MySQL database, and Celery workers that create, delete, discover,
back up and convert cloud resources. Everything that takes time goes through one
mechanism, the *workflow engine*: a request writes a tree of tasks into two
tables, and a handful of processes walk the trees. This directory models that
engine, the engine above it (workspaces), what is composed for them, what their
tasks do with the provider, and the two parts that live beside them: discovery
and the conversion of images.

## 1. Inventory

| component | source (`src/ibm/...`) | state | operations | modules |
|---|---|---|---|---|
| Workflow engine | `tasks/workflow_tasks/workflow_tasks.py`, `workflow_tasks_base.py`, `tasks/common/tasks_base.py`, `tasks/celery_app.py`, `models/workflow/` | `workflow_roots`, `workflow_tasks`, Redis locks, Celery queues | `workflow_manager` (every 3 s), `workflow_executor`, RUN/WAIT functions, `on_failure`, `unlock_all` | `Workflow`, `WorkflowDag`, `WorkflowRefinement`, `WorkflowInvariant` |
| Workflow retention | `workflows_delete_task` | the same | deletes old roots | no; its effect on a task in `ResourceTask` |
| Workspace engine | `tasks/workflow_tasks/workspace_tasks.py`, `web/ibm/workspaces/`, `web/ibm/draas/restores/` | `workflows_workspaces`, roots with their edges and `in_focus` | `workspace_manager` (3 s), `workspace_executor`, create, restore, PATCH, provision, provision-roots, delete | `WorkspaceSections`, `WorkspaceRequests`, `Workspace`, `WorkspaceInvariant` |
| Resource tasks | `tasks/ibm/*`, `tasks/*_tasks/`, `tasks/tasks_mapper.py` | resource tables, the resource log, the cloud | the RUN and WAIT functions of the 157 kinds of task in `MAPPER` | `TaskScript`, seven modules of scripts, `TaskMapper`, `ResourceTask`, `TaskFlow` |
| Composition, web API | `web/common/utils.py`, `web/**/api.py` | none of their own | 145 requests that compose trees or write rows | `RequestScript`, three modules of scripts, `WebApi`, `Requests`, `RequestFlow`, `RequestInvariant` |
| Expiry, backups, costs, MONITORING | `tasks/ttl_tasks/`, `tasks/draas_tasks/`, `tasks/cost_analyzer/`, `discovery/tasks/discovery_tasks.py` | `ttl_intervals`, blueprints, policies | four functions that compose workflows nobody requested | `ScheduledFlows` |
| Discovery | `discovery/`, `models/ibm/resource_log_models.py` | all resource tables, the resource log | initiator, executor, `update_*` | `DiscoveryFunctions`, `Discovery` |
| Image conversion | `tasks/ibm/image_conversion_tasks.py`, `web/ibm/images/api.py`, `common/image_conversion/` | instances, conversion tasks, machines at SoftLayer | distributor (30 s), overseer (40 s), executor (60 s), creation, polling and deletion of machines, initiate, clean up, webhook | `ImageConversion` |
| Cloud accounts | `tasks/ibm/ibm_cloud_tasks.py`, `web/ibm/clouds/` | `ibm_clouds` | validate, update, delete, registration with mangos | its tasks and requests |
| Models, clients, authentication, schemas, migrations, deployment | ... | rows | columns, input and output | no |

How they interact. The web API, the schedulers and RUN functions themselves
*compose* roots and tasks and commit them PENDING. The workflow manager lists
roots that need attention and *sends* each to an executor through a Celery queue.
An executor walks the tree once and returns: it *sends* the RUN or WAIT function
of tasks to worker queues, and workers write the result into the task's row,
which the next executor reads. A completed root *releases* its callback roots,
which the manager then lists. Workspaces are a second level of the same idea
over roots: their executor makes READY roots PENDING. Resource tasks write the
resource tables, and so does discovery, from lists that are older; the resource
log is all that keeps one from undoing the other. No process calls another and
waits; they meet only in rows, queues and the locks of `celery_singleton`.

What is hard here, and not reached by the unit tests, is therefore interleaving
on rows: a decision made on an old snapshot, a message that is dropped because a
lock is still held, a process that dies between two commits, a verdict that
counts a tree while it changes, a list that is older than the row it deletes.
`PROJECT.json` lists these hazards at their lines, with the properties that watch
them.

What makes each component correct:

* **Workflow engine**: tasks start after their predecessors and once; a root gets
  one verdict, when nothing of it runs any more, and the right one; callbacks
  follow it; everything ends.
* **Workspace engine**: what the body lists is composed, in an order that can be
  followed; roots start after the roots before them and after a request has asked
  for it; a successful workspace has only successful roots; every workspace gets
  a verdict.
* **Resource tasks**: a function that returns leaves a status the engine acts on;
  its verdict is final, has a cause and says what happened at the provider; what
  it did is in the tables and in the log; every poll ends.
* **Requests**: what is composed is known to the workers, is in the right order
  and is run before success is reported; a refused request leaves nothing.
* **Discovery**: what a task has recorded is not undone by an older list; left
  alone, the rows come in line with the provider.
* **Image conversion**: only an uploaded image is a success; no machine is taken
  from a conversion that goes on; every machine a row names is given back.

## 2. Modules

```
Workflow ── WorkflowRefinement ── MCWorkflow          TaskScript ── NetworkTasks, GatewayTasks, ComputeTasks,
   │              │ INSTANCE                             │          LoadBalancerTasks, InstanceGroupTasks,
   │          WorkflowDag                                │          ClusterTasks, AccountTasks ── TaskMapper
WorkflowInvariant                                     ResourceTask ── TaskFlow ── MCResourceTask ────────┘
   └─ Workflow_proofs                                                             └─ ResourceTask_proofs
        ├─ WorkflowRefinement_proofs
        └─ WorkflowAttended_proofs                    RequestScript ── VpcRequests, ComputeRequests, AccountRequests ── WebApi
                                                          │       └── ScheduledFlows ─────────────────────────────┐   │
WorkspaceSections ── WorkspaceRequests ──             Requests ── RequestFlow ───────────────────────────── MCRequests
     Workspace ── MCWorkspace                                      Requests_proofs ── RequestInvariant ───────────┘
         └─ WorkspaceInvariant ── Workspace_proofs
                                                      DiscoveryFunctions ── Discovery ── MCDiscovery
ImageConversion ── ImageConversion_proofs                                       └─ Discovery_proofs
```

The levels abstract one another where they meet. `Workflow` knows of a task only
that it is started, may ask to be polled, and ends; what happens inside is
`ResourceTask`. `Requests` and `Workspace` know of the engine only that a root
that is PENDING is picked, run in the order of its edges and ended, which is what
`WorkflowDag` promises and the runs `core` and `held_locks` check of `Workflow`.
`Discovery` knows of the tasks only that they change the provider first and the
rows with a log entry later, which is what `TasksAreLogged` and
`CreationsAreRecorded` check of the tasks, function by function.

Operators whose comment begins with "Slip" or "Mutant" are no part of the
program. Each is a plausible mistake in the definition that follows it; putting it
in that definition's place must break a property (`PROJECT.json`, "mutants").

### Scripts

The 157 kinds of task and the 149 composing functions all follow a few patterns,
a few lines apart. They are written in two small vocabularies, `TaskScript` and
`RequestScript`: a function is a sequence of operations (open a session, look a
row up, call the provider, branch on its answer, set a status, commit, ...), and
`ResourceTask` and `Requests` give each operation its meaning as an action. One
operation is one step where others may come in between; what the code does
between two steps (reading fields, building JSON) is left out. A condition on
data the model does not have is a branch either way, a loop runs from none to
a bounded number of times.

`TaskFlow` and `RequestFlow` are no models but analyses of the scripts: the
finite set of points a walk along a script comes to (`Flow`), whichever way its
branches go and however often its loops repeat, with what is known at each: of the
database and, for a task, of the provider. They are what the proofs about these two components use of the 306 scripts.

## 3. The models

### Workflow engine (`Workflow`)

| variable | code |
|---|---|
| `status`, `executor_running` | columns of `workflow_roots`; `"DELETED"` is a row that is gone |
| `task_status`, `in_focus` | columns of `workflow_tasks` |
| `rootLock`, `jobLock` | `celery_singleton` locks of `workflow_executor(root)` and of RUN/WAIT functions per task |
| `rootQueue`, `jobQueue` | messages in the broker, counted |
| `scan`, `picked` | the manager's list and the root it has just committed as INITIATED |
| `ex` | per executor: the statement it is at (`pc`), its root, its snapshot (`view`), the tasks still to visit (`todo`, then `added`), those ever listed, the current task, `running_tasks_count`, uncommitted FAILED marks (`dirty`) |
| `working`, `ending` | workers inside a function, and past its last commit but still holding the lock |
| `faults` | faults so far |

Shapes of the trees are constants: `RootOf`, `Previous`, `Parent`, `RootType`,
`Holding` (callbacks added with `hold_parent_status_update`), and `NoRun`, `NoWait`
for task types `MAPPER` does not know. The theorems quantify over all of them.
One action is one transaction, or one message, of one process:

| actions | code |
|---|---|
| `ManagerScan`, `ManagerInitiate`, `ManagerDelay` | the query, the commit of INITIATED, `delay()` (`workflow_tasks.py:15-38`) |
| `ExecutorTake` | message taken, row found, `executor_running` committed (47-54) |
| `BeginInitiated`, `ListFirst` | RUNNING committed, first group listed (58-62) |
| `BeginRunning`, `BeginOther` | tasks in focus listed (86-88); nothing to list |
| `InitiateTask`, `DispatchRun` | commit INITIATED and in focus, then look MAPPER up and delay (62-85, 96-119) |
| `PassOver`, `CountActive` | a task that waits or has failed; one that is active (91-94, 121-126) |
| `InitiateWait`, `DispatchWait`, `WaitUnmapped` | a poll (128-149) |
| `Acknowledge`, `AppendNext` | a success (151-159) |
| `CompleteRoot`, `ReleaseCallbacks` | verdict, dropped callbacks, then released ones (161-183, 193-194) |
| `Leave` | the other ends of the function (185-194) |
| `ExecutorRelease`, `ReleaseJob` | `on_success` of `celery_singleton` |
| `StartJob`, `FinishJob`, `RaiseJob` | RUN/WAIT functions: commit RUNNING, commit the outcome, or raise (`tasks_base.py:15-27`) |
| `ExecutorRaise` | an exception in the executor (`workflow_tasks_base.py:15-24`) |
| `ExecutorCrash`, `ManagerCrash`, `WorkerCrash` | a process dies; messages are acknowledged when taken, so nothing takes its place |
| `UnlockAll` | a worker service comes up (`celery_app.py:85-87`) |

MySQL runs at REPEATABLE READ and SQLAlchemy expires what it loaded at every
commit, so between two commits an executor reads one snapshot: `view`. It is
taken where the first read after a commit happens, and everything the executor
decides until its next commit it decides on that. Writes go to single columns of
the tables, whatever they hold by then. A task marked FAILED in the session only
(an unknown task type, lines 69-74) is `dirty` until the next commit.

A worker holds its lock after its last commit, until the function has returned
(`FinishJob`, then `ReleaseJob`), in every run. An executor that reads
RUNNING_WAIT in between commits RUNNING_WAIT_INITIATED and its `delay()` does
nothing: the poll is lost. One simplification, stated in the module: the
executor's first query and its commit of `executor_running` are one step.
`workflow_queue` is served by a solo pool, so there is one manager.

`WorkflowDag` is the abstract specification: tasks that wait, run and end, and
roots with a verdict. A task may start when its root is open and all tasks before
it are done; a root is closed when nothing runs and nothing can start; the verdict
drops the callbacks for the other verdict, the others are opened together, and
the end is reported when no holding callback is left. `WorkflowRefinement` maps
the tables, plus the executors' uncommitted marks, onto it.

### Resource tasks (`ResourceTask`)

One task of any kind: `db`, its committed row with the number of rows of its
resource, the id noted in its metadata, whether it names its row, and its log
entries; `s`, what the open session sees; `todo`, the rest of the script; `cloud`,
the resource at the provider (`none`, `pending`, `stable`, `failed`, `deleting`).
A worker's step is one operation of the script. Between sessions the provider
goes on (a creation succeeds or fails, a deletion ends or fails), somebody deletes
the resource at the console, discovery records or removes its row, and the
janitor deletes the task with its root. A call may be answered, refused, or lost
after the provider has acted; the latter raises, and
`IBMWorkflowTasksBase.on_failure` sets FAILED in a session of its own. `trouble`
remembers that something outside gave the task a reason to fail.

### Requests (`Requests`)

`view` is the session of the request, `db` what is committed: roots with their
type and parent, tasks with their kind, edges, and whether other rows were
written. The request runs its script while the executor launches, finishes and
completes what is committed already. `answer` is what the client is told.

### Workspaces (`WorkspaceSections`, `WorkspaceRequests`, `Workspace`)

`WorkspaceSections` says, for each of the sections a body may have, which roots
`create_workspace_workflow` and `update_workspace_workflow` compose and which
edges they give them (by what the body refers to, and by what earlier sections
have put into the dictionaries). `WorkspaceRequests` runs the requests on a
session, commit by commit. `Workspace` adds the manager, the executor, its lock
and message, and the life of a root. A *form* (`MCWorkspace`) is one history of a
workspace: how it is made, what refers to what, a PATCH, requests to provision.
One resource of each section, two of security groups.

### Discovery (`DiscoveryFunctions`, `Discovery`)

`DiscoveryFunctions` classifies the 49 `update_*` functions by the few ways in
which they differ, their *plan*: whether the log is read in a session apart,
within the session that writes, or not at all; whether rows are pruned once,
after each list, or never, and what is spared; what the lists leave out; by what a
row is found. `Discovery` runs a pass under a plan: mangos' list is taken, the log
read, rows pruned and merged; tasks create, change and delete at the provider and
record it a step later; others do so at the console; mangos syncs; minutes pass.
Times are modelled by the only comparisons the code makes. An entry has the time
of the start of its minute, so the entries of one minute are not ordered, and of
those of the newest minute the query may return any: what the log says of a
resource is a set of statuses, and the reading chooses one. With equal plans two
functions behave alike, so one function of each plan is checked.

### Image conversion (`ImageConversion`)

`task` (status, step, retries, instance), `rows` (instances), `machines` at
SoftLayer, `calls` (what each of the greenlets is in the middle of, with what it
has read before), `scripts` on machines, `waiting` messages on the task. The
distributor, the overseer and the executor each do what they do with one row in
one step: the database driver is not cooperative, so greenlets change only where
a call waits for SoftLayer or SSH. A crash ends all calls. `history` is not in the
program: whether an image has been uploaded, whether the task has ever ended, and
which rows were retired for their age.

## 4. Runs

Nine runs pass, each checked exhaustively, and three show a disagreement of the
code with one of its own comments. States are distinct states (up to symmetry in
`core` and `faults`).

| run | instance | checks | states | shows |
|---|---|---|---|---|
| `core` | three tasks (two, and one that joins them), a holding ON_SUCCESS and an ON_FAILURE callback, two executors | types, eight safety and action properties, the refinement | 379 622 | the engine without faults, in every interleaving, implements `WorkflowDag` |
| `liveness` | chain of two, a holding ON_COMPLETE callback, one executor | `Attended`, `PollsLostOnlyLate`, `EverythingElseSettles` | 73 256 | all but a lost poll has its call, a poll is lost only while the one before it has committed and not returned, and everything that does not wait for a lost poll ends |
| `faults` | chain of two, callback, two executors, any two crashes or exceptions | `OneExecutorPerRoot`, `QuiescentWhenCompleted`, `SuccessfulMeansAll` | 1 430 257 | after faults the tables may be stuck, but no success is invented |
| `held_locks` | the chain, one executor, locks dropped twice by a worker service that comes up, a task type without WAIT, one without RUN | `ImplementsDag` | 70 013 | dropped delays and lock resets do no harm to safety with one executor slot |
| `tasks` | each of the 157 kinds, one task against provider, console, discovery, janitor; two rows, two items of a loop | eight properties | 63 168 | which functions keep the protocol, and the sets of those that do not |
| `requests` | each of 145 requests and 4 scheduled functions, on every path; five tasks (two for idle resources, three for scheduled functions) | five properties | 194 859 | the same for what is composed |
| `workspace` | 36 histories of workspaces with one to three sections | `ResourcesAreComposed`, `VerdictIsSound`, `StartsWhenDue`, `WorkspaceSettles` | 226 180 | the second engine, composition included |
| `discovery` | two resources, one function of each plan, two changes at the console | `RowsAreKept`, `DeletionsStand`, `RowsSettle` | 1 062 200 | the log protects what tasks did, and rows converge |
| `images` | one conversion, one instance, two greenlets, one script slot, one stage between the first and the last, one retry, one failed call | `SuccessIsUploaded`, `DeletesWhenOver`, `RowsGo` | 494 895 | a conversion with overlapping calls, retries and crashes |
| `unlock_all` | two executors, one lock reset | `SuccessfulMeansAll` | | **violated** |
| `lost_poll` | one task, no fault | `WaitIsDeclared` | | **violated** |
| `workspace_verdict` | two restored security groups that name one another | `AllSuccessfulAlone` | | **violated** |

### Bounds, and why they are enough

* *Workflow.* The only bound is `MaxFaults`; queues, counts and executors are
  finite by themselves (a root has at most one message, a count at most its
  tasks), so without faults the runs are exhaustive for their trees. The trees are
  the smallest with a join, a successor, both kinds of callback and a callback
  that holds; two executors are enough for two roots to be walked at once and for
  two to meet on one root. Two faults are enough for a crash of one process to
  meet a crash or exception of another. To keep the trees small, tasks of the
  callbacks do not ask to be polled (both in `core`, the one in `liveness`), while
  those of the main root do. `core` is symmetric in its executors and its two first
  tasks, `faults` in its executors; both check safety only.
* *Tasks.* A task and its resource are alone; what others do to them are actions
  of the environment. Two rows are one too many, which is all the properties tell
  apart; two items let a loop end, go on, and be left in the middle.
* *Requests.* A request meets only the executor. Five tasks let every loop of
  every function run twice, those of the expiry manager and the backup scheduler
  compose up to three roots.
* *Workspace.* At most two copies of a resource and one PATCH: what a second PATCH
  meets is a workspace like the one the first left. Forms cover every section and
  every edge at least once.
* *Discovery.* Two resources, so that one may be deleted for another's sake; two
  changes at the console make a list out of date twice. Tasks may change
  resources without bound; times are compared, not counted.
* *Images.* One machine and row slot, used again after the row goes; the stages
  between the first and last are read by no guard, so one is enough (`Stages = 2`
  counts it and the last); one retry fires the retry's steps. Not covered: overlapping creations of a second machine
  (`Machines` has one element), which `RowsGo` could not speak of anyhow.

Deadlock is checked in `discovery`, whose system never stops, and in no other run:
when all roots are settled, a task, a request or a conversion has ended, there is
nothing left to do.

### Exceptions

Many of the functions do not have the property that the others have. The
MC modules name them in sets (`LeavesRunning`, `PollsForEver`, `ChecksLate`,
`Unsettled`, ...), each found by runs without it; section 6 says what they do. The
property is checked of all the others, and a function that is changed so as to
lose it is found by the run.

Of tasks and requests the runs also evaluate `ScriptsAssumption` and
`FlowsAssumption`: that every script outside such a set keeps, at every point of
its walk, to the condition on which the proof of the property rests (`Declares`,
`StandsBy`, `Records`, `LogsIt`, `Creates`, `Deletes`, `FailsByTrouble`; `KnownKinds`,
`ChecksFirst`, `ComposesWhole`, `EndsIn`). `LeavesRunning`, `RevisesVerdict`, `Unnamed`,
`Unlogged`, `RecordsFailure`, `FalseAlarms`, `ComposesUnknown`, `ChecksLate` and `ComposesLate` are exactly the scripts that do
not: what the exploration found of the states and what the walks find of the
scripts agree.

### Fairness

*Workflow* (`liveness`, `lost_poll`): beat starts the manager every three seconds
and every queue has workers that are always up, so a step that stays possible is
taken: weak fairness of each manager action, of each executor, of starting a job
and of releasing its lock. Messages of the executor's queue are taken first in,
first out, so a message is not passed over for ever though the single slot is
taken again and again: strong fairness of taking each root's message. A resource
that is polled for ever settles at last: strong fairness of `Settle`, an
assumption about the cloud. No fairness is assumed of faults, and the liveness
run has none: a crash of an executor does leave its root stuck
(`executor_running` stays set, the lock stays held), which the code has no remedy
for short of a restart.

*Tasks*: the worker goes on (weak); the provider ends what it was asked to do,
though it is asked again and again in between (strong). *Requests*, *workspace*:
the request, the managers, the executors and the workers go on (weak).
*Discovery*: passes are started every minute, mangos syncs, the clock goes on, a
task that has reached the provider records it, parents are discovered (weak);
nothing is assumed of changes. *Images*: a call goes on, rows grow old (weak); the
overseer comes back every forty seconds and SoftLayer does not refuse for ever
(strong fairness of starting a deletion and of its success). No fairness of
crashes.

## 5. Proofs

All theorems hold for every value of the constants, under the named assumptions
of the modules.

**`Workflow_proofs`** proves types and locks first, for every forest, every number
of executors and of faults:

* `TypeCorrect == Spec => []TypeOK`. One lemma per action of an executor; the
  workhorse is `BecomesType`, which reduces each to the type of one record.
* `OneExecutorCorrect`: if `"worker_ready"` is not among the faults,
  `Spec => []OneExecutorPerRoot`. The property is not inductive: that the queue
  holds at most one message per root, and none while an executor has the root,
  and that the lock is held in both cases, is what `delay()` rests on. That is
  `OneCallPerRoot`; `DelayCalls`, `TakeCalls` and `ReleaseCalls` are the three
  steps that change it, `SameCalls` covers all others, the crashes included. The
  assumption cannot be dropped: that is the run `unlock_all`.

then the safety of the engine, for every forest whose orders have no cycle (`OrderAssumption`: a composer adds a task after tasks that
exist), every number of executors and every fault but
`"worker_ready"`:

* `OrderCorrect == Spec => []Known`, where `Known` is `TypeOK`, `OneCallPerRoot`
  and `IInv`, the inductive invariant of `WorkflowInvariant`. Its parts, and what
  each is there for:

  | part | says | without it |
  |---|---|---|
  | `OneCallPerTask` | a task has at most one message or worker, its status says which, and an executor that is about to send one, or has an uncommitted FAILED mark, finds none | two workers write one row |
  | `RootsInOrder`, `Untouched` | what the manager holds has no call; callbacks are ON_HOLD until the verdict; nothing of a root is started before it is RUNNING | the first walk would find tasks started |
  | `Focused` | a task is in focus from its start until its success is acknowledged | a walk lists what is in focus, and would miss one |
  | `ExecutorsInOrder` | what the snapshot of an executor may still say of a row that has moved on (`TaskSeen`, `CallbackSeen`), and that every task in focus has its turn before the tree is called done (`TurnsTaken`, `FirstWalk`, `LaterWalk`) | a verdict on old statuses |
  | `NothingForgotten` | between two walks a task that waits has a predecessor that waits or is not acknowledged | nothing in focus would not mean nothing left |
  | `StartedInOrder`, `VerdictsStand` | the properties themselves | |

  The last step of the argument is the verdict: nothing counted, so all tasks in
  focus have failed or there are none; if none has, a task that waits is held back
  by another that waits, and so on, which the order without cycles excludes.
* `PredecessorsCorrect`, `QuiescenceCorrect`, `SuccessCorrect`, `FailureCorrect`:
  four invariants of the runs `core` and `faults`, which follow from `IInv`.
* `TaskLifeCorrect`, `RootLifeCorrect`: each step of the system is a step in the
  life of each task (`TaskMove`) and of each root (`RootMove`), whoever writes the
  row and on whatever snapshot. This is the life that `ResourceTask`, `Requests`
  and `Workspace` assume. `RunsOnceCorrect`, `VerdictIsFinalCorrect`,
  `HeldUntilCallbacksFinishCorrect` and `CallbacksCorrect` follow. All about roots
  also assume that no executor raises: `on_failure` completes the root as it
  stands, whatever its status was, and releases nothing.

**`WorkflowRefinement_proofs`**: `RefinementCorrect == Spec => ImplementsDag`,
without faults: each step of the engine is the step of `WorkflowDag` that its
lemma names, or a stutter. A task becomes active at the commit of INITIATED, done at
the worker's commit, failed at the worker's commit or the executor's uncommitted
mark, whichever is first (`PhaseReads`, `OwnMark`); a verdict is the commit of
`CompleteRoot`, the release of callbacks the one after it. The proof found an error of
`WorkflowDag` that no tree of the runs shows: a callback that has callbacks of its
own does not wait for those that hold it (`workflow_models.py:379` looks at the
type), which `HoldersOf` now says. With faults the refinement fails for good
reason: a root is then completed while tasks of it run.

**`WorkflowAttended_proofs`**, without faults, for every acyclic set of roots and
any number of executors:

* `AttendedCorrect == Spec => []Attended`, the safety half of "everything else
  ends": a root that the manager does not list has its executor or its message, and
  a task that is INITIATED or RUNNING has its message or its worker. It rests on
  `IInv` and on `LocksAreCalls`: a lock of a function means that a call of it is on
  its way, that its worker has committed and not yet returned, or that the task has
  failed. `RunsReturn` adds that a task whose RUN function has yet to return is
  past INITIATED, so the lock it holds swallows no second call of it; the lock of
  the WAIT function is another one, so the first poll is not lost either.
* `PollsAreLostLateCorrect == Spec => PollsLostOnlyLate`. What `Attended` leaves out
  is the poll after a poll. A task is left RUNNING_WAIT_INITIATED without a call
  by one step only, a `delay()` made while the poll before has committed and still
  holds its lock. That it does happen, without any fault, is the run `lost_poll`; the
  task and its root are then never declared, so "everything ends" is not so, and
  `EverythingElseSettles` excuses what waits for such a task and nothing else.

**`Discovery_proofs`**, for every set of resources, every function and any number
of changes:

* `TypeCorrect`.
* `MemoryCorrect == Spec => []Memory`. What a pass has read of the log is what the
  newest entries of every resource say, where those of one minute agree, but for
  entries written since (`ReadTold`, `Remembers`), and
  what it has chosen to delete and to merge it has chosen by what it read
  (`MergesUntold`, `DeletesUntold`, `DeletesUnlisted`).
* `RowsAreKeptCorrect`, `DeletionsStandCorrect`: the two properties of the run.
  They speak of single steps; `Memory` is what makes the steps that write rows
  right, because between the reading of the log and the writing tasks go on.

**`ImageConversion_proofs`**, for any number of instances, machines, greenlets,
scripts, stages, retries and repeated calls:

* `TypeCorrect`.
* `EvidenceCorrect == Spec => []Evidence`. A task becomes SUCCESSFUL at the end of
  a chain (a script posts its last step, the webhook sets PENDING_CLEANUP, the
  executor sends the clean-up, the call ends) that any overlap or repetition could
  enter in the middle. `Evidence` says that before an image has been uploaded no
  link of the chain exists: not the step, not the message, not the call, not a
  script past its last stage.
* `SuccessIsUploadedCorrect`, which follows.
* `DeletionInvariantCorrect == Spec => [](MachinesOwned /\ OverInOrder)`. Rows,
  calls and scripts read the number of a machine from one another at different
  times and keep it while the others change; `MachinesOwned` says that whatever
  they name, they name for one row. `OverInOrder` says that the way to a deletion
  is entered only when the task has ended or the row is too old: the end of a task is
  remembered though its status may be set back (`EndIsRemembered`), an assigned row
  is that of the task until then (`RowsAreTheTasks`), and rows that go and calls
  that delete are over (`GoingIsOver`, `DeletingIsOver`).
* `DeletesWhenOverCorrect`: with both, a machine deleted under a script was the
  machine of the script's own row, and that row was over.

**`Workspace_proofs`**, the second engine, for every finite set of resources, every
function that says what they refer to, every history of requests and any number of
copies:

* `WInvCorrect == Spec => []WInv`, the inductive invariant of `WorkspaceInvariant`.
  Its parts, and what each is there for:

  | part | says | without it |
  |---|---|---|
  | `Types`, `SessionOpen` | rows and the changes of a session are well formed and finite; a session has changes only while its request composes | a walk could not be listed, a PATCH would leave its changes to the next request |
  | `Apart` | unless a request has met the engine, requests are served while manager and executor rest and the workspace is neither INITIATED nor RUNNING; the status says where the executor is | requests would write under a walk |
  | `Calm`, `HandedOver` | no request composes a root that is at work; a root is at work because the executor has put it in focus, or as a VPC that a PATCH has added (`AtOnce`) | a root at work that no walk lists |
  | `WorkCounted`, `Acknowledged` | as long as a walk has counted nothing, every root in focus that runs or has succeeded still has its turn in it | a root that ends behind the walk would be taken for none |
  | `WalkInOrder` | each root is listed once and those in focus come first (`ListedOnce`); a root that waits is still ahead or held back by one that is not acknowledged in this walk (`Ahead`); between walks every root that waits is held back (`HeldBack`) | a root whose predecessors end during the walk would be forgotten |

  All but the first line is claimed of behaviours in which no request has met the
  engine (`overlapped`), the last of workspaces whose edges stay within them
  (`Planned`). One lemma per action; `RequestsKeep` covers the nineteen steps of
  requests by what they have in common (`ServesWell`, `AsksWell`), `LookWrites`,
  `LookEnds`, `HandOverKeeps` and `AcknowledgeKeeps` are the walk.
* `VerdictIsSoundCorrect == Spec => VerdictIsSound`: the step to
  COMPLETED_SUCCESSFULLY finds every root of the workspace successful, although the
  walk before it counted roots one after the other while they ended. Only
  `Conclude` is such a step; nothing was counted, so nothing is at work and nothing
  acknowledged is in focus; what is left waits, and is held back by a root that
  waits too; `Followable` has a first among those.

  The conditions are those the code needs, and each is a case of section 6:
  `~overlapped`; `Followable` (groups that name one another, a root outside the
  workspace); no root `AtOnce`, no root `Retried`. The run has histories in which
  the first three fail; that the last one does needs more roots than the run can
  afford.

* `InTurnCorrect == Spec => []InTurn` and `StartsInOrderCorrect == Spec =>
  StartsInOrder`. A root is handed over by a walk (`Write`) that looked at its
  predecessors some steps before, in a list that was taken before that. `InTurn`
  says that READY is only what a request has asked for (`Asked`, of rows and
  session), that what the walk is about to hand over is still READY and due
  (`StartsNext`), that what a first walk has still to come to is READY and touched by
  nothing else (`FirstWalk`), and that what is in focus and at work was due
  (`StartedInTurn`): a success is not taken back while no request meets the engine.
  It is inductive together with `WInv`. `StartsInOrder` speaks of the edges the roots
  have; the run's `StartsWhenDue` of what the body refers to, which adds that
  the sections give the right edges.

**`Requests_proofs`**. What 149 scripts do would be evaluation, if there were not
the bound on loops, the number of contents of a container, and the executor that
works between any two steps of the request. The theorems hold for every table of
scripts, every MAPPER and every `MaxTasks` that satisfy `FlowsAssumption`, which the run
`requests` evaluates for those of the code.

* `RequestInvariantCorrect == Spec => []RequestInv`. A point of the walk has *facts*:
  whether anything is committed, which variables of the function hold a root that
  is not, which a task of the last root, which of these tasks has no next. `OnItsWay`
  says that the request is at such a point and that its facts are so of the session (`Hold`),
  and that what is committed is the part of the session that belongs to the roots added
  first (`Kept`, `WaitsForNew`); `Composing` that edges stay within a root and close no cycle
  (`Orderable`); `Runs` that the executor has touched nothing of a root that has
  not started (`Untouched`), and that a task of a running root that has not started waits
  for one whose success is not acknowledged (`Awaits`), which is the argument of `NothingForgotten`
  at this level. One lemma per operation, with the effect of each on the
  facts (`Learns`).
* `TasksAreKnownCorrect`, `RefusedLeavesNothingCorrect`, `SuccessRunsAllCorrect`
  follow.
* `ContainerInvariantCorrect`, `DeletedLastCorrect`: the deletions of networks, transit gateways
  and instance groups. `Encloses` says that the container waits for all of its root over
  any number of edges, said without recursion (`Earlier`: in every set closed
  under predecessors); a function composes the container first and puts everything else
  before something that is there (`EndsIn`). `InTurns` is what the executor adds. The
  conclusion is about every number of contents, the run's about five tasks.

**`ResourceTask_proofs`**, for every table of scripts that satisfies `ScriptsAssumption`,
every `Items` and every number of rows:

* `TaskInvariantCorrect == Spec => []TaskInv`: a task is at a point of the walk along its
  script (`Flow`), or has been deleted with its root. A point says what is known there of
  three things. Of the committed row (`kept`) and of what the session sees (`seen`): the
  status, whether the resource has a row, whether its name at the provider is noted, whether
  the task names the row, what has been logged; the two differ where the code writes and has
  not committed. Of the world (`world`): what the resource at the provider may be, the last
  answer, whether the provider has accepted the task's request, and whether there has been
  trouble. All but the resource is known exactly (`Agrees`, `Fits`); the resource is one of a
  set, which a call narrows to what was answered and which, between sessions, has all in it
  that the provider and its console can make of it (`Later`) without trouble for the task.
  What is trouble, and what discovery does to the row, are steps of the walk (`Others`). The
  lemmas are one per kind of operation and one per action of the environment.
* `TasksEndDeclaredCorrect`, `VerdictsStandCorrect`, `CreationsAreRecordedCorrect`,
  `SuccessesAreRealCorrect`, `DeletionsAreDoneCorrect`, `TasksAreLoggedCorrect`,
  `FailuresHaveCauseCorrect`: each from the invariant and the static condition of the same
  functions, at the step of the walk that commits the verdict (`StepFollows`), or at the
  point where it stands. All the safety the run checks is so proved: for lists of any length,
  and any number of rows.
* `TypeCorrect == Spec => []TypeOK`: every variable has its type. That the scripts write no
  status but the engine's and no entry but the log's is known from the walk (`WordsKnown`, as
  its points are `Facts`); the counters and flags are an induction of their own over the
  operations.

### What is not proved

* Liveness (`EverythingElseSettles`, `PollsSettle`, `WorkspaceSettles`,
  `RowsSettle`, `RowsGo`) is out of the prover's reach: it has no rules for
  fairness and ENABLED. The runs check it; `WaitIsDeclared` they refute.
* `InputsAreReady` is about pairs of kinds, with one order in one function and another in the
  next; it is evaluation of data, exhaustive on the run but for the length of loops.
* Which scripts satisfy `ScriptsAssumption` and `FlowsAssumption` is evaluated by TLC, on every
  run of their modules: the scripts are data of the code, and the walks along them
  finite. That `Longest` steps are enough is part of it (`Closed`).
* That a workspace composes what its body lists, and that the edges are those the
  body calls for (`ResourcesAreComposed`, `StartsWhenDue`), follow from the tables of
  `WorkspaceSections` section by section, with exceptions section by section, and
  `MCWorkspace`, which states them, has the one RECURSIVE operator (`Before`), which
  the prover does not take.
* The type invariants of `Requests` and `Workspace` are written down as documentation;
  what of them the arguments need is in `IsSession` and `Types`, which are proved.
* `RefinementCorrect` and `AttendedCorrect` do not extend to faults, for the reasons
  above; what holds under faults is `IInv`.

## 6. What the models showed

Three disagreements with comments of the code are runs of their own:

* `unlock_all`: `clear_locks` on every `worker_ready` lets two executors walk one
  root; one takes a successful task out of focus, the other finds nothing in
  focus and reports success with a task still PENDING (`celery_app.py:87`,
  against `workflow_models.py:243`). Two messages of one root need no more than
  services that restart with a root's message still queued. That the two executors
  change over between the commits at `workflow_tasks.py:153` and 98 needs either a
  second initiator process or, among the ten greenlets of one, one that waits
  for a connection of the pool of five.
* `lost_poll`: the delay of a poll is dropped while the lock of the one before is
  held, and the task is never declared (`workflow_tasks.py:148`, against
  `workflow_models.py:535`). It needs no fault: `celery_singleton` lets go of the
  lock after the function has returned, and the executor may read the commit
  before that.
* `workspace_verdict`: the verdict takes everything that has not failed and is not
  ON_HOLD for success, READY roots that cannot start included
  (`workspace_tasks.py:115`, against `workflow_models.py:70`).

The others are the exceptions of the MC modules and the excuses in the properties.
Where the code already goes wrong, the property that names the hazard leaves the
case out and watches the rest: such a hazard in `PROJECT.json` carries a note that says
so, and is not claimed to be covered.

### Workflow engine

An executor that raises completes the root with failure while its tasks run on
(`workflow_tasks_base.py:23`). A crash between a commit and the `delay()` or the
release of callbacks leaves the root INITIATED, or the callbacks ON_HOLD, for
ever.

### Workspaces

* The workspace stays INITIATED for ever: the manager commits INITIATED, its
  `delay()` is dropped because the executor before has cleared `executor_running`
  but still holds its lock, and INITIATED is not in the manager's query
  (`workspace_tasks.py:33-37`). `WorkspaceSettles` excuses it as `overlapped`: it
  takes a request that meets the end of a pass.
* provision-roots reads a status and sets READY in a later statement
  (`workspaces/api.py:129`): a successful root runs again. Setting the workspace
  PENDING (135) may be overwritten by a verdict: a lost request. A restore's loop
  makes the workspace PENDING at its first root (`workflow_models.py:427`,
  `restores/api.py:160-167`) and may get a verdict before its last.
* `Hasty`: attachments, clusters of a new workspace and disaster recovery roots
  are stored PENDING before `add_next_root` makes them ON_HOLD; a VPC that a PATCH
  adds stays PENDING and is provisioned at once.
* `Unordered`: a load balancer does not wait for its instances, a floating IP for
  an instance whose subnet is outside the request, a group of an update for one
  it names when two name the same.
* `Entangled`: rules that name the group itself or one another make an edge to
  itself or a cycle.
* The success of a workspace does not last (`VerdictIsSound` is about the step that
  declares it): a PATCH that raises after a success leaves the roots it has
  committed ON_HOLD in a workspace that says COMPLETED_SUCCESSFULLY, because only
  the end of the request sets ON_HOLD_WITH_SUCCESS (`workspaces/utils.py:1473`).
* `AtOnce`: a VPC that a PATCH adds stays PENDING and is not in focus; the executor
  does not count it, and the workspace may succeed while it is being created.
* `Retried`: an instance that has failed stays in focus. A PATCH holds it again
  behind a new root, and once provisioned it is READY and in the list of every walk
  from the start. A walk that passes it before the new root has ended, and counts
  nothing else, acknowledges that root and does not append the instance, which is
  in the list (`workspace_tasks.py:104`): the workspace succeeds and the instance is
  never created. It takes a third root that the walk acknowledges in between.
* `Omitted`: subnets of a VPC outside the request without prefixes, new resources
  of an existing VPC and new instances in a PATCH are not composed, or composed
  and deleted as stale by the same request, as are the roots of instances that
  were successful; clusters are looked up under another key and composed again by
  every PATCH; duplicate edges make the deletion of a stale root fail
  (`workspaces/utils.py:1469` has a TODO).
* A PATCH that deletes a root under an executor leaves `executor_running` and the
  lock set (`workspace_tasks.py:40`). A missing placement group is a KeyError, an
  attachment to nothing a NameError that leaves a PENDING root outside any
  workspace.

### Resource tasks

* `LeavesRunning`: a status no branch names (`volume_attachment_tasks.py:200`,
  pool members, start and stop), a write to a task that belongs to no session
  (deletions of VPN connections and dedicated hosts, SoftLayer imports), a verdict
  that is not committed (image conversion, export, on-premises backup,
  `delete_volume_attached_snapshots`, which MAPPER gives as a bare function), no
  verdict at all (`update_vpc_metadata...`, managers and policies of instance
  groups).
* `RevisesVerdict`: FAILED is committed and the function goes on (a missing parent
  of an ACL, IKE or IPsec policy, VPN gateway, image), to delete the row and
  commit SUCCESSFUL in `ipsec_policy_tasks.py:175`.
* `RecordsFailure`: an else that declares success (`ibm_instance_tasks.py:244`).
* `FalseAlarms`: `detach_target_to_security_group` always raises
  (`security_group_tasks.py:521`); an endpoint gateway that is stable at once, a
  bucket that is gone, are failures.
* `PollsForEver`: any status is progress (`transit_gateways_tasks.py:404`), a
  backup without an end, and what is left RUNNING_WAIT by an unnamed status.
* `Unlogged`: load balancers, instance groups and their parts tell discovery
  nothing, so a list from before the change undoes it.
* A DELETE of a dedicated host has its WAIT function under another key
  (`tasks_mapper.py:696`).

### Requests and schedulers

* `ComposesUnknown`: `detach_ibm_subnet_target` composes a kind MAPPER does not
  have; so do stale backups (`DELETE_BACKUP`) and backups of clusters (`IKS`) of
  the scheduler. Stale backups are never deleted though
  `schedule_backup_tasks.py:16` says it "keeps only the number specified in
  backup_count"; cluster backups fail every minute anew.
* `ComposesLate`: tasks added to a root that is committed and may be done never
  run (ACL with subnets, VPN gateway with connections, group with rules, instance
  group, object storages, idle resources); of several snapshots only the last
  releases the update of the metadata, and a callback added after the commit of
  its parent may never be released.
* `ChecksLate`: a check, or an exception, after a commit
  (`acls/api.py:46-62`, `softlayer/accounts/api.py:131-172`,
  `common/utils.py:157-163`, `idle_resources/api.py:55-82`). For the expiry manager
  a refused VPC ends the pass for the others, and what is refused today is
  composed again in a minute.
* VPN connections are composed twice, a volume is deleted in place of its
  snapshots (`snapshots/api.py:155`), idle load balancers call the task itself.

### Discovery

* `Unsettled`: dedicated hosts are looked up by region only
  (`discovery/tasks/dedicated_host_tasks.py:231`); keys of instances and prefix
  filters keep the rows of an empty list; listeners are pruned against the part of
  the ids read so far.
* Bucket tasks log with a region where discovery asks for entries without one
  (`cos_tasks.py`, `discovery/common/utils.py:9-13`), VPN connections ask for
  entries of IKE policies, thirteen functions ask for none: what tasks do to these
  is undone by an older list until the next.
* An entry has the time of the start of its minute (`resource_log_models.py:34`)
  and is compared with an exact time: a change in the minute of the list is missed.
  Of two entries of one minute the query may return the earlier
  (`discovery/common/utils.py:11-16`). That is why a change counts as told only when
  its entry is newer to the comparison and no other of its minute contradicts it.
* One exception ends the region's pass, which starves the later kinds
  (`discovery_tasks.py:340`); the lock of the executor expires after an hour.

### Image conversion

* Two creations that overlap make two machines, one known
  (`image_conversion_tasks.py:97`); so does a crash between creation and commit
  (111). A row DELETE_PENDING without `softlayer_id` never goes by way of the
  overseer (124).
* A later poll makes a FAILED task RUNNING (182); the clean-up makes it SUCCESSFUL
  without looking (324); the webhook takes any step in any state
  (`images/api.py:245`); a repeated message, or a retry after an SSH error that came
  late, starts two scripts (276).
* `created_at` has a default that is evaluated at import
  (`image_conversion_models.py:46`): after two days of uptime every new row is old
  at birth, and its machine is taken from a running conversion. `DeletesWhenOver`
  excuses this by name (`overdue`).

## 7. Not modelled, and why

* *Workflow retention* (`workflows_delete_task`): it deletes roots more than two
  hours old, running ones included. Without time it may delete every root at any
  moment and no property of the engine is left; with time the model is about the
  clock. What it does to a task under a worker is in `ResourceTask` (`Janitor`).
* *Times of backups*: `next_backup_scheduled_at`, the number of stale backups, and
  the in-progress check by workflow name. One pass of the scheduler is modelled.
* *Cloud accounts*: `delete_cloud` and `sync_ibm_clouds_with_mangos` are calls to
  an external service and cascades of deletions.
* *Discovery of what has no list of its own*: default ACLs and groups, default
  pools, kube configs, idle resources, costs; load balancer profiles and the
  catalog, which have no log.
* *Reports*: cost, consumption, tags, recommendations beyond the protocol of
  their tasks. *Translation* of JSON layouts. Clients, models, schemas, listing,
  authentication, migrations and deployment: no state of their own.
* Throughout: time stamps, messages and names; the branches for a MAPPER entry
  that is `None` (there is none); the JSON copy of the parent root. In `Workflow`
  callback roots are those that exist when their parent is created; roots of a
  workspace are in `Workspace`.

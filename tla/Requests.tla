------------------------------ MODULE Requests ------------------------------
(***************************************************************************)
(* One request of the web API and the workflow it composes, together with  *)
(* the executor that runs what has been committed of it.                   *)
(*                                                                         *)
(* The request runs its script on a session (view); a commit makes the     *)
(* roots that were added to the session, with their tasks, and the rows it *)
(* has written the committed state (db).  The executor knows db only, and  *)
(* may be done with a root before the request commits the rest of it.      *)
(*                                                                         *)
(* One step of the executor is a whole pass over a root; what happens      *)
(* inside a pass is the matter of Workflow, and what happens inside a task *)
(* that of ResourceTask.                                                   *)
(***************************************************************************)
EXTENDS Naturals, Sequences, FiniteSetsExt, RequestScript

CONSTANTS
  Table,      \* function that serves a request -> its script
  Mapper,     \* the <<task_type, resource_type>> that MAPPER has a function for
  MaxTasks    \* function -> a loop composes no further task once there are so many

ASSUME MaxTasksAssumption == MaxTasks \in [DOMAIN Table -> Nat \ {0}]

VARIABLES
  request,    \* the function
  todo,       \* what it has still to do
  view,       \* roots, tasks and edges as the session holds them
  db,         \* what is committed of them
  answer,     \* what the client is told
  statuses,   \* the executor's: task -> status, for the committed tasks
  verdicts,   \* root -> status, for the committed roots
  focus       \* the tasks in focus

vars == <<request, todo, view, db, answer, statuses, verdicts, focus>>

\* A root is its variable, its type and its parent, 0 for none; a task is its
\* variable, its kind and its root.  "added" roots belong to the session.
Nothing == [roots |-> <<>>, tasks |-> <<>>, edges |-> {}, added |-> 0, rows |-> FALSE]

TaskStatuses == {"PENDING", "RUNNING", "SUCCESSFUL", "FAILED"}
RootStatuses == {"ON_HOLD", "PENDING", "RUNNING", "COMPLETED_SUCCESSFULLY",
                 "COMPLETED_WITH_FAILURE", "deleted"}

TypeOK ==
  /\ answer \in {"none", "accepted", "refused", "error"}
  /\ view.added <= Len(view.roots)
  /\ \A t \in DOMAIN view.tasks : view.tasks[t].root \in DOMAIN view.roots
  /\ \A e \in view.edges : e[1] \in DOMAIN view.tasks /\ e[2] \in DOMAIN view.tasks
  /\ DOMAIN statuses = DOMAIN db.tasks /\ DOMAIN verdicts = DOMAIN db.roots
  /\ \A t \in DOMAIN statuses : statuses[t] \in TaskStatuses
  /\ \A r \in DOMAIN verdicts : verdicts[r] \in RootStatuses
  /\ focus \subseteq DOMAIN statuses

Init ==
  /\ request \in DOMAIN Table /\ todo = Table[request]
  /\ view = Nothing /\ db = Nothing /\ answer = "none"
  /\ statuses = <<>> /\ verdicts = <<>> /\ focus = {}

----------------------------------------------------------------------------
\* The request.

Idle == todo = <<>>
Now(ops) == ~Idle /\ Head(todo).op \in ops
Name == Head(todo).var
Detail == Head(todo).of
Rest == Tail(todo)

ExecutorUnchanged == UNCHANGED <<statuses, verdicts, focus>>

\* The script used up, the client is told that its request was accepted.
GoOn(script) ==
  /\ todo' = script
  /\ answer' = IF script = <<>> THEN "accepted" ELSE answer
  /\ UNCHANGED <<request, db>> /\ ExecutorUnchanged

\* Mutant: the session is committed, and then dropped.
Stop_saving(reason) ==
  /\ todo' = <<>> /\ answer' = reason /\ db' = view
  /\ UNCHANGED <<request, view>> /\ ExecutorUnchanged
\* The session is dropped.
Stop(reason) ==
  /\ todo' = <<>> /\ answer' = reason /\ view' = db
  /\ UNCHANGED <<request, db>> /\ ExecutorUnchanged

\* The task, and the root, that a variable holds: the last one bound to it.
TasksOf(name) == {t \in DOMAIN view.tasks : view.tasks[t].var = name}
TaskOf(name) == Max(TasksOf(name))
RootsOf(name) == {r \in DOMAIN view.roots : view.roots[r].var = name}

CheckRequest ==
  /\ Now({"Check"})
  /\ (GoOn(Rest) /\ UNCHANGED view) \/ Stop("refused")

AnswerAtOnce ==
  /\ Now({"Answers"})
  /\ (GoOn(Rest) /\ UNCHANGED view) \/ Stop("accepted")

RaiseInRequest == Now({"Raise"}) /\ Stop("error")

Branch ==
  /\ Now({"When"}) /\ UNCHANGED view
  /\ GoOn(Head(todo).body \o Rest) \/ GoOn(Head(todo).other \o Rest)

Loop ==
  /\ Now({"Each"}) /\ UNCHANGED view
  /\ \/ GoOn(Rest)
     \/ Len(view.tasks) < MaxTasks[request] /\ GoOn(Head(todo).body \o todo)

NewRoot(type) == [var |-> Name, type |-> type, parent |-> 0]

ComposeRoot ==
  \/ /\ Now({"Root"}) /\ GoOn(Rest)
     /\ view' = [view EXCEPT !.roots = Append(@, NewRoot("NORMAL"))]
  \/ /\ Now({"OnSuccess"}) /\ GoOn(Rest)
     /\ view' = [view EXCEPT !.roots = Append(@, NewRoot("ON_SUCCESS"))]
  \/ /\ Now({"OnComplete"}) /\ GoOn(Rest)
     /\ view' = [view EXCEPT !.roots = Append(@, NewRoot("ON_COMPLETE"))]

\* Each root has one parent: the last that was given to it.
AddCallbackRoot ==
  /\ Now({"AddCallback"}) /\ GoOn(Rest)
  /\ view' = IF RootsOf(Detail) = {} THEN view
             ELSE [view EXCEPT !.roots[Max(RootsOf(Name))].parent = Max(RootsOf(Detail))]

\* Mutant: the type of the task and that of its resource change places.
AddTask_swapped(name, pair, root, edges) ==
  view' = [view EXCEPT !.tasks = Append(@, [var |-> name, kind |-> <<pair[2], pair[1]>>,
                                             root |-> root]),
                       !.edges = @ \cup edges]
\* A new task of the given root, with edges to and from it.
AddTask(name, pair, root, edges) ==
  view' = [view EXCEPT !.tasks = Append(@, [var |-> name, kind |-> pair, root |-> root]),
                       !.edges = @ \cup edges]

ComposeTask ==
  LET New == Len(view.tasks) + 1
      Other == TaskOf(Detail[1])
  IN  \/ /\ Now({"First"}) /\ GoOn(Rest)
         /\ AddTask(Name, Detail, Len(view.roots), {})
      \/ /\ Now({"After"}) /\ GoOn(Rest)
         /\ AddTask(Name, Detail[2], view.tasks[Other].root, {<<Other, New>>})
      \/ /\ Now({"Before"}) /\ GoOn(Rest)
         /\ AddTask(Name, Detail[2], view.tasks[Other].root, {<<New, Other>>})
      \/ /\ Now({"Link"}) /\ GoOn(Rest)
         /\ view' = [view EXCEPT !.edges = @ \cup {<<TaskOf(Detail), TaskOf(Name)>>}]

WriteRow == Now({"Write"}) /\ GoOn(Rest) /\ view' = [view EXCEPT !.rows = TRUE]

\* Whatever hangs on what was added is added with it.
AddToSession ==
  /\ Now({"Add"}) /\ GoOn(Rest)
  /\ view' = [view EXCEPT !.added = Len(view.roots)]

\* Roots are composed one after the other, so that what belongs to the session
\* comes first.
Added(t) == view.tasks[t].root <= view.added
Stored ==
  [view EXCEPT !.roots = SubSeq(@, 1, view.added),
               !.tasks = Restrict(@, {t \in DOMAIN view.tasks : Added(t)}),
               !.edges = {e \in @ : Added(e[1])}]

CommitRequest ==
  /\ Now({"Commit"})
  /\ todo' = Rest /\ answer' = IF Rest = <<>> THEN "accepted" ELSE answer
  /\ db' = Stored
  /\ statuses' = [t \in DOMAIN Stored.tasks |->
                    IF t \in DOMAIN statuses THEN statuses[t] ELSE "PENDING"]
  /\ verdicts' = [r \in DOMAIN Stored.roots |->
                    IF r \in DOMAIN verdicts THEN verdicts[r]
                    ELSE IF Stored.roots[r].type = "NORMAL" THEN "PENDING" ELSE "ON_HOLD"]
  /\ UNCHANGED <<request, view, focus>>

Serve ==
  \/ CheckRequest \/ AnswerAtOnce \/ RaiseInRequest \/ Branch \/ Loop
  \/ ComposeRoot \/ AddCallbackRoot \/ ComposeTask
  \/ WriteRow \/ AddToSession \/ CommitRequest

----------------------------------------------------------------------------
\* The executor.

TasksIn(r) == {t \in DOMAIN db.tasks : db.tasks[t].root = r}
Before1(t) == {e[1] : e \in {e \in db.edges : e[2] = t}}
Nexts(t) == {e[2] : e \in {e \in db.edges : e[1] = t}}

\* A task that MAPPER does not know fails at once.
Started(t) == IF db.tasks[t].kind \in Mapper THEN "RUNNING" ELSE "FAILED"
Start(tasks) == [t \in DOMAIN statuses |-> IF t \in tasks THEN Started(t) ELSE statuses[t]]

RequestUnchanged == UNCHANGED <<request, todo, view, db, answer>>

\* The first group of a root that is due: its tasks without predecessors.
Launch(r) ==
  /\ verdicts[r] = "PENDING"
  /\ verdicts' = [verdicts EXCEPT ![r] = "RUNNING"]
  /\ LET first == {t \in TasksIn(r) : Before1(t) = {}}
     IN  statuses' = Start(first) /\ focus' = focus \cup first
  /\ RequestUnchanged

Finish(t) ==
  /\ statuses[t] = "RUNNING"
  /\ \E status \in {"SUCCESSFUL", "FAILED"} : statuses' = [statuses EXCEPT ![t] = status]
  /\ UNCHANGED <<verdicts, focus>> /\ RequestUnchanged

\* Mutant: one predecessor is enough.
Ready_any(t) == statuses[t] = "PENDING" /\ \E p \in Before1(t) : statuses[p] = "SUCCESSFUL"
Ready(t) == statuses[t] = "PENDING" /\ \A p \in Before1(t) : statuses[p] = "SUCCESSFUL"

\* Mutant: the callbacks stay on hold.
Called_never(r, verdict) == [verdicts EXCEPT ![r] = verdict]
\* The callbacks of a root that has its verdict: those of type ON_SUCCESS are
\* deleted after a failure, the others are due.
Called(r, verdict) ==
  [c \in DOMAIN verdicts |->
     IF c = r THEN verdict
     ELSE IF db.roots[c].parent # r THEN verdicts[c]
     ELSE IF verdict = "COMPLETED_WITH_FAILURE" /\ db.roots[c].type = "ON_SUCCESS" THEN "deleted"
     ELSE IF verdicts[c] = "ON_HOLD" THEN "PENDING" ELSE verdicts[c]]

\* A pass over a running root: tasks that succeeded leave the focus, and those
\* they were awaited by start.
Execute(r) ==
  LET done == {t \in focus \cap TasksIn(r) : statuses[t] = "SUCCESSFUL"}
      next == {t \in UNION {Nexts(d) : d \in done} : Ready(t)}
      after == Start(next)
  IN  /\ verdicts[r] = "RUNNING"
      /\ statuses' = after
      /\ focus' = (focus \ done) \cup next
      /\ IF \E t \in focus' \cap TasksIn(r) : after[t] = "RUNNING"
         THEN done # {} /\ UNCHANGED verdicts
         ELSE verdicts' = Called(r, IF \E t \in TasksIn(r) : after[t] = "FAILED"
                                    THEN "COMPLETED_WITH_FAILURE"
                                    ELSE "COMPLETED_SUCCESSFULLY")
      /\ RequestUnchanged

Executor ==
  \/ \E r \in DOMAIN verdicts : Launch(r) \/ Execute(r)
  \/ \E t \in DOMAIN statuses : Finish(t)

Next == Serve \/ Executor

Spec == Init /\ [][Next]_vars /\ WF_vars(Serve) /\ WF_vars(Executor)

----------------------------------------------------------------------------
\* What a request promises.

\* A workflow that is reported successful has run all that its request composed,
\* what follows its success included.
AllRan ==
  \A r \in DOMAIN verdicts : verdicts[r] = "COMPLETED_SUCCESSFULLY" =>
    /\ \A t \in TasksIn(r) : statuses[t] = "SUCCESSFUL"
    /\ \A c \in DOMAIN verdicts : db.roots[c].parent = r => verdicts[c] # "ON_HOLD"

\* A client that is told that its request was refused has changed nothing.
NothingDone == db.roots = <<>> /\ ~db.rows

\* The pairs <<kind, earlier>> of tasks of one root of which the first starts
\* only when all of the second are SUCCESSFUL.
Starts(t) == t \in DOMAIN statuses /\ statuses[t] = "PENDING" /\ statuses'[t] = "RUNNING"
InOrder(pairs) ==
  \A t, u \in DOMAIN db.tasks :
    /\ Starts(t) /\ db.tasks[u].root = db.tasks[t].root
    /\ <<db.tasks[t].kind, db.tasks[u].kind>> \in pairs
    => statuses[u] = "SUCCESSFUL"

\* A task of one of the kinds starts when all the rest of its root is SUCCESSFUL.
AfterAllElse(kinds) ==
  \A t, u \in DOMAIN db.tasks :
    /\ Starts(t) /\ db.tasks[t].kind \in kinds
    /\ u # t /\ db.tasks[u].root = db.tasks[t].root
    => statuses[u] = "SUCCESSFUL"
=============================================================================

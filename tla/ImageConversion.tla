-------------------------- MODULE ImageConversion --------------------------
(***************************************************************************)
(* One image conversion task, the rows of the instances made for it, their *)
(* machines at SoftLayer, and the scripts that convert the image there and *)
(* report to a webhook.                                                    *)
(*                                                                         *)
(* Three scheduled functions look at the rows: the distributor pairs tasks *)
(* with instances, the overseer sends what creates, polls and deletes      *)
(* machines, the executor what starts and cleans up conversions.  All of   *)
(* it runs in ten greenlets of one worker, nothing keeps two calls for one *)
(* row apart, and a call that waits for the provider or for SSH goes on    *)
(* with what it has read before.  The database driver is not cooperative:  *)
(* what a call does between two waits is one step, the distributor's and   *)
(* the overseer's work on a row too.                                       *)
(*                                                                         *)
(* A step of a call ends where it waits: a read, the provider's answer, a  *)
(* commit.  Calls on instances check the row's status when they start, so  *)
(* their messages are not modelled; those on the task do not, and are.     *)
(***************************************************************************)
EXTENDS Naturals, FiniteSets

CONSTANTS
  Instances,  \* rows of image_conversion_instances, in the order of their use
  Machines,   \* at SoftLayer, likewise
  Greenlets,  \* of the worker
  Scripts,    \* that run at once, in the order of their use
  Stages,     \* of a script, the last one uploads the image
  Retries,    \* ImageConversionTask.retries
  MaxCalls,   \* messages that wait
  None        \* nothing

ASSUME ConversionAssumption ==
  /\ Instances \subseteq Nat /\ Machines \subseteq Nat /\ Scripts \subseteq Nat
  /\ Greenlets \subseteq Nat /\ Stages \in Nat \ {0}
  /\ Retries \in Nat /\ MaxCalls \in Nat
  /\ None \notin Instances \cup Machines

VARIABLES
  task,      \* the row of the task
  rows,      \* the rows of instances
  machines,  \* the machines
  scripts,   \* the scripts
  calls,     \* what every greenlet does
  waiting,   \* calls on the task that wait in the queue
  history    \* what the properties remember: rows deleted because of their age,
             \* whether the task has ever ended, whether a script has uploaded it

vars == <<task, rows, machines, scripts, calls, waiting, history>>

Steps == {"PENDING_PROCESS_START", "FILES_UPLOADING", "FILES_UPLOADING_RETRY",
          "IMAGE_DOWNLOADING", "IMAGE_DOWNLOADING_RETRY", "IMAGE_CONVERTING",
          "PENDING_CLEANUP", "CLEANING_UP",
          "PROCESS_COMPLETED"}
Ended == {"SUCCESSFUL", "FAILED"}

Idle == [doing |-> "nothing", row |-> None, machine |-> None, seen |-> None]
NoScript == [row |-> None, machine |-> None, at |-> 0, posts |-> "nothing"]
Absent == [status |-> "none", machine |-> None, address |-> None]

Statuses == {"CREATED", "RUNNING"} \cup Ended
Tasks == [status : Statuses, step : Steps, instance : Instances \cup {None},
          retries : 0..Retries]
Sights == [status : Statuses, step : Steps \cup {None}, retries : (0..Retries) \cup {None}]

OnInstances == {"create", "created", "poll", "delete", "deleted", "confirm"}
OnTask == {"connect", "upload", "download", "clean"}

Rows == [status : {"none", "CREATE_PENDING", "CREATING", "ACTIVE", "DELETE_PENDING",
                   "DELETING", "gone"},
         machine : Machines \cup {None}, address : Machines \cup {None}]
Processes == [row : Instances \cup {None}, machine : Machines \cup {None},
              at : 0..Stages, posts : {"nothing", "SUCCESSFUL", "FAILED"}]
Calls == [doing : {"nothing"} \cup OnInstances \cup OnTask,
          row : Instances \cup {None}, machine : Machines \cup {None},
          seen : Sights \cup {None}]
Whole == [status : Statuses, step : Steps, retries : 0..Retries]

\* A call on the task has read all of it.
TypeOK ==
  /\ task \in Tasks
  /\ rows \in [Instances -> Rows]
  /\ machines \in [Machines -> {"none", "up", "gone"}]
  /\ scripts \in [Scripts -> Processes]
  /\ calls \in [Greenlets -> Calls]
  /\ \A g \in Greenlets : /\ calls[g].doing \in OnInstances => calls[g].row \in Instances
                          /\ calls[g].doing \in OnTask => calls[g].seen \in Whole
  /\ waiting \in [{"initiate", "janitor"} -> 0..MaxCalls]
  /\ history \in [overdue : SUBSET Instances, ended : BOOLEAN, uploaded : BOOLEAN]

Init ==
  /\ task = [status |-> "CREATED", step |-> "PENDING_PROCESS_START", instance |-> None,
             retries |-> Retries]
  /\ rows = [i \in Instances |-> Absent]
  /\ machines = [m \in Machines |-> "none"]
  /\ scripts = [s \in Scripts |-> NoScript]
  /\ calls = [g \in Greenlets |-> Idle]
  /\ waiting = [fn \in {"initiate", "janitor"} |-> 0]
  /\ history = [overdue |-> {}, ended |-> FALSE, uploaded |-> FALSE]

----------------------------------------------------------------------------
\* Greenlets.

\* Greenlets are alike: the first one that is free takes a call.
Free(g) ==
  /\ calls[g].doing = "nothing"
  /\ \A h \in Greenlets : calls[h].doing = "nothing" => g <= h

Call(g, doing, i, m, seen) ==
  calls' = [calls EXCEPT ![g] = [doing |-> doing, row |-> i, machine |-> m, seen |-> seen]]
GoesOn(g, doing) == calls' = [calls EXCEPT ![g].doing = doing]
Ends(g) == calls' = [calls EXCEPT ![g] = Idle]
Doing(g, what) == calls[g].doing = what

First(set) == {x \in set : \A y \in set : x <= y}
Exists(i) == rows[i].status \notin {"none", "gone"}

\* A row that has gone cannot be written: the commit raises.
Write(i, row) == rows' = IF Exists(i) THEN [rows EXCEPT ![i] = row] ELSE rows

\* The row goes, and the task that refers to it forgets it.
Remove(i) ==
  /\ rows' = [rows EXCEPT ![i] = [Absent EXCEPT !.status = "gone"]]
  /\ task' = IF task.instance = i THEN [task EXCEPT !.instance = None] ELSE task

\* The columns of the task that a call reads: those that it may write.
Sight(row) == [status |-> row.status, step |-> row.step, retries |-> row.retries]
StatusOfTask(i) ==
  IF task.instance = i THEN [status |-> task.status, step |-> None, retries |-> None] ELSE None

\* What the call makes of them: those that it changes are written, over whatever
\* they are by now.
Commit(seen, made, now) == IF made = seen THEN now ELSE made

Save(g, made) ==
  LET seen == calls[g].seen IN
  task' = [task EXCEPT !.status = Commit(seen.status, made.status, task.status),
                       !.step = Commit(seen.step, made.step, task.step),
                       !.retries = Commit(seen.retries, made.retries, task.retries)]

Remember == history' = [history EXCEPT !.ended = @ \/ task'.status \in Ended]

SetTask(g, status) ==
  IF calls[g].seen = None THEN UNCHANGED task
  ELSE Save(g, [calls[g].seen EXCEPT !.status = status])

----------------------------------------------------------------------------
\* image_conversion_task_distributor

\* Mutant: a task that is running does not keep its instance.
InstanceIsDone_early(i) == task.instance = i => task.status # "CREATED"
InstanceIsDone(i) == task.instance = i => task.status \in Ended

RetireInstance(i) ==
  /\ rows[i].status = "ACTIVE" /\ InstanceIsDone(i)
  /\ rows' = [rows EXCEPT ![i].status = "DELETE_PENDING"]
  /\ task' = IF task.instance = i THEN [task EXCEPT !.instance = None] ELSE task
  /\ UNCHANGED <<machines, scripts, calls, waiting, history>>

AssignInstance ==
  /\ task.status = "CREATED" /\ task.instance = None
  /\ \E i \in First({j \in Instances : rows[j].status = "none"}) :
       /\ rows' = [rows EXCEPT ![i].status = "CREATE_PENDING"]
       /\ task' = [task EXCEPT !.instance = i]
  /\ UNCHANGED <<machines, scripts, calls, waiting, history>>

----------------------------------------------------------------------------
\* image_conversion_instances_overseer, and the calls it sends.

Starts(g, i, doing, seen) ==
  /\ Free(g)
  /\ Call(g, doing, i, rows[i].machine, seen)
  /\ UNCHANGED <<task, rows, machines, scripts, waiting, history>>

\* Mutant: an instance that is being built is never too old.
DeleteResidue_built(i) ==
  /\ rows[i].status \in {"CREATE_PENDING", "ACTIVE", "DELETING"}
  /\ rows' = [rows EXCEPT ![i].status = "DELETE_PENDING"]
  /\ history' = [history EXCEPT !.overdue = @ \cup {i}]
  /\ UNCHANGED <<task, machines, scripts, calls, waiting>>
\* created_at < now - two days, whatever the instance does.  Any row may be that
\* old: until its machine is up created_at is the time when the worker came up.
DeleteResidue(i) ==
  /\ Exists(i) /\ rows[i].status # "DELETE_PENDING"
  /\ rows' = [rows EXCEPT ![i].status = "DELETE_PENDING"]
  /\ history' = [history EXCEPT !.overdue = @ \cup {i}]
  /\ UNCHANGED <<task, machines, scripts, calls, waiting>>

initiate_pending_instance_creation(g, i) ==
  /\ rows[i].status = "CREATE_PENDING" /\ rows[i].machine = None
  /\ Starts(g, i, "create", StatusOfTask(i))

CreateMachine(g) ==
  /\ Doing(g, "create")
  /\ \E m \in First({n \in Machines : machines[n] = "none"}) :
       /\ machines' = [machines EXCEPT ![m] = "up"]
       /\ calls' = [calls EXCEPT ![g].machine = m, ![g].doing = "created"]
  /\ UNCHANGED <<task, rows, scripts, waiting, history>>

CreationRefused(g) ==
  /\ Doing(g, "create")
  /\ SetTask(g, "FAILED") /\ Ends(g)
  /\ Remember
  /\ UNCHANGED <<rows, machines, scripts, waiting>>

RecordMachine(g) ==
  /\ Doing(g, "created")
  /\ LET i == calls[g].row IN
     Write(i, [rows[i] EXCEPT !.machine = calls[g].machine, !.status = "CREATING"])
  /\ Ends(g)
  /\ UNCHANGED <<task, machines, scripts, waiting, history>>

get_update_creating_instance(g, i) ==
  /\ rows[i].status = "CREATING" /\ rows[i].machine # None
  /\ Starts(g, i, "poll", StatusOfTask(i))

\* An instance that is up makes its task RUNNING, whatever the task was.
PollAnswered(g) ==
  /\ Doing(g, "poll")
  /\ LET i == calls[g].row IN
     \/ /\ machines[calls[g].machine] = "up"
        /\ IF Exists(i)
           THEN /\ rows' = [rows EXCEPT ![i].status = "ACTIVE",
                                     ![i].address = calls[g].machine]
                /\ SetTask(g, "RUNNING")
           ELSE UNCHANGED <<rows, task>>
     \/ machines[calls[g].machine] # "gone" /\ UNCHANGED <<rows, task>>
     \/ SetTask(g, "FAILED") /\ UNCHANGED rows
  /\ Ends(g)
  /\ Remember
  /\ UNCHANGED <<machines, scripts, waiting>>

initiate_pending_instance_deletion(g, i) ==
  /\ rows[i].status = "DELETE_PENDING" /\ rows[i].machine # None
  /\ Starts(g, i, "delete", None)

\* What runs on a machine dies with it.
Running(m) == {s \in Scripts : scripts[s].machine = m}

DeleteMachine(g) ==
  /\ Doing(g, "delete")
  /\ LET i == calls[g].row
         m == calls[g].machine IN
     \/ /\ machines[m] = "gone"
        /\ IF Exists(i) THEN Remove(i) ELSE UNCHANGED <<rows, task>>
        /\ Ends(g)
        /\ UNCHANGED <<machines, scripts>>
     \/ /\ machines[m] = "up"
        /\ machines' = [machines EXCEPT ![m] = "gone"]
        /\ scripts' = [s \in Scripts |-> IF s \in Running(m) THEN NoScript ELSE scripts[s]]
        /\ GoesOn(g, "deleted")
        /\ UNCHANGED <<rows, task>>
  /\ UNCHANGED <<waiting, history>>

RecordDeletion(g) ==
  /\ Doing(g, "deleted")
  /\ LET i == calls[g].row IN Write(i, [rows[i] EXCEPT !.status = "DELETING"])
  /\ Ends(g)
  /\ UNCHANGED <<task, machines, scripts, waiting, history>>

get_delete_deleting_instance(g, i) ==
  /\ rows[i].status = "DELETING" /\ rows[i].machine # None
  /\ Starts(g, i, "confirm", None)

ConfirmDeletion(g) ==
  /\ Doing(g, "confirm")
  /\ LET i == calls[g].row IN
     IF machines[calls[g].machine] = "gone" /\ Exists(i)
     THEN Remove(i) ELSE UNCHANGED <<rows, task>>
  /\ Ends(g)
  /\ UNCHANGED <<machines, scripts, waiting, history>>

\* SoftLayer refuses, and the row is left as it is.
ProviderRefuses(g) ==
  /\ calls[g].doing \in {"delete", "confirm"}
  /\ Ends(g)
  /\ UNCHANGED <<task, rows, machines, scripts, waiting, history>>

----------------------------------------------------------------------------
\* image_conversion_pending_task_executor, and the calls it sends.

image_conversion_pending_task_executor(fn) ==
  /\ task.status = "RUNNING"
  /\ task.step \in CASE fn = "initiate" -> {"PENDING_PROCESS_START", "FILES_UPLOADING_RETRY",
                                            "IMAGE_DOWNLOADING_RETRY"}
                     [] fn = "janitor"  -> {"PENDING_CLEANUP"}
  /\ waiting["initiate"] + waiting["janitor"] < MaxCalls
  /\ waiting' = [waiting EXCEPT ![fn] = @ + 1]
  /\ UNCHANGED <<task, rows, machines, scripts, calls, history>>

Receive(g, fn) ==
  /\ Free(g) /\ waiting[fn] > 0
  /\ waiting' = [waiting EXCEPT ![fn] = @ - 1]

\* Neither the status nor the step that it was sent for is looked at again.  The
\* bucket may have gone.
initiate_image_conversion(g) ==
  /\ Receive(g, "initiate")
  /\ \/ UNCHANGED calls
     \/ /\ task.instance # None
        /\ Call(g, "connect", task.instance, rows[task.instance].address, Sight(task))
  /\ UNCHANGED <<task, rows, machines, scripts, history>>

Reached(g) == calls[g].machine # None /\ machines[calls[g].machine] = "up"

\* A commit, after which the task is read again.
StepTo(g, step, doing) ==
  /\ Save(g, [calls[g].seen EXCEPT !.step = step])
  /\ calls' = [calls EXCEPT ![g].doing = doing, ![g].seen = Sight(task')]

Connect(g) ==
  /\ Doing(g, "connect") /\ Reached(g)
  /\ IF calls[g].seen.step \in {"PENDING_PROCESS_START", "FILES_UPLOADING_RETRY"}
     THEN StepTo(g, "FILES_UPLOADING", "upload")
     ELSE StepTo(g, "IMAGE_DOWNLOADING", "download")
  /\ UNCHANGED <<rows, machines, scripts, waiting, history>>

Upload(g) ==
  /\ Doing(g, "upload") /\ Reached(g)
  /\ StepTo(g, "IMAGE_DOWNLOADING", "download")
  /\ UNCHANGED <<rows, machines, scripts, waiting, history>>

StartScript(g) ==
  /\ Doing(g, "download") /\ Reached(g)
  /\ \E s \in First({r \in Scripts : scripts[r].at = 0}) :
       scripts' = [scripts EXCEPT ![s] = [@ EXCEPT !.row = calls[g].row, !.at = 1,
                                                   !.machine = calls[g].machine]]

RunScript(g) ==
  /\ StartScript(g)
  /\ Ends(g)
  /\ UNCHANGED <<task, rows, machines, waiting, history>>

Retry(seen) ==
  [seen EXCEPT !.retries = @ - 1,
               !.step = CASE @ = "FILES_UPLOADING" -> "FILES_UPLOADING_RETRY"
                          [] @ = "IMAGE_DOWNLOADING" -> "IMAGE_DOWNLOADING_RETRY"
                          [] OTHER -> @]

\* Any exception: a retry from the step that the call has seen, or the end.  The
\* command may have been started.
SshFails(g) ==
  /\ calls[g].doing \in {"connect", "upload", "download"}
  /\ LET seen == calls[g].seen IN
     Save(g, IF seen.retries = 0 THEN [seen EXCEPT !.status = "FAILED"] ELSE Retry(seen))
  /\ UNCHANGED scripts \/ StartScript(g)
  /\ Ends(g)
  /\ Remember
  /\ UNCHANGED <<rows, machines, waiting>>

initiate_image_conversion_janitor(g) ==
  /\ Receive(g, "janitor")
  /\ IF task.instance = None THEN UNCHANGED <<task, calls>>
     ELSE /\ task' = [task EXCEPT !.step = "CLEANING_UP"]
          /\ Call(g, "clean", task.instance, rows[task.instance].address, Sight(task'))
  /\ UNCHANGED <<rows, machines, scripts, history>>

\* Cleaned up or not, the task is SUCCESSFUL.
CleanUp(g) ==
  /\ Doing(g, "clean")
  /\ \/ Reached(g) /\ Save(g, [calls[g].seen EXCEPT !.status = "SUCCESSFUL",
                                                    !.step = "PROCESS_COMPLETED"])
     \/ Save(g, [calls[g].seen EXCEPT !.status = "SUCCESSFUL"])
  /\ Ends(g)
  /\ Remember
  /\ UNCHANGED <<rows, machines, scripts, waiting>>

----------------------------------------------------------------------------
\* The scripts, and the webhook that they report to.

\* What ImageConversionManager does in a stage, its construction with the first
\* one, returns or raises.
Outcomes == {"SUCCESSFUL", "FAILED"}

\* One of "DOWNLOAD", "CONVERT", "VALIDATE" and "UPLOAD" is done, or has failed.
Convert(s) ==
  /\ scripts[s].at \in 1..Stages /\ scripts[s].posts = "nothing"
  /\ \E status \in Outcomes :
       /\ scripts' = [scripts EXCEPT ![s].posts = status]
       /\ history' = [history EXCEPT !.uploaded =
                        @ \/ (scripts[s].at = Stages /\ status = "SUCCESSFUL")]
  /\ UNCHANGED <<task, rows, machines, calls, waiting>>

\* "IMAGE_CONVERTING" stands for the steps that nothing waits for.
StepAfter(k) == IF k < Stages THEN "IMAGE_CONVERTING" ELSE "PENDING_CLEANUP"

\* Mutant: a stage that failed counts as done.
AfterReport_unchecked(s) == [task EXCEPT !.step = StepAfter(scripts[s].at)]
AfterReport(s) ==
  IF scripts[s].posts = "FAILED" THEN [task EXCEPT !.status = "FAILED"]
  ELSE [task EXCEPT !.step = StepAfter(scripts[s].at)]

Answered(script) ==
  IF script.posts = "FAILED" \/ script.at = Stages THEN NoScript
  ELSE [script EXCEPT !.at = @ + 1, !.posts = "nothing"]

\* The script reports until it is answered: what is answered may be reported again.
update_image_conversion_task(s) ==
  /\ scripts[s].posts # "nothing"
  /\ task' = AfterReport(s)
  /\ \/ UNCHANGED scripts
     \/ scripts' = [scripts EXCEPT ![s] = Answered(scripts[s])]
  /\ Remember
  /\ UNCHANGED <<rows, machines, calls, waiting>>

----------------------------------------------------------------------------
\* A crash of the worker.

Crash ==
  /\ \E g \in Greenlets : ~Doing(g, "nothing")
  /\ calls' = [g \in Greenlets |-> Idle]
  /\ UNCHANGED <<task, rows, machines, scripts, waiting, history>>

----------------------------------------------------------------------------

Begin(g, i) ==
  \/ initiate_pending_instance_creation(g, i) \/ get_update_creating_instance(g, i)
  \/ initiate_pending_instance_deletion(g, i) \/ get_delete_deleting_instance(g, i)

Proceed(g) ==
  \/ CreateMachine(g) \/ CreationRefused(g) \/ RecordMachine(g)
  \/ PollAnswered(g) \/ DeleteMachine(g) \/ RecordDeletion(g) \/ ConfirmDeletion(g)
  \/ Connect(g) \/ Upload(g) \/ RunScript(g) \/ SshFails(g) \/ CleanUp(g)

Next ==
  \/ \E g \in Greenlets :
       \/ Proceed(g) \/ ProviderRefuses(g)
       \/ initiate_image_conversion(g) \/ initiate_image_conversion_janitor(g)
       \/ \E i \in Instances : Begin(g, i)
  \/ AssignInstance
  \/ \E fn \in {"initiate", "janitor"} : image_conversion_pending_task_executor(fn)
  \/ \E i \in Instances : RetireInstance(i) \/ DeleteResidue(i)
  \/ \E s \in Scripts : Convert(s) \/ update_image_conversion_task(s)
  \/ Crash

\* A greenlet goes on, and every row gets old.  The overseer comes every forty
\* seconds, messages are taken in their order, and SoftLayer does not refuse for
\* ever: what is possible again and again is done.
Fairness ==
  /\ WF_vars(\E g \in Greenlets : Proceed(g))
  /\ \A i \in Instances :
       /\ WF_vars(DeleteResidue(i))
       /\ SF_vars(\E g \in Greenlets : initiate_pending_instance_deletion(g, i))
  /\ SF_vars(\E g \in Greenlets : DeleteMachine(g))

Spec == Init /\ [][Next]_vars /\ Fairness

----------------------------------------------------------------------------
\* What the conversion of images should do.

\* Only an image that a script has converted and uploaded makes its task
\* SUCCESSFUL, however many scripts run and report.
SuccessIsUploaded ==
  task.status = "SUCCESSFUL" => history.uploaded

Deleted(m) == machines[m] # "gone" /\ machines'[m] = "gone"

\* A machine is not deleted under a script as long as the task has never ended,
\* unless the age of its row was the reason.
DeletesWhenOver ==
  [][\A m \in Machines, s \in Scripts :
       Deleted(m) /\ s \in Running(m)
         => history.ended \/ scripts[s].row \in history.overdue]_vars

\* The machine that a row names is deleted, and the row goes with it.
RowsGo == []<>(\A i \in Instances : rows[i].machine = None)
=============================================================================

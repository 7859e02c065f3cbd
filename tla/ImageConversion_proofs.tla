---------------------- MODULE ImageConversion_proofs ----------------------
(***************************************************************************)
(* What the calls of an image conversion keep true, whatever the number of *)
(* greenlets, rows, machines, scripts and retries, with crashes, SSH       *)
(* errors and repeated reports.                                            *)
(***************************************************************************)
EXTENDS ImageConversion, TLAPS

\* The types, as parts of TypeOK that a step keeps one by one.
WorldType ==
  /\ task \in Tasks
  /\ rows \in [Instances -> Rows]
  /\ machines \in [Machines -> {"none", "up", "gone"}]
  /\ scripts \in [Scripts -> Processes]
CallsType ==
  /\ calls \in [Greenlets -> Calls]
  /\ \A g \in Greenlets : /\ calls[g].doing \in OnInstances => calls[g].row \in Instances
                          /\ calls[g].doing \in OnTask => calls[g].seen \in Whole
RestType ==
  /\ waiting \in [{"initiate", "janitor"} -> 0..MaxCalls]
  /\ history \in [overdue : SUBSET Instances, ended : BOOLEAN, uploaded : BOOLEAN]

LEMMA Parts == TypeOK <=> (WorldType /\ CallsType /\ RestType)
  BY DEF TypeOK, WorldType, CallsType, RestType

LEMMA PartsNext == (WorldType' /\ CallsType' /\ RestType') => TypeOK'
  BY DEF TypeOK, WorldType, CallsType, RestType

LEMMA InitType == Init => TypeOK
<1> SUFFICES ASSUME Init PROVE TypeOK
  OBVIOUS
<1>1. /\ Absent \in Rows /\ NoScript \in Processes /\ Idle \in Calls
  BY ConversionAssumption DEF Absent, Rows, NoScript, Processes, Idle, Calls
<1>2. WorldType
  <2>1. task \in Tasks
    BY ConversionAssumption DEF Init, Tasks, Statuses, Steps, Ended
  <2> QED
    BY <1>1, <2>1 DEF Init, WorldType
<1>3. CallsType
  BY <1>1 DEF Init, CallsType, Idle, OnInstances, OnTask
<1>4. RestType
  BY ConversionAssumption DEF Init, RestType
<1> QED
  BY <1>2, <1>3, <1>4, Parts

----------------------------------------------------------------------------
\* One record in a table.

LEMMA RowSet ==
  ASSUME WorldType, NEW i \in Instances, NEW row \in Rows, rows' = [rows EXCEPT ![i] = row]
  PROVE rows' \in [Instances -> Rows]
  BY DEF WorldType

LEMMA CallSet ==
  ASSUME CallsType, NEW g \in Greenlets, NEW call \in Calls,
         call.doing \in OnInstances => call.row \in Instances,
         call.doing \in OnTask => call.seen \in Whole,
         calls' = [calls EXCEPT ![g] = call]
  PROVE CallsType'
<1>1. calls' \in [Greenlets -> Calls]
  BY DEF CallsType
<1>2. ASSUME NEW h \in Greenlets
      PROVE /\ calls'[h].doing \in OnInstances => calls'[h].row \in Instances
            /\ calls'[h].doing \in OnTask => calls'[h].seen \in Whole
  <2>1. calls'[h] = IF h = g THEN call ELSE calls[h]
    BY DEF CallsType
  <2> QED
    BY <2>1 DEF CallsType
<1> QED
  BY <1>1, <1>2 DEF CallsType

LEMMA EndsType ==
  ASSUME CallsType, NEW g \in Greenlets, Ends(g)
  PROVE CallsType'
<1>1. /\ Idle \in Calls /\ Idle.doing \notin OnInstances /\ Idle.doing \notin OnTask
  BY DEF Idle, Calls, OnInstances, OnTask
<1> QED
  BY <1>1, CallSet DEF Ends

LEMMA CallType ==
  ASSUME CallsType, NEW g \in Greenlets, NEW doing \in OnInstances \cup OnTask,
         NEW i \in Instances, NEW m \in Machines \cup {None}, NEW seen \in Sights \cup {None},
         doing \in OnTask => seen \in Whole, Call(g, doing, i, m, seen)
  PROVE CallsType'
<1> DEFINE call == [doing |-> doing, row |-> i, machine |-> m, seen |-> seen]
<1>1. /\ call \in Calls /\ call.doing = doing /\ call.row = i /\ call.seen = seen
  BY DEF Calls
<1>2. calls' = [calls EXCEPT ![g] = call]
  BY DEF Call
<1> HIDE DEF call
<1> QED
  BY <1>1, <1>2, CallSet

LEMMA StatusType ==
  ASSUME TypeOK, NEW i \in Instances
  PROVE StatusOfTask(i) \in Sights \cup {None}
  BY DEF TypeOK, StatusOfTask, Sights, Tasks

LEMMA SightType ==
  ASSUME task \in Tasks
  PROVE Sight(task) \in Whole /\ Sight(task) \in Sights
  BY DEF Sight, Whole, Sights, Tasks

LEMMA RememberType ==
  ASSUME RestType, Remember, UNCHANGED waiting
  PROVE RestType'
  BY DEF RestType, Remember

----------------------------------------------------------------------------
\* The scheduled functions.

LEMMA DistributorType ==
  ASSUME TypeOK, NEW i \in Instances, RetireInstance(i) \/ AssignInstance \/ DeleteResidue(i)
  PROVE TypeOK'
<1> USE Parts
<1>1. ASSUME NEW j \in Instances, NEW s \in {"CREATE_PENDING", "DELETE_PENDING"},
             rows' = [rows EXCEPT ![j].status = s]
      PROVE rows' \in [Instances -> Rows]
  <2>1. rows[j] \in Rows
    BY DEF WorldType
  <2>2. [rows[j] EXCEPT !.status = s] \in Rows
    BY <2>1 DEF Rows
  <2>3. rows' = [rows EXCEPT ![j] = [rows[j] EXCEPT !.status = s]]
    BY <1>1
  <2> QED
    BY <2>2, <2>3, RowSet
<1>2. CASE RetireInstance(i)
  <2>1. task' \in Tasks
    BY <1>2 DEF RetireInstance, WorldType, Tasks
  <2>2. rows' \in [Instances -> Rows]
    BY <1>1, <1>2 DEF RetireInstance
  <2>4. WorldType'
    BY <1>2, <2>1, <2>2 DEF RetireInstance, WorldType
  <2>5. CallsType'
    BY <1>2 DEF RetireInstance, CallsType
  <2>6. RestType'
    BY <1>2, <2>1, <2>2 DEF RetireInstance, RestType
  <2> QED
    BY <2>4, <2>5, <2>6, PartsNext
<1>3. CASE AssignInstance
  <2>1. PICK j \in Instances : /\ rows' = [rows EXCEPT ![j].status = "CREATE_PENDING"]
                               /\ task' = [task EXCEPT !.instance = j]
    BY <1>3 DEF AssignInstance, First
  <2>2. task' \in Tasks
    BY <2>1 DEF WorldType, Tasks
  <2>3. rows' \in [Instances -> Rows]
    BY <1>1, <2>1
  <2>4. WorldType'
    BY <1>3, <2>2, <2>3 DEF AssignInstance, WorldType
  <2>5. CallsType'
    BY <1>3 DEF AssignInstance, CallsType
  <2>6. RestType'
    BY <1>3, <2>2, <2>3 DEF AssignInstance, RestType
  <2> QED
    BY <2>4, <2>5, <2>6, PartsNext
<1>4. CASE DeleteResidue(i)
  <2>1. rows' \in [Instances -> Rows]
    BY <1>1, <1>4 DEF DeleteResidue
  <2>2. history' \in [overdue : SUBSET Instances, ended : BOOLEAN, uploaded : BOOLEAN]
    BY <1>4 DEF DeleteResidue, RestType
  <2>4. WorldType'
    BY <1>4, <2>1, <2>2 DEF DeleteResidue, WorldType
  <2>5. CallsType'
    BY <1>4 DEF DeleteResidue, CallsType
  <2>6. RestType'
    BY <1>4, <2>1, <2>2 DEF DeleteResidue, RestType
  <2> QED
    BY <2>4, <2>5, <2>6, PartsNext
<1> QED
  BY <1>2, <1>3, <1>4

LEMMA BeginType ==
  ASSUME TypeOK, NEW g \in Greenlets, NEW i \in Instances, Begin(g, i)
  PROVE TypeOK'
<1> USE Parts
<1>1. PICK doing \in OnInstances, seen \in Sights \cup {None} : Starts(g, i, doing, seen)
  <2>1. StatusOfTask(i) \in Sights \cup {None}
    BY StatusType
  <2> QED
    BY <2>1 DEF Begin, initiate_pending_instance_creation, get_update_creating_instance,
                initiate_pending_instance_deletion, get_delete_deleting_instance, OnInstances
<1>2. doing \notin OnTask
  BY DEF OnInstances, OnTask
<1>3. rows[i].machine \in Machines \cup {None}
  BY DEF WorldType, Rows
<1>4. CallsType'
  BY <1>1, <1>2, <1>3, CallType DEF Starts
<1>5. WorldType' /\ RestType'
  BY <1>1 DEF Starts, WorldType, RestType
<1> QED
  BY <1>4, <1>5, PartsNext

----------------------------------------------------------------------------
\* The task's columns.

LEMMA SaveType ==
  ASSUME WorldType, NEW g \in Greenlets, NEW made,
         made.status \in Statuses,
         made.step = calls[g].seen.step \/ made.step \in Steps,
         made.retries = calls[g].seen.retries \/ made.retries \in 0..Retries,
         Save(g, made)
  PROVE task' \in Tasks
<1> DEFINE status == Commit(calls[g].seen.status, made.status, task.status)
           step == Commit(calls[g].seen.step, made.step, task.step)
           retries == Commit(calls[g].seen.retries, made.retries, task.retries)
<1>1. task' = [task EXCEPT !.status = status, !.step = step, !.retries = retries]
  BY DEF Save
<1>2. /\ status \in Statuses /\ step \in Steps /\ retries \in 0..Retries
  BY DEF Commit, WorldType, Tasks
<1> HIDE DEF status, step, retries
<1> QED
  BY <1>1, <1>2 DEF WorldType, Tasks

LEMMA SetTaskType ==
  ASSUME TypeOK, NEW g \in Greenlets, NEW status \in Statuses, SetTask(g, status)
  PROVE task' \in Tasks
<1>1. CASE calls[g].seen = None
  BY <1>1 DEF SetTask, TypeOK
<1>2. CASE calls[g].seen # None
  <2> DEFINE made == [calls[g].seen EXCEPT !.status = status]
  <2>1. calls[g].seen \in Sights
    BY <1>2 DEF TypeOK, Calls
  <2>2. /\ made.status = status /\ made.step = calls[g].seen.step
        /\ made.retries = calls[g].seen.retries
    BY <2>1 DEF Sights
  <2>3. Save(g, made)
    BY <1>2 DEF SetTask
  <2> HIDE DEF made
  <2> QED
    BY <2>2, <2>3, SaveType, Parts
<1> QED
  BY <1>1, <1>2

LEMMA RemoveType ==
  ASSUME WorldType, NEW i \in Instances, Remove(i)
  PROVE rows' \in [Instances -> Rows] /\ task' \in Tasks
<1> DEFINE gone == [Absent EXCEPT !.status = "gone"]
<1>1. gone \in Rows
  BY DEF Absent, Rows
<1>2. rows' = [rows EXCEPT ![i] = gone]
  BY DEF Remove
<1>3. rows' \in [Instances -> Rows]
  BY <1>1, <1>2, RowSet
<1>4. task' \in Tasks
  BY DEF Remove, WorldType, Tasks
<1> QED
  BY <1>3, <1>4

\* A greenlet that goes on with the same row and what it has seen.
LEMMA GoesOnType ==
  ASSUME CallsType, NEW g \in Greenlets, calls[g].doing \in OnInstances, GoesOn(g, "deleted")
  PROVE CallsType'
<1> DEFINE call == [calls[g] EXCEPT !.doing = "deleted"]
<1>1. calls[g] \in Calls /\ calls[g].row \in Instances
  BY DEF CallsType
<1>2. /\ call \in Calls /\ call.row = calls[g].row /\ call.doing = "deleted"
  BY <1>1 DEF Calls, OnInstances
<1>3. calls' = [calls EXCEPT ![g] = call]
  BY DEF GoesOn
<1> HIDE DEF call
<1> QED
  BY <1>1, <1>2, <1>3, CallSet DEF OnTask

----------------------------------------------------------------------------
\* The calls on instances.

LEMMA CreateMachineType ==
  ASSUME TypeOK, NEW g \in Greenlets, CreateMachine(g)
  PROVE TypeOK'
<1> USE Parts
<1>1. PICK m \in Machines : /\ machines' = [machines EXCEPT ![m] = "up"]
                            /\ calls' = [calls EXCEPT ![g].machine = m, ![g].doing = "created"]
  BY DEF CreateMachine, First
<1> DEFINE call == [calls[g] EXCEPT !.machine = m, !.doing = "created"]
<1>2. calls[g] \in Calls /\ calls[g].row \in Instances
  BY DEF CallsType, CreateMachine, Doing, OnInstances
<1>3. /\ call \in Calls /\ call.row = calls[g].row /\ call.doing = "created"
  BY <1>2 DEF Calls, OnInstances
<1>4. calls' = [calls EXCEPT ![g] = call]
  BY <1>1
<1> HIDE DEF call
<1>5. CallsType'
  BY <1>2, <1>3, <1>4, CallSet DEF OnTask
<1>6. WorldType'
  BY <1>1 DEF WorldType, CreateMachine
<1>7. RestType'
  BY DEF CreateMachine, RestType
<1> QED
  BY <1>5, <1>6, <1>7, PartsNext

LEMMA CreationRefusedType ==
  ASSUME TypeOK, NEW g \in Greenlets, CreationRefused(g)
  PROVE TypeOK'
<1> USE Parts
<1>1. WorldType'
  BY SetTaskType DEF CreationRefused, WorldType, Statuses, Ended
<1>2. CallsType'
  BY EndsType DEF CreationRefused
<1>3. RestType'
  BY RememberType DEF CreationRefused
<1> QED
  BY <1>1, <1>2, <1>3, PartsNext

LEMMA RecordType ==
  ASSUME TypeOK, NEW g \in Greenlets, RecordMachine(g) \/ RecordDeletion(g)
  PROVE TypeOK'
<1> USE Parts
<1> DEFINE i == calls[g].row
           created == [rows[i] EXCEPT !.machine = calls[g].machine, !.status = "CREATING"]
           deleted == [rows[i] EXCEPT !.status = "DELETING"]
<1>1. /\ i \in Instances /\ rows[i] \in Rows /\ calls[g].machine \in Machines \cup {None}
  BY DEF CallsType, WorldType, Calls, RecordMachine, RecordDeletion, Doing, OnInstances
<1>2. created \in Rows /\ deleted \in Rows
  BY <1>1 DEF Rows
<1>3. Write(i, created) \/ Write(i, deleted)
  BY DEF RecordMachine, RecordDeletion
<1>4. PICK row \in Rows : Write(i, row)
  <2> HIDE DEF created, deleted
  <2> QED
    BY <1>2, <1>3
<1>5. rows' \in [Instances -> Rows]
  <2>1. rows' = rows \/ rows' = [rows EXCEPT ![i] = row]
    BY <1>4 DEF Write
  <2> QED
    BY <1>1, <2>1, RowSet DEF WorldType
<1>6. WorldType'
  BY <1>5 DEF RecordMachine, RecordDeletion, WorldType
<1>7. CallsType'
  BY EndsType DEF RecordMachine, RecordDeletion
<1>8. RestType'
  BY DEF RecordMachine, RecordDeletion, RestType
<1> QED
  BY <1>6, <1>7, <1>8, PartsNext

LEMMA PollAnsweredType ==
  ASSUME TypeOK, NEW g \in Greenlets, PollAnswered(g)
  PROVE TypeOK'
<1> USE Parts
<1> DEFINE i == calls[g].row
           row == [rows[i] EXCEPT !.status = "ACTIVE", !.address = calls[g].machine]
<1>1. /\ i \in Instances /\ rows[i] \in Rows /\ calls[g].machine \in Machines \cup {None}
  BY DEF CallsType, WorldType, Calls, PollAnswered, Doing, OnInstances
<1>2. row \in Rows
  BY <1>1 DEF Rows
<1>3. \/ UNCHANGED rows
      \/ rows' = [rows EXCEPT ![i].status = "ACTIVE", ![i].address = calls[g].machine]
  BY DEF PollAnswered
<1>4. rows' = rows \/ rows' = [rows EXCEPT ![i] = row]
  BY <1>3
<1>5. rows' \in [Instances -> Rows]
  <2> HIDE DEF row
  <2> QED
    BY <1>1, <1>2, <1>4, RowSet DEF WorldType
<1>6. UNCHANGED task \/ SetTask(g, "RUNNING") \/ SetTask(g, "FAILED")
  BY DEF PollAnswered
<1>7. task' \in Tasks
  BY <1>6, SetTaskType DEF WorldType, Statuses, Ended
<1>8. WorldType'
  BY <1>5, <1>7 DEF PollAnswered, WorldType
<1>9. CallsType'
  BY EndsType DEF PollAnswered
<1>10. RestType'
  BY RememberType DEF PollAnswered
<1> QED
  BY <1>8, <1>9, <1>10, PartsNext

LEMMA DeleteMachineType ==
  ASSUME TypeOK, NEW g \in Greenlets, DeleteMachine(g)
  PROVE TypeOK'
<1> USE Parts
<1> DEFINE i == calls[g].row
           m == calls[g].machine
<1>1. calls[g].doing \in OnInstances /\ i \in Instances
  BY DEF CallsType, DeleteMachine, Doing, OnInstances
<1>2. CASE (Remove(i) \/ UNCHANGED <<rows, task>>) /\ Ends(g) /\ UNCHANGED <<machines, scripts>>
  <2>1. WorldType'
    BY <1>1, <1>2, RemoveType DEF WorldType
  <2>2. CallsType'
    BY <1>2, EndsType
  <2>3. RestType'
    BY DEF DeleteMachine, RestType
  <2> QED
    BY <2>1, <2>2, <2>3, PartsNext
<1>3. CASE /\ machines' = [machines EXCEPT ![m] = "gone"]
           /\ scripts' = [s \in Scripts |-> IF s \in Running(m) THEN NoScript ELSE scripts[s]]
           /\ GoesOn(g, "deleted")
           /\ UNCHANGED <<rows, task>>
  <2>1. NoScript \in Processes
    BY ConversionAssumption DEF NoScript, Processes
  <2>2. scripts' \in [Scripts -> Processes]
    BY <1>3, <2>1 DEF WorldType
  <2>3. WorldType'
    BY <1>3, <2>2 DEF WorldType
  <2>4. CallsType'
    BY <1>1, <1>3, GoesOnType
  <2>5. RestType'
    BY DEF DeleteMachine, RestType
  <2> QED
    BY <2>3, <2>4, <2>5, PartsNext
<1> QED
  BY <1>2, <1>3 DEF DeleteMachine

LEMMA ConfirmDeletionType ==
  ASSUME TypeOK, NEW g \in Greenlets, ConfirmDeletion(g) \/ ProviderRefuses(g)
  PROVE TypeOK'
<1> USE Parts
<1>1. calls[g].row \in Instances
  BY DEF CallsType, ConfirmDeletion, ProviderRefuses, Doing, OnInstances
<1>2. Remove(calls[g].row) \/ UNCHANGED <<rows, task>>
  BY DEF ConfirmDeletion, ProviderRefuses
<1>3. rows' \in [Instances -> Rows] /\ task' \in Tasks
  BY <1>1, <1>2, RemoveType DEF WorldType
<1>4. WorldType'
  BY <1>3 DEF ConfirmDeletion, ProviderRefuses, WorldType
<1>5. CallsType'
  BY EndsType DEF ConfirmDeletion, ProviderRefuses
<1>6. RestType'
  BY DEF ConfirmDeletion, ProviderRefuses, RestType
<1> QED
  BY <1>4, <1>5, <1>6, PartsNext

----------------------------------------------------------------------------
\* The calls on the task.

LEMMA ExecutorType ==
  ASSUME TypeOK, NEW fn \in {"initiate", "janitor"}, image_conversion_pending_task_executor(fn)
  PROVE TypeOK'
<1> USE Parts
<1>1. WorldType' /\ CallsType'
  BY DEF image_conversion_pending_task_executor, WorldType, CallsType
<1>2. /\ waiting["initiate"] \in 0..MaxCalls /\ waiting["janitor"] \in 0..MaxCalls
      /\ waiting["initiate"] + waiting["janitor"] < MaxCalls
  BY DEF image_conversion_pending_task_executor, RestType
<1>3. waiting[fn] + 1 \in 0..MaxCalls
  BY <1>2, ConversionAssumption
<1>4. waiting' = [waiting EXCEPT ![fn] = waiting[fn] + 1] /\ UNCHANGED history
  BY DEF image_conversion_pending_task_executor
<1>5. RestType'
  BY <1>3, <1>4 DEF RestType
<1> QED
  BY <1>1, <1>5, PartsNext

LEMMA ReceiveType ==
  ASSUME RestType, NEW g \in Greenlets, NEW fn \in {"initiate", "janitor"}, Receive(g, fn),
         UNCHANGED history
  PROVE RestType'
<1>1. waiting[fn] - 1 \in 0..MaxCalls
  BY ConversionAssumption DEF RestType, Receive
<1>2. waiting' = [waiting EXCEPT ![fn] = waiting[fn] - 1]
  BY DEF Receive
<1> QED
  BY <1>1, <1>2 DEF RestType

LEMMA InitiateType ==
  ASSUME TypeOK, NEW g \in Greenlets, initiate_image_conversion(g)
  PROVE TypeOK'
<1> USE Parts
<1>1. WorldType'
  BY DEF initiate_image_conversion, WorldType
<1>2. RestType'
  BY ReceiveType DEF initiate_image_conversion
<1>3. CASE UNCHANGED calls
  <2>1. CallsType'
    BY <1>3 DEF CallsType
  <2> QED
    BY <1>1, <1>2, <2>1, PartsNext
<1>4. CASE /\ task.instance # None
           /\ Call(g, "connect", task.instance, rows[task.instance].address, Sight(task))
  <2>1. task.instance \in Instances
    BY <1>4 DEF WorldType, Tasks
  <2>2. rows[task.instance].address \in Machines \cup {None}
    BY <2>1 DEF WorldType, Rows
  <2>3. Sight(task) \in Whole /\ Sight(task) \in Sights
    BY SightType DEF WorldType
  <2>4. CallsType'
    BY <1>4, <2>1, <2>2, <2>3, CallType DEF OnTask
  <2> QED
    BY <1>1, <1>2, <2>4, PartsNext
<1> QED
  BY <1>3, <1>4 DEF initiate_image_conversion

LEMMA JanitorType ==
  ASSUME TypeOK, NEW g \in Greenlets, initiate_image_conversion_janitor(g)
  PROVE TypeOK'
<1> USE Parts
<1>1. RestType'
  BY ReceiveType DEF initiate_image_conversion_janitor
<1>2. CASE UNCHANGED <<task, calls>>
  <2>1. WorldType' /\ CallsType'
    BY <1>2 DEF initiate_image_conversion_janitor, WorldType, CallsType
  <2> QED
    BY <1>1, <2>1, PartsNext
<1>3. CASE /\ task.instance # None
           /\ task' = [task EXCEPT !.step = "CLEANING_UP"]
           /\ Call(g, "clean", task.instance, rows[task.instance].address, Sight(task'))
  <2>1. task.instance \in Instances
    BY <1>3 DEF WorldType, Tasks
  <2>2. rows[task.instance].address \in Machines \cup {None}
    BY <2>1 DEF WorldType, Rows
  <2>3. task' \in Tasks
    BY <1>3 DEF WorldType, Tasks, Steps
  <2>4. Sight(task') \in Whole /\ Sight(task') \in Sights
    BY <2>3 DEF Sight, Whole, Sights, Tasks
  <2>5. CallsType'
    BY <1>3, <2>1, <2>2, <2>4, CallType DEF OnTask
  <2>6. WorldType'
    BY <2>3 DEF initiate_image_conversion_janitor, WorldType
  <2> QED
    BY <1>1, <2>5, <2>6, PartsNext
<1> QED
  BY <1>2, <1>3 DEF initiate_image_conversion_janitor

LEMMA StepToType ==
  ASSUME TypeOK, NEW g \in Greenlets, calls[g].doing \in OnTask, NEW step \in Steps,
         NEW doing \in OnTask, StepTo(g, step, doing)
  PROVE task' \in Tasks /\ CallsType'
<1> USE Parts
<1> DEFINE made == [calls[g].seen EXCEPT !.step = step]
           call == [calls[g] EXCEPT !.doing = doing, !.seen = Sight(task')]
<1>1. calls[g].seen \in Whole /\ calls[g] \in Calls
  BY DEF CallsType
<1>2. /\ made.status \in Statuses /\ made.step = step
      /\ made.retries = calls[g].seen.retries
  BY <1>1 DEF Whole
<1>3. Save(g, made)
  BY DEF StepTo
<1>4. task' \in Tasks
  <2> HIDE DEF made
  <2> QED
    BY <1>2, <1>3, SaveType
<1>5. Sight(task') \in Whole /\ Sight(task') \in Sights
  BY <1>4 DEF Sight, Whole, Sights, Tasks
<1>6. /\ call \in Calls /\ call.doing = doing /\ call.seen = Sight(task')
  BY <1>1, <1>5 DEF Calls
<1>7. calls' = [calls EXCEPT ![g] = call]
  BY DEF StepTo
<1>8. doing \notin OnInstances
  BY DEF OnTask, OnInstances
<1> HIDE DEF call
<1> QED
  BY <1>4, <1>5, <1>6, <1>7, <1>8, CallSet

LEMMA ConnectType ==
  ASSUME TypeOK, NEW g \in Greenlets, Connect(g) \/ Upload(g)
  PROVE TypeOK'
<1> USE Parts
<1>1. calls[g].doing \in OnTask
  BY DEF Connect, Upload, Doing, OnTask
<1>2. \/ StepTo(g, "FILES_UPLOADING", "upload") \/ StepTo(g, "IMAGE_DOWNLOADING", "download")
  BY DEF Connect, Upload
<1>3. task' \in Tasks /\ CallsType'
  BY <1>1, <1>2, StepToType DEF OnTask, Steps
<1>4. WorldType' /\ RestType'
  BY <1>3 DEF Connect, Upload, WorldType, RestType
<1> QED
  BY <1>3, <1>4, PartsNext

LEMMA StartScriptType ==
  ASSUME TypeOK, NEW g \in Greenlets, StartScript(g)
  PROVE scripts' \in [Scripts -> Processes]
<1>1. PICK s \in Scripts :
        scripts' = [scripts EXCEPT ![s] = [@ EXCEPT !.row = calls[g].row, !.at = 1,
                                                    !.machine = calls[g].machine]]
  BY DEF StartScript, First
<1> DEFINE script == [scripts[s] EXCEPT !.row = calls[g].row, !.at = 1,
                                        !.machine = calls[g].machine]
<1>2. /\ scripts[s] \in Processes /\ calls[g].row \in Instances \cup {None}
      /\ calls[g].machine \in Machines \cup {None} /\ 1 \in 0..Stages
  BY ConversionAssumption DEF TypeOK, Calls
<1>3. script \in Processes
  BY <1>2 DEF Processes
<1>4. scripts' = [scripts EXCEPT ![s] = script]
  BY <1>1
<1> HIDE DEF script
<1> QED
  BY <1>3, <1>4 DEF TypeOK

LEMMA RunScriptType ==
  ASSUME TypeOK, NEW g \in Greenlets, RunScript(g)
  PROVE TypeOK'
<1> USE Parts
<1>1. WorldType'
  BY StartScriptType DEF RunScript, WorldType
<1>2. CallsType'
  BY EndsType DEF RunScript
<1>3. RestType'
  BY DEF RunScript, RestType
<1> QED
  BY <1>1, <1>2, <1>3, PartsNext

\* A call that fails: the task goes on or is FAILED, and the step is a retry's or the
\* one that was seen.
Made(seen, made) ==
  /\ made.status = seen.status \/ made.status = "FAILED"
  /\ \/ made.step = seen.step
     \/ made.step \in {"FILES_UPLOADING_RETRY", "IMAGE_DOWNLOADING_RETRY"}
  /\ made.retries \in 0..Retries

LEMMA SshMakes ==
  ASSUME TypeOK, NEW g \in Greenlets, SshFails(g)
  PROVE \E made : Made(calls[g].seen, made) /\ Save(g, made)
<1> DEFINE seen == calls[g].seen
           ended == [seen EXCEPT !.status = "FAILED"]
<1>1. seen \in Whole
  BY DEF TypeOK, SshFails, OnTask
<1>2. CASE seen.retries = 0 /\ Save(g, ended)
  <2>1. Made(seen, ended)
    BY <1>1 DEF Made, Whole
  <2> QED
    BY <1>2, <2>1
<1>3. CASE seen.retries # 0 /\ Save(g, Retry(seen))
  <2>1. /\ Retry(seen).status = seen.status /\ Retry(seen).retries = seen.retries - 1
        /\ Retry(seen).step = CASE seen.step = "FILES_UPLOADING" -> "FILES_UPLOADING_RETRY"
                                [] seen.step = "IMAGE_DOWNLOADING" -> "IMAGE_DOWNLOADING_RETRY"
                                [] OTHER -> seen.step
    BY <1>1 DEF Retry, Whole
  <2>2. seen.retries - 1 \in 0..Retries
    BY <1>1, <1>3, ConversionAssumption DEF Whole
  <2>3. Made(seen, Retry(seen))
    BY <2>1, <2>2 DEF Made
  <2> QED
    BY <1>3, <2>3
<1> QED
  BY <1>2, <1>3 DEF SshFails

LEMMA SshFailsType ==
  ASSUME TypeOK, NEW g \in Greenlets, SshFails(g)
  PROVE TypeOK'
<1> USE Parts
<1>1. PICK made : Made(calls[g].seen, made) /\ Save(g, made)
  BY SshMakes
<1>2. calls[g].seen \in Whole
  BY DEF CallsType, SshFails, OnTask
<1>3. /\ made.status \in Statuses
      /\ made.step = calls[g].seen.step \/ made.step \in Steps
      /\ made.retries \in 0..Retries
  BY <1>1, <1>2 DEF Made, Whole, Statuses, Ended, Steps
<1>4. task' \in Tasks
  BY <1>1, <1>3, SaveType
<1>5. scripts' \in [Scripts -> Processes]
  BY StartScriptType DEF SshFails, WorldType
<1>6. WorldType'
  BY <1>4, <1>5 DEF SshFails, WorldType
<1>7. CallsType'
  BY EndsType DEF SshFails
<1>8. RestType'
  BY RememberType DEF SshFails
<1> QED
  BY <1>6, <1>7, <1>8, PartsNext

LEMMA CleanUpType ==
  ASSUME TypeOK, NEW g \in Greenlets, CleanUp(g)
  PROVE TypeOK'
<1> USE Parts
<1> DEFINE seen == calls[g].seen
           whole == [seen EXCEPT !.status = "SUCCESSFUL", !.step = "PROCESS_COMPLETED"]
           half == [seen EXCEPT !.status = "SUCCESSFUL"]
<1>1. seen \in Whole
  BY DEF CallsType, CleanUp, Doing, OnTask
<1>2. /\ whole.status = "SUCCESSFUL" /\ whole.step = "PROCESS_COMPLETED"
      /\ whole.retries = seen.retries
      /\ half.status = "SUCCESSFUL" /\ half.step = seen.step /\ half.retries = seen.retries
  BY <1>1 DEF Whole
<1>3. Save(g, whole) \/ Save(g, half)
  BY DEF CleanUp
<1>4. task' \in Tasks
  <2> HIDE DEF whole, half
  <2> QED
    BY <1>2, <1>3, SaveType DEF Statuses, Ended, Steps
<1>5. WorldType'
  BY <1>4 DEF CleanUp, WorldType
<1>6. CallsType'
  BY EndsType DEF CleanUp
<1>7. RestType'
  BY RememberType DEF CleanUp
<1> QED
  BY <1>5, <1>6, <1>7, PartsNext

----------------------------------------------------------------------------
\* The scripts and the webhook.

LEMMA ConvertType ==
  ASSUME TypeOK, NEW s \in Scripts, Convert(s)
  PROVE TypeOK'
<1> USE Parts
<1>1. PICK status \in {"SUCCESSFUL", "FAILED"} : scripts' = [scripts EXCEPT ![s].posts = status]
  BY DEF Convert, Outcomes
<1>2. scripts' \in [Scripts -> Processes]
  BY <1>1 DEF WorldType, Processes
<1>3. WorldType' /\ CallsType'
  BY <1>2 DEF Convert, WorldType, CallsType
<1>4. PICK up \in BOOLEAN : history' = [history EXCEPT !.uploaded = @ \/ up]
  BY DEF Convert
<1>5. RestType'
  BY <1>4 DEF Convert, RestType
<1> QED
  BY <1>3, <1>5, PartsNext

LEMMA ReportType ==
  ASSUME TypeOK, NEW s \in Scripts, update_image_conversion_task(s)
  PROVE TypeOK'
<1> USE Parts
<1>1. task' \in Tasks
  <2>1. StepAfter(scripts[s].at) \in Steps
    BY DEF StepAfter, Steps
  <2> QED
    BY <2>1 DEF update_image_conversion_task, AfterReport, WorldType, Tasks, Statuses, Ended
<1>2. scripts[s] \in Processes /\ NoScript \in Processes
  BY ConversionAssumption DEF WorldType, NoScript, Processes
<1>3. Answered(scripts[s]) \in Processes
  <2> DEFINE next == [scripts[s] EXCEPT !.at = scripts[s].at + 1, !.posts = "nothing"]
  <2>1. CASE scripts[s].posts = "FAILED" \/ scripts[s].at = Stages
    BY <1>2, <2>1 DEF Answered
  <2>2. CASE ~(scripts[s].posts = "FAILED" \/ scripts[s].at = Stages)
    <3>1. scripts[s].at \in 0..Stages
      BY <1>2 DEF Processes
    <3>2. scripts[s].at + 1 \in 0..Stages
      BY <2>2, <3>1, ConversionAssumption
    <3>3. next \in Processes
      BY <1>2, <3>2 DEF Processes
    <3> QED
      BY <2>2, <3>3 DEF Answered
  <2> QED
    BY <2>1, <2>2
<1>4. UNCHANGED scripts \/ scripts' = [scripts EXCEPT ![s] = Answered(scripts[s])]
  BY DEF update_image_conversion_task
<1>5. scripts' \in [Scripts -> Processes]
  BY <1>3, <1>4 DEF WorldType
<1>6. WorldType'
  BY <1>1, <1>5 DEF update_image_conversion_task, WorldType
<1>7. CallsType'
  BY DEF update_image_conversion_task, CallsType
<1>8. RestType'
  BY RememberType DEF update_image_conversion_task
<1> QED
  BY <1>6, <1>7, <1>8, PartsNext

LEMMA CrashType ==
  ASSUME TypeOK, Crash
  PROVE TypeOK'
<1> USE Parts
<1>1. /\ Idle \in Calls /\ Idle.doing \notin OnInstances /\ Idle.doing \notin OnTask
  BY DEF Idle, Calls, OnInstances, OnTask
<1>2. CallsType'
  BY <1>1 DEF Crash, CallsType
<1>3. WorldType' /\ RestType'
  BY DEF Crash, WorldType, RestType
<1> QED
  BY <1>2, <1>3, PartsNext

----------------------------------------------------------------------------

LEMMA StepType == TypeOK /\ [Next]_vars => TypeOK'
<1> SUFFICES ASSUME TypeOK, [Next]_vars PROVE TypeOK'
  OBVIOUS
<1>1. CASE UNCHANGED vars
  BY <1>1 DEF vars, TypeOK
<1>2. ASSUME NEW g \in Greenlets, Proceed(g) \/ ProviderRefuses(g)
      PROVE TypeOK'
  BY <1>2, CreateMachineType, CreationRefusedType, RecordType, PollAnsweredType,
     DeleteMachineType, ConfirmDeletionType, ConnectType, RunScriptType, SshFailsType,
     CleanUpType DEF Proceed
<1>3. ASSUME NEW g \in Greenlets,
             \/ initiate_image_conversion(g) \/ initiate_image_conversion_janitor(g)
             \/ \E i \in Instances : Begin(g, i)
      PROVE TypeOK'
  BY <1>3, InitiateType, JanitorType, BeginType
<1>4. ASSUME NEW i \in Instances, RetireInstance(i) \/ DeleteResidue(i)
      PROVE TypeOK'
  BY <1>4, DistributorType
<1>5. CASE AssignInstance
  <2>1. PICK i \in Instances : TRUE
    BY <1>5 DEF AssignInstance, First
  <2> QED
    BY <1>5, DistributorType
<1>6. ASSUME NEW fn \in {"initiate", "janitor"}, image_conversion_pending_task_executor(fn)
      PROVE TypeOK'
  BY <1>6, ExecutorType
<1>7. ASSUME NEW s \in Scripts, Convert(s) \/ update_image_conversion_task(s)
      PROVE TypeOK'
  BY <1>7, ConvertType, ReportType
<1>8. CASE Crash
  BY <1>8, CrashType
<1> QED
  BY <1>1, <1>2, <1>3, <1>4, <1>5, <1>6, <1>7, <1>8 DEF Next

\* The columns of the task, the rows, the machines, the scripts and the calls keep
\* their types, for every number of them.
THEOREM TypeCorrect == Spec => []TypeOK
<1>1. Init => TypeOK
  BY InitType
<1>2. TypeOK /\ [Next]_vars => TypeOK'
  BY StepType
<1> QED
  BY <1>1, <1>2, PTL DEF Spec

----------------------------------------------------------------------------
\* SuccessIsUploaded is not inductive: CleanUp makes the task SUCCESSFUL whatever
\* has happened.  The claim that the image is there goes from the script's last
\* report to the step of the task, from there to the janitor's message and call,
\* and nothing else may make it.
Claimed == {"PENDING_CLEANUP", "CLEANING_UP", "PROCESS_COMPLETED"}

NoneCleans == \A g \in Greenlets : calls[g].doing # "clean"
NoneUploaded ==
  \A s \in Scripts : scripts[s].posts = "SUCCESSFUL" => scripts[s].at \notin {0, Stages}

NothingClaimed ==
  /\ task.status # "SUCCESSFUL" /\ task.step \notin Claimed
  /\ waiting["janitor"] = 0
  /\ NoneCleans
  /\ NoneUploaded

Evidence == ~history.uploaded => NothingClaimed

LEMMA InitEvidence == Init => Evidence
  BY ConversionAssumption
  DEF Init, Evidence, NothingClaimed, NoneCleans, NoneUploaded, Claimed, Idle, NoScript

LEMMA EndsCleansNothing ==
  ASSUME TypeOK, NoneCleans, NEW g \in Greenlets, Ends(g)
  PROVE NoneCleans'
  BY DEF TypeOK, NoneCleans, Ends, Idle

LEMMA BeginsCleansNothing ==
  ASSUME TypeOK, NoneCleans, NEW g \in Greenlets, NEW doing, doing # "clean",
         NEW i, NEW m, NEW seen, Call(g, doing, i, m, seen)
  PROVE NoneCleans'
  BY DEF TypeOK, NoneCleans, Call

\* Columns that are written over claim nothing as long as what is written does not.
LEMMA SaveClaimsNothing ==
  ASSUME TypeOK, task.status # "SUCCESSFUL", task.step \notin Claimed,
         NEW g \in Greenlets, NEW made, Save(g, made),
         made.status = calls[g].seen.status \/ made.status # "SUCCESSFUL",
         made.step = calls[g].seen.step \/ made.step \notin Claimed
  PROVE task'.status # "SUCCESSFUL" /\ task'.step \notin Claimed
<1> DEFINE status == Commit(calls[g].seen.status, made.status, task.status)
           step == Commit(calls[g].seen.step, made.step, task.step)
           retries == Commit(calls[g].seen.retries, made.retries, task.retries)
<1>1. task' = [task EXCEPT !.status = status, !.step = step, !.retries = retries]
  BY DEF Save
<1>2. status # "SUCCESSFUL" /\ step \notin Claimed
  BY DEF Commit
<1>3. task'.status = status /\ task'.step = step
  <2> HIDE DEF status, step, retries
  <2> QED
    BY <1>1 DEF TypeOK, Tasks
<1> QED
  BY <1>2, <1>3

LEMMA SetTaskClaimsNothing ==
  ASSUME TypeOK, task.status # "SUCCESSFUL", task.step \notin Claimed,
         NEW g \in Greenlets, NEW status \in {"RUNNING", "FAILED"}, SetTask(g, status)
  PROVE task'.status # "SUCCESSFUL" /\ task'.step \notin Claimed
<1>1. CASE calls[g].seen = None
  BY <1>1 DEF SetTask
<1>2. CASE calls[g].seen # None
  <2> DEFINE made == [calls[g].seen EXCEPT !.status = status]
  <2>1. calls[g].seen \in Sights
    BY <1>2 DEF TypeOK, Calls
  <2>2. made.status = status /\ made.step = calls[g].seen.step
    BY <2>1 DEF Sights
  <2>3. Save(g, made)
    BY <1>2 DEF SetTask
  <2> HIDE DEF made
  <2> QED
    BY <2>2, <2>3, SaveClaimsNothing
<1> QED
  BY <1>1, <1>2

LEMMA StepToClaimsNothing ==
  ASSUME TypeOK, task.status # "SUCCESSFUL", task.step \notin Claimed,
         NEW g \in Greenlets, calls[g].doing \in OnTask, NEW step, step \notin Claimed,
         NEW doing, StepTo(g, step, doing)
  PROVE task'.status # "SUCCESSFUL" /\ task'.step \notin Claimed
<1> DEFINE made == [calls[g].seen EXCEPT !.step = step]
<1>1. calls[g].seen \in Whole
  BY DEF TypeOK
<1>2. made.status = calls[g].seen.status /\ made.step = step
  BY <1>1 DEF Whole
<1>3. Save(g, made)
  BY DEF StepTo
<1> HIDE DEF made
<1> QED
  BY <1>2, <1>3, SaveClaimsNothing

LEMMA StartClaimsNothing ==
  ASSUME TypeOK, NoneUploaded, NEW g \in Greenlets, StartScript(g)
  PROVE NoneUploaded'
<1>1. PICK s \in Scripts :
        /\ scripts[s].at = 0
        /\ scripts' = [scripts EXCEPT ![s] = [@ EXCEPT !.row = calls[g].row, !.at = 1,
                                                       !.machine = calls[g].machine]]
  BY DEF StartScript, First
<1>2. scripts[s] \in Processes /\ scripts[s].posts # "SUCCESSFUL"
  BY <1>1 DEF TypeOK, NoneUploaded
<1>3. scripts'[s].posts # "SUCCESSFUL"
  BY <1>1, <1>2 DEF TypeOK, Processes
<1>4. \A r \in Scripts \ {s} : scripts'[r] = scripts[r]
  BY <1>1 DEF TypeOK
<1> QED
  BY <1>3, <1>4 DEF NoneUploaded

----------------------------------------------------------------------------
\* No step claims an image that no script has reported.

LEMMA InstancesClaimNothing ==
  ASSUME TypeOK, NothingClaimed, NEW g \in Greenlets,
         \/ CreateMachine(g) \/ CreationRefused(g) \/ RecordMachine(g)
         \/ PollAnswered(g) \/ RecordDeletion(g) \/ ConfirmDeletion(g) \/ ProviderRefuses(g)
  PROVE NothingClaimed'
<1> USE DEF NothingClaimed
<1>1. /\ \/ CreateMachine(g)
         \/ Ends(g)
      /\ UNCHANGED <<scripts, waiting>>
  BY DEF CreationRefused, RecordMachine, PollAnswered, RecordDeletion, ConfirmDeletion,
         ProviderRefuses, CreateMachine
<1>2. NoneCleans'
  <2>1. CASE CreateMachine(g)
    <3>1. PICK m \in Machines :
            calls' = [calls EXCEPT ![g].machine = m, ![g].doing = "created"]
      BY <2>1 DEF CreateMachine, First
    <3>2. \A h \in Greenlets : calls'[h].doing = IF h = g THEN "created" ELSE calls[h].doing
      BY <3>1 DEF TypeOK, Calls
    <3> QED
      BY <3>2 DEF NoneCleans
  <2>2. CASE Ends(g)
    BY <2>2, EndsCleansNothing
  <2> QED
    BY <1>1, <2>1, <2>2
<1>3. NoneUploaded'
  BY <1>1 DEF NoneUploaded
<1>4. task'.status # "SUCCESSFUL" /\ task'.step \notin Claimed
  <2>1. \/ UNCHANGED task \/ SetTask(g, "RUNNING") \/ SetTask(g, "FAILED")
        \/ Remove(calls[g].row)
    BY DEF CreationRefused, RecordMachine, PollAnswered, RecordDeletion, ConfirmDeletion,
           ProviderRefuses, CreateMachine
  <2>2. CASE UNCHANGED task
    BY <2>2
  <2>3. CASE SetTask(g, "RUNNING") \/ SetTask(g, "FAILED")
    BY <2>3, SetTaskClaimsNothing
  <2>4. CASE Remove(calls[g].row)
    BY <2>4 DEF Remove, TypeOK, Tasks
  <2> QED
    BY <2>1, <2>2, <2>3, <2>4
<1> QED
  BY <1>1, <1>2, <1>3, <1>4

LEMMA DeleteClaimsNothing ==
  ASSUME TypeOK, NothingClaimed, NEW g \in Greenlets, DeleteMachine(g)
  PROVE NothingClaimed'
<1> USE DEF NothingClaimed
<1>1. CASE (Remove(calls[g].row) \/ UNCHANGED <<rows, task>>) /\ Ends(g) /\ UNCHANGED scripts
  <2>1. task'.status = task.status /\ task'.step = task.step
    BY <1>1 DEF Remove, TypeOK, Tasks
  <2>2. NoneCleans'
    BY <1>1, EndsCleansNothing
  <2> QED
    BY <1>1, <2>1, <2>2 DEF DeleteMachine, NoneUploaded
<1>2. CASE /\ scripts' = [s \in Scripts |-> IF s \in Running(calls[g].machine) THEN NoScript
                                           ELSE scripts[s]]
           /\ GoesOn(g, "deleted") /\ UNCHANGED task
  <2>1. NoneCleans'
    BY <1>2 DEF GoesOn, TypeOK, NoneCleans, Calls
  <2>2. NoneUploaded'
    BY <1>2 DEF NoneUploaded, NoScript
  <2> QED
    BY <1>2, <2>1, <2>2 DEF DeleteMachine
<1> QED
  BY <1>1, <1>2 DEF DeleteMachine

LEMMA ConversionClaimsNothing ==
  ASSUME TypeOK, NothingClaimed, NEW g \in Greenlets,
         Connect(g) \/ Upload(g) \/ RunScript(g) \/ SshFails(g)
  PROVE NothingClaimed'
<1> USE DEF NothingClaimed
<1>1. CASE Connect(g) \/ Upload(g)
  <2>1. calls[g].doing \in OnTask
    BY <1>1 DEF Connect, Upload, Doing, OnTask
  <2>2. \/ StepTo(g, "FILES_UPLOADING", "upload") \/ StepTo(g, "IMAGE_DOWNLOADING", "download")
    BY <1>1 DEF Connect, Upload
  <2>3. task'.status # "SUCCESSFUL" /\ task'.step \notin Claimed
    BY <2>1, <2>2, StepToClaimsNothing DEF Claimed
  <2>4. NoneCleans'
    BY <2>2 DEF StepTo, TypeOK, NoneCleans, Calls
  <2> QED
    BY <1>1, <2>3, <2>4 DEF Connect, Upload, NoneUploaded
<1>2. CASE RunScript(g)
  <2>1. NoneCleans'
    BY <1>2, EndsCleansNothing DEF RunScript
  <2>2. NoneUploaded'
    BY <1>2, StartClaimsNothing DEF RunScript
  <2> QED
    BY <1>2, <2>1, <2>2 DEF RunScript
<1>3. CASE SshFails(g)
  <2>1. PICK made : Made(calls[g].seen, made) /\ Save(g, made)
    BY <1>3, SshMakes
  <2>2. task'.status # "SUCCESSFUL" /\ task'.step \notin Claimed
    BY <2>1, SaveClaimsNothing DEF Made, Claimed
  <2>3. NoneCleans'
    BY <1>3, EndsCleansNothing DEF SshFails
  <2>4. NoneUploaded'
    BY <1>3, StartClaimsNothing DEF SshFails, NoneUploaded
  <2> QED
    BY <1>3, <2>2, <2>3, <2>4 DEF SshFails
<1> QED
  BY <1>1, <1>2, <1>3

LEMMA DistributorClaimsNothing ==
  ASSUME TypeOK, NothingClaimed, NEW i, RetireInstance(i) \/ AssignInstance \/ DeleteResidue(i)
  PROVE NothingClaimed'
<1>1. task'.status = task.status /\ task'.step = task.step
  BY DEF RetireInstance, AssignInstance, DeleteResidue, TypeOK, Tasks
<1>2. UNCHANGED <<waiting, calls, scripts>>
  BY DEF RetireInstance, AssignInstance, DeleteResidue
<1> QED
  BY <1>1, <1>2 DEF NothingClaimed, NoneCleans, NoneUploaded

LEMMA BeginClaimsNothing ==
  ASSUME TypeOK, NothingClaimed, NEW g \in Greenlets, NEW i \in Instances, Begin(g, i)
  PROVE NothingClaimed'
<1>. PICK doing \in OnInstances : \E seen : Starts(g, i, doing, seen)
  BY DEF Begin, initiate_pending_instance_creation, get_update_creating_instance,
         initiate_pending_instance_deletion, get_delete_deleting_instance, OnInstances
<1>1. PICK seen : Starts(g, i, doing, seen)
  OBVIOUS
<1>2. doing # "clean"
  BY DEF OnInstances
<1>3. NoneCleans'
  BY <1>1, <1>2, BeginsCleansNothing DEF Starts, NothingClaimed
<1> QED
  BY <1>1, <1>3 DEF Starts, NothingClaimed, NoneUploaded

\* The janitor is neither sent nor received, and what is received does not clean up.
LEMMA ExecutorClaimsNothing ==
  ASSUME TypeOK, NothingClaimed, NEW fn \in {"initiate", "janitor"},
         image_conversion_pending_task_executor(fn)
  PROVE NothingClaimed'
<1> USE DEF NothingClaimed
<1>1. fn = "initiate"
  BY DEF image_conversion_pending_task_executor, Claimed
<1>2. waiting'["janitor"] = 0
  BY <1>1 DEF image_conversion_pending_task_executor, TypeOK
<1> QED
  BY <1>2 DEF image_conversion_pending_task_executor, NoneCleans, NoneUploaded

LEMMA ReceiveClaimsNothing ==
  ASSUME TypeOK, NothingClaimed, NEW g \in Greenlets,
         initiate_image_conversion(g) \/ initiate_image_conversion_janitor(g)
  PROVE NothingClaimed'
<1> USE DEF NothingClaimed
<1>1. initiate_image_conversion(g)
  BY DEF initiate_image_conversion_janitor, Receive
<1>2. waiting'["janitor"] = 0
  BY <1>1 DEF initiate_image_conversion, Receive, TypeOK
<1>3. NoneCleans'
  BY <1>1, BeginsCleansNothing DEF initiate_image_conversion, NoneCleans
<1> QED
  BY <1>1, <1>2, <1>3 DEF initiate_image_conversion, NoneUploaded

LEMMA CrashClaimsNothing ==
  ASSUME TypeOK, NothingClaimed, Crash
  PROVE NothingClaimed'
  BY DEF Crash, Idle, NothingClaimed, NoneCleans, NoneUploaded

\* A script claims the image when it has uploaded it.
LEMMA ConvertClaims ==
  ASSUME TypeOK, NothingClaimed, NEW s \in Scripts, Convert(s), ~history'.uploaded
  PROVE NothingClaimed'
<1>1. PICK status \in {"SUCCESSFUL", "FAILED"} :
        /\ scripts' = [scripts EXCEPT ![s].posts = status]
        /\ history' = [history EXCEPT !.uploaded =
                         @ \/ (scripts[s].at = Stages /\ status = "SUCCESSFUL")]
  BY DEF Convert, Outcomes
<1>2. ~(scripts[s].at = Stages /\ status = "SUCCESSFUL")
  BY <1>1 DEF TypeOK
<1>3. scripts[s].at # 0
  BY DEF Convert
<1>4. /\ scripts'[s].posts = status /\ scripts'[s].at = scripts[s].at
      /\ \A r \in Scripts \ {s} : scripts'[r] = scripts[r]
  BY <1>1 DEF TypeOK, Processes
<1>5. NoneUploaded'
  BY <1>2, <1>3, <1>4 DEF NothingClaimed, NoneUploaded
<1> QED
  BY <1>5 DEF Convert, NothingClaimed, NoneCleans

\* A report of a stage before the last one claims nothing.
LEMMA ReportClaimsNothing ==
  ASSUME TypeOK, NothingClaimed, NEW s \in Scripts, update_image_conversion_task(s)
  PROVE NothingClaimed'
<1> USE DEF NothingClaimed
<1>1. scripts[s].posts = "FAILED" \/ scripts[s].at # Stages
  BY DEF update_image_conversion_task, NoneUploaded, TypeOK, Processes
<1>2. task'.status # "SUCCESSFUL" /\ task'.step \notin Claimed
  <2>1. CASE scripts[s].posts = "FAILED"
    BY <2>1 DEF update_image_conversion_task, AfterReport, TypeOK, Tasks
  <2>2. CASE scripts[s].posts # "FAILED"
    <3>1. scripts[s].at < Stages
      BY <1>1, <2>2, ConversionAssumption DEF TypeOK, Processes
    <3>2. StepAfter(scripts[s].at) = "IMAGE_CONVERTING"
      BY <3>1 DEF StepAfter
    <3>3. task' = [task EXCEPT !.step = "IMAGE_CONVERTING"]
      BY <2>2, <3>2 DEF update_image_conversion_task, AfterReport
    <3> QED
      BY <3>3 DEF TypeOK, Tasks, Claimed
  <2> QED
    BY <2>1, <2>2
<1>3. NoneUploaded'
  <2>1. \/ UNCHANGED scripts
        \/ scripts' = [scripts EXCEPT ![s] = Answered(scripts[s])]
    BY DEF update_image_conversion_task
  <2>2. Answered(scripts[s]).posts # "SUCCESSFUL"
    BY DEF Answered, NoScript, TypeOK, Processes
  <2> QED
    BY <2>1, <2>2 DEF NoneUploaded, TypeOK
<1> QED
  BY <1>2, <1>3 DEF update_image_conversion_task, NoneCleans

----------------------------------------------------------------------------

\* What has been uploaded stays uploaded.
LEMMA UploadsStand == TypeOK /\ [Next]_vars /\ history.uploaded => history'.uploaded
  BY DEF TypeOK, Next, vars, Begin, Proceed, Remember, Starts,
     initiate_pending_instance_creation, get_update_creating_instance,
     initiate_pending_instance_deletion, get_delete_deleting_instance,
     CreateMachine, CreationRefused, RecordMachine, PollAnswered, DeleteMachine,
     RecordDeletion, ConfirmDeletion, Connect, Upload, RunScript, SshFails, CleanUp,
     ProviderRefuses, initiate_image_conversion, initiate_image_conversion_janitor,
     AssignInstance, image_conversion_pending_task_executor, RetireInstance, DeleteResidue,
     Convert, update_image_conversion_task, Crash

LEMMA StepEvidence == TypeOK /\ Evidence /\ [Next]_vars => Evidence'
<1> SUFFICES ASSUME TypeOK, Evidence, [Next]_vars, ~history'.uploaded
             PROVE NothingClaimed'
  BY DEF Evidence
<1>1. NothingClaimed
  BY UploadsStand DEF Evidence
<1>2. CASE UNCHANGED vars
  BY <1>1, <1>2 DEF vars, NothingClaimed, NoneCleans, NoneUploaded
<1>3. ASSUME NEW g \in Greenlets, Proceed(g) \/ ProviderRefuses(g)
      PROVE NothingClaimed'
  <2>1. ~CleanUp(g)
    BY <1>1 DEF CleanUp, Doing, NothingClaimed, NoneCleans
  <2> QED
    BY <1>1, <1>3, <2>1, InstancesClaimNothing, DeleteClaimsNothing,
       ConversionClaimsNothing DEF Proceed
<1>4. ASSUME NEW g \in Greenlets, NEW i \in Instances, Begin(g, i)
      PROVE NothingClaimed'
  BY <1>1, <1>4, BeginClaimsNothing
<1>5. ASSUME NEW g \in Greenlets,
             initiate_image_conversion(g) \/ initiate_image_conversion_janitor(g)
      PROVE NothingClaimed'
  BY <1>1, <1>5, ReceiveClaimsNothing
<1>6. ASSUME NEW fn \in {"initiate", "janitor"}, image_conversion_pending_task_executor(fn)
      PROVE NothingClaimed'
  BY <1>1, <1>6, ExecutorClaimsNothing
<1>7. CASE AssignInstance \/ \E i \in Instances : RetireInstance(i) \/ DeleteResidue(i)
  BY <1>1, <1>7, DistributorClaimsNothing
<1>8. ASSUME NEW s \in Scripts, Convert(s) \/ update_image_conversion_task(s)
      PROVE NothingClaimed'
  BY <1>1, <1>8, ConvertClaims, ReportClaimsNothing
<1>9. CASE Crash
  BY <1>1, <1>9, CrashClaimsNothing
<1> QED
  BY <1>2, <1>3, <1>4, <1>5, <1>6, <1>7, <1>8, <1>9 DEF Next

\* As long as no script has uploaded the image, nothing in the database, the queue
\* or a greenlet says that one has.
THEOREM EvidenceCorrect == Spec => []Evidence
<1>1. Init => Evidence
  BY InitEvidence
<1>2. TypeOK /\ Evidence /\ [Next]_vars => Evidence'
  BY StepEvidence
<1> QED
  BY <1>1, <1>2, TypeCorrect, PTL DEF Spec

\* A task is SUCCESSFUL only after a script has uploaded its image, with any number of
\* greenlets, overlapping calls, repeated reports, retries, scripts and crashes.
THEOREM SuccessIsUploadedCorrect == Spec => []SuccessIsUploaded
<1>1. Evidence => SuccessIsUploaded
  BY DEF Evidence, NothingClaimed, SuccessIsUploaded
<1> QED
  BY <1>1, EvidenceCorrect, PTL

-----------------------------------------------------------------------------
(***************************************************************************)
(* No machine is deleted under a script that still converts: whatever      *)
(* greenlets, rows, machines and scripts there are, a machine belongs to   *)
(* one row, and a row comes to its deletion only when the task has ended   *)
(* or because the row was too old.                                         *)
(***************************************************************************)

(***************************************************************************)
(* Whose a machine is.  The row that it was made for is told of by rows,   *)
(* calls and scripts, which read it from one another at different times.   *)
(***************************************************************************)
RowNames(i, m) == i \in Instances /\ (rows[i].machine = m \/ rows[i].address = m)
CallNames(i, m) == \E g \in Greenlets : calls[g].row = i /\ calls[g].machine = m
ScriptNames(i, m) == \E s \in Scripts : scripts[s].row = i /\ scripts[s].machine = m
Names(i, m) == RowNames(i, m) \/ CallNames(i, m) \/ ScriptNames(i, m)

Owners == Instances \cup {None}

MachinesOwned ==
  \A m \in Machines : \A i \in Owners : Names(i, m) =>
    machines[m] # "none" /\ \A j \in Owners : Names(j, m) => i = j

(***************************************************************************)
(* When a row goes: its task has ended, or its age is the reason.          *)
(***************************************************************************)
Over(i) == history.ended \/ i \in history.overdue

Deletes == {"delete", "deleted", "confirm"}

EndIsRemembered == task.status \in Ended => history.ended

\* A row that has been assigned is that of the task until it is over.
RowsAreTheTasks ==
  \A i \in Instances : rows[i].status # "none" => task.instance = i \/ Over(i)

GoingIsOver ==
  \A i \in Instances : rows[i].status \in {"DELETE_PENDING", "DELETING", "gone"} => Over(i)

DeletingIsOver == \A g \in Greenlets : calls[g].doing \in Deletes => Over(calls[g].row)

OverInOrder == EndIsRemembered /\ RowsAreTheTasks /\ GoingIsOver /\ DeletingIsOver

LEMMA InitDeletion == Init => MachinesOwned /\ OverInOrder
<1> SUFFICES ASSUME Init PROVE MachinesOwned /\ OverInOrder
  OBVIOUS
<1>1. \A m \in Machines : m # None
  BY ConversionAssumption
<1>2. \A m \in Machines, i \in Owners : ~Names(i, m)
  BY <1>1 DEF Init, Names, RowNames, CallNames, ScriptNames, Absent, Idle, NoScript
<1>3. MachinesOwned
  BY <1>2 DEF MachinesOwned
<1>4. OverInOrder
  BY DEF Init, OverInOrder, EndIsRemembered, RowsAreTheTasks, GoingIsOver, DeletingIsOver,
     Absent, Idle, Ended, Deletes
<1> QED
  BY <1>3, <1>4

-----------------------------------------------------------------------------
(* One record at a time.                                                   *)

\* What is said after a step of rows, calls and scripts has been said before.
LEMMA NothingNewNamed ==
  ASSUME MachinesOwned,
         \A m \in Machines, i \in Owners : RowNames(i, m)' => Names(i, m),
         \A m \in Machines, i \in Owners : CallNames(i, m)' => Names(i, m),
         \A m \in Machines, i \in Owners : ScriptNames(i, m)' => Names(i, m),
         \A m \in Machines : machines'[m] = "none" => machines[m] = "none"
  PROVE  MachinesOwned'
<1>1. \A m \in Machines, i \in Owners : Names(i, m)' => Names(i, m)
  BY DEF Names
<1> QED
  BY <1>1 DEF MachinesOwned, Owners

LEMMA SameRowNames ==
  ASSUME UNCHANGED rows
  PROVE  \A m \in Machines, i \in Owners : RowNames(i, m)' => Names(i, m)
  BY DEF RowNames, Names

LEMMA SameCallNames ==
  ASSUME UNCHANGED calls
  PROVE  \A m \in Machines, i \in Owners : CallNames(i, m)' => Names(i, m)
  BY DEF CallNames, Names

LEMMA SameScriptNames ==
  ASSUME UNCHANGED scripts
  PROVE  \A m \in Machines, i \in Owners : ScriptNames(i, m)' => Names(i, m)
  BY DEF ScriptNames, Names

\* The row of one instance is written with machines it had or a call had for it.
LEMMA RowWritten ==
  ASSUME TypeOK, NEW i \in Instances, NEW row, rows' = [rows EXCEPT ![i] = row],
         row.machine = None \/ Names(i, row.machine),
         row.address = None \/ Names(i, row.address)
  PROVE  \A m \in Machines, j \in Owners : RowNames(j, m)' => Names(j, m)
<1>1. rows'[i] = row /\ \A j \in Instances : j # i => rows'[j] = rows[j]
  BY DEF TypeOK
<1>2. \A m \in Machines : m # None
  BY ConversionAssumption
<1> QED
  BY <1>1, <1>2 DEF RowNames, Names

LEMMA CallWritten ==
  ASSUME TypeOK, NEW g \in Greenlets, NEW call, calls' = [calls EXCEPT ![g] = call],
         call.machine = None \/ Names(call.row, call.machine)
  PROVE  \A m \in Machines, j \in Owners : CallNames(j, m)' => Names(j, m)
<1>1. calls'[g] = call /\ \A h \in Greenlets : h # g => calls'[h] = calls[h]
  BY DEF TypeOK
<1>2. \A m \in Machines : m # None
  BY ConversionAssumption
<1> QED
  BY <1>1, <1>2 DEF CallNames, Names

LEMMA ScriptWritten ==
  ASSUME TypeOK, NEW s \in Scripts, NEW script, scripts' = [scripts EXCEPT ![s] = script],
         script.machine = None \/ Names(script.row, script.machine)
  PROVE  \A m \in Machines, j \in Owners : ScriptNames(j, m)' => Names(j, m)
<1>1. scripts'[s] = script /\ \A r \in Scripts : r # s => scripts'[r] = scripts[r]
  BY DEF TypeOK
<1>2. \A m \in Machines : m # None
  BY ConversionAssumption
<1> QED
  BY <1>1, <1>2 DEF ScriptNames, Names

LEMMA CallIsNamed ==
  ASSUME NEW g \in Greenlets
  PROVE  Names(calls[g].row, calls[g].machine)
  BY DEF Names, CallNames

LEMMA EndsNamed ==
  ASSUME TypeOK, NEW g \in Greenlets, Ends(g)
  PROVE  \A m \in Machines, i \in Owners : CallNames(i, m)' => Names(i, m)
<1>1. Idle.machine = None
  BY DEF Idle
<1> QED
  BY <1>1, CallWritten DEF Ends

\* A row goes with its machine.
LEMMA RemovedNamed ==
  ASSUME TypeOK, NEW i \in Instances, Remove(i)
  PROVE  \A m \in Machines, j \in Owners : RowNames(j, m)' => Names(j, m)
<1>1. PICK row : row = [Absent EXCEPT !.status = "gone"]
  OBVIOUS
<1>2. row.machine = None /\ row.address = None
  BY <1>1 DEF Absent
<1> QED
  BY <1>1, <1>2, RowWritten DEF Remove

-----------------------------------------------------------------------------
(* The steps, and whose machines are.                                      *)

LEMMA DistributorOwned ==
  ASSUME TypeOK, MachinesOwned,
         AssignInstance \/ \E i \in Instances : RetireInstance(i) \/ DeleteResidue(i)
  PROVE  MachinesOwned'
<1>0. PICK i \in Instances : \E status : rows' = [rows EXCEPT ![i].status = status]
  BY DEF AssignInstance, RetireInstance, DeleteResidue, First
<1>1. PICK status : rows' = [rows EXCEPT ![i].status = status]
  BY <1>0
<1>2. UNCHANGED <<machines, calls, scripts>>
  BY DEF AssignInstance, RetireInstance, DeleteResidue
<1>3. PICK row : row = [rows[i] EXCEPT !.status = status]
  OBVIOUS
<1>4. row.machine = rows[i].machine /\ row.address = rows[i].address
  BY <1>3 DEF TypeOK, Rows
<1>5. rows' = [rows EXCEPT ![i] = row]
  BY <1>1, <1>3
<1>6. Names(i, row.machine) /\ Names(i, row.address)
  BY <1>4 DEF Names, RowNames
<1> QED
  BY <1>2, <1>5, <1>6, RowWritten, SameCallNames, SameScriptNames, NothingNewNamed

LEMMA BeginOwned ==
  ASSUME TypeOK, MachinesOwned, NEW g \in Greenlets, NEW i \in Instances, Begin(g, i)
  PROVE  MachinesOwned'
<1>1. PICK doing, seen : Starts(g, i, doing, seen)
  BY DEF Begin, initiate_pending_instance_creation, get_update_creating_instance,
         initiate_pending_instance_deletion, get_delete_deleting_instance
<1>2. PICK call : call = [doing |-> doing, row |-> i, machine |-> rows[i].machine, seen |-> seen]
  OBVIOUS
<1>3. calls' = [calls EXCEPT ![g] = call] /\ UNCHANGED <<rows, scripts, machines>>
  BY <1>1, <1>2 DEF Starts, Call
<1>4. Names(call.row, call.machine)
  BY <1>2 DEF Names, RowNames
<1> QED
  BY <1>3, <1>4, CallWritten, SameRowNames, SameScriptNames, NothingNewNamed

LEMMA CreateOwned ==
  ASSUME TypeOK, MachinesOwned, NEW g \in Greenlets, CreateMachine(g)
  PROVE  MachinesOwned'
<1>1. PICK m \in Machines : /\ machines[m] = "none" /\ machines' = [machines EXCEPT ![m] = "up"]
                            /\ calls' = [calls EXCEPT ![g].machine = m, ![g].doing = "created"]
  BY DEF CreateMachine, First
<1>2. UNCHANGED <<rows, scripts>>
  BY DEF CreateMachine
<1>3. /\ calls'[g].row = calls[g].row /\ calls'[g].machine = m
      /\ \A h \in Greenlets : h # g => calls'[h] = calls[h]
      /\ calls[g].row \in Owners
  BY <1>1 DEF TypeOK, Calls, Owners
<1>4. /\ machines'[m] = "up"
      /\ \A n \in Machines : n # m => machines'[n] = machines[n]
  BY <1>1 DEF TypeOK
<1>5. \A i \in Owners : ~Names(i, m)
  BY <1>1 DEF MachinesOwned
<1>6. \A i \in Owners : Names(i, m)' => i = calls[g].row
  BY <1>2, <1>3, <1>5 DEF Names, RowNames, CallNames, ScriptNames
<1>7. \A n \in Machines, i \in Owners : n # m /\ Names(i, n)' => Names(i, n)
  BY <1>2, <1>3 DEF Names, RowNames, CallNames, ScriptNames
<1>8. ASSUME NEW n \in Machines, NEW i \in Owners, Names(i, n)'
      PROVE  machines'[n] # "none" /\ \A j \in Owners : Names(j, n)' => i = j
  <2>1. CASE n = m
    BY <1>4, <1>6, <1>8, <2>1
  <2>2. CASE n # m
    BY <1>4, <1>7, <1>8, <2>2 DEF MachinesOwned
  <2> QED
    BY <2>1, <2>2
<1> QED
  BY <1>8 DEF MachinesOwned, Owners

LEMMA RecordOwned ==
  ASSUME TypeOK, MachinesOwned, NEW g \in Greenlets, RecordMachine(g) \/ RecordDeletion(g)
  PROVE  MachinesOwned'
<1>1. PICK i : i = calls[g].row
  OBVIOUS
<1>2. i \in Instances
  BY <1>1 DEF TypeOK, RecordMachine, RecordDeletion, Doing, OnInstances
<1>3. Ends(g) /\ UNCHANGED <<machines, scripts>>
  BY DEF RecordMachine, RecordDeletion
<1>4. Names(i, calls[g].machine) /\ Names(i, rows[i].machine) /\ Names(i, rows[i].address)
  BY <1>1, <1>2, CallIsNamed DEF Names, RowNames
<1>5. \A m \in Machines, j \in Owners : RowNames(j, m)' => Names(j, m)
  <2>1. CASE RecordMachine(g)
    <3>1. PICK row : row = [rows[i] EXCEPT !.machine = calls[g].machine, !.status = "CREATING"]
      OBVIOUS
    <3>2. rows' = [rows EXCEPT ![i] = row] \/ UNCHANGED rows
      BY <1>1, <2>1, <3>1 DEF RecordMachine, Write
    <3>3. row.machine = calls[g].machine /\ row.address = rows[i].address
      BY <1>2, <3>1 DEF TypeOK, Rows
    <3> QED
      BY <1>2, <1>4, <3>2, <3>3, RowWritten, SameRowNames
  <2>2. CASE RecordDeletion(g)
    <3>1. PICK row : row = [rows[i] EXCEPT !.status = "DELETING"]
      OBVIOUS
    <3>2. rows' = [rows EXCEPT ![i] = row] \/ UNCHANGED rows
      BY <1>1, <2>2, <3>1 DEF RecordDeletion, Write
    <3>3. row.machine = rows[i].machine /\ row.address = rows[i].address
      BY <1>2, <3>1 DEF TypeOK, Rows
    <3> QED
      BY <1>2, <1>4, <3>2, <3>3, RowWritten, SameRowNames
  <2> QED
    BY <2>1, <2>2
<1> QED
  BY <1>3, <1>5, EndsNamed, SameScriptNames, NothingNewNamed

LEMMA PollOwned ==
  ASSUME TypeOK, MachinesOwned, NEW g \in Greenlets, PollAnswered(g)
  PROVE  MachinesOwned'
<1>1. PICK i : i = calls[g].row
  OBVIOUS
<1>2. i \in Instances
  BY <1>1 DEF TypeOK, PollAnswered, Doing, OnInstances
<1>3. Ends(g) /\ UNCHANGED <<machines, scripts>>
  BY DEF PollAnswered
<1>4. PICK row : row = [[rows[i] EXCEPT !.status = "ACTIVE"] EXCEPT !.address = calls[g].machine]
  OBVIOUS
<1>5. rows' = [rows EXCEPT ![i] = row] \/ UNCHANGED rows
  <2>1. rows' = [rows EXCEPT ![i].status = "ACTIVE", ![i].address = calls[g].machine]
        \/ UNCHANGED rows
    BY <1>1 DEF PollAnswered
  <2> QED
    BY <1>2, <1>4, <2>1 DEF TypeOK, Rows
<1>6. row.machine = rows[i].machine /\ row.address = calls[g].machine
  BY <1>2, <1>4 DEF TypeOK, Rows
<1>7. Names(i, row.machine) /\ Names(i, row.address)
  BY <1>1, <1>2, <1>6, CallIsNamed DEF Names, RowNames
<1> QED
  BY <1>2, <1>3, <1>5, <1>7, RowWritten, SameRowNames, EndsNamed, SameScriptNames,
     NothingNewNamed

LEMMA DeleteOwned ==
  ASSUME TypeOK, MachinesOwned, NEW g \in Greenlets, DeleteMachine(g) \/ ConfirmDeletion(g)
  PROVE  MachinesOwned'
<1>1. PICK i : i = calls[g].row
  OBVIOUS
<1>2. i \in Instances /\ calls[g] \in Calls
  BY <1>1 DEF TypeOK, DeleteMachine, ConfirmDeletion, Doing, OnInstances
<1>3. \A m \in Machines, j \in Owners : RowNames(j, m)' => Names(j, m)
  <2>1. Remove(i) \/ UNCHANGED rows
    BY <1>1 DEF DeleteMachine, ConfirmDeletion
  <2> QED
    BY <1>2, <2>1, RemovedNamed, SameRowNames
<1>4. \A m \in Machines, j \in Owners : CallNames(j, m)' => Names(j, m)
  <2>1. CASE Ends(g)
    BY <2>1, EndsNamed
  <2>2. CASE GoesOn(g, "deleted")
    <3>1. PICK call : call = [calls[g] EXCEPT !.doing = "deleted"]
      OBVIOUS
    <3>2. call.row = calls[g].row /\ call.machine = calls[g].machine
          /\ calls' = [calls EXCEPT ![g] = call]
      BY <1>2, <2>2, <3>1 DEF GoesOn, Calls
    <3> QED
      BY <3>2, CallIsNamed, CallWritten
  <2> QED
    BY <2>1, <2>2 DEF DeleteMachine, ConfirmDeletion
<1>5. \A m \in Machines, j \in Owners : ScriptNames(j, m)' => Names(j, m)
  <2>1. \A s \in Scripts : scripts'[s] = scripts[s] \/ scripts'[s] = NoScript
    BY DEF DeleteMachine, ConfirmDeletion
  <2>2. NoScript.machine = None /\ \A m \in Machines : m # None
    BY ConversionAssumption DEF NoScript
  <2> QED
    BY <2>1, <2>2 DEF ScriptNames, Names
<1>6. \A m \in Machines : machines'[m] = "none" => machines[m] = "none"
  BY DEF DeleteMachine, ConfirmDeletion, TypeOK
<1> QED
  BY <1>3, <1>4, <1>5, <1>6, NothingNewNamed

\* A call on the task names the instance of the task and its address.
LEMMA ReceiveOwned ==
  ASSUME TypeOK, MachinesOwned, NEW g \in Greenlets,
         initiate_image_conversion(g) \/ initiate_image_conversion_janitor(g)
  PROVE  MachinesOwned'
<1>1. UNCHANGED <<rows, scripts, machines>>
  BY DEF initiate_image_conversion, initiate_image_conversion_janitor
<1>2. \/ UNCHANGED calls
      \/ /\ task.instance # None
         /\ \E doing, seen : Call(g, doing, task.instance, rows[task.instance].address, seen)
  BY DEF initiate_image_conversion, initiate_image_conversion_janitor
<1>3. ASSUME task.instance # None, NEW doing, NEW seen,
             Call(g, doing, task.instance, rows[task.instance].address, seen)
      PROVE  \A m \in Machines, j \in Owners : CallNames(j, m)' => Names(j, m)
  <2>1. PICK i \in Instances : i = task.instance
    BY <1>3 DEF TypeOK, Tasks
  <2>2. PICK call : call = [doing |-> doing, row |-> i, machine |-> rows[i].address,
                            seen |-> seen]
    OBVIOUS
  <2>3. calls' = [calls EXCEPT ![g] = call]
    BY <1>3, <2>1, <2>2 DEF Call
  <2>4. Names(call.row, call.machine)
    BY <2>2 DEF Names, RowNames
  <2> QED
    BY <2>3, <2>4, CallWritten
<1>4. \A m \in Machines, j \in Owners : CallNames(j, m)' => Names(j, m)
  BY <1>2, <1>3, SameCallNames
<1> QED
  BY <1>1, <1>4, SameRowNames, SameScriptNames, NothingNewNamed

LEMMA StartScriptNamed ==
  ASSUME TypeOK, NEW g \in Greenlets, StartScript(g)
  PROVE  \A m \in Machines, j \in Owners : ScriptNames(j, m)' => Names(j, m)
<1>1. PICK s \in Scripts : scripts' = [scripts EXCEPT ![s] = [@ EXCEPT !.row = calls[g].row,
                                                !.at = 1, !.machine = calls[g].machine]]
  BY DEF StartScript, First
<1>2. PICK script : script = [scripts[s] EXCEPT !.row = calls[g].row, !.at = 1,
                                                !.machine = calls[g].machine]
  OBVIOUS
<1>3. script.row = calls[g].row /\ script.machine = calls[g].machine
      /\ scripts' = [scripts EXCEPT ![s] = script]
  BY <1>1, <1>2 DEF TypeOK, Processes
<1> QED
  BY <1>3, CallIsNamed, ScriptWritten

LEMMA StepToNamed ==
  ASSUME TypeOK, NEW g \in Greenlets, NEW step, NEW doing, StepTo(g, step, doing)
  PROVE  \A m \in Machines, j \in Owners : CallNames(j, m)' => Names(j, m)
<1>1. PICK seen : calls' = [calls EXCEPT ![g].doing = doing, ![g].seen = seen]
  BY DEF StepTo
<1>2. /\ calls'[g].row = calls[g].row /\ calls'[g].machine = calls[g].machine
      /\ \A h \in Greenlets : h # g => calls'[h] = calls[h]
  BY <1>1 DEF TypeOK, Calls
<1> QED
  BY <1>2 DEF CallNames, Names

LEMMA ConversionOwned ==
  ASSUME TypeOK, MachinesOwned, NEW g \in Greenlets,
         Connect(g) \/ Upload(g) \/ RunScript(g) \/ SshFails(g) \/ CleanUp(g)
  PROVE  MachinesOwned'
<1>1. UNCHANGED <<rows, machines>>
  BY DEF Connect, Upload, RunScript, SshFails, CleanUp
<1>2. Ends(g) \/ \E step, doing : StepTo(g, step, doing)
  BY DEF Connect, Upload, RunScript, SshFails, CleanUp
<1>3. StartScript(g) \/ UNCHANGED scripts
  BY DEF Connect, Upload, RunScript, SshFails, CleanUp
<1>4. \A m \in Machines, j \in Owners : CallNames(j, m)' => Names(j, m)
  BY <1>2, EndsNamed, StepToNamed
<1> QED
  BY <1>1, <1>3, <1>4, StartScriptNamed, SameScriptNames, SameRowNames, NothingNewNamed

LEMMA ScriptOwned ==
  ASSUME TypeOK, MachinesOwned, NEW s \in Scripts, Convert(s) \/ update_image_conversion_task(s)
  PROVE  MachinesOwned'
<1>1. UNCHANGED <<rows, machines, calls>>
  BY DEF Convert, update_image_conversion_task
<1>2. scripts[s] \in Processes /\ Names(scripts[s].row, scripts[s].machine)
  BY DEF TypeOK, Names, ScriptNames
<1>3. CASE Convert(s)
  <2>1. PICK status : scripts' = [scripts EXCEPT ![s].posts = status]
    BY <1>3 DEF Convert
  <2>2. PICK script : script = [scripts[s] EXCEPT !.posts = status]
    OBVIOUS
  <2>3. script.row = scripts[s].row /\ script.machine = scripts[s].machine
        /\ scripts' = [scripts EXCEPT ![s] = script]
    BY <1>2, <2>1, <2>2 DEF Processes
  <2> QED
    BY <1>1, <1>2, <2>3, ScriptWritten, SameCallNames, SameRowNames, NothingNewNamed
<1>4. CASE update_image_conversion_task(s)
  <2>1. UNCHANGED scripts \/ scripts' = [scripts EXCEPT ![s] = Answered(scripts[s])]
    BY <1>4 DEF update_image_conversion_task
  <2>2. \/ Answered(scripts[s]).machine = None
        \/ Names(Answered(scripts[s]).row, Answered(scripts[s]).machine)
    BY <1>2 DEF Answered, NoScript, Processes
  <2> QED
    BY <1>1, <2>1, <2>2, ScriptWritten, SameScriptNames, SameCallNames, SameRowNames,
       NothingNewNamed
<1> QED
  BY <1>3, <1>4

LEMMA StepOwned == TypeOK /\ MachinesOwned /\ [Next]_vars => MachinesOwned'
<1> SUFFICES ASSUME TypeOK, MachinesOwned, [Next]_vars PROVE MachinesOwned'
  OBVIOUS
<1>1. ASSUME NEW g \in Greenlets, Proceed(g) PROVE MachinesOwned'
  <2>1. CASE CreationRefused(g)
    BY <2>1, EndsNamed, SameRowNames, SameScriptNames, NothingNewNamed DEF CreationRefused
  <2> QED
    BY <1>1, <2>1, CreateOwned, RecordOwned, PollOwned, DeleteOwned, ConversionOwned
    DEF Proceed
<1>2. ASSUME NEW g \in Greenlets, ProviderRefuses(g) PROVE MachinesOwned'
  BY <1>2, EndsNamed, SameRowNames, SameScriptNames, NothingNewNamed DEF ProviderRefuses
<1>3. CASE Crash
  <2>1. \A g \in Greenlets : calls'[g].machine = None
    BY <1>3 DEF Crash, Idle
  <2>2. \A m \in Machines, j \in Owners : CallNames(j, m)' => Names(j, m)
    BY <2>1, ConversionAssumption DEF CallNames
  <2> QED
    BY <1>3, <2>2, SameRowNames, SameScriptNames, NothingNewNamed DEF Crash
<1>4. CASE \/ UNCHANGED vars
           \/ \E fn \in {"initiate", "janitor"} : image_conversion_pending_task_executor(fn)
  BY <1>4, SameRowNames, SameCallNames, SameScriptNames, NothingNewNamed
  DEF vars, image_conversion_pending_task_executor
<1> QED
  BY <1>1, <1>2, <1>3, <1>4, DistributorOwned, BeginOwned, ReceiveOwned, ScriptOwned DEF Next

-----------------------------------------------------------------------------
(* The steps, and what is over.                                            *)

LEMMA OverStays ==
  ASSUME TypeOK, [Next]_vars
  PROVE  /\ history.ended => history'.ended
         /\ \A i \in Instances : Over(i) => Over(i)'
<1>1. \/ history' = history
      \/ Remember
      \/ \E i \in Instances : history' = [history EXCEPT !.overdue = @ \cup {i}]
      \/ \E uploaded : history' = [history EXCEPT !.uploaded = uploaded]
  BY DEF Next, vars, Begin, Proceed, Starts,
     initiate_pending_instance_creation, get_update_creating_instance,
     initiate_pending_instance_deletion, get_delete_deleting_instance,
     CreateMachine, CreationRefused, RecordMachine, PollAnswered, DeleteMachine,
     RecordDeletion, ConfirmDeletion, Connect, Upload, RunScript, SshFails, CleanUp,
     ProviderRefuses, initiate_image_conversion, initiate_image_conversion_janitor,
     AssignInstance, image_conversion_pending_task_executor, RetireInstance, DeleteResidue,
     Convert, update_image_conversion_task, Crash
<1>2. history \in [overdue : SUBSET Instances, ended : BOOLEAN, uploaded : BOOLEAN]
  BY DEF TypeOK
<1>3. CASE Remember
  BY <1>2, <1>3 DEF Remember, Over
<1>4. ASSUME NEW i, history' = [history EXCEPT !.overdue = @ \cup {i}]
      PROVE  /\ history.ended => history'.ended
             /\ \A j \in Instances : Over(j) => Over(j)'
  BY <1>2, <1>4 DEF Over
<1>5. ASSUME NEW uploaded, history' = [history EXCEPT !.uploaded = uploaded]
      PROVE  /\ history.ended => history'.ended
             /\ \A j \in Instances : Over(j) => Over(j)'
  BY <1>2, <1>5 DEF Over
<1> QED
  BY <1>1, <1>3, <1>4, <1>5 DEF Over

\* What a step may do to a row, and what a call may do after it.
Going == {"DELETE_PENDING", "DELETING", "gone"}
RowAllowed(i) == /\ rows'[i].status # "none" => rows[i].status # "none"
                 /\ rows'[i].status \in Going => Over(i)'
CallAllowed(g) ==
  calls'[g].doing \in Deletes => calls'[g].row \in Instances /\ Over(calls'[g].row)

\* A step that takes no other row on its way out, lets the task have the instance that
\* it needs, and remembers the end of the task.
LEMMA NothingOver ==
  ASSUME TypeOK, OverInOrder, [Next]_vars,
         \A i \in Instances : task.instance = i => task'.instance = i \/ Over(i)',
         \/ task'.status = task.status
         \/ history'.ended = (history.ended \/ task'.status \in Ended),
         \A i \in Instances : RowAllowed(i),
         \A g \in Greenlets : CallAllowed(g)
  PROVE  OverInOrder'
<1>1. \A i \in Instances : Over(i) => Over(i)'
  BY OverStays
<1>2. EndIsRemembered'
  BY OverStays DEF OverInOrder, EndIsRemembered
<1>3. RowsAreTheTasks'
  BY <1>1 DEF OverInOrder, RowsAreTheTasks, RowAllowed
<1>4. GoingIsOver'
  BY DEF GoingIsOver, RowAllowed, Going
<1>5. DeletingIsOver'
  BY <1>1 DEF DeletingIsOver, CallAllowed
<1> QED
  BY <1>2, <1>3, <1>4, <1>5 DEF OverInOrder

LEMMA SameRowAllowed ==
  ASSUME TypeOK, OverInOrder, [Next]_vars, NEW i \in Instances,
         rows'[i].status = rows[i].status
  PROVE  RowAllowed(i)
  BY OverStays DEF OverInOrder, GoingIsOver, RowAllowed, Going

LEMMA SameCallAllowed ==
  ASSUME TypeOK, OverInOrder, NEW g \in Greenlets, calls'[g] = calls[g]
  PROVE  CallAllowed(g)
  BY DEF TypeOK, OverInOrder, DeletingIsOver, CallAllowed, Deletes, OnInstances

LEMMA EndsAllowed ==
  ASSUME TypeOK, OverInOrder, NEW g \in Greenlets, Ends(g)
  PROVE  \A h \in Greenlets : CallAllowed(h)
<1>1. CallAllowed(g)
  BY DEF Ends, TypeOK, CallAllowed, Idle, Deletes
<1>2. \A h \in Greenlets : h # g => calls'[h] = calls[h]
  BY DEF Ends, TypeOK
<1> QED
  BY <1>1, <1>2, SameCallAllowed

\* A call for a row that is over, or that deletes nothing.
LEMMA CalledAllowed ==
  ASSUME TypeOK, OverInOrder, NEW g \in Greenlets, NEW doing, NEW i, NEW m, NEW seen,
         Call(g, doing, i, m, seen), doing \in Deletes => i \in Instances /\ Over(i)
  PROVE  \A h \in Greenlets : CallAllowed(h)
<1>1. calls'[g].doing = doing /\ calls'[g].row = i
  BY DEF Call, TypeOK
<1>2. CallAllowed(g)
  BY <1>1 DEF CallAllowed
<1>3. \A h \in Greenlets : h # g => calls'[h] = calls[h]
  BY DEF Call, TypeOK
<1> QED
  BY <1>2, <1>3, SameCallAllowed

\* A call that goes on with its row.
LEMMA NextCallAllowed ==
  ASSUME TypeOK, OverInOrder, NEW g \in Greenlets, calls'[g].row = calls[g].row,
         calls'[g].doing \in Deletes => calls[g].doing \in Deletes,
         \A h \in Greenlets : h # g => calls'[h] = calls[h]
  PROVE  \A h \in Greenlets : CallAllowed(h)
<1>1. CallAllowed(g)
  BY DEF TypeOK, OverInOrder, DeletingIsOver, CallAllowed, Deletes, OnInstances
<1> QED
  BY <1>1, SameCallAllowed

LEMMA SaveKeepsInstance ==
  ASSUME TypeOK, NEW g \in Greenlets, NEW made, Save(g, made)
  PROVE  /\ task'.instance = task.instance
         /\ made.status = calls[g].seen.status => task'.status = task.status
<1>1. PICK status, step, retries :
        /\ task' = [task EXCEPT !.status = status, !.step = step, !.retries = retries]
        /\ status = Commit(calls[g].seen.status, made.status, task.status)
  BY DEF Save
<1> QED
  BY <1>1 DEF Commit, TypeOK, Tasks

LEMMA RememberedEnd ==
  ASSUME TypeOK, Remember
  PROVE  history'.ended = (history.ended \/ task'.status \in Ended)
  BY DEF TypeOK, Remember

LEMMA DistributorOver ==
  ASSUME TypeOK, OverInOrder, [Next]_vars,
         AssignInstance \/ \E i \in Instances : RetireInstance(i) \/ DeleteResidue(i)
  PROVE  OverInOrder'
<1>1. UNCHANGED calls
  BY DEF AssignInstance, RetireInstance, DeleteResidue
<1>2. \A g \in Greenlets : CallAllowed(g)
  BY <1>1, SameCallAllowed
<1>3. task'.status = task.status
  BY DEF AssignInstance, RetireInstance, DeleteResidue, TypeOK, Tasks
<1>4. \A i \in Instances : Over(i) => Over(i)'
  BY OverStays
<1>5. CASE AssignInstance
  <2>1. PICK i \in Instances : /\ rows' = [rows EXCEPT ![i].status = "CREATE_PENDING"]
                               /\ task' = [task EXCEPT !.instance = i]
    BY <1>5 DEF AssignInstance, First
  <2>2. task'.instance = i /\ task.instance = None
    BY <1>5, <2>1 DEF AssignInstance, TypeOK, Tasks
  <2>3. /\ rows'[i].status = "CREATE_PENDING"
        /\ \A j \in Instances : j # i => rows'[j] = rows[j]
    BY <2>1 DEF TypeOK, Rows
  <2>4. \A j \in Instances : rows[j].status # "none" => Over(j)
    BY <2>2, ConversionAssumption DEF OverInOrder, RowsAreTheTasks
  <2>5. RowsAreTheTasks'
    BY <1>4, <2>2, <2>3, <2>4 DEF RowsAreTheTasks
  <2>6. GoingIsOver'
    BY <1>4, <2>3 DEF OverInOrder, GoingIsOver
  <2>7. EndIsRemembered' /\ DeletingIsOver'
    BY <1>1, <1>3, <1>4, <1>5
    DEF AssignInstance, OverInOrder, EndIsRemembered, DeletingIsOver, Over
  <2> QED
    BY <2>5, <2>6, <2>7 DEF OverInOrder
<1>6. ASSUME NEW i \in Instances, RetireInstance(i) PROVE OverInOrder'
  <2>1. Over(i)
    BY <1>6 DEF RetireInstance, InstanceIsDone, OverInOrder, RowsAreTheTasks, EndIsRemembered,
       Over
  <2>2. \A j \in Instances : task.instance = j => task'.instance = j \/ Over(j)'
    BY <1>4, <1>6, <2>1 DEF RetireInstance
  <2>3. rows[i].status # "none" /\ \A j \in Instances : j # i => rows'[j] = rows[j]
    BY <1>6 DEF RetireInstance, TypeOK
  <2>4. \A j \in Instances : RowAllowed(j)
    BY <1>4, <2>1, <2>3, SameRowAllowed DEF RowAllowed
  <2> QED
    BY <1>2, <1>3, <2>2, <2>4, NothingOver
<1>7. ASSUME NEW i \in Instances, DeleteResidue(i) PROVE OverInOrder'
  <2>1. Over(i)' /\ rows[i].status # "none" /\ task' = task
    BY <1>7 DEF DeleteResidue, Exists, TypeOK, Over
  <2>2. \A j \in Instances : j # i => rows'[j] = rows[j]
    BY <1>7 DEF DeleteResidue, TypeOK
  <2>3. \A j \in Instances : RowAllowed(j)
    BY <2>1, <2>2, SameRowAllowed DEF RowAllowed
  <2> QED
    BY <1>2, <1>3, <2>1, <2>3, NothingOver
<1> QED
  BY <1>5, <1>6, <1>7

\* What leaves the rows and the instance of the task alone.
LEMMA RowsKeptOver ==
  ASSUME TypeOK, OverInOrder, [Next]_vars, UNCHANGED rows, task'.instance = task.instance,
         \/ task'.status = task.status
         \/ history'.ended = (history.ended \/ task'.status \in Ended),
         \A g \in Greenlets : CallAllowed(g)
  PROVE  OverInOrder'
  BY NothingOver, SameRowAllowed

LEMMA BeginOver ==
  ASSUME TypeOK, OverInOrder, [Next]_vars, NEW g \in Greenlets, NEW i \in Instances,
         Begin(g, i)
  PROVE  OverInOrder'
<1>1. PICK doing, seen : /\ Starts(g, i, doing, seen)
                         /\ doing \in Deletes => rows[i].status \in Going
  BY DEF Begin, initiate_pending_instance_creation, get_update_creating_instance,
         initiate_pending_instance_deletion, get_delete_deleting_instance, Deletes, Going
<1>2. doing \in Deletes => Over(i)
  BY <1>1 DEF OverInOrder, GoingIsOver, Going
<1>3. \A h \in Greenlets : CallAllowed(h)
  BY <1>1, <1>2, CalledAllowed DEF Starts
<1> QED
  BY <1>1, <1>3, RowsKeptOver DEF Starts

LEMMA CreationOver ==
  ASSUME TypeOK, OverInOrder, [Next]_vars, NEW g \in Greenlets,
         CreateMachine(g) \/ CreationRefused(g) \/ RecordMachine(g)
  PROVE  OverInOrder'
<1>1. CASE CreateMachine(g)
  <2>1. PICK m : calls' = [calls EXCEPT ![g].machine = m, ![g].doing = "created"]
    BY <1>1 DEF CreateMachine
  <2>2. /\ calls'[g].row = calls[g].row /\ calls'[g].doing = "created"
        /\ \A h \in Greenlets : h # g => calls'[h] = calls[h]
    BY <2>1 DEF TypeOK, Calls
  <2>3. \A h \in Greenlets : CallAllowed(h)
    BY <2>2, NextCallAllowed DEF Deletes
  <2> QED
    BY <1>1, <2>3, RowsKeptOver DEF CreateMachine
<1>2. CASE CreationRefused(g)
  <2>1. task'.instance = task.instance
    BY <1>2, SaveKeepsInstance DEF CreationRefused, SetTask
  <2> QED
    BY <1>2, <2>1, EndsAllowed, RememberedEnd, RowsKeptOver DEF CreationRefused
<1>3. CASE RecordMachine(g)
  <2>1. PICK i : i = calls[g].row
    OBVIOUS
  <2>2. i \in Instances
    BY <1>3, <2>1 DEF RecordMachine, TypeOK, Doing, OnInstances
  <2>3. \/ UNCHANGED rows
        \/ /\ Exists(i) /\ rows'[i].status = "CREATING"
           /\ \A j \in Instances : j # i => rows'[j] = rows[j]
    BY <1>3, <2>1, <2>2 DEF RecordMachine, Write, TypeOK, Rows
  <2>4. \A j \in Instances : RowAllowed(j)
    BY <2>3, SameRowAllowed DEF RowAllowed, Exists, Going
  <2> QED
    BY <1>3, <2>4, EndsAllowed, NothingOver DEF RecordMachine
<1> QED
  BY <1>1, <1>2, <1>3

LEMMA PollOver ==
  ASSUME TypeOK, OverInOrder, [Next]_vars, NEW g \in Greenlets, PollAnswered(g)
  PROVE  OverInOrder'
<1>1. PICK i : i = calls[g].row
  OBVIOUS
<1>2. i \in Instances
  BY <1>1 DEF PollAnswered, TypeOK, Doing, OnInstances
<1>3. \/ UNCHANGED rows
      \/ /\ Exists(i)
         /\ rows' = [rows EXCEPT ![i].status = "ACTIVE", ![i].address = calls[g].machine]
  BY <1>1 DEF PollAnswered
<1>4. \/ UNCHANGED rows
      \/ /\ Exists(i) /\ rows'[i].status = "ACTIVE"
         /\ \A j \in Instances : j # i => rows'[j] = rows[j]
  BY <1>2, <1>3 DEF TypeOK, Rows
<1>5. \A j \in Instances : RowAllowed(j)
  BY <1>4, SameRowAllowed DEF RowAllowed, Exists, Going
<1>6. UNCHANGED task \/ SetTask(g, "RUNNING") \/ SetTask(g, "FAILED")
  BY DEF PollAnswered
<1>7. task'.instance = task.instance
  BY <1>6, SaveKeepsInstance DEF SetTask
<1>8. Ends(g) /\ Remember
  BY DEF PollAnswered
<1> QED
  BY <1>5, <1>7, <1>8, EndsAllowed, RememberedEnd, NothingOver

LEMMA DeleteOver ==
  ASSUME TypeOK, OverInOrder, [Next]_vars, NEW g \in Greenlets,
         DeleteMachine(g) \/ RecordDeletion(g) \/ ConfirmDeletion(g)
  PROVE  OverInOrder'
<1>1. PICK i : i = calls[g].row
  OBVIOUS
<1>2. i \in Instances /\ Over(i) /\ calls[g].doing \in Deletes
  BY <1>1 DEF DeleteMachine, RecordDeletion, ConfirmDeletion, TypeOK, Doing, OnInstances,
     OverInOrder, DeletingIsOver, Deletes
<1>3. Over(i)'
  BY <1>2, OverStays
<1>4. \A h \in Greenlets : CallAllowed(h)
  <2>1. CASE Ends(g)
    BY <2>1, EndsAllowed
  <2>2. CASE GoesOn(g, "deleted")
    <3>1. /\ calls'[g].row = calls[g].row
          /\ \A h \in Greenlets : h # g => calls'[h] = calls[h]
      BY <2>2 DEF GoesOn, TypeOK, Calls
    <3> QED
      BY <1>2, <3>1, NextCallAllowed
  <2> QED
    BY <2>1, <2>2 DEF DeleteMachine, RecordDeletion, ConfirmDeletion
<1>5. \/ UNCHANGED <<rows, task>>
      \/ Exists(i) /\ Remove(i)
      \/ /\ UNCHANGED task
         /\ Write(i, [rows[i] EXCEPT !.status = "DELETING"])
  BY <1>1 DEF DeleteMachine, RecordDeletion, ConfirmDeletion
<1>6. \/ UNCHANGED rows
      \/ Exists(i) /\ \A j \in Instances : j # i => rows'[j] = rows[j]
  BY <1>5 DEF Remove, Write, TypeOK
<1>7. \A j \in Instances : RowAllowed(j)
  BY <1>3, <1>6, SameRowAllowed DEF RowAllowed, Exists
<1>8. /\ task'.status = task.status
      /\ \A j \in Instances : task.instance = j => task'.instance = j \/ Over(j)'
  BY <1>3, <1>5 DEF Remove, TypeOK, Tasks
<1> QED
  BY <1>4, <1>7, <1>8, NothingOver

LEMMA ConversionOver ==
  ASSUME TypeOK, OverInOrder, [Next]_vars, NEW g \in Greenlets,
         Connect(g) \/ Upload(g) \/ RunScript(g) \/ SshFails(g) \/ CleanUp(g)
  PROVE  OverInOrder'
<1>1. UNCHANGED rows
  BY DEF Connect, Upload, RunScript, SshFails, CleanUp
<1>2. CASE Connect(g) \/ Upload(g)
  <2>1. PICK step, doing : StepTo(g, step, doing) /\ doing \in {"upload", "download"}
    BY <1>2 DEF Connect, Upload
  <2>2. calls[g].seen \in Whole
    BY <1>2 DEF Connect, Upload, Doing, OnTask, TypeOK
  <2>3. [calls[g].seen EXCEPT !.step = step].status = calls[g].seen.status
    BY <2>2 DEF Whole
  <2>4. task'.instance = task.instance /\ task'.status = task.status
    BY <2>1, <2>3, SaveKeepsInstance DEF StepTo
  <2>5. PICK seen : calls' = [calls EXCEPT ![g].doing = doing, ![g].seen = seen]
    BY <2>1 DEF StepTo
  <2>6. /\ calls'[g].row = calls[g].row /\ calls'[g].doing = doing
        /\ \A h \in Greenlets : h # g => calls'[h] = calls[h]
    BY <2>5 DEF TypeOK, Calls
  <2>7. \A h \in Greenlets : CallAllowed(h)
    BY <2>1, <2>6, NextCallAllowed DEF Deletes
  <2> QED
    BY <1>1, <2>4, <2>7, RowsKeptOver
<1>3. CASE RunScript(g)
  BY <1>1, <1>3, EndsAllowed, RowsKeptOver DEF RunScript
<1>4. CASE SshFails(g) \/ CleanUp(g)
  <2>1. \E made : Save(g, made)
    BY <1>4 DEF SshFails, CleanUp
  <2>2. task'.instance = task.instance
    BY <2>1, SaveKeepsInstance
  <2>3. Ends(g) /\ Remember
    BY <1>4 DEF SshFails, CleanUp
  <2> QED
    BY <1>1, <2>2, <2>3, EndsAllowed, RememberedEnd, RowsKeptOver
<1> QED
  BY <1>2, <1>3, <1>4

LEMMA ReceiveOver ==
  ASSUME TypeOK, OverInOrder, [Next]_vars, NEW g \in Greenlets,
         initiate_image_conversion(g) \/ initiate_image_conversion_janitor(g)
  PROVE  OverInOrder'
<1>1. /\ UNCHANGED rows
      /\ task'.instance = task.instance /\ task'.status = task.status
  BY DEF initiate_image_conversion, initiate_image_conversion_janitor, TypeOK, Tasks
<1>2. \/ UNCHANGED calls
      \/ \E doing \in {"connect", "clean"} : \E i, m, seen : Call(g, doing, i, m, seen)
  BY DEF initiate_image_conversion, initiate_image_conversion_janitor
<1>3. \A h \in Greenlets : CallAllowed(h)
  BY <1>2, SameCallAllowed, CalledAllowed DEF Deletes
<1> QED
  BY <1>1, <1>3, RowsKeptOver

LEMMA ScriptOver ==
  ASSUME TypeOK, OverInOrder, [Next]_vars, NEW s \in Scripts,
         Convert(s) \/ update_image_conversion_task(s)
  PROVE  OverInOrder'
<1>1. UNCHANGED <<rows, calls>>
  BY DEF Convert, update_image_conversion_task
<1>2. task'.instance = task.instance
  BY DEF Convert, update_image_conversion_task, AfterReport, TypeOK, Tasks
<1>3. UNCHANGED task \/ Remember
  BY DEF Convert, update_image_conversion_task
<1> QED
  BY <1>1, <1>2, <1>3, SameCallAllowed, RememberedEnd, RowsKeptOver

LEMMA StepOver == TypeOK /\ OverInOrder /\ [Next]_vars => OverInOrder'
<1> SUFFICES ASSUME TypeOK, OverInOrder, [Next]_vars PROVE OverInOrder'
  OBVIOUS
<1>1. ASSUME NEW g \in Greenlets, Proceed(g) PROVE OverInOrder'
  BY <1>1, CreationOver, PollOver, DeleteOver, ConversionOver DEF Proceed
<1>2. ASSUME NEW g \in Greenlets, ProviderRefuses(g) PROVE OverInOrder'
  BY <1>2, EndsAllowed, RowsKeptOver DEF ProviderRefuses
<1>3. CASE Crash
  <2>1. \A g \in Greenlets : CallAllowed(g)
    BY <1>3 DEF Crash, CallAllowed, Idle, Deletes
  <2> QED
    BY <1>3, <2>1, RowsKeptOver DEF Crash
<1>4. CASE \/ UNCHANGED vars
           \/ \E fn \in {"initiate", "janitor"} : image_conversion_pending_task_executor(fn)
  BY <1>4, SameCallAllowed, RowsKeptOver DEF vars, image_conversion_pending_task_executor
<1> QED
  BY <1>1, <1>2, <1>3, <1>4, DistributorOver, BeginOver, ReceiveOver, ScriptOver DEF Next

-----------------------------------------------------------------------------
(* The deletion of a machine.                                              *)

\* Only the call that deletes it takes a machine away.
LEMMA DeletedByCall ==
  ASSUME TypeOK, [Next]_vars, NEW m \in Machines, Deleted(m)
  PROVE  \E g \in Greenlets : DeleteMachine(g) /\ calls[g].machine = m
<1>1. \/ UNCHANGED machines
      \/ \E g \in Greenlets : CreateMachine(g) \/ DeleteMachine(g)
  BY DEF Next, vars, Begin, Proceed, Starts,
     initiate_pending_instance_creation, get_update_creating_instance,
     initiate_pending_instance_deletion, get_delete_deleting_instance,
     CreationRefused, RecordMachine, PollAnswered,
     RecordDeletion, ConfirmDeletion, Connect, Upload, RunScript, SshFails, CleanUp,
     ProviderRefuses, initiate_image_conversion, initiate_image_conversion_janitor,
     AssignInstance, image_conversion_pending_task_executor, RetireInstance, DeleteResidue,
     Convert, update_image_conversion_task, Crash
<1>2. PICK g \in Greenlets : CreateMachine(g) \/ DeleteMachine(g)
  BY <1>1 DEF Deleted
<1>3. ~CreateMachine(g)
  BY DEF CreateMachine, Deleted, TypeOK, First
<1>4. calls[g].machine = m
  BY <1>2, <1>3 DEF DeleteMachine, Deleted, TypeOK
<1> QED
  BY <1>2, <1>3, <1>4

\* The call and the script name the same machine, so they are for the same row, and the
\* call would not be there if the row were not over.
LEMMA DeletedWhenOver ==
  ASSUME TypeOK, MachinesOwned, OverInOrder, [Next]_vars,
         NEW m \in Machines, NEW s \in Scripts, Deleted(m), s \in Running(m)
  PROVE  history.ended \/ scripts[s].row \in history.overdue
<1>1. PICK g \in Greenlets : DeleteMachine(g) /\ calls[g].machine = m
  BY DeletedByCall
<1>2. calls[g].row \in Owners /\ scripts[s].row \in Owners
  BY DEF TypeOK, Calls, Processes, Owners
<1>3. Names(calls[g].row, m) /\ Names(scripts[s].row, m)
  BY <1>1 DEF Running, Names, CallNames, ScriptNames
<1>4. calls[g].row = scripts[s].row
  BY <1>2, <1>3 DEF MachinesOwned
<1>5. Over(calls[g].row)
  BY <1>1 DEF DeleteMachine, Doing, OverInOrder, DeletingIsOver, Deletes
<1> QED
  BY <1>4, <1>5 DEF Over

\* A machine belongs to one row for ever, and a row is sent away only when the task has
\* ended or when it is too old.
THEOREM DeletionInvariantCorrect == Spec => [](MachinesOwned /\ OverInOrder)
<1>1. Init => MachinesOwned /\ OverInOrder
  BY InitDeletion
<1>2. TypeOK /\ (MachinesOwned /\ OverInOrder) /\ [Next]_vars => (MachinesOwned /\ OverInOrder)'
  BY StepOwned, StepOver
<1> QED
  BY <1>1, <1>2, TypeCorrect, PTL DEF Spec

\* No machine is deleted under a script that converts on it as long as the task has never
\* ended, unless the age of its row was the reason, with any number of greenlets, rows and
\* machines, and whatever calls of a retired row are still under way.
THEOREM DeletesWhenOverCorrect == Spec => DeletesWhenOver
<1>1. TypeOK /\ (MachinesOwned /\ OverInOrder) /\ [Next]_vars
        => [\A m \in Machines, s \in Scripts :
              Deleted(m) /\ s \in Running(m)
                => history.ended \/ scripts[s].row \in history.overdue]_vars
  BY DeletedWhenOver
<1> QED
  BY <1>1, TypeCorrect, DeletionInvariantCorrect, PTL DEF Spec, DeletesWhenOver
=============================================================================

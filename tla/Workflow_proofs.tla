-------------------------- MODULE Workflow_proofs ---------------------------
(***************************************************************************)
(* Proofs about module Workflow, for every forest of roots and tasks, any  *)
(* number of executors and any number of faults: its types, its locks, and *)
(* the order of a workflow, by the invariant of module WorkflowInvariant.  *)
(***************************************************************************)
EXTENDS WorkflowInvariant, TLAPS

USE DEF Jobs

-----------------------------------------------------------------------------
(* Types of the parts.                                                     *)

LEMMA IdleType == Idle \in ExecutorStates /\ NoView \in Views /\ RecordOK(Idle)
  BY ConstantsAssumption
  DEF Idle, NoView, Views, ExecutorStates, TaskStatuses, RootStatuses, RecordOK

LEMMA ViewType ==
  ASSUME TablesOK, NEW r
  PROVE  View(r) \in Views
  BY DEF TablesOK, View, Views, TaskStatuses, RootStatuses

LEMMA FlushType ==
  ASSUME TablesOK, NEW e \in Executors
  PROVE  Flush(e) \in [Tasks -> TaskStatuses]
  BY DEF TablesOK, Flush, TaskStatuses

LEMMA MarkedType ==
  ASSUME NEW v \in Views, NEW t \in Tasks
  PROVE  Marked(v, t) \in Views
  BY DEF Marked, Views, TaskStatuses

LEMMA ExecutorFields ==
  ASSUME ExecutorsOK, NEW e \in Executors
  PROVE  /\ ex[e] \in ExecutorStates /\ RecordOK(ex[e])
         /\ ex[e].view \in Views
         /\ ex[e].root \in Roots \cup {None}
         /\ ex[e].cur \in Tasks \cup {None}
         /\ ex[e].count \in Nat
         /\ ex[e].pc # "idle" => ex[e].root \in Roots
         /\ ex[e].pc \in {"run", "wait", "append"} => ex[e].cur \in Tasks
  BY DEF ExecutorsOK, ExecutorStates, RecordOK

LEMMA BecomesType ==
  ASSUME ExecutorsOK, NEW e \in Executors, NEW rec, RecordOK(rec), Becomes(e, rec)
  PROVE  ExecutorsOK'
  BY DEF ExecutorsOK, Becomes, RecordOK

LEMMA SameExecutors ==
  ASSUME ExecutorsOK, UNCHANGED ex
  PROVE  ExecutorsOK'
  BY DEF ExecutorsOK, RecordOK

LEMMA VisitedType ==
  ASSUME ExecutorsOK, NEW e \in Executors, NEW t \in Tasks, ex[e].pc = "loop"
  PROVE  /\ Visited(e, t) \in ExecutorStates /\ RecordOK(Visited(e, t))
         /\ Visited(e, t).pc = "loop" /\ Visited(e, t).root # None
         /\ Visited(e, t).view \in Views
  BY ExecutorFields DEF Visited, ExecutorStates, RecordOK

LEMMA ReturnType ==
  ASSUME ExecutorsOK, NEW r \in Roots
  PROVE  RecordOK([Idle EXCEPT !.pc = "return", !.root = r])
  BY IdleType, ConstantsAssumption DEF ExecutorStates, RecordOK

LEMMA InitType == Init => TypeOK
<1> SUFFICES ASSUME Init PROVE TypeOK
  OBVIOUS
<1>1. ExecutorsOK
  BY IdleType DEF Init, ExecutorsOK
<1>2. faults \in 0..MaxFaults
  BY ConstantsAssumption DEF Init
<1>3. TablesOK
  BY DEF Init, TablesOK, RootStatuses, TaskStatuses
<1> QED
  BY <1>1, <1>2, <1>3 DEF Init, TypeOK, BrokerOK, WorkersOK

-----------------------------------------------------------------------------
(* The manager keeps the types.                                            *)

LEMMA ManagerType == TypeOK /\ ManagerNext => TypeOK'
<1> SUFFICES ASSUME TypeOK, ManagerNext PROVE TypeOK'
  OBVIOUS
<1> USE DEF TypeOK, TablesOK, BrokerOK, WorkersOK
<1>1. CASE ManagerScan
  BY <1>1, SameExecutors DEF ManagerScan, tables, broker, workers
<1>2. ASSUME NEW r \in Roots, ManagerInitiate(r) PROVE TypeOK'
  BY <1>2, SameExecutors DEF ManagerInitiate, broker, workers, RootStatuses
<1>3. ASSUME NEW r \in Roots, ManagerDelay(r) PROVE TypeOK'
  BY <1>3, SameExecutors DEF ManagerDelay, DelayExecutor, tables, workers
<1> QED
  BY <1>1, <1>2, <1>3 DEF ManagerNext

-----------------------------------------------------------------------------
(* So do the executors, statement by statement.                            *)

LEMMA TakeType ==
  ASSUME TypeOK, NEW e \in Executors, NEW r \in Roots, ExecutorTake(e, r)
  PROVE  TypeOK'
<1>1. /\ RecordOK([Idle EXCEPT !.pc = "return", !.root = r])
      /\ RecordOK([Idle EXCEPT !.pc = "begin", !.root = r])
  BY IdleType, ConstantsAssumption DEF ExecutorStates, RecordOK
<1>2. ExecutorsOK'
  BY <1>1, BecomesType DEF ExecutorTake, TypeOK
<1>3. TablesOK'
  BY DEF ExecutorTake, TypeOK, TablesOK
<1>4. BrokerOK'
  BY DEF ExecutorTake, TypeOK, BrokerOK
<1> QED
  BY <1>2, <1>3, <1>4 DEF ExecutorTake, TypeOK, WorkersOK, manager, workers

LEMMA BeginInitiatedType ==
  ASSUME TypeOK, NEW e \in Executors, BeginInitiated(e)
  PROVE  TypeOK'
<1> USE ExecutorFields DEF TypeOK
<1>1. RecordOK([ex[e] EXCEPT !.pc = "list"])
  BY DEF BeginInitiated, ExecutorStates, RecordOK
<1>2. ExecutorsOK'
  BY <1>1, BecomesType DEF BeginInitiated
<1>3. TablesOK'
  BY DEF BeginInitiated, TablesOK, RootStatuses
<1> QED
  BY <1>2, <1>3 DEF BeginInitiated, TablesOK, BrokerOK, WorkersOK, tables, broker, manager, workers

LEMMA BeginRunningType ==
  ASSUME TypeOK, NEW e \in Executors, BeginRunning(e)
  PROVE  TypeOK'
<1> USE ExecutorFields DEF TypeOK
<1>1. RecordOK([ex[e] EXCEPT !.pc = "loop", !.view = View(ex[e].root),
                !.todo = {t \in TasksOf(ex[e].root) : in_focus[t]},
                !.listed = {t \in TasksOf(ex[e].root) : in_focus[t]}])
  <2>1. {t \in TasksOf(ex[e].root) : in_focus[t]} \in SUBSET Tasks
    BY DEF TasksOf
  <2> QED
    BY <2>1, ViewType DEF BeginRunning, ExecutorStates, RecordOK
<1>2. ExecutorsOK'
  BY <1>1, BecomesType DEF BeginRunning
<1> QED
  BY <1>2 DEF BeginRunning, TablesOK, BrokerOK, WorkersOK, tables, broker, manager, workers

LEMMA BeginOtherType ==
  ASSUME TypeOK, NEW e \in Executors, BeginOther(e)
  PROVE  TypeOK'
<1> USE ExecutorFields DEF TypeOK
<1>1. RecordOK([ex[e] EXCEPT !.pc = "loop", !.view = View(ex[e].root)])
  BY ViewType DEF BeginOther, ExecutorStates, RecordOK
<1>2. ExecutorsOK'
  BY <1>1, BecomesType DEF BeginOther
<1> QED
  BY <1>2 DEF BeginOther, TablesOK, BrokerOK, WorkersOK, tables, broker, manager, workers

LEMMA ListFirstType ==
  ASSUME TypeOK, NEW e \in Executors, ListFirst(e)
  PROVE  TypeOK'
<1> USE ExecutorFields DEF TypeOK
<1>1. RecordOK([ex[e] EXCEPT !.pc = "loop", !.view = View(ex[e].root),
                !.first = TRUE, !.todo = FirstTasks(ex[e].root)])
  <2>1. FirstTasks(ex[e].root) \in SUBSET Tasks
    BY DEF FirstTasks, TasksOf
  <2> QED
    BY <2>1, ViewType DEF ListFirst, ExecutorStates, RecordOK
<1>2. ExecutorsOK'
  BY <1>1, BecomesType DEF ListFirst
<1> QED
  BY <1>2 DEF ListFirst, TablesOK, BrokerOK, WorkersOK, tables, broker, manager, workers

LEMMA InitiateTaskType ==
  ASSUME TypeOK, NEW e \in Executors, NEW t \in Tasks, InitiateTask(e, t)
  PROVE  TypeOK'
<1> USE ExecutorFields DEF TypeOK
<1>1. RecordOK([Visited(e, t) EXCEPT !.pc = "run", !.cur = t, !.dirty = {}])
  <2>1. /\ Visited(e, t) \in ExecutorStates /\ RecordOK(Visited(e, t))
        /\ Visited(e, t).pc = "loop" /\ Visited(e, t).root # None
    BY VisitedType DEF InitiateTask, Turn
  <2>2. t # None
    BY ConstantsAssumption
  <2> QED
    BY <2>1, <2>2 DEF ExecutorStates, RecordOK
<1>2. ExecutorsOK'
  BY <1>1, BecomesType DEF InitiateTask
<1>3. TablesOK'
  BY FlushType DEF InitiateTask, TablesOK, TaskStatuses
<1> QED
  BY <1>2, <1>3 DEF InitiateTask, TablesOK, BrokerOK, WorkersOK, tables, broker, manager, workers

LEMMA PassOverType ==
  ASSUME TypeOK, NEW e \in Executors, NEW t \in Tasks, PassOver(e, t)
  PROVE  TypeOK'
<1> USE ExecutorFields DEF TypeOK
<1>1. RecordOK(Visited(e, t))
  BY VisitedType DEF PassOver, Turn
<1>2. ExecutorsOK'
  BY <1>1, BecomesType DEF PassOver
<1> QED
  BY <1>2 DEF PassOver, TablesOK, BrokerOK, WorkersOK, tables, broker, manager, workers

LEMMA CountActiveType ==
  ASSUME TypeOK, NEW e \in Executors, NEW t \in Tasks, CountActive(e, t)
  PROVE  TypeOK'
<1> USE ExecutorFields DEF TypeOK
<1>1. RecordOK([Visited(e, t) EXCEPT !.count = @ + 1])
  BY VisitedType, ConstantsAssumption DEF CountActive, Turn, ExecutorStates, RecordOK
<1>2. ExecutorsOK'
  BY <1>1, BecomesType DEF CountActive
<1> QED
  BY <1>2 DEF CountActive, TablesOK, BrokerOK, WorkersOK, tables, broker, manager, workers

LEMMA InitiateWaitType ==
  ASSUME TypeOK, NEW e \in Executors, NEW t \in Tasks, InitiateWait(e, t)
  PROVE  TypeOK'
<1> USE ExecutorFields DEF TypeOK
<1>1. RecordOK([Visited(e, t) EXCEPT !.pc = "wait", !.cur = t, !.dirty = {}])
  <2>1. /\ Visited(e, t) \in ExecutorStates /\ RecordOK(Visited(e, t))
        /\ Visited(e, t).pc = "loop" /\ Visited(e, t).root # None
    BY VisitedType DEF InitiateWait, Turn
  <2>2. t # None
    BY ConstantsAssumption
  <2> QED
    BY <2>1, <2>2 DEF ExecutorStates, RecordOK
<1>2. ExecutorsOK'
  BY <1>1, BecomesType DEF InitiateWait
<1>3. TablesOK'
  BY FlushType DEF InitiateWait, TablesOK, TaskStatuses
<1> QED
  BY <1>2, <1>3 DEF InitiateWait, TablesOK, BrokerOK, WorkersOK, tables, broker, manager, workers

LEMMA WaitUnmappedType ==
  ASSUME TypeOK, NEW e \in Executors, NEW t \in Tasks, WaitUnmapped(e, t)
  PROVE  TypeOK'
<1> USE ExecutorFields DEF TypeOK
<1>1. RecordOK([Visited(e, t) EXCEPT !.dirty = @ \cup {t}, !.view = Marked(@, t)])
  <2>1. Marked(Visited(e, t).view, t) \in Views
    BY VisitedType, MarkedType DEF WaitUnmapped, Turn
  <2> QED
    BY <2>1, VisitedType DEF WaitUnmapped, Turn, ExecutorStates, RecordOK
<1>2. ExecutorsOK'
  BY <1>1, BecomesType DEF WaitUnmapped
<1> QED
  BY <1>2 DEF WaitUnmapped, TablesOK, BrokerOK, WorkersOK, tables, broker, manager, workers

LEMMA AcknowledgeType ==
  ASSUME TypeOK, NEW e \in Executors, NEW t \in Tasks, Acknowledge(e, t)
  PROVE  TypeOK'
<1> USE ExecutorFields DEF TypeOK
<1>1. RecordOK([Visited(e, t) EXCEPT !.pc = "append", !.cur = t, !.dirty = {}])
  <2>1. /\ Visited(e, t) \in ExecutorStates /\ RecordOK(Visited(e, t))
        /\ Visited(e, t).pc = "loop" /\ Visited(e, t).root # None
    BY VisitedType DEF Acknowledge, Turn
  <2>2. t # None
    BY ConstantsAssumption
  <2> QED
    BY <2>1, <2>2 DEF ExecutorStates, RecordOK
<1>2. ExecutorsOK'
  BY <1>1, BecomesType DEF Acknowledge
<1>3. TablesOK'
  BY FlushType DEF Acknowledge, TablesOK
<1> QED
  BY <1>2, <1>3 DEF Acknowledge, TablesOK, BrokerOK, WorkersOK, tables, broker, manager, workers

LEMMA DispatchRunType ==
  ASSUME TypeOK, NEW e \in Executors, DispatchRun(e)
  PROVE  TypeOK'
<1> USE ExecutorFields DEF TypeOK
<1> DEFINE next == [ex[e] EXCEPT !.pc = "loop", !.cur = None, !.view = View(ex[e].root)]
<1>1. RecordOK(next) /\ next.view \in Views /\ next.pc = "loop" /\ next.root # None
  BY ViewType DEF DispatchRun, ExecutorStates, RecordOK
<1>2. ex[e].cur \in Tasks
  BY DEF DispatchRun
<1>3. RecordOK([next EXCEPT !.count = @ + 1])
  <2> HIDE DEF next
  <2>1. next \in ExecutorStates /\ next.count + 1 \in Nat
    BY <1>1 DEF ExecutorStates, RecordOK
  <2> QED
    BY <1>1, <2>1 DEF ExecutorStates, RecordOK
<1>4. RecordOK([next EXCEPT !.dirty = {ex[e].cur}, !.view = Marked(@, ex[e].cur)])
  <2>1. Marked(next.view, ex[e].cur) \in Views
    BY <1>1, <1>2, MarkedType
  <2> QED
    BY <1>1, <1>2, <2>1 DEF ExecutorStates, RecordOK
<1>5. ExecutorsOK'
  BY <1>3, <1>4, BecomesType DEF DispatchRun
<1>6. BrokerOK'
  BY <1>2 DEF DispatchRun, DelayJob, BrokerOK, broker
<1> QED
  BY <1>5, <1>6 DEF DispatchRun, TablesOK, WorkersOK, tables, manager, workers

LEMMA DispatchWaitType ==
  ASSUME TypeOK, NEW e \in Executors, DispatchWait(e)
  PROVE  TypeOK'
<1> USE ExecutorFields DEF TypeOK
<1>1. RecordOK([ex[e] EXCEPT !.pc = "loop", !.cur = None, !.count = @ + 1,
                !.view = View(ex[e].root)])
  <2>1. View(ex[e].root) \in Views /\ ex[e].count + 1 \in Nat
    BY ViewType
  <2> QED
    BY <2>1 DEF DispatchWait, ExecutorStates, RecordOK
<1>2. ExecutorsOK'
  BY <1>1, BecomesType DEF DispatchWait
<1>3. BrokerOK'
  BY DEF DispatchWait, DelayJob, BrokerOK
<1> QED
  BY <1>2, <1>3 DEF DispatchWait, TablesOK, BrokerOK, WorkersOK, tables, broker, manager, workers

LEMMA AppendNextType ==
  ASSUME TypeOK, NEW e \in Executors, AppendNext(e)
  PROVE  TypeOK'
<1> USE ExecutorFields DEF TypeOK
<1>1. RecordOK([ex[e] EXCEPT !.pc = "loop", !.cur = None, !.view = View(ex[e].root),
                !.added = @ \cup (NextTasks(ex[e].cur) \ ex[e].listed),
                !.listed = @ \cup (NextTasks(ex[e].cur) \ ex[e].listed)])
  <2>1. NextTasks(ex[e].cur) \in SUBSET Tasks
    BY DEF NextTasks
  <2> QED
    BY <2>1, ViewType DEF AppendNext, ExecutorStates, RecordOK
<1>2. ExecutorsOK'
  BY <1>1, BecomesType DEF AppendNext
<1> QED
  BY <1>2 DEF AppendNext, TablesOK, BrokerOK, WorkersOK, tables, broker, manager, workers

LEMMA CompleteRootType ==
  ASSUME TypeOK, NEW e \in Executors, CompleteRoot(e)
  PROVE  TypeOK'
<1> USE ExecutorFields DEF TypeOK
<1>1. RecordOK([ex[e] EXCEPT !.pc = "callbacks", !.dirty = {}])
  BY DEF CompleteRoot, LoopDone, ExecutorStates, RecordOK
<1>2. ExecutorsOK'
  BY <1>1, BecomesType DEF CompleteRoot
<1>3. TablesOK'
  BY FlushType DEF CompleteRoot, VerdictOf, TablesOK, RootStatuses
<1> QED
  BY <1>2, <1>3 DEF CompleteRoot, TablesOK, BrokerOK, WorkersOK, tables, broker, manager, workers

LEMMA ReleaseCallbacksType ==
  ASSUME TypeOK, NEW e \in Executors, ReleaseCallbacks(e)
  PROVE  TypeOK'
<1> USE ExecutorFields DEF TypeOK
<1>1. RecordOK([Idle EXCEPT !.pc = "return", !.root = ex[e].root])
  BY ReturnType DEF ReleaseCallbacks
<1>2. ExecutorsOK'
  BY <1>1, BecomesType DEF ReleaseCallbacks
<1>3. TablesOK'
  BY DEF ReleaseCallbacks, TablesOK, RootStatuses
<1> QED
  BY <1>2, <1>3 DEF ReleaseCallbacks, TablesOK, BrokerOK, WorkersOK, tables, broker, manager, workers

LEMMA LeaveType ==
  ASSUME TypeOK, NEW e \in Executors, Leave(e)
  PROVE  TypeOK'
<1> USE ExecutorFields DEF TypeOK
<1>1. RecordOK([Idle EXCEPT !.pc = "return", !.root = ex[e].root])
  BY ReturnType DEF Leave, LoopDone
<1>2. ExecutorsOK'
  BY <1>1, BecomesType DEF Leave
<1>3. TablesOK'
  BY FlushType DEF Leave, Released, TablesOK, RootStatuses
<1> QED
  BY <1>2, <1>3 DEF Leave, TablesOK, BrokerOK, WorkersOK, tables, broker, manager, workers

LEMMA ExecutorReleaseType ==
  ASSUME TypeOK, NEW e \in Executors, ExecutorRelease(e)
  PROVE  TypeOK'
<1> USE ExecutorFields DEF TypeOK
<1>1. RecordOK(Idle)
  BY IdleType
<1>2. ExecutorsOK'
  BY <1>1, BecomesType DEF ExecutorRelease
<1> QED
  BY <1>2 DEF ExecutorRelease, TablesOK, BrokerOK, WorkersOK, tables, broker, manager, workers

LEMMA ExecutorType == TypeOK /\ ExecutorNext => TypeOK'
<1> SUFFICES ASSUME TypeOK, NEW e \in Executors,
                    ExecutorStep(e) \/ \E r \in Roots : ExecutorTake(e, r)
             PROVE  TypeOK'
  BY DEF ExecutorNext
<1> QED
  BY TakeType, BeginInitiatedType, BeginRunningType, BeginOtherType, ListFirstType,
     InitiateTaskType, PassOverType, CountActiveType, InitiateWaitType,
     WaitUnmappedType, AcknowledgeType, DispatchRunType, DispatchWaitType,
     AppendNextType, CompleteRootType, ReleaseCallbacksType, LeaveType,
     ExecutorReleaseType
  DEF ExecutorStep

-----------------------------------------------------------------------------
(* Workers and faults.                                                     *)

LEMMA WorkerType == TypeOK /\ WorkerNext => TypeOK'
<1> SUFFICES ASSUME TypeOK, NEW t \in Tasks, NEW kind \in {"RUN", "WAIT"},
                    \/ StartJob(t, kind) \/ ReleaseJob(t, kind) \/ RaiseJob(t, kind)
                    \/ \E outcome \in TaskStatuses : FinishJob(t, kind, outcome)
             PROVE  TypeOK'
  BY DEF WorkerNext
<1> USE SameExecutors DEF TypeOK, TablesOK, BrokerOK, WorkersOK, manager
<1>1. <<t, kind>> \in Jobs
  OBVIOUS
<1>6. working[<<t, kind>>] + 1 \in Nat /\ ending[<<t, kind>>] + 1 \in Nat
  BY <1>1
<1>2. CASE StartJob(t, kind)
  <2>1. jobQueue' \in [Jobs -> Nat] /\ working' \in [Jobs -> Nat] /\ ending' \in [Jobs -> Nat]
    <3>1. /\ jobQueue[<<t, kind>>] > 0
          /\ jobQueue' = [jobQueue EXCEPT ![<<t, kind>>] = @ - 1]
      BY <1>2 DEF StartJob
    <3>2. working' = [working EXCEPT ![<<t, kind>>] = @ + 1] \/ working' = working
      BY <1>2 DEF StartJob
    <3>3. ending' = [ending EXCEPT ![<<t, kind>>] = @ + 1] \/ ending' = ending
      BY <1>2 DEF StartJob
    <3>4. jobQueue' \in [Jobs -> Nat]
      BY <1>1, <3>1
    <3>5. working' \in [Jobs -> Nat]
      BY <1>1, <1>6, <3>2
    <3> QED
      BY <1>1, <1>6, <3>3, <3>4, <3>5
  <2>2. task_status' \in [Tasks -> TaskStatuses]
    BY <1>2 DEF StartJob, TaskStatuses
  <2> QED
    BY <1>2, <2>1, <2>2 DEF StartJob
<1>3. CASE ReleaseJob(t, kind)
  BY <1>1, <1>3 DEF ReleaseJob, tables
<1>4. CASE RaiseJob(t, kind)
  <2>1. working' \in [Jobs -> Nat]
    BY <1>1, <1>4 DEF RaiseJob
  <2>2. task_status' \in [Tasks -> TaskStatuses]
    BY <1>4 DEF RaiseJob, TaskStatuses
  <2>3. ExecutorsOK'
    BY <1>4 DEF RaiseJob
  <2> QED
    BY <1>4, <2>1, <2>2, <2>3 DEF RaiseJob, broker
<1>5. ASSUME NEW outcome \in TaskStatuses, FinishJob(t, kind, outcome) PROVE TypeOK'
  <2>1. working' \in [Jobs -> Nat] /\ ending' \in [Jobs -> Nat]
    <3>1. working' = [working EXCEPT ![<<t, kind>>] = @ - 1] /\ working[<<t, kind>>] > 0
      BY <1>5 DEF FinishJob
    <3>2. ending' = [ending EXCEPT ![<<t, kind>>] = @ + 1]
      BY <1>5 DEF FinishJob
    <3> QED
      BY <1>1, <1>6, <3>1, <3>2
  <2>2. task_status' \in [Tasks -> TaskStatuses]
    <3>1. task_status' = [task_status EXCEPT ![t] = outcome] \/ task_status' = task_status
      BY <1>5 DEF FinishJob
    <3> QED
      BY <1>5, <3>1
  <2> QED
    BY <1>5, <2>1, <2>2 DEF FinishJob, broker
<1> QED
  BY <1>2, <1>3, <1>4, <1>5

LEMMA FaultType == TypeOK /\ FaultNext => TypeOK'
<1> SUFFICES ASSUME TypeOK, FaultNext PROVE TypeOK'
  OBVIOUS
<1> USE DEF TypeOK
<1>1. ASSUME NEW kind, Fault(kind) PROVE faults' \in 0..MaxFaults
  BY <1>1, ConstantsAssumption DEF Fault
<1>2. ASSUME NEW e \in Executors, ExecutorRaise(e) PROVE TypeOK'
  <2>1. ExecutorsOK'
    BY <1>2, IdleType, BecomesType DEF ExecutorRaise
  <2>2. status' \in [Roots -> RootStatuses]
    BY <1>2 DEF ExecutorRaise, TablesOK, RootStatuses
  <2>3. executor_running' \in [Roots -> BOOLEAN]
    BY <1>2 DEF ExecutorRaise, TablesOK
  <2>4. TablesOK'
    BY <1>2, <2>2, <2>3 DEF ExecutorRaise, TablesOK
  <2>5. Fault("raise") /\ UNCHANGED <<broker, manager, workers>>
    BY <1>2 DEF ExecutorRaise
  <2> QED
    BY <1>1, <2>1, <2>4, <2>5 DEF BrokerOK, WorkersOK, broker, manager, workers
<1>3. ASSUME NEW e \in Executors, ExecutorCrash(e) PROVE TypeOK'
  BY <1>1, <1>3, IdleType, BecomesType
  DEF ExecutorCrash, TablesOK, BrokerOK, WorkersOK, tables, broker, manager, workers
<1>4. ASSUME NEW t \in Tasks, NEW kind \in {"RUN", "WAIT"}, WorkerCrash(t, kind) PROVE TypeOK'
  BY <1>1, <1>4, SameExecutors
  DEF WorkerCrash, TablesOK, BrokerOK, WorkersOK, tables, broker, manager
<1>5. CASE ManagerCrash
  BY <1>1, <1>5, SameExecutors
  DEF ManagerCrash, TablesOK, BrokerOK, WorkersOK, tables, broker, workers
<1>6. CASE UnlockAll
  BY <1>1, <1>6, SameExecutors
  DEF UnlockAll, TablesOK, BrokerOK, WorkersOK, tables, manager, workers
<1> QED
  BY <1>2, <1>3, <1>4, <1>5, <1>6 DEF FaultNext

LEMMA StutterType == TypeOK /\ UNCHANGED vars => TypeOK'
  BY SameExecutors
  DEF TypeOK, TablesOK, BrokerOK, WorkersOK, vars, tables, broker, manager, workers

LEMMA NextType == TypeOK /\ [Next]_vars => TypeOK'
  BY ManagerType, ExecutorType, WorkerType, FaultType, StutterType DEF Next

\* Whatever the interleaving and the faults, the rows, queues, locks and
\* executors stay well formed: statuses come from the enum columns, no message
\* is taken twice, and an executor that is about to send a task has one.
THEOREM TypeCorrect == Spec => []TypeOK
  BY InitType, NextType, PTL DEF Spec

-----------------------------------------------------------------------------
(* One executor per root.                                                  *)

\* A step of executor e that stays on its root, or drops it, and leaves the
\* broker alone.
LEMMA SameCalls ==
  ASSUME OneCallPerRoot, ExecutorsOK, NEW e \in Executors, NEW rec, Becomes(e, rec),
         rec.root \in {None, ex[e].root}, UNCHANGED <<rootLock, rootQueue>>
  PROVE  OneCallPerRoot'
<1>1. \A d \in Executors : ex'[d].root \in {None, ex[d].root}
  BY DEF Becomes, ExecutorsOK
<1> QED
  BY <1>1 DEF OneCallPerRoot, OneExecutorPerRoot

LEMMA UntouchedCalls ==
  ASSUME OneCallPerRoot, UNCHANGED <<ex, rootLock, rootQueue>>
  PROVE  OneCallPerRoot'
  BY DEF OneCallPerRoot, OneExecutorPerRoot

LEMMA InitCalls == Init => OneCallPerRoot
  BY DEF Init, OneCallPerRoot, OneExecutorPerRoot, Idle

\* delay() sends a message only where there was neither message nor executor.
LEMMA DelayCalls ==
  ASSUME OneCallPerRoot, BrokerOK, NEW r \in Roots, DelayExecutor(r), UNCHANGED ex
  PROVE  OneCallPerRoot'
<1>1. CASE r \in rootLock
  BY <1>1 DEF DelayExecutor, OneCallPerRoot, OneExecutorPerRoot, BrokerOK
<1>2. CASE r \notin rootLock
  <2>1. rootQueue[r] = 0 /\ \A e \in Executors : ex[e].root # None => ex[e].root # r
    BY <1>2 DEF OneCallPerRoot
  <2>2. rootLock' = rootLock \cup {r} /\ rootQueue' = [rootQueue EXCEPT ![r] = 1]
    BY <1>2, <2>1 DEF DelayExecutor, BrokerOK
  <2> QED
    BY <2>1, <2>2 DEF OneCallPerRoot, OneExecutorPerRoot, BrokerOK
<1> QED
  BY <1>1, <1>2

LEMMA TakeCalls ==
  ASSUME OneCallPerRoot, TypeOK, NEW e \in Executors, NEW r \in Roots, ExecutorTake(e, r)
  PROVE  OneCallPerRoot'
<1>1. /\ rootQueue[r] = 1 /\ r \in rootLock /\ rootLock' = rootLock
      /\ rootQueue' = [rootQueue EXCEPT ![r] = 0]
  <2>1. /\ rootQueue[r] > 0 /\ rootLock' = rootLock
        /\ rootQueue' = [rootQueue EXCEPT ![r] = rootQueue[r] - 1]
    BY DEF ExecutorTake
  <2>2. rootQueue[r] = 1 /\ r \in rootLock
    BY <2>1 DEF OneCallPerRoot
  <2>3. rootQueue[r] - 1 = 0
    BY <2>2
  <2> QED
    BY <2>1, <2>2, <2>3
<1>2. \A d \in Executors : ex[d].root # r
  BY <1>1, ConstantsAssumption DEF OneCallPerRoot
<1>3. \A d \in Executors : ex'[d].root = IF d = e THEN r ELSE ex[d].root
  BY DEF ExecutorTake, Becomes, Idle, TypeOK, ExecutorsOK
<1> QED
  BY <1>1, <1>2, <1>3 DEF OneCallPerRoot, OneExecutorPerRoot, TypeOK, BrokerOK

\* The lock given back is that of the only call there was.
LEMMA ReleaseCalls ==
  ASSUME OneCallPerRoot, TypeOK, NEW e \in Executors, ExecutorRelease(e)
  PROVE  OneCallPerRoot'
<1> DEFINE r == ex[e].root
<1>1. r \in Roots /\ rootQueue[r] = 0 /\ \A d \in Executors : ex[d].root = r => d = e
  BY ExecutorFields DEF ExecutorRelease, OneCallPerRoot, OneExecutorPerRoot, TypeOK, ExecutorsOK, RecordOK
<1>2. \A d \in Executors : ex'[d].root = IF d = e THEN None ELSE ex[d].root
  BY DEF ExecutorRelease, Becomes, Idle, TypeOK, ExecutorsOK
<1>3. rootLock' = rootLock \ {r} /\ rootQueue' = rootQueue
  BY DEF ExecutorRelease
<1> QED
  BY <1>1, <1>2, <1>3 DEF OneCallPerRoot, OneExecutorPerRoot

LEMMA StepCalls ==
  ASSUME OneCallPerRoot, TypeOK, NEW e \in Executors, ExecutorStep(e)
  PROVE  OneCallPerRoot'
<1> USE ExecutorFields, SameCalls DEF TypeOK
<1>1. ex[e] \in ExecutorStates /\ \A t \in Tasks : Visited(e, t) \in ExecutorStates
                                             /\ Visited(e, t).root = ex[e].root
  BY DEF Visited, ExecutorStates
<1>2. CASE BeginInitiated(e)
  BY <1>1, <1>2 DEF BeginInitiated, ExecutorStates, broker
<1>3. CASE BeginRunning(e)
  BY <1>1, <1>3 DEF BeginRunning, ExecutorStates, broker
<1>4. CASE BeginOther(e)
  BY <1>1, <1>4 DEF BeginOther, ExecutorStates, broker
<1>5. CASE ListFirst(e)
  BY <1>1, <1>5 DEF ListFirst, ExecutorStates, broker
<1>6. ASSUME NEW t \in Tasks, InitiateTask(e, t) PROVE OneCallPerRoot'
  BY <1>1, <1>6 DEF InitiateTask, ExecutorStates, broker
<1>7. ASSUME NEW t \in Tasks, PassOver(e, t) PROVE OneCallPerRoot'
  BY <1>1, <1>7 DEF PassOver, ExecutorStates, broker
<1>8. ASSUME NEW t \in Tasks, CountActive(e, t) PROVE OneCallPerRoot'
  BY <1>1, <1>8 DEF CountActive, ExecutorStates, broker
<1>9. ASSUME NEW t \in Tasks, InitiateWait(e, t) PROVE OneCallPerRoot'
  BY <1>1, <1>9 DEF InitiateWait, ExecutorStates, broker
<1>10. ASSUME NEW t \in Tasks, WaitUnmapped(e, t) PROVE OneCallPerRoot'
  BY <1>1, <1>10 DEF WaitUnmapped, ExecutorStates, broker
<1>11. ASSUME NEW t \in Tasks, Acknowledge(e, t) PROVE OneCallPerRoot'
  BY <1>1, <1>11 DEF Acknowledge, ExecutorStates, broker
<1>12. CASE DispatchRun(e)
  <2> DEFINE next == [ex[e] EXCEPT !.pc = "loop", !.cur = None, !.view = View(ex[e].root)]
  <2>1. /\ [next EXCEPT !.dirty = {ex[e].cur}, !.view = Marked(@, ex[e].cur)].root = ex[e].root
        /\ [next EXCEPT !.count = @ + 1].root = ex[e].root
    BY <1>1 DEF ExecutorStates
  <2> QED
    BY <1>12, <2>1 DEF DispatchRun, DelayJob, broker
<1>13. CASE DispatchWait(e)
  BY <1>1, <1>13 DEF DispatchWait, DelayJob, ExecutorStates
<1>14. CASE AppendNext(e)
  BY <1>1, <1>14 DEF AppendNext, ExecutorStates, broker
<1>15. CASE CompleteRoot(e)
  BY <1>1, <1>15 DEF CompleteRoot, ExecutorStates, broker
<1>16. [Idle EXCEPT !.pc = "return", !.root = ex[e].root].root = ex[e].root
  BY IdleType DEF ExecutorStates
<1>17. CASE ReleaseCallbacks(e)
  BY <1>16, <1>17 DEF ReleaseCallbacks, broker
<1>18. CASE Leave(e)
  BY <1>16, <1>18 DEF Leave, broker
<1> QED
  BY <1>2, <1>3, <1>4, <1>5, <1>6, <1>7, <1>8, <1>9, <1>10, <1>11, <1>12,
     <1>13, <1>14, <1>15, <1>17, <1>18, ReleaseCalls DEF ExecutorStep

LEMMA NextCalls ==
  ASSUME OneCallPerRoot, TypeOK, [Next]_vars, "worker_ready" \notin FaultKinds
  PROVE  OneCallPerRoot'
<1>1. CASE ManagerNext
  <2>1. CASE ManagerScan
    BY <2>1, UntouchedCalls DEF ManagerScan, broker
  <2>2. ASSUME NEW r \in Roots, ManagerInitiate(r) PROVE OneCallPerRoot'
    BY <2>2, UntouchedCalls DEF ManagerInitiate, broker
  <2>3. ASSUME NEW r \in Roots, ManagerDelay(r) PROVE OneCallPerRoot'
    BY <2>3, DelayCalls DEF ManagerDelay, TypeOK
  <2> QED
    BY <1>1, <2>1, <2>2, <2>3 DEF ManagerNext
<1>2. CASE ExecutorNext
  BY <1>2, StepCalls, TakeCalls DEF ExecutorNext
<1>3. CASE WorkerNext
  BY <1>3, UntouchedCalls
  DEF WorkerNext, StartJob, FinishJob, ReleaseJob, RaiseJob, broker
<1>4. CASE FaultNext
  <2>1. ASSUME NEW e \in Executors, Becomes(e, Idle), UNCHANGED broker PROVE OneCallPerRoot'
    BY <2>1, SameCalls DEF TypeOK, Idle, broker
  <2>2. ASSUME UNCHANGED broker, UNCHANGED ex PROVE OneCallPerRoot'
    BY <2>2, UntouchedCalls DEF broker
  <2>3. ~UnlockAll
    BY DEF UnlockAll, Fault
  <2> QED
    BY <1>4, <2>1, <2>2, <2>3
    DEF FaultNext, ExecutorRaise, ExecutorCrash, WorkerCrash, ManagerCrash
<1>5. CASE UNCHANGED vars
  BY <1>5, UntouchedCalls DEF vars, broker
<1> QED
  BY <1>1, <1>2, <1>3, <1>4, <1>5 DEF Next

\* As long as no worker service comes up and drops the locks, two executors
\* never walk the same tree, whatever else crashes or raises.
THEOREM OneExecutorCorrect ==
  ASSUME "worker_ready" \notin FaultKinds
  PROVE  Spec => []OneExecutorPerRoot
<1>1. OneCallPerRoot /\ TypeOK /\ [Next]_vars => OneCallPerRoot'
  BY NextCalls
<1>2. OneCallPerRoot => OneExecutorPerRoot
  BY DEF OneCallPerRoot
<1> QED
  BY InitCalls, TypeCorrect, <1>1, <1>2, PTL DEF Spec

-----------------------------------------------------------------------------
(* The order of a workflow: the invariant of module WorkflowInvariant is   *)
(* inductive, whatever crashes or raises.                                  *)

HIDE DEF Jobs

\* What every step may rely on.
Known == TypeOK /\ OneCallPerRoot /\ IInv

LEMMA InitOrder == Init => IInv
<1> SUFFICES ASSUME Init PROVE IInv
  OBVIOUS
<1>1. \A e \in Executors : ex[e].pc = "idle" /\ ex[e].dirty = {}
  BY DEF Init, Idle
<1>2. \A t \in Tasks : Waits(t) /\ NoCall(<<t, "RUN">>) /\ NoCall(<<t, "WAIT">>)
  BY DEF Init, Waits, NoCall, Jobs
<1>3. OneCallPerTask
  BY <1>1, <1>2 DEF OneCallPerTask, CallOf, SenderOf, Active, Waits
<1>4. RootsInOrder
  <2>1. \A q \in Roots : RootType[q] # "NORMAL" => status[q] = "ON_HOLD"
    BY DEF Init
  <2> QED
    BY <2>1 DEF Init, RootsInOrder
<1>5. Untouched /\ Focused /\ ExecutorsInOrder /\ StartedInOrder
  BY <1>1, <1>2 DEF Init, Untouched, Focused, ExecutorsInOrder, StartedInOrder, Waits
<1>6. NothingForgotten /\ VerdictsStand
  BY DEF Init, NothingForgotten, BetweenWalks, VerdictsStand, SuccessfulMeansAll,
         FailedMeansSome, Successful, Failed, Completed, WaitingForCallbacks
<1> QED
  BY <1>3, <1>4, <1>5, <1>6 DEF IInv

-----------------------------------------------------------------------------
(* Facts about executors.                                                  *)

\* An executor at work has a root whose lock is held and whose message it has
\* taken, and no other executor has that root.
LEMMA AtWork ==
  ASSUME Known, NEW e \in Executors, ex[e].pc # "idle"
  PROVE  /\ ex[e] \in ExecutorStates /\ ex[e].root \in Roots
         /\ ex[e].root \in rootLock /\ rootQueue[ex[e].root] = 0
         /\ ~Abandoned(ex[e].root)
         /\ status[ex[e].root] \notin Uncalled
         /\ \A d \in Executors : ex[d].root = ex[e].root => d = e
         /\ InScope(ex[e]) /\ InStep(ex[e]) /\ ViewHolds(ex[e]) /\ WalkOf(ex[e])
         /\ SenderOf(ex[e])
<1>1. ex[e] \in ExecutorStates /\ ex[e].root \in Roots
  BY ExecutorFields DEF Known, TypeOK
<1>2. ex[e].root # None
  BY <1>1, ConstantsAssumption
<1> QED
  BY <1>1, <1>2 DEF Known, OneCallPerRoot, OneExecutorPerRoot, Abandoned, IInv,
     RootsInOrder, ExecutorsInOrder, OneCallPerTask

\* What holds of an executor x still holds when its root, the tasks of its root
\* and the calls of those tasks are left alone.
LEMMA Bystander ==
  ASSUME Known, NEW d \in Executors, ex[d].pc # "idle", ex'[d] = ex[d],
         status'[ex[d].root] = status[ex[d].root],
         \A t \in TasksOf(ex[d].root) :
            task_status'[t] = task_status[t] /\ in_focus'[t] = in_focus[t],
         \A c \in CallbacksOf(ex[d].root) :
            /\ status[c] = "DELETED" => status'[c] = "DELETED"
            /\ status[c] \in Completed => status'[c] \in Completed
  PROVE  InScope(ex[d])' /\ InStep(ex[d])' /\ ViewHolds(ex[d])' /\ WalkOf(ex[d])'
<1>1. InScope(ex[d]) /\ InStep(ex[d]) /\ ViewHolds(ex[d]) /\ WalkOf(ex[d])
  BY AtWork
<1>2. InScope(ex[d])'
  BY <1>1 DEF InScope, TasksOf
<1>3. InStep(ex[d])'
  BY <1>1 DEF InStep
<1>4. ViewHolds(ex[d])'
  BY <1>1 DEF ViewHolds, TaskSeen, CallbackSeen, Waits, InScope, TasksOf, CallbacksOf
<1>5. WalkOf(ex[d])'
  <2>1. \A t \in TasksOf(ex[d].root) : (Waits(t) <=> Waits(t)') /\ Previous[t] \subseteq TasksOf(ex[d].root)
    BY ConstantsAssumption DEF Waits, TasksOf
  <2>2. TurnsTaken(ex[d]) => TurnsTaken(ex[d])'
    BY DEF TurnsTaken, TasksOf
  <2>3. FirstWalk(ex[d]) => FirstWalk(ex[d])'
    BY <1>1, <2>1 DEF FirstWalk, TasksOf, FirstTasks, InScope
  <2>4. LaterWalk(ex[d]) => LaterWalk(ex[d])'
    BY <1>1, <2>1 DEF LaterWalk, HeldBack, InScope, TasksOf
  <2> QED
    BY <1>1, <2>2, <2>3, <2>4 DEF WalkOf
<1> QED
  BY <1>2, <1>3, <1>4, <1>5

\* An executor that is lost, or that stays on its root, leaves the verdict on who
\* is lost as it is for all other roots.
LEMMA SameAbandoned ==
  ASSUME Known, NEW e \in Executors, NEW rec, Becomes(e, rec), rec.root = ex[e].root,
         UNCHANGED <<rootLock, rootQueue>>
  PROVE  \A r \in Roots : Abandoned(r)' <=> Abandoned(r)
<1>1. \A d \in Executors : ex'[d].root = ex[d].root
  BY DEF Becomes, Known, TypeOK, ExecutorsOK
<1> QED
  BY <1>1 DEF Abandoned

\* A step inside the walk that writes nothing but the executor's own record, and
\* may send a job.
LEMMA WalkStep ==
  ASSUME Known, NEW e \in Executors, NEW rec, ex[e].pc # "idle", Becomes(e, rec),
         rec.root = ex[e].root, rec.pc \in Walking,
         UNCHANGED <<tables, rootLock, rootQueue, manager>>, OneCallPerTask',
         InScope(rec)', InStep(rec)', ViewHolds(rec)', WalkOf(rec)'
  PROVE  IInv'
<1>1. ex'[e] = rec /\ \A d \in Executors : d # e => ex'[d] = ex[d]
  BY DEF Becomes, Known, TypeOK, ExecutorsOK
<1>2. UNCHANGED <<status, executor_running, task_status, in_focus, scan, picked>>
  BY DEF tables, manager
<1>4. RootsInOrder' /\ Focused' /\ StartedInOrder'
  BY <1>2 DEF Known, IInv, RootsInOrder, Focused, StartedInOrder, Waits
<1>5. Untouched'
  BY <1>1, <1>2 DEF Known, IInv, Untouched, Waits, Walking
<1>6. ExecutorsInOrder'
  <2>1. ASSUME NEW d \in Executors, ex'[d].pc # "idle"
        PROVE  (InScope(ex[d]) /\ InStep(ex[d]) /\ ViewHolds(ex[d]) /\ WalkOf(ex[d]))'
    <3>1. CASE d = e
      BY <1>1, <3>1 DEF InScope, InStep, ViewHolds, WalkOf
    <3>2. CASE d # e
      BY <1>1, <1>2, <2>1, <3>2, Bystander
    <3> QED
      BY <3>1, <3>2
  <2>2. ASSUME NEW d \in Executors, ex'[d].pc = "idle" PROVE ex'[d].dirty = {}
    BY <1>1, <2>2 DEF Walking, Known, IInv, ExecutorsInOrder
  <2> QED
    BY <2>1, <2>2 DEF ExecutorsInOrder
<1>7. \A r \in Roots : Abandoned(r)' <=> Abandoned(r)
  BY SameAbandoned
<1>8. NothingForgotten'
  <2>1. ASSUME NEW r \in Roots, BetweenWalks(r)' PROVE BetweenWalks(r)
    BY <1>1, <1>2, <1>7, <2>1 DEF BetweenWalks, Walking
  <2> QED
    BY <1>2, <2>1 DEF Known, IInv, NothingForgotten, HeldBack, Waits, TasksOf
<1>9. VerdictsStand'
  BY <1>2, <1>7, ConstantsAssumption
  DEF Known, IInv, VerdictsStand, SuccessfulMeansAll, FailedMeansSome, TasksOf
<1> QED
  BY <1>4, <1>5, <1>6, <1>8, <1>9 DEF IInv

\* The calls of tasks are as they were when nothing is written, sent or taken.
LEMMA SameTaskCalls ==
  ASSUME Known, NEW e \in Executors, NEW rec, Becomes(e, rec), SenderOf(rec)',
         UNCHANGED <<task_status, jobQueue, working>>
  PROVE  OneCallPerTask'
<1>1. ex'[e] = rec /\ \A d \in Executors : d # e => ex'[d] = ex[d]
  BY DEF Becomes, Known, TypeOK, ExecutorsOK
<1>2. \A t \in Tasks : CallOf(t)'
  BY DEF Known, IInv, OneCallPerTask, CallOf, NoCall
<1>3. ASSUME NEW d \in Executors PROVE SenderOf(ex[d])' \/ d = e
  BY <1>1 DEF Known, IInv, OneCallPerTask, SenderOf, NoCall
<1> QED
  BY <1>1, <1>2, <1>3 DEF OneCallPerTask

\* The tasks an executor is about to send, or has marked, are those of its root.
LEMMA OwnSends ==
  ASSUME Known, NEW d \in Executors, NEW e \in Executors, d # e, ex[e].pc # "idle"
  PROVE  /\ ex[d].pc \in {"run", "wait"} => RootOf[ex[d].cur] # ex[e].root
         /\ \A t \in ex[d].dirty : RootOf[t] # ex[e].root
<1>1. \A f \in Executors : ex[f].root = ex[e].root => f = e
  BY AtWork
<1>2. CASE ex[d].pc # "idle"
  BY <1>1, <1>2, AtWork DEF InScope, TasksOf
<1>3. CASE ex[d].pc = "idle"
  BY <1>3 DEF Known, IInv, ExecutorsInOrder
<1> QED
  BY <1>2, <1>3

-----------------------------------------------------------------------------
(* Steps inside the walk.                                                  *)

LEMMA ViewReads ==
  ASSUME NEW r \in Roots
  PROVE  /\ \A t \in TasksOf(r) : View(r).task[t] = task_status[t]
         /\ View(r).root[r] = status[r]
         /\ \A c \in CallbacksOf(r) : View(r).root[c] = status[c]
  BY DEF View, TasksOf, CallbacksOf

\* A snapshot that has just been taken holds.
LEMMA NewView ==
  ASSUME NEW x, x.root \in Roots, x.view = View(x.root), x.dirty = {}, Focused,
         UNCHANGED <<status, task_status, in_focus>>
  PROVE  ViewHolds(x)' /\ x.view.root[x.root] = status[x.root]
  BY ViewReads DEF Focused, ViewHolds, TaskSeen, CallbackSeen, Waits, TasksOf, CallbacksOf

LEMMA BeginRunningOrder ==
  ASSUME Known, NEW e \in Executors, BeginRunning(e)
  PROVE  IInv'
<1> DEFINE r == ex[e].root
           focused == {t \in TasksOf(r) : in_focus[t]}
<1>1. ex[e].pc = "begin" /\ ex[e].pc # "idle" /\ status[r] = "RUNNING"
  BY DEF BeginRunning
<1>2. /\ ex[e] \in ExecutorStates /\ r \in Roots /\ InScope(ex[e]) /\ ~Abandoned(r)
      /\ \A d \in Executors : ex[d].root = r => d = e
  BY <1>1, AtWork
<1>3. PICK x : x = [ex[e] EXCEPT !.pc = "loop", !.view = View(r),
                                 !.todo = focused, !.listed = focused]
  OBVIOUS
<1>4. /\ x.pc = "loop" /\ x.root = r /\ x.view = View(r) /\ x.todo = focused
      /\ x.listed = focused /\ x.added = {} /\ x.dirty = {} /\ ~x.first
  BY <1>1, <1>2, <1>3 DEF InScope, ExecutorStates, Walking
<1>5. Becomes(e, x) /\ UNCHANGED <<tables, broker, manager, workers>>
  BY <1>3 DEF BeginRunning
<1>6. UNCHANGED <<status, task_status, in_focus>>
  BY <1>5 DEF tables
<1>7. SenderOf(x)' /\ InScope(x)'
  BY <1>4 DEF SenderOf, InScope, Walking
<1>8. ViewHolds(x)' /\ InStep(x)'
  BY <1>1, <1>2, <1>4, <1>6, NewView DEF InStep, Known, IInv
<1>9. WalkOf(x)'
  <2>1. \A u \in TasksOf(r) : Waits(u) => HeldBack(u)
    BY <1>1, <1>2 DEF Known, IInv, NothingForgotten, BetweenWalks
  <2>2. \A u \in TasksOf(r) : Waits(u) => u \notin x.listed
    BY <1>4 DEF Known, IInv, Focused, TasksOf
  <2>3. LaterWalk(x)'
    BY <1>4, <1>6, <2>1, <2>2 DEF LaterWalk, HeldBack, Waits, TasksOf
  <2>4. TurnsTaken(x)'
    BY <1>4, <1>6 DEF TurnsTaken, TasksOf
  <2> QED
    BY <1>4, <2>3, <2>4 DEF WalkOf
<1> QED
  BY <1>1, <1>4, <1>5, <1>7, <1>8, <1>9, WalkStep, SameTaskCalls DEF Walking, tables, broker, workers

LEMMA BeginOtherOrder ==
  ASSUME Known, NEW e \in Executors, BeginOther(e)
  PROVE  IInv'
<1> DEFINE r == ex[e].root
<1>1. ex[e].pc = "begin" /\ ex[e].pc # "idle" /\ status[r] \notin {"INITIATED", "RUNNING"}
  BY DEF BeginOther
<1>2. ex[e] \in ExecutorStates /\ r \in Roots /\ InScope(ex[e]) /\ InStep(ex[e])
  BY <1>1, AtWork
<1>3. PICK x : x = [ex[e] EXCEPT !.pc = "loop", !.view = View(r)]
  OBVIOUS
<1>4. /\ x.pc = "loop" /\ x.root = r /\ x.view = View(r) /\ x.todo = {} /\ x.added = {}
      /\ x.listed = ex[e].listed /\ x.dirty = {} /\ x.count = 0
  BY <1>1, <1>2, <1>3 DEF InScope, ExecutorStates, Walking
<1>5. Becomes(e, x) /\ UNCHANGED <<tables, broker, manager, workers>>
  BY <1>3 DEF BeginOther
<1>6. UNCHANGED <<status, task_status, in_focus>>
  BY <1>5 DEF tables
<1>7. SenderOf(x)' /\ InScope(x)' /\ WalkOf(x)'
  BY <1>1, <1>2, <1>4, <1>6 DEF SenderOf, InScope, Walking, WalkOf
<1>8. ViewHolds(x)' /\ InStep(x)'
  BY <1>1, <1>2, <1>4, <1>6, NewView DEF InStep, Known, IInv
<1> QED
  BY <1>1, <1>4, <1>5, <1>7, <1>8, WalkStep, SameTaskCalls DEF Walking, tables, broker, workers

LEMMA ListFirstOrder ==
  ASSUME Known, NEW e \in Executors, ListFirst(e)
  PROVE  IInv'
<1> DEFINE r == ex[e].root
<1>1. ex[e].pc = "list" /\ ex[e].pc # "idle"
  BY DEF ListFirst
<1>2. ex[e] \in ExecutorStates /\ r \in Roots /\ InScope(ex[e]) /\ InStep(ex[e])
  BY <1>1, AtWork
<1>3. PICK x : x = [ex[e] EXCEPT !.pc = "loop", !.view = View(r), !.first = TRUE,
                                 !.todo = FirstTasks(r)]
  OBVIOUS
<1>4. /\ x.pc = "loop" /\ x.root = r /\ x.view = View(r) /\ x.todo = FirstTasks(r)
      /\ x.listed = ex[e].listed /\ x.added = {} /\ x.dirty = {} /\ x.first
  BY <1>1, <1>2, <1>3 DEF InScope, ExecutorStates, Walking
<1>5. Becomes(e, x) /\ UNCHANGED <<tables, broker, manager, workers>>
  BY <1>3 DEF ListFirst
<1>6. UNCHANGED <<status, task_status, in_focus>>
  BY <1>5 DEF tables
<1>7. SenderOf(x)' /\ InScope(x)'
  BY <1>1, <1>2, <1>4 DEF SenderOf, InScope, Walking, FirstTasks
<1>8. ViewHolds(x)' /\ InStep(x)'
  BY <1>1, <1>2, <1>4, <1>6, NewView DEF InStep, Known, IInv
<1>9. \A t \in TasksOf(r) : Waits(t) /\ ~in_focus[t]
  BY <1>1 DEF Known, IInv, Untouched, Focused, TasksOf
<1>10. FirstWalk(x)' /\ TurnsTaken(x)'
  BY <1>4, <1>6, <1>9 DEF FirstWalk, TurnsTaken, Waits, FirstTasks, TasksOf
<1> QED
  BY <1>1, <1>4, <1>5, <1>7, <1>8, <1>10, WalkStep, SameTaskCalls DEF Walking, tables, broker, workers, WalkOf

\* A task whose turn it is belongs to a RUNNING root, and is in the list either
\* because it was in focus or because it has been appended.
LEMMA TurnFacts ==
  ASSUME Known, NEW e \in Executors, NEW t \in Tasks, Turn(e, t)
  PROVE  /\ ex[e].pc = "loop" /\ status[ex[e].root] = "RUNNING"
         /\ t \in TasksOf(ex[e].root)
         /\ t \in ex[e].todo \/ (ex[e].todo = {} /\ t \in ex[e].added)
         /\ TaskSeen(ex[e], t)
         /\ TurnsTaken(ex[e])
         /\ ex[e].first => FirstWalk(ex[e])
         /\ ~ex[e].first => LaterWalk(ex[e])
<1>1. ex[e].pc = "loop" /\ (t \in ex[e].todo \/ (ex[e].todo = {} /\ t \in ex[e].added))
  BY DEF Turn
<1>2. InScope(ex[e]) /\ InStep(ex[e]) /\ ViewHolds(ex[e]) /\ WalkOf(ex[e])
  BY <1>1, AtWork
<1> QED
  BY <1>1, <1>2 DEF InScope, InStep, ViewHolds, WalkOf, Walking

\* What is left of a list after a turn that writes nothing, of a task that waits
\* or has failed, or of one that is counted.
LEMMA TurnGone ==
  ASSUME Known, NEW e \in Executors, NEW t \in Tasks, Turn(e, t), ~ex[e].first, NEW x,
         ex[e].root = x.root, x.pc = "loop", x.todo = ex[e].todo \ {t},
         x.added = ex[e].added \ {t}, x.listed = ex[e].listed, ~x.first,
         Waits(t) => \E p \in Previous[t] : Waits(p) \/ in_focus[p],
         UNCHANGED tables
  PROVE  LaterWalk(x)'
<1>1. LaterWalk(ex[e]) /\ t \in TasksOf(x.root)
  BY TurnFacts
<1>2. UNCHANGED <<task_status, in_focus>>
  BY DEF tables
<1>3. ASSUME NEW u \in TasksOf(x.root), Waits(u), u \notin x.added
      PROVE  IF u \in x.listed
             THEN \E p \in Previous[u] : Waits(p) \/ (in_focus[p] /\ p \notin x.todo)
             ELSE HeldBack(u) \/ (x.pc = "append" /\ x.cur \in Previous[u])
  <2>1. CASE u # t
    BY <1>1, <1>3, <2>1, TurnFacts DEF LaterWalk
  <2>2. CASE u = t
    <3>1. ~in_focus[t]
      BY <1>3, <2>2 DEF Known, IInv, Focused
    <3>2. ex[e].todo = {} /\ t \in ex[e].added
      BY <1>1, <3>1, TurnFacts DEF LaterWalk
    <3> QED
      BY <1>1, <1>3, <2>2, <3>2 DEF LaterWalk
  <2> QED
    BY <2>1, <2>2
<1> QED
  BY <1>1, <1>2, <1>3 DEF LaterWalk, HeldBack, Waits, TasksOf

LEMMA PassOverOrder ==
  ASSUME Known, NEW e \in Executors, NEW t \in Tasks, PassOver(e, t)
  PROVE  IInv'
<1> DEFINE r == ex[e].root
<1>1. Turn(e, t) /\ ~ex[e].first /\ ex[e].pc = "loop" /\ ex[e].pc # "idle"
  BY DEF PassOver, Turn
<1>2. /\ ex[e] \in ExecutorStates /\ r \in Roots /\ InScope(ex[e]) /\ InStep(ex[e])
      /\ ViewHolds(ex[e]) /\ SenderOf(ex[e])
  BY <1>1, AtWork
<1>3. PICK x : x = Visited(e, t)
  OBVIOUS
<1>4. /\ x.pc = "loop" /\ x.root = r /\ x.view = ex[e].view /\ ~x.first
      /\ x.todo = ex[e].todo \ {t} /\ x.added = ex[e].added \ {t}
      /\ x.listed = ex[e].listed /\ x.dirty = ex[e].dirty /\ x.count = ex[e].count
  BY <1>1, <1>2, <1>3 DEF Visited, ExecutorStates
<1>5. Becomes(e, x) /\ UNCHANGED <<tables, broker, manager, workers>>
  BY <1>3 DEF PassOver
<1>6. UNCHANGED <<status, task_status, in_focus, jobQueue, working>>
  BY <1>5 DEF tables, broker, workers
<1>7. SenderOf(x)' /\ InScope(x)' /\ InStep(x)' /\ ViewHolds(x)'
  BY <1>1, <1>2, <1>4, <1>6
  DEF SenderOf, InScope, InStep, ViewHolds, TaskSeen, CallbackSeen, Waits, NoCall,
      TasksOf, CallbacksOf
<1>8. Waits(t) => \E p \in Previous[t] : Waits(p) \/ in_focus[p]
  <2> SUFFICES ASSUME Waits(t) PROVE \E p \in Previous[t] : Waits(p) \/ in_focus[p]
    OBVIOUS
  <2>1. ~PreviousSeenSuccessful(e, t)
    BY <1>1, TurnFacts DEF PassOver, Seen, TaskSeen
  <2>2. PICK p \in Previous[t] : ex[e].view.task[p] # "SUCCESSFUL"
    BY <2>1 DEF PreviousSeenSuccessful, Seen
  <2>3. p \in TasksOf(r)
    BY <1>1, TurnFacts, ConstantsAssumption DEF TasksOf
  <2>4. TaskSeen(ex[e], p)
    BY <1>1, <1>2, <2>3 DEF ViewHolds, Walking
  <2> QED
    BY <1>1, <2>2, <2>4 DEF TaskSeen
<1>9. LaterWalk(x)'
  BY <1>1, <1>4, <1>5, <1>8, TurnGone
<1>10. TurnsTaken(x)'
  <2>1. in_focus[t] => ex[e].view.task[t] = "FAILED"
    BY <1>1, TurnFacts DEF PassOver, Seen, TaskSeen, Known, IInv, Focused
  <2>2. TurnsTaken(ex[e])
    BY <1>1, TurnFacts
  <2> QED
    BY <1>1, <1>4, <1>6, <2>1, <2>2 DEF TurnsTaken, TasksOf
<1> QED
  BY <1>1, <1>4, <1>5, <1>7, <1>9, <1>10, WalkStep, SameTaskCalls DEF Walking, tables, broker, workers, WalkOf

LEMMA CountActiveOrder ==
  ASSUME Known, NEW e \in Executors, NEW t \in Tasks, CountActive(e, t)
  PROVE  IInv'
<1> DEFINE r == ex[e].root
<1>1. Turn(e, t) /\ ~ex[e].first /\ ex[e].pc = "loop" /\ ex[e].pc # "idle"
  BY DEF CountActive, Turn
<1>2. /\ ex[e] \in ExecutorStates /\ r \in Roots /\ InScope(ex[e]) /\ InStep(ex[e])
      /\ ViewHolds(ex[e]) /\ SenderOf(ex[e])
  BY <1>1, AtWork
<1>3. PICK x : x = [Visited(e, t) EXCEPT !.count = @ + 1]
  OBVIOUS
<1>4. /\ x.pc = "loop" /\ x.root = r /\ x.view = ex[e].view /\ ~x.first
      /\ x.todo = ex[e].todo \ {t} /\ x.added = ex[e].added \ {t}
      /\ x.listed = ex[e].listed /\ x.dirty = ex[e].dirty /\ x.count > 0
  BY <1>1, <1>2, <1>3 DEF Visited, ExecutorStates
<1>5. Becomes(e, x) /\ UNCHANGED <<tables, broker, manager, workers>>
  BY <1>3 DEF CountActive
<1>6. UNCHANGED <<status, task_status, in_focus, jobQueue, working>>
  BY <1>5 DEF tables, broker, workers
<1>7. status[r] = "RUNNING" /\ t \in TasksOf(r) /\ TaskSeen(ex[e], t)
  BY <1>1, TurnFacts
<1>8. SenderOf(x)' /\ InScope(x)' /\ InStep(x)' /\ ViewHolds(x)'
  BY <1>1, <1>2, <1>4, <1>6, <1>7
  DEF SenderOf, InScope, InStep, ViewHolds, TaskSeen, CallbackSeen, Waits, NoCall,
      TasksOf, CallbacksOf
<1>9. ~Waits(t)
  BY <1>1, <1>7 DEF CountActive, Seen, TaskSeen, Active
<1>10. LaterWalk(x)'
  BY <1>1, <1>4, <1>5, <1>9, TurnGone
<1>11. TurnsTaken(x)'
  BY <1>4 DEF TurnsTaken
<1> QED
  BY <1>1, <1>4, <1>5, <1>8, <1>10, <1>11, WalkStep, SameTaskCalls
  DEF Walking, tables, broker, workers, WalkOf

\* A task without a WAIT function joins the unwritten marks.
LEMMA WaitUnmappedOrder ==
  ASSUME Known, NEW e \in Executors, NEW t \in Tasks, WaitUnmapped(e, t)
  PROVE  IInv'
<1> DEFINE r == ex[e].root
<1>1. /\ Turn(e, t) /\ ~ex[e].first /\ ex[e].pc = "loop" /\ ex[e].pc # "idle"
      /\ ex[e].view.task[t] = "RUNNING_WAIT"
  BY DEF WaitUnmapped, Turn, Seen
<1>2. /\ ex[e] \in ExecutorStates /\ r \in Roots /\ InScope(ex[e]) /\ InStep(ex[e])
      /\ ViewHolds(ex[e]) /\ SenderOf(ex[e])
  BY <1>1, AtWork
<1>3. PICK x : x = [Visited(e, t) EXCEPT !.dirty = @ \cup {t}, !.view = Marked(@, t)]
  OBVIOUS
<1>4. /\ x.pc = "loop" /\ x.root = r /\ ~x.first
      /\ x.todo = ex[e].todo \ {t} /\ x.added = ex[e].added \ {t}
      /\ x.listed = ex[e].listed /\ x.dirty = ex[e].dirty \cup {t}
      /\ x.count = ex[e].count /\ x.view = Marked(ex[e].view, t)
  BY <1>1, <1>2, <1>3 DEF Visited, ExecutorStates
<1>5. /\ x.view.task[t] = "FAILED" /\ x.view.root = ex[e].view.root
      /\ \A u \in Tasks : u # t => x.view.task[u] = ex[e].view.task[u]
  BY <1>2, <1>4 DEF Marked, ExecutorStates, Views
<1>6. Becomes(e, x) /\ UNCHANGED <<tables, broker, manager, workers>>
  BY <1>3 DEF WaitUnmapped
<1>7. UNCHANGED <<status, task_status, in_focus, jobQueue, working>>
  BY <1>6 DEF tables, broker, workers
<1>8. /\ status[r] = "RUNNING" /\ t \in TasksOf(r) /\ task_status[t] = "RUNNING_WAIT"
      /\ TurnsTaken(ex[e])
  BY <1>1, TurnFacts DEF TaskSeen
<1>9. NoCall(<<t, "RUN">>) /\ in_focus[t] /\ ~Waits(t)
  BY <1>8 DEF Known, IInv, OneCallPerTask, CallOf, Active, Focused, Waits
<1>10. SenderOf(x)' /\ InScope(x)' /\ InStep(x)'
  BY <1>1, <1>2, <1>4, <1>5, <1>7, <1>8, <1>9
  DEF SenderOf, InScope, InStep, NoCall, TasksOf, Walking
<1>11. ViewHolds(x)'
  <2>1. \A u \in TasksOf(r) : TaskSeen(ex[e], u) /\ u \in Tasks
    BY <1>1, <1>2 DEF ViewHolds, Walking, TasksOf
  <2>2. \A u \in TasksOf(r) : TaskSeen(x, u)'
    BY <1>1, <1>4, <1>5, <1>7, <1>8, <1>9, <2>1 DEF TaskSeen, Waits
  <2> QED
    BY <1>1, <1>2, <1>4, <1>5, <1>7, <2>2 DEF ViewHolds, CallbackSeen, TasksOf, CallbacksOf
<1>12. LaterWalk(x)'
  BY <1>1, <1>4, <1>6, <1>9, TurnGone
<1>13. TurnsTaken(x)'
  BY <1>1, <1>4, <1>5, <1>7, <1>8 DEF TurnsTaken, TasksOf
<1> QED
  BY <1>1, <1>4, <1>6, <1>10, <1>11, <1>12, <1>13, WalkStep, SameTaskCalls
  DEF Walking, tables, broker, workers, WalkOf

LEMMA AppendNextOrder ==
  ASSUME Known, NEW e \in Executors, AppendNext(e)
  PROVE  IInv'
<1> DEFINE r == ex[e].root
           new == NextTasks(ex[e].cur) \ ex[e].listed
<1>1. ex[e].pc = "append" /\ ex[e].pc # "idle"
  BY DEF AppendNext
<1>2. /\ ex[e] \in ExecutorStates /\ r \in Roots /\ InScope(ex[e]) /\ InStep(ex[e])
      /\ ViewHolds(ex[e]) /\ WalkOf(ex[e])
  BY <1>1, AtWork
<1>3. PICK x : x = [ex[e] EXCEPT !.pc = "loop", !.cur = None, !.view = View(r),
                                 !.added = @ \cup new, !.listed = @ \cup new]
  OBVIOUS
<1>4. /\ x.pc = "loop" /\ x.root = r /\ x.view = View(r) /\ x.todo = ex[e].todo
      /\ x.added = ex[e].added \cup new /\ x.listed = ex[e].listed \cup new
      /\ x.dirty = {} /\ x.first = ex[e].first /\ x.count = ex[e].count
  BY <1>1, <1>2, <1>3 DEF InScope, ExecutorStates
<1>5. Becomes(e, x) /\ UNCHANGED <<tables, broker, manager, workers>>
  BY <1>3 DEF AppendNext
<1>6. UNCHANGED <<status, task_status, in_focus>>
  BY <1>5 DEF tables
<1>7. /\ status[r] = "RUNNING" /\ TurnsTaken(ex[e]) /\ LaterWalk(ex[e]) /\ ~ex[e].first
      /\ ex[e].dirty = {} /\ ex[e].cur \in TasksOf(r)
  BY <1>1, <1>2 DEF InStep, WalkOf, FirstWalk, Walking, InScope
<1>8. new \subseteq TasksOf(r)
  BY <1>7, ConstantsAssumption DEF NextTasks, TasksOf
<1>9. SenderOf(x)' /\ InScope(x)'
  BY <1>1, <1>2, <1>4, <1>8 DEF SenderOf, InScope, Walking
<1>10. ViewHolds(x)' /\ InStep(x)'
  BY <1>2, <1>4, <1>6, <1>7, NewView DEF InStep, Known, IInv
<1>11. TurnsTaken(x)'
  <2>1. \A t \in TasksOf(r) : ex[e].view.task[t] = "FAILED" => View(r).task[t] = "FAILED"
    BY <1>1, <1>2, <1>7, ViewReads DEF ViewHolds, TaskSeen, Walking
  <2> QED
    BY <1>1, <1>4, <1>6, <1>7, <2>1 DEF TurnsTaken, TasksOf
<1>12. LaterWalk(x)'
  <2>1. ASSUME NEW u \in TasksOf(r), Waits(u), u \notin x.added
        PROVE  IF u \in x.listed
               THEN \E p \in Previous[u] : Waits(p) \/ (in_focus[p] /\ p \notin x.todo)
               ELSE HeldBack(u)
    <3>1. CASE u \in ex[e].listed
      BY <1>4, <1>7, <2>1, <3>1 DEF LaterWalk
    <3>2. CASE u \notin ex[e].listed
      BY <1>4, <1>7, <2>1, <3>2 DEF LaterWalk, NextTasks, TasksOf
    <3> QED
      BY <3>1, <3>2
  <2>2. \A t \in x.added : ~in_focus[t]
    BY <1>4, <1>7, <1>8 DEF LaterWalk
  <2> QED
    BY <1>4, <1>6, <1>7, <2>1, <2>2 DEF LaterWalk, HeldBack, Waits, TasksOf
<1> QED
  BY <1>1, <1>4, <1>5, <1>7, <1>9, <1>10, <1>11, <1>12, WalkStep, SameTaskCalls
  DEF Walking, tables, broker, workers, WalkOf

\* A job has been dealt with: the lists are as they were.
LEMMA SameLists ==
  ASSUME NEW x, NEW y, x.pc \in {"run", "wait"}, y.pc = "loop", y.root = x.root,
         y.todo = x.todo, y.added = x.added, y.listed = x.listed, y.first = x.first,
         IF x.first THEN FirstWalk(x) ELSE LaterWalk(x),
         UNCHANGED <<task_status, in_focus>>
  PROVE  (IF y.first THEN FirstWalk(y) ELSE LaterWalk(y))'
  BY DEF FirstWalk, LaterWalk, HeldBack, Waits, TasksOf, FirstTasks

\* delay() sends the one call of a task that its executor has just committed.
LEMMA SendJob ==
  ASSUME Known, NEW e \in Executors, ex[e].pc \in {"run", "wait"}, NEW kind,
         kind = (IF ex[e].pc = "run" THEN "RUN" ELSE "WAIT"),
         DelayJob(<<ex[e].cur, kind>>), NEW x, Becomes(e, x), x.pc = "loop", x.dirty = {},
         UNCHANGED <<task_status, working>>
  PROVE  OneCallPerTask'
<1> DEFINE t == ex[e].cur
           j == <<t, kind>>
<1>1. ex[e].pc # "idle" /\ ex[e].root \in Roots /\ InScope(ex[e]) /\ SenderOf(ex[e])
  BY AtWork
<1>2. t \in Tasks /\ RootOf[t] = ex[e].root /\ kind \in {"RUN", "WAIT"}
  BY <1>1 DEF InScope, TasksOf
<1>3. CallOf(t)
  BY <1>2 DEF Known, IInv, OneCallPerTask
<1>4. jobQueue'[j] \in {0, 1} /\ \A i \in Jobs : i # j => jobQueue'[i] = jobQueue[i]
  BY <1>1, <1>2 DEF DelayJob, SenderOf, NoCall, Known, TypeOK, BrokerOK, Jobs
<1>5. \A u \in Tasks : CallOf(u)'
  <2>1. CASE ex[e].pc = "run"
    <3>1. kind = "RUN" /\ task_status[t] = "INITIATED" /\ NoCall(j)
      BY <1>1, <2>1 DEF SenderOf
    <3> QED
      BY <1>2, <1>4, <3>1 DEF Known, IInv, OneCallPerTask, CallOf, NoCall, Active, Jobs
  <2>2. CASE ex[e].pc = "wait"
    <3>1. kind = "WAIT" /\ task_status[t] = "RUNNING_WAIT_INITIATED" /\ NoCall(j)
      BY <1>1, <2>2 DEF SenderOf
    <3> QED
      BY <1>2, <1>4, <3>1 DEF Known, IInv, OneCallPerTask, CallOf, NoCall, Active, Jobs
  <2> QED
    BY <2>1, <2>2
<1>6. ex'[e] = x /\ \A d \in Executors : d # e => ex'[d] = ex[d]
  BY DEF Becomes, Known, TypeOK, ExecutorsOK
<1>7. ASSUME NEW d \in Executors, d # e PROVE SenderOf(ex[d])'
  <2>1. SenderOf(ex[d])
    BY DEF Known, IInv, OneCallPerTask
  <2>2. /\ ex[d].pc \in {"run", "wait"} => ex[d].cur \in Tasks /\ ex[d].cur # t
        /\ \A u \in ex[d].dirty : u \in Tasks /\ u # t
    BY <1>1, <1>2, <1>7, OwnSends, ExecutorFields
    DEF Known, TypeOK, ExecutorsOK, ExecutorStates
  <2> QED
    BY <1>4, <1>6, <1>7, <2>1, <2>2 DEF SenderOf, NoCall, Jobs
<1>8. SenderOf(ex[e])'
  BY <1>6 DEF SenderOf
<1> QED
  BY <1>5, <1>7, <1>8 DEF OneCallPerTask

LEMMA DispatchWaitOrder ==
  ASSUME Known, NEW e \in Executors, DispatchWait(e)
  PROVE  IInv'
<1> DEFINE r == ex[e].root
<1>1. ex[e].pc = "wait" /\ ex[e].pc # "idle"
  BY DEF DispatchWait
<1>2. /\ ex[e] \in ExecutorStates /\ r \in Roots /\ InScope(ex[e]) /\ InStep(ex[e])
      /\ ViewHolds(ex[e]) /\ WalkOf(ex[e])
  BY <1>1, AtWork
<1>3. PICK x : x = [ex[e] EXCEPT !.pc = "loop", !.cur = None, !.count = @ + 1,
                                 !.view = View(r)]
  OBVIOUS
<1>4. /\ x.pc = "loop" /\ x.root = r /\ x.view = View(r) /\ x.todo = ex[e].todo
      /\ x.added = ex[e].added /\ x.listed = ex[e].listed
      /\ x.dirty = {} /\ x.first = ex[e].first /\ x.count > 0
  BY <1>1, <1>2, <1>3 DEF InScope, ExecutorStates
<1>5. /\ Becomes(e, x) /\ DelayJob(<<ex[e].cur, "WAIT">>)
      /\ UNCHANGED <<tables, manager, workers, rootLock, rootQueue>>
  BY <1>3 DEF DispatchWait, DelayJob
<1>6. UNCHANGED <<status, task_status, in_focus, working>>
  BY <1>5 DEF tables, workers
<1>7. status[r] = "RUNNING" /\ WalkOf(ex[e])
  BY <1>1, <1>2 DEF InStep
<1>8. InScope(x)'
  BY <1>1, <1>2, <1>4 DEF InScope, Walking
<1>9. ViewHolds(x)' /\ InStep(x)'
  BY <1>2, <1>4, <1>6, <1>7, NewView DEF InStep, Known, IInv
<1>10. WalkOf(x)'
  BY <1>1, <1>4, <1>6, <1>7, SameLists DEF WalkOf, TurnsTaken, Walking
<1>11. OneCallPerTask'
  BY <1>1, <1>4, <1>5, <1>6, SendJob
<1> QED
  BY <1>1, <1>4, <1>5, <1>8, <1>9, <1>10, <1>11, WalkStep DEF Walking

LEMMA DispatchRunOrder ==
  ASSUME Known, NEW e \in Executors, DispatchRun(e)
  PROVE  IInv'
<1> DEFINE r == ex[e].root
           t == ex[e].cur
           next == [ex[e] EXCEPT !.pc = "loop", !.cur = None, !.view = View(r)]
<1>1. ex[e].pc = "run" /\ ex[e].pc # "idle"
  BY DEF DispatchRun
<1>2. /\ ex[e] \in ExecutorStates /\ r \in Roots /\ InScope(ex[e]) /\ InStep(ex[e])
      /\ ViewHolds(ex[e]) /\ WalkOf(ex[e]) /\ SenderOf(ex[e])
  BY <1>1, AtWork
<1>3. UNCHANGED <<tables, manager, workers>>
  BY DEF DispatchRun
<1>4. UNCHANGED <<status, task_status, in_focus, working>>
  BY <1>3 DEF tables, workers
<1>5. status[r] = "RUNNING" /\ t \in TasksOf(r) /\ task_status[t] = "INITIATED"
  BY <1>1, <1>2 DEF InStep, InScope, SenderOf
<1>6. CASE t \in NoRun
  <2>1. PICK x : x = [next EXCEPT !.dirty = {t}, !.view = Marked(@, t)]
    OBVIOUS
  <2>2. /\ x.pc = "loop" /\ x.root = r /\ x.view = Marked(View(r), t)
        /\ x.todo = ex[e].todo /\ x.added = ex[e].added /\ x.listed = ex[e].listed
        /\ x.dirty = {t} /\ x.first = ex[e].first /\ x.count = ex[e].count
    BY <1>1, <1>2, <2>1 DEF InScope, ExecutorStates
  <2>3. /\ x.view.task[t] = "FAILED" /\ x.view.root = View(r).root
        /\ \A u \in TasksOf(r) : u # t => x.view.task[u] = task_status[u]
    <3>1. /\ x.view.task = [View(r).task EXCEPT ![t] = "FAILED"]
          /\ x.view.root = View(r).root
      BY <2>2 DEF Marked
    <3>2. View(r).task \in [Tasks -> TaskStatuses] /\ t \in Tasks
      BY <1>5, ViewType DEF Views, TasksOf, Known, TypeOK
    <3>3. \A u \in TasksOf(r) : View(r).task[u] = task_status[u] /\ u \in Tasks
      BY <1>2, ViewReads DEF TasksOf
    <3> QED
      BY <3>1, <3>2, <3>3
  <2>4. Becomes(e, x) /\ UNCHANGED broker
    BY <1>6, <2>1 DEF DispatchRun
  <2>5. SenderOf(x)' /\ InScope(x)'
    BY <1>1, <1>2, <1>4, <1>5, <2>2, <2>4 DEF SenderOf, InScope, Walking, NoCall, broker
  <2>6. ViewHolds(x)' /\ InStep(x)'
    <3>1. in_focus[t] /\ ~Waits(t)
      BY <1>5 DEF Known, IInv, Focused, Waits, TasksOf
    <3>2. \A u \in TasksOf(r) : TaskSeen(x, u)'
      BY <1>4, <1>5, <2>2, <2>3, <3>1
      DEF TaskSeen, Waits, Known, IInv, Focused, TasksOf
    <3>3. \A c \in CallbacksOf(r) : CallbackSeen(x, c)'
      BY <1>4, <2>3, <1>2, ViewReads DEF CallbackSeen
    <3> QED
      BY <1>2, <1>4, <1>5, <2>2, <2>3, <3>2, <3>3, ViewReads
      DEF ViewHolds, InStep, TasksOf, CallbacksOf
  <2>7. WalkOf(x)'
    <3>1. TurnsTaken(x)'
      <4>1. \A u \in TasksOf(r) : ex[e].view.task[u] = "FAILED" => x.view.task[u] = "FAILED"
        BY <1>1, <1>2, <2>3 DEF ViewHolds, TaskSeen, Walking, InScope
      <4> QED
        BY <1>1, <1>2, <1>4, <1>5, <2>2, <2>3, <4>1 DEF WalkOf, TurnsTaken, Walking, TasksOf
    <3> QED
      BY <1>1, <1>2, <1>4, <1>5, <2>2, <3>1, SameLists DEF WalkOf, Walking
  <2> QED
    BY <1>1, <1>3, <2>2, <2>4, <2>5, <2>6, <2>7, WalkStep, SameTaskCalls
    DEF Walking, tables, broker, workers
<1>7. CASE t \notin NoRun
  <2>1. PICK x : x = [next EXCEPT !.count = @ + 1]
    OBVIOUS
  <2>2. /\ x.pc = "loop" /\ x.root = r /\ x.view = View(r) /\ x.todo = ex[e].todo
        /\ x.added = ex[e].added /\ x.listed = ex[e].listed
        /\ x.dirty = {} /\ x.first = ex[e].first /\ x.count > 0
    BY <1>1, <1>2, <2>1 DEF InScope, ExecutorStates
  <2>3. /\ Becomes(e, x) /\ DelayJob(<<t, "RUN">>) /\ UNCHANGED <<rootLock, rootQueue>>
    BY <1>7, <2>1 DEF DispatchRun, DelayJob
  <2>4. InScope(x)'
    BY <1>1, <1>2, <2>2 DEF InScope, Walking
  <2>5. ViewHolds(x)' /\ InStep(x)'
    BY <1>2, <1>4, <1>5, <2>2, NewView DEF InStep, Known, IInv
  <2>6. WalkOf(x)'
    BY <1>1, <1>2, <1>4, <1>5, <2>2, SameLists DEF WalkOf, TurnsTaken, Walking
  <2>7. OneCallPerTask'
    BY <1>1, <1>4, <2>2, <2>3, SendJob
  <2> QED
    BY <1>1, <1>3, <2>2, <2>3, <2>4, <2>5, <2>6, <2>7, WalkStep DEF Walking
<1> QED
  BY <1>6, <1>7

-----------------------------------------------------------------------------
(* Commits inside the walk.                                                *)

\* What a commit flushes are marks on tasks of the executor's own root, which
\* have no call.
LEMMA FlushFacts ==
  ASSUME Known, NEW e \in Executors, ex[e].pc # "idle"
  PROVE  /\ \A u \in Tasks : Flush(e)[u] = IF u \in ex[e].dirty THEN "FAILED"
                                                                ELSE task_status[u]
         /\ ex[e].dirty \subseteq TasksOf(ex[e].root)
         /\ \A u \in ex[e].dirty : /\ task_status[u] \in {"INITIATED", "RUNNING_WAIT"}
                                   /\ NoCall(<<u, "RUN">>) /\ NoCall(<<u, "WAIT">>)
         /\ Flush(e) \in [Tasks -> TaskStatuses]
<1>1. InScope(ex[e]) /\ SenderOf(ex[e])
  BY AtWork
<1>2. \A u \in Tasks : CallOf(u)
  BY DEF Known, IInv, OneCallPerTask
<1>3. ex[e].dirty \subseteq TasksOf(ex[e].root) /\ TasksOf(ex[e].root) \subseteq Tasks
  BY <1>1 DEF InScope, TasksOf
<1>4. \A u \in ex[e].dirty : NoCall(<<u, "WAIT">>)
  BY <1>1, <1>2, <1>3 DEF SenderOf, CallOf, Active
<1> QED
  BY <1>1, <1>3, <1>4, FlushType DEF Flush, SenderOf, Known, TypeOK

\* A commit of an executor about tasks of its own root.
LEMMA WriteStep ==
  ASSUME Known, NEW e \in Executors, NEW x, Becomes(e, x),
         ex[e].pc = "loop", status[ex[e].root] = "RUNNING",
         x.root = ex[e].root, x.pc \in {"run", "wait", "append"}, x.dirty = {},
         UNCHANGED <<status, executor_running, broker, manager, working>>,
         \A u \in Tasks : RootOf[u] # ex[e].root =>
            task_status'[u] = task_status[u] /\ in_focus'[u] = in_focus[u],
         \A u \in Tasks : CallOf(u)',
         Focused', StartedInOrder', SenderOf(x)', InScope(x)', ViewHolds(x)', WalkOf(x)'
  PROVE  IInv'
<1> DEFINE r == ex[e].root
<1>1. ex'[e] = x /\ \A d \in Executors : d # e => ex'[d] = ex[d]
  BY DEF Becomes, Known, TypeOK, ExecutorsOK
<1>2. UNCHANGED <<rootLock, rootQueue, jobQueue, scan, picked>>
  BY DEF broker, manager
<1>3. ex[e].pc # "idle" /\ r \in Roots /\ \A d \in Executors : ex[d].root = r => d = e
  BY AtWork
<1>4. OneCallPerTask'
  <2>1. ASSUME NEW d \in Executors, d # e PROVE SenderOf(ex[d])'
    <3>1. SenderOf(ex[d])
      BY DEF Known, IInv, OneCallPerTask
    <3>2. /\ ex[d].pc \in {"run", "wait"} => ex[d].cur \in Tasks /\ RootOf[ex[d].cur] # r
          /\ \A u \in ex[d].dirty : u \in Tasks /\ RootOf[u] # r
      BY <1>3, <2>1, OwnSends, ExecutorFields
      DEF Known, TypeOK, ExecutorsOK, ExecutorStates
    <3> QED
      BY <1>1, <1>2, <2>1, <3>1, <3>2 DEF SenderOf, NoCall
  <2> QED
    BY <1>1, <2>1 DEF OneCallPerTask
<1>5. RootsInOrder'
  BY <1>2 DEF Known, IInv, RootsInOrder
<1>6. Untouched'
  <2>1. ASSUME NEW d \in Executors, ex'[d].pc = "list", NEW t \in TasksOf(ex'[d].root)
        PROVE  Waits(t)'
    BY <1>1, <1>3, <2>1, AtWork DEF Known, IInv, Untouched, Waits, TasksOf
  <2> QED
    BY <1>1, <2>1 DEF Known, IInv, Untouched, Waits, TasksOf, Uncalled
<1>7. ExecutorsInOrder'
  <2>1. ASSUME NEW d \in Executors, ex'[d].pc # "idle"
        PROVE  (InScope(ex[d]) /\ InStep(ex[d]) /\ ViewHolds(ex[d]) /\ WalkOf(ex[d]))'
    <3>1. CASE d = e
      BY <1>1, <3>1 DEF InScope, InStep, ViewHolds, WalkOf
    <3>2. CASE d # e
      BY <1>1, <1>2, <1>3, <2>1, <3>2, Bystander DEF TasksOf
    <3> QED
      BY <3>1, <3>2
  <2>2. ASSUME NEW d \in Executors, ex'[d].pc = "idle" PROVE ex'[d].dirty = {}
    BY <1>1, <2>2 DEF Known, IInv, ExecutorsInOrder
  <2> QED
    BY <2>1, <2>2 DEF ExecutorsInOrder
<1>8. \A q \in Roots : Abandoned(q)' <=> Abandoned(q)
  BY <1>2, SameAbandoned
<1>9. NothingForgotten'
  <2>1. ASSUME NEW q \in Roots, BetweenWalks(q)'
        PROVE  BetweenWalks(q) /\ q # r
    BY <1>1, <1>8, <2>1 DEF BetweenWalks
  <2>2. ASSUME NEW q \in Roots, q # r, NEW u \in TasksOf(q)
        PROVE  (Waits(u)' <=> Waits(u)) /\ (HeldBack(u)' <=> HeldBack(u))
    BY <2>2, ConstantsAssumption DEF Waits, HeldBack, TasksOf
  <2> QED
    BY <2>1, <2>2 DEF Known, IInv, NothingForgotten, TasksOf
<1>10. VerdictsStand'
  <2>1. ASSUME NEW q \in Roots, q # r, NEW u \in TasksOf(q)
        PROVE  task_status'[u] = task_status[u]
    BY <2>1 DEF TasksOf
  <2>2. \A u \in Tasks : RootOf[u] \in Roots
    BY ConstantsAssumption
  <2>3. status[r] \notin Completed
    BY DEF Completed, Successful, Failed
  <2> QED
    BY <1>8, <2>1, <2>2, <2>3
    DEF Known, IInv, VerdictsStand, SuccessfulMeansAll, FailedMeansSome, TasksOf,
        Completed
<1> QED
  BY <1>4, <1>5, <1>6, <1>7, <1>9, <1>10 DEF IInv

LEMMA InitiateTaskOrder ==
  ASSUME Known, NEW e \in Executors, NEW t \in Tasks, InitiateTask(e, t)
  PROVE  IInv'
<1> DEFINE r == ex[e].root
<1>1. Turn(e, t) /\ ex[e].pc = "loop" /\ ex[e].pc # "idle"
  BY DEF InitiateTask, Turn
<1>2. /\ ex[e] \in ExecutorStates /\ r \in Roots /\ InScope(ex[e])
      /\ ViewHolds(ex[e]) /\ status[r] = "RUNNING" /\ t \in TasksOf(r)
  BY <1>1, AtWork, TurnFacts
<1>3. PICK x : x = [Visited(e, t) EXCEPT !.pc = "run", !.cur = t, !.dirty = {}]
  OBVIOUS
<1>4. /\ x.pc = "run" /\ x.root = r /\ x.view = ex[e].view /\ x.first = ex[e].first
      /\ x.todo = ex[e].todo \ {t} /\ x.added = ex[e].added \ {t} /\ x.cur = t
      /\ x.listed = ex[e].listed /\ x.dirty = {} /\ x.count = ex[e].count
  BY <1>1, <1>2, <1>3 DEF Visited, ExecutorStates
<1>5. /\ Becomes(e, x) /\ task_status' = [Flush(e) EXCEPT ![t] = "INITIATED"]
      /\ in_focus' = [in_focus EXCEPT ![t] = TRUE]
      /\ UNCHANGED <<status, executor_running, broker, manager, workers>>
  BY <1>3 DEF InitiateTask
<1>6. UNCHANGED <<jobQueue, working>>
  BY <1>5 DEF broker, workers
<1>7. Waits(t) /\ ~in_focus[t] /\ t \notin ex[e].dirty
  <2>1. Waits(t)
    BY <1>1, TurnFacts DEF InitiateTask, Seen, TaskSeen, FirstWalk
  <2> QED
    BY <1>1, <2>1, FlushFacts DEF Known, IInv, Focused, Waits
<1>8. /\ task_status'[t] = "INITIATED" /\ in_focus'[t]
      /\ \A u \in Tasks : u # t =>
            /\ in_focus'[u] = in_focus[u]
            /\ task_status'[u] = IF u \in ex[e].dirty THEN "FAILED" ELSE task_status[u]
  BY <1>1, <1>5, FlushFacts DEF Known, TypeOK, TablesOK
<1>9. \A u \in Tasks : u # t => (Waits(u)' <=> Waits(u))
  BY <1>1, <1>8, FlushFacts DEF Waits
<1>10. \A u \in Tasks : CallOf(u)'
  <2>1. CallOf(t)'
    BY <1>6, <1>7, <1>8 DEF Known, IInv, OneCallPerTask, CallOf, NoCall, Waits, Active
  <2>2. ASSUME NEW u \in Tasks, u # t PROVE CallOf(u)'
    <3>1. CASE u \in ex[e].dirty
      BY <1>1, <1>6, <1>8, <2>2, <3>1, FlushFacts DEF CallOf, NoCall, Active
    <3>2. CASE u \notin ex[e].dirty
      BY <1>6, <1>8, <2>2, <3>2 DEF Known, IInv, OneCallPerTask, CallOf, NoCall
    <3> QED
      BY <3>1, <3>2
  <2> QED
    BY <2>1, <2>2
<1>11. Focused'
  <2>1. ASSUME NEW u \in Tasks, u # t
        PROVE  IF in_focus'[u] THEN ~Waits(u)'
               ELSE task_status'[u] \in {"PENDING", "SUCCESSFUL"}
    BY <1>1, <1>8, <1>9, <2>1, FlushFacts DEF Known, IInv, Focused
  <2> QED
    BY <1>8, <2>1 DEF Focused, Waits
<1>12. StartedInOrder'
  <2>1. \A p \in Previous[t] : task_status[p] = "SUCCESSFUL" /\ p \in Tasks
    <3>1. CASE ex[e].first
      BY <1>1, <3>1, TurnFacts DEF FirstWalk, FirstTasks
    <3>2. CASE ~ex[e].first
      <4>1. PreviousSeenSuccessful(e, t)
        BY <3>2 DEF InitiateTask
      <4>2. \A p \in Previous[t] : p \in TasksOf(r)
        BY <1>2, ConstantsAssumption DEF TasksOf
      <4> QED
        BY <1>1, <1>2, <4>1, <4>2
        DEF PreviousSeenSuccessful, Seen, ViewHolds, TaskSeen, Walking, TasksOf
    <3> QED
      BY <3>1, <3>2
  <2>2. \A u \in Tasks : task_status[u] = "SUCCESSFUL" => task_status'[u] = "SUCCESSFUL"
    BY <1>1, <1>7, <1>8, FlushFacts DEF Waits
  <2> QED
    BY <1>9, <2>1, <2>2, ConstantsAssumption DEF Known, IInv, StartedInOrder
<1>13. SenderOf(x)' /\ InScope(x)'
  <2>1. NoCall(<<t, "RUN">>)
    BY <1>7 DEF Known, IInv, OneCallPerTask, CallOf, Waits, Active
  <2> QED
    BY <1>1, <1>2, <1>4, <1>6, <1>8, <2>1 DEF SenderOf, InScope, NoCall, TasksOf, Walking
<1>14. ViewHolds(x)'
  <2>1. ASSUME NEW u \in TasksOf(r) PROVE TaskSeen(x, u)'
    <3>1. TaskSeen(ex[e], u) /\ u \in Tasks
      BY <1>1, <1>2, <2>1 DEF ViewHolds, Walking, TasksOf
    <3> QED
      BY <1>1, <1>4, <1>7, <1>8, <3>1, FlushFacts DEF TaskSeen, Waits
  <2> QED
    BY <1>4, <2>1 DEF ViewHolds, TasksOf
<1>15. TurnsTaken(x)'
  BY <1>1, <1>4, <1>8, TurnFacts DEF TurnsTaken, TasksOf
<1>16. \A u \in Tasks : RootOf[u] # r =>
          task_status'[u] = task_status[u] /\ in_focus'[u] = in_focus[u]
  BY <1>1, <1>2, <1>8, FlushFacts DEF TasksOf
<1>17. CASE ex[e].first
  <2>1. FirstWalk(ex[e]) /\ InScope(ex[e])
    BY <1>1, <1>2, <1>17, TurnFacts
  <2>2. FirstWalk(x)'
    BY <1>2, <1>4, <1>8, <1>9, <2>1 DEF FirstWalk, FirstTasks, TasksOf, InScope, Waits
  <2>3. WalkOf(x)'
    BY <1>4, <1>15, <1>17, <2>2 DEF WalkOf
  <2> QED
    BY <1>1, <1>2, <1>4, <1>5, <1>6, <1>10, <1>11, <1>12, <1>13, <1>14, <1>16, <2>3, WriteStep
<1>18. CASE ~ex[e].first
  <2>1. LaterWalk(ex[e]) /\ t \in ex[e].added /\ t \in ex[e].listed
    BY <1>1, <1>7, <1>18, TurnFacts DEF LaterWalk
  <2>2. ASSUME NEW u \in TasksOf(r), Waits(u)', u \notin x.added
        PROVE  IF u \in x.listed
               THEN \E p \in Previous[u] : Waits(p)' \/ (in_focus'[p] /\ p \notin x.todo)
               ELSE HeldBack(u)'
    <3>1. u # t /\ Waits(u) /\ u \notin ex[e].added /\ u \in Tasks
      BY <1>4, <1>8, <1>9, <2>2 DEF Waits, TasksOf
    <3>2. \A p \in Previous[u] : p \in Tasks
      BY <3>1, ConstantsAssumption
    <3>3. CASE u \in x.listed
      BY <1>1, <1>4, <1>8, <1>9, <2>1, <2>2, <3>1, <3>2, <3>3 DEF LaterWalk
    <3>4. CASE u \notin x.listed
      BY <1>1, <1>4, <1>8, <1>9, <2>1, <2>2, <3>1, <3>2, <3>4 DEF LaterWalk, HeldBack
    <3> QED
      BY <3>3, <3>4
  <2>3. LaterWalk(x)'
    BY <1>2, <1>4, <1>7, <1>8, <2>1, <2>2 DEF LaterWalk, TasksOf, InScope
  <2>4. WalkOf(x)'
    BY <1>4, <1>15, <1>18, <2>3 DEF WalkOf
  <2> QED
    BY <1>1, <1>2, <1>4, <1>5, <1>6, <1>10, <1>11, <1>12, <1>13, <1>14, <1>16, <2>4, WriteStep
<1> QED
  BY <1>17, <1>18

LEMMA InitiateWaitOrder ==
  ASSUME Known, NEW e \in Executors, NEW t \in Tasks, InitiateWait(e, t)
  PROVE  IInv'
<1> DEFINE r == ex[e].root
<1>1. /\ Turn(e, t) /\ ~ex[e].first /\ ex[e].pc = "loop" /\ ex[e].pc # "idle"
      /\ ex[e].view.task[t] = "RUNNING_WAIT"
  BY DEF InitiateWait, Turn, Seen
<1>2. /\ ex[e] \in ExecutorStates /\ r \in Roots /\ InScope(ex[e])
      /\ ViewHolds(ex[e]) /\ status[r] = "RUNNING" /\ t \in TasksOf(r)
      /\ TurnsTaken(ex[e]) /\ LaterWalk(ex[e])
  BY <1>1, AtWork, TurnFacts
<1>3. PICK x : x = [Visited(e, t) EXCEPT !.pc = "wait", !.cur = t, !.dirty = {}]
  OBVIOUS
<1>4. /\ x.pc = "wait" /\ x.root = r /\ x.view = ex[e].view /\ ~x.first
      /\ x.todo = ex[e].todo \ {t} /\ x.added = ex[e].added \ {t} /\ x.cur = t
      /\ x.listed = ex[e].listed /\ x.dirty = {} /\ x.count = ex[e].count
  BY <1>1, <1>2, <1>3 DEF Visited, ExecutorStates
<1>5. /\ Becomes(e, x) /\ task_status' = [Flush(e) EXCEPT ![t] = "RUNNING_WAIT_INITIATED"]
      /\ UNCHANGED <<status, executor_running, in_focus, broker, manager, workers>>
  BY <1>3 DEF InitiateWait
<1>6. UNCHANGED <<jobQueue, working>>
  BY <1>5 DEF broker, workers
<1>7. task_status[t] = "RUNNING_WAIT" /\ t \notin ex[e].dirty /\ in_focus[t]
  BY <1>1, TurnFacts DEF TaskSeen, Known, IInv, Focused
<1>8. /\ task_status'[t] = "RUNNING_WAIT_INITIATED"
      /\ \A u \in Tasks : u # t =>
            task_status'[u] = IF u \in ex[e].dirty THEN "FAILED" ELSE task_status[u]
  BY <1>1, <1>5, FlushFacts
<1>9. \A u \in Tasks : Waits(u)' <=> Waits(u)
  BY <1>1, <1>7, <1>8, FlushFacts DEF Waits
<1>10. NoCall(<<t, "RUN">>) /\ NoCall(<<t, "WAIT">>)
  BY <1>7 DEF Known, IInv, OneCallPerTask, CallOf, Active
<1>11. \A u \in Tasks : CallOf(u)'
  <2>1. CallOf(t)'
    BY <1>6, <1>8, <1>10 DEF CallOf, NoCall, Active
  <2>2. ASSUME NEW u \in Tasks, u # t PROVE CallOf(u)'
    <3>1. CASE u \in ex[e].dirty
      BY <1>1, <1>6, <1>8, <2>2, <3>1, FlushFacts DEF CallOf, NoCall, Active
    <3>2. CASE u \notin ex[e].dirty
      BY <1>6, <1>8, <2>2, <3>2 DEF Known, IInv, OneCallPerTask, CallOf, NoCall
    <3> QED
      BY <3>1, <3>2
  <2> QED
    BY <2>1, <2>2
<1>12. Focused' /\ StartedInOrder'
  <2>1. ASSUME NEW u \in Tasks
        PROVE  IF in_focus'[u] THEN ~Waits(u)'
               ELSE task_status'[u] \in {"PENDING", "SUCCESSFUL"}
    BY <1>1, <1>5, <1>7, <1>8, <1>9, FlushFacts DEF Known, IInv, Focused
  <2>2. \A u \in Tasks : task_status[u] = "SUCCESSFUL" => task_status'[u] = "SUCCESSFUL"
    BY <1>1, <1>7, <1>8, FlushFacts
  <2> QED
    BY <1>9, <2>1, <2>2, ConstantsAssumption DEF Known, IInv, Focused, StartedInOrder
<1>13. SenderOf(x)' /\ InScope(x)'
  BY <1>1, <1>2, <1>4, <1>6, <1>8, <1>10 DEF SenderOf, InScope, NoCall, TasksOf, Walking
<1>14. ViewHolds(x)'
  <2>1. ASSUME NEW u \in TasksOf(r) PROVE TaskSeen(x, u)'
    <3>1. TaskSeen(ex[e], u) /\ u \in Tasks
      BY <1>1, <1>2, <2>1 DEF ViewHolds, Walking, TasksOf
    <3> QED
      BY <1>1, <1>4, <1>7, <1>8, <3>1, FlushFacts DEF TaskSeen
  <2> QED
    BY <1>4, <2>1 DEF ViewHolds, TasksOf
<1>15. WalkOf(x)'
  <2>1. TurnsTaken(x)'
    BY <1>1, <1>2, <1>4, <1>5 DEF TurnsTaken, TasksOf
  <2>2. t \in ex[e].todo \/ t \notin ex[e].added
    BY <1>2, <1>7 DEF LaterWalk
  <2>3. LaterWalk(x)'
    BY <1>1, <1>2, <1>4, <1>5, <1>7, <1>9, <2>2, ConstantsAssumption
    DEF LaterWalk, HeldBack, TasksOf
  <2> QED
    BY <1>4, <2>1, <2>3 DEF WalkOf
<1>16. \A u \in Tasks : RootOf[u] # r =>
          task_status'[u] = task_status[u] /\ in_focus'[u] = in_focus[u]
  BY <1>1, <1>2, <1>5, <1>8, FlushFacts DEF TasksOf
<1> QED
  BY <1>1, <1>2, <1>4, <1>5, <1>6, <1>11, <1>12, <1>13, <1>14, <1>15, <1>16, WriteStep

LEMMA AcknowledgeOrder ==
  ASSUME Known, NEW e \in Executors, NEW t \in Tasks, Acknowledge(e, t)
  PROVE  IInv'
<1> DEFINE r == ex[e].root
<1>1. /\ Turn(e, t) /\ ~ex[e].first /\ ex[e].pc = "loop" /\ ex[e].pc # "idle"
      /\ ex[e].view.task[t] = "SUCCESSFUL"
  BY DEF Acknowledge, Turn, Seen
<1>2. /\ ex[e] \in ExecutorStates /\ r \in Roots /\ InScope(ex[e])
      /\ ViewHolds(ex[e]) /\ status[r] = "RUNNING" /\ t \in TasksOf(r)
      /\ TurnsTaken(ex[e]) /\ LaterWalk(ex[e])
  BY <1>1, AtWork, TurnFacts
<1>3. PICK x : x = [Visited(e, t) EXCEPT !.pc = "append", !.cur = t, !.dirty = {}]
  OBVIOUS
<1>4. /\ x.pc = "append" /\ x.root = r /\ x.view = ex[e].view /\ ~x.first
      /\ x.todo = ex[e].todo \ {t} /\ x.added = ex[e].added \ {t} /\ x.cur = t
      /\ x.listed = ex[e].listed /\ x.dirty = {} /\ x.count = ex[e].count
  BY <1>1, <1>2, <1>3 DEF Visited, ExecutorStates
<1>5. /\ Becomes(e, x) /\ task_status' = Flush(e)
      /\ in_focus' = [in_focus EXCEPT ![t] = FALSE]
      /\ UNCHANGED <<status, executor_running, broker, manager, workers>>
  BY <1>3 DEF Acknowledge
<1>6. UNCHANGED <<jobQueue, working>>
  BY <1>5 DEF broker, workers
<1>7. task_status[t] = "SUCCESSFUL" /\ t \notin ex[e].dirty
  BY <1>1, TurnFacts DEF TaskSeen
<1>8. /\ ~in_focus'[t]
      /\ \A u \in Tasks : u # t => in_focus'[u] = in_focus[u]
      /\ \A u \in Tasks :
            task_status'[u] = IF u \in ex[e].dirty THEN "FAILED" ELSE task_status[u]
  BY <1>1, <1>5, FlushFacts DEF Known, TypeOK, TablesOK
<1>9. \A u \in Tasks : Waits(u)' <=> Waits(u)
  BY <1>1, <1>8, FlushFacts DEF Waits
<1>11. \A u \in Tasks : CallOf(u)'
  <2>1. ASSUME NEW u \in Tasks PROVE CallOf(u)'
    <3>1. CASE u \in ex[e].dirty
      BY <1>1, <1>6, <1>8, <3>1, FlushFacts DEF CallOf, NoCall, Active
    <3>2. CASE u \notin ex[e].dirty
      BY <1>6, <1>8, <3>2 DEF Known, IInv, OneCallPerTask, CallOf, NoCall
    <3> QED
      BY <3>1, <3>2
  <2> QED
    BY <2>1
<1>12. Focused' /\ StartedInOrder'
  <2>1. ASSUME NEW u \in Tasks
        PROVE  IF in_focus'[u] THEN ~Waits(u)'
               ELSE task_status'[u] \in {"PENDING", "SUCCESSFUL"}
    BY <1>1, <1>7, <1>8, <1>9, FlushFacts DEF Known, IInv, Focused
  <2>2. \A u \in Tasks : task_status[u] = "SUCCESSFUL" => task_status'[u] = "SUCCESSFUL"
    BY <1>1, <1>8, FlushFacts
  <2> QED
    BY <1>9, <2>1, <2>2, ConstantsAssumption DEF Known, IInv, Focused, StartedInOrder
<1>13. SenderOf(x)' /\ InScope(x)'
  BY <1>1, <1>2, <1>4 DEF SenderOf, InScope, TasksOf, Walking
<1>14. ViewHolds(x)'
  <2>1. ASSUME NEW u \in TasksOf(r) PROVE TaskSeen(x, u)'
    <3>1. TaskSeen(ex[e], u) /\ u \in Tasks
      BY <1>1, <1>2, <2>1 DEF ViewHolds, Walking, TasksOf
    <3> QED
      BY <1>1, <1>4, <1>8, <3>1, FlushFacts DEF TaskSeen
  <2> QED
    BY <1>4, <2>1 DEF ViewHolds, TasksOf
<1>15. WalkOf(x)'
  <2>1. TurnsTaken(x)'
    BY <1>1, <1>2, <1>4, <1>8 DEF TurnsTaken, TasksOf
  <2>2. ~Waits(t)
    BY <1>7 DEF Waits
  <2>3. ASSUME NEW u \in TasksOf(r), Waits(u)', u \notin x.added
        PROVE  IF u \in x.listed
               THEN \E p \in Previous[u] : Waits(p)' \/ (in_focus'[p] /\ p \notin x.todo)
               ELSE HeldBack(u)' \/ (x.pc = "append" /\ x.cur \in Previous[u])
    <3>1. u # t /\ Waits(u) /\ u \notin ex[e].added /\ u \in Tasks
      BY <1>4, <1>9, <2>2, <2>3 DEF TasksOf
    <3>2. \A p \in Previous[u] : p \in Tasks
      BY <3>1, ConstantsAssumption
    <3>3. CASE u \in x.listed
      <4>1. PICK p \in Previous[u] : Waits(p) \/ (in_focus[p] /\ p \notin ex[e].todo)
        BY <1>2, <1>4, <2>3, <3>1, <3>3 DEF LaterWalk
      <4>2. p = t => t \in ex[e].added
        BY <1>1, <2>2, <4>1, TurnFacts
      <4>3. t \in ex[e].added => ~in_focus[t]
        BY <1>2 DEF LaterWalk
      <4>4. p # t
        BY <2>2, <4>1, <4>2, <4>3
      <4> QED
        BY <1>4, <1>8, <1>9, <3>2, <3>3, <4>1, <4>4
    <3>4. CASE u \notin x.listed
      <4>1. PICK p \in Previous[u] : Waits(p) \/ in_focus[p]
        BY <1>1, <1>2, <1>4, <2>3, <3>1, <3>4 DEF LaterWalk, HeldBack
      <4> QED
        BY <1>4, <1>8, <1>9, <3>2, <3>4, <4>1 DEF HeldBack
    <3> QED
      BY <3>3, <3>4
  <2>4. LaterWalk(x)'
    <3>1. \A u \in x.todo : in_focus'[u]
      BY <1>2, <1>4, <1>8 DEF LaterWalk, InScope, TasksOf
    <3>2. \A u \in x.added : ~in_focus'[u]
      BY <1>2, <1>4, <1>8 DEF LaterWalk, InScope, TasksOf
    <3>3. \A u \in TasksOf(r) : in_focus'[u] => u \in x.listed
      BY <1>2, <1>4, <1>8 DEF LaterWalk, TasksOf
    <3>4. x.added \subseteq x.listed
      BY <1>2, <1>4 DEF LaterWalk
    <3> QED
      BY <1>4, <2>3, <3>1, <3>2, <3>3, <3>4 DEF LaterWalk, TasksOf
  <2> QED
    BY <1>4, <2>1, <2>4 DEF WalkOf
<1>16. \A u \in Tasks : RootOf[u] # r =>
          task_status'[u] = task_status[u] /\ in_focus'[u] = in_focus[u]
  BY <1>1, <1>2, <1>8, FlushFacts DEF TasksOf
<1> QED
  BY <1>1, <1>2, <1>4, <1>5, <1>6, <1>11, <1>12, <1>13, <1>14, <1>15, <1>16, WriteStep
-----------------------------------------------------------------------------
(* Steps of an executor on its root.                                       *)

\* A step of the executor of root r, or of one that takes r up or loses it:
\* nothing but r, the tasks of r and the callbacks held for r is touched.
LEMMA RootStep ==
  ASSUME Known, NEW e \in Executors, NEW r \in Roots, NEW x, Becomes(e, x),
         ex[e].root \in {r, None}, x.root \in {r, None}, r \in rootLock,
         \A d \in Executors : d # e => ex[d].root # r,
         UNCHANGED <<in_focus, jobQueue, working, manager>>,
         rootLock' \subseteq rootLock,
         \A q \in Roots \ {r} : (q \in rootLock' <=> q \in rootLock) /\ rootQueue'[q] = rootQueue[q],
         \A q \in Roots \ {r} :
            \/ status'[q] = status[q]
            \/ /\ status[q] = "ON_HOLD" /\ Parent[q] = r /\ status'[r] \in Completed
               /\ status'[q] \in {"PENDING", "DELETED"},
         \A u \in Tasks : RootOf[u] # r => task_status'[u] = task_status[u],
         \A u \in Tasks : CallOf(u)', Focused', StartedInOrder', SenderOf(x)',
         IF x.pc = "idle" THEN x.dirty = {}
         ELSE InScope(x)' /\ InStep(x)' /\ ViewHolds(x)' /\ WalkOf(x)',
         status'[r] \notin Uncalled, status[r] \in Completed => status'[r] \in Completed,
         status'[r] = "INITIATED" \/ x.pc = "list" => \A u \in TasksOf(r) : Waits(u)',
         BetweenWalks(r)' => \A u \in TasksOf(r) : Waits(u)' => HeldBack(u)',
         status'[r] \in Completed /\ ~Abandoned(r)' =>
            \A u \in TasksOf(r) : task_status'[u] \in {"PENDING", "SUCCESSFUL", "FAILED"},
         status'[r] \in Successful => \A u \in TasksOf(r) : task_status'[u] = "SUCCESSFUL",
         status'[r] \in Failed /\ ~Abandoned(r)' =>
            \E u \in TasksOf(r) : task_status'[u] = "FAILED",
         status'[r] \in WaitingForCallbacks => RootType[r] = "NORMAL"
  PROVE  IInv'
<1>1. ex'[e] = x /\ \A d \in Executors : d # e => ex'[d] = ex[d]
  BY DEF Becomes, Known, TypeOK, ExecutorsOK
<1>2. UNCHANGED <<scan, picked>>
  BY DEF manager
<1>3. r # None /\ \A q \in Roots : q # None
  BY ConstantsAssumption
<1>4. status[r] \notin Uncalled
  BY DEF Known, IInv, RootsInOrder
<1>5. \A q \in Roots \ {r} : Abandoned(q)' <=> Abandoned(q)
  BY <1>1, <1>3 DEF Abandoned
<1>6. OneCallPerTask'
  <2>1. ASSUME NEW d \in Executors, d # e PROVE SenderOf(ex[d])'
    <3>1. SenderOf(ex[d]) /\ ex[d].root # r
      BY <2>1 DEF Known, IInv, OneCallPerTask
    <3>2. /\ ex[d].pc \in {"run", "wait"} => ex[d].cur \in Tasks /\ RootOf[ex[d].cur] # r
          /\ \A u \in ex[d].dirty : u \in Tasks /\ RootOf[u] # r
      BY <3>1 DEF Known, IInv, ExecutorsInOrder, InScope, TasksOf
    <3> QED
      BY <1>1, <2>1, <3>1, <3>2 DEF SenderOf, NoCall
  <2> QED
    BY <1>1, <2>1 DEF OneCallPerTask
<1>7. RootsInOrder'
  <2>1. \A q \in scan : q \in Roots
    BY DEF Known, TypeOK
  <2>2. \A q \in scan' : status'[q] \notin {"ON_HOLD", "DELETED"}
    BY <1>2, <2>1 DEF Known, IInv, RootsInOrder, Uncalled
  <2>3. picked' # None => picked' \in scan' /\ status'[picked'] = "INITIATED" /\ picked' \notin rootLock'
    BY <1>2, <2>1 DEF Known, IInv, RootsInOrder
  <2>4. \A q \in Roots : status'[q] \in Uncalled => q \notin rootLock'
    BY DEF Known, IInv, RootsInOrder, Uncalled
  <2>5. ASSUME NEW q \in Roots, RootType[q] # "NORMAL", status'[Parent[q]] \notin Completed
        PROVE  status'[q] = "ON_HOLD"
    <3>1. Parent[q] \in Roots
      BY <2>5, ConstantsAssumption
    <3>2. status[Parent[q]] \notin Completed
      BY <2>5, <3>1 DEF Completed, Successful, Failed
    <3>3. status[q] = "ON_HOLD"
      BY <2>5, <3>2 DEF Known, IInv, RootsInOrder
    <3> QED
      BY <1>4, <2>5, <3>3 DEF Uncalled
  <2> QED
    BY <2>2, <2>3, <2>4, <2>5 DEF RootsInOrder
<1>8. Untouched'
  <2>1. ASSUME NEW u \in Tasks, status'[RootOf[u]] \in Uncalled \cup {"INITIATED"}
        PROVE  Waits(u)'
    <3>1. CASE RootOf[u] = r
      BY <2>1, <3>1 DEF TasksOf
    <3>2. CASE RootOf[u] # r
      <4>1. RootOf[u] \in Roots \ {r}
        BY <3>2, ConstantsAssumption
      <4>2. status[RootOf[u]] \in Uncalled \cup {"INITIATED"}
        BY <2>1, <4>1 DEF Uncalled
      <4> QED
        BY <3>2, <4>2 DEF Known, IInv, Untouched, Waits
    <3> QED
      BY <3>1, <3>2
  <2>2. ASSUME NEW d \in Executors, ex'[d].pc = "list", NEW u \in TasksOf(ex'[d].root)
        PROVE  Waits(u)'
    <3>1. CASE d = e
      <4>1. x.pc = "list" /\ x.root = r
        BY <1>1, <2>2, <3>1, ConstantsAssumption DEF TasksOf
      <4> QED
        BY <1>1, <2>2, <3>1, <4>1
    <3>2. CASE d # e
      BY <1>1, <2>2, <3>2 DEF Known, IInv, Untouched, Waits, TasksOf
    <3> QED
      BY <3>1, <3>2
  <2> QED
    BY <2>1, <2>2 DEF Untouched, TasksOf
<1>9. ExecutorsInOrder'
  <2>1. ASSUME NEW d \in Executors, d # e, ex[d].pc # "idle"
        PROVE  InScope(ex[d])' /\ InStep(ex[d])' /\ ViewHolds(ex[d])' /\ WalkOf(ex[d])'
    <3>1. ex[d].root \in Roots \ {r} /\ status[ex[d].root] \notin Uncalled
      BY <2>1, AtWork
    <3>2. status'[ex[d].root] = status[ex[d].root]
      BY <3>1 DEF Uncalled
    <3>3. \A u \in TasksOf(ex[d].root) :
             task_status'[u] = task_status[u] /\ in_focus'[u] = in_focus[u]
      BY <3>1 DEF TasksOf
    <3>4. \A c \in CallbacksOf(ex[d].root) :
            /\ status[c] = "DELETED" => status'[c] = "DELETED"
            /\ status[c] \in Completed => status'[c] \in Completed
      BY <1>4 DEF CallbacksOf, Uncalled, Completed, Successful, Failed
    <3> QED
      BY <1>1, <2>1, <3>2, <3>3, <3>4, Bystander
  <2>2. ASSUME NEW d \in Executors
        PROVE  IF ex'[d].pc = "idle" THEN ex'[d].dirty = {}
               ELSE (InScope(ex[d]) /\ InStep(ex[d]) /\ ViewHolds(ex[d]) /\ WalkOf(ex[d]))'
    <3>1. CASE d = e
      BY <1>1, <3>1 DEF InScope, InStep, ViewHolds, WalkOf
    <3>2. CASE d # e /\ ex[d].pc # "idle"
      BY <1>1, <2>1, <3>2
    <3>3. CASE d # e /\ ex[d].pc = "idle"
      BY <1>1, <3>3 DEF Known, IInv, ExecutorsInOrder
    <3> QED
      BY <3>1, <3>2, <3>3
  <2> QED
    BY <2>2 DEF ExecutorsInOrder
<1>10. NothingForgotten'
  <2>1. ASSUME NEW q \in Roots, q # r, BetweenWalks(q)', NEW u \in TasksOf(q), Waits(u)'
        PROVE  HeldBack(u)'
    <3>1. status[q] = "RUNNING" /\ ~Abandoned(q)
      BY <1>5, <2>1 DEF BetweenWalks
    <3>2. \A d \in Executors : ex[d].root = q => ex[d].pc \in {"begin", "return"}
      BY <1>1, <1>3, <2>1 DEF BetweenWalks
    <3>3. Waits(u) /\ HeldBack(u)
      BY <2>1, <3>1, <3>2 DEF Known, IInv, NothingForgotten, BetweenWalks, Waits, TasksOf
    <3> QED
      BY <2>1, <3>3, ConstantsAssumption DEF HeldBack, Waits, TasksOf
  <2> QED
    BY <2>1 DEF NothingForgotten, TasksOf
<1>11. VerdictsStand'
  <2>1. ASSUME NEW q \in Roots, q # r, status'[q] \in Completed
        PROVE  /\ status[q] = status'[q]
               /\ \A u \in TasksOf(q) : task_status'[u] = task_status[u]
    BY <2>1 DEF TasksOf, Completed, Successful, Failed
  <2>2. \A u \in Tasks : status'[RootOf[u]] \in Completed /\ ~Abandoned(RootOf[u])' =>
           task_status'[u] \in {"PENDING", "SUCCESSFUL", "FAILED"}
    <3>1. \A u \in Tasks : u \in TasksOf(RootOf[u]) /\ RootOf[u] \in Roots
      BY ConstantsAssumption DEF TasksOf
    <3> QED
      BY <1>5, <2>1, <3>1 DEF Known, IInv, VerdictsStand
  <2>3. SuccessfulMeansAll'
    BY <2>1 DEF Known, IInv, VerdictsStand, SuccessfulMeansAll, Completed, TasksOf
  <2>4. FailedMeansSome'
    BY <1>5, <2>1 DEF Known, IInv, VerdictsStand, FailedMeansSome, Completed, TasksOf
  <2>5. \A q \in Roots : status'[q] \in WaitingForCallbacks => RootType[q] = "NORMAL"
    <3>1. WaitingForCallbacks \subseteq Completed
      BY DEF WaitingForCallbacks, Completed, Successful, Failed
    <3> QED
      BY <2>1, <3>1 DEF Known, IInv, VerdictsStand
  <2> QED
    BY <2>2, <2>3, <2>4, <2>5 DEF VerdictsStand
<1> QED
  BY <1>6, <1>7, <1>8, <1>9, <1>10, <1>11 DEF IInv
LEMMA SameTasks ==
  ASSUME Known, UNCHANGED <<task_status, in_focus, jobQueue, working>>
  PROVE  (\A u \in Tasks : CallOf(u)') /\ Focused' /\ StartedInOrder'
  BY DEF Known, IInv, OneCallPerTask, CallOf, NoCall, Focused, StartedInOrder, Waits

\* What a commit outside the walk does to tasks.
LEMMA FlushedTasks ==
  ASSUME Known, NEW e \in Executors, ex[e].pc # "idle", task_status' = Flush(e),
         UNCHANGED <<in_focus, jobQueue, working>>
  PROVE  /\ \A u \in Tasks : CallOf(u)'
         /\ Focused' /\ StartedInOrder'
         /\ \A u \in Tasks : RootOf[u] # ex[e].root => task_status'[u] = task_status[u]
         /\ \A u \in Tasks : Waits(u)' <=> Waits(u)
<1>1. \A u \in Tasks : task_status'[u] = IF u \in ex[e].dirty THEN "FAILED" ELSE task_status[u]
  BY FlushFacts
<1>2. \A u \in Tasks : Waits(u)' <=> Waits(u)
  BY <1>1, FlushFacts DEF Waits
<1>3. ASSUME NEW u \in Tasks PROVE CallOf(u)'
  <2>1. CASE u \in ex[e].dirty
    BY <1>1, <2>1, FlushFacts DEF CallOf, NoCall, Active
  <2>2. CASE u \notin ex[e].dirty
    BY <1>1, <2>2 DEF Known, IInv, OneCallPerTask, CallOf, NoCall
  <2> QED
    BY <2>1, <2>2
<1>4. Focused'
  BY <1>1, <1>2, FlushFacts DEF Known, IInv, Focused
<1>5. StartedInOrder'
  <2>1. \A u \in Tasks : task_status[u] = "SUCCESSFUL" => task_status'[u] = "SUCCESSFUL"
    BY <1>1, FlushFacts
  <2> QED
    BY <1>2, <2>1, ConstantsAssumption DEF Known, IInv, StartedInOrder
<1>6. \A u \in Tasks : RootOf[u] # ex[e].root => task_status'[u] = task_status[u]
  BY <1>1, FlushFacts DEF TasksOf
<1> QED
  BY <1>2, <1>3, <1>4, <1>5, <1>6

\* What is known of a root whose executor stays on it.
LEMMA OwnRoot ==
  ASSUME Known, NEW e \in Executors, ex[e].pc # "idle"
  PROVE  /\ \A u \in Tasks : status[ex[e].root] \in Completed /\ u \in TasksOf(ex[e].root) =>
                task_status[u] \in {"PENDING", "SUCCESSFUL", "FAILED"}
         /\ status[ex[e].root] \in Successful =>
               \A u \in TasksOf(ex[e].root) : task_status[u] = "SUCCESSFUL"
         /\ status[ex[e].root] \in Failed =>
               \E u \in TasksOf(ex[e].root) : task_status[u] = "FAILED"
         /\ status[ex[e].root] \in WaitingForCallbacks => RootType[ex[e].root] = "NORMAL"
  BY AtWork DEF Known, IInv, VerdictsStand, SuccessfulMeansAll, FailedMeansSome, TasksOf

LEMMA BeginInitiatedOrder ==
  ASSUME Known, NEW e \in Executors, BeginInitiated(e)
  PROVE  IInv'
<1>0. PICK r : r = ex[e].root
  OBVIOUS
<1>1. ex[e].pc = "begin" /\ ex[e].pc # "idle" /\ status[r] = "INITIATED"
  BY <1>0 DEF BeginInitiated
<1>2. /\ ex[e] \in ExecutorStates /\ r \in Roots /\ InScope(ex[e]) /\ r \in rootLock
      /\ \A d \in Executors : d # e => ex[d].root # r
  BY <1>0, <1>1, AtWork
<1>3. PICK x : x = [ex[e] EXCEPT !.pc = "list"]
  OBVIOUS
<1>4. /\ x.pc = "list" /\ x.root = r /\ x.todo = {} /\ x.added = {} /\ x.dirty = {}
      /\ x.listed = ex[e].listed /\ ~x.first /\ x.count = 0
  BY <1>0, <1>1, <1>2, <1>3 DEF InScope, ExecutorStates, Walking
<1>5. /\ Becomes(e, x) /\ status' = [status EXCEPT ![r] = "RUNNING"]
      /\ UNCHANGED <<executor_running, task_status, in_focus, broker, manager, workers>>
  BY <1>0, <1>3 DEF BeginInitiated
<1>6. UNCHANGED <<jobQueue, working, rootLock, rootQueue>>
  BY <1>0, <1>5 DEF broker, workers
<1>7. status'[r] = "RUNNING" /\ \A q \in Roots \ {r} : status'[q] = status[q]
  BY <1>0, <1>2, <1>5 DEF Known, TypeOK, TablesOK
<1>8. \A u \in TasksOf(r) : Waits(u)'
  BY <1>0, <1>1, <1>5 DEF Known, IInv, Untouched, Waits, TasksOf
<1>9. SenderOf(x)' /\ InScope(x)' /\ InStep(x)' /\ ViewHolds(x)' /\ WalkOf(x)'
  BY <1>0, <1>2, <1>4, <1>7 DEF SenderOf, InScope, InStep, ViewHolds, WalkOf, Walking
<1>10. status'[r] \notin Uncalled \cup Completed \cup {"INITIATED"}
  BY <1>0, <1>7 DEF Uncalled, Completed, Successful, Failed
<1>11. ~BetweenWalks(r)'
  <2>1. ex'[e].root = r /\ ex'[e].pc = "list"
    BY <1>0, <1>4, <1>5 DEF Becomes, Known, TypeOK, ExecutorsOK
  <2> QED
    BY <2>1 DEF BetweenWalks
<1>12. status[r] \notin Completed
  BY <1>0, <1>1 DEF Completed, Successful, Failed
<1>13. status'[r] \notin Successful \cup Failed \cup WaitingForCallbacks
  BY <1>0, <1>7 DEF Successful, Failed, WaitingForCallbacks
<1> QED
  BY <1>0, <1>2, <1>4, <1>5, <1>6, <1>7, <1>8, <1>9, <1>10, <1>11, <1>12, <1>13, SameTasks, RootStep

LEMMA ReleaseCallbacksOrder ==
  ASSUME Known, NEW e \in Executors, ReleaseCallbacks(e)
  PROVE  IInv'
<1>0. PICK r : r = ex[e].root
  OBVIOUS
<1>1. ex[e].pc = "callbacks" /\ ex[e].pc # "idle"
  BY DEF ReleaseCallbacks
<1>2. /\ r \in Roots /\ r \in rootLock /\ status[r] \in Completed
      /\ \A d \in Executors : d # e => ex[d].root # r
  BY <1>0, <1>1, AtWork DEF InStep
<1>3. PICK x : x = [Idle EXCEPT !.pc = "return", !.root = r]
  OBVIOUS
<1>4. /\ x.pc = "return" /\ x.root = r /\ x.todo = {} /\ x.added = {} /\ x.dirty = {}
      /\ x.listed = {}
  BY <1>0, <1>3 DEF Idle
<1>5. /\ Becomes(e, x)
      /\ status' = [q \in Roots |->
                      IF q \in CallbacksOf(r) /\ status[q] = "ON_HOLD" THEN "PENDING"
                                                                       ELSE status[q]]
      /\ UNCHANGED <<task_status, in_focus, broker, manager, workers>>
  BY <1>0, <1>3 DEF ReleaseCallbacks
<1>6. UNCHANGED <<jobQueue, working, rootLock, rootQueue>>
  BY <1>0, <1>5 DEF broker, workers
<1>7. status'[r] = status[r]
  BY <1>0, <1>2, <1>5 DEF Completed, Successful, Failed
<1>8. \A q \in Roots \ {r} :
         \/ status'[q] = status[q]
         \/ /\ status[q] = "ON_HOLD" /\ Parent[q] = r /\ status'[r] \in Completed
            /\ status'[q] \in {"PENDING", "DELETED"}
  BY <1>0, <1>2, <1>5, <1>7 DEF CallbacksOf
<1>9. SenderOf(x)' /\ InScope(x)' /\ InStep(x)' /\ ViewHolds(x)' /\ WalkOf(x)'
  BY <1>0, <1>4 DEF SenderOf, InScope, InStep, ViewHolds, WalkOf, Walking
<1>10. status'[r] \notin Uncalled \cup {"INITIATED", "RUNNING"}
  BY <1>0, <1>2, <1>7 DEF Uncalled, Completed, Successful, Failed
<1> QED
  BY <1>0, <1>1, <1>2, <1>4, <1>5, <1>6, <1>7, <1>8, <1>9, <1>10, SameTasks, OwnRoot, RootStep
  DEF BetweenWalks, TasksOf

LEMMA LeaveOrder ==
  ASSUME Known, NEW e \in Executors, Leave(e)
  PROVE  IInv'
<1>0. PICK r : r = ex[e].root
  OBVIOUS
<1>1. ex[e].pc = "loop" /\ ex[e].pc # "idle" /\ ex[e].todo = {} /\ ex[e].added = {}
  BY DEF Leave, LoopDone
<1>2. /\ r \in Roots /\ r \in rootLock /\ status[r] \in {"RUNNING"} \cup Completed
      /\ SeenStatus(e) = status[r] /\ WalkOf(ex[e])
      /\ status[r] # "RUNNING" => ex[e].dirty = {}
      /\ \A d \in Executors : d # e => ex[d].root # r
  BY <1>0, <1>1, AtWork DEF InStep, SeenStatus
<1>3. PICK x : x = [Idle EXCEPT !.pc = "return", !.root = r]
  OBVIOUS
<1>4. /\ x.pc = "return" /\ x.root = r /\ x.todo = {} /\ x.added = {} /\ x.dirty = {}
      /\ x.listed = {}
  BY <1>0, <1>3 DEF Idle
<1>5. /\ Becomes(e, x) /\ task_status' = Flush(e)
      /\ UNCHANGED <<in_focus, broker, manager, workers>>
  BY <1>0, <1>3 DEF Leave
<1>6. UNCHANGED <<jobQueue, working, rootLock, rootQueue>>
  BY <1>0, <1>5 DEF broker, workers
<1>7. /\ \A q \in Roots \ {r} : status'[q] = status[q]
      /\ \/ status'[r] = status[r]
         \/ /\ status[r] \in WaitingForCallbacks
            /\ status'[r] = Released(status[r])
  BY <1>0, <1>2 DEF Leave, Known, TypeOK, TablesOK
<1>8. SenderOf(x)' /\ InScope(x)' /\ InStep(x)' /\ ViewHolds(x)' /\ WalkOf(x)'
  BY <1>0, <1>4 DEF SenderOf, InScope, InStep, ViewHolds, WalkOf, Walking
<1>9. /\ status'[r] \in {"RUNNING"} \cup Completed
      /\ status'[r] = "RUNNING" <=> status[r] = "RUNNING"
      /\ status'[r] \in Successful <=> status[r] \in Successful
      /\ status'[r] \in Failed <=> status[r] \in Failed
      /\ status'[r] \in WaitingForCallbacks => status[r] \in WaitingForCallbacks
  BY <1>0, <1>2, <1>7 DEF Released, WaitingForCallbacks, Completed, Successful, Failed
<1>10. status[r] # "RUNNING" => \A u \in TasksOf(r) : task_status'[u] = task_status[u]
  BY <1>0, <1>1, <1>2, <1>5, FlushFacts DEF TasksOf
<1>11. ASSUME status[r] = "RUNNING", NEW u \in TasksOf(r), Waits(u) PROVE HeldBack(u)
  <2>1. CASE ex[e].first
    <3>1. FirstWalk(ex[e])
      BY <1>0, <1>1, <1>2, <1>11, <2>1 DEF WalkOf, Walking
    <3>2. PICK p : p \in Previous[u]
      BY <1>0, <1>1, <1>11, <3>1 DEF FirstWalk, FirstTasks
    <3>3. p \in TasksOf(r)
      BY <1>0, <1>11, <3>2, ConstantsAssumption DEF TasksOf
    <3> QED
      BY <1>0, <3>1, <3>2, <3>3 DEF FirstWalk, HeldBack
  <2>2. CASE ~ex[e].first
    <3>1. LaterWalk(ex[e]) /\ ex[e].root = r
      BY <1>0, <1>1, <1>2, <1>11, <2>2 DEF WalkOf, Walking
    <3> QED
      BY <1>1, <1>11, <3>1 DEF LaterWalk, HeldBack
  <2> QED
    BY <2>1, <2>2
<1>12. BetweenWalks(r)' => \A u \in TasksOf(r) : Waits(u)' => HeldBack(u)'
  BY <1>0, <1>1, <1>5, <1>6, <1>9, <1>11, FlushedTasks, ConstantsAssumption
  DEF BetweenWalks, HeldBack, TasksOf
<1>13. status[r] = "RUNNING" <=> status[r] \notin Completed
  BY <1>2 DEF Completed, Successful, Failed
<1>14. status'[r] \notin Uncalled \cup {"INITIATED"}
  BY <1>9 DEF Uncalled, Completed, Successful, Failed
<1>15. /\ \A u \in Tasks : CallOf(u)'
       /\ Focused' /\ StartedInOrder'
       /\ \A u \in Tasks : RootOf[u] # r => task_status'[u] = task_status[u]
  BY <1>0, <1>1, <1>5, <1>6, FlushedTasks
<1>16. /\ status'[r] \in Completed =>
             \A u \in TasksOf(r) : task_status'[u] \in {"PENDING", "SUCCESSFUL", "FAILED"}
       /\ status'[r] \in Successful => \A u \in TasksOf(r) : task_status'[u] = "SUCCESSFUL"
       /\ status'[r] \in Failed => \E u \in TasksOf(r) : task_status'[u] = "FAILED"
       /\ status'[r] \in WaitingForCallbacks => RootType[r] = "NORMAL"
  BY <1>0, <1>1, <1>9, <1>10, <1>13, OwnRoot DEF TasksOf, Completed
<1> QED
  BY <1>0, <1>2, <1>4, <1>5, <1>6, <1>7, <1>8, <1>9, <1>12, <1>13, <1>14, <1>15, <1>16,
     RootStep

\* The count is zero and the lists are empty: no task of the root is left to be
\* started, polled or waited for.
LEMMA TreeDone ==
  ASSUME Known, NEW e \in Executors, LoopDone(e), SeenStatus(e) = "RUNNING",
         ex[e].count = 0
  PROVE  /\ \A u \in TasksOf(ex[e].root) :
               \/ task_status[u] = "FAILED" \/ u \in ex[e].dirty
               \/ task_status[u] \in {"PENDING", "SUCCESSFUL"}
         /\ RootFailed(e) => \E u \in TasksOf(ex[e].root) :
               task_status[u] = "FAILED" \/ u \in ex[e].dirty
         /\ ~RootFailed(e) => \A u \in TasksOf(ex[e].root) :
               task_status[u] = "SUCCESSFUL" /\ u \notin ex[e].dirty
<1>0. PICK r : r = ex[e].root
  OBVIOUS
<1>1. /\ ex[e].pc = "loop" /\ ex[e].pc # "idle" /\ ex[e].todo = {} /\ ex[e].added = {}
      /\ ex[e].count = 0
  BY DEF LoopDone
<1>2. /\ ex[e] \in ExecutorStates /\ r \in Roots /\ InScope(ex[e]) /\ ViewHolds(ex[e])
      /\ WalkOf(ex[e]) /\ SenderOf(ex[e]) /\ status[r] = "RUNNING"
  BY <1>0, <1>1, AtWork DEF InStep, SeenStatus
<1>3. ASSUME NEW u \in TasksOf(r) PROVE TaskSeen(ex[e], u) /\ u \in Tasks
  BY <1>0, <1>1, <1>2, <1>3 DEF ViewHolds, Walking, TasksOf
<1>4. \A u \in TasksOf(r) : in_focus[u] => ex[e].view.task[u] = "FAILED"
  BY <1>0, <1>1, <1>2 DEF WalkOf, Walking, TurnsTaken
<1>5. \A u \in TasksOf(r) : in_focus[u] => task_status[u] = "FAILED" \/ u \in ex[e].dirty
  BY <1>3, <1>4 DEF TaskSeen
<1>6. \A u \in TasksOf(r) : ~in_focus[u] => task_status[u] \in {"PENDING", "SUCCESSFUL"}
  BY DEF Known, IInv, Focused, TasksOf
<1>7. ASSUME ~RootFailed(e), NEW u \in TasksOf(r)
      PROVE  task_status[u] = "SUCCESSFUL" /\ u \notin ex[e].dirty
  <2>1. \A v \in TasksOf(r) : ~in_focus[v]
    BY <1>0, <1>4, <1>7 DEF RootFailed, Seen
  <2>2. \A v \in TasksOf(r) : ~Waits(v)
    <3> DEFINE left == {v \in TasksOf(r) : Waits(v)}
    <3> SUFFICES ASSUME left # {} PROVE FALSE
      OBVIOUS
    <3>1. left \in SUBSET Tasks
      BY DEF TasksOf
    <3>2. PICK v \in left : Previous[v] \cap left = {}
      BY <3>1, OrderAssumption
    <3>3. v \in TasksOf(r) /\ Waits(v) /\ Previous[v] \subseteq TasksOf(r)
      BY ConstantsAssumption DEF TasksOf
    <3>4. \A p \in Previous[v] : ~Waits(p) /\ ~in_focus[p]
      BY <2>1, <3>2, <3>3
    <3>5. CASE ex[e].first
      <4>1. FirstWalk(ex[e])
        BY <1>0, <1>1, <1>2, <3>5 DEF WalkOf, Walking
      <4>2. v \notin FirstTasks(r)
        BY <1>0, <1>1, <3>3, <4>1 DEF FirstWalk
      <4>3. PICK p : p \in Previous[v]
        BY <3>3, <4>2 DEF FirstTasks
      <4> QED
        BY <1>0, <3>3, <3>4, <4>1, <4>3 DEF FirstWalk
    <3>6. CASE ~ex[e].first
      <4>1. LaterWalk(ex[e])
        BY <1>0, <1>1, <1>2, <3>6 DEF WalkOf, Walking
      <4> QED
        BY <1>0, <1>1, <3>3, <3>4, <4>1 DEF LaterWalk, HeldBack
    <3> QED
      BY <3>5, <3>6
  <2>3. task_status[u] = "SUCCESSFUL"
    BY <1>6, <1>7, <2>1, <2>2 DEF Waits
  <2> QED
    BY <1>1, <2>3, FlushFacts
<1>8. ASSUME RootFailed(e)
      PROVE  \E u \in TasksOf(r) : task_status[u] = "FAILED" \/ u \in ex[e].dirty
  <2>1. PICK u \in TasksOf(r) : ex[e].view.task[u] = "FAILED"
    BY <1>0, <1>8 DEF RootFailed, Seen
  <2> QED
    BY <1>3, <2>1 DEF TaskSeen
<1> QED
  BY <1>0, <1>5, <1>6, <1>7, <1>8

LEMMA CompleteRootOrder ==
  ASSUME Known, NEW e \in Executors, CompleteRoot(e)
  PROVE  IInv'
<1>0. PICK r : r = ex[e].root
  OBVIOUS
<1>1. /\ ex[e].pc = "loop" /\ ex[e].pc # "idle" /\ ex[e].todo = {} /\ ex[e].added = {}
      /\ ex[e].count = 0 /\ LoopDone(e) /\ SeenStatus(e) = "RUNNING"
  BY DEF CompleteRoot, LoopDone
<1>2. /\ ex[e] \in ExecutorStates /\ r \in Roots /\ r \in rootLock /\ status[r] = "RUNNING"
      /\ InScope(ex[e]) /\ \A d \in Executors : d # e => ex[d].root # r
  BY <1>0, <1>1, AtWork DEF InStep, SeenStatus
<1>3. PICK x : x = [ex[e] EXCEPT !.pc = "callbacks", !.dirty = {}]
  OBVIOUS
<1>4. /\ x.pc = "callbacks" /\ x.root = r /\ x.todo = {} /\ x.added = {} /\ x.dirty = {}
      /\ x.listed = ex[e].listed
  BY <1>0, <1>1, <1>2, <1>3 DEF ExecutorStates
<1>5. /\ Becomes(e, x) /\ task_status' = Flush(e)
      /\ status' = [q \in Roots |-> IF q = r THEN VerdictOf(e)
                                    ELSE IF q \in DroppedCallbacks(e) THEN "DELETED"
                                    ELSE status[q]]
      /\ UNCHANGED <<in_focus, broker, manager, workers>>
  BY <1>0, <1>3 DEF CompleteRoot
<1>6. UNCHANGED <<jobQueue, working, rootLock, rootQueue>>
  BY <1>5 DEF broker, workers
<1>7. /\ status'[r] = VerdictOf(e)
      /\ status'[r] \in Completed
      /\ status'[r] \in Successful <=> ~RootFailed(e)
      /\ status'[r] \in Failed <=> RootFailed(e)
  BY <1>2, <1>5 DEF VerdictOf, Completed, Successful, Failed
<1>8. status[r] \notin Completed
  BY <1>2 DEF Completed, Successful, Failed
<1>9. \A q \in Roots \ {r} :
         \/ status'[q] = status[q]
         \/ /\ status[q] = "ON_HOLD" /\ Parent[q] = r /\ status'[r] \in Completed
            /\ status'[q] \in {"PENDING", "DELETED"}
  <2>1. \A q \in DroppedCallbacks(e) : q \in Roots /\ Parent[q] = r /\ RootType[q] # "NORMAL"
    BY <1>0 DEF DroppedCallbacks, CallbacksOf
  <2>2. \A q \in DroppedCallbacks(e) : status[q] = "ON_HOLD"
    BY <1>8, <2>1 DEF Known, IInv, RootsInOrder
  <2> QED
    BY <1>5, <1>7, <2>1, <2>2
<1>10. SenderOf(x)' /\ InScope(x)' /\ InStep(x)' /\ ViewHolds(x)' /\ WalkOf(x)'
  BY <1>0, <1>2, <1>4, <1>7 DEF SenderOf, InScope, InStep, ViewHolds, WalkOf, Walking, TasksOf
<1>11. status'[r] \notin Uncalled \cup {"INITIATED", "RUNNING"}
  BY <1>7 DEF Uncalled, Completed, Successful, Failed
<1>12. \A u \in TasksOf(r) : task_status'[u] = IF u \in ex[e].dirty THEN "FAILED" ELSE task_status[u]
  BY <1>1, <1>5, FlushFacts DEF TasksOf
<1>13. /\ \A u \in TasksOf(r) : task_status'[u] \in {"PENDING", "SUCCESSFUL", "FAILED"}
       /\ status'[r] \in Successful => \A u \in TasksOf(r) : task_status'[u] = "SUCCESSFUL"
       /\ status'[r] \in Failed => \E u \in TasksOf(r) : task_status'[u] = "FAILED"
  BY <1>0, <1>1, <1>7, <1>12, TreeDone
<1>14. status'[r] \in WaitingForCallbacks => RootType[r] = "NORMAL"
  BY <1>0, <1>7 DEF VerdictOf, HoldingCallbacks, WaitingForCallbacks
<1>15. /\ \A u \in Tasks : CallOf(u)'
       /\ Focused' /\ StartedInOrder'
       /\ \A u \in Tasks : RootOf[u] # r => task_status'[u] = task_status[u]
  BY <1>0, <1>1, <1>5, <1>6, FlushedTasks
<1>16. ~BetweenWalks(r)'
  BY <1>11 DEF BetweenWalks
<1> QED
  BY <1>0, <1>2, <1>4, <1>5, <1>6, <1>7, <1>8, <1>9, <1>10, <1>11, <1>13, <1>14, <1>15,
     <1>16, RootStep

LEMMA ExecutorTakeOrder ==
  ASSUME Known, NEW e \in Executors, NEW r \in Roots, ExecutorTake(e, r)
  PROVE  IInv'
<1>1. ex[e].pc = "idle" /\ rootQueue[r] > 0
  BY DEF ExecutorTake
<1>2. /\ rootQueue[r] = 1 /\ r \in rootLock /\ r # None /\ ex[e].root = None
      /\ \A d \in Executors : ex[d].root # r
  <2>1. rootQueue[r] = 1
    BY <1>1 DEF Known, OneCallPerRoot
  <2>2. ex[e].root = None /\ r # None
    BY <1>1, ConstantsAssumption DEF Known, TypeOK, ExecutorsOK, RecordOK
  <2> QED
    BY <2>1, <2>2 DEF Known, OneCallPerRoot
<1>3. status[r] \notin Uncalled
  BY <1>2 DEF Known, IInv, RootsInOrder
<1>4. PICK x : x = [Idle EXCEPT !.pc = "begin", !.root = r]
  OBVIOUS
<1>5. /\ x.pc = "begin" /\ x.root = r /\ x.todo = {} /\ x.added = {} /\ x.dirty = {}
      /\ x.listed = {} /\ ~x.first /\ x.count = 0
  BY <1>4 DEF Idle
<1>6. /\ Becomes(e, x) /\ rootQueue' = [rootQueue EXCEPT ![r] = @ - 1]
      /\ UNCHANGED <<status, task_status, in_focus, rootLock, jobLock, jobQueue,
                     manager, workers>>
  BY <1>3, <1>4 DEF ExecutorTake, Uncalled
<1>7. UNCHANGED working /\ \A q \in Roots \ {r} : rootQueue'[q] = rootQueue[q]
  BY <1>6 DEF workers, Known, TypeOK, BrokerOK
<1>8. SenderOf(x)' /\ InScope(x)' /\ InStep(x)' /\ ViewHolds(x)' /\ WalkOf(x)'
  <2>1. status'[r] \in {"INITIATED", "RUNNING"} \cup Completed
    BY <1>3, <1>6 DEF Uncalled, Known, TypeOK, TablesOK, RootStatuses, Completed, Successful, Failed
  <2> QED
    BY <1>5, <2>1 DEF SenderOf, InScope, InStep, ViewHolds, WalkOf, Walking
<1>9. BetweenWalks(r)' => \A u \in TasksOf(r) : Waits(u)' => HeldBack(u)'
  BY <1>2, <1>6 DEF BetweenWalks, Known, IInv, NothingForgotten, Abandoned, Waits, HeldBack, TasksOf
<1>10. /\ status'[r] \in Completed =>
             \A u \in TasksOf(r) : task_status'[u] \in {"PENDING", "SUCCESSFUL", "FAILED"}
       /\ status'[r] \in Successful => \A u \in TasksOf(r) : task_status'[u] = "SUCCESSFUL"
       /\ status'[r] \in Failed => \E u \in TasksOf(r) : task_status'[u] = "FAILED"
       /\ status'[r] \in WaitingForCallbacks => RootType[r] = "NORMAL"
  <2>1. ~Abandoned(r)
    BY <1>2 DEF Abandoned
  <2> QED
    BY <1>6, <2>1 DEF Known, IInv, VerdictsStand, SuccessfulMeansAll, FailedMeansSome, TasksOf
<1>11. status'[r] = "INITIATED" => \A u \in TasksOf(r) : Waits(u)'
  BY <1>6 DEF Known, IInv, Untouched, Waits, TasksOf
<1> QED
  BY <1>2, <1>3, <1>5, <1>6, <1>7, <1>8, <1>9, <1>10, <1>11, SameTasks, RootStep

LEMMA ExecutorReleaseOrder ==
  ASSUME Known, NEW e \in Executors, ExecutorRelease(e)
  PROVE  IInv'
<1>0. PICK r : r = ex[e].root
  OBVIOUS
<1>1. ex[e].pc = "return" /\ ex[e].pc # "idle"
  BY DEF ExecutorRelease
<1>2. /\ r \in Roots /\ r \in rootLock /\ ~Abandoned(r) /\ status[r] \notin Uncalled
      /\ \A d \in Executors : d # e => ex[d].root # r
  BY <1>0, <1>1, AtWork
<1>3. PICK x : x = Idle
  OBVIOUS
<1>4. x.pc = "idle" /\ x.root = None /\ x.dirty = {}
  BY <1>3 DEF Idle
<1>5. /\ Becomes(e, x) /\ rootLock' = rootLock \ {r}
      /\ UNCHANGED <<tables, rootQueue, jobLock, jobQueue, manager, workers>>
  BY <1>0, <1>3 DEF ExecutorRelease
<1>6. UNCHANGED <<status, task_status, in_focus, working>>
  BY <1>5 DEF tables, workers
<1>7. SenderOf(x)'
  BY <1>4 DEF SenderOf
<1>8. BetweenWalks(r)' => \A u \in TasksOf(r) : Waits(u)' => HeldBack(u)'
  BY <1>0, <1>1, <1>2, <1>6 DEF BetweenWalks, Known, IInv, NothingForgotten, Waits, HeldBack, TasksOf
<1>9. status'[r] = "INITIATED" => \A u \in TasksOf(r) : Waits(u)'
  BY <1>6 DEF Known, IInv, Untouched, Waits, TasksOf
<1> QED
  BY <1>0, <1>1, <1>2, <1>4, <1>5, <1>6, <1>7, <1>8, <1>9, SameTasks, OwnRoot, RootStep
  DEF TasksOf

-----------------------------------------------------------------------------
(* Executors that raise or die.                                            *)

\* The lock of a root whose executor is lost stays, and nothing will take it.
LEMMA LosesRoot ==
  ASSUME Known, NEW e \in Executors, ex[e].pc # "idle", Becomes(e, Idle),
         NEW r, r = ex[e].root, UNCHANGED <<rootLock, rootQueue>>
  PROVE  Abandoned(r)' /\ ~BetweenWalks(r)'
<1>1. ex'[e] = Idle /\ \A d \in Executors : d # e => ex'[d] = ex[d]
  BY DEF Becomes, Known, TypeOK, ExecutorsOK
<1>2. /\ r \in rootLock /\ rootQueue[r] = 0 /\ r # None
      /\ \A d \in Executors : d # e => ex[d].root # r
  BY AtWork, ConstantsAssumption
<1> QED
  BY <1>1, <1>2 DEF Abandoned, BetweenWalks, Idle

LEMMA ExecutorRaiseOrder ==
  ASSUME Known, NEW e \in Executors, ExecutorRaise(e)
  PROVE  IInv'
<1>0. PICK r : r = ex[e].root
  OBVIOUS
<1>1. ex[e].pc # "idle"
  BY DEF ExecutorRaise
<1>2. /\ r \in Roots /\ r \in rootLock /\ status[r] \notin Uncalled /\ r # None
      /\ \A d \in Executors : d # e => ex[d].root # r
  BY <1>0, <1>1, AtWork, ConstantsAssumption
<1>3. PICK x : x = Idle
  OBVIOUS
<1>4. x.pc = "idle" /\ x.root = None /\ x.dirty = {}
  BY <1>3 DEF Idle
<1>5. /\ Becomes(e, x) /\ status' = [status EXCEPT ![r] = "COMPLETED_WITH_FAILURE"]
      /\ UNCHANGED <<task_status, in_focus, broker, manager, workers>>
  BY <1>0, <1>2, <1>3 DEF ExecutorRaise, Uncalled
<1>6. UNCHANGED <<jobQueue, working, rootLock, rootQueue>>
  BY <1>5 DEF broker, workers
<1>7. /\ status'[r] = "COMPLETED_WITH_FAILURE"
      /\ \A q \in Roots \ {r} : status'[q] = status[q]
  BY <1>2, <1>5 DEF Known, TypeOK, TablesOK
<1>8. SenderOf(x)'
  BY <1>4 DEF SenderOf
<1>9. Abandoned(r)' /\ ~BetweenWalks(r)'
  BY <1>0, <1>1, <1>3, <1>5, <1>6, LosesRoot
<1>10. /\ status'[r] \in Completed
       /\ status'[r] \notin Uncalled \cup Successful \cup WaitingForCallbacks \cup {"INITIATED"}
  BY <1>7 DEF Uncalled, Completed, Successful, Failed, WaitingForCallbacks
<1> QED
  BY <1>0, <1>2, <1>4, <1>5, <1>6, <1>7, <1>8, <1>9, <1>10, SameTasks, RootStep

LEMMA ExecutorCrashOrder ==
  ASSUME Known, NEW e \in Executors, ExecutorCrash(e)
  PROVE  IInv'
<1>0. PICK r : r = ex[e].root
  OBVIOUS
<1>1. ex[e].pc # "idle"
  BY DEF ExecutorCrash
<1>2. /\ r \in Roots /\ r \in rootLock /\ status[r] \notin Uncalled
      /\ \A d \in Executors : d # e => ex[d].root # r
  BY <1>0, <1>1, AtWork
<1>3. PICK x : x = Idle
  OBVIOUS
<1>4. x.pc = "idle" /\ x.root = None /\ x.dirty = {}
  BY <1>3 DEF Idle
<1>5. Becomes(e, x) /\ UNCHANGED <<tables, broker, manager, workers>>
  BY <1>3 DEF ExecutorCrash
<1>6. UNCHANGED <<status, task_status, in_focus, jobQueue, working, rootLock, rootQueue>>
  BY <1>5 DEF tables, broker, workers
<1>7. SenderOf(x)'
  BY <1>4 DEF SenderOf
<1>8. Abandoned(r)' /\ ~BetweenWalks(r)'
  BY <1>0, <1>1, <1>3, <1>5, <1>6, LosesRoot
<1>9. status'[r] = "INITIATED" => \A u \in TasksOf(r) : Waits(u)'
  BY <1>6 DEF Known, IInv, Untouched, Waits, TasksOf
<1> QED
  BY <1>0, <1>1, <1>2, <1>4, <1>5, <1>6, <1>7, <1>8, <1>9, SameTasks, OwnRoot, RootStep

-----------------------------------------------------------------------------
(* The manager.                                                            *)

\* A step of the manager: executors and tasks are left alone, and a root that
\* gets another status goes from PENDING to INITIATED.
LEMMA ManagerStep ==
  ASSUME Known,
         UNCHANGED <<task_status, in_focus, ex, jobQueue, working>>,
         \A q \in Roots : \/ status'[q] = status[q]
                          \/ status[q] = "PENDING" /\ status'[q] = "INITIATED",
         \A q \in Roots : Abandoned(q)' <=> Abandoned(q),
         RootsInOrder'
  PROVE  IInv'
<1>1. OneCallPerTask' /\ Focused' /\ StartedInOrder'
  BY SameTasks DEF Known, IInv, OneCallPerTask, SenderOf, NoCall
<1>2. Untouched'
  <2>1. \A u \in Tasks : RootOf[u] \in Roots
    BY ConstantsAssumption
  <2>2. \A u \in Tasks : status'[RootOf[u]] \in Uncalled \cup {"INITIATED"} =>
           status[RootOf[u]] \in Uncalled \cup {"INITIATED"}
    BY <2>1 DEF Uncalled
  <2> QED
    BY <2>2 DEF Known, IInv, Untouched, Waits, TasksOf
<1>3. ExecutorsInOrder'
  <2>1. ASSUME NEW d \in Executors, ex[d].pc # "idle"
        PROVE  (InScope(ex[d]) /\ InStep(ex[d]) /\ ViewHolds(ex[d]) /\ WalkOf(ex[d]))'
    <3>1. ex[d].root \in Roots /\ status[ex[d].root] \notin Uncalled
      BY <2>1, AtWork
    <3>2. status'[ex[d].root] = status[ex[d].root]
      BY <3>1 DEF Uncalled
    <3>3. \A c \in CallbacksOf(ex[d].root) :
            /\ status[c] = "DELETED" => status'[c] = "DELETED"
            /\ status[c] \in Completed => status'[c] \in Completed
      BY DEF CallbacksOf, Completed, Successful, Failed
    <3> QED
      BY <2>1, <3>2, <3>3, Bystander DEF TasksOf
  <2> QED
    BY <2>1 DEF Known, IInv, ExecutorsInOrder
<1>4. NothingForgotten'
  <2>1. \A q \in Roots : BetweenWalks(q)' => BetweenWalks(q)
    BY DEF BetweenWalks
  <2> QED
    BY <2>1 DEF Known, IInv, NothingForgotten, HeldBack, Waits, TasksOf
<1>5. VerdictsStand'
  <2>1. \A q \in Roots : status'[q] \in Completed \cup WaitingForCallbacks =>
           status'[q] = status[q]
    BY DEF Completed, Successful, Failed, WaitingForCallbacks
  <2> QED
    BY <2>1, ConstantsAssumption
    DEF Known, IInv, VerdictsStand, SuccessfulMeansAll, FailedMeansSome, TasksOf, Completed
<1> QED
  BY <1>1, <1>2, <1>3, <1>4, <1>5 DEF IInv

LEMMA ManagerOrder == Known /\ (ManagerNext \/ ManagerCrash) => IInv'
<1> SUFFICES ASSUME Known, ManagerNext \/ ManagerCrash PROVE IInv'
  OBVIOUS
<1> USE DEF tables, broker, workers, manager
<1>1. CASE ManagerScan
  <2>1. UNCHANGED <<status, task_status, in_focus, ex, jobQueue, working, rootLock, rootQueue>>
    BY <1>1 DEF ManagerScan
  <2>2. \A q \in scan' : status[q] \notin {"ON_HOLD", "DELETED"}
    BY <1>1 DEF ManagerScan, Manageable, WaitingForCallbacks
  <2>3. RootsInOrder'
    BY <1>1, <2>1, <2>2 DEF ManagerScan, Known, IInv, RootsInOrder
  <2> QED
    BY <2>1, <2>3, ManagerStep DEF Abandoned
<1>2. ASSUME NEW r \in Roots, ManagerInitiate(r) PROVE IInv'
  <2>1. /\ r \in scan /\ status[r] = "PENDING" /\ picked' = r
        /\ status'[r] = "INITIATED" /\ \A q \in Roots \ {r} : status'[q] = status[q]
        /\ UNCHANGED <<task_status, in_focus, ex, jobQueue, working, rootLock,
                       rootQueue, scan>>
    BY <1>2 DEF ManagerInitiate, Known, TypeOK, TablesOK
  <2>2. \A q \in scan : q \in Roots
    BY DEF Known, TypeOK
  <2>3. r \notin rootLock
    BY <2>1 DEF Known, IInv, RootsInOrder, Uncalled
  <2>4. ASSUME NEW q \in Roots, RootType[q] # "NORMAL", status'[Parent[q]] \notin Completed
        PROVE  status'[q] = "ON_HOLD"
    <3>1. Parent[q] \in Roots
      BY <2>4, ConstantsAssumption
    <3>2. status[Parent[q]] \notin Completed
      BY <2>1, <2>4, <3>1 DEF Completed, Successful, Failed
    <3>3. status[q] = "ON_HOLD"
      BY <2>4, <3>2 DEF Known, IInv, RootsInOrder
    <3> QED
      BY <2>1, <3>3
  <2>5. \A q \in Roots : status'[q] \in Uncalled => q \notin rootLock'
    BY <2>1 DEF Known, IInv, RootsInOrder, Uncalled
  <2>6. RootsInOrder'
    BY <2>1, <2>2, <2>3, <2>4, <2>5 DEF Known, IInv, RootsInOrder
  <2> QED
    BY <2>1, <2>6, ManagerStep DEF Abandoned
<1>3. ASSUME NEW r \in Roots, ManagerDelay(r) PROVE IInv'
  <2>1. /\ r \in scan
        /\ picked = r \/ (picked = None /\ status[r] # "PENDING")
        /\ scan' = scan \ {r} /\ picked' = None
        /\ UNCHANGED <<status, task_status, in_focus, ex, jobQueue, working>>
    BY <1>3 DEF ManagerDelay, DelayExecutor
  <2>2. /\ rootLock' = rootLock \cup {r}
        /\ r \in rootLock => UNCHANGED rootQueue
        /\ r \notin rootLock => rootQueue'[r] > 0
        /\ \A q \in Roots \ {r} : rootQueue'[q] = rootQueue[q]
    BY <1>3 DEF ManagerDelay, DelayExecutor, Known, TypeOK, BrokerOK
  <2>3. status[r] \notin Uncalled
    BY <2>1, ConstantsAssumption DEF Known, IInv, RootsInOrder, Uncalled
  <2>4. RootsInOrder'
    <3>1. \A q \in Roots : status'[q] \in Uncalled => q \notin rootLock'
      BY <2>1, <2>2, <2>3 DEF Known, IInv, RootsInOrder
    <3>2. \A q \in scan' : status'[q] \notin {"ON_HOLD", "DELETED"}
      BY <2>1 DEF Known, IInv, RootsInOrder
    <3>3. \A q \in Roots :
             RootType[q] # "NORMAL" /\ status'[Parent[q]] \notin Completed =>
                status'[q] = "ON_HOLD"
      BY <2>1 DEF Known, IInv, RootsInOrder
    <3> QED
      BY <2>1, <3>1, <3>2, <3>3 DEF RootsInOrder
  <2>5. \A q \in Roots : Abandoned(q)' <=> Abandoned(q)
    BY <2>1, <2>2 DEF Abandoned
  <2> QED
    BY <2>1, <2>4, <2>5, ManagerStep
<1>4. CASE ManagerCrash
  <2>1. UNCHANGED <<status, task_status, in_focus, ex, jobQueue, working, rootLock, rootQueue>>
    BY <1>4 DEF ManagerCrash
  <2>2. RootsInOrder'
    BY <1>4, <2>1 DEF ManagerCrash, Known, IInv, RootsInOrder
  <2> QED
    BY <2>1, <2>2, ManagerStep DEF Abandoned
<1> QED
  BY <1>1, <1>2, <1>3, <1>4 DEF ManagerNext

-----------------------------------------------------------------------------
(* Workers.                                                                *)

\* A worker moves a task that is being carried out.
LEMMA WorkerStep ==
  ASSUME Known, NEW t \in Tasks, task_status[t] \in Active,
         \A e \in Executors : /\ ex[e].pc \in {"run", "wait"} => ex[e].cur # t
                              /\ t \notin ex[e].dirty,
         UNCHANGED <<status, executor_running, in_focus, rootLock, rootQueue, manager, ex>>,
         task_status'[t] # "PENDING",
         \A u \in Tasks : u # t => task_status'[u] = task_status[u],
         \A u \in Tasks, kind \in {"RUN", "WAIT"} : u # t =>
            /\ jobQueue'[<<u, kind>>] = jobQueue[<<u, kind>>]
            /\ working'[<<u, kind>>] = working[<<u, kind>>],
         CallOf(t)'
  PROVE  IInv'
<1>1. ~Waits(t) /\ in_focus[t] /\ task_status[t] \notin {"PENDING", "SUCCESSFUL", "FAILED", "RUNNING_WAIT"}
  BY DEF Active, Waits, Known, IInv, Focused
<1>2. \A u \in Tasks : Waits(u)' <=> Waits(u)
  BY <1>1 DEF Waits
<1>3. UNCHANGED <<scan, picked>>
  BY DEF manager
<1>4. OneCallPerTask'
  <2>1. ASSUME NEW u \in Tasks, u # t PROVE CallOf(u)'
    BY <2>1 DEF Known, IInv, OneCallPerTask, CallOf, NoCall
  <2>2. ASSUME NEW e \in Executors PROVE SenderOf(ex[e])'
    <3>1. SenderOf(ex[e])
      BY DEF Known, IInv, OneCallPerTask
    <3>2. /\ ex[e].pc \in {"run", "wait"} => ex[e].cur \in Tasks
          /\ \A u \in ex[e].dirty : u \in Tasks
      BY DEF Known, IInv, ExecutorsInOrder, InScope, TasksOf
    <3> QED
      BY <3>1, <3>2 DEF SenderOf, NoCall
  <2> QED
    BY <2>1, <2>2 DEF OneCallPerTask
<1>5. RootsInOrder' /\ Untouched'
  BY <1>2, <1>3 DEF Known, IInv, RootsInOrder, Untouched, TasksOf
<1>6. Focused'
  <2>1. ASSUME NEW u \in Tasks
        PROVE  IF in_focus'[u] THEN ~Waits(u)'
               ELSE task_status'[u] \in {"PENDING", "SUCCESSFUL"}
    BY <1>1, <1>2 DEF Known, IInv, Focused
  <2> QED
    BY <2>1 DEF Focused
<1>7. ExecutorsInOrder'
  <2>1. ASSUME NEW d \in Executors, ex[d].pc # "idle"
        PROVE  (InScope(ex[d]) /\ InStep(ex[d]) /\ ViewHolds(ex[d]) /\ WalkOf(ex[d]))'
    <3>1. InScope(ex[d]) /\ InStep(ex[d]) /\ ViewHolds(ex[d]) /\ WalkOf(ex[d])
      BY <2>1, AtWork
    <3>2. InScope(ex[d])' /\ InStep(ex[d])'
      BY <3>1 DEF InScope, InStep, TasksOf
    <3>3. ViewHolds(ex[d])'
      <4>1. ASSUME NEW u \in TasksOf(ex[d].root), TaskSeen(ex[d], u) PROVE TaskSeen(ex[d], u)'
        <5>1. CASE u = t
          BY <1>1, <1>2, <4>1, <5>1 DEF TaskSeen
        <5>2. CASE u # t
          BY <1>2, <4>1, <5>2 DEF TaskSeen, TasksOf
        <5> QED
          BY <5>1, <5>2
      <4> QED
        BY <3>1, <4>1 DEF ViewHolds, CallbackSeen, TasksOf
    <3>4. WalkOf(ex[d])'
      <4>1. \A u \in TasksOf(ex[d].root) : Previous[u] \subseteq Tasks /\ u \in Tasks
        BY ConstantsAssumption DEF TasksOf
      <4>2. TurnsTaken(ex[d]) => TurnsTaken(ex[d])'
        BY DEF TurnsTaken, TasksOf
      <4>3. FirstWalk(ex[d]) => FirstWalk(ex[d])'
        BY <1>2, <3>1, <4>1 DEF FirstWalk, TasksOf, FirstTasks, InScope
      <4>4. LaterWalk(ex[d]) => LaterWalk(ex[d])'
        BY <1>2, <4>1 DEF LaterWalk, HeldBack, TasksOf
      <4> QED
        BY <3>1, <4>2, <4>3, <4>4 DEF WalkOf
    <3> QED
      BY <3>2, <3>3, <3>4
  <2> QED
    BY <2>1 DEF Known, IInv, ExecutorsInOrder
<1>8. \A q \in Roots : Abandoned(q)' <=> Abandoned(q)
  BY DEF Abandoned
<1>9. NothingForgotten'
  <2>1. \A q \in Roots : BetweenWalks(q)' => BetweenWalks(q)
    BY <1>8 DEF BetweenWalks
  <2> QED
    BY <1>2, <2>1, ConstantsAssumption DEF Known, IInv, NothingForgotten, HeldBack, TasksOf
<1>10. StartedInOrder'
  BY <1>1, <1>2, ConstantsAssumption DEF Known, IInv, StartedInOrder
<1>11. VerdictsStand'
  <2>1. status[RootOf[t]] \notin Completed \/ Abandoned(RootOf[t])
    BY <1>1 DEF Known, IInv, VerdictsStand
  <2>2. \A q \in Roots : t \in TasksOf(q) => status[q] \notin Successful
    BY <1>1 DEF Known, IInv, VerdictsStand, SuccessfulMeansAll
  <2>3. \A u \in Tasks : RootOf[u] \in Roots
    BY ConstantsAssumption
  <2>4. \A u \in Tasks : status'[RootOf[u]] \in Completed /\ ~Abandoned(RootOf[u])' =>
           task_status'[u] \in {"PENDING", "SUCCESSFUL", "FAILED"}
    BY <1>8, <2>1, <2>3 DEF Known, IInv, VerdictsStand
  <2>5. SuccessfulMeansAll'
    BY <2>2 DEF Known, IInv, VerdictsStand, SuccessfulMeansAll, TasksOf
  <2>6. FailedMeansSome'
    BY <1>1, <1>8 DEF Known, IInv, VerdictsStand, FailedMeansSome, TasksOf
  <2> QED
    BY <2>4, <2>5, <2>6 DEF Known, IInv, VerdictsStand
<1> QED
  BY <1>4, <1>5, <1>6, <1>7, <1>9, <1>10, <1>11 DEF IInv

\* A job that has a message or a worker is of a task that is carried out, and
\* no executor has anything to write about that task.
LEMMA CalledTask ==
  ASSUME Known, NEW t \in Tasks, NEW kind \in {"RUN", "WAIT"},
         jobQueue[<<t, kind>>] > 0 \/ working[<<t, kind>>] > 0
  PROVE  /\ task_status[t] \in Active /\ TaskExists(t)
         /\ \A e \in Executors : /\ ex[e].pc \in {"run", "wait"} => ex[e].cur # t
                                 /\ t \notin ex[e].dirty
         /\ jobQueue[<<t, kind>>] > 0 =>
               /\ task_status[t] \in {"INITIATED", "RUNNING_WAIT_INITIATED"}
               /\ kind = "RUN" <=> task_status[t] = "INITIATED"
               /\ jobQueue[<<t, kind>>] = 1
               /\ \A other \in {"RUN", "WAIT"} :
                     /\ working[<<t, other>>] = 0
                     /\ other # kind => jobQueue[<<t, other>>] = 0
         /\ working[<<t, kind>>] > 0 =>
               /\ task_status[t] = "RUNNING" /\ working[<<t, kind>>] = 1
               /\ \A other \in {"RUN", "WAIT"} :
                     /\ jobQueue[<<t, other>>] = 0
                     /\ other # kind => working[<<t, other>>] = 0
<1>1. CallOf(t) /\ \A e \in Executors : SenderOf(ex[e])
  BY DEF Known, IInv, OneCallPerTask
<1>2. /\ jobQueue[<<t, "RUN">>] \in Nat /\ jobQueue[<<t, "WAIT">>] \in Nat
      /\ working[<<t, "RUN">>] \in Nat /\ working[<<t, "WAIT">>] \in Nat
  BY DEF Known, TypeOK, BrokerOK, WorkersOK, Jobs
<1>3. task_status[t] \in Active
  BY <1>1, <1>2 DEF CallOf, NoCall
<1>4. TaskExists(t)
  BY <1>3 DEF Known, IInv, Untouched, Waits, Active, TaskExists, Uncalled
<1>5. CASE task_status[t] = "INITIATED"
  <2>1. /\ kind = "RUN" /\ jobQueue[<<t, "RUN">>] = 1 /\ jobQueue[<<t, "WAIT">>] = 0
        /\ working[<<t, "RUN">>] = 0 /\ working[<<t, "WAIT">>] = 0
    BY <1>1, <1>2, <1>5 DEF CallOf, NoCall
  <2>2. \A e \in Executors : /\ ex[e].pc \in {"run", "wait"} => ex[e].cur # t
                             /\ t \notin ex[e].dirty
    <3> SUFFICES ASSUME NEW e \in Executors
                 PROVE  /\ ex[e].pc \in {"run", "wait"} => ex[e].cur # t
                        /\ t \notin ex[e].dirty
      OBVIOUS
    <3>1. SenderOf(ex[e])
      BY <1>1
    <3>2. ~NoCall(<<t, kind>>)
      BY <2>1 DEF NoCall
    <3> QED
      BY <1>5, <2>1, <3>1, <3>2 DEF SenderOf
  <2>3. /\ jobQueue[<<t, kind>>] = 1 /\ ~(working[<<t, kind>>] > 0)
        /\ \A other \in {"RUN", "WAIT"} :
              working[<<t, other>>] = 0 /\ (other # kind => jobQueue[<<t, other>>] = 0)
    BY <2>1
  <2> QED
    BY <1>3, <1>4, <1>5, <2>1, <2>2, <2>3
<1>6. CASE task_status[t] = "RUNNING_WAIT_INITIATED"
  <2>1. /\ kind = "WAIT" /\ jobQueue[<<t, "WAIT">>] = 1 /\ jobQueue[<<t, "RUN">>] = 0
        /\ working[<<t, "RUN">>] = 0 /\ working[<<t, "WAIT">>] = 0
    BY <1>1, <1>2, <1>6 DEF CallOf, NoCall
  <2>2. \A e \in Executors : /\ ex[e].pc \in {"run", "wait"} => ex[e].cur # t
                             /\ t \notin ex[e].dirty
    <3> SUFFICES ASSUME NEW e \in Executors
                 PROVE  /\ ex[e].pc \in {"run", "wait"} => ex[e].cur # t
                        /\ t \notin ex[e].dirty
      OBVIOUS
    <3>1. SenderOf(ex[e])
      BY <1>1
    <3>2. ~NoCall(<<t, kind>>)
      BY <2>1 DEF NoCall
    <3> QED
      BY <1>6, <2>1, <3>1, <3>2 DEF SenderOf
  <2>3. /\ jobQueue[<<t, kind>>] = 1 /\ ~(working[<<t, kind>>] > 0)
        /\ \A other \in {"RUN", "WAIT"} :
              working[<<t, other>>] = 0 /\ (other # kind => jobQueue[<<t, other>>] = 0)
    BY <2>1
  <2> QED
    BY <1>3, <1>4, <1>6, <2>1, <2>2, <2>3
<1>7. CASE task_status[t] = "RUNNING"
  <2>1. /\ jobQueue[<<t, "RUN">>] = 0 /\ jobQueue[<<t, "WAIT">>] = 0
        /\ working[<<t, kind>>] = 1
        /\ \A other \in {"RUN", "WAIT"} : other # kind => working[<<t, other>>] = 0
    BY <1>1, <1>2, <1>7 DEF CallOf
  <2>2. \A e \in Executors : /\ ex[e].pc \in {"run", "wait"} => ex[e].cur # t
                             /\ t \notin ex[e].dirty
    BY <1>1, <1>7 DEF SenderOf
  <2> QED
    BY <1>3, <1>4, <1>7, <2>1, <2>2
<1> QED
  BY <1>3, <1>5, <1>6, <1>7 DEF Active

LEMMA WorkerOrder ==
  ASSUME Known, NEW t \in Tasks, NEW kind \in {"RUN", "WAIT"},
         \/ StartJob(t, kind)
         \/ \E outcome \in TaskStatuses : FinishJob(t, kind, outcome)
         \/ RaiseJob(t, kind) \/ WorkerCrash(t, kind)
  PROVE  IInv'
<1> DEFINE j == <<t, kind>>
<1>1. /\ j \in Jobs /\ \A u \in Tasks, k \in {"RUN", "WAIT"} : <<u, k>> \in Jobs
      /\ jobQueue \in [Jobs -> Nat] /\ working \in [Jobs -> Nat]
      /\ task_status \in [Tasks -> TaskStatuses]
  BY DEF Jobs, Known, TypeOK, BrokerOK, WorkersOK, TablesOK
<1>2. CASE StartJob(t, kind)
  <2>1. jobQueue[j] > 0
    BY <1>2 DEF StartJob
  <2>2. /\ task_status' = [task_status EXCEPT ![t] = "RUNNING"]
        /\ jobQueue' = [jobQueue EXCEPT ![j] = @ - 1]
        /\ working' = [working EXCEPT ![j] = @ + 1]
        /\ UNCHANGED <<status, executor_running, in_focus, rootLock, rootQueue, manager, ex>>
    BY <1>2, <2>1, CalledTask DEF StartJob
  <2>3. CallOf(t)'
    BY <1>1, <2>1, <2>2, CalledTask DEF CallOf, NoCall, Active
  <2> QED
    BY <1>1, <2>1, <2>2, <2>3, CalledTask, WorkerStep
<1>3. ASSUME working[j] > 0, working' = [working EXCEPT ![j] = @ - 1], UNCHANGED jobQueue,
             UNCHANGED <<status, executor_running, in_focus, rootLock, rootQueue, manager, ex>>,
             NEW after \in {"SUCCESSFUL", "FAILED", "RUNNING_WAIT", "RUNNING"},
             task_status' = [task_status EXCEPT ![t] = after]
      PROVE  IInv'
  <2>1. CallOf(t)'
    BY <1>1, <1>3, CalledTask DEF CallOf, NoCall, Active
  <2> QED
    BY <1>1, <1>3, <2>1, CalledTask, WorkerStep
<1>4. ASSUME NEW outcome \in TaskStatuses, FinishJob(t, kind, outcome) PROVE IInv'
  BY <1>3, <1>4, CalledTask DEF FinishJob, broker
<1>5. CASE RaiseJob(t, kind)
  BY <1>3, <1>5, CalledTask DEF RaiseJob, broker
<1>6. CASE WorkerCrash(t, kind)
  <2>1. working[j] > 0 /\ UNCHANGED task_status
    BY <1>6 DEF WorkerCrash, tables
  <2>2. task_status' = [task_status EXCEPT ![t] = "RUNNING"]
    BY <1>1, <2>1, CalledTask
  <2> QED
    BY <1>3, <1>6, <2>1, <2>2 DEF WorkerCrash, tables, broker
<1> QED
  BY <1>2, <1>4, <1>5, <1>6

\* Nothing the invariant is about changes.
LEMMA SameOrder ==
  ASSUME Known, UNCHANGED <<status, task_status, in_focus, rootLock, rootQueue,
                            jobQueue, scan, picked, ex, working>>
  PROVE  IInv'
<1>1. OneCallPerTask' /\ Focused' /\ StartedInOrder'
  BY SameTasks DEF Known, IInv, OneCallPerTask, SenderOf, NoCall
<1>2. RootsInOrder'
  BY DEF Known, IInv, RootsInOrder
<1> QED
  BY <1>2, ManagerStep DEF Abandoned

-----------------------------------------------------------------------------
(* The invariant.                                                          *)

LEMMA ExecutorOrder ==
  ASSUME Known, NEW e \in Executors, ExecutorStep(e)
  PROVE  IInv'
  BY BeginInitiatedOrder, BeginRunningOrder, BeginOtherOrder, ListFirstOrder,
     InitiateTaskOrder, PassOverOrder, CountActiveOrder, InitiateWaitOrder,
     WaitUnmappedOrder, AcknowledgeOrder, DispatchRunOrder, DispatchWaitOrder,
     AppendNextOrder, CompleteRootOrder, ReleaseCallbacksOrder, LeaveOrder,
     ExecutorReleaseOrder DEF ExecutorStep

LEMMA NextOrder ==
  ASSUME Known, "worker_ready" \notin FaultKinds, [Next]_vars
  PROVE  IInv'
<1>1. CASE ManagerNext
  BY <1>1, ManagerOrder
<1>2. CASE ExecutorNext
  BY <1>2, ExecutorOrder, ExecutorTakeOrder DEF ExecutorNext
<1>3. CASE WorkerNext
  <2>1. ASSUME NEW t \in Tasks, NEW kind \in {"RUN", "WAIT"}, ReleaseJob(t, kind)
        PROVE  IInv'
    BY <2>1, SameOrder DEF ReleaseJob, tables, manager
  <2> QED
    BY <1>3, <2>1, WorkerOrder DEF WorkerNext
<1>4. CASE FaultNext
  <2>1. ~UnlockAll
    BY DEF UnlockAll, Fault
  <2> QED
    BY <1>4, <2>1, ExecutorRaiseOrder, ExecutorCrashOrder, WorkerOrder, ManagerOrder
    DEF FaultNext
<1>5. CASE UNCHANGED vars
  BY <1>5, SameOrder DEF vars, tables, broker, manager, workers
<1> QED
  BY <1>1, <1>2, <1>3, <1>4, <1>5 DEF Next

\* The invariant holds of every behaviour in which no worker service drops the
\* locks, whatever else crashes or raises.
THEOREM OrderCorrect ==
  ASSUME "worker_ready" \notin FaultKinds
  PROVE  Spec => []Known
<1>1. Init => Known
  BY InitType, InitCalls, InitOrder DEF Known
<1>2. Known /\ [Next]_vars => Known'
  BY NextType, NextCalls, NextOrder DEF Known
<1> QED
  BY <1>1, <1>2, PTL DEF Spec

\* No task is started before all the tasks it comes after have succeeded, by the
\* tables and not by the snapshot of the executor that started it.
THEOREM PredecessorsCorrect ==
  ASSUME "worker_ready" \notin FaultKinds
  PROVE  Spec => []PredecessorsDone
<1>1. Known => PredecessorsDone
  BY DEF Known, IInv, StartedInOrder, PredecessorsDone, Waits
<1> QED
  BY OrderCorrect, <1>1, PTL

\* A verdict that an executor counted finds nothing left to do: no task of the
\* root is under way and no worker or message is left for one.
THEOREM QuiescenceCorrect ==
  ASSUME "worker_ready" \notin FaultKinds
  PROVE  Spec => []QuiescentWhenCompleted
<1>1. Known => QuiescentWhenCompleted
  <2> SUFFICES ASSUME Known, NEW t \in Tasks, status[RootOf[t]] \in Completed,
                      ~Abandoned(RootOf[t])
               PROVE  /\ task_status[t] \in {"PENDING", "SUCCESSFUL", "FAILED"}
                      /\ \A kind \in {"RUN", "WAIT"} :
                            jobQueue[<<t, kind>>] = 0 /\ working[<<t, kind>>] = 0
    BY DEF QuiescentWhenCompleted
  <2>1. task_status[t] \in {"PENDING", "SUCCESSFUL", "FAILED"}
    BY DEF Known, IInv, VerdictsStand
  <2>2. NoCall(<<t, "RUN">>) /\ NoCall(<<t, "WAIT">>)
    BY <2>1 DEF Known, IInv, OneCallPerTask, CallOf, Active
  <2> QED
    BY <2>1, <2>2 DEF NoCall
<1> QED
  BY OrderCorrect, <1>1, PTL

\* A root is called successful only when all its tasks are.
THEOREM SuccessCorrect ==
  ASSUME "worker_ready" \notin FaultKinds
  PROVE  Spec => []SuccessfulMeansAll
<1>1. Known => SuccessfulMeansAll
  BY DEF Known, IInv, VerdictsStand
<1> QED
  BY OrderCorrect, <1>1, PTL

\* A root that the count calls failed has a failed task.
THEOREM FailureCorrect ==
  ASSUME "worker_ready" \notin FaultKinds
  PROVE  Spec => []FailedMeansSome
<1>1. Known => FailedMeansSome
  BY DEF Known, IInv, VerdictsStand
<1> QED
  BY OrderCorrect, <1>1, PTL

-----------------------------------------------------------------------------
(* The life of a task.                                                     *)

LEMMA StartsWaiting ==
  ASSUME Known, NEW e \in Executors, NEW t \in Tasks, InitiateTask(e, t)
  PROVE  Waits(t) /\ ex[e].pc # "idle"
<1>1. Turn(e, t) /\ ex[e].pc # "idle"
  BY DEF InitiateTask, Turn
<1> QED
  BY <1>1, TurnFacts DEF InitiateTask, Seen, TaskSeen, FirstWalk

LEMMA PollsWaiting ==
  ASSUME Known, NEW e \in Executors, NEW t \in Tasks, InitiateWait(e, t)
  PROVE  task_status[t] = "RUNNING_WAIT" /\ ex[e].pc # "idle"
<1>1. Turn(e, t) /\ ex[e].pc # "idle"
  BY DEF InitiateWait, Turn
<1> QED
  BY <1>1, TurnFacts DEF InitiateWait, Seen, TaskSeen

\* Every step of the system is a step in the life of each task, or none.
LEMMA TaskLife ==
  ASSUME Known, [Next]_vars, NEW t \in Tasks
  PROVE  TaskMove(t)
<1>0. task_status \in [Tasks -> TaskStatuses] /\ jobQueue \in [Jobs -> Nat]
  BY DEF Known, TypeOK, TablesOK, BrokerOK
<1>9. ASSUME UNCHANGED jobQueue PROVE ~(jobQueue'[<<t, "RUN">>] < jobQueue[<<t, "RUN">>])
  <2>1. jobQueue[<<t, "RUN">>] \in Nat
    BY <1>0 DEF Jobs
  <2> QED
    BY <1>9, <2>1
<1>1. ASSUME NEW e \in Executors, ex[e].pc # "idle", UNCHANGED jobQueue,
             task_status'[t] = Flush(e)[t]
      PROVE  TaskMove(t)
  BY <1>1, <1>9, FlushFacts DEF TaskMove
<1>2. ASSUME UNCHANGED <<task_status, jobQueue>> PROVE TaskMove(t)
  BY <1>2, <1>9 DEF TaskMove
<1>3. ASSUME NEW j, DelayJob(j), UNCHANGED task_status PROVE TaskMove(t)
  <2>1. \A i \in Jobs : jobQueue[i] \in Nat /\ jobQueue'[i] \in {jobQueue[i], jobQueue[i] + 1}
    BY <1>0, <1>3 DEF DelayJob
  <2>2. <<t, "RUN">> \in Jobs
    BY DEF Jobs
  <2>3. ~(jobQueue'[<<t, "RUN">>] < jobQueue[<<t, "RUN">>])
    BY <2>1, <2>2
  <2> QED
    BY <1>3, <2>3 DEF TaskMove
<1>4. CASE ManagerNext
  BY <1>2, <1>4 DEF ManagerNext, ManagerScan, ManagerInitiate, ManagerDelay,
     DelayExecutor, tables, broker
<1>5. CASE ExecutorNext
  <2>1. ASSUME NEW e \in Executors, NEW r \in Roots, ExecutorTake(e, r) PROVE TaskMove(t)
    BY <1>2, <2>1 DEF ExecutorTake
  <2>2. ASSUME NEW e \in Executors,
               BeginInitiated(e) \/ BeginRunning(e) \/ BeginOther(e) \/ ListFirst(e)
               \/ AppendNext(e) \/ ReleaseCallbacks(e) \/ ExecutorRelease(e)
        PROVE  TaskMove(t)
    BY <1>2, <2>2 DEF BeginInitiated, BeginRunning, BeginOther, ListFirst, AppendNext,
       ReleaseCallbacks, ExecutorRelease, tables, broker
  <2>3. ASSUME NEW e \in Executors, NEW u \in Tasks,
               PassOver(e, u) \/ CountActive(e, u) \/ WaitUnmapped(e, u)
        PROVE  TaskMove(t)
    BY <1>2, <2>3 DEF PassOver, CountActive, WaitUnmapped, tables, broker
  <2>4. ASSUME NEW e \in Executors, DispatchRun(e) \/ DispatchWait(e) PROVE TaskMove(t)
    BY <1>2, <1>3, <2>4 DEF DispatchRun, DispatchWait, tables, broker
  <2>5. ASSUME NEW e \in Executors, CompleteRoot(e) \/ Leave(e) PROVE TaskMove(t)
    BY <1>1, <2>5 DEF CompleteRoot, Leave, LoopDone, broker
  <2>6. ASSUME NEW e \in Executors, NEW u \in Tasks, Acknowledge(e, u) PROVE TaskMove(t)
    BY <1>1, <2>6 DEF Acknowledge, Turn, broker
  <2>7. ASSUME NEW e \in Executors, NEW u \in Tasks, InitiateTask(e, u) PROVE TaskMove(t)
    <3>1. /\ Waits(u) /\ ex[e].pc # "idle" /\ UNCHANGED jobQueue
          /\ task_status' = [Flush(e) EXCEPT ![u] = "INITIATED"]
      BY <2>7, StartsWaiting DEF InitiateTask, broker
    <3>2. CASE u = t
      BY <1>9, <3>1, <3>2, FlushFacts DEF TaskMove, Waits
    <3>3. CASE u # t
      BY <1>1, <3>1, <3>3, FlushFacts
    <3> QED
      BY <3>2, <3>3
  <2>8. ASSUME NEW e \in Executors, NEW u \in Tasks, InitiateWait(e, u) PROVE TaskMove(t)
    <3>1. /\ task_status[u] = "RUNNING_WAIT" /\ ex[e].pc # "idle" /\ UNCHANGED jobQueue
          /\ task_status' = [Flush(e) EXCEPT ![u] = "RUNNING_WAIT_INITIATED"]
      BY <2>8, PollsWaiting DEF InitiateWait, broker
    <3>2. CASE u = t
      BY <1>9, <3>1, <3>2, FlushFacts DEF TaskMove
    <3>3. CASE u # t
      BY <1>1, <3>1, <3>3, FlushFacts
    <3> QED
      BY <3>2, <3>3
  <2> QED
    BY <1>5, <2>1, <2>2, <2>3, <2>4, <2>5, <2>6, <2>7, <2>8 DEF ExecutorNext, ExecutorStep
<1>6. CASE WorkerNext
  <2> SUFFICES ASSUME NEW u \in Tasks, NEW kind \in {"RUN", "WAIT"},
                      \/ StartJob(u, kind) \/ ReleaseJob(u, kind) \/ RaiseJob(u, kind)
                      \/ \E outcome \in TaskStatuses : FinishJob(u, kind, outcome)
               PROVE  TaskMove(t)
    BY <1>6 DEF WorkerNext
  <2>1. CASE ReleaseJob(u, kind)
    BY <1>2, <2>1 DEF ReleaseJob, tables
  <2>2. CASE StartJob(u, kind)
    <3>1. /\ jobQueue[<<u, kind>>] > 0 /\ task_status' = [task_status EXCEPT ![u] = "RUNNING"]
          /\ jobQueue' = [jobQueue EXCEPT ![<<u, kind>>] = @ - 1]
      BY <2>2, CalledTask DEF StartJob
    <3>2. /\ task_status[u] \in {"INITIATED", "RUNNING_WAIT_INITIATED"}
          /\ kind = "RUN" <=> task_status[u] = "INITIATED"
      BY <3>1, CalledTask
    <3>3. <<t, "RUN">> # <<u, kind>> => jobQueue'[<<t, "RUN">>] = jobQueue[<<t, "RUN">>]
      BY <1>0, <3>1 DEF Jobs
    <3> QED
      BY <1>0, <3>1, <3>2, <3>3 DEF TaskMove, Jobs
  <2>3. ASSUME working[<<u, kind>>] > 0, UNCHANGED jobQueue,
               NEW after \in {"SUCCESSFUL", "FAILED", "RUNNING_WAIT"},
               task_status' = [task_status EXCEPT ![u] = after]
        PROVE  TaskMove(t)
    BY <1>0, <1>9, <2>3, CalledTask DEF TaskMove
  <2>4. ASSUME NEW outcome \in TaskStatuses, FinishJob(u, kind, outcome) PROVE TaskMove(t)
    BY <2>3, <2>4, CalledTask DEF FinishJob, broker
  <2>5. CASE RaiseJob(u, kind)
    BY <2>3, <2>5, CalledTask DEF RaiseJob, broker
  <2> QED
    BY <2>1, <2>2, <2>4, <2>5
<1>7. CASE FaultNext
  BY <1>2, <1>7 DEF FaultNext, ExecutorRaise, ExecutorCrash, WorkerCrash, ManagerCrash,
     UnlockAll, tables, broker
<1>8. CASE UNCHANGED vars
  BY <1>2, <1>8 DEF vars, tables, broker
<1> QED
  BY <1>4, <1>5, <1>6, <1>7, <1>8 DEF Next

\* A task is carried out once: it is initiated only from PENDING, its function
\* is entered only while it is INITIATED, and its outcome is never overwritten.
THEOREM RunsOnceCorrect ==
  ASSUME "worker_ready" \notin FaultKinds
  PROVE  Spec => RunsOnce
<1> DEFINE Once(t) ==
      /\ task_status'[t] = "INITIATED" /\ task_status[t] # task_status'[t] =>
            task_status[t] = "PENDING"
      /\ jobQueue'[<<t, "RUN">>] < jobQueue[<<t, "RUN">>] => task_status[t] = "INITIATED"
      /\ task_status[t] \in {"SUCCESSFUL", "FAILED"} => task_status'[t] = task_status[t]
<1>1. Known /\ [Next]_vars => [\A t \in Tasks : Once(t)]_vars
  <2> SUFFICES ASSUME Known, [Next]_vars, NEW t \in Tasks PROVE Once(t)
    OBVIOUS
  <2> QED
    BY TaskLife DEF TaskMove
<1> QED
  BY OrderCorrect, <1>1, PTL DEF Spec, RunsOnce

\* What the level above relies on: whoever writes the row of a task, and from
\* whatever snapshot, every step of the engine moves it one stage on in its life,
\* or not at all, and takes its message only in the first one.
THEOREM TaskLifeCorrect ==
  ASSUME "worker_ready" \notin FaultKinds
  PROVE  Spec => [][\A t \in Tasks : TaskMove(t)]_vars
<1>1. Known /\ [Next]_vars => [\A t \in Tasks : TaskMove(t)]_vars
  BY TaskLife
<1> QED
  BY OrderCorrect, <1>1, PTL DEF Spec

-----------------------------------------------------------------------------
(* The life of a root.                                                     *)

\* What the executor saw of callbacks when it gives its verdict or lets a root
\* go: callbacks are on hold until the verdict, and those seen finished are.
LEMMA CallbacksSeen ==
  ASSUME Known, NEW e \in Executors, ex[e].pc = "loop"
  PROVE  /\ ex[e].root \in Roots /\ ex[e].view.root[ex[e].root] = status[ex[e].root]
         /\ status[ex[e].root] \in {"RUNNING"} \cup Completed
         /\ \A c \in CallbacksOf(ex[e].root) :
               /\ ex[e].view.root[c] \in RootStatuses /\ CallbackSeen(ex[e], c)
               /\ c \in Roots /\ Parent[c] = ex[e].root /\ RootType[c] # "NORMAL"
               /\ status[ex[e].root] = "RUNNING" => status[c] = "ON_HOLD"
<1>1. /\ ex[e] \in ExecutorStates /\ ex[e].root \in Roots /\ InStep(ex[e]) /\ ViewHolds(ex[e])
  BY AtWork
<1>2. ex[e].view \in Views
  BY <1>1 DEF ExecutorStates
<1>3. \A c \in CallbacksOf(ex[e].root) :
         c \in Roots /\ Parent[c] = ex[e].root /\ RootType[c] # "NORMAL"
  BY <1>1, ConstantsAssumption DEF CallbacksOf
<1>4. status[ex[e].root] = "RUNNING" => status[ex[e].root] \notin Completed
  BY DEF Completed, Successful, Failed
<1> QED
  BY <1>1, <1>2, <1>3, <1>4 DEF InStep, ViewHolds, Views, Known, IInv, RootsInOrder

LEMMA CompleteRootMoves ==
  ASSUME Known, NEW e \in Executors, CompleteRoot(e), NEW r, r = ex[e].root
  PROVE  /\ r \in Roots /\ status[r] = "RUNNING" /\ ex[e].pc = "loop"
         /\ status'[r] = VerdictOf(e) /\ status'[r] \in Completed
         /\ status'[r] \in Successful <=> ~RootFailed(e)
         /\ status'[r] \in Failed <=> RootFailed(e)
         /\ \A c \in CallbacksOf(r) : status[c] = "ON_HOLD"
         /\ DroppedCallbacks(e) =
               {c \in CallbacksOf(r) :
                   RootType[c] = IF RootFailed(e) THEN "ON_SUCCESS" ELSE "ON_FAILURE"}
         /\ r \notin DroppedCallbacks(e)
         /\ HoldingCallbacks(r, ex[e].view) =
               IF RootType[r] = "NORMAL" THEN CallbacksOf(r) \cap Holding ELSE {}
         /\ \A q \in Roots \ {r} :
               status'[q] = IF q \in DroppedCallbacks(e) THEN "DELETED" ELSE status[q]
<1>1. ex[e].pc = "loop" /\ LoopDone(e) /\ SeenStatus(e) = "RUNNING"
  BY DEF CompleteRoot, LoopDone
<1>2. r \in Roots /\ status[r] = "RUNNING"
  BY <1>1, CallbacksSeen DEF SeenStatus
<1>3. /\ status'[r] = VerdictOf(e)
      /\ \A q \in Roots \ {r} :
            status'[q] = IF q \in DroppedCallbacks(e) THEN "DELETED" ELSE status[q]
  BY <1>2 DEF CompleteRoot
<1>4. /\ status'[r] \in Completed
      /\ status'[r] \in Successful <=> ~RootFailed(e)
      /\ status'[r] \in Failed <=> RootFailed(e)
  BY <1>3 DEF VerdictOf, Completed, Successful, Failed
<1>5. \A c \in CallbacksOf(r) :
         /\ status[c] = "ON_HOLD" /\ ex[e].view.root[c] # "DELETED"
         /\ ex[e].view.root[c] \in Unfinished
  <2> SUFFICES ASSUME NEW c \in CallbacksOf(r)
               PROVE  /\ status[c] = "ON_HOLD" /\ ex[e].view.root[c] # "DELETED"
                      /\ ex[e].view.root[c] \in Unfinished
    OBVIOUS
  <2>1. /\ status[c] = "ON_HOLD" /\ CallbackSeen(ex[e], c)
        /\ ex[e].view.root[c] \in RootStatuses
    BY <1>1, <1>2, CallbacksSeen
  <2> QED
    BY <2>1 DEF CallbackSeen, RootStatuses, Unfinished, Completed, Successful, Failed
<1>6. DroppedCallbacks(e) =
         {c \in CallbacksOf(r) :
             RootType[c] = IF RootFailed(e) THEN "ON_SUCCESS" ELSE "ON_FAILURE"}
  BY <1>5 DEF DroppedCallbacks
<1>7. r \notin DroppedCallbacks(e)
  BY <1>2, <1>5, <1>6
<1>8. HoldingCallbacks(r, ex[e].view) =
         IF RootType[r] = "NORMAL" THEN CallbacksOf(r) \cap Holding ELSE {}
  BY <1>5 DEF HoldingCallbacks
<1> QED
  BY <1>1, <1>2, <1>3, <1>4, <1>5, <1>6, <1>7, <1>8

LEMMA LeaveMoves ==
  ASSUME Known, NEW e \in Executors, Leave(e), NEW r, r = ex[e].root
  PROVE  /\ r \in Roots /\ ex[e].pc = "loop"
         /\ \A q \in Roots \ {r} : status'[q] = status[q]
         /\ \/ status'[r] = status[r]
            \/ /\ status[r] \in WaitingForCallbacks /\ status'[r] = Released(status[r])
               /\ \A c \in CallbacksOf(r) \cap Holding : status[c] \in Completed \cup {"DELETED"}
         /\ status[r] = "RUNNING" \/ ex[e].dirty = {}
<1>1. ex[e].pc = "loop"
  BY DEF Leave, LoopDone
<1>2. r \in Roots /\ SeenStatus(e) = status[r]
  BY <1>1, CallbacksSeen DEF SeenStatus
<1>3. status[r] = "RUNNING" \/ ex[e].dirty = {}
  BY <1>1, AtWork DEF InStep
<1>4. /\ \A q \in Roots \ {r} : status'[q] = status[q]
      /\ \/ status'[r] = status[r]
         \/ /\ status[r] \in WaitingForCallbacks /\ status'[r] = Released(status[r])
            /\ HoldingCallbacks(r, ex[e].view) = {}
  BY <1>2 DEF Leave, Known, TypeOK, TablesOK
<1>5. ASSUME status[r] \in WaitingForCallbacks, HoldingCallbacks(r, ex[e].view) = {},
             NEW c \in CallbacksOf(r) \cap Holding
      PROVE  status[c] \in Completed \cup {"DELETED"}
  <2>1. RootType[r] = "NORMAL"
    BY <1>2, <1>5 DEF Known, IInv, VerdictsStand
  <2>2. ex[e].view.root[c] \notin Unfinished
    BY <1>5, <2>1 DEF HoldingCallbacks
  <2>3. ex[e].view.root[c] \in RootStatuses /\ CallbackSeen(ex[e], c)
    BY <1>1, <1>5, CallbacksSeen
  <2>4. ex[e].view.root[c] \in Completed \cup {"DELETED"}
    BY <2>2, <2>3 DEF Unfinished, RootStatuses, Completed, Successful, Failed
  <2> QED
    BY <2>3, <2>4 DEF CallbackSeen
<1> QED
  BY <1>1, <1>2, <1>3, <1>4, <1>5

\* Every step of the system is a step in the life of each root, or none.
LEMMA RootLife ==
  ASSUME Known, [Next]_vars, "raise" \notin FaultKinds, NEW q \in Roots
  PROVE  RootMove(q)
<1>0. status \in [Roots -> RootStatuses]
  BY DEF Known, TypeOK, TablesOK
<1>1. ASSUME UNCHANGED status PROVE RootMove(q)
  BY <1>1 DEF RootMove
<1>2. CASE ManagerNext
  <2>1. ASSUME NEW r \in Roots, ManagerInitiate(r) PROVE RootMove(q)
    BY <1>0, <2>1 DEF ManagerInitiate, RootMove
  <2> QED
    BY <1>1, <1>2, <2>1 DEF ManagerNext, ManagerScan, ManagerDelay, tables
<1>3. CASE ExecutorNext
  <2>1. ASSUME NEW e \in Executors, NEW r \in Roots, ExecutorTake(e, r) PROVE RootMove(q)
    BY <1>1, <2>1 DEF ExecutorTake
  <2>2. ASSUME NEW e \in Executors, NEW t \in Tasks,
               \/ InitiateTask(e, t) \/ PassOver(e, t) \/ CountActive(e, t)
               \/ InitiateWait(e, t) \/ WaitUnmapped(e, t) \/ Acknowledge(e, t)
        PROVE  RootMove(q)
    BY <1>1, <2>2 DEF InitiateTask, PassOver, CountActive, InitiateWait, WaitUnmapped,
       Acknowledge, tables
  <2>3. ASSUME NEW e \in Executors,
               \/ BeginRunning(e) \/ BeginOther(e) \/ ListFirst(e) \/ DispatchRun(e)
               \/ DispatchWait(e) \/ AppendNext(e) \/ ExecutorRelease(e)
        PROVE  RootMove(q)
    BY <1>1, <2>3 DEF BeginRunning, BeginOther, ListFirst, DispatchRun, DispatchWait,
       AppendNext, ExecutorRelease, tables
  <2>4. ASSUME NEW e \in Executors, BeginInitiated(e) PROVE RootMove(q)
    BY <1>0, <2>4 DEF BeginInitiated, RootMove
  <2>5. ASSUME NEW e \in Executors, CompleteRoot(e) PROVE RootMove(q)
    <3>1. PICK r : r = ex[e].root
      OBVIOUS
    <3>2. /\ r \in Roots /\ status[r] = "RUNNING" /\ status'[r] \in Completed
          /\ status'[r] \in Failed <=> RootFailed(e)
          /\ \A c \in CallbacksOf(r) : status[c] = "ON_HOLD"
          /\ \A c \in Roots \ {r} :
                status'[c] = IF c \in DroppedCallbacks(e) THEN "DELETED" ELSE status[c]
      BY <2>5, <3>1, CompleteRootMoves
    <3>3. DroppedCallbacks(e) =
             {c \in CallbacksOf(r) :
                 RootType[c] = IF RootFailed(e) THEN "ON_SUCCESS" ELSE "ON_FAILURE"}
      BY <2>5, <3>1, CompleteRootMoves
    <3>4. CASE q = r
      <4>1. \A c \in CallbacksOf(r) : c \in Roots \ {r}
        BY <3>2 DEF CallbacksOf
      <4>2. ASSUME NEW c \in CallbacksOf(r),
                   RootType[c] = (IF status'[r] \in Failed THEN "ON_SUCCESS" ELSE "ON_FAILURE")
            PROVE  status'[c] = "DELETED"
        <5>1. c \in DroppedCallbacks(e)
          BY <3>2, <3>3, <4>2
        <5> QED
          BY <3>2, <4>1, <5>1
      <4> QED
        BY <3>2, <3>4, <4>2 DEF RootMove
    <3>5. CASE q # r
      <4>1. q \in DroppedCallbacks(e) => status[q] = "ON_HOLD"
        BY <3>2, <3>3
      <4> QED
        BY <3>2, <3>5, <4>1 DEF RootMove
    <3> QED
      BY <3>4, <3>5
  <2>6. ASSUME NEW e \in Executors, ReleaseCallbacks(e) PROVE RootMove(q)
    BY <2>6 DEF ReleaseCallbacks, RootMove
  <2>7. ASSUME NEW e \in Executors, Leave(e) PROVE RootMove(q)
    BY <2>7, LeaveMoves DEF RootMove
  <2> QED
    BY <1>3, <2>1, <2>2, <2>3, <2>4, <2>5, <2>6, <2>7 DEF ExecutorNext, ExecutorStep
<1>4. CASE WorkerNext
  BY <1>1, <1>4 DEF WorkerNext, StartJob, FinishJob, ReleaseJob, RaiseJob, tables
<1>5. CASE FaultNext
  <2>1. \A e \in Executors : ~ExecutorRaise(e)
    BY DEF ExecutorRaise, Fault
  <2> QED
    BY <1>1, <1>5, <2>1 DEF FaultNext, ExecutorCrash, WorkerCrash, ManagerCrash, UnlockAll, tables
<1>6. CASE UNCHANGED vars
  BY <1>1, <1>6 DEF vars, tables
<1> QED
  BY <1>2, <1>3, <1>4, <1>5, <1>6 DEF Next

\* A verdict is never taken back or turned into the other one.
THEOREM VerdictIsFinalCorrect ==
  ASSUME FaultKinds \cap {"worker_ready", "raise"} = {}
  PROVE  Spec => VerdictIsFinal
<1>0. "worker_ready" \notin FaultKinds /\ "raise" \notin FaultKinds
  OBVIOUS
<1> DEFINE Stays(r) ==
      /\ status[r] \in Successful => status'[r] \in Successful
      /\ status[r] \in Failed => status'[r] \in Failed
<1>1. Known /\ [Next]_vars => [\A r \in Roots : Stays(r)]_vars
  <2> SUFFICES ASSUME Known, [Next]_vars, NEW r \in Roots PROVE Stays(r)
    OBVIOUS
  <2>1. RootMove(r)
    BY <1>0, RootLife
  <2> QED
    BY <2>1 DEF RootMove, Released, WaitingForCallbacks, Successful, Failed
<1>2. Spec => []Known
  BY <1>0, OrderCorrect
<1> QED
  BY <1>1, <1>2, PTL DEF Spec, VerdictIsFinal

\* A root that waits for callbacks is let go only when those that hold it have
\* ended in the tables, although its executor looks at a snapshot.
THEOREM HeldUntilCallbacksFinishCorrect ==
  ASSUME FaultKinds \cap {"worker_ready", "raise"} = {}
  PROVE  Spec => HeldUntilCallbacksFinish
<1>0. "worker_ready" \notin FaultKinds /\ "raise" \notin FaultKinds
  OBVIOUS
<1> DEFINE Held(r) ==
      status[r] \in WaitingForCallbacks /\ status'[r] \notin WaitingForCallbacks =>
         \A q \in CallbacksOf(r) \cap Holding : status[q] \in Completed \cup {"DELETED"}
<1>1. Known /\ [Next]_vars => [\A r \in Roots : Held(r)]_vars
  <2> SUFFICES ASSUME Known, [Next]_vars, NEW r \in Roots PROVE Held(r)
    OBVIOUS
  <2>1. RootMove(r)
    BY <1>0, RootLife
  <2> QED
    BY <2>1 DEF RootMove, WaitingForCallbacks
<1>2. Spec => []Known
  BY <1>0, OrderCorrect
<1> QED
  BY <1>1, <1>2, PTL DEF Spec, HeldUntilCallbacksFinish

\* What the level above relies on: every step of the engine moves a root one stage
\* on in its life, or not at all, and a verdict takes the callbacks for the other
\* verdict with it.
THEOREM RootLifeCorrect ==
  ASSUME FaultKinds \cap {"worker_ready", "raise"} = {}
  PROVE  Spec => [][\A r \in Roots : RootMove(r)]_vars
<1>0. "worker_ready" \notin FaultKinds /\ "raise" \notin FaultKinds
  OBVIOUS
<1>1. Known /\ [Next]_vars => [\A r \in Roots : RootMove(r)]_vars
  BY <1>0, RootLife
<1>2. Spec => []Known
  BY <1>0, OrderCorrect
<1> QED
  BY <1>1, <1>2, PTL DEF Spec

LEMMA DroppedOrder ==
  ASSUME Known, CallbacksDropped, [Next]_vars, "raise" \notin FaultKinds
  PROVE  CallbacksDropped'
<1> SUFFICES ASSUME NEW q \in Roots, RootType[q] # "NORMAL"
             PROVE  /\ RootType[q] = "ON_SUCCESS" /\ status'[Parent[q]] \in Failed =>
                          status'[q] = "DELETED"
                    /\ RootType[q] = "ON_FAILURE" /\ status'[Parent[q]] \in Successful =>
                          status'[q] = "DELETED"
  BY DEF CallbacksDropped
<1>1. Parent[q] \in Roots /\ q \in CallbacksOf(Parent[q])
  BY ConstantsAssumption DEF CallbacksOf
<1>2. RootMove(q) /\ RootMove(Parent[q])
  BY <1>1, RootLife
<1>3. status[q] = "DELETED" => status'[q] = "DELETED"
  BY <1>2 DEF RootMove, Completed, WaitingForCallbacks
<1>4. CASE status[Parent[q]] = "RUNNING" /\ status'[Parent[q]] # "RUNNING"
  BY <1>1, <1>2, <1>4 DEF RootMove, WaitingForCallbacks, Successful, Failed
<1>5. CASE ~(status[Parent[q]] = "RUNNING" /\ status'[Parent[q]] # "RUNNING")
  <2>1. /\ status'[Parent[q]] \in Failed => status[Parent[q]] \in Failed
        /\ status'[Parent[q]] \in Successful => status[Parent[q]] \in Successful
    BY <1>2, <1>5 DEF RootMove, Released, WaitingForCallbacks, Successful, Failed
  <2> QED
    BY <1>3, <2>1 DEF CallbacksDropped
<1> QED
  BY <1>4, <1>5

\* Callbacks run only for a parent that has a verdict, and for the verdict they
\* were added for.
THEOREM CallbacksCorrect ==
  ASSUME FaultKinds \cap {"worker_ready", "raise"} = {}
  PROVE  Spec => []CallbacksFollowVerdict
<1>0. "worker_ready" \notin FaultKinds /\ "raise" \notin FaultKinds
  OBVIOUS
<1>1. Init => CallbacksDropped
  BY ConstantsAssumption DEF Init, CallbacksDropped, Failed, Successful
<1>2. Known /\ CallbacksDropped /\ [Next]_vars => CallbacksDropped'
  BY <1>0, DroppedOrder
<1>3. Known /\ CallbacksDropped => CallbacksFollowVerdict
  BY DEF Known, IInv, RootsInOrder, CallbacksDropped, CallbacksFollowVerdict
<1>4. Spec => []Known
  BY <1>0, OrderCorrect
<1> QED
  BY <1>1, <1>2, <1>3, <1>4, PTL DEF Spec
=============================================================================

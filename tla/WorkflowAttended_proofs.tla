----------------------- MODULE WorkflowAttended_proofs ----------------------
(***************************************************************************)
(* Proofs of what is waited for in vain: as long as no process dies or     *)
(* raises outside a task, nothing but a poll whose delay() fell between    *)
(* the last commit of the poll before it and the release of its lock.      *)
(***************************************************************************)
EXTENDS Workflow_proofs

\* delay() is dropped only where there is a call already, or a worker that has
\* yet to return, or where a function raised and the task is FAILED.
LocksAreCalls ==
    \A t \in Tasks, kind \in {"RUN", "WAIT"} :
        <<t, kind>> \in jobLock =>
            \/ ~NoCall(<<t, kind>>) \/ ending[<<t, kind>>] > 0
            \/ task_status[t] = "FAILED"

\* A worker returns from the RUN function of a task that has been running.
RunsReturn ==
    \A t \in Tasks : ending[<<t, "RUN">>] > 0 => task_status[t] \notin {"PENDING", "INITIATED"}

RootsAttended == \A r \in Roots : RootAttended(r)
TasksAttended == \A t \in Tasks : TaskAttended(t)
Locks == LocksAreCalls /\ RunsReturn

InHand == RootsAttended /\ TasksAttended /\ Locks

LEMMA AttendedParts == RootsAttended /\ TasksAttended => Attended
  BY DEF RootsAttended, TasksAttended, Attended

LEMMA InitAttended == Init => InHand
<1> SUFFICES ASSUME Init PROVE InHand
  OBVIOUS
<1>1. RootsAttended /\ TasksAttended /\ LocksAreCalls
  BY DEF Init, RootsAttended, RootAttended, TasksAttended, TaskAttended, LocksAreCalls
<1>2. RunsReturn
  <2>1. \A t \in Tasks : <<t, "RUN">> \in Jobs
    BY DEF Jobs
  <2>2. ending = [j \in Jobs |-> 0]
    BY DEF Init
  <2>3. \A t \in Tasks : ending[<<t, "RUN">>] = 0
    BY <2>1, <2>2
  <2> QED
    BY <2>3 DEF RunsReturn
<1> QED
  BY <1>1, <1>2 DEF InHand, Locks

-----------------------------------------------------------------------------
(* Roots.                                                                  *)

\* An executor goes on with its root.
LEMMA GoesOn ==
  ASSUME Known, RootsAttended, NEW e \in Executors, NEW x, Becomes(e, x),
         x.root = ex[e].root, x.pc # "return",
         UNCHANGED <<executor_running, picked, rootQueue>>,
         \A r \in Roots : status'[r] = "INITIATED" => status[r] = "INITIATED"
  PROVE  RootsAttended'
<1>1. ex'[e] = x /\ \A d \in Executors : d # e => ex'[d] = ex[d]
  BY DEF Becomes, Known, TypeOK, ExecutorsOK
<1>2. ASSUME NEW r \in Roots, executor_running'[r] \/ status'[r] = "INITIATED"
      PROVE  \/ picked = r \/ rootQueue[r] > 0
             \/ \E d \in Executors : ex[d].root = r /\ ex[d].pc # "return"
  BY <1>2 DEF RootsAttended, RootAttended
<1>3. ASSUME NEW r \in Roots, NEW d \in Executors, ex[d].root = r /\ ex[d].pc # "return"
      PROVE  ex'[d].root = r /\ ex'[d].pc # "return"
  BY <1>1, <1>3
<1> QED
  BY <1>2, <1>3 DEF RootsAttended, RootAttended

\* An executor lets its root go, with executor_running lowered.
LEMMA LetsGo ==
  ASSUME Known, RootsAttended, NEW e \in Executors, ex[e].pc # "idle",
         NEW r, r = ex[e].root, NEW x, Becomes(e, x),
         executor_running' = [executor_running EXCEPT ![r] = FALSE],
         status'[r] # "INITIATED", UNCHANGED <<picked, rootQueue>>,
         \A q \in Roots : status'[q] = "INITIATED" => status[q] = "INITIATED"
  PROVE  RootsAttended'
<1>1. ex'[e] = x /\ \A d \in Executors : d # e => ex'[d] = ex[d]
  BY DEF Becomes, Known, TypeOK, ExecutorsOK
<1>2. r \in Roots /\ executor_running'[r] = FALSE
      /\ \A q \in Roots : q # r => executor_running'[q] = executor_running[q]
  BY AtWork DEF Known, TypeOK, TablesOK
<1> SUFFICES ASSUME NEW q \in Roots, executor_running'[q] \/ status'[q] = "INITIATED"
             PROVE  \/ picked' = q \/ rootQueue'[q] > 0
                    \/ \E d \in Executors : ex'[d].root = q /\ ex'[d].pc # "return"
  BY DEF RootsAttended, RootAttended
<1>3. q # r
  BY <1>2
<1>4. executor_running[q] \/ status[q] = "INITIATED"
  BY <1>2, <1>3
<1>5. \/ picked = q \/ rootQueue[q] > 0
      \/ \E d \in Executors : ex[d].root = q /\ ex[d].pc # "return"
  BY <1>4 DEF RootsAttended, RootAttended
<1>6. ASSUME NEW d \in Executors, ex[d].root = q /\ ex[d].pc # "return"
      PROVE  ex'[d].root = q /\ ex'[d].pc # "return"
  BY <1>1, <1>3, <1>6
<1> QED
  BY <1>5, <1>6

\* Nothing the roots are attended by changes.
LEMMA SameRoots ==
  ASSUME RootsAttended, UNCHANGED <<status, executor_running, picked, rootQueue, ex>>
  PROVE  RootsAttended'
  BY DEF RootsAttended, RootAttended

LEMMA ManagerRoots ==
  ASSUME Known, RootsAttended, ManagerNext
  PROVE  RootsAttended'
<1> USE DEF tables, broker, workers, manager
<1>1. CASE ManagerScan
  BY <1>1, SameRoots DEF ManagerScan
<1>2. ASSUME NEW r \in Roots, ManagerInitiate(r) PROVE RootsAttended'
  <2>1. picked = None /\ picked' = r /\ UNCHANGED <<executor_running, rootQueue, ex>>
        /\ \A q \in Roots : q # r => status'[q] = status[q]
    BY <1>2 DEF ManagerInitiate, Known, TypeOK, TablesOK
  <2>2. \A q \in Roots : picked # q
    BY <2>1, ConstantsAssumption
  <2>3. ASSUME NEW q \in Roots PROVE RootAttended(q)'
    BY <2>1, <2>2, <2>3 DEF RootsAttended, RootAttended
  <2> QED
    BY <2>3 DEF RootsAttended
<1>3. ASSUME NEW r \in Roots, ManagerDelay(r) PROVE RootsAttended'
  <2>1. /\ picked = r \/ picked = None
        /\ DelayExecutor(r) /\ UNCHANGED <<status, executor_running, ex>>
    BY <1>3 DEF ManagerDelay
  <2>2. /\ rootQueue \in [Roots -> Nat]
        /\ picked # None => picked \notin rootLock
    BY DEF Known, TypeOK, BrokerOK, IInv, RootsInOrder
  <2>3. ASSUME NEW q \in Roots PROVE rootQueue[q] > 0 => rootQueue'[q] > 0
    BY <2>1, <2>2 DEF DelayExecutor
  <2>4. ASSUME NEW q \in Roots, picked = q PROVE rootQueue'[q] > 0
    <3>1. q = r /\ q \notin rootLock
      BY <2>1, <2>2, <2>4, ConstantsAssumption
    <3>2. rootQueue' = [rootQueue EXCEPT ![r] = @ + 1]
      BY <2>1, <3>1 DEF DelayExecutor
    <3> QED
      BY <2>2, <3>1, <3>2
  <2>5. ASSUME NEW q \in Roots PROVE RootAttended(q)'
    BY <2>1, <2>3, <2>4, <2>5 DEF RootsAttended, RootAttended
  <2> QED
    BY <2>5 DEF RootsAttended
<1> QED
  BY <1>1, <1>2, <1>3 DEF ManagerNext

LEMMA TakeRoots ==
  ASSUME Known, RootsAttended, NEW e \in Executors, NEW r \in Roots, ExecutorTake(e, r)
  PROVE  RootsAttended'
<1> USE DEF manager
<1>1. r \in rootLock /\ rootQueue[r] > 0
  BY DEF ExecutorTake, Known, OneCallPerRoot
<1>2. status[r] # "DELETED"
  BY <1>1 DEF Known, IInv, RootsInOrder, Uncalled
<1>3. PICK x : x = [Idle EXCEPT !.pc = "begin", !.root = r]
  OBVIOUS
<1>4. /\ ex[e].pc = "idle" /\ Becomes(e, x)
      /\ executor_running' = [executor_running EXCEPT ![r] = TRUE]
      /\ rootQueue' = [rootQueue EXCEPT ![r] = @ - 1]
      /\ UNCHANGED <<status, picked>>
  BY <1>2, <1>3 DEF ExecutorTake
<1>5. x.pc = "begin" /\ x.root = r
  BY <1>3 DEF Idle
<1>6. ex'[e] = x /\ \A d \in Executors : d # e => ex'[d] = ex[d]
  BY <1>4 DEF Becomes, Known, TypeOK, ExecutorsOK
<1>7. ex[e].root = None /\ None \notin Roots
  BY <1>4, ExecutorFields, ConstantsAssumption DEF Known, TypeOK, RecordOK
<1>8. ASSUME NEW q \in Roots, q # r PROVE RootAttended(q)'
  <2>1. executor_running'[q] = executor_running[q] /\ rootQueue'[q] = rootQueue[q]
    BY <1>4, <1>8 DEF Known, TypeOK, TablesOK, BrokerOK
  <2>2. ASSUME NEW d \in Executors, ex[d].root = q /\ ex[d].pc # "return"
        PROVE  ex'[d].root = q /\ ex'[d].pc # "return"
    BY <1>6, <1>7, <2>2
  <2> QED
    BY <1>4, <2>1, <2>2 DEF RootsAttended, RootAttended
<1>9. RootAttended(r)'
  BY <1>5, <1>6 DEF RootAttended
<1> QED
  BY <1>8, <1>9 DEF RootsAttended

LEMMA StepRoots ==
  ASSUME Known, RootsAttended, NEW e \in Executors, ExecutorStep(e)
  PROVE  RootsAttended'
<1> USE DEF tables, broker, workers, manager
<1>0. PICK r : r = ex[e].root
  OBVIOUS
<1>1. CASE BeginInitiated(e)
  <2>1. PICK x : x = [ex[e] EXCEPT !.pc = "list"]
    OBVIOUS
  <2>2. Becomes(e, x) /\ UNCHANGED <<executor_running, picked, rootQueue>>
        /\ status' = [status EXCEPT ![r] = "RUNNING"] /\ ex[e].pc # "idle"
    BY <1>0, <1>1, <2>1 DEF BeginInitiated
  <2>3. x.root = ex[e].root /\ x.pc # "return"
    BY <2>1, <2>2, AtWork DEF ExecutorStates
  <2>4. \A q \in Roots : status'[q] = "INITIATED" => status[q] = "INITIATED"
    BY <2>2 DEF Known, TypeOK, TablesOK
  <2> QED
    BY <2>2, <2>3, <2>4, GoesOn
<1>2. CASE BeginRunning(e) \/ BeginOther(e) \/ ListFirst(e) \/ AppendNext(e)
  BY <1>2, GoesOn, AtWork DEF BeginRunning, BeginOther, ListFirst, AppendNext,
     ExecutorStates
<1>3. ASSUME NEW t \in Tasks,
             PassOver(e, t) \/ CountActive(e, t) \/ WaitUnmapped(e, t)
      PROVE  RootsAttended'
  BY <1>3, GoesOn, AtWork DEF PassOver, CountActive, WaitUnmapped, Turn, Visited,
     ExecutorStates
<1>4. ASSUME NEW t \in Tasks,
             InitiateTask(e, t) \/ InitiateWait(e, t) \/ Acknowledge(e, t)
      PROVE  RootsAttended'
  BY <1>4, GoesOn, AtWork DEF InitiateTask, InitiateWait, Acknowledge, Turn, Visited,
     ExecutorStates
<1>5. CASE DispatchRun(e) \/ DispatchWait(e)
  BY <1>5, GoesOn, AtWork DEF DispatchRun, DispatchWait, DelayJob, ExecutorStates
<1>6. CASE CompleteRoot(e)
  <2>1. PICK x : x = [ex[e] EXCEPT !.pc = "callbacks", !.dirty = {}]
    OBVIOUS
  <2>2. Becomes(e, x) /\ UNCHANGED <<executor_running, picked, rootQueue>> /\ ex[e].pc # "idle"
    BY <1>6, <2>1 DEF CompleteRoot, LoopDone
  <2>3. x.root = ex[e].root /\ x.pc # "return"
    BY <2>1, <2>2, AtWork DEF ExecutorStates
  <2>4. \A q \in Roots : status'[q] = "INITIATED" => status[q] = "INITIATED"
    BY <1>6 DEF CompleteRoot, VerdictOf
  <2> QED
    BY <2>2, <2>3, <2>4, GoesOn
<1>7. CASE ReleaseCallbacks(e)
  <2>1. PICK x : x = [Idle EXCEPT !.pc = "return", !.root = r]
    OBVIOUS
  <2>2. /\ Becomes(e, x) /\ UNCHANGED <<picked, rootQueue>> /\ ex[e].pc = "callbacks"
        /\ executor_running' = [executor_running EXCEPT ![r] = FALSE]
        /\ \A q \in Roots : status'[q] = status[q] \/ status'[q] = "PENDING"
    BY <1>0, <1>7, <2>1 DEF ReleaseCallbacks
  <2>3. r \in Roots /\ status[r] \in Completed
    BY <1>0, <2>2, AtWork DEF InStep
  <2>4. status'[r] # "INITIATED"
    BY <2>2, <2>3 DEF Completed, Successful, Failed
  <2> QED
    BY <1>0, <2>2, <2>4, LetsGo
<1>8. CASE Leave(e)
  <2>1. PICK x : x = [Idle EXCEPT !.pc = "return", !.root = r]
    OBVIOUS
  <2>2. /\ Becomes(e, x) /\ UNCHANGED <<picked, rootQueue>> /\ ex[e].pc = "loop"
        /\ executor_running' = [executor_running EXCEPT ![r] = FALSE]
    BY <1>0, <1>8, <2>1 DEF Leave, LoopDone
  <2>3. r \in Roots /\ status[r] \in {"RUNNING"} \cup Completed
    BY <1>0, <2>2, AtWork DEF InStep
  <2>4. status' = [status EXCEPT ![r] = Released(SeenStatus(e))] \/ status' = status
    BY <1>0, <1>8 DEF Leave
  <2>5. /\ status'[r] # "INITIATED"
        /\ \A q \in Roots : status'[q] = "INITIATED" => status[q] = "INITIATED"
    BY <2>3, <2>4 DEF Released, Completed, Successful, Failed, Known, TypeOK, TablesOK
  <2> QED
    BY <1>0, <2>2, <2>5, LetsGo
<1>9. CASE ExecutorRelease(e)
  <2>1. ex[e].pc = "return" /\ UNCHANGED <<status, executor_running, picked, rootQueue>>
        /\ Becomes(e, Idle)
    BY <1>9 DEF ExecutorRelease
  <2>2. \A d \in Executors : d # e => ex'[d] = ex[d]
    BY <2>1 DEF Becomes, Known, TypeOK, ExecutorsOK
  <2>3. ASSUME NEW q \in Roots, NEW d \in Executors, ex[d].root = q /\ ex[d].pc # "return"
        PROVE  ex'[d].root = q /\ ex'[d].pc # "return"
    BY <2>1, <2>2, <2>3
  <2> QED
    BY <2>1, <2>3 DEF RootsAttended, RootAttended
<1> QED
  BY <1>1, <1>2, <1>3, <1>4, <1>5, <1>6, <1>7, <1>8, <1>9 DEF ExecutorStep

-----------------------------------------------------------------------------
(* Tasks.                                                                  *)

\* A step of an executor that sends nothing and commits nothing of a task.
LEMMA QuietStep ==
  ASSUME Known, TasksAttended, NEW e \in Executors, NEW x, Becomes(e, x),
         ex[e].pc \notin {"run", "wait"}, ex[e].dirty \subseteq x.dirty,
         UNCHANGED <<task_status, jobQueue, working>>
  PROVE  TasksAttended'
<1>1. ex'[e] = x /\ \A d \in Executors : d # e => ex'[d] = ex[d]
  BY DEF Becomes, Known, TypeOK, ExecutorsOK
<1>2. ASSUME NEW t \in Tasks PROVE TaskAttended(t)'
  <2>1. Sending("run", t) => Sending("run", t)'
    BY <1>1 DEF Sending
  <2>2. ASSUME NEW d \in Executors, t \in ex[d].dirty PROVE t \in ex'[d].dirty
    BY <1>1, <2>2
  <2>3. TaskAttended(t)
    BY DEF TasksAttended
  <2> QED
    BY <2>1, <2>2, <2>3 DEF TaskAttended
<1> QED
  BY <1>2 DEF TasksAttended

\* A commit of an executor: its marks become FAILED, and a task it initiates is
\* the one it is about to send.
LEMMA CommitStep ==
  ASSUME Known, TasksAttended, NEW e \in Executors, NEW x, Becomes(e, x),
         ex[e].pc = "loop", UNCHANGED <<jobQueue, working>>,
         \A u \in Tasks :
            \/ task_status'[u] = "INITIATED" /\ x.pc = "run" /\ x.cur = u
            \/ task_status'[u] \in {"RUNNING_WAIT_INITIATED", "FAILED"}
            \/ task_status'[u] = task_status[u] /\ u \notin ex[e].dirty
  PROVE  TasksAttended'
<1>1. ex'[e] = x /\ \A d \in Executors : d # e => ex'[d] = ex[d]
  BY DEF Becomes, Known, TypeOK, ExecutorsOK
<1>2. ASSUME NEW t \in Tasks PROVE TaskAttended(t)'
  <2>1. CASE task_status'[t] = "INITIATED" /\ x.pc = "run" /\ x.cur = t
    BY <1>1, <2>1 DEF TaskAttended, Sending
  <2>2. CASE task_status'[t] \in {"RUNNING_WAIT_INITIATED", "FAILED"}
    BY <2>2 DEF TaskAttended
  <2>3. CASE task_status'[t] = task_status[t] /\ t \notin ex[e].dirty
    <3>1. Sending("run", t) => Sending("run", t)'
      BY <1>1 DEF Sending
    <3>2. ASSUME NEW d \in Executors, t \in ex[d].dirty PROVE t \in ex'[d].dirty
      BY <1>1, <2>3, <3>2
    <3>3. TaskAttended(t)
      BY DEF TasksAttended
    <3> QED
      BY <2>3, <3>1, <3>2, <3>3 DEF TaskAttended
  <2> QED
    BY <2>1, <2>2, <2>3
<1> QED
  BY <1>2 DEF TasksAttended

\* An executor delays a function of the task it was about to send.  A RUN function
\* is always queued: its lock is free, as the task has not been running.
LEMMA SendStep ==
  ASSUME Known, TasksAttended, Locks, NEW e \in Executors,
         ex[e].pc \in {"run", "wait"}, NEW kind,
         kind = (IF ex[e].pc = "run" THEN "RUN" ELSE "WAIT"),
         DelayJob(<<ex[e].cur, kind>>), NEW x, Becomes(e, x), x.pc = "loop",
         UNCHANGED <<task_status, workers>>
  PROVE  TasksAttended' /\ Locks'
<1> USE DEF workers
<1>0. PICK t : t = ex[e].cur
  OBVIOUS
<1>1. ex'[e] = x /\ \A d \in Executors : d # e => ex'[d] = ex[d]
  BY DEF Becomes, Known, TypeOK, ExecutorsOK
<1>2. /\ t \in Tasks /\ NoCall(<<t, kind>>) /\ InScope(ex[e])
      /\ task_status[t] = (IF ex[e].pc = "run" THEN "INITIATED" ELSE "RUNNING_WAIT_INITIATED")
  BY <1>0, AtWork DEF SenderOf, InScope, TasksOf
<1>3. ex[e].dirty = {}
  BY <1>2 DEF InScope
<1>4. kind = "RUN" => <<t, kind>> \notin jobLock
  BY <1>2 DEF Locks, LocksAreCalls, RunsReturn
<1>5. /\ jobQueue \in [Jobs -> Nat] /\ <<t, kind>> \in Jobs
      /\ jobQueue' = IF <<t, kind>> \in jobLock THEN jobQueue
                     ELSE [jobQueue EXCEPT ![<<t, kind>>] = @ + 1]
      /\ jobLock' = jobLock \cup {<<t, kind>>}
  BY <1>0, <1>2 DEF DelayJob, Known, TypeOK, BrokerOK, Jobs
<1>6. /\ <<t, kind>> \notin jobLock => jobQueue'[<<t, kind>>] > 0
      /\ \A j \in Jobs : jobQueue[j] \in Nat /\ jobQueue'[j] \in Nat
                         /\ (jobQueue[j] > 0 => jobQueue'[j] > 0)
  BY <1>5
<1>7. ASSUME NEW u \in Tasks PROVE TaskAttended(u)'
  <2>1. TaskAttended(u) /\ <<u, "RUN">> \in Jobs
    BY DEF TasksAttended, Jobs
  <2>2. CASE u = t
    BY <1>2, <1>4, <1>6, <2>1, <2>2 DEF TaskAttended
  <2>3. CASE u # t
    <3>1. Sending("run", u) => Sending("run", u)'
      BY <1>0, <1>1, <2>3 DEF Sending
    <3>2. ASSUME NEW d \in Executors, u \in ex[d].dirty PROVE u \in ex'[d].dirty
      BY <1>1, <1>3, <3>2
    <3> QED
      BY <1>6, <2>1, <3>1, <3>2 DEF TaskAttended
  <2> QED
    BY <2>2, <2>3
<1>8. LocksAreCalls'
  <2> SUFFICES ASSUME NEW u \in Tasks, NEW k \in {"RUN", "WAIT"}, <<u, k>> \in jobLock'
               PROVE  \/ ~NoCall(<<u, k>>)' \/ ending'[<<u, k>>] > 0
                      \/ task_status'[u] = "FAILED"
    BY DEF LocksAreCalls
  <2>1. <<u, k>> \in Jobs
    BY DEF Jobs
  <2>2. CASE <<u, k>> \notin jobLock
    <3>1. <<u, k>> = <<t, kind>>
      BY <1>5, <2>2
    <3> QED
      BY <1>6, <2>1, <2>2, <3>1 DEF NoCall
  <2>3. CASE <<u, k>> \in jobLock
    <3>1. \/ ~NoCall(<<u, k>>) \/ ending[<<u, k>>] > 0 \/ task_status[u] = "FAILED"
      BY <2>3 DEF Locks, LocksAreCalls
    <3>2. jobQueue[<<u, k>>] # 0 => jobQueue'[<<u, k>>] # 0
      BY <1>6, <2>1
    <3> QED
      BY <3>1, <3>2 DEF NoCall
  <2> QED
    BY <2>2, <2>3
<1>9. RunsReturn'
  BY DEF Locks, RunsReturn
<1> QED
  BY <1>7, <1>8, <1>9 DEF TasksAttended, Locks

\* A worker moves on with the task t it was called for.
LEMMA WorkStep ==
  ASSUME Known, TasksAttended, Locks, NEW t \in Tasks, UNCHANGED ex,
         \A u \in Tasks : u # t => task_status'[u] = task_status[u],
         \A u \in Tasks, k \in {"RUN", "WAIT"} : u # t =>
            /\ jobQueue'[<<u, k>>] = jobQueue[<<u, k>>]
            /\ working'[<<u, k>>] = working[<<u, k>>]
            /\ ending'[<<u, k>>] = ending[<<u, k>>],
         UNCHANGED jobLock,
         \/ task_status'[t] = "RUNNING" /\ working'[<<t, "RUN">>] + working'[<<t, "WAIT">>] > 0
         \/ task_status'[t] \notin Active \cup {"PENDING"},
         \A k \in {"RUN", "WAIT"} : <<t, k>> \in jobLock =>
            \/ ~NoCall(<<t, k>>)' \/ ending'[<<t, k>>] > 0
            \/ task_status'[t] = "FAILED"
  PROVE  TasksAttended' /\ Locks'
<1>1. ASSUME NEW u \in Tasks PROVE TaskAttended(u)'
  <2>1. CASE u = t
    BY <2>1 DEF TaskAttended, Active
  <2>2. CASE u # t
    BY <2>2 DEF TasksAttended, TaskAttended, Sending
  <2> QED
    BY <2>1, <2>2
<1>2. LocksAreCalls'
  BY DEF Locks, LocksAreCalls, NoCall
<1>3. RunsReturn'
  BY DEF Locks, RunsReturn, Active
<1> QED
  BY <1>1, <1>2, <1>3 DEF TasksAttended, Locks

LEMMA WorkerTasks ==
  ASSUME Known, TasksAttended, Locks, NEW t \in Tasks, NEW kind \in {"RUN", "WAIT"},
         \/ StartJob(t, kind) \/ ReleaseJob(t, kind) \/ RaiseJob(t, kind)
         \/ \E outcome \in TaskStatuses : FinishJob(t, kind, outcome)
  PROVE  TasksAttended' /\ Locks'
<1>0. PICK j : j = <<t, kind>>
  OBVIOUS
<1>1. /\ j \in Jobs /\ \A u \in Tasks, k \in {"RUN", "WAIT"} : <<u, k>> \in Jobs
      /\ jobQueue \in [Jobs -> Nat] /\ working \in [Jobs -> Nat]
      /\ ending \in [Jobs -> Nat] /\ task_status \in [Tasks -> TaskStatuses]
  BY <1>0 DEF Jobs, Known, TypeOK, BrokerOK, WorkersOK, TablesOK
<1>2. CASE StartJob(t, kind)
  <2>1. /\ jobQueue[j] > 0 /\ UNCHANGED <<ex, jobLock, ending>>
        /\ task_status' = [task_status EXCEPT ![t] = "RUNNING"]
        /\ jobQueue' = [jobQueue EXCEPT ![j] = @ - 1]
        /\ working' = [working EXCEPT ![j] = @ + 1]
    BY <1>0, <1>2, CalledTask DEF StartJob
  <2>2. /\ task_status[t] # "FAILED"
        /\ \A other \in {"RUN", "WAIT"} :
              /\ working[<<t, other>>] = 0
              /\ other # kind => jobQueue[<<t, other>>] = 0
    BY <1>0, <2>1, CalledTask DEF Active
  <2>3. working'[<<t, "RUN">>] + working'[<<t, "WAIT">>] > 0
    BY <1>0, <1>1, <2>1, <2>2
  <2>4. ASSUME NEW k \in {"RUN", "WAIT"}, <<t, k>> \in jobLock
        PROVE  ~NoCall(<<t, k>>)' \/ ending'[<<t, k>>] > 0
    <3>1. CASE k = kind
      BY <1>0, <1>1, <2>1, <2>2, <3>1 DEF NoCall
    <3>2. CASE k # kind
      BY <2>1, <2>2, <2>4, <3>2 DEF Locks, LocksAreCalls, NoCall
    <3> QED
      BY <3>1, <3>2
  <2> QED
    BY <1>0, <1>1, <2>1, <2>3, <2>4, WorkStep
<1>3. ASSUME working[j] > 0, working' = [working EXCEPT ![j] = @ - 1],
             UNCHANGED <<jobQueue, jobLock, ex>>,
             NEW after \in {"SUCCESSFUL", "FAILED", "RUNNING_WAIT"},
             task_status' = [task_status EXCEPT ![t] = after],
             \/ ending' = [ending EXCEPT ![j] = @ + 1]
             \/ after = "FAILED" /\ UNCHANGED ending
      PROVE  TasksAttended' /\ Locks'
  <2>1. task_status'[t] = after /\ after \notin Active \cup {"PENDING"}
    BY <1>1, <1>3 DEF Active
  <2>2. ASSUME NEW k \in {"RUN", "WAIT"}, <<t, k>> \in jobLock
        PROVE  ~NoCall(<<t, k>>)' \/ ending'[<<t, k>>] > 0 \/ task_status'[t] = "FAILED"
    <3>1. CASE k = kind
      BY <1>0, <1>1, <1>3, <2>1, <3>1
    <3>2. CASE k # kind
      <4>1. task_status[t] = "RUNNING" /\ NoCall(<<t, k>>)
        BY <1>0, <1>3, <3>2, CalledTask DEF NoCall
      <4>2. ending[<<t, k>>] > 0
        BY <2>2, <4>1 DEF Locks, LocksAreCalls
      <4>3. ending'[<<t, k>>] = ending[<<t, k>>]
        BY <1>0, <1>1, <1>3, <3>2
      <4> QED
        BY <4>2, <4>3
    <3> QED
      BY <3>1, <3>2
  <2>3. \A u \in Tasks, k \in {"RUN", "WAIT"} : u # t =>
           /\ jobQueue'[<<u, k>>] = jobQueue[<<u, k>>]
           /\ working'[<<u, k>>] = working[<<u, k>>]
           /\ ending'[<<u, k>>] = ending[<<u, k>>]
    BY <1>0, <1>1, <1>3
  <2> QED
    BY <1>1, <1>3, <2>1, <2>2, <2>3, WorkStep
<1>4. ASSUME NEW outcome \in TaskStatuses, FinishJob(t, kind, outcome)
      PROVE  TasksAttended' /\ Locks'
  <2>1. /\ working[j] > 0 /\ working' = [working EXCEPT ![j] = @ - 1]
        /\ ending' = [ending EXCEPT ![j] = @ + 1]
        /\ UNCHANGED <<jobQueue, jobLock, ex>>
        /\ outcome \in {"SUCCESSFUL", "FAILED", "RUNNING_WAIT"}
        /\ task_status' = [task_status EXCEPT ![t] = outcome]
    BY <1>0, <1>4, CalledTask DEF FinishJob, broker
  <2> QED
    BY <1>3, <2>1
<1>5. CASE RaiseJob(t, kind)
  <2>1. /\ working[j] > 0 /\ working' = [working EXCEPT ![j] = @ - 1]
        /\ UNCHANGED <<jobQueue, jobLock, ending, ex>>
        /\ task_status' = [task_status EXCEPT ![t] = "FAILED"]
    BY <1>0, <1>5, CalledTask DEF RaiseJob, broker
  <2> QED
    BY <1>3, <2>1
<1>6. CASE ReleaseJob(t, kind)
  <2>1. /\ UNCHANGED <<task_status, jobQueue, working, ex>>
        /\ ending[j] > 0 /\ ending' = [ending EXCEPT ![j] = @ - 1]
        /\ jobLock' = jobLock \ {j}
    BY <1>0, <1>6 DEF ReleaseJob, tables
  <2>2. \A u \in Tasks, k \in {"RUN", "WAIT"} :
           /\ ending[<<u, k>>] \in Nat
           /\ ending'[<<u, k>>] > 0 => ending[<<u, k>>] > 0
           /\ <<u, k>> # j => ending'[<<u, k>>] = ending[<<u, k>>]
    BY <1>1, <2>1
  <2>3. TasksAttended'
    BY <2>1 DEF TasksAttended, TaskAttended, Sending
  <2>4. LocksAreCalls'
    BY <2>1, <2>2 DEF Locks, LocksAreCalls, NoCall
  <2>5. RunsReturn'
    BY <2>1, <2>2 DEF Locks, RunsReturn
  <2> QED
    BY <2>3, <2>4, <2>5 DEF Locks
<1> QED
  BY <1>2, <1>4, <1>5, <1>6

\* No step but the sending of a task and a worker's takes or leaves a lock of a
\* task, what has failed stays so, and what has been running is not initiated.
LEMMA SameLocks ==
  ASSUME Known, Locks, [Next]_vars, UNCHANGED <<jobQueue, workers, jobLock>>
  PROVE  Locks'
<1> USE DEF workers
<1>1. \A t \in Tasks : task_status[t] = "FAILED" => task_status'[t] = "FAILED"
  BY TaskLife DEF TaskMove
<1>2. \A t \in Tasks : task_status[t] \notin {"PENDING", "INITIATED"} =>
                        task_status'[t] \notin {"PENDING", "INITIATED"}
  BY TaskLife DEF TaskMove
<1> QED
  BY <1>1, <1>2 DEF Locks, LocksAreCalls, RunsReturn, NoCall

LEMMA StepTasks ==
  ASSUME Known, TasksAttended, Locks, NEW e \in Executors, ExecutorStep(e)
  PROVE  TasksAttended' /\ Locks'
<1> USE DEF tables, broker, workers, manager
<1>0. [Next]_vars
  BY DEF Next, ExecutorNext
<1>1. CASE \/ BeginInitiated(e) \/ BeginRunning(e) \/ BeginOther(e) \/ ListFirst(e)
           \/ AppendNext(e) \/ ReleaseCallbacks(e) \/ ExecutorRelease(e)
  <2>1. /\ UNCHANGED <<task_status, jobQueue, workers, jobLock>>
        /\ ex[e].pc \notin {"idle", "loop", "run", "wait"} /\ \E x : Becomes(e, x)
    BY <1>1 DEF BeginInitiated, BeginRunning, BeginOther, ListFirst, AppendNext,
       ReleaseCallbacks, ExecutorRelease
  <2>2. ex[e].dirty = {}
    BY <2>1, AtWork DEF InScope
  <2> QED
    BY <1>0, <2>1, <2>2, QuietStep, SameLocks
<1>2. ASSUME NEW t \in Tasks,
             PassOver(e, t) \/ CountActive(e, t) \/ WaitUnmapped(e, t)
      PROVE  TasksAttended' /\ Locks'
  <2>1. /\ UNCHANGED <<task_status, jobQueue, workers, jobLock>> /\ ex[e].pc = "loop"
    BY <1>2 DEF PassOver, CountActive, WaitUnmapped, Turn
  <2>2. ex[e] \in ExecutorStates
    BY <2>1, AtWork
  <2>3. PICK y : y = Visited(e, t)
    OBVIOUS
  <2>4. y.dirty = ex[e].dirty
    BY <2>2, <2>3 DEF Visited, ExecutorStates
  <2>5. \/ Becomes(e, y)
        \/ \E n : Becomes(e, [y EXCEPT !.count = n])
        \/ \E v : Becomes(e, [y EXCEPT !.dirty = @ \cup {t}, !.view = v])
    BY <1>2, <2>3 DEF PassOver, CountActive, WaitUnmapped
  <2>6. ASSUME NEW n, NEW v
        PROVE  /\ ex[e].dirty \subseteq [y EXCEPT !.count = n].dirty
               /\ ex[e].dirty \subseteq [y EXCEPT !.dirty = @ \cup {t}, !.view = v].dirty
    BY <2>2, <2>3, <2>4 DEF Visited, ExecutorStates
  <2> QED
    BY <1>0, <2>1, <2>4, <2>5, <2>6, QuietStep, SameLocks
<1>3. CASE CompleteRoot(e) \/ Leave(e)
  <2>1. /\ task_status' = Flush(e) /\ UNCHANGED <<jobQueue, workers, jobLock>>
        /\ ex[e].pc = "loop" /\ \E x : Becomes(e, x)
    BY <1>3 DEF CompleteRoot, Leave, LoopDone
  <2> QED
    BY <1>0, <2>1, CommitStep, FlushFacts, SameLocks
<1>4. ASSUME NEW t \in Tasks, Acknowledge(e, t) PROVE TasksAttended' /\ Locks'
  <2>1. /\ task_status' = Flush(e) /\ UNCHANGED <<jobQueue, workers, jobLock>>
        /\ ex[e].pc = "loop" /\ \E x : Becomes(e, x)
    BY <1>4 DEF Acknowledge, Turn
  <2> QED
    BY <1>0, <2>1, CommitStep, FlushFacts, SameLocks
<1>5. ASSUME NEW t \in Tasks, InitiateTask(e, t) PROVE TasksAttended' /\ Locks'
  <2>1. PICK x : x = [Visited(e, t) EXCEPT !.pc = "run", !.cur = t, !.dirty = {}]
    OBVIOUS
  <2>2. /\ task_status' = [Flush(e) EXCEPT ![t] = "INITIATED"] /\ Becomes(e, x)
        /\ UNCHANGED <<jobQueue, workers, jobLock>> /\ ex[e].pc = "loop"
    BY <1>5, <2>1 DEF InitiateTask, Turn
  <2>3. x.pc = "run" /\ x.cur = t
    BY <2>1, <2>2, AtWork DEF Visited, ExecutorStates
  <2> QED
    BY <1>0, <2>2, <2>3, CommitStep, FlushFacts, SameLocks
<1>6. ASSUME NEW t \in Tasks, InitiateWait(e, t) PROVE TasksAttended' /\ Locks'
  <2>1. PICK x : x = [Visited(e, t) EXCEPT !.pc = "wait", !.cur = t, !.dirty = {}]
    OBVIOUS
  <2>2. /\ task_status' = [Flush(e) EXCEPT ![t] = "RUNNING_WAIT_INITIATED"] /\ Becomes(e, x)
        /\ UNCHANGED <<jobQueue, workers, jobLock>> /\ ex[e].pc = "loop"
    BY <1>6, <2>1 DEF InitiateWait, Turn
  <2>3. x.pc = "wait" /\ x.cur = t
    BY <2>1, <2>2, AtWork DEF Visited, ExecutorStates
  <2> QED
    BY <1>0, <2>2, <2>3, CommitStep, FlushFacts, SameLocks
<1>7. CASE DispatchWait(e)
  <2>1. PICK x : x = [ex[e] EXCEPT !.pc = "loop", !.cur = None, !.count = @ + 1,
                                   !.view = View(ex[e].root)]
    OBVIOUS
  <2>2. /\ ex[e].pc = "wait" /\ Becomes(e, x) /\ DelayJob(<<ex[e].cur, "WAIT">>)
        /\ UNCHANGED <<task_status, workers>>
    BY <1>7, <2>1 DEF DispatchWait
  <2>3. x.pc = "loop"
    BY <2>1, <2>2, AtWork DEF ExecutorStates
  <2> QED
    BY <2>2, <2>3, SendStep
<1>8. CASE DispatchRun(e)
  <2>0. PICK t, next : t = ex[e].cur /\ next = [ex[e] EXCEPT !.pc = "loop", !.cur = None,
                                                            !.view = View(ex[e].root)]
    OBVIOUS
  <2>1. /\ ex[e].pc = "run" /\ UNCHANGED <<task_status, workers>>
        /\ ex[e] \in ExecutorStates
    BY <1>8, AtWork DEF DispatchRun
  <2>2. CASE t \notin NoRun
    <3>1. PICK x : x = [next EXCEPT !.count = @ + 1]
      OBVIOUS
    <3>2. Becomes(e, x) /\ DelayJob(<<ex[e].cur, "RUN">>)
      BY <1>8, <2>0, <2>2, <3>1 DEF DispatchRun
    <3>3. x.pc = "loop"
      BY <2>0, <2>1, <3>1 DEF ExecutorStates
    <3> QED
      BY <2>1, <3>2, <3>3, SendStep
  <2>3. CASE t \in NoRun
    <3>1. PICK x : x = [next EXCEPT !.dirty = {t}, !.view = Marked(@, t)]
      OBVIOUS
    <3>2. Becomes(e, x) /\ UNCHANGED <<jobLock, jobQueue>>
      BY <1>8, <2>0, <2>3, <3>1 DEF DispatchRun
    <3>3. x.dirty = {t}
      BY <2>0, <2>1, <3>1 DEF ExecutorStates
    <3>4. ex'[e] = x /\ \A d \in Executors : d # e => ex'[d] = ex[d]
      BY <3>2 DEF Becomes, Known, TypeOK, ExecutorsOK
    <3>5. ex[e].dirty = {} /\ task_status[t] = "INITIATED"
      BY <2>0, <2>1, AtWork DEF InScope, SenderOf
    <3>6. ASSUME NEW u \in Tasks PROVE TaskAttended(u)'
      <4>1. TaskAttended(u)
        BY DEF TasksAttended
      <4>2. CASE u = t
        BY <2>1, <3>3, <3>4, <3>5, <4>2 DEF TaskAttended
      <4>3. CASE u # t
        <5>1. Sending("run", u) => Sending("run", u)'
          BY <2>0, <3>4, <4>3 DEF Sending
        <5>2. ASSUME NEW d \in Executors, u \in ex[d].dirty PROVE u \in ex'[d].dirty
          BY <3>4, <3>5, <5>2
        <5> QED
          BY <2>1, <3>2, <4>1, <5>1, <5>2 DEF TaskAttended
      <4> QED
        BY <4>2, <4>3
    <3> QED
      BY <1>0, <2>1, <3>2, <3>6, SameLocks DEF TasksAttended
  <2> QED
    BY <2>2, <2>3
<1> QED
  BY <1>1, <1>2, <1>3, <1>4, <1>5, <1>6, <1>7, <1>8 DEF ExecutorStep

LEMMA SameTasksAttended ==
  ASSUME TasksAttended, UNCHANGED <<task_status, jobQueue, working, ex>>
  PROVE  TasksAttended'
  BY DEF TasksAttended, TaskAttended, Sending

-----------------------------------------------------------------------------
LEMMA NextAttended ==
  ASSUME Known, InHand, FaultKinds = {}, [Next]_vars
  PROVE  InHand'
<1> USE DEF tables, broker, workers, manager, InHand
<1>1. CASE ManagerNext
  <2>1. UNCHANGED <<task_status, jobQueue, jobLock, workers, ex>>
    BY <1>1 DEF ManagerNext, ManagerScan, ManagerInitiate, ManagerDelay, DelayExecutor
  <2> QED
    BY <1>1, <2>1, ManagerRoots, SameTasksAttended, SameLocks
<1>2. CASE ExecutorNext
  <2>1. ASSUME NEW e \in Executors, NEW r \in Roots, ExecutorTake(e, r)
        PROVE  InHand'
    <3>1. /\ ex[e].pc = "idle" /\ UNCHANGED <<task_status, jobQueue, jobLock, workers>>
          /\ \E x : Becomes(e, x)
      BY <2>1 DEF ExecutorTake
    <3>2. ex[e].dirty = {}
      BY <3>1 DEF Known, IInv, ExecutorsInOrder
    <3> QED
      BY <2>1, <3>1, <3>2, TakeRoots, QuietStep, SameLocks
  <2> QED
    BY <1>2, <2>1, StepRoots, StepTasks DEF ExecutorNext
<1>3. CASE WorkerNext
  <2>1. UNCHANGED <<status, executor_running, picked, rootQueue, ex>>
    BY <1>3 DEF WorkerNext, StartJob, ReleaseJob, RaiseJob, FinishJob
  <2> QED
    BY <1>3, <2>1, SameRoots, WorkerTasks DEF WorkerNext
<1>4. CASE FaultNext
  BY <1>4 DEF FaultNext, ExecutorRaise, ExecutorCrash, WorkerCrash, ManagerCrash,
     UnlockAll, Fault
<1>5. CASE UNCHANGED vars
  BY <1>5, SameRoots, SameTasksAttended, SameLocks DEF vars
<1> QED
  BY <1>1, <1>2, <1>3, <1>4, <1>5 DEF Next

LEMMA InHandCorrect ==
  ASSUME FaultKinds = {}
  PROVE  Spec => [](Known /\ InHand)
<1>0. Spec => []Known
  <2>1. "worker_ready" \notin FaultKinds
    OBVIOUS
  <2> QED
    BY <2>1, OrderCorrect
<1>1. Init => InHand
  BY InitAttended
<1>2. Known /\ InHand /\ [Next]_vars => InHand'
  BY NextAttended
<1> QED
  BY <1>0, <1>1, <1>2, PTL DEF Spec

\* Nothing but a poll waits for a call that nobody is going to make: whatever the
\* trees, the interleaving, the executors and the functions MAPPER lacks, a root
\* that the manager passes over is in somebody's hands, and so is every task that
\* has been initiated or is running, although locks outlive the last commit.
THEOREM AttendedCorrect ==
  ASSUME FaultKinds = {}
  PROVE  Spec => []Attended
<1>1. InHand => Attended
  BY AttendedParts DEF InHand
<1> QED
  BY <1>1, InHandCorrect, PTL

-----------------------------------------------------------------------------
(* Polls.                                                                  *)

\* Without faults a step is one of the manager, of an executor or of a worker.
LEMMA Steps ==
  ASSUME FaultKinds = {}, [Next]_vars
  PROVE  \/ UNCHANGED <<task_status, jobLock, jobQueue, ex>>
         \/ \E e \in Executors : ExecutorStep(e) \/ \E r \in Roots : ExecutorTake(e, r)
         \/ \E t \in Tasks, kind \in {"RUN", "WAIT"} :
               \/ StartJob(t, kind) \/ ReleaseJob(t, kind) \/ RaiseJob(t, kind)
               \/ \E outcome \in TaskStatuses : FinishJob(t, kind, outcome)
<1>1. CASE ManagerNext
  BY <1>1 DEF ManagerNext, ManagerScan, ManagerInitiate, ManagerDelay, DelayExecutor,
     tables, broker
<1>2. CASE ExecutorNext
  BY <1>2 DEF ExecutorNext
<1>3. CASE WorkerNext
  BY <1>3 DEF WorkerNext
<1>4. CASE FaultNext
  BY <1>4 DEF FaultNext, ExecutorRaise, ExecutorCrash, WorkerCrash, ManagerCrash,
     UnlockAll, Fault
<1>5. CASE UNCHANGED vars
  BY <1>5 DEF vars, tables, broker
<1> QED
  BY <1>1, <1>2, <1>3, <1>4, <1>5 DEF Next

\* A task that waits for its poll did so before, or the executor that has just
\* written so is about to send the poll.
LEMMA PollInitiated ==
  ASSUME Known, FaultKinds = {}, [Next]_vars, NEW t \in Tasks,
         task_status'[t] = "RUNNING_WAIT_INITIATED",
         task_status[t] # "RUNNING_WAIT_INITIATED"
  PROVE  Sending("wait", t)'
<1>1. task_status \in [Tasks -> TaskStatuses]
  BY DEF Known, TypeOK, TablesOK
<1>2. ASSUME NEW e \in Executors, NEW u \in Tasks, InitiateWait(e, u)
      PROVE  Sending("wait", t)'
  <2>1. PICK x : x = [Visited(e, u) EXCEPT !.pc = "wait", !.cur = u, !.dirty = {}]
    OBVIOUS
  <2>2. /\ task_status' = [Flush(e) EXCEPT ![u] = "RUNNING_WAIT_INITIATED"]
        /\ ex[e].pc = "loop" /\ ex[e] \in ExecutorStates /\ Becomes(e, x)
    BY <1>2, <2>1, AtWork DEF InitiateWait, Turn
  <2>3. u = t
    BY <1>1, <2>2, FlushFacts
  <2>4. x.pc = "wait" /\ x.cur = u
    BY <2>1, <2>2 DEF Visited, ExecutorStates
  <2>5. ex'[e] = x
    BY <2>2 DEF Becomes, Known, TypeOK, ExecutorsOK
  <2> QED
    BY <2>3, <2>4, <2>5 DEF Sending
<1>3. ASSUME NEW e \in Executors, NEW u \in Tasks, InitiateTask(e, u) PROVE FALSE
  <2>1. /\ task_status' = [Flush(e) EXCEPT ![u] = "INITIATED"] /\ ex[e].pc = "loop"
    BY <1>3 DEF InitiateTask, Turn
  <2> QED
    BY <1>1, <2>1, FlushFacts
<1>4. ASSUME NEW e \in Executors, ex[e].pc = "loop", task_status' = Flush(e) PROVE FALSE
  BY <1>4, FlushFacts
<1>5. ASSUME NEW e \in Executors, ExecutorStep(e) PROVE Sending("wait", t)'
  <2>1. CASE \/ BeginInitiated(e) \/ BeginRunning(e) \/ BeginOther(e) \/ ListFirst(e)
             \/ DispatchRun(e) \/ DispatchWait(e) \/ AppendNext(e)
             \/ ReleaseCallbacks(e) \/ ExecutorRelease(e)
    BY <2>1 DEF BeginInitiated, BeginRunning, BeginOther, ListFirst, DispatchRun,
       DispatchWait, AppendNext, ReleaseCallbacks, ExecutorRelease, tables
  <2>2. ASSUME NEW u \in Tasks,
               PassOver(e, u) \/ CountActive(e, u) \/ WaitUnmapped(e, u)
        PROVE  FALSE
    BY <2>2 DEF PassOver, CountActive, WaitUnmapped, tables
  <2>3. ASSUME NEW u \in Tasks, Acknowledge(e, u) PROVE FALSE
    BY <1>4, <2>3 DEF Acknowledge, Turn
  <2>4. CASE CompleteRoot(e) \/ Leave(e)
    BY <1>4, <2>4 DEF CompleteRoot, Leave, LoopDone
  <2> QED
    BY <1>2, <1>3, <1>5, <2>1, <2>2, <2>3, <2>4 DEF ExecutorStep
<1>6. ASSUME NEW e \in Executors, NEW r \in Roots, ExecutorTake(e, r) PROVE FALSE
  BY <1>6 DEF ExecutorTake
<1>7. ASSUME NEW u \in Tasks, NEW kind \in {"RUN", "WAIT"},
             \/ StartJob(u, kind) \/ ReleaseJob(u, kind) \/ RaiseJob(u, kind)
             \/ \E outcome \in TaskStatuses : FinishJob(u, kind, outcome)
      PROVE  FALSE
  BY <1>1, <1>7 DEF StartJob, ReleaseJob, RaiseJob, FinishJob, tables
<1> QED
  BY <1>5, <1>6, <1>7, Steps

LEMMA PollLost ==
  ASSUME Known, InHand, FaultKinds = {}, [Next]_vars, NEW t \in Tasks,
         ~Lost(t), Lost(t)'
  PROVE  <<t, "WAIT">> \in jobLock /\ ending[<<t, "WAIT">>] > 0
<1>0. PICK wait : wait = <<t, "WAIT">>
  OBVIOUS
<1>1. /\ task_status'[t] = "RUNNING_WAIT_INITIATED" /\ jobQueue'[wait] = 0
      /\ ~Sending("wait", t)'
  BY <1>0 DEF Lost
<1>2. task_status[t] = "RUNNING_WAIT_INITIATED"
  BY <1>1, PollInitiated
<1>3. jobQueue[wait] # 0 \/ Sending("wait", t)
  BY <1>0, <1>2 DEF Lost
<1>4. /\ jobQueue \in [Jobs -> Nat] /\ wait \in Jobs
      /\ task_status \in [Tasks -> TaskStatuses]
  BY <1>0 DEF Known, TypeOK, BrokerOK, TablesOK, Jobs
<1>5. ASSUME NEW d \in Executors, DispatchWait(d), ex[d].cur = t
      PROVE  wait \in jobLock /\ ending[wait] > 0
  <2>1. ex[d].pc = "wait" /\ DelayJob(wait)
    BY <1>0, <1>5 DEF DispatchWait
  <2>2. NoCall(wait)
    BY <1>0, <1>5, <2>1, AtWork DEF SenderOf
  <2>3. wait \in jobLock
    BY <1>1, <1>4, <2>1 DEF DelayJob
  <2> QED
    BY <1>0, <1>2, <2>2, <2>3 DEF InHand, Locks, LocksAreCalls
<1>6. ASSUME NEW d \in Executors, ExecutorStep(d) \/ \E r \in Roots : ExecutorTake(d, r)
      PROVE  wait \in jobLock /\ ending[wait] > 0
  <2>1. \A e \in Executors : e # d => ex'[e] = ex[e]
    BY <1>6 DEF ExecutorStep, BeginInitiated, BeginRunning, BeginOther, ListFirst,
       InitiateTask, PassOver, CountActive, InitiateWait, WaitUnmapped, Acknowledge,
       DispatchRun, DispatchWait, AppendNext, CompleteRoot, ReleaseCallbacks, Leave,
       ExecutorRelease, ExecutorTake, Becomes, Known, TypeOK, ExecutorsOK
  <2>2. jobQueue[wait] # 0 => jobQueue'[wait] # 0
    <3>1. CASE DispatchRun(d) \/ DispatchWait(d)
      <4>1. jobQueue' = jobQueue \/ \E j : jobQueue' = [jobQueue EXCEPT ![j] = @ + 1]
        BY <3>1 DEF DispatchRun, DispatchWait, DelayJob, broker
      <4> QED
        BY <1>4, <4>1
    <3>2. CASE ~(DispatchRun(d) \/ DispatchWait(d))
      <4>1. ASSUME NEW u \in Tasks,
                   \/ InitiateTask(d, u) \/ PassOver(d, u) \/ CountActive(d, u)
                   \/ InitiateWait(d, u) \/ WaitUnmapped(d, u) \/ Acknowledge(d, u)
            PROVE  jobQueue' = jobQueue
        BY <4>1 DEF InitiateTask, PassOver, CountActive, InitiateWait, WaitUnmapped,
           Acknowledge, broker
      <4>2. CASE \/ BeginInitiated(d) \/ BeginRunning(d) \/ BeginOther(d) \/ ListFirst(d)
                 \/ AppendNext(d) \/ CompleteRoot(d) \/ ReleaseCallbacks(d) \/ Leave(d)
                 \/ ExecutorRelease(d) \/ \E r \in Roots : ExecutorTake(d, r)
        BY <4>2 DEF BeginInitiated, BeginRunning, BeginOther, ListFirst, AppendNext,
           CompleteRoot, ReleaseCallbacks, Leave, ExecutorRelease, ExecutorTake, broker
      <4> QED
        BY <1>6, <3>2, <4>1, <4>2 DEF ExecutorStep
    <3> QED
      BY <3>1, <3>2
  <2>3. PICK e \in Executors : ex[e].pc = "wait" /\ ex[e].cur = t
    BY <1>1, <1>3, <2>2 DEF Sending
  <2>4. e = d /\ ex[d].pc = "wait" /\ ex[d].cur = t
    BY <1>1, <2>1, <2>3 DEF Sending
  <2>5. DispatchWait(d)
    BY <1>6, <2>4 DEF ExecutorStep, BeginInitiated, BeginRunning, BeginOther, ListFirst,
       InitiateTask, PassOver, CountActive, InitiateWait, WaitUnmapped, Acknowledge, Turn,
       DispatchRun, AppendNext, CompleteRoot, ReleaseCallbacks, Leave, LoopDone,
       ExecutorRelease, ExecutorTake
  <2> QED
    BY <1>5, <2>4, <2>5
<1>7. ASSUME NEW u \in Tasks, NEW kind \in {"RUN", "WAIT"},
             \/ StartJob(u, kind) \/ ReleaseJob(u, kind) \/ RaiseJob(u, kind)
             \/ \E outcome \in TaskStatuses : FinishJob(u, kind, outcome)
      PROVE  FALSE
  <2>1. ex' = ex
    BY <1>7 DEF StartJob, ReleaseJob, RaiseJob, FinishJob
  <2>2. jobQueue[wait] # 0 /\ jobQueue' # jobQueue
    BY <1>1, <1>3, <2>1 DEF Sending
  <2>3. StartJob(u, kind)
    BY <1>7, <2>2 DEF ReleaseJob, RaiseJob, FinishJob, broker
  <2>4. /\ jobQueue[<<u, kind>>] > 0 /\ task_status' = [task_status EXCEPT ![u] = "RUNNING"]
        /\ jobQueue' = [jobQueue EXCEPT ![<<u, kind>>] = @ - 1]
    BY <2>3, CalledTask DEF StartJob
  <2>5. u = t
    BY <1>0, <1>1, <1>4, <2>2, <2>4
  <2> QED
    BY <1>1, <1>4, <2>4, <2>5
<1>8. CASE UNCHANGED <<task_status, jobLock, jobQueue, ex>>
  BY <1>1, <1>3, <1>8 DEF Sending
<1> QED
  BY <1>0, <1>6, <1>7, <1>8, Steps

\* A poll is lost only between the last commit of the poll before it and the
\* release of its lock: no other lock of a task outlives its call where the
\* executor would meet it, whatever the trees and the interleaving.
THEOREM PollsAreLostLateCorrect ==
  ASSUME FaultKinds = {}
  PROVE  Spec => PollsLostOnlyLate
<1>1. Known /\ InHand /\ [Next]_vars =>
        [\A t \in Tasks : ~Lost(t) /\ Lost(t)' =>
              <<t, "WAIT">> \in jobLock /\ ending[<<t, "WAIT">>] > 0]_vars
  BY PollLost
<1> QED
  BY <1>1, InHandCorrect, PTL DEF Spec, PollsLostOnlyLate
=============================================================================

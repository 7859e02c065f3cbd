---------------------- MODULE WorkflowRefinement_proofs ----------------------
(***************************************************************************)
(* Without faults the engine implements the tree of module WorkflowDag:    *)
(* every step of it is one step of the tree, or none, and here it is which *)
(* one.                                                                    *)
(***************************************************************************)
EXTENDS WorkflowRefinement, Workflow_proofs

\* An executor has marked the task FAILED and not committed it yet.
MarkedFailed(t) == \E e \in Executors : t \in ex[e].dirty

\* The phase is the status in other words, except that the mark counts.
LEMMA PhaseReads ==
  ASSUME Known, NEW t \in Tasks
  PROVE  /\ Phase[t] = "waiting" <=> task_status[t] = "PENDING"
         /\ Phase[t] = "done" <=> task_status[t] = "SUCCESSFUL"
         /\ Phase[t] = "failed" <=> task_status[t] = "FAILED" \/ MarkedFailed(t)
         /\ Phase[t] = "active" <=>
               ~MarkedFailed(t) /\ task_status[t] \notin {"PENDING", "SUCCESSFUL", "FAILED"}
         /\ MarkedFailed(t) => task_status[t] \in {"INITIATED", "RUNNING_WAIT"}
<1>1. MarkedFailed(t) => task_status[t] \in {"INITIATED", "RUNNING_WAIT"}
  BY DEF Known, IInv, OneCallPerTask, SenderOf, MarkedFailed
<1>2. CASE task_status[t] = "FAILED" \/ MarkedFailed(t)
  BY <1>1, <1>2 DEF Phase, MarkedFailed
<1>3. CASE ~(task_status[t] = "FAILED" \/ MarkedFailed(t))
  <2>1. Phase[t] = CASE task_status[t] = "PENDING" -> "waiting"
                     [] task_status[t] = "SUCCESSFUL" -> "done"
                     [] OTHER -> "active"
    BY <1>3 DEF Phase, MarkedFailed
  <2> QED
    BY <1>1, <1>3, <2>1
<1> QED
  BY <1>2, <1>3

\* A task whose row and marks an executor leaves alone, or whose mark it
\* commits, stays in its phase.
LEMMA SamePhase ==
  ASSUME Known, NEW e \in Executors, NEW x, Becomes(e, x), NEW t \in Tasks,
         \/ task_status'[t] = task_status[t] /\ (t \in x.dirty <=> t \in ex[e].dirty)
         \/ task_status'[t] = Flush(e)[t] /\ x.dirty = {}
  PROVE  Phase'[t] = Phase[t]
<1>1. ex'[e] = x /\ \A d \in Executors : d # e => ex'[d] = ex[d]
  BY DEF Becomes, Known, TypeOK, ExecutorsOK
<1>2. CASE task_status'[t] = task_status[t] /\ (t \in x.dirty <=> t \in ex[e].dirty)
  <2>1. MarkedFailed(t)' <=> MarkedFailed(t)
    BY <1>1, <1>2 DEF MarkedFailed
  <2> QED
    BY <1>2, <2>1 DEF Phase, MarkedFailed
<1>3. CASE task_status'[t] = Flush(e)[t] /\ x.dirty = {}
  <2>1. CASE t \in ex[e].dirty
    BY <1>3, <2>1 DEF Flush, Phase
  <2>2. CASE t \notin ex[e].dirty
    <3>1. task_status'[t] = task_status[t]
      BY <1>3, <2>2 DEF Flush
    <3>2. MarkedFailed(t)' <=> MarkedFailed(t)
      BY <1>1, <1>3, <2>2 DEF MarkedFailed
    <3> QED
      BY <3>1, <3>2 DEF Phase, MarkedFailed
  <2> QED
    BY <2>1, <2>2
<1> QED
  BY <1>2, <1>3

\* A task of an executor's root is marked by that executor or by none.
LEMMA OwnMark ==
  ASSUME Known, NEW e \in Executors, ex[e].pc # "idle", NEW t \in TasksOf(ex[e].root)
  PROVE  MarkedFailed(t) <=> t \in ex[e].dirty
<1>1. \A d \in Executors : t \in ex[d].dirty => ex[d].root = ex[e].root
  <2> SUFFICES ASSUME NEW d \in Executors, t \in ex[d].dirty PROVE ex[d].root = ex[e].root
    OBVIOUS
  <2>1. ex[d].pc # "idle"
    BY DEF Known, IInv, ExecutorsInOrder
  <2> QED
    BY <2>1, FlushFacts DEF TasksOf
<1> QED
  BY <1>1, AtWork DEF MarkedFailed

-----------------------------------------------------------------------------
(* Steps of the tree.                                                      *)

dagged == <<Phase, Verdict, Final>>

\* The phases are a function on the tasks, before the step and after it.
LEMMA PhaseTable ==
  /\ Phase = [t \in Tasks |-> Phase[t]]
  /\ Phase' = [t \in Tasks |-> Phase'[t]]
<1>1. Phase = [t \in Tasks |-> Phase[t]]
  BY DEF Phase
<1>2. Phase' = [t \in Tasks |-> Phase'[t]]
  BY DEF Phase
<1> QED
  BY <1>1, <1>2

\* It is enough to compare entries.
LEMMA SameDag ==
  ASSUME UNCHANGED status, \A t \in Tasks : Phase'[t] = Phase[t]
  PROVE  UNCHANGED dagged
<1>1. Phase' = Phase
  BY PhaseTable
<1> QED
  BY <1>1 DEF dagged, Verdict, Final

\* A task that was active has failed or is done: the tree's End.
LEMMA TaskEnds ==
  ASSUME UNCHANGED status, NEW t \in Tasks, NEW p \in {"done", "failed"},
         Phase[t] = "active", Phase'[t] = p,
         \A u \in Tasks \ {t} : Phase'[u] = Phase[u]
  PROVE  Dag!End(t)
<1>1. Phase' = [Phase EXCEPT ![t] = p]
  BY PhaseTable
<1>2. UNCHANGED <<Verdict, Final>>
  BY DEF Verdict, Final
<1>3. \E q \in {"done", "failed"} : Phase' = [Phase EXCEPT ![t] = q]
  BY <1>1
<1> QED
  BY <1>2, <1>3 DEF Dag!End

LEMMA InitiateTaskDag ==
  ASSUME Known, NEW e \in Executors, NEW t \in Tasks, InitiateTask(e, t)
  PROVE  Dag!Start(t)
<1>1. Turn(e, t) /\ Waits(t) /\ ex[e].pc # "idle"
  BY StartsWaiting DEF InitiateTask
<1>2. t \in TasksOf(ex[e].root) /\ status[RootOf[t]] = "RUNNING" /\ RootOf[t] \in Roots
  BY <1>1, TurnFacts, ConstantsAssumption DEF TasksOf
<1>3. PICK x : x = [Visited(e, t) EXCEPT !.pc = "run", !.cur = t, !.dirty = {}]
  OBVIOUS
<1>4. x.dirty = {} /\ Becomes(e, x) /\ UNCHANGED status
      /\ task_status' = [Flush(e) EXCEPT ![t] = "INITIATED"]
  BY <1>3 DEF InitiateTask, Visited
<1>5. /\ task_status'[t] = "INITIATED"
      /\ \A u \in Tasks \ {t} : task_status'[u] = Flush(e)[u]
  BY <1>1, <1>4, FlushFacts
<1>6. \A u \in Tasks \ {t} : Phase'[u] = Phase[u]
  BY <1>4, <1>5, SamePhase
<1>7. Phase[t] = "waiting"
  BY <1>1, PhaseReads DEF Waits
<1>8. Phase'[t] = "active"
  <2>1. ~MarkedFailed(t)
    BY <1>1, PhaseReads DEF Waits
  <2>2. ~MarkedFailed(t)'
    BY <1>4, <2>1 DEF MarkedFailed, Becomes, Known, TypeOK, ExecutorsOK
  <2> QED
    BY <1>5, <2>2 DEF Phase, MarkedFailed
<1>9. \A p \in Previous[t] : Phase[p] = "done"
  <2>1. StartedInOrder'
    BY InitiateTaskOrder DEF IInv
  <2>2. \A p \in Previous[t] : p \in Tasks /\ task_status'[p] = "SUCCESSFUL"
    BY <1>5, <2>1, ConstantsAssumption DEF StartedInOrder, Waits
  <2>3. \A p \in Previous[t] : task_status[p] = "SUCCESSFUL"
    BY <1>1, <1>5, <2>2, FlushFacts
  <2> QED
    BY <2>2, <2>3, PhaseReads
<1>10. Phase' = [Phase EXCEPT ![t] = "active"]
  BY <1>6, <1>8, PhaseTable
<1>11. Verdict[RootOf[t]] = "open"
  BY <1>2 DEF Verdict, Successful, Failed
<1> QED
  BY <1>4, <1>7, <1>9, <1>10, <1>11 DEF Dag!Start, Dag!Startable, Verdict, Final

\* A task without a RUN function fails on the spot.
LEMMA DispatchRunDag ==
  ASSUME Known, NEW e \in Executors, DispatchRun(e)
  PROVE  (\E t \in Tasks : Dag!End(t)) \/ UNCHANGED dagged
<1>1. PICK t : t = ex[e].cur
  OBVIOUS
<1>2. ex[e].pc = "run" /\ ex[e].pc # "idle" /\ UNCHANGED <<status, task_status>>
  BY DEF DispatchRun, tables
<1>3. /\ ex[e] \in ExecutorStates /\ t \in TasksOf(ex[e].root) /\ t \in Tasks
      /\ ex[e].dirty = {} /\ task_status[t] = "INITIATED"
  BY <1>1, <1>2, AtWork DEF InScope, SenderOf, TasksOf
<1>4. CASE t \in NoRun
  <2>1. PICK x : x = [ex[e] EXCEPT !.pc = "loop", !.cur = None,
                        !.view = Marked(View(ex[e].root), t), !.dirty = {t}]
    OBVIOUS
  <2>2. x.dirty = {t}
    BY <1>3, <2>1 DEF ExecutorStates
  <2>3. Becomes(e, x)
    BY <1>1, <1>3, <1>4, <2>1 DEF DispatchRun, ExecutorStates
  <2>4. \A u \in Tasks \ {t} : Phase'[u] = Phase[u]
    BY <1>2, <1>3, <2>2, <2>3, SamePhase
  <2>5. Phase[t] = "active"
    BY <1>2, <1>3, OwnMark, PhaseReads
  <2>6. Phase'[t] = "failed"
    <3>1. t \in ex'[e].dirty
      BY <2>2, <2>3 DEF Becomes, Known, TypeOK, ExecutorsOK
    <3> QED
      BY <1>3, <3>1 DEF Phase
  <2> QED
    BY <1>2, <1>3, <2>4, <2>5, <2>6, TaskEnds
<1>5. CASE t \notin NoRun
  <2>1. PICK x : x = [ex[e] EXCEPT !.pc = "loop", !.cur = None, !.view = View(ex[e].root),
                                   !.count = @ + 1]
    OBVIOUS
  <2>2. x.dirty = ex[e].dirty
    BY <1>3, <2>1 DEF ExecutorStates
  <2>3. Becomes(e, x)
    BY <1>1, <1>3, <1>5, <2>1 DEF DispatchRun, ExecutorStates
  <2> QED
    BY <1>2, <2>2, <2>3, SamePhase, SameDag
<1> QED
  BY <1>4, <1>5

\* So does one without a WAIT function when it asks to be polled.
LEMMA WaitUnmappedDag ==
  ASSUME Known, NEW e \in Executors, NEW t \in Tasks, WaitUnmapped(e, t)
  PROVE  Dag!End(t)
<1>1. /\ ex[e].pc = "loop" /\ ex[e].pc # "idle" /\ t \in TasksOf(ex[e].root)
      /\ task_status[t] = "RUNNING_WAIT" /\ t \notin ex[e].dirty
  BY TurnFacts DEF WaitUnmapped, Seen, TaskSeen
<1>2. PICK x : x = [Visited(e, t) EXCEPT !.dirty = @ \cup {t}, !.view = Marked(@, t)]
  OBVIOUS
<1>3. ex[e] \in ExecutorStates
  BY <1>1, AtWork
<1>4. x.dirty = ex[e].dirty \cup {t}
  BY <1>2, <1>3 DEF Visited, ExecutorStates
<1>5. Becomes(e, x) /\ UNCHANGED <<status, task_status>>
  BY <1>2 DEF WaitUnmapped, tables
<1>6. \A u \in Tasks \ {t} : Phase'[u] = Phase[u]
  BY <1>4, <1>5, SamePhase
<1>7. Phase[t] = "active"
  BY <1>1, OwnMark, PhaseReads
<1>8. Phase'[t] = "failed"
  <2>1. t \in ex'[e].dirty
    BY <1>4, <1>5 DEF Becomes, Known, TypeOK, ExecutorsOK
  <2> QED
    BY <2>1 DEF Phase
<1> QED
  BY <1>5, <1>6, <1>7, <1>8, TaskEnds

LEMMA InitiateWaitDag ==
  ASSUME Known, NEW e \in Executors, NEW t \in Tasks, InitiateWait(e, t)
  PROVE  UNCHANGED dagged
<1>1. /\ ex[e].pc = "loop" /\ ex[e].pc # "idle" /\ t \in TasksOf(ex[e].root)
      /\ task_status[t] = "RUNNING_WAIT" /\ t \notin ex[e].dirty
  BY TurnFacts DEF InitiateWait, Seen, TaskSeen
<1>2. PICK x : x = [Visited(e, t) EXCEPT !.pc = "wait", !.cur = t, !.dirty = {}]
  OBVIOUS
<1>3. ex[e] \in ExecutorStates
  BY <1>1, AtWork
<1>4. x.dirty = {}
  BY <1>2, <1>3 DEF Visited, ExecutorStates
<1>5. /\ Becomes(e, x) /\ UNCHANGED status
      /\ task_status' = [Flush(e) EXCEPT ![t] = "RUNNING_WAIT_INITIATED"]
  BY <1>2 DEF InitiateWait
<1>6. \A u \in Tasks \ {t} : Phase'[u] = Phase[u]
  BY <1>1, <1>4, <1>5, SamePhase, FlushFacts
<1>7. ~MarkedFailed(t)
  BY <1>1, OwnMark
<1>8. ~MarkedFailed(t)' /\ task_status'[t] = "RUNNING_WAIT_INITIATED"
  BY <1>1, <1>4, <1>5, <1>7, FlushFacts DEF MarkedFailed, Becomes, Known, TypeOK, ExecutorsOK
<1>9. Phase[t] = "active"
  BY <1>1, <1>7, PhaseReads
<1>10. Phase'[t] = "active"
  BY <1>8 DEF Phase, MarkedFailed
<1> QED
  BY <1>5, <1>6, <1>9, <1>10, SameDag

-----------------------------------------------------------------------------
(* Steps of roots.                                                         *)

\* When the walk is over and nothing was counted, each task left waiting comes
\* after one that waits too or has failed.
LEMMA NothingStartable ==
  ASSUME Known, NEW e \in Executors, LoopDone(e), SeenStatus(e) = "RUNNING",
         ex[e].count = 0, NEW u \in TasksOf(ex[e].root), Waits(u)
  PROVE  \E p \in Previous[u] : Waits(p) \/ task_status[p] = "FAILED" \/ p \in ex[e].dirty
<1>0. PICK r : r = ex[e].root
  OBVIOUS
<1>1. /\ ex[e].pc = "loop" /\ ex[e].pc # "idle" /\ ex[e].todo = {} /\ ex[e].added = {}
  BY DEF LoopDone
<1>2. /\ r \in Roots /\ InScope(ex[e]) /\ ViewHolds(ex[e]) /\ WalkOf(ex[e])
      /\ status[r] = "RUNNING"
  BY <1>0, <1>1, AtWork DEF InStep, SeenStatus
<1>3. Previous[u] \subseteq TasksOf(r)
  BY <1>0, ConstantsAssumption DEF TasksOf
<1>4. ASSUME NEW p \in TasksOf(r), in_focus[p]
      PROVE  task_status[p] = "FAILED" \/ p \in ex[e].dirty
  <2>1. ex[e].view.task[p] = "FAILED"
    BY <1>0, <1>1, <1>2, <1>4 DEF WalkOf, Walking, TurnsTaken
  <2> QED
    BY <1>0, <1>1, <1>2, <2>1 DEF ViewHolds, Walking, TaskSeen
<1>5. \E p \in Previous[u] : Waits(p) \/ in_focus[p]
  <2>1. CASE ex[e].first
    <3>1. FirstWalk(ex[e])
      BY <1>0, <1>1, <1>2, <2>1 DEF WalkOf, Walking
    <3>2. u \notin FirstTasks(r)
      BY <1>0, <1>1, <3>1 DEF FirstWalk
    <3>3. PICK p : p \in Previous[u]
      BY <1>0, <3>2 DEF FirstTasks
    <3> QED
      BY <1>0, <1>3, <3>1, <3>3 DEF FirstWalk
  <2>2. CASE ~ex[e].first
    <3>1. LaterWalk(ex[e])
      BY <1>0, <1>1, <1>2, <2>2 DEF WalkOf, Walking
    <3> QED
      BY <1>0, <1>1, <3>1 DEF LaterWalk, HeldBack
  <2> QED
    BY <2>1, <2>2
<1> QED
  BY <1>3, <1>4, <1>5

\* The executor's verdict is the tree's, and falls when the tree allows it.
LEMMA CompleteRootDag ==
  ASSUME Known, NEW e \in Executors, CompleteRoot(e)
  PROVE  \E r \in Roots : Dag!Close(r)
<1>0. PICK r : r = ex[e].root
  OBVIOUS
<1>1. /\ r \in Roots /\ status[r] = "RUNNING" /\ ex[e].pc = "loop" /\ ex[e].pc # "idle"
      /\ status'[r] = VerdictOf(e)
      /\ status'[r] \in Successful <=> ~RootFailed(e)
      /\ status'[r] \in Failed <=> RootFailed(e)
      /\ \A c \in CallbacksOf(r) : status[c] = "ON_HOLD"
      /\ r \notin DroppedCallbacks(e)
      /\ \A q \in Roots \ {r} :
            status'[q] = IF q \in DroppedCallbacks(e) THEN "DELETED" ELSE status[q]
  BY <1>0, CompleteRootMoves
<1>2. /\ DroppedCallbacks(e) =
            {c \in CallbacksOf(r) :
                RootType[c] = IF RootFailed(e) THEN "ON_SUCCESS" ELSE "ON_FAILURE"}
      /\ HoldingCallbacks(r, ex[e].view) =
            IF RootType[r] = "NORMAL" THEN CallbacksOf(r) \cap Holding ELSE {}
  BY <1>0, CompleteRootMoves
<1>3. /\ \A u \in TasksOf(r) :
            \/ task_status[u] = "FAILED" \/ u \in ex[e].dirty
            \/ task_status[u] \in {"PENDING", "SUCCESSFUL"}
      /\ RootFailed(e) => \E u \in TasksOf(r) :
            task_status[u] = "FAILED" \/ u \in ex[e].dirty
      /\ ~RootFailed(e) => \A u \in TasksOf(r) :
            task_status[u] = "SUCCESSFUL" /\ u \notin ex[e].dirty
  BY <1>0, TreeDone DEF CompleteRoot
<1>4. \A u \in TasksOf(r) : u \in Tasks /\ (MarkedFailed(u) <=> u \in ex[e].dirty)
  BY <1>0, <1>1, OwnMark DEF TasksOf
<1>5. RootFailed(e) <=> \E u \in TasksOf(r) : Phase[u] = "failed"
  BY <1>3, <1>4, PhaseReads
<1>6. \A u \in TasksOf(r) : Phase[u] # "active"
  BY <1>3, <1>4, PhaseReads
<1>7. Verdict[r] = "open" /\ \A c \in CallbacksOf(r) : Verdict[c] = "held"
  BY <1>1 DEF Verdict, Successful, Failed, CallbacksOf
<1>8. Phase' = Phase
  <2>1. PICK x : x = [ex[e] EXCEPT !.pc = "callbacks", !.dirty = {}]
    OBVIOUS
  <2>2. x.dirty = {}
    BY <1>1, <2>1, AtWork DEF ExecutorStates
  <2>3. Becomes(e, x) /\ task_status' = Flush(e)
    BY <2>1 DEF CompleteRoot
  <2>4. \A t \in Tasks : Phase'[t] = Phase[t]
    BY <2>2, <2>3, SamePhase
  <2> QED
    BY <2>4, PhaseTable
<1>9. ASSUME NEW u \in TasksOf(r) PROVE ~Dag!Startable(u)
  <2>1. Phase[u] = "waiting" => Waits(u)
    BY <1>4, <1>9, PhaseReads DEF Waits
  <2>2. Waits(u) => \E p \in Previous[u] : Phase[p] # "done"
    <3> SUFFICES ASSUME Waits(u) PROVE \E p \in Previous[u] : Phase[p] # "done"
      OBVIOUS
    <3>1. PICK p \in Previous[u] : Waits(p) \/ task_status[p] = "FAILED" \/ p \in ex[e].dirty
      BY <1>0, <1>9, NothingStartable DEF CompleteRoot
    <3>2. p \in Tasks /\ task_status[p] # "SUCCESSFUL"
      BY <1>1, <1>4, <1>9, <3>1, ConstantsAssumption, FlushFacts DEF Waits
    <3> QED
      BY <3>1, <3>2, PhaseReads
  <2> QED
    BY <2>1, <2>2 DEF Dag!Startable
<1>10. PICK bad : bad = (\E u \in TasksOf(r) : Phase[u] = "failed")
  OBVIOUS
<1>11. PICK drop : drop = {c \in CallbacksOf(r) : /\ Verdict[c] = "held"
                                                  /\ RootType[c] = IF bad THEN "ON_SUCCESS"
                                                                          ELSE "ON_FAILURE"}
  OBVIOUS
<1>12. bad <=> RootFailed(e)
  BY <1>5, <1>10
<1>13. drop = DroppedCallbacks(e)
  BY <1>2, <1>7, <1>11, <1>12
<1>14. Verdict' = [q \in Roots |-> IF q = r THEN IF bad THEN "failed" ELSE "succeeded"
                                   ELSE IF q \in drop THEN "dropped"
                                   ELSE Verdict[q]]
  <2>1. Verdict'[r] = IF bad THEN "failed" ELSE "succeeded"
    BY <1>1, <1>12 DEF Verdict, Successful, Failed
  <2>2. ASSUME NEW q \in Roots, q # r
        PROVE  Verdict'[q] = IF q \in drop THEN "dropped" ELSE Verdict[q]
    <3>1. status'[q] = IF q \in drop THEN "DELETED" ELSE status[q]
      BY <1>1, <1>13, <2>2
    <3> QED
      BY <3>1 DEF Verdict, Successful, Failed
  <2>3. Verdict' = [q \in Roots |-> Verdict'[q]]
    BY DEF Verdict
  <2> QED
    BY <2>1, <2>2, <2>3
<1>15. Final' = [Final EXCEPT ![r] = Dag!HoldersOf(r) \subseteq drop]
  <2>1. Final'[r] <=> Dag!HoldersOf(r) \subseteq drop
    <3>1. Final'[r] <=> HoldingCallbacks(r, ex[e].view) \ drop = {}
      BY <1>0, <1>1, <1>13 DEF Final, VerdictOf
    <3>2. HoldingCallbacks(r, ex[e].view) = Dag!HoldersOf(r)
      BY <1>2 DEF Dag!HoldersOf, Dag!Calls, CallbacksOf
    <3> QED
      BY <3>1, <3>2
  <2>2. ASSUME NEW q \in Roots, q # r PROVE Final'[q] = Final[q]
    <3>1. q \in drop => status[q] = "ON_HOLD"
      BY <1>1, <1>11
    <3>2. status'[q] = IF q \in drop THEN "DELETED" ELSE status[q]
      BY <1>1, <1>13, <2>2
    <3> QED
      BY <3>1, <3>2 DEF Final
  <2>3. Final' = [q \in Roots |-> Final'[q]] /\ Final'[r] \in BOOLEAN
    BY <1>1 DEF Final
  <2>4. Final = [q \in Roots |-> Final[q]]
    BY DEF Final
  <2> QED
    BY <2>1, <2>2, <2>3, <2>4
<1>16. Dag!Own(r) = TasksOf(r) /\ Dag!Calls(r) = CallbacksOf(r)
  BY DEF Dag!Own, Dag!Calls, TasksOf, CallbacksOf
<1>17. Dag!Close(r)
  BY <1>6, <1>7, <1>8, <1>9, <1>10, <1>11, <1>14, <1>15, <1>16 DEF Dag!Close
<1> QED
  BY <1>1, <1>17

\* Callbacks that are left are released together.
LEMMA ReleaseCallbacksDag ==
  ASSUME Known, NEW e \in Executors, ReleaseCallbacks(e)
  PROVE  (\E r \in Roots : Dag!Release(r)) \/ UNCHANGED dagged
<1>0. PICK r : r = ex[e].root
  OBVIOUS
<1>1. /\ ex[e].pc = "callbacks" /\ ex[e].pc # "idle" /\ UNCHANGED task_status
      /\ status' = [q \in Roots |-> IF q \in CallbacksOf(r) /\ status[q] = "ON_HOLD"
                                    THEN "PENDING" ELSE status[q]]
  BY <1>0 DEF ReleaseCallbacks
<1>2. r \in Roots /\ status[r] \in Completed /\ ex[e].dirty = {}
  BY <1>0, <1>1, AtWork DEF InStep, InScope
<1>3. Phase' = Phase
  <2>1. PICK x : x = [Idle EXCEPT !.pc = "return", !.root = r]
    OBVIOUS
  <2>2. x.dirty = {}
    BY <2>1 DEF Idle
  <2>3. Becomes(e, x)
    BY <1>0, <2>1 DEF ReleaseCallbacks
  <2>4. \A t \in Tasks : Phase'[t] = Phase[t]
    BY <1>1, <1>2, <2>2, <2>3, SamePhase
  <2> QED
    BY <2>4, PhaseTable
<1>4. Final' = Final
  BY <1>1 DEF Final
<1>5. Verdict[r] \in {"succeeded", "failed"}
  BY <1>2 DEF Verdict, Completed, Successful, Failed
<1>6. \A q \in Roots : Verdict[q] = "held" <=> status[q] = "ON_HOLD"
  BY DEF Verdict, Successful, Failed
<1>7. \A q \in Roots : Verdict'[q] = IF q \in CallbacksOf(r) /\ Verdict[q] = "held"
                                     THEN "open" ELSE Verdict[q]
  <2> SUFFICES ASSUME NEW q \in Roots
               PROVE  Verdict'[q] = IF q \in CallbacksOf(r) /\ Verdict[q] = "held"
                                    THEN "open" ELSE Verdict[q]
    OBVIOUS
  <2>1. CASE q \in CallbacksOf(r) /\ status[q] = "ON_HOLD"
    BY <1>1, <1>6, <2>1 DEF Verdict, Successful, Failed
  <2>2. CASE ~(q \in CallbacksOf(r) /\ status[q] = "ON_HOLD")
    BY <1>1, <1>6, <2>2 DEF Verdict
  <2> QED
    BY <2>1, <2>2
<1>8. /\ Verdict = [q \in Roots |-> Verdict[q]]
      /\ Verdict' = [q \in Roots |-> Verdict'[q]]
  BY DEF Verdict
<1>9. CASE \E c \in CallbacksOf(r) : Verdict[c] = "held"
  <2>1. Verdict' = [q \in Roots |-> IF q \in Dag!Calls(r) /\ Verdict[q] = "held"
                                    THEN "open" ELSE Verdict[q]]
    BY <1>7, <1>8 DEF Dag!Calls, CallbacksOf
  <2>2. \E c \in Dag!Calls(r) : Verdict[c] = "held"
    BY <1>9 DEF Dag!Calls, CallbacksOf
  <2>3. Dag!Release(r)
    BY <1>3, <1>4, <1>5, <2>1, <2>2 DEF Dag!Release
  <2> QED
    BY <1>2, <2>3
<1>10. CASE ~(\E c \in CallbacksOf(r) : Verdict[c] = "held")
  <2>1. Verdict' = Verdict
    BY <1>7, <1>8, <1>10
  <2> QED
    BY <1>3, <1>4, <2>1 DEF dagged
<1> QED
  BY <1>9, <1>10

\* A root reports its end once its holders have ended.
LEMMA LeaveDag ==
  ASSUME Known, NEW e \in Executors, Leave(e)
  PROVE  (\E r \in Roots : Dag!Report(r)) \/ UNCHANGED dagged
<1>0. PICK r : r = ex[e].root
  OBVIOUS
<1>1. /\ r \in Roots /\ ex[e].pc = "loop" /\ ex[e].pc # "idle"
      /\ \A q \in Roots \ {r} : status'[q] = status[q]
      /\ \/ status'[r] = status[r]
         \/ /\ status[r] \in WaitingForCallbacks /\ status'[r] = Released(status[r])
            /\ \A c \in CallbacksOf(r) \cap Holding : status[c] \in Completed \cup {"DELETED"}
  BY <1>0, LeaveMoves
<1>2. Phase' = Phase
  <2>1. PICK x : x = [Idle EXCEPT !.pc = "return", !.root = r]
    OBVIOUS
  <2>2. x.dirty = {}
    BY <2>1 DEF Idle
  <2>3. Becomes(e, x) /\ task_status' = Flush(e)
    BY <1>0, <2>1 DEF Leave
  <2>4. \A t \in Tasks : Phase'[t] = Phase[t]
    BY <2>2, <2>3, SamePhase
  <2> QED
    BY <2>4, PhaseTable
<1>3. CASE status'[r] = status[r]
  <2>1. Verdict' = Verdict /\ Final' = Final
    BY <1>1, <1>3 DEF Verdict, Final
  <2> QED
    BY <1>2, <2>1 DEF dagged
<1>4. CASE /\ status[r] \in WaitingForCallbacks /\ status'[r] = Released(status[r])
           /\ \A c \in CallbacksOf(r) \cap Holding : status[c] \in Completed \cup {"DELETED"}
  <2>1. /\ Verdict[r] \in {"succeeded", "failed"} /\ Verdict'[r] = Verdict[r]
        /\ Final[r] = FALSE /\ Final'[r] = TRUE
    <3>1. \/ status[r] \in Successful /\ status'[r] \in Successful
          \/ status[r] \in Failed /\ status'[r] \in Failed
      BY <1>4 DEF WaitingForCallbacks, Released, Successful, Failed
    <3>2. /\ (status[r] \in {"COMPLETED_SUCCESSFULLY", "COMPLETED_WITH_FAILURE"}) = FALSE
          /\ (status'[r] \in {"COMPLETED_SUCCESSFULLY", "COMPLETED_WITH_FAILURE"}) = TRUE
      BY <1>4 DEF WaitingForCallbacks, Released
    <3>3. Verdict[r] \in {"succeeded", "failed"} /\ Verdict'[r] = Verdict[r]
      BY <1>1, <3>1 DEF Verdict, Successful, Failed
    <3>4. /\ Final[r] = (status[r] \in {"COMPLETED_SUCCESSFULLY", "COMPLETED_WITH_FAILURE"})
          /\ Final'[r] = (status'[r] \in {"COMPLETED_SUCCESSFULLY", "COMPLETED_WITH_FAILURE"})
      BY <1>1, Zenon DEF Final
    <3>5. Final[r] = FALSE /\ Final'[r] = TRUE
      BY <3>2, <3>4, Zenon
    <3> QED
      BY <3>3, <3>5
  <2>2. Verdict' = Verdict
    BY <1>1, <2>1 DEF Verdict
  <2>3. \A q \in Roots \ {r} : Final'[q] = Final[q]
    BY <1>1 DEF Final
  <2>4. /\ Final = [q \in Roots |-> Final[q]]
        /\ Final' = [q \in Roots |-> Final'[q]]
    BY DEF Final
  <2>5. Final' = [Final EXCEPT ![r] = TRUE]
    BY <1>1, <2>1, <2>3, <2>4
  <2>6. \A c \in CallbacksOf(r) \cap Holding : Verdict[c] \notin {"held", "open"}
    BY <1>4 DEF Verdict, Completed, Successful, Failed, CallbacksOf
  <2>7. \A c \in Dag!HoldersOf(r) : Verdict[c] \notin {"held", "open"}
    BY <2>6 DEF Dag!HoldersOf, Dag!Calls, CallbacksOf
  <2>8. Dag!Report(r)
    BY <1>2, <2>1, <2>2, <2>5, <2>7 DEF Dag!Report
  <2> QED
    BY <1>1, <2>8
<1> QED
  BY <1>1, <1>3, <1>4

\* A root the manager or its executor only moves on stays open.
LEMMA StaysOpen ==
  ASSUME NEW r \in Roots, status[r] \in {"PENDING", "INITIATED"},
         NEW new \in {"INITIATED", "RUNNING"}, status' = [status EXCEPT ![r] = new],
         status \in [Roots -> RootStatuses], UNCHANGED <<task_status, Phase>>
  PROVE  UNCHANGED dagged
<1>1. \A q \in Roots : Verdict'[q] = Verdict[q] /\ Final'[q] = Final[q]
  BY DEF Verdict, Final, Successful, Failed
<1>2. Verdict' = Verdict /\ Final' = Final
  BY <1>1 DEF Verdict, Final
<1> QED
  BY <1>2 DEF dagged

-----------------------------------------------------------------------------
(* Every step.                                                             *)

LEMMA ManagerDag ==
  ASSUME Known, ManagerNext
  PROVE  UNCHANGED dagged
<1>1. ASSUME NEW r \in Roots, ManagerInitiate(r) PROVE UNCHANGED dagged
  <2>1. UNCHANGED Phase
    BY <1>1 DEF ManagerInitiate, Phase
  <2> QED
    BY <1>1, <2>1, StaysOpen DEF ManagerInitiate, Known, TypeOK, TablesOK
<1>2. ASSUME UNCHANGED <<tables, ex>> PROVE UNCHANGED dagged
  BY <1>2 DEF tables, dagged, Phase, Verdict, Final
<1> QED
  BY <1>1, <1>2 DEF ManagerNext, ManagerScan, ManagerDelay

\* Statements of an executor that write nothing the tree sees.
LEMMA QuietDag ==
  ASSUME Known, NEW e \in Executors, ex[e].pc # "idle", NEW x, Becomes(e, x),
         UNCHANGED <<status, task_status>>, x.dirty = ex[e].dirty
  PROVE  UNCHANGED dagged
BY SamePhase, SameDag

LEMMA ExecutorDag ==
  ASSUME Known, ExecutorNext
  PROVE  [Dag!DagNext]_dagged
<1>1. ASSUME NEW e \in Executors, ExecutorStep(e) PROVE [Dag!DagNext]_dagged
  <2>0. ex[e].pc # "idle" => ex[e] \in ExecutorStates /\ InScope(ex[e])
    BY AtWork
  <2>1. CASE BeginInitiated(e)
    <3>1. PICK r : r = ex[e].root
      OBVIOUS
    <3>2. PICK x : x = [ex[e] EXCEPT !.pc = "list"]
      OBVIOUS
    <3>3. /\ ex[e].pc = "begin" /\ ex[e].pc # "idle" /\ Becomes(e, x) /\ UNCHANGED task_status
          /\ status[r] = "INITIATED" /\ status' = [status EXCEPT ![r] = "RUNNING"]
      BY <2>1, <3>1, <3>2 DEF BeginInitiated
    <3>4. x.dirty = ex[e].dirty
      BY <2>0, <3>2, <3>3 DEF ExecutorStates
    <3>5. r \in Roots
      BY <3>1, <3>3, AtWork
    <3>6. \A t \in Tasks : Phase'[t] = Phase[t]
      BY <3>3, <3>4, SamePhase
    <3>7. UNCHANGED Phase
      BY <3>6, PhaseTable
    <3> QED
      BY <3>3, <3>5, <3>7, StaysOpen DEF Known, TypeOK, TablesOK
  <2>2. CASE BeginRunning(e) \/ BeginOther(e) \/ ListFirst(e)
    <3>1. PICK y : /\ y \in {[ex[e] EXCEPT !.pc = "loop", !.view = View(ex[e].root),
                                !.todo = {t \in TasksOf(ex[e].root) : in_focus[t]},
                                !.listed = {t \in TasksOf(ex[e].root) : in_focus[t]}],
                             [ex[e] EXCEPT !.pc = "loop", !.view = View(ex[e].root)],
                             [ex[e] EXCEPT !.pc = "loop", !.view = View(ex[e].root),
                                !.first = TRUE, !.todo = FirstTasks(ex[e].root)]}
                   /\ Becomes(e, y)
      BY <2>2 DEF BeginRunning, BeginOther, ListFirst
    <3>2. ex[e].pc # "idle" /\ UNCHANGED <<status, task_status>>
      BY <2>2 DEF BeginRunning, BeginOther, ListFirst, tables
    <3>3. y.dirty = ex[e].dirty
      BY <2>0, <3>1, <3>2 DEF ExecutorStates
    <3> QED
      BY <3>1, <3>2, <3>3, QuietDag
  <2>3. ASSUME NEW t \in Tasks, PassOver(e, t) \/ CountActive(e, t)
        PROVE  [Dag!DagNext]_dagged
    <3>1. PICK y : /\ y \in {Visited(e, t), [Visited(e, t) EXCEPT !.count = @ + 1]}
                   /\ Becomes(e, y)
      BY <2>3 DEF PassOver, CountActive
    <3>2. ex[e].pc # "idle" /\ UNCHANGED <<status, task_status>>
      BY <2>3 DEF PassOver, CountActive, Turn, tables
    <3>3. y.dirty = ex[e].dirty
      BY <2>0, <3>1, <3>2 DEF ExecutorStates, Visited
    <3> QED
      BY <3>1, <3>2, <3>3, QuietDag
  <2>4. CASE DispatchWait(e) \/ AppendNext(e)
    <3>1. PICK new : new = NextTasks(ex[e].cur) \ ex[e].listed
      OBVIOUS
    <3>2. PICK y : /\ y \in {[ex[e] EXCEPT !.pc = "loop", !.cur = None, !.count = @ + 1,
                                !.view = View(ex[e].root)],
                             [ex[e] EXCEPT !.pc = "loop", !.cur = None,
                                !.view = View(ex[e].root),
                                !.added = @ \cup new, !.listed = @ \cup new]}
                   /\ Becomes(e, y)
      BY <2>4, <3>1 DEF DispatchWait, AppendNext
    <3>3. ex[e].pc # "idle" /\ UNCHANGED <<status, task_status>>
      BY <2>4 DEF DispatchWait, AppendNext, tables
    <3>4. y.dirty = ex[e].dirty
      BY <2>0, <3>2, <3>3 DEF ExecutorStates
    <3> QED
      BY <3>2, <3>3, <3>4, QuietDag
  <2>5. ASSUME NEW t \in Tasks, Acknowledge(e, t) PROVE [Dag!DagNext]_dagged
    <3>1. PICK x : x = [Visited(e, t) EXCEPT !.pc = "append", !.cur = t, !.dirty = {}]
      OBVIOUS
    <3>2. Becomes(e, x) /\ UNCHANGED status /\ task_status' = Flush(e) /\ ex[e].pc # "idle"
      BY <2>5, <3>1 DEF Acknowledge, Turn
    <3>3. x.dirty = {}
      BY <2>0, <3>1, <3>2 DEF ExecutorStates, Visited
    <3> QED
      BY <3>2, <3>3, SamePhase, SameDag
  <2>6. CASE ExecutorRelease(e)
    <3>1. /\ ex[e].pc # "idle" /\ Becomes(e, Idle) /\ UNCHANGED <<status, task_status>>
          /\ ex[e].pc = "return"
      BY <2>6 DEF ExecutorRelease, tables
    <3>2. Idle.dirty = ex[e].dirty
      BY <2>0, <3>1 DEF InScope, Idle
    <3> QED
      BY <3>1, <3>2, QuietDag
  <2>7. ASSUME NEW t \in Tasks, InitiateTask(e, t) \/ InitiateWait(e, t) \/ WaitUnmapped(e, t)
        PROVE  [Dag!DagNext]_dagged
    BY <2>7, InitiateTaskDag, InitiateWaitDag, WaitUnmappedDag DEF Dag!DagNext
  <2>8. CASE DispatchRun(e) \/ CompleteRoot(e) \/ ReleaseCallbacks(e) \/ Leave(e)
    BY <2>8, DispatchRunDag, CompleteRootDag, ReleaseCallbacksDag, LeaveDag DEF Dag!DagNext
  <2> QED
    BY <1>1, <2>1, <2>2, <2>3, <2>4, <2>5, <2>6, <2>7, <2>8 DEF ExecutorStep
<1>2. ASSUME NEW e \in Executors, NEW r \in Roots, ExecutorTake(e, r)
      PROVE  UNCHANGED dagged
  <2>1. PICK y : /\ y \in {[Idle EXCEPT !.pc = "return", !.root = r],
                           [Idle EXCEPT !.pc = "begin", !.root = r]}
                 /\ Becomes(e, y)
    BY <1>2 DEF ExecutorTake
  <2>2. ex[e].dirty = {}
    BY <1>2 DEF ExecutorTake, Known, IInv, ExecutorsInOrder
  <2>3. y.dirty = ex[e].dirty
    BY <2>1, <2>2 DEF Idle
  <2> QED
    BY <1>2, <2>1, <2>3, SamePhase, SameDag DEF ExecutorTake
<1> QED
  BY <1>1, <1>2 DEF ExecutorNext

LEMMA WorkerDag ==
  ASSUME Known, WorkerNext
  PROVE  [Dag!DagNext]_dagged
<1> SUFFICES ASSUME NEW t \in Tasks, NEW kind \in {"RUN", "WAIT"},
                    \/ StartJob(t, kind) \/ ReleaseJob(t, kind) \/ RaiseJob(t, kind)
                    \/ \E outcome \in TaskStatuses : FinishJob(t, kind, outcome)
             PROVE  [Dag!DagNext]_dagged
  BY DEF WorkerNext
<1>1. task_status \in [Tasks -> TaskStatuses]
  BY DEF Known, TypeOK, TablesOK
<1>2. CASE ReleaseJob(t, kind)
  BY <1>2 DEF ReleaseJob, tables, dagged, Phase, Verdict, Final
<1>3. ASSUME jobQueue[<<t, kind>>] > 0 \/ working[<<t, kind>>] > 0,
             NEW after \in {"RUNNING", "SUCCESSFUL", "FAILED", "RUNNING_WAIT"},
             task_status' = [task_status EXCEPT ![t] = after], UNCHANGED <<status, ex>>
      PROVE  [Dag!DagNext]_dagged
  <2>1. \A u \in Tasks : MarkedFailed(u)' <=> MarkedFailed(u)
    BY <1>3 DEF MarkedFailed
  <2>2. \A u \in Tasks \ {t} : Phase'[u] = Phase[u]
    BY <1>1, <1>3, <2>1 DEF Phase, MarkedFailed
  <2>3. ~MarkedFailed(t) /\ task_status[t] \in Active
    BY <1>3, CalledTask DEF MarkedFailed
  <2>4. Phase[t] = "active"
    BY <2>3, PhaseReads DEF Active
  <2>5. ~MarkedFailed(t)' /\ task_status'[t] = after
    BY <1>1, <1>3, <2>1, <2>3
  <2>6. Phase'[t] = CASE after = "SUCCESSFUL" -> "done" [] after = "FAILED" -> "failed"
                      [] OTHER -> "active"
    BY <2>5 DEF Phase, MarkedFailed
  <2>7. CASE after \in {"SUCCESSFUL", "FAILED"}
    <3>1. Phase'[t] \in {"done", "failed"}
      BY <2>6, <2>7
    <3>2. Dag!End(t)
      BY <1>3, <2>2, <2>4, <3>1, TaskEnds
    <3> QED
      BY <3>2 DEF Dag!DagNext
  <2>8. CASE after \in {"RUNNING", "RUNNING_WAIT"}
    <3>1. Phase'[t] = Phase[t]
      BY <2>4, <2>6, <2>8
    <3> QED
      BY <1>3, <2>2, <3>1, SameDag
  <2> QED
    BY <2>7, <2>8
<1>4. CASE StartJob(t, kind)
  BY <1>3, <1>4, CalledTask DEF StartJob
<1>5. ASSUME NEW outcome \in TaskStatuses, FinishJob(t, kind, outcome)
      PROVE  [Dag!DagNext]_dagged
  BY <1>3, <1>5, CalledTask DEF FinishJob
<1>6. CASE RaiseJob(t, kind)
  BY <1>3, <1>6, CalledTask DEF RaiseJob
<1> QED
  BY <1>2, <1>4, <1>5, <1>6

LEMMA InitDag == Init => Dag!DagInit
<1> SUFFICES ASSUME Init PROVE Dag!DagInit
  OBVIOUS
<1>1. \A e \in Executors : ex[e].dirty = {}
  BY DEF Init, Idle
<1>2. Phase = [t \in Tasks |-> "waiting"]
  BY <1>1 DEF Init, Phase
<1>3. Verdict = [r \in Roots |-> IF RootType[r] = "NORMAL" THEN "open" ELSE "held"]
  <2>1. \A r \in Roots : Verdict[r] = IF RootType[r] = "NORMAL" THEN "open" ELSE "held"
    BY DEF Init, Verdict, Successful, Failed
  <2>2. Verdict = [r \in Roots |-> Verdict[r]]
    BY DEF Verdict
  <2> QED
    BY <2>1, <2>2
<1>4. Final = [r \in Roots |-> FALSE]
  <2>1. \A r \in Roots :
           (status[r] \in {"COMPLETED_SUCCESSFULLY", "COMPLETED_WITH_FAILURE"}) = FALSE
    BY DEF Init
  <2> QED
    BY <2>1, Zenon DEF Final
<1> QED
  BY <1>2, <1>3, <1>4 DEF Dag!DagInit

\* Whatever the trees, the number of executors and the interleaving, the engine
\* without faults is the tree of module WorkflowDag: it starts a task once and
\* after those before it, gives a verdict when nothing can run any more, releases
\* the callbacks of that verdict and reports the end after those that hold it.
THEOREM RefinementCorrect ==
  ASSUME FaultKinds = {}
  PROVE  Spec => ImplementsDag
<1>0. "worker_ready" \notin FaultKinds
  OBVIOUS
<1>1. Known /\ [Next]_vars => [Dag!DagNext]_dagged
  <2> SUFFICES ASSUME Known, [Next]_vars PROVE [Dag!DagNext]_dagged
    OBVIOUS
  <2>1. ~FaultNext
    BY DEF FaultNext, ExecutorRaise, ExecutorCrash, WorkerCrash, ManagerCrash, UnlockAll, Fault
  <2>2. CASE UNCHANGED vars
    BY <2>2 DEF vars, tables, dagged, Phase, Verdict, Final
  <2> QED
    BY <2>1, <2>2, ManagerDag, ExecutorDag, WorkerDag DEF Next
<1>2. Spec => []Known
  BY <1>0, OrderCorrect
<1>3. [Dag!DagNext]_dagged => [Dag!DagNext]_(Dag!dag)
  BY DEF dagged, Dag!dag
<1> QED
  BY <1>1, <1>2, <1>3, InitDag, PTL DEF Spec, ImplementsDag, Dag!DagSpec
=============================================================================

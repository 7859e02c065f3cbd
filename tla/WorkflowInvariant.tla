------------------------- MODULE WorkflowInvariant --------------------------
(***************************************************************************)
(* Why the engine of module Workflow is safe: an inductive invariant, one  *)
(* named clause for each reason.  It holds as long as no worker service    *)
(* comes up and drops the singleton locks, whatever crashes or raises.     *)
(***************************************************************************)
EXTENDS Workflow

\* Where an executor is in the middle of a tree.
Walking == {"loop", "run", "wait", "append"}

\* Roots whose executor has not been called yet, or never will be.
Uncalled == {"ON_HOLD", "PENDING", "DELETED"}

Waits(t) == task_status[t] = "PENDING"

\* No message is left for job j and no worker is inside it.
NoCall(j) == jobQueue[j] = 0 /\ working[j] = 0

(***************************************************************************)
(* A task has at most one call, and the status says of which function and  *)
(* how far it is.                                                          *)
(***************************************************************************)
CallOf(t) ==
    LET run == <<t, "RUN">>
        wait == <<t, "WAIT">> IN
    /\ task_status[t] \notin Active => NoCall(run) /\ NoCall(wait)
    /\ task_status[t] = "INITIATED" =>
          jobQueue[run] \in {0, 1} /\ working[run] = 0 /\ NoCall(wait)
    /\ task_status[t] = "RUNNING_WAIT_INITIATED" =>
          jobQueue[wait] \in {0, 1} /\ working[wait] = 0 /\ NoCall(run)
    /\ task_status[t] = "RUNNING" =>
          /\ jobQueue[run] = 0 /\ jobQueue[wait] = 0
          /\ \/ working[run] = 0 /\ working[wait] \in {0, 1}
             \/ working[run] = 1 /\ working[wait] = 0

\* A task an executor is about to send has no call yet, nor has one it has
\* marked FAILED.
SenderOf(x) ==
    /\ x.pc = "run" => task_status[x.cur] = "INITIATED" /\ NoCall(<<x.cur, "RUN">>)
    /\ x.pc = "wait" =>
          task_status[x.cur] = "RUNNING_WAIT_INITIATED" /\ NoCall(<<x.cur, "WAIT">>)
    /\ \A t \in x.dirty :
          task_status[t] \in {"INITIATED", "RUNNING_WAIT"} /\ NoCall(<<t, "RUN">>)

OneCallPerTask ==
    /\ \A t \in Tasks : CallOf(t)
    /\ \A e \in Executors : SenderOf(ex[e])

(***************************************************************************)
(* Roots: what the manager holds has not been called before it is          *)
(* INITIATED, and callbacks are on hold until their parent has a verdict.  *)
(***************************************************************************)
RootsInOrder ==
    /\ \A r \in scan : status[r] \notin {"ON_HOLD", "DELETED"}
    /\ picked # None => picked \in scan /\ status[picked] = "INITIATED"
                                       /\ picked \notin rootLock
    /\ \A r \in Roots : status[r] \in Uncalled => r \notin rootLock
    /\ \A q \in Roots :
          RootType[q] # "NORMAL" /\ status[Parent[q]] \notin Completed =>
              status[q] = "ON_HOLD"

\* Nothing of a root is started before its executor has made it RUNNING.
Untouched ==
    /\ \A t \in Tasks :
          status[RootOf[t]] \in Uncalled \cup {"INITIATED"} => Waits(t)
    /\ \A e \in Executors : ex[e].pc = "list" =>
          \A t \in TasksOf(ex[e].root) : Waits(t)

\* A task is in focus from its start until its success is acknowledged.
Focused ==
    \A t \in Tasks : IF in_focus[t] THEN ~Waits(t)
                                    ELSE task_status[t] \in {"PENDING", "SUCCESSFUL"}

(***************************************************************************)
(* Executors: they keep to the tasks of their root, carry unwritten marks  *)
(* only in the loop, and walk only what is RUNNING.                        *)
(***************************************************************************)
InScope(x) ==
    /\ x.todo \cup x.added \cup x.listed \cup x.dirty \subseteq TasksOf(x.root)
    /\ x.pc \in {"run", "wait", "append"} => x.cur \in TasksOf(x.root)
    /\ x.pc # "loop" => x.dirty = {}
    /\ x.pc \notin Walking => x.todo = {} /\ x.added = {}
    /\ x.pc \in {"begin", "list"} => ~x.first /\ x.count = 0

InStep(x) ==
    /\ x.pc = "begin" => status[x.root] \in {"INITIATED", "RUNNING"} \cup Completed
    /\ x.pc \in {"list", "run", "wait", "append"} => status[x.root] = "RUNNING"
    /\ x.pc = "loop" =>
          /\ x.view.root[x.root] = status[x.root]
          /\ status[x.root] \in {"RUNNING"} \cup Completed
          /\ status[x.root] # "RUNNING" =>
                x.todo = {} /\ x.added = {} /\ x.dirty = {} /\ x.count = 0
    /\ x.pc = "callbacks" => status[x.root] \in Completed

\* What an old snapshot still says: that a task has not been started, is up for
\* a poll, succeeded or failed.
TaskSeen(x, t) ==
    /\ x.view.task[t] = "SUCCESSFUL" => task_status[t] = "SUCCESSFUL"
    /\ x.view.task[t] = "FAILED" => task_status[t] = "FAILED" \/ t \in x.dirty
    /\ x.pc = "loop" =>
          /\ x.view.task[t] = "PENDING" <=> Waits(t)
          /\ x.view.task[t] = "RUNNING_WAIT" =>
                task_status[t] = "RUNNING_WAIT" /\ t \notin x.dirty
          /\ t \in x.dirty => x.view.task[t] = "FAILED"
          /\ ~in_focus[t] => x.view.task[t] \in {"PENDING", "SUCCESSFUL"}

\* The same of the callbacks of its root.
CallbackSeen(x, c) ==
    /\ x.view.root[c] = "DELETED" => status[c] = "DELETED"
    /\ x.view.root[c] \in Completed => status[c] \in Completed

ViewHolds(x) ==
    /\ x.pc \in Walking => \A t \in TasksOf(x.root) : TaskSeen(x, t)
    /\ x.pc = "loop" => \A c \in CallbacksOf(x.root) : CallbackSeen(x, c)

(***************************************************************************)
(* The walk.  Every task in focus has its turn before the tree is called   *)
(* done, or something is counted; every task that could be started has     *)
(* been appended, or waits for one whose turn has gone by.                 *)
(***************************************************************************)
TurnsTaken(x) ==
    \A t \in TasksOf(x.root) : in_focus[t] =>
        \/ t \in x.todo
        \/ x.count > 0
        \/ x.pc \in {"run", "wait"} /\ x.cur = t
        \/ x.view.task[t] = "FAILED"

\* The first walk starts the tasks without predecessors.
FirstWalk(x) ==
    /\ x.pc \in {"loop", "run"}
    /\ x.todo \subseteq FirstTasks(x.root) /\ x.added = {}
    /\ \A t \in x.todo : Waits(t)
    /\ \A t \in TasksOf(x.root) : Waits(t) \/ in_focus[t]
    /\ \A t \in FirstTasks(x.root) : Waits(t) => t \in x.todo

\* Task u waits for a predecessor that has not been acknowledged.
HeldBack(u) == \E p \in Previous[u] : Waits(p) \/ in_focus[p]

LaterWalk(x) ==
    /\ x.added \subseteq x.listed
    /\ \A t \in x.todo : in_focus[t]
    /\ \A t \in x.added : ~in_focus[t]
    /\ \A t \in TasksOf(x.root) : in_focus[t] => t \in x.listed
    /\ \A u \in TasksOf(x.root) : Waits(u) /\ u \notin x.added =>
          IF u \in x.listed
          THEN \E p \in Previous[u] : Waits(p) \/ (in_focus[p] /\ p \notin x.todo)
          ELSE HeldBack(u) \/ (x.pc = "append" /\ x.cur \in Previous[u])

WalkOf(x) ==
    x.pc \in Walking /\ status[x.root] = "RUNNING" =>
        /\ TurnsTaken(x)
        /\ IF x.first THEN FirstWalk(x) ELSE LaterWalk(x)

ExecutorsInOrder ==
    \A e \in Executors :
        IF ex[e].pc = "idle"
        THEN ex[e].dirty = {}
        ELSE InScope(ex[e]) /\ InStep(ex[e]) /\ ViewHolds(ex[e]) /\ WalkOf(ex[e])

(***************************************************************************)
(* Between two walks of a RUNNING root whose executor is not lost, every   *)
(* task that waits is held back.                                           *)
(***************************************************************************)
BetweenWalks(r) ==
    /\ status[r] = "RUNNING" /\ ~Abandoned(r)
    /\ \A e \in Executors : ex[e].root = r => ex[e].pc \in {"begin", "return"}

NothingForgotten ==
    \A r \in Roots : BetweenWalks(r) => \A u \in TasksOf(r) : Waits(u) => HeldBack(u)

(***************************************************************************)
(* Verdicts.                                                               *)
(***************************************************************************)
StartedInOrder ==
    \A t \in Tasks : ~Waits(t) => \A p \in Previous[t] : task_status[p] = "SUCCESSFUL"

VerdictsStand ==
    /\ \A t \in Tasks : status[RootOf[t]] \in Completed /\ ~Abandoned(RootOf[t]) =>
          task_status[t] \in {"PENDING", "SUCCESSFUL", "FAILED"}
    /\ SuccessfulMeansAll
    /\ FailedMeansSome
    /\ \A r \in Roots : status[r] \in WaitingForCallbacks => RootType[r] = "NORMAL"

IInv ==
    /\ OneCallPerTask /\ RootsInOrder /\ Untouched /\ Focused
    /\ ExecutorsInOrder /\ NothingForgotten /\ StartedInOrder /\ VerdictsStand

(***************************************************************************)
(* The life of a task.  Its message is taken only while it is INITIATED.   *)
(***************************************************************************)
TaskMove(t) ==
    LET before == task_status[t]
        after == task_status'[t] IN
    /\ \/ after = before
       \/ before = "PENDING" /\ after = "INITIATED"
       \/ before \in {"INITIATED", "RUNNING_WAIT_INITIATED"} /\ after = "RUNNING"
       \/ before = "RUNNING" /\ after \in {"SUCCESSFUL", "FAILED", "RUNNING_WAIT"}
       \/ before = "RUNNING_WAIT" /\ after = "RUNNING_WAIT_INITIATED"
       \/ before \in {"INITIATED", "RUNNING_WAIT"} /\ after = "FAILED"
    /\ jobQueue'[<<t, "RUN">>] < jobQueue[<<t, "RUN">>] => before = "INITIATED"

(***************************************************************************)
(* The life of a root, as long as no executor raises.  Its verdict decides *)
(* which callbacks go, and it waits for those that hold it.                *)
(***************************************************************************)
RootMove(r) ==
    LET before == status[r]
        after == status'[r] IN
    \/ after = before
    \/ before = "ON_HOLD" /\ after \in {"PENDING", "DELETED"}
    \/ before = "PENDING" /\ after = "INITIATED"
    \/ before = "INITIATED" /\ after = "RUNNING"
    \/ /\ before = "RUNNING" /\ after \in Completed
       /\ \A c \in CallbacksOf(r) :
             RootType[c] = (IF after \in Failed THEN "ON_SUCCESS" ELSE "ON_FAILURE") =>
                 status'[c] = "DELETED"
    \/ /\ before \in WaitingForCallbacks /\ after = Released(before)
       /\ \A c \in CallbacksOf(r) \cap Holding : status[c] \in Completed \cup {"DELETED"}

\* Without exceptions in executors: the callbacks for the other verdict are gone.
CallbacksDropped ==
    \A q \in Roots : RootType[q] # "NORMAL" =>
        /\ RootType[q] = "ON_SUCCESS" /\ status[Parent[q]] \in Failed =>
              status[q] = "DELETED"
        /\ RootType[q] = "ON_FAILURE" /\ status[Parent[q]] \in Successful =>
              status[q] = "DELETED"
=============================================================================

---------------------------- MODULE ResourceTask ----------------------------
(***************************************************************************)
(* One provider task: the functions of its MAPPER entry run by a worker    *)
(* against the provider, while the provider, its console, discovery and    *)
(* the janitor go on.  The functions are the scripts of Table.             *)
(*                                                                         *)
(* A function is a series of sessions separated by calls.  In a session it *)
(* sees the committed state (db) with its own changes (s); a commit makes  *)
(* them the committed state, the end of the session without a commit drops *)
(* them.  The others act between the sessions.                             *)
(***************************************************************************)
EXTENDS Naturals, Sequences, FiniteSetsExt, TaskScript

CONSTANTS
  Table,      \* kind of task -> [does, unique, run, wait]
  MaxRows,    \* how many rows of the resource the model counts
  Items       \* how many items a loop goes through at most

ASSUME TableAssumption ==
  \A k \in DOMAIN Table :
    /\ Table[k].does \in {"create", "delete", "act"}
    /\ Table[k].unique \in BOOLEAN
ASSUME BoundsAssumption == MaxRows \in Nat \ {0, 1} /\ Items \in Nat

Kinds == DOMAIN Table

VARIABLES
  kind,     \* the task's (task_type, resource_type), by the name of its function
  todo,     \* what the running function has still to do; <<>>: none runs
  open,     \* the function has a session
  db,       \* the committed state: the task, its resource's rows and log
  s,        \* the same as the open session sees it
  cloud,    \* the resource at the provider
  reply,    \* the answer to the last call
  accepted, \* the provider has accepted the task's creation or deletion
  left,     \* how many items the loop that runs may still go through
  trouble   \* something this task depends on has failed it, or discovery was first

vars == <<kind, todo, open, db, s, cloud, reply, accepted, left, trouble>>

Clouds == {"none", "pending", "stable", "failed", "deleting"}
Answers == {"pending", "stable", "failed", "deleting"}
Statuses == {"PENDING", "INITIATED", "RUNNING", "RUNNING_WAIT", "RUNNING_WAIT_INITIATED",
             "SUCCESSFUL", "FAILED", "gone"}
Views == [status : Statuses, rows : 0..MaxRows, noted : BOOLEAN, named : BOOLEAN,
          log : SUBSET {"ADDED", "DELETED", "UPDATED"}]

TypeOK ==
  /\ kind \in Kinds /\ open \in BOOLEAN
  /\ db \in Views /\ s \in Views
  /\ cloud \in Clouds
  /\ reply \in Clouds \cup {"gone", "refused"}
  /\ accepted \in BOOLEAN /\ left \in 0..Items /\ trouble \in BOOLEAN

does == Table[kind].does
Head1 == Head(todo)
Rest == Tail(todo)
Idle == todo = <<>>

Init ==
  /\ kind \in Kinds
  /\ todo = <<>> /\ open = FALSE
  /\ cloud = IF does = "create" THEN "none" ELSE "stable"
  /\ db = [status |-> "PENDING", rows |-> IF does = "create" THEN 0 ELSE 1,
           noted |-> FALSE, named |-> FALSE, log |-> {}]
  /\ s = db
  /\ reply = "none" /\ accepted = FALSE /\ left = 0 /\ trouble = FALSE

----------------------------------------------------------------------------
\* How an operation ends.

\* The function goes on with t.  Its session ends where t begins with a call
\* or the function returns; what was not committed is then dropped.
GoOn(t, view) ==
  /\ todo' = t
  /\ open' = (t # <<>> /\ Head(t).op # "Call")
  /\ s' = IF open' THEN view ELSE db'

\* An operation that changes nothing but what remains to be done.
Jump(t) == UNCHANGED <<kind, db, cloud, reply, accepted, left, trouble>> /\ GoOn(t, s)

\* The session's view becomes v, not committed.
Change(v) == UNCHANGED <<kind, db, cloud, reply, accepted, left, trouble>> /\ GoOn(Rest, v)

\* The session's view v is committed, and the function goes on with t.
Store(v, t) ==
  /\ db' = v
  /\ GoOn(t, v)
  /\ UNCHANGED <<kind, cloud, reply, accepted, left>>

\* IBMWorkflowTasksBase.on_failure: FAILED in a session of its own.
OnFailure(t) ==
  /\ Store(IF db.status = "gone" THEN db ELSE [db EXCEPT !.status = "FAILED"], <<>>)
  /\ trouble' = t

\* The next operation is one of ops, and the session it needs is open.
Next1(ops) == open /\ ~Idle /\ Head1.op \in ops

----------------------------------------------------------------------------
\* The worker takes the task: RUN the first time, WAIT after RUNNING_WAIT.

RunTask ==
  /\ Idle /\ db.status = "PENDING"
  /\ Store([db EXCEPT !.status = "INITIATED"], <<Close>> \o Table[kind].run)
  /\ UNCHANGED trouble

\* Mutant: a task that has failed is polled on.
WaitTask_failed ==
  /\ Idle /\ db.status \in {"RUNNING_WAIT", "FAILED"} /\ Table[kind].wait # <<>>
  /\ Store([db EXCEPT !.status = "RUNNING_WAIT_INITIATED"], <<Close>> \o Table[kind].wait)
  /\ UNCHANGED trouble
WaitTask ==
  /\ Idle /\ db.status = "RUNNING_WAIT" /\ Table[kind].wait # <<>>
  /\ Store([db EXCEPT !.status = "RUNNING_WAIT_INITIATED"], <<Close>> \o Table[kind].wait)
  /\ UNCHANGED trouble

\* A session starts by reading the task; if it is gone the function returns.
OpenSession ==
  /\ ~open /\ ~Idle /\ Head1.op # "Call"
  /\ todo' = IF db.status = "gone" THEN <<>> ELSE todo
  /\ open' = (db.status # "gone")
  /\ UNCHANGED <<kind, db, s, cloud, reply, accepted, left, trouble>>

CloseSession ==
  /\ Next1({"Close"})
  /\ todo' = Rest /\ open' = FALSE /\ s' = db
  /\ UNCHANGED <<kind, db, cloud, reply, accepted, left, trouble>>

SetStatus ==
  /\ Next1({"Put"})
  /\ Change([s EXCEPT !.status = Head1.arg])

\* Mutant: a function returns without the commit.
CommitChanges_forgotten ==
  /\ \/ Next1({"Commit"}) /\ Store(s, Rest)
     \/ Next1({"Running"}) /\ Store([s EXCEPT !.status = Head1.arg], Rest)
     \/ Next1({"Exit"}) /\ Store(db, <<>>)
  /\ UNCHANGED trouble
CommitChanges ==
  /\ \/ Next1({"Commit"}) /\ Store(s, Rest)
     \/ Next1({"Running"}) /\ Store([s EXCEPT !.status = Head1.arg], Rest)
     \/ Next1({"Exit"}) /\ Store([s EXCEPT !.status = Head1.arg], <<>>)
  /\ UNCHANGED trouble

ReturnFromTask == Next1({"Return"}) /\ Jump(<<>>)
RaiseInTask == Next1({"Raise"}) /\ OnFailure(trouble)

\* Rows of other resources, and data, that the model does not hold: they are
\* there or they are not.
LookUp ==
  \/ Next1({"Needs", "Missing", "Uses"}) /\ Jump(Rest)
  \/ Next1({"Needs"}) /\ Store([s EXCEPT !.status = "FAILED"], <<>>) /\ trouble' = TRUE
  \/ /\ Next1({"Missing"}) /\ trouble' = TRUE
     /\ UNCHANGED <<kind, db, cloud, reply, accepted, left>> /\ GoOn(Head1.body \o Rest, s)
  \/ Next1({"Uses"}) /\ OnFailure(TRUE)

\* Mutant: a resource that has failed passes for one that is ready.
Branch_credulous ==
  \/ Next1({"When"}) /\ (Jump(Head1.body \o Rest) \/ Jump(Head1.other \o Rest))
  \/ Next1({"Row"}) /\ Jump((IF s.rows > 0 THEN Head1.body ELSE Head1.other) \o Rest)
  \/ /\ Next1({"On"})
     /\ LET status == IF reply = "failed" THEN "stable" ELSE reply
        IN  Jump((IF status \in Head1.arg THEN Head1.body ELSE Head1.other) \o Rest)
Branch ==
  \/ Next1({"When"}) /\ (Jump(Head1.body \o Rest) \/ Jump(Head1.other \o Rest))
  \/ Next1({"Row"}) /\ Jump((IF s.rows > 0 THEN Head1.body ELSE Head1.other) \o Rest)
  \/ Next1({"On"})
     /\ Jump((IF reply \in Head1.arg THEN Head1.body ELSE Head1.other) \o Rest)

\* A loop over a list of up to Items items; no loop runs within another.  While
\* it runs, "Again" stands where an iteration ends.
Again == [Head1 EXCEPT !.op = "Again"]
Loop ==
  \/ /\ Next1({"Each"}) /\ left' = Items
     /\ UNCHANGED <<kind, db, cloud, reply, accepted, trouble>> /\ GoOn(<<Again>> \o Rest, s)
  \/ Next1({"Again"}) /\ Jump(Rest)
  \/ /\ Next1({"Again"}) /\ left > 0 /\ left' = left - 1
     /\ UNCHANGED <<kind, db, cloud, reply, accepted, trouble>> /\ GoOn(Head1.body \o todo, s)
  \/ /\ Next1({"Continue"})
     /\ LET end == Min({i \in DOMAIN todo : todo[i].op = "Again"})
        IN  Jump(SubSeq(todo, end, Len(todo)))

\* A second row of the same resource violates the table's unique constraint,
\* where it has one.
SaveRow ==
  /\ Next1({"Save"})
  /\ IF s.rows > 0 /\ Table[kind].unique
     THEN OnFailure(trouble)
     ELSE Change([s EXCEPT !.rows = IF @ < MaxRows THEN @ + 1 ELSE @])

\* Mutant: the row stays.
DropRow_lost == Next1({"Drop"}) /\ Jump(Rest)
DropRow == Next1({"Drop"}) /\ Change([s EXCEPT !.rows = 0])
\* Mutant: the log is not written.
LogRow_lost == Next1({"Log"}) /\ Jump(Rest)
LogRow == Next1({"Log"}) /\ Change([s EXCEPT !.log = @ \cup {Head1.arg}])
\* Mutant: what the provider called the resource is forgotten.
NoteId_lost == Next1({"Note"}) /\ Jump(Rest)
NoteId == Next1({"Note"}) /\ Change([s EXCEPT !.noted = TRUE])
\* Mutant: the task is not told of its row.
PointAtRow_lost == Next1({"Point"}) /\ Jump(Rest)
PointAtRow == Next1({"Point"}) /\ Change([s EXCEPT !.named = TRUE])
RecallId == Next1({"Recall"}) /\ IF s.noted THEN Jump(Rest) ELSE OnFailure(trouble)

----------------------------------------------------------------------------
\* Calls.

\* The provider takes its time over what the program asks after.
Slow(task) ==
  \/ task.wait # <<>>
  \/ \E i \in DOMAIN task.run :
       task.run[i].op = "Call" /\ task.run[i].arg = "get"

\* What the provider can answer to api, and what the resource is then, if it has
\* been c and the last answer r.
Outcome(task, api, c, r) ==
  CASE api \in {"create", "delete"} /\ ~Slow(task) /\ (c # "none") = (api = "delete") ->
         {IF api = "create" THEN <<"stable", "stable">> ELSE <<"deleting", "none">>}
    [] api = "create" /\ c = "none" ->
         {<<d, d>> : d \in {"pending", "stable", "failed"}}
    [] api = "delete" /\ c \in {"stable", "failed", "pending"} ->
         {<<"deleting", "deleting">>, <<"deleting", "none">>}
    [] api \in {"delete", "get", "act"} /\ c = "none" -> {<<"gone", "none">>}
    [] api = "delete" /\ c = "deleting" -> {<<"deleting", "deleting">>}
    [] api = "get" /\ c # "none" -> {<<c, c>>}
    [] api = "act" /\ c # "none" ->
         {<<"pending", "pending">>, <<"stable", c>>, <<"failed", c>>}
    [] api = "other" -> {<<r, c>>, <<"gone", c>>}
    [] OTHER -> {}

\* An answer that tells of a failure elsewhere.
Alarming(task, api, answer) ==
  answer = "failed" \/ (answer = "gone" /\ (task.does # "delete" \/ api = "other"))

\* The session ends with a call outside it; it goes on around one inside.
Session(t) ==
  IF Head1.op = "Call"
  THEN todo' = t /\ open' = FALSE /\ s' = db
  ELSE todo' = t /\ open' = TRUE /\ s' = s

Calling == ~Idle /\ (Head1.op = "Call" \/ (open /\ Head1.op = "CallIn"))

Answered ==
  /\ Calling
  /\ \E o \in Outcome(Table[kind], Head1.arg, cloud, reply) :
       /\ reply' = o[1] /\ cloud' = o[2]
       /\ accepted' = (accepted \/ (Head1.arg = does /\ o[1] # "gone"))
       /\ trouble' = (trouble \/ Alarming(Table[kind], Head1.arg, o[1]))
       /\ Session(IF o[1] = "gone" THEN Head1.body \o Rest ELSE Rest)
  /\ UNCHANGED <<kind, db, left>>

\* The provider refuses the request: nothing happens there.
Refused ==
  /\ Calling
  /\ reply' = "refused" /\ trouble' = TRUE
  /\ Session(Head1.body \o Rest)
  /\ UNCHANGED <<kind, db, cloud, accepted, left>>

\* The connection fails: the provider may have done what was asked.
Lost ==
  /\ Calling
  /\ reply' = "refused" /\ trouble' = TRUE
  /\ cloud' \in {cloud} \cup {o[2] : o \in Outcome(Table[kind], Head1.arg, cloud, reply)}
  /\ Session(Head1.other \o Rest)
  /\ UNCHANGED <<kind, db, accepted, left>>

----------------------------------------------------------------------------
\* The others, between the function's sessions.

Outside == ~open /\ UNCHANGED <<kind, todo, open, reply, accepted, left>>

\* The provider finishes what it was asked to do.
Provider ==
  /\ Outside
  /\ \/ cloud = "pending" /\ cloud' \in {"stable", "failed"}
     \/ cloud = "deleting" /\ cloud' \in {"none"} \cup (IF does = "delete" THEN {"failed"} ELSE {})
  /\ trouble' = (trouble \/ cloud' = "failed")
  /\ UNCHANGED <<db, s>>

\* Somebody deletes the resource with the provider's console.
Console ==
  /\ Outside
  /\ cloud = "stable" /\ cloud' = "deleting"
  /\ trouble' = (trouble \/ does # "delete")
  /\ UNCHANGED <<db, s>>

\* Discovery records a resource it found, whatever its status, and removes one
\* it did not find.
Discovery ==
  /\ Outside
  /\ \/ cloud \in Answers /\ db.rows = 0 /\ db' = [db EXCEPT !.rows = 1]
     \/ cloud = "none" /\ db.rows > 0 /\ db' = [db EXCEPT !.rows = 0]
  /\ s' = db' /\ trouble' = TRUE
  /\ UNCHANGED cloud

\* The janitor deletes the task with its root.
Janitor ==
  /\ Outside
  /\ db.status # "gone" /\ db' = [db EXCEPT !.status = "gone"] /\ s' = db'
  /\ UNCHANGED <<cloud, trouble>>

Worker ==
  \/ RunTask \/ WaitTask \/ OpenSession \/ CloseSession
  \/ SetStatus \/ CommitChanges \/ ReturnFromTask \/ RaiseInTask
  \/ LookUp \/ Branch \/ Loop
  \/ SaveRow \/ DropRow \/ LogRow \/ NoteId \/ PointAtRow \/ RecallId
  \/ Answered \/ Refused \/ Lost

Next == Worker \/ Provider \/ Console \/ Discovery \/ Janitor

\* The worker keeps running what it started.  The provider finishes what it was
\* asked to do, however often it is asked how far it is.
Spec == Init /\ [][Next]_vars /\ WF_vars(Worker) /\ SF_vars(Provider)

----------------------------------------------------------------------------
\* What a function promises the engine that runs it.

Verdicts == {"SUCCESSFUL", "FAILED"}
Reported(v) == db.status # v /\ db'.status = v

\* A function that has returned leaves a status the engine acts on: a task left
\* RUNNING is neither finished nor polled.
EndsDeclared == Idle => db.status \notin {"INITIATED", "RUNNING", "RUNNING_WAIT_INITIATED"}

\* A verdict other processes may have read is not replaced by another.
VerdictStands == db.status \in Verdicts => db'.status \in {db.status, "gone"}

\* A creation is SUCCESSFUL only once its row is stored and the task names it.
CreatedIsRecorded ==
  Reported("SUCCESSFUL") /\ does = "create" => db'.rows > 0 /\ (todo' = <<>> => db'.named)

\* ... and only if the provider accepted it and has not reported its failure.
SuccessIsReal ==
  Reported("SUCCESSFUL") /\ does = "create" => accepted /\ cloud # "failed"

\* A deletion is SUCCESSFUL only when the provider has no such resource or is
\* removing it, and the row is gone.
DeletedIsGone ==
  Reported("SUCCESSFUL") /\ does = "delete" =>
    cloud \in {"none", "deleting"} /\ db'.rows = 0

\* What was recorded or removed is in the log that tells discovery so.
ChangesAreLogged ==
  Reported("SUCCESSFUL") =>
    CASE does = "create" -> "ADDED" \in db'.log
      [] does = "delete" -> "DELETED" \in db'.log \/ db.rows = 0
      [] OTHER -> TRUE

\* A task fails only if something it depends on failed.
NoFalseAlarm == db.status = "FAILED" => trouble
=============================================================================

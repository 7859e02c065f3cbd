------------------------------ MODULE TaskFlow ------------------------------
(***************************************************************************)
(* What the script of a task alone tells of it, whatever the provider      *)
(* answers, whatever discovery and the janitor do, and however often its   *)
(* loops repeat.  A point of the script is what is left of it, with what   *)
(* is known there of the committed state (kept), of what the session sees  *)
(* (seen), and of the world outside.  There are finitely many, and Walk    *)
(* finds them all.  Last comes what they mean: the inductive invariant of  *)
(* module ResourceTask.                                                    *)
(***************************************************************************)
EXTENDS ResourceTask

\* A view, but for the number of rows.
Facts == [status : Statuses \ {"gone"}, rows : {"none", "some"}, noted : BOOLEAN,
          named : BOOLEAN, log : SUBSET {"ADDED", "DELETED", "UPDATED"}]

NoFacts == [status |-> "PENDING", rows |-> "some", noted |-> FALSE, named |-> FALSE, log |-> {}]
WithStatus(facts, status) == [facts EXCEPT !.status = status]
WithRows(facts, rows) ==
  [status |-> facts.status, rows |-> rows, noted |-> facts.noted, named |-> facts.named,
   log |-> facts.log]

\* clouds: what the resource at the provider may be.  The rest is known.
World(clouds, answer, taken, troubled) ==
  [clouds |-> clouds, reply |-> answer, accepted |-> taken, trouble |-> troubled]

At(script, session, kept, seen, world) ==
  [todo |-> script, open |-> session, kept |-> kept, seen |-> seen, world |-> world]

\* The function goes on with a script.
Goes(script, kept, seen, world) ==
  LET session == script # <<>> /\ Head(script).op # "Call"
  IN  At(script, session, kept, IF session THEN seen ELSE kept, world)

Troubled(world) == World(world.clouds, world.reply, world.accepted, TRUE)
Stores(p, script, facts) == Goes(script, facts, facts, p.world)
Failing(p, world) == Goes(<<>>, WithStatus(p.kept, "FAILED"), WithStatus(p.kept, "FAILED"), world)

-----------------------------------------------------------------------------
(* Between two sessions.                                                   *)

\* What the provider, or somebody at its console, makes of a resource; without
\* trouble for the task, if it has had none.
Becomes(task, c) ==
  CASE c = "pending" -> {"stable", "failed"}
    [] c = "deleting" -> {"none"} \cup (IF task.does = "delete" THEN {"failed"} ELSE {})
    [] c = "stable" -> {"deleting"}
    [] OTHER -> {}
Quietly(task, c) ==
  IF c = "stable" /\ task.does # "delete" THEN {} ELSE Becomes(task, c) \ {"failed"}
Turn(task, troubled, clouds) ==
  clouds \cup UNION {IF troubled THEN Becomes(task, c) ELSE Quietly(task, c) : c \in clouds}
Reach(task, troubled, clouds) ==
  Turn(task, troubled, Turn(task, troubled, Turn(task, troubled, clouds)))

Later(task, p) ==
  IF p.open THEN p
  ELSE At(p.todo, p.open, p.kept, p.seen,
          World(Reach(task, p.world.trouble, p.world.clouds), p.world.reply, p.world.accepted,
                p.world.trouble))

\* What else may happen: trouble, or discovery finds what the provider has, or
\* misses what it has not.
Others(task, p) ==
  LET clouds == p.world.clouds
      Then(facts, may) ==
        At(p.todo, p.open, facts, facts, World(may, p.world.reply, p.world.accepted, TRUE))
  IN  IF p.open THEN {}
      ELSE {Then(p.kept, Turn(task, TRUE, clouds))}
           \cup (IF p.kept.rows = "none" /\ clouds \cap Answers # {}
                 THEN {Then(WithRows(p.kept, "some"), clouds \cap Answers)} ELSE {})
           \cup (IF p.kept.rows = "some" /\ "none" \in clouds
                 THEN {Then(WithRows(p.kept, "none"), {"none"})} ELSE {})

-----------------------------------------------------------------------------
(* The function itself.                                                    *)

\* The worker takes the task.
Begins(task, p) ==
  CASE p.kept.status = "PENDING" ->
         {Stores(p, <<Close>> \o task.run, WithStatus(p.kept, "INITIATED"))}
    [] p.kept.status = "RUNNING_WAIT" /\ task.wait # <<>> ->
         {Stores(p, <<Close>> \o task.wait, WithStatus(p.kept, "RUNNING_WAIT_INITIATED"))}
    [] OTHER -> {}

\* The provider answers, refuses, or is not heard and may have done what was asked.
Answer(task, api, o, world) ==
  World({o[2]}, o[1], world.accepted \/ (api = task.does /\ o[1] # "gone"),
        world.trouble \/ Alarming(task, api, o[1]))
Calls(task, p, session, seen) ==
  LET op == Head(p.todo)
      rest == Tail(p.todo)
      clouds == p.world.clouds
      outcomes == UNION {Outcome(task, op.arg, c, p.world.reply) : c \in clouds}
      Ends(script, world) == At(script, session, p.kept, seen, world)
      Unanswered(may) == World(may, "refused", p.world.accepted, TRUE)
  IN  {Ends((IF o[1] = "gone" THEN op.body \o rest ELSE rest), Answer(task, op.arg, o, p.world)) :
         o \in outcomes}
      \cup {Ends(op.body \o rest, Unanswered(clouds)),
            Ends(op.other \o rest, Unanswered(clouds \cup {o[2] : o \in outcomes}))}

\* What the next operation may come to.
Does(task, p) ==
  LET op == Head(p.todo)
      rest == Tail(p.todo)
      Jumps(script) == Goes(script, p.kept, p.seen, p.world)
      Changes(facts) == Goes(rest, p.kept, facts, p.world)
      Trips(script, facts) == Goes(script, facts, facts, Troubled(p.world))
  IN  CASE op.op = "Call" -> Calls(task, p, FALSE, p.kept)
        [] op.op = "CallIn" -> Calls(task, p, TRUE, p.seen)
        [] op.op = "Close" -> {At(rest, FALSE, p.kept, p.kept, p.world)}
        [] op.op = "Put" -> {Changes(WithStatus(p.seen, op.arg))}
        [] op.op = "Commit" -> {Stores(p, rest, p.seen)}
        [] op.op = "Running" -> {Stores(p, rest, WithStatus(p.seen, op.arg))}
        [] op.op = "Exit" -> {Stores(p, <<>>, WithStatus(p.seen, op.arg))}
        [] op.op = "Return" -> {Jumps(<<>>)}
        [] op.op = "Raise" -> {Failing(p, p.world)}
        [] op.op = "Needs" -> {Jumps(rest), Trips(<<>>, WithStatus(p.seen, "FAILED"))}
        [] op.op = "Missing" ->
             {Jumps(rest), Goes(op.body \o rest, p.kept, p.seen, Troubled(p.world))}
        [] op.op = "Uses" -> {Jumps(rest), Failing(p, Troubled(p.world))}
        [] op.op = "When" -> {Jumps(op.body \o rest), Jumps(op.other \o rest)}
        [] op.op = "On" ->
             {Jumps((IF p.world.reply \in op.arg THEN op.body ELSE op.other) \o rest)}
        [] op.op = "Row" ->
             {Jumps((IF p.seen.rows = "some" THEN op.body ELSE op.other) \o rest)}
        [] op.op = "Each" -> {Jumps(<<[op EXCEPT !.op = "Again"]>> \o rest)}
        [] op.op = "Again" -> {Jumps(rest), Jumps(op.body \o p.todo)}
        [] op.op = "Continue" ->
             LET end == Min({i \in DOMAIN p.todo : p.todo[i].op = "Again"})
             IN  {Jumps(SubSeq(p.todo, end, Len(p.todo)))}
        [] op.op = "Save" ->
             {IF p.seen.rows = "some" /\ task.unique THEN Failing(p, p.world)
              ELSE Changes(WithRows(p.seen, "some"))}
        [] op.op = "Drop" -> {Changes(WithRows(p.seen, "none"))}
        [] op.op = "Log" -> {Changes([p.seen EXCEPT !.log = @ \cup {op.arg}])}
        [] op.op = "Note" -> {Changes([p.seen EXCEPT !.noted = TRUE])}
        [] op.op = "Point" -> {Changes([p.seen EXCEPT !.named = TRUE])}
        [] op.op = "Recall" -> {IF p.seen.noted THEN Jumps(rest) ELSE Failing(p, p.world)}

Acts(task, p) ==
  IF p.todo = <<>> THEN Begins(task, p)
  ELSE IF ~p.open /\ Head(p.todo).op # "Call"
       THEN {At(p.todo, TRUE, p.kept, p.kept, p.world)}
  ELSE Does(task, p)
Follows(task, p) == Acts(task, p) \cup Others(task, p)

\* A bound: no walk below finds anything new after so many steps.
Longest == 80

Origin(task) ==
  LET made == task.does # "create"
      facts == IF made THEN NoFacts ELSE WithRows(NoFacts, "none")
  IN  Later(task, At(<<>>, FALSE, facts, facts,
                  World({IF made THEN "stable" ELSE "none"}, "none", FALSE, FALSE)))
Walk(task) ==
  LET walked[n \in Nat] ==
        IF n = 0 THEN [all |-> {Origin(task)}, new |-> {Origin(task)}]
        ELSE LET last == walked[n - 1]
                 new == {Later(task, q) : q \in UNION {Follows(task, p) : p \in last.new}} \ last.all
             IN  [all |-> last.all \cup new, new |-> new]
  IN  walked[Longest].all

Flow == [k \in Kinds |-> Walk(Table[k])]

\* Flow is what it is meant to be: nothing follows that is not in it.
Closed(k) ==
  /\ Origin(Table[k]) \in Flow[k]
  /\ \A p \in Flow[k] :
       /\ p = At(p.todo, p.open, p.kept, p.seen, p.world) /\ p = Later(Table[k], p)
       /\ p.kept \in Facts /\ p.seen \in Facts /\ p.world.trouble \in BOOLEAN
       /\ \A q \in Follows(Table[k], p) : Later(Table[k], q) \in Flow[k]

-----------------------------------------------------------------------------
\* What a function may be asked for, at every point it comes to.

\* It returns with a status the engine acts on.
Declares(k) ==
  \A p \in Flow[k] :
    p.todo = <<>> => p.kept.status \notin {"INITIATED", "RUNNING", "RUNNING_WAIT_INITIATED"}

\* It leaves a verdict as it is.
StandsBy(k) ==
  \A p \in Flow[k] : \A q \in Follows(Table[k], p) :
    p.kept.status \in Verdicts => q.kept.status = p.kept.status

Succeeded(p, q) == p.kept.status # "SUCCESSFUL" /\ q.kept.status = "SUCCESSFUL"

\* It is successful with a row, which the task names when it returns.
Records(k) ==
  \A p \in Flow[k] : \A q \in Follows(Table[k], p) :
    Succeeded(p, q) /\ Table[k].does = "create" =>
      q.kept.rows = "some" /\ (q.todo = <<>> => q.kept.named)

\* It has logged then what it did.
LogsIt(k) ==
  \A p \in Flow[k] : \A q \in Follows(Table[k], p) :
    Succeeded(p, q) =>
      CASE Table[k].does = "create" -> "ADDED" \in q.kept.log
        [] Table[k].does = "delete" -> "DELETED" \in q.kept.log \/ p.kept.rows = "none"
        [] OTHER -> TRUE

\* It is successful in creating only what the provider has accepted and not failed,
\* and in deleting only what the provider has or will have no more, nor has a row.
Creates(k) ==
  \A p \in Flow[k] : \A q \in Follows(Table[k], p) :
    Succeeded(p, q) /\ Table[k].does = "create" =>
      p.world.accepted /\ "failed" \notin p.world.clouds
Deletes(k) ==
  \A p \in Flow[k] : \A q \in Follows(Table[k], p) :
    Succeeded(p, q) /\ Table[k].does = "delete" =>
      p.world.clouds \subseteq {"none", "deleting"} /\ q.kept.rows = "none"

\* It does not fail without trouble.
FailsByTrouble(k) == \A p \in Flow[k] : p.kept.status = "FAILED" => p.world.trouble

-----------------------------------------------------------------------------
\* The task is where some walk is, or has been deleted under its function.

IsView(view) ==
  DOMAIN view = {"status", "rows", "noted", "named", "log"} /\ view.rows \in Nat
FactsOf(view) == WithRows(view, IF view.rows > 0 THEN "some" ELSE "none")
Agrees(view, facts) == IsView(view) /\ facts = FactsOf(view)

Fits(world) ==
  /\ cloud \in world.clouds /\ world.reply = reply
  /\ world.accepted = accepted /\ world.trouble = trouble
Shows(p) ==
  /\ p.todo = todo /\ p.open = open
  /\ Agrees(db, p.kept) /\ Agrees(s, p.seen)
  /\ ~open => s = db
  /\ Fits(p.world)

Deleted == ~open /\ s = db /\ IsView(db) /\ db.status = "gone"

TaskInv == kind \in Kinds /\ (Deleted \/ \E p \in Flow[kind] : Shows(p))
=============================================================================

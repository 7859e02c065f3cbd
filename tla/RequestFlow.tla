---------------------------- MODULE RequestFlow ----------------------------
(***************************************************************************)
(* What is known at each point of the script of a request, however its     *)
(* checks come out and however often it repeats its loops: the pairs       *)
(* <<what is left of the script, facts>> that a walk along it comes to.    *)
(* Facts say what the session holds by the variables of the function, so   *)
(* that there are finitely many, and Walk finds them all; what the         *)
(* repetitions of a loop compose is not among them, so that nothing here   *)
(* depends on MaxTasks.                                                    *)
(***************************************************************************)
EXTENDS Requests

\* The facts at a point:
\* committed: something has been, or may have been.
\* added: of the roots composed since then, "none", "all" or "some" are added.
\* roots: the variables that hold one of these.
\* tasks: the variables that hold a task of the last root.
\* ends: those of them whose task has no next.
NoFacts == [committed |-> FALSE, added |-> "none", roots |-> {}, tasks |-> {}, ends |-> {}]

Learns(facts, op) ==
  CASE op.op \in {"Root", "OnSuccess", "OnComplete"} ->
         [facts EXCEPT !.roots = @ \cup {op.var}, !.tasks = {}, !.ends = {},
                       !.added = IF @ = "none" THEN "none" ELSE "some"]
    [] op.op = "First" ->
         [facts EXCEPT !.tasks = @ \cup {op.var}, !.ends = @ \cup {op.var}]
    [] op.op = "After" ->
         [facts EXCEPT !.tasks = @ \cup {op.var}, !.ends = (@ \ {op.of[1]}) \cup {op.var}]
    [] op.op = "Before" ->
         [facts EXCEPT !.tasks = @ \cup {op.var}, !.ends = @ \ {op.var}]
    [] op.op = "Link" -> [facts EXCEPT !.ends = @ \ {op.of}]
    [] op.op = "Add" -> [facts EXCEPT !.added = "all"]
    [] op.op = "Commit" ->
         IF facts.added = "none" THEN [facts EXCEPT !.committed = TRUE]
         ELSE [NoFacts EXCEPT !.committed = TRUE]
    [] OTHER -> facts

\* The scripts that GoOn may go on with.
Continues(script) ==
  LET op == Head(script)
      rest == Tail(script)
  IN  CASE op.op = "Raise" -> {}
        [] op.op = "When" -> {op.body \o rest, op.other \o rest}
        [] op.op = "Each" -> {rest, op.body \o script}
        [] OTHER -> {rest}

Follows(p) ==
  IF p[1] = <<>> THEN {}
  ELSE {<<script, Learns(p[2], Head(p[1]))>> : script \in Continues(p[1])}

\* A bound: no walk below finds anything new after so many steps.
Longest == 50

Walk(r) ==
  LET walked[n \in Nat] ==
        IF n = 0 THEN [all |-> {<<Table[r], NoFacts>>}, new |-> {<<Table[r], NoFacts>>}]
        ELSE LET last == walked[n - 1]
                 new == UNION {Follows(p) : p \in last.new} \ last.all
             IN  [all |-> last.all \cup new, new |-> new]
  IN  walked[Longest].all

Flow == [r \in DOMAIN Table |-> Walk(r)]

\* The operations that may come at all.
Steps(r) == {p \in Flow[r] : p[1] # <<>>}

\* Flow is what it is meant to be: nothing follows that is not in it.
Closed(r) ==
  /\ <<Table[r], NoFacts>> \in Flow[r]
  /\ \A p \in Flow[r] : Follows(p) \subseteq Flow[r]

-----------------------------------------------------------------------------
\* What a request may be asked for, at every point it comes to.

\* The kinds of tasks that an operation composes are known.
Kinds(op) ==
  CASE op.op = "First" -> {op.of}
    [] op.op \in {"After", "Before"} -> {op.of[2]}
    [] OTHER -> {}
KnownKinds(r) == \A p \in Steps(r) : Kinds(Head(p[1])) \subseteq Mapper

\* What may still fail comes before the first commit.
ChecksFirst(r) ==
  \A p \in Steps(r) : Head(p[1]).op \in {"Check", "Raise"} => ~p[2].committed

\* An operation finds what it works on among what has not been committed, and
\* in the last root; tasks are linked to ends, so that no cycle closes; and a
\* commit leaves no root half of which has been added.
Founded(facts, op) ==
  CASE op.op = "First" -> facts.roots # {}
    [] op.op \in {"After", "Before"} -> op.of[1] \in facts.tasks
    [] op.op = "Link" -> op.of \in facts.tasks /\ op.var \in facts.ends /\ op.var # op.of
    [] op.op = "AddCallback" -> {op.var, op.of} \subseteq facts.roots
    [] op.op = "Commit" -> facts.added # "some"
    [] OTHER -> TRUE
ComposesWhole(r) == \A p \in Steps(r) : Founded(p[2], Head(p[1]))

\* No task of one of the kinds is composed.
Without(r, kinds) == \A p \in Steps(r) : Kinds(Head(p[1])) \cap kinds = {}

\* A task of one of the kinds is the first of its root to be composed, and all
\* others are put before one that is there.
EndsIn(r, kinds) ==
  \A p \in Steps(r) :
    LET op == Head(p[1])
    IN  /\ op.op = "First" => p[2].tasks = {}
        /\ op.op = "Before" => Kinds(op) \cap kinds = {}
        /\ op.op # "After"
=============================================================================

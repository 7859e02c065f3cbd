-------------------------- MODULE Requests_proofs --------------------------
(***************************************************************************)
(* Proof of RequestInvariant: whatever a request is given, however often   *)
(* its loops repeat and whatever the executor does meanwhile, it composes  *)
(* tasks the workers know, a refusal leaves nothing behind, and a workflow *)
(* that is reported successful has run whole.  Then, from ContainerInv,    *)
(* that a container is deleted after all it contains.  The table of        *)
(* requests and MAPPER enter by FlowsAssumption only.                      *)
(***************************************************************************)
EXTENDS RequestInvariant, SequenceTheorems, TLAPS

-----------------------------------------------------------------------------
(* Sequences.                                                              *)

\* A sequence is one of any set that has its elements.
LEMMA Widened ==
  ASSUME NEW s, NEW S, s \in Seq(S)
  PROVE  Listed(s)
BY DEF Listed

LEMMA ListedLength ==
  ASSUME NEW s, Listed(s)
  PROVE  Len(s) \in Nat /\ DOMAIN s = 1..Len(s)
BY DEF Listed

LEMMA Empty == Listed(<<>>) /\ Len(<<>>) = 0 /\ DOMAIN <<>> = {}
BY DEF Listed

LEMMA Appended ==
  ASSUME NEW s, Listed(s), NEW x
  PROVE  /\ Listed(Append(s, x)) /\ Len(Append(s, x)) = Len(s) + 1
         /\ DOMAIN Append(s, x) = 1..(Len(s) + 1)
         /\ Append(s, x)[Len(s) + 1] = x
         /\ \A i \in 1..Len(s) : Append(s, x)[i] = s[i]
<1> DEFINE S == {s[i] : i \in DOMAIN s}  T == S \cup {x}
<1>1. s \in Seq(S) BY DEF Listed
<1>2. Seq(S) \subseteq Seq(T) BY SeqDef
<1>3. s \in Seq(T) BY <1>1, <1>2
<1>4. x \in T OBVIOUS
<1> HIDE DEF T, S
<1>5. Append(s, x) \in Seq(T) /\ Len(Append(s, x)) = Len(s) + 1
  BY <1>3, <1>4, AppendProperties
<1>6. Listed(Append(s, x)) BY <1>5, Widened
<1> QED BY <1>3, <1>4, <1>5, <1>6, AppendProperties

LEMMA Cut ==
  ASSUME NEW s, Listed(s), NEW k \in Nat, k <= Len(s)
  PROVE  /\ Listed(SubSeq(s, 1, k)) /\ Len(SubSeq(s, 1, k)) = k
         /\ DOMAIN SubSeq(s, 1, k) = 1..k
         /\ \A i \in 1..k : SubSeq(s, 1, k)[i] = s[i]
<1> DEFINE S == {s[i] : i \in DOMAIN s}
<1>1. s \in Seq(S) BY DEF Listed
<1> HIDE DEF S
<1>2. SubSeq(s, 1, k) \in Seq(S) BY <1>1
<1>3. Listed(SubSeq(s, 1, k)) BY <1>2, Widened
<1> QED BY <1>1, <1>2, <1>3

LEMMA Updated ==
  ASSUME NEW s, Listed(s), NEW f, DOMAIN f = DOMAIN s, f = [i \in DOMAIN f |-> f[i]]
  PROVE  Listed(f) /\ Len(f) = Len(s)
<1> DEFINE S == {f[i] : i \in DOMAIN f}
<1>1. Len(s) \in Nat /\ DOMAIN f = 1..Len(s) BY ListedLength
<1>2. f \in [1..Len(s) -> S] BY <1>1
<1> HIDE DEF S
<1>3. f \in Seq(S) BY <1>1, <1>2, SeqDef
<1>4. Listed(f) BY <1>3, Widened
<1> QED BY <1>1, <1>3, <1>4

-----------------------------------------------------------------------------
(* What is learnt from each operation.                                     *)

LEMMA Fields == DOMAIN NoFacts = {"committed", "added", "roots", "tasks", "ends"}
BY DEF NoFacts

LEMMA LearnsNothing ==
  ASSUME NEW facts, NEW op,
         op.op \in {"Check", "Answers", "Raise", "When", "Each", "AddCallback", "Write"}
  PROVE  Learns(facts, op) = facts
BY DEF Learns

LEMMA LearnsRoot ==
  ASSUME NEW facts, DOMAIN facts = DOMAIN NoFacts, NEW op,
         op.op \in {"Root", "OnSuccess", "OnComplete"}
  PROVE  LET new == Learns(facts, op)
         IN  /\ DOMAIN new = DOMAIN NoFacts /\ new.committed = facts.committed
             /\ new.added = (IF facts.added = "none" THEN "none" ELSE "some")
             /\ new.roots = facts.roots \cup {op.var} /\ new.tasks = {} /\ new.ends = {}
BY Fields DEF Learns

LEMMA LearnsFirst ==
  ASSUME NEW facts, DOMAIN facts = DOMAIN NoFacts, NEW op, op.op = "First"
  PROVE  LET new == Learns(facts, op)
         IN  /\ DOMAIN new = DOMAIN NoFacts /\ new.committed = facts.committed
             /\ new.added = facts.added /\ new.roots = facts.roots
             /\ new.tasks = facts.tasks \cup {op.var} /\ new.ends = facts.ends \cup {op.var}
BY Fields DEF Learns

LEMMA LearnsAfter ==
  ASSUME NEW facts, DOMAIN facts = DOMAIN NoFacts, NEW op, op.op = "After"
  PROVE  LET new == Learns(facts, op)
         IN  /\ DOMAIN new = DOMAIN NoFacts /\ new.committed = facts.committed
             /\ new.added = facts.added /\ new.roots = facts.roots
             /\ new.tasks = facts.tasks \cup {op.var}
             /\ new.ends = (facts.ends \ {op.of[1]}) \cup {op.var}
BY Fields DEF Learns

LEMMA LearnsBefore ==
  ASSUME NEW facts, DOMAIN facts = DOMAIN NoFacts, NEW op, op.op = "Before"
  PROVE  LET new == Learns(facts, op)
         IN  /\ DOMAIN new = DOMAIN NoFacts /\ new.committed = facts.committed
             /\ new.added = facts.added /\ new.roots = facts.roots
             /\ new.tasks = facts.tasks \cup {op.var} /\ new.ends = facts.ends \ {op.var}
BY Fields DEF Learns

LEMMA LearnsLink ==
  ASSUME NEW facts, DOMAIN facts = DOMAIN NoFacts, NEW op, op.op = "Link"
  PROVE  LET new == Learns(facts, op)
         IN  /\ DOMAIN new = DOMAIN NoFacts /\ new.committed = facts.committed
             /\ new.added = facts.added /\ new.roots = facts.roots
             /\ new.tasks = facts.tasks /\ new.ends = facts.ends \ {op.of}
BY Fields DEF Learns

LEMMA LearnsAdd ==
  ASSUME NEW facts, DOMAIN facts = DOMAIN NoFacts, NEW op, op.op = "Add"
  PROVE  LET new == Learns(facts, op)
         IN  /\ DOMAIN new = DOMAIN NoFacts /\ new.committed = facts.committed
             /\ new.added = "all" /\ new.roots = facts.roots
             /\ new.tasks = facts.tasks /\ new.ends = facts.ends
BY Fields DEF Learns

LEMMA LearnsCommit ==
  ASSUME NEW facts, DOMAIN facts = DOMAIN NoFacts, NEW op, op.op = "Commit"
  PROVE  LET new == Learns(facts, op)
         IN  /\ DOMAIN new = DOMAIN NoFacts /\ new.committed = TRUE
             /\ facts.added = "none" =>
                  /\ new.added = "none" /\ new.roots = facts.roots
                  /\ new.tasks = facts.tasks /\ new.ends = facts.ends
             /\ facts.added # "none" =>
                  new.added = "none" /\ new.roots = {} /\ new.tasks = {} /\ new.ends = {}
<1>1. CASE facts.added = "none" BY <1>1, Fields DEF Learns
<1>2. CASE facts.added # "none" BY <1>2, Fields DEF Learns, NoFacts
<1> QED BY <1>1, <1>2

-----------------------------------------------------------------------------
(* The walk.                                                               *)

\* What comes next is in the flow, too.
LEMMA FlowGoesOn ==
  ASSUME request \in DOMAIN Table, ~Idle,
         NEW p \in Flow[request], p[1] = todo, NEW script \in Continues(todo)
  PROVE  <<script, Learns(p[2], Head(todo))>> \in Flow[request]
<1>1. Follows(p) \subseteq Flow[request] BY FlowsAssumption DEF Closed
<1> QED BY <1>1 DEF Follows, Idle

LEMMA FlowIsChecked ==
  ASSUME request \in DOMAIN Table, ~Idle, NEW p \in Flow[request], p[1] = todo
  PROVE  /\ request \notin ComposesUnknown => Kinds(Head(todo)) \subseteq Mapper
         /\ request \notin ChecksLate /\ Head(todo).op \in {"Check", "Raise"} => ~p[2].committed
         /\ Whole => Founded(p[2], Head(todo))
<1>1. p \in Steps(request) BY DEF Steps, Idle
<1> QED BY <1>1, FlowsAssumption DEF KnownKinds, ChecksFirst, ComposesWhole, Whole

-----------------------------------------------------------------------------
(* What each operation does to the session.                                *)

Fine(facts) ==
  /\ IsSession(view) /\ IsSession(db) /\ Listed(view.tasks)
  /\ request \notin ComposesUnknown => KindsKnown(view)
  /\ Whole => Kept /\ WaitsForNew /\ Composed(view) /\ Hold(facts)

LEMMA SessionFields == DOMAIN Nothing = {"roots", "tasks", "edges", "added", "rows"}
BY DEF Nothing

LEMMA Lengths ==
  ASSUME IsSession(view), IsSession(db), Listed(view.tasks)
  PROVE  /\ Len(view.roots) \in Nat /\ DOMAIN view.roots = 1..Len(view.roots)
         /\ Len(db.roots) \in Nat /\ DOMAIN db.roots = 1..Len(db.roots)
         /\ Len(view.tasks) \in Nat /\ DOMAIN view.tasks = 1..Len(view.tasks)
BY ListedLength DEF IsSession

LEMMA LastIsMax ==
  ASSUME NEW n \in Nat, NEW S \in SUBSET (1..n), n \in S
  PROVE  Max(S) = n
<1> DEFINE Greatest(x) == x \in S /\ \A y \in S : x >= y
<1>1. Greatest(n) OBVIOUS
<1>2. ASSUME NEW x, Greatest(x) PROVE x = n
  BY <1>2
<1>3. Greatest(CHOOSE x : Greatest(x)) BY <1>1, Zenon
<1>4. Max(S) = CHOOSE x : Greatest(x) BY DEF Max
<1> HIDE DEF Greatest
<1> QED BY <1>2, <1>3, <1>4

LEMMA SameSession ==
  ASSUME NEW facts, Fine(facts), UNCHANGED <<request, db>>, DOMAIN view' = DOMAIN view,
         view'.roots = view.roots, view'.tasks = view.tasks, view'.edges = view.edges,
         view'.added = view.added
  PROVE  Fine(facts)'
<1>1. /\ Kept' <=> Kept
      /\ WaitsForNew' <=> WaitsForNew
  BY DEF Kept, WaitsForNew, Known
<1>2. Hold(facts)' <=> Hold(facts)
  BY DEF Hold, Known, RootIsNew, TaskIsLast, RootsOf, TasksOf, TaskOf, TasksOn
<1>3. Composed(view)' <=> Composed(view)
  BY DEF Composed, Orderable
<1> QED BY <1>1, <1>2, <1>3 DEF Fine, Whole, IsSession, KindsKnown

LEMMA AddKeeps ==
  ASSUME NEW facts, Fine(facts), DOMAIN facts = DOMAIN NoFacts, NEW op, op.op = "Add",
         UNCHANGED <<request, db>>, view' = [view EXCEPT !.added = Len(view.roots)]
  PROVE  Fine(Learns(facts, op))'
<1> DEFINE new == Learns(facts, op)
<1>0. /\ new.added = "all" /\ new.roots = facts.roots
      /\ new.tasks = facts.tasks /\ new.ends = facts.ends
  BY LearnsAdd
<1> HIDE DEF new
<1>1. /\ DOMAIN view' = DOMAIN view /\ view'.roots = view.roots /\ view'.tasks = view.tasks
      /\ view'.edges = view.edges /\ view'.added = Len(view.roots)
  BY SessionFields DEF Fine, IsSession
<1>2. Len(view.roots) \in Nat /\ Len(db.roots) \in Nat BY Lengths DEF Fine
<1>3. Whole => Kept' /\ WaitsForNew'
  BY <1>1, <1>2 DEF Fine, IsSession, Kept, WaitsForNew, Known
<1>4. ASSUME Whole PROVE Hold(new)'
  <2>1. /\ \A v : RootIsNew(v)' <=> RootIsNew(v)
        /\ \A v : TaskIsLast(v)' <=> TaskIsLast(v)
        /\ \A v : TaskOf(v)' = TaskOf(v)
    BY <1>1 DEF RootIsNew, TaskIsLast, RootsOf, TasksOf, TaskOf, Known
  <2> QED BY <1>0, <1>1, <1>4, <2>1 DEF Fine, Hold, Known, TasksOn
<1>5. Composed(view)' <=> Composed(view)
  BY <1>1 DEF Composed, Orderable
<1>6. Fine(new)'
  BY <1>1, <1>2, <1>3, <1>4, <1>5 DEF Fine, Whole, IsSession, KindsKnown
<1> QED BY <1>6 DEF new

LEMMA RootKeeps ==
  ASSUME NEW facts, Fine(facts), DOMAIN facts = DOMAIN NoFacts,
         NEW op, op.op \in {"Root", "OnSuccess", "OnComplete"}, NEW type,
         UNCHANGED <<request, db>>,
         view' = [view EXCEPT !.roots =
                    Append(@, [var |-> op.var, type |-> type, parent |-> 0])]
  PROVE  Fine(Learns(facts, op))'
<1> DEFINE new == Learns(facts, op)  root == [var |-> op.var, type |-> type, parent |-> 0]
           n == Len(view.roots) + 1
<1>0. /\ new.added = (IF facts.added = "none" THEN "none" ELSE "some")
      /\ new.roots = facts.roots \cup {op.var} /\ new.tasks = {} /\ new.ends = {}
  BY LearnsRoot
<1>r. root.var = op.var /\ root.parent = 0 /\ DOMAIN root = {"var", "type", "parent"}
  OBVIOUS
<1> HIDE DEF new, root
<1>1. /\ DOMAIN view' = DOMAIN view /\ view'.roots = Append(view.roots, root)
      /\ view'.tasks = view.tasks /\ view'.edges = view.edges /\ view'.added = view.added
  BY SessionFields DEF Fine, IsSession, root
<1>2. /\ Len(view.roots) \in Nat /\ DOMAIN view.roots = 1..Len(view.roots)
      /\ Len(db.roots) \in Nat /\ DOMAIN db.roots = 1..Len(db.roots)
  BY Lengths DEF Fine
<1>3. /\ Listed(view'.roots) /\ Len(view'.roots) = n /\ DOMAIN view'.roots = 1..n
      /\ view'.roots[n] = root
      /\ \A i \in 1..Len(view.roots) : view'.roots[i] = view.roots[i]
  BY <1>1, Appended DEF Fine, IsSession
<1>4. ASSUME Whole PROVE Kept' /\ WaitsForNew'
  BY <1>1, <1>2, <1>3, <1>4, <1>r DEF Fine, IsSession, Kept, WaitsForNew, Known
<1>5. ASSUME Whole PROVE Composed(view)'
  <2>1. Composed(view) BY <1>5 DEF Fine
  <2>2. Orderable(DOMAIN view'.tasks, view'.edges) BY <1>1, <2>1 DEF Composed, Orderable
  <2> QED BY <1>1, <1>2, <1>3, <1>r, <2>1, <2>2 DEF Composed
<1>6. ASSUME Whole PROVE Hold(new)'
  <2>1. Kept /\ Hold(facts) /\ view.added \in Nat BY <1>6 DEF Fine, IsSession
  <2>2. RootIsNew(op.var)'
    <3>1. n \in RootsOf(op.var)' /\ RootsOf(op.var)' \subseteq 1..n
      BY <1>3, <1>2, <1>r DEF RootsOf
    <3>2. Max(RootsOf(op.var)') = n BY <3>1, <1>2, LastIsMax
    <3> QED BY <3>1, <3>2, <2>1, <1>2 DEF RootIsNew, Known, Kept
  <2>3. ASSUME NEW v \in facts.roots, v # op.var PROVE RootIsNew(v)'
    <3>1. RootsOf(v)' = RootsOf(v)
      BY <1>2, <1>3, <1>r, <2>3 DEF RootsOf
    <3>2. RootIsNew(v) BY <2>1 DEF Hold
    <3> QED BY <3>1, <3>2 DEF RootIsNew, Known
  <2>4. ~Known(Len(view.roots))'
    BY <2>1, <1>2, <1>3 DEF Kept, Known
  <2>5. \A t \in DOMAIN view.tasks : view.tasks[t].root \in 1..Len(view.roots)
    BY <1>2, <1>6 DEF Fine, Composed
  <2>6. TasksOn(Len(view.roots))' = {}
    BY <2>5, <1>1, <1>2, <1>3 DEF TasksOn
  <2> QED BY <2>1, <2>2, <2>3, <2>4, <2>6, <1>0, <1>1 DEF Hold
<1>7. Fine(new)'
  BY <1>1, <1>3, <1>4, <1>5, <1>6 DEF Fine, Whole, IsSession, KindsKnown
<1> QED BY <1>7 DEF new

LEMMA CallbackKeeps ==
  ASSUME NEW facts, Fine(facts), NEW op, Whole => {op.var, op.of} \subseteq facts.roots,
         UNCHANGED <<request, db>>,
         view' = IF RootsOf(op.of) = {} THEN view
                 ELSE [view EXCEPT !.roots[Max(RootsOf(op.var))].parent = Max(RootsOf(op.of))]
  PROVE  Fine(facts)'
<1>1. CASE RootsOf(op.of) = {}
  BY <1>1, SameSession
<1>2. CASE RootsOf(op.of) # {}
  <2> DEFINE i == Max(RootsOf(op.var))  parent == Max(RootsOf(op.of))
             roots == [view.roots EXCEPT ![i].parent = parent]
  <2>1. /\ DOMAIN view' = DOMAIN view /\ view'.roots = roots
        /\ view'.tasks = view.tasks /\ view'.edges = view.edges /\ view'.added = view.added
    BY <1>2, SessionFields DEF Fine, IsSession
  <2>2. /\ DOMAIN roots = DOMAIN view.roots /\ roots = [r \in DOMAIN roots |-> roots[r]]
        /\ \A r \in DOMAIN roots : roots[r] =
             IF r = i THEN [view.roots[i] EXCEPT !.parent = parent] ELSE view.roots[r]
    OBVIOUS
  <2> HIDE DEF i, parent, roots
  <2>3. Listed(roots) /\ Len(roots) = Len(view.roots)
    BY <2>2, Updated DEF Fine, IsSession
  <2>4. IsSession(view)' /\ Listed(view.tasks)' /\ IsSession(db)'
    BY <2>1, <2>3 DEF Fine, IsSession
  <2>5. KindsKnown(view)' <=> KindsKnown(view)
    BY <2>1 DEF KindsKnown
  <2>6. ASSUME Whole PROVE Kept' /\ WaitsForNew' /\ Composed(view)' /\ Hold(facts)'
    <3>1. Kept /\ WaitsForNew /\ Composed(view) /\ Hold(facts) BY <2>6 DEF Fine
    <3>2. /\ Len(view.roots) \in Nat /\ DOMAIN view.roots = 1..Len(view.roots)
          /\ Len(db.roots) \in Nat /\ DOMAIN db.roots = 1..Len(db.roots)
      BY Lengths DEF Fine
    <3>3. RootIsNew(op.var) /\ RootIsNew(op.of)
      BY <3>1, <2>6 DEF Hold
    <3>4. i \in DOMAIN view.roots /\ parent \in DOMAIN view.roots /\ ~Known(i) /\ ~Known(parent)
      BY <3>3 DEF RootIsNew, RootsOf, i, parent
    <3>5. DOMAIN view.roots[i] = {"var", "type", "parent"}
      BY <3>1, <3>4 DEF Composed
    <3>6. /\ DOMAIN roots[i] = {"var", "type", "parent"} /\ roots[i].parent = parent
          /\ roots[i].var = view.roots[i].var
          /\ \A r \in DOMAIN view.roots : r # i => roots[r] = view.roots[r]
      BY <3>4, <3>5, <2>2
    <3>7. /\ \A v : RootsOf(v)' = RootsOf(v)
          /\ \A v : TasksOf(v)' = TasksOf(v) /\ TaskOf(v)' = TaskOf(v)
      <4>1. \A r \in DOMAIN view.roots : roots[r].var = view.roots[r].var
        BY <3>6
      <4>2. \A v : RootsOf(v)' = RootsOf(v)
        BY <4>1, <2>1, <2>2 DEF RootsOf
      <4>3. \A v : TasksOf(v)' = TasksOf(v)
        BY <2>1 DEF TasksOf
      <4> QED BY <4>2, <4>3 DEF TaskOf
    <3>8. /\ \A v : RootIsNew(v)' <=> RootIsNew(v)
          /\ \A v : TaskIsLast(v)' <=> TaskIsLast(v)
      BY <3>7, <2>1, <2>3 DEF RootIsNew, TaskIsLast, Known
    <3>9. Hold(facts)'
      BY <3>1, <3>7, <3>8, <2>1, <2>3 DEF Hold, Known, TasksOn
    <3>10. Kept'
      BY <3>1, <3>2, <3>4, <3>6, <2>1, <2>2, <2>3 DEF Fine, Kept, Known
    <3>11. WaitsForNew'
      BY <3>1, <3>4, <3>6, <2>1, <2>2 DEF WaitsForNew, Known
    <3>12. Composed(view)'
      BY <3>1, <3>6, <2>1, <2>2 DEF Composed, Orderable
    <3> QED BY <3>9, <3>10, <3>11, <3>12
  <2> QED BY <2>4, <2>5, <2>6 DEF Fine, Whole
<1> QED BY <1>1, <1>2

\* An order stays one when a task comes in at one end of it.
LEMMA OrderGrows ==
  ASSUME NEW tasks, NEW edges, Orderable(tasks, edges),
         \A e \in edges : {e[1], e[2]} \subseteq tasks,
         NEW n, n \notin tasks, NEW other \in tasks,
         NEW new, new \in {{}, {<<other, n>>}, {<<n, other>>}}
  PROVE  Orderable(tasks \cup {n}, edges \cup new)
<1> SUFFICES ASSUME NEW T \in SUBSET (tasks \cup {n}), T # {}
             PROVE  \E t \in T : \A e \in edges \cup new : e[2] = t => e[1] \notin T
  BY DEF Orderable
<1>1. CASE T \subseteq {n}
  BY <1>1
<1>2. CASE ~(T \subseteq {n})
  <2>1. T \ {n} \in SUBSET tasks /\ T \ {n} # {} BY <1>2
  <2>2. PICK t \in T \ {n} : \A e \in edges : e[2] = t => e[1] \notin T \ {n}
    BY <2>1 DEF Orderable
  <2>3. CASE new = {<<n, other>>}
    <3>1. CASE n \in T BY <3>1, <2>3
    <3>2. CASE n \notin T BY <3>2, <2>2, <2>3
    <3> QED BY <3>1, <3>2
  <2>4. CASE new \in {{}, {<<other, n>>}}
    <3>1. \A e \in edges \cup new : e[2] = t => e \in edges BY <2>4, <2>2
    <3> QED BY <3>1, <2>2
  <2> QED BY <2>3, <2>4
<1> QED BY <1>1, <1>2

\* Nor is it lost when one of its ends is made to wait for another task.
LEMMA OrderLinked ==
  ASSUME NEW tasks, NEW edges, Orderable(tasks, edges),
         NEW u \in tasks, NEW v \in tasks, u # v, \A e \in edges : e[1] # v
  PROVE  Orderable(tasks, edges \cup {<<u, v>>})
<1> SUFFICES ASSUME NEW T \in SUBSET tasks, T # {}
             PROVE  \E t \in T : \A e \in edges \cup {<<u, v>>} : e[2] = t => e[1] \notin T
  BY DEF Orderable
<1>1. CASE T = {v}
  BY <1>1
<1>2. CASE T # {v}
  <2>1. T \ {v} # {} /\ T \ {v} \in SUBSET tasks BY <1>2
  <2>2. PICK t \in T \ {v} : \A e \in edges : e[2] = t => e[1] \notin T \ {v}
    BY <2>1 DEF Orderable
  <2> QED BY <2>2
<1> QED BY <1>1, <1>2

\* A task of the last root, which is not committed, is composed.
LEMMA TaskKeeps ==
  ASSUME NEW facts, Fine(facts), NEW name, NEW kind, NEW root, NEW edges,
         UNCHANGED <<request, db>>,
         view' = [view EXCEPT !.tasks = Append(@, [var |-> name, kind |-> kind, root |-> root]),
                              !.edges = @ \cup edges],
         request \notin ComposesUnknown => kind \in Mapper,
         Whole =>
           /\ root = Len(view.roots) /\ facts.roots # {}
           /\ \/ edges = {}
              \/ \E other \in DOMAIN view.tasks :
                   /\ view.tasks[other].root = root
                   /\ edges \in {{<<other, Len(view.tasks) + 1>>}, {<<Len(view.tasks) + 1, other>>}}
  PROVE  /\ view'.roots = view.roots /\ view'.added = view.added
         /\ view'.edges = view.edges \cup edges
         /\ IsSession(view)' /\ IsSession(db)' /\ Listed(view.tasks)'
         /\ request' \notin ComposesUnknown => KindsKnown(view)'
         /\ Len(view.tasks) + 1 \notin DOMAIN view.tasks
         /\ Whole =>
              /\ Kept' /\ WaitsForNew' /\ Composed(view)'
              /\ TaskIsLast(name)' /\ TaskOf(name)' = Len(view.tasks) + 1
              /\ \A v : v # name => (TaskIsLast(v)' <=> TaskIsLast(v)) /\ TaskOf(v)' = TaskOf(v)
              /\ \A v : RootIsNew(v)' <=> RootIsNew(v)
<1> DEFINE n == Len(view.tasks) + 1  task == [var |-> name, kind |-> kind, root |-> root]
<1>t. task.var = name /\ task.kind = kind /\ task.root = root OBVIOUS
<1> HIDE DEF task
<1>1. /\ DOMAIN view' = DOMAIN view /\ view'.roots = view.roots /\ view'.added = view.added
      /\ view'.tasks = Append(view.tasks, task) /\ view'.edges = view.edges \cup edges
  BY SessionFields DEF Fine, IsSession, task
<1>2. /\ Len(view.roots) \in Nat /\ DOMAIN view.roots = 1..Len(view.roots)
      /\ Len(db.roots) \in Nat /\ DOMAIN db.roots = 1..Len(db.roots)
      /\ Len(view.tasks) \in Nat /\ DOMAIN view.tasks = 1..Len(view.tasks)
  BY Lengths DEF Fine
<1>3. /\ Listed(view'.tasks) /\ Len(view'.tasks) = n /\ DOMAIN view'.tasks = 1..n
      /\ view'.tasks[n] = task
      /\ \A i \in 1..Len(view.tasks) : view'.tasks[i] = view.tasks[i]
  BY <1>1, Appended DEF Fine
<1>d. n \in Nat /\ n \notin DOMAIN view.tasks /\ DOMAIN view'.tasks = DOMAIN view.tasks \cup {n}
  BY <1>2, <1>3
<1> HIDE DEF n
<1>4. IsSession(view)' /\ IsSession(db)' /\ Listed(view.tasks)'
  BY <1>1, <1>3 DEF Fine, IsSession
<1>5. ASSUME request \notin ComposesUnknown PROVE KindsKnown(view)'
  BY <1>5, <1>d, <1>2, <1>3, <1>t DEF Fine, KindsKnown
<1>6. ASSUME Whole
      PROVE  /\ Kept' /\ WaitsForNew' /\ Composed(view)'
             /\ TaskIsLast(name)' /\ TaskOf(name)' = n
             /\ \A v : v # name => (TaskIsLast(v)' <=> TaskIsLast(v)) /\ TaskOf(v)' = TaskOf(v)
             /\ \A v : RootIsNew(v)' <=> RootIsNew(v)
  <2>1. Kept /\ WaitsForNew /\ Composed(view) /\ Hold(facts) BY <1>6 DEF Fine
  <2>2. root = Len(view.roots) /\ facts.roots # {} BY <1>6
  <2>3. ~Known(Len(view.roots)) /\ root \in DOMAIN view.roots
    BY <2>1, <2>2, <1>2 DEF Hold, Known
  <2>4. WaitsForNew'
    BY <2>1, <1>1 DEF WaitsForNew, Known
  <2>5. \A v : RootIsNew(v)' <=> RootIsNew(v)
    BY <1>1 DEF RootIsNew, RootsOf, Known
  <2>6. TaskOf(name)' = n /\ n \in TasksOf(name)'
    <3>1. n \in TasksOf(name)' /\ TasksOf(name)' \subseteq 1..n
      BY <1>3, <1>d, <1>t DEF TasksOf
    <3>2. Max(TasksOf(name)') = n BY <3>1, <1>d, LastIsMax
    <3> QED BY <3>1, <3>2 DEF TaskOf
  <2>7. TaskIsLast(name)'
    BY <2>6, <2>2, <1>1, <1>3, <1>t DEF TaskIsLast
  <2>8. ASSUME NEW v, v # name
        PROVE  (TaskIsLast(v)' <=> TaskIsLast(v)) /\ TaskOf(v)' = TaskOf(v)
    <3>1. TasksOf(v)' = TasksOf(v)
      BY <1>d, <1>2, <1>3, <1>t, <2>8 DEF TasksOf
    <3>2. TaskOf(v)' = TaskOf(v) BY <3>1 DEF TaskOf
    <3>3. \A t \in TasksOf(v) : view'.tasks[t] = view.tasks[t]
      BY <1>2, <1>3 DEF TasksOf
    <3> QED BY <3>1, <3>2, <3>3, <1>1 DEF TaskIsLast
  <2>9. \A e \in view.edges : {e[1], e[2]} \subseteq DOMAIN view.tasks
    BY <2>1 DEF Composed
  <2>10. Kept'
    <3>1. DOMAIN db.tasks = {t \in DOMAIN view'.tasks : Known(view'.tasks[t].root)}
      BY <2>1, <2>2, <2>3, <1>d, <1>2, <1>3, <1>t DEF Kept
    <3>2. \A t \in DOMAIN db.tasks : db.tasks[t] = view'.tasks[t]
      BY <2>1, <1>2, <1>3 DEF Kept
    <3>3. db.edges = {e \in view'.edges : Known(view'.tasks[e[1]].root)}
      <4>1. \A e \in view.edges : view'.tasks[e[1]] = view.tasks[e[1]]
        BY <2>9, <1>2, <1>3
      <4>2. \A e \in edges : view'.tasks[e[1]].root = root
        BY <1>6, <1>2, <1>3, <1>t DEF n
      <4> QED BY <4>1, <4>2, <2>1, <2>2, <2>3, <1>1 DEF Kept
    <3> QED BY <3>1, <3>2, <3>3, <2>1, <1>1 DEF Kept, Known
  <2>11. Orderable(DOMAIN view'.tasks, view'.edges)
    <3>1. Orderable(DOMAIN view.tasks, view.edges) BY <2>1 DEF Composed
    <3>2. CASE edges = {}
      <4>1. CASE DOMAIN view.tasks = {}
        BY <4>1, <3>2, <2>9, <1>d, <1>1 DEF Orderable
      <4>2. CASE DOMAIN view.tasks # {}
        BY <4>2, <3>1, <3>2, <2>9, <1>d, <1>1, OrderGrows
      <4> QED BY <4>1, <4>2
    <3>3. CASE edges # {}
      <4>1. PICK other \in DOMAIN view.tasks : edges \in {{<<other, n>>}, {<<n, other>>}}
        BY <3>3, <1>6 DEF n
      <4>2. Orderable(DOMAIN view.tasks \cup {n}, view.edges \cup edges)
        BY ONLY <3>1, <4>1, <2>9, <1>d, OrderGrows
      <4> QED BY <4>2, <1>d, <1>1
    <3> QED BY <3>2, <3>3
  <2>12. Composed(view)'
    <3>1. \A t \in DOMAIN view'.tasks : view'.tasks[t].root \in DOMAIN view'.roots
      BY <2>1, <2>2, <2>3, <1>d, <1>1, <1>2, <1>3, <1>t DEF Composed
    <3>2. \A e \in edges : {e[1], e[2]} \subseteq DOMAIN view'.tasks
                            /\ view'.tasks[e[1]].root = root /\ view'.tasks[e[2]].root = root
      BY <1>6, <1>d, <1>2, <1>3, <1>t DEF n
    <3>3. \A e \in view.edges : {e[1], e[2]} \subseteq DOMAIN view'.tasks
                            /\ view'.tasks[e[1]].root = view'.tasks[e[2]].root
      BY <2>1, <2>9, <1>d, <1>2, <1>3 DEF Composed
    <3> QED BY <3>1, <3>2, <3>3, <2>1, <2>11, <1>1 DEF Composed
  <2> QED BY <2>4, <2>5, <2>6, <2>7, <2>8, <2>10, <2>12
<1> QED BY <1>1, <1>4, <1>5, <1>6, <1>d DEF n

LEMMA FirstKeeps ==
  ASSUME NEW facts, Fine(facts), DOMAIN facts = DOMAIN NoFacts, NEW op, op.op = "First",
         UNCHANGED <<request, db>>, AddTask(op.var, op.of, Len(view.roots), {}),
         request \notin ComposesUnknown => Kinds(op) \subseteq Mapper,
         Whole => Founded(facts, op)
  PROVE  Fine(Learns(facts, op))'
<1> DEFINE new == Learns(facts, op)
<1>0. /\ new.added = facts.added /\ new.roots = facts.roots
      /\ new.tasks = facts.tasks \cup {op.var} /\ new.ends = facts.ends \cup {op.var}
  BY LearnsFirst
<1> HIDE DEF new
<1>1. /\ request \notin ComposesUnknown => op.of \in Mapper
      /\ Whole => facts.roots # {}
  BY DEF Kinds, Founded
<1>2. /\ view'.roots = view.roots /\ view'.added = view.added
      /\ view'.edges = view.edges \cup {}
      /\ IsSession(view)' /\ IsSession(db)' /\ Listed(view.tasks)'
      /\ request' \notin ComposesUnknown => KindsKnown(view)'
      /\ Len(view.tasks) + 1 \notin DOMAIN view.tasks
      /\ Whole =>
           /\ Kept' /\ WaitsForNew' /\ Composed(view)'
           /\ TaskIsLast(op.var)' /\ TaskOf(op.var)' = Len(view.tasks) + 1
           /\ \A v : v # op.var => (TaskIsLast(v)' <=> TaskIsLast(v)) /\ TaskOf(v)' = TaskOf(v)
           /\ \A v : RootIsNew(v)' <=> RootIsNew(v)
  BY <1>1, TaskKeeps DEF AddTask
<1>3. ASSUME Whole PROVE Hold(new)'
  <2>1. Hold(facts) /\ Composed(view) BY <1>3 DEF Fine
  <2>2. \A e \in view.edges : e[1] # Len(view.tasks) + 1
    BY <2>1, <1>2 DEF Composed
  <2>3. facts.roots # {} BY <1>1, <1>3
  <2> QED BY <1>0, <1>2, <1>3, <2>1, <2>2, <2>3 DEF Hold, Known
<1>4. Fine(new)' BY <1>2, <1>3 DEF Fine, Whole
<1> QED BY <1>4 DEF new

LEMMA AfterKeeps ==
  ASSUME NEW facts, Fine(facts), DOMAIN facts = DOMAIN NoFacts, NEW op, op.op = "After",
         UNCHANGED <<request, db>>,
         AddTask(op.var, op.of[2], view.tasks[TaskOf(op.of[1])].root,
                 {<<TaskOf(op.of[1]), Len(view.tasks) + 1>>}),
         request \notin ComposesUnknown => Kinds(op) \subseteq Mapper,
         Whole => Founded(facts, op)
  PROVE  Fine(Learns(facts, op))'
<1> DEFINE new == Learns(facts, op)  first == op.of[1]  other == TaskOf(first)
           edge == <<other, Len(view.tasks) + 1>>
<1>0. /\ new.added = facts.added /\ new.roots = facts.roots
      /\ new.tasks = facts.tasks \cup {op.var}
      /\ new.ends = (facts.ends \ {first}) \cup {op.var}
  BY LearnsAfter
<1> HIDE DEF new
<1>1. /\ request \notin ComposesUnknown => op.of[2] \in Mapper
      /\ Whole => first \in facts.tasks
  BY DEF Kinds, Founded
<1>2. ASSUME Whole
      PROVE  /\ facts.roots # {} /\ other \in DOMAIN view.tasks
             /\ view.tasks[other].root = Len(view.roots) /\ view.tasks[other].var = first
  BY <1>1, <1>2 DEF Fine, Hold, TaskIsLast, TasksOf
<1> HIDE DEF first, other
<1>a. view' = [view EXCEPT !.tasks = Append(@, [var |-> op.var, kind |-> op.of[2],
                                                root |-> view.tasks[other].root]),
                           !.edges = @ \cup {edge}]
  BY DEF AddTask, first, other
<1>w. Whole =>
        /\ view.tasks[other].root = Len(view.roots) /\ facts.roots # {}
        /\ \/ {edge} = {}
           \/ \E t \in DOMAIN view.tasks :
                /\ view.tasks[t].root = view.tasks[other].root
                /\ {edge} \in {{<<t, Len(view.tasks) + 1>>}, {<<Len(view.tasks) + 1, t>>}}
  BY <1>2
<1> HIDE DEF edge
<1>3. /\ view'.roots = view.roots /\ view'.added = view.added
      /\ view'.edges = view.edges \cup {edge}
      /\ IsSession(view)' /\ IsSession(db)' /\ Listed(view.tasks)'
      /\ request' \notin ComposesUnknown => KindsKnown(view)'
      /\ Len(view.tasks) + 1 \notin DOMAIN view.tasks
      /\ Whole =>
           /\ Kept' /\ WaitsForNew' /\ Composed(view)'
           /\ TaskIsLast(op.var)' /\ TaskOf(op.var)' = Len(view.tasks) + 1
           /\ \A v : v # op.var => (TaskIsLast(v)' <=> TaskIsLast(v)) /\ TaskOf(v)' = TaskOf(v)
           /\ \A v : RootIsNew(v)' <=> RootIsNew(v)
  BY ONLY Fine(facts), UNCHANGED <<request, db>>, <1>a, <1>w, <1>1, TaskKeeps
<1> USE DEF edge
<1>4. ASSUME Whole PROVE Hold(new)'
  <2>1. Hold(facts) /\ Composed(view) BY <1>4 DEF Fine
  <2>2. \A e \in view'.edges : e[1] # Len(view.tasks) + 1
    BY <2>1, <1>2, <1>3, <1>4 DEF Composed
  <2>3. \A v \in facts.ends \ {first} : TaskOf(v) # other
    BY <2>1, <1>2, <1>4 DEF Hold, TaskIsLast, TasksOf
  <2>4. \A v \in new.ends : v = op.var \/ (v # op.var /\ v \in facts.ends \ {first})
    BY <1>0
  <2>5. \A v \in new.ends : \A e \in view'.edges : e[1] # TaskOf(v)'
    BY <2>1, <2>2, <2>3, <2>4, <1>3, <1>4 DEF Hold
  <2> QED BY <1>0, <1>2, <1>3, <1>4, <2>1, <2>5 DEF Hold, Known
<1>5. Fine(new)' BY <1>3, <1>4 DEF Fine, Whole
<1> QED BY <1>5 DEF new

LEMMA BeforeKeeps ==
  ASSUME NEW facts, Fine(facts), DOMAIN facts = DOMAIN NoFacts, NEW op, op.op = "Before",
         UNCHANGED <<request, db>>,
         AddTask(op.var, op.of[2], view.tasks[TaskOf(op.of[1])].root,
                 {<<Len(view.tasks) + 1, TaskOf(op.of[1])>>}),
         request \notin ComposesUnknown => Kinds(op) \subseteq Mapper,
         Whole => Founded(facts, op)
  PROVE  Fine(Learns(facts, op))'
<1> DEFINE new == Learns(facts, op)  last == op.of[1]  other == TaskOf(last)
           edge == <<Len(view.tasks) + 1, other>>
<1>0. /\ new.added = facts.added /\ new.roots = facts.roots
      /\ new.tasks = facts.tasks \cup {op.var} /\ new.ends = facts.ends \ {op.var}
  BY LearnsBefore
<1> HIDE DEF new
<1>1. /\ request \notin ComposesUnknown => op.of[2] \in Mapper
      /\ Whole => last \in facts.tasks
  BY DEF Kinds, Founded
<1>2. ASSUME Whole
      PROVE  /\ facts.roots # {} /\ other \in DOMAIN view.tasks
             /\ view.tasks[other].root = Len(view.roots)
  BY <1>1, <1>2 DEF Fine, Hold, TaskIsLast, TasksOf
<1> HIDE DEF last, other
<1>a. view' = [view EXCEPT !.tasks = Append(@, [var |-> op.var, kind |-> op.of[2],
                                                root |-> view.tasks[other].root]),
                           !.edges = @ \cup {edge}]
  BY DEF AddTask, last, other
<1>w. Whole =>
        /\ view.tasks[other].root = Len(view.roots) /\ facts.roots # {}
        /\ \/ {edge} = {}
           \/ \E t \in DOMAIN view.tasks :
                /\ view.tasks[t].root = view.tasks[other].root
                /\ {edge} \in {{<<t, Len(view.tasks) + 1>>}, {<<Len(view.tasks) + 1, t>>}}
  BY <1>2
<1> HIDE DEF edge
<1>3. /\ view'.roots = view.roots /\ view'.added = view.added
      /\ view'.edges = view.edges \cup {edge}
      /\ IsSession(view)' /\ IsSession(db)' /\ Listed(view.tasks)'
      /\ request' \notin ComposesUnknown => KindsKnown(view)'
      /\ Len(view.tasks) + 1 \notin DOMAIN view.tasks
      /\ Whole =>
           /\ Kept' /\ WaitsForNew' /\ Composed(view)'
           /\ TaskIsLast(op.var)' /\ TaskOf(op.var)' = Len(view.tasks) + 1
           /\ \A v : v # op.var => (TaskIsLast(v)' <=> TaskIsLast(v)) /\ TaskOf(v)' = TaskOf(v)
           /\ \A v : RootIsNew(v)' <=> RootIsNew(v)
  BY ONLY Fine(facts), UNCHANGED <<request, db>>, <1>a, <1>w, <1>1, TaskKeeps
<1> USE DEF edge
<1>4. ASSUME Whole PROVE Hold(new)'
  <2>1. Hold(facts) /\ Composed(view) BY <1>4 DEF Fine
  <2>2. \A v \in facts.ends : TaskOf(v) \in DOMAIN view.tasks
    BY <2>1 DEF Hold, TaskIsLast, TasksOf
  <2>3. \A v \in new.ends : \A e \in view'.edges : e[1] # TaskOf(v)'
    BY <2>1, <2>2, <1>0, <1>3, <1>4 DEF Hold
  <2> QED BY <1>0, <1>2, <1>3, <1>4, <2>1, <2>3 DEF Hold, Known
<1>5. Fine(new)' BY <1>3, <1>4 DEF Fine, Whole
<1> QED BY <1>5 DEF new

LEMMA LinkKeeps ==
  ASSUME NEW facts, Fine(facts), DOMAIN facts = DOMAIN NoFacts, NEW op, op.op = "Link",
         UNCHANGED <<request, db>>,
         view' = [view EXCEPT !.edges = @ \cup {<<TaskOf(op.of), TaskOf(op.var)>>}],
         Whole => Founded(facts, op)
  PROVE  Fine(Learns(facts, op))'
<1> DEFINE new == Learns(facts, op)  u == TaskOf(op.of)  v == TaskOf(op.var)
<1>0. /\ new.added = facts.added /\ new.roots = facts.roots
      /\ new.tasks = facts.tasks /\ new.ends = facts.ends \ {op.of}
  BY LearnsLink
<1>1. /\ DOMAIN view' = DOMAIN view /\ view'.roots = view.roots /\ view'.tasks = view.tasks
      /\ view'.edges = view.edges \cup {<<u, v>>} /\ view'.added = view.added
  BY SessionFields DEF Fine, IsSession
<1> HIDE DEF new, u, v
<1>2. IsSession(view)' /\ IsSession(db)' /\ Listed(view.tasks)'
  BY <1>1 DEF Fine, IsSession
<1>3. KindsKnown(view)' <=> KindsKnown(view)
  BY <1>1 DEF KindsKnown
<1>4. ASSUME Whole PROVE Kept' /\ WaitsForNew' /\ Composed(view)' /\ Hold(new)'
  <2>1. Kept /\ WaitsForNew /\ Composed(view) /\ Hold(facts) BY <1>4 DEF Fine
  <2>2. op.of \in facts.tasks /\ op.var \in facts.ends /\ op.var # op.of
    BY <1>4 DEF Founded
  <2>3. /\ u \in DOMAIN view.tasks /\ view.tasks[u].var = op.of
        /\ v \in DOMAIN view.tasks /\ view.tasks[v].var = op.var
        /\ view.tasks[u].root = Len(view.roots) /\ view.tasks[v].root = Len(view.roots)
        /\ ~Known(Len(view.roots))
    BY <2>1, <2>2 DEF Hold, TaskIsLast, TasksOf, u, v
  <2>4. \A e \in view.edges : e[1] # v
    BY <2>1, <2>2 DEF Hold, v
  <2>5. WaitsForNew' /\ Kept'
    BY <2>1, <2>3, <1>1 DEF WaitsForNew, Kept, Known
  <2>6. Orderable(DOMAIN view.tasks, view.edges) BY <2>1 DEF Composed
  <2>7. Orderable(DOMAIN view.tasks, view.edges \cup {<<u, v>>})
    BY ONLY <2>2, <2>3, <2>4, <2>6, OrderLinked
  <2>8. Composed(view)'
    <3>1. \A e \in view'.edges : {e[1], e[2]} \subseteq DOMAIN view.tasks
                                /\ view.tasks[e[1]].root = view.tasks[e[2]].root
      BY <2>1, <2>3, <1>1 DEF Composed
    <3> QED BY <3>1, <2>1, <2>7, <1>1 DEF Composed
  <2>9. /\ \A w : RootIsNew(w)' <=> RootIsNew(w)
        /\ \A w : TaskIsLast(w)' <=> TaskIsLast(w)
        /\ \A w : TaskOf(w)' = TaskOf(w)
    BY <1>1 DEF RootIsNew, TaskIsLast, RootsOf, TasksOf, TaskOf, Known
  <2>10. \A w \in new.ends : TaskOf(w) # u
    BY <2>1, <2>3, <1>0 DEF Hold, TaskIsLast, TasksOf
  <2>11. Hold(new)'
    BY <2>1, <2>9, <2>10, <1>0, <1>1 DEF Hold, Known, TasksOn
  <2> QED BY <2>5, <2>8, <2>11
<1>5. Fine(new)' BY <1>1, <1>2, <1>3, <1>4 DEF Fine, Whole
<1> QED BY <1>5 DEF new

\* What a commit stores is the part of the session that has been added to it.
LEMMA StoredFields ==
  ASSUME IsSession(view)
  PROVE  /\ DOMAIN Stored = DOMAIN Nothing
         /\ Stored.roots = SubSeq(view.roots, 1, view.added)
         /\ Stored.tasks = [t \in {t \in DOMAIN view.tasks : Added(t)} |-> view.tasks[t]]
         /\ Stored.edges = {e \in view.edges : Added(e[1])}
         /\ Stored.added = view.added /\ Stored.rows = view.rows
BY SessionFields DEF Stored, IsSession, Restrict

LEMMA StoredIsSession ==
  ASSUME IsSession(view)
  PROVE  /\ IsSession(Stored) /\ Len(Stored.roots) = view.added
         /\ DOMAIN Stored.roots = 1..view.added
         /\ \A r \in 1..view.added : Stored.roots[r] = view.roots[r]
<1>1. view.added \in Nat /\ view.added <= Len(view.roots) /\ Listed(view.roots)
  BY DEF IsSession
<1>2. /\ Listed(Stored.roots) /\ Len(Stored.roots) = view.added
      /\ DOMAIN Stored.roots = 1..view.added
      /\ \A r \in 1..view.added : Stored.roots[r] = view.roots[r]
  <2>1. Stored.roots = SubSeq(view.roots, 1, view.added) BY StoredFields
  <2> HIDE DEF Stored
  <2> QED BY ONLY <1>1, <2>1, Cut
<1> QED BY <1>1, <1>2, StoredFields DEF IsSession

LEMMA StoredIsComposed ==
  ASSUME IsSession(view), Composed(view)
  PROVE  Composed(Stored)
<1> DEFINE kept == {t \in DOMAIN view.tasks : Added(t)}
<1>1. /\ DOMAIN view.roots = 1..Len(view.roots) /\ Len(view.roots) \in Nat
      /\ view.added \in Nat /\ view.added <= Len(view.roots)
  BY ListedLength DEF IsSession
<1>2. /\ DOMAIN Stored.tasks = kept
      /\ \A t \in kept : Stored.tasks[t] = view.tasks[t]
      /\ Stored.edges = {e \in view.edges : Added(e[1])}
  BY StoredFields
<1>3. \A r \in DOMAIN Stored.roots : DOMAIN Stored.roots[r] = {"var", "type", "parent"}
  BY <1>1, StoredIsSession DEF Composed
<1>4. \A t \in DOMAIN Stored.tasks : Stored.tasks[t].root \in DOMAIN Stored.roots
  BY <1>1, <1>2, StoredIsSession DEF Composed, Added
<1>5. ASSUME NEW e \in Stored.edges
      PROVE  {e[1], e[2]} \subseteq kept /\ view.tasks[e[1]].root = view.tasks[e[2]].root
  BY <1>2 DEF Composed, Added
<1>6. Orderable(kept, Stored.edges)
  BY <1>2 DEF Composed, Orderable
<1> QED BY <1>2, <1>3, <1>4, <1>5, <1>6 DEF Composed

LEMMA CommitKeeps ==
  ASSUME NEW facts, Fine(facts), DOMAIN facts = DOMAIN NoFacts, NEW op, op.op = "Commit",
         UNCHANGED <<request, view>>, db' = Stored, Whole => Founded(facts, op)
  PROVE  /\ Fine(Learns(facts, op))'
         /\ Whole => Composed(db)'
         /\ request \notin ComposesUnknown => KindsKnown(db)'
<1> DEFINE new == Learns(facts, op)
<1>0. /\ facts.added = "none" =>
           /\ new.added = "none" /\ new.roots = facts.roots
           /\ new.tasks = facts.tasks /\ new.ends = facts.ends
      /\ facts.added # "none" =>
           new.added = "none" /\ new.roots = {} /\ new.tasks = {} /\ new.ends = {}
  BY LearnsCommit
<1> HIDE DEF new
<1>1. /\ IsSession(view) /\ Listed(view.tasks)
      /\ Len(view.roots) \in Nat /\ DOMAIN view.roots = 1..Len(view.roots)
      /\ view.added \in Nat /\ view.added <= Len(view.roots)
  BY Lengths DEF Fine, IsSession
<1>2. /\ IsSession(db') /\ Len(db'.roots) = view.added
      /\ DOMAIN db'.roots = 1..view.added
      /\ \A r \in 1..view.added : db'.roots[r] = view.roots[r]
  BY <1>1, StoredIsSession
<1>3. /\ db'.tasks = [t \in {t \in DOMAIN view.tasks : Added(t)} |-> view.tasks[t]]
      /\ db'.edges = {e \in view.edges : Added(e[1])}
  BY <1>1, StoredFields
<1>4. request \notin ComposesUnknown => KindsKnown(view)' /\ KindsKnown(db)'
  BY <1>3 DEF Fine, KindsKnown
<1>5. ASSUME Whole PROVE Kept' /\ WaitsForNew' /\ Composed(view)' /\ Hold(new)'
  <2>1. Kept /\ WaitsForNew /\ Composed(view) /\ Hold(facts) BY <1>5 DEF Fine
  <2>2. facts.added # "some" /\ facts.added \in {"none", "some", "all"}
    BY <2>1, <1>5 DEF Founded, Hold
  <2>3. Kept' BY <1>1, <1>2, <1>3 DEF Kept, Known, Added
  <2>4. CASE facts.added = "none"
    <3>1. Len(db'.roots) = Len(db.roots) BY <2>1, <2>4, <1>2 DEF Hold
    <3>2. \A r : Known(r)' <=> Known(r) BY <3>1 DEF Known
    <3>3. WaitsForNew' BY <2>1, <3>2 DEF WaitsForNew
    <3>4. /\ \A v : RootIsNew(v)' <=> RootIsNew(v)
          /\ \A v : TaskIsLast(v)' <=> TaskIsLast(v)
          /\ \A v : TaskOf(v)' = TaskOf(v)
      BY <3>2 DEF RootIsNew, TaskIsLast, RootsOf, TasksOf, TaskOf
    <3>5. Hold(new)' BY <2>1, <2>4, <3>1, <3>2, <3>4, <1>0, <1>2 DEF Hold, TasksOn
    <3> QED BY <2>1, <2>3, <3>3, <3>5
  <2>5. CASE facts.added = "all"
    <3>1. Len(db'.roots) = Len(view.roots) BY <2>1, <2>5, <1>2 DEF Hold
    <3>2. WaitsForNew' BY <3>1, <1>1 DEF WaitsForNew, Known
    <3>3. Hold(new)' BY <2>1, <2>5, <3>1, <1>0, <1>2 DEF Hold
    <3> QED BY <2>1, <2>3, <3>2, <3>3
  <2> QED BY <2>2, <2>4, <2>5
<1>6. Whole => Composed(db)' BY <1>1, StoredIsComposed DEF Fine
<1>7. Fine(new)' BY <1>1, <1>2, <1>4, <1>5 DEF Fine, Whole
<1> QED BY <1>4, <1>6, <1>7 DEF new

-----------------------------------------------------------------------------
(* The request's steps.                                                    *)

\* Where a request is that has still something to do.
LEMMA Position ==
  ASSUME RequestInv, ~Idle
  PROVE  \E p \in Flow[request] :
           /\ Matches(p) /\ Fine(p[2])
           /\ request \notin ComposesUnknown => Kinds(Head(todo)) \subseteq Mapper
           /\ request \notin ChecksLate /\ Head(todo).op \in {"Check", "Raise"} => db = Nothing
           /\ Whole => Founded(p[2], Head(todo))
<1>1. PICK p \in Flow[request] : Matches(p) BY DEF RequestInv, OnItsWay
<1>2. Fine(p[2])
  BY <1>1 DEF RequestInv, Places, OnItsWay, AllKnown, Composing, Matches, Fine
<1>3. /\ request \notin ComposesUnknown => Kinds(Head(todo)) \subseteq Mapper
      /\ request \notin ChecksLate /\ Head(todo).op \in {"Check", "Raise"} => ~p[2].committed
      /\ Whole => Founded(p[2], Head(todo))
  BY <1>1, FlowIsChecked DEF RequestInv, Places, Matches
<1> QED BY <1>1, <1>2, <1>3 DEF Matches

\* Nothing of the executor's depends on the session.
LEMMA RunsOn ==
  ASSUME Runs, UNCHANGED <<request, db, statuses, verdicts, focus>>
  PROVE  Runs'
<1> USE DEF Whole
<1>1. Numbered' <=> Numbered BY DEF Numbered
<1>2. Untouched' <=> Untouched BY DEF Untouched, VerdictOn
<1>3. Awaits' <=> Awaits BY DEF Awaits, VerdictOn
<1>4. AllRan' <=> AllRan BY DEF AllRan, TasksIn
<1> QED BY <1>1, <1>2, <1>3, <1>4 DEF Runs

LEMMA GoOnKeeps ==
  ASSUME RequestInv, ~Idle, NEW p \in Flow[request], Matches(p),
         NEW op, op = Head(todo), NEW script \in Continues(todo), GoOn(script),
         NEW new, new = Learns(p[2], op), DOMAIN new = DOMAIN NoFacts,
         new.committed = p[2].committed, Fine(new)'
  PROVE  RequestInv'
<1>1. /\ UNCHANGED <<request, db, statuses, verdicts, focus>> /\ todo' = script
      /\ answer' \in {answer, "accepted"} /\ (script # <<>> => answer' = answer)
  BY DEF GoOn, ExecutorUnchanged
<1>2. answer = "none" BY DEF RequestInv, OnItsWay
<1>3. Places' BY <1>1, <1>2 DEF RequestInv, Places, Fine, IsSession
<1>4. OnItsWay'
  <2>1. <<script, new>> \in Flow[request]
    BY FlowGoesOn DEF RequestInv, Places, Matches
  <2>2. Matches(<<script, new>>)'
    BY <1>1 DEF Matches, Fine, Whole
  <2> QED BY <1>1, <1>2, <2>1, <2>2 DEF OnItsWay, Idle, Fine, Whole
<1>5. AllKnown'
  BY <1>1 DEF RequestInv, AllKnown, KindsKnown, Fine
<1>6. Composing'
  BY <1>1 DEF RequestInv, Composing, Composed, Fine, Whole
<1>7. Runs' BY <1>1, RunsOn DEF RequestInv
<1>8. RefusedLeavesNothing' BY <1>1, <1>2 DEF RefusedLeavesNothing
<1> QED BY <1>3, <1>4, <1>5, <1>6, <1>7, <1>8 DEF RequestInv

LEMMA StopKeeps ==
  ASSUME RequestInv, ~Idle, NEW reason \in {"accepted", "refused", "error"}, Stop(reason),
         reason # "accepted" /\ request \notin ChecksLate => db = Nothing
  PROVE  RequestInv'
<1>1. /\ UNCHANGED <<request, db, statuses, verdicts, focus>> /\ todo' = <<>>
      /\ answer' = reason /\ view' = db
  BY DEF Stop, ExecutorUnchanged
<1>2. Places' BY <1>1 DEF RequestInv, Places, IsSession
<1>3. OnItsWay' BY <1>1 DEF OnItsWay, Idle
<1>4. AllKnown' BY <1>1 DEF RequestInv, AllKnown, KindsKnown
<1>5. Composing' BY <1>1 DEF RequestInv, Composing, Composed, Whole
<1>6. Runs' BY <1>1, RunsOn DEF RequestInv
<1>7. RefusedLeavesNothing'
  BY <1>1 DEF RefusedLeavesNothing, NothingDone, Nothing
<1> QED BY <1>2, <1>3, <1>4, <1>5, <1>6, <1>7 DEF RequestInv

\* The operations that leave the script as it goes on, one after the other.
LEMMA ComposeKeeps ==
  ASSUME RequestInv, ~Idle, NEW p \in Flow[request], Matches(p),
         Head(todo).op \notin {"Raise", "When", "Each"}, GoOn(Rest),
         NEW op, op = Head(todo), NEW new, new = Learns(p[2], op),
         DOMAIN new = DOMAIN NoFacts, new.committed = p[2].committed, Fine(new)'
  PROVE  RequestInv'
<1>1. Rest \in Continues(todo) BY DEF Continues, Rest
<1> QED BY <1>1, GoOnKeeps

LEMMA UnchangedKeeps ==
  ASSUME RequestInv, ~Idle, NEW script \in Continues(todo), GoOn(script),
         Head(todo).op \in {"Check", "Answers", "When", "Each", "Write"},
         DOMAIN view' = DOMAIN view,
         view'.roots = view.roots, view'.tasks = view.tasks, view'.edges = view.edges,
         view'.added = view.added
  PROVE  RequestInv'
<1>1. PICK p \in Flow[request] : Matches(p) /\ Fine(p[2]) BY Position
<1>2. PICK op : op = Head(todo) OBVIOUS
<1>3. p[2] = Learns(p[2], op) BY <1>2, LearnsNothing
<1>4. Fine(p[2])' BY <1>1, SameSession DEF GoOn
<1>5. DOMAIN p[2] = DOMAIN NoFacts BY <1>1 DEF Matches
<1> QED BY ONLY RequestInv, ~Idle, GoOn(script), script \in Continues(todo),
           <1>1, <1>2, <1>3, <1>4, <1>5, GoOnKeeps

LEMMA CheckStep == RequestInv /\ CheckRequest => RequestInv'
<1> SUFFICES ASSUME RequestInv, CheckRequest PROVE RequestInv'
  OBVIOUS
<1>1. ~Idle /\ Head(todo).op = "Check" BY DEF CheckRequest, Now
<1>2. CASE GoOn(Rest) /\ UNCHANGED view
  <2>1. Rest \in Continues(todo) BY <1>1 DEF Continues, Rest
  <2> QED BY <1>1, <1>2, <2>1, UnchangedKeeps
<1>3. CASE Stop("refused")
  BY <1>1, <1>3, Position, StopKeeps
<1> QED BY <1>2, <1>3 DEF CheckRequest

LEMMA AnswerStep == RequestInv /\ AnswerAtOnce => RequestInv'
<1> SUFFICES ASSUME RequestInv, AnswerAtOnce PROVE RequestInv'
  OBVIOUS
<1>1. ~Idle /\ Head(todo).op = "Answers" BY DEF AnswerAtOnce, Now
<1>2. CASE GoOn(Rest) /\ UNCHANGED view
  <2>1. Rest \in Continues(todo) BY <1>1 DEF Continues, Rest
  <2> QED BY <1>1, <1>2, <2>1, UnchangedKeeps
<1>3. CASE Stop("accepted")
  BY <1>1, <1>3, StopKeeps
<1> QED BY <1>2, <1>3 DEF AnswerAtOnce

LEMMA RaiseStep == RequestInv /\ RaiseInRequest => RequestInv'
<1> SUFFICES ASSUME RequestInv, RaiseInRequest PROVE RequestInv'
  OBVIOUS
<1>1. ~Idle /\ Head(todo).op = "Raise" BY DEF RaiseInRequest, Now
<1> QED BY <1>1, Position, StopKeeps DEF RaiseInRequest

LEMMA BranchStep == RequestInv /\ Branch => RequestInv'
<1> SUFFICES ASSUME RequestInv, Branch PROVE RequestInv'
  OBVIOUS
<1>1. ~Idle /\ Head(todo).op = "When" /\ UNCHANGED view BY DEF Branch, Now
<1>2. Head(todo).body \o Rest \in Continues(todo) /\ Head(todo).other \o Rest \in Continues(todo)
  BY <1>1 DEF Continues, Rest
<1> QED BY <1>1, <1>2, UnchangedKeeps DEF Branch

LEMMA LoopStep == RequestInv /\ Loop => RequestInv'
<1> SUFFICES ASSUME RequestInv, Loop PROVE RequestInv'
  OBVIOUS
<1>1. ~Idle /\ Head(todo).op = "Each" /\ UNCHANGED view BY DEF Loop, Now
<1>2. Rest \in Continues(todo) /\ Head(todo).body \o todo \in Continues(todo)
  BY <1>1 DEF Continues, Rest
<1> QED BY <1>1, <1>2, UnchangedKeeps DEF Loop

LEMMA WriteStep == RequestInv /\ WriteRow => RequestInv'
<1> SUFFICES ASSUME RequestInv, WriteRow PROVE RequestInv'
  OBVIOUS
<1>1. ~Idle /\ Head(todo).op = "Write" /\ GoOn(Rest) /\ view' = [view EXCEPT !.rows = TRUE]
  BY DEF WriteRow, Now
<1>2. Rest \in Continues(todo) BY <1>1 DEF Continues, Rest
<1>3. /\ DOMAIN view' = DOMAIN view
      /\ view'.roots = view.roots /\ view'.tasks = view.tasks /\ view'.edges = view.edges
      /\ view'.added = view.added
  BY <1>1
<1> QED BY <1>1, <1>2, <1>3, UnchangedKeeps

LEMMA AddStep == RequestInv /\ AddToSession => RequestInv'
<1> SUFFICES ASSUME RequestInv, AddToSession PROVE RequestInv'
  OBVIOUS
<1>1. /\ ~Idle /\ Head(todo).op = "Add" /\ GoOn(Rest)
      /\ view' = [view EXCEPT !.added = Len(view.roots)]
  BY DEF AddToSession, Now
<1>2. PICK p \in Flow[request] : Matches(p) /\ Fine(p[2]) BY <1>1, Position
<1>3. PICK op : op = Head(todo) OBVIOUS
<1>4. PICK new : new = Learns(p[2], op) OBVIOUS
<1>5. DOMAIN new = DOMAIN NoFacts /\ new.committed = p[2].committed
  BY <1>1, <1>2, <1>3, <1>4, LearnsAdd DEF Matches
<1>6. Fine(new)'
  BY <1>1, <1>2, <1>3, <1>4, AddKeeps DEF Matches, GoOn
<1> QED BY <1>1, <1>2, <1>3, <1>4, <1>5, <1>6, ComposeKeeps

LEMMA RootStep == RequestInv /\ ComposeRoot => RequestInv'
<1> SUFFICES ASSUME RequestInv, ComposeRoot PROVE RequestInv'
  OBVIOUS
<1>1. /\ ~Idle /\ Head(todo).op \in {"Root", "OnSuccess", "OnComplete"} /\ GoOn(Rest)
      /\ \E type : view' = [view EXCEPT !.roots = Append(@, NewRoot(type))]
  BY DEF ComposeRoot, Now
<1>2. PICK p \in Flow[request] : Matches(p) /\ Fine(p[2]) BY <1>1, Position
<1>3. PICK op : op = Head(todo) OBVIOUS
<1>4. PICK new : new = Learns(p[2], op) OBVIOUS
<1>5. DOMAIN new = DOMAIN NoFacts /\ new.committed = p[2].committed
  BY <1>1, <1>2, <1>3, <1>4, LearnsRoot DEF Matches
<1>6. Fine(new)'
  BY <1>1, <1>2, <1>3, <1>4, RootKeeps DEF Matches, GoOn, NewRoot, Name
<1> QED BY <1>1, <1>2, <1>3, <1>4, <1>5, <1>6, ComposeKeeps

LEMMA CallbackStep == RequestInv /\ AddCallbackRoot => RequestInv'
<1> SUFFICES ASSUME RequestInv, AddCallbackRoot PROVE RequestInv'
  OBVIOUS
<1>1. /\ ~Idle /\ Head(todo).op = "AddCallback" /\ GoOn(Rest)
      /\ view' = IF RootsOf(Detail) = {} THEN view
                 ELSE [view EXCEPT !.roots[Max(RootsOf(Name))].parent = Max(RootsOf(Detail))]
  BY DEF AddCallbackRoot, Now
<1>2. PICK p \in Flow[request] :
        Matches(p) /\ Fine(p[2]) /\ (Whole => Founded(p[2], Head(todo)))
  BY <1>1, Position
<1>3. PICK op : op = Head(todo) OBVIOUS
<1>4. p[2] = Learns(p[2], op) BY <1>1, <1>3, LearnsNothing
<1>5. DOMAIN p[2] = DOMAIN NoFacts BY <1>2 DEF Matches
<1>6. Whole => {op.var, op.of} \subseteq p[2].roots
  BY <1>1, <1>2, <1>3 DEF Founded
<1>7. Fine(p[2])'
  BY <1>1, <1>2, <1>3, <1>6, CallbackKeeps DEF GoOn, Name, Detail
<1> QED BY <1>1, <1>2, <1>3, <1>4, <1>5, <1>7, ComposeKeeps

LEMMA TaskStep == RequestInv /\ ComposeTask => RequestInv'
<1> SUFFICES ASSUME RequestInv, ComposeTask PROVE RequestInv'
  OBVIOUS
<1>1. ~Idle /\ Head(todo).op \in {"First", "After", "Before", "Link"} /\ GoOn(Rest)
  BY DEF ComposeTask, Now
<1>2. PICK p \in Flow[request] :
        /\ Matches(p) /\ Fine(p[2])
        /\ request \notin ComposesUnknown => Kinds(Head(todo)) \subseteq Mapper
        /\ Whole => Founded(p[2], Head(todo))
  BY <1>1, Position
<1>3. PICK op : op = Head(todo) OBVIOUS
<1>4. PICK new : new = Learns(p[2], op) OBVIOUS
<1>5. DOMAIN p[2] = DOMAIN NoFacts BY <1>2 DEF Matches
<1>6. DOMAIN new = DOMAIN NoFacts /\ new.committed = p[2].committed
  BY <1>1, <1>3, <1>4, <1>5, LearnsFirst, LearnsAfter, LearnsBefore, LearnsLink
<1>7. UNCHANGED <<request, db>> BY <1>1 DEF GoOn
<1>8. Name = op.var /\ Detail = op.of BY <1>3 DEF Name, Detail
<1>9. CASE op.op = "First"
  <2>1. AddTask(op.var, op.of, Len(view.roots), {})
    BY <1>3, <1>8, <1>9 DEF ComposeTask, Now
  <2>2. Fine(new)'
    BY ONLY <1>2, <1>3, <1>4, <1>5, <1>7, <1>9, <2>1, FirstKeeps
  <2> QED BY <1>1, <1>2, <1>3, <1>4, <1>6, <2>2, ComposeKeeps
<1>10. CASE op.op = "After"
  <2>1. AddTask(op.var, op.of[2], view.tasks[TaskOf(op.of[1])].root,
                {<<TaskOf(op.of[1]), Len(view.tasks) + 1>>})
    BY <1>3, <1>8, <1>10 DEF ComposeTask, Now
  <2>2. Fine(new)'
    BY ONLY <1>2, <1>3, <1>4, <1>5, <1>7, <1>10, <2>1, AfterKeeps
  <2> QED BY <1>1, <1>2, <1>3, <1>4, <1>6, <2>2, ComposeKeeps
<1>11. CASE op.op = "Before"
  <2>1. AddTask(op.var, op.of[2], view.tasks[TaskOf(op.of[1])].root,
                {<<Len(view.tasks) + 1, TaskOf(op.of[1])>>})
    BY <1>3, <1>8, <1>11 DEF ComposeTask, Now
  <2>2. Fine(new)'
    BY ONLY <1>2, <1>3, <1>4, <1>5, <1>7, <1>11, <2>1, BeforeKeeps
  <2> QED BY <1>1, <1>2, <1>3, <1>4, <1>6, <2>2, ComposeKeeps
<1>12. CASE op.op = "Link"
  <2>1. view' = [view EXCEPT !.edges = @ \cup {<<TaskOf(op.of), TaskOf(op.var)>>}]
    BY <1>3, <1>8, <1>12 DEF ComposeTask, Now
  <2>2. Fine(new)'
    BY ONLY <1>2, <1>3, <1>4, <1>5, <1>7, <1>12, <2>1, LinkKeeps
  <2> QED BY <1>1, <1>2, <1>3, <1>4, <1>6, <2>2, ComposeKeeps
<1> QED BY <1>1, <1>3, <1>9, <1>10, <1>11, <1>12

\* A commit starts nothing, and nothing that runs is touched by it.
LEMMA CommitStep == RequestInv /\ CommitRequest => RequestInv'
<1> SUFFICES ASSUME RequestInv, CommitRequest PROVE RequestInv'
  OBVIOUS
<1>1. /\ ~Idle /\ Head(todo).op = "Commit" /\ todo' = Rest
      /\ answer' \in {answer, "accepted"} /\ (Rest # <<>> => answer' = answer)
      /\ db' = Stored /\ UNCHANGED <<request, view, focus>>
  BY DEF CommitRequest, Now
<1>2. PICK p \in Flow[request] :
        Matches(p) /\ Fine(p[2]) /\ (Whole => Founded(p[2], Head(todo)))
  BY <1>1, Position
<1>3. PICK op : op = Head(todo) OBVIOUS
<1>4. PICK new : new = Learns(p[2], op) OBVIOUS
<1>5. DOMAIN new = DOMAIN NoFacts /\ new.committed = TRUE
  BY <1>1, <1>2, <1>3, <1>4, LearnsCommit DEF Matches
<1>6. /\ Fine(new)' /\ (Whole => Composed(db)')
      /\ request \notin ComposesUnknown => KindsKnown(db)'
  BY <1>1, <1>2, <1>3, <1>4, CommitKeeps DEF Matches
<1>7. answer = "none" BY <1>1 DEF RequestInv, OnItsWay
<1>8. Places' BY <1>1, <1>6, <1>7 DEF RequestInv, Places, Fine
<1>9. OnItsWay'
  <2>1. Rest \in Continues(todo) BY <1>1 DEF Continues, Rest
  <2>2. <<Rest, new>> \in Flow[request]
    BY <1>1, <1>2, <1>3, <1>4, <2>1, FlowGoesOn DEF RequestInv, Places, Matches
  <2>3. PICK q : q = <<Rest, new>> OBVIOUS
  <2>4. Matches(q)'
    BY <1>1, <1>5, <1>6, <2>3 DEF Matches, Fine, Whole
  <2> QED BY <1>1, <1>6, <1>7, <2>2, <2>3, <2>4 DEF OnItsWay, Idle, Fine, Whole
<1>10. AllKnown' BY <1>1, <1>6 DEF AllKnown, Fine
<1>11. Composing' BY <1>1, <1>6 DEF Composing, Fine, Whole
<1>12. RefusedLeavesNothing' BY <1>1, <1>7 DEF RefusedLeavesNothing
<1>13. ASSUME Whole PROVE Numbered' /\ Untouched' /\ Awaits' /\ AllRan'
  <2>1. /\ Kept /\ WaitsForNew /\ Composed(view) /\ Composed(db) /\ IsSession(view)
        /\ Numbered /\ Untouched /\ Awaits /\ AllRan
    BY <1>1, <1>2, <1>13 DEF RequestInv, Composing, Runs, Fine
  <2>2. /\ Len(db.roots) \in Nat /\ DOMAIN db.roots = 1..Len(db.roots)
        /\ view.added \in Nat /\ Len(db.roots) <= view.added
    BY <1>2, <2>1, Lengths DEF Fine, IsSession, Kept
  <2>3. /\ DOMAIN db'.roots = 1..view.added
        /\ \A r \in 1..view.added : db'.roots[r] = view.roots[r]
    BY <1>1, <2>1, StoredIsSession
  <2>4. /\ DOMAIN db'.tasks = {t \in DOMAIN view.tasks : Added(t)}
        /\ \A t \in DOMAIN db'.tasks : db'.tasks[t] = view.tasks[t]
        /\ db'.edges = {e \in view.edges : Added(e[1])}
    BY <1>1, <2>1, StoredFields
  <2>5. /\ \A t \in DOMAIN db.tasks : t \in DOMAIN db'.tasks /\ db'.tasks[t] = db.tasks[t]
                                      /\ db.tasks[t].root \in DOMAIN db.roots
        /\ \A t \in DOMAIN db'.tasks : t \in DOMAIN db.tasks <=> db'.tasks[t].root \in DOMAIN db.roots
        /\ \A t \in DOMAIN db'.tasks : db'.tasks[t].root \in DOMAIN db'.roots
        /\ db.edges \subseteq db'.edges
    <3>1. \A t \in DOMAIN db.tasks : t \in DOMAIN db'.tasks /\ db'.tasks[t] = db.tasks[t]
                                     /\ db.tasks[t].root \in DOMAIN db.roots
      BY <2>1, <2>2, <2>4 DEF Kept, Known, Composed, Added
    <3>2. \A t \in DOMAIN db'.tasks :
            t \in DOMAIN db.tasks <=> db'.tasks[t].root \in DOMAIN db.roots
      BY <3>1, <2>1, <2>2, <2>4 DEF Kept, Known
    <3>3. \A t \in DOMAIN db'.tasks : db'.tasks[t].root \in DOMAIN db'.roots
      BY <1>6, <1>13 DEF Composed
    <3>4. db.edges \subseteq db'.edges
      BY <2>1, <2>2, <2>4, <3>1 DEF Kept, Known, Composed, Added
    <3> QED BY <3>1, <3>2, <3>3, <3>4
  <2>6. /\ \A r \in DOMAIN db.roots : r \in DOMAIN db'.roots /\ db'.roots[r] = db.roots[r]
        /\ \A r \in DOMAIN db'.roots \ DOMAIN db.roots : db'.roots[r].parent \notin DOMAIN db.roots
    <3>1. \A r \in DOMAIN db'.roots \ DOMAIN db.roots :
            r \in DOMAIN view.roots /\ db'.roots[r] = view.roots[r] /\ ~Known(r)
      BY <2>1, <2>2, <2>3, ListedLength DEF IsSession, Known
    <3>2. \A r \in DOMAIN db'.roots \ DOMAIN db.roots :
            db'.roots[r].parent = 0 \/ ~Known(db'.roots[r].parent)
      BY <3>1, <2>1 DEF WaitsForNew
    <3>3. 0 \notin DOMAIN db.roots /\ \A r \in DOMAIN db.roots : Known(r)
      BY <2>2 DEF Known
    <3>4. \A r \in DOMAIN db.roots : r \in DOMAIN db'.roots /\ db'.roots[r] = db.roots[r]
      BY <2>1, <2>2, <2>3 DEF Kept
    <3> QED BY <3>2, <3>3, <3>4
  <2>7. /\ DOMAIN statuses' = DOMAIN db'.tasks /\ DOMAIN verdicts' = DOMAIN db'.roots
        /\ \A t \in DOMAIN db'.tasks :
             statuses'[t] = IF t \in DOMAIN db.tasks THEN statuses[t] ELSE "PENDING"
        /\ \A r \in DOMAIN db.roots : verdicts'[r] = verdicts[r]
        /\ \A r \in DOMAIN db'.roots \ DOMAIN db.roots : verdicts'[r] \in {"PENDING", "ON_HOLD"}
    <3>1. /\ statuses' = [t \in DOMAIN db'.tasks |->
                            IF t \in DOMAIN statuses THEN statuses[t] ELSE "PENDING"]
          /\ verdicts' = [r \in DOMAIN db'.roots |->
                            IF r \in DOMAIN verdicts THEN verdicts[r]
                            ELSE IF db'.roots[r].type = "NORMAL" THEN "PENDING" ELSE "ON_HOLD"]
      BY DEF CommitRequest
    <3> QED BY <3>1, <2>1, <2>6 DEF Numbered
  <2>8. Numbered'
    BY <1>1, <2>1, <2>5, <2>7 DEF Numbered, TaskStatuses
  <2>9. Untouched'
    BY <1>1, <2>1, <2>5, <2>7 DEF Numbered, Untouched, VerdictOn
  <2>10. Awaits'
    <3> SUFFICES ASSUME NEW t \in DOMAIN statuses', VerdictOn(t)' = "RUNNING",
                        statuses'[t] = "PENDING"
                 PROVE  \E e \in db'.edges :
                          e[2] = t /\ (statuses'[e[1]] # "SUCCESSFUL" \/ e[1] \in focus')
      BY DEF Awaits
    <3>1. t \in DOMAIN db.tasks /\ VerdictOn(t) = "RUNNING" /\ statuses[t] = "PENDING"
      BY <2>5, <2>7 DEF VerdictOn
    <3>2. PICK e \in db.edges : e[2] = t /\ (statuses[e[1]] # "SUCCESSFUL" \/ e[1] \in focus)
      BY <3>1, <2>1 DEF Awaits, Numbered
    <3>3. e[1] \in DOMAIN db.tasks BY <2>1 DEF Composed
    <3> QED BY <1>1, <2>5, <2>7, <3>2, <3>3
  <2>11. AllRan'
    <3> SUFFICES ASSUME NEW r \in DOMAIN verdicts', verdicts'[r] = "COMPLETED_SUCCESSFULLY"
                 PROVE  /\ \A t \in TasksIn(r)' : statuses'[t] = "SUCCESSFUL"
                        /\ \A c \in DOMAIN verdicts' :
                             db'.roots[c].parent = r => verdicts'[c] # "ON_HOLD"
      BY DEF AllRan
    <3>1. r \in DOMAIN db.roots /\ r \in DOMAIN verdicts
          /\ verdicts[r] = "COMPLETED_SUCCESSFULLY"
      BY <2>1, <2>7 DEF Numbered
    <3>2. \A t \in TasksIn(r)' : statuses'[t] = "SUCCESSFUL"
      BY <2>1, <2>5, <2>7, <3>1 DEF AllRan, TasksIn
    <3>3. ASSUME NEW c \in DOMAIN verdicts', db'.roots[c].parent = r
          PROVE  verdicts'[c] # "ON_HOLD"
      BY <2>1, <2>6, <2>7, <3>1, <3>3 DEF AllRan, Numbered
    <3> QED BY <3>2, <3>3
  <2> QED BY <2>8, <2>9, <2>10, <2>11
<1>14. Runs' BY <1>1, <1>13 DEF Runs, Whole
<1> QED BY <1>8, <1>9, <1>10, <1>11, <1>12, <1>14 DEF RequestInv

-----------------------------------------------------------------------------
(* The executor's steps.                                                   *)

LEMMA RequestRests ==
  ASSUME RequestInv, RequestUnchanged,
         Whole => Numbered' /\ Untouched' /\ Awaits' /\ AllRan'
  PROVE  RequestInv'
<1>1. UNCHANGED <<request, todo, view, db, answer>> BY DEF RequestUnchanged
<1>2. Places' BY <1>1 DEF RequestInv, Places, IsSession
<1>3. OnItsWay'
  <2>1. /\ \A v : RootsOf(v)' = RootsOf(v) /\ TasksOf(v)' = TasksOf(v) /\ TaskOf(v)' = TaskOf(v)
        /\ \A r : Known(r)' <=> Known(r)
    BY <1>1 DEF RootsOf, TasksOf, TaskOf, Known
  <2>2. \A facts : Hold(facts)' <=> Hold(facts)
    BY <1>1, <2>1 DEF Hold, RootIsNew, TaskIsLast, TasksOn
  <2>3. \A p : Matches(p)' <=> Matches(p)
    BY <1>1, <2>2 DEF Matches, Whole
  <2>4. (Kept' <=> Kept) /\ (WaitsForNew' <=> WaitsForNew)
    BY <1>1, <2>1 DEF Kept, WaitsForNew
  <2> QED BY <1>1, <2>3, <2>4 DEF RequestInv, OnItsWay, Idle, Whole
<1>4. AllKnown' BY <1>1 DEF RequestInv, AllKnown, KindsKnown
<1>5. Composing' BY <1>1 DEF RequestInv, Composing, Composed, Whole
<1>6. RefusedLeavesNothing'
  BY <1>1 DEF RequestInv, RefusedLeavesNothing, NothingDone
<1>7. Runs' BY <1>1 DEF Runs, Whole
<1> QED BY <1>2, <1>3, <1>4, <1>5, <1>6, <1>7 DEF RequestInv

\* What the steps below need of the session: a task is in a root, an edge stays in one.
LEMMA Rooted ==
  ASSUME Composed(db), Numbered
  PROVE  /\ \A t \in DOMAIN statuses : db.tasks[t].root \in DOMAIN verdicts
         /\ \A r : TasksIn(r) = {t \in DOMAIN statuses : db.tasks[t].root = r}
         /\ \A e \in db.edges :
              /\ {e[1], e[2]} \subseteq DOMAIN statuses
              /\ db.tasks[e[1]].root = db.tasks[e[2]].root
BY DEF Composed, Numbered, TasksIn

LEMMA StartedStatus == \A t : Started(t) \in {"RUNNING", "FAILED"}
BY DEF Started

LEMMA FinishKeeps ==
  ASSUME Composed(db), Numbered, Untouched, Awaits, AllRan, NEW t \in DOMAIN statuses, Finish(t)
  PROVE  Numbered' /\ Untouched' /\ Awaits' /\ AllRan'
<1>1. PICK status \in {"SUCCESSFUL", "FAILED"} :
        /\ DOMAIN statuses' = DOMAIN statuses
        /\ \A u \in DOMAIN statuses : statuses'[u] = IF u = t THEN status ELSE statuses[u]
  BY DEF Finish
<1>2. statuses[t] = "RUNNING" /\ t \in focus /\ UNCHANGED <<db, verdicts, focus>>
  BY DEF Finish, RequestUnchanged, Numbered
<1>3. Numbered' BY <1>1, <1>2 DEF Numbered, TaskStatuses
<1>4. Untouched' BY <1>1, <1>2 DEF Untouched, VerdictOn
<1>5. Awaits'
  BY <1>1, <1>2, Rooted DEF Awaits, VerdictOn
<1>6. AllRan'
  <2> SUFFICES ASSUME NEW q \in DOMAIN verdicts, verdicts[q] = "COMPLETED_SUCCESSFULLY"
               PROVE  /\ \A u \in TasksIn(q) : statuses'[u] = "SUCCESSFUL"
                      /\ \A c \in DOMAIN verdicts :
                           db.roots[c].parent = q => verdicts[c] # "ON_HOLD"
    BY <1>2 DEF AllRan, TasksIn
  <2>1. \A u \in TasksIn(q) : statuses[u] = "SUCCESSFUL" /\ u \in DOMAIN statuses
    BY Rooted DEF AllRan
  <2> QED BY <2>1, <1>1, <1>2 DEF AllRan
<1> QED BY <1>3, <1>4, <1>5, <1>6

LEMMA LaunchKeeps ==
  ASSUME Composed(db), Numbered, Untouched, Awaits, AllRan, NEW r \in DOMAIN verdicts, Launch(r)
  PROVE  Numbered' /\ Untouched' /\ Awaits' /\ AllRan'
<1> DEFINE first == {t \in TasksIn(r) : Before1(t) = {}}
<1>1. /\ verdicts[r] = "PENDING" /\ UNCHANGED db /\ focus' = focus \cup first
      /\ DOMAIN verdicts' = DOMAIN verdicts
      /\ \A q \in DOMAIN verdicts : verdicts'[q] = IF q = r THEN "RUNNING" ELSE verdicts[q]
      /\ DOMAIN statuses' = DOMAIN statuses
      /\ \A t \in DOMAIN statuses :
           statuses'[t] = IF t \in first THEN Started(t) ELSE statuses[t]
  BY DEF Launch, RequestUnchanged, Start
<1>2. first \subseteq DOMAIN statuses /\ \A t \in first : db.tasks[t].root = r
  BY Rooted
<1>3. \A t \in DOMAIN statuses : db.tasks[t].root = r /\ t \notin first =>
        \E e \in db.edges : e[2] = t
  BY Rooted DEF Before1
<1> HIDE DEF first
<1>4. Numbered'
  BY <1>1, <1>2, StartedStatus DEF Numbered, TaskStatuses
<1>5. Untouched'
  BY <1>1, <1>2, Rooted DEF Untouched, VerdictOn
<1>6. Awaits'
  <2> SUFFICES ASSUME NEW t \in DOMAIN statuses, VerdictOn(t)' = "RUNNING",
                      statuses'[t] = "PENDING"
               PROVE  \E e \in db.edges :
                        e[2] = t /\ (statuses'[e[1]] # "SUCCESSFUL" \/ e[1] \in focus')
    BY <1>1 DEF Awaits
  <2>1. t \notin first /\ statuses[t] = "PENDING" BY <1>1, StartedStatus
  <2>2. CASE db.tasks[t].root = r
    <3>1. PICK e \in db.edges : e[2] = t BY <1>3, <2>1, <2>2
    <3>2. e[1] \in DOMAIN statuses /\ db.tasks[e[1]].root = r BY <3>1, <2>2, Rooted
    <3>3. statuses[e[1]] = "PENDING" BY <3>2, <1>1 DEF Untouched, VerdictOn
    <3>4. statuses'[e[1]] # "SUCCESSFUL" BY <3>2, <3>3, <1>1, StartedStatus
    <3> QED BY <3>1, <3>4
  <2>3. CASE db.tasks[t].root # r
    <3>1. VerdictOn(t) = "RUNNING" BY <1>1, <2>3, Rooted DEF VerdictOn
    <3>2. PICK e \in db.edges : e[2] = t /\ (statuses[e[1]] # "SUCCESSFUL" \/ e[1] \in focus)
      BY <3>1, <2>1 DEF Awaits
    <3>3. e[1] \in DOMAIN statuses /\ e[1] \notin first BY <3>2, <2>3, <1>2, Rooted
    <3> QED BY <3>2, <3>3, <1>1
  <2> QED BY <2>2, <2>3
<1>7. AllRan'
  <2> SUFFICES ASSUME NEW q \in DOMAIN verdicts, verdicts'[q] = "COMPLETED_SUCCESSFULLY"
               PROVE  /\ \A t \in TasksIn(q) : statuses'[t] = "SUCCESSFUL"
                      /\ \A c \in DOMAIN verdicts :
                           db.roots[c].parent = q => verdicts'[c] # "ON_HOLD"
    BY <1>1 DEF AllRan, TasksIn
  <2>1. q # r /\ verdicts[q] = "COMPLETED_SUCCESSFULLY" BY <1>1
  <2>2. \A t \in TasksIn(q) : t \in DOMAIN statuses /\ t \notin first
    BY <2>1, <1>2, Rooted
  <2>3. \A t \in TasksIn(q) : statuses'[t] = "SUCCESSFUL"
    BY <2>1, <2>2, <1>1 DEF AllRan
  <2> QED BY <2>1, <2>3, <1>1 DEF AllRan
<1> QED BY <1>4, <1>5, <1>6, <1>7

LEMMA ExecuteKeeps ==
  ASSUME Composed(db), Numbered, Untouched, Awaits, AllRan, NEW r \in DOMAIN verdicts, Execute(r)
  PROVE  Numbered' /\ Untouched' /\ Awaits' /\ AllRan'
<1> DEFINE done == {t \in focus \cap TasksIn(r) : statuses[t] = "SUCCESSFUL"}
           next == {t \in UNION {Nexts(d) : d \in done} : Ready(t)}
<1>1. /\ verdicts[r] = "RUNNING" /\ UNCHANGED db
      /\ focus' = (focus \ done) \cup next
      /\ DOMAIN statuses' = DOMAIN statuses
      /\ \A t \in DOMAIN statuses :
           statuses'[t] = IF t \in next THEN Started(t) ELSE statuses[t]
  BY DEF Execute, RequestUnchanged, Start
<1>2. \/ /\ \E t \in focus' \cap TasksIn(r) : statuses'[t] = "RUNNING"
         /\ UNCHANGED verdicts
      \/ /\ ~\E t \in focus' \cap TasksIn(r) : statuses'[t] = "RUNNING"
         /\ \E t \in TasksIn(r) : statuses'[t] = "FAILED"
         /\ verdicts' = Called(r, "COMPLETED_WITH_FAILURE")
      \/ /\ ~\E t \in focus' \cap TasksIn(r) : statuses'[t] = "RUNNING"
         /\ ~\E t \in TasksIn(r) : statuses'[t] = "FAILED"
         /\ verdicts' = Called(r, "COMPLETED_SUCCESSFULLY")
  BY DEF Execute
<1>3. /\ next \subseteq DOMAIN statuses
      /\ \A t \in next : db.tasks[t].root = r /\ statuses[t] = "PENDING"
      /\ done \subseteq focus
      /\ \A d \in done : statuses[d] = "SUCCESSFUL" /\ db.tasks[d].root = r
  BY Rooted DEF Nexts, Ready
\* A task that has not started waits for one that is not done.
<1>4. ASSUME NEW t \in DOMAIN statuses, db.tasks[t].root = r, statuses'[t] = "PENDING"
      PROVE  \E e \in db.edges : e[2] = t /\ statuses'[e[1]] # "SUCCESSFUL"
  <2>1. t \notin next /\ statuses[t] = "PENDING" BY <1>1, <1>4, StartedStatus
  <2>2. PICK e \in db.edges : e[2] = t /\ (statuses[e[1]] # "SUCCESSFUL" \/ e[1] \in focus)
    BY <1>1, <1>4, <2>1 DEF Awaits, VerdictOn
  <2>3. \A d \in DOMAIN statuses : statuses[d] # "SUCCESSFUL" => statuses'[d] # "SUCCESSFUL"
    BY <1>1, StartedStatus
  <2>4. e[1] \in DOMAIN statuses /\ db.tasks[e[1]].root = r BY <2>2, <1>4, Rooted
  <2>5. CASE statuses[e[1]] # "SUCCESSFUL" BY <2>2, <2>3, <2>4, <2>5
  <2>6. CASE statuses[e[1]] = "SUCCESSFUL"
    <3>1. e[1] \in done BY <2>2, <2>4, <2>6, Rooted
    <3>2. t \in Nexts(e[1]) BY <2>2 DEF Nexts
    <3>3. ~Ready(t) BY <2>1, <3>1, <3>2
    <3>4. PICK q \in Before1(t) : statuses[q] # "SUCCESSFUL" BY <2>1, <3>3 DEF Ready
    <3>5. PICK f \in db.edges : f[2] = t /\ f[1] = q BY <3>4 DEF Before1
    <3> QED BY <2>3, <3>4, <3>5, Rooted
  <2> QED BY <2>5, <2>6
<1> HIDE DEF done, next
\* The verdicts of the other roots.
<1>5. /\ DOMAIN verdicts' = DOMAIN verdicts
      /\ \A q \in DOMAIN verdicts \ {r} :
           \/ verdicts'[q] = verdicts[q]
           \/ verdicts'[q] = "deleted"
           \/ verdicts[q] = "ON_HOLD" /\ verdicts'[q] = "PENDING"
      /\ verdicts'[r] \in {"RUNNING", "COMPLETED_WITH_FAILURE", "COMPLETED_SUCCESSFULLY"}
      /\ verdicts'[r] = "COMPLETED_SUCCESSFULLY" =>
           /\ ~\E t \in focus' \cap TasksIn(r) : statuses'[t] = "RUNNING"
           /\ ~\E t \in TasksIn(r) : statuses'[t] = "FAILED"
           /\ \A c \in DOMAIN verdicts \ {r} : db.roots[c].parent = r => verdicts'[c] # "ON_HOLD"
  BY <1>1, <1>2 DEF Called
<1>6. Numbered'
  BY <1>1, <1>3, <1>5, StartedStatus DEF Numbered, TaskStatuses
<1>7. Untouched'
  <2> SUFFICES ASSUME NEW t \in DOMAIN statuses, VerdictOn(t)' \in {"PENDING", "ON_HOLD"}
               PROVE  statuses'[t] = "PENDING" /\ t \notin focus'
    BY <1>1 DEF Untouched
  <2>1. db.tasks[t].root # r /\ VerdictOn(t) \in {"PENDING", "ON_HOLD"}
    BY <1>1, <1>5, Rooted DEF VerdictOn
  <2>2. statuses[t] = "PENDING" /\ t \notin focus BY <2>1 DEF Untouched
  <2> QED BY <2>1, <2>2, <1>1, <1>3
<1>8. Awaits'
  <2> SUFFICES ASSUME NEW t \in DOMAIN statuses, VerdictOn(t)' = "RUNNING",
                      statuses'[t] = "PENDING"
               PROVE  \E e \in db.edges :
                        e[2] = t /\ (statuses'[e[1]] # "SUCCESSFUL" \/ e[1] \in focus')
    BY <1>1 DEF Awaits
  <2>1. CASE db.tasks[t].root = r BY <2>1, <1>4
  <2>2. CASE db.tasks[t].root # r
    <3>1. VerdictOn(t) = "RUNNING" /\ statuses[t] = "PENDING"
      BY <1>1, <1>3, <1>5, <2>2, Rooted DEF VerdictOn
    <3>2. PICK e \in db.edges : e[2] = t /\ (statuses[e[1]] # "SUCCESSFUL" \/ e[1] \in focus)
      BY <3>1 DEF Awaits
    <3>3. e[1] \in DOMAIN statuses /\ e[1] \notin next /\ e[1] \notin done
      BY <3>2, <2>2, <1>3, Rooted
    <3> QED BY <3>2, <3>3, <1>1
  <2> QED BY <2>1, <2>2
<1>9. ASSUME verdicts'[r] = "COMPLETED_SUCCESSFULLY"
      PROVE  \A t \in TasksIn(r) : statuses'[t] = "SUCCESSFUL"
  <2> DEFINE P == {t \in TasksIn(r) : statuses'[t] = "PENDING"}
  <2>1. \A t \in TasksIn(r) : statuses'[t] \in {"PENDING", "SUCCESSFUL"}
    BY <1>1, <1>5, <1>6, <1>9, Rooted DEF Numbered, TaskStatuses
  <2>2. ASSUME P # {} PROVE FALSE
    <3>1. P \in SUBSET DOMAIN db.tasks BY DEF TasksIn
    <3>2. PICK t \in P : \A e \in db.edges : e[2] = t => e[1] \notin P
      BY <2>2, <3>1 DEF Composed, Orderable
    <3>3. t \in DOMAIN statuses /\ db.tasks[t].root = r /\ statuses'[t] = "PENDING"
      BY <3>2, Rooted
    <3>4. PICK e \in db.edges : e[2] = t /\ statuses'[e[1]] # "SUCCESSFUL" BY <3>3, <1>4
    <3>5. e[1] \in TasksIn(r) BY <3>3, <3>4, Rooted
    <3> QED BY <2>1, <3>2, <3>4, <3>5
  <2> QED BY <2>1, <2>2
<1>10. AllRan'
  <2> SUFFICES ASSUME NEW q \in DOMAIN verdicts, verdicts'[q] = "COMPLETED_SUCCESSFULLY"
               PROVE  /\ \A t \in TasksIn(q) : statuses'[t] = "SUCCESSFUL"
                      /\ \A c \in DOMAIN verdicts :
                           db.roots[c].parent = q => verdicts'[c] # "ON_HOLD"
    BY <1>1, <1>5 DEF AllRan, TasksIn
  <2>1. CASE q = r BY <2>1, <1>5, <1>9
  <2>2. CASE q # r
    <3>1. verdicts[q] = "COMPLETED_SUCCESSFULLY" BY <2>2, <1>5
    <3>2. \A t \in TasksIn(q) : statuses'[t] = "SUCCESSFUL"
      BY <3>1, <2>2, <1>1, <1>3, Rooted DEF AllRan
    <3>3. \A c \in DOMAIN verdicts : db.roots[c].parent = q => verdicts'[c] # "ON_HOLD"
      BY <3>1, <1>5 DEF AllRan
    <3> QED BY <3>2, <3>3
  <2> QED BY <2>1, <2>2
<1> QED BY <1>6, <1>7, <1>8, <1>10

-----------------------------------------------------------------------------
LEMMA RequestInit == Init => RequestInv
<1> SUFFICES ASSUME Init PROVE RequestInv
  OBVIOUS
<1> USE Empty
<1>1. /\ Nothing.roots = <<>> /\ Nothing.tasks = <<>> /\ Nothing.edges = {} /\ Nothing.added = 0
      /\ Nothing.rows = FALSE
  BY DEF Nothing
<1>2. IsSession(Nothing) BY <1>1 DEF IsSession
<1>3. /\ request \in DOMAIN Table /\ todo = Table[request] /\ answer = "none"
      /\ view = Nothing /\ db = Nothing
      /\ statuses = <<>> /\ verdicts = <<>> /\ focus = {}
  BY DEF Init
<1>4. Places BY <1>2, <1>3 DEF Places
<1>5. OnItsWay
  <2>1. <<todo, NoFacts>> \in Flow[request] BY <1>3, FlowsAssumption DEF Closed
  <2>2. Hold(NoFacts)
    BY <1>1, <1>3 DEF Hold, NoFacts
  <2>3. Matches(<<todo, NoFacts>>) BY <2>2, <1>3 DEF Matches
  <2>4. Kept /\ WaitsForNew BY <1>1, <1>3 DEF Kept, WaitsForNew
  <2>5. Listed(view.tasks) BY <1>1, <1>3
  <2> QED BY <1>3, <2>1, <2>3, <2>4, <2>5 DEF OnItsWay
<1>6. AllKnown BY <1>1, <1>3 DEF AllKnown, KindsKnown
<1>7. Composing BY <1>1, <1>3 DEF Composing, Composed, Orderable
<1>8. Runs
  BY <1>1, <1>3 DEF Runs, Numbered, Untouched, Awaits, AllRan
<1>9. RefusedLeavesNothing BY <1>3 DEF RefusedLeavesNothing
<1> QED BY <1>4, <1>5, <1>6, <1>7, <1>8, <1>9 DEF RequestInv

LEMMA ExecutorStep == RequestInv /\ Executor => RequestInv'
<1> SUFFICES ASSUME RequestInv, Executor PROVE RequestInv'
  OBVIOUS
<1>1. RequestUnchanged
  BY DEF Executor, Launch, Execute, Finish
<1>2. ASSUME Whole PROVE Numbered' /\ Untouched' /\ Awaits' /\ AllRan'
  <2>1. Composed(db) /\ Numbered /\ Untouched /\ Awaits /\ AllRan
    BY <1>2 DEF RequestInv, Composing, Runs
  <2>2. ASSUME NEW r \in DOMAIN verdicts, Launch(r)
        PROVE  Numbered' /\ Untouched' /\ Awaits' /\ AllRan'
    BY <2>1, <2>2, LaunchKeeps
  <2>3. ASSUME NEW r \in DOMAIN verdicts, Execute(r)
        PROVE  Numbered' /\ Untouched' /\ Awaits' /\ AllRan'
    BY <2>1, <2>3, ExecuteKeeps
  <2>4. ASSUME NEW t \in DOMAIN statuses, Finish(t)
        PROVE  Numbered' /\ Untouched' /\ Awaits' /\ AllRan'
    BY <2>1, <2>4, FinishKeeps
  <2> QED BY <2>2, <2>3, <2>4 DEF Executor
<1> QED BY <1>1, <1>2, RequestRests

LEMMA RequestStutters == RequestInv /\ UNCHANGED vars => RequestInv'
<1> SUFFICES ASSUME RequestInv, UNCHANGED vars PROVE RequestInv'
  OBVIOUS
<1>1. RequestUnchanged BY DEF RequestUnchanged, vars
<1>2. Runs' BY RunsOn DEF RequestInv, vars
<1> QED BY <1>1, <1>2, RequestRests DEF Runs, Whole, vars

\* Every state of every behaviour satisfies the invariant, whatever the table
\* of requests, MAPPER and the lengths of the loops.
THEOREM RequestInvariantCorrect == Spec => []RequestInv
<1>1. RequestInv /\ Serve => RequestInv'
  BY CheckStep, AnswerStep, RaiseStep, BranchStep, LoopStep, RootStep, CallbackStep,
     TaskStep, WriteStep, AddStep, CommitStep DEF Serve
<1>2. RequestInv /\ [Next]_vars => RequestInv'
  BY <1>1, ExecutorStep, RequestStutters DEF Next
<1> QED BY RequestInit, <1>2, PTL DEF Spec

\* Every task of a committed workflow is one the workers know.
THEOREM TasksAreKnownCorrect == Spec => []TasksAreKnown
<1>1. RequestInv => TasksAreKnown
  BY DEF RequestInv, AllKnown, KindsKnown, TasksAreKnown
<1> QED BY <1>1, RequestInvariantCorrect, PTL

\* A request that is refused, or fails, leaves nothing behind.
THEOREM RefusedLeavesNothingCorrect == Spec => []RefusedLeavesNothing
<1>1. RequestInv => RefusedLeavesNothing
  BY DEF RequestInv
<1> QED BY <1>1, RequestInvariantCorrect, PTL

\* A workflow reported successful has run all that was composed of it, and its
\* callbacks are due.
THEOREM SuccessRunsAllCorrect == Spec => []SuccessRunsAll
<1>1. RequestInv => SuccessRunsAll
  BY DEF RequestInv, Runs, Whole, SuccessRunsAll
<1> QED BY <1>1, RequestInvariantCorrect, PTL

-----------------------------------------------------------------------------
(* Why containers are deleted last.                                        *)

\* What the table says of the operation that comes next.
LEMMA ContainersComeFirst ==
  ASSUME RequestInv, ~Idle
  PROVE  \E p \in Flow[request] :
           /\ Matches(p) /\ Fine(p[2])
           /\ Without(request, Containers) => Kinds(Head(todo)) \cap Containers = {}
           /\ ~Without(request, Containers) =>
                /\ Whole /\ Founded(p[2], Head(todo))
                /\ Head(todo).op = "First" => p[2].tasks = {}
                /\ Head(todo).op = "Before" => Kinds(Head(todo)) \cap Containers = {}
                /\ Head(todo).op # "After"
<1>1. PICK p \in Flow[request] :
        Matches(p) /\ Fine(p[2]) /\ (Whole => Founded(p[2], Head(todo)))
  BY Position
<1>2. p \in Steps(request) /\ Head(p[1]) = Head(todo)
  BY <1>1 DEF Steps, Matches, Idle
<1>3. request \in DOMAIN Table BY DEF RequestInv, Places
<1>4. Without(request, Containers) \/ (Whole /\ EndsIn(request, Containers))
  BY <1>3, FlowsAssumption DEF Whole
<1>5. Without(request, Containers) => Kinds(Head(todo)) \cap Containers = {}
  BY <1>2 DEF Without
<1>6. EndsIn(request, Containers) =>
        /\ Head(todo).op = "First" => p[2].tasks = {}
        /\ Head(todo).op = "Before" => Kinds(Head(todo)) \cap Containers = {}
        /\ Head(todo).op # "After"
  BY <1>2 DEF EndsIn
<1> QED BY <1>1, <1>4, <1>5, <1>6

LEMMA SameTasks ==
  ASSUME NEW s, NEW z, z.tasks = s.tasks, z.edges = s.edges
  PROVE  (Uncontained(z) <=> Uncontained(s)) /\ (Encloses(z) <=> Encloses(s))
BY DEF Uncontained, Encloses, Earlier, Backed

\* What a task waits for it still waits for when tasks and edges are added.
LEMMA EarlierGrows ==
  ASSUME NEW s, NEW z, DOMAIN s.tasks \subseteq DOMAIN z.tasks, s.edges \subseteq z.edges,
         \A e \in s.edges : e[1] \in DOMAIN s.tasks,
         NEW u, NEW t \in DOMAIN s.tasks, Earlier(s, u, t)
  PROVE  Earlier(z, u, t)
<1> SUFFICES ASSUME NEW T \in SUBSET DOMAIN z.tasks, t \in T, Backed(z, T)
             PROVE  u \in T
  BY DEF Earlier
<1> DEFINE R == T \cap DOMAIN s.tasks
<1>1. R \in SUBSET DOMAIN s.tasks /\ t \in R OBVIOUS
<1>2. Backed(s, R) BY DEF Backed
<1> QED BY <1>1, <1>2 DEF Earlier

\* A task alone in its root, or one put before another of its root, leaves the
\* containers last.
LEMMA EnclosesGrows ==
  ASSUME NEW s, NEW z, Encloses(s), s.edges \subseteq z.edges,
         \A e \in s.edges : e[1] \in DOMAIN s.tasks,
         NEW n, DOMAIN z.tasks = DOMAIN s.tasks \cup {n},
         \A t \in DOMAIN s.tasks : z.tasks[t] = s.tasks[t],
         \/ \A t \in DOMAIN s.tasks : s.tasks[t].root # z.tasks[n].root
         \/ /\ z.tasks[n].kind \notin Containers
            /\ \E x \in DOMAIN s.tasks :
                 s.tasks[x].root = z.tasks[n].root /\ <<n, x>> \in z.edges
  PROVE  Encloses(z)
<1> SUFFICES ASSUME NEW t \in DOMAIN z.tasks, NEW u \in DOMAIN z.tasks,
                    z.tasks[t].kind \in Containers, z.tasks[u].root = z.tasks[t].root
             PROVE  Earlier(z, u, t)
  BY DEF Encloses
<1>1. CASE t = u
  BY <1>1 DEF Earlier
<1>2. CASE t \in DOMAIN s.tasks /\ u \in DOMAIN s.tasks
  <2>1. Earlier(s, u, t) BY <1>2 DEF Encloses
  <2> QED BY <1>2, <2>1, EarlierGrows
<1>3. CASE t \in DOMAIN s.tasks /\ u = n
  <2>1. PICK x \in DOMAIN s.tasks : s.tasks[x].root = z.tasks[n].root /\ <<n, x>> \in z.edges
    BY <1>3
  <2>2. Earlier(s, x, t) BY <1>3, <2>1 DEF Encloses
  <2>3. Earlier(z, x, t) BY <1>3, <2>2, EarlierGrows
  <2> QED BY <1>3, <2>1, <2>3 DEF Earlier, Backed
<1> QED BY <1>1, <1>2, <1>3

\* So does an edge.
LEMMA EnclosesLinked ==
  ASSUME NEW s, NEW z, Encloses(s), z.tasks = s.tasks, s.edges \subseteq z.edges,
         \A e \in s.edges : e[1] \in DOMAIN s.tasks
  PROVE  Encloses(z)
BY EarlierGrows DEF Encloses

LEMMA TaskAdded ==
  ASSUME IsSession(view), Listed(view.tasks), NEW name, NEW kind, NEW root, NEW edges,
         AddTask(name, kind, root, edges)
  PROVE  LET n == Len(view.tasks) + 1
         IN  /\ n \notin DOMAIN view.tasks /\ DOMAIN view'.tasks = DOMAIN view.tasks \cup {n}
             /\ \A t \in DOMAIN view.tasks : view'.tasks[t] = view.tasks[t]
             /\ view'.tasks[n].kind = kind /\ view'.tasks[n].root = root
             /\ view'.edges = view.edges \cup edges
<1> DEFINE n == Len(view.tasks) + 1  task == [var |-> name, kind |-> kind, root |-> root]
<1>1. task.kind = kind /\ task.root = root OBVIOUS
<1> HIDE DEF task
<1>2. view'.tasks = Append(view.tasks, task) /\ view'.edges = view.edges \cup edges
  BY SessionFields DEF AddTask, IsSession, task
<1>3. Len(view.tasks) \in Nat /\ DOMAIN view.tasks = 1..Len(view.tasks) BY ListedLength
<1>4. /\ DOMAIN view'.tasks = 1..n /\ view'.tasks[n] = task
      /\ \A i \in 1..Len(view.tasks) : view'.tasks[i] = view.tasks[i]
  BY <1>2, Appended
<1> QED BY <1>1, <1>2, <1>3, <1>4

LEMMA TaskCloses == RequestInv /\ ComposeTask /\ Closing(view) => Closing(view)'
<1> SUFFICES ASSUME RequestInv, ComposeTask, Closing(view) PROVE Closing(view)'
  OBVIOUS
<1>1. ~Idle /\ Head(todo).op \in {"First", "After", "Before", "Link"} /\ GoOn(Rest)
  BY DEF ComposeTask, Now
<1>2. PICK p \in Flow[request] :
        /\ Matches(p) /\ Fine(p[2])
        /\ Without(request, Containers) => Kinds(Head(todo)) \cap Containers = {}
        /\ ~Without(request, Containers) =>
             /\ Whole /\ Founded(p[2], Head(todo))
             /\ Head(todo).op = "First" => p[2].tasks = {}
             /\ Head(todo).op = "Before" => Kinds(Head(todo)) \cap Containers = {}
             /\ Head(todo).op # "After"
  BY <1>1, ContainersComeFirst
<1>3. PICK op : op = Head(todo) OBVIOUS
<1>4. Name = op.var /\ Detail = op.of BY <1>3 DEF Name, Detail
<1>5. UNCHANGED request BY <1>1 DEF GoOn
<1>6. IsSession(view) /\ Listed(view.tasks) BY <1>2 DEF Fine
<1>7. ~Without(request, Containers) =>
        Hold(p[2]) /\ \A e \in view.edges : e[1] \in DOMAIN view.tasks
  BY <1>2 DEF Fine, Composed
<1>8. IF Without(request, Containers) THEN Uncontained(view) ELSE Encloses(view)
  BY DEF Closing
<1>9. SUFFICES IF Without(request, Containers) THEN Uncontained(view') ELSE Encloses(view')
  BY <1>5 DEF Closing
<1> DEFINE n == Len(view.tasks) + 1
<1>10. CASE op.op = "First"
  <2>1. AddTask(op.var, op.of, Len(view.roots), {})
    BY <1>3, <1>4, <1>10 DEF ComposeTask, Now
  <2>2. /\ n \notin DOMAIN view.tasks /\ DOMAIN view'.tasks = DOMAIN view.tasks \cup {n}
        /\ \A t \in DOMAIN view.tasks : view'.tasks[t] = view.tasks[t]
        /\ view'.tasks[n].kind = op.of /\ view'.tasks[n].root = Len(view.roots)
        /\ view'.edges = view.edges \cup {}
    BY ONLY <1>6, <2>1, TaskAdded
  <2> HIDE DEF n
  <2>3. CASE Without(request, Containers)
    <3>1. op.of \notin Containers BY <1>2, <1>3, <1>10, <2>3 DEF Kinds
    <3> QED BY <1>8, <2>2, <2>3, <3>1 DEF Uncontained
  <2>4. CASE ~Without(request, Containers)
    <3>1. p[2].roots # {} /\ p[2].tasks = {} BY <1>2, <1>3, <1>10, <2>4 DEF Founded
    <3>2. TasksOn(Len(view.roots)) = {} BY <1>7, <2>4, <3>1 DEF Hold
    <3>3. \A t \in DOMAIN view.tasks : view.tasks[t].root # view'.tasks[n].root
      BY <2>2, <3>2 DEF TasksOn
    <3>4. Encloses(view) /\ view.edges \subseteq view'.edges BY <1>8, <2>2, <2>4
    <3>5. Encloses(view')
      BY ONLY <1>7, <2>2, <2>4, <3>3, <3>4, EnclosesGrows
    <3> QED BY <2>4, <3>5
  <2> QED BY <2>3, <2>4
<1>11. CASE op.op = "After"
  <2>1. AddTask(op.var, op.of[2], view.tasks[TaskOf(op.of[1])].root,
                {<<TaskOf(op.of[1]), Len(view.tasks) + 1>>})
    BY <1>3, <1>4, <1>11 DEF ComposeTask, Now
  <2>2. /\ DOMAIN view'.tasks = DOMAIN view.tasks \cup {n}
        /\ \A t \in DOMAIN view.tasks : view'.tasks[t] = view.tasks[t]
        /\ view'.tasks[n].kind = op.of[2]
    BY ONLY <1>6, <2>1, TaskAdded
  <2> HIDE DEF n
  <2>3. Without(request, Containers) BY <1>2, <1>3, <1>11
  <2>4. op.of[2] \notin Containers BY <1>2, <1>3, <1>11, <2>3 DEF Kinds
  <2> QED BY <1>8, <2>2, <2>3, <2>4 DEF Uncontained
<1>12. CASE op.op = "Before"
  <2> DEFINE x == TaskOf(op.of[1])
  <2>1. AddTask(op.var, op.of[2], view.tasks[x].root, {<<n, x>>})
    BY <1>3, <1>4, <1>12 DEF ComposeTask, Now
  <2> HIDE DEF x
  <2>2. /\ n \notin DOMAIN view.tasks /\ DOMAIN view'.tasks = DOMAIN view.tasks \cup {n}
        /\ \A t \in DOMAIN view.tasks : view'.tasks[t] = view.tasks[t]
        /\ view'.tasks[n].kind = op.of[2] /\ view'.tasks[n].root = view.tasks[x].root
        /\ view'.edges = view.edges \cup {<<n, x>>}
    BY ONLY <1>6, <2>1, TaskAdded
  <2> HIDE DEF n
  <2>3. op.of[2] \notin Containers BY <1>2, <1>3, <1>12 DEF Kinds
  <2>4. CASE Without(request, Containers)
    BY <1>8, <2>2, <2>3, <2>4 DEF Uncontained
  <2>5. CASE ~Without(request, Containers)
    <3>1. op.of[1] \in p[2].tasks BY <1>2, <1>3, <1>12, <2>5 DEF Founded
    <3>2. x \in DOMAIN view.tasks BY <1>7, <2>5, <3>1 DEF Hold, TaskIsLast, TasksOf, x
    <3>3. Encloses(view) /\ view.edges \subseteq view'.edges /\ <<n, x>> \in view'.edges
      BY <1>8, <2>2, <2>5
    <3>4. Encloses(view')
      BY ONLY <1>7, <2>2, <2>3, <2>5, <3>2, <3>3, EnclosesGrows
    <3> QED BY <2>5, <3>4
  <2> QED BY <2>4, <2>5
<1>13. CASE op.op = "Link"
  <2>1. view' = [view EXCEPT !.edges = @ \cup {<<TaskOf(op.of), TaskOf(op.var)>>}]
    BY <1>3, <1>4, <1>13 DEF ComposeTask, Now
  <2>2. view'.tasks = view.tasks /\ view.edges \subseteq view'.edges
    BY <1>6, <2>1, SessionFields DEF IsSession
  <2>3. CASE Without(request, Containers)
    BY <1>8, <2>2, <2>3 DEF Uncontained
  <2>4. CASE ~Without(request, Containers)
    <3>1. Encloses(view') BY <1>7, <1>8, <2>2, <2>4, EnclosesLinked
    <3> QED BY <2>4, <3>1
  <2> QED BY <2>3, <2>4
<1> QED BY <1>1, <1>3, <1>10, <1>11, <1>12, <1>13

LEMMA StoredCloses ==
  ASSUME IsSession(view), ~Without(request, Containers) => Composed(view), Closing(view)
  PROVE  Closing(Stored)
<1>1. /\ DOMAIN Stored.tasks = {t \in DOMAIN view.tasks : Added(t)}
      /\ \A t \in DOMAIN Stored.tasks : Stored.tasks[t] = view.tasks[t]
      /\ Stored.edges = {e \in view.edges : Added(e[1])}
  BY StoredFields
<1>2. CASE Without(request, Containers)
  BY <1>1, <1>2 DEF Closing, Uncontained
<1>3. CASE ~Without(request, Containers)
  <2> SUFFICES ASSUME NEW t \in DOMAIN Stored.tasks, NEW u \in DOMAIN Stored.tasks,
                      view.tasks[t].kind \in Containers, view.tasks[u].root = view.tasks[t].root,
                      NEW T \in SUBSET DOMAIN Stored.tasks, t \in T, Backed(Stored, T)
               PROVE  u \in T
    BY <1>1, <1>3 DEF Closing, Encloses, Earlier
  <2>1. \A e \in view.edges : e[2] \in T => e \in Stored.edges
    BY <1>1, <1>3 DEF Composed, Added
  <2>2. Backed(view, T) BY <2>1 DEF Backed
  <2>3. T \in SUBSET DOMAIN view.tasks /\ t \in DOMAIN view.tasks /\ u \in DOMAIN view.tasks
    BY <1>1
  <2>4. Earlier(view, u, t) BY <1>3, <2>3 DEF Closing, Encloses
  <2> QED BY <2>2, <2>3, <2>4 DEF Earlier
<1> QED BY <1>2, <1>3

LEMMA ServeCloses ==
  RequestInv /\ Serve /\ Closing(view) /\ Closing(db) => Closing(view)' /\ Closing(db)'
<1> SUFFICES ASSUME RequestInv, Serve, Closing(view), Closing(db)
             PROVE  Closing(view)' /\ Closing(db)'
  OBVIOUS
<1>1. UNCHANGED request
  BY DEF Serve, CheckRequest, AnswerAtOnce, RaiseInRequest, Branch, Loop, ComposeRoot,
         AddCallbackRoot, ComposeTask, WriteRow, AddToSession, CommitRequest, GoOn, Stop
<1>2. DOMAIN view = {"roots", "tasks", "edges", "added", "rows"}
  BY SessionFields DEF RequestInv, Places, IsSession
<1>3. ASSUME view'.tasks = view.tasks, view'.edges = view.edges, UNCHANGED db
      PROVE  Closing(view)' /\ Closing(db)'
  <2>1. (Uncontained(view') <=> Uncontained(view)) /\ (Encloses(view') <=> Encloses(view))
    BY <1>3, SameTasks
  <2> QED BY <1>1, <1>3, <2>1 DEF Closing
<1>4. ASSUME view' = db, UNCHANGED db PROVE Closing(view)' /\ Closing(db)'
  BY <1>1, <1>4 DEF Closing
<1>5. CASE CheckRequest BY <1>3, <1>4, <1>5 DEF CheckRequest, GoOn, Stop
<1>6. CASE AnswerAtOnce BY <1>3, <1>4, <1>6 DEF AnswerAtOnce, GoOn, Stop
<1>7. CASE RaiseInRequest BY <1>4, <1>7 DEF RaiseInRequest, Stop
<1>8. CASE Branch BY <1>3, <1>8 DEF Branch, GoOn
<1>9. CASE Loop BY <1>3, <1>9 DEF Loop, GoOn
<1>10. CASE ComposeRoot BY <1>2, <1>3, <1>10 DEF ComposeRoot, GoOn
<1>11. CASE AddCallbackRoot BY <1>2, <1>3, <1>11 DEF AddCallbackRoot, GoOn
<1>12. CASE ComposeTask
  <2>1. UNCHANGED db BY <1>12 DEF ComposeTask, GoOn
  <2>2. Closing(db)' BY <1>1, <2>1 DEF Closing
  <2> QED BY <1>12, <2>2, TaskCloses
<1>13. CASE WriteRow BY <1>2, <1>3, <1>13 DEF WriteRow, GoOn
<1>14. CASE AddToSession BY <1>2, <1>3, <1>14 DEF AddToSession, GoOn
<1>15. CASE CommitRequest
  <2>1. IsSession(view) BY DEF RequestInv, Places
  <2>2. request \in DOMAIN Table BY DEF RequestInv, Places
  <2>3. ~Without(request, Containers) => Composed(view)
    BY <2>2, FlowsAssumption DEF RequestInv, Composing, Whole
  <2>4. Closing(Stored) BY <2>1, <2>3, StoredCloses
  <2>5. UNCHANGED view /\ db' = Stored BY <1>15 DEF CommitRequest
  <2>6. Closing(view)' BY <1>1, <2>5 DEF Closing
  <2> HIDE DEF Stored
  <2>7. Closing(db)' BY <1>1, <2>4, <2>5 DEF Closing
  <2> QED BY <2>6, <2>7
<1> QED BY <1>5, <1>6, <1>7, <1>8, <1>9, <1>10, <1>11, <1>12, <1>13, <1>14, <1>15 DEF Serve

\* What starts waits for nothing that is not done.
LEMMA Starting ==
  ASSUME Composed(db), Numbered, Untouched, Executor,
         NEW t \in DOMAIN statuses, statuses[t] = "PENDING", statuses'[t] # "PENDING",
         NEW e \in db.edges, e[2] = t
  PROVE  statuses[e[1]] = "SUCCESSFUL"
<1>1. statuses[t] = "PENDING" /\ statuses'[t] # "PENDING" /\ t \in DOMAIN statuses
  OBVIOUS
<1>2. ASSUME NEW r \in DOMAIN verdicts, Launch(r) PROVE FALSE
  <2>1. t \in TasksIn(r) /\ Before1(t) = {} BY <1>1, <1>2 DEF Launch, Start
  <2> QED BY <2>1 DEF Before1
<1>3. ASSUME NEW r \in DOMAIN verdicts, Execute(r) PROVE Ready(t)
  BY <1>1, <1>3 DEF Execute, Start
<1>4. ASSUME NEW u \in DOMAIN statuses, Finish(u) PROVE FALSE
  BY <1>1, <1>4 DEF Finish
<1>5. Ready(t) BY <1>2, <1>3, <1>4 DEF Executor
<1>6. e[1] \in Before1(t) BY DEF Before1
<1> QED BY <1>5, <1>6 DEF Ready

\* The executor changes no status but of what runs and of what has not started.
LEMMA ExecutorLeaves ==
  ASSUME Composed(db), Numbered, Untouched, Executor
  PROVE  /\ UNCHANGED db /\ DOMAIN statuses' = DOMAIN statuses
         /\ \A t \in DOMAIN statuses :
              statuses[t] \in {"SUCCESSFUL", "FAILED"} => statuses'[t] = statuses[t]
<1>1. ASSUME NEW r \in DOMAIN verdicts, Launch(r)
      PROVE  \A t \in TasksIn(r) : t \in DOMAIN statuses /\ statuses[t] = "PENDING"
  BY <1>1, Rooted DEF Launch, Untouched, VerdictOn
<1>2. ASSUME NEW r \in DOMAIN verdicts, Launch(r)
      PROVE  /\ UNCHANGED db /\ DOMAIN statuses' = DOMAIN statuses
             /\ \A t \in DOMAIN statuses :
                  statuses[t] \in {"SUCCESSFUL", "FAILED"} => statuses'[t] = statuses[t]
  BY <1>1, <1>2 DEF Launch, Start, RequestUnchanged
<1>3. ASSUME NEW r \in DOMAIN verdicts, Execute(r)
      PROVE  /\ UNCHANGED db /\ DOMAIN statuses' = DOMAIN statuses
             /\ \A t \in DOMAIN statuses :
                  statuses[t] \in {"SUCCESSFUL", "FAILED"} => statuses'[t] = statuses[t]
  BY <1>3 DEF Execute, Start, Ready, RequestUnchanged
<1>4. ASSUME NEW u \in DOMAIN statuses, Finish(u)
      PROVE  /\ UNCHANGED db /\ DOMAIN statuses' = DOMAIN statuses
             /\ \A t \in DOMAIN statuses :
                  statuses[t] \in {"SUCCESSFUL", "FAILED"} => statuses'[t] = statuses[t]
  BY <1>4 DEF Finish, RequestUnchanged
<1> QED BY <1>2, <1>3, <1>4 DEF Executor

LEMMA TurnsKept ==
  ASSUME Composed(db), Numbered, Untouched, Executor, InTurns
  PROVE  InTurns'
<1>1. /\ UNCHANGED db /\ DOMAIN statuses' = DOMAIN statuses
      /\ \A t \in DOMAIN statuses :
           statuses[t] \in {"SUCCESSFUL", "FAILED"} => statuses'[t] = statuses[t]
  BY ExecutorLeaves
<1> SUFFICES ASSUME NEW e \in db.edges, statuses'[e[2]] # "PENDING"
             PROVE  statuses'[e[1]] = "SUCCESSFUL"
  BY <1>1 DEF InTurns
<1>2. e[1] \in DOMAIN statuses /\ e[2] \in DOMAIN statuses BY Rooted
<1>3. statuses[e[1]] = "SUCCESSFUL"
  <2>1. CASE statuses[e[2]] = "PENDING" BY <1>2, <2>1, Starting
  <2>2. CASE statuses[e[2]] # "PENDING" BY <2>2 DEF InTurns
  <2> QED BY <2>1, <2>2
<1> QED BY <1>1, <1>2, <1>3

\* What a commit changes of what has been committed: nothing.
LEMMA CommitLeaves ==
  ASSUME RequestInv, Whole, CommitRequest
  PROVE  /\ DOMAIN statuses = DOMAIN db.tasks /\ DOMAIN db.tasks \subseteq DOMAIN statuses'
         /\ \A t \in DOMAIN statuses : statuses'[t] = statuses[t]
         /\ \A t \in DOMAIN statuses' \ DOMAIN statuses : statuses'[t] = "PENDING"
         /\ \A e \in db'.edges : e[2] \in DOMAIN db.tasks => e \in db.edges
         /\ \A e \in db.edges : e[1] \in DOMAIN db.tasks
         /\ \A e \in db'.edges : e[2] \in DOMAIN statuses'
<1>1. ~Idle /\ db' = Stored BY DEF CommitRequest, Now
<1>2. /\ Kept /\ Composed(view) /\ Composed(db) /\ IsSession(view) /\ IsSession(db)
      /\ Numbered
  BY <1>1 DEF RequestInv, OnItsWay, Composing, Places, Runs
<1>3. /\ DOMAIN db'.tasks = {t \in DOMAIN view.tasks : Added(t)}
      /\ db'.edges = {e \in view.edges : Added(e[1])}
  BY <1>1, <1>2, StoredFields
<1>4. /\ DOMAIN statuses' = DOMAIN db'.tasks
      /\ \A t \in DOMAIN statuses' :
           statuses'[t] = IF t \in DOMAIN statuses THEN statuses[t] ELSE "PENDING"
  BY <1>1 DEF CommitRequest
<1>5. view.added \in Nat /\ Len(db.roots) \in Nat /\ Len(db.roots) <= view.added
  BY <1>2, ListedLength DEF IsSession, Kept
<1>6. \A t \in DOMAIN view.tasks : view.tasks[t].root \in Nat
  BY <1>2, ListedLength DEF Composed, IsSession
<1>7. DOMAIN db.tasks \subseteq DOMAIN db'.tasks
  BY <1>2, <1>3, <1>5, <1>6 DEF Kept, Known, Added
<1>8. \A e \in db'.edges : e[2] \in DOMAIN db'.tasks /\ (e[2] \in DOMAIN db.tasks => e \in db.edges)
  BY <1>2, <1>3 DEF Kept, Known, Composed, Added
<1>9. DOMAIN statuses = DOMAIN db.tasks /\ \A e \in db.edges : e[1] \in DOMAIN db.tasks
  BY <1>2 DEF Numbered, Composed
<1> QED BY <1>4, <1>7, <1>8, <1>9

LEMMA ServeLeaves ==
  Serve /\ ~CommitRequest => UNCHANGED <<db, statuses>>
BY DEF Serve, CheckRequest, AnswerAtOnce, RaiseInRequest, Branch, Loop, ComposeRoot,
       AddCallbackRoot, ComposeTask, WriteRow, AddToSession, GoOn, Stop, ExecutorUnchanged

LEMMA ContainerInit == Init => ContainerInv
<1> SUFFICES ASSUME Init PROVE ContainerInv
  OBVIOUS
<1>1. view = Nothing /\ db = Nothing BY DEF Init
<1>2. DOMAIN Nothing.tasks = {} /\ Nothing.edges = {} BY Empty DEF Nothing
<1> QED BY <1>1, <1>2 DEF ContainerInv, Closing, Uncontained, Encloses, InTurns

LEMMA ContainerStep == RequestInv /\ ContainerInv /\ [Next]_vars => ContainerInv'
<1> SUFFICES ASSUME RequestInv, ContainerInv, [Next]_vars PROVE ContainerInv'
  OBVIOUS
<1>1. CASE Serve
  <2>1. Closing(view)' /\ Closing(db)' BY <1>1, ServeCloses DEF ContainerInv
  <2>2. UNCHANGED request
    BY <1>1 DEF Serve, CheckRequest, AnswerAtOnce, RaiseInRequest, Branch, Loop, ComposeRoot,
         AddCallbackRoot, ComposeTask, WriteRow, AddToSession, CommitRequest, GoOn, Stop
  <2>3. ASSUME Whole PROVE InTurns'
    <3>1. InTurns BY <2>3 DEF ContainerInv
    <3>2. CASE CommitRequest
      <4>1. /\ DOMAIN statuses = DOMAIN db.tasks /\ DOMAIN db.tasks \subseteq DOMAIN statuses'
            /\ \A t \in DOMAIN statuses : statuses'[t] = statuses[t]
            /\ \A t \in DOMAIN statuses' \ DOMAIN statuses : statuses'[t] = "PENDING"
            /\ \A e \in db'.edges : e[2] \in DOMAIN db.tasks => e \in db.edges
            /\ \A e \in db.edges : e[1] \in DOMAIN db.tasks
            /\ \A e \in db'.edges : e[2] \in DOMAIN statuses'
        BY <2>3, <3>2, CommitLeaves
      <4> QED BY <3>1, <4>1 DEF InTurns
    <3>3. CASE ~CommitRequest
      BY <1>1, <3>1, <3>3, ServeLeaves DEF InTurns
    <3> QED BY <3>2, <3>3
  <2> QED BY <2>1, <2>2, <2>3 DEF ContainerInv, Whole
<1>2. CASE Executor
  <2>1. RequestUnchanged BY <1>2 DEF Executor, Launch, Execute, Finish
  <2>2. Closing(view)' /\ Closing(db)' BY <2>1 DEF RequestUnchanged, ContainerInv, Closing
  <2>3. ASSUME Whole PROVE InTurns'
    <3>1. Composed(db) /\ Numbered /\ Untouched /\ InTurns
      BY <2>3 DEF RequestInv, Composing, Runs, ContainerInv
    <3> QED BY <1>2, <3>1, TurnsKept
  <2> QED BY <2>1, <2>2, <2>3 DEF RequestUnchanged, ContainerInv, Whole
<1>3. CASE UNCHANGED vars
  BY <1>3 DEF vars, ContainerInv, Closing, InTurns, Whole
<1> QED BY <1>1, <1>2, <1>3 DEF Next

\* In every state of every behaviour containers come last in their roots, and
\* what has been started waited for nothing.
THEOREM ContainerInvariantCorrect == Spec => []ContainerInv
<1> QED BY RequestInvariantCorrect, ContainerInit, ContainerStep, PTL DEF Spec

\* A container is deleted when its contents have been, however many they are.
THEOREM DeletedLastCorrect == Spec => DeletedLast
<1>1. RequestInv /\ ContainerInv /\ [Next]_vars => [AfterAllElse(Containers)]_vars
  <2> SUFFICES ASSUME RequestInv, ContainerInv, Next,
                      NEW t \in DOMAIN db.tasks, NEW u \in DOMAIN db.tasks, Starts(t),
                      db.tasks[t].kind \in Containers, u # t,
                      db.tasks[u].root = db.tasks[t].root
               PROVE  statuses[u] = "SUCCESSFUL"
    BY DEF AfterAllElse
  <2>1. ~Without(request, Containers) /\ Encloses(db)
    BY DEF ContainerInv, Closing, Uncontained
  <2>2. Whole BY <2>1, FlowsAssumption DEF RequestInv, Places, Whole
  <2>3. Composed(db) /\ Numbered /\ Untouched /\ InTurns
    BY <2>2 DEF RequestInv, Composing, Runs, ContainerInv
  <2>4. statuses[t] = "PENDING" /\ statuses'[t] # "PENDING" /\ t \in DOMAIN statuses
    BY DEF Starts
  <2>5. Executor
    <3>1. ~CommitRequest BY <2>2, <2>4, CommitLeaves
    <3>2. ~Serve BY <2>4, <3>1, ServeLeaves
    <3> QED BY <3>2 DEF Next
  <2> DEFINE S == {v \in DOMAIN db.tasks : statuses[v] = "SUCCESSFUL"} \cup {t}
  <2>6. \A e \in db.edges : e[2] = t => statuses[e[1]] = "SUCCESSFUL"
    BY <2>3, <2>4, <2>5, Starting
  <2>7. Backed(db, S)
    BY <2>3, <2>6 DEF Backed, InTurns, Composed
  <2>8. Earlier(db, u, t) BY <2>1 DEF Encloses
  <2>9. u \in S BY <2>7, <2>8 DEF Earlier
  <2> QED BY <2>9
<1> QED BY <1>1, RequestInvariantCorrect, ContainerInvariantCorrect, PTL DEF Spec, DeletedLast
=============================================================================

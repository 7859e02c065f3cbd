------------------------ MODULE ResourceTask_proofs -------------------------
(***************************************************************************)
(* Proofs about the provider tasks: what their scripts alone tell of them  *)
(* is so whatever the provider answers, whatever discovery, the console    *)
(* and the janitor do meanwhile, and however long the lists are that their *)
(* loops go through.  MAPPER enters by ScriptsAssumption only.             *)
(***************************************************************************)
EXTENDS MCResourceTask, TLAPS

-----------------------------------------------------------------------------
(* What is known of a state goes on being known as it changes.             *)

LEMMA StatusAgrees ==
  ASSUME NEW view, NEW facts, Agrees(view, facts), NEW status
  PROVE  Agrees([view EXCEPT !.status = status], WithStatus(facts, status))
BY DEF Agrees, IsView, FactsOf, WithRows, WithStatus

LEMMA RowsAgree ==
  ASSUME NEW view, NEW facts, Agrees(view, facts), NEW n \in Nat, NEW rows,
         rows = IF n > 0 THEN "some" ELSE "none"
  PROVE  Agrees([view EXCEPT !.rows = n], WithRows(facts, rows))
BY DEF Agrees, IsView, FactsOf, WithRows

LEMMA NamedAgrees ==
  ASSUME NEW view, NEW facts, Agrees(view, facts), NEW named
  PROVE  Agrees([view EXCEPT !.named = named], [facts EXCEPT !.named = named])
BY DEF Agrees, IsView, FactsOf, WithRows

LEMMA NotedAgrees ==
  ASSUME NEW view, NEW facts, Agrees(view, facts), NEW noted
  PROVE  Agrees([view EXCEPT !.noted = noted], [facts EXCEPT !.noted = noted])
BY DEF Agrees, IsView, FactsOf, WithRows

LEMMA LogAgrees ==
  ASSUME NEW view, NEW facts, Agrees(view, facts), NEW entry
  PROVE  Agrees([view EXCEPT !.log = @ \cup {entry}], [facts EXCEPT !.log = @ \cup {entry}])
BY DEF Agrees, IsView, FactsOf, WithRows

LEMMA AgreesReads ==
  ASSUME NEW view, NEW facts, Agrees(view, facts)
  PROVE  /\ view.status = facts.status /\ view.noted = facts.noted
         /\ view.named = facts.named /\ view.log = facts.log
         /\ view.rows \in Nat /\ (view.rows > 0 <=> facts.rows = "some")
         /\ facts.rows \in {"none", "some"}
BY DEF Agrees, IsView, FactsOf, WithRows

LEMMA WorldFields ==
  ASSUME NEW clouds, NEW answer, NEW taken, NEW troubled
  PROVE  LET world == World(clouds, answer, taken, troubled)
         IN  /\ world.clouds = clouds /\ world.reply = answer
             /\ world.accepted = taken /\ world.trouble = troubled
BY DEF World

Quiet == UNCHANGED <<cloud, reply, accepted, trouble>>

LEMMA WorldStays ==
  ASSUME NEW world, Fits(world), Quiet
  PROVE  Fits(world)'
BY DEF Fits, Quiet

LEMMA WorldTroubled ==
  ASSUME NEW world, Fits(world), UNCHANGED <<cloud, reply, accepted>>, trouble' = TRUE
  PROVE  Fits(Troubled(world))'
<1>1. PICK troubled : troubled = TRUE OBVIOUS
<1>2. PICK new : new = World(world.clouds, world.reply, world.accepted, troubled) OBVIOUS
<1>3. /\ new.clouds = world.clouds /\ new.reply = world.reply
      /\ new.accepted = world.accepted /\ new.trouble = troubled
  BY <1>2, WorldFields
<1>4. Fits(new)' BY <1>1, <1>3 DEF Fits
<1> QED BY <1>1, <1>2, <1>4 DEF Troubled

-----------------------------------------------------------------------------
(* The ways in which operations end.                                       *)

LEMMA AtFields ==
  ASSUME NEW script, NEW session, NEW kept, NEW seen, NEW world
  PROVE  LET p == At(script, session, kept, seen, world)
         IN  /\ p.todo = script /\ p.open = session
             /\ p.kept = kept /\ p.seen = seen /\ p.world = world
BY DEF At

LEMMA GoesShows ==
  ASSUME NEW script, NEW kept, NEW seen, NEW world, NEW view,
         GoOn(script, view), Agrees(db', kept), Agrees(view, seen), Fits(world)'
  PROVE  Shows(Goes(script, kept, seen, world))'
<1> DEFINE session == script # <<>> /\ Head(script).op # "Call"
           q == Goes(script, kept, seen, world)
<1>1. open' = session /\ todo' = script /\ s' = IF session THEN view ELSE db'
  BY DEF GoOn
<1>2. /\ q.todo = script /\ q.open = session /\ q.kept = kept /\ q.world = world
      /\ q.seen = IF session THEN seen ELSE kept
  BY AtFields DEF Goes
<1>3. session \in BOOLEAN OBVIOUS
<1> HIDE DEF session, q
<1>4. ASSUME session PROVE Shows(q)'
  <2>1. q.seen = seen /\ s' = view BY <1>1, <1>2, <1>4
  <2> QED BY <1>1, <1>2, <1>4, <2>1 DEF Shows
<1>5. ASSUME ~session PROVE Shows(q)'
  <2>1. q.seen = kept /\ s' = db' BY <1>1, <1>2, <1>5
  <2> QED BY <1>1, <1>2, <1>5, <2>1 DEF Shows
<1>6. Shows(q)' BY <1>3, <1>4, <1>5
<1> QED BY <1>6 DEF q

LEMMA JumpShows ==
  ASSUME NEW p, Shows(p), NEW script, GoOn(script, s), UNCHANGED db, NEW world, Fits(world)'
  PROVE  Shows(Goes(script, p.kept, p.seen, world))'
BY GoesShows DEF Shows

LEMMA ChangeShows ==
  ASSUME NEW p, Shows(p), NEW view, Change(view), NEW facts, Agrees(view, facts)
  PROVE  Shows(Goes(Tail(p.todo), p.kept, facts, p.world))'
<1>1. GoOn(Tail(p.todo), view) /\ db' = db /\ Quiet BY DEF Shows, Change, Rest, Quiet
<1>2. Fits(p.world)' BY <1>1, WorldStays DEF Shows
<1> QED BY <1>1, <1>2, GoesShows DEF Shows

LEMMA StoreShows ==
  ASSUME NEW view, NEW script, Store(view, script), NEW facts, Agrees(view, facts),
         NEW world, Fits(world)'
  PROVE  Shows(Goes(script, facts, facts, world))'
BY GoesShows DEF Store

LEMMA StoresShows ==
  ASSUME NEW p, Shows(p), NEW view, NEW script, Store(view, script), UNCHANGED trouble,
         NEW facts, Agrees(view, facts)
  PROVE  Shows(Stores(p, script, facts))'
<1>1. Fits(p.world)' BY WorldStays DEF Shows, Store, Quiet
<1> QED BY <1>1, StoreShows DEF Stores

LEMMA FailureShows ==
  ASSUME NEW p, Shows(p), p.kept \in Facts, NEW t, OnFailure(t), NEW world, Fits(world)'
  PROVE  Shows(Failing(p, world))'
<1>1. db.status # "gone" /\ Agrees(db, p.kept)
  BY AgreesReads DEF Shows, Facts
<1>2. Store([db EXCEPT !.status = "FAILED"], <<>>)
  BY <1>1 DEF OnFailure
<1> QED BY <1>1, <1>2, StatusAgrees, StoreShows DEF Failing

-----------------------------------------------------------------------------
(* The walk follows the operations of an open session.                     *)

Known(p) ==
  Shows(p) /\ p.kept \in Facts /\ p.seen \in Facts /\ p.world.trouble \in BOOLEAN
Followed(p) == \E q \in Follows(Table[kind], p) : Shows(q)'

LEMMA Reads ==
  ASSUME NEW p, Shows(p), NEW ops, Next1(ops), NEW op, op = Head1
  PROVE  /\ op.op \in ops /\ op = Head(p.todo) /\ Rest = Tail(p.todo)
         /\ Does(Table[kind], p) \subseteq Follows(Table[kind], p)
<1>1. open /\ ~Idle /\ op.op \in ops BY DEF Next1
<1>2. p.todo = todo /\ p.open = open BY DEF Shows
<1>3. Does(Table[kind], p) = Acts(Table[kind], p) BY <1>1, <1>2 DEF Acts, Idle
<1> QED BY <1>1, <1>2, <1>3 DEF Head1, Rest, Follows

LEMMA Jumped ==
  ASSUME NEW p, Known(p), NEW script, Jump(script),
         Goes(script, p.kept, p.seen, p.world) \in Follows(Table[kind], p)
  PROVE  Followed(p)
<1>1. GoOn(script, s) /\ db' = db /\ Quiet BY DEF Jump, Quiet
<1>2. Fits(p.world)' BY <1>1, WorldStays DEF Known, Shows
<1> QED BY <1>1, <1>2, JumpShows DEF Known, Followed

LEMMA Failed ==
  ASSUME NEW p, Known(p), OnFailure(trouble), Failing(p, p.world) \in Follows(Table[kind], p)
  PROVE  Followed(p)
<1>1. Fits(p.world)' BY WorldStays DEF Known, Shows, OnFailure, Store, Quiet
<1> QED BY <1>1, FailureShows DEF Known, Followed

LEMMA FailedInTrouble ==
  ASSUME NEW p, Known(p), OnFailure(TRUE),
         Failing(p, Troubled(p.world)) \in Follows(Table[kind], p)
  PROVE  Followed(p)
<1>1. Fits(Troubled(p.world))' BY WorldTroubled DEF Known, Shows, OnFailure, Store
<1> QED BY <1>1, FailureShows DEF Known, Followed

LEMMA SetStatusFollows ==
  ASSUME NEW p, Known(p), SetStatus
  PROVE  Followed(p)
<1>0. PICK op : op = Head1 OBVIOUS
<1>1. Shows(p) /\ Next1({"Put"}) /\ Agrees(s, p.seen) /\ Change([s EXCEPT !.status = op.arg])
  BY <1>0 DEF Known, Shows, SetStatus
<1>2. /\ op.op = "Put" /\ op = Head(p.todo)
      /\ Does(Table[kind], p) \subseteq Follows(Table[kind], p)
  BY ONLY <1>0, <1>1, Reads
<1>3. PICK facts : facts = WithStatus(p.seen, op.arg) OBVIOUS
<1>4. Goes(Tail(p.todo), p.kept, facts, p.world) \in Does(Table[kind], p)
  BY <1>2, <1>3, Zenon DEF Does
<1>5. Shows(Goes(Tail(p.todo), p.kept, facts, p.world))'
  BY <1>1, <1>3, StatusAgrees, ChangeShows
<1> QED BY <1>2, <1>4, <1>5 DEF Followed

LEMMA CommitFollows ==
  ASSUME NEW p, Known(p), CommitChanges
  PROVE  Followed(p)
<1>0. PICK op : op = Head1 OBVIOUS
<1>1. PICK facts : facts = WithStatus(p.seen, op.arg) OBVIOUS
<1>2. /\ Shows(p) /\ Agrees(s, p.seen) /\ Agrees([s EXCEPT !.status = op.arg], facts)
      /\ UNCHANGED trouble
  BY <1>1, StatusAgrees DEF Known, Shows, CommitChanges
<1>3. ASSUME Next1({"Commit"}), Store(s, Rest) PROVE Followed(p)
  <2>1. /\ op.op = "Commit" /\ op = Head(p.todo) /\ Rest = Tail(p.todo)
        /\ Does(Table[kind], p) \subseteq Follows(Table[kind], p)
    BY ONLY <1>0, <1>2, <1>3, Reads
  <2>2. Stores(p, Tail(p.todo), p.seen) \in Does(Table[kind], p) BY <2>1, Zenon DEF Does
  <2>3. Shows(Stores(p, Tail(p.todo), p.seen))' BY <1>2, <1>3, <2>1, StoresShows
  <2> QED BY <2>1, <2>2, <2>3 DEF Followed
<1>4. ASSUME Next1({"Running"}), Store([s EXCEPT !.status = op.arg], Rest) PROVE Followed(p)
  <2>1. /\ op.op = "Running" /\ op = Head(p.todo) /\ Rest = Tail(p.todo)
        /\ Does(Table[kind], p) \subseteq Follows(Table[kind], p)
    BY ONLY <1>0, <1>2, <1>4, Reads
  <2>2. Stores(p, Tail(p.todo), facts) \in Does(Table[kind], p) BY <1>1, <2>1, Zenon DEF Does
  <2>3. Shows(Stores(p, Tail(p.todo), facts))' BY <1>2, <1>4, <2>1, StoresShows
  <2> QED BY <2>1, <2>2, <2>3 DEF Followed
<1>5. ASSUME Next1({"Exit"}), Store([s EXCEPT !.status = op.arg], <<>>) PROVE Followed(p)
  <2>1. /\ op.op = "Exit" /\ op = Head(p.todo)
        /\ Does(Table[kind], p) \subseteq Follows(Table[kind], p)
    BY ONLY <1>0, <1>2, <1>5, Reads
  <2>2. Stores(p, <<>>, facts) \in Does(Table[kind], p) BY <1>1, <2>1, Zenon DEF Does
  <2>3. Shows(Stores(p, <<>>, facts))' BY <1>2, <1>5, StoresShows
  <2> QED BY <2>1, <2>2, <2>3 DEF Followed
<1> QED BY <1>0, <1>3, <1>4, <1>5 DEF CommitChanges

LEMMA ReturnFollows ==
  ASSUME NEW p, Known(p), ReturnFromTask
  PROVE  Followed(p)
<1>0. PICK op : op = Head1 OBVIOUS
<1>1. Shows(p) /\ Next1({"Return"}) /\ Jump(<<>>) BY DEF Known, ReturnFromTask
<1>2. /\ op.op = "Return" /\ op = Head(p.todo)
      /\ Does(Table[kind], p) \subseteq Follows(Table[kind], p)
  BY ONLY <1>0, <1>1, Reads
<1>3. Goes(<<>>, p.kept, p.seen, p.world) \in Does(Table[kind], p)
  BY <1>2, Zenon DEF Does
<1> QED BY <1>1, <1>2, <1>3, Jumped

LEMMA RaiseFollows ==
  ASSUME NEW p, Known(p), RaiseInTask
  PROVE  Followed(p)
<1>0. PICK op : op = Head1 OBVIOUS
<1>1. Shows(p) /\ Next1({"Raise"}) /\ OnFailure(trouble) BY DEF Known, RaiseInTask
<1>2. /\ op.op = "Raise" /\ op = Head(p.todo)
      /\ Does(Table[kind], p) \subseteq Follows(Table[kind], p)
  BY ONLY <1>0, <1>1, Reads
<1>3. Failing(p, p.world) \in Does(Table[kind], p)
  BY <1>2, Zenon DEF Does
<1> QED BY <1>1, <1>2, <1>3, Failed

LEMMA LookUpFollows ==
  ASSUME NEW p, Known(p), LookUp
  PROVE  Followed(p)
<1>0. PICK op : op = Head1 OBVIOUS
<1>1. Shows(p) /\ Agrees(s, p.seen) /\ Fits(p.world) BY DEF Known, Shows
<1>2. ASSUME Next1({"Needs", "Missing", "Uses"}), Jump(Rest) PROVE Followed(p)
  <2>1. /\ op.op \in {"Needs", "Missing", "Uses"} /\ op = Head(p.todo) /\ Rest = Tail(p.todo)
        /\ Does(Table[kind], p) \subseteq Follows(Table[kind], p)
    BY ONLY <1>0, <1>1, <1>2, Reads
  <2>2. Goes(Tail(p.todo), p.kept, p.seen, p.world) \in Does(Table[kind], p)
    BY <2>1, Zenon DEF Does
  <2> QED BY <2>1, <2>2, <1>2, Jumped
<1>3. ASSUME Next1({"Needs"}), Store([s EXCEPT !.status = "FAILED"], <<>>), trouble' = TRUE
      PROVE  Followed(p)
  <2>1. /\ op.op = "Needs" /\ op = Head(p.todo)
        /\ Does(Table[kind], p) \subseteq Follows(Table[kind], p)
    BY ONLY <1>0, <1>1, <1>3, Reads
  <2>2. PICK facts : facts = WithStatus(p.seen, "FAILED") OBVIOUS
  <2>3. Agrees([s EXCEPT !.status = "FAILED"], facts) BY <1>1, <2>2, StatusAgrees
  <2>4. Fits(Troubled(p.world))' BY <1>1, <1>3, WorldTroubled DEF Store
  <2>5. Goes(<<>>, facts, facts, Troubled(p.world)) \in Does(Table[kind], p)
    BY <2>1, <2>2, Zenon DEF Does
  <2>6. Shows(Goes(<<>>, facts, facts, Troubled(p.world)))' BY <1>3, <2>3, <2>4, StoreShows
  <2> QED BY <2>1, <2>5, <2>6 DEF Followed
<1>4. ASSUME Next1({"Missing"}), trouble' = TRUE, UNCHANGED <<db, cloud, reply, accepted>>,
             GoOn(op.body \o Rest, s)
      PROVE  Followed(p)
  <2> DEFINE q == Goes(op.body \o Tail(p.todo), p.kept, p.seen, Troubled(p.world))
  <2>1. /\ op.op = "Missing" /\ op = Head(p.todo) /\ Rest = Tail(p.todo)
        /\ Does(Table[kind], p) \subseteq Follows(Table[kind], p)
    BY ONLY <1>0, <1>1, <1>4, Reads
  <2>2. q \in Does(Table[kind], p) BY <2>1, Zenon DEF Does
  <2>3. Fits(Troubled(p.world))' BY <1>1, <1>4, WorldTroubled
  <2>4. Shows(q)' BY <1>1, <1>4, <2>1, <2>3, JumpShows
  <2> QED BY <2>1, <2>2, <2>4 DEF Followed
<1>5. ASSUME Next1({"Uses"}), OnFailure(TRUE) PROVE Followed(p)
  <2>1. /\ op.op = "Uses" /\ op = Head(p.todo)
        /\ Does(Table[kind], p) \subseteq Follows(Table[kind], p)
    BY ONLY <1>0, <1>1, <1>5, Reads
  <2>2. Failing(p, Troubled(p.world)) \in Does(Table[kind], p) BY <2>1, Zenon DEF Does
  <2> QED BY <2>1, <2>2, <1>5, FailedInTrouble
<1> QED BY <1>0, <1>2, <1>3, <1>4, <1>5 DEF LookUp

LEMMA BranchFollows ==
  ASSUME NEW p, Known(p), Branch
  PROVE  Followed(p)
<1>0. PICK op : op = Head1 OBVIOUS
<1>1. Shows(p) /\ Agrees(s, p.seen) /\ p.world.reply = reply BY DEF Known, Shows, Fits
<1>2. ASSUME Next1({"When"}), NEW script, script \in {op.body \o Rest, op.other \o Rest},
             Jump(script)
      PROVE  Followed(p)
  <2>1. /\ op.op = "When" /\ op = Head(p.todo) /\ Rest = Tail(p.todo)
        /\ Does(Table[kind], p) \subseteq Follows(Table[kind], p)
    BY ONLY <1>0, <1>1, <1>2, Reads
  <2>2. Goes(script, p.kept, p.seen, p.world) \in Does(Table[kind], p)
    BY <1>2, <2>1, Zenon DEF Does
  <2> QED BY <2>1, <2>2, <1>2, Jumped
<1>3. ASSUME Next1({"Row"}), Jump((IF s.rows > 0 THEN op.body ELSE op.other) \o Rest)
      PROVE  Followed(p)
  <2>1. /\ op.op = "Row" /\ op = Head(p.todo) /\ Rest = Tail(p.todo)
        /\ Does(Table[kind], p) \subseteq Follows(Table[kind], p)
    BY ONLY <1>0, <1>1, <1>3, Reads
  <2>2. PICK script :
          script = (IF p.seen.rows = "some" THEN op.body ELSE op.other) \o Tail(p.todo)
    OBVIOUS
  <2>3. s.rows > 0 <=> p.seen.rows = "some" BY <1>1, AgreesReads
  <2>4. Jump(script) BY <1>3, <2>1, <2>2, <2>3
  <2>5. Goes(script, p.kept, p.seen, p.world) \in Does(Table[kind], p)
    BY <2>1, <2>2, Zenon DEF Does
  <2> QED BY <2>1, <2>4, <2>5, Jumped
<1>4. ASSUME Next1({"On"}), Jump((IF reply \in op.arg THEN op.body ELSE op.other) \o Rest)
      PROVE  Followed(p)
  <2>1. /\ op.op = "On" /\ op = Head(p.todo) /\ Rest = Tail(p.todo)
        /\ Does(Table[kind], p) \subseteq Follows(Table[kind], p)
    BY ONLY <1>0, <1>1, <1>4, Reads
  <2>2. PICK script :
          script = (IF p.world.reply \in op.arg THEN op.body ELSE op.other) \o Tail(p.todo)
    OBVIOUS
  <2>3. Jump(script) BY <1>1, <1>4, <2>1, <2>2
  <2>4. Goes(script, p.kept, p.seen, p.world) \in Does(Table[kind], p)
    BY <2>1, <2>2, Zenon DEF Does
  <2> QED BY <2>1, <2>3, <2>4, Jumped
<1> QED BY <1>0, <1>2, <1>3, <1>4 DEF Branch

LEMMA LoopFollows ==
  ASSUME NEW p, Known(p), Loop
  PROVE  Followed(p)
<1>0. PICK op : op = Head1 OBVIOUS
<1>1. Shows(p) /\ p.todo = todo BY DEF Known, Shows
<1>2. ASSUME NEW kinds, Next1(kinds), NEW script, GoOn(script, s), UNCHANGED db, Quiet,
             Goes(script, p.kept, p.seen, p.world) \in Does(Table[kind], p)
      PROVE  Followed(p)
  <2>1. Does(Table[kind], p) \subseteq Follows(Table[kind], p)
    BY ONLY <1>0, <1>1, <1>2, Reads
  <2>2. Fits(p.world)' BY <1>1, <1>2, WorldStays DEF Shows
  <2> QED BY <1>1, <1>2, <2>1, <2>2, JumpShows DEF Followed
<1>3. ASSUME Next1({"Each"}), UNCHANGED db, Quiet, GoOn(<<Again>> \o Rest, s)
      PROVE  Followed(p)
  <2>1. op.op = "Each" /\ op = Head(p.todo) /\ Rest = Tail(p.todo)
    BY ONLY <1>0, <1>1, <1>3, Reads
  <2>2. PICK script : script = <<[op EXCEPT !.op = "Again"]>> \o Tail(p.todo) OBVIOUS
  <2>3. Goes(script, p.kept, p.seen, p.world) \in Does(Table[kind], p)
    BY <2>1, <2>2, Zenon DEF Does
  <2>4. script = <<Again>> \o Rest BY <1>0, <2>1, <2>2 DEF Again
  <2> QED BY <1>2, <1>3, <2>3, <2>4
<1>4. ASSUME Next1({"Again"}), NEW script, script \in {Rest, op.body \o todo},
             UNCHANGED db, Quiet, GoOn(script, s)
      PROVE  Followed(p)
  <2>1. op.op = "Again" /\ op = Head(p.todo) /\ Rest = Tail(p.todo)
    BY ONLY <1>0, <1>1, <1>4, Reads
  <2>2. Goes(script, p.kept, p.seen, p.world) \in Does(Table[kind], p)
    BY <1>1, <1>4, <2>1, Zenon DEF Does
  <2> QED BY <1>2, <1>4, <2>2
<1>5. ASSUME Next1({"Continue"}), NEW end,
             end = Min({i \in DOMAIN todo : todo[i].op = "Again"}),
             Jump(SubSeq(todo, end, Len(todo)))
      PROVE  Followed(p)
  <2>1. op.op = "Continue" /\ op = Head(p.todo)
    BY ONLY <1>0, <1>1, <1>5, Reads
  <2>2. PICK script : script = SubSeq(todo, end, Len(todo)) OBVIOUS
  <2>3. Goes(script, p.kept, p.seen, p.world) \in Does(Table[kind], p)
    BY <1>1, <1>5, <2>1, <2>2, Zenon DEF Does
  <2> QED BY <1>2, <1>5, <2>2, <2>3 DEF Jump, Quiet
<1> QED BY <1>0, <1>3, <1>4, <1>5 DEF Loop, Jump, Quiet

-----------------------------------------------------------------------------
(* Rows, the log and the task's metadata.                                  *)

LEMMA SaveRowFollows ==
  ASSUME NEW p, Known(p), SaveRow
  PROVE  Followed(p)
<1>0. PICK op : op = Head1 OBVIOUS
<1>1. Shows(p) /\ Next1({"Save"}) /\ Agrees(s, p.seen) BY DEF Known, Shows, SaveRow
<1>2. /\ op.op = "Save" /\ op = Head(p.todo)
      /\ Does(Table[kind], p) \subseteq Follows(Table[kind], p)
  BY ONLY <1>0, <1>1, Reads
<1>3. s.rows > 0 <=> p.seen.rows = "some" BY <1>1, AgreesReads
<1>4. CASE s.rows > 0 /\ Table[kind].unique
  <2>1. p.seen.rows = "some" /\ OnFailure(trouble) BY <1>3, <1>4 DEF SaveRow
  <2>2. Failing(p, p.world) \in Does(Table[kind], p) BY <1>2, <1>4, <2>1, Zenon DEF Does
  <2> QED BY <1>2, <2>1, <2>2, Failed
<1>5. CASE ~(s.rows > 0 /\ Table[kind].unique)
  <2>1. PICK n : n = IF s.rows < MaxRows THEN s.rows + 1 ELSE s.rows OBVIOUS
  <2>2. n \in Nat /\ n > 0 BY <1>1, <2>1, BoundsAssumption DEF Agrees, IsView
  <2>3. PICK facts : facts = WithRows(p.seen, "some") OBVIOUS
  <2>4. Agrees([s EXCEPT !.rows = n], facts)
    BY <1>1, <2>2, <2>3, RowsAgree
  <2>5. ~(p.seen.rows = "some" /\ Table[kind].unique) BY <1>3, <1>5
  <2>6. Goes(Tail(p.todo), p.kept, facts, p.world) \in Does(Table[kind], p)
    BY <1>2, <2>3, <2>5, Zenon DEF Does
  <2>7. Change([s EXCEPT !.rows = n]) BY <1>5, <2>1 DEF SaveRow
  <2>8. Shows(Goes(Tail(p.todo), p.kept, facts, p.world))'
    BY <1>1, <2>4, <2>7, ChangeShows
  <2> QED BY <1>2, <2>6, <2>8 DEF Followed
<1> QED BY <1>4, <1>5

LEMMA DropRowFollows ==
  ASSUME NEW p, Known(p), DropRow
  PROVE  Followed(p)
<1>0. PICK op : op = Head1 OBVIOUS
<1>1. Shows(p) /\ Next1({"Drop"}) /\ Agrees(s, p.seen) /\ Change([s EXCEPT !.rows = 0])
  BY DEF Known, Shows, DropRow
<1>2. /\ op.op = "Drop" /\ op = Head(p.todo)
      /\ Does(Table[kind], p) \subseteq Follows(Table[kind], p)
  BY ONLY <1>0, <1>1, Reads
<1>3. PICK facts : facts = WithRows(p.seen, "none") OBVIOUS
<1>4. PICK n \in Nat : n = 0 OBVIOUS
<1>5. Agrees([s EXCEPT !.rows = n], facts)
  BY <1>1, <1>3, <1>4, RowsAgree
<1>6. Goes(Tail(p.todo), p.kept, facts, p.world) \in Does(Table[kind], p)
  BY <1>2, <1>3, Zenon DEF Does
<1>7. Shows(Goes(Tail(p.todo), p.kept, facts, p.world))'
  BY <1>1, <1>4, <1>5, ChangeShows
<1> QED BY <1>2, <1>6, <1>7 DEF Followed

LEMMA LogRowFollows ==
  ASSUME NEW p, Known(p), LogRow
  PROVE  Followed(p)
<1>0. PICK op : op = Head1 OBVIOUS
<1>1. PICK entry : entry = op.arg OBVIOUS
<1>2. PICK facts : facts = [p.seen EXCEPT !.log = @ \cup {entry}] OBVIOUS
<1>3. PICK view : view = [s EXCEPT !.log = @ \cup {entry}] OBVIOUS
<1>4. Shows(p) /\ Next1({"Log"}) /\ Agrees(s, p.seen) /\ Change(view)
  BY <1>0, <1>1, <1>3 DEF Known, Shows, LogRow
<1>5. /\ op.op = "Log" /\ op = Head(p.todo)
      /\ Does(Table[kind], p) \subseteq Follows(Table[kind], p)
  BY ONLY <1>0, <1>4, Reads
<1>6. Agrees(view, facts) BY <1>2, <1>3, <1>4, LogAgrees
<1>7. Goes(Tail(p.todo), p.kept, facts, p.world) \in Does(Table[kind], p)
  BY <1>1, <1>2, <1>5, Zenon DEF Does
<1>8. Shows(Goes(Tail(p.todo), p.kept, facts, p.world))'
  BY <1>4, <1>6, ChangeShows
<1> QED BY <1>5, <1>7, <1>8 DEF Followed

LEMMA NoteIdFollows ==
  ASSUME NEW p, Known(p), NoteId
  PROVE  Followed(p)
<1>0. PICK op : op = Head1 OBVIOUS
<1>1. PICK facts : facts = [p.seen EXCEPT !.noted = TRUE] OBVIOUS
<1>2. PICK view : view = [s EXCEPT !.noted = TRUE] OBVIOUS
<1>3. Shows(p) /\ Next1({"Note"}) /\ Agrees(s, p.seen) /\ Change(view)
  BY <1>2 DEF Known, Shows, NoteId
<1>4. /\ op.op = "Note" /\ op = Head(p.todo)
      /\ Does(Table[kind], p) \subseteq Follows(Table[kind], p)
  BY ONLY <1>0, <1>3, Reads
<1>5. Agrees(view, facts) BY <1>1, <1>2, <1>3, NotedAgrees, Zenon
<1>6. Goes(Tail(p.todo), p.kept, facts, p.world) \in Does(Table[kind], p)
  BY <1>1, <1>4, Zenon DEF Does
<1>7. Shows(Goes(Tail(p.todo), p.kept, facts, p.world))'
  BY <1>3, <1>5, ChangeShows
<1> QED BY <1>4, <1>6, <1>7 DEF Followed

LEMMA PointAtRowFollows ==
  ASSUME NEW p, Known(p), PointAtRow
  PROVE  Followed(p)
<1>0. PICK op : op = Head1 OBVIOUS
<1>1. PICK facts : facts = [p.seen EXCEPT !.named = TRUE] OBVIOUS
<1>2. PICK view : view = [s EXCEPT !.named = TRUE] OBVIOUS
<1>3. Shows(p) /\ Next1({"Point"}) /\ Agrees(s, p.seen) /\ Change(view)
  BY <1>2 DEF Known, Shows, PointAtRow
<1>4. /\ op.op = "Point" /\ op = Head(p.todo)
      /\ Does(Table[kind], p) \subseteq Follows(Table[kind], p)
  BY ONLY <1>0, <1>3, Reads
<1>5. Agrees(view, facts) BY <1>1, <1>2, <1>3, NamedAgrees, Zenon
<1>6. Goes(Tail(p.todo), p.kept, facts, p.world) \in Does(Table[kind], p)
  BY <1>1, <1>4, Zenon DEF Does
<1>7. Shows(Goes(Tail(p.todo), p.kept, facts, p.world))'
  BY <1>3, <1>5, ChangeShows
<1> QED BY <1>4, <1>6, <1>7 DEF Followed

LEMMA RecallIdFollows ==
  ASSUME NEW p, Known(p), RecallId
  PROVE  Followed(p)
<1>0. PICK op : op = Head1 OBVIOUS
<1>1. /\ Shows(p) /\ Next1({"Recall"}) /\ Agrees(s, p.seen)
      /\ IF s.noted THEN Jump(Rest) ELSE OnFailure(trouble)
  BY DEF Known, Shows, RecallId
<1>2. /\ op.op = "Recall" /\ op = Head(p.todo) /\ Rest = Tail(p.todo)
      /\ Does(Table[kind], p) \subseteq Follows(Table[kind], p)
  BY ONLY <1>0, <1>1, Reads
<1>3. s.noted = p.seen.noted BY <1>1, AgreesReads
<1>4. CASE s.noted
  <2>1. p.seen.noted BY <1>3, <1>4, Zenon
  <2>2. Goes(Tail(p.todo), p.kept, p.seen, p.world) \in Does(Table[kind], p)
    BY <1>2, <2>1, Zenon DEF Does
  <2> QED BY <1>1, <1>2, <1>4, <2>2, Jumped
<1>5. CASE ~s.noted
  <2>1. ~p.seen.noted BY <1>3, <1>5, Zenon
  <2>2. Failing(p, p.world) \in Does(Table[kind], p) BY <1>2, <2>1, Zenon DEF Does
  <2> QED BY <1>1, <1>2, <1>5, <2>2, Failed
<1> QED BY <1>4, <1>5

-----------------------------------------------------------------------------
(* The beginning and the end of sessions.                                  *)

LEMMA TaskBegins ==
  ASSUME NEW p, Known(p), RunTask \/ WaitTask, kind \in Kinds
  PROVE  Followed(p)
<1>1. Shows(p) /\ p.todo = todo /\ Agrees(db, p.kept) /\ p.kept.status = db.status
  BY AgreesReads DEF Known, Shows
<1>2. Idle /\ UNCHANGED trouble BY DEF RunTask, WaitTask
<1>3. Begins(Table[kind], p) \subseteq Follows(Table[kind], p)
  BY <1>1, <1>2 DEF Idle, Follows, Acts
<1>4. ASSUME NEW status, NEW script, Store([db EXCEPT !.status = status], script),
             Stores(p, script, WithStatus(p.kept, status)) \in Begins(Table[kind], p)
      PROVE  Followed(p)
  <2>1. Agrees([db EXCEPT !.status = status], WithStatus(p.kept, status))
    BY <1>1, StatusAgrees
  <2>2. Shows(Stores(p, script, WithStatus(p.kept, status)))'
    BY <1>1, <1>2, <1>4, <2>1, StoresShows
  <2> QED BY <1>3, <1>4, <2>2 DEF Followed
<1>5. CASE RunTask
  <2>1. /\ p.kept.status = "PENDING"
        /\ Store([db EXCEPT !.status = "INITIATED"], <<Close>> \o Table[kind].run)
    BY <1>1, <1>5 DEF RunTask
  <2>2. Stores(p, <<Close>> \o Table[kind].run, WithStatus(p.kept, "INITIATED"))
          \in Begins(Table[kind], p)
    BY <2>1 DEF Begins
  <2> QED BY <1>4, <2>1, <2>2
<1>6. CASE WaitTask
  <2>1. /\ p.kept.status = "RUNNING_WAIT" /\ Table[kind].wait # <<>>
        /\ Store([db EXCEPT !.status = "RUNNING_WAIT_INITIATED"], <<Close>> \o Table[kind].wait)
    BY <1>1, <1>6 DEF WaitTask
  <2>2. Stores(p, <<Close>> \o Table[kind].wait, WithStatus(p.kept, "RUNNING_WAIT_INITIATED"))
          \in Begins(Table[kind], p)
    BY <2>1 DEF Begins
  <2> QED BY <1>4, <2>1, <2>2
<1> QED BY <1>5, <1>6

LEMMA SessionBegins ==
  ASSUME NEW p, Known(p), OpenSession
  PROVE  Followed(p)
<1>1. Shows(p) /\ p.todo = todo /\ p.open = open /\ Agrees(db, p.kept) /\ s = db
  BY DEF Known, Shows, OpenSession
<1>2. ~open /\ ~Idle /\ Head1.op # "Call" /\ UNCHANGED <<db, s>> /\ Quiet
  BY DEF OpenSession, Quiet
<1>3. db.status # "gone" BY <1>1, AgreesReads DEF Known, Facts
<1>4. todo' = todo /\ open' = TRUE BY <1>3 DEF OpenSession
<1> DEFINE q == At(p.todo, TRUE, p.kept, p.kept, p.world)
<1>5. q \in Follows(Table[kind], p) BY <1>1, <1>2 DEF Follows, Acts, Idle, Head1
<1>6. /\ q.todo = p.todo /\ q.open = TRUE /\ q.kept = p.kept /\ q.seen = p.kept
      /\ q.world = p.world
  BY DEF At
<1>7. Fits(p.world)' BY <1>1, <1>2, WorldStays DEF Shows
<1> HIDE DEF q
<1>8. Shows(q)' BY <1>1, <1>2, <1>4, <1>6, <1>7 DEF Shows
<1> QED BY <1>5, <1>8 DEF Followed

LEMMA SessionEnds ==
  ASSUME NEW p, Known(p), CloseSession
  PROVE  Followed(p)
<1>0. PICK op : op = Head1 OBVIOUS
<1>1. Shows(p) /\ Next1({"Close"}) BY DEF Known, CloseSession
<1>2. /\ op.op = "Close" /\ op = Head(p.todo) /\ Rest = Tail(p.todo)
      /\ Does(Table[kind], p) \subseteq Follows(Table[kind], p)
  BY ONLY <1>0, <1>1, Reads
<1> DEFINE q == At(Tail(p.todo), FALSE, p.kept, p.kept, p.world)
<1>3. q \in Does(Table[kind], p) BY <1>2, Zenon DEF Does
<1>4. /\ q.todo = Tail(p.todo) /\ q.open = FALSE /\ q.kept = p.kept /\ q.seen = p.kept
      /\ q.world = p.world
  BY DEF At
<1>5. Fits(p.world)' BY <1>1, WorldStays DEF Shows, CloseSession, Quiet
<1> HIDE DEF q
<1>6. Shows(q)' BY <1>1, <1>2, <1>4, <1>5 DEF Shows, CloseSession
<1> QED BY <1>2, <1>3, <1>6 DEF Followed

-----------------------------------------------------------------------------
(* Calls.                                                                  *)

LEMMA CallFollows ==
  ASSUME NEW p, Known(p), Calling, UNCHANGED db, NEW script, Session(script),
         NEW world, Fits(world)',
         ASSUME NEW session, NEW seen
         PROVE  At(script, session, p.kept, seen, world) \in Calls(Table[kind], p, session, seen)
  PROVE  Followed(p)
<1>0. PICK op : op = Head1 OBVIOUS
<1>1. Shows(p) /\ p.todo = todo /\ p.open = open /\ Agrees(db, p.kept) /\ Agrees(s, p.seen)
  BY DEF Known, Shows
<1>2. op = Head(p.todo) /\ (op.op = "Call" \/ (op.op = "CallIn" /\ open))
  BY <1>0, <1>1 DEF Calling, Head1
<1>3. Does(Table[kind], p) \subseteq Follows(Table[kind], p)
  BY <1>1, <1>2 DEF Calling, Idle, Follows, Acts
<1>4. CASE op.op = "Call"
  <2> DEFINE q == At(script, FALSE, p.kept, p.kept, world)
  <2>1. Calls(Table[kind], p, FALSE, p.kept) = Does(Table[kind], p)
    BY <1>2, <1>4, Zenon DEF Does
  <2>2. todo' = script /\ open' = FALSE /\ s' = db' BY <1>0, <1>4 DEF Session
  <2>3. /\ q.todo = script /\ q.open = FALSE /\ q.kept = p.kept /\ q.seen = p.kept
        /\ q.world = world
    BY DEF At
  <2>4. q \in Does(Table[kind], p) BY <2>1, Zenon
  <2> HIDE DEF q
  <2>5. Shows(q)' BY <1>1, <2>2, <2>3 DEF Shows
  <2> QED BY <1>3, <2>4, <2>5 DEF Followed
<1>5. CASE op.op = "CallIn"
  <2> DEFINE q == At(script, TRUE, p.kept, p.seen, world)
  <2>1. Calls(Table[kind], p, TRUE, p.seen) = Does(Table[kind], p)
    BY <1>2, <1>5, Zenon DEF Does
  <2>2. todo' = script /\ open' = TRUE /\ s' = s BY <1>0, <1>5 DEF Session
  <2>3. /\ q.todo = script /\ q.open = TRUE /\ q.kept = p.kept /\ q.seen = p.seen
        /\ q.world = world
    BY DEF At
  <2>4. q \in Does(Table[kind], p) BY <2>1, Zenon
  <2> HIDE DEF q
  <2>5. Shows(q)' BY <1>1, <2>2, <2>3 DEF Shows
  <2> QED BY <1>3, <2>4, <2>5 DEF Followed
<1> QED BY <1>2, <1>4, <1>5

LEMMA AnsweredFollows ==
  ASSUME NEW p, Known(p), Answered
  PROVE  Followed(p)
<1>0. PICK op : op = Head1 OBVIOUS
<1>1. Calling /\ UNCHANGED db BY DEF Answered
<1>2. /\ p.todo = todo /\ cloud \in p.world.clouds /\ p.world.reply = reply
      /\ p.world.accepted = accepted /\ p.world.trouble = trouble
  BY DEF Known, Shows, Fits
<1>3. op = Head(p.todo) /\ Rest = Tail(p.todo) BY <1>0, <1>2 DEF Head1, Rest
<1>4. PICK o \in Outcome(Table[kind], op.arg, cloud, reply) :
        /\ reply' = o[1] /\ cloud' = o[2]
        /\ accepted' = (accepted \/ (op.arg = does /\ o[1] # "gone"))
        /\ trouble' = (trouble \/ Alarming(Table[kind], op.arg, o[1]))
        /\ Session(IF o[1] = "gone" THEN op.body \o Rest ELSE Rest)
  BY <1>0 DEF Answered
<1> DEFINE outcomes == UNION {Outcome(Table[kind], op.arg, c, p.world.reply) : c \in p.world.clouds}
           script == IF o[1] = "gone" THEN op.body \o Tail(p.todo) ELSE Tail(p.todo)
<1>5. o \in outcomes BY <1>2, <1>4, Zenon
<1>6. PICK world : world = Answer(Table[kind], op.arg, o, p.world) OBVIOUS
<1>7. ASSUME NEW session, NEW seen
      PROVE  At(script, session, p.kept, seen, world) \in Calls(Table[kind], p, session, seen)
  BY <1>3, <1>5, <1>6, Zenon DEF Calls
<1>8. Fits(world)'
  <2>1. PICK taken : taken = (p.world.accepted \/ (op.arg = Table[kind].does /\ o[1] # "gone"))
    OBVIOUS
  <2>2. PICK troubled : troubled = (p.world.trouble \/ Alarming(Table[kind], op.arg, o[1]))
    OBVIOUS
  <2>3. world = World({o[2]}, o[1], taken, troubled) BY <1>6, <2>1, <2>2, Zenon DEF Answer
  <2>4. world.clouds = {o[2]} /\ world.reply = o[1] /\ world.accepted = taken
        /\ world.trouble = troubled
    BY <2>3, WorldFields
  <2>5. accepted' = taken BY <1>2, <1>4, <2>1, Zenon DEF does
  <2>6. trouble' = troubled BY <1>2, <1>4, <2>2, Zenon
  <2> QED BY <1>4, <2>4, <2>5, <2>6 DEF Fits
<1>9. Session(script) BY <1>3, <1>4
<1> HIDE DEF script, outcomes
<1> QED BY <1>1, <1>7, <1>8, <1>9, CallFollows, Zenon

LEMMA UnansweredFollows ==
  ASSUME NEW p, Known(p), Calling, UNCHANGED <<db, accepted>>,
         reply' = "refused", trouble' = TRUE, NEW op, op = Head1, NEW script, Session(script),
         \/ script = op.body \o Rest /\ cloud' \in p.world.clouds
         \/ /\ script = op.other \o Rest
            /\ \/ cloud' \in p.world.clouds
               \/ \E c \in p.world.clouds :
                    \E o \in Outcome(Table[kind], op.arg, c, p.world.reply) : cloud' = o[2]
  PROVE  Followed(p)
<1> DEFINE outcomes ==
             UNION {Outcome(Table[kind], op.arg, c, p.world.reply) : c \in p.world.clouds}
<1>1. p.todo = todo /\ p.world.accepted = accepted BY DEF Known, Shows, Fits
<1>2. op = Head(p.todo) /\ Rest = Tail(p.todo) BY <1>1 DEF Head1, Rest
<1>3. PICK may :
        /\ cloud' \in may
        /\ \/ script = op.body \o Tail(p.todo) /\ may = p.world.clouds
           \/ script = op.other \o Tail(p.todo)
              /\ may = p.world.clouds \cup {o[2] : o \in outcomes}
  BY <1>2
<1>4. PICK world : world = World(may, "refused", p.world.accepted, TRUE) OBVIOUS
<1>5. ASSUME NEW session, NEW seen
      PROVE  At(script, session, p.kept, seen, world) \in Calls(Table[kind], p, session, seen)
  BY <1>2, <1>3, <1>4, Zenon DEF Calls
<1>6. Fits(world)'
  <2>1. PICK troubled : troubled = TRUE OBVIOUS
  <2>2. world = World(may, "refused", p.world.accepted, troubled) BY <1>4, <2>1, Zenon
  <2>3. world.clouds = may /\ world.reply = "refused" /\ world.accepted = p.world.accepted
        /\ world.trouble = troubled
    BY <2>2, WorldFields
  <2> QED BY <1>1, <1>3, <2>1, <2>3, Zenon DEF Fits
<1> QED BY <1>5, <1>6, CallFollows, Zenon

LEMMA RefusedFollows ==
  ASSUME NEW p, Known(p), Refused
  PROVE  Followed(p)
<1>0. PICK op : op = Head1 OBVIOUS
<1>1. /\ Calling /\ UNCHANGED <<db, accepted, cloud>> /\ reply' = "refused" /\ trouble' = TRUE
      /\ Session(op.body \o Rest)
  BY <1>0 DEF Refused
<1>2. cloud' \in p.world.clouds BY <1>1 DEF Known, Shows, Fits
<1> QED BY <1>0, <1>1, <1>2, UnansweredFollows

LEMMA LostFollows ==
  ASSUME NEW p, Known(p), Lost
  PROVE  Followed(p)
<1>0. PICK op : op = Head1 OBVIOUS
<1>1. PICK script : script = op.other \o Rest OBVIOUS
<1>2. /\ Calling /\ UNCHANGED <<db, accepted>> /\ reply' = "refused" /\ trouble' = TRUE
      /\ Session(script)
  BY <1>0, <1>1 DEF Lost
<1>3. cloud \in p.world.clouds /\ p.world.reply = reply BY DEF Known, Shows, Fits
<1>4. \/ cloud' \in p.world.clouds
      \/ \E c \in p.world.clouds :
           \E o \in Outcome(Table[kind], op.arg, c, p.world.reply) : cloud' = o[2]
  BY <1>0, <1>3 DEF Lost
<1> QED BY <1>0, <1>1, <1>2, <1>4, UnansweredFollows, Zenon

-----------------------------------------------------------------------------
(* The others.                                                             *)

LEMMA TurnKeeps ==
  ASSUME NEW task, NEW troubled, NEW clouds
  PROVE  clouds \subseteq Turn(task, troubled, clouds)
BY DEF Turn

LEMMA ReachKeeps ==
  ASSUME NEW task, NEW troubled, NEW clouds
  PROVE  /\ clouds \subseteq Reach(task, troubled, clouds)
         /\ Turn(task, troubled, clouds) \subseteq Reach(task, troubled, clouds)
<1>1. PICK one : one = Turn(task, troubled, clouds) OBVIOUS
<1>2. PICK two : two = Turn(task, troubled, one) OBVIOUS
<1>3. PICK three : three = Turn(task, troubled, two) OBVIOUS
<1>4. clouds \subseteq one /\ one \subseteq two /\ two \subseteq three
  BY <1>1, <1>2, <1>3, TurnKeeps
<1>5. Reach(task, troubled, clouds) = three BY <1>1, <1>2, <1>3, Zenon DEF Reach
<1> QED BY <1>1, <1>4, <1>5

\* Where it is long enough between two sessions, all has happened that can.
LEMMA AllHappened ==
  ASSUME NEW p, NEW task, p = Later(task, p), ~p.open
  PROVE  Turn(task, p.world.trouble, p.world.clouds) \subseteq p.world.clouds
<1>1. PICK clouds : clouds = Reach(task, p.world.trouble, p.world.clouds) OBVIOUS
<1>2. PICK world : world = World(clouds, p.world.reply, p.world.accepted, p.world.trouble)
  OBVIOUS
<1>3. p = At(p.todo, p.open, p.kept, p.seen, world) BY <1>1, <1>2, Zenon DEF Later
<1>4. p.world = world BY <1>3 DEF At
<1>5. world.clouds = clouds BY <1>2 DEF World
<1> QED BY <1>1, <1>4, <1>5, ReachKeeps

\* The step from outside is one of those that Turn knows.
LEMMA OutsideTurns ==
  ASSUME Provider \/ Console, NEW clouds, cloud \in clouds
  PROVE  /\ cloud' \in Turn(Table[kind], TRUE, clouds)
         /\ trouble' = trouble => cloud' \in Turn(Table[kind], trouble, clouds)
<1>1. cloud' \in Becomes(Table[kind], cloud)
  BY DEF Provider, Console, Becomes, does
<1>2. cloud' \in Turn(Table[kind], TRUE, clouds) BY <1>1 DEF Turn
<1>3. ASSUME trouble' = trouble, ~trouble PROVE cloud' \in Quietly(Table[kind], cloud)
  BY <1>1, <1>3 DEF Provider, Console, Quietly, does
<1>4. ASSUME trouble' = trouble PROVE cloud' \in Turn(Table[kind], trouble, clouds)
  BY <1>1, <1>3, <1>4 DEF Turn
<1> QED BY <1>2, <1>4

\* What others do between sessions is one of the walk's steps.
LEMMA OthersShow ==
  ASSUME NEW p, Known(p), Outside, NEW facts, Agrees(db', facts), s' = db',
         NEW may, cloud' \in may, trouble' = TRUE, NEW q,
         q = At(p.todo, p.open, facts, facts, World(may, p.world.reply, p.world.accepted, TRUE)),
         q \in Others(Table[kind], p)
  PROVE  Followed(p)
<1>1. PICK troubled : troubled = TRUE OBVIOUS
<1>2. PICK world : world = World(may, p.world.reply, p.world.accepted, troubled) OBVIOUS
<1>3. world.clouds = may /\ world.reply = p.world.reply /\ world.accepted = p.world.accepted
      /\ world.trouble = troubled
  BY <1>2, WorldFields
<1>4. q = At(p.todo, p.open, facts, facts, world) BY <1>1, <1>2, Zenon
<1>5. q.todo = p.todo /\ q.open = p.open /\ q.kept = facts /\ q.seen = facts /\ q.world = world
  BY ONLY <1>4 DEF At
<1>6. p.todo = todo /\ p.open = open /\ p.world.reply = reply /\ p.world.accepted = accepted
  BY DEF Known, Shows, Fits
<1>7. Fits(world)' BY <1>1, <1>3, <1>6 DEF Fits, Outside
<1>8. Shows(q)' BY <1>5, <1>6, <1>7 DEF Shows, Outside
<1> QED BY <1>8 DEF Followed, Follows

LEMMA OutsideFollows ==
  ASSUME NEW p, Known(p), p = Later(Table[kind], p), Provider \/ Console
  PROVE  Shows(p)' \/ Followed(p)
<1>1. Outside /\ UNCHANGED <<db, s>> /\ trouble' \in BOOLEAN BY DEF Provider, Console
<1>2. /\ Shows(p) /\ ~p.open /\ ~open /\ s = db /\ Agrees(db, p.kept) /\ cloud \in p.world.clouds
      /\ p.world.trouble = trouble /\ trouble \in BOOLEAN
  BY <1>1 DEF Known, Shows, Fits, Outside
<1>3. PICK may : may = Turn(Table[kind], TRUE, p.world.clouds) OBVIOUS
<1>4. cloud' \in may BY <1>2, <1>3, OutsideTurns
<1>5. CASE trouble' = trouble
  <2>1. cloud' \in p.world.clouds BY <1>2, <1>5, OutsideTurns, AllHappened
  <2>2. Fits(p.world)' BY <1>1, <1>2, <1>5, <2>1 DEF Known, Shows, Fits, Outside
  <2>3. Shows(p)' BY <1>1, <1>2, <2>2 DEF Shows, Outside
  <2> QED BY <2>3
<1>6. CASE trouble' # trouble
  <2>1. trouble' = TRUE BY <1>1, <1>2, <1>6 DEF Provider, Console
  <2> DEFINE q == At(p.todo, p.open, p.kept, p.kept,
                     World(may, p.world.reply, p.world.accepted, TRUE))
  <2>2. q \in Others(Table[kind], p) BY <1>2, <1>3, Zenon DEF Others
  <2> QED BY <1>1, <1>2, <1>4, <2>1, <2>2, OthersShow
<1> QED BY <1>5, <1>6

LEMMA DiscoveryFollows ==
  ASSUME NEW p, Known(p), Discovery
  PROVE  Followed(p)
<1>1. Outside /\ s' = db' /\ cloud' = cloud /\ trouble' = TRUE BY DEF Discovery
<1>2. ~p.open /\ Agrees(db, p.kept) /\ cloud \in p.world.clouds
  BY <1>1 DEF Known, Shows, Fits, Outside
<1>3. db.rows \in Nat /\ (db.rows > 0 <=> p.kept.rows = "some") /\ p.kept.rows \in {"none", "some"}
  BY <1>2, AgreesReads
<1>4. CASE cloud \in Answers /\ db.rows = 0 /\ db' = [db EXCEPT !.rows = 1]
  <2>1. PICK may : may = p.world.clouds \cap Answers OBVIOUS
  <2>2. PICK facts : facts = WithRows(p.kept, "some") OBVIOUS
  <2>3. p.kept.rows = "none" /\ may # {} /\ cloud' \in may BY <1>1, <1>2, <1>3, <1>4, <2>1
  <2>4. Agrees(db', facts) BY <1>2, <1>4, <2>2, RowsAgree
  <2> DEFINE q == At(p.todo, p.open, facts, facts,
                     World(may, p.world.reply, p.world.accepted, TRUE))
  <2>5. q \in Others(Table[kind], p) BY <1>2, <2>1, <2>2, <2>3, Zenon DEF Others
  <2> QED BY <1>1, <2>3, <2>4, <2>5, OthersShow
<1>5. CASE cloud = "none" /\ db.rows > 0 /\ db' = [db EXCEPT !.rows = 0]
  <2>1. PICK may : may = {"none"} OBVIOUS
  <2>2. PICK facts : facts = WithRows(p.kept, "none") OBVIOUS
  <2>3. p.kept.rows = "some" /\ "none" \in p.world.clouds /\ cloud' \in may
    BY <1>1, <1>2, <1>3, <1>5, <2>1
  <2>4. Agrees(db', facts) BY <1>2, <1>5, <2>2, RowsAgree
  <2> DEFINE q == At(p.todo, p.open, facts, facts,
                     World(may, p.world.reply, p.world.accepted, TRUE))
  <2>5. q \in Others(Table[kind], p) BY <1>2, <2>1, <2>2, <2>3, Zenon DEF Others
  <2> QED BY <1>1, <2>3, <2>4, <2>5, OthersShow
<1> QED BY <1>4, <1>5 DEF Discovery

LEMMA JanitorDeletes ==
  ASSUME NEW p, Known(p), Janitor
  PROVE  Deleted'
<1>1. ~open' /\ s' = db' /\ db' = [db EXCEPT !.status = "gone"] BY DEF Janitor, Outside
<1>2. IsView(db) BY DEF Known, Shows, Agrees
<1> QED BY <1>1, <1>2 DEF Deleted, IsView

\* Once its task is deleted, a function writes no more.
LEMMA DeletedStays ==
  ASSUME Deleted, Next
  PROVE  Deleted'
<1>1. ~open /\ s = db /\ db.status = "gone" /\ IsView(db) BY DEF Deleted
<1>2. ~RunTask /\ ~WaitTask /\ ~Janitor BY <1>1 DEF RunTask, WaitTask, Janitor
<1>3. \A ops : ~Next1(ops) BY <1>1 DEF Next1
<1>4. CASE OpenSession BY <1>1, <1>4 DEF OpenSession, Deleted
<1>5. CASE Answered \/ Refused \/ Lost
  <2>1. PICK script : Calling /\ Session(script) /\ db' = db
    BY <1>5 DEF Answered, Refused, Lost
  <2>2. Head1.op = "Call" BY <1>1, <2>1 DEF Calling
  <2> QED BY <1>1, <2>1, <2>2 DEF Session, Deleted
<1>6. CASE Provider \/ Console BY <1>1, <1>6 DEF Provider, Console, Outside, Deleted
<1>7. CASE Discovery
  <2>1. db' = [db EXCEPT !.rows = 1] \/ db' = [db EXCEPT !.rows = 0] BY <1>7 DEF Discovery
  <2>2. db'.status = db.status /\ IsView(db') BY <1>1, <2>1 DEF IsView
  <2> QED BY <1>1, <1>7, <2>2 DEF Discovery, Outside, Deleted
<1> QED
  BY <1>2, <1>3, <1>4, <1>5, <1>6, <1>7
  DEF Next, Worker, CloseSession, SetStatus, CommitChanges, ReturnFromTask, RaiseInTask,
      LookUp, Branch, Loop, SaveRow, DropRow, LogRow, NoteId, PointAtRow, RecallId

-----------------------------------------------------------------------------
(* The invariant, and what follows from it.                                *)

LEMMA LaterShows ==
  ASSUME NEW q, Shows(q)', NEW task
  PROVE  Shows(Later(task, q))'
<1>1. CASE q.open BY <1>1 DEF Later
<1>2. CASE ~q.open
  <2>1. PICK clouds : clouds = Reach(task, q.world.trouble, q.world.clouds) OBVIOUS
  <2>2. PICK world : world = World(clouds, q.world.reply, q.world.accepted, q.world.trouble)
    OBVIOUS
  <2>3. world.clouds = clouds /\ world.reply = q.world.reply
        /\ world.accepted = q.world.accepted /\ world.trouble = q.world.trouble
    BY <2>2 DEF World
  <2>4. PICK late : late = At(q.todo, q.open, q.kept, q.seen, world) OBVIOUS
  <2>5. Later(task, q) = late BY <1>2, <2>1, <2>2, <2>4, Zenon DEF Later
  <2>6. late.todo = q.todo /\ late.open = q.open /\ late.kept = q.kept /\ late.seen = q.seen
        /\ late.world = world
    BY ONLY <2>4 DEF At
  <2>7. q.world.clouds \subseteq clouds BY <2>1, ReachKeeps
  <2>8. Fits(world)' BY <2>3, <2>7 DEF Shows, Fits
  <2>9. Shows(late)' BY <2>6, <2>8 DEF Shows
  <2> QED BY <2>5, <2>9
<1> QED BY <1>1, <1>2

LEMMA InFlow ==
  ASSUME kind \in Kinds, NEW p \in Flow[kind]
  PROVE  /\ p = Later(Table[kind], p) /\ p.world.trouble \in BOOLEAN
         /\ p.kept \in Facts /\ p.seen \in Facts
         /\ \A q \in Follows(Table[kind], p) : Later(Table[kind], q) \in Flow[kind]
BY ScriptsAssumption DEF Closed

\* A step follows the walk, leaves the task where it is on it, or deletes it.
LEMMA StepFollows ==
  ASSUME kind \in Kinds, NEW p \in Flow[kind], Shows(p), Next
  PROVE  /\ Followed(p) \/ Shows(p)' \/ Deleted'
         /\ kind' = kind
<1>1. Known(p) /\ p = Later(Table[kind], p) BY InFlow DEF Known
<1>2. CASE Worker
  <2>1. Followed(p)
    BY <1>1, <1>2, TaskBegins, SessionBegins, SessionEnds, SetStatusFollows, CommitFollows,
       ReturnFollows, RaiseFollows, LookUpFollows, BranchFollows, LoopFollows, SaveRowFollows,
       DropRowFollows, LogRowFollows, NoteIdFollows, PointAtRowFollows, RecallIdFollows,
       AnsweredFollows, RefusedFollows, LostFollows
    DEF Worker
  <2>2. kind' = kind
    BY <1>2
    DEF Worker, RunTask, WaitTask, OpenSession, CloseSession, SetStatus, CommitChanges,
        ReturnFromTask, RaiseInTask, LookUp, Branch, Loop, SaveRow, DropRow, LogRow, NoteId,
        PointAtRow, RecallId, Answered, Refused, Lost, Store, Jump, Change, OnFailure
  <2> QED BY <2>1, <2>2
<1>3. CASE Provider \/ Console
  BY <1>1, <1>3, OutsideFollows DEF Provider, Console, Outside
<1>4. CASE Discovery BY <1>1, <1>4, DiscoveryFollows DEF Discovery, Outside
<1>5. CASE Janitor BY <1>1, <1>5, JanitorDeletes DEF Janitor, Outside
<1> QED BY <1>2, <1>3, <1>4, <1>5 DEF Next

\* The beginning of a task, but for the time that passes before it is taken.
LEMMA FirstShows ==
  ASSUME Init, NEW first, NEW facts, NEW clouds, NEW world, NEW no, no = FALSE,
         facts = IF does # "create" THEN NoFacts ELSE WithRows(NoFacts, "none"),
         clouds = {IF does # "create" THEN "stable" ELSE "none"},
         world = World(clouds, "none", no, no),
         first = At(<<>>, no, facts, facts, world)
  PROVE  Shows(first)
<1>1. todo = <<>> /\ open = FALSE /\ s = db BY DEF Init
<1>2. first.todo = <<>> /\ first.open = no /\ first.kept = facts /\ first.seen = facts
      /\ first.world = world
  BY DEF At
<1>3. NoFacts = [status |-> "PENDING", rows |-> "some", noted |-> no, named |-> no, log |-> {}]
  BY Zenon DEF NoFacts
<1>4. facts = [status |-> "PENDING", rows |-> IF does = "create" THEN "none" ELSE "some",
               noted |-> no, named |-> no, log |-> {}]
  BY <1>3 DEF WithRows
<1>5. db = [status |-> "PENDING", rows |-> IF does = "create" THEN 0 ELSE 1,
            noted |-> no, named |-> no, log |-> {}]
  BY Zenon DEF Init
<1>6. Agrees(db, facts) BY ONLY <1>4, <1>5 DEF Agrees, IsView, FactsOf, WithRows
<1>7. world.clouds = clouds /\ world.reply = "none" /\ world.accepted = no
      /\ world.trouble = no
  BY DEF World
<1>8. Fits(world) BY <1>7 DEF Fits, Init
<1> QED BY <1>1, <1>2, <1>6, <1>8 DEF Shows

LEMMA InitTask == Init => TaskInv
<1> SUFFICES ASSUME Init PROVE TaskInv OBVIOUS
<1>1. kind \in Kinds BY DEF Init
<1>2. PICK facts : facts = IF does # "create" THEN NoFacts ELSE WithRows(NoFacts, "none")
  OBVIOUS
<1>3. PICK clouds : clouds = {IF does # "create" THEN "stable" ELSE "none"} OBVIOUS
<1>4. PICK no : no = FALSE OBVIOUS
<1>5. PICK world : world = World(clouds, "none", no, no) OBVIOUS
<1>0. PICK first : first = At(<<>>, no, facts, facts, world) OBVIOUS
<1>6. Shows(first) BY <1>0, <1>2, <1>3, <1>4, <1>5, FirstShows, Zenon
<1>7. Origin(Table[kind]) = Later(Table[kind], first)
  BY <1>0, <1>2, <1>3, <1>4, <1>5, Zenon DEF Origin, does
<1>8. Shows(Origin(Table[kind]))
  <2>1. first.open = no BY <1>0 DEF At
  <2>2. PICK reach : reach = Reach(Table[kind], first.world.trouble, first.world.clouds) OBVIOUS
  <2>3. PICK later :
          later = World(reach, first.world.reply, first.world.accepted, first.world.trouble)
    OBVIOUS
  <2>4. PICK origin : origin = At(first.todo, first.open, first.kept, first.seen, later) OBVIOUS
  <2>5. Origin(Table[kind]) = origin
    BY <1>4, <1>7, <2>1, <2>2, <2>3, <2>4 DEF Later
  <2>6. /\ later.clouds = reach /\ later.reply = first.world.reply
        /\ later.accepted = first.world.accepted /\ later.trouble = first.world.trouble
    BY ONLY <2>3 DEF World
  <2>7. first.world.clouds \subseteq reach BY <2>2, ReachKeeps
  <2>8. Fits(later) BY <1>6, <2>6, <2>7 DEF Shows, Fits
  <2>9. /\ origin.todo = first.todo /\ origin.open = first.open /\ origin.kept = first.kept
        /\ origin.seen = first.seen /\ origin.world = later
    BY ONLY <2>4 DEF At
  <2> QED BY <1>6, <2>5, <2>8, <2>9 DEF Shows
<1>9. Origin(Table[kind]) \in Flow[kind] BY <1>1, ScriptsAssumption DEF Closed
<1> QED BY <1>1, <1>8, <1>9 DEF TaskInv

LEMMA SameTask ==
  ASSUME UNCHANGED vars
  PROVE  /\ (TaskInv <=> TaskInv')
         /\ \A p : Shows(p) <=> Shows(p)'
BY DEF vars, TaskInv, Deleted, Shows, Fits

LEMMA NextTask == TaskInv /\ [Next]_vars => TaskInv'
<1> SUFFICES ASSUME TaskInv, [Next]_vars PROVE TaskInv' OBVIOUS
<1>1. CASE UNCHANGED vars BY <1>1, SameTask
<1>2. CASE Next /\ Deleted
  <2>1. kind' = kind
    BY <1>2
    DEF Next, Worker, RunTask, WaitTask, OpenSession, CloseSession, SetStatus, CommitChanges,
        ReturnFromTask, RaiseInTask, LookUp, Branch, Loop, SaveRow, DropRow, LogRow, NoteId,
        PointAtRow, RecallId, Answered, Refused, Lost, Store, Jump, Change, OnFailure,
        Provider, Console, Discovery, Janitor, Outside
  <2> QED BY <1>2, <2>1, DeletedStays DEF TaskInv
<1>3. CASE Next /\ ~Deleted
  <2>1. PICK p \in Flow[kind] : Shows(p) BY <1>3 DEF TaskInv
  <2>2. kind \in Kinds BY DEF TaskInv
  <2>3. kind' = kind /\ (Followed(p) \/ Shows(p)' \/ Deleted')
    BY <1>3, <2>1, <2>2, StepFollows
  <2>4. CASE Followed(p)
    <3>1. PICK q \in Follows(Table[kind], p) : Shows(q)' BY <2>4 DEF Followed
    <3>2. Later(Table[kind], q) \in Flow[kind] BY <2>1, <2>2, <3>1, InFlow
    <3>3. Shows(Later(Table[kind], q))' BY <3>1, LaterShows
    <3> QED BY <2>2, <2>3, <3>2, <3>3 DEF TaskInv
  <2> QED BY <2>1, <2>2, <2>3, <2>4 DEF TaskInv
<1> QED BY <1>1, <1>2, <1>3

\* A function is always where a walk along its script has come to, and what is
\* known there is so: the inductive invariant.
THEOREM TaskInvariantCorrect == Spec => []TaskInv
BY InitTask, NextTask, PTL DEF Spec

\* A function that returns has given its task a status that the engine acts on,
\* unless it is one of those named; however its calls come out.
THEOREM TasksEndDeclaredCorrect == Spec => []TasksEndDeclared
<1>1. TaskInv => TasksEndDeclared
  <2> SUFFICES ASSUME TaskInv, kind \notin LeavesRunning, Idle PROVE EndsDeclared
    BY DEF TasksEndDeclared, EndsDeclared
  <2>1. CASE Deleted BY <2>1 DEF Deleted, EndsDeclared
  <2>2. CASE ~Deleted
    <3>1. PICK p \in Flow[kind] : Shows(p) BY <2>2 DEF TaskInv
    <3>2. p.todo = <<>> /\ db.status = p.kept.status BY <3>1, AgreesReads DEF Shows, Idle
    <3>3. Declares(kind) BY ScriptsAssumption DEF TaskInv
    <3> QED BY <3>1, <3>2, <3>3 DEF Declares, EndsDeclared
  <2> QED BY <2>1, <2>2
<1> QED BY <1>1, TaskInvariantCorrect, PTL

\* A task fails only after trouble: a call that was not answered well, something it
\* needs that is missing, or others that were at its resource before it.
THEOREM FailuresHaveCauseCorrect == Spec => []FailuresHaveCause
<1>1. TaskInv => FailuresHaveCause
  <2> SUFFICES ASSUME TaskInv, kind \notin FalseAlarms, db.status = "FAILED" PROVE trouble
    BY DEF FailuresHaveCause, NoFalseAlarm
  <2>1. ~Deleted BY DEF Deleted
  <2>2. PICK p \in Flow[kind] : Shows(p) BY <2>1 DEF TaskInv
  <2>3. p.kept.status = "FAILED" /\ p.world.trouble = trouble
    BY <2>2, AgreesReads DEF Shows, Fits
  <2>4. FailsByTrouble(kind) BY ScriptsAssumption DEF TaskInv
  <2>5. p.world.trouble BY <2>2, <2>3, <2>4 DEF FailsByTrouble
  <2> QED BY <2>3, <2>5, Zenon
<1> QED BY <1>1, TaskInvariantCorrect, PTL

\* A step that changes the status follows the walk, or deletes the task.
LEMMA StatusFollows ==
  ASSUME TaskInv, Next, db'.status # db.status, db'.status # "gone"
  PROVE  /\ kind \in Kinds
         /\ \E p \in Flow[kind] : Shows(p) /\ \E q \in Follows(Table[kind], p) : Shows(q)'
<1>1. ~Deleted' BY DEF Deleted
<1>2. ~Deleted BY <1>1, DeletedStays
<1>3. kind \in Kinds BY DEF TaskInv
<1>4. PICK p \in Flow[kind] : Shows(p) BY <1>2 DEF TaskInv
<1>5. ~Shows(p)' BY <1>4, AgreesReads DEF Shows
<1>6. Followed(p) BY <1>1, <1>3, <1>4, <1>5, StepFollows
<1> QED BY <1>3, <1>4, <1>6 DEF Followed

\* A verdict that others may have read is not replaced by the other.
THEOREM VerdictsStandCorrect == Spec => VerdictsStand
<1>1. ASSUME TaskInv, [Next]_vars PROVE [kind \notin RevisesVerdict => VerdictStands]_vars
  <2> SUFFICES ASSUME Next, kind \notin RevisesVerdict, db.status \in Verdicts,
                      db'.status # db.status, db'.status # "gone"
               PROVE  FALSE
    BY <1>1 DEF VerdictStands
  <2>1. PICK p \in Flow[kind] : Shows(p) /\ \E q \in Follows(Table[kind], p) : Shows(q)'
    BY <1>1, StatusFollows
  <2>2. PICK q \in Follows(Table[kind], p) : Shows(q)' BY <2>1
  <2>3. p.kept.status = db.status /\ q.kept.status = db'.status
    BY <2>1, <2>2, AgreesReads DEF Shows
  <2>4. StandsBy(kind) BY <1>1, ScriptsAssumption DEF TaskInv
  <2> QED BY <2>1, <2>2, <2>3, <2>4 DEF StandsBy
<1> QED BY <1>1, TaskInvariantCorrect, PTL DEF Spec, VerdictsStand

\* A task that comes to be SUCCESSFUL does so along the walk.
LEMMA SuccessFollows ==
  ASSUME TaskInv, Next, Reported("SUCCESSFUL")
  PROVE  /\ kind \in Kinds
         /\ \E p \in Flow[kind] : \E q \in Follows(Table[kind], p) :
              /\ Succeeded(p, q) /\ Agrees(db, p.kept) /\ Agrees(db', q.kept) /\ q.todo = todo'
              /\ Fits(p.world)
<1>1. db'.status # db.status /\ db'.status # "gone" BY DEF Reported
<1>2. kind \in Kinds BY DEF TaskInv
<1>3. PICK p \in Flow[kind] : Shows(p) /\ \E q \in Follows(Table[kind], p) : Shows(q)'
  BY <1>1, StatusFollows
<1>4. PICK q \in Follows(Table[kind], p) : Shows(q)' BY <1>3
<1>5. Agrees(db, p.kept) /\ Agrees(db', q.kept) /\ q.todo = todo' /\ Fits(p.world)
  BY <1>3, <1>4 DEF Shows
<1>6. Succeeded(p, q) BY <1>5, AgreesReads DEF Reported, Succeeded
<1> QED BY <1>2, <1>5, <1>6

\* A creation is SUCCESSFUL only with a row in the database, which its task names.
THEOREM CreationsAreRecordedCorrect == Spec => CreationsAreRecorded
<1>1. ASSUME TaskInv, [Next]_vars PROVE [kind \notin Unnamed => CreatedIsRecorded]_vars
  <2> SUFFICES ASSUME Next, kind \notin Unnamed, Reported("SUCCESSFUL"), does = "create"
               PROVE  db'.rows > 0 /\ (todo' = <<>> => db'.named)
    BY <1>1 DEF CreatedIsRecorded
  <2>0. PICK p \in Flow[kind] : \E q \in Follows(Table[kind], p) :
          Succeeded(p, q) /\ Agrees(db', q.kept) /\ q.todo = todo'
    BY <1>1, SuccessFollows
  <2>1. PICK q \in Follows(Table[kind], p) :
          Succeeded(p, q) /\ Agrees(db', q.kept) /\ q.todo = todo'
    BY <2>0
  <2>2. Records(kind) BY <1>1, ScriptsAssumption DEF TaskInv
  <2>3. q.kept.rows = "some" /\ (q.todo = <<>> => q.kept.named)
    BY <2>1, <2>2 DEF Records, does
  <2>4. db'.rows > 0 /\ db'.named = q.kept.named BY <2>1, <2>3, AgreesReads
  <2> QED BY <2>1, <2>3, <2>4, Zenon
<1> QED BY <1>1, TaskInvariantCorrect, PTL DEF Spec, CreationsAreRecorded

\* A creation is SUCCESSFUL only if the provider has accepted it, and has not
\* reported since that it failed.
THEOREM SuccessesAreRealCorrect == Spec => SuccessesAreReal
<1>1. ASSUME TaskInv, [Next]_vars PROVE [kind \notin RecordsFailure => SuccessIsReal]_vars
  <2> SUFFICES ASSUME Next, kind \notin RecordsFailure, Reported("SUCCESSFUL"), does = "create"
               PROVE  accepted /\ cloud # "failed"
    BY <1>1 DEF SuccessIsReal
  <2>1. PICK p \in Flow[kind] :
          Fits(p.world) /\ \E q \in Follows(Table[kind], p) : Succeeded(p, q)
    BY <1>1, SuccessFollows
  <2>2. Creates(kind) BY <1>1, ScriptsAssumption DEF TaskInv
  <2>3. p.world.accepted /\ "failed" \notin p.world.clouds
    BY <2>1, <2>2 DEF Creates, does
  <2>4. cloud \in p.world.clouds /\ p.world.accepted = accepted BY <2>1 DEF Fits
  <2> QED BY <2>3, <2>4, Zenon
<1> QED BY <1>1, TaskInvariantCorrect, PTL DEF Spec, SuccessesAreReal

\* A deletion is SUCCESSFUL only over a resource that the provider no longer has or
\* is about to have no more, and leaves no row of it.
THEOREM DeletionsAreDoneCorrect == Spec => DeletionsAreDone
<1>1. ASSUME TaskInv, [Next]_vars PROVE [kind \notin RevisesVerdict => DeletedIsGone]_vars
  <2> SUFFICES ASSUME Next, kind \notin RevisesVerdict, Reported("SUCCESSFUL"), does = "delete"
               PROVE  cloud \in {"none", "deleting"} /\ db'.rows = 0
    BY <1>1 DEF DeletedIsGone
  <2>0. PICK p \in Flow[kind] : \E q \in Follows(Table[kind], p) :
          Succeeded(p, q) /\ Agrees(db', q.kept) /\ Fits(p.world)
    BY <1>1, SuccessFollows
  <2>1. PICK q \in Follows(Table[kind], p) :
          Succeeded(p, q) /\ Agrees(db', q.kept) /\ Fits(p.world)
    BY <2>0
  <2>2. Deletes(kind) BY <1>1, ScriptsAssumption DEF TaskInv
  <2>3. p.world.clouds \subseteq {"none", "deleting"} /\ q.kept.rows = "none"
    BY <2>1, <2>2 DEF Deletes, does
  <2>4. cloud \in p.world.clouds BY <2>1 DEF Fits
  <2>5. db'.rows = 0 BY <2>1, <2>3, AgreesReads
  <2> QED BY <2>3, <2>4, <2>5
<1> QED BY <1>1, TaskInvariantCorrect, PTL DEF Spec, DeletionsAreDone

\* What a task has recorded, or removed, is in the log by which discovery is told.
THEOREM TasksAreLoggedCorrect == Spec => TasksAreLogged
<1>1. ASSUME TaskInv, [Next]_vars PROVE [kind \notin Unlogged => ChangesAreLogged]_vars
  <2> SUFFICES ASSUME Next, kind \notin Unlogged, Reported("SUCCESSFUL")
               PROVE  CASE does = "create" -> "ADDED" \in db'.log
                        [] does = "delete" -> "DELETED" \in db'.log \/ db.rows = 0
                        [] OTHER -> TRUE
    BY <1>1 DEF ChangesAreLogged
  <2>0. PICK p \in Flow[kind] : \E q \in Follows(Table[kind], p) :
          Succeeded(p, q) /\ Agrees(db, p.kept) /\ Agrees(db', q.kept)
    BY <1>1, SuccessFollows
  <2>1. PICK q \in Follows(Table[kind], p) :
          Succeeded(p, q) /\ Agrees(db, p.kept) /\ Agrees(db', q.kept)
    BY <2>0
  <2>2. LogsIt(kind) BY <1>1, ScriptsAssumption DEF TaskInv
  <2>3. db'.log = q.kept.log /\ db.rows \in Nat /\ (p.kept.rows = "none" => db.rows = 0)
    BY <2>1, AgreesReads
  <2>4. CASE does = "create"
    <3>1. "ADDED" \in q.kept.log BY <2>1, <2>2, <2>4 DEF LogsIt, does
    <3> QED BY <2>3, <2>4, <3>1
  <2>5. CASE does = "delete"
    <3>1. "DELETED" \in q.kept.log \/ p.kept.rows = "none" BY <2>1, <2>2, <2>5 DEF LogsIt, does
    <3> QED BY <2>3, <2>5, <3>1
  <2>6. CASE does \notin {"create", "delete"} BY <2>6
  <2> QED BY <2>4, <2>5, <2>6
<1> QED BY <1>1, TaskInvariantCorrect, PTL DEF Spec, TasksAreLogged
-----------------------------------------------------------------------------
(* Every variable has its type.                                            *)

Entries == {"ADDED", "DELETED", "UPDATED"}
Typed(view) == view \in Views
Sessions == open \in BOOLEAN /\ Typed(db) /\ Typed(s)
Outsiders ==
  /\ cloud \in Clouds /\ reply \in Clouds \cup {"gone", "refused"}
  /\ accepted \in BOOLEAN /\ left \in 0..Items /\ trouble \in BOOLEAN

\* The statuses and entries that the scripts write are known from the walk.
Words ==
  /\ db.status \in Statuses /\ s.status \in Statuses
  /\ open => s.log \subseteq Entries
LEMMA WordsKnown == TaskInv => Words
<1> SUFFICES ASSUME TaskInv PROVE Words OBVIOUS
<1>1. CASE Deleted BY <1>1 DEF Deleted, Statuses, Words
<1>2. CASE ~Deleted
  <2>1. PICK p \in Flow[kind] : Shows(p) BY <1>2 DEF TaskInv
  <2>2. p.kept \in Facts /\ p.seen \in Facts BY <2>1, InFlow DEF TaskInv
  <2>3. /\ db.status = p.kept.status /\ s.status = p.seen.status /\ s.log = p.seen.log
    BY <2>1, AgreesReads DEF Shows
  <2> QED BY <2>2, <2>3 DEF Facts, Entries, Words
<1> QED BY <1>1, <1>2

LEMMA ViewFields ==
  ASSUME NEW view, Typed(view)
  PROVE  /\ \A status \in Statuses : Typed([view EXCEPT !.status = status])
         /\ \A status : [view EXCEPT !.status = status].status = status
         /\ \A n \in 0..MaxRows : Typed([view EXCEPT !.rows = n])
         /\ \A flag \in BOOLEAN :
              Typed([view EXCEPT !.noted = flag]) /\ Typed([view EXCEPT !.named = flag])
         /\ \A log : LET new == [view EXCEPT !.log = log]
                     IN  new.log = log /\ (log \subseteq Entries => Typed(new))
BY DEF Typed, Views, Entries

LEMMA GoesTyped ==
  ASSUME NEW script, NEW view, GoOn(script, view), Typed(db'), open' => Typed(view)
  PROVE  Sessions'
<1>1. open' \in BOOLEAN BY DEF GoOn
<1>2. Typed(s') BY DEF GoOn
<1> QED BY <1>1, <1>2 DEF Sessions, Typed

LEMMA StoreTyped ==
  ASSUME NEW script, NEW view, Store(view, script), Typed(view)
  PROVE  Sessions'
BY GoesTyped DEF Store

LEMMA StatusTyped ==
  ASSUME Words', NEW script, NEW view, Typed(view), NEW status,
         Store([view EXCEPT !.status = status], script)
  PROVE  Sessions'
<1>1. db' = [view EXCEPT !.status = status] /\ db'.status \in Statuses
  BY ViewFields DEF Store, Words
<1> QED BY <1>1, ViewFields, StoreTyped

LEMMA ChangeTyped ==
  ASSUME NEW view, Change(view), Typed(db), open' => Typed(view)
  PROVE  Sessions'
BY GoesTyped DEF Change

LEMMA JumpTyped ==
  ASSUME Sessions, NEW script, Jump(script)
  PROVE  Sessions'
BY GoesTyped DEF Jump, Sessions

LEMMA FailureTyped ==
  ASSUME Sessions, NEW t, OnFailure(t)
  PROVE  Sessions'
<1>1. Typed([db EXCEPT !.status = "FAILED"]) BY ViewFields DEF Sessions, Statuses
<1> QED BY <1>1, StoreTyped DEF OnFailure, Sessions

LEMMA WorkerTyped ==
  ASSUME Sessions, Words, Words', Worker
  PROVE  Sessions'
<1>0. PICK op : op = Head1 OBVIOUS
<1>1. Typed(db) /\ Typed(s) BY DEF Sessions
<1>2. CASE RunTask \/ WaitTask BY <1>1, <1>2, StatusTyped DEF RunTask, WaitTask
<1>3. CASE OpenSession BY <1>3 DEF OpenSession, Sessions, Typed
<1>4. CASE CloseSession BY <1>4 DEF CloseSession, Sessions, Typed
<1>5. CASE SetStatus
  <2>1. Change([s EXCEPT !.status = op.arg]) BY <1>0, <1>5 DEF SetStatus
  <2>2. ASSUME open' PROVE Typed([s EXCEPT !.status = op.arg])
    <3>1. s' = [s EXCEPT !.status = op.arg] BY <2>1, <2>2 DEF Change, GoOn
    <3>2. op.arg \in Statuses BY <1>1, <3>1, ViewFields DEF Words
    <3> QED BY <1>1, <3>2, ViewFields
  <2> QED BY <1>1, <2>1, <2>2, ChangeTyped
<1>6. CASE CommitChanges
  <2>1. CASE Store(s, Rest) BY <1>1, <2>1, StoreTyped
  <2>2. CASE \E script : Store([s EXCEPT !.status = op.arg], script)
    BY <1>1, <2>2, StatusTyped
  <2> QED BY <1>0, <1>6, <2>1, <2>2 DEF CommitChanges
<1>7. CASE LookUp
  <2>1. CASE Store([s EXCEPT !.status = "FAILED"], <<>>) BY <1>1, <2>1, StatusTyped
  <2>2. CASE UNCHANGED db /\ GoOn(op.body \o Rest, s) BY <1>1, <2>2, GoesTyped
  <2> QED BY <1>0, <1>7, <2>1, <2>2, JumpTyped, FailureTyped DEF LookUp
<1>8. CASE Loop
  <2>1. PICK script : UNCHANGED db /\ GoOn(script, s) BY <1>8 DEF Loop, Jump
  <2> QED BY <1>1, <2>1, GoesTyped
<1>9. CASE SaveRow
  <2>1. CASE OnFailure(trouble) BY <2>1, FailureTyped
  <2>2. CASE Change([s EXCEPT !.rows = IF @ < MaxRows THEN @ + 1 ELSE @])
    <3>1. PICK n : n = IF s.rows < MaxRows THEN s.rows + 1 ELSE s.rows OBVIOUS
    <3>2. n \in 0..MaxRows BY <1>1, <3>1, BoundsAssumption DEF Typed, Views
    <3>3. Typed([s EXCEPT !.rows = n]) /\ Change([s EXCEPT !.rows = n])
      BY <1>1, <2>2, <3>1, <3>2, ViewFields
    <3> QED BY <1>1, <3>3, ChangeTyped
  <2> QED BY <1>9, <2>1, <2>2 DEF SaveRow
<1>10. CASE DropRow
  <2>1. PICK n \in 0..MaxRows : n = 0 BY BoundsAssumption
  <2> QED BY <1>1, <1>10, <2>1, ViewFields, ChangeTyped DEF DropRow
<1>11. CASE LogRow
  <2>1. PICK view : view = [s EXCEPT !.log = @ \cup {op.arg}] OBVIOUS
  <2>2. Change(view) BY <1>0, <1>11, <2>1 DEF LogRow
  <2>3. ASSUME open' PROVE Typed(view)
    <3>1. s' = view BY <2>2, <2>3 DEF Change, GoOn
    <3>2. view.log \subseteq Entries BY <2>3, <3>1 DEF Words
    <3>3. view.log = s.log \cup {op.arg} BY <1>1, <2>1, ViewFields
    <3> QED BY <1>1, <2>1, <3>2, <3>3, ViewFields
  <2> QED BY <1>1, <2>2, <2>3, ChangeTyped
<1>12. CASE NoteId \/ PointAtRow
  <2>1. PICK flag \in BOOLEAN : flag = TRUE OBVIOUS
  <2>2. Typed([s EXCEPT !.noted = flag]) /\ Typed([s EXCEPT !.named = flag])
    BY <1>1, ViewFields
  <2>3. Typed([s EXCEPT !.noted = TRUE]) /\ Typed([s EXCEPT !.named = TRUE])
    BY <2>1, <2>2, Zenon
  <2> QED BY <1>1, <1>12, <2>3, ChangeTyped, Zenon DEF NoteId, PointAtRow
<1>13. CASE Answered \/ Refused \/ Lost
  <2>1. PICK script : Session(script) /\ UNCHANGED db BY <1>13 DEF Answered, Refused, Lost
  <2> QED BY <1>1, <2>1 DEF Session, Sessions, Typed
<1>14. CASE ReturnFromTask \/ RaiseInTask \/ Branch \/ RecallId
  BY <1>14, JumpTyped, FailureTyped DEF ReturnFromTask, RaiseInTask, Branch, RecallId
<1> QED
  BY <1>2, <1>3, <1>4, <1>5, <1>6, <1>7, <1>8, <1>9, <1>10, <1>11, <1>12, <1>13, <1>14
  DEF Worker

LEMMA SessionsTyped ==
  ASSUME Sessions, Words, Words', Next
  PROVE  Sessions'
<1>1. Typed(db) /\ Typed(s) /\ open \in BOOLEAN BY DEF Sessions
<1>2. CASE Worker BY <1>2, WorkerTyped
<1>3. CASE Provider \/ Console
  BY <1>1, <1>3 DEF Provider, Console, Outside, Sessions, Typed
<1>4. CASE Discovery
  <2>1. PICK n \in 0..MaxRows : db' = [db EXCEPT !.rows = n]
    BY <1>4, BoundsAssumption DEF Discovery
  <2> QED BY <1>1, <1>4, <2>1, ViewFields DEF Discovery, Outside, Sessions
<1>5. CASE Janitor
  <2>1. "gone" \in Statuses BY DEF Statuses
  <2> QED BY <1>1, <1>5, <2>1, ViewFields DEF Janitor, Outside, Sessions
<1> QED BY <1>2, <1>3, <1>4, <1>5 DEF Next

LEMMA OutcomeTyped ==
  ASSUME NEW task, NEW api, NEW c \in Clouds, NEW r \in Clouds \cup {"gone", "refused"},
         NEW o \in Outcome(task, api, c, r)
  PROVE  o[1] \in Clouds \cup {"gone", "refused"} /\ o[2] \in Clouds
BY DEF Outcome, Clouds

LEMMA OutsidersTyped ==
  ASSUME Outsiders, Next
  PROVE  Outsiders'
<1>0. Items \in Nat BY BoundsAssumption
<1>1. CASE Answered
  <2>1. PICK o \in Outcome(Table[kind], Head1.arg, cloud, reply) :
          /\ reply' = o[1] /\ cloud' = o[2]
          /\ accepted' = (accepted \/ (Head1.arg = does /\ o[1] # "gone"))
          /\ trouble' = (trouble \/ Alarming(Table[kind], Head1.arg, o[1]))
    BY <1>1 DEF Answered
  <2>2. reply' \in Clouds \cup {"gone", "refused"} /\ cloud' \in Clouds
    BY <2>1, OutcomeTyped DEF Outsiders
  <2>3. accepted' \in BOOLEAN /\ trouble' \in BOOLEAN BY <2>1
  <2>4. left' = left BY <1>1 DEF Answered
  <2> QED BY <2>2, <2>3, <2>4 DEF Outsiders
<1>2. CASE Refused BY <1>2 DEF Refused, Outsiders
<1>3. CASE Lost
  <2>1. cloud' \in Clouds BY <1>3, OutcomeTyped DEF Lost, Outsiders
  <2> QED BY <1>3, <2>1 DEF Lost, Outsiders
<1>4. CASE Loop
  <2>1. left' \in 0..Items BY <1>0, <1>4 DEF Loop, Jump, Outsiders
  <2> QED BY <1>4, <2>1 DEF Loop, Jump, Outsiders
<1>5. CASE Provider \/ Console \/ Discovery \/ Janitor
  BY <1>5 DEF Provider, Console, Discovery, Janitor, Outside, Outsiders, Clouds
<1>6. CASE UNCHANGED <<cloud, reply, accepted, left>> /\ trouble' \in BOOLEAN
  BY <1>6 DEF Outsiders
<1>7. CASE RunTask \/ WaitTask \/ OpenSession \/ CloseSession \/ SetStatus \/ CommitChanges
  BY <1>6, <1>7
  DEF RunTask, WaitTask, OpenSession, CloseSession, SetStatus, CommitChanges, Store, Change,
      Outsiders
<1>8. CASE ReturnFromTask \/ RaiseInTask \/ LookUp \/ Branch \/ RecallId
  BY <1>6, <1>8
  DEF ReturnFromTask, RaiseInTask, LookUp, Branch, RecallId, Jump, OnFailure, Store, Outsiders
<1>9. CASE SaveRow \/ DropRow \/ LogRow \/ NoteId \/ PointAtRow
  BY <1>6, <1>9
  DEF SaveRow, DropRow, LogRow, NoteId, PointAtRow, Change, OnFailure, Store, Outsiders
<1> QED BY <1>1, <1>2, <1>3, <1>4, <1>5, <1>7, <1>8, <1>9 DEF Next, Worker

\* Every variable has its type: the scripts write the engine's statuses and the log's
\* entries only.
THEOREM TypeCorrect == Spec => []TypeOK
<1> DEFINE Inv == Sessions /\ Outsiders
<1>1. ASSUME Init PROVE Inv
  <2>1. PICK no \in BOOLEAN : no = FALSE OBVIOUS
  <2>2. db = [status |-> "PENDING", rows |-> IF does = "create" THEN 0 ELSE 1,
              noted |-> no, named |-> no, log |-> {}]
    BY <1>1, <2>1, Zenon DEF Init
  <2>3. Typed(db) BY <2>2, BoundsAssumption DEF Typed, Views, Statuses
  <2>4. open \in BOOLEAN /\ s = db BY <1>1 DEF Init
  <2>5. accepted \in BOOLEAN /\ trouble \in BOOLEAN BY <1>1 DEF Init
  <2>6. cloud \in Clouds /\ reply \in Clouds /\ left \in 0..Items
    BY <1>1, BoundsAssumption DEF Init, Clouds
  <2>7. Outsiders BY <2>5, <2>6 DEF Outsiders
  <2> QED BY <2>3, <2>4, <2>7 DEF Sessions
<1>2. ASSUME TaskInv, TaskInv', Words, Words', Inv, [Next]_vars PROVE Inv'
  <2>1. CASE UNCHANGED vars BY <1>2, <2>1 DEF vars, Sessions, Outsiders, Typed
  <2> QED BY <1>2, <2>1, SessionsTyped, OutsidersTyped
<1>3. TaskInv /\ Inv => TypeOK BY DEF TaskInv, Sessions, Outsiders, Typed, TypeOK
<1> QED BY <1>1, <1>2, <1>3, WordsKnown, TaskInvariantCorrect, PTL DEF Spec
=============================================================================

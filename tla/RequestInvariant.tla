-------------------------- MODULE RequestInvariant --------------------------
(***************************************************************************)
(* Why what a request composes is run whole, and nothing stays behind of   *)
(* one that is refused: an inductive invariant of module Requests.  The    *)
(* facts of RequestFlow tell what the session holds while the script is    *)
(* run; the executor needs of it only that it is well formed, and that     *)
(* nothing is added to what has been committed.  A second invariant,       *)
(* ContainerInv, tells why containers are deleted last.                    *)
(***************************************************************************)
EXTENDS MCRequests

\* Of the requests that compose whole roots.
Whole == request \notin ComposesLate

-----------------------------------------------------------------------------
(* The session.                                                            *)

Listed(s) == s \in Seq({s[i] : i \in DOMAIN s})
IsSession(s) ==
  /\ DOMAIN s = DOMAIN Nothing
  /\ Listed(s.roots) /\ s.added \in Nat /\ s.added <= Len(s.roots)

\* In every set of tasks there is one that waits for none of the others.
Orderable(tasks, edges) ==
  \A T \in SUBSET tasks : T # {} =>
    \E t \in T : \A e \in edges : e[2] = t => e[1] \notin T

\* A task belongs to a root, an edge to the tasks of one root.
Composed(s) ==
  /\ \A r \in DOMAIN s.roots : DOMAIN s.roots[r] = {"var", "type", "parent"}
  /\ \A t \in DOMAIN s.tasks : s.tasks[t].root \in DOMAIN s.roots
  /\ \A e \in s.edges :
       /\ {e[1], e[2]} \subseteq DOMAIN s.tasks
       /\ s.tasks[e[1]].root = s.tasks[e[2]].root
  /\ Orderable(DOMAIN s.tasks, s.edges)

\* What is committed is what the session holds of the first roots.
Known(r) == r <= Len(db.roots)
Kept ==
  /\ Len(db.roots) <= view.added /\ view.added <= Len(view.roots)
  /\ \A r \in DOMAIN db.roots : db.roots[r] = view.roots[r]
  /\ DOMAIN db.tasks = {t \in DOMAIN view.tasks : Known(view.tasks[t].root)}
  /\ \A t \in DOMAIN db.tasks : db.tasks[t] = view.tasks[t]
  /\ db.edges = {e \in view.edges : Known(view.tasks[e[1]].root)}

\* A root that is not committed waits for none that is.
WaitsForNew ==
  \A r \in DOMAIN view.roots :
    ~Known(r) => view.roots[r].parent = 0 \/ ~Known(view.roots[r].parent)

-----------------------------------------------------------------------------
(* The request.                                                            *)

\* What the facts say of the session.
RootIsNew(v) == RootsOf(v) # {} /\ Max(RootsOf(v)) \in RootsOf(v) /\ ~Known(Max(RootsOf(v)))
TaskIsLast(v) ==
  TasksOf(v) # {} /\ TaskOf(v) \in TasksOf(v) /\ view.tasks[TaskOf(v)].root = Len(view.roots)
TasksOn(r) == {t \in DOMAIN view.tasks : view.tasks[t].root = r}
Hold(facts) ==
  /\ facts.added \in {"none", "some", "all"}
  /\ facts.added = "none" => view.added = Len(db.roots)
  /\ facts.added = "all" => view.added = Len(view.roots)
  /\ facts.roots # {} => ~Known(Len(view.roots))
  /\ \A v \in facts.roots : RootIsNew(v)
  /\ facts.tasks # {} => facts.roots # {}
  /\ facts.roots # {} /\ facts.tasks = {} => TasksOn(Len(view.roots)) = {}
  /\ \A v \in facts.tasks : TaskIsLast(v)
  /\ facts.ends \subseteq facts.tasks
  /\ \A v \in facts.ends : \A e \in view.edges : e[1] # TaskOf(v)

Matches(p) ==
  /\ p[1] = todo /\ DOMAIN p[2] = DOMAIN NoFacts
  /\ ~p[2].committed => db = Nothing
  /\ Whole => Hold(p[2])

Places ==
  /\ request \in DOMAIN Table
  /\ answer \in {"none", "accepted", "refused", "error"}
  /\ IsSession(view) /\ IsSession(db)

\* As long as it goes on, the request is where some walk is.
OnItsWay ==
  ~Idle =>
    /\ answer = "none" /\ Listed(view.tasks)
    /\ \E p \in Flow[request] : Matches(p)
    /\ Whole => Kept /\ WaitsForNew

KindsKnown(s) == \A t \in DOMAIN s.tasks : s.tasks[t].kind \in Mapper
AllKnown == request \notin ComposesUnknown => KindsKnown(view) /\ KindsKnown(db)

Composing == Whole => Composed(view) /\ Composed(db)

-----------------------------------------------------------------------------
(* The executor.                                                           *)

Numbered ==
  /\ DOMAIN statuses = DOMAIN db.tasks /\ DOMAIN verdicts = DOMAIN db.roots
  /\ \A t \in DOMAIN statuses : statuses[t] \in TaskStatuses
  /\ focus \subseteq DOMAIN statuses
  /\ \A t \in DOMAIN statuses : statuses[t] = "RUNNING" => t \in focus

VerdictOn(t) == verdicts[db.tasks[t].root]

\* No task of a root that is not running yet has been touched.
Untouched ==
  \A t \in DOMAIN statuses : VerdictOn(t) \in {"PENDING", "ON_HOLD"} =>
    statuses[t] = "PENDING" /\ t \notin focus

\* A task of a running root that has not started waits for one that is not
\* done, or of which the executor has not seen that it is.
Awaits ==
  \A t \in DOMAIN statuses : VerdictOn(t) = "RUNNING" /\ statuses[t] = "PENDING" =>
    \E e \in db.edges : e[2] = t /\ (statuses[e[1]] # "SUCCESSFUL" \/ e[1] \in focus)

Runs == Whole => Numbered /\ Untouched /\ Awaits /\ AllRan

-----------------------------------------------------------------------------
RequestInv ==
  /\ Places /\ OnItsWay /\ AllKnown /\ Composing /\ Runs
  /\ RefusedLeavesNothing

-----------------------------------------------------------------------------
(* Why containers are deleted last.                                        *)

\* u is t, or t waits for it over any number of edges: u is in every set that
\* t is in and that lacks nothing its tasks wait for.
Backed(s, T) == \A e \in s.edges : e[2] \in T => e[1] \in T
Earlier(s, u, t) == \A T \in SUBSET DOMAIN s.tasks : t \in T /\ Backed(s, T) => u \in T

\* A container waits for all of its root.
Encloses(s) ==
  \A t, u \in DOMAIN s.tasks :
    s.tasks[t].kind \in Containers /\ s.tasks[u].root = s.tasks[t].root => Earlier(s, u, t)
Uncontained(s) == \A t \in DOMAIN s.tasks : s.tasks[t].kind \notin Containers
Closing(s) == IF Without(request, Containers) THEN Uncontained(s) ELSE Encloses(s)

\* A task has been started only when all it waits for is done.
InTurns == \A e \in db.edges : statuses[e[2]] # "PENDING" => statuses[e[1]] = "SUCCESSFUL"

ContainerInv == Closing(view) /\ Closing(db) /\ (Whole => InTurns)
=============================================================================

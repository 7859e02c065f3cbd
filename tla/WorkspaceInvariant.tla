------------------------ MODULE WorkspaceInvariant ------------------------
(***************************************************************************)
(* Why the verdict of workspace_executor is right: an inductive invariant  *)
(* of module Workspace.  All but the types speak of behaviours in which no *)
(* request has met the engine so far.                                      *)
(***************************************************************************)
EXTENDS Workspace

Runs == {"PENDING", "INITIATED", "RUNNING"}

-----------------------------------------------------------------------------
(* Types, as far as the argument needs them.                               *)

IsRow(row) ==
    /\ DOMAIN row = DOMAIN Absent
    /\ row.status \in RootStatuses /\ row.here \in BOOLEAN /\ row.in_focus \in BOOLEAN
IsTable(f) == IsFiniteSet(DOMAIN f) /\ \A p \in DOMAIN f : IsRow(f[p])

\* The resources a request asks for, each in its sections.
Turns(by, asked) ==
    {turn \in (1..Len(Sections(by))) \X asked : Kind(turn[2]) = Sections(by)[turn[1]][1]}

\* What a PATCH asks for is listed, or was not asked for at first.
RequestOK ==
    /\ form \in Forms /\ served \in Nat
    /\ DOMAIN request = DOMAIN NoRequest
    /\ DOMAIN request.made \subseteq Resources /\ DOMAIN request.late \subseteq Resources
    /\ request.asked \subseteq Resources
    /\ request.todo \subseteq Turns(request.by, request.asked)
    /\ request.pc \in {"compose", "stale"} => request.asked \in {form.asked, form.again}
    /\ request.pc = "compose" /\ request.by = "update" =>
          \A r \in request.asked : r \in lists \/ r \notin form.asked
    /\ request.pc # "idle" \/ served > 0 => lists \in {form.asked, form.again}

ExecutorOK ==
    /\ DOMAIN ex = DOMAIN Resting
    /\ ex.todo \in Seq(DOMAIN rows) /\ ex.seen \subseteq DOMAIN rows
    /\ ex.first \in BOOLEAN /\ ex.running \in BOOLEAN
    /\ ex.pc \in {"idle", "branch", "mark", "list", "look", "write", "verdict", "end", "return"}
    /\ ex.pc \in {"idle", "branch", "mark", "list", "return"} =>
          ex.todo = <<>> /\ ex.seen = {} /\ ~ex.running /\ (ex.first <=> ex.pc = "list")
    /\ ex.pc = "write" => ex.root \in DOMAIN rows

Types == IsTable(rows) /\ IsTable(session) /\ RequestOK /\ ExecutorOK

\* What is not committed is that of a request that composes.
SessionOpen == request.pc # "compose" => session = Nothing

-----------------------------------------------------------------------------
(* Requests and the engine apart.                                          *)

EngineRests == manager = None /\ ~message /\ ex.pc = "idle"

Apart ==
    /\ request.pc # "idle" => EngineRests /\ status \notin {"INITIATED", "RUNNING"}
    /\ request.pc = "idle" /\ served = 0 => EngineRests /\ status = "absent"
    /\ manager = "found" => status = "PENDING"
    /\ ex.pc = "mark" => status \in {"INITIATED", "ON_HOLD_WITH_SUCCESS"}
    /\ ex.pc \in {"list", "look", "write", "verdict"} => status = "RUNNING"

-----------------------------------------------------------------------------
(* A root in focus that runs or has succeeded is the executor's work.      *)

IsWork(row) == row.here /\ row.in_focus /\ row.status \in Runs \cup {"COMPLETED_SUCCESSFULLY"}
NoWork(f) == \A p \in DOMAIN f : ~IsWork(f[p])

\* The executor has still to come to root p in this walk.
HasTurn(p) ==
    \/ \E n \in DOMAIN ex.todo : ex.todo[n] = p
    \/ ex.pc = "write" /\ ex.root = p /\ ex.to = "out"

\* No work is forgotten: when the executor counts nothing, what is left is ahead.
WorkCounted ==
    /\ status # "RUNNING" \/ ex.pc \in {"list", "verdict"} => NoWork(rows)
    /\ ex.pc \in {"look", "write"} /\ ~ex.running =>
          \A p \in DOMAIN rows : IsWork(rows[p]) => ~ex.first /\ HasTurn(p)

\* A root runs because the executor has started it.
HandedOver(f) ==
    \A p \in DOMAIN f : f[p].here /\ f[p].status \in Runs => f[p].in_focus \/ AtOnce(p)

\* What a request composes is not at work yet.
Calm(f) == NoWork(f) /\ HandedOver(f)

\* A root that is about to be acknowledged stays successful.
Acknowledged ==
    ex.pc = "write" /\ ex.to = "out" => Successful(ex.root) /\ ~ex.first

-----------------------------------------------------------------------------
(* The walk, in a workspace whose edges lead nowhere else and whose roots  *)
(* are for the executor to start.                                          *)

Planned == Closed /\ ~\E p \in Here : AtOnce(p)

\* Each root is listed once; those in focus come first.
ListedOnce ==
    /\ \A n \in DOMAIN ex.todo : ex.todo[n] \in Here /\ ex.todo[n] \in ex.seen
    /\ \A m, n \in DOMAIN ex.todo : ex.todo[m] = ex.todo[n] => m = n
    /\ ex.pc = "write" => /\ ex.root \in Here /\ ex.root \in ex.seen
                          /\ \A n \in DOMAIN ex.todo : ex.todo[n] # ex.root
    /\ ~ex.first =>
          /\ \A p \in Here : rows[p].in_focus => p \in ex.seen
          /\ \A m, n \in DOMAIN ex.todo :
                m < n /\ rows[ex.todo[n]].in_focus => rows[ex.todo[m]].in_focus

Waiting(p) == p \in Here /\ rows[p].status = "READY" /\ ~rows[p].in_focus
Holds(q) == ~Successful(q) \/ rows[q].in_focus
HeldBack(p) == \E q \in rows[p].previous : Holds(q)

\* Among the roots that wait, those that have been looked at already wait for one
\* that is not acknowledged in this walk.
Ahead(p) ==
    \/ \E n \in DOMAIN ex.todo : ex.todo[n] = p
    \/ ex.pc = "write" /\ ex.root = p
    \/ \E q \in rows[p].previous :
          Holds(q) /\ (p \in ex.seen /\ ~ex.first => ~(rows[q].in_focus /\ HasTurn(q)))

WalkInOrder ==
    status = "RUNNING" /\ Planned =>
        /\ ex.pc \in {"look", "write"} =>
              ListedOnce /\ \A p \in DOMAIN rows : Waiting(p) => Ahead(p)
        /\ ex.pc \in {"idle", "branch", "verdict", "end", "return"} =>
              \A p \in DOMAIN rows : Waiting(p) => HeldBack(p)
        /\ ex.pc = "verdict" /\ ex.to = "COMPLETED_SUCCESSFULLY" =>
              \A p \in Here : rows[p].status \notin {"COMPLETED_WITH_FAILURE", "ON_HOLD"}

Undisturbed ==
    Apart /\ Calm(session) /\ HandedOver(rows) /\ WorkCounted /\ Acknowledged /\ WalkInOrder

WInv == Types /\ SessionOpen /\ (~overlapped => Undisturbed)

-----------------------------------------------------------------------------
(* Why roots start in turn.                                                *)

\* READY is what a request has asked to be provisioned.
Asked(f) == \A p \in DOMAIN f : f[p].status = "READY" => p \in provisioned

Due(p) == p \in provisioned /\ \A q \in rows[p].previous \cap DOMAIN rows : Successful(q)

\* A root in focus that runs was due, and so is one that is about to be handed over.
StartedInTurn ==
    \A p \in DOMAIN rows :
        rows[p].here /\ rows[p].in_focus /\ rows[p].status \in Runs => Due(p)
StartsNext ==
    ex.pc = "write" /\ ex.to = "PENDING" => rows[ex.root].status = "READY" /\ Due(ex.root)

\* Nothing but its own walk touches a root that the first walk has still to come to.
FirstWalk ==
    ex.pc \in {"look", "write"} /\ ex.first =>
        /\ \A n \in DOMAIN ex.todo : rows[ex.todo[n]].status = "READY"
        /\ \A m, n \in DOMAIN ex.todo : ex.todo[m] = ex.todo[n] => m = n
        /\ ex.pc = "write" => \A n \in DOMAIN ex.todo : ex.todo[n] # ex.root

InTurn ==
    /\ Asked(rows) /\ Asked(session)
    /\ ~overlapped => StartedInTurn /\ StartsNext /\ FirstWalk
=============================================================================

------------------------- MODULE WorkspaceRequests -------------------------
(***************************************************************************)
(* A workspace: roots that wait for one another.  A request composes it in *)
(* one session, turn by turn (WorkspaceSections says what a turn waits     *)
(* for); later requests change it, make its roots READY or delete it       *)
(* (web/ibm/workspaces/api.py and utils.py, ibm/draas/restores/api.py).    *)
(* What becomes of it then is module Workspace.                            *)
(***************************************************************************)
EXTENDS WorkspaceSections, SequencesExt

CONSTANTS
    Resources,     \* what the requests of an instance ask for or refer to
    KindOf,        \* the key a resource is listed under
    Forms,         \* the histories: what is asked first and then, see below
    Copies         \* bound on the roots composed for one resource

ASSUME ResourcesAssumption == IsFiniteSet(Resources)

(***************************************************************************)
(* A form says by which function the workspace is composed, what the first *)
(* request and a PATCH ask for, which resources the cloud has by the PATCH,*)
(* what each resource refers to and how many more requests are served.     *)
(***************************************************************************)
ASSUME FormsAssumption ==
    \A form \in Forms :
        /\ form.by \in {"create", "update"}
        /\ form.asked \subseteq Resources /\ form.again \subseteq Resources
        /\ form.ready \subseteq form.again /\ form.more \in Nat
        /\ form.refs \in [Resources -> SUBSET Resources]
        \* the rules of a restored group name groups that are restored as well
        /\ form.by = "create" =>
              \A r \in form.asked : KindOf[r] = "security_groups" =>
                  {q \in form.refs[r] : KindOf[q] = "security_groups"} \subseteq form.asked

None == "none"
NoRoot == <<None, 0>>
Roots == Resources \X (1..Copies)
RootStatuses ==
    {"absent", "ON_HOLD", "READY", "PENDING", "INITIATED", "RUNNING",
     "COMPLETED_SUCCESSFULLY", "COMPLETED_WITH_FAILURE"}
WorkspaceStatuses ==
    {"absent", "ON_HOLD", "PENDING", "INITIATED", "RUNNING", "ON_HOLD_WITH_SUCCESS",
     "ON_HOLD_WITH_FAILURE", "COMPLETED_SUCCESSFULLY"}

VARIABLES
    form,              \* the history of this behaviour
    rows,              \* workflow_roots, a deleted one "absent"
    status,            \* workflows_workspaces.status
    executor_running,  \* workflows_workspaces.executor_running
    lists,             \* what fe_request_data lists
    request,           \* the request being served
    session,           \* its changes not yet committed, root by root
    served,            \* requests so far
    composed,          \* the roots composed so far
    provisioned,       \* the roots a request has made READY
    overlapped,        \* a request and the engine have met
    manager,           \* workspace_manager
    message,           \* a message of workspace_executor in the broker
    locked,            \* its singleton lock
    ex                 \* the executor

tables == <<rows, status>>
serving == <<request, session, served, composed>>
broker == <<message, locked>>
engine == <<manager, broker, ex, executor_running>>
vars == <<form, tables, lists, serving, provisioned, overlapped, engine>>

Nothing == <<>>

\* The function g, but f where f has a value.
Over(f, g) == [x \in DOMAIN f \cup DOMAIN g |-> IF x \in DOMAIN f THEN f[x] ELSE g[x]]
Only(x, value) == [y \in {x} |-> value]

Absent == [status |-> "absent", previous |-> {}, here |-> FALSE, in_focus |-> FALSE,
           doubled |-> FALSE]

Here == {p \in DOMAIN rows : rows[p].status # "absent" /\ rows[p].here}

\* The request and the executor, at rest.
NoRequest ==
    [pc |-> "idle", by |-> None, asked |-> {}, todo |-> {}, made |-> <<>>, used |-> {},
     base |-> NoRoot, late |-> <<>>, stored |-> FALSE, restores |-> FALSE,
     roots |-> {}, root |-> NoRoot]
Resting == [pc |-> "idle", todo |-> <<>>, seen |-> {}, first |-> FALSE, running |-> FALSE,
            root |-> NoRoot, to |-> None]

Init ==
    /\ form \in Forms
    /\ rows = Nothing
    /\ status = "absent" /\ executor_running = FALSE /\ lists = {}
    /\ request = NoRequest /\ session = Nothing /\ served = 0
    /\ composed = {} /\ provisioned = {} /\ overlapped = FALSE
    /\ manager = None
    /\ message = FALSE /\ locked = FALSE
    /\ ex = Resting

-----------------------------------------------------------------------------
(* The session of a request that composes.                                 *)

\* The rows once the changes c of a session are committed.
Flushed(c) == Over(c, rows)

Kind(r) == KindOf[r]
Sections(by) == IF by = "create" THEN create_workspace_workflow
                                 ELSE update_workspace_workflow

\* The sections a request goes through, with the resources of each; the
\* attachments come back after restored clusters.
Agenda(by, asked) ==
    LET last == Len(Sections(by)) IN
    {turn \in (1..last) \X asked :
        /\ Kind(turn[2]) = Sections(by)[turn[1]][1]
        /\ by = "update" /\ turn[1] = last =>
              \E r \in asked : Kind(r) = "draas_restore_clusters"}

Section(turn) == Sections(request.by)[turn[1]][2]

\* The next turn: sections in their order, resources as the request lists them.
Turn(turn) ==
    /\ request.pc = "compose" /\ turn \in request.todo
    /\ \A other \in request.todo : turn[1] <= other[1]

Refers(r) == form.refs[r]
Found == DOMAIN request.made
RootOf(r) == request.made[r]

\* A network interface is known by the instance whose subnet is known.
Interfaced(q) == \E n \in Refers(q) \cap Found : Kind(n) = "subnets"

\* The attachments composed for a subnet of a cluster.
Attached(r) ==
    {q \in Found : /\ Kind(q) = "attachments_detachments"
                   /\ \E n \in Refers(q) \cap Refers(r) \cap Found : Kind(n) = "subnets"}

\* The rules of a group are gone through unless its VPC is not in the request.
RulesRead(turn) ==
    LET r == turn[2] IN
    /\ "security_groups" \in Section(turn).waits /\ Kind(r) = "security_groups"
    /\ \E v \in Refers(r) \cap Found : Kind(v) = "vpc_networks"

\* The roots a new root of resource r gets its edges from.
Predecessors(turn) ==
    LET r == turn[2]
        waits == Section(turn).waits
        through == {"floating_ips", "attachments_detachments"}
        referred ==
            {q \in Refers(r) \cap Found :
                /\ Kind(q) \in waits
                /\ Kind(q) = "instances" /\ Kind(r) \in through => Interfaced(q)
                /\ Kind(r) = "security_groups" /\ Kind(q) = "security_groups" =>
                      RulesRead(turn)
                \* an ACL with subnets waits for those only
                /\ Kind(r) = "network_acls" /\ Kind(q) = "vpc_networks" =>
                      ~\E n \in Refers(r) : Kind(n) = "subnets" /\ "subnets" \in waits}
        everyOne == {q \in Found : Kind(q) \in Section(turn).all}
        gateways == IF "attachments_detachments" \in waits THEN Attached(r) ELSE {}
    IN {RootOf(q) : q \in referred \cup everyOne \cup gateways}


-----------------------------------------------------------------------------
(* What a turn finds.                                                      *)

\* With a backup every address prefix is composed anew.
Listed(r) ==
    /\ request.by = "update" /\ r \in lists
    /\ ~(request.restores /\ Kind(r) = "address_prefixes")

Now(p) == IF p \in DOMAIN session \cup DOMAIN rows THEN Over(session, rows)[p] ELSE Absent
Existing(r) == {p \in composed : p[1] = r /\ Now(p).status # "absent" /\ Now(p).here}
Fresh(r) == <<r, CHOOSE n \in 1..Copies :
                    /\ <<r, n>> \notin composed
                    /\ \A m \in 1..(n - 1) : <<r, m>> \in composed>>

\* A resource the request refers to under a key, that its section does not find.
Missing(r, key) == \E q \in Refers(r) \ Found : Kind(q) = key

\* The resource is available already, or is an instance that was not listed
\* before or that is running or done: no root is looked at or made.
PassedOver(turn) ==
    LET r == turn[2] IN
    /\ request.by = "update"
    /\ \/ Section(turn).ready /\ served > 0 /\ r \in form.ready
       \/ Section(turn).unlisted = "skipped" /\ ~Listed(r)
       \/ /\ Kind(r) = "instances"
          /\ \E p \in Existing(r) : Now(p).status \in {"RUNNING", "COMPLETED_SUCCESSFULLY"}

\* A statement of the section raises: a target that is not in its dictionary,
\* or a root to precede this one that never was put into the workspace.
Raises(turn) ==
    LET r == turn[2] IN
    \/ Kind(r) = "instances" /\ Missing(r, "placement_groups")
    \/ Kind(r) = "network_acls" /\ request.by = "update" /\ Missing(r, "subnets")
    \/ \E p \in Predecessors(turn) : ~Now(p).here
    \/ /\ Section(turn).alone = "unplaced"
       /\ Predecessors(turn) = {} /\ request.base = NoRoot

\* The root the last request composed is taken as it is, edges included.
Kept(turn) ==
    LET r == turn[2] IN
    /\ Listed(r) /\ ~Section(turn).always /\ Kind(r) # "instances"
    /\ Existing(r) # {}

\* An instance whose root failed gets its edges again and is held again.
Reheld(turn) ==
    /\ Kind(turn[2]) = "instances" /\ Listed(turn[2])
    /\ \E p \in Existing(turn[2]) : Now(p).status = "COMPLETED_WITH_FAILURE"

Alone(turn) == IF Listed(turn[2]) THEN "held" ELSE Section(turn).alone

\* Mutant: whatever its section does with it, a root that nothing precedes is left
\* out of the workspace.
Dropped_alone(turn, previous) ==
    \/ Kind(turn[2]) = "vpn_gateways" /\ Missing(turn[2], "subnets")
    \/ previous = {} /\ Alone(turn) # "unplaced"
Dropped(turn, previous) ==
    \/ Kind(turn[2]) = "vpn_gateways" /\ Missing(turn[2], "subnets")
    \/ previous = {} /\ Alone(turn) = "dropped"

Forgotten(turn, previous) ==
    /\ previous = {}
    /\ (IF Listed(turn[2]) THEN "listed" ELSE "unlisted") \in Section(turn).forgets

Made(turn) ==
    IF request.by = "update" /\ ~Listed(turn[2]) /\ ~Section(turn).always
    THEN "sketch" ELSE Section(turn).made

\* Rules that name a group of a later turn: one edge a named group, the last.
Later(turn) ==
    LET r == turn[2] IN
    IF RulesRead(turn)
    THEN [q \in {n \in Refers(r) \ (Found \cup {r}) : Kind(n) = "security_groups"} |->
              Fresh(r)]
    ELSE Nothing

-----------------------------------------------------------------------------
(* Turns.                                                                  *)

Commit(changes) ==
    /\ rows' = Flushed(changes)
    /\ status' = IF status = "absent" THEN "ON_HOLD" ELSE status

Ended(turn) == [request EXCEPT !.todo = @ \ {turn}]

\* What composing a root commits: the root, unless it is only sketched, and, once
\* the workspace is in the session, what the turns before have left there.
Own(turn) ==
    IF Made(turn) = "sketch" THEN Nothing
    ELSE Only(Fresh(turn[2]), [Absent EXCEPT !.status = Made(turn)])
Composes(turn) ==
    IF request.stored THEN Commit(Over(Own(turn), session))
                      ELSE rows' = Flushed(Own(turn)) /\ UNCHANGED status

\* The root is put into the workspace; flushed by the commit of the next turn.
Placed(turn, previous) ==
    LET r == turn[2]
        as == IF request.by = "update" /\ ~Listed(r) THEN Section(turn).unlisted
                                                     ELSE "ON_HOLD"
    IN
    IF Dropped(turn, previous) THEN Nothing
    ELSE IF previous = {} /\ Alone(turn) = "unplaced"
    THEN Only(request.base, [Now(request.base) EXCEPT !.status = "ON_HOLD"])
    ELSE Only(Fresh(r), [Absent EXCEPT !.status = as, !.previous = previous, !.here = TRUE])

\* After the last group, the edges of the rules that named a later one.
PutOff(turn, late, done) ==
    IF /\ Kind(turn[2]) = "security_groups"
       /\ ~\E other \in request.todo \ {turn} : Kind(other[2]) = "security_groups"
    THEN [p \in {late[q] : q \in DOMAIN late \cap DOMAIN done} |->
              {done[q] : q \in {n \in DOMAIN late \cap DOMAIN done : late[n] = p}}]
    ELSE Nothing

Skip(turn) ==
    /\ Turn(turn) /\ PassedOver(turn)
    /\ request' = Ended(turn)
    /\ UNCHANGED <<form, tables, lists, session, served, composed, provisioned,
                   overlapped, engine>>

Keep(turn) ==
    /\ Turn(turn) /\ ~PassedOver(turn) /\ Kept(turn)
    /\ \E p \in Existing(turn[2]) :
          request' = [Ended(turn) EXCEPT !.made = Over(Only(turn[2], p), @), !.used = @ \cup {p}]
    /\ UNCHANGED <<form, tables, lists, session, served, composed, provisioned,
                   overlapped, engine>>

Rehold(turn) ==
    /\ Turn(turn) /\ ~PassedOver(turn) /\ Reheld(turn) /\ ~Raises(turn)
    /\ \E p \in Existing(turn[2]) :
          LET twice == Predecessors(turn) \cap Now(p).previous IN
          /\ Now(p).status = "COMPLETED_WITH_FAILURE"
          /\ request' = [Ended(turn) EXCEPT !.made = Over(Only(turn[2], p), @),
                                            !.used = @ \cup {p}]
          /\ LET held == [Now(p) EXCEPT !.status = "ON_HOLD",
                                        !.previous = @ \cup Predecessors(turn),
                                        !.doubled = @ \/ twice # {}]
                 edges == [q \in twice |-> [Now(q) EXCEPT !.doubled = TRUE]]
             IN  session' = Over(edges, Over(Only(p, held), session))
    /\ UNCHANGED <<form, tables, lists, served, composed, provisioned, overlapped, engine>>

Make(turn) ==
    LET r == turn[2]
        p == Fresh(r)
        itself == IF RulesRead(turn) /\ r \in Refers(r) THEN {p} ELSE {}
        previous == Predecessors(turn) \cup itself
        late == Over(Later(turn), request.late)
        done == IF Forgotten(turn, previous) THEN request.made
                ELSE Over(Only(r, p), request.made)
        placed == Placed(turn, previous)
        kept == IF request.stored THEN placed ELSE Over(placed, session)
        put == PutOff(turn, late, done)
        row(q) == IF q \in DOMAIN kept THEN kept[q] ELSE Now(q)
    IN
    /\ Turn(turn) /\ ~PassedOver(turn) /\ ~Kept(turn) /\ ~Reheld(turn) /\ ~Raises(turn)
    /\ composed' = composed \cup {p}
    /\ Composes(turn)
    /\ session' = Over([q \in DOMAIN put |-> [row(q) EXCEPT !.previous = @ \cup put[q]]],
                       kept)
    /\ \E base \in IF previous = {} THEN {request.base} ELSE previous :
          request' =
            [Ended(turn) EXCEPT
                !.made = done,
                !.used = IF Forgotten(turn, previous) THEN @ ELSE @ \cup {p},
                !.late = late,
                !.base = IF Kind(r) = "attachments_detachments" THEN base ELSE @,
                !.stored = @ \/ (Made(turn) # "sketch" /\ p \in DOMAIN placed)]
    /\ UNCHANGED <<form, lists, served, provisioned, overlapped, engine>>

\* What is not committed is lost.
Raise(turn) ==
    /\ Turn(turn) /\ ~PassedOver(turn) /\ ~Kept(turn) /\ Raises(turn)
    /\ IF Reheld(turn) THEN UNCHANGED <<tables, composed>>
       ELSE /\ Composes(turn)
            /\ composed' = composed \cup {Fresh(turn[2])}
    /\ request' = NoRequest /\ session' = Nothing /\ served' = served + 1
    /\ UNCHANGED <<form, lists, provisioned, overlapped, engine>>

-----------------------------------------------------------------------------
(* Requests, one at a time.                                                *)

Busy ==
    \/ status \in {"PENDING", "INITIATED", "RUNNING"}
    \/ ex.pc # "idle" \/ message \/ manager # None
    \/ \E p \in Here : rows[p].status \in {"PENDING", "INITIATED", "RUNNING"}

Composing(by, asked) ==
    request' = [NoRequest EXCEPT
                   !.pc = "compose", !.by = by, !.asked = asked, !.todo = Agenda(by, asked),
                   !.stored = (by = "update"),
                   !.restores = served = 0 /\ \E r \in asked :
                                    Kind(r) = "draas_restore_clusters"]

\* create_workspace stores the workspace before its roots, restore_backup after.
Create ==
    /\ request.pc = "idle" /\ served = 0 /\ form.by = "update"
    /\ Composing("update", form.asked)
    /\ status' = "ON_HOLD" /\ lists' = form.asked
    /\ UNCHANGED <<form, rows, session, served, composed, provisioned, overlapped, engine>>

Restore ==
    /\ request.pc = "idle" /\ served = 0 /\ form.by = "create"
    /\ Composing("create", form.asked)
    /\ lists' = form.asked
    /\ UNCHANGED <<form, tables, session, served, composed, provisioned, overlapped, engine>>

Again == request.pc = "idle" /\ served \in 1..form.more /\ status # "absent"

update_workspace ==
    /\ Again /\ form.again # {}
    /\ \A r \in form.again : \E n \in 1..Copies : <<r, n>> \notin composed
    /\ Composing("update", form.again)
    /\ overlapped' = (overlapped \/ Busy)
    /\ UNCHANGED <<form, tables, lists, session, served, composed, provisioned, engine>>

\* All turns are done.  A restored workspace is provisioned at once; a PATCH
\* deletes the roots it has not used.
Finish ==
    LET done == Flushed(session)
        here == {p \in DOMAIN done : done[p].status # "absent" /\ done[p].here}
        restored == \E r \in request.asked : Kind(r) = "draas_restore_clusters"
        stale == {p \in here \ request.used : done[p].status # "RUNNING"}
    IN
    /\ request.pc = "compose" /\ request.todo = {}
    /\ Commit(session) /\ session' = Nothing
    /\ IF request.by = "update" /\ restored
       THEN /\ request' = NoRequest /\ served' = served + 1
            /\ UNCHANGED lists
       ELSE /\ request' =
                 [request EXCEPT
                     !.pc = IF request.by = "create" THEN "provision" ELSE "stale",
                     !.roots = IF request.by = "create" THEN here ELSE stale]
            /\ lists' = IF request.by = "create" THEN lists ELSE request.asked
            /\ UNCHANGED served
    /\ UNCHANGED <<form, composed, provisioned, overlapped, engine>>

\* With a doubled edge the deletion affects more rows than it expects and is
\* rolled back.
DropStale(p) ==
    /\ request.pc = "stale" /\ p \in request.roots
    /\ request' = [request EXCEPT !.roots = @ \ {p}]
    /\ rows' = IF rows[p].doubled THEN rows
               ELSE [q \in DOMAIN rows |-> IF q = p THEN Absent
                                           ELSE [rows[q] EXCEPT !.previous = @ \ {p}]]
    /\ UNCHANGED <<form, status, lists, session, served, composed, provisioned, overlapped,
                   engine>>

FinishUpdate ==
    /\ request.pc = "stale" /\ request.roots = {}
    /\ status' = IF status = "COMPLETED_SUCCESSFULLY" THEN "ON_HOLD_WITH_SUCCESS" ELSE status
    /\ request' = NoRequest /\ served' = served + 1
    /\ UNCHANGED <<form, rows, lists, session, composed, provisioned, overlapped, engine>>

\* WorkflowRoot.status = READY: a root nothing precedes takes the workspace along.
SetReady(p) ==
    /\ rows' = [rows EXCEPT ![p].status = "READY"]
    /\ status' = IF rows[p].previous = {} THEN "PENDING" ELSE status
    /\ provisioned' = provisioned \cup {p}

provision_workspace ==
    /\ Again
    /\ request' = [NoRequest EXCEPT !.pc = "provision",
                                    !.roots = {p \in Here : rows[p].status = "ON_HOLD"}]
    /\ overlapped' = (overlapped \/ Busy)
    /\ UNCHANGED <<form, tables, lists, session, served, composed, provisioned, engine>>

\* The roots found ON_HOLD, or all of a restored workspace; a running one keeps
\* the workspace as it is.
Provision(p) ==
    /\ request.pc = "provision" /\ p \in request.roots
    /\ request' = [request EXCEPT !.roots = @ \ {p}]
    /\ IF rows[p].status = "RUNNING"
       THEN /\ rows' = [rows EXCEPT ![p].status = "READY"]
            /\ provisioned' = provisioned \cup {p}
            /\ UNCHANGED status
       ELSE SetReady(p)
    /\ UNCHANGED <<form, lists, session, served, composed, overlapped, engine>>

\* POST /provision-roots: a root is checked, then made READY.
provision_roots(picked) ==
    /\ Again
    /\ request' = [NoRequest EXCEPT !.pc = "pick", !.roots = picked]
    /\ overlapped' = (overlapped \/ Busy)
    /\ UNCHANGED <<form, tables, lists, session, served, composed, provisioned, engine>>

Pick(p) ==
    /\ request.pc = "pick" /\ request.root = NoRoot /\ p \in request.roots
    /\ request' =
          [request EXCEPT
              !.roots = @ \ {p},
              !.root = IF rows[p].status \in {"RUNNING", "COMPLETED_SUCCESSFULLY"}
                       THEN NoRoot ELSE p]
    /\ UNCHANGED <<form, tables, lists, session, served, composed, provisioned, overlapped,
                   engine>>

Ready ==
    /\ request.pc = "pick" /\ request.root # NoRoot
    /\ SetReady(request.root)
    /\ request' = [request EXCEPT !.root = NoRoot]
    /\ UNCHANGED <<form, lists, session, served, composed, overlapped, engine>>

\* All three end by making the workspace PENDING.
Provisioned ==
    /\ request.pc \in {"provision", "pick"} /\ request.roots = {} /\ request.root = NoRoot
    /\ status' = "PENDING"
    /\ request' = NoRequest /\ served' = served + 1
    /\ UNCHANGED <<form, rows, lists, session, composed, provisioned, overlapped, engine>>

\* Only the workspace goes; its roots lose it.
delete_workspace ==
    /\ Again /\ status \notin {"PENDING", "RUNNING", "INITIATED"}
    /\ rows' = [p \in DOMAIN rows |-> [rows[p] EXCEPT !.here = FALSE]]
    /\ status' = "absent" /\ served' = served + 1
    /\ overlapped' = (overlapped \/ Busy)
    /\ UNCHANGED <<form, lists, request, session, composed, provisioned, engine>>

Serve ==
    \/ \E turn \in request.todo :
          Skip(turn) \/ Keep(turn) \/ Rehold(turn) \/ Make(turn) \/ Raise(turn)
    \/ Finish \/ FinishUpdate \/ Ready \/ Provisioned
    \/ \E p \in request.roots : DropStale(p) \/ Provision(p) \/ Pick(p)

Ask ==
    \/ Create \/ Restore \/ update_workspace \/ provision_workspace \/ delete_workspace
    \/ \E picked \in SUBSET Here \ {{}} : provision_roots(picked)
=============================================================================

------------------------- MODULE Workspace_proofs -------------------------
(***************************************************************************)
(* Proof that the verdict of workspace_executor is sound: WInv is an       *)
(* invariant of every workspace, whatever its resources, what they refer   *)
(* to and the history of its requests, and a walk that ends with the       *)
(* verdict COMPLETED_SUCCESSFULLY leaves no root behind.  Then, from WInv  *)
(* and InTurn, that roots start in turn: what a request has not asked for, *)
(* or what follows a root that is not successful, is never handed over.    *)
(***************************************************************************)
EXTENDS WorkspaceInvariant, FiniteSetTheorems, TLAPS

(***************************************************************************)
(* The orders a set of rows may come in from the database.                 *)
(***************************************************************************)
LEMMA OrdersList ==
  ASSUME NEW S, IsFiniteSet(S), NEW s \in SetToSeqs(S)
  PROVE  /\ s \in Seq(S)
         /\ \A m, n \in 1..Len(s) : s[m] = s[n] => m = n
         /\ \A x \in S : \E n \in 1..Len(s) : s[n] = x
<1> DEFINE D == 1..Cardinality(S)
<1>1. Cardinality(S) \in Nat
  BY FS_CardinalityType
<1>2. s \in [D -> S] /\ \A m, n \in D : m # n => s[m] # s[n]
  BY DEF SetToSeqs
<1>3. s \in Seq(S) /\ Len(s) = Cardinality(S)
  BY <1>1, <1>2
<1>4. s \in Injection(D, S)
  BY <1>2 DEF Injection, IsInjective
<1>5. IsFiniteSet(D) /\ Cardinality(D) = Cardinality(S)
  BY <1>1, FS_Interval
<1>6. s \in Surjection(D, S)
  BY <1>4, <1>5, FS_Injection
<1> QED
  BY <1>2, <1>3, <1>6 DEF Surjection

LEMMA ImageIsFinite ==
  ASSUME NEW f, NEW S, IsFiniteSet(S)
  PROVE  IsFiniteSet({f[x] : x \in S})
<1> DEFINE g == [x \in S |-> f[x]]
           T == {f[x] : x \in S}
<1>1. g \in Surjection(S, T)
  BY DEF Surjection
<1> QED
  BY <1>1, FS_Surjection

-----------------------------------------------------------------------------
(* Tables: the rows, and the changes of a session.                         *)

LEMMA RowFields ==
  DOMAIN Absent = {"status", "previous", "here", "in_focus", "doubled"}
BY DEF Absent

LEMMA OverDomain ==
  ASSUME NEW f, NEW g
  PROVE  /\ DOMAIN Over(f, g) = DOMAIN f \cup DOMAIN g
         /\ \A p \in DOMAIN f : Over(f, g)[p] = f[p]
         /\ \A p \in DOMAIN g \ DOMAIN f : Over(f, g)[p] = g[p]
BY DEF Over

LEMMA OverTable ==
  ASSUME NEW f, NEW g, IsTable(f), IsTable(g)
  PROVE  IsTable(Over(f, g))
<1>1. IsFiniteSet(DOMAIN f \cup DOMAIN g)
  BY FS_Union DEF IsTable
<1>2. DOMAIN Over(f, g) = DOMAIN f \cup DOMAIN g
  BY OverDomain
<1>3. \A p \in DOMAIN Over(f, g) : IsRow(Over(f, g)[p])
  BY DEF IsTable, Over
<1> QED
  BY <1>1, <1>2, <1>3 DEF IsTable

LEMMA OnlyTable ==
  ASSUME NEW p, NEW row, IsRow(row)
  PROVE  IsTable(Only(p, row)) /\ DOMAIN Only(p, row) = {p} /\ Only(p, row)[p] = row
BY FS_Singleton DEF IsTable, Only

LEMMA NothingTable == IsTable(Nothing) /\ DOMAIN Nothing = {}
<1>1. Nothing \in Seq({}) /\ Len(Nothing) = 0
  BY DEF Nothing
<1>2. DOMAIN Nothing = 1..0
  BY <1>1
<1> QED
  BY <1>2, FS_EmptySet DEF IsTable

LEMMA AbsentRow == IsRow(Absent) /\ ~Absent.here /\ Absent.status = "absent"
BY DEF IsRow, Absent, RootStatuses

\* A row with another status is a row.
LEMMA RowWithStatus ==
  ASSUME NEW row, IsRow(row), NEW to \in RootStatuses
  PROVE  LET new == [row EXCEPT !.status = to] IN
         IsRow(new) /\ new.status = to /\ new.here = row.here
         /\ new.in_focus = row.in_focus /\ new.previous = row.previous
BY RowFields DEF IsRow

-----------------------------------------------------------------------------
(* The sections of a request.                                              *)

\* What a section says of the status of a new root.
SectionOK(key, section) ==
  /\ section.made \in {"sketch", "PENDING", "COMPLETED_SUCCESSFULLY"}
  /\ section.unlisted \in {"ON_HOLD", "PENDING", "skipped"}
  /\ section.unlisted = "PENDING" => key = "vpc_networks"

LEMMA UpdateSections ==
  \A n \in 1..Len(update_workspace_workflow) :
    SectionOK(update_workspace_workflow[n][1], update_workspace_workflow[n][2])
<1>1. /\ SectionOK("vpc_networks", put_vpc_networks)
      /\ SectionOK("address_prefixes", put_address_prefixes)
      /\ SectionOK("subnets", put_subnets)
      /\ SectionOK("network_acls", put_network_acls)
      /\ SectionOK("security_groups", put_security_groups)
      /\ SectionOK("public_gateways", put_public_gateways)
      /\ SectionOK("routing_tables", put_routing_tables)
  BY DEF SectionOK, Held, After, Committed, put_vpc_networks, put_address_prefixes,
     put_subnets, put_network_acls, put_security_groups, put_public_gateways,
     put_routing_tables
<1>2. /\ SectionOK("placement_groups", put_placement_groups)
      /\ SectionOK("ssh_keys", put_ssh_keys)
      /\ SectionOK("dedicated_host_groups", put_dedicated_host_groups)
      /\ SectionOK("dedicated_hosts", put_dedicated_hosts)
      /\ SectionOK("instances", put_instances)
      /\ SectionOK("floating_ips", put_floating_ips)
      /\ SectionOK("load_balancers", put_load_balancers)
      /\ SectionOK("ipsec_policies", put_ipsec_policies)
  BY DEF SectionOK, Held, After, put_placement_groups, put_ssh_keys,
     put_dedicated_host_groups, put_dedicated_hosts, instances, put_instances,
     put_floating_ips, put_load_balancers, put_ipsec_policies
<1>3. /\ SectionOK("ike_policies", put_ike_policies)
      /\ SectionOK("vpn_gateways", put_vpn_gateways)
      /\ SectionOK("kubernetes_clusters", put_kubernetes_clusters)
      /\ SectionOK("restore_clusters", put_restore_clusters)
      /\ SectionOK("draas_restore_clusters", put_draas_restore_clusters)
      /\ SectionOK("attachments_detachments", put_attachments_detachments)
      /\ SectionOK("attachments_detachments", put_attachments_again)
  BY DEF SectionOK, Held, After, Committed, Replaced, put_ike_policies, put_vpn_gateways,
     put_kubernetes_clusters, put_restore_clusters, put_draas_restore_clusters,
     attachments_detachments, put_attachments_detachments, put_attachments_again
<1> QED
  BY <1>1, <1>2, <1>3 DEF update_workspace_workflow

LEMMA CreateSections ==
  \A n \in 1..Len(create_workspace_workflow) :
    SectionOK(create_workspace_workflow[n][1], create_workspace_workflow[n][2])
<1>1. /\ SectionOK("vpc_networks", vpc_networks)
      /\ SectionOK("address_prefixes", address_prefixes)
      /\ SectionOK("network_acls", network_acls)
      /\ SectionOK("public_gateways", public_gateways)
      /\ SectionOK("subnets", subnets)
      /\ SectionOK("security_groups", security_groups)
      /\ SectionOK("routing_tables", routing_tables)
  BY DEF SectionOK, Held, After, vpc_networks, address_prefixes, network_acls,
     public_gateways, subnets, security_groups, routing_tables
<1>2. /\ SectionOK("placement_groups", placement_groups)
      /\ SectionOK("ssh_keys", ssh_keys)
      /\ SectionOK("dedicated_host_groups", dedicated_host_groups)
      /\ SectionOK("dedicated_hosts", dedicated_hosts)
      /\ SectionOK("instances", instances)
      /\ SectionOK("floating_ips", floating_ips)
      /\ SectionOK("load_balancers", load_balancers)
      /\ SectionOK("ipsec_policies", ipsec_policies)
  BY DEF SectionOK, Held, After, placement_groups, ssh_keys, dedicated_host_groups,
     dedicated_hosts, instances, floating_ips, load_balancers, ipsec_policies
<1>3. /\ SectionOK("ike_policies", ike_policies)
      /\ SectionOK("vpn_gateways", vpn_gateways)
      /\ SectionOK("kubernetes_clusters", kubernetes_clusters)
      /\ SectionOK("draas_restore_clusters", draas_restore_clusters)
      /\ SectionOK("restore_clusters", restore_clusters)
      /\ SectionOK("attachments_detachments", attachments_detachments)
  BY DEF SectionOK, Held, After, Committed, ike_policies, vpn_gateways,
     kubernetes_clusters, draas_restore_clusters, restore_clusters, attachments_detachments
<1> QED
  BY <1>1, <1>2, <1>3 DEF create_workspace_workflow

\* A turn of the request goes by the section of its resource.
LEMMA TurnsSection ==
  ASSUME RequestOK, NEW turn \in request.todo
  PROVE  /\ SectionOK(Kind(turn[2]), Section(turn))
         /\ turn[2] \in request.asked /\ turn[2] \in Resources
<1>1. turn \in Turns(request.by, request.asked) /\ request.asked \subseteq Resources
  BY DEF RequestOK
<1>2. /\ turn[1] \in 1..Len(Sections(request.by)) /\ turn[2] \in request.asked
      /\ Kind(turn[2]) = Sections(request.by)[turn[1]][1]
  BY <1>1 DEF Turns
<1>3. SectionOK(Sections(request.by)[turn[1]][1], Sections(request.by)[turn[1]][2])
  BY <1>2, UpdateSections, CreateSections DEF Sections
<1> QED
  BY <1>1, <1>2, <1>3 DEF Section

-----------------------------------------------------------------------------
(* What a turn composes.                                                   *)

\* The session and the rows are as they are while no engine works.
Quiet == Calm(session) /\ Calm(rows)

LEMMA OverCalm ==
  ASSUME NEW f, NEW g, Calm(f), Calm(g)
  PROVE  Calm(Over(f, g))
<1> SUFFICES ASSUME NEW p \in DOMAIN Over(f, g)
             PROVE  LET row == Over(f, g)[p] IN
                    ~IsWork(row) /\ (row.here /\ row.status \in Runs => row.in_focus \/ AtOnce(p))
  BY DEF Calm, NoWork, HandedOver
<1>1. CASE p \in DOMAIN f
  BY <1>1 DEF Calm, NoWork, HandedOver, Over
<1>2. CASE p \notin DOMAIN f
  <2>1. p \in DOMAIN g /\ Over(f, g)[p] = g[p]
    BY <1>2 DEF Over
  <2> QED
    BY <2>1 DEF Calm, NoWork, HandedOver
<1> QED
  BY <1>1, <1>2

LEMMA OnlyCalm ==
  ASSUME NEW p, NEW row, ~IsWork(row), row.here /\ row.status \in Runs => AtOnce(p)
  PROVE  Calm(Only(p, row))
BY DEF Calm, NoWork, HandedOver, Only

LEMMA NothingCalm == Calm(Nothing)
BY NothingTable DEF Calm, NoWork, HandedOver

LEMMA NowRow ==
  ASSUME IsTable(rows), IsTable(session), NEW p
  PROVE  /\ IsRow(Now(p))
         /\ Quiet => /\ ~IsWork(Now(p))
                     /\ Now(p).here /\ Now(p).status \in Runs => AtOnce(p)
<1> DEFINE both == Over(session, rows)
<1>1. IsTable(both) /\ DOMAIN both = DOMAIN session \cup DOMAIN rows
  BY OverTable, OverDomain
<1>2. Quiet => Calm(both)
  BY OverCalm DEF Quiet
<1>3. CASE p \in DOMAIN both
  <2>1. Now(p) = both[p]
    BY <1>1, <1>3 DEF Now
  <2>2. Calm(both) => /\ ~IsWork(both[p])
                      /\ both[p].here /\ both[p].status \in Runs => AtOnce(p)
    BY <1>3 DEF Calm, NoWork, HandedOver, IsWork, Runs
  <2> QED
    BY <1>1, <1>2, <1>3, <2>1, <2>2 DEF IsTable
<1>4. CASE p \notin DOMAIN both
  <2>1. Now(p) = Absent
    BY <1>1, <1>4 DEF Now
  <2> QED
    BY <2>1, AbsentRow DEF IsWork
<1> QED
  BY <1>3, <1>4

\* A root that is given its place, or is taken back, is not at work.
LEMMA PlacedTable ==
  ASSUME Types, NEW turn \in request.todo, Turn(turn), ~PassedOver(turn), NEW previous
  PROVE  IsTable(Placed(turn, previous)) /\ (Quiet => Calm(Placed(turn, previous)))
<1> DEFINE r == turn[2]
           as == IF request.by = "update" /\ ~Listed(r) THEN Section(turn).unlisted
                                                        ELSE "ON_HOLD"
           base == [Now(request.base) EXCEPT !.status = "ON_HOLD"]
           new == [Absent EXCEPT !.status = as, !.previous = previous, !.here = TRUE]
<1>1. as \in {"ON_HOLD", "PENDING"} /\ (as = "PENDING" => AtOnce(Fresh(r)))
  <2>1. SectionOK(Kind(r), Section(turn)) /\ r \in request.asked
    BY TurnsSection DEF Types
  <2>2. CASE as = "ON_HOLD"
    BY <2>2
  <2>3. CASE as # "ON_HOLD"
    <3>1. request.by = "update" /\ ~Listed(r) /\ as = Section(turn).unlisted
      BY <2>3
    <3>2. as = "PENDING"
      BY <2>1, <2>3, <3>1 DEF PassedOver, SectionOK
    <3>3. Kind(r) = "vpc_networks"
      BY <2>1, <3>1, <3>2 DEF SectionOK
    <3>4. r \notin lists
      BY <3>1, <3>3 DEF Listed
    <3>5. r \notin form.asked
      BY <2>1, <3>1, <3>4 DEF Types, RequestOK, Turn
    <3> QED
      BY <3>2, <3>3, <3>5 DEF AtOnce, Fresh
  <2> QED
    BY <2>2, <2>3
<1>2. IsRow(base) /\ base.status = "ON_HOLD"
  BY NowRow, RowWithStatus DEF Types, RootStatuses
<1>3. IsRow(new) /\ new.status = as /\ ~new.in_focus
  BY <1>1, RowFields DEF IsRow, Absent, RootStatuses
<1>4. IsTable(Only(request.base, base)) /\ Calm(Only(request.base, base))
  BY <1>2, OnlyTable, OnlyCalm DEF IsWork, Runs
<1>5. IsTable(Only(Fresh(r), new)) /\ Calm(Only(Fresh(r), new))
  <2>1. ~IsWork(new) /\ (new.here /\ new.status \in Runs => AtOnce(Fresh(r)))
    BY <1>1, <1>3 DEF IsWork, Runs
  <2> QED
    BY <1>3, <2>1, OnlyTable, OnlyCalm
<1> QED
  BY <1>4, <1>5, NothingTable, NothingCalm DEF Placed

LEMMA OwnTable ==
  ASSUME Types, NEW turn \in request.todo
  PROVE  IsTable(Own(turn)) /\ Calm(Own(turn))
<1> DEFINE new == [Absent EXCEPT !.status = Made(turn)]
<1>1. SectionOK(Kind(turn[2]), Section(turn))
  BY TurnsSection DEF Types
<1>2. CASE Made(turn) = "sketch"
  BY <1>2, NothingTable, NothingCalm DEF Own
<1>3. CASE Made(turn) # "sketch"
  <2>1. Made(turn) \in RootStatuses
    BY <1>1, <1>3 DEF Made, SectionOK, RootStatuses
  <2>2. IsRow(new) /\ ~new.here
    BY <2>1, RowFields DEF IsRow, Absent
  <2>3. IsTable(Only(Fresh(turn[2]), new)) /\ Calm(Only(Fresh(turn[2]), new))
    BY <2>2, OnlyTable, OnlyCalm DEF IsWork
  <2> QED
    BY <1>3, <2>3 DEF Own
<1> QED
  BY <1>2, <1>3

\* What composing commits.
LEMMA ComposesTable ==
  ASSUME Types, NEW turn \in request.todo, Composes(turn)
  PROVE  /\ IsTable(rows') /\ DOMAIN rows \subseteq DOMAIN rows'
         /\ form' = form => (Quiet => Calm(rows)')
         /\ status' \in {status, "ON_HOLD"}
<1> DEFINE own == Own(turn)
           all == Over(own, session)
<1>1. IsTable(own) /\ Calm(own)
  BY OwnTable
<1>2. IsTable(all) /\ (Quiet => Calm(all))
  BY <1>1, OverTable, OverCalm DEF Types, Quiet
<1>3. rows' \in {Over(all, rows), Over(own, rows)} /\ status' \in {status, "ON_HOLD"}
  BY DEF Composes, Commit, Flushed
<1>4. IsTable(rows') /\ DOMAIN rows \subseteq DOMAIN rows'
  <2>1. IsTable(rows)
    BY DEF Types
  <2>2. IsTable(Over(all, rows)) /\ IsTable(Over(own, rows))
    BY <1>1, <1>2, <2>1, OverTable
  <2>3. DOMAIN rows \subseteq DOMAIN Over(all, rows) /\ DOMAIN rows \subseteq DOMAIN Over(own, rows)
    BY OverDomain
  <2> QED
    BY <1>3, <2>2, <2>3
<1>5. Quiet => Calm(Over(all, rows)) /\ Calm(Over(own, rows))
  BY <1>1, <1>2, OverCalm DEF Quiet
<1>6. ASSUME form' = form, Quiet PROVE Calm(rows)'
  BY <1>3, <1>5, <1>6 DEF Calm, NoWork, HandedOver, AtOnce
<1> QED
  BY <1>3, <1>4, <1>6

-----------------------------------------------------------------------------
(* What a request leaves as it is.                                         *)

LEMMA RequestKept ==
  ASSUME RequestOK, UNCHANGED <<form, lists, served>>,
         DOMAIN request' = DOMAIN request, request'.pc = request.pc,
         request'.by = request.by, request'.asked = request.asked,
         request'.todo \subseteq request.todo,
         DOMAIN request'.made \subseteq Resources, DOMAIN request'.late \subseteq Resources
  PROVE  RequestOK'
<1>1. request'.todo \subseteq Turns(request'.by, request'.asked)
  BY DEF RequestOK
<1>2. /\ request'.pc \in {"compose", "stale"} => request'.asked \in {form'.asked, form'.again}
      /\ request'.pc = "compose" /\ request'.by = "update" =>
            \A r \in request'.asked : r \in lists' \/ r \notin form'.asked
      /\ request'.pc # "idle" \/ served' > 0 => lists' \in {form'.asked, form'.again}
      /\ request'.asked \subseteq Resources /\ form' \in Forms /\ served' \in Nat
      /\ DOMAIN request' = DOMAIN NoRequest
  BY DEF RequestOK
<1> QED
  BY <1>1, <1>2 DEF RequestOK, Turns, Kind

LEMMA ExecutorKept ==
  ASSUME ExecutorOK, UNCHANGED ex, DOMAIN rows \subseteq DOMAIN rows'
  PROVE  ExecutorOK'
<1>1. ex.todo \in Seq(DOMAIN rows')
  BY DEF ExecutorOK
<1> QED
  BY <1>1 DEF ExecutorOK

LEMMA NothingAsked ==
  /\ DOMAIN NoRequest.made = {} /\ DOMAIN NoRequest.late = {} /\ NoRequest.pc = "idle"
  /\ NoRequest.todo = {} /\ NoRequest.asked = {}
<1>1. NoRequest.made = Nothing /\ NoRequest.late = Nothing
  BY DEF NoRequest, Nothing
<1> QED
  BY <1>1, NothingTable DEF NoRequest

\* A request that ends, and one that has nothing to compose.
LEMMA RequestWithout ==
  ASSUME RequestOK, form' = form, served' \in Nat,
         request'.pc \in {"idle", "provision", "pick"}, DOMAIN request' = DOMAIN NoRequest,
         request'.made = NoRequest.made, request'.late = NoRequest.late,
         request'.todo = NoRequest.todo, request'.asked = NoRequest.asked,
         request'.pc # "idle" \/ served' > 0 => lists' \in {form.asked, form.again}
  PROVE  RequestOK'
BY NothingAsked DEF RequestOK

-----------------------------------------------------------------------------
(* Turns.                                                                  *)

LEMMA EndedTurn ==
  ASSUME RequestOK, NEW turn
  PROVE  /\ DOMAIN Ended(turn) = DOMAIN NoRequest
         /\ Ended(turn) = [request EXCEPT !.todo = request.todo \ {turn}]
         /\ Ended(turn).todo = request.todo \ {turn}
         /\ Ended(turn).pc = request.pc /\ Ended(turn).by = request.by
         /\ Ended(turn).asked = request.asked
         /\ Ended(turn).made = request.made /\ Ended(turn).late = request.late
BY DEF Ended, RequestOK, NoRequest

LEMMA SkipKeeps ==
  ASSUME Types, NEW turn \in request.todo, Skip(turn) \/ Keep(turn)
  PROVE  Types' /\ (Quiet => Quiet') /\ request'.pc = "compose"
<1>1. RequestOK' /\ request'.pc = "compose"
  <2>1. /\ RequestOK /\ request.pc = "compose"
        /\ turn[2] \in Resources /\ UNCHANGED <<form, lists, served>>
    BY TurnsSection DEF Types, Skip, Keep, Turn
  <2>2. CASE Skip(turn)
    BY <2>1, <2>2, EndedTurn, RequestKept DEF Skip, RequestOK
  <2>3. CASE Keep(turn)
    <3>1. PICK p \in Existing(turn[2]) :
            request' = [Ended(turn) EXCEPT !.made = Over(Only(turn[2], p), Ended(turn).made),
                                           !.used = Ended(turn).used \cup {p}]
      BY <2>3 DEF Keep
    <3> DEFINE made == Over(Only(turn[2], p), request.made)
    <3>2. DOMAIN made \subseteq Resources
      BY <2>1 DEF Over, Only, RequestOK
    <3>3. /\ DOMAIN request' = DOMAIN request /\ request'.made = made
          /\ request'.pc = request.pc /\ request'.by = request.by
          /\ request'.asked = request.asked /\ request'.late = request.late
          /\ request'.todo \subseteq request.todo
      BY <2>1, <3>1, EndedTurn DEF NoRequest, RequestOK
    <3> QED
      BY <2>1, <3>2, <3>3, RequestKept DEF RequestOK
  <2> QED
    BY <2>2, <2>3
<1>2. UNCHANGED <<form, rows, session, ex>>
  BY DEF Skip, Keep, tables, engine
<1>3. ExecutorOK'
  BY <1>2, ExecutorKept DEF Types
<1>4. IsTable(rows') /\ IsTable(session')
  BY <1>2 DEF Types
<1>5. Quiet => Quiet'
  BY <1>2 DEF Quiet, Calm, NoWork, HandedOver, AtOnce
<1> QED
  BY <1>1, <1>3, <1>4, <1>5 DEF Types

\* The roots that precede a new one are roots in use.
LEMMA PredecessorsFinite ==
  ASSUME RequestOK, NEW turn
  PROVE  IsFiniteSet(Predecessors(turn))
<1> DEFINE found == {RootOf(q) : q \in Found}
<1>1. IsFiniteSet(Found)
  BY FS_Subset, ResourcesAssumption DEF RequestOK, Found
<1>2. IsFiniteSet(found)
  BY <1>1, ImageIsFinite DEF RootOf
<1>3. Predecessors(turn) \subseteq found
  BY DEF Predecessors, Attached
<1> QED
  BY <1>2, <1>3, FS_Subset

LEMMA ReholdKeeps ==
  ASSUME Types, NEW turn \in request.todo, Rehold(turn)
  PROVE  Types' /\ (Quiet => Quiet') /\ request'.pc = "compose"
<1>1. PICK p \in Existing(turn[2]) :
        LET twice == Predecessors(turn) \cap Now(p).previous
            held == [Now(p) EXCEPT !.status = "ON_HOLD",
                                   !.previous = Now(p).previous \cup Predecessors(turn),
                                   !.doubled = Now(p).doubled \/ twice # {}]
            edges == [q \in twice |-> [Now(q) EXCEPT !.doubled = TRUE]]
        IN /\ request' = [Ended(turn) EXCEPT !.made = Over(Only(turn[2], p), Ended(turn).made),
                                             !.used = Ended(turn).used \cup {p}]
           /\ session' = Over(edges, Over(Only(p, held), session))
  BY DEF Rehold
<1> DEFINE twice == Predecessors(turn) \cap Now(p).previous
           held == [Now(p) EXCEPT !.status = "ON_HOLD",
                                  !.previous = Now(p).previous \cup Predecessors(turn),
                                  !.doubled = Now(p).doubled \/ twice # {}]
           edges == [q \in twice |-> [Now(q) EXCEPT !.doubled = TRUE]]
           made == Over(Only(turn[2], p), request.made)
<1>2. /\ RequestOK /\ turn[2] \in Resources /\ request.pc = "compose"
      /\ UNCHANGED <<form, lists, served, rows, ex>>
  BY TurnsSection DEF Types, Rehold, Turn, tables, engine
<1>3. RequestOK' /\ request'.pc = "compose"
  <2>1. DOMAIN made \subseteq Resources
    BY <1>2 DEF Over, Only, RequestOK
  <2>2. /\ DOMAIN request' = DOMAIN request /\ request'.made = made
        /\ request'.pc = request.pc /\ request'.by = request.by
        /\ request'.asked = request.asked /\ request'.late = request.late
        /\ request'.todo \subseteq request.todo
    BY <1>1, <1>2, EndedTurn DEF NoRequest, RequestOK
  <2> QED
    BY <1>2, <2>1, <2>2, RequestKept DEF RequestOK
<1>4. IsTable(session) /\ IsTable(rows)
  BY DEF Types
<1>5. IsRow(held) /\ held.status = "ON_HOLD"
  <2>1. IsRow(Now(p))
    BY <1>4, NowRow
  <2> QED
    BY <2>1, RowFields DEF IsRow, RootStatuses
<1>6. IsTable(Only(p, held)) /\ Calm(Only(p, held))
  BY <1>5, OnlyTable, OnlyCalm DEF IsWork, Runs
<1>7. \A q \in twice : /\ IsRow(edges[q])
                       /\ edges[q].status = Now(q).status /\ edges[q].here = Now(q).here
                       /\ edges[q].in_focus = Now(q).in_focus
  <2> SUFFICES ASSUME NEW q \in twice
               PROVE  /\ IsRow(edges[q])
                      /\ edges[q].status = Now(q).status /\ edges[q].here = Now(q).here
                      /\ edges[q].in_focus = Now(q).in_focus
    OBVIOUS
  <2>1. IsRow(Now(q))
    BY <1>4, NowRow
  <2>2. edges[q] = [Now(q) EXCEPT !.doubled = TRUE]
    OBVIOUS
  <2> QED
    BY <2>1, <2>2, RowFields DEF IsRow
<1>8. IsTable(edges)
  <2>1. IsFiniteSet(twice)
    BY <1>2, PredecessorsFinite, FS_Subset
  <2> QED
    BY <1>7, <2>1 DEF IsTable
<1>9. Quiet => Calm(edges)
  <2> SUFFICES ASSUME Quiet, NEW q \in twice
               PROVE  /\ ~IsWork(edges[q])
                      /\ edges[q].here /\ edges[q].status \in Runs => AtOnce(q)
    BY DEF Calm, NoWork, HandedOver
  <2>1. /\ ~IsWork(Now(q))
        /\ Now(q).here /\ Now(q).status \in Runs => AtOnce(q)
    BY <1>4, NowRow
  <2> QED
    BY <1>7, <2>1 DEF IsWork
<1>10. IsTable(session') /\ (Quiet => Calm(session'))
  <2>1. IsTable(Over(Only(p, held), session))
    BY <1>4, <1>6, OverTable
  <2>2. Quiet => Calm(Over(Only(p, held), session))
    BY <1>6, OverCalm DEF Quiet
  <2> QED
    BY <1>1, <1>8, <1>9, <2>1, <2>2, OverTable, OverCalm
<1>11. ExecutorOK'
  BY <1>2, ExecutorKept DEF Types
<1>12. Quiet => Quiet'
  BY <1>2, <1>10 DEF Quiet, Calm, NoWork, HandedOver, AtOnce
<1> QED
  BY <1>2, <1>3, <1>4, <1>10, <1>11, <1>12 DEF Types

LEMMA LaterDomain ==
  ASSUME RequestOK, NEW turn \in request.todo
  PROVE  DOMAIN Later(turn) \subseteq Resources
<1>1. turn[2] \in Resources
  BY TurnsSection
<1>2. Refers(turn[2]) \subseteq Resources
  BY <1>1, FormsAssumption DEF RequestOK, Refers
<1> QED
  BY <1>2, NothingTable DEF Later

\* The edges that were put off go to finitely many roots.
LEMMA PutOffFinite ==
  ASSUME NEW turn, NEW late, NEW done, DOMAIN late \subseteq Resources
  PROVE  IsFiniteSet(DOMAIN PutOff(turn, late, done))
<1> DEFINE named == {late[q] : q \in DOMAIN late \cap DOMAIN done}
<1>1. IsFiniteSet(DOMAIN late \cap DOMAIN done)
  BY ResourcesAssumption, FS_Subset
<1>2. IsFiniteSet(named)
  BY <1>1, ImageIsFinite
<1>3. DOMAIN PutOff(turn, late, done) \in {named, DOMAIN Nothing}
  BY DEF PutOff
<1> QED
  BY <1>2, <1>3, NothingTable, FS_EmptySet

\* What a turn that makes a root leaves in the session.
LEMMA MakesTable ==
  ASSUME Types, NEW kept, IsTable(kept), NEW put, IsFiniteSet(DOMAIN put)
  PROVE  LET row(q) == IF q \in DOMAIN kept THEN kept[q] ELSE Now(q)
             edges == [q \in DOMAIN put |->
                          [row(q) EXCEPT !.previous = row(q).previous \cup put[q]]]
         IN /\ IsTable(Over(edges, kept))
            /\ Quiet /\ Calm(kept) => Calm(Over(edges, kept))
<1> DEFINE row(q) == IF q \in DOMAIN kept THEN kept[q] ELSE Now(q)
           edges == [q \in DOMAIN put |->
                        [row(q) EXCEPT !.previous = row(q).previous \cup put[q]]]
<1>1. \A q : IsRow(row(q))
  BY NowRow DEF IsTable, Types
<1>2. \A q \in DOMAIN put : /\ IsRow(edges[q]) /\ edges[q].status = row(q).status
                            /\ edges[q].here = row(q).here
                            /\ edges[q].in_focus = row(q).in_focus
  <2> SUFFICES ASSUME NEW q \in DOMAIN put
               PROVE  /\ IsRow(edges[q]) /\ edges[q].status = row(q).status
                      /\ edges[q].here = row(q).here
                      /\ edges[q].in_focus = row(q).in_focus
    OBVIOUS
  <2>1. IsRow(row(q))
    BY <1>1
  <2>2. edges[q] = [row(q) EXCEPT !.previous = row(q).previous \cup put[q]]
    OBVIOUS
  <2> HIDE DEF row, edges
  <2> QED
    BY <2>1, <2>2, RowFields DEF IsRow
<1>3. IsTable(edges)
  BY <1>2 DEF IsTable
<1>4. ASSUME Quiet, Calm(kept) PROVE Calm(edges)
  <2> SUFFICES ASSUME NEW q \in DOMAIN put
               PROVE  /\ ~IsWork(edges[q])
                      /\ edges[q].here /\ edges[q].status \in Runs => AtOnce(q)
    BY DEF Calm, NoWork, HandedOver
  <2>1. /\ ~IsWork(row(q))
        /\ row(q).here /\ row(q).status \in Runs => AtOnce(q)
    <3>1. CASE q \in DOMAIN kept
      BY <1>4, <3>1 DEF Calm, NoWork, HandedOver, IsWork, Runs
    <3>2. CASE q \notin DOMAIN kept
      BY <1>4, <3>2, NowRow DEF Types
    <3> QED
      BY <3>1, <3>2
  <2> HIDE DEF row, edges
  <2> QED
    BY <1>2, <2>1 DEF IsWork
<1> HIDE DEF edges
<1>5. IsTable(Over(edges, kept))
  BY <1>3, OverTable
<1>6. Quiet /\ Calm(kept) => Calm(Over(edges, kept))
  BY <1>4, OverCalm
<1> QED
  BY <1>5, <1>6 DEF edges

LEMMA MakeKeeps ==
  ASSUME Types, NEW turn \in request.todo, Make(turn)
  PROVE  /\ Types' /\ (Quiet => Quiet') /\ request'.pc = "compose"
         /\ status' \in {status, "ON_HOLD"}
<1> DEFINE r == turn[2]
           p == Fresh(r)
           itself == IF RulesRead(turn) /\ r \in Refers(r)
                     THEN {p} ELSE {}
           previous == Predecessors(turn) \cup itself
           late == Over(Later(turn), request.late)
           done == IF Forgotten(turn, previous) THEN request.made
                   ELSE Over(Only(r, p), request.made)
           placed == Placed(turn, previous)
           kept == IF request.stored THEN placed ELSE Over(placed, session)
           put == PutOff(turn, late, done)
           row(q) == IF q \in DOMAIN kept THEN kept[q] ELSE Now(q)
           edges == [q \in DOMAIN put |->
                        [row(q) EXCEPT !.previous = row(q).previous \cup put[q]]]
<1>1. /\ Turn(turn) /\ ~PassedOver(turn) /\ Composes(turn)
      /\ session' = Over(edges, kept)
      /\ UNCHANGED <<form, lists, served, ex>>
  BY DEF Make, engine
<1>2. RequestOK /\ IsTable(session) /\ IsTable(rows) /\ r \in Resources
  BY TurnsSection DEF Types
<1>3. DOMAIN late \subseteq Resources
  <2>1. DOMAIN Later(turn) \subseteq Resources /\ DOMAIN request.late \subseteq Resources
    BY <1>2, LaterDomain DEF RequestOK
  <2> QED
    BY <2>1 DEF Over
<1>4. DOMAIN done \subseteq Resources
  BY <1>2 DEF Over, Only, RequestOK
<1>5. RequestOK' /\ request'.pc = "compose"
  <2>1. \E base, used, stored :
          request' = [Ended(turn) EXCEPT !.made = done, !.used = used, !.late = late,
                                         !.base = base, !.stored = stored]
    BY DEF Make
  <2> HIDE DEF late, done
  <2>2. /\ DOMAIN request' = DOMAIN request /\ request'.made = done
        /\ request'.pc = request.pc /\ request'.by = request.by
        /\ request'.asked = request.asked /\ request'.late = late
        /\ request'.todo \subseteq request.todo
    BY <1>2, <2>1, EndedTurn DEF NoRequest, RequestOK
  <2> QED
    BY <1>1, <1>2, <1>3, <1>4, <2>2, RequestKept DEF Turn
<1>6. IsTable(kept) /\ (Quiet => Calm(kept))
  <2>1. IsTable(placed) /\ (Quiet => Calm(placed))
    BY <1>1, PlacedTable
  <2> HIDE DEF placed
  <2>2. IsTable(Over(placed, session)) /\ (Quiet => Calm(Over(placed, session)))
    BY <1>2, <2>1, OverTable, OverCalm DEF Quiet
  <2> QED
    BY <2>1, <2>2
<1>7. IsFiniteSet(DOMAIN put)
  <2> HIDE DEF late, done
  <2> QED
    BY <1>3, PutOffFinite
<1>8. IsTable(session') /\ (Quiet => Calm(session'))
  <2> HIDE DEF kept, put
  <2> QED
    BY <1>1, <1>6, <1>7, MakesTable
<1>9. /\ IsTable(rows') /\ DOMAIN rows \subseteq DOMAIN rows'
      /\ Quiet => Calm(rows)'
      /\ status' \in {status, "ON_HOLD"}
  BY <1>1, ComposesTable
<1>10. ExecutorOK'
  BY <1>1, <1>9, ExecutorKept DEF Types
<1>11. Quiet => Quiet'
  <2>1. Calm(session') => Calm(session)'
    BY <1>1 DEF Calm, NoWork, HandedOver, AtOnce
  <2> QED
    BY <1>8, <1>9, <2>1 DEF Quiet
<1> QED
  BY <1>5, <1>8, <1>9, <1>10, <1>11 DEF Types

LEMMA RaiseKeeps ==
  ASSUME Types, NEW turn \in request.todo, Raise(turn)
  PROVE  /\ Types' /\ (Quiet => Quiet') /\ status' \in {status, "ON_HOLD"}
         /\ request'.pc = "idle" /\ session' = Nothing /\ served' > 0
<1>1. /\ request' = NoRequest /\ session' = Nothing /\ served' = served + 1
      /\ UNCHANGED <<form, lists, ex>> /\ request.pc = "compose"
  BY DEF Raise, engine, Turn
<1>2. RequestOK /\ served' \in Nat /\ served' > 0
  BY <1>1 DEF Types, RequestOK
<1>3. RequestOK'
  <2>1. lists' \in {form.asked, form.again}
    BY <1>1, <1>2 DEF RequestOK
  <2> QED
    BY <1>1, <1>2, <2>1, NothingAsked, RequestWithout
<1>4. /\ IsTable(rows') /\ DOMAIN rows \subseteq DOMAIN rows'
      /\ Quiet => Calm(rows)'
      /\ status' \in {status, "ON_HOLD"}
  <2>1. CASE Reheld(turn)
    BY <1>1, <2>1 DEF Raise, tables, Types, Quiet, Calm, NoWork, HandedOver, AtOnce
  <2>2. CASE ~Reheld(turn)
    BY <1>1, <2>2, ComposesTable DEF Raise
  <2> QED
    BY <2>1, <2>2
<1>5. IsTable(session') /\ Calm(session)'
  BY <1>1, NothingTable DEF Calm, NoWork, HandedOver
<1>6. ExecutorOK'
  BY <1>1, <1>4, ExecutorKept DEF Types
<1> QED
  BY <1>1, <1>2, <1>3, <1>4, <1>5, <1>6, NothingAsked DEF Types, Quiet

-----------------------------------------------------------------------------
(* Requests.                                                               *)

\* A row is written to.
LEMMA RowWritten ==
  ASSUME IsTable(rows), NEW p, NEW to \in RootStatuses,
         rows' = [rows EXCEPT ![p].status = to]
  PROVE  /\ IsTable(rows') /\ DOMAIN rows' = DOMAIN rows
         /\ \A q \in DOMAIN rows :
               /\ rows'[q].status = IF q = p THEN to ELSE rows[q].status
               /\ rows'[q].here = rows[q].here
               /\ rows'[q].in_focus = rows[q].in_focus
               /\ rows'[q].previous = rows[q].previous
<1>1. DOMAIN rows' = DOMAIN rows
  OBVIOUS
<1>2. ASSUME NEW q \in DOMAIN rows
      PROVE  /\ IsRow(rows'[q])
             /\ rows'[q].status = IF q = p THEN to ELSE rows[q].status
             /\ rows'[q].here = rows[q].here
             /\ rows'[q].in_focus = rows[q].in_focus
             /\ rows'[q].previous = rows[q].previous
  <2>1. CASE q = p
    <3>1. rows'[q] = [rows[q] EXCEPT !.status = to]
      BY <2>1
    <3>2. IsRow(rows[q])
      BY DEF IsTable
    <3>3. LET new == [rows[q] EXCEPT !.status = to] IN
          IsRow(new) /\ new.status = to /\ new.here = rows[q].here
          /\ new.in_focus = rows[q].in_focus /\ new.previous = rows[q].previous
      BY <3>2, RowWithStatus
    <3> QED
      BY <2>1, <3>1, <3>3
  <2>2. CASE q # p
    BY <2>2 DEF IsTable
  <2> QED
    BY <2>1, <2>2
<1> QED
  BY <1>1, <1>2 DEF IsTable

\* What the steps of a request have in common.
ServesWell ==
  /\ Types' /\ (Quiet => Quiet')
  /\ status' \in {status, "ON_HOLD", "PENDING", "ON_HOLD_WITH_SUCCESS"}
  /\ request'.pc # "compose" => session' = Nothing
  /\ request'.pc = "idle" => served' > 0
  /\ UNCHANGED <<form, overlapped, engine>>

LEMMA TurnServes ==
  ASSUME Types, NEW turn \in request.todo,
         Skip(turn) \/ Keep(turn) \/ Rehold(turn) \/ Make(turn) \/ Raise(turn)
  PROVE  ServesWell
<1>1. CASE Raise(turn)
  BY <1>1, RaiseKeeps DEF ServesWell, Raise
<1>2. CASE Skip(turn) \/ Keep(turn) \/ Rehold(turn) \/ Make(turn)
  <2>1. Types' /\ (Quiet => Quiet') /\ request'.pc = "compose"
    BY <1>2, SkipKeeps, ReholdKeeps, MakeKeeps
  <2>2. status' \in {status, "ON_HOLD"}
    BY <1>2, SkipKeeps, ReholdKeeps, MakeKeeps DEF Skip, Keep, Rehold, tables
  <2>3. UNCHANGED <<form, overlapped, engine>>
    BY <1>2 DEF Skip, Keep, Rehold, Make
  <2> QED
    BY <2>1, <2>2, <2>3 DEF ServesWell
<1> QED
  BY <1>1, <1>2

LEMMA FinishServes == ASSUME Types, Finish PROVE ServesWell
<1>1. /\ request.pc = "compose" /\ Commit(session) /\ session' = Nothing
      /\ UNCHANGED <<form, overlapped, engine, ex>>
  BY DEF Finish, engine
<1>2. RequestOK /\ IsTable(session) /\ IsTable(rows)
  BY DEF Types
<1>3. /\ IsTable(rows') /\ DOMAIN rows \subseteq DOMAIN rows'
      /\ status' \in {status, "ON_HOLD"}
      /\ Quiet => Calm(rows)'
  <2>1. rows' = Over(session, rows) /\ status' \in {status, "ON_HOLD"}
    BY <1>1 DEF Commit, Flushed
  <2>2. Quiet => Calm(Over(session, rows))
    BY OverCalm DEF Quiet
  <2>3. Quiet => Calm(rows)'
    BY <1>1, <2>1, <2>2 DEF Calm, NoWork, HandedOver, AtOnce
  <2>4. DOMAIN rows \subseteq DOMAIN Over(session, rows)
    BY OverDomain
  <2> QED
    BY <1>2, <2>1, <2>3, <2>4, OverTable
<1>4. RequestOK' /\ request'.pc # "compose" /\ (request'.pc = "idle" => served' > 0)
  <2>1. CASE request' = NoRequest /\ served' = served + 1 /\ UNCHANGED lists
    <3>1. lists' \in {form.asked, form.again}
      BY <1>1, <1>2, <2>1 DEF RequestOK
    <3>2. RequestOK'
      BY <1>1, <1>2, <2>1, <3>1, NothingAsked, RequestWithout DEF RequestOK
    <3> QED
      BY <1>2, <2>1, <3>2, NothingAsked DEF RequestOK
  <2>2. CASE \E pc \in {"provision", "stale"} : \E roots :
               /\ request' = [request EXCEPT !.pc = pc, !.roots = roots]
               /\ lists' \in {lists, request.asked} /\ UNCHANGED served
    <3>1. /\ DOMAIN request' = DOMAIN NoRequest /\ request'.pc \in {"provision", "stale"}
          /\ request'.made = request.made /\ request'.late = request.late
          /\ request'.asked = request.asked /\ request'.by = request.by
          /\ request'.todo = request.todo
      BY <1>2, <2>2 DEF RequestOK, NoRequest
    <3>2. lists' \in {form'.asked, form'.again}
      BY <1>1, <1>2, <2>2 DEF RequestOK
    <3>3. request'.todo \subseteq Turns(request'.by, request'.asked)
      BY <1>2, <3>1 DEF RequestOK
    <3> QED
      BY <1>1, <1>2, <2>2, <3>1, <3>2, <3>3 DEF RequestOK, Turns, Kind
  <2> QED
    BY <1>1, <2>1, <2>2 DEF Finish
<1>5. ExecutorOK' /\ IsTable(session') /\ Calm(session)'
  BY <1>1, <1>3, ExecutorKept, NothingTable DEF Types, Calm, NoWork, HandedOver
<1> QED
  BY <1>1, <1>3, <1>4, <1>5 DEF Types, ServesWell, Quiet

\* A request that goes on with other roots, with or without another status.
LEMMA RequestGoesOn ==
  ASSUME RequestOK, UNCHANGED <<form, lists, served>>, request.pc \in {"stale", "provision", "pick"},
         NEW root, NEW roots,
         \/ request' = [request EXCEPT !.roots = roots]
         \/ request' = [request EXCEPT !.root = root]
         \/ request' = [request EXCEPT !.roots = roots, !.root = root]
  PROVE  RequestOK' /\ request'.pc = request.pc
<1>1. /\ DOMAIN request' = DOMAIN request /\ request'.pc = request.pc
      /\ request'.by = request.by /\ request'.asked = request.asked
      /\ request'.todo = request.todo /\ request'.made = request.made
      /\ request'.late = request.late
  BY DEF RequestOK, NoRequest
<1> QED
  BY <1>1, RequestKept DEF RequestOK

LEMMA ReadyCalm ==
  ASSUME IsTable(rows), NEW p, NEW to \in {"READY"}, form' = form,
         rows' = [rows EXCEPT ![p].status = to]
  PROVE  IsTable(rows') /\ DOMAIN rows' = DOMAIN rows /\ (Calm(rows) => Calm(rows)')
<1>1. to \in RootStatuses
  BY DEF RootStatuses
<1>2. /\ IsTable(rows') /\ DOMAIN rows' = DOMAIN rows
      /\ \A q \in DOMAIN rows :
            /\ rows'[q].status = IF q = p THEN to ELSE rows[q].status
            /\ rows'[q].here = rows[q].here
            /\ rows'[q].in_focus = rows[q].in_focus
  BY <1>1, RowWritten
<1> QED
  BY <1>2 DEF Calm, NoWork, HandedOver, IsWork, Runs, AtOnce

LEMMA DropStaleServes ==
  ASSUME Types, session = Nothing, NEW p, DropStale(p)
  PROVE  ServesWell
<1>1. /\ request.pc = "stale" /\ UNCHANGED <<form, status, lists, session, served, overlapped, engine, ex>>
      /\ request' = [request EXCEPT !.roots = request.roots \ {p}]
      /\ rows' = IF rows[p].doubled THEN rows
                 ELSE [q \in DOMAIN rows |-> IF q = p THEN Absent
                            ELSE [rows[q] EXCEPT !.previous = rows[q].previous \ {p}]]
  BY DEF DropStale, engine
<1>2. IsTable(rows) /\ RequestOK
  BY DEF Types
<1>3. /\ DOMAIN rows' = DOMAIN rows
      /\ \A q \in DOMAIN rows :
            /\ IsRow(rows'[q])
            /\ ~rows'[q].here \/ /\ rows'[q].here = rows[q].here
                                 /\ rows'[q].status = rows[q].status
                                 /\ rows'[q].in_focus = rows[q].in_focus
  <2>1. CASE rows[p].doubled
    BY <1>1, <1>2, <2>1 DEF IsTable
  <2>2. CASE ~rows[p].doubled
    <3>1. DOMAIN rows' = DOMAIN rows
      BY <1>1, <2>2
    <3>2. ASSUME NEW q \in DOMAIN rows
          PROVE  /\ IsRow(rows'[q])
                 /\ ~rows'[q].here \/ /\ rows'[q].here = rows[q].here
                                      /\ rows'[q].status = rows[q].status
                                      /\ rows'[q].in_focus = rows[q].in_focus
      <4>1. CASE q = p
        BY <1>1, <2>2, <4>1, AbsentRow
      <4>2. CASE q # p
        <5>1. rows'[q] = [rows[q] EXCEPT !.previous = rows[q].previous \ {p}]
          BY <1>1, <2>2, <4>2
        <5>2. IsRow(rows[q])
          BY <1>2 DEF IsTable
        <5> QED
          BY <5>1, <5>2, RowFields DEF IsRow
      <4> QED
        BY <4>1, <4>2
    <3> QED
      BY <3>1, <3>2
  <2> QED
    BY <2>1, <2>2
<1>4. IsTable(rows') /\ (Calm(rows) => Calm(rows)')
  <2>1. IsTable(rows')
    BY <1>2, <1>3 DEF IsTable
  <2>2. Calm(rows) => Calm(rows)'
    BY <1>1, <1>3 DEF Calm, NoWork, HandedOver, IsWork, AtOnce
  <2> QED
    BY <2>1, <2>2
<1>5. RequestOK' /\ request'.pc = "stale"
  BY <1>1, <1>2, RequestGoesOn
<1>6. ExecutorOK' /\ IsTable(session') /\ Calm(session)'
  BY <1>1, <1>3, ExecutorKept, NothingTable DEF Types, Calm, NoWork, HandedOver
<1> QED
  BY <1>1, <1>4, <1>5, <1>6 DEF Types, ServesWell, Quiet

LEMMA ProvisionServes ==
  ASSUME Types, session = Nothing, NEW p, Provision(p) \/ Pick(p)
  PROVE  ServesWell
<1>1. /\ request.pc \in {"provision", "pick"}
      /\ UNCHANGED <<form, lists, session, served, overlapped, engine, ex>>
      /\ rows' \in {rows, [rows EXCEPT ![p].status = "READY"]}
      /\ status' \in {status, "PENDING"}
  BY DEF Provision, Pick, SetReady, tables, engine
<1>2. IsTable(rows) /\ RequestOK
  BY DEF Types
<1>3. RequestOK' /\ request'.pc = request.pc
  <2>1. CASE Provision(p)
    <3>1. request' = [request EXCEPT !.roots = request.roots \ {p}]
      BY <2>1 DEF Provision
    <3> QED
      BY <1>1, <1>2, <3>1, RequestGoesOn
  <2>2. CASE Pick(p)
    <3>1. \E root : request' = [request EXCEPT !.roots = request.roots \ {p}, !.root = root]
      BY <2>2 DEF Pick
    <3> QED
      BY <1>1, <1>2, <3>1, RequestGoesOn
  <2> QED
    BY <2>1, <2>2
<1>4. IsTable(rows') /\ DOMAIN rows' = DOMAIN rows /\ (Calm(rows) => Calm(rows)')
  <2>1. CASE rows' = rows
    BY <1>1, <1>2, <2>1 DEF Calm, NoWork, HandedOver, AtOnce
  <2>2. CASE rows' = [rows EXCEPT ![p].status = "READY"]
    BY <1>1, <1>2, <2>2, ReadyCalm
  <2> QED
    BY <1>1, <2>1, <2>2
<1>5. ExecutorOK' /\ IsTable(session') /\ Calm(session)'
  BY <1>1, <1>4, ExecutorKept, NothingTable DEF Types, Calm, NoWork, HandedOver
<1> QED
  BY <1>1, <1>3, <1>4, <1>5 DEF Types, ServesWell, Quiet

LEMMA ReadyServes ==
  ASSUME Types, session = Nothing, Ready
  PROVE  ServesWell
<1>1. /\ request.pc = "pick"
      /\ UNCHANGED <<form, lists, session, served, overlapped, engine, ex>>
      /\ rows' = [rows EXCEPT ![request.root].status = "READY"]
      /\ status' \in {status, "PENDING"}
      /\ request' = [request EXCEPT !.root = NoRoot]
  BY DEF Ready, SetReady, engine
<1>2. IsTable(rows) /\ RequestOK
  BY DEF Types
<1>3. RequestOK' /\ request'.pc = request.pc
  BY <1>1, <1>2, RequestGoesOn
<1>4. IsTable(rows') /\ DOMAIN rows' = DOMAIN rows /\ (Calm(rows) => Calm(rows)')
  BY <1>1, <1>2, ReadyCalm
<1>5. ExecutorOK' /\ IsTable(session') /\ Calm(session)'
  BY <1>1, <1>4, ExecutorKept, NothingTable DEF Types, Calm, NoWork, HandedOver
<1> QED
  BY <1>1, <1>3, <1>4, <1>5 DEF Types, ServesWell, Quiet

LEMMA DoneServes ==
  ASSUME Types, session = Nothing, FinishUpdate \/ Provisioned
  PROVE  ServesWell
<1>1. /\ request.pc \in {"stale", "provision", "pick"} /\ request' = NoRequest
      /\ served' = served + 1
      /\ UNCHANGED <<form, rows, lists, session, overlapped, engine, ex>>
      /\ status' \in {status, "PENDING", "ON_HOLD_WITH_SUCCESS"}
  BY DEF FinishUpdate, Provisioned, engine
<1>2. RequestOK' /\ served' > 0
  <2>1. lists' \in {form.asked, form.again} /\ served' \in Nat /\ served' > 0
    BY <1>1 DEF Types, RequestOK
  <2> QED
    BY <1>1, <2>1, NothingAsked, RequestWithout DEF Types
<1>3. ExecutorOK' /\ IsTable(session') /\ Calm(session)' /\ IsTable(rows')
  BY <1>1, ExecutorKept, NothingTable DEF Types, Calm, NoWork, HandedOver
<1>4. Calm(rows) => Calm(rows)'
  BY <1>1 DEF Calm, NoWork, HandedOver, AtOnce
<1> QED
  BY <1>1, <1>2, <1>3, <1>4, NothingAsked DEF Types, ServesWell, Quiet

\* Every step of a request.
LEMMA Serves ==
  ASSUME Types, request.pc # "compose" => session = Nothing, Serve
  PROVE  ServesWell
<1>1. CASE \E turn \in request.todo :
              Skip(turn) \/ Keep(turn) \/ Rehold(turn) \/ Make(turn) \/ Raise(turn)
  BY <1>1, TurnServes
<1>2. CASE Finish
  BY <1>2, FinishServes
<1>3. CASE FinishUpdate \/ Provisioned
  BY <1>3, DoneServes DEF FinishUpdate, Provisioned
<1>4. CASE Ready
  BY <1>4, ReadyServes DEF Ready
<1>5. ASSUME NEW p \in request.roots, DropStale(p) \/ Provision(p) \/ Pick(p)
      PROVE  ServesWell
  BY <1>5, DropStaleServes, ProvisionServes DEF DropStale, Provision, Pick
<1> QED
  BY <1>1, <1>2, <1>3, <1>4, <1>5 DEF Serve

\* The requests that begin.  One that meets the engine is marked.
AsksWell ==
  /\ Types' /\ (Quiet => Quiet')
  /\ request.pc = "idle" /\ status' \in {status, "ON_HOLD", "absent"}
  /\ request'.pc # "compose" => session' = Nothing
  /\ request'.pc = "idle" => served' > 0
  /\ ~overlapped' => ~overlapped /\ (served = 0 \/ ~Busy)
  /\ UNCHANGED <<form, engine>>

LEMMA ComposingOK ==
  ASSUME RequestOK, NEW by, NEW asked \in {form.asked, form.again}, Composing(by, asked),
         lists' \in {form.asked, form.again}, form' = form, served' = served,
         by = "update" => \A r \in asked : r \in lists' \/ r \notin form.asked
  PROVE  RequestOK' /\ request'.pc = "compose"
<1>1. \E stored, restores :
        request' = [NoRequest EXCEPT
                      !.pc = "compose", !.by = by, !.asked = asked, !.todo = Agenda(by, asked),
                      !.stored = stored, !.restores = restores]
  BY DEF Composing
<1>2. /\ DOMAIN request' = DOMAIN NoRequest /\ request'.pc = "compose" /\ request'.by = by
      /\ request'.asked = asked /\ request'.todo = Agenda(by, asked)
      /\ request'.made = NoRequest.made /\ request'.late = NoRequest.late
  BY <1>1 DEF NoRequest
<1>3. request'.todo \subseteq Turns(request'.by, request'.asked)
  BY <1>2 DEF Agenda, Turns
<1>4. asked \subseteq Resources
  BY FormsAssumption DEF RequestOK
<1> QED
  BY <1>2, <1>3, <1>4, NothingAsked DEF RequestOK, Turns, Kind

LEMMA ComposingAsks ==
  ASSUME Types, session = Nothing, Create \/ Restore \/ update_workspace
  PROVE  AsksWell
<1>1. /\ request.pc = "idle" /\ UNCHANGED <<form, rows, session, served, engine, ex>>
      /\ status' \in {status, "ON_HOLD"}
  BY DEF Create, Restore, update_workspace, Again, tables, engine
<1>2. ~overlapped' => ~overlapped /\ (served = 0 \/ ~Busy)
  <2>1. CASE update_workspace
    <3>1. overlapped' = (overlapped \/ Busy)
      BY <2>1 DEF update_workspace
    <3> QED
      BY <3>1, Zenon
  <2>2. CASE Create \/ Restore
    BY <2>2 DEF Create, Restore
  <2> QED
    BY <2>1, <2>2
<1>3. RequestOK /\ form \in Forms
  BY DEF Types, RequestOK
<1>4. RequestOK' /\ request'.pc = "compose"
  <2>1. CASE Create
    <3>1. Composing("update", form.asked) /\ lists' = form.asked
      BY <2>1 DEF Create
    <3> QED
      BY <1>1, <1>3, <3>1, ComposingOK
  <2>2. CASE Restore
    <3>1. Composing("create", form.asked) /\ lists' = form.asked
      BY <2>2 DEF Restore
    <3> QED
      BY <1>1, <1>3, <3>1, ComposingOK
  <2>3. CASE update_workspace
    <3>1. Composing("update", form.again) /\ served > 0 /\ lists' = lists
      BY <1>3, <2>3, FormsAssumption DEF update_workspace, Again
    <3>2. lists' \in {form.asked, form.again}
      BY <1>3, <3>1 DEF RequestOK
    <3>3. \A r \in form.again : r \in lists' \/ r \notin form.asked
      BY <3>2
    <3> QED
      BY <1>1, <1>3, <3>1, <3>2, <3>3, ComposingOK
  <2> QED
    BY <2>1, <2>2, <2>3
<1>5. ExecutorOK' /\ IsTable(session') /\ IsTable(rows')
  BY <1>1, ExecutorKept DEF Types
<1>6. Quiet => Quiet'
  BY <1>1 DEF Quiet, Calm, NoWork, HandedOver, AtOnce
<1> QED
  BY <1>1, <1>2, <1>4, <1>5, <1>6 DEF Types, AsksWell

LEMMA ProvisioningAsks ==
  ASSUME Types, session = Nothing,
         provision_workspace \/ \E picked \in SUBSET Here \ {{}} : provision_roots(picked)
  PROVE  AsksWell
<1>1. /\ request.pc = "idle" /\ served > 0
      /\ UNCHANGED <<form, rows, status, lists, session, served, engine, ex>>
  <2>1. form.more \in Nat
    BY FormsAssumption DEF Types, RequestOK
  <2>2. CASE provision_workspace
    BY <2>1, <2>2 DEF provision_workspace, Again, tables, engine
  <2>3. ASSUME NEW those, provision_roots(those)
        PROVE  /\ request.pc = "idle" /\ served > 0
               /\ UNCHANGED <<form, rows, status, lists, session, served, engine, ex>>
    <3>1. Again /\ UNCHANGED <<form, tables, lists, session, served, engine>>
      BY <2>3 DEF provision_roots
    <3> QED
      BY <2>1, <3>1 DEF Again, tables, engine
  <2> QED
    BY <2>2, <2>3
<1>2. ~overlapped' => ~overlapped /\ ~Busy
  <2>1. overlapped' = (overlapped \/ Busy)
    BY DEF provision_workspace, provision_roots
  <2> QED
    BY <2>1, Zenon
<1>3. /\ DOMAIN request' = DOMAIN NoRequest /\ request'.pc \in {"provision", "pick"}
      /\ request'.made = NoRequest.made /\ request'.late = NoRequest.late
      /\ request'.todo = NoRequest.todo /\ request'.asked = NoRequest.asked
  <2>1. \/ \E roots : request' = [NoRequest EXCEPT !.pc = "provision", !.roots = roots]
        \/ \E roots : request' = [NoRequest EXCEPT !.pc = "pick", !.roots = roots]
    BY DEF provision_workspace, provision_roots
  <2> QED
    BY <2>1 DEF NoRequest
<1>4. RequestOK'
  <2>1. RequestOK /\ lists' \in {form.asked, form.again} /\ served' \in Nat
    BY <1>1 DEF Types, RequestOK
  <2> QED
    BY <1>1, <1>3, <2>1, RequestWithout
<1>5. ExecutorOK' /\ IsTable(session') /\ IsTable(rows')
  BY <1>1, ExecutorKept DEF Types
<1>6. Quiet => Quiet'
  BY <1>1 DEF Quiet, Calm, NoWork, HandedOver, AtOnce
<1> QED
  BY <1>1, <1>2, <1>3, <1>4, <1>5, <1>6 DEF Types, AsksWell

LEMMA DeletingAsks ==
  ASSUME Types, session = Nothing, delete_workspace
  PROVE  AsksWell
<1>1. /\ request.pc = "idle" /\ served' = served + 1 /\ status' = "absent"
      /\ UNCHANGED <<form, lists, request, session, engine, ex>>
      /\ rows' = [p \in DOMAIN rows |-> [rows[p] EXCEPT !.here = FALSE]]
      /\ served > 0
  BY FormsAssumption DEF Types, RequestOK, delete_workspace, Again, engine
<1>2. ~overlapped' => ~overlapped /\ ~Busy
  <2>1. overlapped' = (overlapped \/ Busy)
    BY DEF delete_workspace
  <2> QED
    BY <2>1, Zenon
<1>3. IsTable(rows) /\ RequestOK
  BY DEF Types
<1>4. DOMAIN rows' = DOMAIN rows /\ \A p \in DOMAIN rows : IsRow(rows'[p]) /\ ~rows'[p].here
  <2> SUFFICES ASSUME NEW p \in DOMAIN rows PROVE IsRow(rows'[p]) /\ ~rows'[p].here
    BY <1>1
  <2>1. rows'[p] = [rows[p] EXCEPT !.here = FALSE]
    BY <1>1
  <2>2. IsRow(rows[p])
    BY <1>3 DEF IsTable
  <2> QED
    BY <2>1, <2>2, RowFields DEF IsRow
<1>5. IsTable(rows') /\ Calm(rows)'
  BY <1>3, <1>4 DEF IsTable, Calm, NoWork, HandedOver, IsWork
<1>6. RequestOK'
  <2>1. request'.todo \subseteq Turns(request'.by, request'.asked) /\ served' \in Nat /\ served' > 0
    BY <1>1, <1>3 DEF RequestOK
  <2> QED
    BY <1>1, <1>3, <2>1 DEF RequestOK, Turns, Kind
<1>7. ExecutorOK' /\ IsTable(session') /\ Calm(session)'
  BY <1>1, <1>4, ExecutorKept, NothingTable DEF Types, Calm, NoWork, HandedOver
<1> QED
  BY <1>1, <1>2, <1>3, <1>5, <1>6, <1>7 DEF Types, AsksWell, Quiet, RequestOK

LEMMA Asks ==
  ASSUME Types, request.pc # "compose" => session = Nothing, Ask
  PROVE  AsksWell
<1>1. session = Nothing
  BY DEF Ask, Create, Restore, update_workspace, provision_workspace, delete_workspace,
     provision_roots, Again
<1> QED
  BY <1>1, ComposingAsks, ProvisioningAsks, DeletingAsks DEF Ask

\* While the engine rests, a quiet table is all there is to show.
LEMMA EngineAsleep ==
  ASSUME Quiet', EngineRests, UNCHANGED engine, status' \notin {"INITIATED", "RUNNING"},
         request'.pc = "idle" => served' # 0
  PROVE  Undisturbed'
<1>1. manager' = None /\ ~message' /\ ex'.pc = "idle" /\ None # "found"
  BY DEF EngineRests, engine, broker, None
<1>2. Apart'
  BY <1>1 DEF Apart, EngineRests
<1>3. WorkCounted' /\ Acknowledged' /\ WalkInOrder'
  BY <1>1 DEF WorkCounted, Acknowledged, WalkInOrder, Quiet, Calm
<1> QED
  BY <1>2, <1>3 DEF Undisturbed, Quiet, Calm

LEMMA QuietAtRest ==
  ASSUME Undisturbed, status # "RUNNING"
  PROVE  Quiet
BY DEF Undisturbed, Quiet, Calm, WorkCounted

LEMMA RequestsKeep ==
  ASSUME WInv, Ask \/ Serve
  PROVE  WInv'
<1>1. Types /\ (request.pc # "compose" => session = Nothing)
  BY DEF WInv, SessionOpen
<1>2. CASE Serve
  <2>1. ServesWell
    BY <1>1, <1>2, Serves
  <2>2. request.pc # "idle"
    BY <1>2 DEF Serve, Skip, Keep, Rehold, Make, Raise, Turn, Finish, FinishUpdate, Ready,
       Provisioned, DropStale, Provision, Pick
  <2>3. ASSUME ~overlapped' PROVE Undisturbed'
    <3>1. Undisturbed
      BY <2>1, <2>3 DEF ServesWell, WInv
    <3>2. EngineRests /\ status \notin {"INITIATED", "RUNNING"}
      BY <2>2, <3>1 DEF Undisturbed, Apart
    <3>3. Quiet'
      BY <2>1, <3>1, <3>2, QuietAtRest DEF ServesWell
    <3>4. /\ status' \notin {"INITIATED", "RUNNING"} /\ UNCHANGED engine
          /\ request'.pc = "idle" => served' # 0
      BY <2>1, <3>2 DEF ServesWell, Types, RequestOK
    <3> QED
      BY <3>2, <3>3, <3>4, EngineAsleep
  <2> QED
    BY <2>1, <2>3 DEF ServesWell, WInv, SessionOpen
<1>3. CASE Ask
  <2>1. AsksWell
    BY <1>1, <1>3, Asks
  <2>2. ASSUME ~overlapped' PROVE Undisturbed'
    <3>1. Undisturbed /\ (served = 0 \/ ~Busy) /\ request.pc = "idle"
      BY <2>1, <2>2 DEF AsksWell, WInv
    <3>2. EngineRests /\ status \notin {"INITIATED", "RUNNING"}
      BY <3>1 DEF Undisturbed, Apart, Busy, EngineRests
    <3>3. Quiet'
      BY <2>1, <3>1, <3>2, QuietAtRest DEF AsksWell
    <3>4. /\ status' \notin {"INITIATED", "RUNNING"} /\ UNCHANGED engine
          /\ request'.pc = "idle" => served' # 0
      BY <2>1, <3>2 DEF AsksWell, Types, RequestOK
    <3> QED
      BY <3>2, <3>3, <3>4, EngineAsleep
  <2> QED
    BY <2>1, <2>2 DEF AsksWell, WInv, SessionOpen
<1> QED
  BY <1>2, <1>3

-----------------------------------------------------------------------------
(* In the beginning.                                                       *)

LEMMA InitWInv == Init => WInv
<1> SUFFICES ASSUME Init PROVE WInv
  OBVIOUS
<1>1. /\ form \in Forms /\ rows = Nothing /\ session = Nothing /\ status = "absent"
      /\ request = NoRequest /\ served = 0 /\ manager = None /\ ~message /\ ex = Resting
  BY DEF Init
<1>2. IsTable(rows) /\ IsTable(session) /\ Quiet
  BY <1>1, NothingTable, NothingCalm DEF Quiet
<1>3. RequestOK
  BY <1>1, NothingAsked DEF RequestOK
<1>4. ExecutorOK
  BY <1>1 DEF ExecutorOK, Resting
<1>5. ex.pc = "idle" /\ None # "found"
  BY <1>1 DEF Resting, None
<1>6. Apart
  BY <1>1, <1>5, NothingAsked DEF Apart, EngineRests
<1>7. WorkCounted /\ Acknowledged /\ WalkInOrder
  BY <1>1, <1>2, <1>5 DEF WorkCounted, Acknowledged, WalkInOrder, Quiet, Calm
<1> QED
  BY <1>1, <1>2, <1>3, <1>4, <1>6, <1>7 DEF WInv, Types, SessionOpen, Undisturbed, Quiet, Calm

-----------------------------------------------------------------------------
(* workspace_manager.                                                      *)

LEMMA WalkUnchanged ==
  ASSUME WalkInOrder, UNCHANGED <<form, rows, ex>>, status' = "RUNNING" => status = "RUNNING"
  PROVE  WalkInOrder'
<1>1. Planned' <=> Planned
  BY DEF Planned, Closed, Here, AtOnce
<1>2. ListedOnce' <=> ListedOnce
  BY DEF ListedOnce, Here
<1>3. \A p : /\ Waiting(p)' <=> Waiting(p)
             /\ HeldBack(p)' <=> HeldBack(p)
             /\ Ahead(p)' <=> Ahead(p)
  BY DEF Waiting, HeldBack, Ahead, Holds, HasTurn, Successful, Here
<1> QED
  BY <1>1, <1>2, <1>3 DEF WalkInOrder, Here

\* Only the status of the workspace and what the broker holds has changed.
LEMMA RowsUnchanged ==
  ASSUME Undisturbed, UNCHANGED <<form, rows, session, ex>>,
         status' = "RUNNING" => status = "RUNNING"
  PROVE  /\ Calm(session)' /\ HandedOver(rows)' /\ Acknowledged' /\ WalkInOrder'
         /\ (status = "RUNNING" => status' = "RUNNING") => WorkCounted'
         /\ NoWork(rows)' <=> NoWork(rows)
<1>1. Calm(session)' /\ HandedOver(rows)'
  BY DEF Undisturbed, Calm, NoWork, HandedOver, AtOnce
<1>2. NoWork(rows)' <=> NoWork(rows)
  BY DEF NoWork
<1>3. Acknowledged'
  BY DEF Undisturbed, Acknowledged, Successful
<1>4. WalkInOrder'
  BY WalkUnchanged DEF Undisturbed
<1>5. ASSUME status = "RUNNING" => status' = "RUNNING" PROVE WorkCounted'
  <2>1. \A p : HasTurn(p)' <=> HasTurn(p)
    BY DEF HasTurn
  <2> QED
    BY <1>2, <1>5, <2>1 DEF Undisturbed, WorkCounted
<1> QED
  BY <1>1, <1>2, <1>3, <1>4, <1>5

\* The engine leaves the requests alone.
LEMMA EngineTypes ==
  ASSUME Types, SessionOpen, UNCHANGED untouched, IsTable(rows'), ExecutorOK'
  PROVE  Types' /\ SessionOpen'
<1>1. UNCHANGED <<form, lists, request, session, served>>
  BY DEF untouched, serving
<1>2. RequestOK'
  <2>1. request'.todo \subseteq Turns(request'.by, request'.asked)
    BY <1>1 DEF Types, RequestOK
  <2> QED
    BY <1>1, <2>1 DEF Types, RequestOK, Turns, Kind
<1> QED
  BY <1>1, <1>2 DEF Types, SessionOpen

LEMMA ManagerKeeps ==
  ASSUME WInv, Manager
  PROVE  WInv'
<1>1. UNCHANGED <<rows, ex>> /\ UNCHANGED untouched
  BY DEF Manager, ManagerScan, ManagerInitiate, ManagerSend, tables
<1>2. Types' /\ SessionOpen'
  <2>1. ExecutorOK' /\ IsTable(rows')
    BY <1>1, ExecutorKept DEF WInv, Types
  <2> QED
    BY <1>1, <2>1, EngineTypes DEF WInv
<1>3. ~overlapped' => ~overlapped
  <2>1. overlapped' = (overlapped \/ request.pc # "idle") \/ overlapped' = overlapped
    BY DEF Manager, ManagerScan, ManagerInitiate, ManagerSend
  <2> QED
    BY <2>1, Zenon
<1>4. ASSUME ~overlapped' PROVE Undisturbed'
  <2>1. Undisturbed
    BY <1>3, <1>4 DEF WInv
  <2>2. UNCHANGED <<form, rows, session, ex, request, served>>
    BY <1>1 DEF untouched, serving
  <2>3. CASE ManagerScan
    <3>1. request.pc = "idle"
      <4>1. overlapped' = (overlapped \/ request.pc # "idle")
        BY <2>3 DEF ManagerScan
      <4> QED
        BY <1>4, <4>1, Zenon
    <3>2. status' = status /\ (manager' = "found" => status = "PENDING") /\ status # "absent"
      BY <2>3 DEF ManagerScan, tables
    <3>3. Apart'
      BY <2>1, <2>2, <3>1, <3>2 DEF Undisturbed, Apart
    <3> QED
      BY <2>1, <2>2, <3>2, <3>3, RowsUnchanged DEF Undisturbed
  <2>4. CASE ManagerInitiate
    <3>1. status = "PENDING" /\ status' = "INITIATED" /\ manager' = "sends" /\ request.pc = "idle"
      BY <2>1, <2>4 DEF ManagerInitiate, Undisturbed, Apart, EngineRests, None
    <3>2. NoWork(rows) /\ ex.pc \notin {"mark", "list", "look", "write", "verdict"}
      BY <2>1, <3>1 DEF Undisturbed, Apart, WorkCounted
    <3>3. served # 0
      BY <2>1, <3>1 DEF Undisturbed, Apart
    <3>4. Apart'
      BY <2>2, <3>1, <3>2, <3>3 DEF Apart
    <3>5. WorkCounted'
      BY <2>1, <2>2, <3>1, <3>2, RowsUnchanged DEF WorkCounted
    <3> QED
      BY <2>1, <2>2, <3>1, <3>4, <3>5, RowsUnchanged DEF Undisturbed
  <2>5. CASE ManagerSend
    <3>1. status' = status /\ manager' # "found" /\ manager = "sends"
      BY <2>5 DEF ManagerSend, tables, None
    <3>2. Apart'
      BY <2>1, <2>2, <3>1 DEF Undisturbed, Apart, EngineRests, None
    <3> QED
      BY <2>1, <2>2, <3>1, <3>2, RowsUnchanged DEF Undisturbed
  <2> QED
    BY <2>3, <2>4, <2>5 DEF Manager
<1> QED
  BY <1>2, <1>4 DEF WInv

-----------------------------------------------------------------------------
(* The workflow engine.                                                    *)

LEMMA WorkflowsKeep ==
  ASSUME WInv, NEW p \in DOMAIN rows, Workflows(p)
  PROVE  WInv'
<1>1. PICK from \in Runs, to \in {"INITIATED", "RUNNING"} \cup Finished :
        Moves(p, from, to) /\ (to \in Finished => from = "RUNNING")
  <2> "INITIATED" \notin Finished /\ "RUNNING" \notin Finished
    BY DEF Finished
  <2>1. CASE Initiate(p)
    BY <2>1 DEF Initiate, Runs
  <2>2. CASE Run(p)
    BY <2>2 DEF Run, Runs
  <2>3. CASE End(p)
    BY <2>3 DEF End, Runs
  <2> QED
    BY <2>1, <2>2, <2>3 DEF Workflows
<1>2. /\ rows[p].status = from /\ rows' = [rows EXCEPT ![p].status = to]
      /\ UNCHANGED <<status, overlapped, ex, manager, message>> /\ UNCHANGED untouched
  BY <1>1 DEF Moves, engine, broker
<1>3. UNCHANGED <<form, request, session, served>>
  BY <1>2 DEF untouched, serving
<1>4. /\ IsTable(rows') /\ DOMAIN rows' = DOMAIN rows
      /\ \A q \in DOMAIN rows :
            /\ rows'[q].status = IF q = p THEN to ELSE rows[q].status
            /\ rows'[q].here = rows[q].here
            /\ rows'[q].in_focus = rows[q].in_focus
            /\ rows'[q].previous = rows[q].previous
  <2>1. to \in RootStatuses /\ IsTable(rows)
    BY DEF RootStatuses, Finished, WInv, Types
  <2> QED
    BY <1>2, <2>1, RowWritten
<1>5. Types' /\ SessionOpen'
  BY <1>2, <1>4, ExecutorKept, EngineTypes DEF WInv, Types
<1>6. ASSUME ~overlapped' PROVE Undisturbed'
  <2>1. Undisturbed /\ Types
    BY <1>2, <1>6 DEF WInv
  <2>2. Apart' /\ Calm(session)'
    BY <1>2, <1>3, <2>1 DEF Undisturbed, Apart, EngineRests, Calm, NoWork, HandedOver, AtOnce
  <2>3. \A q \in DOMAIN rows : IsWork(rows'[q]) => IsWork(rows[q])
    BY <1>1, <1>2, <1>4 DEF IsWork, Finished, Runs
  <2>4. HandedOver(rows)'
    <3>1. \A q \in DOMAIN rows : rows'[q].status \in Runs => rows[q].status \in Runs
      BY <1>2, <1>4 DEF Runs
    <3> QED
      BY <1>3, <1>4, <2>1, <3>1 DEF Undisturbed, HandedOver, AtOnce
  <2>5. \A q : HasTurn(q)' <=> HasTurn(q)
    BY <1>2 DEF HasTurn
  <2>6. WorkCounted'
    BY <1>2, <1>4, <2>1, <2>3, <2>5 DEF Undisturbed, WorkCounted, NoWork
  <2>7. Acknowledged'
    BY <1>2, <1>4, <2>1 DEF Undisturbed, Acknowledged, Successful, Runs, Types, ExecutorOK
  <2>8. Here' = Here
    BY <1>2, <1>4 DEF Here, Runs, Finished
  <2>9. WalkInOrder'
    <3> SUFFICES ASSUME status' = "RUNNING", Planned' PROVE WalkInOrder'
      BY DEF WalkInOrder
    <3>1. Planned
      BY <1>3, <1>4, <2>8 DEF Planned, Closed, AtOnce
    <3>2. ListedOnce => ListedOnce'
      <4>1. \A n \in DOMAIN ex.todo : ex.todo[n] \in DOMAIN rows
        BY <2>1 DEF Types, ExecutorOK
      <4>2. Here \subseteq DOMAIN rows
        BY DEF Here
      <4> QED
        BY <1>2, <1>4, <2>8, <4>1, <4>2 DEF ListedOnce
    <3>3. \A q \in DOMAIN rows : Waiting(q)' => Waiting(q)
      BY <1>1, <1>2, <1>4, <2>8 DEF Waiting, Finished
    <3>4. \A q \in Here : Holds(q) => Holds(q)'
      <4> SUFFICES ASSUME NEW q \in Here, Holds(q), ~Holds(q)' PROVE FALSE
        OBVIOUS
      <4>1. q \in DOMAIN rows /\ rows[q].here /\ ~AtOnce(q)
        BY <3>1 DEF Here, Planned
      <4>2. ~rows[q].in_focus /\ ~Successful(q) /\ rows'[q].status = "COMPLETED_SUCCESSFULLY"
        BY <1>4, <4>1 DEF Holds, Successful
      <4>3. rows[q].status \in Runs
        BY <1>2, <1>4, <4>1, <4>2 DEF Successful
      <4> QED
        BY <2>1, <4>1, <4>2, <4>3 DEF Undisturbed, HandedOver
    <3>5. \A q \in Here : rows[q].previous \subseteq Here
      BY <3>1 DEF Planned, Closed, Here
    <3>6. \A q \in Here : /\ HeldBack(q) => HeldBack(q)'
                          /\ Ahead(q) => Ahead(q)'
      <4> SUFFICES ASSUME NEW q \in Here
                   PROVE  /\ HeldBack(q) => HeldBack(q)'
                          /\ Ahead(q) => Ahead(q)'
        OBVIOUS
      <4>1. rows'[q].previous = rows[q].previous /\ rows[q].previous \subseteq Here
        BY <1>4, <3>5 DEF Here
      <4>2. \A other \in Here : rows'[other].in_focus = rows[other].in_focus
        BY <1>4 DEF Here
      <4> QED
        BY <1>2, <2>5, <3>4, <4>1, <4>2 DEF HeldBack, Ahead
    <3>7. ASSUME ex.pc = "verdict", NEW q \in Here,
                 rows[q].status \notin {"COMPLETED_WITH_FAILURE", "ON_HOLD"}
          PROVE  rows'[q].status \notin {"COMPLETED_WITH_FAILURE", "ON_HOLD"}
      <4>1. CASE q = p
        <5>1. ~IsWork(rows[p]) /\ rows[p].here /\ ~AtOnce(p)
          BY <2>1, <3>1, <3>7, <4>1 DEF Undisturbed, WorkCounted, NoWork, Here, Planned
        <5> QED
          BY <1>2, <2>1, <5>1 DEF Undisturbed, HandedOver, IsWork
      <4>2. CASE q # p
        BY <1>4, <3>7, <4>2 DEF Here
      <4> QED
        BY <4>1, <4>2
    <3> QED
      <4> SUFFICES /\ ex.pc \in {"look", "write"} =>
                         ListedOnce' /\ \A q \in DOMAIN rows' : Waiting(q)' => Ahead(q)'
                   /\ ex.pc \in {"idle", "branch", "verdict", "end", "return"} =>
                         \A q \in DOMAIN rows' : Waiting(q)' => HeldBack(q)'
                   /\ ex.pc = "verdict" /\ ex.to = "COMPLETED_SUCCESSFULLY" =>
                         \A q \in Here : rows'[q].status \notin {"COMPLETED_WITH_FAILURE", "ON_HOLD"}
        BY <1>2, <2>8 DEF WalkInOrder
      <4>1. WalkInOrder /\ status = "RUNNING"
        BY <1>2, <2>1 DEF Undisturbed
      <4>2. \A q \in DOMAIN rows : Waiting(q) => q \in Here
        BY DEF Waiting
      <4> QED
        BY <1>4, <3>1, <3>2, <3>3, <3>6, <3>7, <4>1, <4>2 DEF WalkInOrder
  <2> QED
    BY <2>1, <2>2, <2>4, <2>6, <2>7, <2>9 DEF Undisturbed, Calm
<1> QED
  BY <1>5, <1>6 DEF WInv

-----------------------------------------------------------------------------
(* workspace_executor, before and after its walk.                          *)

\* The executor is not interrupted by a request.
LEMMA ExecutorApart ==
  ASSUME Undisturbed, ~EngineRests, UNCHANGED <<session, request, served, manager>>,
         status' = status \/ status # "PENDING",
         ex'.pc = "mark" => status' \in {"INITIATED", "ON_HOLD_WITH_SUCCESS"},
         ex'.pc \in {"list", "look", "write", "verdict"} => status' = "RUNNING"
  PROVE  Apart'
BY DEF Undisturbed, Apart

LEMMA ExecutorPauses ==
  ASSUME Undisturbed, UNCHANGED <<form, rows, status>>,
         ex'.pc \in {"idle", "branch", "mark", "end", "return"},
         status = "RUNNING" => ex.pc \in {"idle", "branch", "verdict", "end", "return"}
  PROVE  WorkCounted' /\ Acknowledged' /\ WalkInOrder'
<1>1. WorkCounted'
  BY DEF Undisturbed, WorkCounted, NoWork
<1>2. Acknowledged'
  BY DEF Acknowledged
<1>3. WalkInOrder'
  <2> SUFFICES ASSUME status = "RUNNING", Planned'
               PROVE  \A p \in DOMAIN rows : Waiting(p)' => HeldBack(p)'
    BY DEF WalkInOrder
  <2>1. Planned
    BY DEF Planned, Closed, Here, AtOnce
  <2>2. \A p \in DOMAIN rows : Waiting(p) => HeldBack(p)
    BY <2>1 DEF Undisturbed, WalkInOrder
  <2> QED
    BY <2>2 DEF Waiting, HeldBack, Holds, Here, Successful
<1> QED
  BY <1>1, <1>2, <1>3

\* No row is touched.
LEMMA RowsKept ==
  ASSUME Undisturbed, UNCHANGED <<form, rows, session>>
  PROVE  Calm(session)' /\ HandedOver(rows)'
BY DEF Undisturbed, Calm, NoWork, HandedOver, AtOnce

LEMMA RestingOK ==
  ASSUME ExecutorOK, UNCHANGED rows,
         ex' = Resting \/ ex' = [Resting EXCEPT !.pc = "return"]
  PROVE  ExecutorOK'
<1>1. /\ DOMAIN ex' = DOMAIN Resting /\ ex'.pc \in {"idle", "return"} /\ ex'.todo = <<>>
      /\ ex'.seen = {} /\ ex'.first = FALSE /\ ex'.running = FALSE
  BY DEF Resting
<1>2. ex'.todo \in Seq(DOMAIN rows') /\ ~ex'.first /\ ~ex'.running /\ ex'.pc # "list"
  BY <1>1
<1> QED
  BY <1>1, <1>2 DEF ExecutorOK

LEMMA PausesKeep ==
  ASSUME WInv, Take \/ Return \/ Branch \/ Done
  PROVE  WInv'
<1>1. /\ UNCHANGED <<rows, status, overlapped, manager>> /\ UNCHANGED untouched
      /\ UNCHANGED <<form, session, request, served>>
  BY DEF Take, Return, Branch, Done, Fails, tables, untouched, serving
<1>2. ExecutorOK /\ IsTable(rows)
  BY DEF WInv, Types
<1>3. \/ ex' = Resting \/ ex' = [Resting EXCEPT !.pc = "return"]
      \/ \E pc \in {"return", "branch", "mark", "end"} :
            /\ ex' = [ex EXCEPT !.pc = pc] /\ ex.pc \in {"idle", "branch"}
            /\ pc = "mark" => status \in {"INITIATED", "ON_HOLD_WITH_SUCCESS"}
  <2>1. CASE Take
    BY <2>1 DEF Take
  <2>2. CASE Return \/ Done
    BY <2>2 DEF Return, Done, Fails
  <2>3. CASE Branch
    BY <2>3 DEF Branch, Fails
  <2> QED
    BY <2>1, <2>2, <2>3
<1>4. /\ ExecutorOK'
      /\ ex'.pc \in {"idle", "branch", "mark", "end", "return"}
      /\ ex'.pc = "mark" => status \in {"INITIATED", "ON_HOLD_WITH_SUCCESS"}
  <2>1. CASE ex' = Resting \/ ex' = [Resting EXCEPT !.pc = "return"]
    <3>1. ex'.pc \in {"idle", "return"}
      BY <2>1 DEF Resting
    <3> QED
      BY <1>1, <1>2, <2>1, <3>1, RestingOK
  <2>2. ASSUME NEW pc \in {"return", "branch", "mark", "end"}, ex' = [ex EXCEPT !.pc = pc],
               ex.pc \in {"idle", "branch"},
               pc = "mark" => status \in {"INITIATED", "ON_HOLD_WITH_SUCCESS"}
        PROVE  /\ ExecutorOK'
               /\ ex'.pc \in {"idle", "branch", "mark", "end", "return"}
               /\ ex'.pc = "mark" => status \in {"INITIATED", "ON_HOLD_WITH_SUCCESS"}
    <3>1. /\ DOMAIN ex' = DOMAIN Resting /\ ex'.pc = pc /\ ex'.todo = ex.todo
          /\ ex'.seen = ex.seen /\ ex'.first = ex.first /\ ex'.running = ex.running
      BY <1>2, <2>2 DEF ExecutorOK, Resting
    <3> QED
      BY <1>1, <1>2, <2>2, <3>1 DEF ExecutorOK
  <2> QED
    BY <1>3, <2>1, <2>2
<1>5. Types' /\ SessionOpen'
  BY <1>1, <1>4, EngineTypes DEF WInv, Types
<1>6. ASSUME ~overlapped' PROVE Undisturbed'
  <2>1. Undisturbed
    BY <1>1, <1>6 DEF WInv
  <2>2. /\ ~EngineRests
        /\ status = "RUNNING" => ex.pc \in {"idle", "branch", "verdict", "end", "return"}
    BY DEF EngineRests, Take, Return, Branch, Done
  <2>3. Apart'
    BY <1>1, <1>4, <2>1, <2>2, ExecutorApart
  <2>4. WorkCounted' /\ Acknowledged' /\ WalkInOrder'
    BY <1>1, <1>4, <2>1, <2>2, ExecutorPauses
  <2> QED
    BY <1>1, <2>1, <2>3, <2>4, RowsKept DEF Undisturbed
<1> QED
  BY <1>5, <1>6 DEF WInv

LEMMA MarkKeeps ==
  ASSUME WInv, Mark
  PROVE  WInv'
<1>1. /\ ex.pc = "mark" /\ UNCHANGED <<rows, overlapped, manager>> /\ UNCHANGED untouched
      /\ UNCHANGED <<form, session, request, served>>
  BY DEF Mark, Fails, tables, untouched, serving
<1>2. ExecutorOK /\ IsTable(rows)
  BY DEF WInv, Types
<1>3. CASE Fails(status = "absent")
  <2>1. UNCHANGED status /\ status = "absent" /\ ex' = Resting /\ ex'.pc = "idle"
    BY <1>3 DEF Fails, tables, Resting
  <2>2. Types' /\ SessionOpen'
    BY <1>1, <1>2, <2>1, RestingOK, EngineTypes DEF WInv, Types
  <2>3. ASSUME ~overlapped' PROVE Undisturbed'
    <3>1. Undisturbed /\ ~EngineRests
      BY <1>1, <2>3 DEF WInv, EngineRests
    <3>2. Apart'
      BY <1>1, <2>1, <3>1, ExecutorApart
    <3>3. WorkCounted' /\ Acknowledged' /\ WalkInOrder'
      BY <1>1, <2>1, <3>1, ExecutorPauses
    <3> QED
      BY <1>1, <3>1, <3>2, <3>3, RowsKept DEF Undisturbed
  <2> QED
    BY <2>2, <2>3 DEF WInv
<1>4. CASE ~Fails(status = "absent")
  <2>1. status' = "RUNNING" /\ ex' = [ex EXCEPT !.pc = "list", !.first = TRUE]
    BY <1>4 DEF Mark
  <2>2. /\ DOMAIN ex' = DOMAIN Resting /\ ex'.pc = "list" /\ ex'.first = TRUE
        /\ ex'.todo = ex.todo /\ ex'.seen = ex.seen /\ ex'.running = ex.running
    BY <1>2, <2>1 DEF ExecutorOK, Resting
  <2>3. ExecutorOK'
    BY <1>1, <1>2, <2>2 DEF ExecutorOK
  <2>4. Types' /\ SessionOpen'
    BY <1>1, <1>2, <2>3, EngineTypes DEF WInv
  <2>5. ASSUME ~overlapped' PROVE Undisturbed'
    <3>1. Undisturbed /\ ~EngineRests
      BY <1>1, <2>5 DEF WInv, EngineRests
    <3>2. status \in {"INITIATED", "ON_HOLD_WITH_SUCCESS"} /\ NoWork(rows)
      BY <1>1, <3>1 DEF Undisturbed, Apart, WorkCounted
    <3>3. Apart'
      BY <1>1, <2>1, <2>2, <3>1, <3>2, ExecutorApart
    <3>4. WorkCounted' /\ Acknowledged' /\ WalkInOrder'
      BY <1>1, <2>2, <3>2 DEF WorkCounted, NoWork, Acknowledged, WalkInOrder
    <3> QED
      BY <1>1, <3>1, <3>3, <3>4, RowsKept DEF Undisturbed
  <2> QED
    BY <2>4, <2>5 DEF WInv
<1> QED
  BY <1>3, <1>4

LEMMA ConcludeKeeps ==
  ASSUME WInv, Conclude
  PROVE  WInv'
<1>1. /\ ex.pc = "verdict" /\ UNCHANGED <<rows, overlapped, manager>> /\ UNCHANGED untouched
      /\ UNCHANGED <<form, session, request, served>>
  BY DEF Conclude, Fails, tables, untouched, serving
<1>2. ExecutorOK /\ IsTable(rows)
  BY DEF WInv, Types
<1>3. /\ ExecutorOK' /\ ex'.pc \in {"idle", "end"}
  <2>1. CASE ex' = Resting
    BY <1>1, <1>2, <2>1, RestingOK DEF Resting
  <2>2. CASE ex' = [ex EXCEPT !.pc = "end", !.to = None]
    <3>1. /\ DOMAIN ex' = DOMAIN Resting /\ ex'.pc = "end" /\ ex'.first = ex.first
          /\ ex'.todo = ex.todo /\ ex'.seen = ex.seen /\ ex'.running = ex.running
      BY <1>2, <2>2 DEF ExecutorOK, Resting
    <3> QED
      BY <1>1, <1>2, <3>1 DEF ExecutorOK
  <2> QED
    BY <2>1, <2>2 DEF Conclude, Fails
<1>4. Types' /\ SessionOpen'
  BY <1>1, <1>2, <1>3, EngineTypes DEF WInv
<1>5. ASSUME ~overlapped' PROVE Undisturbed'
  <2>1. Undisturbed /\ ~EngineRests
    BY <1>1, <1>5 DEF WInv, EngineRests
  <2>2. status = "RUNNING" /\ NoWork(rows)
    BY <1>1, <2>1 DEF Undisturbed, Apart, WorkCounted
  <2>3. Apart'
    BY <1>1, <1>3, <2>1, <2>2, ExecutorApart
  <2>4. WorkCounted' /\ Acknowledged'
    BY <1>1, <1>3, <2>2 DEF WorkCounted, NoWork, Acknowledged
  <2>5. WalkInOrder'
    <3> SUFFICES ASSUME Planned'
                 PROVE  \A p \in DOMAIN rows : Waiting(p)' => HeldBack(p)'
      BY <1>1, <1>3 DEF WalkInOrder
    <3>1. Planned
      BY <1>1 DEF Planned, Closed, Here, AtOnce
    <3>2. \A p \in DOMAIN rows : Waiting(p) => HeldBack(p)
      BY <1>1, <2>1, <2>2, <3>1 DEF Undisturbed, WalkInOrder
    <3> QED
      BY <1>1, <3>2 DEF Waiting, HeldBack, Holds, Here, Successful
  <2> QED
    BY <1>1, <2>1, <2>3, <2>4, <2>5, RowsKept DEF Undisturbed
<1> QED
  BY <1>4, <1>5 DEF WInv

-----------------------------------------------------------------------------
(* workspace_executor: the writes of its walk.                             *)

\* A row that is gone raises; in a planned workspace none is.
LEMMA FailsKeeps ==
  ASSUME WInv, ex.pc \in {"branch", "list", "look", "write"}, NEW gone, Fails(gone),
         UNCHANGED <<overlapped, manager>>, UNCHANGED untouched,
         ~overlapped /\ status = "RUNNING" /\ Planned => ~gone
  PROVE  WInv'
<1>1. /\ UNCHANGED <<rows, status, overlapped, manager>> /\ gone
      /\ UNCHANGED <<form, session, request, served>>
      /\ ex' = Resting /\ ex'.pc = "idle"
  BY DEF Fails, tables, untouched, serving, Resting
<1>2. Types' /\ SessionOpen'
  BY <1>1, RestingOK, EngineTypes DEF WInv, Types
<1>3. ASSUME ~overlapped' PROVE Undisturbed'
  <2>1. Undisturbed /\ ~EngineRests
    BY <1>1, <1>3 DEF WInv, EngineRests
  <2>2. Apart'
    BY <1>1, <2>1, ExecutorApart
  <2>3. Planned' <=> Planned
    BY <1>1 DEF Planned, Closed, Here, AtOnce
  <2>4. WalkInOrder'
    BY <1>1, <1>3, <2>3 DEF WalkInOrder
  <2>5. WorkCounted' /\ Acknowledged'
    BY <1>1, <2>1 DEF Undisturbed, WorkCounted, NoWork, Acknowledged
  <2> QED
    BY <1>1, <2>1, <2>2, <2>4, <2>5, RowsKept DEF Undisturbed
<1> QED
  BY <1>2, <1>3 DEF WInv

\* A root is handed over to the workflow engine.
LEMMA HandOverKeeps ==
  ASSUME WInv, ex.pc = "write", rows[ex.root].status # "absent", HandOver(ex.root),
         UNCHANGED <<status, overlapped, manager>>, UNCHANGED untouched
  PROVE  WInv'
<1> PICK p : p = ex.root
  OBVIOUS
<1>0. /\ rows' = [rows EXCEPT ![p].status = "PENDING", ![p].in_focus = TRUE]
      /\ ex' = [ex EXCEPT !.pc = "look", !.root = NoRoot, !.to = None, !.running = TRUE]
  BY DEF HandOver
<1>1. UNCHANGED <<form, session, request, served>>
  BY DEF untouched, serving
<1>2. ExecutorOK /\ IsTable(rows) /\ p \in DOMAIN rows
  BY DEF WInv, Types, ExecutorOK
<1>3. /\ DOMAIN rows' = DOMAIN rows
      /\ \A q \in DOMAIN rows :
            /\ IsRow(rows'[q]) /\ rows'[q].here = rows[q].here
            /\ rows'[q].previous = rows[q].previous
            /\ q # p => rows'[q] = rows[q]
      /\ rows'[p].status = "PENDING" /\ rows'[p].in_focus
  <2>1. IsRow(rows[p]) /\ "PENDING" \in RootStatuses
    BY <1>2 DEF IsTable, RootStatuses
  <2>2. DOMAIN rows[p] = {"status", "previous", "here", "in_focus", "doubled"}
    BY <2>1, RowFields DEF IsRow
  <2>3. /\ DOMAIN rows'[p] = DOMAIN rows[p]
        /\ rows'[p].status = "PENDING" /\ rows'[p].in_focus
        /\ rows'[p].here = rows[p].here /\ rows'[p].previous = rows[p].previous
    BY <1>0, <1>2, <2>2
  <2>4. IsRow(rows'[p])
    BY <2>1, <2>3 DEF IsRow
  <2>5. DOMAIN rows' = DOMAIN rows /\ \A q \in DOMAIN rows : q # p => rows'[q] = rows[q]
    BY <1>0
  <2> QED
    BY <1>2, <2>3, <2>4, <2>5 DEF IsTable
<1>4. /\ DOMAIN ex' = DOMAIN Resting /\ ex'.pc = "look" /\ ex'.running
      /\ ex'.todo = ex.todo /\ ex'.seen = ex.seen /\ ex'.first = ex.first
  BY <1>0, <1>2 DEF ExecutorOK, Resting
<1>5. ExecutorOK' /\ IsTable(rows')
  BY <1>2, <1>3, <1>4 DEF ExecutorOK, IsTable
<1>6. Types' /\ SessionOpen'
  BY <1>5, EngineTypes DEF WInv
<1>7. ASSUME ~overlapped' PROVE Undisturbed'
  <2>1. Undisturbed /\ ~EngineRests
    BY <1>7 DEF WInv, EngineRests
  <2>2. status = "RUNNING"
    BY <2>1 DEF Undisturbed, Apart
  <2>3. Apart'
    BY <1>1, <1>4, <2>1, <2>2, ExecutorApart
  <2>4. Calm(session)'
    BY <1>1, <2>1 DEF Undisturbed, Calm, NoWork, HandedOver, AtOnce
  <2>5. HandedOver(rows)'
    BY <1>1, <1>3, <2>1 DEF Undisturbed, HandedOver, AtOnce
  <2>6. WorkCounted' /\ Acknowledged'
    BY <1>4, <2>2 DEF WorkCounted, Acknowledged
  <2>7. WalkInOrder'
    <3> SUFFICES ASSUME Planned'
                 PROVE  ListedOnce' /\ \A q \in DOMAIN rows' : Waiting(q)' => Ahead(q)'
      BY <1>4 DEF WalkInOrder
    <3>1. Here' = Here
      BY <1>3 DEF Here
    <3>2. Planned
      BY <1>1, <1>3, <3>1 DEF Planned, Closed, AtOnce
    <3>3. ListedOnce /\ \A q \in DOMAIN rows : Waiting(q) => Ahead(q)
      BY <2>1, <2>2, <3>2 DEF Undisturbed, WalkInOrder
    <3>4. p \in ex.seen /\ \A n \in DOMAIN ex.todo : ex.todo[n] \in Here /\ ex.todo[n] # p
      BY <3>3 DEF ListedOnce
    <3>5. \A q \in Here : q # p => rows'[q] = rows[q]
      BY <1>3 DEF Here
    <3>6. ListedOnce'
      <4>1. /\ \A n \in DOMAIN ex'.todo : ex'.todo[n] \in Here' /\ ex'.todo[n] \in ex'.seen
            /\ \A m, n \in DOMAIN ex'.todo : ex'.todo[m] = ex'.todo[n] => m = n
        BY <1>4, <3>1, <3>3 DEF ListedOnce
      <4>2. ASSUME ~ex'.first, NEW q \in Here', rows'[q].in_focus PROVE q \in ex'.seen
        BY <1>4, <3>1, <3>3, <3>4, <3>5, <4>2 DEF ListedOnce
      <4>3. ASSUME ~ex'.first, NEW m \in DOMAIN ex'.todo, NEW n \in DOMAIN ex'.todo,
                   m < n, rows'[ex'.todo[n]].in_focus
            PROVE  rows'[ex'.todo[m]].in_focus
        <5> m \in DOMAIN ex.todo /\ n \in DOMAIN ex.todo
          BY <1>4, <4>3
        <5>1. /\ rows'[ex.todo[m]] = rows[ex.todo[m]]
              /\ rows'[ex.todo[n]] = rows[ex.todo[n]]
          BY <3>4, <3>5
        <5>2. m \in DOMAIN ex.todo /\ n \in DOMAIN ex.todo /\ m < n /\ rows[ex.todo[n]].in_focus
          BY <1>4, <4>3, <5>1
        <5>3. rows[ex.todo[m]].in_focus
          BY <1>4, <3>3, <4>3, <5>2 DEF ListedOnce
        <5> QED
          BY <1>4, <5>1, <5>3
      <4> QED
        BY <1>4, <4>1, <4>2, <4>3 DEF ListedOnce
    <3>7. ASSUME NEW q \in DOMAIN rows, Waiting(q)' PROVE Ahead(q)'
      <4>1. q \in Here /\ rows'[q].status = "READY" /\ ~rows'[q].in_focus
        BY <3>1, <3>7 DEF Waiting
      <4>2. q # p
        BY <1>3, <4>1
      <4>3. Waiting(q)
        BY <3>5, <4>1, <4>2 DEF Waiting
      <4>4. CASE \E n \in DOMAIN ex.todo : ex.todo[n] = q
        BY <1>4, <4>4 DEF Ahead
      <4>5. CASE \E r \in rows[q].previous :
                    /\ Holds(r)
                    /\ q \in ex.seen /\ ~ex.first => ~(rows[r].in_focus /\ HasTurn(r))
        <5>1. PICK r \in rows[q].previous :
                /\ Holds(r)
                /\ q \in ex.seen /\ ~ex.first => ~(rows[r].in_focus /\ HasTurn(r))
          BY <4>5
        <5>2. r \in Here
          BY <3>2, <4>1 DEF Planned, Closed
        <5>3. Holds(r)'
          BY <1>3, <3>5, <5>1, <5>2 DEF Holds, Successful
        <5>4. HasTurn(r)' => HasTurn(r) /\ r # p
          BY <1>4, <3>4 DEF HasTurn
        <5>5. r # p => rows'[r] = rows[r]
          BY <3>5, <5>2
        <5>6. q \in ex'.seen /\ ~ex'.first => ~(rows'[r].in_focus /\ HasTurn(r)')
          BY <1>4, <5>1, <5>4, <5>5
        <5>7. rows'[q].previous = rows[q].previous
          BY <1>3
        <5> QED
          BY <5>1, <5>3, <5>6, <5>7 DEF Ahead
      <4> QED
        BY <3>3, <4>2, <4>3, <4>4, <4>5 DEF Ahead
    <3> QED
      BY <1>3, <3>6, <3>7
  <2> QED
    BY <2>3, <2>4, <2>5, <2>6, <2>7 DEF Undisturbed
<1> QED
  BY <1>6, <1>7 DEF WInv

LEMMA Appended ==
  ASSUME NEW S, NEW s \in Seq(S), NEW t \in Seq(S)
  PROVE  /\ s \o t \in Seq(S)
         /\ \A n \in DOMAIN s : n \in DOMAIN (s \o t) /\ (s \o t)[n] = s[n]
         /\ \A n \in DOMAIN t : Len(s) + n \in DOMAIN (s \o t) /\ (s \o t)[Len(s) + n] = t[n]
         /\ \A n \in DOMAIN (s \o t) :
               n \in DOMAIN s \/ n - Len(s) \in DOMAIN t
         /\ \A n \in DOMAIN (s \o t), m \in DOMAIN s : n < m => n \in DOMAIN s
<1>1. /\ s \o t \in Seq(S) /\ DOMAIN (s \o t) = 1..(Len(s) + Len(t))
      /\ DOMAIN s = 1..Len(s) /\ DOMAIN t = 1..Len(t)
      /\ Len(s) \in Nat /\ Len(t) \in Nat
  OBVIOUS
<1>2. \A n \in 1..Len(s) : (s \o t)[n] = s[n]
  OBVIOUS
<1>3. \A n \in 1..Len(t) : (s \o t)[Len(s) + n] = t[n]
  OBVIOUS
<1> QED
  BY <1>1, <1>2, <1>3

\* A successful root leaves the focus, those that follow it are appended.
LEMMA AcknowledgeKeeps ==
  ASSUME WInv, ex.pc = "write", Acknowledge(ex.root),
         UNCHANGED <<status, overlapped, manager>>, UNCHANGED untouched
  PROVE  WInv'
<1> PICK p : p = ex.root
  OBVIOUS
<1> PICK next : next = {q \in DOMAIN rows : p \in rows[q].previous} \ ex.seen
  OBVIOUS
<1>0. ex.to = "out" /\ rows' = [rows EXCEPT ![p].in_focus = FALSE]
  BY DEF Acknowledge
<1> PICK more \in SetToSeqs(next) :
        ex' = [ex EXCEPT !.pc = "look", !.root = NoRoot, !.to = None,
                         !.todo = @ \o more, !.seen = @ \cup next]
  BY Zenon DEF Acknowledge
<1>1. UNCHANGED <<form, session, request, served>>
  BY DEF untouched, serving
<1>2. ExecutorOK /\ IsTable(rows) /\ p \in DOMAIN rows
  BY DEF WInv, Types, ExecutorOK
<1>3. /\ DOMAIN rows' = DOMAIN rows
      /\ \A q \in DOMAIN rows :
            /\ IsRow(rows'[q]) /\ rows'[q].here = rows[q].here
            /\ rows'[q].previous = rows[q].previous
            /\ rows'[q].status = rows[q].status
            /\ q # p => rows'[q] = rows[q]
      /\ ~rows'[p].in_focus
  <2>1. IsRow(rows[p])
    BY <1>2 DEF IsTable
  <2>2. DOMAIN rows[p] = {"status", "previous", "here", "in_focus", "doubled"}
    BY <2>1, RowFields DEF IsRow
  <2>3. /\ DOMAIN rows'[p] = DOMAIN rows[p]
        /\ rows'[p].status = rows[p].status /\ rows'[p].in_focus = FALSE
        /\ rows'[p].here = rows[p].here /\ rows'[p].previous = rows[p].previous
    BY <1>0, <1>2, <2>2
  <2>4. IsRow(rows'[p])
    BY <2>1, <2>3 DEF IsRow
  <2>5. DOMAIN rows' = DOMAIN rows /\ \A q \in DOMAIN rows : q # p => rows'[q] = rows[q]
    BY <1>0
  <2> QED
    BY <1>2, <2>3, <2>4, <2>5 DEF IsTable
<1>4. /\ DOMAIN ex' = DOMAIN Resting /\ ex'.pc = "look" /\ ex'.running = ex.running
      /\ ex'.todo = ex.todo \o more /\ ex'.seen = ex.seen \cup next /\ ex'.first = ex.first
  BY <1>0, <1>2 DEF ExecutorOK, Resting
<1>5. IsFiniteSet(next) /\ next \subseteq DOMAIN rows
  BY <1>2, FS_Subset DEF IsTable
<1>6. /\ more \in Seq(next)
      /\ \A m, n \in DOMAIN more : more[m] = more[n] => m = n
      /\ \A q \in next : \E n \in DOMAIN more : more[n] = q
  <2>1. /\ more \in Seq(next)
        /\ \A m, n \in 1..Len(more) : more[m] = more[n] => m = n
        /\ \A q \in next : \E n \in 1..Len(more) : more[n] = q
    BY ONLY <1>5, more \in SetToSeqs(next), OrdersList
  <2>2. DOMAIN more = 1..Len(more)
    BY <2>1
  <2> QED
    BY <2>1, <2>2
<1>7. /\ ex.todo \in Seq(DOMAIN rows) /\ more \in Seq(DOMAIN rows)
      /\ \A n \in DOMAIN more : more[n] \in next
  BY <1>2, <1>5, <1>6 DEF ExecutorOK
<1>8. /\ ex'.todo \in Seq(DOMAIN rows)
      /\ \A n \in DOMAIN ex.todo : n \in DOMAIN ex'.todo /\ ex'.todo[n] = ex.todo[n]
      /\ \A n \in DOMAIN more :
            Len(ex.todo) + n \in DOMAIN ex'.todo /\ ex'.todo[Len(ex.todo) + n] = more[n]
      /\ \A n \in DOMAIN ex'.todo : n \in DOMAIN ex.todo \/ n - Len(ex.todo) \in DOMAIN more
      /\ \A n \in DOMAIN ex'.todo, m \in DOMAIN ex.todo : n < m => n \in DOMAIN ex.todo
  BY <1>4, <1>7, Appended
<1>9. \A n \in DOMAIN ex'.todo :
         \/ n \in DOMAIN ex.todo /\ ex'.todo[n] = ex.todo[n]
         \/ \E m \in DOMAIN more : n = Len(ex.todo) + m /\ ex'.todo[n] = more[m]
  <2> SUFFICES ASSUME NEW n \in DOMAIN ex'.todo, n \notin DOMAIN ex.todo
               PROVE  \E m \in DOMAIN more : n = Len(ex.todo) + m /\ ex'.todo[n] = more[m]
    BY <1>8
  <2>1. n - Len(ex.todo) \in DOMAIN more /\ n \in Nat /\ Len(ex.todo) \in Nat
    BY <1>7, <1>8
  <2>2. n = Len(ex.todo) + (n - Len(ex.todo))
    BY <2>1
  <2> QED
    BY <1>8, <2>1, <2>2
<1>10. ExecutorOK' /\ IsTable(rows')
  BY <1>2, <1>3, <1>4, <1>5, <1>8 DEF ExecutorOK, IsTable
<1>11. Types' /\ SessionOpen'
  BY <1>10, EngineTypes DEF WInv
<1>12. ASSUME ~overlapped' PROVE Undisturbed'
  <2>1. Undisturbed /\ ~EngineRests
    BY <1>12 DEF WInv, EngineRests
  <2>2. status = "RUNNING" /\ Successful(p) /\ ~ex.first
    BY <1>0, <2>1 DEF Undisturbed, Apart, Acknowledged
  <2>3. Apart'
    BY <1>1, <1>4, <2>1, <2>2, ExecutorApart
  <2>4. Calm(session)'
    BY <1>1, <2>1 DEF Undisturbed, Calm, NoWork, HandedOver, AtOnce
  <2>5. HandedOver(rows)'
    <3> SUFFICES ASSUME NEW q \in DOMAIN rows, rows'[q].here, rows'[q].status \in Runs
                 PROVE  rows'[q].in_focus \/ AtOnce(q)'
      BY <1>3 DEF HandedOver
    <3>1. q # p
      BY <1>3, <2>2 DEF Successful, Runs
    <3> QED
      BY <1>1, <1>3, <2>1, <3>1 DEF Undisturbed, HandedOver, AtOnce
  <2>6. WorkCounted' /\ Acknowledged'
    <3> SUFFICES ASSUME ~ex.running, NEW q \in DOMAIN rows, IsWork(rows'[q])
                 PROVE  HasTurn(q)'
      BY <1>3, <1>4, <2>2 DEF WorkCounted, Acknowledged
    <3>1. q # p /\ IsWork(rows[q])
      BY <1>3 DEF IsWork
    <3>2. PICK n \in DOMAIN ex.todo : ex.todo[n] = q
      BY <2>1, <3>1 DEF Undisturbed, WorkCounted, HasTurn
    <3> QED
      BY <1>8, <3>2 DEF HasTurn
  <2>7. WalkInOrder'
    <3> SUFFICES ASSUME Planned'
                 PROVE  ListedOnce' /\ \A q \in DOMAIN rows' : Waiting(q)' => Ahead(q)'
      BY <1>4 DEF WalkInOrder
    <3>1. Here' = Here
      BY <1>3 DEF Here
    <3>2. Planned
      BY <1>1, <1>3, <3>1 DEF Planned, Closed, AtOnce
    <3>3. ListedOnce /\ \A q \in DOMAIN rows : Waiting(q) => Ahead(q)
      BY <2>1, <2>2, <3>2 DEF Undisturbed, WalkInOrder
    <3>4. /\ p \in Here /\ p \in ex.seen
          /\ \A n \in DOMAIN ex.todo :
                ex.todo[n] \in Here /\ ex.todo[n] \in ex.seen /\ ex.todo[n] # p
          /\ \A m, n \in DOMAIN ex.todo : ex.todo[m] = ex.todo[n] => m = n
          /\ \A q \in Here : rows[q].in_focus => q \in ex.seen
          /\ \A m, n \in DOMAIN ex.todo :
                m < n /\ rows[ex.todo[n]].in_focus => rows[ex.todo[m]].in_focus
      BY <2>2, <3>3 DEF ListedOnce
    <3>5. \A q \in Here : q # p => rows'[q] = rows[q]
      BY <1>3 DEF Here
    <3>6. \A q \in next : q \in Here /\ q # p /\ q \notin ex.seen /\ ~rows[q].in_focus
      BY <3>2, <3>4 DEF Planned, Closed
    <3>7. ListedOnce'
      <4>1. \A n \in DOMAIN ex'.todo : ex'.todo[n] \in Here /\ ex'.todo[n] \in ex'.seen
        BY <1>4, <1>7, <1>9, <3>4, <3>6
      <4>2. ASSUME NEW m \in DOMAIN ex'.todo, NEW n \in DOMAIN ex'.todo,
                   ex'.todo[m] = ex'.todo[n]
            PROVE  m = n
        <5>1. CASE m \in DOMAIN ex.todo /\ ex'.todo[m] = ex.todo[m]
          <6>1. ex'.todo[n] \in ex.seen
            BY <3>4, <4>2, <5>1
          <6>2. n \in DOMAIN ex.todo /\ ex'.todo[n] = ex.todo[n]
            BY <1>7, <1>9, <3>6, <6>1
          <6> QED
            BY <3>4, <4>2, <5>1, <6>2
        <5>2. CASE \E k \in DOMAIN more : m = Len(ex.todo) + k /\ ex'.todo[m] = more[k]
          <6>1. ex'.todo[n] \notin ex.seen
            BY <1>7, <3>6, <4>2, <5>2
          <6>2. \E k \in DOMAIN more : n = Len(ex.todo) + k /\ ex'.todo[n] = more[k]
            BY <1>9, <3>4, <6>1
          <6> QED
            BY <1>6, <4>2, <5>2, <6>2
        <5> QED
          BY <1>9, <5>1, <5>2
      <4>3. \A q \in Here : rows'[q].in_focus => q \in ex'.seen
        BY <1>3, <1>4, <3>4, <3>5
      <4>4. ASSUME NEW m \in DOMAIN ex'.todo, NEW n \in DOMAIN ex'.todo, m < n,
                   rows'[ex'.todo[n]].in_focus
            PROVE  rows'[ex'.todo[m]].in_focus
        <5>1. n \in DOMAIN ex.todo /\ ex'.todo[n] = ex.todo[n]
          <6> SUFFICES ASSUME NEW k \in DOMAIN more, ex'.todo[n] = more[k] PROVE FALSE
            BY <1>9
          <6> QED
            BY <1>7, <3>5, <3>6, <4>4
        <5>2. m \in DOMAIN ex.todo /\ ex'.todo[m] = ex.todo[m]
          BY <1>8, <4>4, <5>1
        <5>3. /\ rows'[ex.todo[m]] = rows[ex.todo[m]]
              /\ rows'[ex.todo[n]] = rows[ex.todo[n]]
          BY <3>4, <3>5, <5>1, <5>2
        <5>4. rows[ex.todo[m]].in_focus
          BY <3>4, <4>4, <5>1, <5>2, <5>3
        <5> QED
          BY <5>2, <5>3, <5>4
      <4>5. ex'.pc # "write"
        BY <1>4
      <4> HIDE <1>0
      <4> QED
        BY <1>3, <3>1, <4>1, <4>2, <4>3, <4>4, <4>5 DEF ListedOnce
    <3>8. ASSUME NEW q \in DOMAIN rows, Waiting(q)' PROVE Ahead(q)'
      <4>1. q \in Here /\ q # p
        BY <1>3, <2>2, <3>1, <3>8 DEF Waiting, Successful
      <4>2. Waiting(q)
        BY <3>5, <3>8, <4>1 DEF Waiting
      <4>3. CASE \E n \in DOMAIN ex.todo : ex.todo[n] = q
        BY <1>8, <4>3 DEF Ahead
      <4>4. CASE q \in next
        <5>1. PICK n \in DOMAIN more : more[n] = q
          BY <1>6, <4>4
        <5> QED
          BY <1>8, <5>1 DEF Ahead
      <4>5. CASE /\ q \notin next
                 /\ \E r \in rows[q].previous :
                       /\ Holds(r)
                       /\ q \in ex.seen /\ ~ex.first => ~(rows[r].in_focus /\ HasTurn(r))
        <5>1. PICK r \in rows[q].previous :
                /\ Holds(r)
                /\ q \in ex.seen /\ ~ex.first => ~(rows[r].in_focus /\ HasTurn(r))
          BY <4>5
        <5>2. r \in Here
          BY <3>2, <4>1 DEF Planned, Closed
        <5>3. r # p
          <6> SUFFICES ASSUME r = p PROVE FALSE
            OBVIOUS
          <6>1. HasTurn(r) /\ rows[r].in_focus
            BY <1>0, <2>2, <5>1 DEF HasTurn, Holds
          <6>2. q \in ex.seen
            BY <4>5, <5>1
          <6> QED
            BY <2>2, <5>1, <6>1, <6>2
        <5>4. rows'[r] = rows[r]
          BY <3>5, <5>2, <5>3
        <5>5. Holds(r)'
          BY <5>1, <5>4 DEF Holds, Successful
        <5>6. ASSUME q \in ex'.seen, rows'[r].in_focus, HasTurn(r)' PROVE FALSE
          <6>1. q \in ex.seen /\ rows[r].in_focus /\ r \in ex.seen
            BY <1>4, <3>4, <4>5, <5>2, <5>4, <5>6
          <6>2. PICK n \in DOMAIN ex'.todo : ex'.todo[n] = r
            BY <1>4, <5>6 DEF HasTurn
          <6>3. n \in DOMAIN ex.todo /\ ex.todo[n] = r
            BY <1>7, <1>9, <3>6, <6>1, <6>2
          <6> QED
            BY <2>2, <5>1, <6>1, <6>3 DEF HasTurn
        <5>7. rows'[q].previous = rows[q].previous
          BY <1>3
        <5> QED
          BY <5>1, <5>5, <5>6, <5>7 DEF Ahead
      <4> QED
        BY <3>3, <4>1, <4>2, <4>3, <4>4, <4>5 DEF Ahead
    <3> QED
      BY <1>3, <3>7, <3>8
  <2> QED
    BY <2>3, <2>4, <2>5, <2>6, <2>7 DEF Undisturbed
<1> QED
  BY <1>11, <1>12 DEF WInv

LEMMA WriteKeeps ==
  ASSUME WInv, Write
  PROVE  WInv'
<1>1. ex.pc = "write" /\ UNCHANGED untouched /\ UNCHANGED <<overlapped, manager>>
  BY DEF Write
<1>2. CASE Fails(rows[ex.root].status = "absent")
  <2>1. ~overlapped /\ status = "RUNNING" /\ Planned => rows[ex.root].status # "absent"
    BY <1>1 DEF WInv, Undisturbed, WalkInOrder, ListedOnce, Here
  <2> QED
    BY <1>1, <1>2, <2>1, FailsKeeps
<1>3. CASE rows[ex.root].status # "absent" /\ HandOver(ex.root) /\ UNCHANGED status
  BY <1>1, <1>3, HandOverKeeps
<1>4. CASE Acknowledge(ex.root) /\ UNCHANGED status
  BY <1>1, <1>4, AcknowledgeKeeps
<1> QED
  BY <1>2, <1>3, <1>4 DEF Write

-----------------------------------------------------------------------------
(* workspace_executor: its walk up to the next write or the verdict.       *)

LEMMA Remaining ==
  ASSUME NEW S, NEW loop \in Seq(S), NEW next \in 1..(Len(loop) + 1)
  PROVE  LET rest == SubSeq(loop, next + 1, Len(loop)) IN
         /\ rest \in Seq(S)
         /\ \A n \in DOMAIN rest : n + next \in DOMAIN loop /\ rest[n] = loop[n + next]
         /\ \A m \in DOMAIN loop : m > next => \E n \in DOMAIN rest : rest[n] = loop[m]
<1> DEFINE rest == SubSeq(loop, next + 1, Len(loop))
<1>1. next \in Nat /\ Len(loop) \in Nat /\ DOMAIN loop = 1..Len(loop)
  OBVIOUS
<1>2. rest \in Seq(S) /\ Len(rest) = IF next + 1 <= Len(loop) THEN Len(loop) - next ELSE 0
  BY <1>1
<1>3. \A n \in 1..Len(rest) : rest[n] = loop[n + next]
  BY <1>1, <1>2
<1>4. DOMAIN rest = 1..Len(rest)
  BY <1>2
<1> HIDE DEF rest
<1> PICK k, l : k = Len(rest) /\ l = Len(loop)
  OBVIOUS
<1>a. /\ k \in Nat /\ l \in Nat /\ next \in 1..(l + 1)
      /\ k = IF next + 1 <= l THEN l - next ELSE 0
      /\ DOMAIN rest = 1..k /\ DOMAIN loop = 1..l
  BY <1>1, <1>2, <1>4
<1>5. \A n \in DOMAIN rest : n + next \in DOMAIN loop
  BY ONLY <1>a
<1>6. ASSUME NEW m \in DOMAIN loop, m > next
      PROVE  \E n \in DOMAIN rest : rest[n] = loop[m]
  <2>1. m - next \in DOMAIN rest /\ (m - next) + next = m
    BY ONLY <1>a, <1>6
  <2> QED
    BY <1>3, <1>4, <2>1
<1>7. /\ rest \in Seq(S)
      /\ \A n \in DOMAIN rest : n + next \in DOMAIN loop /\ rest[n] = loop[n + next]
      /\ \A m \in DOMAIN loop : m > next => \E n \in DOMAIN rest : rest[n] = loop[m]
  BY <1>2, <1>3, <1>4, <1>5, <1>6
<1> QED
  BY <1>7 DEF rest

\* What the loop of a walk is over.
Loops(loop) ==
  /\ loop \in Seq(DOMAIN rows)
  /\ ex.pc = "look" => loop = ex.todo
  /\ ex.pc # "look" =>
        /\ \A m, n \in DOMAIN loop : loop[m] = loop[n] => m = n
        /\ \A q : (\E n \in DOMAIN loop : loop[n] = q)
                  <=> q \in Here /\ (IF ex.first THEN rows[q].status = "READY"
                                                 ELSE rows[q].in_focus)

LEMMA LoopedLoops ==
  ASSUME Types, NEW loop \in Looped
  PROVE  Loops(loop)
<1>1. IsTable(rows) /\ ex.todo \in Seq(DOMAIN rows)
  BY DEF Types, ExecutorOK
<1>2. CASE ex.pc = "look"
  BY <1>1, <1>2 DEF Looped, Loops
<1>3. CASE ex.pc # "look"
  <2>1. PICK S : S = {p \in Here : IF ex.first THEN rows[p].status = "READY"
                                               ELSE rows[p].in_focus}
    OBVIOUS
  <2>2. S \subseteq DOMAIN rows
    BY <2>1 DEF Here
  <2>3. IsFiniteSet(S)
    BY <1>1, <2>2, FS_Subset DEF IsTable
  <2>4. loop \in SetToSeqs(S)
    BY <1>3, <2>1 DEF Looped
  <2>5. /\ loop \in Seq(S)
        /\ \A m, n \in 1..Len(loop) : loop[m] = loop[n] => m = n
        /\ \A x \in S : \E n \in 1..Len(loop) : loop[n] = x
    BY ONLY <2>3, <2>4, OrdersList
  <2>6. DOMAIN loop = 1..Len(loop) /\ loop \in Seq(DOMAIN rows)
    BY <2>2, <2>5
  <2>7. \A n \in DOMAIN loop : loop[n] \in S
    BY <2>5
  <2>8. \A q : (\E n \in DOMAIN loop : loop[n] = q) <=> q \in S
    BY <2>5, <2>6, <2>7
  <2> QED
    BY <1>3, <2>1, <2>5, <2>6, <2>8 DEF Loops
<1> QED
  BY <1>2, <1>3

\* Nothing that is at work is outside the loop as long as nothing is counted.
LEMMA LoopHasWork ==
  ASSUME ExecutorOK, WorkCounted, status = "RUNNING", ex.pc \in {"branch", "list", "look"},
         NEW loop, Loops(loop), ~ex.running, NEW q \in DOMAIN rows, IsWork(rows[q])
  PROVE  ~ex.first /\ \E n \in DOMAIN loop : loop[n] = q
<1>1. CASE ex.pc = "list"
  BY <1>1 DEF WorkCounted, NoWork
<1>2. CASE ex.pc = "look"
  BY <1>2 DEF WorkCounted, HasTurn, Loops
<1>3. CASE ex.pc = "branch"
  <2>1. q \in Here /\ rows[q].in_focus /\ ~ex.first
    BY <1>3 DEF IsWork, Here, Runs, ExecutorOK
  <2> QED
    BY <1>3, <2>1 DEF Loops
<1> QED
  BY <1>1, <1>2, <1>3

\* The loop in a planned workspace.
LEMMA LoopInOrder ==
  ASSUME ExecutorOK, WalkInOrder, status = "RUNNING", Planned,
         ex.pc \in {"branch", "list", "look"}, NEW loop, Loops(loop)
  PROVE  /\ \A n \in DOMAIN loop : loop[n] \in Here
         /\ \A m, n \in DOMAIN loop : loop[m] = loop[n] => m = n
         /\ ~ex.first =>
               /\ \A p \in Here : rows[p].in_focus => p \in ex.seen \cup ToSet(loop)
               /\ \A m, n \in DOMAIN loop :
                     m < n /\ rows[loop[n]].in_focus => rows[loop[m]].in_focus
         /\ \A p \in DOMAIN rows : Waiting(p) =>
               \/ \E n \in DOMAIN loop : loop[n] = p
               \/ \E q \in rows[p].previous :
                     /\ Holds(q)
                     /\ p \in ex.seen /\ ~ex.first =>
                           ~(rows[q].in_focus /\ \E n \in DOMAIN loop : loop[n] = q)
<1>1. CASE ex.pc = "look"
  <2>1. loop = ex.todo /\ ListedOnce /\ \A p \in DOMAIN rows : Waiting(p) => Ahead(p)
    BY <1>1 DEF Loops, WalkInOrder
  <2> QED
    BY <1>1, <2>1 DEF ListedOnce, Ahead, HasTurn
<1>2. CASE ex.pc # "look"
  <2>1. /\ \A m, n \in DOMAIN loop : loop[m] = loop[n] => m = n
        /\ \A q : (\E n \in DOMAIN loop : loop[n] = q)
                  <=> q \in Here /\ (IF ex.first THEN rows[q].status = "READY"
                                                 ELSE rows[q].in_focus)
    BY <1>2 DEF Loops
  <2>2. ex.seen = {} /\ (ex.first <=> ex.pc = "list")
    BY <1>2 DEF ExecutorOK
  <2>3. \A n \in DOMAIN loop : loop[n] \in Here
    BY <2>1
  <2>4. ~ex.first =>
           /\ \A p \in Here : rows[p].in_focus => p \in ToSet(loop)
           /\ \A n \in DOMAIN loop : rows[loop[n]].in_focus
    BY <2>1 DEF ToSet
  <2>5. ASSUME NEW p \in DOMAIN rows, Waiting(p)
        PROVE  \/ \E n \in DOMAIN loop : loop[n] = p
               \/ \E q \in rows[p].previous : Holds(q)
    <3>1. CASE ex.pc = "list"
      BY <2>1, <2>2, <2>5, <3>1 DEF Waiting
    <3>2. CASE ex.pc = "branch"
      BY <2>5, <3>2 DEF WalkInOrder, HeldBack
    <3> QED
      BY <1>2, <3>1, <3>2
  <2> QED
    BY <2>1, <2>2, <2>3, <2>4, <2>5
<1> QED
  BY <1>1, <1>2

\* A root is found that is to be written to.
LEMMA LookWrites ==
  ASSUME WInv, ex.pc \in {"branch", "list", "look"}, ex.pc = "branch" => status = "RUNNING",
         NEW loop \in Looped, NEW next \in 1..Len(loop),
         \A n \in 1..(next - 1) : ~Writes(loop[n]), Writes(loop[next]),
         DOMAIN ex' = DOMAIN Resting, ex'.pc = "write", ex'.root = loop[next],
         ex'.to = IF Starts(loop[next]) THEN "PENDING" ELSE "out",
         ex'.todo = SubSeq(loop, next + 1, Len(loop)), ex'.seen = ex.seen \cup ToSet(loop),
         ex'.first = ex.first, ex'.running \in BOOLEAN,
         ~ex'.running => ~ex.running /\ \A n \in 1..(next - 1) : ~Counts(loop[n]),
         UNCHANGED <<tables, overlapped, manager>>, UNCHANGED untouched
  PROVE  WInv'
<1>1. /\ UNCHANGED <<form, session, request, served>> /\ UNCHANGED <<rows, status>>
      /\ UNCHANGED <<overlapped, manager>>
  BY DEF untouched, serving, tables
<1>2. ExecutorOK /\ IsTable(rows) /\ Loops(loop)
  BY LoopedLoops DEF WInv, Types
<1>3. /\ loop \in Seq(DOMAIN rows) /\ next \in Nat /\ next \in DOMAIN loop
      /\ DOMAIN loop = 1..Len(loop) /\ Len(loop) \in Nat
  BY <1>2 DEF Loops
<1>4. /\ ex'.todo \in Seq(DOMAIN rows)
      /\ \A n \in DOMAIN ex'.todo : n + next \in DOMAIN loop /\ ex'.todo[n] = loop[n + next]
      /\ \A m \in DOMAIN loop : m > next => \E n \in DOMAIN ex'.todo : ex'.todo[n] = loop[m]
      /\ DOMAIN ex'.todo \subseteq Nat \ {0}
  <2>1. next \in 1..(Len(loop) + 1)
    BY <1>3
  <2>2. LET rest == SubSeq(loop, next + 1, Len(loop)) IN
        /\ rest \in Seq(DOMAIN rows)
        /\ \A n \in DOMAIN rest : n + next \in DOMAIN loop /\ rest[n] = loop[n + next]
        /\ \A m \in DOMAIN loop : m > next => \E n \in DOMAIN rest : rest[n] = loop[m]
    BY ONLY <1>3, <2>1, Remaining
  <2> QED
    BY <2>2
<1>5. ToSet(loop) = {loop[n] : n \in DOMAIN loop}
  BY DEF ToSet
<1>6. ExecutorOK'
  BY <1>1, <1>2, <1>3, <1>4, <1>5 DEF ExecutorOK
<1>7. Types' /\ SessionOpen'
  BY <1>1, <1>2, <1>6, EngineTypes DEF WInv
<1>8. ASSUME ~overlapped' PROVE Undisturbed'
  <2>1. Undisturbed /\ ~EngineRests
    BY <1>1, <1>8 DEF WInv, EngineRests
  <2>2. status = "RUNNING"
    BY <2>1 DEF Undisturbed, Apart
  <2>3. Apart'
    BY <1>1, <2>1, <2>2, ExecutorApart
  <2>4. WorkCounted'
    <3> SUFFICES ASSUME ~ex'.running, NEW q \in DOMAIN rows, IsWork(rows[q])
                 PROVE  ~ex.first /\ HasTurn(q)'
      BY <1>1, <2>2 DEF WorkCounted
    <3>1. ~ex.first /\ \E n \in DOMAIN loop : loop[n] = q
      BY <1>2, <2>1, <2>2, LoopHasWork DEF Undisturbed
    <3>2. PICK n \in DOMAIN loop : loop[n] = q
      BY <3>1
    <3>3. rows[q].status # "READY" /\ (Successful(q) \/ Counts(q))
      BY <3>1 DEF IsWork, Runs, Successful, Counts
    <3>4. ~(n < next)
      <4> SUFFICES ASSUME n < next PROVE FALSE
        OBVIOUS
      <4>1. n \in 1..(next - 1)
        BY <1>3, <3>2
      <4>2. ~Writes(loop[n]) /\ ~Counts(loop[n])
        BY <4>1
      <4> QED
        BY <3>1, <3>2, <3>3, <4>2 DEF Writes, Acknowledges
    <3>5. CASE n = next
      <4>1. ~Starts(q)
        BY <3>1, <3>3 DEF Starts, Startable
      <4> QED
        BY <3>1, <3>2, <3>5, <4>1 DEF HasTurn
    <3>6. CASE n > next
      BY <1>4, <3>1, <3>2, <3>6 DEF HasTurn
    <3> QED
      BY <1>3, <3>4, <3>5, <3>6
  <2>5. Acknowledged'
    BY <1>1 DEF Acknowledged, Writes, Acknowledges, Successful
  <2>6. WalkInOrder'
    <3> SUFFICES ASSUME Planned'
                 PROVE  ListedOnce' /\ \A q \in DOMAIN rows : Waiting(q)' => Ahead(q)'
      BY <1>1 DEF WalkInOrder
    <3>1. Planned /\ Here' = Here
      BY <1>1 DEF Planned, Closed, AtOnce, Here
    <3>2. /\ \A n \in DOMAIN loop : loop[n] \in Here
          /\ \A m, n \in DOMAIN loop : loop[m] = loop[n] => m = n
          /\ ~ex.first =>
                /\ \A p \in Here : rows[p].in_focus => p \in ex.seen \cup ToSet(loop)
                /\ \A m, n \in DOMAIN loop :
                      m < n /\ rows[loop[n]].in_focus => rows[loop[m]].in_focus
          /\ \A p \in DOMAIN rows : Waiting(p) =>
                \/ \E n \in DOMAIN loop : loop[n] = p
                \/ \E q \in rows[p].previous :
                      /\ Holds(q)
                      /\ p \in ex.seen /\ ~ex.first =>
                            ~(rows[q].in_focus /\ \E n \in DOMAIN loop : loop[n] = q)
      BY <1>2, <2>1, <2>2, <3>1, LoopInOrder DEF Undisturbed
    <3>3. \A n \in DOMAIN ex'.todo : next < n + next /\ n + next \in DOMAIN loop
      BY <1>3, <1>4
    <3>4. ListedOnce'
      <4>1. \A n \in DOMAIN ex'.todo : ex'.todo[n] \in Here /\ ex'.todo[n] \in ex'.seen
        BY <1>4, <1>5, <3>2
      <4>2. ASSUME NEW m \in DOMAIN ex'.todo, NEW n \in DOMAIN ex'.todo,
                   ex'.todo[m] = ex'.todo[n]
            PROVE  m = n
        <5>1. m + next = n + next
          BY <1>4, <3>2, <4>2
        <5> QED
          BY <1>3, <1>4, <5>1
      <4>3. /\ ex'.root \in Here /\ ex'.root \in ex'.seen
            /\ \A n \in DOMAIN ex'.todo : ex'.todo[n] # ex'.root
        <5>1. ex'.root \in Here /\ ex'.root \in ex'.seen
          BY <1>3, <1>5, <3>2
        <5>2. ASSUME NEW n \in DOMAIN ex'.todo, ex'.todo[n] = loop[next] PROVE FALSE
          <6>1. loop[n + next] = loop[next] /\ n + next \in DOMAIN loop
            BY <1>4, <5>2
          <6>2. n + next = next
            BY <1>3, <3>2, <6>1
          <6> QED
            BY <1>3, <1>4, <6>2
        <5> QED
          BY <5>1, <5>2
      <4>4. ASSUME ~ex.first, NEW m \in DOMAIN ex'.todo, NEW n \in DOMAIN ex'.todo,
                   m < n, rows[ex'.todo[n]].in_focus
            PROVE  rows[ex'.todo[m]].in_focus
        <5>1. m + next < n + next
          BY <1>3, <1>4, <4>4
        <5> QED
          BY <1>4, <3>2, <4>4, <5>1
      <4> QED
        BY <1>1, <3>1, <3>2, <4>1, <4>2, <4>3, <4>4 DEF ListedOnce
    <3>5. ASSUME NEW q \in DOMAIN rows, Waiting(q)' PROVE Ahead(q)'
      <4>1. Waiting(q)
        BY <1>1, <3>1, <3>5 DEF Waiting
      <4>2. ASSUME NEW r \in rows[q].previous, Holds(r),
                   ~ex.first => ~(rows[r].in_focus /\ HasTurn(r)')
            PROVE  Ahead(q)'
        BY <1>1, <4>2 DEF Ahead, Holds, Successful
      <4>3. ASSUME NEW n \in DOMAIN loop, loop[n] = q PROVE Ahead(q)'
        <5>1. CASE n > next
          BY <1>4, <4>3, <5>1 DEF Ahead
        <5>2. CASE n = next
          BY <4>3, <5>2 DEF Ahead
        <5>3. CASE n < next
          <6>1. ~Writes(q)
            BY <1>3, <4>3, <5>3
          <6>2. PICK r \in rows[q].previous : ~Successful(r)
            BY <4>1, <6>1 DEF Writes, Starts, Startable, is_provisionable, Waiting
          <6>3. ASSUME ~ex.first, rows[r].in_focus, HasTurn(r)' PROVE FALSE
            <7>1. CASE \E m \in DOMAIN ex'.todo : ex'.todo[m] = r
              <8>1. PICK m \in DOMAIN ex'.todo : ex'.todo[m] = r
                BY <7>1
              <8>2. n < m + next /\ m + next \in DOMAIN loop /\ loop[m + next] = r
                BY <1>3, <1>4, <5>3, <8>1
              <8> QED
                BY <3>2, <4>1, <4>3, <6>3, <8>2 DEF Waiting
            <7>2. CASE loop[next] = r /\ ~Starts(r)
              BY <6>2, <6>3, <7>2 DEF Writes, Acknowledges
            <7> QED
              BY <6>3, <7>1, <7>2 DEF HasTurn
          <6> QED
            BY <4>2, <6>2, <6>3 DEF Holds
        <5> QED
          BY <1>3, <5>1, <5>2, <5>3
      <4>4. ASSUME ~\E n \in DOMAIN loop : loop[n] = q PROVE Ahead(q)'
        <5>1. PICK r \in rows[q].previous :
                /\ Holds(r)
                /\ q \in ex.seen /\ ~ex.first =>
                      ~(rows[r].in_focus /\ \E n \in DOMAIN loop : loop[n] = r)
          BY <3>2, <4>1, <4>4
        <5>2. q \in ex'.seen => q \in ex.seen
          BY <1>5, <4>4
        <5>3. HasTurn(r)' => \E n \in DOMAIN loop : loop[n] = r
          BY <1>3, <1>4 DEF HasTurn
        <5>4. rows'[q].previous = rows[q].previous /\ Holds(r)'
              /\ (rows'[r].in_focus <=> rows[r].in_focus)
          BY <1>1, <5>1 DEF Holds, Successful
        <5> QED
          BY <5>1, <5>2, <5>3, <5>4 DEF Ahead
      <4> QED
        BY <4>3, <4>4
    <3> QED
      BY <3>4, <3>5
  <2> QED
    BY <1>1, <2>1, <2>3, <2>4, <2>5, <2>6, RowsKept DEF Undisturbed
<1> QED
  BY <1>7, <1>8 DEF WInv

\* The loop ends: what the executor has to say of the workspace is decided.
LEMMA LookEnds ==
  ASSUME WInv, ex.pc \in {"branch", "list", "look"}, ex.pc = "branch" => status = "RUNNING",
         NEW loop \in Looped, \A n \in DOMAIN loop : ~Writes(loop[n]),
         DOMAIN ex' = DOMAIN Resting, ex'.pc \in {"verdict", "end"},
         ex'.todo = <<>>, ex'.seen = {}, ex'.first = ex.first, ex'.running \in BOOLEAN,
         ~ex'.running => ~ex.running /\ \A n \in DOMAIN loop : ~Counts(loop[n]),
         ex'.pc = "verdict" => ~ex'.running /\ status = "RUNNING" /\ ex'.to = Verdict,
         UNCHANGED <<tables, overlapped, manager>>, UNCHANGED untouched
  PROVE  WInv'
<1>1. /\ UNCHANGED <<form, session, request, served>> /\ UNCHANGED <<rows, status>>
      /\ UNCHANGED <<overlapped, manager>>
  BY DEF untouched, serving, tables
<1>2. ExecutorOK /\ IsTable(rows) /\ Loops(loop)
  BY LoopedLoops DEF WInv, Types
<1>3. ExecutorOK'
  <2>1. <<>> \in Seq(DOMAIN rows')
    OBVIOUS
  <2> QED
    BY <1>1, <1>2, <2>1 DEF ExecutorOK
<1>4. Types' /\ SessionOpen'
  BY <1>1, <1>2, <1>3, EngineTypes DEF WInv
<1>5. ASSUME ~overlapped' PROVE Undisturbed'
  <2>1. Undisturbed /\ ~EngineRests
    BY <1>1, <1>5 DEF WInv, EngineRests
  <2>2. status = "RUNNING"
    BY <2>1 DEF Undisturbed, Apart
  <2>3. Apart'
    BY <1>1, <2>1, <2>2, ExecutorApart
  <2>4. WorkCounted' /\ Acknowledged'
    <3> SUFFICES ASSUME ~ex'.running, NEW q \in DOMAIN rows, IsWork(rows[q]) PROVE FALSE
      BY <1>1, <2>2 DEF WorkCounted, NoWork, Acknowledged
    <3>1. ~ex.first /\ \E n \in DOMAIN loop : loop[n] = q
      BY <1>2, <2>1, <2>2, LoopHasWork DEF Undisturbed
    <3>2. ~Writes(q) /\ ~Counts(q)
      BY <3>1
    <3> QED
      BY <3>1, <3>2 DEF IsWork, Runs, Successful, Counts, Writes, Acknowledges
  <2>5. WalkInOrder'
    <3>1. ASSUME Planned, NEW p \in DOMAIN rows, Waiting(p) PROVE HeldBack(p)
      <4>1. CASE \E n \in DOMAIN loop : loop[n] = p
        <5>1. ~Writes(p)
          BY <4>1
        <5> QED
          BY <3>1, <5>1 DEF Writes, Starts, Startable, is_provisionable, Waiting, HeldBack, Holds
      <4>2. CASE ~\E n \in DOMAIN loop : loop[n] = p
        <5>1. \E q \in rows[p].previous : Holds(q)
          BY <1>2, <2>1, <2>2, <3>1, <4>2, LoopInOrder DEF Undisturbed
        <5> QED
          BY <5>1 DEF HeldBack
      <4> QED
        BY <4>1, <4>2
    <3>2. ASSUME ex'.pc = "verdict", ex'.to = "COMPLETED_SUCCESSFULLY", NEW p \in Here
          PROVE  rows[p].status \notin {"COMPLETED_WITH_FAILURE", "ON_HOLD"}
      BY <3>2 DEF Verdict
    <3> QED
      BY <1>1, <3>1, <3>2 DEF WalkInOrder, Planned, Closed, Here, AtOnce, Waiting, HeldBack,
         Holds, Successful
  <2> QED
    BY <1>1, <2>1, <2>3, <2>4, <2>5, RowsKept DEF Undisturbed
<1> QED
  BY <1>4, <1>5 DEF WInv

LEMMA LookKeeps ==
  ASSUME WInv, Look
  PROVE  WInv'
<1>1. /\ UNCHANGED untouched /\ UNCHANGED <<overlapped, manager>>
      /\ ex.pc \in {"branch", "list", "look"} /\ (ex.pc = "branch" => status = "RUNNING")
  BY DEF Look
<1>2. PICK loop \in Looped : \E next \in 1..(Len(loop) + 1) :
        /\ \A n \in 1..(next - 1) : ~Writes(loop[n])
        /\ next <= Len(loop) => Writes(loop[next])
        /\ \/ Fails(Gone(loop))
           \/ /\ ~Gone(loop)
              /\ \/ next <= Len(loop) /\ Find(loop, next)
                 \/ next > Len(loop) /\ Exhaust(loop)
              /\ UNCHANGED <<tables, executor_running>>
  BY DEF Look
<1>3. PICK next \in 1..(Len(loop) + 1) :
        /\ \A n \in 1..(next - 1) : ~Writes(loop[n])
        /\ next <= Len(loop) => Writes(loop[next])
        /\ \/ Fails(Gone(loop))
           \/ /\ ~Gone(loop)
              /\ \/ next <= Len(loop) /\ Find(loop, next)
                 \/ next > Len(loop) /\ Exhaust(loop)
              /\ UNCHANGED <<tables, executor_running>>
  BY <1>2
<1>4. ExecutorOK /\ Types /\ Loops(loop)
  BY LoopedLoops DEF WInv, Types
<1>5. Len(loop) \in Nat /\ DOMAIN loop = 1..Len(loop)
  BY <1>4 DEF Loops
<1>6. CASE Fails(Gone(loop))
  <2>1. ASSUME ~overlapped, status = "RUNNING", Planned PROVE ~Gone(loop)
    <3>1. \A n \in DOMAIN loop : loop[n] \in Here
      BY <1>1, <1>4, <2>1, LoopInOrder DEF WInv, Undisturbed
    <3> QED
      BY <2>1, <3>1 DEF Gone, Here
  <2> QED
    BY <1>1, <1>6, <2>1, FailsKeeps
<1>7. CASE next <= Len(loop) /\ Find(loop, next) /\ UNCHANGED tables
  <2>1. next \in 1..Len(loop) /\ Writes(loop[next])
    BY <1>3, <1>5, <1>7
  <2>2. /\ DOMAIN ex' = DOMAIN Resting /\ ex'.pc = "write" /\ ex'.root = loop[next]
        /\ ex'.to = IF Starts(loop[next]) THEN "PENDING" ELSE "out"
        /\ ex'.todo = SubSeq(loop, next + 1, Len(loop))
        /\ ex'.seen = ex.seen \cup ToSet(loop)
        /\ ex'.first = ex.first /\ ex'.running = Running(loop, next)
    BY <1>4, <1>7 DEF Find, ExecutorOK, Resting
  <2>3. /\ ex'.running \in BOOLEAN
        /\ ~ex'.running => ~ex.running /\ \A n \in 1..(next - 1) : ~Counts(loop[n])
    BY <2>2, Zenon DEF Running
  <2> QED
    BY <1>1, <1>3, <1>7, <2>1, <2>2, <2>3, LookWrites
<1>8. CASE next > Len(loop) /\ Exhaust(loop) /\ UNCHANGED tables
  <2>1. \A n \in DOMAIN loop : n \in 1..(next - 1)
    BY <1>5, <1>8
  <2>2. PICK running : running = Running(loop, Len(loop) + 1)
    OBVIOUS
  <2>3. ex' = [ex EXCEPT !.pc = IF status = "RUNNING" /\ ~running THEN "verdict" ELSE "end",
                         !.to = IF status = "RUNNING" /\ ~running THEN Verdict ELSE @,
                         !.todo = <<>>, !.seen = {}, !.running = running]
    BY <1>8, <2>2 DEF Exhaust
  <2>4. /\ DOMAIN ex' = DOMAIN Resting /\ ex'.pc \in {"verdict", "end"}
        /\ ex'.todo = <<>> /\ ex'.seen = {} /\ ex'.first = ex.first
        /\ ex'.running = running
        /\ ex'.pc = "verdict" => ~running /\ status = "RUNNING" /\ ex'.to = Verdict
    BY <1>4, <2>3 DEF ExecutorOK, Resting
  <2>5. running \in BOOLEAN
    BY <2>2, Zenon DEF Running
  <2>6. ~running => ~ex.running /\ \A n \in DOMAIN loop : ~Counts(loop[n])
    <3>1. ~running => ~ex.running /\ \A n \in 1..((Len(loop) + 1) - 1) : ~Counts(loop[n])
      BY <2>2, Zenon DEF Running
    <3> QED
      BY <1>5, <3>1
  <2> QED
    BY <1>1, <1>3, <1>8, <2>1, <2>4, <2>5, <2>6, LookEnds
<1> QED
  BY <1>3, <1>6, <1>7, <1>8

-----------------------------------------------------------------------------
(* The invariant.                                                          *)

LEMMA NothingHappens ==
  ASSUME WInv, UNCHANGED vars
  PROVE  WInv'
<1>1. /\ UNCHANGED <<form, rows, status, lists, request, session, served, overlapped, manager>>
      /\ UNCHANGED <<message, ex>> /\ UNCHANGED untouched
  BY DEF vars, tables, serving, engine, broker, untouched
<1>2. ExecutorOK'
  BY <1>1 DEF WInv, Types, ExecutorOK
<1>3. Types' /\ SessionOpen'
  BY <1>1, <1>2, EngineTypes DEF WInv, Types
<1>4. ASSUME ~overlapped' PROVE Undisturbed'
  <2>1. Undisturbed
    BY <1>1, <1>4 DEF WInv
  <2>2. Apart'
    BY <1>1, <2>1 DEF Undisturbed, Apart, EngineRests
  <2>3. WorkCounted' /\ Acknowledged'
    BY <1>1, <2>1 DEF Undisturbed, WorkCounted, NoWork, HasTurn, Acknowledged, Successful
  <2>4. WalkInOrder'
    <3>1. Here' = Here /\ (Planned' <=> Planned)
      BY <1>1 DEF Here, Planned, Closed, AtOnce
    <3>2. ListedOnce' <=> ListedOnce
      BY <1>1, <3>1 DEF ListedOnce
    <3>3. \A p : (Waiting(p)' <=> Waiting(p)) /\ (HeldBack(p)' <=> HeldBack(p))
      BY <1>1, <3>1 DEF Waiting, HeldBack, Holds, Successful
    <3>4. \A p : Ahead(p)' <=> Ahead(p)
      BY <1>1 DEF Ahead, Holds, Successful, HasTurn
    <3> QED
      BY <1>1, <2>1, <3>1, <3>2, <3>3, <3>4 DEF Undisturbed, WalkInOrder
  <2> QED
    BY <1>1, <2>1, <2>2, <2>3, <2>4, RowsKept DEF Undisturbed
<1> QED
  BY <1>3, <1>4 DEF WInv

LEMMA NextKeeps ==
  ASSUME WInv, [Next]_vars
  PROVE  WInv'
<1>1. CASE Ask \/ Serve
  BY <1>1, RequestsKeep
<1>2. CASE Manager
  BY <1>2, ManagerKeeps
<1>3. CASE Executor
  BY <1>3, PausesKeep, MarkKeeps, LookKeeps, WriteKeeps, ConcludeKeeps DEF Executor
<1>4. CASE \E p \in DOMAIN rows : Workflows(p)
  BY <1>4, WorkflowsKeep
<1>5. CASE UNCHANGED vars
  BY <1>5, NothingHappens
<1> QED
  BY <1>1, <1>2, <1>3, <1>4, <1>5 DEF Next

\* What is known of a workspace, of the session of a request, of the executor and,
\* as long as no request has met the engine, of the walk, holds in every state.
THEOREM WInvCorrect == Spec => []WInv
<1>1. Init => WInv
  BY InitWInv
<1>2. WInv /\ [Next]_vars => WInv'
  BY NextKeeps
<1> QED
  BY <1>1, <1>2, PTL DEF Spec

-----------------------------------------------------------------------------
(* The verdict.                                                            *)

\* Only the executor says that a workspace is successful.
LEMMA OnlyConclude ==
  ASSUME Next, status # "COMPLETED_SUCCESSFULLY", status' = "COMPLETED_SUCCESSFULLY"
  PROVE  Conclude
<1>1. CASE Ask
  <2>1. ASSUME Create \/ delete_workspace PROVE FALSE
    BY <2>1 DEF Create, delete_workspace
  <2>2. ASSUME Restore \/ update_workspace \/ provision_workspace PROVE FALSE
    <3>1. UNCHANGED tables
      BY <2>2, Zenon DEF Restore, update_workspace, provision_workspace
    <3> QED
      BY <3>1 DEF tables
  <2>3. ASSUME NEW picked, provision_roots(picked) PROVE FALSE
    <3>1. UNCHANGED tables
      BY <2>3, Zenon DEF provision_roots
    <3> QED
      BY <3>1 DEF tables
  <2> QED
    BY <1>1, <2>1, <2>2, <2>3 DEF Ask
<1>2. CASE Serve
  <2>1. ASSUME NEW changes, Commit(changes) PROVE FALSE
    BY <2>1 DEF Commit
  <2>2. ASSUME NEW turn, Composes(turn) PROVE FALSE
    BY <2>1, <2>2 DEF Composes
  <2>3. ASSUME NEW turn, Skip(turn) \/ Keep(turn) \/ Rehold(turn) PROVE FALSE
    <3>1. UNCHANGED tables
      BY <2>3, Zenon DEF Skip, Keep, Rehold
    <3> QED
      BY <3>1 DEF tables
  <2>4. ASSUME NEW turn, Make(turn) PROVE FALSE
    BY <2>2, <2>4 DEF Make
  <2>5. ASSUME NEW turn, Raise(turn) PROVE FALSE
    BY <2>2, <2>5 DEF Raise, tables
  <2>6. ASSUME Finish PROVE FALSE
    BY <2>1, <2>6 DEF Finish
  <2>7. ASSUME FinishUpdate \/ Ready \/ Provisioned PROVE FALSE
    BY <2>7 DEF FinishUpdate, Ready, Provisioned, SetReady
  <2>8. ASSUME NEW p, DropStale(p) \/ Provision(p) \/ Pick(p) PROVE FALSE
    BY <2>8 DEF DropStale, Provision, Pick, SetReady, tables
  <2> QED
    BY <1>2, <2>3, <2>4, <2>5, <2>6, <2>7, <2>8 DEF Serve
<1>3. CASE Manager
  BY <1>3 DEF Manager, ManagerScan, ManagerInitiate, ManagerSend, tables
<1>4. CASE Executor
  <2>1. CASE Take \/ Branch \/ Mark \/ Done \/ Return
    BY <2>1 DEF Take, Branch, Mark, Done, Return, Fails, tables
  <2>2. CASE Look
    BY <2>2 DEF Look, Fails, tables
  <2>3. CASE Write
    BY <2>3 DEF Write, Fails, tables
  <2> QED
    BY <1>4, <2>1, <2>2, <2>3 DEF Executor
<1>5. CASE \E p \in DOMAIN rows : Workflows(p)
  BY <1>5 DEF Workflows, Initiate, Run, End, Moves
<1> QED
  BY <1>1, <1>2, <1>3, <1>4, <1>5 DEF Next

\* In a planned workspace whose edges can be followed nothing is left.
LEMMA VerdictTrue ==
  ASSUME Types, Undisturbed, Followable, ex.pc = "verdict", ex.to = "COMPLETED_SUCCESSFULLY",
         ~\E p \in Here : AtOnce(p) \/ Retried(p)
  PROVE  \A p \in Here : Successful(p)
<1>1. status = "RUNNING" /\ Planned /\ NoWork(rows) /\ HandedOver(rows)
  BY DEF Undisturbed, Apart, Planned, Followable, WorkCounted
<1>2. /\ \A p \in DOMAIN rows : Waiting(p) => HeldBack(p)
      /\ \A p \in Here : rows[p].status \notin {"COMPLETED_WITH_FAILURE", "ON_HOLD"}
  BY <1>1 DEF Undisturbed, WalkInOrder
<1>3. ASSUME NEW p \in Here, ~Successful(p) PROVE Waiting(p) /\ HeldBack(p)
  <2>1. p \in DOMAIN rows /\ rows[p].here /\ rows[p].status \in RootStatuses \ {"absent"}
    BY DEF Types, IsTable, IsRow, Here
  <2>2. rows[p].status \notin Runs
    BY <1>1, <2>1 DEF HandedOver, NoWork, IsWork
  <2>3. rows[p].status = "READY"
    BY <1>2, <1>3, <2>1, <2>2 DEF RootStatuses, Runs, Successful
  <2> QED
    BY <1>2, <2>1, <2>3 DEF Waiting, Retried
<1> DEFINE left == {p \in Here : ~Successful(p)}
<1>4. SUFFICES ASSUME left # {} PROVE FALSE
  OBVIOUS
<1>5. PICK p \in left : rows[p].previous \cap left = {}
  BY <1>4 DEF Followable
<1>6. PICK q \in rows[p].previous : Holds(q)
  BY <1>3, <1>5 DEF HeldBack
<1>7. q \in Here /\ Successful(q) /\ rows[q].in_focus
  BY <1>1, <1>5, <1>6 DEF Planned, Closed, Holds, Here
<1> QED
  BY <1>1, <1>7 DEF NoWork, IsWork, Here, Successful

\* "All the roots in the workspace were successful": so they are when the executor
\* says so, in every workspace whose edges can be followed and whose roots are for
\* the executor to start, as long as no request has met the engine.
THEOREM VerdictIsSoundCorrect == Spec => VerdictIsSound
<1> DEFINE Sound ==
      status # "COMPLETED_SUCCESSFULLY" /\ status' = "COMPLETED_SUCCESSFULLY"
      /\ ~overlapped /\ Followable /\ ~(\E p \in Here : AtOnce(p) \/ Retried(p))
      => \A p \in Here : Successful(p)
<1>1. WInv /\ [Next]_vars => [Sound]_vars
  <2> SUFFICES ASSUME WInv, Next, status # "COMPLETED_SUCCESSFULLY",
                      status' = "COMPLETED_SUCCESSFULLY", ~overlapped, Followable,
                      ~\E p \in Here : AtOnce(p) \/ Retried(p)
               PROVE  \A p \in Here : Successful(p)
    OBVIOUS
  <2>1. Conclude
    BY OnlyConclude
  <2>2. ex.pc = "verdict" /\ ex.to = "COMPLETED_SUCCESSFULLY"
    BY <2>1 DEF Conclude, Fails, tables
  <2> QED
    BY <2>2, VerdictTrue DEF WInv
<1>2. VerdictIsSound <=> [][Sound]_vars
  BY PTL DEF VerdictIsSound
<1> QED
  BY <1>1, <1>2, WInvCorrect, PTL DEF Spec

-----------------------------------------------------------------------------
(* READY is what a request has asked for.                                  *)

LEMMA OverAsked ==
  ASSUME NEW f, NEW g, Asked(f), Asked(g)
  PROVE  Asked(Over(f, g))
<1> SUFFICES ASSUME NEW p \in DOMAIN Over(f, g), Over(f, g)[p].status = "READY"
             PROVE  p \in provisioned
  BY DEF Asked
<1>1. CASE p \in DOMAIN f
  BY <1>1 DEF Asked, Over
<1>2. CASE p \notin DOMAIN f
  <2>1. p \in DOMAIN g /\ Over(f, g)[p] = g[p]
    BY <1>2 DEF Over
  <2> QED
    BY <2>1 DEF Asked
<1> QED
  BY <1>1, <1>2

LEMMA OnlyAsked ==
  ASSUME NEW p, NEW row, row.status # "READY"
  PROVE  Asked(Only(p, row))
BY DEF Asked, Only

LEMMA NothingAskedFor == Asked(Nothing)
BY NothingTable DEF Asked

LEMMA NowAsked ==
  ASSUME Asked(rows), Asked(session), NEW p, Now(p).status = "READY"
  PROVE  p \in provisioned
<1> DEFINE both == Over(session, rows)
<1>1. Asked(both) /\ DOMAIN both = DOMAIN session \cup DOMAIN rows
  BY OverAsked, OverDomain
<1>2. Absent.status # "READY"
  BY AbsentRow
<1> QED
  BY <1>1, <1>2 DEF Now, Asked

LEMMA PlacedAsked ==
  ASSUME Types, NEW turn \in request.todo, ~PassedOver(turn), NEW previous
  PROVE  Asked(Placed(turn, previous))
<1> DEFINE r == turn[2]
           as == IF request.by = "update" /\ ~Listed(r) THEN Section(turn).unlisted
                                                        ELSE "ON_HOLD"
           base == [Now(request.base) EXCEPT !.status = "ON_HOLD"]
           new == [Absent EXCEPT !.status = as, !.previous = previous, !.here = TRUE]
<1>1. as # "READY"
  <2>1. SectionOK(Kind(r), Section(turn))
    BY TurnsSection DEF Types
  <2> QED
    BY <2>1 DEF SectionOK
<1>2. base.status # "READY"
  BY NowRow, RowWithStatus DEF Types, RootStatuses
<1>3. new.status = as
  BY RowFields DEF Absent
<1>4. Asked(Only(request.base, base)) /\ Asked(Only(Fresh(r), new))
  BY <1>1, <1>2, <1>3, OnlyAsked
<1> QED
  BY <1>4, NothingAskedFor DEF Placed

LEMMA OwnAsked ==
  ASSUME Types, NEW turn \in request.todo
  PROVE  Asked(Own(turn))
<1> DEFINE new == [Absent EXCEPT !.status = Made(turn)]
<1>1. SectionOK(Kind(turn[2]), Section(turn))
  BY TurnsSection DEF Types
<1>2. new.status = Made(turn)
  BY RowFields DEF Absent
<1>3. Made(turn) # "READY"
  BY <1>1 DEF Made, SectionOK
<1>4. Asked(Only(Fresh(turn[2]), new))
  BY <1>2, <1>3, OnlyAsked
<1> QED
  BY <1>4, NothingAskedFor DEF Own

LEMMA ComposesAsked ==
  ASSUME Types, Asked(rows), Asked(session), NEW turn \in request.todo, Composes(turn),
         provisioned' = provisioned
  PROVE  Asked(rows)'
<1>1. Asked(Own(turn))
  BY OwnAsked
<1>2. Asked(Over(Over(Own(turn), session), rows)) /\ Asked(Over(Own(turn), rows))
  BY <1>1, OverAsked
<1>3. rows' \in {Over(Over(Own(turn), session), rows), Over(Own(turn), rows)}
  BY DEF Composes, Commit, Flushed
<1> QED
  BY <1>2, <1>3 DEF Asked

LEMMA ReholdAsked ==
  ASSUME Types, Asked(rows), Asked(session), NEW turn \in request.todo, Rehold(turn)
  PROVE  Asked(session)'
<1>1. PICK p \in Existing(turn[2]) :
        LET twice == Predecessors(turn) \cap Now(p).previous
            held == [Now(p) EXCEPT !.status = "ON_HOLD",
                                   !.previous = Now(p).previous \cup Predecessors(turn),
                                   !.doubled = Now(p).doubled \/ twice # {}]
            edges == [q \in twice |-> [Now(q) EXCEPT !.doubled = TRUE]]
        IN /\ request' = [Ended(turn) EXCEPT !.made = Over(Only(turn[2], p), Ended(turn).made),
                                             !.used = Ended(turn).used \cup {p}]
           /\ session' = Over(edges, Over(Only(p, held), session))
  BY Zenon DEF Rehold
<1> DEFINE twice == Predecessors(turn) \cap Now(p).previous
           held == [Now(p) EXCEPT !.status = "ON_HOLD",
                                  !.previous = Now(p).previous \cup Predecessors(turn),
                                  !.doubled = Now(p).doubled \/ twice # {}]
           edges == [q \in twice |-> [Now(q) EXCEPT !.doubled = TRUE]]
<1>2. IsRow(Now(p))
  BY NowRow DEF Types
<1>3. held.status # "READY"
  BY <1>2, RowFields DEF IsRow
<1>4. Asked(Over(Only(p, held), session))
  BY <1>3, OnlyAsked, OverAsked
<1>5. Asked(edges)
  <2> SUFFICES ASSUME NEW q \in twice, edges[q].status = "READY" PROVE q \in provisioned
    BY DEF Asked
  <2>1. IsRow(Now(q)) /\ edges[q] = [Now(q) EXCEPT !.doubled = TRUE]
    BY NowRow DEF Types
  <2>2. Now(q).status = "READY"
    BY <2>1, RowFields DEF IsRow
  <2> QED
    BY <2>2, NowAsked
<1>6. Asked(session')
  BY <1>1, <1>4, <1>5, OverAsked
<1>7. provisioned' = provisioned
  BY DEF Rehold
<1> QED
  BY <1>6, <1>7 DEF Asked

\* The edges that were put off change no status.
LEMMA EdgesAsked ==
  ASSUME Types, Asked(rows), Asked(session), NEW kept, IsTable(kept), Asked(kept), NEW put
  PROVE  LET row(q) == IF q \in DOMAIN kept THEN kept[q] ELSE Now(q)
             edges == [q \in DOMAIN put |->
                          [row(q) EXCEPT !.previous = row(q).previous \cup put[q]]]
         IN Asked(Over(edges, kept))
<1> DEFINE row(q) == IF q \in DOMAIN kept THEN kept[q] ELSE Now(q)
           edges == [q \in DOMAIN put |->
                        [row(q) EXCEPT !.previous = row(q).previous \cup put[q]]]
<1>1. \A q : IsRow(row(q)) /\ (row(q).status = "READY" => q \in provisioned)
  BY NowRow, NowAsked DEF IsTable, Types, Asked
<1>2. Asked(edges)
  <2> SUFFICES ASSUME NEW q \in DOMAIN put, edges[q].status = "READY" PROVE q \in provisioned
    BY DEF Asked
  <2>1. edges[q] = [row(q) EXCEPT !.previous = row(q).previous \cup put[q]]
    OBVIOUS
  <2>2. IsRow(row(q)) /\ (row(q).status = "READY" => q \in provisioned)
    BY <1>1
  <2> HIDE DEF row, edges
  <2> QED
    BY <2>1, <2>2, RowFields DEF IsRow
<1> HIDE DEF edges
<1>3. Asked(Over(edges, kept))
  BY <1>2, OverAsked
<1> QED
  BY <1>3 DEF edges

LEMMA MakeAsked ==
  ASSUME Types, Asked(rows), Asked(session), NEW turn \in request.todo, Make(turn)
  PROVE  Asked(session)'
<1> DEFINE r == turn[2]
           p == Fresh(r)
           itself == IF RulesRead(turn) /\ r \in Refers(r)
                     THEN {p} ELSE {}
           previous == Predecessors(turn) \cup itself
           late == Over(Later(turn), request.late)
           done == IF Forgotten(turn, previous) THEN request.made
                   ELSE Over(Only(r, p), request.made)
           placed == Placed(turn, previous)
           kept == IF request.stored THEN placed ELSE Over(placed, session)
           put == PutOff(turn, late, done)
           row(q) == IF q \in DOMAIN kept THEN kept[q] ELSE Now(q)
           edges == [q \in DOMAIN put |->
                        [row(q) EXCEPT !.previous = row(q).previous \cup put[q]]]
<1>1. /\ Turn(turn) /\ ~PassedOver(turn) /\ provisioned' = provisioned
      /\ session' = Over(edges, kept)
  BY DEF Make
<1>2. IsTable(kept) /\ Asked(kept)
  <2>1. IsTable(placed) /\ Asked(placed)
    BY <1>1, PlacedTable, PlacedAsked
  <2> HIDE DEF placed
  <2>2. IsTable(Over(placed, session)) /\ Asked(Over(placed, session))
    BY <2>1, OverTable, OverAsked DEF Types
  <2> QED
    BY <2>1, <2>2
<1>3. Asked(session')
  <2> HIDE DEF kept, put
  <2> QED
    BY <1>1, <1>2, EdgesAsked
<1>4. provisioned' = provisioned
  BY <1>1
<1> QED
  BY <1>3, <1>4 DEF Asked

\* A root that is written to is READY only if it is asked for.
LEMMA ReadyAsked ==
  ASSUME IsTable(rows), Asked(rows), NEW p, rows' = [rows EXCEPT ![p].status = "READY"],
         provisioned' = provisioned \cup {p}
  PROVE  Asked(rows)'
<1>1. /\ DOMAIN rows' = DOMAIN rows
      /\ \A q \in DOMAIN rows :
            rows'[q].status = IF q = p THEN "READY" ELSE rows[q].status
  <2>1. "READY" \in RootStatuses
    BY DEF RootStatuses
  <2> QED
    BY <2>1, RowWritten
<1> QED
  BY <1>1 DEF Asked

LEMMA TurnAsked ==
  ASSUME Types, Asked(rows), Asked(session), NEW turn \in request.todo,
         Skip(turn) \/ Keep(turn) \/ Rehold(turn) \/ Make(turn) \/ Raise(turn)
  PROVE  Asked(rows)' /\ Asked(session)'
<1>1. CASE Skip(turn) \/ Keep(turn)
  <2>1. UNCHANGED <<rows, session, provisioned>>
    BY <1>1, Zenon DEF Skip, Keep, tables
  <2> QED
    BY <2>1 DEF Asked
<1>2. CASE Rehold(turn)
  <2>1. UNCHANGED <<rows, provisioned>>
    BY <1>2, Zenon DEF Rehold, tables
  <2> QED
    BY <1>2, <2>1, ReholdAsked DEF Asked
<1>3. CASE Make(turn)
  <2>1. Composes(turn) /\ provisioned' = provisioned
    BY <1>3, Zenon DEF Make
  <2> QED
    BY <1>3, <2>1, ComposesAsked, MakeAsked
<1>4. CASE Raise(turn)
  <2>1. session' = Nothing /\ provisioned' = provisioned
    BY <1>4 DEF Raise
  <2>2. Asked(rows)'
    <3>1. CASE Reheld(turn)
      BY <1>4, <2>1, <3>1 DEF Raise, tables, Asked
    <3>2. CASE ~Reheld(turn)
      BY <1>4, <2>1, <3>2, ComposesAsked DEF Raise
    <3> QED
      BY <3>1, <3>2
  <2> QED
    BY <2>1, <2>2, NothingTable DEF Asked
<1> QED
  BY <1>1, <1>2, <1>3, <1>4

LEMMA ServesAsked ==
  ASSUME Types, Asked(rows), Asked(session), Serve
  PROVE  Asked(rows)' /\ Asked(session)'
<1>1. CASE \E turn \in request.todo :
              Skip(turn) \/ Keep(turn) \/ Rehold(turn) \/ Make(turn) \/ Raise(turn)
  BY <1>1, TurnAsked
<1>2. CASE Finish
  <2>1. rows' = Over(session, rows) /\ session' = Nothing /\ provisioned' = provisioned
    BY <1>2 DEF Finish, Commit, Flushed
  <2>2. Asked(Over(session, rows))
    BY OverAsked
  <2> QED
    BY <2>1, <2>2, NothingTable DEF Asked
<1>3. CASE FinishUpdate \/ Provisioned
  BY <1>3 DEF FinishUpdate, Provisioned, Asked
<1>4. CASE Ready
  <2>1. /\ rows' = [rows EXCEPT ![request.root].status = "READY"]
        /\ provisioned' = provisioned \cup {request.root} /\ session' = session
    BY <1>4 DEF Ready, SetReady
  <2> QED
    BY <2>1, ReadyAsked DEF Types, Asked
<1>5. ASSUME NEW p, DropStale(p)
      PROVE  Asked(rows)' /\ Asked(session)'
  <2>1. UNCHANGED <<session, provisioned>>
    BY <1>5 DEF DropStale
  <2>2. CASE rows[p].doubled
    BY <1>5, <2>1, <2>2 DEF DropStale, Asked
  <2>3. CASE ~rows[p].doubled
    <3>1. rows' = [q \in DOMAIN rows |-> IF q = p THEN Absent
                        ELSE [rows[q] EXCEPT !.previous = rows[q].previous \ {p}]]
      BY <1>5, <2>3 DEF DropStale
    <3>2. ASSUME NEW q \in DOMAIN rows, rows'[q].status = "READY"
          PROVE  rows[q].status = "READY"
      <4>1. q # p
        BY <3>1, <3>2, AbsentRow
      <4>2. rows'[q] = [rows[q] EXCEPT !.previous = rows[q].previous \ {p}]
        BY <3>1, <4>1
      <4>3. IsRow(rows[q])
        BY DEF Types, IsTable
      <4> QED
        BY <3>2, <4>2, <4>3, RowFields DEF IsRow
    <3>3. DOMAIN rows' = DOMAIN rows
      BY <3>1
    <3> QED
      BY <2>1, <3>2, <3>3 DEF Asked
  <2> QED
    BY <2>2, <2>3
<1>6. ASSUME NEW p, Provision(p)
      PROVE  Asked(rows)' /\ Asked(session)'
  <2>1. /\ rows' = [rows EXCEPT ![p].status = "READY"]
        /\ provisioned' = provisioned \cup {p} /\ session' = session
    BY <1>6 DEF Provision, SetReady
  <2> QED
    BY <2>1, ReadyAsked DEF Types, Asked
<1>7. ASSUME NEW p, Pick(p)
      PROVE  Asked(rows)' /\ Asked(session)'
  BY <1>7 DEF Pick, tables, Asked
<1> QED
  BY <1>1, <1>2, <1>3, <1>4, <1>5, <1>6, <1>7 DEF Serve

LEMMA AsksAsked ==
  ASSUME Types, Asked(rows), Asked(session), Ask
  PROVE  Asked(rows)' /\ Asked(session)'
<1>1. ASSUME UNCHANGED <<rows, session, provisioned>>
      PROVE  Asked(rows)' /\ Asked(session)'
  BY <1>1 DEF Asked
<1>2. CASE Create \/ Restore \/ update_workspace \/ provision_workspace
  BY <1>1, <1>2 DEF Create, Restore, update_workspace, provision_workspace, tables
<1>3. ASSUME NEW those, provision_roots(those)
      PROVE  Asked(rows)' /\ Asked(session)'
  BY <1>1, <1>3, Zenon DEF provision_roots, tables
<1>4. CASE delete_workspace
  <2>1. /\ UNCHANGED <<session, provisioned>>
        /\ rows' = [p \in DOMAIN rows |-> [rows[p] EXCEPT !.here = FALSE]]
    BY <1>4 DEF delete_workspace
  <2>2. ASSUME NEW q \in DOMAIN rows PROVE rows'[q].status = rows[q].status
    <3>1. IsRow(rows[q]) /\ rows'[q] = [rows[q] EXCEPT !.here = FALSE]
      BY <2>1 DEF Types, IsTable
    <3> QED
      BY <3>1, RowFields DEF IsRow
  <2>3. DOMAIN rows' = DOMAIN rows
    BY <2>1
  <2> QED
    BY <2>1, <2>2, <2>3 DEF Asked
<1> QED
  BY <1>2, <1>3, <1>4 DEF Ask

-----------------------------------------------------------------------------
(* Roots start in turn.                                                    *)

\* The engine rests while a request works: nothing is started.
LEMMA RequestsInTurn ==
  ASSUME WInv, InTurn, Ask \/ Serve
  PROVE  InTurn'
<1>1. Types /\ Asked(rows) /\ Asked(session) /\ (request.pc # "compose" => session = Nothing)
  BY DEF WInv, InTurn, SessionOpen
<1>2. Asked(rows)' /\ Asked(session)'
  BY <1>1, ServesAsked, AsksAsked
<1>3. ASSUME ~overlapped' PROVE StartedInTurn' /\ StartsNext' /\ FirstWalk'
  <2>1. WInv'
    BY RequestsKeep
  <2>2. CASE Serve
    <3>1. ServesWell
      BY ONLY <1>1, <2>2, Serves
    <3>2. request.pc # "idle"
      BY <2>2 DEF Serve, Skip, Keep, Rehold, Make, Raise, Turn, Finish, FinishUpdate, Ready,
         Provisioned, DropStale, Provision, Pick
    <3>3. EngineRests /\ status \notin {"INITIATED", "RUNNING"}
      BY <1>3, <3>1, <3>2 DEF ServesWell, WInv, Undisturbed, Apart
    <3>4. ex'.pc = "idle" /\ status' # "RUNNING"
      BY <3>1, <3>3 DEF ServesWell, EngineRests, engine
    <3>5. NoWork(rows)'
      BY <1>3, <2>1, <3>4 DEF WInv, Undisturbed, WorkCounted
    <3> QED
      BY <3>4, <3>5 DEF NoWork, IsWork, StartedInTurn, StartsNext, FirstWalk
  <2>3. CASE Ask
    <3>1. AsksWell
      BY ONLY <1>1, <2>3, Asks
    <3>2. EngineRests /\ status \notin {"INITIATED", "RUNNING"}
      BY <1>3, <3>1 DEF AsksWell, WInv, Undisturbed, Apart, Busy, EngineRests
    <3>3. ex'.pc = "idle" /\ status' # "RUNNING"
      BY <3>1, <3>2 DEF AsksWell, EngineRests, engine
    <3>4. NoWork(rows)'
      BY <1>3, <2>1, <3>3 DEF WInv, Undisturbed, WorkCounted
    <3> QED
      BY <3>3, <3>4 DEF NoWork, IsWork, StartedInTurn, StartsNext, FirstWalk
  <2> QED
    BY <2>2, <2>3
<1> QED
  BY <1>2, <1>3 DEF InTurn

\* No row is written to.
LEMMA NoRowWritten ==
  ASSUME InTurn, UNCHANGED <<rows, session, provisioned>>
  PROVE  /\ Asked(rows)' /\ Asked(session)'
         /\ ~overlapped => StartedInTurn'
         /\ \A p : Due(p)' <=> Due(p)
BY DEF InTurn, Asked, StartedInTurn, Due, Successful

LEMMA ManagerInTurn ==
  ASSUME InTurn, Manager
  PROVE  InTurn'
<1>1. UNCHANGED <<rows, session, provisioned, ex>>
  BY DEF Manager, ManagerScan, ManagerInitiate, ManagerSend, tables, untouched, serving
<1>0. ~overlapped' => ~overlapped
  BY Zenon DEF Manager, ManagerScan, ManagerInitiate, ManagerSend
<1>2. StartsNext => StartsNext'
  BY <1>1, NoRowWritten DEF StartsNext
<1>3. FirstWalk => FirstWalk'
  BY <1>1 DEF FirstWalk
<1> QED
  BY <1>0, <1>1, <1>2, <1>3, NoRowWritten DEF InTurn

\* What the workflow engine does with a root undoes no success.
LEMMA WorkflowsInTurn ==
  ASSUME WInv, InTurn, NEW p \in DOMAIN rows, Workflows(p)
  PROVE  InTurn'
<1>1. PICK from \in Runs, to \in {"INITIATED", "RUNNING"} \cup Finished : Moves(p, from, to)
  <2>1. CASE Initiate(p)
    BY <2>1 DEF Initiate, Runs
  <2>2. CASE Run(p)
    BY <2>2 DEF Run, Runs
  <2>3. CASE End(p)
    BY <2>3 DEF End, Runs
  <2> QED
    BY <2>1, <2>2, <2>3 DEF Workflows
<1>2. /\ rows[p].status = from /\ rows' = [rows EXCEPT ![p].status = to]
      /\ UNCHANGED <<overlapped, ex, session, provisioned>>
  BY <1>1 DEF Moves, engine, untouched, serving
<1>3. /\ DOMAIN rows' = DOMAIN rows
      /\ \A q \in DOMAIN rows :
            /\ rows'[q].status = IF q = p THEN to ELSE rows[q].status
            /\ rows'[q].here = rows[q].here
            /\ rows'[q].in_focus = rows[q].in_focus
            /\ rows'[q].previous = rows[q].previous
  <2>1. to \in RootStatuses /\ IsTable(rows)
    BY DEF RootStatuses, Finished, WInv, Types
  <2> QED
    BY <1>2, <2>1, RowWritten
<1>4. \A q \in DOMAIN rows : rows[q].status \notin Runs => rows'[q].status = rows[q].status
  BY <1>2, <1>3
<1>5. Asked(rows)' /\ Asked(session)'
  BY <1>2, <1>3 DEF InTurn, Asked, Finished
<1>6. ASSUME ~overlapped' PROVE StartedInTurn' /\ StartsNext' /\ FirstWalk'
  <2>1. StartedInTurn /\ StartsNext /\ FirstWalk
    BY <1>2, <1>6 DEF InTurn
  <2>2. ASSUME NEW q \in DOMAIN rows, Due(q) PROVE Due(q)'
    BY <1>2, <1>3, <1>4, <2>2 DEF Due, Successful, Runs
  <2>3. \A q \in DOMAIN rows : rows'[q].status \in Runs => rows[q].status \in Runs
    BY <1>2, <1>3
  <2>4. StartedInTurn'
    BY <1>3, <2>1, <2>2, <2>3 DEF StartedInTurn
  <2>5. ExecutorOK
    BY DEF WInv, Types
  <2>6. StartsNext'
    BY <1>2, <1>4, <2>1, <2>2, <2>5 DEF StartsNext, ExecutorOK, Runs
  <2>7. \A n \in DOMAIN ex.todo : ex.todo[n] \in DOMAIN rows
    BY <2>5 DEF ExecutorOK
  <2>8. FirstWalk'
    BY <1>2, <1>4, <2>1, <2>7 DEF FirstWalk, Runs
  <2> QED
    BY <2>4, <2>6, <2>8
<1> QED
  BY <1>5, <1>6 DEF InTurn

\* Between two walks the executor has no root in hand.
LEMMA PausesInTurn ==
  ASSUME InTurn, UNCHANGED <<rows, overlapped, untouched>>,
         ex'.pc \notin {"look", "write"}
  PROVE  InTurn'
<1>1. UNCHANGED <<rows, session, provisioned>>
  BY DEF untouched, serving
<1> QED
  BY <1>1, NoRowWritten DEF InTurn, StartsNext, FirstWalk

LEMMA HandOverInTurn ==
  ASSUME WInv, InTurn, ex.pc = "write", HandOver(ex.root), UNCHANGED <<overlapped, untouched>>
  PROVE  InTurn'
<1> PICK p : p = ex.root
  OBVIOUS
<1>1. /\ rows' = [rows EXCEPT ![p].status = "PENDING", ![p].in_focus = TRUE]
      /\ ex' = [ex EXCEPT !.pc = "look", !.root = NoRoot, !.to = None, !.running = TRUE]
      /\ ex.to = "PENDING"
  BY DEF HandOver
<1>2. UNCHANGED <<session, provisioned>>
  BY DEF untouched, serving
<1>3. ExecutorOK /\ p \in DOMAIN rows /\ IsRow(rows[p])
  BY DEF WInv, Types, ExecutorOK, IsTable
<1>4. /\ DOMAIN rows' = DOMAIN rows
      /\ \A q \in DOMAIN rows : q # p => rows'[q] = rows[q]
      /\ rows'[p].status = "PENDING" /\ rows'[p].previous = rows[p].previous
  <2>1. DOMAIN rows[p] = {"status", "previous", "here", "in_focus", "doubled"}
    BY <1>3, RowFields DEF IsRow
  <2> QED
    BY <1>1, <1>3, <2>1
<1>5. ex'.pc = "look" /\ ex'.todo = ex.todo /\ ex'.first = ex.first
  BY <1>1, <1>3 DEF ExecutorOK, Resting
<1>6. Asked(rows)' /\ Asked(session)'
  BY <1>2, <1>4 DEF InTurn, Asked
<1>7. ASSUME ~overlapped' PROVE StartedInTurn' /\ StartsNext' /\ FirstWalk'
  <2>1. StartedInTurn /\ StartsNext /\ FirstWalk
    BY <1>7 DEF InTurn
  <2>2. rows[p].status = "READY" /\ Due(p)
    BY <1>1, <2>1 DEF StartsNext
  <2>3. ASSUME NEW q \in DOMAIN rows, Due(q) PROVE Due(q)'
    BY <1>2, <1>4, <2>2, <2>3 DEF Due, Successful
  <2>4. StartedInTurn'
    BY <1>3, <1>4, <2>1, <2>2, <2>3 DEF StartedInTurn
  <2>5. \A n \in DOMAIN ex.todo : ex.todo[n] \in DOMAIN rows
    BY <1>3 DEF ExecutorOK
  <2>6. FirstWalk'
    BY <1>4, <1>5, <2>1, <2>5 DEF FirstWalk
  <2> QED
    BY <1>5, <2>4, <2>6 DEF StartsNext
<1> QED
  BY <1>6, <1>7 DEF InTurn

LEMMA AcknowledgeInTurn ==
  ASSUME WInv, InTurn, ex.pc = "write", Acknowledge(ex.root),
         UNCHANGED <<overlapped, untouched>>
  PROVE  InTurn'
<1> PICK p : p = ex.root
  OBVIOUS
<1>1. ex.to = "out" /\ rows' = [rows EXCEPT ![p].in_focus = FALSE]
  BY DEF Acknowledge
<1>2. UNCHANGED <<session, provisioned>>
  BY DEF untouched, serving
<1>3. ExecutorOK /\ p \in DOMAIN rows /\ IsRow(rows[p])
  BY DEF WInv, Types, ExecutorOK, IsTable
<1>4. /\ DOMAIN rows' = DOMAIN rows
      /\ \A q \in DOMAIN rows :
            /\ rows'[q].status = rows[q].status /\ rows'[q].previous = rows[q].previous
            /\ rows'[q].here = rows[q].here
            /\ q # p => rows'[q].in_focus = rows[q].in_focus
      /\ rows'[p].in_focus = FALSE
  <2>1. DOMAIN rows[p] = {"status", "previous", "here", "in_focus", "doubled"}
    BY <1>3, RowFields DEF IsRow
  <2>2. /\ rows'[p].status = rows[p].status /\ rows'[p].in_focus = FALSE
        /\ rows'[p].here = rows[p].here /\ rows'[p].previous = rows[p].previous
    BY <1>1, <1>3, <2>1
  <2>3. DOMAIN rows' = DOMAIN rows /\ \A q \in DOMAIN rows : q # p => rows'[q] = rows[q]
    BY <1>1
  <2> QED
    BY <2>2, <2>3
<1>5. ex'.pc = "look" /\ ex'.first = ex.first
  <2>1. \E todo, seen : ex' = [ex EXCEPT !.pc = "look", !.root = NoRoot, !.to = None,
                                         !.todo = todo, !.seen = seen]
    BY Zenon DEF Acknowledge
  <2> QED
    BY <1>3, <2>1 DEF ExecutorOK, Resting
<1>6. Asked(rows)' /\ Asked(session)'
  BY <1>2, <1>4 DEF InTurn, Asked
<1>7. ASSUME ~overlapped' PROVE StartedInTurn' /\ StartsNext' /\ FirstWalk'
  <2>1. StartedInTurn /\ ~ex.first
    BY <1>1, <1>7 DEF InTurn, WInv, Undisturbed, Acknowledged
  <2>2. ASSUME NEW q \in DOMAIN rows, Due(q) PROVE Due(q)'
    BY <1>2, <1>4, <2>2 DEF Due, Successful
  <2>3. StartedInTurn'
    BY <1>4, <2>1, <2>2 DEF StartedInTurn
  <2> QED
    BY <1>5, <2>1, <2>3 DEF StartsNext, FirstWalk
<1> QED
  BY <1>6, <1>7 DEF InTurn

\* A root that the walk finds to be started is READY, and those before it are
\* successful.
LEMMA FindInTurn ==
  ASSUME WInv, InTurn, ex.pc \in {"branch", "list", "look"},
         NEW loop \in Looped, NEW next \in 1..Len(loop), Find(loop, next),
         UNCHANGED <<tables, overlapped, untouched>>
  PROVE  InTurn'
<1>1. UNCHANGED <<rows, session, provisioned>>
  BY DEF tables, untouched, serving
<1>2. ExecutorOK /\ Loops(loop)
  BY LoopedLoops DEF WInv, Types
<1>3. /\ ex'.pc = "write" /\ ex'.root = loop[next] /\ ex'.first = ex.first
      /\ ex'.to = IF Starts(loop[next]) THEN "PENDING" ELSE "out"
      /\ ex'.todo = SubSeq(loop, next + 1, Len(loop))
  BY <1>2 DEF Find, ExecutorOK, Resting
<1>4. /\ loop \in Seq(DOMAIN rows) /\ next \in Nat /\ next \in DOMAIN loop
      /\ loop[next] \in DOMAIN rows
  BY <1>2 DEF Loops
<1>5. /\ \A n \in DOMAIN ex'.todo : n + next \in DOMAIN loop /\ ex'.todo[n] = loop[n + next]
      /\ DOMAIN ex'.todo \subseteq Nat \ {0}
  <2>1. next \in 1..(Len(loop) + 1)
    BY <1>4
  <2>2. LET rest == SubSeq(loop, next + 1, Len(loop)) IN
        /\ rest \in Seq(DOMAIN rows)
        /\ \A n \in DOMAIN rest : n + next \in DOMAIN loop /\ rest[n] = loop[n + next]
    BY ONLY <1>4, <2>1, Remaining
  <2> QED
    BY <1>3, <2>2
<1>6. ASSUME ~overlapped' PROVE StartedInTurn' /\ StartsNext' /\ FirstWalk'
  <2>1. StartedInTurn /\ FirstWalk
    BY <1>6 DEF InTurn
  <2>2. ex.first => /\ \A n \in DOMAIN loop : rows[loop[n]].status = "READY"
                    /\ \A m, n \in DOMAIN loop : loop[m] = loop[n] => m = n
    <3>1. CASE ex.pc = "look"
      BY <1>2, <2>1, <3>1 DEF Loops, FirstWalk
    <3>2. CASE ex.pc # "look"
      BY <1>2, <3>2 DEF Loops
    <3> QED
      BY <3>1, <3>2
  <2>3. FirstWalk'
    <3> SUFFICES ASSUME ex.first
                 PROVE  /\ \A n \in DOMAIN ex'.todo : rows[ex'.todo[n]].status = "READY"
                        /\ \A m, n \in DOMAIN ex'.todo : ex'.todo[m] = ex'.todo[n] => m = n
                        /\ \A n \in DOMAIN ex'.todo : ex'.todo[n] # ex'.root
      BY <1>1, <1>3 DEF FirstWalk
    <3>1. \A n \in DOMAIN ex'.todo : n + next # next
      BY <1>4, <1>5
    <3>2. \A m, n \in DOMAIN ex'.todo : m + next = n + next => m = n
      BY <1>4, <1>5
    <3> QED
      BY <1>3, <1>4, <1>5, <2>2, <3>1, <3>2
  <2>4. StartsNext'
    <3> SUFFICES ASSUME Starts(loop[next])
                 PROVE  rows[loop[next]].status = "READY" /\ Due(loop[next])
      BY <1>1, <1>3, NoRowWritten DEF StartsNext
    <3>1. rows[loop[next]].status = "READY"
      BY <1>4, <2>2 DEF Starts, Startable
    <3>2. loop[next] \in provisioned
      BY <1>4, <3>1 DEF InTurn, Asked
    <3>3. \A q \in rows[loop[next]].previous : Successful(q)
      BY DEF Starts, Startable, is_provisionable
    <3> QED
      BY <3>1, <3>2, <3>3 DEF Due
  <2> QED
    BY <1>1, <1>6, <2>3, <2>4, NoRowWritten
<1> QED
  BY <1>1, <1>6, NoRowWritten DEF InTurn

LEMMA ExecutorInTurn ==
  ASSUME WInv, InTurn, Executor
  PROVE  InTurn'
<1>1. ExecutorOK
  BY DEF WInv, Types
<1>2. CASE Take \/ Branch \/ Mark \/ Conclude \/ Done \/ Return
  <2>1. UNCHANGED <<rows, overlapped, untouched>>
    BY <1>2 DEF Take, Branch, Mark, Conclude, Done, Return, Fails, tables
  <2>2. \/ ex' = Resting \/ ex' = [Resting EXCEPT !.pc = "return"]
        \/ \E pc \in {"return", "branch", "mark", "list", "end"} :
              \/ ex' = [ex EXCEPT !.pc = pc]
              \/ ex' = [ex EXCEPT !.pc = pc, !.first = TRUE]
              \/ ex' = [ex EXCEPT !.pc = pc, !.to = None]
    <3>1. CASE Take \/ Branch
      BY <3>1 DEF Take, Branch, Fails
    <3>2. CASE Mark \/ Conclude
      BY <3>2 DEF Mark, Conclude, Fails
    <3>3. CASE Done \/ Return
      BY <3>3 DEF Done, Return, Fails
    <3> QED
      BY <1>2, <3>1, <3>2, <3>3
  <2>3. ex'.pc \notin {"look", "write"}
    <3>1. CASE ex' = Resting \/ ex' = [Resting EXCEPT !.pc = "return"]
      BY <3>1 DEF Resting
    <3>2. ASSUME NEW pc \in {"return", "branch", "mark", "list", "end"},
                 \/ ex' = [ex EXCEPT !.pc = pc]
                 \/ ex' = [ex EXCEPT !.pc = pc, !.first = TRUE]
                 \/ ex' = [ex EXCEPT !.pc = pc, !.to = None]
          PROVE  ex'.pc = pc
      BY <1>1, <3>2 DEF ExecutorOK, Resting
    <3> QED
      BY <2>2, <3>1, <3>2
  <2> QED
    BY <2>1, <2>3, PausesInTurn
<1>3. CASE Look
  <2>1. UNCHANGED <<untouched, overlapped>> /\ ex.pc \in {"branch", "list", "look"}
    BY <1>3 DEF Look
  <2>2. PICK loop \in Looped : \E next \in 1..(Len(loop) + 1) :
          \/ Fails(Gone(loop))
          \/ UNCHANGED tables /\ next <= Len(loop) /\ Find(loop, next)
          \/ UNCHANGED tables /\ Exhaust(loop)
    BY <1>3 DEF Look
  <2>3. PICK next \in 1..(Len(loop) + 1) :
          \/ Fails(Gone(loop))
          \/ UNCHANGED tables /\ next <= Len(loop) /\ Find(loop, next)
          \/ UNCHANGED tables /\ Exhaust(loop)
    BY <2>2
  <2>4. CASE Fails(Gone(loop))
    <3>1. ex'.pc = "idle" /\ rows' = rows
      BY <2>4 DEF Fails, Resting, tables
    <3> QED
      BY <2>1, <3>1, PausesInTurn
  <2>5. CASE UNCHANGED tables /\ next <= Len(loop) /\ Find(loop, next)
    <3>1. Loops(loop)
      BY LoopedLoops DEF WInv
    <3>2. next \in 1..Len(loop)
      BY <2>5, <3>1 DEF Loops
    <3> QED
      BY <2>1, <2>5, <3>2, FindInTurn
  <2>6. CASE UNCHANGED tables /\ Exhaust(loop)
    <3>1. \E pc \in {"verdict", "end"} : \E to, running :
            ex' = [ex EXCEPT !.pc = pc, !.to = to, !.todo = <<>>, !.seen = {},
                             !.running = running]
      BY <2>6, Zenon DEF Exhaust
    <3>2. ex'.pc \notin {"look", "write"} /\ rows' = rows
      BY <1>1, <2>6, <3>1 DEF ExecutorOK, Resting, tables
    <3> QED
      BY <2>1, <3>2, PausesInTurn
  <2> QED
    BY <2>3, <2>4, <2>5, <2>6
<1>4. CASE Write
  <2>1. UNCHANGED <<untouched, overlapped>> /\ ex.pc = "write"
    BY <1>4 DEF Write
  <2>2. CASE Fails(rows[ex.root].status = "absent")
    <3>1. ex'.pc = "idle" /\ rows' = rows
      BY <2>2 DEF Fails, Resting, tables
    <3> QED
      BY <2>1, <3>1, PausesInTurn
  <2>3. CASE HandOver(ex.root)
    BY <2>1, <2>3, HandOverInTurn
  <2>4. CASE Acknowledge(ex.root)
    BY <2>1, <2>4, AcknowledgeInTurn
  <2> QED
    BY <1>4, <2>2, <2>3, <2>4 DEF Write
<1> QED
  BY <1>2, <1>3, <1>4 DEF Executor

LEMMA InitInTurn == Init => InTurn
<1> SUFFICES ASSUME Init PROVE InTurn
  OBVIOUS
<1>1. rows = Nothing /\ session = Nothing /\ ex.pc = "idle"
  BY DEF Init, Resting
<1> QED
  BY <1>1, NothingTable DEF InTurn, Asked, StartedInTurn, StartsNext, FirstWalk

LEMMA NextInTurn ==
  ASSUME WInv, InTurn, [Next]_vars
  PROVE  InTurn'
<1>1. CASE Ask \/ Serve
  BY <1>1, RequestsInTurn
<1>2. CASE Manager
  BY <1>2, ManagerInTurn
<1>3. CASE Executor
  BY <1>3, ExecutorInTurn
<1>4. CASE \E p \in DOMAIN rows : Workflows(p)
  BY <1>4, WorkflowsInTurn
<1>5. CASE UNCHANGED vars
  <2>1. UNCHANGED <<rows, session, provisioned, overlapped, ex>>
    BY <1>5 DEF vars, tables, serving, engine
  <2>2. StartsNext => StartsNext'
    BY <2>1, NoRowWritten DEF StartsNext
  <2>3. FirstWalk => FirstWalk'
    BY <2>1 DEF FirstWalk
  <2> QED
    BY <2>1, <2>2, <2>3, NoRowWritten DEF InTurn
<1> QED
  BY <1>1, <1>2, <1>3, <1>4, <1>5 DEF Next

\* READY is what a request has asked for and, as long as no request has met the
\* engine, what the executor has started, or is about to start, was asked for and
\* every root before it is successful.
THEOREM InTurnCorrect == Spec => []InTurn
<1>1. Init => WInv /\ InTurn
  BY InitWInv, InitInTurn
<1>2. WInv /\ InTurn /\ [Next]_vars => (WInv /\ InTurn)'
  BY NextKeeps, NextInTurn
<1> QED
  BY <1>1, <1>2, PTL DEF Spec

\* A root runs when a request has asked for it and the roots before it are successful,
\* in every workspace as long as no request has met the engine.
THEOREM StartsInOrderCorrect == Spec => StartsInOrder
<1> DEFINE InOrder ==
             \A p \in Here :
               /\ rows[p].status = "INITIATED" /\ rows'[p].status = "RUNNING"
               /\ ~overlapped /\ ~AtOnce(p)
               => p \in provisioned /\ \A q \in rows[p].previous \cap DOMAIN rows : Successful(q)
<1>1. WInv /\ InTurn => InOrder
  <2> SUFFICES ASSUME WInv, InTurn, ~overlapped, NEW p \in Here, rows[p].status = "INITIATED",
                      ~AtOnce(p)
               PROVE  Due(p)
    BY DEF Due
  <2>1. p \in DOMAIN rows /\ rows[p].here /\ rows[p].status \in Runs
    BY DEF Here, Runs
  <2>2. rows[p].in_focus
    BY <2>1 DEF WInv, Undisturbed, HandedOver
  <2> QED
    BY <2>1, <2>2 DEF InTurn, StartedInTurn
<1>2. WInv /\ InTurn => [InOrder]_vars
  BY <1>1
<1>3. StartsInOrder <=> [][InOrder]_vars
  BY PTL DEF StartsInOrder
<1> QED
  BY <1>2, <1>3, WInvCorrect, InTurnCorrect, PTL
=============================================================================

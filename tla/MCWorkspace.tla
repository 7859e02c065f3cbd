---------------------------- MODULE MCWorkspace ----------------------------
(***************************************************************************)
(* Histories of small workspaces for TLC: one for every section a request  *)
(* may have, restored at once or composed, changed and provisioned piece   *)
(* by piece.                                                               *)
(***************************************************************************)
EXTENDS Workspace

MCKindOf ==
    [vpc |-> "vpc_networks", prefix |-> "address_prefixes", acl |-> "network_acls",
     pgw |-> "public_gateways", subnet |-> "subnets", group |-> "security_groups",
     other |-> "security_groups", table |-> "routing_tables",
     spread |-> "placement_groups", key |-> "ssh_keys",
     hosts |-> "dedicated_host_groups", host |-> "dedicated_hosts",
     vsi |-> "instances", fip |-> "floating_ips", lb |-> "load_balancers",
     ipsec |-> "ipsec_policies", ike |-> "ike_policies", vpn |-> "vpn_gateways",
     iks |-> "kubernetes_clusters", draas |-> "draas_restore_clusters",
     data |-> "restore_clusters", attach |-> "attachments_detachments"]
MCResources == DOMAIN MCKindOf

\* refs names what the resources with references refer to.
Asking(by, asked, refs) ==
    [by |-> by, asked |-> asked, again |-> {}, ready |-> {}, more |-> 0,
     refs |-> [r \in MCResources |-> IF r \in DOMAIN refs THEN refs[r] ELSE {}]]
Restored(asked, refs) == Asking("create", asked, refs)
Composed(asked, refs, more) == [Asking("update", asked, refs) EXCEPT !.more = more]
Patched(form_, again, ready) == [form_ EXCEPT !.again = again, !.ready = ready]

\* Roots restored at once, by restore_backup.
Restores ==
    {Restored({"vpc", "prefix", "subnet"}, [prefix |-> {"vpc"}, subnet |-> {"vpc"}]),
     Restored({"vpc", "acl", "subnet"}, [acl |-> {"vpc"}, subnet |-> {"vpc", "acl"}]),
     Restored({"pgw", "subnet", "vsi"},
              [pgw |-> {"vpc"}, subnet |-> {"vpc", "pgw"}, vsi |-> {"subnet"}]),
     Restored({"prefix", "subnet", "vpn"},
              [prefix |-> {"vpc"}, subnet |-> {"vpc"}, vpn |-> {"subnet"}]),
     Restored({"vpc", "group", "other"},
              [group |-> {"vpc", "other"}, other |-> {"vpc"}]),
     Restored({"vpc", "group", "other"},
              [group |-> {"vpc", "other"}, other |-> {"vpc", "group"}]),
     Restored({"vpc", "group", "table"}, [group |-> {"vpc", "group"}, table |-> {"vpc"}]),
     Restored({"group", "lb"}, [group |-> {"vpc"}, lb |-> {"group", "vsi"}]),
     Restored({"key", "spread", "vsi"}, [vsi |-> {"key", "spread"}]),
     Restored({"subnet", "vsi", "fip"}, [vsi |-> {"subnet"}, fip |-> {"vsi"}]),
     Restored({"hosts", "host", "vsi"}, [host |-> {"hosts"}, vsi |-> {"host"}]),
     Restored({"key", "vsi"}, [vsi |-> {"key", "spread"}]),
     Restored({"ipsec", "ike", "vpn"}, [vpn |-> {"ipsec", "ike"}]),
     Restored({"vpc", "iks", "data"}, [iks |-> {"vpc"}, data |-> {"iks"}]),
     Restored({"vpc", "draas"}, [draas |-> {"vpc"}]),
     Restored({"vpc", "table", "attach"}, [table |-> {"vpc"}, attach |-> {"table", "subnet"}]),
     Restored({"vpc", "attach"}, [attach |-> {"subnet", "pgw"}])}

\* Workspaces composed first, then provisioned, changed or deleted.
Compositions ==
    {Composed({"vpc", "prefix", "subnet"}, [prefix |-> {"vpc"}, subnet |-> {"vpc"}], 1),
     Composed({"vpc", "subnet", "acl"}, [subnet |-> {"vpc"}, acl |-> {"vpc", "subnet"}], 1),
     Composed({"group", "other"}, [group |-> {"other"}], 1),
     Composed({"hosts", "host"}, [host |-> {"hosts"}], 1),
     Composed({"ike", "vpn"}, [vpn |-> {"ike", "ipsec"}], 1),
     Composed({"ipsec", "lb", "group"}, [lb |-> {"group"}], 0),
     Composed({"vpc", "draas"}, [draas |-> {"vpc"}], 1),
     Composed({"subnet", "draas", "attach"}, [draas |-> {"subnet"}, attach |-> {"subnet"}], 0),
     Composed({"subnet", "attach", "iks"}, [attach |-> {"subnet"}, iks |-> {"subnet"}], 1),
     Composed({"iks", "data"}, [data |-> {"iks"}], 1)}

\* The same, changed.
Patches ==
    {Patched(Composed({"vpc", "pgw"}, [pgw |-> {"vpc"}], 1), {"vpc", "pgw", "table"}, {"vpc"}),
     Patched(Composed({"vpc"}, [subnet |-> {"vpc"}, prefix |-> {"vpc"}], 2),
             {"vpc", "subnet", "prefix"}, {"vpc"}),
     Patched(Composed({"key", "vsi"}, [vsi |-> {"key"}], 2), {"key", "vsi"}, {}),
     Patched(Composed({"subnet", "vsi"}, [vsi |-> {"subnet"}, fip |-> {"vsi"}], 1),
             {"subnet", "vsi", "fip"}, {}),
     Patched(Composed({"ike"}, [vpn |-> {"ike", "subnet"}], 1), {"ike", "vpn", "spread"}, {}),
     Patched(Composed({"vpc", "iks"}, [iks |-> {"vpc"}], 1), {"vpc", "iks"}, {}),
     Patched(Composed({"host"}, [x \in {} |-> {}], 1), {"vpc", "group"}, {}),
     Patched(Composed({"key"}, [x \in {} |-> {}], 2), {"key", "vpc"}, {}),
     Patched(Composed({"vpc"}, [prefix |-> {"vpc"}, acl |-> {"subnet"}], 2),
             {"vpc", "prefix", "acl"}, {})}

MCForms == Restores \cup Compositions \cup Patches

\* Two restored groups whose rules name one another.
MutualGroups ==
    {Restored({"vpc", "group", "other"},
              [group |-> {"vpc", "other"}, other |-> {"vpc", "group"}])}

-----------------------------------------------------------------------------
\* What the code is known to get wrong (README, section 6).

\* Roots stored PENDING before they are given their place: the workflow engine
\* takes them at once.
Hasty(p) ==
    \/ Kind(p[1]) \in {"attachments_detachments", "draas_restore_clusters"}
    \/ Kind(p[1]) = "kubernetes_clusters" /\ form.by = "create"
    \/ Kind(p[1]) = "vpc_networks" /\ p[1] \notin form.asked

\* Pairs no section makes an edge for.
Unordered(r, q) ==
    \/ Kind(r) = "load_balancers" /\ Kind(q) = "instances"
    \/ Kind(r) = "floating_ips" /\ ~\E n \in Refers(q) : Kind(n) = "subnets"
    \/ Kind(r) = "security_groups" /\ Kind(q) = "security_groups" /\ form.by = "update"

\* Groups whose rules name one another, or themselves.
Entangled(r) ==
    Kind(r) = "security_groups" /\ \E q \in Refers(r) : r \in Refers(q)

\* Not composed, or deleted again by the request that composes it: what the cloud
\* has, a gateway of a subnet the request does not have, a new resource of a VPC or
\* an instance it does not have, an instance that is new or has been run.
Omitted(r) ==
    \/ r \in form.ready
    \/ Kind(r) = "vpn_gateways" /\ \E q \in Refers(r) \ lists : Kind(q) = "subnets"
    \/ /\ Kind(r) \in {"address_prefixes", "subnets", "security_groups", "public_gateways",
                       "routing_tables", "floating_ips"}
       /\ r \notin form.asked /\ Refers(r) \cap lists \subseteq form.ready
    \/ /\ Kind(r) \in {"routing_tables", "floating_ips"} /\ form.by = "update"
       /\ Refers(r) \cap lists \subseteq form.ready
    \/ Kind(r) = "instances" /\ (r \notin form.asked \/ <<r, 1>> \in provisioned)

\* A root starts after a request has made it READY, and when the roots of all its
\* resource refers to are successful.
StartsWhenDue ==
    [][\A p \in Here :
          /\ rows[p].status = "INITIATED" /\ rows'[p].status = "RUNNING"
          /\ ~Hasty(p) /\ (overlapped => form.more = 0)
          => /\ p \in provisioned
             /\ \A q \in Here :
                   /\ q[1] \in Refers(p[1]) \ {p[1]}
                   /\ ~Unordered(p[1], q[1])
                   => Successful(q)]_vars

\* A root that no order of the roots before it can ever start.
RECURSIVE Before(_, _)
Before(p, n) ==
    IF n = 0 THEN rows[p].previous
    ELSE LET before == Before(p, n - 1) IN before \cup UNION {rows[q].previous : q \in before}
Circular(p) == p \in Before(p, 4)

\* What the workspace lists is composed, in an order that can be followed.
ResourcesAreComposed ==
    request.pc = "idle" /\ status # "absent" =>
        \A r \in lists : ~Entangled(r) /\ ~Omitted(r) => \E p \in Here : p[1] = r /\ ~Circular(p)

\* "All the roots in the workspace were successful" (workflow_models.py:70).
AllSuccessful == status = "COMPLETED_SUCCESSFULLY" => \A p \in Here : Successful(p)
\* The same of a workspace no request touches while the engine works on it.
AllSuccessfulAlone == ~overlapped => AllSuccessful

\* A workspace that is being provisioned gets a verdict.
Active == {"PENDING", "INITIATED", "RUNNING"}
WorkspaceSettles == status \in Active ~> (status \notin Active \/ overlapped)
=============================================================================

------------------------- MODULE WorkspaceSections -------------------------
(***************************************************************************)
(* How a workspace is composed (web/ibm/workspaces/utils.py).  A request   *)
(* lists resources under keys, each key has a section of the function, and *)
(* the section says which roots a new root is to wait for.                 *)
(*                                                                         *)
(*   waits   the keys the section looks references up in                   *)
(*   all     the keys every root of which precedes the new one             *)
(*   alone   what becomes of a root no root precedes                       *)
(*   made    "sketch": nothing is stored before the edges are known; else  *)
(*           the status the root is committed with beforehand              *)
(*   ready   a resource the cloud has is passed over                       *)
(*   always  a new root is composed whatever the workspace has             *)
(*   unlisted the status of a new root when the last request did not list  *)
(*           the resource; "skipped": no root                              *)
(*   forgets when a root without its VPC or target is left out of the      *)
(*           roots in use: "listed" before or not                          *)
(* alone and made are those of a resource that update_workspace_workflow   *)
(* does not find listed, and listed, respectively; forgets, ready, always  *)
(* and unlisted mean nothing to create_workspace_workflow.                 *)
(***************************************************************************)
Held ==
    [waits |-> {}, all |-> {}, alone |-> "held", made |-> "sketch",
     ready |-> FALSE, always |-> FALSE, unlisted |-> "ON_HOLD", forgets |-> {}]

After(keys) == [Held EXCEPT !.waits = keys]

Replaced(section) == [section EXCEPT !.always = TRUE]
Committed(section, as) == [section EXCEPT !.made = as]

-----------------------------------------------------------------------------
(* create_workspace_workflow.                                              *)

vpc_networks == Held
address_prefixes == After({"vpc_networks"})
network_acls == After({"vpc_networks"})
public_gateways == After({"vpc_networks"})

\* A subnet of a VPC that is not in the request is put nowhere.
subnets ==
    [After({"vpc_networks", "public_gateways", "network_acls"}) EXCEPT
        !.all = {"address_prefixes"}, !.alone = "dropped"]

\* Rules that name other groups of the request are edges as well.
security_groups == After({"vpc_networks", "security_groups"})
routing_tables == After({"vpc_networks"})
placement_groups == Held
ssh_keys == Held
dedicated_host_groups == Held
dedicated_hosts == After({"dedicated_host_groups"})

instances ==
    After({"ssh_keys", "dedicated_host_groups", "dedicated_hosts",
           "placement_groups", "subnets", "security_groups", "vpc_networks"})

floating_ips == After({"instances"})

\* The members of the pools are looked up in a list of two dictionaries, where
\* no identifier is found: the targets are not waited for.
load_balancers == After({"subnets", "security_groups"})
ipsec_policies == Held
ike_policies == Held

vpn_gateways == After({"subnets", "ipsec_policies", "ike_policies"})

kubernetes_clusters == Committed(After({"vpc_networks", "subnets"}), "PENDING")
draas_restore_clusters == Committed(After({"vpc_networks", "subnets"}), "PENDING")
restore_clusters == After({"kubernetes_clusters"})

attachments_detachments ==
    [Committed(After({"subnets", "floating_ips", "network_acls", "routing_tables",
                      "public_gateways", "instances"}), "PENDING")
        EXCEPT !.alone = "unplaced"]

create_workspace_workflow ==
    <<<<"vpc_networks", vpc_networks>>, <<"address_prefixes", address_prefixes>>,
      <<"network_acls", network_acls>>, <<"public_gateways", public_gateways>>,
      <<"subnets", subnets>>, <<"security_groups", security_groups>>,
      <<"routing_tables", routing_tables>>, <<"placement_groups", placement_groups>>,
      <<"ssh_keys", ssh_keys>>, <<"dedicated_host_groups", dedicated_host_groups>>,
      <<"dedicated_hosts", dedicated_hosts>>, <<"instances", instances>>,
      <<"floating_ips", floating_ips>>, <<"load_balancers", load_balancers>>,
      <<"ipsec_policies", ipsec_policies>>, <<"ike_policies", ike_policies>>,
      <<"vpn_gateways", vpn_gateways>>, <<"kubernetes_clusters", kubernetes_clusters>>,
      <<"draas_restore_clusters", draas_restore_clusters>>,
      <<"restore_clusters", restore_clusters>>,
      <<"attachments_detachments", attachments_detachments>>>>

-----------------------------------------------------------------------------
(* update_workspace_workflow, which also composes a workspace the first    *)
(* time: then everything counts as listed and nothing is found.            *)

\* A VPC the last request did not list keeps the status of a new root.
put_vpc_networks == [Held EXCEPT !.ready = TRUE, !.unlisted = "PENDING"]

put_address_prefixes ==
    [Committed(After({"vpc_networks"}), "COMPLETED_SUCCESSFULLY") EXCEPT
        !.ready = TRUE, !.forgets = {"unlisted"}]

put_subnets ==
    [Committed(After({"vpc_networks"}), "COMPLETED_SUCCESSFULLY") EXCEPT
        !.all = {"address_prefixes"}, !.ready = TRUE, !.alone = "dropped"]

put_network_acls == After({"subnets", "vpc_networks"})
put_security_groups == [After({"vpc_networks"}) EXCEPT !.forgets = {"unlisted"}]

put_public_gateways ==
    [Committed(After({"vpc_networks"}), "COMPLETED_SUCCESSFULLY") EXCEPT
        !.ready = TRUE, !.forgets = {"unlisted"}]

put_routing_tables ==
    [After({"vpc_networks"}) EXCEPT !.forgets = {"listed", "unlisted"}]
put_placement_groups == Held
put_ssh_keys == Held
put_dedicated_host_groups == Held
put_dedicated_hosts == After({"dedicated_host_groups"})
put_instances == [instances EXCEPT !.unlisted = "skipped"]
put_floating_ips == [After({"instances"}) EXCEPT !.forgets = {"listed", "unlisted"}]
put_load_balancers == After({"subnets", "security_groups"})
put_ipsec_policies == Held
put_ike_policies == Held
put_vpn_gateways == After({"subnets", "ipsec_policies", "ike_policies"})
put_attachments_detachments ==
    Replaced([attachments_detachments EXCEPT !.alone = "held"])

\* The clusters of the last request are looked for under another key.
put_kubernetes_clusters ==
    Replaced(After({"vpc_networks", "subnets", "attachments_detachments"}))
put_restore_clusters == Replaced(After({"kubernetes_clusters"}))
put_draas_restore_clusters ==
    Replaced(Committed(After({"vpc_networks", "subnets"}), "PENDING"))

\* After a restore the attachments are composed once more.
put_attachments_again == Replaced(attachments_detachments)

update_workspace_workflow ==
    <<<<"vpc_networks", put_vpc_networks>>, <<"address_prefixes", put_address_prefixes>>,
      <<"subnets", put_subnets>>, <<"network_acls", put_network_acls>>,
      <<"security_groups", put_security_groups>>, <<"public_gateways", put_public_gateways>>,
      <<"routing_tables", put_routing_tables>>, <<"placement_groups", put_placement_groups>>,
      <<"ssh_keys", put_ssh_keys>>, <<"dedicated_host_groups", put_dedicated_host_groups>>,
      <<"dedicated_hosts", put_dedicated_hosts>>, <<"instances", put_instances>>,
      <<"floating_ips", put_floating_ips>>, <<"load_balancers", put_load_balancers>>,
      <<"ipsec_policies", put_ipsec_policies>>, <<"ike_policies", put_ike_policies>>,
      <<"vpn_gateways", put_vpn_gateways>>,
      <<"attachments_detachments", put_attachments_detachments>>,
      <<"kubernetes_clusters", put_kubernetes_clusters>>,
      <<"restore_clusters", put_restore_clusters>>,
      <<"draas_restore_clusters", put_draas_restore_clusters>>,
      <<"attachments_detachments", put_attachments_again>>>>
=============================================================================

------------------------- MODULE DiscoveryFunctions -------------------------
(***************************************************************************)
(* How each function of src/ibm/discovery/tasks brings the rows of one     *)
(* kind of resource in line with what mangos lists.  All of them prune the *)
(* rows that are not listed and then merge the listed resources; Functions *)
(* says how they differ, and Discovery what that means:                    *)
(*                                                                         *)
(*   log      the entries of IBMResourceLog that are considered: read in a *)
(*            session of their own ("apart"), in the one that prunes       *)
(*            ("within"), those of another kind ("other"), none ("none")   *)
(*   spare    entries for which a row that is not listed is kept           *)
(*   skip     entries for which a listed resource is passed over           *)
(*   prune    when the rows are pruned: "once", with a commit for each     *)
(*            ("each"), after every list ("list") or every item ("item")   *)
(*   partial  what becomes of a resource when something it refers to, a    *)
(*            zone, a VPC, its own host name, is missing: it is passed     *)
(*            over ("skips"), not even counted as listed ("hides"), or the *)
(*            function raises or returns ("stops")                         *)
(*   finds    the row of a listed resource: its own, or the region's first *)
(*   same     rows found unchanged beforehand are not merged               *)
(*   stale    the StaleDataError of the pruning commit is caught           *)
(*                                                                         *)
(* Left out: columns, names, the rows of referred resources.  The updates  *)
(* of instance groups and templates do nothing.                            *)
(***************************************************************************)

Usual(partial) ==
    [log |-> "apart", spare |-> {"ADDED", "UPDATED"}, skip |-> {"DELETED", "UPDATED"},
     prune |-> "once", partial |-> partial, finds |-> "own", same |-> FALSE, stale |-> FALSE]
Blind(partial) == [Usual(partial) EXCEPT !.log = "none"]

----------------------------------------------------------------------------
\* The account: what ibm_discovery_executor updates itself.

\* Each stale group is deleted and committed by itself.
update_resource_groups == [Blind({}) EXCEPT !.prune = "each"]
update_tags == Usual({"skips"})
update_cloud_object_storages == [Blind({}) EXCEPT !.stale = TRUE]
\* The tasks log a bucket with its region, and the entries without one are read.
update_cos_buckets == [Usual({"skips"}) EXCEPT !.log = "other"]
\* The names already stored are read first and not merged.
update_cos_access_keys == [Blind({"skips"}) EXCEPT !.same = TRUE]
update_regions == Blind({})
\* Clusters whose ingress has no host name yet are not counted as listed.
update_satellite_clusters == Usual({"hides"})
\* An unknown region ends the function.
update_transit_gateways == Usual({"stops"})
update_transit_gateway_connections == Usual({"skips"})
\* Pruned and merged once for every filter of a connection, against those read so far.
prefix_filters == [Usual({"skips"}) EXCEPT !.log = "within", !.prune = "item"]

----------------------------------------------------------------------------
\* A region, in the order of ibm_run_region_discovery.

update_zones == Blind({})
update_ssh_keys == Usual({"skips"})
update_vpc_networks == Usual({"skips"})
update_address_prefixes == Usual({"skips", "stops"})
update_vpc_routes == Usual({"skips"})
update_network_acls == Usual({"skips"})
update_security_groups == [Usual({"skips", "stops"}) EXCEPT !.log = "within"]
update_operating_systems == Blind({})
update_images == [Usual({"skips"}) EXCEPT !.same = TRUE]
update_instance_profiles == [Blind({}) EXCEPT !.same = TRUE]
update_volume_profiles == Blind({})
\* Mutant: a row whose deletion is logged is written again.
update_volumes_revived == [Usual({"skips", "stops"}) EXCEPT !.skip = {"UPDATED"}]
update_volumes == Usual({"skips", "stops"})
update_public_gateways == Usual({"skips", "stops"})
\* Mutant: a row whose creation is logged is deleted.
update_subnets_lost == [Usual({"skips", "stops"}) EXCEPT !.spare = {"UPDATED"}]
update_subnets == Usual({"skips", "stops"})
update_subnet_reserved_ips == Blind({"skips"})
update_instances == Usual({"skips", "stops"})
\* The keys of an instance: rows of the association.
update_instances_ssh_keys == [Blind({"skips"}) EXCEPT !.prune = "item"]
update_instances_network_interfaces == [Usual({"skips"}) EXCEPT !.prune = "each"]
update_instance_volume_attachments == Usual({"skips"})
update_instance_disks == Usual({"skips"})
update_floating_ips == Usual({"skips", "stops"})
update_load_balancers == Usual({"skips"})
update_load_balancer_listeners == [Usual({"skips", "hides"}) EXCEPT !.log = "within", !.prune = "list"]
update_load_balancer_pools == Usual({"skips"})
update_lb_pool_members == Usual({"skips"})
update_ike_policies == Usual({"skips"})
update_ipsec_policies == Usual({"skips"})
update_vpn_gateways == Usual({"skips"})
\* The entries of IBMIKEPolicy are read.
update_vpn_connections == [Usual({"skips"}) EXCEPT !.log = "other"]
update_dedicated_host_profiles == Usual({})
update_dedicated_host_groups == Usual({"skips", "stops"})
\* The row is looked up by region only.
update_dedicated_hosts == [Usual({"skips", "stops"}) EXCEPT !.finds = "first"]
update_dedicated_host_disks == [Usual({"skips"}) EXCEPT !.spare = {"DELETED", "UPDATED"}]
update_placement_groups == Usual({"skips"})
update_endpoint_gateways == Usual({"skips"})
update_snapshots == Usual({"skips"})
update_clusters == Usual({"skips", "hides"})
update_cluster_worker_pools == Usual({"skips"})
\* The workloads of the clusters that are not listed are emptied.
update_cluster_workloads == Blind({"skips"})

Functions ==
    [update_resource_groups |-> update_resource_groups,
     update_tags |-> update_tags,
     update_cloud_object_storages |-> update_cloud_object_storages,
     update_cos_buckets |-> update_cos_buckets,
     update_cos_access_keys |-> update_cos_access_keys,
     update_regions |-> update_regions,
     update_satellite_clusters |-> update_satellite_clusters,
     update_transit_gateways |-> update_transit_gateways,
     update_transit_gateway_connections |-> update_transit_gateway_connections,
     prefix_filters |-> prefix_filters,
     update_zones |-> update_zones,
     update_ssh_keys |-> update_ssh_keys,
     update_vpc_networks |-> update_vpc_networks,
     update_address_prefixes |-> update_address_prefixes,
     update_vpc_routes |-> update_vpc_routes,
     update_network_acls |-> update_network_acls,
     update_security_groups |-> update_security_groups,
     update_operating_systems |-> update_operating_systems,
     update_images |-> update_images,
     update_instance_profiles |-> update_instance_profiles,
     update_volume_profiles |-> update_volume_profiles,
     update_volumes |-> update_volumes,
     update_public_gateways |-> update_public_gateways,
     update_subnets |-> update_subnets,
     update_subnet_reserved_ips |-> update_subnet_reserved_ips,
     update_instances |-> update_instances,
     update_instances_ssh_keys |-> update_instances_ssh_keys,
     update_instances_network_interfaces |-> update_instances_network_interfaces,
     update_instance_volume_attachments |-> update_instance_volume_attachments,
     update_instance_disks |-> update_instance_disks,
     update_floating_ips |-> update_floating_ips,
     update_load_balancers |-> update_load_balancers,
     update_load_balancer_listeners |-> update_load_balancer_listeners,
     update_load_balancer_pools |-> update_load_balancer_pools,
     update_lb_pool_members |-> update_lb_pool_members,
     update_ike_policies |-> update_ike_policies,
     update_ipsec_policies |-> update_ipsec_policies,
     update_vpn_gateways |-> update_vpn_gateways,
     update_vpn_connections |-> update_vpn_connections,
     update_dedicated_host_profiles |-> update_dedicated_host_profiles,
     update_dedicated_host_groups |-> update_dedicated_host_groups,
     update_dedicated_hosts |-> update_dedicated_hosts,
     update_dedicated_host_disks |-> update_dedicated_host_disks,
     update_placement_groups |-> update_placement_groups,
     update_endpoint_gateways |-> update_endpoint_gateways,
     update_snapshots |-> update_snapshots,
     update_clusters |-> update_clusters,
     update_cluster_worker_pools |-> update_cluster_worker_pools,
     update_cluster_workloads |-> update_cluster_workloads]
=============================================================================

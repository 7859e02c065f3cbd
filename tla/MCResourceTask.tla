--------------------------- MODULE MCResourceTask ---------------------------
(***************************************************************************)
(* The tasks of MAPPER for TLC, and the properties of ResourceTask with    *)
(* the functions that do not have them: each set below was found by a run  *)
(* without it, and says what the functions in it do.                       *)
(***************************************************************************)
EXTENDS TaskFlow, TaskMapper, TLC

\* Every entry of MAPPER.
MCTable == AccountsAndBuckets @@ NetworksAndInstances @@ SubnetsAndAddresses
           @@ BalancersAndTunnels @@ SnapshotsAndHosts @@ RoutesAndClusters

----------------------------------------------------------------------------
\* Returns with the task RUNNING on some path: a status the function does not
\* expect, or a write to a row that belongs to no session.
LeavesRunning == {
  "create_instance_volume_attachment", "create_transit_gateway_connection",
  "create_transit_gateway_connection_prefix_filter", "create_transit_gateway_route_report",
  "delete_instance_group_manager", "delete_instance_group_manager_policy",
  "delete_vpn_connection", "delete_transit_gateway_connection", "delete_dedicated_host",
  "sync_softlayer_instances", "sync_softlayer_instance", "create_ibm_instance_snapshot",
  "create_ibm_instance_export_to_cos", "stop_ibm_instance_task", "start_ibm_instance_task",
  "update_vpc_metadata_for_instances_with_snapshot_references",
  "attach_public_gateway_to_subnet", "attach_routing_table_to_subnet",
  "create_image_conversion", "sync_load_balancer_profiles",
  "delete_volume_attached_snapshots", "create_kubernetes_cluster_restore",
  "create_onprem_agent_cluster_backup"}

\* Commits a verdict and goes on, to the other verdict on some path.
RevisesVerdict == {
  "create_ibm_instance", "create_instance_template", "create_placement_group",
  "create_ibm_image", "create_network_acl", "create_vpn_gateway", "create_ike_policy",
  "create_ipsec_policy", "delete_ipsec_policy", "create_ibm_instance_snapshot",
  "create_softlayer_backup_instance", "store_ibm_custom_image"}

\* Does not set resource_id, or ends SUCCESSFUL on a status it does not expect.
Unnamed == {
  "create_instance_template", "create_ibm_network_interface", "create_ibm_image",
  "create_floating_ip", "create_load_balancer_pool_member", "create_ibm_dedicated_host",
  "create_ibm_dedicated_host_group", "create_endpoint_gateway", "reserve_ip_for_subnet"}

\* Records a resource whose creation failed, or that was recorded before.
RecordsFailure == {
  "create_ibm_instance", "create_load_balancer_pool_member",
  "create_transit_gateway_route_report"}

\* Writes no IBMResourceLog entry on some path.
Unlogged == {
  "create_instance_group", "create_instance_group_manager",
  "create_instance_group_manager_policy", "create_instance_group_manager_action",
  "create_ibm_instance", "create_security_group_rule", "create_load_balancer",
  "create_listener", "create_listener_policy", "create_load_balancer_pool",
  "create_load_balancer_pool_member", "create_listener_policy_rule", "create_vpn_gateway",
  "create_kubernetes_cluster",
  "delete_instance_group", "delete_instance_group_membership",
  "delete_instance_group_manager", "delete_instance_group_manager_policy",
  "delete_instance_group_manager_action", "delete_security_group",
  "delete_security_group_rule", "delete_load_balancer", "delete_listener",
  "delete_listener_policy", "delete_load_balancer_pool", "delete_load_balancer_pool_member",
  "delete_listener_policy_rule", "delete_transit_gateway_route_report",
  "reserve_ip_for_subnet", "release_reserved_ip_for_subnet"}

\* Ends FAILED although all went well: a status that comes at once, a branch that
\* cannot be reached, an attribute that does not exist.
FalseAlarms == {
  "create_instance_group_manager_action", "create_endpoint_gateway", "delete_cos_bucket",
  "delete_instance_group_manager_action", "delete_load_balancer_pool_member",
  "delete_ibm_tag", "detach_target_to_security_group"}

\* Asks again for ever on some path: a status it takes for progress, or an
\* exception-free return that leaves the task to the next poll.
PollsForEver == {
  "create_instance_volume_attachment", "create_transit_gateway_connection",
  "create_routing_table", "create_kubernetes_cluster",
  "delete_vpn_connection", "delete_transit_gateway", "delete_transit_gateway_connection",
  "delete_dedicated_host", "delete_kubernetes_cluster",
  "delete_all_instance_group_memberships", "create_ibm_instance_snapshot",
  "create_ibm_instance_export_to_cos", "create_softlayer_backup_instance",
  "stop_ibm_instance_task", "start_ibm_instance_task", "create_image_conversion",
  "create_kubernetes_cluster_restore", "create_kubernetes_cluster_backup",
  "create_onprem_agent_cluster_backup", "create_onprem_cluster_restore"}

\* Nobody else does any of this, on any path: what the proofs take from the table.
ASSUME ScriptsAssumption ==
  \A k \in Kinds :
    /\ Closed(k)
    /\ k \notin LeavesRunning => Declares(k)
    /\ k \notin RevisesVerdict => StandsBy(k)
    /\ k \notin Unnamed => Records(k)
    /\ k \notin Unlogged => LogsIt(k)
    /\ k \notin RecordsFailure => Creates(k)
    /\ k \notin RevisesVerdict => Deletes(k)
    /\ k \notin FalseAlarms => FailsByTrouble(k)

----------------------------------------------------------------------------
\* A function that returns leaves the task to nobody only where LeavesRunning says so.
TasksEndDeclared == kind \notin LeavesRunning => EndsDeclared

\* Nobody reads a verdict, as the executor of the root does, that is replaced later.
VerdictsStand == [][kind \notin RevisesVerdict => VerdictStands]_vars

\* A SUCCESSFUL creation is recorded, and its task names the row.
CreationsAreRecorded == [][kind \notin Unnamed => CreatedIsRecorded]_vars

\* A creation the provider refused or failed is not reported SUCCESSFUL.
SuccessesAreReal == [][kind \notin RecordsFailure => SuccessIsReal]_vars

\* A deletion is SUCCESSFUL over no resource the provider still serves, and
\* leaves no row.
DeletionsAreDone == [][kind \notin RevisesVerdict => DeletedIsGone]_vars

\* Discovery is told of every change.
TasksAreLogged == [][kind \notin Unlogged => ChangesAreLogged]_vars

\* A task that nothing got in the way of does not fail.
FailuresHaveCause == kind \notin FalseAlarms => NoFalseAlarm

\* A task that waits for the provider is polled until it has a verdict.
PollsSettle ==
  kind \notin PollsForEver /\ db.status = "RUNNING_WAIT"
    ~> db.status \in Verdicts \cup {"gone"}

=============================================================================

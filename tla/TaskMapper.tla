----------------------------- MODULE TaskMapper -----------------------------
(***************************************************************************)
(* MAPPER of src/ibm/tasks/tasks_mapper.py: for each (resource_type,       *)
(* task_type) the function a worker runs first and the one it runs each    *)
(* time a task that waits is due.  A kind of task is named after its first *)
(* function.                                                               *)
(***************************************************************************)
EXTENDS NetworkTasks, GatewayTasks, ComputeTasks, LoadBalancerTasks, InstanceGroupTasks,
        ClusterTasks, AccountTasks

\* What the task asks of the provider for its own resource; whether the table of
\* the resource has a unique constraint; the functions.
LOCAL Job(does, unique, run, wait) ==
  [does |-> does, unique |-> unique, run |-> run, wait |-> wait]
LOCAL Create(run, wait) == Job("create", TRUE, run, wait)
LOCAL CreateLoose(run, wait) == Job("create", FALSE, run, wait)
LOCAL Delete(run, wait) == Job("delete", TRUE, run, wait)
LOCAL Act(run, wait) == Job("act", TRUE, run, wait)
LOCAL ActLoose(run, wait) == Job("act", FALSE, run, wait)
Unmapped == <<>>

----------------------------------------------------------------------------
\* DisasterRecoveryResourceBlueprint to GEOGRAPHY: recovery plans, clouds, costs,
\* SoftLayer, buckets.
AccountsAndBuckets == [
  delete_draas_blueprint |-> Act(delete_draas_blueprint, Unmapped),
  create_draas_backup_iks |-> ActLoose(create_draas_backup_iks, Unmapped),
  create_draas_backup_onprem |-> ActLoose(create_draas_backup_onprem, Unmapped),
  delete_draas_backup |-> Act(delete_draas_backup, Unmapped),
  translate_vpc_construct |-> Act(translate_vpc_construct, Unmapped),
  validate_update_cloud_api_key |-> ActLoose(validate_update_cloud_api_key, Unmapped),
  delete_ibm_cloud |-> ActLoose(delete_ibm_cloud, Unmapped),
  add_account_id_to_cloud |-> ActLoose(add_account_id_to_cloud, Unmapped),
  update_ibm_cloud |-> ActLoose(update_ibm_cloud, Unmapped),
  fetch_ibm_cloud_cost |-> ActLoose(fetch_ibm_cloud_cost, Unmapped),
  add_cost_consumption_task |-> Act(add_cost_consumption_task, Unmapped),
  add_ibm_monitoring_tokens |-> Act(add_ibm_monitoring_tokens, Unmapped),
  validate_ibm_monitoring_tokens |-> Act(validate_ibm_monitoring_tokens, Unmapped),
  validate_softlayer_account |-> Act(validate_softlayer_account, Unmapped),
  sync_softlayer_resources_task |-> Act(sync_softlayer_resources_task, Unmapped),
  sync_softlayer_images |-> Act(sync_softlayer_images, Unmapped),
  sync_softlayer_instances |-> Act(sync_softlayer_instances, Unmapped),
  sync_softlayer_instance |-> Act(sync_softlayer_instance, Unmapped),
  sync_classic_virtual_guests_usage_task |->
    Act(sync_classic_virtual_guests_usage_task, Unmapped),
  sync_classic_network_gateways_task |-> Act(sync_classic_network_gateways_task, Unmapped),
  sync_classic_virtual_guest_memory_usage_task |->
    Act(sync_classic_virtual_guest_memory_usage_task, Unmapped),
  sync_classic_virtual_guest_cpu_usage_task |->
    Act(sync_classic_virtual_guest_cpu_usage_task, Unmapped),
  sync_classic_virtual_guest_bandwidth_usage_task |->
    Act(sync_classic_virtual_guest_bandwidth_usage_task, Unmapped),
  generate_classic_recommendations_task |->
    Act(generate_classic_recommendations_task, Unmapped),
  sync_cos |-> ActLoose(sync_cos, Unmapped),
  sync_credential_keys |-> Act(sync_credential_keys, Unmapped),
  initiate_cos_buckets_sync |-> Act(initiate_cos_buckets_sync, Unmapped),
  sync_cos_buckets |-> Act(sync_cos_buckets, Unmapped),
  create_cos_bucket |-> Create(create_cos_bucket, Unmapped),
  delete_cos_bucket |-> Delete(delete_cos_bucket, Unmapped),
  sync_cos_bucket_objects |-> Act(sync_cos_bucket_objects, Unmapped),
  update_resource_groups |-> ActLoose(update_resource_groups, Unmapped),
  update_geography |-> Act(update_geography, Unmapped)]

\* IBMVpcNetwork to IBMInstanceTemplate.
NetworksAndInstances == [
  create_vpc_network |-> Create(create_vpc_network, create_wait_vpc_network),
  delete_vpc |-> Delete(delete_vpc, delete_wait_vpc),
  create_ibm_resource_backup_task |-> ActLoose(create_ibm_resource_backup_task, Unmapped),
  add_backup_consumption_task |-> Act(add_backup_consumption_task, Unmapped),
  create_ibm_volume |-> Create(create_ibm_volume, create_wait_ibm_volume),
  delete_volume |-> Delete(delete_volume, delete_wait_volume),
  create_instance_group |-> Create(create_instance_group, create_wait_instance_group),
  delete_instance_group |-> Delete(delete_instance_group, delete_wait_instance_group),
  delete_instance_group_membership |->
    Delete(delete_instance_group_membership, delete_wait_instance_group_membership),
  delete_all_instance_group_memberships |->
    Act(delete_all_instance_group_memberships, delete_wait_all_instance_group_memberships),
  create_instance_group_manager |-> Create(create_instance_group_manager, Unmapped),
  delete_instance_group_manager |-> Delete(delete_instance_group_manager, Unmapped),
  update_instance_group_manager |-> Act(update_instance_group_manager, Unmapped),
  create_instance_group_manager_policy |->
    Create(create_instance_group_manager_policy, Unmapped),
  delete_instance_group_manager_policy |->
    Delete(delete_instance_group_manager_policy, Unmapped),
  create_instance_group_manager_action |->
    Create(create_instance_group_manager_action, create_wait_instance_group_manager_action),
  delete_instance_group_manager_action |->
    Delete(delete_instance_group_manager_action, delete_wait_instance_group_manager_action),
  create_instance_volume_attachment |->
    Create(create_instance_volume_attachment, create_wait_instance_volume_attachment),
  delete_instance_volume_attachment |->
    Delete(delete_instance_volume_attachment, delete_wait_instance_volume_attachment),
  create_ibm_instance |-> Create(create_ibm_instance, create_wait_ibm_instance),
  delete_instance |-> Delete(delete_instance, delete_wait_instance),
  update_instance |-> Act(update_instance, Unmapped),
  create_ibm_instance_snapshot |->
    Act(create_ibm_instance_snapshot, create_wait_ibm_instance_snapshot),
  create_ibm_instance_export_to_cos |->
    Act(create_ibm_instance_export_to_cos, create_wait_ibm_instance_export_to_cos),
  create_softlayer_backup_instance |->
    Act(create_softlayer_backup_instance, create_wait_softlayer_backup_instance),
  stop_ibm_instance_task |-> Act(stop_ibm_instance_task, stop_wait_ibm_instance_task),
  start_ibm_instance_task |-> Act(start_ibm_instance_task, start_wait_ibm_instance_task),
  update_vpc_metadata_for_instances_with_snapshot_references |->
    Act(update_vpc_metadata_for_instances_with_snapshot_references, Unmapped),
  get_idle_instances |-> Act(get_idle_instances, Unmapped),
  get_vsi_usage_data |-> Act(get_vsi_usage_data, Unmapped),
  create_instance_template |-> Create(create_instance_template, Unmapped),
  delete_instance_template |-> Delete(delete_instance_template, Unmapped)]

\* IBMAddressPrefix to IBMSecurityGroupRule.
SubnetsAndAddresses == [
  create_address_prefix |-> Create(create_address_prefix, Unmapped),
  delete_address_prefix |-> Delete(delete_address_prefix, Unmapped),
  create_subnet |-> Create(create_subnet, create_wait_subnet),
  delete_subnet |-> Delete(delete_subnet, delete_wait_subnet),
  attach_public_gateway_to_subnet |->
    Act(attach_public_gateway_to_subnet, attach_wait_public_gateway_to_subnet),
  detach_public_gateway_from_subnet |-> Act(detach_public_gateway_from_subnet, Unmapped),
  attach_network_acl_to_subnet |-> Act(attach_network_acl_to_subnet, Unmapped),
  attach_routing_table_to_subnet |->
    Act(attach_routing_table_to_subnet, attach_wait_routing_table_to_subnet),
  attach_floating_ip_with_network_interface |->
    Act(attach_floating_ip_with_network_interface, Unmapped),
  detach_floating_ip_from_network_interface |->
    Act(detach_floating_ip_from_network_interface, Unmapped),
  create_public_gateway |-> Create(create_public_gateway, create_wait_public_gateway),
  delete_public_gateway |-> Delete(delete_public_gateway, delete_wait_public_gateway),
  create_placement_group |-> Create(create_placement_group, create_wait_placement_group),
  delete_placement_group |-> Delete(delete_placement_group, delete_wait_placement_group),
  create_ibm_network_interface |->
    Create(create_ibm_network_interface, create_wait_ibm_network_interface),
  delete_network_interface |->
    Delete(delete_network_interface, delete_wait_network_interface),
  create_ssh_key |-> Create(create_ssh_key, Unmapped),
  delete_ssh_key |-> Delete(delete_ssh_key, Unmapped),
  create_ibm_image |-> CreateLoose(create_ibm_image, create_wait_ibm_image),
  delete_image |-> Delete(delete_image, delete_wait_image),
  create_image_conversion |->
    ActLoose(create_image_conversion, create_wait_image_conversion),
  store_ibm_custom_image |-> ActLoose(store_ibm_custom_image, store_wait_ibm_custom_image),
  create_floating_ip |-> Create(create_floating_ip, create_wait_floating_ip),
  delete_floating_ip |-> Delete(delete_floating_ip, delete_wait_floating_ip),
  create_security_group |-> Create(create_security_group, Unmapped),
  attach_target_to_security_group |-> Act(attach_target_to_security_group, Unmapped),
  detach_target_to_security_group |-> Act(detach_target_to_security_group, Unmapped),
  delete_security_group |-> Delete(delete_security_group, Unmapped),
  create_security_group_rule |-> CreateLoose(create_security_group_rule, Unmapped),
  delete_security_group_rule |-> Delete(delete_security_group_rule, Unmapped)]

\* IBMNetworkAcl to IBMIPSecPolicy.
BalancersAndTunnels == [
  create_network_acl |-> Create(create_network_acl, Unmapped),
  delete_network_acl |-> Delete(delete_network_acl, Unmapped),
  create_network_acl_rule |-> Create(create_network_acl_rule, Unmapped),
  delete_network_acl_rule |-> Delete(delete_network_acl_rule, Unmapped),
  sync_load_balancer_profiles |-> Act(sync_load_balancer_profiles, Unmapped),
  create_load_balancer |-> CreateLoose(create_load_balancer, create_wait_load_balancer),
  delete_load_balancer |-> Delete(delete_load_balancer, delete_wait_load_balancer),
  create_listener |-> CreateLoose(create_listener, create_wait_listener),
  delete_listener |-> Delete(delete_listener, delete_wait_listener),
  create_listener_policy |->
    CreateLoose(create_listener_policy, create_wait_listener_policy),
  delete_listener_policy |-> Delete(delete_listener_policy, delete_wait_listener_policy),
  create_load_balancer_pool |->
    Create(create_load_balancer_pool, create_wait_load_balancer_pool),
  delete_load_balancer_pool |->
    Delete(delete_load_balancer_pool, delete_wait_load_balancer_pool),
  create_load_balancer_pool_member |->
    CreateLoose(create_load_balancer_pool_member, create_wait_load_balancer_pool_member),
  delete_load_balancer_pool_member |->
    Delete(delete_load_balancer_pool_member, delete_wait_load_balancer_pool_member),
  create_listener_policy_rule |->
    CreateLoose(create_listener_policy_rule, create_wait_listener_policy_rule),
  delete_listener_policy_rule |->
    Delete(delete_listener_policy_rule, delete_wait_listener_policy_rule),
  create_vpn_gateway |-> Create(create_vpn_gateway, create_wait_vpn_gateway),
  delete_vpn_gateway |-> Delete(delete_vpn_gateway, delete_wait_vpn_gateway),
  create_vpn_connection |-> Create(create_vpn_connection, Unmapped),
  delete_vpn_connection |-> Delete(delete_vpn_connection, delete_wait_vpn_connection),
  create_ike_policy |-> Create(create_ike_policy, Unmapped),
  delete_ike_policy |-> Delete(delete_ike_policy, Unmapped),
  create_ipsec_policy |-> Create(create_ipsec_policy, Unmapped),
  delete_ipsec_policy |-> Delete(delete_ipsec_policy, Unmapped)]

\* IBMSnapshot to RegionalZoneFlavors.  The entry of dedicated hosts has its second
\* function under "DELETE" instead of "WAIT": nothing runs it.  The one of the
\* snapshots of a volume is a bare function: looking "RUN" up in it raises.
SnapshotsAndHosts == [
  validate_snapshot |-> Act(validate_snapshot, Unmapped),
  create_snapshot |-> Create(create_snapshot, create_wait_snapshot),
  delete_snapshot |-> Delete(delete_snapshot, delete_wait_snapshot),
  delete_volume_attached_snapshots |-> Act(delete_volume_attached_snapshots, Unmapped),
  create_transit_gateway |->
    CreateLoose(create_transit_gateway, create_wait_transit_gateway),
  delete_transit_gateway |-> Delete(delete_transit_gateway, delete_wait_transit_gateway),
  create_transit_gateway_connection |->
    Create(create_transit_gateway_connection, create_wait_transit_gateway_connection),
  delete_transit_gateway_connection |->
    Delete(delete_transit_gateway_connection, delete_wait_transit_gateway_connection),
  create_transit_gateway_connection_prefix_filter |->
    CreateLoose(create_transit_gateway_connection_prefix_filter, Unmapped),
  delete_transit_gateway_connection_prefix_filter |->
    Delete(delete_transit_gateway_connection_prefix_filter, Unmapped),
  create_transit_gateway_route_report |->
    CreateLoose(create_transit_gateway_route_report, create_wait_transit_gateway_route_report),
  delete_transit_gateway_route_report |->
    Delete(delete_transit_gateway_route_report, Unmapped),
  create_ibm_dedicated_host |-> Create(create_ibm_dedicated_host, Unmapped),
  delete_dedicated_host |-> Delete(delete_dedicated_host, Unmapped),
  create_ibm_dedicated_host_group |-> Create(create_ibm_dedicated_host_group, Unmapped),
  delete_dedicated_host_group |-> Delete(delete_dedicated_host_group, Unmapped),
  sync_orchestration_versions |-> Act(sync_orchestration_versions, Unmapped),
  sync_workerpool_zone_flavors |-> Act(sync_workerpool_zone_flavors, Unmapped),
  sync_workerpool_flavors_for_all_zones_in_region |->
    Act(sync_workerpool_flavors_for_all_zones_in_region, Unmapped)]

\* IBMRoutingTable to OnPremCluster.
RoutesAndClusters == [
  create_routing_table |-> Create(create_routing_table, create_wait_routing_table),
  delete_routing_table |-> Delete(delete_routing_table, delete_wait_routing_table),
  create_endpoint_gateway |->
    CreateLoose(create_endpoint_gateway, create_wait_endpoint_gateway),
  delete_endpoint_gateway |-> Delete(delete_endpoint_gateway, delete_wait_endpoint_gateway),
  sync_endpoint_gateway_targets |-> ActLoose(sync_endpoint_gateway_targets, Unmapped),
  create_kubernetes_cluster_restore |->
    Act(create_kubernetes_cluster_restore, create_wait_kubernetes_cluster_restore),
  create_kubernetes_cluster_backup |->
    Act(create_kubernetes_cluster_backup, create_wait_kubernetes_cluster_backup),
  create_kubernetes_cluster |->
    Create(create_kubernetes_cluster, create_wait_kubernetes_cluster),
  delete_kubernetes_cluster |->
    Delete(delete_kubernetes_cluster, delete_wait_kubernetes_cluster),
  sync_classic_kubernetes_task |-> Act(sync_classic_kubernetes_task, Unmapped),
  sync_cluster_workloads |-> Act(sync_cluster_workloads, Unmapped),
  reserve_ip_for_subnet |-> CreateLoose(reserve_ip_for_subnet, Unmapped),
  release_reserved_ip_for_subnet |-> Delete(release_reserved_ip_for_subnet, Unmapped),
  create_ibm_tag |-> CreateLoose(create_ibm_tag, Unmapped),
  delete_ibm_tag |-> Delete(delete_ibm_tag, Unmapped),
  discover_on_prem_cluster |-> ActLoose(discover_on_prem_cluster, Unmapped),
  create_onprem_agent_cluster_backup |->
    Act(create_onprem_agent_cluster_backup, create_wait_onprem_agent_cluster_backup),
  create_onprem_cluster_restore |->
    Act(create_onprem_cluster_restore, create_wait_onprem_cluster_restore)]
=============================================================================

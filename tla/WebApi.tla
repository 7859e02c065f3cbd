------------------------------- MODULE WebApi -------------------------------
(***************************************************************************)
(* The requests of src/ibm/web that compose workflows or write rows, and   *)
(* the kinds of task that MAPPER of src/ibm/tasks/tasks_mapper.py knows.   *)
(***************************************************************************)
EXTENDS VpcRequests, ComputeRequests, AccountRequests

\* The function of each route.
Endpoints == [
  create_vpc |-> create_vpc, delete_vpc |-> delete_vpc,
  update_vpc_action |-> update_vpc_action,
  create_ibm_vpc_address_prefix |-> create_ibm_vpc_address_prefix,
  delete_ibm_vpc_address_prefix |-> delete_ibm_vpc_address_prefix,
  create_ibm_subnet |-> create_ibm_subnet, delete_ibm_subnet |-> delete_ibm_subnet,
  update_ibm_subnet_with_acl |-> update_ibm_subnet_with_acl,
  attach_ibm_subnet_target |-> attach_ibm_subnet_target,
  detach_ibm_subnet_target |-> detach_ibm_subnet_target,
  attach_routing_table_to_subnet |-> attach_routing_table_to_subnet,
  reserve_ip_for_subnet |-> reserve_ip_for_subnet,
  release_reserved_ip_for_subnet |-> release_reserved_ip_for_subnet,
  create_ibm_acl |-> create_ibm_acl, delete_ibm_acl |-> delete_ibm_acl,
  create_ibm_acl_rule |-> create_ibm_acl_rule, delete_ibm_acl_rule |-> delete_ibm_acl_rule,
  create_ibm_security_group |-> create_ibm_security_group,
  delete_ibm_security_group |-> delete_ibm_security_group,
  create_ibm_security_group_rule |-> create_ibm_security_group_rule,
  delete_ibm_security_group_rule |-> delete_ibm_security_group_rule,
  attach_ibm_security_group_target |-> attach_ibm_security_group_target,
  remove_ibm_security_group_target |-> remove_ibm_security_group_target,
  create_ibm_public_gateway |-> create_ibm_public_gateway,
  delete_ibm_public_gateway |-> delete_ibm_public_gateway,
  create_ibm_floating_ips |-> create_ibm_floating_ips,
  delete_ibm_floating_ip |-> delete_ibm_floating_ip,
  create_ibm_endpoint_gateways |-> create_ibm_endpoint_gateways,
  delete_ibm_endpoint_gateway |-> delete_ibm_endpoint_gateway,
  sync_ibm_endpoint_gateway_targets |-> sync_ibm_endpoint_gateway_targets,
  create_ibm_routing_table |-> create_ibm_routing_table,
  delete_ibm_routing_table |-> delete_ibm_routing_table,
  create_load_balancer |-> create_load_balancer, delete_load_balancer |-> delete_load_balancer,
  sync_load_balancer_profiles |-> sync_load_balancer_profiles,
  create_load_balancer_listener |-> create_load_balancer_listener,
  delete_load_balancer_listener |-> delete_load_balancer_listener,
  create_load_balancer_listener_policy |-> create_load_balancer_listener_policy,
  delete_load_balancer_listener_policy |-> delete_load_balancer_listener_policy,
  create_load_balancer_listener_policy_rule |-> create_load_balancer_listener_policy_rule,
  delete_load_balancer_listener_policy_rule |-> delete_load_balancer_listener_policy_rule,
  create_load_balancer_pool |-> create_load_balancer_pool,
  delete_load_balancer_pool |-> delete_load_balancer_pool,
  create_load_balancer_pool_member |-> create_load_balancer_pool_member,
  delete_load_balancer_pool_member |-> delete_load_balancer_pool_member,
  create_ibm_vpn_gateway |-> create_ibm_vpn_gateway,
  delete_ibm_vpn_gateway |-> delete_ibm_vpn_gateway,
  create_ibm_vpn_gateway_connection |-> create_ibm_vpn_gateway_connection,
  delete_ibm_vpn_gateway_connection |-> delete_ibm_vpn_gateway_connection,
  create_ibm_ike_policy |-> create_ibm_ike_policy,
  delete_ibm_ike_policy |-> delete_ibm_ike_policy,
  create_ibm_ipsec_policy |-> create_ibm_ipsec_policy,
  delete_ibm_ipsec_policy |-> delete_ibm_ipsec_policy,
  create_ibm_transit_gateway |-> create_ibm_transit_gateway,
  delete_ibm_transit_gateway |-> delete_ibm_transit_gateway,
  create_transit_gateway_connection |-> create_transit_gateway_connection,
  delete_ibm_transit_gateway_connection |-> delete_ibm_transit_gateway_connection,
  create_ibm_transit_gateway_connection_prefix_filter |-> create_ibm_transit_gateway_connection_prefix_filter,
  delete_ibm_transit_gateway_connection_prefix_filter |-> delete_ibm_transit_gateway_connection_prefix_filter,
  create_transit_gateway_route_report |-> create_transit_gateway_route_report,
  delete_ibm_transit_gateway_route_report |-> delete_ibm_transit_gateway_route_report,
  create_ibm_instance |-> create_ibm_instance, delete_ibm_instance |-> delete_ibm_instance,
  update_svm_report |-> update_svm_report, right_size_ibm_instance |-> right_size_ibm_instance,
  update_ibm_instances |-> update_ibm_instances,
  create_ibm_instance_backup |-> create_ibm_instance_backup,
  create_instance_template |-> create_instance_template,
  delete_instance_template |-> delete_instance_template,
  create_ibm_volume_attachment |-> create_ibm_volume_attachment,
  delete_ibm_volume_attachment |-> delete_ibm_volume_attachment,
  create_ibm_network_interface |-> create_ibm_network_interface,
  delete_ibm_network_interface |-> delete_ibm_network_interface,
  disassociate_ibm_network_interface_floating_ip |-> disassociate_ibm_network_interface_floating_ip,
  associate_ibm_network_interface_floating_ip |-> associate_ibm_network_interface_floating_ip,
  create_ibm_instance_group |-> create_ibm_instance_group,
  delete_ibm_instance_group |-> delete_ibm_instance_group,
  create_ibm_instance_group_manager |-> create_ibm_instance_group_manager,
  delete_ibm_instance_group_manager |-> delete_ibm_instance_group_manager,
  update_ibm_instance_group_manager |-> update_ibm_instance_group_manager,
  create_ibm_instance_group_manager_policy |-> create_ibm_instance_group_manager_policy,
  delete_ibm_instance_group_manager_policy |-> delete_ibm_instance_group_manager_policy,
  create_ibm_instance_group_manager_action |-> create_ibm_instance_group_manager_action,
  delete_ibm_instance_group_manager_action |-> delete_ibm_instance_group_manager_action,
  delete_ibm_instance_group_membership |-> delete_ibm_instance_group_membership,
  delete_all_ibm_instance_group_memberships |-> delete_all_ibm_instance_group_memberships,
  create_ibm_volume |-> create_ibm_volume, delete_ibm_volume |-> delete_ibm_volume,
  create_ibm_snapshot |-> create_ibm_snapshot, delete_ibm_snapshot |-> delete_ibm_snapshot,
  delete_volume_attached_snapshots |-> delete_volume_attached_snapshots,
  create_ibm_image |-> create_ibm_image, delete_ibm_image |-> delete_ibm_image,
  store_ibm_custom_image |-> store_ibm_custom_image, create_ibm_ssh_key |-> create_ibm_ssh_key,
  delete_ibm_ssh_key |-> delete_ibm_ssh_key,
  create_ibm_placement_group |-> create_ibm_placement_group,
  delete_placement_group |-> delete_placement_group,
  create_ibm_dedicated_host |-> create_ibm_dedicated_host,
  delete_ibm_dedicated_host |-> delete_ibm_dedicated_host,
  create_ibm_dedicated_host_group |-> create_ibm_dedicated_host_group,
  delete_ibm_dedicated_host_group |-> delete_ibm_dedicated_host_group,
  migrate_kubernetes_cluster |-> migrate_kubernetes_cluster,
  delete_ibm_cluster |-> delete_ibm_cluster,
  sync_orchestration_versions |-> sync_orchestration_versions,
  sync_cluster_worker_pool_zone_flavors |-> sync_cluster_worker_pool_zone_flavors,
  sync_cluster_worker_pool_flavors_by_zone |-> sync_cluster_worker_pool_flavors_by_zone,
  sync_ibm_cluster_workloads |-> sync_ibm_cluster_workloads,
  sync_classic_multizone_clusters |-> sync_classic_multizone_clusters,
  create_ibm_cloud |-> create_ibm_cloud, update_ibm_cloud |-> update_ibm_cloud,
  delete_ibm_cloud |-> delete_ibm_cloud,
  validate_monitoring_token |-> validate_monitoring_token, create_ibm_tag |-> create_ibm_tag,
  update_ibm_tag |-> update_ibm_tag, delete_ibm_tag |-> delete_ibm_tag,
  sync_cloud_object_storage |-> sync_cloud_object_storage,
  sync_cos_buckets |-> sync_cos_buckets, create_ibm_cos_bucket |-> create_ibm_cos_bucket,
  delete_ibm_cos_bucket |-> delete_ibm_cos_bucket,
  sync_ibm_cos_bucket_objects |-> sync_ibm_cos_bucket_objects,
  sync_ibm_cos_keys |-> sync_ibm_cos_keys, delete_draas_blueprint |-> delete_draas_blueprint,
  delete_draas_backup |-> delete_draas_backup, create_draas_backup |-> create_draas_backup,
  delete_ibm_draas_policy |-> delete_ibm_draas_policy,
  create_ibm_draas_policy |-> create_ibm_draas_policy, restore_backup |-> restore_backup,
  restore_eks_backup |-> restore_eks_backup,
  restore_eks_backup_satellite_cluster |-> restore_eks_backup_satellite_cluster,
  delete_ibm_idle_resource |-> delete_ibm_idle_resource,
  discover_on_prem_cluster |-> discover_on_prem_cluster,
  backup_on_prem_cluster |-> backup_on_prem_cluster,
  restore_on_prem_cluster_backup |-> restore_on_prem_cluster_backup, translate |-> translate,
  migrate_vpc |-> migrate_vpc, migrate_content |-> migrate_content,
  create_softlayer_account |-> create_softlayer_account,
  delete_softlayer_cloud |-> delete_softlayer_cloud,
  update_softlayer_account |-> update_softlayer_account,
  sync_softlayer_images |-> sync_softlayer_images,
  sync_softlayer_instances |-> sync_softlayer_instances,
  sync_softlayer_instance |-> sync_softlayer_instance,
  softlayer_instance_classic_to_vmware |-> softlayer_instance_classic_to_vmware,
  generate_softlayer_recommendations |-> generate_softlayer_recommendations]

----------------------------------------------------------------------------
LOCAL Entries(type, resources) == {<<type, r>> : r \in resources}

\* MAPPER[resource_type][task_type]["RUN"] is a function.
MAPPER ==
       Entries("CREATE", {
    "TRANSLATION", "IBMVpcNetwork", "IBMVolume", "IBMInstanceGroup",
    "IBMInstanceGroupManager", "IBMInstanceGroupManagerPolicy",
    "IBMInstanceGroupManagerAction", "IBMVolumeAttachment", "IBMInstance",
    "IBMInstanceTemplate", "IBMAddressPrefix", "IBMSubnet", "IBMPublicGateway",
    "IBMPlacementGroup", "IBMNetworkInterface", "IBMSshKey", "IBMImage", "IBMFloatingIP",
    "IBMSecurityGroup", "IBMSecurityGroupRule", "IBMNetworkAcl", "IBMNetworkAclRule",
    "IBMLoadBalancer", "IBMListener", "IBMListenerPolicy", "IBMPool", "IBMPoolMember",
    "IBMListenerPolicyRule", "IBMVpnGateway", "IBMVpnConnection", "IBMIKEPolicy",
    "IBMIPSecPolicy", "IBMSnapshot", "IBMTransitGateway", "IBMTransitGatewayConnection",
    "IBMTransitGatewayConnectionPrefixFilter", "IBMTransitGatewayRouteReport",
    "IBMDedicatedHost", "IBMDedicatedHostGroup", "IBMRoutingTable", "IBMEndpointGateway",
    "IBMKubernetesCluster", "IBMSubnetReservedIp", "IBMTag", "SoftLayerRecommendation",
    "IBMCOSBucket"})
  \cup Entries("DELETE", {
    "DisasterRecoveryResourceBlueprint", "DisasterRecoveryBackup", "IBMCloud",
    "IBMVpcNetwork", "IBMVolume", "IBMInstanceGroup", "IBMInstanceGroupMembership",
    "IBMInstanceGroupMembership-IBMInstanceGroup", "IBMInstanceGroupManager",
    "IBMInstanceGroupManagerPolicy", "IBMInstanceGroupManagerAction",
    "IBMVolumeAttachment", "IBMInstance", "IBMInstanceTemplate", "IBMAddressPrefix",
    "IBMSubnet", "IBMPublicGateway", "IBMPlacementGroup", "IBMNetworkInterface",
    "IBMSshKey", "IBMImage", "IBMFloatingIP", "IBMSecurityGroup", "IBMSecurityGroupRule",
    "IBMNetworkAcl", "IBMNetworkAclRule", "IBMLoadBalancer", "IBMListener",
    "IBMListenerPolicy", "IBMPool", "IBMPoolMember", "IBMListenerPolicyRule",
    "IBMVpnGateway", "IBMVpnConnection", "IBMIKEPolicy", "IBMIPSecPolicy", "IBMSnapshot",
    "IBMVolumeSnapshot", "IBMTransitGateway", "IBMTransitGatewayConnection",
    "IBMTransitGatewayConnectionPrefixFilter", "IBMTransitGatewayRouteReport",
    "IBMDedicatedHost", "IBMDedicatedHostGroup", "IBMRoutingTable", "IBMEndpointGateway",
    "IBMKubernetesCluster", "IBMSubnetReservedIp", "IBMTag", "IBMCOSBucket"})
  \cup Entries("SYNC", {
    "IBMCloud", "SoftlayerCloud", "IBMCloudObjectStorage", "IBMServiceCredentialKey",
    "IBMCOSBucket", "IBMCOSBucketObject", "IBMLoadBalancerProfile", "KubeVersions",
    "ZoneFlavors", "RegionalZoneFlavors", "IBMEndpointGateway",
    "IBMKubernetesCluster_workloads", "SoftLayerImage", "SoftLayerInstances",
    "SoftLayerInstance", "SoftLayerVirtualGuest", "SoftLayerNetworkGateway",
    "SoftLayerInstanceMemoryUsage", "SoftLayerInstanceCPUUsage",
    "SoftLayerInstanceBandwidthUsage"})
  \cup Entries("VALIDATE", {
    "IBMCloud", "IBMMonitoringToken", "SoftlayerCloud", "IBMSnapshot"})
  \cup Entries("UPDATE", {
    "IBMCloud", "IBMResourceGroup", "GEOGRAPHY", "IBMInstanceGroupManager", "IBMInstance"})
  \cup Entries("ATTACH", {
    "IBMSubnet-IBMPublicGateway", "IBMSubnet-IBMNetworkAcl", "IBMSubnet-IBMRoutingTable",
    "IBMFloatingIP-IBMNetworkInterface", "IBMSecurityGroup"})
  \cup Entries("DETACH", {
    "IBMSubnet-IBMPublicGateway", "IBMFloatingIP-IBMNetworkInterface", "IBMSecurityGroup"})
  \cup Entries("BACKUP", {
    "DisasterRecoveryResourceBlueprint", "IBMVpcNetwork", "IBMKubernetesCluster",
    "IBMInstance", "OnPremCluster"})
  \cup Entries("RESTORE", {
    "IBMSatelliteCluster", "IBMKubernetesCluster", "OnPremCluster"})
  \cup Entries("DISCOVERY", {
    "IBMImage", "OnPremCluster"})
  \cup Entries("BACKUP_CONSUMPTION", {
    "IBMVpcNetwork", "IBMKubernetesCluster", "OnPremCluster"})
  \cup {<<t, "IBMInstance">> : t \in {"SNAPSHOT", "EXPORT", "STOP", "START", "UPDATE_METADATA",
                                     "IDLE"}}
  \cup {<<"ONPREM_BACKUP", "DisasterRecoveryResourceBlueprint">>, <<"FETCH_COST", "IBMCloud">>,
        <<"CONSUMPTION", "IBMCost">>, <<"ADD", "IBMMonitoringToken">>,
        <<"SYNC-INITIATE", "IBMCOSBucket">>, <<"CONVERT", "IBMImage">>,
        <<"SYNC_CLASSIC", "IBMKubernetesCluster">>, <<"IBMInstance", "MONITORING">>}
=============================================================================

--------------------------- MODULE AccountRequests ---------------------------
(***************************************************************************)
(* The requests of the web API on cloud accounts and what is kept outside  *)
(* VPCs: src/ibm/web/ibm/clouds, tags, cloud_object_storages, draas,       *)
(* idle_resources, src/ibm/web/agent, cloud_translations, migrations and   *)
(* softlayer.                                                              *)
(***************************************************************************)
EXTENDS Sequences, ComputeRequests

LOCAL Row == Check("row")
LOCAL Allowed == Check("allowed")

----------------------------------------------------------------------------
\* IBM clouds

\* The account is stored before its workflow.
create_ibm_cloud ==
  Each(Check("other name and key")) \o Write \o Commit
    \o Root("cloud_workflow_root")
    \o First("validate_cloud_task", <<"VALIDATE", "IBMCloud">>)
    \o After("validate_cloud_task", "update_geography_task", <<"UPDATE", "GEOGRAPHY">>)
    \o After("validate_cloud_task", "update_account_id_task", <<"SYNC", "IBMCloud">>)
    \o After("validate_cloud_task", "update_resource_groups_task",
             <<"UPDATE", "IBMResourceGroup">>)
    \o After("update_geography_task", "sync_load_balancer_profiles_task",
             <<"SYNC", "IBMLoadBalancerProfile">>)
    \o Callback("cloud_workflow_root", "sync_workflow_root")
    \o First("sync_cloud_object_storage_task", <<"SYNC", "IBMCloudObjectStorage">>)
    \o After("sync_cloud_object_storage_task", "initiate_bucket_sync_tasks",
             <<"SYNC-INITIATE", "IBMCOSBucket">>)
    \o After("sync_cloud_object_storage_task", "credential_keys_tasks",
             <<"SYNC", "IBMServiceCredentialKey">>)
    \o Save

\* The tokens are stored one by one, before the workflow that announces them.
update_ibm_cloud ==
  Row \o Write \o Root("workflow_root")
    \o Each(When("known region",
         Either("no token", When("existing", Write \o Commit),
                Write \o Commit \o First("token_task", <<"ADD", "IBMMonitoringToken">>))))
    \o First("update_ibm_cloud_task", <<"UPDATE", "IBMCloud">>)
    \o When("new key",
         After("update_ibm_cloud_task", "validate_cloud_task", <<"VALIDATE", "IBMCloud">>))
    \o Callback("workflow_root", "consumption_root")
    \o First("consumption_task", <<"CONSUMPTION", "IBMCost">>)
    \o When("cost optimization",
         Callback("workflow_root", "fetch_cost_root")
           \o First("fetch_cost_task", <<"FETCH_COST", "IBMCloud">>))
    \o Save

delete_ibm_cloud ==
  Row \o Root("workflow_root") \o First("delete_cloud_task", <<"DELETE", "IBMCloud">>)
    \o Write \o Save
validate_monitoring_token ==
  Root("workflow_root") \o Check("region")
    \o First("task", <<"VALIDATE", "IBMMonitoringToken">>) \o Save

create_ibm_tag == Cloud \o Creation("IBMTag")
update_ibm_tag ==
  Cloud \o Root("workflow_root") \o First("deletion_task", <<"DELETE", "IBMTag">>)
    \o After("deletion_task", "creation_task", <<"CREATE", "IBMTag">>) \o Save
delete_ibm_tag == Row \o Deletion("IBMTag")

----------------------------------------------------------------------------
\* Object storage

\* The second task is added once the first has been committed.
sync_cloud_object_storage ==
  Cloud \o Sync("IBMCloudObjectStorage")
    \o After("task", "initiate_bucket_tasks", <<"SYNC-INITIATE", "IBMCOSBucket">>) \o Commit
sync_cos_buckets == Cloud \o Region \o Row \o Sync("IBMCOSBucket")
create_ibm_cos_bucket == Located \o Row \o Creation("IBMCOSBucket")
delete_ibm_cos_bucket == Row \o Deletion("IBMCOSBucket")
sync_ibm_cos_bucket_objects == Row \o Cloud \o Allowed \o Sync("IBMCOSBucketObject")
sync_ibm_cos_keys == Cloud \o Sync("IBMServiceCredentialKey")

----------------------------------------------------------------------------
\* Disaster recovery

delete_draas_blueprint == Row \o Deletion("DisasterRecoveryResourceBlueprint")
delete_draas_backup == Row \o Deletion("DisasterRecoveryBackup")

LOCAL Workloads == <<"SYNC", "IBMKubernetesCluster_workloads">>

create_ibm_draas_backup_workflow ==
  Root("workflow_root") \o First("create_backup_task", <<"BACKUP", "IBMKubernetesCluster">>)
    \o After("create_backup_task", "create_sync_workloads_task", Workloads)
    \o After("create_sync_workloads_task", "workloads_backup_task",
             <<"BACKUP", "DisasterRecoveryResourceBlueprint">>)
    \o Save

\* The snapshots of each instance are committed on hold before they become a
\* callback of the backup.  A root has one parent: the update of the metadata
\* is left to the last of them.
create_instances_backup_workflow ==
  Each(create_instance_backup_and_delete(OnSuccess("snapshot_root"))
         \o AddCallback("backup_workflow_root", "snapshot_root"))
    \o OnSuccess("update_backup_metadata_root")
    \o First("update_backup_metadata_task", <<"UPDATE_METADATA", "IBMInstance">>)
    \o AddCallback("snapshot_root", "update_backup_metadata_root")
    \o Save

\* The backup of the VPC is committed before the snapshots are composed.
create_draas_backup ==
  Cloud
    \o Either("IKS", Row \o create_ibm_draas_backup_workflow,
         Row \o When("new blueprint", Write \o Commit) \o When("new policy", Write \o Commit)
           \o Root("backup_workflow_root") \o First("backup_task", <<"BACKUP", "IBMVpcNetwork">>)
           \o Save
           \o When("instances_data", create_instances_backup_workflow))

delete_ibm_draas_policy == Cloud \o Row \o Write \o Commit
create_ibm_draas_policy == Cloud \o When("new", Write \o Commit)

create_ibm_draas_restore_workflow ==
  Root("workflow_root")
    \o First("create_kubernetes_cluster_restore", <<"RESTORE", "IBMKubernetesCluster">>)
    \o After("create_kubernetes_cluster_restore", "workloads_restore_task", Workloads)
    \o Save

\* The restore of a VPC composes a workspace.
restore_backup ==
  Row \o Allowed
    \o Either("IKS", Row \o When("classic", Row) \o create_ibm_draas_restore_workflow,
              Cloud \o Region \o Answers("workspace"))
restore_eks_backup ==
  Cloud \o Row \o create_kubernetes_restore_workflow("IBMKubernetesCluster")
restore_eks_backup_satellite_cluster ==
  Cloud \o Row \o Write \o Commit \o create_kubernetes_restore_workflow("IBMSatelliteCluster")

----------------------------------------------------------------------------
\* Idle resources: one root for all, committed after each.  What deletes a load
\* balancer is a task of the workers, called here with the wrong arguments.

LOCAL IdleDeletion(R) == First("deletion_task", <<"DELETE", R>>) \o Save
delete_ibm_volume_workflow == IdleDeletion("IBMVolume")
delete_ibm_dedicated_host_workflow == IdleDeletion("IBMDedicatedHost")
delete_ibm_floating_ip_workflow == IdleDeletion("IBMFloatingIP")
delete_ibm_public_gateway_workflow == IdleDeletion("IBMPublicGateway")
delete_ibm_vpn_gateway_workflow == IdleDeletion("IBMVpnGateway")
delete_ibm_image_workflow == IdleDeletion("IBMImage")
delete_ibm_snapshot_workflow == IdleDeletion("IBMSnapshot")

delete_ibm_idle_resource ==
  Cloud \o Root("workflow_root")
    \o Each(Row
         \o Either("volume", delete_ibm_volume_workflow,
            Either("dedicated host", delete_ibm_dedicated_host_workflow,
            Either("floating ip", delete_ibm_floating_ip_workflow,
            Either("public gateway", delete_ibm_public_gateway_workflow,
            Either("vpn gateway", delete_ibm_vpn_gateway_workflow,
            Either("image", delete_ibm_image_workflow,
            Either("snapshot", delete_ibm_snapshot_workflow, Raise))))))))

----------------------------------------------------------------------------
\* Agents

discover_on_prem_cluster ==
  Cloud \o Check("file") \o Check("agent") \o Check("new")
    \o Root("workflow_root") \o First("discover_cluster_task", <<"DISCOVERY", "OnPremCluster">>)
    \o Save
backup_on_prem_cluster ==
  Cloud \o Row \o Check("agent") \o Root("workflow_root")
    \o First("create_onprem_backup_task", <<"BACKUP", "OnPremCluster">>)
    \o After("create_onprem_backup_task", "create_onprem_backup_cluster_task",
             <<"ONPREM_BACKUP", "DisasterRecoveryResourceBlueprint">>)
    \o Save
restore_on_prem_cluster_backup ==
  Cloud \o Row \o Allowed \o Row \o Check("agent") \o Root("workflow_root")
    \o First("create_on_prem_restore_task", <<"RESTORE", "OnPremCluster">>) \o Save

----------------------------------------------------------------------------
\* Translation, migration and SoftLayer

translate ==
  Cloud \o Region \o Root("workflow_root")
    \o First("translation_task", <<"CREATE", "TRANSLATION">>) \o Save
migrate_vpc == Row \o Check("file") \o Sync("SoftlayerCloud")
migrate_content == Write \o Commit

create_softlayer_account ==
  Each(Check("other name and key")) \o Write \o Commit
    \o Root("workflow_root")
    \o First("validate_cloud_task", <<"VALIDATE", "SoftlayerCloud">>) \o Save
delete_softlayer_cloud == Row \o Write \o Commit
\* The name is optional, and read without a check once the row is stored.
update_softlayer_account ==
  Row \o Write \o Commit \o When("no name", Raise) \o Root("workflow_root")
    \o First("validate_cloud_task", <<"VALIDATE", "SoftlayerCloud">>) \o Save

sync_softlayer_images == Region \o Row \o Sync("SoftLayerImage")
sync_softlayer_instances == When("region", Region) \o Row \o Sync("SoftLayerInstances")
sync_softlayer_instance == When("region", Region) \o Row \o Sync("SoftLayerInstance")
softlayer_instance_classic_to_vmware ==
  Cloud \o Region \o Root("workflow_root")
    \o First("snapshot_task", <<"SNAPSHOT", "IBMInstance">>)
    \o After("snapshot_task", "export_task", <<"EXPORT", "IBMInstance">>) \o Save

generate_softlayer_recommendations ==
  Row \o Root("workflow_root")
    \o First("vs_discovery_task", <<"SYNC", "SoftLayerVirtualGuest">>)
    \o First("network_gateways_discovery_task", <<"SYNC", "SoftLayerNetworkGateway">>)
    \o After("vs_discovery_task", "generate_recommendations_task",
             <<"CREATE", "SoftLayerRecommendation">>)
    \o Link("network_gateways_discovery_task", "generate_recommendations_task")
    \o Save
=============================================================================

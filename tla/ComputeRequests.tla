--------------------------- MODULE ComputeRequests ---------------------------
(***************************************************************************)
(* The requests of the web API on instances and what they are made of:     *)
(* src/ibm/web/ibm/instances, instance_groups, volumes, snapshots, images, *)
(* ssh_keys, dedicated_hosts, placement_groups and kubernetes.             *)
(***************************************************************************)
EXTENDS Sequences, RequestScript

LOCAL Row == Check("row")
LOCAL Allowed == Check("allowed")

----------------------------------------------------------------------------
\* Instances

\* How an instance is made of what is migrated: what comes before its creation.
LOCAL Exported == After("snapshot_task", "export_task", <<"EXPORT", "IBMInstance">>)
LOCAL Imaged(task) ==
  After(task, "image_creation_task", <<"CREATE", "IBMImage">>)
    \o After("image_creation_task", "instance_creation_task", <<"CREATE", "IBMInstance">>)

LOCAL FromClassicInstance ==
  Either("Windows Server",
      First("snapshot_task2", <<"SNAPSHOT", "IBMInstance">>)
        \o After("snapshot_task2", "instance_backup_task", <<"BACKUP", "IBMInstance">>)
        \o After("instance_backup_task", "snapshot_task", <<"SNAPSHOT", "IBMInstance">>),
      First("snapshot_task", <<"SNAPSHOT", "IBMInstance">>))
    \o Exported \o Imaged("export_task")
LOCAL FromClassicImage == First("export_task", <<"EXPORT", "IBMInstance">>) \o Imaged("export_task")
LOCAL FromVmdk == First("conversion_task", <<"CONVERT", "IBMImage">>) \o Imaged("conversion_task")
LOCAL FromQcow2 ==
  First("image_creation_task", <<"CREATE", "IBMImage">>)
    \o After("image_creation_task", "instance_creation_task", <<"CREATE", "IBMInstance">>)
LOCAL FromVolumes ==
  First("snapshot_task", <<"SNAPSHOT", "IBMInstance">>) \o Exported
    \o After("export_task", "instance_creation_task", <<"CREATE", "IBMInstance">>)
LOCAL FromNothing == First("instance_creation_task", <<"CREATE", "IBMInstance">>)

create_ibm_instance_creation_workflow ==
  Root("workflow_root")
    \o Either("migration",
         Either("classic vsi", FromClassicInstance,
           Either("classic image", FromClassicImage,
             Either("vmdk", FromVmdk,
               Either("qcow2", FromQcow2,
                 Either("volumes only", FromVolumes, FromNothing)))))
           \o When("new allow-all group",
                First("security_group_creation_task", <<"CREATE", "IBMSecurityGroup">>)
                  \o Link("security_group_creation_task", "instance_creation_task")),
         FromNothing)
    \o When("floating_ip",
         After("instance_creation_task", "floating_ip_creation_task", <<"CREATE", "IBMFloatingIP">>))
    \o Save

create_ibm_instance == Located \o create_ibm_instance_creation_workflow
delete_ibm_instance == Row \o Deletion("IBMInstance")

update_svm_report == Row \o Allowed \o Write \o Commit

\* Mutant: the tasks are composed side by side.
right_size_ibm_instance_at_once ==
  Located \o Row \o Root("workflow_root")
    \o First("update_ibm_instance_task", <<"UPDATE", "IBMInstance">>)
    \o First("instance_stop_task", <<"STOP", "IBMInstance">>)
    \o First("instance_start_task", <<"START", "IBMInstance">>) \o Save
right_size_ibm_instance ==
  Located \o Row \o Root("workflow_root")
    \o First("instance_stop_task", <<"STOP", "IBMInstance">>)
    \o After("instance_stop_task", "update_ibm_instance_task", <<"UPDATE", "IBMInstance">>)
    \o After("update_ibm_instance_task", "instance_start_task", <<"START", "IBMInstance">>)
    \o Save

update_ibm_instances ==
  Cloud \o Root("workflow_root")
    \o Either("stop", Each(Row \o First("workflow_task", <<"STOP", "IBMInstance">>)),
                      Each(Row \o First("workflow_task", <<"START", "IBMInstance">>)))
    \o Save

\* A snapshot of each volume of the instance; the root is a callback when
\* another workflow asks for it.  No endpoint has the instance deleted.
create_instance_backup_and_delete(Begin) ==
  Begin \o Check("boot volume")
    \o First("primary_snapshot_task", <<"CREATE", "IBMSnapshot">>)
    \o Each(First("create_secondary_snapshot_task", <<"CREATE", "IBMSnapshot">>))
    \o Save

create_ibm_instance_backup == Row \o create_instance_backup_and_delete(Root("workflow_root"))

create_instance_template == Located \o Creation("IBMInstanceTemplate")
delete_instance_template == Row \o Cloud \o Deletion("IBMInstanceTemplate")

create_ibm_volume_attachment ==
  Cloud \o Region \o Row \o References \o Creation("IBMVolumeAttachment")
delete_ibm_volume_attachment == Row \o Deletion("IBMVolumeAttachment")

----------------------------------------------------------------------------
\* Network interfaces

create_ibm_network_interface ==
  Cloud \o Region \o Row \o References \o Creation("IBMNetworkInterface")
delete_ibm_network_interface == Row \o Deletion("IBMNetworkInterface")
disassociate_ibm_network_interface_floating_ip ==
  Row \o Row \o Cloud \o Detachment("IBMFloatingIP-IBMNetworkInterface")
associate_ibm_network_interface_floating_ip ==
  Row \o Row \o Cloud \o Attachment("IBMFloatingIP-IBMNetworkInterface")

----------------------------------------------------------------------------
\* Instance groups

\* The creation has been committed before the tasks that follow it are added.
create_ibm_instance_group ==
  LET Manager == After("creation_task", "manager_creation_task",
                       <<"CREATE", "IBMInstanceGroupManager">>)
  IN  Located \o Creation("IBMInstanceGroup")
        \o When("managers",
             Manager
               \o When("policies",
                    After("manager_creation_task", "policies_creation_task",
                          <<"CREATE", "IBMInstanceGroupManagerPolicy">>) \o Commit)
               \o Save)
        \o Save

delete_ibm_instance_group ==
  Row \o Root("workflow_root") \o First("workflow_task", <<"DELETE", "IBMInstanceGroup">>)
    \o Before("workflow_task", "membership_deletion_task",
              <<"DELETE", "IBMInstanceGroupMembership-IBMInstanceGroup">>)
    \o Save

create_ibm_instance_group_manager == Cloud \o References \o Creation("IBMInstanceGroupManager")
delete_ibm_instance_group_manager == Row \o Cloud \o Deletion("IBMInstanceGroupManager")
update_ibm_instance_group_manager ==
  Cloud \o Row \o Root("workflow_root")
    \o First("update_task", <<"UPDATE", "IBMInstanceGroupManager">>) \o Save

create_ibm_instance_group_manager_policy ==
  Cloud \o References \o Creation("IBMInstanceGroupManagerPolicy")
delete_ibm_instance_group_manager_policy ==
  Row \o Cloud \o Deletion("IBMInstanceGroupManagerPolicy")

create_ibm_instance_group_manager_action ==
  Cloud \o References \o Creation("IBMInstanceGroupManagerAction")
delete_ibm_instance_group_manager_action ==
  Row \o Cloud \o Deletion("IBMInstanceGroupManagerAction")

delete_ibm_instance_group_membership == Row \o Deletion("IBMInstanceGroupMembership")
delete_all_ibm_instance_group_memberships ==
  Cloud \o Row \o Root("workflow_root")
    \o First("workflow_task", <<"DELETE", "IBMInstanceGroupMembership-IBMInstanceGroup">>)
    \o Save

----------------------------------------------------------------------------
\* Volumes, snapshots, images, keys, hosts

create_ibm_volume == Located \o Creation("IBMVolume")
delete_ibm_volume == Row \o Deletion("IBMVolume")

create_ibm_snapshot == Located \o create_ibm_resource_creation_workflow("IBMSnapshot", TRUE)
delete_ibm_snapshot == Row \o Deletion("IBMSnapshot")
\* The task deletes the volume, not its snapshots.
delete_volume_attached_snapshots == Row \o Allowed \o Cloud \o Deletion("IBMVolume")

create_ibm_image == Located \o Creation("IBMImage")
delete_ibm_image == Row \o Deletion("IBMImage")
store_ibm_custom_image ==
  Answers("no cloud") \o Answers("no region") \o Answers("known image")
    \o Root("workflow_root") \o First("workflow_task", <<"DISCOVERY", "IBMImage">>) \o Save

create_ibm_ssh_key == Located \o Creation("IBMSshKey")
delete_ibm_ssh_key == Row \o Deletion("IBMSshKey")

create_ibm_placement_group == Located \o Creation("IBMPlacementGroup")
delete_placement_group == Row \o Deletion("IBMPlacementGroup")

create_ibm_dedicated_host == Located \o Creation("IBMDedicatedHost")
delete_ibm_dedicated_host == Row \o Allowed \o Deletion("IBMDedicatedHost")
create_ibm_dedicated_host_group == Located \o Creation("IBMDedicatedHostGroup")
delete_ibm_dedicated_host_group == Row \o Deletion("IBMDedicatedHostGroup")

----------------------------------------------------------------------------
\* Kubernetes clusters

LOCAL Workloads == <<"SYNC", "IBMKubernetesCluster_workloads">>

create_ibm_kubernetes_cluster_migration_workflow ==
  Root("workflow_root")
    \o Either("managed_view",
         First("create_cluster_task", <<"CREATE", "IBMKubernetesCluster">>)
           \o After("create_cluster_task", "create_sync_workloads_task", Workloads),
         First("create_backup_task", <<"BACKUP", "IBMKubernetesCluster">>)
           \o After("create_backup_task", "create_cluster_task",
                    <<"CREATE", "IBMKubernetesCluster">>)
           \o After("create_cluster_task", "create_restore_task",
                    <<"RESTORE", "IBMKubernetesCluster">>)
           \o After("create_restore_task", "create_sync_workloads_task", Workloads))
    \o Save

migrate_kubernetes_cluster ==
  Cloud \o Region \o Row \o Row \o create_ibm_kubernetes_cluster_migration_workflow
delete_ibm_cluster == Row \o Allowed \o Deletion("IBMKubernetesCluster")

\* A synchronisation that has not ended is answered instead.
sync_orchestration_versions == Cloud \o Answers("running") \o Sync("KubeVersions")
sync_cluster_worker_pool_zone_flavors ==
  Cloud \o Answers("running") \o Zone \o Sync("ZoneFlavors")
sync_cluster_worker_pool_flavors_by_zone ==
  Cloud \o Each(Zone) \o Answers("running") \o Sync("RegionalZoneFlavors")
sync_ibm_cluster_workloads == Cloud \o Row \o Sync("IBMKubernetesCluster_workloads")
sync_classic_multizone_clusters ==
  Check("ibm_cloud") \o Cloud \o Row \o Root("workflow_root")
    \o First("kubernetes_task", <<"SYNC_CLASSIC", "IBMKubernetesCluster">>) \o Save
=============================================================================

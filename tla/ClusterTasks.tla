---------------------------- MODULE ClusterTasks ----------------------------
(***************************************************************************)
(* The tasks on Kubernetes clusters, their backups and restorations:       *)
(* src/ibm/tasks/ibm/kubernetes_tasks.py and tasks/agent_tasks.            *)
(*                                                                         *)
(* "act" is a call of the backup agent (Velero): its answer is "pending",  *)
(* "stable" when the job completed and "failed" when it did.  The client   *)
(* of the cluster API raises errors its callers do not catch (Bare).       *)
(***************************************************************************)
EXTENDS Sequences, TaskScript

\* The agent's job is started and its id noted; the wait function polls it.
LOCAL StartJob == <<Request("act", Fails), Note, Exit("RUNNING_WAIT")>>
\* The storage the backup is kept in.
LOCAL BackupBucket ==
  <<Needs({"serviceCredentialKey"}), Check("manager role"), Needs({"bucket"})>>

----------------------------------------------------------------------------
\* Backups

create_kubernetes_cluster_backup ==
  <<Running, Needs({"cloudObjectStorage"})>> \o BackupBucket
    \o <<Bare("other"), Request("other", Fails)>> \o StartJob

\* A job that failed without a failed part is polled for ever.
create_wait_kubernetes_cluster_backup ==
  <<Running, Recall, Request("act", Fails), On({"stable"}, Succeeds),
    On({"failed"}, <<Each(<<When("not failed", <<Continue>>), Exit("FAILED")>>)>>),
    Exit("RUNNING_WAIT")>>

\* An answer of the agent that is not 202 sets FAILED without a commit.
create_onprem_agent_cluster_backup ==
  <<Running, Needs({"cloud", "cluster", "cloudObjectStorage"})>> \o BackupBucket
    \o <<Request("act", Fails), When("not accepted", <<Put("FAILED"), Return>>),
         Note, Exit("RUNNING_WAIT")>>

create_wait_onprem_agent_cluster_backup == create_wait_kubernetes_cluster_backup

discover_on_prem_cluster ==
  <<Running, Request("other", Fails), Request("other", Fails),
    Each(<<Request("other", Fails), Request("other", Fails)>>),
    Save, Put("SUCCESSFUL"), Commit, Commit>>

----------------------------------------------------------------------------
\* Restorations.  The cluster is one of this cloud, a classic one that is
\* migrated, or one of another cloud.

classic_to_gen2_iks_migration ==
  <<Running,
    Either("target given", <<>>, <<Uses({"creation task"}), Needs({"source cluster"})>>)>>
    \o BackupBucket \o <<Bare("other"), Request("other", Fails), Bare("other")>> \o StartJob

iks_gen2_to_iks_gen2_restoration ==
  <<Running, Needs({"backup"})>> \o BackupBucket \o <<Bare("other")>> \o StartJob

\* Without the target's row FAILED is set and not committed.
aws_cloud_to_ibm_restoration ==
  <<Running, Needs({"cloud"}), Request("other", Fails), Request("other", Fails),
    Missing({"target cluster"}, <<Put("FAILED"), Return>>),
    Either("satellite", <<>>, <<BareIn("other")>>)>> \o StartJob

create_kubernetes_cluster_restore ==
  <<Running,
    Either("AWS", aws_cloud_to_ibm_restoration,
      <<Either("classic", classic_to_gen2_iks_migration,
               iks_gen2_to_iks_gen2_restoration)>>)>>

create_wait_kubernetes_cluster_restore == create_wait_kubernetes_cluster_backup

create_onprem_cluster_restore ==
  <<Running, Needs({"cloud", "cluster"})>> \o BackupBucket
    \o <<Bare("other"), Request("act", Fails), Note, Exit("RUNNING_WAIT")>>

create_wait_onprem_cluster_restore == create_wait_kubernetes_cluster_backup

----------------------------------------------------------------------------
\* Clusters

\* The only creation that does not begin by committing RUNNING.
create_kubernetes_cluster ==
  <<Refs, When("OpenShift", <<Needs({"cloudObjectStorage"})>>), Request("create", Fails),
    Each(<<When("first pool", <<Continue>>), Request("other", Fails)>>),
    Note, Exit("RUNNING_WAIT")>>

create_wait_kubernetes_cluster ==
  <<Running, Request("get", Fails),
    On({"stable"},
      <<When("ingress ready",
          <<Request("other", Fails), Uses({"vpcNetwork", "resourceGroup"}), Point,
            Put("SUCCESSFUL"), Save, Commit, Log("ADDED"), Commit, Return>>)>>),
    On({"failed"}, Fails), Exit("RUNNING_WAIT")>>

delete_kubernetes_cluster ==
  <<Running, Own(Fails),
    Request("delete",
      <<IfGone(<<IfOwn(<<Log("DELETED"), Drop, Exit("SUCCESSFUL")>>),
                 Exit("RUNNING_WAIT")>>),
        Exit("FAILED")>>),
    Exit("RUNNING_WAIT")>>

delete_wait_kubernetes_cluster ==
  <<Running, Own(Succeeds),
    Request("get",
      <<IfGone(<<IfOwn(<<Drop, Log("DELETED"), Exit("SUCCESSFUL")>>),
                 Either("deleting before", <<Exit("RUNNING_WAIT")>>, <<Raise>>)>>),
        Exit("FAILED")>>),
    On({"deleting"}, <<When("not deleting before", <<Own(<<Raise>>), Commit>>)>>),
    Exit("RUNNING_WAIT")>>

----------------------------------------------------------------------------
\* What can be ordered, and what runs in a cluster

sync_orchestration_versions ==
  <<Running, Needs({"cloud"}), Request("other", Fails), Check("versions"), Exit("SUCCESSFUL")>>
sync_workerpool_zone_flavors ==
  <<Running, Needs({"cloud"}), Request("other", Fails), Check("flavors"), Exit("SUCCESSFUL")>>
sync_workerpool_flavors_for_all_zones_in_region ==
  <<Running, Needs({"cloud"}), Each(<<Request("other", Fails), Check("flavors")>>),
    Exit("SUCCESSFUL")>>

sync_cluster_workloads ==
  <<Running, Needs({"cloud"}), Own(Fails), Request("other", Fails), Check("clusters"),
    Bare("other"), Request("other", Fails), Own(Fails), Exit("SUCCESSFUL")>>
=============================================================================

--------------------------- MODULE ScheduledFlows ---------------------------
(***************************************************************************)
(* The functions that celery's beat calls, or a region's discovery, to     *)
(* compose workflows that nobody has requested, in the notation of         *)
(* RequestScript.  A check that fails is an exception nothing catches, or  *)
(* a pass that ends: it ends the whole of the function, the rows it has    *)
(* not come to included.                                                   *)
(***************************************************************************)
EXTENDS Sequences, RequestScript

\* run_vpc_expiry_manager: whatever an earlier run has composed for the VPC, and
\* whatever became of it.
run_vpc_expiry_manager == Each(Check("vpc") \o compose_ibm_vpc_deletion_workflow)

----------------------------------------------------------------------------
\* task_run_disaster_recovery_backups

LOCAL StaleBackups(R) ==
  Root("delete_backup_workflow_root")
    \o First("delete_backup_task", <<"DELETE_BACKUP", R>>)
    \o Each(First("delete_backup_task", <<"DELETE_BACKUP", R>>))
    \o Commit

\* A cluster's workloads follow its own backup.
LOCAL BackupOf(R) ==
  First("backup_task", <<"BACKUP", R>>)
    \o (IF R = "IKS"
        THEN After("backup_task", "workloads_backup_task",
                   <<"BACKUP", "DisasterRecoveryResourceBlueprint">>)
        ELSE <<>>)

\* The backup is taken when the deletion of stale ones is over, whatever came of it.
LOCAL Blueprint(R) ==
  Check("policy")
    \o Either("enough backups",
         StaleBackups(R) \o OnComplete("create_backup_workflow_root") \o BackupOf(R)
           \o AddCallback("delete_backup_workflow_root", "create_backup_workflow_root"),
         Root("create_backup_workflow_root") \o BackupOf(R))
    \o Save

\* A blueprint with a backup in progress is passed over.
task_run_disaster_recovery_backups ==
  Each(Either("IKS", Blueprint("IKS"), Blueprint("IBMVpcNetwork")))

----------------------------------------------------------------------------
\* task_run_ibm_fetch_cost: one commit for the workflows of all clouds.
task_run_ibm_fetch_cost ==
  Each(Root("cloud_workflow_root") \o First("fetch_cost_task", <<"FETCH_COST", "IBMCloud">>)
         \o Add)
    \o Commit

\* The end of ibm_run_region_discovery: usage data a day after the last ones.
\* MAPPER has the kind of the second task the wrong way round too.
ibm_run_region_discovery ==
  Answers("none due") \o Each(Write \o Commit) \o Answers("none due")
    \o Root("workflow_root") \o First("idle_task", <<"IDLE", "IBMInstance">>)
    \o OnComplete("callback_workflow_root")
    \o First("monitoring_task", <<"IBMInstance", "MONITORING">>)
    \o AddCallback("workflow_root", "callback_workflow_root")
    \o Save

Jobs == [
  run_vpc_expiry_manager |-> run_vpc_expiry_manager,
  task_run_disaster_recovery_backups |-> task_run_disaster_recovery_backups,
  task_run_ibm_fetch_cost |-> task_run_ibm_fetch_cost,
  ibm_run_region_discovery |-> ibm_run_region_discovery]
=============================================================================

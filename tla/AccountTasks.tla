---------------------------- MODULE AccountTasks ----------------------------
(***************************************************************************)
(* The tasks on accounts and on what belongs to an account: object         *)
(* storage, credentials, resource groups, regions, tags, costs, the        *)
(* classic (SoftLayer) infrastructure, translations and disaster recovery. *)
(* The task of an account has the account's row as its own.                *)
(***************************************************************************)
EXTENDS Naturals, Sequences, TaskScript

LOCAL Sync(list) == <<Running, Needs({"cloud"})>> \o list \o <<Exit("SUCCESSFUL")>>

----------------------------------------------------------------------------
\* Object storage.  A synchronisation commits row by row; a bucket in an
\* unknown region fails it halfway.

sync_cos ==
  Sync(<<Call("other", Fails), Check("catalog"), Call("other", Fails), Needs({"cloud"}),
         Each(<<Commit>>), Each(<<Commit>>)>>)

initiate_cos_buckets_sync == Sync(<<Needs({"region"}), Each(<<Commit>>)>>)

sync_cos_buckets ==
  Sync(<<Region, Needs({"cloudObjectStorage"}), Request("other", Fails),
         Needs({"cloud", "cloudObjectStorage"}), Each(<<Commit>>),
         Each(<<Check("regions"), Commit>>)>>)

sync_cos_bucket_objects ==
  <<Running, Needs({"cOSBucket"}), Request("other", Fails), Put("SUCCESSFUL"), Point, Commit>>

\* The bucket is looked for in the list of all of them; the last of the list is
\* taken when it is not there.  Without a list, or after an error that is not a
\* conflict, the variable does not exist.
create_cos_bucket ==
  <<Running, Needs({"cloud"}), Region, Needs({"cloudObjectStorage"}),
    Request("create", <<Either("known error", Fails, <<Raise>>)>>),
    Request("other", <<Either("known error", Fails, <<Raise>>)>>),
    Uses({"bucket"}), Needs({"cloud", "region", "cloudObjectStorage"}), Save, Log("ADDED"),
    Commit, Point, Exit("SUCCESSFUL")>>

\* Three calls of boto3, whose ClientError is caught; any other exception has no
\* "response" and raises again.
delete_cos_bucket ==
  <<Running, Own(Fails), Needs({"bucket region", "region"}), Call("other", Fails),
    When("Contents", <<Call("other", Fails)>>),
    Call("delete", Fails), Needs({"region"}), Own(<<Raise>>), Log("DELETED"), Drop,
    Exit("SUCCESSFUL")>>

sync_credential_keys ==
  Sync(<<Call("other", Fails), Needs({"cloud"}), Each(<<Commit>>),
         Each(<<When("unusable or known", <<Continue>>),
                Needs({"cloudObjectStorage", "resourceGroup"}), Commit>>)>>)

----------------------------------------------------------------------------
\* Resource groups, regions, tags

update_resource_groups ==
  <<Running, Check("cloud_id"), Needs({"cloud"}), Call("other", Fails), Needs({"cloud"}),
    Exit("SUCCESSFUL")>>

update_geography ==
  <<Running, Check("cloud_id"), Needs({"cloud"}), Call("other", Fails),
    Each(<<Call("other", Fails)>>), Needs({"cloud"}), Exit("SUCCESSFUL")>>

create_ibm_tag ==
  <<Running, Needs({"cloud", "resource"}), Call("create", Fails), Needs({"cloud", "resource"}),
    Save, Log("ADDED"), Point, Exit("SUCCESSFUL")>>

delete_ibm_tag ==
  <<Running, Own(Fails), Needs({"resource"}), Call("delete", Fails), Own(Fails),
    Log("DELETED"), Drop, Exit("SUCCESSFUL")>>

----------------------------------------------------------------------------
\* Accounts

validate_update_cloud_api_key ==
  <<Check("cloud_id"), Running, Own(Fails), Call("act", Fails), Own(Fails), Point,
    Exit("SUCCESSFUL")>>

validate_ibm_monitoring_tokens == <<Running, Call("act", Fails), Exit("SUCCESSFUL")>>

add_ibm_monitoring_tokens ==
  <<Check("region_id"), Running, Needs({"region"}), Call("act", Fails),
    Needs({"monitoringToken"}), Point, Exit("SUCCESSFUL")>>

add_account_id_to_cloud ==
  <<Running, Check("cloud_id"), Own(Fails), RequestIn("act", Fails), Own(Fails),
    Exit("SUCCESSFUL")>>

\* The row is marked as deleted; delete_cloud removes it later.
delete_ibm_cloud == <<Running, Own(Fails), Exit("SUCCESSFUL")>>

update_ibm_cloud ==
  <<Running, Check("cloud_id"), Own(Fails), Check("data"), Point, Exit("SUCCESSFUL")>>

fetch_ibm_cloud_cost ==
  Sync(<<Each(<<When("known month", <<Continue>>), Request("other", Fails)>>)>>)

\* What the subscription service and the consumption service are told.
LOCAL Consume == <<Call("other", Fails), Check("subscriptions"), Call("act", Fails)>>
add_cost_consumption_task == Sync(Consume)
add_backup_consumption_task ==
  <<Running, Needs({"backup", "resource"})>> \o Consume \o <<Exit("SUCCESSFUL")>>

----------------------------------------------------------------------------
\* The classic infrastructure.  Two handlers write to the task of a session
\* that is closed: an error of the client leaves it RUNNING.

validate_softlayer_account ==
  <<Check("cloud_id"), Running, Own(Fails),
    Request("act", <<Own(<<Put("FAILED"), Exit("FAILED")>>), Exit("SUCCESSFUL")>>),
    Own(Fails), Point, Exit("SUCCESSFUL")>>

sync_softlayer_images ==
  <<Running, Needs({"softlayerCloud", "region"}), Request("other", Fails), Exit("SUCCESSFUL")>>

sync_softlayer_instances ==
  <<Running, Needs({"softlayerCloud"}), When("region", <<Needs({"region"})>>),
    Request("other", <<Return>>), Exit("SUCCESSFUL")>>
sync_softlayer_instance == sync_softlayer_instances

sync_softlayer_resources_task ==
  <<Running, Needs({"softlayerCloud"})>> \o [list \in 1..7 |-> Request("other", Fails)]
    \o <<Exit("SUCCESSFUL")>>

sync_classic_kubernetes_task ==
  Sync(<<Needs({"softlayerCloud"}), Call("other", Fails),
         When("clusters",
           <<Request("other", Fails),
             Each(<<When("not ready", <<Continue>>), Call("other", Fails),
                    When("free tier", <<Continue>>), Call("other", Fails),
                    Call("other", Fails)>>)>>)>>)

\* None of the recommendation tasks says that it is RUNNING: it stays INITIATED
\* until its verdict.
sync_classic_network_gateways_task ==
  <<Needs({"softlayerCloud"}), RequestIn("other", Fails), Exit("SUCCESSFUL")>>

\* Each guest gets three tasks of its own, in front of the recommendations.
sync_classic_virtual_guests_usage_task ==
  <<Needs({"softlayerCloud"}), Request("other", Fails),
    Each(<<When("not tracked", <<Continue>>), Uses({"recommendation task"}), Commit>>),
    Exit("SUCCESSFUL")>>

sync_classic_virtual_guest_memory_usage_task ==
  <<Needs({"softlayerCloud"}), Request("other", Fails), Point, Exit("SUCCESSFUL")>>
sync_classic_virtual_guest_bandwidth_usage_task ==
  <<Needs({"softlayerCloud"}), Request("other", Fails), Request("other", Fails), Point,
    Exit("SUCCESSFUL")>>
sync_classic_virtual_guest_cpu_usage_task == sync_classic_virtual_guest_memory_usage_task

generate_classic_recommendations_task ==
  <<Needs({"softlayerCloud"}), Uses({"network gateways task", "virtual guest task"}),
    Each(<<Uses({"usage results"})>>), Put("SUCCESSFUL"), Point, Commit>>

----------------------------------------------------------------------------
\* Translations and disaster recovery

translate_vpc_construct ==
  <<Running, Request("act", Fails), Needs({"resourceGroup", "region"}),
    Check("answered 200"), Exit("SUCCESSFUL")>>

create_ibm_resource_backup_task ==
  <<Running, Needs({"blueprint", "vpcNetwork"}), Save, Put("SUCCESSFUL"), Point, Commit>>

\* No path of this function sets a verdict.
update_vpc_metadata_for_instances_with_snapshot_references ==
  <<Running, Missing({"backup task"}, <<Return>>), Uses({"backup"}), Commit>>

create_draas_backup_iks == <<Running, Needs({"cloud"}), Save, Commit, Exit("SUCCESSFUL")>>
create_draas_backup_onprem == create_draas_backup_iks

delete_draas_blueprint == <<Running, Own(Fails), Drop, Commit, Exit("SUCCESSFUL")>>
delete_draas_backup == delete_draas_blueprint
=============================================================================

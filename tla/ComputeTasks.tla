---------------------------- MODULE ComputeTasks ----------------------------
(***************************************************************************)
(* The tasks on virtual servers and what they are made of:                 *)
(* src/ibm/tasks/ibm/ibm_instance_tasks, network_interface_tasks,          *)
(* volume_attachment_tasks, instance_template_tasks, placement_group_tasks,*)
(* dedicated_hosts_task, dedicated_host_groups_task, ssh_keys_tasks,       *)
(* ibm_images_tasks, ibm_volume_tasks and snapshots_tasks.                 *)
(*                                                                         *)
(* Left out: start_nas_migration, which is no workflow task.               *)
(***************************************************************************)
EXTENDS Sequences, TaskScript

----------------------------------------------------------------------------
\* Instances

\* Without image and user data the message of a branch subscripts None.
create_ibm_instance ==
  <<Running, Region, When("no image", <<Uses({"image"})>>), Check("user data"), Refs,
    When("placement target", <<Refs>>), Each(<<Refs>>), Each(<<Refs>>),
    Call("create", Fails),
    OnElse({"pending", "stable"}, <<Note, Put("RUNNING_WAIT")>>, <<Put("FAILED")>>),
    Commit>>

\* The status "failed" is not looked at: such an instance is recorded.  The
\* log, written after SUCCESSFUL was committed, is saved only with the
\* metadata of a next task.
LOCAL AwaitInstance ==
  <<Running, Region, Recall, Call("get", Fails), On({"deleting"}, Fails),
    On({"pending"}, Waits)>>
LOCAL RecordInstance ==
  <<Bare("other"), Bare("other"), Check("complete instance"),
    Needs({"cloud", "instanceProfile", "resourceGroup", "vpcNetwork", "zone"}),
    Each(<<Needs({"subnet"})>>), When("placement target", <<Needs({"target"})>>),
    Save, Commit, Put("SUCCESSFUL"), Point, Commit, Log("ADDED"),
    When("next task", <<Uses({"primary interface"}), Commit>>)>>
create_wait_ibm_instance == AwaitInstance \o RecordInstance

LOCAL DropOrRaise == <<Own(<<Raise>>), Drop, Log("DELETED"), Exit("SUCCESSFUL")>>
LOCAL GoneRaise == <<IfGone(DropOrRaise), Exit("FAILED")>>

delete_instance ==
  <<Running, Own(Fails), Call("delete", GoneRaise), Call("get", GoneRaise),
    OnElse({"pending", "deleting"}, <<Put("RUNNING_WAIT")>>, <<Put("FAILED")>>), Commit>>

delete_wait_instance ==
  <<Running, Own(Succeeds), Call("get", GoneRaise),
    OnElse({"pending", "deleting"}, <<Put("RUNNING_WAIT")>>, <<Put("FAILED")>>), Commit>>

\* An action on an instance.  A status that is neither pending nor the one
\* that is asked for leaves the task RUNNING.
LOCAL ActedOn ==
  <<Own(Fails), On({"pending"}, Waits), On({"stable"}, <<Log("UPDATED"), Exit("SUCCESSFUL")>>)>>

\* The action is requested, and requested again with force.
stop_ibm_instance_task ==
  <<Running, Own(Fails), Call("act", Fails), Call("act", Fails), Call("get", Fails)>>
    \o ActedOn

stop_wait_ibm_instance_task == <<Running, Own(Fails), Call("get", Fails)>> \o ActedOn

start_ibm_instance_task ==
  <<Running, Own(Fails), Call("act", Fails), Call("get", Fails), On({"pending"}, Waits),
    On({"stable"}, <<Own(Fails), Log("UPDATED"), Exit("SUCCESSFUL")>>)>>

start_wait_ibm_instance_task == <<Running, Own(Fails), Call("get", Fails)>> \o ActedOn

update_instance ==
  <<Running, Region, Own(Fails), Needs({"instanceProfile"}), Refs, Call("act", Fails),
    Needs({"cloud"}), Own(Fails), Log("UPDATED"), Exit("SUCCESSFUL")>>

----------------------------------------------------------------------------
\* Migration of a classic server: snapshot, export of the image to a bucket,
\* and a second server made from the snapshot, the backup.

LOCAL ValidCloud == Needs({"cloud", "valid cloud"})

create_ibm_instance_export_to_cos ==
  <<Running, ValidCloud, Region, Needs({"softlayerCloud"}), Request("other", Fails),
    Check("image"), Check("no transaction"), Needs({"cOSBucket"}), Request("other", Fails),
    Check("exported"), Exit("RUNNING_WAIT")>>

\* A cloud that is gone or invalid leaves FAILED uncommitted.  The list of the
\* bucket is read without a handler for its own errors.
create_wait_ibm_instance_export_to_cos ==
  <<Running, Missing({"cloud", "valid cloud"}, <<Put("FAILED"), Return>>), Region,
    Needs({"softlayerCloud", "cOSBucket"}), Request("other", Fails),
    When("no transaction", <<Bare("other")>>), Check("image"),
    When("not all exported", Waits), Put("SUCCESSFUL"), Commit,
    When("classic server", <<Request("other", <<>>)>>)>>

create_ibm_instance_snapshot ==
  <<Running, Needs({"softlayerCloud"}), Request("other", Fails),
    When("no transaction",
      <<Request("other", Fails), Request("other", Fails), Request("other", Fails)>>),
    Check("instance"), Check("no transaction"), Check("captured"), Exit("RUNNING_WAIT")>>

\* The handler writes to a session that is closed.  The backup is deleted after
\* SUCCESSFUL was committed; one kind of error of that call is not caught.
create_wait_ibm_instance_snapshot ==
  <<Running, Needs({"softlayerCloud"}), Request("other", <<Return>>),
    Request("other", <<Return>>), Check("instance"), When("transaction", Waits),
    Put("SUCCESSFUL"), Commit, When("backup", <<Call("other", <<Return>>)>>)>>

create_softlayer_backup_instance ==
  <<Running, Needs({"softlayerCloud"}), Request("other", Fails), Request("other", Fails),
    Check("instance and image"), Request("act", Fails), Exit("RUNNING_WAIT")>>

\* The backup is waited for a hundred times while it does not answer, and for
\* ever while it does.
create_wait_softlayer_backup_instance ==
  <<Running, Needs({"softlayerCloud"}), Request("other", Fails), Check("instance"),
    When("not created", <<Request("act", Fails), Exit("RUNNING_WAIT")>>),
    When("answers a ping", Waits), When("count up to 100", Waits),
    Put("SUCCESSFUL"), Commit, When("classic server", <<CallIn("other", <<>>)>>)>>

----------------------------------------------------------------------------
\* What the monitoring service says of the instances

\* The answer is not caught where the connection fails; another token is asked
\* for where this one is refused.
LOCAL ReadUsage ==
  <<Running, Region, Needs({"monitoringToken"}),
    Each(<<Call("other",
      <<When("no such metric", Succeeds),
        When("not authorised", <<Needs({"monitoringToken"})>>), Exit("FAILED")>>)>>)>>
LOCAL RecordUsage ==
  <<Needs({"region"}), Each(<<When("nothing to recommend", <<Continue>>), Commit>>),
    Exit("SUCCESSFUL")>>
get_vsi_usage_data == ReadUsage \o RecordUsage

get_idle_instances ==
  <<Running, Region, Needs({"monitoringToken"}),
    Each(<<Call("other",
      <<When("not authorised", <<Needs({"monitoringToken"})>>), Exit("FAILED")>>)>>),
    Needs({"region"}), Each(<<When("idle", <<Uses({"known idle resource"})>>)>>),
    Each(<<Commit>>), Exit("SUCCESSFUL")>>

----------------------------------------------------------------------------
\* Network interfaces

create_ibm_network_interface ==
  <<Running, Region, Needs({"instance"}), Refs, Call("create", Fails),
    OnElse({"pending", "stable"}, <<Note, Put("RUNNING_WAIT")>>, <<Put("FAILED")>>),
    Commit>>

create_wait_ibm_network_interface ==
  <<Running, Region, Needs({"instance"}), Recall, Call("get", Fails),
    On({"failed", "deleting"}, Fails), On({"pending"}, Waits), Needs({"subnet"}), Save,
    Commit, Put("SUCCESSFUL"), Log("ADDED"), Commit>>

delete_network_interface ==
  <<Running, Own(Fails), Call("delete", GoneOr(Fails)), Call("get", GoneOr(Fails)),
    OnElse({"pending", "deleting"}, <<Put("RUNNING_WAIT")>>, <<Put("FAILED")>>), Commit>>

delete_wait_network_interface ==
  <<Running, Own(Succeeds), Call("get", GoneRaise),
    OnElse({"pending", "deleting"}, <<Put("RUNNING_WAIT")>>, <<Put("FAILED")>>), Commit>>

\* The floating IP is taken to exist where the interface does.
attach_floating_ip_with_network_interface ==
  <<Running, Own(Fails), Needs({"floatingIP"}), Call("act", Fails),
    Either("interface or gateway found", <<Uses({"floatingIP"})>>, <<Needs({"floatingIP"})>>),
    Exit("SUCCESSFUL")>>

detach_floating_ip_from_network_interface ==
  <<Running, Own(Fails), Needs({"floatingIP"}), Call("act", Fails), Own(Fails),
    Needs({"floatingIP"}), Exit("SUCCESSFUL")>>

----------------------------------------------------------------------------
\* Volume attachments.  A volume that is unknown is left unset.

create_instance_volume_attachment ==
  <<Running, Region, Needs({"instance"}), When("volume by id", <<Uses({"volume"})>>), Refs,
    Call("create", Fails),
    OnElse({"pending", "stable"}, <<Note, Put("RUNNING_WAIT")>>, <<Put("FAILED")>>),
    Commit>>

\* The status "failed" leaves the task RUNNING.
create_wait_instance_volume_attachment ==
  <<Running, Region, Needs({"instance"}), Recall, Call("get", Fails),
    On({"deleting"}, Fails), On({"pending"}, Waits),
    On({"stable"},
      <<Needs({"instance"}), Save, Commit, Log("ADDED"), Put("SUCCESSFUL"), Point,
        Commit>>)>>

delete_instance_volume_attachment ==
  <<Running, Own(Succeeds), Call("delete", GoneOr(Fails)), Call("get", GoneOr(Fails)),
    OnElse({"deleting"}, <<Put("RUNNING_WAIT")>>, <<Put("FAILED")>>), Commit>>

delete_wait_instance_volume_attachment ==
  <<Running, Own(Succeeds), Call("get", GoneOr(Fails)),
    OnElse({"pending", "deleting"}, <<Put("RUNNING_WAIT")>>, <<Put("FAILED")>>), Commit>>

----------------------------------------------------------------------------
\* Instance templates

\* FAILED is committed, with whatever the caller has added to the session, and
\* None returned: the caller goes on.
parse_network_interface_from_ibm_json ==
  Missing({"subnet"}, <<Put("FAILED"), Commit>>)

LOCAL RequestTemplate ==
  <<Running, Region, Refs, Each(<<Refs>>), Each(<<Refs>>), Each(<<Refs>>),
    Call("create", Fails)>>
LOCAL RecordTemplate ==
  <<Needs({"vpcNetwork", "instanceProfile", "resourceGroup", "zone"}), Save,
    Each(<<parse_network_interface_from_ibm_json>>),
    When("primary interface",
      <<Missing({"subnet"}, <<Put("FAILED"), Commit, Raise>>)>>),
    Log("ADDED"), Commit, Exit("SUCCESSFUL")>>
create_instance_template == RequestTemplate \o RecordTemplate

delete_instance_template ==
  <<Running, Own(Fails), Call("delete", GoneRaise)>> \o DropOrRaise

----------------------------------------------------------------------------
\* Placement groups

\* An unavailable region is FAILED, and the function goes on.
create_placement_group ==
  <<Running, Needs({"region"}), Missing({"region available"}, <<Put("FAILED"), Commit>>),
    Refs, Call("create", Fails),
    OnElse({"pending", "stable"}, <<Note, Put("RUNNING_WAIT")>>, <<Put("FAILED")>>),
    Commit>>

create_wait_placement_group ==
  <<Running, Region, Recall, Call("get", Fails),
    OnElse({"stable"},
      <<Needs({"resourceGroup", "region"}), Save, Commit, Put("SUCCESSFUL"),
        Log("ADDED"), Point>>,
      <<OnElse({"pending"}, <<Put("RUNNING_WAIT")>>, <<Put("FAILED")>>)>>),
    Commit>>

delete_placement_group ==
  <<Running, Own(Fails), Call("delete", GoneRaise), Call("get", GoneRaise),
    OnElse({"pending", "stable", "deleting"}, <<Put("RUNNING_WAIT")>>, <<Put("FAILED")>>),
    Commit>>

delete_wait_placement_group ==
  <<Running, Own(Succeeds), Call("get", GoneRaise),
    OnElse({"pending", "stable", "deleting"}, <<Put("RUNNING_WAIT")>>, <<Put("FAILED")>>),
    Commit>>

----------------------------------------------------------------------------
\* Dedicated hosts and their groups.  A group that is not in the answer is read
\* unbound.

create_ibm_dedicated_host ==
  <<Running, Region, Refs, Call("create", Fails),
    Needs({"zone", "resourceGroup", "dedicatedHostProfile"}),
    Uses({"dedicatedHostGroup"}), Save, Commit, Log("ADDED"), Exit("SUCCESSFUL")>>

\* A refusal sets the status of a task whose session is closed.
LOCAL Unsaved == <<IfGone(<<Log("ADDED")>> \o DropOrRaise), Return>>

delete_dedicated_host ==
  <<Running, Own(Fails), Call("delete", Unsaved), Call("get", Unsaved), Own(<<Raise>>),
    OnElse({"stable", "failed"}, <<Put("FAILED")>>, <<Put("RUNNING_WAIT")>>), Commit>>

\* Without the row, the message after the commit raises.
delete_wait_dedicated_host ==
  <<Running, Own(Fails),
    Call("get",
      <<IfGone(<<RowElse(<<Log("DELETED"), Drop, Exit("SUCCESSFUL")>>,
                         <<Put("SUCCESSFUL"), Commit, Raise>>)>>),
        Return>>),
    OnElse({"stable", "failed"}, <<Put("FAILED")>>, <<Put("RUNNING_WAIT")>>), Commit>>

create_ibm_dedicated_host_group ==
  <<Running, Region, Needs({"dedicatedHostProfile"}), Refs, Call("create", Fails),
    Needs({"zone", "resourceGroup"}), Save, Log("ADDED"), Commit, Exit("SUCCESSFUL")>>

delete_dedicated_host_group ==
  <<Running, Own(Fails), Call("delete", GoneRaise)>> \o DropOrRaise

----------------------------------------------------------------------------
\* SSH keys

\* A key the provider already has: the row with its name and its public key
\* becomes the task's.
create_ssh_key ==
  <<Running, Region, Refs,
    Call("create",
      <<When("bad request or conflict", <<Own(<<Raise>>), Point, Exit("SUCCESSFUL")>>),
        Exit("FAILED")>>),
    Save, Commit, Log("ADDED"), Put("SUCCESSFUL"), Point, Commit>>

delete_ssh_key ==
  <<Running, Own(Fails), Call("delete", GoneRaise), Forget, Exit("SUCCESSFUL")>>

----------------------------------------------------------------------------
\* Images.  An image whose parents are unknown is FAILED, and the function
\* goes on.

create_ibm_image ==
  <<Running, Region, When("file without reference", <<Needs({"cOSBucket"})>>), Refs,
    Call("create", Fails),
    OnElse({"pending", "stable"}, <<Note, Put("RUNNING_WAIT")>>, <<Put("FAILED")>>),
    Commit>>

LOCAL RecordImage ==
  <<On({"failed"}, Fails), On({"pending"}, Waits),
    Missing({"region", "resourceGroup", "operatingSystem"}, <<Put("FAILED"), Commit>>),
    Save, Commit, Log("ADDED"), Exit("SUCCESSFUL")>>

create_wait_ibm_image == <<Running, Region, Recall, Call("get", Fails)>> \o RecordImage

delete_image ==
  <<Running, Own(Fails), Call("delete", GoneOr(Fails)), Call("get", GoneOr(Fails)),
    OnElse({"failed"}, <<Put("FAILED")>>, <<Put("RUNNING_WAIT")>>), Commit>>

delete_wait_image ==
  <<Running, Own(Fails), Call("get", GoneOr(Fails)),
    OnElse({"failed"}, <<Put("FAILED")>>, <<Put("RUNNING_WAIT")>>), Commit>>

\* A cloud that is gone or invalid leaves FAILED uncommitted.
create_image_conversion ==
  <<Running, Missing({"cloud", "valid cloud"}, <<Put("FAILED"), Return>>), Region,
    Check("image format"), Call("other", Fails), Check("image size"), Needs({"cOSBucket"}),
    Commit, Exit("RUNNING_WAIT")>>

create_wait_image_conversion ==
  <<Running, Missing({"cloud", "valid cloud"}, <<Put("FAILED"), Return>>), Region,
    Needs({"imageConversionTask", "no failed conversion"}),
    Either("converted", <<Put("SUCCESSFUL"), Commit>>, <<Put("RUNNING_WAIT")>>), Commit>>

store_ibm_custom_image ==
  <<Running, Region, Call("get", Fails), Check("image"), Call("get", Fails)>> \o RecordImage

store_wait_ibm_custom_image ==
  <<Running, Region, Call("get", Fails), Check("image"), Call("get", Fails)>> \o RecordImage

----------------------------------------------------------------------------
\* Volumes

create_ibm_volume ==
  <<Running, Region, Refs, Call("create", Fails),
    OnElse({"pending", "stable"}, <<Note, Put("RUNNING_WAIT")>>, <<Put("FAILED")>>),
    Commit>>

create_wait_ibm_volume ==
  <<Running, Region, Recall, Call("get", Fails), On({"failed"}, Fails),
    On({"pending"}, Waits), Save, Log("ADDED"), Commit, Put("SUCCESSFUL"), Point, Commit>>

\* The message of a row that is not found reads its name.
delete_volume ==
  <<Running, Own(<<Raise>>), Call("delete", GoneRaise), Call("get", GoneRaise),
    OnElse({"pending", "deleting"}, <<Put("RUNNING_WAIT")>>, <<Put("FAILED")>>), Commit>>

delete_wait_volume ==
  <<Running, Own(Succeeds), Call("get", GoneRaise),
    OnElse({"pending", "deleting"}, <<Put("RUNNING_WAIT")>>, <<Put("FAILED")>>), Commit>>

----------------------------------------------------------------------------
\* Snapshots

validate_snapshot ==
  <<Running, Check("name free in the database"), Region, Uses({"resourceGroup"}),
    Call("other", Fails), Check("name free at the provider"), Exit("SUCCESSFUL")>>

create_snapshot ==
  <<Running, Region, Refs, Call("create", Fails),
    OnElse({"pending", "stable"}, <<Note, Put("RUNNING_WAIT")>>, <<Put("FAILED")>>),
    Commit>>

create_wait_snapshot ==
  <<Running, Region, Recall, Call("get", Fails), On({"failed"}, Fails),
    On({"pending"}, Waits), Needs({"resourceGroup", "region"}), Save, Commit,
    Log("ADDED"), Put("SUCCESSFUL"), Point, Commit>>

delete_snapshot ==
  <<Running, Own(Fails), Call("delete", GoneRaise), Call("get", GoneRaise),
    Own(<<Raise>>),
    OnElse({"stable", "failed"}, <<Put("FAILED")>>, <<Put("RUNNING_WAIT")>>), Commit>>

delete_wait_snapshot ==
  <<Running, Own(Fails), Call("get", GoneRaise), On({"deleting"}, Waits), Exit("FAILED")>>

\* A deletion that is refused is SUCCESSFUL; one that is accepted ends without
\* a commit, and the task stays RUNNING.
delete_volume_attached_snapshots ==
  <<Running, Needs({"volume"}),
    Call("act",
      <<Missing({"volume"}, <<When("bad request", <<Raise>>), Exit("FAILED")>>),
        Exit("SUCCESSFUL")>>),
    Put("SUCCESSFUL")>>
=============================================================================

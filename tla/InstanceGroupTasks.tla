------------------------- MODULE InstanceGroupTasks -------------------------
(***************************************************************************)
(* The tasks on instance groups: src/ibm/tasks/ibm/instance_groups.  None  *)
(* of them writes a resource log.  A group that scales is "pending", a     *)
(* healthy one "stable"; an action is "stable" while it is active or       *)
(* completed.                                                              *)
(***************************************************************************)
EXTENDS Sequences, TaskScript

LOCAL DropOwn == <<IfOwn(<<Drop>>), Exit("SUCCESSFUL")>>
LOCAL DropOrFail == <<IfGone(DropOwn), Exit("FAILED")>>
\* RUNNING_WAIT if the answer is one of replies, else FAILED.
LOCAL PollIf(replies) == <<OnElse(replies, <<Put("RUNNING_WAIT")>>, <<Put("FAILED")>>), Commit>>

----------------------------------------------------------------------------
\* Groups.  A group whose deletion is asked for and that is still healthy is
\* polled on.

create_instance_group ==
  <<Running, Region, Refs, Call("create", Fails),
    OnElse({"pending", "stable"}, <<Note, Put("RUNNING_WAIT")>>, <<Put("FAILED")>>),
    Commit>>

create_wait_instance_group ==
  <<Running, Region, Recall, Call("get", Fails),
    On({"stable"}, <<Call("other", Fails), Each(<<Call("other", Fails)>>)>>),
    OnElse({"stable"},
      <<Needs({"resourceGroup", "region", "vpcNetwork", "instanceTemplate"}),
        Each(<<Needs({"subnet"})>>), Each(<<Uses({"zone"})>>), Save, Commit,
        Put("SUCCESSFUL"), Point>>,
      <<OnElse({"pending"}, <<Put("RUNNING_WAIT")>>, <<Put("FAILED")>>)>>),
    Commit>>

delete_instance_group ==
  <<Running, Own(Fails), Call("delete", DropOrFail), Call("get", DropOrFail)>>
    \o PollIf({"pending", "stable", "deleting"})

delete_wait_instance_group ==
  <<Running, Own(Succeeds), Call("get", DropOrFail)>>
    \o PollIf({"pending", "stable", "deleting"})

----------------------------------------------------------------------------
\* Managers and their policies

create_instance_group_manager ==
  <<Running, Needs({"instanceGroup"}), Refs, Call("create", Fails),
    Needs({"cloud", "instanceGroup"}), Save, Put("SUCCESSFUL"), Point, Commit>>

\* Both calls succeeding, the resource still exists: the function returns and the
\* task stays RUNNING.
delete_instance_group_manager ==
  <<Running, Own(Fails), Call("delete", DropOrFail), Call("get", DropOrFail)>>

update_instance_group_manager ==
  <<Running, Own(Fails), Call("act", Fails), Needs({"cloud"}), Own(Fails),
    Exit("SUCCESSFUL")>>

create_instance_group_manager_policy ==
  <<Running, Needs({"instanceGroup"}), Uses({"autoscale manager"}), Refs,
    Call("create", Fails), Needs({"instanceGroup"}), Save, Commit, Put("SUCCESSFUL"),
    Point, Commit>>

delete_instance_group_manager_policy ==
  <<Running, Own(Fails), Call("delete", DropOrFail), Call("get", DropOrFail)>>

----------------------------------------------------------------------------
\* Actions

create_instance_group_manager_action ==
  <<Running, Needs({"instanceGroup", "instanceGroupManager"}),
    When("autoscale manager", <<Needs({"instanceGroupManager"})>>), Refs,
    Call("create", Fails),
    OnElse({"stable"}, <<Note, Put("RUNNING_WAIT")>>, <<Put("FAILED")>>), Commit>>

create_wait_instance_group_manager_action ==
  <<Running, Needs({"instanceGroup", "instanceGroupManager"}), Recall, Call("get", Fails),
    OnElse({"stable"},
      <<Needs({"instanceGroup", "instanceGroupManager"}), Save, Commit,
        Put("SUCCESSFUL"), Point>>,
      <<Put("FAILED")>>),
    Commit>>

delete_instance_group_manager_action ==
  <<Running, Own(Fails), Call("delete", DropOrFail), Call("get", DropOrFail)>>
    \o PollIf({"stable"})

delete_wait_instance_group_manager_action ==
  <<Running, Own(Succeeds), Call("get", DropOrFail)>> \o PollIf({"stable"})

----------------------------------------------------------------------------
\* Memberships, one and all of a group.  All of them go by an update of the
\* group's count; a group that is gone took its memberships along.

LOCAL GroupGone == <<IfGone(Succeeds), Exit("FAILED")>>

delete_all_instance_group_memberships ==
  <<Running, Own(Fails), When("autoscale manager", <<Call("other", GroupGone)>>),
    Call("act", GroupGone), Call("get", GroupGone), On({"pending", "deleting"}, Waits),
    OnElse({"stable"}, <<Put("SUCCESSFUL")>>, <<Put("FAILED")>>), Commit>>

\* The status of the group's balancer is read whether there is one or not.
delete_wait_all_instance_group_memberships ==
  <<Running, Own(Fails), Call("get", GroupGone),
    When("load balancer", <<Call("other", GroupGone)>>), Uses({"load balancer"}),
    On({"pending", "deleting"}, Waits), When("load balancer pending", Waits),
    OnElse({"stable"}, <<Put("SUCCESSFUL")>>, <<Put("FAILED")>>), Commit>>

delete_instance_group_membership ==
  <<Running, Own(Fails), Call("delete", DropOrFail), Call("get", DropOrFail)>>
    \o PollIf({"pending", "stable", "deleting"})

delete_wait_instance_group_membership ==
  <<Running, Own(Fails), Call("get", DropOrFail)>>
    \o PollIf({"pending", "stable", "deleting"})
=============================================================================

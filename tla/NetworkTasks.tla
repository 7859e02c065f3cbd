---------------------------- MODULE NetworkTasks ----------------------------
(***************************************************************************)
(* The tasks on VPCs and what they contain: src/ibm/tasks/ibm/vpc_tasks,   *)
(* network_acl_tasks, subnet_tasks, public_gateway_tasks,                  *)
(* floating_ip_tasks, endpoint_gateways_tasks, address_prefix_tasks,       *)
(* routing_table_tasks and security_group_tasks.                           *)
(***************************************************************************)
EXTENDS Sequences, TaskScript

----------------------------------------------------------------------------
\* VPCs

create_vpc_network ==
  <<Running, Region, Refs, Call("create", Fails),
    OnElse({"pending", "stable"}, <<Note, Put("RUNNING_WAIT")>>, <<Put("FAILED")>>),
    Commit>>

\* A stable VPC is read with its default ACL, security group and routing table.
create_wait_vpc_network ==
  <<Running, Region, Recall, Call("get", Fails),
    On({"stable"},
      <<Call("other", Fails), Call("other", Fails), Call("other", Fails),
        Call("other", Fails), Call("other", Fails)>>),
    OnElse({"stable"},
      <<Save, Uses({"region", "zones"}), Commit, Point, Put("SUCCESSFUL"), Log("ADDED")>>,
      <<OnElse({"pending"}, <<Put("RUNNING_WAIT")>>, <<Put("FAILED")>>)>>),
    Commit>>

delete_vpc ==
  <<Running, Own(Fails), Call("delete", GoneOr(Fails)), Call("get", GoneOr(Fails)),
    On({"pending", "stable", "failed"}, Fails), Exit("RUNNING_WAIT")>>

delete_wait_vpc ==
  <<Running, Own(Fails), Call("get", GoneOr(Fails)),
    On({"pending", "stable", "failed"}, Fails), Exit("RUNNING_WAIT")>>

----------------------------------------------------------------------------
\* Network ACLs.  A created ACL whose parents are unknown is FAILED, and the
\* function goes on.

create_network_acl ==
  <<Running, Region, Refs, Call("create", Fails),
    Needs({"region"}), Missing({"vpcNetwork", "resourceGroup"}, <<Put("FAILED"), Commit>>),
    Save, Commit, Put("SUCCESSFUL"), Log("ADDED"), Point, Commit>>

create_network_acl_rule ==
  <<Running, Needs({"networkAcl"}), Refs, Call("create", Fails), Needs({"networkAcl"}),
    Save, Commit, Put("SUCCESSFUL"), Log("ADDED"), Point, Commit>>

\* The attributes of the row are read after it may have been found missing.
LOCAL DropOrRaise ==
  <<Own(<<Raise>>), Drop, Put("SUCCESSFUL"), Point, Log("DELETED"), Commit>>

delete_network_acl ==
  <<Running, Own(Fails),
    Call("delete", <<IfGone(DropOrRaise \o <<Return>>), Exit("FAILED")>>)>> \o DropOrRaise

delete_network_acl_rule ==
  <<Running, Own(Fails),
    Call("delete", <<IfGone(DropOrRaise \o <<Return>>), Exit("FAILED")>>)>> \o DropOrRaise

----------------------------------------------------------------------------
\* Subnets

create_subnet ==
  <<Running, Region, Refs, Call("create", Fails), On({"failed"}, Fails), Note,
    Exit("RUNNING_WAIT")>>

\* Mutant: a failed subnet is polled on.
create_wait_subnet_patient ==
  <<Running, Region, Recall, Call("get", Fails), On({"failed"}, Waits),
    On({"pending"}, Waits), Needs({"resourceGroup", "vpcNetwork", "zone"}), Save,
    Log("ADDED"), Commit,
    Point, Exit("SUCCESSFUL")>>

create_wait_subnet ==
  <<Running, Region, Recall, Call("get", Fails), On({"failed"}, Fails),
    On({"pending"}, Waits), Needs({"resourceGroup", "vpcNetwork", "zone"}), Save,
    Log("ADDED"), Commit, Point, Exit("SUCCESSFUL")>>

\* The log names the last subnet the ACL is attached to: with none it raises.
attach_network_acl_to_subnet ==
  <<Running, Own(Fails), Needs({"vpcNetwork", "networkAcl"}), Request("act", Fails),
    Needs({"networkAcl"}),
    Each(<<Own(Fails), When("already attached", <<Continue>>), Commit>>),
    Uses({"an attached subnet"}), Log("ADDED"), Exit("SUCCESSFUL")>>

delete_subnet ==
  <<Running, Own(Fails), Call("delete", GoneOr(Fails)), Call("get", GoneOr(Fails)),
    OnElse({"pending", "deleting"}, <<Put("RUNNING_WAIT")>>, <<Put("FAILED")>>), Commit>>

delete_wait_subnet ==
  <<Running, Own(Succeeds), Call("get", GoneOr(Fails)),
    OnElse({"pending", "deleting"}, <<Put("RUNNING_WAIT")>>, <<Put("FAILED")>>), Commit>>

\* A failed attachment returns with FAILED uncommitted.
attach_public_gateway_to_subnet ==
  <<Running, Own(Fails), Needs({"vpcNetwork", "publicGateway"}), Call("act", Fails),
    On({"failed"}, <<Put("FAILED"), Return>>), Note, Exit("RUNNING_WAIT")>>

attach_wait_public_gateway_to_subnet ==
  <<Running, Own(Fails), Region, Call("get", Fails), On({"failed"}, Fails),
    On({"pending"}, Waits), Needs({"publicGateway"}), Own(Fails), Exit("SUCCESSFUL")>>

detach_public_gateway_from_subnet ==
  <<Running, Region, Own(Fails), Call("act", <<IfGone(Succeeds), Exit("FAILED")>>),
    Own(Fails), Point, Exit("SUCCESSFUL")>>

attach_routing_table_to_subnet ==
  <<Running, Own(Fails), Needs({"vpcNetwork", "routingTable"}), Request("act", Fails),
    On({"failed"}, <<Put("FAILED"), Return>>), Note, Exit("RUNNING_WAIT")>>

attach_wait_routing_table_to_subnet ==
  <<Running, Own(Fails), Region, Call("get", Fails), On({"pending"}, Waits),
    On({"failed"}, Fails), Needs({"routingTable"}), Own(Fails), Exit("SUCCESSFUL")>>

reserve_ip_for_subnet ==
  <<Running, Region, Refs, Needs({"subnet"}), Call("create", Fails), Needs({"subnet"}),
    Save, Commit, Exit("SUCCESSFUL")>>

release_reserved_ip_for_subnet ==
  <<Running, Own(Fails),
    Call("delete", <<IfGone(<<IfOwn(<<Drop>>), Exit("SUCCESSFUL")>>), Exit("FAILED")>>),
    IfOwn(<<Drop>>), Exit("SUCCESSFUL")>>

----------------------------------------------------------------------------
\* Public gateways

create_public_gateway ==
  <<Running, Region, Refs, Call("create", Fails), On({"failed"}, Fails), Note,
    Exit("RUNNING_WAIT")>>

create_wait_public_gateway ==
  <<Running, Region, Recall, Call("get", Fails), On({"stable"}, <<Call("other", Fails)>>),
    On({"failed"}, Fails), On({"pending"}, Waits),
    Missing({"floatingIP"}, <<Missing({"resourceGroup"}, <<Uses({"zone"})>>)>>),
    Save, Uses({"zone"}), Commit, Log("ADDED"), Point, Exit("SUCCESSFUL")>>

delete_public_gateway ==
  <<Running, Own(Fails), Call("delete", GoneOr(Fails)), Call("get", GoneOr(Fails)),
    On({"pending", "stable", "failed"}, Fails), Exit("RUNNING_WAIT")>>

delete_wait_public_gateway ==
  <<Running, Own(Fails), Call("get", GoneOr(Fails)),
    On({"pending", "stable", "failed"}, Fails), Exit("RUNNING_WAIT")>>

----------------------------------------------------------------------------
\* Floating IPs

create_floating_ip ==
  <<Running, Region, Refs, Call("create", Fails),
    OnElse({"pending", "stable"}, <<Note, Put("RUNNING_WAIT")>>, <<Put("FAILED")>>),
    Commit>>

\* A public gateway as target is set on the answer, a dict: it raises.
create_wait_floating_ip ==
  <<Running,
    Either("zone given", <<Needs({"zone", "zone available"})>>,
      <<When("region given", <<Needs({"region"})>>)>>),
    Recall, Call("get", Fails), On({"failed"}, Fails), On({"pending"}, Waits),
    When("target", <<Needs({"target"})>>), Needs({"resourceGroup", "zone"}), Save,
    Uses({"target is no public gateway"}), Commit, Put("SUCCESSFUL"), Log("ADDED"),
    Commit>>

delete_floating_ip ==
  <<Running, Own(Fails), Call("delete", GoneOr(Fails)), Call("get", GoneOr(Fails)),
    On({"pending", "stable", "failed"}, Fails), Exit("RUNNING_WAIT")>>

LOCAL LostOrRaise ==
  <<IfGone(<<Own(<<Raise>>), Drop, Log("DELETED"), Exit("SUCCESSFUL")>>), Exit("FAILED")>>

delete_wait_floating_ip ==
  <<Running, Own(Fails), Call("get", LostOrRaise),
    On({"pending", "stable", "failed"}, Fails), Exit("RUNNING_WAIT")>>

----------------------------------------------------------------------------
\* Endpoint gateways

create_endpoint_gateway ==
  <<Running, Region, Refs, Each(<<Refs>>), Call("create", Fails),
    OnElse({"pending"}, <<Note, Put("RUNNING_WAIT")>>, <<Put("FAILED")>>), Commit>>

create_wait_endpoint_gateway ==
  <<Running, Region, Recall, Call("get", Fails), On({"failed"}, Fails),
    On({"pending"}, Waits), Each(<<Needs({"securityGroup"})>>),
    Each(<<Needs({"subnet"})>>), Needs({"resourceGroup", "region", "vpcNetwork"}), Save,
    Log("ADDED"), Commit, Exit("SUCCESSFUL")>>

delete_endpoint_gateway ==
  <<Running, Own(Fails), Call("delete", LostOrRaise), Call("get", LostOrRaise),
    On({"stable", "failed"}, Fails), Exit("RUNNING_WAIT")>>

delete_wait_endpoint_gateway ==
  <<Running, Own(Fails), Call("get", LostOrRaise), Own(Fails),
    On({"stable", "failed"}, Fails), Put("RUNNING_WAIT"), Log("DELETED"), Commit>>

sync_endpoint_gateway_targets ==
  <<Running, Needs({"cloud"}), Request("other", Fails), Request("other", Fails),
    Exit("SUCCESSFUL")>>

----------------------------------------------------------------------------
\* Address prefixes

create_address_prefix ==
  <<Running, Region, Refs, Call("create", Fails), Uses({"vpcNetwork", "zone"}), Save,
    Log("ADDED"), Commit, Point, Exit("SUCCESSFUL")>>

delete_address_prefix ==
  <<Running, Own(Fails), Call("delete", GoneOr(Fails)), Own(<<Raise>>), Drop,
    Log("DELETED"), Exit("SUCCESSFUL")>>

----------------------------------------------------------------------------
\* Routing tables.  The routes come from a list; a route that is not stable
\* ends the poll.

create_routing_table ==
  <<Running, Region, Refs, Each(<<Refs>>), Call("create", Fails),
    OnElse({"pending", "stable"}, <<Note, Put("RUNNING_WAIT")>>, <<Put("FAILED")>>),
    Commit>>

LOCAL ReadRoutingTable ==
  <<Running, Region, Refs, Recall, Call("get", Fails),
    On({"stable"}, <<Call("other", Fails)>>)>>
LOCAL RecordRoutingTable ==
  <<Region, Needs({"vpcNetwork"}),
    OnElse({"stable"},
      <<Each(<<When("route pending", Waits), Check("route stable")>>),
        Save, Each(<<Needs({"zone"})>>), Point, Log("ADDED"), Put("SUCCESSFUL"), Commit>>,
      <<OnElse({"pending"}, <<Put("RUNNING_WAIT")>>, <<Put("FAILED")>>)>>),
    Commit>>
create_wait_routing_table == ReadRoutingTable \o RecordRoutingTable

delete_routing_table ==
  <<Running, Own(Fails), Call("delete", GoneOr(Fails)), Call("get", GoneOr(Fails)),
    On({"stable", "failed"}, Fails), Exit("RUNNING_WAIT")>>

delete_wait_routing_table ==
  <<Running, Own(Succeeds), Call("get", GoneOr(Fails)), On({"stable", "failed"}, Fails),
    Exit("RUNNING_WAIT")>>

----------------------------------------------------------------------------
\* Security groups.  A target of a created group is looked up as an interface
\* or as a load balancer, and both are then read: one of them is unbound in
\* the first round, and one of them None.

create_security_group ==
  <<Running, Region, Refs, Each(<<Refs>>), Call("create", Fails), Note,
    Needs({"resourceGroup", "vpcNetwork", "region"}), Save,
    Each(<<Uses({"both targets bound"}), Needs({"both targets"})>>), Commit, Point,
    Log("ADDED"), Exit("SUCCESSFUL")>>

create_security_group_rule ==
  <<Running, Needs({"securityGroup"}), Refs, Call("create", Fails), Note,
    Needs({"securityGroup"}), Save, Commit, Put("SUCCESSFUL"), Point, Commit>>

attach_target_to_security_group ==
  <<Running, Region, Own(Fails), Needs({"target", "target in the VPC"}),
    Call("act", Fails), Needs({"target"}), Own(Fails), Commit, Point,
    Exit("SUCCESSFUL")>>

\* The group is looked up by the row found before, which is no mapping: the
\* last session raises whatever it finds.
detach_target_to_security_group ==
  <<Running, Region, Own(<<Raise>>), Needs({"target", "target in the VPC"}),
    Call("act", Fails), Raise>>

delete_security_group ==
  <<Running, Own(Fails), Call("delete", GoneOr(Fails)), IfOwn(<<Drop>>),
    Exit("SUCCESSFUL")>>

delete_security_group_rule ==
  <<Running, Own(Fails), Call("delete", GoneOr(Fails)), IfOwn(<<Drop>>),
    Exit("SUCCESSFUL")>>
=============================================================================

---------------------------- MODULE GatewayTasks ----------------------------
(***************************************************************************)
(* The tasks on VPN gateways and transit gateways:                         *)
(* src/ibm/tasks/ibm/ike_policy_tasks, ipsec_policy_tasks, vpns_tasks and  *)
(* transit_gateways_tasks.                                                 *)
(***************************************************************************)
EXTENDS Sequences, TaskScript

----------------------------------------------------------------------------
\* IKE and IPsec policies.  A policy whose parents are unknown is FAILED, and
\* the function goes on.

create_ike_policy ==
  <<Running, Region, Refs, Call("create", Fails),
    Missing({"region", "resourceGroup"}, <<Put("FAILED"), Commit>>), Save, Commit,
    Log("ADDED"), Put("SUCCESSFUL"), Point, Commit>>

\* The row is read again after it was deleted, or found missing.
LOCAL DropPolicy ==
  <<Own(<<Raise>>), Drop, Put("SUCCESSFUL"), Point, Log("DELETED"), Commit, Return>>

delete_ike_policy ==
  <<Running, Own(Fails), Call("delete", <<IfGone(DropPolicy), Exit("FAILED")>>)>>
    \o DropPolicy

create_ipsec_policy ==
  <<Running, Region, Refs, Call("create", Fails),
    Missing({"region", "resourceGroup"}, <<Put("FAILED"), Commit>>), Save, Commit,
    Put("SUCCESSFUL"), Log("ADDED"), Point, Commit>>

\* A refused deletion sets FAILED and does not return: the row goes all the same,
\* in a session of its own.
delete_ipsec_policy ==
  <<Running, Own(Fails),
    Call("delete", <<IfGone(DropPolicy), Put("FAILED"), Commit, Close>>)>>
    \o DropPolicy

----------------------------------------------------------------------------
\* VPN gateways and their connections

create_vpn_gateway ==
  <<Running, Region, Refs, Call("create", Fails),
    OnElse({"pending", "stable"}, <<Note, Put("RUNNING_WAIT")>>, <<Put("FAILED")>>),
    Commit>>

\* Discovery may have recorded the gateway before this poll sees it stable.
create_wait_vpn_gateway ==
  <<Running, Region, Recall, Call("get", Fails), On({"failed"}, Fails),
    On({"pending"}, Waits), Uses({"subnet"}), IfOwn(<<Point, Exit("SUCCESSFUL")>>),
    Missing({"resourceGroup", "region", "vpcNetwork"}, <<Put("FAILED"), Commit>>),
    Save, Commit, Log("ADDED"), Put("SUCCESSFUL"), Point, Commit>>

create_vpn_connection ==
  <<Running, Needs({"vpnGateway"}), Refs, Call("create", Fails), Note,
    Needs({"vpnGateway"}), Save, Commit, Log("ADDED"), Put("SUCCESSFUL"), Point, Commit>>

delete_vpn_gateway ==
  <<Running, Own(Fails), Call("delete", GoneOr(Fails)), Call("get", GoneOr(Fails)),
    On({"pending", "stable", "failed"}, Fails), Exit("RUNNING_WAIT")>>

delete_wait_vpn_gateway ==
  <<Running, Own(Succeeds), Call("get", GoneOr(Fails)),
    On({"pending", "stable", "failed"}, Fails), Exit("RUNNING_WAIT")>>

\* The handler sets the status of a task whose session is closed: only the row
\* and its log are committed.
LOCAL Unsaved == <<IfGone(<<Forget>>), Commit, Return>>

delete_vpn_connection ==
  <<Running, Own(Fails), Call("delete", Unsaved), Call("get", Unsaved),
    Exit("RUNNING_WAIT")>>

delete_wait_vpn_connection ==
  <<Running, Own(Fails), Call("get", GoneOr(Fails)), Exit("RUNNING_WAIT")>>

----------------------------------------------------------------------------
\* Transit gateways, their connections, prefix filters and route reports.  The
\* row of a deletion is looked up twice, by the task and by its metadata.

create_transit_gateway ==
  <<Running, Region, Refs, Call("create", Fails),
    OnElse({"failed"}, <<Put("FAILED")>>, <<Note, Put("RUNNING_WAIT")>>), Commit>>

create_wait_transit_gateway ==
  <<Running, Region, Recall, Call("get", Fails), On({"failed"}, Fails),
    On({"pending"}, Waits), Needs({"resourceGroup", "region"}), Save, Log("ADDED"),
    Put("SUCCESSFUL"), Point, Commit>>

delete_transit_gateway ==
  <<Running, Own(Fails), Call("delete", GoneOr(Fails)), Exit("RUNNING_WAIT")>>

\* Without the row, the message of the last session is unbound.
delete_wait_transit_gateway ==
  <<Running, Own(Fails), Call("get", GoneOr(Fails)), Own(<<Raise>>),
    On({"deleting"}, <<Commit>>), Exit("RUNNING_WAIT")>>

\* An unknown gateway ends the function with no status: the task stays RUNNING.
LOCAL TransitGateway == Missing({"transitGateway"}, <<Commit, Return>>)

create_transit_gateway_connection ==
  <<Running, When("VPC connection", <<Needs({"vpcNetwork"})>>), TransitGateway, Refs,
    Call("create", Fails),
    OnElse({"failed"}, <<Put("FAILED")>>, <<Note, Put("RUNNING_WAIT")>>), Commit>>

create_wait_transit_gateway_connection ==
  <<Running, When("VPC connection", <<Uses({"vpcNetwork"})>>), TransitGateway, Recall,
    Call("get", Fails), On({"failed"}, Fails), On({"pending"}, Waits),
    When("VPC connection", <<Needs({"vpcNetwork"})>>), Uses({"transitGateway"}), Save,
    Log("ADDED"), Put("SUCCESSFUL"), Point, Commit>>

delete_transit_gateway_connection ==
  <<Running, Own(Fails), Call("delete", GoneOr(Fails)), Exit("RUNNING_WAIT")>>

\* Here it is not read, and the task stays RUNNING.
delete_wait_transit_gateway_connection ==
  <<Running, Own(Fails), Call("get", GoneOr(Fails)), Own(<<Return>>),
    On({"deleting"}, <<Commit>>), Exit("RUNNING_WAIT")>>

create_transit_gateway_connection_prefix_filter ==
  <<Running, TransitGateway, Missing({"transitGatewayConnection"}, <<Commit, Return>>),
    Refs, Call("create", Fails), Uses({"transitGatewayConnection"}), Save, Commit,
    Log("ADDED"), Put("SUCCESSFUL"), Point, Commit>>

LOCAL DropOrRaise == <<Own(<<Raise>>), Log("DELETED"), Drop, Exit("SUCCESSFUL")>>

delete_transit_gateway_connection_prefix_filter ==
  <<Running, Own(Fails), Call("delete", <<IfGone(DropOrRaise), Exit("FAILED")>>)>>
    \o DropOrRaise

\* A report that is not pending leaves the task RUNNING.
create_transit_gateway_route_report ==
  <<Running, Needs({"transitGateway"}), Refs, Call("create", Fails),
    On({"pending"}, <<Note, Put("RUNNING_WAIT")>>), Commit>>

create_wait_transit_gateway_route_report ==
  <<Running, Needs({"transitGateway"}), Recall, Call("get", Fails),
    On({"pending"}, Waits), Uses({"transitGateway"}), Save, Log("ADDED"),
    Put("SUCCESSFUL"), Point, Commit>>

\* The deletion that succeeds writes no log.
delete_transit_gateway_route_report ==
  <<Running, Own(Fails), Call("delete", <<IfGone(DropOrRaise), Exit("FAILED")>>),
    Own(<<Raise>>), Drop, Exit("SUCCESSFUL")>>
=============================================================================

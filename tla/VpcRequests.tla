----------------------------- MODULE VpcRequests -----------------------------
(***************************************************************************)
(* The requests of the web API on VPCs and what they contain:              *)
(* src/ibm/web/ibm/vpcs, subnets, acls, security_groups, address_prefixes, *)
(* public_gateways, floating_ips, endpoint_gateways, routing_tables,       *)
(* load_balancers, vpn_gateways and transit_gateways.                      *)
(***************************************************************************)
EXTENDS Sequences, RequestScript

LOCAL Row == Check("row")
LOCAL Allowed == Check("allowed")

----------------------------------------------------------------------------
\* VPCs, address prefixes

create_vpc == Located \o Creation("IBMVpcNetwork")
delete_vpc == Row \o compose_ibm_vpc_deletion_workflow

\* Instances the action applies to, of VPCs found by id or by tag, then by their own id.
update_vpc_action ==
  Cloud \o Each(Row) \o Each(Check("tag") \o Row) \o Root("workflow_root")
    \o Either("stop", Each(First("instance_state_task", <<"STOP", "IBMInstance">>)),
                      Each(First("instance_state_task", <<"START", "IBMInstance">>)))
    \o Save

create_ibm_vpc_address_prefix == Located \o Creation("IBMAddressPrefix")
delete_ibm_vpc_address_prefix == Row \o Allowed \o Deletion("IBMAddressPrefix")

----------------------------------------------------------------------------
\* Subnets

create_ibm_subnet == Located \o Creation("IBMSubnet")
delete_ibm_subnet == Row \o Deletion("IBMSubnet")

update_ibm_subnet_with_acl ==
  Cloud \o Row \o Root("workflow_root")
    \o First("workflow_task", <<"ATTACH", "IBMSubnet-IBMNetworkAcl">>) \o Save

attach_ibm_subnet_target ==
  Row \o Allowed \o Cloud \o Check("target") \o Attachment("IBMSubnet-IBMPublicGateway")
detach_ibm_subnet_target == Row \o Allowed \o Cloud \o Detachment("IBMSubnet")
attach_routing_table_to_subnet ==
  Row \o Allowed \o Cloud \o Check("target") \o Attachment("IBMSubnet-IBMRoutingTable")

reserve_ip_for_subnet == Located \o Creation("IBMSubnetReservedIp")
release_reserved_ip_for_subnet == Row \o Cloud \o Deletion("IBMSubnetReservedIp")

----------------------------------------------------------------------------
\* Network ACLs

\* The subnets are looked up, and the attachments added, once the creation has
\* been committed.
create_ibm_acl ==
  Located \o Creation("IBMNetworkAcl")
    \o Each(Check("subnet")
              \o After("creation_task", "attachment_task",
                       <<"ATTACH", "IBMSubnet-IBMNetworkAcl">>))
    \o Commit
delete_ibm_acl == Row \o Deletion("IBMNetworkAcl")

create_ibm_acl_rule == Cloud \o References \o Creation("IBMNetworkAclRule")
delete_ibm_acl_rule == Row \o Cloud \o Deletion("IBMNetworkAclRule")

----------------------------------------------------------------------------
\* Security groups

\* An attachment is added and committed for each target that is found, after the
\* creation has been committed.
create_ibm_security_group ==
  LET Attach == Each(When("found",
                   After("creation_task", "attachment_task", <<"ATTACH", "IBMSecurityGroup">>)
                     \o Commit))
  IN  Located \o Creation("IBMSecurityGroup") \o Attach \o Attach \o Attach
delete_ibm_security_group == Row \o Allowed \o Allowed \o Deletion("IBMSecurityGroup")

create_ibm_security_group_rule == Cloud \o References \o Creation("IBMSecurityGroupRule")
delete_ibm_security_group_rule == Row \o Cloud \o Deletion("IBMSecurityGroupRule")

\* A target of another type: workflow_root is read unbound.
attach_ibm_security_group_target ==
  Row \o Cloud
    \o Either("known target", Check("target") \o Attachment("IBMSecurityGroup"), Raise)
remove_ibm_security_group_target ==
  Row \o Cloud
    \o Either("known target", Check("target") \o Detachment("IBMSecurityGroup"), Raise)

----------------------------------------------------------------------------
\* Gateways, addresses, routes

create_ibm_public_gateway == Located \o Creation("IBMPublicGateway")
delete_ibm_public_gateway == Row \o Allowed \o Deletion("IBMPublicGateway")

create_ibm_floating_ips == Located \o Creation("IBMFloatingIP")
delete_ibm_floating_ip == Row \o Allowed \o Deletion("IBMFloatingIP")

create_ibm_endpoint_gateways == Located \o Creation("IBMEndpointGateway")
delete_ibm_endpoint_gateway == Row \o Cloud \o Deletion("IBMEndpointGateway")
sync_ibm_endpoint_gateway_targets == Cloud \o Sync("IBMEndpointGateway")

create_ibm_routing_table == Located \o Each(NestedReferences) \o Creation("IBMRoutingTable")
delete_ibm_routing_table == Row \o Deletion("IBMRoutingTable")

----------------------------------------------------------------------------
\* Load balancers

create_load_balancer == Located \o Creation("IBMLoadBalancer")
delete_load_balancer == Row \o Deletion("IBMLoadBalancer")
\* A synchronisation of the same region that has not ended is answered instead.
sync_load_balancer_profiles == Cloud \o Answers("running") \o Sync("IBMLoadBalancerProfile")

create_load_balancer_listener ==
  Cloud \o Region \o Row \o References \o Creation("IBMListener")
delete_load_balancer_listener == Row \o Cloud \o Deletion("IBMListener")

create_load_balancer_listener_policy ==
  Cloud \o Region \o Row \o References \o Each(NestedReferences) \o Creation("IBMListenerPolicy")
delete_load_balancer_listener_policy == Row \o Cloud \o Deletion("IBMListenerPolicy")

create_load_balancer_listener_policy_rule ==
  Cloud \o Region \o Row \o References \o Creation("IBMListenerPolicyRule")
delete_load_balancer_listener_policy_rule == Row \o Cloud \o Deletion("IBMListenerPolicyRule")

create_load_balancer_pool ==
  Cloud \o Region \o Row \o Allowed \o References \o Creation("IBMPool")
delete_load_balancer_pool == Row \o Cloud \o Deletion("IBMPool")

create_load_balancer_pool_member ==
  Cloud \o Row \o When("known target", Check("target") \o Allowed)
    \o References \o Creation("IBMPoolMember")
delete_load_balancer_pool_member == Row \o Cloud \o Deletion("IBMPoolMember")

----------------------------------------------------------------------------
\* VPN gateways

\* The composition has added a task for each connection already.
create_ibm_vpn_gateway ==
  Located \o Creation("IBMVpnGateway")
    \o Each(After("creation_task", "conn_creation_task", <<"CREATE", "IBMVpnConnection">>)
              \o Commit)
delete_ibm_vpn_gateway == Row \o Deletion("IBMVpnGateway")

create_ibm_vpn_gateway_connection ==
  Cloud \o Row \o References \o Creation("IBMVpnConnection")
delete_ibm_vpn_gateway_connection == Row \o Cloud \o Deletion("IBMVpnConnection")

create_ibm_ike_policy == Located \o Creation("IBMIKEPolicy")
delete_ibm_ike_policy == Row \o Deletion("IBMIKEPolicy")
create_ibm_ipsec_policy == Located \o Creation("IBMIPSecPolicy")
delete_ibm_ipsec_policy == Row \o Deletion("IBMIPSecPolicy")

----------------------------------------------------------------------------
\* Transit gateways

\* A prefix filter follows the gateway and the connection it filters, whose task
\* is looked up by the identifier the request gives it.
create_ibm_transit_gateway_creation_workflow ==
  Root("workflow_root") \o First("tg_creation_task", <<"CREATE", "IBMTransitGateway">>)
    \o Each(After("tg_creation_task", "conn_creation_task",
                  <<"CREATE", "IBMTransitGatewayConnection">>)
              \o Each(After("tg_creation_task", "prefix_creation_task",
                            <<"CREATE", "IBMTransitGatewayConnectionPrefixFilter">>)
                        \o Link("conn_creation_task", "prefix_creation_task")))
    \o When("unknown connection", Raise)
    \o Save

create_ibm_transit_gateway_connection_creation_workflow ==
  Root("workflow_root")
    \o First("conn_creation_task", <<"CREATE", "IBMTransitGatewayConnection">>)
    \o Each(After("conn_creation_task", "prefix_creation_task",
                  <<"CREATE", "IBMTransitGatewayConnectionPrefixFilter">>))
    \o Save

create_ibm_transit_gateway ==
  Cloud \o References \o Each(Row) \o create_ibm_transit_gateway_creation_workflow
delete_ibm_transit_gateway == Row \o compose_ibm_transit_gateway_deletion_workflow

create_transit_gateway_connection ==
  Row \o When("vpc", Row) \o Cloud \o References
    \o create_ibm_transit_gateway_connection_creation_workflow
delete_ibm_transit_gateway_connection == Row \o Deletion("IBMTransitGatewayConnection")

create_ibm_transit_gateway_connection_prefix_filter ==
  Row \o Row \o Cloud \o References \o Creation("IBMTransitGatewayConnectionPrefixFilter")
delete_ibm_transit_gateway_connection_prefix_filter ==
  Row \o Cloud \o Deletion("IBMTransitGatewayConnectionPrefixFilter")

create_transit_gateway_route_report ==
  Row \o Cloud \o References \o Creation("IBMTransitGatewayRouteReport")
delete_ibm_transit_gateway_route_report == Row \o Deletion("IBMTransitGatewayRouteReport")
=============================================================================

----------------------------- MODULE MCRequests -----------------------------
(***************************************************************************)
(* The requests of the web API and the scheduled functions for TLC, and    *)
(* the properties of Requests with the functions that do not have them:    *)
(* each set below was found by a run without it, and says what the         *)
(* functions in it do.                                                     *)
(***************************************************************************)
EXTENDS RequestFlow, WebApi, ScheduledFlows

MCTable ==
  [f \in DOMAIN Endpoints \cup DOMAIN Jobs |->
     IF f \in DOMAIN Jobs THEN Jobs[f] ELSE Endpoints[f]]
MCMapper == MAPPER

\* Five tasks; two where each is of one of seven kinds, three where a function
\* composes several workflows.
MCMaxTasks ==
  [f \in DOMAIN MCTable |->
     IF f = "delete_ibm_idle_resource" THEN 2 ELSE IF f \in DOMAIN Jobs THEN 3 ELSE 5]

----------------------------------------------------------------------------
\* Composes <<"DETACH", "IBMSubnet">>, which MAPPER does not have.  The backups
\* that the policy has one too many of are not deleted, nor are new ones of
\* clusters taken: MAPPER has no "DELETE_BACKUP", and no "IKS".
ComposesUnknown == {"detach_ibm_subnet_target", "task_run_disaster_recovery_backups"}

\* Adds to a root that has been committed, and may be done: what is added then
\* never runs.  The last also gives its parent to a callback it has committed
\* on hold, and composes one callback for all of its snapshots.
ComposesLate == {
  "sync_cloud_object_storage", "create_ibm_acl", "create_ibm_vpn_gateway",
  "create_ibm_security_group", "create_ibm_instance_group", "delete_ibm_idle_resource",
  "create_draas_backup"}

\* Checks what it was given, or fails, after it has committed something.
ChecksLate == {
  "update_softlayer_account", "create_ibm_acl", "delete_ibm_idle_resource", "delete_vpc",
  "create_draas_backup", "run_vpc_expiry_manager", "task_run_disaster_recovery_backups"}

\* Containers, whose deletion waits for that of their contents.
Containers == {<<"DELETE", "IBMVpcNetwork">>, <<"DELETE", "IBMTransitGateway">>,
               <<"DELETE", "IBMInstanceGroup">>}

\* Nobody else does any of this, on any path, and containers come last in their
\* roots: what the proofs take from the table.
ASSUME FlowsAssumption ==
  \A r \in DOMAIN Table :
    /\ Closed(r)
    /\ r \notin ComposesUnknown => KnownKinds(r)
    /\ r \notin ChecksLate => ChecksFirst(r)
    /\ r \notin ComposesLate => ComposesWhole(r)
    /\ Without(r, Containers) \/ (r \notin ComposesLate /\ EndsIn(r, Containers))

\* The second is what the first works on, or must be out of its way.
Dependencies == {
  <<<<"UPDATE", "IBMInstance">>, <<"STOP", "IBMInstance">>>>,
  <<<<"START", "IBMInstance">>, <<"UPDATE", "IBMInstance">>>>,
  <<<<"CREATE", "IBMInstance">>, <<"CREATE", "IBMImage">>>>,
  <<<<"CREATE", "IBMInstance">>, <<"CREATE", "IBMSecurityGroup">>>>,
  <<<<"CREATE", "IBMFloatingIP">>, <<"CREATE", "IBMInstance">>>>,
  <<<<"CREATE", "IBMImage">>, <<"EXPORT", "IBMInstance">>>>,
  <<<<"CREATE", "IBMTransitGatewayConnection">>, <<"CREATE", "IBMTransitGateway">>>>,
  <<<<"CREATE", "IBMTransitGatewayConnectionPrefixFilter">>, <<"CREATE", "IBMTransitGateway">>>>,
  <<<<"CREATE", "IBMVpnConnection">>, <<"CREATE", "IBMVpnGateway">>>>,
  <<<<"RESTORE", "IBMKubernetesCluster">>, <<"BACKUP", "IBMKubernetesCluster">>>>,
  <<<<"RESTORE", "IBMKubernetesCluster">>, <<"CREATE", "IBMKubernetesCluster">>>>,
  <<<<"SYNC", "IBMKubernetesCluster_workloads">>, <<"RESTORE", "IBMKubernetesCluster">>>>,
  <<<<"BACKUP", "DisasterRecoveryResourceBlueprint">>, <<"BACKUP", "IBMKubernetesCluster">>>>,
  <<<<"SYNC", "IBMLoadBalancerProfile">>, <<"UPDATE", "GEOGRAPHY">>>>,
  <<<<"UPDATE", "GEOGRAPHY">>, <<"VALIDATE", "IBMCloud">>>>,
  <<<<"CREATE", "SoftLayerRecommendation">>, <<"SYNC", "SoftLayerVirtualGuest">>>>,
  <<<<"CREATE", "SoftLayerRecommendation">>, <<"SYNC", "SoftLayerNetworkGateway">>>>,
  <<<<"CREATE", "IBMTag">>, <<"DELETE", "IBMTag">>>>}

----------------------------------------------------------------------------
\* Every task of a workflow is one the workers know.
TasksAreKnown ==
  request \notin ComposesUnknown => \A t \in DOMAIN db.tasks : db.tasks[t].kind \in Mapper

\* A workflow reported successful has run all that was composed of it, and its callbacks
\* are due.
SuccessRunsAll == Idle /\ request \notin ComposesLate => AllRan

\* A request that is refused, or fails, leaves nothing behind.
RefusedLeavesNothing ==
  answer \in {"refused", "error"} /\ request \notin ChecksLate => NothingDone

\* A container is deleted when its contents have been.
DeletedLast == [][AfterAllElse(Containers)]_vars

\* A task starts when what it depends on is done.
InputsAreReady == [][InOrder(Dependencies)]_vars
=============================================================================

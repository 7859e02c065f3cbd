---------------------------- MODULE RequestScript ----------------------------
(***************************************************************************)
(* The notation in which the requests of the web API are written, and the  *)
(* compositions of src/ibm/web/common/utils.py they share.                 *)
(*                                                                         *)
(* A function of src/ibm/web that serves a request checks what it was      *)
(* given, then composes a workflow: a root and a graph of tasks.  It is    *)
(* written as a SCRIPT of operations on its database session, which        *)
(* Requests runs.  A task is bound to the Python variable that holds it    *)
(* and is known by the pair <<task_type, resource_type>>.                  *)
(*                                                                         *)
(* Left out everywhere: the task's metadata, names, the JSON answered, and *)
(* the requests that only read.                                            *)
(***************************************************************************)
LOCAL INSTANCE Sequences

LOCAL Op(op, var, of, body, other) ==
  [op |-> op, var |-> var, of |-> of, body |-> body, other |-> other]

----------------------------------------------------------------------------
\* Checks.  A request that fails one is refused: abort(4xx), and the session
\* is dropped.

\* A row that is looked up, a condition on it, or data of the request.
Check(what) == <<Op("Check", "", what, <<>>, <<>>)>>
\* authorize_and_get_ibm_cloud, verify_and_get_region, verify_and_get_zone
Cloud == Check("cloud")
Region == Check("region")
Zone == Check("zone")
\* verify_references and verify_nested_references
References == Check("references")
NestedReferences == Check("nested references")
\* The checks most creations begin with.
Located == Cloud \o Region \o References
\* The request may be answered without a workflow.
Answers(what) == <<Op("Answers", "", what, <<>>, <<>>)>>
\* An exception nothing catches: the request is answered 500.
Raise == <<Op("Raise", "", "", <<>>, <<>>)>>

----------------------------------------------------------------------------
\* Composition.

\* root = WorkflowRoot(...)
Root(root) == <<Op("Root", root, "", <<>>, <<>>)>>
\* root = WorkflowRoot(..., root_type=ON_SUCCESS): it waits for its parent.
OnSuccess(root) == <<Op("OnSuccess", root, "", <<>>, <<>>)>>
\* root = WorkflowRoot(..., root_type=ON_COMPLETE), likewise
OnComplete(root) == <<Op("OnComplete", root, "", <<>>, <<>>)>>
\* parent.add_callback_root(root)
AddCallback(parent, root) == <<Op("AddCallback", root, parent, <<>>, <<>>)>>
Callback(parent, root) == OnSuccess(root) \o AddCallback(parent, root)
\* task = WorkflowTask(kind), then root.add_next_task(task),
\* first.add_next_task(task) or last.add_previous_task(task)
First(task, kind) == <<Op("First", task, kind, <<>>, <<>>)>>
After(first, task, kind) == <<Op("After", task, <<first, kind>>, <<>>, <<>>)>>
Before(last, task, kind) == <<Op("Before", task, <<last, kind>>, <<>>, <<>>)>>
\* first.add_next_task(task), for a task that has been composed before
Link(first, task) == <<Op("Link", task, first, <<>>, <<>>)>>

\* A row other than the workflow's is written.
Write == <<Op("Write", "", "", <<>>, <<>>)>>
\* db_session.add(workflow_root)
Add == <<Op("Add", "", "", <<>>, <<>>)>>
Commit == <<Op("Commit", "", "", <<>>, <<>>)>>
Save == Add \o Commit

When(what, body) == <<Op("When", "", what, body, <<>>)>>
Either(what, body, other) == <<Op("When", "", what, body, other)>>
\* A loop over items of the request, or over rows.
Each(body) == <<Op("Each", "", "", body, <<>>)>>

----------------------------------------------------------------------------
\* src/ibm/web/common/utils.py

create_ibm_resource_creation_workflow(R, validate) ==
  Root("workflow_root") \o First("creation_task", <<"CREATE", R>>)
    \o Each(After("creation_task", "tag_task", <<"CREATE", "IBMTag">>))
    \o (IF validate THEN Before("creation_task", "validation_task", <<"VALIDATE", R>>) ELSE <<>>)
    \o (IF R = "IBMVpnGateway"
        THEN Each(After("creation_task", "conn_creation_task", <<"CREATE", "IBMVpnConnection">>))
        ELSE <<>>)
    \o Save

Creation(R) == create_ibm_resource_creation_workflow(R, FALSE)

create_kubernetes_restore_workflow(R) ==
  Root("workflow_root") \o First("restore_task", <<"RESTORE", R>>) \o Save

compose_ibm_sync_resource_workflow(R) ==
  Root("workflow_root") \o First("task", <<"SYNC", R>>) \o Save

compose_ibm_resource_deletion_workflow(R) ==
  Root("workflow_root") \o First("deletion_task", <<"DELETE", R>>) \o Save

compose_ibm_resource_attachment_workflow(R) ==
  Root("workflow_root") \o First("attach_task", <<"ATTACH", R>>) \o Save

compose_ibm_resource_detachment_workflow(R) ==
  Root("workflow_root") \o First("detach_task", <<"DETACH", R>>) \o Save

\* Sync, Deletion: the names the endpoints read best with.
Sync(R) == compose_ibm_sync_resource_workflow(R)
Deletion(R) == compose_ibm_resource_deletion_workflow(R)
Attachment(R) == compose_ibm_resource_attachment_workflow(R)
Detachment(R) == compose_ibm_resource_detachment_workflow(R)

\* What several subnets share is deleted before the first of them only: the
\* dictionaries of the code skip it at the next.
compose_ibm_vpc_deletion_workflow ==
  When("workspace", Write \o Commit)
    \o Root("workflow_root") \o First("vpc_deletion_task", <<"DELETE", "IBMVpcNetwork">>)
    \o Each(
         Before("vpc_deletion_task", "subnet_deletion_task", <<"DELETE", "IBMSubnet">>)
           \o Each(When("new", Before("subnet_deletion_task", "load_balancer_deletion_task",
                                      <<"DELETE", "IBMLoadBalancer">>)))
           \o Each(When("new", Before("subnet_deletion_task", "instance_deletion_task",
                                      <<"DELETE", "IBMInstance">>)))
           \o Each(When("new", Before("subnet_deletion_task", "cluster_deletion_task",
                                      <<"DELETE", "IBMKubernetesCluster">>)))
           \o Each(Check("gateway not pending")
                     \o Before("subnet_deletion_task", "vpn_gateway_deletion_task",
                               <<"DELETE", "IBMVpnGateway">>)))
    \o Each(When("new", Before("vpc_deletion_task", "instance_deletion_task",
                               <<"DELETE", "IBMInstance">>)))
    \o Each(
         Before("vpc_deletion_task", "public_gateway_deletion_task",
                <<"DELETE", "IBMPublicGateway">>)
           \o Each(Before("public_gateway_deletion_task", "pg_subnet_detachment_task",
                          <<"DETACH", "IBMSubnet-IBMPublicGateway">>)))
    \o Save

compose_ibm_transit_gateway_deletion_workflow ==
  When("workspace", Write \o Commit)
    \o Root("workflow_root")
    \o First("transit_gateway_deletion_task", <<"DELETE", "IBMTransitGateway">>)
    \o Each(Before("transit_gateway_deletion_task", "connection_deletion_task",
                   <<"DELETE", "IBMTransitGatewayConnection">>))
    \o Save
=============================================================================

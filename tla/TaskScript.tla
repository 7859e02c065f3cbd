----------------------------- MODULE TaskScript -----------------------------
(***************************************************************************)
(* The notation in which the provider tasks are written.                   *)
(*                                                                         *)
(* A function of src/ibm/tasks/ibm is a sequence of operations on its      *)
(* database session and on the provider: a SCRIPT.  An operation is a      *)
(* record [op, arg, body, other]; "body" and "other" are the scripts of    *)
(* its branches, which ResourceTask puts in front of what remains to be    *)
(* done.  A script that is used up has returned.  The operators below only *)
(* build these records; ResourceTask says what each does.                  *)
(*                                                                         *)
(* Left out everywhere: log lines, the message column, tracking objects,   *)
(* the columns of a row other than its existence, rows of other resources  *)
(* that are written along the way.                                         *)
(***************************************************************************)
LOCAL INSTANCE Sequences

LOCAL Op(op, arg, body, other) ==
  [op |-> op, arg |-> arg, body |-> body, other |-> other]

----------------------------------------------------------------------------
\* The status column and the session.

\* The end of a "with get_db_session()" block that the next block follows
\* without a call in between: what is not committed is dropped.
Close == Op("Close", {}, <<>>, <<>>)
\* workflow_task.status = status
Put(status) == Op("Put", status, <<>>, <<>>)
\* db_session.commit()
Commit == Op("Commit", {}, <<>>, <<>>)
Return == Op("Return", {}, <<>>, <<>>)
\* Set RUNNING and commit: how a function begins.
Running == Op("Running", "RUNNING", <<>>, <<>>)
\* Set the status, commit and return.
Exit(status) == Op("Exit", status, <<>>, <<>>)
\* An exception nothing in the function catches.
Raise == Op("Raise", {}, <<>>, <<>>)

Fails    == <<Exit("FAILED")>>
Waits    == <<Exit("RUNNING_WAIT")>>
Succeeds == <<Exit("SUCCESSFUL")>>

----------------------------------------------------------------------------
\* Reads of other rows and of the task's data.  "names" says which rows.

\* Rows without which the function commits FAILED and returns.
Needs(names) == Op("Needs", names, <<>>, <<>>)
\* Rows without which the function runs "body".
Missing(names, body) == Op("Missing", names, body, <<>>)
\* Rows whose attributes are read without a check: None raises.
Uses(names) == Op("Uses", names, <<>>, <<>>)
\* The region is missing, or unavailable: FAILED in both cases.
Region == Needs({"region", "region available"})
\* The request's data is refused: FAILED.
Check(what) == Needs({what})
\* load_previous_associated_resources and update_id_or_name_references:
\* a reference that resolves to nothing raises.
Refs == Uses({"references"})
\* A condition on data the model does not hold.
When(what, body) == Op("When", {what}, body, <<>>)
Either(what, body, other) == Op("When", {what}, body, other)

----------------------------------------------------------------------------
\* The row of the task's own resource, its log, and the task's metadata.

\* The row is looked up; without it "body" runs.
Own(body) == Op("Row", {}, <<>>, body)
IfOwn(body) == Op("Row", {}, body, <<>>)
RowElse(body, other) == Op("Row", {}, body, other)
Save == Op("Save", {}, <<>>, <<>>)
Drop == Op("Drop", {}, <<>>, <<>>)
\* IBMResourceLog(status=status)
Log(status) == Op("Log", status, <<>>, <<>>)
\* task_metadata["ibm_resource_id"], written and read
Note == Op("Note", {}, <<>>, <<>>)
Recall == Op("Recall", {}, <<>>, <<>>)
\* workflow_task.resource_id = row.id
Point == Op("Point", {}, <<>>, <<>>)

\* The row is deleted with its log, if it is still there.
Forget == IfOwn(<<Log("DELETED"), Drop>>)
\* The provider does not know the resource any more.
IfGone(body) == Op("On", {"gone"}, body, <<>>)

----------------------------------------------------------------------------
\* Calls of the provider, outside a session.  "api" is create, get or delete
\* for the task's own resource, act for an operation on it and other for a
\* call about other resources.

\* The SDK client: its ApiException is caught and "body" runs; an error of the
\* connection is not caught.
Call(api, body) == Op("Call", api, body, <<Raise>>)
\* The REST client, all of whose errors are caught.
Request(api, body) == Op("Call", api, body, body)
\* No error is caught, or only an error that this client does not raise.
Bare(api) == Op("Call", api, <<Raise>>, <<Raise>>)
\* The same calls with the session held open.
CallIn(api, body) == Op("CallIn", api, body, <<Raise>>)
RequestIn(api, body) == Op("CallIn", api, body, body)
BareIn(api) == Op("CallIn", api, <<Raise>>, <<Raise>>)
\* Branches on what was answered.
On(replies, body) == Op("On", replies, body, <<>>)
OnElse(replies, body, other) == Op("On", replies, body, other)

\* A loop over the items of the request or of the answer.
Each(body) == Op("Each", {}, body, <<>>)
Continue == Op("Continue", {}, <<>>, <<>>)

\* How a deletion ends when the provider does not know the resource.
GoneOr(body) == <<IfGone(<<Forget, Exit("SUCCESSFUL")>>)>> \o body
=============================================================================

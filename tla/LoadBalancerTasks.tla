------------------------- MODULE LoadBalancerTasks -------------------------
(***************************************************************************)
(* The tasks on load balancers: src/ibm/tasks/ibm/load_balancers.  A       *)
(* balancer whose parts change is "update_pending" itself; "pending" and   *)
(* "deleting" both stand for a status that a deletion waits on.  None of   *)
(* these tasks writes a resource log.                                      *)
(***************************************************************************)
EXTENDS Sequences, TaskScript

\* A deletion is polled while the provider works on it.
LOCAL PollDeletion ==
  <<OnElse({"pending", "deleting"}, <<Put("RUNNING_WAIT")>>, <<Put("FAILED")>>), Commit>>
LOCAL DropOwn == <<IfOwn(<<Drop>>), Exit("SUCCESSFUL")>>
LOCAL DropOrFail == <<IfGone(DropOwn), Exit("FAILED")>>

\* A creation the provider took on is polled, "active" at once or not.
LOCAL AwaitCreation ==
  <<OnElse({"pending", "stable"}, <<Note, Put("RUNNING_WAIT")>>, <<Put("FAILED")>>), Commit>>
\* What the poll does with the answer: "record" when the resource is active.
LOCAL RecordWhenActive(record) ==
  <<OnElse({"stable"}, record \o <<Save, Commit, Put("SUCCESSFUL"), Point>>,
      <<OnElse({"pending"}, <<Put("RUNNING_WAIT")>>, <<Put("FAILED")>>)>>),
    Commit>>

----------------------------------------------------------------------------
\* Load balancers

create_load_balancer ==
  <<Running, Region, Needs({"loadBalancerProfile"}),
    Each(<<When("target", <<Needs({"instance", "networkInterface"})>>)>>), Refs,
    Call("create", Fails)>> \o AwaitCreation

\* The new object joins the session with its first subnet: it is saved, without
\* a region, also when discovery has recorded the balancer.
LOCAL ReadBalancer ==
  <<Running, Region, Recall, Call("get", Fails),
    On({"stable"},
      <<Call("other", Fails), Call("other", Fails), Call("other", Fails),
        Each(<<Call("other", Fails)>>)>>)>>
LOCAL RecordBalancer ==
  <<On({"pending"}, Waits), On({"failed"}, Fails),
    Needs({"resourceGroup", "region"}), Each(<<Needs({"subnet"})>>),
    Each(<<Needs({"securityGroup"})>>), Uses({"requested pools", "requested listeners"}),
    RowElse(<<Save>>, <<Save, Commit>>), Put("SUCCESSFUL"), Point, Commit>>
create_wait_load_balancer == ReadBalancer \o RecordBalancer

\* A row that is gone when the provider answers 404 is read all the same.
LOCAL DropBalancer == <<IfGone(<<Own(<<Raise>>), Drop, Exit("SUCCESSFUL")>>), Exit("FAILED")>>

delete_load_balancer ==
  <<Running, Own(Fails), Call("delete", DropBalancer), Call("get", DropBalancer)>>
    \o PollDeletion

delete_wait_load_balancer ==
  <<Running, Own(Succeeds), Call("get", DropBalancer)>> \o PollDeletion

\* Without regions the function returns and the task stays RUNNING.
sync_load_balancer_profiles ==
  <<Running, Needs({"cloud"}), Missing({"regions"}, <<Return>>),
    Each(<<Call("other", Fails)>>), Each(<<Commit>>), Point, Exit("SUCCESSFUL")>>

----------------------------------------------------------------------------
\* Listeners: the deletion's calls are made with the session held open.

create_listener == <<Running, Region, Refs, Call("create", Fails)>> \o AwaitCreation

create_wait_listener ==
  <<Running, Region, Recall, Call("get", Fails),
    On({"stable"}, <<When("default pool", <<Call("other", Fails)>>)>>)>>
    \o RecordWhenActive(<<Needs({"region", "loadBalancer"}),
                          When("default pool", <<Needs({"pool"})>>)>>)

LOCAL PollListener ==
  <<OnElse({"deleting"}, <<Put("RUNNING_WAIT")>>, <<Put("FAILED")>>), Commit>>

delete_listener ==
  <<Running, Own(Fails), CallIn("delete", DropOrFail), CallIn("get", DropOrFail)>>
    \o PollListener

delete_wait_listener == <<Running, Own(Fails), CallIn("get", DropOrFail)>> \o PollListener

----------------------------------------------------------------------------
\* Policies of a listener and their rules

create_listener_policy ==
  <<Running, Region, Needs({"listener"}), Refs, Each(<<Refs>>),
    When("target", <<Needs({"pool"})>>), Call("create", Fails)>> \o AwaitCreation

create_wait_listener_policy ==
  <<Running, Region, Needs({"listener"}), Recall, Call("get", Fails),
    When("rules", <<Call("other", Fails)>>)>>
    \o RecordWhenActive(<<Needs({"loadBalancer", "listener"})>>)

delete_listener_policy ==
  <<Running, Own(Fails), Call("delete", DropOrFail), Call("get", DropOrFail)>> \o PollDeletion

delete_wait_listener_policy ==
  <<Running, Own(Succeeds), Call("get", DropOrFail)>> \o PollDeletion

create_listener_policy_rule ==
  <<Running, Region, Needs({"listenerPolicy"}), Refs, Call("create", Fails)>>
    \o AwaitCreation

\* The parent is looked up again whatever the provider answered.
create_wait_listener_policy_rule ==
  <<Running, Region, Needs({"listenerPolicy"}), Recall, Call("get", Fails),
    Needs({"listenerPolicy"})>> \o RecordWhenActive(<<>>)

delete_listener_policy_rule ==
  <<Running, Own(Fails), Call("delete", DropOrFail), Call("get", DropOrFail)>> \o PollDeletion

delete_wait_listener_policy_rule ==
  <<Running, Own(Succeeds), Call("get", DropOrFail)>> \o PollDeletion

----------------------------------------------------------------------------
\* Pools and their members

create_load_balancer_pool ==
  <<Running, Region, Needs({"loadBalancer"}),
    Each(<<When("target", <<Needs({"instance", "networkInterface"})>>)>>), Refs,
    Call("create", Fails)>> \o AwaitCreation

create_wait_load_balancer_pool ==
  <<Running, Region, Needs({"loadBalancer"}), Recall, Call("get", Fails),
    Call("other", Fails)>>
    \o RecordWhenActive(<<Needs({"region", "loadBalancer"})>>)

delete_load_balancer_pool ==
  <<Running, Own(Fails), Call("delete", DropOrFail), Call("get", DropOrFail)>> \o PollDeletion

delete_wait_load_balancer_pool ==
  <<Running, Own(Succeeds), Call("get", DropOrFail)>> \o PollDeletion

\* A member is created only if its balancer is active; the answer is read in any
\* case, and a member in an unexpected status counts as a success.
create_load_balancer_pool_member ==
  <<Running, Needs({"pool"}), When("target", <<Needs({"instance", "networkInterface"})>>),
    Refs, Call("other", Fails), Uses({"active load balancer"}), Call("create", Fails),
    OnElse({"pending", "stable"}, <<Note, Put("RUNNING_WAIT")>>, <<Put("SUCCESSFUL")>>),
    Commit>>

\* The member is searched in the list of its pool's members: not finding it raises.
create_wait_load_balancer_pool_member ==
  <<Running, Needs({"pool"}), Recall, Call("get", <<IfGone(<<Raise>>), Exit("FAILED")>>)>>
    \o RecordWhenActive(<<Needs({"pool"}), When("target", <<Needs({"instance"})>>)>>)

delete_load_balancer_pool_member ==
  <<Running, Own(Fails), Call("delete", DropOrFail),
    Call("get", <<IfGone(<<Either("pool deleted", DropOwn, <<Raise>>)>>), Exit("FAILED")>>)>>
    \o PollDeletion

\* Here the last member's deletion is a success, any other's raises.
delete_wait_load_balancer_pool_member ==
  <<Running, Own(Succeeds),
    Call("get", <<IfGone(<<Either("no members left", DropOwn, <<Raise>>)>>), Exit("FAILED")>>)>>
    \o PollDeletion
=============================================================================

---------------------------- MODULE MCDiscovery ----------------------------
(***************************************************************************)
(* Two resources of a kind for TLC, one function for each way in which the *)
(* functions differ, and the functions whose rows never settle: that set   *)
(* was found by runs without it.                                           *)
(***************************************************************************)
EXTENDS Discovery

\* One function of each plan: those with the same plan behave alike.
MCChecked ==
  {CHOOSE f \in DOMAIN Functions : Functions[f] = plan :
     plan \in {Functions[f] : f \in DOMAIN Functions}}

Like(names) == Plan \in {Functions[f] : f \in names}

\* Never in line with the provider for good: two hosts share a row, the rows of
\* an empty list stay, the rows of later lists are deleted and stored again.
Unsettled ==
  {"update_dedicated_hosts", "update_instances_ssh_keys", "prefix_filters",
   "update_load_balancer_listeners"}

\* A kind of any other function comes in line with the provider once nobody
\* changes anything: no entry, late list or failed pass keeps it out of line.
RowsSettle == ~Like(Unsettled) => Settles
=============================================================================

-------------------------- MODULE Discovery_proofs --------------------------
(***************************************************************************)
(* Proofs about module Discovery, for any resources, any of the functions  *)
(* of DiscoveryFunctions and any number of changes.                        *)
(***************************************************************************)
EXTENDS Discovery, TLAPS

-----------------------------------------------------------------------------
(* What the table of plans says.                                           *)

HeedsDeletions(plan) == plan.log \in {"apart", "within"} => "DELETED" \in plan.skip
HeedsCreations(plan) ==
  plan.log \in {"apart", "within"} /\ plan # update_dedicated_host_disks
    => "ADDED" \in plan.spare
Heeds(plan) == HeedsDeletions(plan) /\ HeedsCreations(plan)

LEMMA UsualHeeds == ASSUME NEW x PROVE Heeds(Usual(x)) /\ Heeds(Blind(x))
  BY DEF Heeds, HeedsDeletions, HeedsCreations, Usual, Blind

LEMMA AccountHeeds ==
  /\ Heeds(update_resource_groups) /\ Heeds(update_tags)
  /\ Heeds(update_cloud_object_storages) /\ Heeds(update_cos_buckets)
  /\ Heeds(update_cos_access_keys) /\ Heeds(update_regions)
  /\ Heeds(update_satellite_clusters) /\ Heeds(update_transit_gateways)
  /\ Heeds(update_transit_gateway_connections) /\ Heeds(prefix_filters)
  BY DEF Heeds, HeedsDeletions, HeedsCreations, Usual, Blind,
     update_resource_groups, update_tags, update_cloud_object_storages, update_cos_buckets,
     update_cos_access_keys, update_regions, update_satellite_clusters,
     update_transit_gateways, update_transit_gateway_connections, prefix_filters

LEMMA RegionHeeds ==
  /\ Heeds(update_security_groups) /\ Heeds(update_images)
  /\ Heeds(update_instance_profiles) /\ Heeds(update_instances_ssh_keys)
  /\ Heeds(update_instances_network_interfaces) /\ Heeds(update_load_balancer_listeners)
  /\ Heeds(update_vpn_connections) /\ Heeds(update_dedicated_hosts)
  /\ Heeds(update_dedicated_host_disks)
  BY DEF Heeds, HeedsDeletions, HeedsCreations, Usual, Blind,
     update_security_groups, update_images, update_instance_profiles,
     update_instances_ssh_keys, update_instances_network_interfaces,
     update_load_balancer_listeners, update_vpn_connections, update_dedicated_hosts,
     update_dedicated_host_disks

LEMMA TableHeeds == ASSUME NEW f \in DOMAIN Functions PROVE Heeds(Functions[f])
  BY UsualHeeds, AccountHeeds, RegionHeeds, SMTT(60)
  DEF Functions,
      update_zones, update_ssh_keys, update_vpc_networks, update_address_prefixes,
      update_vpc_routes, update_network_acls, update_operating_systems,
      update_volume_profiles, update_volumes, update_public_gateways, update_subnets,
      update_subnet_reserved_ips, update_instances, update_instance_volume_attachments,
      update_instance_disks, update_floating_ips, update_load_balancers,
      update_load_balancer_pools, update_lb_pool_members, update_ike_policies,
      update_ipsec_policies, update_vpn_gateways, update_dedicated_host_profiles,
      update_dedicated_host_groups, update_placement_groups, update_endpoint_gateways,
      update_snapshots, update_clusters, update_cluster_worker_pools,
      update_cluster_workloads

-----------------------------------------------------------------------------
(* Types.                                                                  *)

LEMMA InitType == Init => TypeOK
  BY DiscoveryAssumption DEF Init, TypeOK, Nothing, Entries, NoEntry

LEMMA LoggedType ==
  ASSUME TypeOK, NEW r \in Resources, NEW status \in Statuses, Logged(r, status), recent' = recent
  PROVE  log' \in [Resources -> Entries] /\ wrote' \subseteq Resources
<1> DEFINE told == {status} \cup (IF log[r].now THEN log[r].statuses ELSE {})
           entry == IF recent = 2 THEN NoEntry
                    ELSE [statuses |-> told, newer |-> 2 - recent, now |-> TRUE]
<1>1. log[r] \in Entries /\ recent \in 0..2
  BY DEF TypeOK
<1>2. told \in SUBSET Statuses
  BY <1>1 DEF Entries
<1>3. entry \in Entries
  BY <1>1, <1>2 DEF Entries, NoEntry
<1>4. log' = [log EXCEPT ![r] = entry]
  BY DEF Logged
<1> QED
  BY <1>3, <1>4 DEF TypeOK, Logged

LEMMA ReturnType ==
  ASSUME TypeOK, Return
  PROVE  /\ \A v \in {heard', before', seen', doomed', merging', wrote'} : v \subseteq Resources
         /\ at' \in {"idle", "log", "prune", "delete", "merge"}
         /\ locked' \in [Resources -> Statuses \cup {"none"}]
  BY DEF TypeOK, Return, Nothing

LEMMA ToldType ==
  discovery_locked_resource \subseteq [Resources -> Statuses \cup {"none"}]
  BY DEF discovery_locked_resource

LEMMA StoredType ==
  ASSUME TypeOK, NEW r \in Resources, rows' \in Stored(r)
  PROVE  rows' \subseteq Resources /\ rows' \subseteq rows \cup {r}
  BY DEF TypeOK, Stored

LEMMA DiscoverType == TypeOK /\ Discover => TypeOK'
<1> SUFFICES ASSUME TypeOK, Discover PROVE TypeOK'
  OBVIOUS
<1>1. CASE Begin
  <2>1. [r \in Resources |-> IF log[r].newer = 1 THEN NoEntry ELSE log[r]]
          \in [Resources -> Entries]
    BY DEF TypeOK, Entries, NoEntry
  <2> QED
    BY <1>1, <2>1 DEF Begin, Take, TypeOK, tasks
<1>2. CASE ReadLog
  <2>1. locked' \in [Resources -> Statuses \cup {"none"}]
    BY <1>2, ToldType DEF ReadLog, Nothing
  <2> QED
    BY <1>2, <2>1 DEF ReadLog, TypeOK, tasks, mangos
<1>3. CASE ChooseDoomed
  <2>1. PICK part \in Parts,
             told \in IF Plan.log = "within" THEN discovery_locked_resource ELSE {locked} :
          /\ locked' = told
          /\ wrote' = IF Plan.log = "within" THEN {} ELSE wrote
          /\ seen' = seen \cup part
          /\ doomed' = {r \in rows \ Listed(seen') : told[r] \notin Plan.spare}
          /\ merging' = {r \in Listed(seen') \ before : told[r] \notin Plan.skip}
    BY <1>3 DEF ChooseDoomed
  <2>2. part \subseteq Resources
    BY DEF Parts, TypeOK
  <2>3. seen' \subseteq Resources /\ Listed(seen') \subseteq Resources
    BY <2>1, <2>2 DEF TypeOK, Listed
  <2>4. locked' \in [Resources -> Statuses \cup {"none"}] /\ wrote' \subseteq Resources
    BY <2>1, ToldType DEF TypeOK
  <2>5. doomed' \subseteq Resources /\ merging' \subseteq Resources
    BY <2>1, <2>3 DEF TypeOK
  <2>6. /\ at' \in {"merge", "delete"}
        /\ UNCHANGED <<function, cloud, creating, deleting, rows, log, whole, list, recent,
                       heard, before, changes>>
    BY <1>3 DEF ChooseDoomed, tasks, mangos
  <2> QED
    BY <2>3, <2>4, <2>5, <2>6 DEF TypeOK
<1>4. CASE NothingToPrune
  BY <1>4, ReturnType DEF NothingToPrune, TypeOK, tasks, mangos
<1>5. CASE DeleteDoomed
  <2>1. rows' \subseteq Resources /\ doomed' \subseteq Resources
    BY <1>5 DEF DeleteDoomed, TypeOK, Return
  <2>2. /\ \A v \in {heard', before', seen', merging', wrote'} : v \subseteq Resources
        /\ at' \in {"idle", "log", "prune", "delete", "merge"}
        /\ locked' \in [Resources -> Statuses \cup {"none"}]
    BY <1>5, ReturnType DEF DeleteDoomed, TypeOK
  <2> QED
    BY <1>5, <2>1, <2>2 DEF DeleteDoomed, TypeOK, tasks, mangos
<1>6. CASE GoOn
  BY <1>6, ReturnType DEF GoOn, TypeOK, tasks, mangos
<1>7. ASSUME NEW r \in Resources, Merge(r) PROVE TypeOK'
  BY <1>7, StoredType DEF Merge, TypeOK, tasks, mangos
<1>8. ASSUME NEW r \in Resources, PassOver(r) PROVE TypeOK'
  BY <1>8 DEF PassOver, TypeOK, tasks, mangos
<1>9. ASSUME NEW r \in Resources, Raise(r) PROVE TypeOK'
  BY <1>9, ReturnType DEF Raise, TypeOK, tasks, mangos
<1> QED
  BY <1>1, <1>2, <1>3, <1>4, <1>5, <1>6, <1>7, <1>8, <1>9 DEF Discover

LEMMA TaskType ==
  ASSUME TypeOK, NEW r \in Resources,
         \/ CreateAtProvider(r) \/ RecordCreation(r) \/ RecordUpdate(r)
         \/ DeleteAtProvider(r) \/ RecordDeletion(r) \/ ChangeOutside(r)
  PROVE  TypeOK'
<1>1. CASE CreateAtProvider(r)
  BY <1>1, DiscoveryAssumption DEF CreateAtProvider, Change, TypeOK, mangos, pass
<1>2. CASE RecordCreation(r)
  <2>1. log' \in [Resources -> Entries] /\ wrote' \subseteq Resources
    BY <1>2, LoggedType DEF RecordCreation, mangos, Statuses, TypeOK
  <2> QED
    BY <1>2, <2>1 DEF RecordCreation, TypeOK, mangos
<1>3. CASE RecordUpdate(r)
  <2>1. log' \in [Resources -> Entries] /\ wrote' \subseteq Resources
    BY <1>3, LoggedType DEF RecordUpdate, mangos, Statuses
  <2> QED
    BY <1>3, <2>1, DiscoveryAssumption DEF RecordUpdate, Change, TypeOK, tasks, mangos
<1>4. CASE DeleteAtProvider(r)
  BY <1>4, DiscoveryAssumption DEF DeleteAtProvider, Change, TypeOK, mangos, pass
<1>5. CASE RecordDeletion(r)
  <2>1. log' \in [Resources -> Entries] /\ wrote' \subseteq Resources
    BY <1>5, LoggedType DEF RecordDeletion, mangos, Statuses, TypeOK
  <2> QED
    BY <1>5, <2>1 DEF RecordDeletion, TypeOK, mangos
<1>6. CASE ChangeOutside(r)
  BY <1>6, DiscoveryAssumption DEF ChangeOutside, Change, TypeOK, mangos, pass
<1> QED
  BY <1>1, <1>2, <1>3, <1>4, <1>5, <1>6

LEMMA EntryAges ==
  ASSUME NEW entry \in Entries
  PROVE  /\ [entry EXCEPT !.now = FALSE] \in Entries
         /\ [entry EXCEPT !.newer = IF @ = 2 THEN 1 ELSE @] \in Entries
<1>1. entry \in [statuses : SUBSET Statuses, newer : 0..2, now : BOOLEAN]
  BY DEF Entries
<1>2. [entry EXCEPT !.now = FALSE] \in Entries
  BY <1>1 DEF Entries
<1>3. PICK newer \in 0..2 : newer = IF entry.newer = 2 THEN 1 ELSE entry.newer
  BY <1>1
<1>4. [entry EXCEPT !.newer = newer] \in Entries
  BY <1>1 DEF Entries
<1> QED
  BY <1>2, <1>3, <1>4

LEMMA WorldType ==
  ASSUME TypeOK, LoseParent \/ FindParent \/ NextMinute \/ MangosSyncs
  PROVE  TypeOK'
<1>1. CASE LoseParent
  <2>1. changes' \in 0..MaxChanges
    BY <1>1, DiscoveryAssumption DEF LoseParent, Change, TypeOK
  <2> QED
    BY <1>1, <2>1 DEF LoseParent, TypeOK, tasks, mangos, pass
<1>2. CASE FindParent
  BY <1>2 DEF FindParent, TypeOK, tasks, mangos, pass
<1>3. CASE NextMinute
  <2>1. ASSUME NEW r \in Resources
        PROVE  [log[r] EXCEPT !.now = FALSE] \in Entries
    BY EntryAges DEF TypeOK
  <2>2. log' \in [Resources -> Entries]
    BY <1>3, <2>1 DEF NextMinute
  <2> QED
    BY <1>3, <2>2 DEF NextMinute, TypeOK, tasks, pass
<1>4. CASE MangosSyncs
  <2>1. ASSUME NEW r \in Resources
        PROVE  [log[r] EXCEPT !.newer = IF @ = 2 THEN 1 ELSE @] \in Entries
    BY EntryAges DEF TypeOK
  <2>2. log' \in [Resources -> Entries]
    BY <1>4, <2>1 DEF MangosSyncs
  <2> QED
    BY <1>4, <2>2 DEF MangosSyncs, TypeOK, tasks, pass
<1> QED
  BY <1>1, <1>2, <1>3, <1>4

LEMMA NextType == TypeOK /\ [Next]_vars => TypeOK'
<1>1. TypeOK /\ UNCHANGED vars => TypeOK'
  BY DEF TypeOK, vars, tasks, mangos, pass
<1> QED
  BY <1>1, DiscoverType, TaskType, WorldType DEF Next

\* Whatever tasks, others and passes do, the rows, the log and the variables of
\* the update function stay well formed.
THEOREM TypeCorrect == Spec => []TypeOK
  BY InitType, NextType, PTL DEF Spec

-----------------------------------------------------------------------------
(* What a pass remembers of the log.                                       *)

\* From the moment the log is read, what the log tells of a resource is either
\* what a pass has read or what has been written since.
Remembers(status) ==
  \A r \in Resources : Told(r, status) /\ locked[r] # status => r \in wrote

LogIsRead ==
  /\ ReadsLog
  /\ at \in {"delete", "merge"} \/ (at = "prune" /\ Plan.log = "apart")

\* What is chosen is chosen by what was read.
MergesUntold ==
  at \in {"delete", "merge"} => \A r \in merging : locked[r] \notin Plan.skip
DeletesUntold ==
  at = "delete" => \A r \in doomed : locked[r] \notin Plan.spare

\* No resource that is listed is chosen by a function that prunes the unlisted.
DeletesUnlisted ==
  PrunesUnlisted =>
    /\ at = "delete" => doomed \cap heard = {}

Memory ==
  /\ TypeOK
  /\ LogIsRead => Remembers("ADDED") /\ Remembers("DELETED")
  /\ MergesUntold /\ DeletesUntold /\ DeletesUnlisted

LEMMA InitMemory == Init => Memory
  BY InitType DEF Init, Memory, LogIsRead, MergesUntold, DeletesUntold, DeletesUnlisted

\* A task that writes an entry while a pass is under way is remembered.
LEMMA LoggedMemory ==
  ASSUME Memory, NEW r \in Resources, NEW status \in Statuses, Logged(r, status),
         UNCHANGED <<function, recent, at, heard, locked, before, seen, doomed, merging>>
  PROVE  /\ (LogIsRead => Remembers("ADDED") /\ Remembers("DELETED"))'
         /\ (MergesUntold /\ DeletesUntold /\ DeletesUnlisted)'
<1>1. (MergesUntold /\ DeletesUntold /\ DeletesUnlisted)'
  BY DEF Memory, MergesUntold, DeletesUntold, DeletesUnlisted, Plan, PrunesUnlisted
<1>2. ASSUME LogIsRead', NEW s PROVE LogIsRead /\ (Remembers(s) => Remembers(s)')
  <2>1. LogIsRead /\ at # "idle"
    BY <1>2 DEF LogIsRead, Plan, ReadsLog
  <2>2. /\ wrote' = wrote \cup {r}
        /\ \A q \in Resources \ {r} : log'[q] = log[q]
    BY <2>1 DEF Logged, Memory, TypeOK
  <2> QED
    BY <2>1, <2>2 DEF Remembers, Told
<1> QED
  BY <1>1, <1>2 DEF Memory

LEMMA SameMemory ==
  ASSUME Memory, UNCHANGED <<function, at, heard, locked, before, seen, doomed, merging, wrote>>,
         \A r \in Resources : log'[r].statuses = log[r].statuses
  PROVE  /\ (LogIsRead => Remembers("ADDED") /\ Remembers("DELETED"))'
         /\ (MergesUntold /\ DeletesUntold /\ DeletesUnlisted)'
<1>1. (MergesUntold /\ DeletesUntold /\ DeletesUnlisted)'
  BY DEF Memory, MergesUntold, DeletesUntold, DeletesUnlisted, Plan, PrunesUnlisted
<1>2. (LogIsRead => Remembers("ADDED") /\ Remembers("DELETED"))'
  BY DEF Memory, LogIsRead, Remembers, Told, Plan, ReadsLog
<1> QED
  BY <1>1, <1>2

\* A function that has returned remembers nothing.
LEMMA IdleMemory ==
  ASSUME at' \in {"idle", "log"}
  PROVE  /\ (LogIsRead => Remembers("ADDED") /\ Remembers("DELETED"))'
         /\ (MergesUntold /\ DeletesUntold /\ DeletesUnlisted)'
  BY DEF LogIsRead, MergesUntold, DeletesUntold, DeletesUnlisted

LEMMA TaskMemory ==
  ASSUME Memory, NEW r \in Resources,
         \/ CreateAtProvider(r) \/ RecordCreation(r) \/ RecordUpdate(r)
         \/ DeleteAtProvider(r) \/ RecordDeletion(r) \/ ChangeOutside(r)
  PROVE  Memory'
<1>1. TypeOK'
  BY TaskType DEF Memory
<1>2. CASE CreateAtProvider(r) \/ DeleteAtProvider(r) \/ ChangeOutside(r)
  BY <1>1, <1>2, SameMemory DEF CreateAtProvider, DeleteAtProvider, ChangeOutside, Memory, pass
<1>3. CASE RecordCreation(r)
  <2>1. CASE r \in rows
    BY <1>1, <1>3, <2>1, SameMemory DEF RecordCreation, Memory
  <2>2. CASE r \notin rows
    BY <1>1, <1>3, <2>2, LoggedMemory DEF RecordCreation, Memory, mangos, Statuses
  <2> QED
    BY <2>1, <2>2
<1>4. CASE RecordDeletion(r)
  <2>1. CASE r \notin rows
    BY <1>1, <1>4, <2>1, SameMemory DEF RecordDeletion, Memory
  <2>2. CASE r \in rows
    BY <1>1, <1>4, <2>2, LoggedMemory DEF RecordDeletion, Memory, mangos, Statuses
  <2> QED
    BY <2>1, <2>2
<1>5. CASE RecordUpdate(r)
  BY <1>1, <1>5, LoggedMemory DEF RecordUpdate, Memory, mangos, Statuses
<1> QED
  BY <1>2, <1>3, <1>4, <1>5

LEMMA WorldMemory ==
  ASSUME Memory, LoseParent \/ FindParent \/ NextMinute \/ MangosSyncs
  PROVE  Memory'
<1>1. TypeOK'
  BY WorldType DEF Memory
<1>2. \A r \in Resources : log'[r].statuses = log[r].statuses
  <2>1. CASE MangosSyncs
    BY <2>1 DEF MangosSyncs, Memory, TypeOK, Entries, NoEntry
  <2>2. CASE NextMinute
    BY <2>2 DEF NextMinute, Memory, TypeOK, Entries, NoEntry
  <2> QED
    BY <2>1, <2>2 DEF LoseParent, FindParent
<1> QED
  BY <1>1, <1>2, SameMemory DEF LoseParent, FindParent, NextMinute, MangosSyncs, Memory, pass

\* Where all the last entries agree, that is what is read.
LEMMA ReadTold ==
  ASSUME NEW read \in discovery_locked_resource, NEW r \in Resources, NEW status,
         Told(r, status)
  PROVE  read[r] = status
  BY DEF discovery_locked_resource, Told

\* Choosing what to delete and to merge.
LEMMA ChooseMemory == ASSUME Memory, ChooseDoomed PROVE Memory'
<1>1. TypeOK'
  BY DiscoverType DEF Discover, Memory
<1>2. PICK part \in Parts,
           told \in IF Plan.log = "within" THEN discovery_locked_resource ELSE {locked} :
        /\ locked' = told
        /\ wrote' = IF Plan.log = "within" THEN {} ELSE wrote
        /\ seen' = seen \cup part
        /\ doomed' = {r \in rows \ Listed(seen') : told[r] \notin Plan.spare}
        /\ merging' = {r \in Listed(seen') \ before : told[r] \notin Plan.skip}
  BY DEF ChooseDoomed
<1>3. /\ at = "prune" /\ at' \in {"delete", "merge"}
      /\ UNCHANGED <<function, rows, log, heard, before>>
      /\ Plan' = Plan
  BY DEF ChooseDoomed, mangos, Plan
<1>4. MergesUntold' /\ DeletesUntold'
  BY <1>2, <1>3 DEF MergesUntold, DeletesUntold
<1>5. DeletesUnlisted'
  <2> SUFFICES ASSUME PrunesUnlisted PROVE doomed' \cap heard' = {}
    BY <1>3 DEF DeletesUnlisted, PrunesUnlisted
  <2>1. Listed(seen') = seen' /\ part = heard
    BY DEF PrunesUnlisted, Listed, Parts
  <2> QED
    BY <1>2, <1>3, <2>1
<1>6. ASSUME LogIsRead', NEW s \in {"ADDED", "DELETED"} PROVE Remembers(s)'
  <2>1. CASE Plan.log = "within"
    BY <1>2, <1>3, <2>1, ReadTold DEF Remembers, Told
  <2>2. CASE Plan.log = "apart"
    BY <1>2, <1>3, <2>2 DEF Remembers, Told, LogIsRead, ReadsLog, Memory
  <2> QED
    BY <1>3, <1>6, <2>1, <2>2 DEF LogIsRead, ReadsLog
<1> QED
  BY <1>1, <1>4, <1>5, <1>6 DEF Memory

LEMMA DiscoverMemory == ASSUME Memory, Discover PROVE Memory'
<1>1. TypeOK'
  BY DiscoverType DEF Memory
<1>2. CASE Begin
  <2>1. /\ Plan' = Plan
        /\ at' \in {"log", "prune"} /\ (at' = "prune" => Plan.log # "apart")
    BY <1>2 DEF Begin, Take, Plan
  <2> QED
    BY <1>1, <2>1
    DEF Memory, LogIsRead, MergesUntold, DeletesUntold, DeletesUnlisted
<1>3. CASE ReadLog
  <2>1. /\ Plan' = Plan /\ at' = "prune" /\ UNCHANGED log
        /\ Plan.log = "apart" => locked' \in discovery_locked_resource
    BY <1>3 DEF ReadLog, Plan
  <2>2. Plan.log = "apart" => Remembers("ADDED")' /\ Remembers("DELETED")'
    BY <2>1, ReadTold DEF Remembers, Told
  <2> QED
    BY <1>1, <2>1, <2>2
    DEF Memory, LogIsRead, MergesUntold, DeletesUntold, DeletesUnlisted
<1>4. CASE ChooseDoomed
  BY <1>4, ChooseMemory
<1>5. CASE NothingToPrune
  BY <1>1, <1>5, IdleMemory DEF NothingToPrune, Return, Memory
<1>6. CASE DeleteDoomed
  <2>1. CASE Return
    BY <1>1, <2>1, IdleMemory DEF Return, Memory
  <2>2. CASE ~Return
    <3>1. /\ at = "delete" /\ at' \in {"delete", "merge"}
          /\ doomed' \subseteq doomed
          /\ UNCHANGED <<function, log, heard, locked, merging, wrote>>
          /\ Plan' = Plan
      BY <1>6, <2>2 DEF DeleteDoomed, Plan
    <3>2. (MergesUntold /\ DeletesUntold /\ DeletesUnlisted)'
      BY <3>1 DEF Memory, MergesUntold, DeletesUntold, DeletesUnlisted, PrunesUnlisted
    <3>3. (LogIsRead => Remembers("ADDED") /\ Remembers("DELETED"))'
      BY <3>1 DEF Memory, LogIsRead, ReadsLog, Remembers, Told
    <3> QED
      BY <1>1, <3>2, <3>3 DEF Memory
  <2> QED
    BY <2>1, <2>2
<1>7. CASE GoOn
  <2>1. CASE Return
    BY <1>1, <2>1, IdleMemory DEF Return, Memory
  <2>2. CASE ~Return
    <3>1. /\ at = "merge" /\ at' = "prune"
          /\ UNCHANGED <<function, log, locked, wrote>>
          /\ Plan' = Plan
      BY <1>7, <2>2 DEF GoOn, Plan
    <3>2. (MergesUntold /\ DeletesUntold /\ DeletesUnlisted)'
      BY <3>1 DEF MergesUntold, DeletesUntold, DeletesUnlisted
    <3>3. (LogIsRead => Remembers("ADDED") /\ Remembers("DELETED"))'
      BY <3>1 DEF Memory, LogIsRead, ReadsLog, Remembers, Told
    <3> QED
      BY <1>1, <3>2, <3>3 DEF Memory
  <2> QED
    BY <2>1, <2>2
<1>8. ASSUME NEW r \in Resources, Merge(r) \/ PassOver(r) PROVE Memory'
  <2>1. /\ at = "merge" /\ at' = "merge"
        /\ merging' \subseteq merging
        /\ UNCHANGED <<function, log, locked, wrote>>
        /\ Plan' = Plan
    BY <1>8 DEF Merge, PassOver, Plan
  <2>2. (MergesUntold /\ DeletesUntold /\ DeletesUnlisted)'
    BY <2>1 DEF Memory, MergesUntold, DeletesUntold, DeletesUnlisted
  <2>3. (LogIsRead => Remembers("ADDED") /\ Remembers("DELETED"))'
    BY <2>1 DEF Memory, LogIsRead, ReadsLog, Remembers, Told
  <2> QED
    BY <1>1, <2>2, <2>3 DEF Memory
<1>9. ASSUME NEW r \in Resources, Raise(r) PROVE Memory'
  BY <1>1, <1>9, IdleMemory DEF Raise, Return, Memory
<1> QED
  BY <1>2, <1>3, <1>4, <1>5, <1>6, <1>7, <1>8, <1>9 DEF Discover

LEMMA NextMemory == Memory /\ [Next]_vars => Memory'
<1>1. ASSUME Memory, UNCHANGED vars PROVE Memory'
  <2>1. TypeOK'
    BY <1>1, NextType DEF Memory
  <2> QED
    BY <1>1, <2>1, SameMemory DEF Memory, vars, pass
<1> QED
  BY <1>1, DiscoverMemory, TaskMemory, WorldMemory DEF Next

\* What a pass remembers is what it has read of the cloud and of the log, whatever
\* happens to either after that.
THEOREM MemoryCorrect == Spec => []Memory
  BY InitMemory, NextMemory, PTL DEF Spec

-----------------------------------------------------------------------------
(* Steps of discovery that change rows.                                    *)

LEMMA PlanHeeds == ASSUME TypeOK PROVE Heeds(Plan)
  BY DiscoveryAssumption, TableHeeds DEF TypeOK, Plan

LEMMA OnlyPassesTouchRows ==
  ASSUME TypeOK, [Next]_vars, ByDiscovery, rows' # rows
  PROVE  DeleteDoomed \/ \E r \in Resources : Merge(r)
<1>1. ASSUME NEW r \in Resources PROVE ~RecordCreation(r) /\ ~RecordDeletion(r)
  BY DEF RecordCreation, RecordDeletion, ByDiscovery
<1> QED
  BY <1>1
  DEF Next, vars, Discover, Begin, Take, ReadLog, ChooseDoomed, NothingToPrune, GoOn,
      PassOver, Raise, CreateAtProvider, RecordUpdate, DeleteAtProvider, ChangeOutside,
      LoseParent, FindParent, NextMinute, MangosSyncs

LEMMA AdditionStep == Memory /\ [Next]_vars => (ReadsLog => AdditionIsDue)
<1> SUFFICES ASSUME Memory, [Next]_vars, ReadsLog, ByDiscovery,
                    NEW r \in rows' \ rows, Told(r, "DELETED")
             PROVE  r \in wrote
  BY DEF AdditionIsDue
<1>1. TypeOK /\ HeedsDeletions(Plan)
  BY PlanHeeds DEF Memory, Heeds
<1>2. CASE DeleteDoomed
  BY <1>2 DEF DeleteDoomed
<1>3. ASSUME NEW q \in Resources, Merge(q) PROVE r \in wrote
  <2>1. r = q
    BY <1>1, <1>3, StoredType DEF Merge
  <2>2. at = "merge" /\ locked[r] # "DELETED"
    BY <1>1, <1>3, <2>1 DEF Merge, Memory, MergesUntold, HeedsDeletions, ReadsLog
  <2>3. Remembers("DELETED")
    BY <2>2 DEF Memory, LogIsRead, Remembers
  <2> QED
    BY <1>3, <2>1, <2>2, <2>3 DEF Remembers, Told
<1> QED
  BY <1>1, <1>2, <1>3, OnlyPassesTouchRows

LEMMA RemovalStep ==
  Memory /\ [Next]_vars =>
    (ReadsLog /\ PrunesUnlisted /\ Plan # update_dedicated_host_disks => RemovalIsDue)
<1> SUFFICES ASSUME Memory, [Next]_vars, ReadsLog, PrunesUnlisted,
                    Plan # update_dedicated_host_disks, ByDiscovery, NEW r \in rows \ rows'
             PROVE  r \notin heard /\ (Told(r, "ADDED") => r \in wrote)
  BY DEF RemovalIsDue
<1>1. TypeOK /\ HeedsCreations(Plan)
  BY PlanHeeds DEF Memory, Heeds
<1>2. CASE DeleteDoomed
  <2>1. at = "delete" /\ r \in doomed /\ r \in Resources
    BY <1>1, <1>2 DEF DeleteDoomed, TypeOK
  <2>2. r \notin heard
    BY <2>1 DEF Memory, DeletesUnlisted
  <2>3. locked[r] # "ADDED"
    BY <1>1, <2>1 DEF Memory, DeletesUntold, HeedsCreations, ReadsLog
  <2>4. Remembers("ADDED")
    BY <2>1 DEF Memory, LogIsRead, Remembers
  <2> QED
    BY <2>1, <2>2, <2>3, <2>4 DEF Remembers, Told
<1>3. ASSUME NEW q \in Resources, Merge(q) PROVE FALSE
  BY <1>3 DEF Merge, Stored, PrunesUnlisted
<1> QED
  BY <1>1, <1>2, <1>3, OnlyPassesTouchRows

\* What a task has deleted is not stored again from a list older than the
\* deletion, for every function that reads the log.
THEOREM DeletionsStandCorrect == Spec => DeletionsStand
  BY MemoryCorrect, AdditionStep, PTL DEF Spec, DeletionsStand

\* What a task has created, and what is listed, keeps its row, for every function
\* that reads the log and prunes against the whole list.
THEOREM RowsAreKeptCorrect == Spec => RowsAreKept
  BY MemoryCorrect, RemovalStep, PTL DEF Spec, RowsAreKept
=============================================================================

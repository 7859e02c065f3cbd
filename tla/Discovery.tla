----------------------------- MODULE Discovery -----------------------------
(***************************************************************************)
(* Discovery of one kind of resource: ibm_discovery_executor passes over   *)
(* and over what mangos, a cache of the provider's lists, holds, while the *)
(* resource tasks create, change and delete resources and record it, and   *)
(* others do so at the provider's console.                                 *)
(*                                                                         *)
(* A list of mangos is older than the rows.  What a task did since is told *)
(* by IBMResourceLog: entries not older than the list (performed_at >=     *)
(* last_synced_at) keep discovery from undoing it.  Times are modelled by  *)
(* the only comparisons made: of every resource's last entry with mangos'  *)
(* list and with the list this pass works on, and of the entries of one    *)
(* resource with each other.  An entry's time is truncated to the minute,  *)
(* a list's is not: of two entries made within a minute any may come last. *)
(*                                                                         *)
(* A transaction is one step: a database session that reads, then writes   *)
(* and commits, is split where it commits and where it deletes what it has *)
(* read before.                                                            *)
(***************************************************************************)
EXTENDS Naturals, DiscoveryFunctions

CONSTANTS
  Resources,  \* of the kind
  Checked,    \* the functions considered, by name
  MaxChanges  \* how many changes tasks and others make

ASSUME DiscoveryAssumption == Checked \subseteq DOMAIN Functions /\ MaxChanges \in Nat

VARIABLES
  function,  \* the update_ function of the kind
  cloud,     \* the resources at the provider
  creating,  \* those a task has created and not yet recorded
  deleting,  \* those a task has deleted there, the row not yet
  rows,      \* the resources that have a row
  log,       \* the last entries of each, and how old they are
  whole,     \* what the listed resources refer to is known
  list,      \* what mangos holds
  recent,    \* which lists are of the current minute
  at,        \* where the function is
  heard,     \* the list of this pass
  locked,    \* the statuses read from the log
  before,    \* the rows found unchanged when the log was read
  seen,      \* the part of the list gone through
  doomed,    \* the rows to delete
  merging,   \* the listed resources still to merge
  wrote,     \* what tasks have recorded since the log was read
  changes    \* how many changes may still be made

tasks == <<cloud, creating, deleting>>
mangos == <<list, recent>>
pass == <<at, heard, locked, before, seen, doomed, merging, wrote>>
vars == <<function, tasks, rows, log, whole, mangos, pass, changes>>

Plan == Functions[function]
Nothing == [r \in Resources |-> "none"]

\* Entries of one minute are older than mangos' list only (1) or newer than both
\* (2); those older than both are never read again.  More may still be made with
\* the same time while the minute lasts.
Statuses == {"ADDED", "DELETED", "UPDATED"}
NoEntry == [statuses |-> {}, newer |-> 0, now |-> FALSE]
Entries == [statuses : SUBSET Statuses, newer : 0..2, now : BOOLEAN]

TypeOK ==
  /\ function \in Checked
  /\ \A v \in {cloud, creating, deleting, rows, before, seen, doomed, merging, wrote} :
       v \subseteq Resources
  /\ log \in [Resources -> Entries]
  /\ whole \in BOOLEAN
  /\ list \in (SUBSET Resources) \cup {{"unknown"}}
  /\ heard \subseteq Resources
  /\ recent \in 0..2
  /\ at \in {"idle", "log", "prune", "delete", "merge"}
  /\ locked \in [Resources -> Statuses \cup {"none"}]
  /\ changes \in 0..MaxChanges

Init ==
  /\ function \in Checked
  /\ cloud \in SUBSET Resources /\ rows = cloud
  /\ creating = {} /\ deleting = {}
  /\ log = [r \in Resources |-> NoEntry]
  /\ whole = TRUE
  /\ list = {"unknown"} /\ recent = 0
  /\ at = "idle" /\ heard = {} /\ locked = Nothing
  /\ before = {} /\ seen = {} /\ doomed = {} /\ merging = {} /\ wrote = {}
  /\ changes = MaxChanges

----------------------------------------------------------------------------
\* The resource tasks: the provider first, the row and the entry later.

\* IBMResourceLog(status=status): the entry's time is that of the minute.
Logged(r, status) ==
  /\ log' = [log EXCEPT ![r] =
               IF recent = 2 THEN NoEntry
               ELSE [statuses |-> {status} \cup (IF @.now THEN @.statuses ELSE {}),
                     newer |-> 2 - recent, now |-> TRUE]]
  /\ wrote' = IF at = "idle" THEN {} ELSE wrote \cup {r}

Busy == creating \cup deleting
Change == changes > 0 /\ changes' = changes - 1

CreateAtProvider(r) ==
  /\ r \notin cloud \cup rows \cup Busy
  /\ Change
  /\ cloud' = cloud \cup {r} /\ creating' = creating \cup {r}
  /\ UNCHANGED <<function, deleting, rows, log, whole, mangos, pass>>

\* A row that discovery has stored meanwhile makes the task fail.
RecordCreation(r) ==
  /\ r \in creating
  /\ creating' = creating \ {r}
  /\ IF r \in rows THEN UNCHANGED <<rows, log, wrote>>
                   ELSE rows' = rows \cup {r} /\ Logged(r, "ADDED")
  /\ UNCHANGED <<function, cloud, deleting, whole, mangos, changes, at, heard, locked,
                 before, seen, doomed, merging>>

DeleteAtProvider(r) ==
  /\ r \in (cloud \cap rows) \ Busy
  /\ Change
  /\ cloud' = cloud \ {r} /\ deleting' = deleting \cup {r}
  /\ UNCHANGED <<function, creating, rows, log, whole, mangos, pass>>

RecordDeletion(r) ==
  /\ r \in deleting
  /\ deleting' = deleting \ {r}
  /\ IF r \in rows THEN rows' = rows \ {r} /\ Logged(r, "DELETED")
                   ELSE UNCHANGED <<rows, log, wrote>>
  /\ UNCHANGED <<function, cloud, creating, whole, mangos, changes, at, heard, locked,
                 before, seen, doomed, merging>>

RecordUpdate(r) ==
  /\ r \in (cloud \cap rows) \ Busy
  /\ Change /\ Logged(r, "UPDATED")
  /\ UNCHANGED <<function, tasks, rows, whole, mangos, at, heard, locked,
                 before, seen, doomed, merging>>

----------------------------------------------------------------------------
\* The provider's console, the rows of other kinds, the clock, and mangos.

ChangeOutside(r) ==
  /\ r \notin Busy
  /\ Change
  /\ cloud' = IF r \in cloud THEN cloud \ {r} ELSE cloud \cup {r}
  /\ UNCHANGED <<function, creating, deleting, rows, log, whole, mangos, pass>>

LoseParent ==
  /\ whole /\ Plan.partial # {} /\ Change
  /\ whole' = FALSE
  /\ UNCHANGED <<function, tasks, rows, log, mangos, pass>>

FindParent ==
  /\ ~whole /\ whole' = TRUE
  /\ UNCHANGED <<function, tasks, rows, log, mangos, pass, changes>>

NextMinute ==
  /\ recent # 0 \/ \E r \in Resources : log[r].now
  /\ recent' = 0
  /\ log' = [r \in Resources |-> [log[r] EXCEPT !.now = FALSE]]
  /\ UNCHANGED <<function, tasks, rows, whole, list, pass, changes>>

MangosSyncs ==
  /\ list' = cloud
  /\ recent' = IF recent = 0 THEN 1 ELSE recent
  /\ log' = [r \in Resources |->
               [log[r] EXCEPT !.newer = IF @ = 2 THEN 1 ELSE @]]
  /\ UNCHANGED <<function, tasks, rows, whole, pass, changes>>

----------------------------------------------------------------------------
\* A pass of discovery.

\* The function has returned or raised: its variables are gone.
Return ==
  /\ at' = "idle" /\ heard' = {} /\ locked' = Nothing
  /\ before' = {} /\ seen' = {} /\ doomed' = {} /\ merging' = {} /\ wrote' = {}

\* mangos.get_resources; of a kind that mangos does not hold there is nothing
\* to do.
Take(entries) ==
  /\ at = "idle" /\ list # {"unknown"}
  /\ heard' = list
  /\ recent' = IF recent = 1 THEN 2 ELSE recent
  /\ log' = entries
  /\ at' = IF Plan.log = "apart" \/ Plan.same THEN "log" ELSE "prune"
  /\ UNCHANGED <<function, tasks, rows, whole, list, locked, before, seen, doomed, merging,
                 wrote, changes>>

\* The entries that the list of the last pass was older than may not be new to
\* this one.
Begin_ageless == Take(log)
Begin == Take([r \in Resources |-> IF log[r].newer = 1 THEN NoEntry ELSE log[r]])

\* What discovery_locked_resource may return: it orders the entries by their time
\* alone, and the last one stays.
discovery_locked_resource ==
  {read \in [Resources -> Statuses \cup {"none"}] :
     \A r \in Resources :
       read[r] \in IF log[r].statuses = {} THEN {"none"} ELSE log[r].statuses}

ReadLog ==
  /\ at = "log"
  /\ at' = "prune"
  /\ locked' \in IF Plan.log = "apart" THEN discovery_locked_resource ELSE {Nothing}
  /\ before' = IF Plan.same THEN rows \cap heard ELSE {}
  /\ wrote' = {}
  /\ UNCHANGED <<function, tasks, rows, log, whole, mangos, heard, seen, doomed, merging,
                 changes>>

\* Resources a function takes for listed, out of those it has gone through.
Listed(part) ==
  IF ~whole /\ "hides" \in Plan.partial THEN {} ELSE part

\* What a function goes through before it prunes.
Parts ==
  CASE Plan.prune = "list" -> {part \in SUBSET (heard \ seen) : part = {} => heard = {}}
    [] Plan.prune = "item" -> {{r} : r \in heard \ seen}
    [] OTHER -> {heard}

ChooseDoomed ==
  /\ at = "prune"
  /\ \E part \in Parts,
        told \in IF Plan.log = "within" THEN discovery_locked_resource ELSE {locked} :
       /\ locked' = told
       /\ wrote' = IF Plan.log = "within" THEN {} ELSE wrote
       /\ seen' = seen \cup part
       /\ doomed' = {r \in rows \ Listed(seen') : told[r] \notin Plan.spare}
       /\ merging' = {r \in Listed(seen') \ before : told[r] \notin Plan.skip}
  /\ at' = IF doomed' = {} THEN "merge" ELSE "delete"
  /\ UNCHANGED <<function, tasks, rows, log, whole, mangos, heard, before, changes>>

\* A list without items leaves a function that prunes for every item idle.
NothingToPrune ==
  /\ at = "prune" /\ Parts = {}
  /\ Return
  /\ UNCHANGED <<function, tasks, rows, log, whole, mangos, changes>>

\* The commit of the deletions: a row that somebody else has deleted raises
\* StaleDataError, and what the commit would have deleted stays.
DeleteDoomed ==
  /\ at = "delete"
  /\ \E batch \in IF Plan.prune = "each" THEN {{r} : r \in doomed} ELSE {doomed} :
       \/ /\ batch \subseteq rows
          /\ rows' = rows \ batch /\ doomed' = doomed \ batch
          /\ at' = IF doomed' = {} THEN "merge" ELSE "delete"
          /\ UNCHANGED <<heard, locked, before, seen, merging, wrote>>
       \/ /\ ~(batch \subseteq rows) /\ Plan.stale
          /\ at' = "merge" /\ doomed' = {}
          /\ UNCHANGED <<rows, heard, locked, before, seen, merging, wrote>>
       \/ ~(batch \subseteq rows) /\ ~Plan.stale /\ Return /\ UNCHANGED rows
  /\ UNCHANGED <<function, tasks, log, whole, mangos, changes>>

\* The rows after a listed resource is stored.
Stored(r) ==
  IF Plan.finds = "first" /\ rows # {}
  THEN {(rows \ {first}) \cup {r} : first \in IF r \in rows THEN {r} ELSE rows}
  ELSE {rows \cup {r}}

\* dis_add_update_db
Merge(r) ==
  /\ at = "merge" /\ r \in merging
  /\ whole \/ Plan.partial = {}
  /\ rows' \in Stored(r)
  /\ merging' = merging \ {r}
  /\ UNCHANGED <<function, tasks, log, whole, mangos, at, heard, locked, before, seen,
                 doomed, wrote, changes>>

PassOver(r) ==
  /\ at = "merge" /\ r \in merging
  /\ ~whole /\ Plan.partial \cap {"skips", "hides"} # {}
  /\ merging' = merging \ {r}
  /\ UNCHANGED <<function, tasks, rows, log, whole, mangos, at, heard, locked, before, seen,
                 doomed, wrote, changes>>

\* What it refers to is missing, its row has gone since it was read, or it would
\* take the name of another row.
Raise(r) ==
  /\ at = "merge" /\ r \in merging
  /\ \/ ~whole /\ "stops" \in Plan.partial
     \/ r \in wrote \ rows
     \/ Plan.finds = "first" /\ r \in rows /\ rows # {r}
  /\ Return
  /\ UNCHANGED <<function, tasks, rows, log, whole, mangos, changes>>

GoOn ==
  /\ at = "merge" /\ merging = {}
  /\ \/ /\ Plan.prune \in {"list", "item"} /\ heard \ seen # {}
        /\ at' = "prune"
        /\ UNCHANGED <<heard, locked, before, seen, doomed, merging, wrote>>
     \/ (Plan.prune \in {"list", "item"} => heard \subseteq seen) /\ Return
  /\ UNCHANGED <<function, tasks, rows, log, whole, mangos, changes>>

Discover ==
  \/ Begin \/ ReadLog \/ ChooseDoomed \/ NothingToPrune \/ DeleteDoomed \/ GoOn
  \/ \E r \in Resources : Merge(r) \/ PassOver(r) \/ Raise(r)

Next ==
  \/ Discover
  \/ \E r \in Resources :
       \/ CreateAtProvider(r) \/ RecordCreation(r) \/ RecordUpdate(r)
       \/ DeleteAtProvider(r) \/ RecordDeletion(r) \/ ChangeOutside(r)
  \/ LoseParent \/ FindParent \/ NextMinute \/ MangosSyncs

\* The passes are started every minute, mangos and the clock go on, a task
\* that has reached the provider records it, the rows of the other kinds are
\* discovered as these are.
Fairness ==
  /\ WF_vars(Discover) /\ WF_vars(MangosSyncs) /\ WF_vars(NextMinute) /\ WF_vars(FindParent)
  /\ WF_vars(\E r \in Resources : RecordCreation(r) \/ RecordDeletion(r))

Spec == Init /\ [][Next]_vars /\ Fairness

----------------------------------------------------------------------------
\* What discovery should and should not do.

ByDiscovery == creating' = creating /\ deleting' = deleting

\* A function that reads the log now is told so of r: none of the entries made in
\* the same minute says otherwise.
Told(r, status) == log[r].statuses = {status}

\* The functions that read the entries which the tasks write, and those that
\* prune against all that mangos lists and never give a row to another resource.
ReadsLog == Plan.log \in {"apart", "within"}
PrunesUnlisted ==
  Plan.prune \in {"once", "each"} /\ "hides" \notin Plan.partial /\ Plan.finds = "own"

\* A row that discovery removes is of a resource that was not listed, and that
\* no task is known to have created since.
RemovalIsDue ==
  ByDiscovery =>
    \A r \in rows \ rows' : r \notin heard /\ (Told(r, "ADDED") => r \in wrote)

\* A row that discovery adds is of a resource that no task is known to have
\* deleted since.
AdditionIsDue ==
  ByDiscovery => \A r \in rows' \ rows : Told(r, "DELETED") => r \in wrote

\* What tasks have created, and what mangos lists, keeps its row.  The disks of
\* dedicated hosts are the exception: those deleted are spared, not those created.
RowsAreKept ==
  [][ReadsLog /\ PrunesUnlisted /\ Plan # update_dedicated_host_disks => RemovalIsDue]_vars

\* What tasks have deleted does not come back from a list that is older.
DeletionsStand == [][ReadsLog => AdditionIsDue]_vars

\* Once nobody changes anything the rows are the provider's resources for good.
Settles == <>[](rows = cloud)
=============================================================================

---------------------------- MODULE StateRecords ----------------------------
(***************************************************************************)
(* What the project's database says about devices and about the resources  *)
(* that run on them.  Devices are registered, checked over SSH and removed *)
(* by the daemon, the command line and the terminal interface, each in its *)
(* own way.  A reconciliation reads the generated manifests, asks Docker   *)
(* here and on every device a manifest names, and replaces the recorded    *)
(* resources; the daemon reconciles when it starts, and every refresh of   *)
(* the terminal interface does.  A device may be out of reach.             *)
(***************************************************************************)
EXTENDS Nothing, Naturals, FiniteSets

CONSTANTS
  DeviceNames, DeviceHosts,
  Projects,     \* deployments
  Here,         \* the implicit local device
  Observers,    \* processes that reconcile
  Latest,       \* SCHEMA_VERSION of the newest release
  MaxFailures   \* how often a device goes out of reach

VARIABLES
  registry,   \* the devices table: the host of a device and the host its check is about
  probed,     \* an SSH check that has not been recorded: its name and host, or None
  placed,     \* the places an authored definition puts instances on, or None
  generated,  \* the places the generated manifest names, or None
  resources,  \* the resources there are: deployment and place
  reachable,  \* the devices that answer
  failures,   \* how often a device went out of reach, bounded by MaxFailures
  records,    \* the active rows of the resources table
  observer,   \* each reconciliation
  schema,     \* the version of the database
  backups     \* the versions of the backups

rvars == <<registry, probed, placed, generated, resources, reachable, failures, records, observer,
           schema, backups>>
dbvars == <<registry, probed, placed, generated, resources, reachable, failures>>

Everywhere == DeviceNames \cup {Here}

NotRegistered == [host |-> None, checked |-> None]
Resting == [pc |-> "idle", left |-> {}, seen |-> {}, lost |-> {}, read |-> {}, kept |-> {}]

RecordsInit ==
  /\ registry = [n \in DeviceNames |-> NotRegistered] /\ probed = None
  /\ placed = [p \in Projects |-> {Here}] /\ generated = [p \in Projects |-> None]
  /\ resources = {} /\ reachable = DeviceNames /\ failures = 0 /\ records = {}
  /\ observer = [o \in Observers |-> Resting]
  /\ schema \in 1 .. Latest /\ backups = {}

-----------------------------------------------------------------------------
(* A process that finds an older database copies it and then migrates it in  *)
(* one transaction; a release refuses a newer one.                           *)
backup_database ==
  /\ schema < Latest
  /\ schema \notin backups
  /\ backups' = backups \cup {schema}
  /\ UNCHANGED <<dbvars, records, observer, schema>>

open ==
  /\ schema < Latest /\ schema \in backups
  /\ schema' = Latest
  /\ UNCHANGED <<dbvars, records, observer, backups>>

Opened == schema = Latest

-----------------------------------------------------------------------------
validate_device(n, h) == n # Here /\ h \in DeviceHosts

register_device(n, h) ==
  /\ Opened /\ validate_device(n, h) /\ registry[n] = NotRegistered
  /\ registry' = [registry EXCEPT ![n] = [host |-> h, checked |-> None]]
  /\ UNCHANGED <<probed, placed, generated, resources, reachable, failures, records, observer, schema, backups>>

PostDevice(n, h) == register_device(n, h)
DeviceAdd(n, h) == register_device(n, h)

(* The terminal interface checks a device before it saves it.                *)
ProbeDevice(n, h) ==
  /\ Opened /\ validate_device(n, h) /\ registry[n] = NotRegistered
  /\ registry' = [registry EXCEPT ![n] = [host |-> h, checked |-> h]]
  /\ UNCHANGED <<probed, placed, generated, resources, reachable, failures, records, observer, schema, backups>>

(* A definition that was deleted is known by what was generated from it.     *)
device_placements(n) ==
  {p \in Projects : IF placed[p] # None THEN n \in placed[p]
                    ELSE generated[p] # None /\ n \in generated[p]}

deregister_device(n) ==
  /\ Opened /\ registry[n] # NotRegistered
  /\ registry' = [registry EXCEPT ![n] = NotRegistered]
  /\ UNCHANGED <<probed, placed, generated, resources, reachable, failures, records, observer, schema, backups>>

DeregisterUnplaced(n) == device_placements(n) = {} /\ deregister_device(n)

(* Without a daemon the command line removes the row and asks nobody; the    *)
(* interface asked the placements it showed.                                 *)
DeviceRemove(n) == deregister_device(n)
RemoveDevice(n) == deregister_device(n)

(* The store is not held while SSH runs; the result is written by name.      *)
check_device(n) ==
  /\ Opened /\ probed = None /\ registry[n] # NotRegistered
  /\ probed' = [name |-> n, host |-> registry[n].host]
  /\ UNCHANGED <<registry, placed, generated, resources, reachable, failures, records, observer, schema, backups>>

(* So do the command line and the interface, with a store of their own.      *)
DeviceCheck(n) == check_device(n)
CheckDevice(n) == check_device(n)

record_device_check ==
  /\ probed # None
  /\ probed' = None
  /\ registry' = IF registry[probed.name] = NotRegistered THEN registry
                 ELSE [registry EXCEPT ![probed.name].checked = probed.host]
  /\ UNCHANGED <<placed, generated, resources, reachable, failures, records, observer, schema, backups>>

-----------------------------------------------------------------------------
EditPlacements(p, places) ==
  /\ placed' = [placed EXCEPT ![p] = places]
  /\ placed' # placed
  /\ UNCHANGED <<registry, probed, generated, resources, reachable, failures, records, observer, schema, backups>>

(* An apply needs every device registered and answering; what an earlier     *)
(* apply left on other devices stays there.                                  *)
record_applied_snapshot(p) ==
  /\ Opened /\ placed[p] # None
  /\ \A n \in placed[p] \ {Here} : registry[n] # NotRegistered /\ n \in reachable
  /\ generated' = [generated EXCEPT ![p] = placed[p]]
  /\ resources' = resources \cup ({p} \X placed[p])
  /\ UNCHANGED <<registry, probed, placed, reachable, failures, records, observer, schema, backups>>

TakeDown(p) ==
  /\ generated[p] # None /\ generated[p] \ {Here} \subseteq reachable
  /\ resources' = resources \ ({p} \X generated[p])
  /\ resources' # resources
  /\ UNCHANGED <<registry, probed, placed, generated, reachable, failures, records, observer, schema, backups>>

ReachChanges(n) ==
  /\ IF n \in reachable THEN failures < MaxFailures /\ failures' = failures + 1 ELSE UNCHANGED failures
  /\ reachable' = IF n \in reachable THEN reachable \ {n} ELSE reachable \cup {n}
  /\ UNCHANGED <<registry, probed, placed, generated, resources, records, observer, schema, backups>>

-----------------------------------------------------------------------------
With(o, r) ==
  /\ observer' = [observer EXCEPT ![o] = r]
  /\ UNCHANGED <<dbvars, schema, backups>>

(* Docker here is asked leniently: a listing that fails counts as empty.     *)
observe_docker == {resources \cap (Projects \X {Here}), {}}

(* The deployments that have a manifest.                                     *)
load_generated == {p \in Projects : generated[p] # None}

reconcile_project(o) ==
  /\ Opened /\ observer[o].pc = "idle"
  /\ \E local \in observe_docker :
       With(o, [Resting EXCEPT !.pc = "asking",
                   !.left = UNION {{p} \X (generated[p] \ {Here}) : p \in load_generated},
                   !.seen = {x \in local : x[1] \in load_generated}])
  /\ UNCHANGED records

(* A device that fails any of the questions is out of reach as a whole.      *)
observe_docker_on(o, p, n) ==
  /\ observer[o].pc = "asking" /\ <<p, n>> \in observer[o].left
  /\ With(o, [observer[o] EXCEPT !.left = @ \ {<<p, n>>},
                 !.seen = IF n \in reachable THEN @ \cup (resources \cap {<<p, n>>}) ELSE @,
                 !.lost = IF n \in reachable THEN @ ELSE @ \cup {n}])
  /\ UNCHANGED records

active_resources(o) == {x \in records : x[2] \in observer[o].lost}

(* Mutant: nothing is preserved.                                             *)
ReadsNothing(o) ==
  /\ observer[o].pc = "asking" /\ observer[o].left = {}
  /\ With(o, [observer[o] EXCEPT !.pc = "storing", !.read = records, !.kept = {}])
  /\ UNCHANGED records

(* The rows of unreachable devices are read before the transaction begins.   *)
preserved_unreachable(o) ==
  /\ observer[o].pc = "asking" /\ observer[o].left = {}
  /\ With(o, [observer[o] EXCEPT !.pc = "storing", !.read = records, !.kept = active_resources(o)])
  /\ UNCHANGED records

reconcile(o) ==
  /\ observer[o].pc = "storing"
  /\ records' = observer[o].seen \cup observer[o].kept
  /\ With(o, Resting)

ObserverDies(o) == observer[o].pc # "idle" /\ With(o, Resting) /\ UNCHANGED records

RecordsNext ==
  \/ backup_database \/ open
  \/ \E n \in DeviceNames :
       \/ \E h \in DeviceHosts : PostDevice(n, h) \/ DeviceAdd(n, h) \/ ProbeDevice(n, h)
       \/ DeregisterUnplaced(n) \/ DeviceRemove(n) \/ RemoveDevice(n)
       \/ check_device(n) \/ DeviceCheck(n) \/ CheckDevice(n) \/ ReachChanges(n)
  \/ record_device_check
  \/ \E p \in Projects :
       \/ \E places \in {{Here}, Everywhere, None} : EditPlacements(p, places)
       \/ record_applied_snapshot(p) \/ TakeDown(p)
  \/ \E o \in Observers :
       \/ reconcile_project(o) \/ preserved_unreachable(o) \/ reconcile(o) \/ ObserverDies(o)
       \/ \E p \in Projects, n \in DeviceNames : observe_docker_on(o, p, n)

RecordsSpec == RecordsInit /\ [][RecordsNext]_rvars

-----------------------------------------------------------------------------
(* A reconciliation forgets a resource on a device only after it asked the   *)
(* device, or because no manifest names the device for the deployment: the   *)
(* record of a resource on a device out of reach is retained, unless another *)
(* reconciliation stored its own picture since the records were read.        *)
LostDevicesKeepTheirRecords ==
  [][\A o \in Observers, x \in records \ records' :
       /\ observer[o].pc = "storing" /\ observer'[o].pc = "idle"
       /\ x[2] \in observer[o].lost
       => observer[o].read # records]_rvars

=============================================================================

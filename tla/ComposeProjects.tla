--------------------------- MODULE ComposeProjects ---------------------------
(***************************************************************************)
(* The Compose projects of one deployment (DockerRuntime in                *)
(* crates/apmpr-cli/src/runtime.rs): one on the local Docker daemon and    *)
(* one on each remote device of the plan.  Docker is its labelled          *)
(* resources: for each place, the resource hashes carried by containers    *)
(* and networks, and those carried by volumes.  The operators below are    *)
(* the Docker side of the steps that DeploymentRuntime orders.             *)
(***************************************************************************)
EXTENDS Nothing, Naturals, Sequences, Functions

CONSTANTS
  Devices,    \* the registered remote devices
  Plans,      \* the plans that the authored definition may give
  Ports       \* the loopback ports that Docker may publish a service on

(* A plan is [hash, remotes, local, host, names, tail]: its resource hash,  *)
(* the sequence of its devices, whether local services exist, whether a     *)
(* host router is configured, the .local names it publishes, and whether it *)
(* asks for the tailnet record.  Plans differ in their definition hash.     *)
Local == "local"
Places == Devices \cup {Local}
VARIABLES
  manifest,     \* the resource hash in manifest.json, or None
  topology,     \* of each place, the hashes on containers and networks
  volumes,      \* of each place, the hashes on volumes
  foreign,      \* the places whose project has a container without our labels
  unreachable,  \* the places whose Docker daemon does not answer now
  ports         \* where the local services are published now

dockerVars == <<topology, volumes, foreign, ports>>
composeVars == <<manifest, dockerVars, unreachable>>

DockerInit ==
  /\ manifest = None
  /\ topology = [p \in Places |-> {}]
  /\ volumes = [p \in Places |-> {}]
  /\ foreign \in {{}} \cup {{p} : p \in Places}
  /\ unreachable = {}
  /\ ports \in Ports

-----------------------------------------------------------------------------
(* status and refuse_runtime_drift.                                         *)

Remotes(plan) == Range(plan.remotes)

Eligible(plan) == Remotes(plan) \cap unreachable = {}

(* discover_plan: the local daemon must answer; a device that does not is   *)
(* an observation of its own.                                               *)
Observed(plan) == {Local} \cup (Remotes(plan) \ unreachable)

IsActive(plan) ==
  \E p \in Observed(plan) : topology[p] # {} \/ p \in foreign

(* The hashes that are compared with the manifest: those of the volumes     *)
(* only when there is nothing else.                                         *)
ObservedHashes(plan) ==
  IF \E p \in Observed(plan) : topology[p] # {}
    THEN UNION {topology[p] : p \in Observed(plan)}
    ELSE UNION {volumes[p] : p \in Observed(plan)}

(* DeploymentStatus::from_observation; an unreachable device makes the      *)
(* answer Unknown.                                                          *)
Drift(plan) ==
  IF Remotes(plan) \cap unreachable # {} THEN "unknown"
  ELSE IF Observed(plan) \cap foreign # {} THEN "drifted"
  ELSE IF ObservedHashes(plan) = {} THEN "not running"
  ELSE IF manifest = None THEN "unknown"
  ELSE IF ObservedHashes(plan) = {manifest} THEN "in sync" ELSE "drifted"

RefusedForDrift(plan) ==
  IsActive(plan) /\ Drift(plan) \in {"drifted", "unknown"}

-----------------------------------------------------------------------------
(* up_project and down_project of one place.                                *)

UpOrder(plan) == plan.remotes \o (IF plan.local THEN <<Local>> ELSE <<>>)

Reversed(s) == [i \in 1..Len(s) |-> s[Len(s) + 1 - i]]

DownOrder(plan) ==
  (IF plan.local THEN <<Local>> ELSE <<>>) \o Reversed(plan.remotes)

(* discover_compose_project and verify_ownership come before any change.    *)
MayChange(place) == place \notin unreachable /\ place \notin foreign

(* Volumes keep the labels that they were created with.                     *)
WithVolume(plan, place) ==
  [volumes EXCEPT ![place] = IF @ = {} THEN {plan.hash} ELSE @]

(* compose up: everything carries the plan's hash, orphans are removed,     *)
(* and recreated containers may be published on other ports.                *)
ComposeUp(plan, place) ==
  /\ MayChange(place)
  /\ topology' = [topology EXCEPT ![place] = {plan.hash}]
  /\ volumes' = WithVolume(plan, place)
  /\ IF place = Local THEN ports' \in Ports ELSE UNCHANGED ports
  /\ UNCHANGED <<foreign, unreachable>>

(* compose build or up fails, with none, some or all containers recreated.  *)
ComposeUpFails(plan, place) ==
  /\ MayChange(place)
  /\ \E left \in {topology[place], topology[place] \cup {plan.hash}, {plan.hash}} :
       topology' = [topology EXCEPT ![place] = left]
  /\ volumes' \in {volumes, WithVolume(plan, place)}
  /\ IF place = Local THEN ports' \in Ports ELSE UNCHANGED ports
  /\ UNCHANGED <<foreign, unreachable>>

ComposeDown(place, withVolumes) ==
  /\ MayChange(place)
  /\ topology' = [topology EXCEPT ![place] = {}]
  /\ volumes' = IF withVolumes THEN [volumes EXCEPT ![place] = {}] ELSE volumes
  /\ UNCHANGED <<foreign, unreachable, ports>>

(* compose down fails, with or without the containers gone.                 *)
ComposeDownFails(place) ==
  /\ MayChange(place)
  /\ topology' \in {topology, [topology EXCEPT ![place] = {}]}
  /\ UNCHANGED <<volumes, foreign, unreachable, ports>>

(* Docker restarts and publishes the services elsewhere; a daemon goes away *)
(* or comes back.                                                           *)
Republish == /\ topology[Local] # {}
             /\ ports' \in Ports \ {ports}
             /\ UNCHANGED <<manifest, topology, volumes, foreign, unreachable>>

Unplug(place) == /\ place \notin unreachable
                 /\ unreachable' = unreachable \cup {place}
                 /\ UNCHANGED <<manifest, dockerVars>>

Replug(place) == /\ place \in unreachable
                 /\ unreachable' = unreachable \ {place}
                 /\ UNCHANGED <<manifest, dockerVars>>

=============================================================================

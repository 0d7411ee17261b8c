-------------------------- MODULE DeploymentRuntime --------------------------
(***************************************************************************)
(* apmpr up, down and cleanup of one deployment (run in                    *)
(* crates/apmpr-cli/src/main.rs), over Docker, the host gateway and the    *)
(* publications.  Commands come one after another, as under the daemon's   *)
(* lease; a command may be killed between any two of its steps, as the     *)
(* daemon does when it cancels one, and the next begins where that left    *)
(* things.  Between the steps containers, gateways and publishers do as    *)
(* they like and the author edits the definition.                          *)
(***************************************************************************)
EXTENDS HostGateway, Publications

CONSTANT MaxFaults   \* bound on kills, failures and accidents

VARIABLES
  authored,   \* the plan that the definition gives now
  cmd,        \* the last command: [op, plan, token]
  pc,         \* its next step, or "idle"
  todo,       \* the places still to bring up or tear down
  stopping,   \* the publishers that stop_publishers still has to visit
  onQuiet,    \* the step after the publishers are stopped
  onStop,     \* the step after the gateway is stopped
  child,      \* the gateway or publisher that was spawned last, or None
  clean,      \* teardown has met no error so far
  outcome,    \* the op if the last command reported success, else "none"
  faults

(* A plan names registered devices and known names; nothing is no hash and  *)
(* no record.                                                               *)
ASSUME RuntimeAssumption ==
  /\ \A plan \in Plans :
       plan.hash # None /\ plan.remotes \in Seq(Devices) /\ plan.names \subseteq Names
  /\ None \notin [proc : Gateways, plan : Plans, executable : Binaries]
  /\ None \notin [plan : Plans, pubs : SUBSET Publishers]

cliVars == <<cmd, pc, todo, stopping, onQuiet, onStop, child, clean, outcome>>
runtimeVars == <<composeVars, gatewayVars, publicationVars, authored, cliVars, faults>>

RuntimeInit ==
  /\ DockerInit /\ GatewayInit /\ PublicationInit
  /\ authored \in Plans
  /\ cmd = [op |-> "down", plan |-> authored, token |-> FALSE]
  /\ pc = "idle" /\ todo = <<>> /\ stopping = {}
  /\ onQuiet = "idle" /\ onStop = "idle" /\ child = None
  /\ clean = TRUE /\ outcome = "none" /\ faults = 0

-----------------------------------------------------------------------------
planned == cmd.plan

(* The next step, and nothing else of the command.                          *)
Goto(step) == /\ pc' = step
              /\ UNCHANGED <<cmd, todo, stopping, onQuiet, onStop, child, clean, outcome>>

(* The command ends: what it kept in memory is gone.                        *)
End(result) ==
  /\ pc' = "idle" /\ outcome' = result
  /\ todo' = <<>> /\ stopping' = {} /\ child' = None
  /\ onQuiet' = "idle" /\ onStop' = "idle" /\ clean' = TRUE
  /\ UNCHANGED cmd

Fail == End("none")

(* Begin HostRuntime::stop, to go on with a step.                           *)
StopThen(step) ==
  /\ pc' = "unpublish" /\ onStop' = step
  /\ UNCHANGED <<cmd, todo, stopping, onQuiet, child, clean, outcome>>

(* Begin stop_publishers with a set of publishers, to go on with a step.    *)
QuietThen(pubs, step) ==
  /\ pc' = "quiet" /\ stopping' = pubs /\ onQuiet' = step
  /\ UNCHANGED <<cmd, todo, onStop, child, clean, outcome>>

Fault == faults < MaxFaults /\ faults' = faults + 1

docker == <<composeVars, authored>>
files == <<gatewayVars, publicationVars>>

(* down and cleanup begin with the gateway.                                 *)
Begin(op, token) ==
  /\ pc = "idle"
  /\ cmd' = [op |-> op, plan |-> authored, token |-> token]
  /\ outcome' = "none"
  /\ IF op = "up"
       THEN pc' = "eligible" /\ onStop' = "idle"
       ELSE pc' = "unpublish" /\ onStop' = IF op = "cleanup" THEN "wipe" ELSE "teardown"
  /\ todo' = IF op = "up" THEN <<>> ELSE DownOrder(authored)
  /\ UNCHANGED <<stopping, onQuiet, child, clean, docker, files, faults>>

-----------------------------------------------------------------------------
(* up: the checks, the generated files and the Compose projects.            *)

CheckEligible ==
  /\ pc = "eligible"
  /\ IF Eligible(planned) THEN Goto("drift") ELSE Fail
  /\ UNCHANGED <<docker, files, faults>>

CheckDrift ==
  /\ pc = "drift"
  /\ IF Local \in unreachable \/ RefusedForDrift(planned) THEN Fail ELSE Goto("token")
  /\ UNCHANGED <<docker, files, faults>>

CheckToken ==
  /\ pc = "token"
  /\ IF NeedsToken(planned) /\ ~cmd.token THEN Fail ELSE Goto("write")
  /\ UNCHANGED <<docker, files, faults>>

(* write_plan, and then DockerRuntime::up, which asks the devices again.    *)
WritePlan ==
  /\ pc = "write"
  /\ manifest' = planned.hash
  /\ IF Eligible(planned)
       THEN /\ pc' = "compose" /\ todo' = UpOrder(planned)
            /\ UNCHANGED <<cmd, stopping, onQuiet, onStop, child, clean, outcome>>
       ELSE Fail
  /\ UNCHANGED <<dockerVars, unreachable, authored, files, faults>>

WritePlanFails ==
  /\ pc = "write" /\ Fault
  /\ manifest' \in {manifest, planned.hash}
  /\ Fail
  /\ UNCHANGED <<dockerVars, unreachable, authored, files>>

UpProject ==
  /\ pc = "compose" /\ todo # <<>>
  /\ ComposeUp(planned, Head(todo))
  /\ todo' = Tail(todo)
  /\ UNCHANGED <<cmd, pc, stopping, onQuiet, onStop, child, clean, outcome>>
  /\ UNCHANGED <<manifest, authored, files, faults>>

UpProjectRefused ==
  /\ pc = "compose" /\ todo # <<>>
  /\ ~MayChange(Head(todo))
  /\ Fail
  /\ UNCHANGED <<docker, files, faults>>

UpProjectFails ==
  /\ pc = "compose" /\ todo # <<>> /\ Fault
  /\ ComposeUpFails(planned, Head(todo))
  /\ Fail
  /\ UNCHANGED <<manifest, authored, files>>

(* probe_externals.                                                         *)
ProbeExternals ==
  /\ pc = "compose" /\ todo = <<>>
  /\ \/ Goto("host") /\ UNCHANGED faults
     \/ Fail /\ Fault
  /\ UNCHANGED <<docker, files>>

-----------------------------------------------------------------------------
(* HostRuntime::start.                                                      *)

(* A gateway that lives is stopped; the files of one that does not go.      *)
recover_for_restart ==
  \/ Owned /\ StopThen("launch")
  \/ /\ ~Owned
     /\ pc' = "unsocket" /\ onStop' = "launch"
     /\ UNCHANGED <<cmd, todo, stopping, onQuiet, child, clean, outcome>>

Host ==
  /\ pc = "host"
  /\ LET status == GatewayStatus(planned)
     IN IF ~planned.host
          THEN IF status = "not configured" THEN Goto("lan") ELSE StopThen("wipe")
          ELSE CASE status = "running" ->
                      IF ~Resolves(planned) THEN Fail
                      ELSE IF config = Desired(planned) THEN Goto("lan") ELSE StopThen("launch")
                 [] status = "drifted" -> recover_for_restart
                 [] OTHER -> Goto("launch")
  /\ UNCHANGED <<docker, files, faults>>

(* The token, the ports and missing files are required before the spawn.    *)
Launch ==
  /\ pc = "launch"
  /\ IF cmd.token /\ Resolves(planned) /\ state = None /\ ~socket
       THEN /\ SpawnGateway(planned)
            /\ pc' = "spawned"
            /\ child' = CHOOSE g \in Gateways : gate[g] \notin Alive
            /\ UNCHANGED <<cmd, todo, stopping, onQuiet, onStop, clean, outcome>>
       ELSE Fail /\ UNCHANGED gatewayVars
  /\ UNCHANGED <<docker, publicationVars, faults>>

(* No router executable: the configuration is written all the same.         *)
LaunchFails ==
  /\ pc = "launch" /\ Fault
  /\ cmd.token /\ Resolves(planned) /\ state = None /\ ~socket
  /\ config' = Desired(planned)
  /\ Fail
  /\ UNCHANGED <<router, state, socket, gate, serves, victims, strays, docker, publicationVars>>

(* write_state, once the process shows its start time and executable.       *)
Record ==
  /\ pc = "spawned"
  /\ Identified(child)
  /\ RecordGateway(child, planned)
  /\ Goto("waiting")
  /\ UNCHANGED <<docker, publicationVars, faults>>

(* It has exited already, runs something else, or cannot be recorded.       *)
RecordFails ==
  /\ pc = "spawned"
  /\ IF Identified(child) THEN Fault ELSE UNCHANGED faults
  /\ KillGateway(child)
  /\ Goto("abandon")
  /\ UNCHANGED <<docker, publicationVars>>

GatewayReady ==
  /\ pc = "waiting"
  /\ gate[child] \in Alive /\ Ready
  /\ Goto("lan")
  /\ UNCHANGED <<docker, files, faults>>

(* The process exits, or is not ready after 10 s and is killed.             *)
GiveUp ==
  /\ pc = "waiting"
  /\ ~Ready \/ gate[child] \notin Alive
  /\ KillGateway(child)
  /\ Goto("abandon")
  /\ UNCHANGED <<docker, publicationVars, faults>>

(* cleanup_startup_artifacts.                                               *)
Abandon ==
  /\ pc = "abandon"
  /\ IF socket THEN RemoveSocket /\ Goto("abandon")
               ELSE RemoveState /\ Fail
  /\ UNCHANGED <<docker, publicationVars, faults>>

-----------------------------------------------------------------------------
(* HostRuntime::stop and cleanup.                                           *)

Unpublish ==
  /\ pc = "unpublish"
  /\ ForgetTailnet
  /\ QuietThen(Recorded, "term")
  /\ UNCHANGED <<docker, gatewayVars, faults>>

Quiet ==
  /\ pc = "quiet"
  /\ IF stopping # {}
       THEN LET pub == CHOOSE p \in stopping : TRUE
            IN /\ StopPublisher(pub)
               /\ stopping' = stopping \ {pub}
               /\ UNCHANGED <<cmd, pc, todo, onQuiet, onStop, child, clean, outcome>>
       ELSE /\ ForgetPublishers
            /\ IF onQuiet = "idle" THEN Fail ELSE Goto(onQuiet)
  /\ UNCHANGED <<docker, gatewayVars, faults>>

(* A publisher that ignored SIGTERM stops before SIGKILL, and the changed   *)
(* identity is an error: stop keeps the state file, while a failed start    *)
(* removes it although the other publishers were not visited.               *)
QuietFails ==
  /\ pc = "quiet" /\ Fault
  /\ \E pub \in stopping \cap publishers :
       LET lost == IF onQuiet = "idle" THEN stopping \ {pub} ELSE {}
       IN /\ publishers' = publishers \ (lost \cup {pub})
          /\ loose' = loose \cup {p[1] : p \in lost \cap publishers}
  /\ mdns' = IF onQuiet = "idle" THEN None ELSE mdns
  /\ Fail
  /\ UNCHANGED <<tailnet, docker, gatewayVars>>

(* Mutant: only the gateway of a plan that has one is stopped.              *)
TermConfigured ==
  /\ pc = "term"
  /\ IF Owned /\ planned.host THEN Terminate /\ Goto("termed")
       ELSE /\ Goto(IF state = None THEN onStop ELSE "unsocket")
            /\ UNCHANGED gatewayVars
  /\ UNCHANGED <<docker, publicationVars, faults>>

(* A gateway that lives is sent SIGTERM; without a record nothing is done.  *)
Term ==
  /\ pc = "term"
  /\ IF Owned THEN Terminate /\ Goto("termed")
              ELSE /\ Goto(IF state = None THEN onStop ELSE "unsocket")
                   /\ UNCHANGED gatewayVars
  /\ UNCHANGED <<docker, publicationVars, faults>>

Termed ==
  /\ pc = "termed"
  /\ ~Owned
  /\ Goto("unsocket")
  /\ UNCHANGED <<docker, files, faults>>

(* It has not stopped within 5 s and is killed ...                          *)
KillTermed ==
  /\ pc = "termed"
  /\ Owned
  /\ KillGateway(state.proc)
  /\ Goto("termed")
  /\ UNCHANGED <<docker, publicationVars, faults>>

(* ... or it stops just then, and the changed identity is an error.         *)
KillRefused ==
  /\ pc = "termed"
  /\ ~Owned /\ Fault
  /\ Fail
  /\ UNCHANGED <<docker, files>>

(* remove_state_files: the socket, then the state.                          *)
Unsocket ==
  /\ pc = "unsocket"
  /\ RemoveSocket
  /\ Goto("unstate")
  /\ UNCHANGED <<docker, publicationVars, faults>>

Unstate ==
  /\ pc = "unstate"
  /\ RemoveState
  /\ Goto(onStop)
  /\ UNCHANGED <<docker, publicationVars, faults>>

(* cleanup, after stop: an orphaned socket goes, and last the configuration. *)
Wipe ==
  /\ pc = "wipe"
  /\ IF socket THEN RemoveSocket /\ Goto("wipe")
       ELSE RemoveConfig /\ Goto(IF cmd.op = "up" THEN "lan" ELSE "teardown")
  /\ UNCHANGED <<docker, publicationVars, faults>>

-----------------------------------------------------------------------------
(* LanRuntime::start and TailscaleRuntime::start.                           *)

Lan ==
  /\ pc = "lan"
  /\ IF desired_publications(planned) = {} THEN QuietThen(Recorded, "tail")
     ELSE IF Publishes(planned) THEN Goto("tail") ELSE QuietThen(Recorded, "publish")
  /\ UNCHANGED <<docker, files, faults>>

Missing == desired_publications(planned) \ {pub[1] : pub \in Recorded}

Publish ==
  /\ pc = "publish" /\ Missing # {}
  /\ LET name == CHOOSE n \in Missing : TRUE
         pub == CHOOSE p \in Publishers : p[1] = name /\ p \notin publishers
     IN /\ SpawnPublisher(pub)
        /\ child' = pub
  /\ pc' = "published"
  /\ UNCHANGED <<cmd, todo, stopping, onQuiet, onStop, clean, outcome>>
  /\ UNCHANGED <<docker, gatewayVars, faults>>

(* No Avahi, or no interface that the LAN reaches.                          *)
PreflightFails ==
  /\ pc = "publish" /\ Recorded = {} /\ Fault
  /\ Fail
  /\ UNCHANGED <<docker, files>>

(* A publisher exits at once.                                               *)
PublishFails ==
  /\ pc = "publish" /\ Fault
  /\ QuietThen(Recorded, "idle")
  /\ UNCHANGED <<docker, files>>

Published ==
  /\ pc = "published"
  /\ \/ RecordPublisher(planned, child) /\ Goto("publish") /\ UNCHANGED faults
     \/ /\ Fault /\ QuietThen(Recorded \cup {child}, "idle")
        /\ UNCHANGED publicationVars
  /\ UNCHANGED <<docker, gatewayVars>>

(* The last write_state, with the checks.                                   *)
AllPublished ==
  /\ pc = "publish" /\ Missing = {}
  /\ \/ Goto("tail") /\ UNCHANGED faults
     \/ Fail /\ Fault
  /\ UNCHANGED <<docker, files>>

Tailnet ==
  /\ pc = "tail"
  /\ \/ /\ IF configuration(planned) THEN RecordTailnet(planned) ELSE ForgetTailnet
        /\ End("up") /\ UNCHANGED faults
     \/ configuration(planned) /\ Fault /\ Fail /\ UNCHANGED publicationVars
  /\ UNCHANGED <<docker, gatewayVars>>

-----------------------------------------------------------------------------
(* teardown_projects: every project is tried, whatever the others do.       *)

DownProject ==
  /\ pc = "teardown" /\ todo # <<>>
  /\ ComposeDown(Head(todo), cmd.op = "cleanup")
  /\ todo' = Tail(todo)
  /\ UNCHANGED <<cmd, pc, stopping, onQuiet, onStop, child, clean, outcome>>
  /\ UNCHANGED <<manifest, authored, files, faults>>

(* Mutant: an error is forgotten when the next project succeeds.            *)
DownProjectForgotten ==
  /\ pc = "teardown" /\ todo # <<>>
  /\ ~MayChange(Head(todo))
  /\ todo' = Tail(todo)
  /\ UNCHANGED <<cmd, pc, stopping, onQuiet, onStop, child, clean, outcome>>
  /\ UNCHANGED <<docker, files, faults>>

DownProjectFails ==
  /\ pc = "teardown" /\ todo # <<>>
  /\ \/ ~MayChange(Head(todo)) /\ UNCHANGED <<dockerVars, unreachable, faults>>
     \/ ComposeDownFails(Head(todo)) /\ Fault
  /\ todo' = Tail(todo) /\ clean' = FALSE
  /\ UNCHANGED <<cmd, pc, stopping, onQuiet, onStop, child, outcome>>
  /\ UNCHANGED <<manifest, authored, files>>

DownEnds ==
  /\ pc = "teardown" /\ todo = <<>>
  /\ End(IF clean THEN cmd.op ELSE "none")
  /\ UNCHANGED <<docker, files, faults>>

-----------------------------------------------------------------------------
(* What happens around the command.                                         *)

(* The gateway and the publishers that only the command knows: it has       *)
(* spawned them and their record is not written.                            *)
OwnGateway == pc \in {"spawned", "abandon"} /\ state = None
OwnPublishers ==
  CASE pc = "published" -> {child}
    [] pc = "quiet" -> stopping \ Recorded
    [] OTHER -> {}

(* The command is killed, or one of its calls fails where the code returns  *)
(* the error and does no more, as when inspect_process cannot read /proc.   *)
Killed ==
  /\ pc # "idle" /\ Fault
  /\ IF OwnGateway THEN LoseGateway(child) ELSE UNCHANGED gatewayVars
  /\ LosePublishers(OwnPublishers)
  /\ Fail
  /\ UNCHANGED docker

Edit ==
  /\ pc = "idle"
  /\ authored' \in Plans \ {authored}
  /\ UNCHANGED <<composeVars, files, cliVars, faults>>

(* The next command finds another router binary than the last one did.      *)
Reinstall ==
  /\ pc = "idle" /\ Fault
  /\ Reconfigure
  /\ UNCHANGED <<docker, publicationVars, cliVars>>

(* A gateway serves, exits after SIGTERM, or has its pid reused, of itself. *)
GatewayMoves ==
  /\ \E g \in Gateways : GatewayServes(g) \/ GatewayExits(g) \/ PidReused(g)
  /\ UNCHANGED <<docker, publicationVars, cliVars, faults>>

Accident ==
  /\ Fault
  /\ \/ /\ \E g \in Gateways : GatewayDies(g)
        /\ UNCHANGED <<composeVars, publicationVars>>
     \/ /\ \E pub \in Publishers : PublisherDies(pub)
        /\ UNCHANGED <<composeVars, gatewayVars>>
     \/ /\ Republish \/ \E p \in Places : Unplug(p)
        /\ UNCHANGED files
  /\ UNCHANGED <<authored, cliVars>>

Repair ==
  /\ \E p \in Places : Replug(p)
  /\ UNCHANGED <<authored, files, cliVars, faults>>

UpStep == \/ CheckEligible \/ CheckDrift \/ CheckToken \/ WritePlan
          \/ UpProject \/ UpProjectRefused \/ ProbeExternals
HostStep == \/ Host \/ Launch \/ Record \/ RecordFails \/ GatewayReady \/ GiveUp \/ Abandon
            \/ Unpublish \/ Quiet \/ Term \/ Termed \/ KillTermed \/ Unsocket \/ Unstate
            \/ Wipe
PublishStep == Lan \/ Publish \/ Published \/ AllPublished \/ Tailnet
DownStep == DownProject \/ DownProjectFails \/ DownEnds
FailStep == \/ WritePlanFails \/ UpProjectFails \/ LaunchFails \/ KillRefused
            \/ QuietFails \/ PreflightFails \/ PublishFails \/ Killed

CliStep == UpStep \/ HostStep \/ PublishStep \/ DownStep

RuntimeNext ==
  \/ \E op \in {"up", "down", "cleanup"}, token \in BOOLEAN : Begin(op, token)
  \/ CliStep \/ FailStep
  \/ Edit \/ Reinstall \/ GatewayMoves \/ Accident \/ Repair

RuntimeSpec == RuntimeInit /\ [][RuntimeNext]_runtimeVars

-----------------------------------------------------------------------------
(* When up reports that the deployment is healthy, every part of it was     *)
(* brought to the same plan: the manifest, the projects of all its places,  *)
(* the recorded gateway, the publishers and the tailnet record.  It is in   *)
(* sync, whatever volumes of earlier definitions it kept, so that the next  *)
(* up is not refused.                                                       *)
HealthyIsWhole ==
  outcome = "up" =>
    /\ manifest = planned.hash
    /\ \A p \in Range(UpOrder(planned)) : topology[p] = {planned.hash}
    /\ IF planned.host THEN state # None /\ state.plan = planned ELSE state = None
    /\ {pub[1] : pub \in Recorded} = planned.names
    /\ tailnet = IF planned.tail THEN planned ELSE None
    /\ unreachable = {} => Drift(planned) = "in sync"

(* When down or cleanup reports that the deployment is stopped, nothing of  *)
(* it runs: no container anywhere, no gateway and no publisher.  (For plans *)
(* with the same places: teardown_projects visits those of the plan only.)  *)
(* Excepted are the strays, which down has no record of or takes for a      *)
(* different process: a gateway or a publisher whose command was cut short  *)
(* before write_state, and a gateway of another binary than the configured  *)
(* one, whose state file down removes without a signal to it.               *)
StoppedMeansStopped ==
  outcome \in {"down", "cleanup"} =>
    /\ \A p \in Places : topology[p] = {}
    /\ Living \subseteq strays /\ publishers = {} /\ tailnet = None

(* A gateway or a publisher that lives is the recorded one, or the one that *)
(* the command has just spawned, so that the next command finds it, or it   *)
(* is a stray: whatever else fails or is killed, a process gets lost only   *)
(* by a command cut short between spawn and write_state, by a failing       *)
(* stop_publishers in a failed start, or by a changed router binary.  And   *)
(* as long as there is no stray a socket between commands belongs to a      *)
(* recorded gateway: down, which does nothing without a record, leaves none. *)
(* The configuration file, which up compares with what it wants, is the one *)
(* that a gateway other than a stray has read.                              *)
NothingIsLost ==
  /\ \A g \in Living \ strays :
       (state # None /\ state.proc = g) \/ (pc = "spawned" /\ child = g)
  /\ \A pub \in publishers : pub \in Recorded \cup stopping \/ (pc = "published" /\ child = pub)
  /\ pc = "idle" /\ socket => state # None \/ strays # {}
  /\ \A g \in Gateways \ strays : gate[g] = "serving" => serves[g] = config

(* Nothing that is not ours is touched: a project that holds a resource     *)
(* without our labels is never changed, and "Stale or reused PIDs are never *)
(* signaled" (docs/router.md).                                              *)
ForeignUntouched ==
  [][/\ \A p \in foreign : topology'[p] = topology[p] /\ volumes'[p] = volumes[p]
     /\ victims' = victims]_runtimeVars
=============================================================================

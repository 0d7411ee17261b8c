---------------------------- MODULE RuntimeProofs ----------------------------
(***************************************************************************)
(* Proofs about apmpr up, down and cleanup.                                *)
(*                                                                         *)
(* The views of the first part say what any step can be for Docker, for    *)
(* the gateway and for the publications.  From them follow, for every set  *)
(* of plans, devices, gateways and names and any number of faults:         *)
(*   ForeignStaysUntouched   what is not ours is never changed;            *)
(*   NothingGetsLost         every process that lives is on record;        *)
(*   HealthyIsOfOnePlan      up reports only what is whole;                *)
(*   StoppedIsStopped        down reports only what has stopped.           *)
(* The inductive invariant is RuntimeInv: CommandInv says through which    *)
(* steps a command goes, GatewayInv and PublisherInv where the record of a *)
(* process is behind the process, HomeInv, UpInv and DownInv what is done  *)
(* of the projects, DoneInv what is done of the gateway, and OutcomeInv    *)
(* what is left once a command has reported success.                       *)
(***************************************************************************)
EXTENDS DeploymentRuntime, TLAPS

-----------------------------------------------------------------------------
(* Types.                                                                   *)

GatewayRecords == [proc : Gateways, plan : Plans, executable : Binaries]
PublisherRecords == [plan : Plans, pubs : SUBSET Publishers]
Configs == [plan : Plans, ports : Ports]
Hashes == {plan.hash : plan \in Plans}

Quieted == {"term", "termed", "unsocket", "unstate", "wipe", "teardown"}
StopSteps == {"unpublish", "quiet", "term", "termed", "unsocket", "unstate", "wipe"}
UpSteps == {"compose", "host", "launch", "spawned", "waiting", "abandon", "lan", "publish",
            "published", "tail"}
Steps == {"idle", "eligible", "drift", "token", "write", "teardown"} \cup StopSteps \cup UpSteps

ComposeTypeOK ==
  /\ manifest \in Hashes \cup {None}
  /\ topology \in [Places -> SUBSET Hashes] /\ volumes \in [Places -> SUBSET Hashes]
  /\ foreign \subseteq Places /\ unreachable \subseteq Places /\ ports \in Ports

GatewayTypeOK ==
  /\ router \in Binaries
  /\ config \in Configs \cup {None} /\ state \in GatewayRecords \cup {None}
  /\ socket \in BOOLEAN
  /\ gate \in [Gateways -> Alive \cup {"none", "gone", "reused"}]
  /\ serves \in [Gateways -> Configs \cup {None}]

PublicationTypeOK ==
  /\ publishers \subseteq Publishers /\ mdns \in PublisherRecords \cup {None}
  /\ stopping \subseteq Publishers

CommandTypeOK ==
  /\ authored \in Plans
  /\ cmd \in [op : {"up", "down", "cleanup"}, plan : Plans, token : BOOLEAN]
  /\ pc \in Steps /\ todo \in Seq(Places)
  /\ onQuiet \in {"idle", "term", "tail", "publish"}
  /\ onStop \in {"idle", "launch", "wipe", "teardown"}
  /\ clean \in BOOLEAN /\ outcome \in {"none", "up", "down", "cleanup"}

(* Which steps a command of each kind goes through.                         *)
Course ==
  /\ outcome # "none" => pc = "idle" /\ outcome = cmd.op
  /\ cmd.op = "up" => pc # "teardown" /\ onStop # "teardown"
  /\ cmd.op # "up" => pc \in StopSteps \cup {"idle", "teardown"} /\ onStop # "launch"
  /\ cmd.op # "up" /\ pc = "quiet" => onQuiet = "term"
  /\ pc \in StopSteps /\ (pc = "quiet" => onQuiet = "term") => onStop # "idle"
  /\ cmd.op = "up" /\ onStop = "wipe" => ~planned.host
  /\ pc = "wipe" => onStop = "wipe"
  /\ onStop = "launch" \/ pc \in {"launch", "spawned", "waiting"} => planned.host

CommandInv == CommandTypeOK /\ Course

(* The gateway.  The ones that live and are no strays are on record.        *)
Tracked == Living \ strays
GatewayInv ==
  /\ \A g \in Tracked : (state # None /\ state.proc = g) \/ (pc = "spawned" /\ child = g)
  /\ socket => state # None \/ strays # {} \/ pc \in {"spawned", "abandon"}
  /\ \A g \in Gateways \ strays : gate[g] = "serving" => serves[g] = config
  /\ pc = "spawned" => state = None /\ child \in Gateways
  /\ pc = "waiting" => /\ child \in Gateways
                       /\ state = [proc |-> child, plan |-> planned, executable |-> router]
  /\ pc = "abandon" => Tracked = {}
  /\ pc \in {"unsocket", "unstate"} => ~Owned
  /\ pc = "unstate" /\ socket => strays \cup Disowned # {}
  /\ pc \in {"wipe", "teardown"} => state = None

(* The publishers.                                                          *)
RecordedNames == {pub[1] : pub \in Recorded}
PublisherInv ==
  /\ pc \notin {"quiet", "published"} => publishers \subseteq Recorded
  /\ pc = "quiet" => publishers \subseteq stopping
  /\ pc = "quiet" /\ onQuiet # "idle" => stopping \subseteq Recorded
  /\ pc = "published" => publishers \subseteq Recorded \cup {child} /\ child \in Publishers
  /\ pc = "published" => child[1] \in planned.names
  /\ pc \in {"publish", "published"} => RecordedNames \subseteq planned.names
  /\ pc = "quiet" /\ onQuiet = "tail" => planned.names = {}
  /\ pc = "tail" => RecordedNames = planned.names
  /\ cmd.op # "up" /\ pc \in Quieted =>
       mdns = None /\ publishers = {}
  /\ cmd.op # "up" /\ pc \in Quieted \cup {"quiet"} => tailnet = None

(* The gateway that up leaves.                                              *)
GatewayDone == IF planned.host THEN state # None /\ state.plan = planned ELSE state = None
AfterGateway ==
  pc \in {"lan", "publish", "published", "tail"} \/ (pc = "quiet" /\ onQuiet \in {"tail", "publish"})
DoneInv == AfterGateway => GatewayDone

(* The Compose projects: resources are where plans have them, and up and    *)
(* down have dealt with every place that is not left to do.                 *)
Homes(plan) == Range(UpOrder(plan))
HomeInv ==
  /\ \A plan \in Plans, p \in Places : topology[p] # {} => p \in Homes(plan)
  /\ cmd.op = "up" => Range(todo) \subseteq Homes(planned)

Before == {"idle", "eligible", "drift", "token", "write"}
UpInv ==
  /\ cmd.op = "up" /\ pc \notin {"idle", "eligible", "drift"} => Local \notin foreign
  /\ cmd.op = "up" /\ pc \notin Before =>
       /\ manifest = planned.hash
       /\ \A p \in Homes(planned) : (topology[p] = {planned.hash} /\ p \notin foreign) \/ p \in Range(todo)
       /\ pc # "compose" => todo = <<>>

DownInv ==
  cmd.op # "up" /\ pc # "idle" /\ clean =>
    \A p \in Places : topology[p] = {} \/ p \in Range(todo)

(* What up and down leave when they report success.                         *)
UpDone ==
  /\ manifest = planned.hash /\ Local \notin foreign
  /\ \A p \in Homes(planned) : topology[p] = {planned.hash} /\ p \notin foreign
  /\ GatewayDone /\ RecordedNames = planned.names
  /\ tailnet = IF planned.tail THEN planned ELSE None

DownDone ==
  /\ \A p \in Places : topology[p] = {}
  /\ Living \subseteq strays /\ publishers = {} /\ tailnet = None

OutcomeInv == (outcome = "up" => UpDone) /\ (outcome \in {"down", "cleanup"} => DownDone)

-----------------------------------------------------------------------------
(* What a step can be for Docker, for the gateway and for the publications. *)

ComposeStep ==
  \/ UNCHANGED composeVars
  \/ manifest' \in {manifest, planned.hash} /\ UNCHANGED <<dockerVars, unreachable>>
  \/ /\ todo # <<>> /\ UNCHANGED manifest
     /\ \/ pc = "compose" /\ (ComposeUp(planned, Head(todo)) \/ ComposeUpFails(planned, Head(todo)))
        \/ ComposeDown(Head(todo), cmd.op = "cleanup") \/ ComposeDownFails(Head(todo))
  \/ Republish \/ \E p \in Places : Unplug(p) \/ Replug(p)

GatewayStep ==
  \/ UNCHANGED gatewayVars
  \/ SpawnGateway(planned) \/ (pc = "spawned" /\ RecordGateway(child, planned))
  \/ /\ config' \in {None, Desired(planned)}
     /\ UNCHANGED <<router, state, socket, gate, serves, victims, strays>>
  \/ \E g : KillGateway(g) \/ LoseGateway(g)
  \/ Terminate \/ RemoveSocket \/ RemoveState
  \/ \E g \in Gateways : GatewayServes(g) \/ GatewayExits(g) \/ PidReused(g)
  \/ Reconfigure

PublicationStep ==
  \/ UNCHANGED publicationVars
  \/ publishers' \subseteq publishers /\ mdns' \in {mdns, None} /\ tailnet' = tailnet
  \/ \E pub : SpawnPublisher(pub) /\ pub = child'
  \/ pc = "published" /\ RecordPublisher(planned, child)
  \/ RecordTailnet(planned) \/ ForgetTailnet

LEMMA UpView ==
  ASSUME UpStep
  PROVE  ComposeStep /\ UNCHANGED <<gatewayVars, publicationVars>>
<1>1. CASE CheckEligible \/ CheckDrift \/ CheckToken \/ UpProjectRefused \/ ProbeExternals
  BY Zenon, <1>1 DEF CheckEligible, CheckDrift, CheckToken, UpProjectRefused, ProbeExternals, docker,
     files, ComposeStep
<1>2. CASE WritePlan
  BY Zenon, <1>2 DEF WritePlan, files, ComposeStep
<1>3. CASE UpProject
  BY Zenon, <1>3 DEF UpProject, files, ComposeStep
<1> QED
  BY Zenon, <1>1, <1>2, <1>3 DEF UpStep

LEMMA HostView ==
  ASSUME HostStep
  PROVE  GatewayStep /\ UNCHANGED composeVars /\ PublicationStep
<1> USE DEF docker, files
<1>1. CASE Host \/ GatewayReady \/ Termed
  BY Zenon, <1>1 DEF Host, GatewayReady, Termed, GatewayStep, PublicationStep
<1>2. CASE Launch
  BY Zenon, <1>2 DEF Launch, GatewayStep, PublicationStep
<1>3. CASE Record
  BY Zenon, <1>3 DEF Record, GatewayStep, PublicationStep
<1>4. CASE RecordFails \/ GiveUp
  BY Zenon, <1>4 DEF RecordFails, GiveUp, GatewayStep, PublicationStep
<1>5. CASE Abandon
  BY Zenon, <1>5 DEF Abandon, GatewayStep, PublicationStep
<1>6. CASE Unpublish
  BY Zenon, <1>6 DEF Unpublish, GatewayStep, PublicationStep
<1>7. CASE Quiet
  <2>1. UNCHANGED <<composeVars, gatewayVars>>
    BY Zenon, <1>7 DEF Quiet
  <2>2. (\E pub : StopPublisher(pub)) \/ ForgetPublishers
    BY Zenon, <1>7 DEF Quiet
  <2> QED
    BY Zenon, <2>1, <2>2 DEF GatewayStep, PublicationStep, StopPublisher, ForgetPublishers
<1>8. CASE Term
  BY Zenon, <1>8 DEF Term, GatewayStep, PublicationStep
<1>9. CASE KillTermed
  BY Zenon, <1>9 DEF KillTermed, GatewayStep, PublicationStep
<1>10. CASE Unsocket \/ Unstate
  BY Zenon, <1>10 DEF Unsocket, Unstate, GatewayStep, PublicationStep
<1>11. CASE Wipe
  <2>1. RemoveSocket \/ RemoveConfig
    BY Zenon, <1>11 DEF Wipe
  <2> QED
    BY Zenon, <1>11, <2>1 DEF Wipe, RemoveConfig, GatewayStep, PublicationStep
<1> QED
  BY Zenon, <1>1, <1>2, <1>3, <1>4, <1>5, <1>6, <1>7, <1>8, <1>9, <1>10, <1>11 DEF HostStep

LEMMA PublishView ==
  ASSUME PublishStep
  PROVE  PublicationStep /\ UNCHANGED <<composeVars, gatewayVars>>
<1> USE DEF docker, files
<1>1. CASE Lan \/ AllPublished
  BY Zenon, <1>1 DEF Lan, AllPublished, PublicationStep
<1>2. CASE Publish
  BY Zenon, <1>2 DEF Publish, PublicationStep
<1>3. CASE Published
  BY Zenon, <1>3 DEF Published, PublicationStep
<1>4. CASE Tailnet
  BY Zenon, <1>4 DEF Tailnet, PublicationStep
<1> QED
  BY Zenon, <1>1, <1>2, <1>3, <1>4 DEF PublishStep

LEMMA DownView ==
  ASSUME DownStep
  PROVE  ComposeStep /\ UNCHANGED <<gatewayVars, publicationVars>>
<1> USE DEF docker, files
<1>1. CASE DownProject
  BY Zenon, <1>1 DEF DownProject, ComposeStep
<1>2. CASE DownProjectFails
  BY Zenon, <1>2 DEF DownProjectFails, ComposeStep, composeVars
<1>3. CASE DownEnds
  BY Zenon, <1>3 DEF DownEnds, ComposeStep
<1> QED
  BY Zenon, <1>1, <1>2, <1>3 DEF DownStep

LEMMA FailView ==
  ASSUME FailStep
  PROVE  ComposeStep /\ GatewayStep /\ PublicationStep
<1> USE DEF docker, files
<1>1. CASE WritePlanFails
  BY Zenon, <1>1 DEF WritePlanFails, ComposeStep, GatewayStep, PublicationStep
<1>2. CASE UpProjectFails
  BY Zenon, <1>2 DEF UpProjectFails, ComposeStep, GatewayStep, PublicationStep
<1>3. CASE LaunchFails
  <2>1. config' \in {None, Desired(planned)}
        /\ UNCHANGED <<router, state, socket, gate, serves, victims, strays>>
    BY Zenon, <1>3 DEF LaunchFails
  <2> QED
    BY Zenon, <1>3, <2>1 DEF LaunchFails, ComposeStep, GatewayStep, PublicationStep
<1>4. CASE QuietFails
  <2>1. publishers' \subseteq publishers /\ mdns' \in {mdns, None} /\ tailnet' = tailnet
    BY Zenon, <1>4 DEF QuietFails
  <2> QED
    BY Zenon, <1>4, <2>1 DEF QuietFails, ComposeStep, GatewayStep, PublicationStep
<1>5. CASE KillRefused \/ PreflightFails \/ PublishFails
  BY Zenon, <1>5 DEF KillRefused, PreflightFails, PublishFails, ComposeStep, GatewayStep,
     PublicationStep
<1>6. CASE Killed
  <2>1. UNCHANGED composeVars /\ (UNCHANGED gatewayVars \/ LoseGateway(child))
    BY Zenon, <1>6 DEF Killed
  <2>2. publishers' \subseteq publishers /\ mdns' = mdns /\ tailnet' = tailnet
    BY Zenon, <1>6 DEF Killed, LosePublishers
  <2> QED
    BY Zenon, <2>1, <2>2 DEF ComposeStep, GatewayStep, PublicationStep
<1> QED
  BY Zenon, <1>1, <1>2, <1>3, <1>4, <1>5, <1>6 DEF FailStep

LEMMA OutsideView ==
  ASSUME Edit \/ Reinstall \/ GatewayMoves \/ Accident \/ Repair
  PROVE  ComposeStep /\ GatewayStep /\ PublicationStep /\ UNCHANGED cliVars
<1> USE DEF docker, files
<1>1. CASE Edit \/ Reinstall \/ Repair
  BY Zenon, <1>1 DEF Edit, Reinstall, Repair, ComposeStep, GatewayStep, PublicationStep
<1>2. CASE GatewayMoves
  BY Zenon, <1>2 DEF GatewayMoves, ComposeStep, GatewayStep, PublicationStep
<1>3. CASE Accident
  <2>1. UNCHANGED cliVars
    BY Zenon, <1>3 DEF Accident
  <2>2. CASE \E g \in Gateways : GatewayDies(g) /\ UNCHANGED <<composeVars, publicationVars>>
    BY Zenon, <2>1, <2>2 DEF GatewayDies, ComposeStep, GatewayStep, PublicationStep
  <2>3. CASE \E pub \in Publishers : PublisherDies(pub) /\ UNCHANGED <<composeVars, gatewayVars>>
    BY Zenon, <2>1, <2>3 DEF PublisherDies, ComposeStep, GatewayStep, PublicationStep
  <2>4. CASE (Republish \/ \E p \in Places : Unplug(p)) /\ UNCHANGED <<gatewayVars, publicationVars>>
    BY Zenon, <2>1, <2>4 DEF ComposeStep, GatewayStep, PublicationStep
  <2> QED
    BY Zenon, <1>3, <2>2, <2>3, <2>4 DEF Accident
<1> QED
  BY Zenon, <1>1, <1>2, <1>3

LEMMA PlaneSteps ==
  ASSUME [RuntimeNext]_runtimeVars
  PROVE  ComposeStep /\ GatewayStep /\ PublicationStep
<1>1. CASE \E op \in {"up", "down", "cleanup"}, token \in BOOLEAN : Begin(op, token)
  BY Zenon, <1>1 DEF Begin, docker, files, ComposeStep, GatewayStep, PublicationStep
<1>2. CASE CliStep
  BY Zenon, <1>2, UpView, HostView, PublishView, DownView
     DEF CliStep, ComposeStep, GatewayStep, PublicationStep
<1>3. CASE UNCHANGED runtimeVars
  BY Zenon, <1>3 DEF runtimeVars, ComposeStep, GatewayStep, PublicationStep
<1> QED
  BY Zenon, <1>1, <1>2, <1>3, FailView, OutsideView DEF RuntimeNext

-----------------------------------------------------------------------------
(* The command.                                                             *)

LEMMA OrdersArePlaces ==
  ASSUME NEW plan \in Plans
  PROVE  UpOrder(plan) \in Seq(Places) /\ DownOrder(plan) \in Seq(Places)
<1>1. plan.remotes \in Seq(Places) /\ Len(plan.remotes) \in Nat
      /\ \A i \in 1..Len(plan.remotes) : plan.remotes[i] \in Places
  BY RuntimeAssumption DEF Places
<1> DEFINE here == IF plan.local THEN <<Local>> ELSE <<>>
<1>2. here \in Seq(Places)
  <2>1. <<Local>> \in Seq(Places) /\ <<>> \in Seq(Places)
    BY DEF Places
  <2> QED
    BY Zenon, <2>1
<1>3. Reversed(plan.remotes) \in Seq(Places)
  BY <1>1 DEF Reversed
<1>4. plan.remotes \o here \in Seq(Places) /\ here \o Reversed(plan.remotes) \in Seq(Places)
  <2> HIDE DEF here
  <2> QED
    BY <1>1, <1>2, <1>3
<1> QED
  BY Zenon, <1>4 DEF UpOrder, DownOrder

LEMMA CommandStays ==
  ASSUME CommandInv, UNCHANGED <<cmd, pc, onQuiet, onStop, outcome>>,
         authored' \in Plans, todo' \in Seq(Places), clean' \in BOOLEAN
  PROVE  CommandInv'
<1>1. cmd' = cmd /\ pc' = pc /\ onQuiet' = onQuiet /\ onStop' = onStop /\ outcome' = outcome
  BY Zenon
<1>2. CommandTypeOK'
  BY Zenon, <1>1 DEF CommandInv, CommandTypeOK
<1>3. Course'
  BY Zenon, <1>1 DEF CommandInv, Course, planned
<1> QED
  BY Zenon, <1>2, <1>3 DEF CommandInv

LEMMA CommandEnds ==
  ASSUME CommandInv, authored' = authored, NEW result \in {"none", cmd.op}, End(result)
  PROVE  CommandInv'
<1>1. <<>> \in Seq(Places)
  OBVIOUS
<1>2. CommandTypeOK'
  BY Zenon, <1>1 DEF CommandInv, CommandTypeOK, End, Steps
<1>3. Course'
  BY Zenon DEF CommandInv, CommandTypeOK, Course, End, StopSteps, planned
<1> QED
  BY Zenon, <1>2, <1>3 DEF CommandInv

(* The steps that a command may go on with.                                 *)
MayGo(step) ==
  /\ step \in Steps \ {"idle", "quiet"}
  /\ cmd.op = "up" => step # "teardown"
  /\ cmd.op # "up" => step \in StopSteps \cup {"teardown"}
  /\ step \in StopSteps => onStop # "idle"
  /\ step = "wipe" => onStop = "wipe"
  /\ step \in {"launch", "spawned", "waiting"} => planned.host

LEMMA CommandGoes ==
  ASSUME CommandInv, pc # "idle", UNCHANGED <<authored, cmd, onQuiet, onStop, clean, outcome>>,
         todo' \in Seq(Places), NEW step, pc' = step, MayGo(step)
  PROVE  CommandInv'
<1>1. CommandTypeOK'
  BY Zenon DEF CommandInv, CommandTypeOK, MayGo
<1>2. Course'
  BY Zenon DEF CommandInv, CommandTypeOK, Course, MayGo, planned
<1> QED
  BY Zenon, <1>1, <1>2 DEF CommandInv

LEMMA CommandSettles ==
  ASSUME CommandInv, pc # "idle", authored' = authored
  PROVE  /\ Fail => CommandInv'
         /\ \A step : Goto(step) /\ MayGo(step) => CommandInv'
<1>1. Fail => CommandInv'
  BY Zenon, CommandEnds DEF Fail
<1>2. ASSUME NEW step, Goto(step), MayGo(step)
      PROVE  CommandInv'
  <2>1. todo' \in Seq(Places) /\ pc' = step
        /\ UNCHANGED <<authored, cmd, onQuiet, onStop, clean, outcome>>
    BY Zenon, <1>2 DEF Goto, CommandInv, CommandTypeOK
  <2> QED
    BY ONLY Zenon, <1>2, <2>1, CommandInv, pc # "idle", CommandGoes
<1> QED
  BY Zenon, <1>1, <1>2

LEMMA CommandBegins ==
  ASSUME CommandInv, NEW op \in {"up", "down", "cleanup"}, NEW token \in BOOLEAN, Begin(op, token)
  PROVE  CommandInv'
<1>1. /\ cmd' = [op |-> op, plan |-> authored, token |-> token]
      /\ authored' = authored /\ authored \in Plans /\ outcome' = "none"
      /\ onQuiet' = onQuiet /\ clean' = clean
  BY Zenon DEF Begin, docker, CommandInv, CommandTypeOK
<1>2. cmd'.op = op /\ cmd' \in [op : {"up", "down", "cleanup"}, plan : Plans, token : BOOLEAN]
  BY <1>1
<1>3. todo' \in Seq(Places)
  <2>1. <<>> \in Seq(Places)
    OBVIOUS
  <2> QED
    BY Zenon, <1>1, <2>1, OrdersArePlaces DEF Begin
<1>4. CASE op = "up"
  <2>1. pc' = "eligible" /\ onStop' = "idle"
    BY Zenon, <1>4 DEF Begin
  <2>2. CommandTypeOK'
    BY Zenon, <1>1, <1>2, <1>3, <2>1 DEF CommandInv, CommandTypeOK, Steps
  <2>3. Course'
    BY Zenon, <1>1, <1>2, <1>4, <2>1 DEF Course, StopSteps
  <2> QED
    BY Zenon, <2>2, <2>3 DEF CommandInv
<1>5. CASE op # "up"
  <2>1. pc' = "unpublish" /\ onStop' \in {"wipe", "teardown"}
    BY Zenon, <1>5 DEF Begin
  <2>2. CommandTypeOK'
    BY Zenon, <1>1, <1>2, <1>3, <2>1 DEF CommandInv, CommandTypeOK, Steps, StopSteps
  <2>3. Course'
    BY Zenon, <1>1, <1>2, <1>5, <2>1 DEF Course, StopSteps
  <2> QED
    BY Zenon, <2>2, <2>3 DEF CommandInv
<1> QED
  BY Zenon, <1>4, <1>5

LEMMA CommandTail ==
  ASSUME CommandInv, todo # <<>>
  PROVE  Head(todo) \in Places /\ Tail(todo) \in Seq(Places)
BY DEF CommandInv, CommandTypeOK

LEMMA CommandUp ==
  ASSUME CommandInv, UpStep
  PROVE  CommandInv'
<1> USE DEF docker
<1>0. cmd.op = "up" \/ pc \notin {"eligible", "drift", "token", "write", "compose"}
  BY Zenon DEF CommandInv, CommandTypeOK, Course, StopSteps
<1>1. ASSUME cmd.op = "up", NEW step \in {"drift", "token", "write", "compose", "host"}
      PROVE  MayGo(step)
  BY Zenon, <1>1 DEF MayGo, Steps, UpSteps, StopSteps
<1>2. CASE CheckEligible
  BY Zenon, <1>0, <1>1, <1>2, CommandSettles DEF CheckEligible
<1>3. CASE CheckDrift
  BY Zenon, <1>0, <1>1, <1>3, CommandSettles DEF CheckDrift
<1>4. CASE CheckToken
  BY Zenon, <1>0, <1>1, <1>4, CommandSettles DEF CheckToken
<1>5. CASE WritePlan
  <2>1. pc = "write" /\ authored' = authored /\ UpOrder(planned) \in Seq(Places)
    BY Zenon, <1>5, OrdersArePlaces DEF WritePlan, CommandInv, CommandTypeOK, planned
  <2>2. CASE Fail
    BY Zenon, <2>1, <2>2, CommandSettles
  <2>3. CASE ~Fail
    <3>1. pc' = "compose" /\ todo' \in Seq(Places)
          /\ UNCHANGED <<authored, cmd, onQuiet, onStop, clean, outcome>>
      BY Zenon, <1>5, <2>1, <2>3 DEF WritePlan
    <3>2. pc # "idle" /\ MayGo("compose")
      BY Zenon, <1>0, <1>1, <2>1
    <3> QED
      BY ONLY Zenon, CommandInv, <3>1, <3>2, CommandGoes
  <2> QED
    BY Zenon, <2>2, <2>3
<1>6. CASE UpProject
  <2>1. UNCHANGED <<cmd, pc, onQuiet, onStop, outcome, authored, clean>> /\ todo' = Tail(todo)
        /\ todo # <<>>
    BY Zenon, <1>6 DEF UpProject
  <2> QED
    BY Zenon, <2>1, CommandTail, CommandStays DEF CommandInv, CommandTypeOK
<1>7. CASE UpProjectRefused
  BY Zenon, <1>7, CommandSettles DEF UpProjectRefused
<1>8. CASE ProbeExternals
  BY Zenon, <1>0, <1>1, <1>8, CommandSettles DEF ProbeExternals
<1> QED
  BY Zenon, <1>2, <1>3, <1>4, <1>5, <1>6, <1>7, <1>8 DEF UpStep

LEMMA CommandStops ==
  ASSUME CommandInv, pc # "idle", cmd.op = "up", pc' \in {"unpublish", "unsocket"},
         onStop' \in {"launch", "wipe"}, onStop' = "launch" <=> planned.host,
         UNCHANGED <<authored, cmd, todo, onQuiet, clean, outcome>>
  PROVE  CommandInv'
<1>1. CommandTypeOK'
  BY Zenon DEF CommandInv, CommandTypeOK, Steps, StopSteps
<1>2. Course'
  BY Zenon DEF CommandInv, CommandTypeOK, Course, StopSteps, planned
<1> QED
  BY Zenon, <1>1, <1>2 DEF CommandInv

LEMMA CommandQuiets ==
  ASSUME CommandInv, pc # "idle", authored' = authored, NEW pubs,
         NEW step \in {"idle", "term", "tail", "publish"}, QuietThen(pubs, step),
         cmd.op # "up" => step = "term", step = "term" => onStop # "idle"
  PROVE  CommandInv'
<1>1. CommandTypeOK'
  BY Zenon DEF CommandInv, CommandTypeOK, QuietThen, Steps, StopSteps
<1>2. Course'
  BY Zenon DEF CommandInv, CommandTypeOK, Course, QuietThen, StopSteps, planned
<1> QED
  BY Zenon, <1>1, <1>2 DEF CommandInv

LEMMA CommandHost ==
  ASSUME CommandInv, HostStep
  PROVE  CommandInv'
<1> USE DEF docker
<1>0. /\ cmd.op = "up" \/ pc \notin UpSteps
      /\ pc \in StopSteps \ {"quiet"} => onStop # "idle"
      /\ pc = "quiet" /\ onQuiet = "term" => onStop # "idle"
      /\ pc = "quiet" /\ onQuiet # "term" => cmd.op = "up"
      /\ onStop = "launch" => planned.host /\ cmd.op = "up"
      /\ onStop = "teardown" => cmd.op # "up"
      /\ pc = "wipe" => onStop = "wipe"
      /\ pc = "launch" \/ pc = "spawned" => planned.host
      /\ onStop \in {"idle", "launch", "wipe", "teardown"}
      /\ onQuiet \in {"idle", "term", "tail", "publish"}
  BY Zenon DEF CommandInv, CommandTypeOK, Course, StopSteps, UpSteps
<1>1. ASSUME cmd.op = "up", NEW step \in UpSteps,
             step \in {"launch", "spawned", "waiting"} => planned.host
      PROVE  MayGo(step)
  BY Zenon, <1>1 DEF MayGo, Steps, UpSteps, StopSteps
<1>2. ASSUME onStop # "idle", NEW step \in {"term", "termed", "unsocket", "unstate"}
      PROVE  MayGo(step)
  BY Zenon, <1>2 DEF MayGo, Steps, StopSteps
<1>3. onStop # "idle" => MayGo(onStop)
  BY Zenon, <1>0 DEF MayGo, Steps, StopSteps, UpSteps
<1>4. CASE Host
  <2>1. pc = "host" /\ cmd.op = "up" /\ authored' = authored
    BY Zenon, <1>0, <1>4 DEF Host, UpSteps
  <2>2. \/ Fail \/ Goto("lan") \/ (planned.host /\ Goto("launch"))
        \/ (planned.host /\ StopThen("launch")) \/ (~planned.host /\ StopThen("wipe"))
        \/ (planned.host /\ recover_for_restart)
    BY Zenon, <1>4 DEF Host
  <2>3. CASE Fail \/ Goto("lan") \/ (planned.host /\ Goto("launch"))
    <3>1. MayGo("lan") /\ (planned.host => MayGo("launch"))
      BY Zenon, <1>1, <2>1 DEF UpSteps
    <3> QED
      BY Zenon, <2>1, <2>3, <3>1, CommandSettles
  <2>4. CASE (planned.host /\ StopThen("launch")) \/ (~planned.host /\ StopThen("wipe"))
    <3>1. pc' \in {"unpublish", "unsocket"} /\ onStop' \in {"launch", "wipe"}
          /\ (onStop' = "launch" <=> planned.host)
          /\ UNCHANGED <<cmd, todo, onQuiet, clean, outcome>>
      BY Zenon, <2>4 DEF StopThen
    <3> QED
      BY Zenon, <2>1, <3>1, CommandStops
  <2>5. CASE planned.host /\ recover_for_restart
    <3>1. pc' \in {"unpublish", "unsocket"} /\ onStop' \in {"launch", "wipe"}
          /\ (onStop' = "launch" <=> planned.host)
          /\ UNCHANGED <<cmd, todo, onQuiet, clean, outcome>>
      BY Zenon, <2>5 DEF StopThen, recover_for_restart
    <3> QED
      BY Zenon, <2>1, <3>1, CommandStops
  <2> QED
    BY Zenon, <2>2, <2>3, <2>4, <2>5
<1>5. CASE Launch
  <2>1. pc = "launch" /\ cmd.op = "up" /\ authored' = authored /\ planned.host
    BY Zenon, <1>0, <1>5 DEF Launch, UpSteps
  <2>2. CASE Fail
    BY Zenon, <2>1, <2>2, CommandSettles
  <2>3. CASE ~Fail
    <3>1. pc' = "spawned" /\ todo' \in Seq(Places)
          /\ UNCHANGED <<authored, cmd, onQuiet, onStop, clean, outcome>>
      BY Zenon, <1>5, <2>1, <2>3 DEF Launch, CommandInv, CommandTypeOK
    <3>2. pc # "idle" /\ MayGo("spawned")
      BY Zenon, <1>1, <2>1 DEF UpSteps
    <3> QED
      BY ONLY Zenon, CommandInv, <3>1, <3>2, CommandGoes
  <2> QED
    BY Zenon, <2>2, <2>3
<1>6. CASE Record
  BY Zenon, <1>0, <1>1, <1>6, CommandSettles DEF Record, UpSteps
<1>7. CASE RecordFails \/ GiveUp
  BY Zenon, <1>0, <1>1, <1>7, CommandSettles DEF RecordFails, GiveUp, UpSteps
<1>8. CASE GatewayReady
  BY Zenon, <1>0, <1>1, <1>8, CommandSettles DEF GatewayReady, UpSteps
<1>9. CASE Abandon
  BY Zenon, <1>0, <1>1, <1>9, CommandSettles DEF Abandon, UpSteps
<1>10. CASE Unpublish
  <2>1. QuietThen(Recorded, "term") /\ pc = "unpublish" /\ onStop # "idle" /\ authored' = authored
    BY Zenon, <1>0, <1>10 DEF Unpublish, StopSteps
  <2> QED
    BY Zenon, <2>1, CommandQuiets
<1>11. CASE Quiet
  <2>1. pc = "quiet" /\ authored' = authored
    BY Zenon, <1>11 DEF Quiet
  <2>2. Fail \/ (onQuiet # "idle" /\ Goto(onQuiet))
        \/ UNCHANGED <<cmd, pc, todo, onQuiet, onStop, child, clean, outcome>>
    BY Zenon, <1>11 DEF Quiet
  <2>3. onQuiet # "idle" => MayGo(onQuiet)
    BY Zenon, <1>0, <1>1, <1>2, <2>1 DEF UpSteps
  <2>4. CASE UNCHANGED <<cmd, pc, todo, onQuiet, onStop, child, clean, outcome>>
    BY Zenon, <2>1, <2>4, CommandStays DEF CommandInv, CommandTypeOK
  <2> QED
    BY Zenon, <2>1, <2>2, <2>3, <2>4, CommandSettles
<1>12. CASE Term
  <2>1. pc = "term" /\ authored' = authored /\ onStop # "idle"
    BY Zenon, <1>0, <1>12 DEF Term, StopSteps
  <2>2. \E step \in {"termed", "unsocket", onStop} : Goto(step)
    BY Zenon, <1>12 DEF Term
  <2> QED
    BY Zenon, <1>2, <1>3, <2>1, <2>2, CommandSettles
<1>13. CASE Termed \/ KillTermed \/ Unsocket
  <2>1. pc \in {"termed", "unsocket"} /\ authored' = authored
    BY Zenon, <1>13 DEF Termed, KillTermed, Unsocket
  <2>2. \E step \in {"termed", "unsocket", "unstate"} : Goto(step)
    BY Zenon, <1>13 DEF Termed, KillTermed, Unsocket
  <2>3. onStop # "idle"
    BY Zenon, <1>0, <2>1 DEF StopSteps
  <2> QED
    BY Zenon, <1>2, <2>1, <2>2, <2>3, CommandSettles
<1>14. CASE Unstate
  BY Zenon, <1>0, <1>3, <1>14, CommandSettles DEF Unstate, StopSteps
<1>15. CASE Wipe
  <2>1. pc = "wipe" /\ authored' = authored /\ onStop = "wipe"
    BY Zenon, <1>0, <1>15 DEF Wipe
  <2>2. Goto("wipe") \/ Goto(IF cmd.op = "up" THEN "lan" ELSE "teardown")
    BY Zenon, <1>15 DEF Wipe
  <2>3. MayGo("wipe") /\ (cmd.op = "up" => MayGo("lan")) /\ (cmd.op # "up" => MayGo("teardown"))
    BY Zenon, <2>1 DEF MayGo, Steps, StopSteps, UpSteps
  <2> QED
    BY Zenon, <2>1, <2>2, <2>3, CommandSettles
<1> QED
  BY Zenon, <1>4, <1>5, <1>6, <1>7, <1>8, <1>9, <1>10, <1>11, <1>12, <1>13, <1>14, <1>15 DEF HostStep

LEMMA CommandPublish ==
  ASSUME CommandInv, PublishStep
  PROVE  CommandInv'
<1> USE DEF docker
<1>0. cmd.op = "up" \/ pc \notin UpSteps
  BY Zenon DEF CommandInv, CommandTypeOK, Course, StopSteps, UpSteps
<1>1. ASSUME cmd.op = "up", NEW step \in {"tail", "publish", "published"}
      PROVE  MayGo(step)
  BY Zenon, <1>1 DEF MayGo, Steps, UpSteps, StopSteps
<1>2. CASE Lan
  <2>1. pc = "lan" /\ authored' = authored /\ cmd.op = "up"
    BY Zenon, <1>0, <1>2 DEF Lan, UpSteps
  <2>2. Goto("tail") \/ \E step \in {"tail", "publish"} : QuietThen(Recorded, step)
    BY Zenon, <1>2 DEF Lan
  <2> QED
    BY Zenon, <1>1, <2>1, <2>2, CommandSettles, CommandQuiets
<1>3. CASE Publish
  <2>1. pc = "publish" /\ pc' = "published" /\ todo' \in Seq(Places)
        /\ UNCHANGED <<authored, cmd, onQuiet, onStop, clean, outcome>>
    BY Zenon, <1>3 DEF Publish, CommandInv, CommandTypeOK
  <2>2. pc # "idle" /\ MayGo("published")
    BY Zenon, <1>0, <1>1, <2>1 DEF UpSteps
  <2> QED
    BY ONLY Zenon, CommandInv, <2>1, <2>2, CommandGoes
<1>4. CASE Published
  <2>1. pc = "published" /\ authored' = authored /\ cmd.op = "up"
    BY Zenon, <1>0, <1>4 DEF Published, UpSteps
  <2>2. Goto("publish") \/ QuietThen(Recorded \cup {child}, "idle")
    BY Zenon, <1>4 DEF Published
  <2> QED
    BY Zenon, <1>1, <2>1, <2>2, CommandSettles, CommandQuiets
<1>5. CASE AllPublished
  BY Zenon, <1>0, <1>1, <1>5, CommandSettles DEF AllPublished, UpSteps
<1>6. CASE Tailnet
  <2>1. pc = "tail" /\ authored' = authored /\ cmd.op = "up"
    BY Zenon, <1>0, <1>6 DEF Tailnet, UpSteps
  <2>2. End("up") \/ Fail
    BY Zenon, <1>6 DEF Tailnet
  <2> QED
    BY Zenon, <2>1, <2>2, CommandSettles, CommandEnds
<1> QED
  BY Zenon, <1>2, <1>3, <1>4, <1>5, <1>6 DEF PublishStep

LEMMA CommandDown ==
  ASSUME CommandInv, DownStep
  PROVE  CommandInv'
<1> USE DEF docker
<1>1. CASE DownProject \/ DownProjectFails
  <2>1. todo # <<>> /\ todo' = Tail(todo) /\ clean' \in BOOLEAN
        /\ UNCHANGED <<cmd, pc, onQuiet, onStop, outcome, authored>>
    BY Zenon, <1>1 DEF DownProject, DownProjectFails, CommandInv, CommandTypeOK
  <2> QED
    BY Zenon, <2>1, CommandTail, CommandStays DEF CommandInv, CommandTypeOK
<1>2. CASE DownEnds
  <2>1. authored' = authored /\ \E result \in {"none", cmd.op} : End(result)
    BY Zenon, <1>2 DEF DownEnds
  <2> QED
    BY Zenon, <2>1, CommandEnds
<1> QED
  BY Zenon, <1>1, <1>2 DEF DownStep

LEMMA CommandFails ==
  ASSUME CommandInv, FailStep
  PROVE  CommandInv'
<1> USE DEF docker
<1>1. CASE PublishFails
  <2>1. pc = "publish" /\ authored' = authored /\ QuietThen(Recorded, "idle")
    BY Zenon, <1>1 DEF PublishFails
  <2>2. cmd.op = "up"
    BY Zenon, <2>1 DEF CommandInv, CommandTypeOK, Course, StopSteps
  <2> QED
    BY Zenon, <2>1, <2>2, CommandQuiets
<1>2. CASE ~PublishFails
  <2>1. Fail /\ pc # "idle" /\ authored' = authored
    BY Zenon, <1>2 DEF FailStep, WritePlanFails, UpProjectFails, LaunchFails, KillRefused, QuietFails,
       PreflightFails, Killed
  <2> QED
    BY Zenon, <2>1, CommandSettles
<1> QED
  BY Zenon, <1>1, <1>2

LEMMA CommandKept ==
  ASSUME CommandInv, [RuntimeNext]_runtimeVars
  PROVE  CommandInv'
<1>1. CASE UNCHANGED cliVars
  <2>1. authored' \in Plans
    <3>1. CASE UNCHANGED runtimeVars
      BY Zenon, <3>1 DEF runtimeVars, CommandInv, CommandTypeOK
    <3>2. CASE \E op \in {"up", "down", "cleanup"}, token \in BOOLEAN : Begin(op, token)
      BY Zenon, <3>2 DEF Begin, docker, CommandInv, CommandTypeOK
    <3>3. CASE CliStep
      BY Zenon, <3>3, CommandUp, CommandHost, CommandPublish, CommandDown
         DEF CliStep, CommandInv, CommandTypeOK
    <3>4. CASE FailStep
      BY Zenon, <3>4, CommandFails DEF CommandInv, CommandTypeOK
    <3>5. CASE Edit \/ Reinstall \/ GatewayMoves \/ Accident \/ Repair
      BY Zenon, <3>5 DEF Edit, Reinstall, GatewayMoves, Accident, Repair, docker, CommandInv,
         CommandTypeOK
    <3> QED
      BY Zenon, <3>1, <3>2, <3>3, <3>4, <3>5 DEF RuntimeNext
  <2> QED
    BY Zenon, <1>1, <2>1, CommandStays DEF cliVars, CommandInv, CommandTypeOK
<1>2. CASE CliStep
  BY Zenon, <1>2, CommandUp, CommandHost, CommandPublish, CommandDown DEF CliStep
<1>3. CASE Edit \/ Reinstall \/ GatewayMoves \/ Accident \/ Repair
  BY Zenon, <1>1, <1>3, OutsideView
<1>4. CASE UNCHANGED runtimeVars
  BY Zenon, <1>1, <1>4 DEF runtimeVars
<1> QED
  BY Zenon, <1>2, <1>3, <1>4, CommandBegins, CommandFails DEF RuntimeNext

-----------------------------------------------------------------------------
(* Docker.                                                                  *)

LEMMA ComposeKept ==
  ASSUME ComposeTypeOK, CommandInv, ComposeStep
  PROVE  ComposeTypeOK'
<1>1. planned \in Plans /\ planned.hash \in Hashes
  BY DEF CommandInv, CommandTypeOK, planned, Hashes
<1>2. CASE UNCHANGED composeVars
  BY Zenon, <1>2 DEF composeVars, dockerVars, ComposeTypeOK
<1>3. CASE manifest' \in {manifest, planned.hash} /\ UNCHANGED <<dockerVars, unreachable>>
  BY Zenon, <1>1, <1>3 DEF dockerVars, ComposeTypeOK
<1>4. CASE todo # <<>> /\ UNCHANGED manifest /\ ComposeUp(planned, Head(todo))
  BY <1>1, <1>4, CommandTail DEF ComposeUp, WithVolume, ComposeTypeOK
<1>5. CASE todo # <<>> /\ UNCHANGED manifest /\ ComposeUpFails(planned, Head(todo))
  BY <1>1, <1>5, CommandTail DEF ComposeUpFails, WithVolume, ComposeTypeOK
<1>6. CASE todo # <<>> /\ UNCHANGED manifest /\ ComposeDown(Head(todo), cmd.op = "cleanup")
  BY <1>6, CommandTail DEF ComposeDown, ComposeTypeOK
<1>7. CASE todo # <<>> /\ UNCHANGED manifest /\ ComposeDownFails(Head(todo))
  BY <1>7, CommandTail DEF ComposeDownFails, ComposeTypeOK
<1>8. CASE Republish
  BY Zenon, <1>8 DEF Republish, ComposeTypeOK
<1>9. CASE \E p \in Places : Unplug(p) \/ Replug(p)
  BY Zenon, <1>9 DEF Unplug, Replug, dockerVars, ComposeTypeOK
<1> QED
  BY Zenon, <1>2, <1>3, <1>4, <1>5, <1>6, <1>7, <1>8, <1>9 DEF ComposeStep

LEMMA ComposeBegins ==
  ASSUME RuntimeInit
  PROVE  ComposeTypeOK /\ CommandInv
<1>1. ComposeTypeOK
  BY DEF RuntimeInit, DockerInit, ComposeTypeOK
<1>2. CommandTypeOK
  <2>1. authored \in Plans /\ cmd = [op |-> "down", plan |-> authored, token |-> FALSE]
    BY Zenon DEF RuntimeInit
  <2>2. cmd \in [op : {"up", "down", "cleanup"}, plan : Plans, token : BOOLEAN]
    BY <2>1
  <2>3. <<>> \in Seq(Places)
    OBVIOUS
  <2> QED
    BY Zenon, <2>1, <2>2, <2>3 DEF RuntimeInit, CommandTypeOK, Steps
<1>3. Course
  BY Zenon DEF RuntimeInit, Course, StopSteps
<1> QED
  BY Zenon, <1>1, <1>2, <1>3 DEF CommandInv

(* What a step leaves alone: the projects of foreign places, and every      *)
(* process but the recorded gateway.                                        *)
LEMMA ForeignStep ==
  ASSUME ComposeTypeOK, CommandInv, ComposeStep, GatewayStep
  PROVE  /\ \A p \in foreign : topology'[p] = topology[p] /\ volumes'[p] = volumes[p]
         /\ victims' = victims
<1>1. ASSUME NEW p \in foreign
      PROVE  topology'[p] = topology[p] /\ volumes'[p] = volumes[p]
  <2>1. p \in Places /\ topology \in [Places -> SUBSET Hashes] /\ volumes \in [Places -> SUBSET Hashes]
    BY Zenon DEF ComposeTypeOK
  <2>2. CASE UNCHANGED <<topology, volumes>>
    BY Zenon, <2>2
  <2>3. CASE ComposeUp(planned, Head(todo))
    <3>1. p # Head(todo)
      BY Zenon, <2>3 DEF ComposeUp, MayChange
    <3> QED
      BY <2>1, <2>3, <3>1 DEF ComposeUp, WithVolume
  <2>4. CASE ComposeUpFails(planned, Head(todo))
    <3>1. p # Head(todo)
      BY Zenon, <2>4 DEF ComposeUpFails, MayChange
    <3> QED
      BY <2>1, <2>4, <3>1 DEF ComposeUpFails, WithVolume
  <2>5. CASE ComposeDown(Head(todo), cmd.op = "cleanup")
    <3>1. p # Head(todo)
      BY Zenon, <2>5 DEF ComposeDown, MayChange
    <3> QED
      BY <2>1, <2>5, <3>1 DEF ComposeDown
  <2>6. CASE ComposeDownFails(Head(todo))
    <3>1. p # Head(todo)
      BY Zenon, <2>6 DEF ComposeDownFails, MayChange
    <3> QED
      BY <2>1, <2>6, <3>1 DEF ComposeDownFails
  <2> QED
    BY Zenon, <2>2, <2>3, <2>4, <2>5, <2>6
       DEF ComposeStep, composeVars, dockerVars, Republish, Unplug, Replug
<1>2. victims' = victims
  <2>1. CASE Terminate
    <3>1. gate[state.proc] # "reused" /\ victims' = victims \cup {g \in {state.proc} : gate[g] = "reused"}
      BY Zenon, <2>1 DEF Terminate, Owned, Alive
    <3> QED
      BY <3>1
  <2>2. CASE SpawnGateway(planned)
    BY Zenon, <2>2 DEF SpawnGateway
  <2> QED
    BY Zenon, <2>1, <2>2 DEF GatewayStep, gatewayVars, RecordGateway, KillGateway, RemoveSocket,
       RemoveState, LoseGateway, Reconfigure, GatewayServes, GatewayExits, PidReused
<1> QED
  BY Zenon, <1>1, <1>2

(* Whatever the commands, their failures and the accidents: a project that  *)
(* holds a resource without our labels is never changed (verify_ownership   *)
(* comes before every change), and no process is ever signalled under a     *)
(* pid that another program has taken over (signal_owned checks again).     *)
THEOREM ForeignStaysUntouched == RuntimeSpec => ForeignUntouched
<1>1. RuntimeInit => ComposeTypeOK /\ CommandInv
  BY Zenon, ComposeBegins
<1>2. ComposeTypeOK /\ CommandInv /\ [RuntimeNext]_runtimeVars => ComposeTypeOK' /\ CommandInv'
  BY Zenon, PlaneSteps, ComposeKept, CommandKept
<1>3. ComposeTypeOK /\ CommandInv /\ [RuntimeNext]_runtimeVars =>
        [/\ \A p \in foreign : topology'[p] = topology[p] /\ volumes'[p] = volumes[p]
         /\ victims' = victims]_runtimeVars
  BY Zenon, PlaneSteps, ForeignStep
<1> QED
  BY <1>1, <1>2, <1>3, PTL DEF RuntimeSpec, ForeignUntouched

-----------------------------------------------------------------------------
(* The gateway.                                                             *)

GatewayRuns == GatewayTypeOK /\ GatewayInv

LEMMA GatewayTypes ==
  ASSUME GatewayRuns, CommandInv, ComposeTypeOK, GatewayStep
  PROVE  GatewayTypeOK'
<1> USE DEF GatewayRuns
<1>1. planned \in Plans /\ Desired(planned) \in Configs
  BY DEF CommandInv, CommandTypeOK, ComposeTypeOK, planned, Desired, Configs
<1>2. CASE UNCHANGED gatewayVars
  BY Zenon, <1>2 DEF gatewayVars, GatewayTypeOK
<1>3. CASE SpawnGateway(planned)
  BY <1>1, <1>3 DEF SpawnGateway, GatewayTypeOK, Alive
<1>4. CASE pc = "spawned" /\ RecordGateway(child, planned)
  <2>1. child \in Gateways
    BY Zenon, <1>4 DEF GatewayInv
  <2>2. [proc |-> child, plan |-> planned, executable |-> router] \in GatewayRecords
    BY <1>1, <2>1 DEF GatewayRecords, GatewayTypeOK
  <2> QED
    BY Zenon, <1>4, <2>2 DEF RecordGateway, GatewayTypeOK
<1>5. CASE config' \in {None, Desired(planned)}
           /\ UNCHANGED <<router, state, socket, gate, serves, victims, strays>>
  BY Zenon, <1>1, <1>5 DEF GatewayTypeOK
<1>6. CASE \E g : KillGateway(g)
  BY <1>6 DEF KillGateway, Dead, GatewayTypeOK, Alive
<1>13. CASE (\E g : LoseGateway(g)) \/ Reconfigure
  BY Zenon, <1>13 DEF LoseGateway, Reconfigure, GatewayTypeOK
<1>7. CASE Terminate
  BY <1>7 DEF Terminate, GatewayTypeOK, Alive
<1>8. CASE RemoveSocket
  BY Zenon, <1>8 DEF RemoveSocket, GatewayTypeOK
<1>9. CASE RemoveState
  BY <1>9 DEF RemoveState, GatewayTypeOK, Alive
<1>10. CASE \E g \in Gateways : GatewayServes(g)
  BY <1>10 DEF GatewayServes, GatewayTypeOK, Alive
<1>11. CASE \E g \in Gateways : GatewayExits(g)
  BY <1>11 DEF GatewayExits, Dead, GatewayTypeOK, Alive
<1>12. CASE \E g \in Gateways : PidReused(g)
  BY <1>12 DEF PidReused, GatewayTypeOK, Alive
<1> QED
  BY Zenon, <1>2, <1>3, <1>4, <1>5, <1>6, <1>7, <1>8, <1>9, <1>10, <1>11, <1>12, <1>13
  DEF GatewayStep

(* What is said of the gateway depends on its variables only.               *)
LEMMA GatewaySame ==
  ASSUME UNCHANGED gatewayVars
  PROVE  /\ Tracked' = Tracked /\ (Owned' <=> Owned) /\ Disowned' = Disowned
         /\ router' = router /\ config' = config /\ state' = state /\ socket' = socket
         /\ gate' = gate /\ serves' = serves /\ strays' = strays
<1>1. UNCHANGED <<router, config, state, socket, gate, serves, strays>>
  BY Zenon DEF gatewayVars
<1>2. Living' = Living
  BY Zenon, <1>1 DEF Living
<1>3. Disowned' = Disowned
  BY Zenon, <1>1 DEF Disowned
<1> QED
  BY Zenon, <1>1, <1>2, <1>3 DEF Tracked, Owned

(* The gateway is left alone and the command goes on ...                    *)
LEMMA GatewayFrame ==
  ASSUME GatewayInv, UNCHANGED gatewayVars, pc # "spawned", pc # "abandon" \/ state # None,
         pc' \notin {"spawned", "waiting", "abandon", "unsocket", "unstate", "wipe", "teardown"}
  PROVE  GatewayInv'
<1>1. /\ Tracked' = Tracked /\ Disowned' = Disowned /\ config' = config /\ state' = state
      /\ socket' = socket /\ gate' = gate /\ serves' = serves /\ strays' = strays
  BY Zenon, GatewaySame
<1> QED
  BY Zenon, <1>1 DEF GatewayInv

(* ... or stays where it is.                                                *)
LEMMA GatewayStutter ==
  ASSUME GatewayInv, UNCHANGED gatewayVars, UNCHANGED <<pc, child, cmd>>
  PROVE  GatewayInv'
<1>1. /\ Tracked' = Tracked /\ (Owned' <=> Owned) /\ Disowned' = Disowned
      /\ router' = router /\ config' = config /\ state' = state /\ socket' = socket
      /\ gate' = gate /\ serves' = serves /\ strays' = strays
  BY Zenon, GatewaySame
<1> QED
  BY Zenon, <1>1 DEF GatewayInv, planned

(* ... or begins to remove the files of a gateway that is not the CLI's.    *)
LEMMA GatewayRecovers ==
  ASSUME GatewayInv, UNCHANGED gatewayVars, pc \notin {"spawned", "abandon"}, ~Owned,
         pc' = "unsocket"
  PROVE  GatewayInv'
<1>1. /\ Tracked' = Tracked /\ ~Owned' /\ config' = config /\ state' = state
      /\ socket' = socket /\ gate' = gate /\ serves' = serves /\ strays' = strays
  BY Zenon, GatewaySame
<1> QED
  BY Zenon, <1>1 DEF GatewayInv

(* Who lives and is no stray.                                               *)
LEMMA LivingFacts ==
  ASSUME GatewayInv
  PROVE  /\ pc # "spawned" /\ state = None => Tracked = {}
         /\ pc = "spawned" => \A g \in Tracked : g = child
         /\ Tracked = {} => \A g \in Gateways \ strays : gate[g] \notin Alive
         /\ \A g \in Gateways \ strays : gate[g] = "serving" => g \in Tracked
         /\ pc # "spawned" /\ ~Owned => Tracked \subseteq Disowned
<1>1. \A g \in Tracked : gate[g] \in Alive /\ g \in Gateways
  BY Zenon DEF Tracked, Living
<1>2. pc # "spawned" /\ ~Owned => Tracked \subseteq Disowned
  BY Zenon, <1>1 DEF GatewayInv, Owned, Disowned
<1>3. pc # "spawned" /\ state = None => Tracked = {}
  BY Zenon DEF GatewayInv
<1>4. pc = "spawned" => \A g \in Tracked : g = child
  BY Zenon DEF GatewayInv
<1>5. Tracked = {} => \A g \in Gateways \ strays : gate[g] \notin Alive
  BY Zenon DEF Tracked, Living
<1>6. \A g \in Gateways \ strays : gate[g] = "serving" => g \in Tracked
  BY Zenon DEF Tracked, Living, Alive
<1> QED
  BY Zenon, <1>2, <1>3, <1>4, <1>5, <1>6

LEMMA GatewayKill ==
  ASSUME GatewayTypeOK, NEW g, KillGateway(g)
  PROVE  /\ Tracked' = Tracked \ {g} /\ UNCHANGED <<router, config, state, socket, strays>>
         /\ Disowned' = Disowned
         /\ \A h \in Gateways : gate'[h] = "serving" => gate[h] = "serving" /\ serves'[h] = serves[h]
<1>1. gate \in [Gateways -> Alive \cup {"none", "gone", "reused"}]
      /\ serves \in [Gateways -> Configs \cup {None}]
  BY Zenon DEF GatewayTypeOK
<1>2. /\ gate' = [gate EXCEPT ![g] = IF @ \in Alive THEN Dead(g) ELSE @]
      /\ serves' = [serves EXCEPT ![g] = None]
      /\ Dead(g) \notin Alive
  BY DEF KillGateway, Dead, Alive
<1>3. \A h \in Gateways : /\ h # g => gate'[h] = gate[h] /\ serves'[h] = serves[h]
                          /\ gate'[g] \notin Alive \/ g \notin Gateways
  BY <1>1, <1>2
<1>4. Living' = Living \ {g}
  BY Zenon, <1>3 DEF Living
<1>5. UNCHANGED <<router, config, state, socket, strays>>
  BY Zenon DEF KillGateway
<1>6. Tracked' = Tracked \ {g} /\ Disowned' = Disowned
  BY Zenon, <1>4, <1>5 DEF Tracked, Disowned
<1> QED
  BY Zenon, <1>3, <1>5, <1>6 DEF Alive

(* None but strays live.                                                    *)
LEMMA GatewayIdle ==
  ASSUME Tracked' = {}, socket' => state' # None \/ strays' # {} \/ pc' = "abandon",
         pc' \notin {"spawned", "waiting", "unsocket", "unstate"},
         pc' \in {"wipe", "teardown"} => state' = None
  PROVE  GatewayInv'
<1>1. \A h \in Gateways \ strays' : gate'[h] # "serving"
  BY Zenon DEF Tracked, Living, Alive
<1> QED
  BY Zenon, <1>1 DEF GatewayInv

LEMMA GatewayHost ==
  ASSUME GatewayInv, Host
  PROVE  GatewayInv'
<1>1. pc = "host" /\ UNCHANGED gatewayVars
  BY Zenon DEF Host, files
<1>2. \/ Fail \/ Goto("lan") \/ Goto("launch") \/ StopThen("launch") \/ StopThen("wipe")
      \/ recover_for_restart
  BY Zenon DEF Host
<1>3. pc' \in {"idle", "lan", "launch", "unpublish"} \/ (~Owned /\ pc' = "unsocket")
  BY Zenon, <1>2 DEF Fail, End, Goto, StopThen, recover_for_restart
<1>4. CASE pc' # "unsocket"
  BY Zenon, <1>1, <1>3, <1>4, GatewayFrame
<1>5. CASE ~Owned /\ pc' = "unsocket"
  BY Zenon, <1>1, <1>5, GatewayRecovers
<1> QED
  BY Zenon, <1>3, <1>4, <1>5

LEMMA GatewayLaunch ==
  ASSUME GatewayRuns, Launch
  PROVE  GatewayInv'
<1> USE DEF GatewayRuns
<1>1. CASE pc' # "spawned"
  <2>1. UNCHANGED gatewayVars /\ pc = "launch" /\ pc' = "idle"
    BY Zenon, <1>1 DEF Launch, Fail, End
  <2> QED
    BY Zenon, <2>1, GatewayFrame
<1>2. CASE pc' = "spawned"
  <2>1. pc = "launch" /\ state = None /\ ~socket /\ SpawnGateway(planned)
        /\ child' = CHOOSE g \in Gateways : gate[g] \notin Alive
    BY Zenon, <1>2 DEF Launch, Fail, End
  <2>2. Tracked = {} /\ Living # Gateways
    BY Zenon, <2>1, LivingFacts DEF SpawnGateway
  <2>3. PICK h \in Gateways : gate[h] \notin Alive
    BY Zenon, <2>2 DEF Living
  <2>4. child' \in Gateways
    BY Zenon, <2>1, <2>3
  <2>5. gate' = [gate EXCEPT ![child'] = "booting"] /\ UNCHANGED <<state, socket, serves>>
        /\ strays' = strays \ {child'}
    BY Zenon, <2>1 DEF SpawnGateway
  <2>6. gate'[child'] = "booting" /\ \A g \in Gateways : g # child' => gate'[g] = gate[g]
    BY <2>4, <2>5 DEF GatewayTypeOK
  <2>7. \A g \in Gateways \ strays' : gate'[g] \in Alive => g = child' /\ gate'[g] = "booting"
    BY Zenon, <2>2, <2>5, <2>6, LivingFacts
  <2>8. \A g \in Tracked' : g = child'
    BY Zenon, <2>7 DEF Tracked, Living
  <2>9. \A g \in Gateways \ strays' : gate'[g] # "serving"
    BY Zenon, <2>7 DEF Alive
  <2> QED
    BY Zenon, <1>2, <2>1, <2>4, <2>5, <2>8, <2>9 DEF GatewayInv
<1> QED
  BY Zenon, <1>1, <1>2

LEMMA GatewayRecord ==
  ASSUME GatewayRuns, CommandInv, Record
  PROVE  GatewayInv'
<1> USE DEF GatewayRuns
<1>1. /\ pc = "spawned" /\ pc' = "waiting" /\ child' = child /\ cmd' = cmd
      /\ state' = [proc |-> child, plan |-> planned, executable |-> router]
      /\ UNCHANGED <<router, config, socket, gate, serves, strays>>
      /\ child \in Gateways
  BY Zenon DEF Record, RecordGateway, Goto, GatewayInv
<1>2. Tracked' = Tracked /\ \A g \in Tracked : g = child
  BY Zenon, <1>1, LivingFacts DEF Tracked, Living
<1>3. state'.proc = child
  BY <1>1
<1>4. state' # None
  <2>1. planned \in Plans /\ router \in Binaries
    BY DEF CommandInv, CommandTypeOK, planned, GatewayTypeOK
  <2>2. state' \in [proc : Gateways, plan : Plans, executable : Binaries]
    BY <1>1, <2>1
  <2> QED
    BY Zenon, <2>2, RuntimeAssumption
<1> QED
  BY Zenon, <1>1, <1>2, <1>3, <1>4 DEF GatewayInv, planned

(* The record is removed.                                                   *)
LEMMA GatewayForgotten ==
  ASSUME GatewayRuns, RemoveState
  PROVE  /\ Tracked' = Tracked \ Disowned
         /\ state' = None /\ strays' = strays \cup Disowned /\ (socket' <=> socket)
<1>1. \A g \in Gateways : gate'[g] = IF gate[g] \in {"gone", "reused"} THEN "none" ELSE gate[g]
  BY DEF RemoveState
<1>2. Living' = Living
  BY Zenon, <1>1 DEF Living, Alive
<1>3. state' = None /\ strays' = strays \cup Disowned /\ (socket' <=> socket)
  BY Zenon DEF RemoveState
<1> QED
  BY Zenon, <1>2, <1>3 DEF Tracked

LEMMA GatewayGivenUp ==
  ASSUME GatewayRuns, RecordFails \/ GiveUp \/ Abandon
  PROVE  GatewayInv'
<1> USE DEF GatewayRuns
<1>1. CASE RecordFails \/ GiveUp
  <2>1. pc \in {"spawned", "waiting"} /\ KillGateway(child) /\ pc' = "abandon"
    BY Zenon, <1>1 DEF RecordFails, GiveUp, Goto
  <2>2. \A g \in Tracked : g = child
    <3>1. CASE pc = "spawned"
      BY Zenon, <3>1, LivingFacts
    <3>2. CASE pc = "waiting"
      <4>1. state = [proc |-> child, plan |-> planned, executable |-> router]
            /\ \A g \in Tracked : state.proc = g
        BY Zenon, <3>2 DEF GatewayInv
      <4> QED
        BY <4>1
    <3> QED
      BY Zenon, <2>1, <3>1, <3>2
  <2>3. Tracked' = {}
    BY Zenon, <2>1, <2>2, GatewayKill
  <2> QED
    BY Zenon, <2>1, <2>3, GatewayIdle
<1>2. CASE Abandon
  <2>1. pc = "abandon" /\ Tracked = {}
    BY Zenon, <1>2 DEF Abandon, GatewayInv
  <2>2. CASE RemoveSocket /\ Goto("abandon")
    <3>1. Tracked' = {} /\ socket' = FALSE /\ pc' = "abandon"
      BY Zenon, <2>1, <2>2 DEF RemoveSocket, Goto, Tracked, Living
    <3> QED
      BY Zenon, <3>1, GatewayIdle
  <2>3. CASE ~socket /\ RemoveState /\ Fail
    <3>1. Tracked' = {} /\ ~socket' /\ pc' = "idle"
      BY Zenon, <2>1, <2>3, GatewayForgotten DEF Fail, End
    <3> QED
      BY Zenon, <3>1, GatewayIdle
  <2> QED
    BY Zenon, <1>2, <2>2, <2>3 DEF Abandon
<1> QED
  BY Zenon, <1>1, <1>2

LEMMA GatewayTerm ==
  ASSUME GatewayRuns, CommandInv, Term
  PROVE  GatewayInv'
<1> USE DEF GatewayRuns
<1>1. pc = "term" /\ (socket => state # None \/ strays # {})
  BY Zenon DEF Term, GatewayInv
<1>2. CASE Owned
  <2>1. Terminate /\ pc' = "termed"
    BY Zenon, <1>2 DEF Term, Goto
  <2>2. state.proc \in Gateways /\ gate[state.proc] \in Alive
    <3>1. state \in [proc : Gateways, plan : Plans, executable : Binaries]
      BY Zenon, <1>2 DEF Owned, GatewayTypeOK, GatewayRecords
    <3> QED
      BY <1>2, <3>1 DEF Owned
  <2>3. gate' = [gate EXCEPT ![state.proc] = "stopping"]
        /\ UNCHANGED <<config, state, socket, serves, strays>>
    BY <2>1, <2>2 DEF Terminate, GatewayTypeOK, Alive
  <2>4. gate'[state.proc] = "stopping" /\ \A g \in Gateways : g # state.proc => gate'[g] = gate[g]
    BY <2>2, <2>3 DEF GatewayTypeOK
  <2>5. Tracked' = Tracked
    BY Zenon, <2>2, <2>3, <2>4 DEF Tracked, Living, Alive
  <2>6. \A g \in Gateways : gate'[g] = "serving" => gate[g] = "serving"
    BY Zenon, <2>4
  <2> QED
    BY Zenon, <1>1, <2>1, <2>3, <2>5, <2>6 DEF GatewayInv
<1>3. CASE ~Owned
  <2>1. UNCHANGED gatewayVars /\ Goto(IF state = None THEN onStop ELSE "unsocket")
    BY Zenon, <1>3 DEF Term
  <2>2. CASE state = None
    <3>1. Tracked' = {} /\ state' = None /\ (socket' => strays' # {})
      <4>1. Tracked' = Tracked /\ state' = state /\ strays' = strays /\ socket' = socket
        BY Zenon, <2>1, GatewaySame
      <4> QED
        BY Zenon, <1>1, <2>2, <4>1, LivingFacts
    <3>2. pc' \in {"idle", "launch", "wipe", "teardown"}
      BY Zenon, <2>1, <2>2 DEF Goto, CommandInv, CommandTypeOK
    <3> QED
      BY Zenon, <3>1, <3>2, GatewayIdle
  <2>3. CASE state # None
    <3>1. pc' = "unsocket"
      BY Zenon, <2>1, <2>3 DEF Goto
    <3> QED
      BY Zenon, <1>1, <1>3, <2>1, <3>1, GatewayRecovers
  <2> QED
    BY Zenon, <2>2, <2>3
<1> QED
  BY Zenon, <1>2, <1>3

LEMMA GatewayTermed ==
  ASSUME GatewayRuns, Termed \/ KillTermed
  PROVE  GatewayInv'
<1> USE DEF GatewayRuns
<1>1. pc = "termed" /\ (socket => state # None \/ strays # {})
  BY Zenon DEF Termed, KillTermed, GatewayInv
<1>2. CASE Termed
  <2>1. ~Owned /\ UNCHANGED gatewayVars /\ pc' = "unsocket"
    BY Zenon, <1>2 DEF Termed, files, Goto
  <2> QED
    BY Zenon, <1>1, <2>1, GatewayRecovers
<1>3. CASE KillTermed
  <2>1. KillGateway(state.proc) /\ pc' = "termed"
    BY Zenon, <1>3 DEF KillTermed, Goto
  <2>2. \A g \in Tracked : g = state.proc
    BY Zenon, <1>1 DEF GatewayInv
  <2>3. Tracked' = {} /\ (socket' => state' # None \/ strays' # {})
    BY Zenon, <1>1, <2>1, <2>2, GatewayKill
  <2> QED
    BY Zenon, <2>1, <2>3, GatewayIdle
<1> QED
  BY Zenon, <1>2, <1>3

LEMMA GatewayRemoved ==
  ASSUME GatewayRuns, CommandInv, Unsocket \/ Unstate \/ Wipe
  PROVE  GatewayInv'
<1> USE DEF GatewayRuns
<1>1. CASE Unsocket
  <2>1. ~socket' /\ pc = "unsocket" /\ pc' = "unstate" /\ child' = child
        /\ UNCHANGED <<router, config, state, gate, serves, strays>>
    BY Zenon, <1>1 DEF Unsocket, RemoveSocket, Goto
  <2>2. Tracked' = Tracked /\ Owned' = Owned
    BY Zenon, <2>1 DEF Tracked, Living, Owned
  <2> QED
    BY Zenon, <2>1, <2>2 DEF GatewayInv
<1>2. CASE Unstate
  <2>1. pc = "unstate" /\ ~Owned /\ RemoveState /\ (socket => strays \cup Disowned # {})
    BY Zenon, <1>2 DEF Unstate, GatewayInv
  <2>2. Tracked \subseteq Disowned
    BY Zenon, <2>1, LivingFacts
  <2>3. Tracked' = {} /\ state' = None /\ (socket' => strays' # {})
    BY Zenon, <2>1, <2>2, GatewayForgotten
  <2>4. pc' \in {"idle", "launch", "wipe", "teardown"}
    BY Zenon, <1>2 DEF Unstate, Goto, CommandInv, CommandTypeOK
  <2> QED
    BY Zenon, <2>3, <2>4, GatewayIdle
<1>3. CASE Wipe
  <2>1. pc = "wipe" /\ state = None /\ Tracked = {}
    BY Zenon, <1>3, LivingFacts DEF Wipe, GatewayInv
  <2>2. ~socket' /\ UNCHANGED <<state, gate, strays>> /\ pc' \in {"wipe", "lan", "teardown"}
    BY Zenon, <1>3, <2>1 DEF Wipe, RemoveSocket, RemoveConfig, Goto
  <2>3. Tracked' = {} /\ state' = None
    BY Zenon, <2>1, <2>2 DEF Tracked, Living
  <2> QED
    BY Zenon, <2>2, <2>3, GatewayIdle
<1> QED
  BY Zenon, <1>1, <1>2, <1>3

LEMMA GatewayByItself ==
  ASSUME GatewayRuns, UNCHANGED <<pc, child, cmd>>,
         NEW g \in Gateways, GatewayServes(g) \/ GatewayExits(g) \/ PidReused(g) \/ GatewayDies(g)
  PROVE  GatewayInv'
<1> USE DEF GatewayRuns
<1>1. CASE GatewayServes(g)
  <2>1. gate' = [gate EXCEPT ![g] = "serving"] /\ serves' = [serves EXCEPT ![g] = config]
        /\ gate[g] = "booting" /\ UNCHANGED <<router, config, state, strays>>
    BY Zenon, <1>1 DEF GatewayServes
  <2>2. gate'[g] = "serving" /\ serves'[g] = config
        /\ \A h \in Gateways : h # g => gate'[h] = gate[h] /\ serves'[h] = serves[h]
    BY <2>1 DEF GatewayTypeOK
  <2>3. Living' = Living /\ g \in Living
    BY Zenon, <2>1, <2>2 DEF Living, Alive
  <2>4. Tracked' = Tracked /\ Disowned' = Disowned
    BY Zenon, <2>1, <2>3 DEF Tracked, Disowned
  <2>5. Owned' <=> Owned
    BY <2>1 DEF Owned, Alive, GatewayTypeOK
  <2>6. strays # {} \/ g \in Tracked
    BY Zenon, <2>3 DEF Tracked
  <2>7. g \in Tracked => (state # None \/ pc = "spawned") /\ pc # "abandon"
    BY Zenon DEF GatewayInv
  <2>8. g \in Tracked /\ pc = "unstate" => g \in Disowned
    BY Zenon, LivingFacts DEF GatewayInv
  <2> QED
    BY Zenon, <2>1, <2>2, <2>4, <2>5, <2>6, <2>7, <2>8 DEF GatewayInv, planned
<1>2. CASE GatewayExits(g)
  <2>1. gate' = [gate EXCEPT ![g] = Dead(g)] /\ serves' = [serves EXCEPT ![g] = None]
        /\ ~socket' /\ UNCHANGED <<router, config, state, strays>>
    BY Zenon, <1>2 DEF GatewayExits
  <2>2. gate'[g] \in {"none", "gone"}
        /\ \A h \in Gateways : h # g => gate'[h] = gate[h] /\ serves'[h] = serves[h]
    BY <2>1 DEF GatewayTypeOK, Dead
  <2>3. Tracked' \subseteq Tracked /\ (Owned' => Owned)
    <3>1. Tracked' \subseteq Tracked
      BY Zenon, <2>1, <2>2 DEF Tracked, Living, Alive
    <3>2. Owned' => Owned
      BY <2>1 DEF Owned, Alive, Dead, GatewayTypeOK
    <3> QED
      BY Zenon, <3>1, <3>2
  <2>4. \A h \in Gateways : gate'[h] = "serving" => gate[h] = "serving" /\ serves'[h] = serves[h]
    BY Zenon, <2>2
  <2> QED
    BY Zenon, <2>1, <2>3, <2>4 DEF GatewayInv, planned
<1>3. CASE PidReused(g)
  <2>1. gate' = [gate EXCEPT ![g] = "reused"] /\ gate[g] = "gone"
        /\ UNCHANGED <<router, config, state, socket, serves, strays>>
    BY Zenon, <1>3 DEF PidReused
  <2>2. gate'[g] = "reused" /\ \A h \in Gateways : h # g => gate'[h] = gate[h]
    BY <2>1 DEF GatewayTypeOK
  <2>3. Living' = Living /\ (Owned' => Owned)
    <3>1. Living' = Living
      BY Zenon, <2>1, <2>2 DEF Living, Alive
    <3>2. Owned' => Owned
      BY <2>1 DEF Owned, Alive, GatewayTypeOK
    <3> QED
      BY Zenon, <3>1, <3>2
  <2>4. Tracked' = Tracked /\ Disowned' = Disowned
    BY Zenon, <2>1, <2>3 DEF Tracked, Disowned
  <2>5. \A h \in Gateways : gate'[h] = "serving" => gate[h] = "serving"
    BY Zenon, <2>2
  <2> QED
    BY Zenon, <2>1, <2>3, <2>4, <2>5 DEF GatewayInv, planned
<1>4. CASE GatewayDies(g)
  <2>1. Tracked' = Tracked \ {g} /\ Disowned' = Disowned
        /\ UNCHANGED <<router, config, state, socket, strays>>
        /\ \A h \in Gateways : gate'[h] = "serving" => gate[h] = "serving" /\ serves'[h] = serves[h]
    BY Zenon, <1>4, GatewayKill DEF GatewayDies
  <2>2. Owned' => Owned
    BY <1>4, <2>1 DEF Owned, Alive, GatewayDies, KillGateway, Dead, GatewayTypeOK
  <2> QED
    BY Zenon, <2>1, <2>2 DEF GatewayInv, planned
<1> QED
  BY Zenon, <1>1, <1>2, <1>3, <1>4

(* A command that is cut short while it alone knows its gateway leaves a    *)
(* stray.                                                                   *)
LEMMA GatewayKilled ==
  ASSUME GatewayRuns, Killed
  PROVE  GatewayInv'
<1> USE DEF GatewayRuns
<1>1. pc' = "idle"
  BY Zenon DEF Killed, Fail, End
<1>2. CASE ~OwnGateway
  <2>1. UNCHANGED gatewayVars /\ pc # "spawned" /\ (pc # "abandon" \/ state # None)
    BY Zenon, <1>2 DEF Killed, OwnGateway, GatewayInv
  <2> QED
    BY Zenon, <1>1, <2>1, GatewayFrame
<1>3. CASE OwnGateway
  <2>1. strays' = strays \cup {child} /\ UNCHANGED gate
    BY Zenon, <1>3 DEF Killed, LoseGateway
  <2>2. \A g \in Tracked : g = child
    BY Zenon, <1>3, LivingFacts DEF OwnGateway, GatewayInv
  <2>3. Tracked' = {} /\ strays' # {}
    BY Zenon, <2>1, <2>2 DEF Tracked, Living
  <2> QED
    BY Zenon, <1>1, <2>3, GatewayIdle
<1> QED
  BY Zenon, <1>2, <1>3

LEMMA GatewayFails ==
  ASSUME GatewayRuns, FailStep
  PROVE  GatewayInv'
<1> USE DEF GatewayRuns
<1>1. CASE LaunchFails
  <2>1. pc = "launch" /\ state = None /\ ~socket /\ UNCHANGED <<state, socket, gate, strays>>
        /\ pc' = "idle"
    BY Zenon, <1>1 DEF LaunchFails, Fail, End
  <2>2. Tracked' = {} /\ ~socket'
    BY Zenon, <2>1, LivingFacts DEF Tracked, Living
  <2> QED
    BY Zenon, <2>1, <2>2, GatewayIdle
<1>2. CASE ~LaunchFails /\ ~Killed
  <2>1. UNCHANGED gatewayVars /\ pc' \in {"idle", "quiet"}
    BY Zenon, <1>2 DEF FailStep, WritePlanFails, UpProjectFails, KillRefused, QuietFails,
       PreflightFails, PublishFails, files, Fail, End, QuietThen
  <2>2. pc \in {"write", "compose", "termed", "quiet", "publish"}
    BY Zenon, <1>2 DEF FailStep, WritePlanFails, UpProjectFails, KillRefused, QuietFails,
       PreflightFails, PublishFails
  <2> QED
    BY Zenon, <2>1, <2>2, GatewayFrame
<1> QED
  BY Zenon, <1>1, <1>2, GatewayKilled

LEMMA GatewayKept ==
  ASSUME GatewayRuns, CommandInv, [RuntimeNext]_runtimeVars
  PROVE  GatewayInv'
<1> USE DEF GatewayRuns
<1>1. CASE \E op \in {"up", "down", "cleanup"}, token \in BOOLEAN : Begin(op, token)
  <2>1. pc = "idle" /\ pc' \in {"eligible", "unpublish"} /\ UNCHANGED gatewayVars
    BY Zenon, <1>1 DEF Begin, files
  <2> QED
    BY Zenon, <2>1, GatewayFrame
<1>2. CASE UpStep
  <2>1. UNCHANGED gatewayVars /\ pc \in {"eligible", "drift", "token", "write", "compose"}
    BY Zenon, <1>2, UpView
       DEF UpStep, CheckEligible, CheckDrift, CheckToken, WritePlan, UpProject, UpProjectRefused,
           ProbeExternals
  <2>2. pc' \in {"idle", "drift", "token", "write", "compose", "host"}
    BY Zenon, <1>2
       DEF UpStep, CheckEligible, CheckDrift, CheckToken, WritePlan, UpProject, UpProjectRefused,
           ProbeExternals, Goto, Fail, End
  <2> QED
    BY Zenon, <2>1, <2>2, GatewayFrame
<1>3. CASE GatewayReady \/ Unpublish
  <2>1. UNCHANGED gatewayVars /\ pc \in {"waiting", "unpublish"} /\ pc' \in {"lan", "quiet"}
    BY Zenon, <1>3 DEF GatewayReady, Unpublish, files, Goto, QuietThen
  <2> QED
    BY Zenon, <2>1, GatewayFrame
<1>4. CASE Quiet
  <2>1. UNCHANGED gatewayVars /\ pc = "quiet"
    BY Zenon, <1>4 DEF Quiet
  <2>2. pc' \in {"quiet", "idle", "term", "tail", "publish"}
    BY Zenon, <1>4 DEF Quiet, Goto, Fail, End, CommandInv, CommandTypeOK
  <2> QED
    BY Zenon, <2>1, <2>2, GatewayFrame
<1>5. CASE HostStep
  BY Zenon, <1>3, <1>4, <1>5, GatewayHost, GatewayLaunch, GatewayRecord, GatewayGivenUp, GatewayTerm,
     GatewayTermed, GatewayRemoved DEF HostStep
<1>6. CASE PublishStep
  <2>1. UNCHANGED gatewayVars /\ pc \in {"lan", "publish", "published", "tail"}
    BY Zenon, <1>6, PublishView DEF PublishStep, Lan, Publish, Published, AllPublished, Tailnet
  <2>2. pc' \in {"idle", "quiet", "tail", "publish", "published"}
    BY Zenon, <1>6 DEF PublishStep, Lan, Publish, Published, AllPublished, Tailnet, Goto, Fail, End,
       QuietThen
  <2> QED
    BY Zenon, <2>1, <2>2, GatewayFrame
<1>7. CASE DownStep
  <2>1. UNCHANGED gatewayVars /\ pc = "teardown"
    BY Zenon, <1>7, DownView DEF DownStep, DownProject, DownProjectFails, DownEnds
  <2>2. UNCHANGED <<pc, child, cmd>> \/ pc' = "idle"
    BY Zenon, <1>7 DEF DownStep, DownProject, DownProjectFails, DownEnds, End
  <2> QED
    BY Zenon, <2>1, <2>2, GatewayFrame, GatewayStutter
<1>8. CASE Edit \/ GatewayMoves \/ Accident \/ Repair
  <2>1. UNCHANGED <<pc, child, cmd>>
    BY Zenon, <1>8, OutsideView DEF cliVars
  <2>2. \/ UNCHANGED gatewayVars
        \/ \E g \in Gateways : GatewayServes(g) \/ GatewayExits(g) \/ PidReused(g) \/ GatewayDies(g)
    BY Zenon, <1>8 DEF Edit, GatewayMoves, Accident, Repair, files
  <2> QED
    BY Zenon, <2>1, <2>2, GatewayStutter, GatewayByItself
<1>10. CASE Reinstall
  <2>1. pc = "idle" /\ UNCHANGED <<pc, child, cmd>>
        /\ UNCHANGED <<config, state, socket, gate, serves, strays>>
    BY Zenon, <1>10 DEF Reinstall, Reconfigure, cliVars
  <2>2. Tracked' = Tracked
    BY Zenon, <2>1 DEF Tracked, Living
  <2> QED
    BY Zenon, <2>1, <2>2 DEF GatewayInv
<1>9. CASE UNCHANGED runtimeVars
  BY Zenon, <1>9, GatewayStutter DEF runtimeVars, cliVars
<1> QED
  BY Zenon, <1>1, <1>2, <1>5, <1>6, <1>7, <1>8, <1>9, <1>10, GatewayFails DEF RuntimeNext, CliStep

-----------------------------------------------------------------------------
(* The publishers.                                                          *)

PublisherRuns == PublicationTypeOK /\ PublisherInv

LEMMA RecordedArePublishers ==
  ASSUME PublicationTypeOK
  PROVE  Recorded \subseteq Publishers
<1>1. CASE mdns = None
  BY Zenon, <1>1 DEF Recorded
<1>2. CASE mdns # None
  <2>1. mdns \in [plan : Plans, pubs : SUBSET Publishers]
    BY Zenon, <1>2 DEF PublicationTypeOK, PublisherRecords
  <2>2. mdns.pubs \subseteq Publishers
    BY <2>1
  <2> QED
    BY Zenon, <1>2, <2>2 DEF Recorded
<1> QED
  BY Zenon, <1>1, <1>2

(* Publishers stop at most, and the command goes on elsewhere ...           *)
LEMMA PublisherFrame ==
  ASSUME PublisherRuns, publishers' \subseteq publishers, mdns' = mdns,
         tailnet' = tailnet \/ pc' = "idle", stopping' \in {stopping, {}},
         publishers \subseteq Recorded,
         pc' \notin {"quiet", "published", "publish", "tail"},
         pc' \in Quieted => cmd' = cmd /\ (pc \in Quieted \/ cmd.op = "up")
  PROVE  PublisherRuns'
<1>1. Recorded' = Recorded
  BY Zenon DEF Recorded
<1>2. PublicationTypeOK'
  BY Zenon DEF PublisherRuns, PublicationTypeOK
<1>3. PublisherInv'
  <2>1. publishers' \subseteq Recorded'
    BY Zenon, <1>1
  <2>2. cmd'.op # "up" /\ pc' \in Quieted => mdns' = None /\ publishers' = {} /\ tailnet' = None
    BY Zenon DEF PublisherRuns, PublisherInv, Quieted
  <2> QED
    BY Zenon, <2>1, <2>2 DEF PublisherInv
<1> QED
  BY Zenon, <1>2, <1>3 DEF PublisherRuns

(* ... or stays where it is.                                                *)
LEMMA PublisherStutter ==
  ASSUME PublisherRuns, publishers' \subseteq publishers, UNCHANGED <<mdns, tailnet>>,
         UNCHANGED <<pc, onQuiet, stopping, child, cmd>>
  PROVE  PublisherRuns'
<1>1. Recorded' = Recorded
  BY Zenon DEF Recorded
<1>2. RecordedNames' = RecordedNames
  BY Zenon, <1>1 DEF RecordedNames
<1>3. PublicationTypeOK'
  BY Zenon DEF PublisherRuns, PublicationTypeOK
<1>4. PublisherInv'
  BY Zenon, <1>1, <1>2 DEF PublisherRuns, PublisherInv, planned
<1> QED
  BY Zenon, <1>3, <1>4 DEF PublisherRuns

(* stop_publishers begins with what is recorded, or with that and the one   *)
(* that was spawned last.                                                   *)
LEMMA PublisherQuiets ==
  ASSUME PublisherRuns, UNCHANGED <<publishers, mdns>>, tailnet' = tailnet \/ tailnet' = None,
         NEW pubs, NEW step, QuietThen(pubs, step), pubs \subseteq Publishers,
         publishers \subseteq pubs, step # "idle" => pubs = Recorded,
         step = "tail" => planned.names = {}, cmd.op # "up" => tailnet' = None
  PROVE  PublisherRuns'
<1>1. Recorded' = Recorded /\ pc' = "quiet" /\ stopping' = pubs /\ onQuiet' = step /\ cmd' = cmd
  BY Zenon DEF Recorded, QuietThen
<1>2. PublicationTypeOK'
  BY Zenon, <1>1 DEF PublisherRuns, PublicationTypeOK
<1>3. PublisherInv'
  BY Zenon, <1>1 DEF PublisherInv, planned, Quieted
<1> QED
  BY Zenon, <1>2, <1>3 DEF PublisherRuns

LEMMA PublisherUnpublish ==
  ASSUME PublisherRuns, Unpublish
  PROVE  PublisherRuns'
<1>1. pc = "unpublish" /\ UNCHANGED <<publishers, mdns>> /\ tailnet' = None /\ QuietThen(Recorded, "term")
  BY Zenon DEF Unpublish, ForgetTailnet
<1>2. publishers \subseteq Recorded /\ Recorded \subseteq Publishers
  BY Zenon, <1>1, RecordedArePublishers DEF PublisherRuns, PublisherInv
<1> QED
  BY Zenon, <1>1, <1>2, PublisherQuiets

LEMMA PublisherQuiet ==
  ASSUME PublisherRuns, CommandInv, Quiet
  PROVE  PublisherRuns'
<1>0. pc = "quiet" /\ publishers \subseteq stopping
  BY Zenon DEF Quiet, PublisherRuns, PublisherInv
<1>1. CASE stopping # {}
  <2> DEFINE pub == CHOOSE p \in stopping : TRUE
  <2>1. StopPublisher(pub) /\ stopping' = stopping \ {pub} /\ UNCHANGED <<cmd, pc, onQuiet, child>>
    BY Zenon, <1>1 DEF Quiet
  <2> HIDE DEF pub
  <2>2. publishers' = publishers \ {pub} /\ UNCHANGED <<mdns, tailnet>> /\ Recorded' = Recorded
    BY Zenon, <2>1 DEF StopPublisher, Recorded
  <2>3. PublicationTypeOK'
    BY Zenon, <2>1, <2>2 DEF PublisherRuns, PublicationTypeOK
  <2>4. publishers' \subseteq stopping' /\ stopping' \subseteq stopping
    BY Zenon, <1>0, <2>1, <2>2
  <2>5. PublisherInv'
    BY Zenon, <1>0, <2>1, <2>2, <2>4 DEF PublisherRuns, PublisherInv, planned, Quieted
  <2> QED
    BY Zenon, <2>3, <2>5 DEF PublisherRuns
<1>2. CASE stopping = {}
  <2>1. mdns' = None /\ UNCHANGED <<publishers, tailnet>> /\ publishers' = {}
    BY Zenon, <1>0, <1>2 DEF Quiet, ForgetPublishers
  <2>2. cmd' = cmd /\ stopping' = {} /\ (pc' = "idle" \/ pc' = onQuiet)
    BY Zenon, <1>2 DEF Quiet, Fail, End, Goto
  <2>3. Recorded' = {} /\ RecordedNames' = {}
    BY Zenon, <2>1 DEF Recorded, RecordedNames
  <2>4. PublicationTypeOK'
    BY Zenon, <2>1, <2>2 DEF PublicationTypeOK
  <2>5. pc' \in {"idle", "term", "tail", "publish"} /\ (pc' = "tail" => planned'.names = {})
    BY Zenon, <1>0, <2>2 DEF CommandInv, CommandTypeOK, PublisherRuns, PublisherInv, planned
  <2>6. cmd'.op # "up" => tailnet' = None
    BY Zenon, <1>0, <2>1, <2>2 DEF PublisherRuns, PublisherInv
  <2>7. PublisherInv'
    BY Zenon, <2>1, <2>3, <2>5, <2>6 DEF PublisherInv
  <2> QED
    BY Zenon, <2>4, <2>7 DEF PublisherRuns
<1> QED
  BY Zenon, <1>1, <1>2

(* The names are all there: TailscaleRuntime follows.                       *)
LEMMA PublisherTail ==
  ASSUME PublisherRuns, UNCHANGED publicationVars, pc \notin {"quiet", "published"}, Goto("tail"),
         RecordedNames = planned.names
  PROVE  PublisherRuns'
<1>1. Recorded' = Recorded /\ UNCHANGED <<publishers, mdns, tailnet>>
  BY Zenon DEF Recorded, publicationVars
<1>2. pc' = "tail" /\ UNCHANGED <<cmd, stopping>> /\ RecordedNames' = RecordedNames
  BY Zenon, <1>1 DEF Goto, RecordedNames
<1>3. PublicationTypeOK'
  BY Zenon, <1>1, <1>2 DEF PublisherRuns, PublicationTypeOK
<1>4. PublisherInv'
  BY Zenon, <1>1, <1>2 DEF PublisherRuns, PublisherInv, planned, Quieted
<1> QED
  BY Zenon, <1>3, <1>4 DEF PublisherRuns

LEMMA PublisherLan ==
  ASSUME PublisherRuns, CommandInv, Lan
  PROVE  PublisherRuns'
<1>1. pc = "lan" /\ UNCHANGED publicationVars /\ UNCHANGED <<publishers, mdns, tailnet>>
  BY Zenon DEF Lan, files, publicationVars
<1>2. publishers \subseteq Recorded /\ Recorded \subseteq Publishers /\ cmd.op = "up"
  BY Zenon, <1>1, RecordedArePublishers
     DEF PublisherRuns, PublisherInv, CommandInv, CommandTypeOK, Course, StopSteps
<1>3. CASE planned.names = {} /\ QuietThen(Recorded, "tail")
  BY Zenon, <1>1, <1>2, <1>3, PublisherQuiets
<1>4. CASE Publishes(planned) /\ Goto("tail")
  <2>1. RecordedNames = planned.names
    BY Zenon, <1>4 DEF Publishes, desired_publications, RecordedNames, Recorded
  <2> QED
    BY Zenon, <1>1, <1>4, <2>1, PublisherTail
<1>5. CASE QuietThen(Recorded, "publish")
  BY Zenon, <1>1, <1>2, <1>5, PublisherQuiets
<1> QED
  BY Zenon, <1>3, <1>4, <1>5 DEF Lan, desired_publications

LEMMA PublisherPublish ==
  ASSUME PublisherRuns, CommandInv, Publish
  PROVE  PublisherRuns'
<1> DEFINE name == CHOOSE n \in Missing : TRUE
           Fresh(p) == p[1] = name /\ p \notin publishers
<1>1. pc = "publish" /\ pc' = "published" /\ UNCHANGED <<cmd, stopping>> /\ Missing # {}
      /\ SpawnPublisher(child')
  BY Zenon DEF Publish
<1>0. child' = CHOOSE p \in Publishers : Fresh(p)
  BY Zenon DEF Publish
<1>2. name \in Missing
  BY Zenon, <1>1
<1> HIDE DEF name
<1>3. planned.names \subseteq Names
  BY Zenon, RuntimeAssumption DEF planned, CommandInv, CommandTypeOK
<1>4. name \in planned.names /\ name \in Names /\ name \notin RecordedNames
  BY Zenon, <1>2, <1>3 DEF Missing, desired_publications, RecordedNames
<1>5. publishers \subseteq Recorded /\ RecordedNames \subseteq planned.names
  BY Zenon, <1>1 DEF PublisherRuns, PublisherInv
<1>6. <<name, 1>> \in Publishers /\ <<name, 1>>[1] = name
  BY <1>4 DEF Publishers
<1>7. <<name, 1>> \notin publishers
  <2>1. \A pub \in Recorded : pub[1] \in RecordedNames
    BY Zenon DEF RecordedNames
  <2>2. <<name, 1>> \notin Recorded
    BY <1>4, <2>1
  <2> QED
    BY Zenon, <1>5, <2>2
<1>8. child' \in Publishers /\ child'[1] = name
  <2>1. \E p \in Publishers : p[1] = name /\ p \notin publishers
    BY Zenon, <1>6, <1>7
  <2>2. \E p \in Publishers : Fresh(p)
    BY Zenon, <2>1
  <2> HIDE DEF Fresh
  <2>3. child' \in Publishers /\ Fresh(child')
    BY Zenon, <1>0, <2>2
  <2> QED
    BY Zenon, <2>3 DEF Fresh
<1>9. publishers' = publishers \cup {child'} /\ UNCHANGED <<mdns, tailnet>> /\ Recorded' = Recorded
  BY Zenon, <1>1 DEF SpawnPublisher, Recorded
<1>10. RecordedNames' = RecordedNames
  BY Zenon, <1>9 DEF RecordedNames
<1>11. PublicationTypeOK'
  BY Zenon, <1>1, <1>8, <1>9 DEF PublisherRuns, PublicationTypeOK
<1>12. PublisherInv'
  BY Zenon, <1>1, <1>4, <1>5, <1>8, <1>9, <1>10 DEF PublisherInv, planned, Quieted
<1> QED
  BY Zenon, <1>11, <1>12 DEF PublisherRuns

LEMMA PublisherPublished ==
  ASSUME PublisherRuns, CommandInv, Published
  PROVE  PublisherRuns'
<1>1. /\ pc = "published" /\ child \in Publishers /\ publishers \subseteq Recorded \cup {child}
      /\ child[1] \in planned.names /\ RecordedNames \subseteq planned.names
      /\ Recorded \subseteq Publishers /\ cmd.op = "up"
  BY Zenon, RecordedArePublishers
     DEF Published, PublisherRuns, PublisherInv, CommandInv, CommandTypeOK, Course, StopSteps
<1>2. CASE RecordPublisher(planned, child) /\ Goto("publish")
  <2>1. mdns' = [plan |-> planned, pubs |-> Recorded \cup {child}] /\ UNCHANGED <<publishers, tailnet>>
        /\ pc' = "publish" /\ UNCHANGED <<cmd, stopping>>
    BY Zenon, <1>2 DEF RecordPublisher, Goto
  <2>2. planned \in Plans
    BY DEF CommandInv, CommandTypeOK, planned
  <2>3. mdns' \in [plan : Plans, pubs : SUBSET Publishers] /\ mdns'.pubs = Recorded \cup {child}
    BY <1>1, <2>1, <2>2
  <2>4. Recorded' = Recorded \cup {child}
    BY Zenon, <2>3, RuntimeAssumption DEF Recorded
  <2>5. RecordedNames' \subseteq planned'.names
    BY Zenon, <1>1, <2>1, <2>4 DEF RecordedNames, planned
  <2>6. PublicationTypeOK'
    BY Zenon, <2>1, <2>3 DEF PublisherRuns, PublicationTypeOK, PublisherRecords
  <2>7. PublisherInv'
    BY Zenon, <1>1, <2>1, <2>4, <2>5 DEF PublisherInv, Quieted
  <2> QED
    BY Zenon, <2>6, <2>7 DEF PublisherRuns
<1>3. CASE QuietThen(Recorded \cup {child}, "idle") /\ UNCHANGED publicationVars
  <2>1. UNCHANGED <<publishers, mdns, tailnet>> /\ Recorded \cup {child} \subseteq Publishers
    BY Zenon, <1>1, <1>3 DEF publicationVars
  <2> QED
    BY Zenon, <1>1, <1>3, <2>1, PublisherQuiets
<1> QED
  BY Zenon, <1>2, <1>3 DEF Published

LEMMA PublisherAllPublished ==
  ASSUME PublisherRuns, CommandInv, AllPublished \/ Tailnet
  PROVE  PublisherRuns'
<1>1. /\ pc \in {"publish", "tail"} /\ publishers \subseteq Recorded
      /\ publishers' \subseteq publishers /\ mdns' = mdns
  BY Zenon DEF AllPublished, Tailnet, PublisherRuns, PublisherInv, files, publicationVars, RecordTailnet,
     ForgetTailnet
<1>2. CASE pc' = "idle"
  <2>1. stopping' \in {stopping, {}}
    BY Zenon, <1>2 DEF AllPublished, Tailnet, Goto, Fail, End
  <2> QED
    BY Zenon, <1>1, <1>2, <2>1, PublisherFrame DEF Quieted
<1>3. CASE pc' # "idle"
  <2>1. AllPublished /\ Goto("tail")
    BY Zenon, <1>3 DEF AllPublished, Tailnet, Fail, End
  <2>2. UNCHANGED publicationVars /\ pc = "publish" /\ Missing = {}
    BY Zenon, <2>1 DEF AllPublished, files
  <2>3. RecordedNames = planned.names
    <3>1. RecordedNames \subseteq planned.names
      BY Zenon, <2>2 DEF PublisherRuns, PublisherInv
    <3>2. planned.names \subseteq RecordedNames
      BY Zenon, <2>2 DEF Missing, desired_publications, RecordedNames
    <3> QED
      BY Zenon, <3>1, <3>2
  <2> QED
    BY Zenon, <2>1, <2>2, <2>3, PublisherTail
<1> QED
  BY Zenon, <1>2, <1>3

(* A command that is cut short takes from the publishers what it alone      *)
(* knows; what is left is on record.                                        *)
LEMMA PublisherKilled ==
  ASSUME PublisherRuns, Killed
  PROVE  publishers' \subseteq Recorded' /\ publishers' \subseteq publishers /\ mdns' = mdns
<1>1. publishers' = publishers \ OwnPublishers /\ mdns' = mdns
  BY Zenon DEF Killed, LosePublishers
<1>2. Recorded' = Recorded
  BY Zenon, <1>1 DEF Recorded
<1>3. CASE pc = "published"
  <2>1. OwnPublishers = {child}
    BY <1>3 DEF OwnPublishers
  <2> QED
    BY Zenon, <1>1, <1>2, <1>3, <2>1 DEF PublisherRuns, PublisherInv
<1>4. CASE pc = "quiet"
  <2>1. OwnPublishers = stopping \ Recorded
    BY <1>4 DEF OwnPublishers
  <2> QED
    BY Zenon, <1>1, <1>2, <1>4, <2>1 DEF PublisherRuns, PublisherInv
<1>5. CASE pc \notin {"quiet", "published"}
  BY Zenon, <1>1, <1>2, <1>5 DEF PublisherRuns, PublisherInv
<1> QED
  BY Zenon, <1>1, <1>3, <1>4, <1>5

(* A failing stop_publishers keeps the record, or nothing is left.          *)
LEMMA PublisherLeft ==
  ASSUME PublisherRuns, QuietFails
  PROVE  publishers' \subseteq Recorded' /\ publishers' \subseteq publishers /\ mdns' \in {mdns, None}
<1>1. PICK pub \in stopping :
        publishers' = publishers \ ((IF onQuiet = "idle" THEN stopping \ {pub} ELSE {}) \cup {pub})
  BY Zenon DEF QuietFails
<1>2. pc = "quiet" /\ publishers \subseteq stopping
  BY Zenon DEF QuietFails, PublisherRuns, PublisherInv
<1>3. CASE onQuiet = "idle"
  <2>1. publishers' = publishers \ ((stopping \ {pub}) \cup {pub})
    BY Zenon, <1>1, <1>3
  <2>2. publishers' = {} /\ mdns' = None
    BY Zenon, <1>2, <1>3, <2>1 DEF QuietFails
  <2> QED
    BY Zenon, <2>2
<1>4. CASE onQuiet # "idle"
  <2>1. publishers' = publishers \ ({} \cup {pub}) /\ mdns' = mdns
    BY Zenon, <1>1, <1>4 DEF QuietFails
  <2>2. Recorded' = Recorded
    BY Zenon, <2>1 DEF Recorded
  <2> QED
    BY Zenon, <1>2, <1>4, <2>1, <2>2 DEF PublisherRuns, PublisherInv
<1> QED
  BY Zenon, <1>3, <1>4

LEMMA PublisherFails ==
  ASSUME PublisherRuns, CommandInv, FailStep
  PROVE  PublisherRuns'
<1>1. CASE PublishFails
  <2>1. pc = "publish" /\ UNCHANGED <<publishers, mdns, tailnet>> /\ QuietThen(Recorded, "idle")
    BY Zenon, <1>1 DEF PublishFails, files, publicationVars
  <2>2. publishers \subseteq Recorded /\ Recorded \subseteq Publishers /\ cmd.op = "up"
    BY Zenon, <2>1, RecordedArePublishers
       DEF PublisherRuns, PublisherInv, CommandInv, CommandTypeOK, Course, StopSteps
  <2> QED
    BY Zenon, <2>1, <2>2, PublisherQuiets
<1>2. CASE ~PublishFails
  <2>1. pc' = "idle" /\ stopping' = {}
    BY Zenon, <1>2 DEF FailStep, WritePlanFails, UpProjectFails, LaunchFails, KillRefused, QuietFails,
       PreflightFails, Killed, Fail, End
  <2>2. publishers' \subseteq publishers /\ mdns' \in {mdns, None}
    BY Zenon, <1>2, PublisherKilled, PublisherLeft
       DEF FailStep, WritePlanFails, UpProjectFails, LaunchFails, KillRefused, PreflightFails, files,
           publicationVars
  <2>3. publishers' \subseteq Recorded'
    <3>1. CASE Killed
      BY Zenon, <3>1, PublisherKilled
    <3>2. CASE QuietFails
      BY Zenon, <3>2, PublisherLeft
    <3>3. CASE ~Killed /\ ~QuietFails
      <4>1. pc \notin {"quiet", "published"} /\ UNCHANGED <<publishers, mdns>>
        BY Zenon, <1>2, <3>3 DEF FailStep, WritePlanFails, UpProjectFails, LaunchFails, KillRefused,
           PreflightFails, files, publicationVars
      <4> QED
        BY Zenon, <4>1 DEF PublisherRuns, PublisherInv, Recorded
    <3> QED
      BY Zenon, <3>1, <3>2, <3>3
  <2>4. PublicationTypeOK'
    BY Zenon, <2>1, <2>2 DEF PublisherRuns, PublicationTypeOK
  <2>5. PublisherInv'
    BY Zenon, <2>1, <2>3 DEF PublisherInv, Quieted
  <2> QED
    BY Zenon, <2>4, <2>5 DEF PublisherRuns
<1> QED
  BY Zenon, <1>1, <1>2

LEMMA PublisherHost ==
  ASSUME PublisherRuns, CommandInv, HostStep, ~Unpublish, ~Quiet
  PROVE  PublisherRuns'
<1>1. UNCHANGED publicationVars
  BY Zenon DEF HostStep, Host, Launch, Record, RecordFails, GatewayReady, GiveUp, Abandon, Term, Termed,
     KillTermed, Unsocket, Unstate, Wipe, files
<1>2. pc \in {"host", "launch", "spawned", "waiting", "abandon"} \/ pc \in Quieted
  BY Zenon DEF HostStep, Host, Launch, Record, RecordFails, GatewayReady, GiveUp, Abandon, Term, Termed,
     KillTermed, Unsocket, Unstate, Wipe, Quieted
<1>3. cmd.op = "up" \/ pc \in Quieted
  BY Zenon, <1>2 DEF CommandInv, CommandTypeOK, Course, StopSteps
<1>4. UNCHANGED cmd /\ stopping' \in {stopping, {}}
  <2>1. CASE Host
    BY Zenon, <2>1 DEF Host, recover_for_restart, Goto, Fail, End, StopThen
  <2>2. CASE ~Host
    BY Zenon, <2>2 DEF HostStep, Launch, Record, RecordFails, GatewayReady, GiveUp, Abandon,
       Term, Termed, KillTermed, Unsocket, Unstate, Wipe, Goto, Fail, End
  <2> QED
    BY Zenon, <2>1, <2>2
<1>5. pc' \notin {"quiet", "published", "publish", "tail"}
  <2>1. CASE Host
    BY Zenon, <2>1 DEF Host, recover_for_restart, Goto, Fail, End, StopThen
  <2>2. CASE Launch \/ Record \/ RecordFails \/ GatewayReady \/ GiveUp \/ Abandon
    BY Zenon, <2>2 DEF Launch, Record, RecordFails, GatewayReady, GiveUp, Abandon, Goto, Fail, End
  <2>3. CASE Term \/ Termed \/ KillTermed \/ Unsocket \/ Unstate \/ Wipe
    BY Zenon, <2>3 DEF Term, Termed, KillTermed, Unsocket, Unstate, Wipe, Goto, CommandInv, CommandTypeOK
  <2> QED
    BY Zenon, <2>1, <2>2, <2>3 DEF HostStep
<1>6. publishers \subseteq Recorded
  BY Zenon, <1>2 DEF PublisherRuns, PublisherInv, Quieted
<1> QED
  BY Zenon, <1>1, <1>3, <1>4, <1>5, <1>6, PublisherFrame DEF publicationVars

LEMMA PublisherKept ==
  ASSUME PublisherRuns, CommandInv, [RuntimeNext]_runtimeVars
  PROVE  PublisherRuns'
<1>1. CASE \E op \in {"up", "down", "cleanup"}, token \in BOOLEAN : Begin(op, token)
  <2>1. pc = "idle" /\ pc' \in {"eligible", "unpublish"} /\ UNCHANGED publicationVars /\ UNCHANGED stopping
    BY Zenon, <1>1 DEF Begin, files
  <2> QED
    BY Zenon, <2>1, PublisherFrame DEF publicationVars, PublisherRuns, PublisherInv, Quieted
<1>2. CASE UpStep
  <2>1. UNCHANGED publicationVars /\ pc \in {"eligible", "drift", "token", "write", "compose"}
    BY Zenon, <1>2, UpView
       DEF UpStep, CheckEligible, CheckDrift, CheckToken, WritePlan, UpProject, UpProjectRefused,
           ProbeExternals
  <2>2. pc' \in {"idle", "drift", "token", "write", "compose", "host"} /\ stopping' \in {stopping, {}}
    BY Zenon, <1>2
       DEF UpStep, CheckEligible, CheckDrift, CheckToken, WritePlan, UpProject, UpProjectRefused,
           ProbeExternals, Goto, Fail, End
  <2> QED
    BY Zenon, <2>1, <2>2, PublisherFrame DEF publicationVars, PublisherRuns, PublisherInv, Quieted
<1>3. CASE DownStep
  <2>1. UNCHANGED publicationVars /\ pc = "teardown"
    BY Zenon, <1>3, DownView DEF DownStep, DownProject, DownProjectFails, DownEnds
  <2>2. pc' \in {"teardown", "idle"} /\ UNCHANGED cmd /\ stopping' \in {stopping, {}}
    BY Zenon, <1>3, <2>1 DEF DownStep, DownProject, DownProjectFails, DownEnds, End
  <2> QED
    BY Zenon, <2>1, <2>2, PublisherFrame DEF publicationVars, PublisherRuns, PublisherInv, Quieted
<1>4. CASE Edit \/ Reinstall \/ GatewayMoves \/ Accident \/ Repair
  <2>1. UNCHANGED <<pc, onQuiet, stopping, child, cmd>>
    BY Zenon, <1>4, OutsideView DEF cliVars
  <2>2. publishers' \subseteq publishers /\ UNCHANGED <<mdns, tailnet>>
    BY Zenon, <1>4 DEF Edit, Reinstall, GatewayMoves, Accident, Repair, files, publicationVars,
       PublisherDies
  <2> QED
    BY Zenon, <2>1, <2>2, PublisherStutter
<1>5. CASE UNCHANGED runtimeVars
  BY Zenon, <1>5, PublisherStutter DEF runtimeVars, cliVars, publicationVars
<1> QED
  BY Zenon, <1>1, <1>2, <1>3, <1>4, <1>5, PublisherHost, PublisherUnpublish, PublisherQuiet, PublisherLan,
     PublisherPublish, PublisherPublished, PublisherAllPublished, PublisherFails
     DEF RuntimeNext, CliStep, PublishStep

(* What holds of the processes and their records throughout.                *)
ProcessInv == ComposeTypeOK /\ CommandInv /\ GatewayRuns /\ PublisherRuns

LEMMA ProcessBegins ==
  ASSUME RuntimeInit
  PROVE  ProcessInv
<1>1. GatewayTypeOK
  BY DEF RuntimeInit, GatewayInit, GatewayTypeOK
<1>2. Tracked = {} /\ ~socket /\ pc = "idle" /\ strays = {}
  BY DEF RuntimeInit, GatewayInit, Tracked, Living, Alive
<1>3. \A g \in Gateways : gate[g] # "serving"
  BY Zenon, <1>2 DEF Tracked, Living, Alive
<1>4. GatewayInv
  BY Zenon, <1>2, <1>3 DEF GatewayInv
<1>5. PublisherRuns
  BY Zenon DEF RuntimeInit, PublicationInit, PublisherRuns, PublicationTypeOK, PublisherInv, Recorded,
     Quieted
<1> QED
  BY Zenon, <1>1, <1>4, <1>5, ComposeBegins DEF ProcessInv, GatewayRuns

LEMMA ProcessKept ==
  ASSUME ProcessInv, [RuntimeNext]_runtimeVars
  PROVE  ProcessInv'
BY Zenon, PlaneSteps, ComposeKept, CommandKept, GatewayTypes, GatewayKept, PublisherKept
   DEF ProcessInv, GatewayRuns

(* Whatever fails, dies or is killed: a gateway or a publisher that lives   *)
(* is on record, is the one that the command has just spawned, or is a      *)
(* stray, left by a command that was cut short between its spawn and its    *)
(* record or by a change of the router binary.  While there is no stray a   *)
(* socket between commands has a record, and every serving gateway but the  *)
(* strays has read the configuration on disk.                               *)
THEOREM NothingGetsLost == RuntimeSpec => []NothingIsLost
<1>1. RuntimeInit => ProcessInv
  BY Zenon, ProcessBegins
<1>2. ProcessInv /\ [RuntimeNext]_runtimeVars => ProcessInv'
  BY Zenon, ProcessKept
<1>3. ProcessInv => NothingIsLost
  <2> SUFFICES ASSUME ProcessInv PROVE NothingIsLost
    OBVIOUS
  <2>1. \A pub \in publishers : pub \in Recorded \cup stopping \/ (pc = "published" /\ child = pub)
    BY Zenon DEF ProcessInv, PublisherRuns, PublisherInv
  <2> QED
    BY Zenon, <2>1 DEF ProcessInv, GatewayRuns, GatewayInv, Tracked, NothingIsLost
<1> QED
  BY <1>1, <1>2, <1>3, PTL DEF RuntimeSpec

-----------------------------------------------------------------------------
(* The places of a plan, in the orders of up and down.                      *)

LEMMA RangeOfTail ==
  ASSUME NEW s \in Seq(Places), s # <<>>
  PROVE  /\ \A x \in Range(s) : x = Head(s) \/ x \in Range(Tail(s))
         /\ Head(s) \in Range(s) /\ Range(Tail(s)) \subseteq Range(s)
<1>1. /\ Len(s) \in Nat \ {0} /\ DOMAIN s = 1..Len(s) /\ Head(s) = s[1]
      /\ DOMAIN Tail(s) = 1..(Len(s) - 1)
      /\ \A i \in 1..(Len(s) - 1) : Tail(s)[i] = s[i + 1]
  OBVIOUS
<1>2. ASSUME NEW x \in Range(s), x # Head(s)
      PROVE  x \in Range(Tail(s))
  <2>1. PICK i \in 1..Len(s) : x = s[i]
    BY Zenon, <1>1 DEF Range
  <2>2. i - 1 \in 1..(Len(s) - 1) /\ Tail(s)[i - 1] = x
    BY <1>1, <1>2, <2>1
  <2> QED
    BY Zenon, <1>1, <2>2 DEF Range
<1>3. Head(s) \in Range(s)
  <2>1. 1 \in 1..Len(s)
    BY <1>1
  <2> QED
    BY Zenon, <1>1, <2>1 DEF Range
<1>4. ASSUME NEW x \in Range(Tail(s))
      PROVE  x \in Range(s)
  <2>1. PICK i \in 1..(Len(s) - 1) : x = Tail(s)[i]
    BY Zenon, <1>1 DEF Range
  <2>2. i + 1 \in 1..Len(s) /\ s[i + 1] = x
    BY <1>1, <2>1
  <2> QED
    BY Zenon, <1>1, <2>2 DEF Range
<1> QED
  BY Zenon, <1>2, <1>3, <1>4

LEMMA RangeOfBoth ==
  ASSUME NEW s \in Seq(Places), NEW t \in Seq(Places)
  PROVE  Range(s \o t) = Range(s) \cup Range(t)
<1>1. /\ Len(s) \in Nat /\ Len(t) \in Nat /\ DOMAIN s = 1..Len(s) /\ DOMAIN t = 1..Len(t)
      /\ DOMAIN (s \o t) = 1..(Len(s) + Len(t))
      /\ \A i \in 1..(Len(s) + Len(t)) : (s \o t)[i] = IF i <= Len(s) THEN s[i] ELSE t[i - Len(s)]
  OBVIOUS
<1>2. ASSUME NEW x \in Range(s \o t)
      PROVE  x \in Range(s) \/ x \in Range(t)
  <2>1. PICK i \in 1..(Len(s) + Len(t)) : x = (s \o t)[i]
    BY Zenon, <1>1 DEF Range
  <2>2. CASE i <= Len(s)
    <3>1. i \in 1..Len(s) /\ x = s[i]
      BY <1>1, <2>1, <2>2
    <3> QED
      BY Zenon, <1>1, <3>1 DEF Range
  <2>3. CASE ~(i <= Len(s))
    <3>1. i - Len(s) \in 1..Len(t) /\ x = t[i - Len(s)]
      BY <1>1, <2>1, <2>3
    <3> QED
      BY Zenon, <1>1, <3>1 DEF Range
  <2> QED
    BY Zenon, <2>2, <2>3
<1>3. ASSUME NEW x \in Range(s)
      PROVE  x \in Range(s \o t)
  <2>1. PICK i \in 1..Len(s) : x = s[i]
    BY Zenon, <1>1 DEF Range
  <2>2. i \in 1..(Len(s) + Len(t)) /\ x = (s \o t)[i]
    BY <1>1, <2>1
  <2> QED
    BY Zenon, <1>1, <2>2 DEF Range
<1>4. ASSUME NEW x \in Range(t)
      PROVE  x \in Range(s \o t)
  <2>1. PICK i \in 1..Len(t) : x = t[i]
    BY Zenon, <1>1 DEF Range
  <2>2. i + Len(s) \in 1..(Len(s) + Len(t)) /\ x = (s \o t)[i + Len(s)]
    BY <1>1, <2>1
  <2> QED
    BY Zenon, <1>1, <2>2 DEF Range
<1> QED
  BY Zenon, <1>2, <1>3, <1>4

LEMMA RangeOfReversed ==
  ASSUME NEW s \in Seq(Places)
  PROVE  Range(Reversed(s)) = Range(s) /\ Reversed(s) \in Seq(Places)
<1>1. /\ Len(s) \in Nat /\ DOMAIN s = 1..Len(s) /\ DOMAIN Reversed(s) = 1..Len(s)
      /\ \A i \in 1..Len(s) : s[i] \in Places /\ Reversed(s)[i] = s[Len(s) + 1 - i]
      /\ \A i \in 1..Len(s) : Len(s) + 1 - i \in 1..Len(s) /\ Len(s) + 1 - (Len(s) + 1 - i) = i
  BY DEF Reversed
<1>2. ASSUME NEW x \in Range(s)
      PROVE  x \in Range(Reversed(s))
  <2>1. PICK i \in 1..Len(s) : x = s[i]
    BY Zenon, <1>1 DEF Range
  <2>2. Len(s) + 1 - i \in 1..Len(s) /\ Reversed(s)[Len(s) + 1 - i] = x
    BY Zenon, <1>1, <2>1
  <2> QED
    BY Zenon, <1>1, <2>2 DEF Range
<1>3. ASSUME NEW x \in Range(Reversed(s))
      PROVE  x \in Range(s)
  <2>1. PICK i \in 1..Len(s) : x = Reversed(s)[i]
    BY Zenon, <1>1 DEF Range
  <2> QED
    BY Zenon, <1>1, <2>1 DEF Range
<1>4. Reversed(s) \in Seq(Places)
  BY <1>1 DEF Reversed
<1> QED
  BY Zenon, <1>2, <1>3, <1>4

(* down visits the places of up.                                            *)
LEMMA OrdersAgree ==
  ASSUME NEW plan \in Plans
  PROVE  Range(DownOrder(plan)) = Homes(plan)
<1> DEFINE here == IF plan.local THEN <<Local>> ELSE <<>>
<1>1. plan.remotes \in Seq(Places) /\ here \in Seq(Places)
  <2>1. plan.remotes \in Seq(Places)
    BY RuntimeAssumption DEF Places
  <2>2. <<Local>> \in Seq(Places) /\ <<>> \in Seq(Places)
    BY DEF Places
  <2> QED
    BY Zenon, <2>1, <2>2
<1>2. UpOrder(plan) = plan.remotes \o here /\ DownOrder(plan) = here \o Reversed(plan.remotes)
  BY Zenon DEF UpOrder, DownOrder
<1> HIDE DEF here
<1>3. Range(UpOrder(plan)) = Range(plan.remotes) \cup Range(here)
  <2>1. Range(plan.remotes \o here) = Range(plan.remotes) \cup Range(here)
    BY ONLY Zenon, <1>1, RangeOfBoth
  <2> QED
    BY ONLY Zenon, <1>2, <2>1
<1>4. Reversed(plan.remotes) \in Seq(Places) /\ Range(Reversed(plan.remotes)) = Range(plan.remotes)
  BY ONLY Zenon, <1>1, RangeOfReversed
<1>5. Range(DownOrder(plan)) = Range(here) \cup Range(plan.remotes)
  <2>1. Range(here \o Reversed(plan.remotes)) = Range(here) \cup Range(Reversed(plan.remotes))
    BY ONLY Zenon, <1>1, <1>4, RangeOfBoth
  <2> QED
    BY ONLY Zenon, <1>2, <1>4, <2>1
<1> QED
  BY Zenon, <1>3, <1>5 DEF Homes

-----------------------------------------------------------------------------
(* The projects, when all plans have the same places.                       *)

SamePlaces == \A plan, other \in Plans : Homes(plan) = Homes(other)

(* What a step can be for the places that are left to do.                   *)
TodoStep ==
  \/ cmd' = cmd /\ todo' = todo /\ clean' = clean
  \/ cmd' = cmd /\ todo' = <<>> /\ pc' = "idle"
  \/ cmd' = cmd /\ todo # <<>> /\ todo' = Tail(todo) /\ pc \in {"compose", "teardown"} /\ pc' = pc
  \/ cmd' = cmd /\ pc = "write" /\ todo' = UpOrder(planned)
  \/ \E op \in {"up", "down", "cleanup"}, token \in BOOLEAN : Begin(op, token)

LEMMA TodoView ==
  ASSUME [RuntimeNext]_runtimeVars
  PROVE  TodoStep
<1>1. CASE UpStep
  BY Zenon, <1>1 DEF UpStep, CheckEligible, CheckDrift, CheckToken, WritePlan, UpProject,
     UpProjectRefused, ProbeExternals, Goto, Fail, End, TodoStep
<1>2. CASE Host
  BY Zenon, <1>2 DEF Host, recover_for_restart, Goto, Fail, End, StopThen, TodoStep
<1>3. CASE Launch \/ Record \/ RecordFails \/ GatewayReady \/ GiveUp \/ Abandon \/ Unpublish
  BY Zenon, <1>3 DEF Launch, Record, RecordFails, GatewayReady, GiveUp, Abandon, Unpublish, Goto, Fail,
     End, QuietThen, TodoStep
<1>4. CASE Quiet
  BY Zenon, <1>4 DEF Quiet, Goto, Fail, End, TodoStep
<1>5. CASE Term \/ Termed \/ KillTermed \/ Unsocket \/ Unstate \/ Wipe
  BY Zenon, <1>5 DEF Term, Termed, KillTermed, Unsocket, Unstate, Wipe, Goto, TodoStep
<1>6. CASE PublishStep
  BY Zenon, <1>6 DEF PublishStep, Lan, Publish, Published, AllPublished, Tailnet, Goto, Fail, End,
     QuietThen, TodoStep
<1>7. CASE DownStep
  BY Zenon, <1>7 DEF DownStep, DownProject, DownProjectFails, DownEnds, End, TodoStep
<1>8. CASE FailStep
  BY Zenon, <1>8 DEF FailStep, WritePlanFails, UpProjectFails, LaunchFails, KillRefused, QuietFails,
     PreflightFails, PublishFails, Killed, Fail, End, QuietThen, TodoStep
<1>9. CASE Edit \/ Reinstall \/ GatewayMoves \/ Accident \/ Repair
  BY Zenon, <1>9, OutsideView DEF cliVars, TodoStep
<1>10. CASE UNCHANGED runtimeVars
  BY Zenon, <1>10 DEF runtimeVars, cliVars, TodoStep
<1> QED
  BY Zenon, <1>1, <1>2, <1>3, <1>4, <1>5, <1>6, <1>7, <1>8, <1>9, <1>10
     DEF RuntimeNext, CliStep, HostStep, TodoStep

LEMMA HomeKept ==
  ASSUME HomeInv, CommandInv, ComposeTypeOK, ComposeStep, TodoStep, SamePlaces
  PROVE  HomeInv'
<1>1. planned \in Plans /\ todo \in Seq(Places)
  BY DEF CommandInv, CommandTypeOK, planned
<1>2. ASSUME NEW plan \in Plans, NEW p \in Places, topology'[p] # {}
      PROVE  p \in Homes(plan)
  <2>1. topology[p] # {} \/ (cmd.op = "up" /\ todo # <<>> /\ p = Head(todo))
    <3>1. CASE UNCHANGED topology
      BY Zenon, <1>2, <3>1
    <3>2. CASE pc = "compose" /\ todo # <<>> /\ ComposeUp(planned, Head(todo))
      <4>1. cmd.op = "up"
        BY Zenon, <3>2 DEF CommandInv, CommandTypeOK, Course, StopSteps
      <4> QED
        BY <1>2, <3>2, <4>1 DEF ComposeUp, ComposeTypeOK
    <3>3. CASE pc = "compose" /\ todo # <<>> /\ ComposeUpFails(planned, Head(todo))
      <4>1. cmd.op = "up"
        BY Zenon, <3>3 DEF CommandInv, CommandTypeOK, Course, StopSteps
      <4> QED
        BY <1>2, <3>3, <4>1 DEF ComposeUpFails, ComposeTypeOK
    <3>4. CASE ComposeDown(Head(todo), cmd.op = "cleanup")
      BY <1>2, <3>4 DEF ComposeDown, ComposeTypeOK
    <3>5. CASE ComposeDownFails(Head(todo))
      BY <1>2, <3>5 DEF ComposeDownFails, ComposeTypeOK
    <3> QED
      BY Zenon, <3>1, <3>2, <3>3, <3>4, <3>5
         DEF ComposeStep, composeVars, dockerVars, Republish, Unplug, Replug
  <2>2. CASE topology[p] # {}
    BY Zenon, <2>2 DEF HomeInv
  <2>3. CASE cmd.op = "up" /\ todo # <<>> /\ p = Head(todo)
    <3>1. p \in Homes(planned)
      BY Zenon, <1>1, <2>3, RangeOfTail DEF HomeInv
    <3> QED
      BY Zenon, <1>1, <3>1 DEF SamePlaces
  <2> QED
    BY Zenon, <2>1, <2>2, <2>3
<1>3. ASSUME cmd'.op = "up"
      PROVE  Range(todo') \subseteq Homes(planned')
  <2>0. Range(<<>>) = {}
    BY DEF Range
  <2>1. CASE cmd' = cmd /\ todo' = todo
    BY Zenon, <1>3, <2>1 DEF HomeInv, planned
  <2>2. CASE todo' = <<>>
    BY Zenon, <2>0, <2>2
  <2>3. CASE cmd' = cmd /\ todo # <<>> /\ todo' = Tail(todo)
    BY Zenon, <1>1, <1>3, <2>3, RangeOfTail DEF HomeInv, planned
  <2>4. CASE cmd' = cmd /\ todo' = UpOrder(planned)
    BY Zenon, <2>4 DEF Homes, planned
  <2>5. CASE \E op \in {"up", "down", "cleanup"}, token \in BOOLEAN : Begin(op, token)
    <3>1. PICK op \in {"up", "down", "cleanup"}, token \in BOOLEAN : Begin(op, token)
      BY Zenon, <2>5
    <3>2. cmd' = [op |-> op, plan |-> authored, token |-> token]
      BY Zenon, <3>1 DEF Begin
    <3>3. op = "up"
      BY <1>3, <3>2
    <3> QED
      BY Zenon, <2>2, <3>1, <3>3 DEF Begin
  <2> QED
    BY Zenon, <2>1, <2>2, <2>3, <2>4, <2>5 DEF TodoStep
<1> QED
  BY Zenon, <1>2, <1>3 DEF HomeInv

LEMMA OutsideCompose ==
  ASSUME Edit \/ Reinstall \/ GatewayMoves \/ Accident \/ Repair \/ UNCHANGED runtimeVars
  PROVE  UNCHANGED <<manifest, topology, volumes, foreign>> /\ UNCHANGED cliVars
<1>1. UNCHANGED composeVars \/ Republish \/ (\E p \in Places : Unplug(p)) \/ (\E p \in Places : Replug(p))
  BY Zenon DEF Edit, Reinstall, GatewayMoves, Accident, Repair, runtimeVars, docker
<1>2. UNCHANGED cliVars
  BY Zenon, OutsideView DEF runtimeVars
<1> QED
  BY Zenon, <1>1, <1>2 DEF composeVars, dockerVars, Republish, Unplug, Replug

LEMMA UpFrame ==
  ASSUME UpInv, UNCHANGED <<manifest, topology, foreign, cmd, todo>>,
         pc' = pc \/ pc \notin Before \cup {"compose"}
  PROVE  UpInv'
BY Zenon DEF UpInv, Before, planned

(* The plan gets through the checks and is brought up place by place.       *)
LEMMA UpChecks ==
  ASSUME UpInv, CommandInv, UpStep, ~UpProject
  PROVE  UpInv'
<1>0. pc' = "idle" => UpInv'
  BY Zenon DEF UpInv, Before
<1>1. CASE CheckEligible
  <2>1. pc' \in {"idle", "drift"}
    BY Zenon, <1>1 DEF CheckEligible, Goto, Fail, End
  <2> QED
    BY Zenon, <2>1 DEF UpInv, Before
<1>2. CASE CheckDrift
  <2>1. CASE ~(Local \in unreachable \/ RefusedForDrift(planned))
    <3>1. pc' = "token" /\ foreign' = foreign
      BY Zenon, <1>2, <2>1 DEF CheckDrift, Goto, docker, composeVars, dockerVars
    <3>2. Local \notin foreign
      <4> SUFFICES ASSUME Local \in foreign PROVE FALSE
        OBVIOUS
      <4>1. Local \in Observed(planned)
        BY Zenon DEF Observed
      <4>2. IsActive(planned) /\ Observed(planned) \cap foreign # {}
        BY Zenon, <4>1 DEF IsActive
      <4>3. Drift(planned) \in {"unknown", "drifted"}
        BY Zenon, <4>2 DEF Drift
      <4> QED
        BY Zenon, <2>1, <4>2, <4>3 DEF RefusedForDrift
    <3> QED
      BY Zenon, <3>1, <3>2 DEF UpInv, Before
  <2>2. CASE Local \in unreachable \/ RefusedForDrift(planned)
    BY Zenon, <1>0, <1>2, <2>2 DEF CheckDrift, Fail, End
  <2> QED
    BY Zenon, <2>1, <2>2
<1>3. CASE CheckToken
  <2>1. pc = "token" /\ pc' \in {"idle", "write"} /\ cmd' = cmd /\ foreign' = foreign
    BY Zenon, <1>3 DEF CheckToken, Goto, Fail, End, docker, composeVars, dockerVars
  <2> QED
    BY Zenon, <2>1 DEF UpInv, Before
<1>4. CASE WritePlan
  <2>1. CASE Eligible(planned)
    <3>1. pc = "write" /\ pc' = "compose" /\ todo' = UpOrder(planned) /\ cmd' = cmd
          /\ manifest' = planned.hash /\ foreign' = foreign
      BY Zenon, <1>4, <2>1 DEF WritePlan, dockerVars
    <3>2. planned' = planned /\ Range(todo') = Homes(planned)
      BY Zenon, <3>1 DEF Homes, planned
    <3> QED
      BY Zenon, <3>1, <3>2 DEF UpInv, Before
  <2>2. CASE ~Eligible(planned)
    BY Zenon, <1>0, <1>4, <2>2 DEF WritePlan, Fail, End
  <2> QED
    BY Zenon, <2>1, <2>2
<1>5. CASE UpProjectRefused \/ ProbeExternals
  <2>1. CASE pc' # "idle"
    <3>1. pc = "compose" /\ pc' = "host" /\ todo = <<>> /\ todo' = todo /\ cmd' = cmd
          /\ UNCHANGED <<manifest, topology, foreign>>
      BY Zenon, <1>5, <2>1 DEF UpProjectRefused, ProbeExternals, Goto, Fail, End, docker, composeVars,
         dockerVars
    <3> QED
      BY Zenon, <3>1 DEF UpInv, Before, planned
  <2> QED
    BY Zenon, <1>0, <2>1
<1> QED
  BY Zenon, <1>1, <1>2, <1>3, <1>4, <1>5 DEF UpStep

LEMMA UpPlace ==
  ASSUME UpInv, CommandInv, ComposeTypeOK, HomeInv, UpProject
  PROVE  UpInv'
<1>1. /\ pc = "compose" /\ pc' = pc /\ cmd' = cmd /\ todo # <<>> /\ todo' = Tail(todo)
      /\ manifest' = manifest /\ foreign' = foreign
      /\ ComposeUp(planned, Head(todo)) /\ topology' = [topology EXCEPT ![Head(todo)] = {planned.hash}]
      /\ Head(todo) \notin foreign
  BY Zenon DEF UpProject, ComposeUp, MayChange
<1>2. todo \in Seq(Places) /\ topology \in [Places -> SUBSET Hashes] /\ planned' = planned
      /\ Head(todo) \in Places
  BY Zenon, <1>1, CommandTail DEF CommandInv, CommandTypeOK, ComposeTypeOK, planned
<1>3. topology'[Head(todo)] = {planned.hash} /\ \A p \in Places : p # Head(todo) => topology'[p] = topology[p]
  BY <1>1, <1>2
<1>4. ASSUME cmd.op = "up", NEW p \in Homes(planned)
      PROVE  (topology'[p] = {planned.hash} /\ p \notin foreign) \/ p \in Range(Tail(todo))
  <2>1. (topology[p] = {planned.hash} /\ p \notin foreign) \/ p \in Range(todo)
    BY Zenon, <1>1, <1>4 DEF UpInv, Before
  <2>2. CASE p = Head(todo)
    BY Zenon, <1>1, <1>3, <2>2
  <2>3. CASE p # Head(todo)
    <3>1. p \in Range(todo) => p \in Range(Tail(todo))
      BY Zenon, <1>1, <1>2, <2>3, RangeOfTail
    <3>2. p \in Places
      <4>1. UpOrder(planned) \in Seq(Places)
        BY Zenon, OrdersArePlaces DEF CommandInv, CommandTypeOK, planned
      <4> QED
        BY <4>1 DEF Homes, Range
    <3> QED
      BY Zenon, <1>3, <2>1, <2>3, <3>1, <3>2
  <2> QED
    BY Zenon, <2>2, <2>3
<1> QED
  BY Zenon, <1>1, <1>2, <1>4 DEF UpInv, Before

LEMMA UpKept ==
  ASSUME UpInv, CommandInv, ComposeTypeOK, HomeInv, [RuntimeNext]_runtimeVars
  PROVE  UpInv'
<1>0. pc' = "idle" => UpInv'
  BY Zenon DEF UpInv, Before
<1>1. CASE \E op \in {"up", "down", "cleanup"}, token \in BOOLEAN : Begin(op, token)
  <2>1. PICK op \in {"up", "down", "cleanup"}, token \in BOOLEAN : Begin(op, token)
    BY Zenon, <1>1
  <2>2. cmd' = [op |-> op, plan |-> authored, token |-> token] /\ (op = "up" => pc' = "eligible")
    BY Zenon, <2>1 DEF Begin
  <2>3. cmd'.op = "up" => pc' = "eligible"
    BY <2>2
  <2> QED
    BY Zenon, <2>3 DEF UpInv, Before
<1>2. CASE HostStep
  <2>1. UNCHANGED <<manifest, topology, foreign>>
    BY Zenon, <1>2, HostView DEF composeVars, dockerVars
  <2>2. pc \in UpSteps \cup StopSteps /\ pc # "compose"
    BY Zenon, <1>2 DEF HostStep, Host, Launch, Record, RecordFails, GatewayReady, GiveUp, Abandon,
       Unpublish, Quiet, Term, Termed, KillTermed, Unsocket, Unstate, Wipe, UpSteps, StopSteps
  <2>3. pc' = "idle" \/ UNCHANGED <<cmd, todo>>
    BY Zenon, <2>2, TodoView DEF TodoStep, Begin, UpSteps, StopSteps
  <2> QED
    BY Zenon, <1>0, <2>1, <2>2, <2>3, UpFrame DEF Before, UpSteps, StopSteps
<1>3. CASE PublishStep \/ PublishFails
  <2>1. UNCHANGED <<manifest, topology, foreign>>
    BY Zenon, <1>3, PublishView DEF PublishFails, docker, composeVars, dockerVars
  <2>2. pc \in {"lan", "publish", "published", "tail"}
    BY Zenon, <1>3 DEF PublishStep, Lan, Publish, Published, AllPublished, Tailnet, PublishFails
  <2>3. pc' = "idle" \/ UNCHANGED <<cmd, todo>>
    BY Zenon, <2>2, TodoView DEF TodoStep, Begin
  <2> QED
    BY Zenon, <1>0, <2>1, <2>2, <2>3, UpFrame DEF Before
<1>4. CASE DownStep
  <2>1. pc = "teardown" /\ cmd' = cmd
    BY Zenon, <1>4 DEF DownStep, DownProject, DownProjectFails, DownEnds, End
  <2>2. cmd'.op # "up"
    BY Zenon, <2>1 DEF CommandInv, Course
  <2> QED
    BY Zenon, <2>2 DEF UpInv
<1>5. CASE FailStep /\ ~PublishFails
  BY Zenon, <1>0, <1>5 DEF FailStep, WritePlanFails, UpProjectFails, LaunchFails, KillRefused, QuietFails,
     PreflightFails, Killed, Fail, End
<1>6. CASE Edit \/ Reinstall \/ GatewayMoves \/ Accident \/ Repair \/ UNCHANGED runtimeVars
  BY Zenon, <1>6, OutsideCompose, UpFrame DEF cliVars
<1> QED
  BY Zenon, <1>1, <1>2, <1>3, <1>4, <1>5, <1>6, UpChecks, UpPlace DEF RuntimeNext, CliStep

LEMMA DownKept ==
  ASSUME DownInv, CommandInv, ComposeTypeOK, HomeInv, [RuntimeNext]_runtimeVars
  PROVE  DownInv'
<1>0. pc' = "idle" => DownInv'
  BY Zenon DEF DownInv
<1>1. UNCHANGED <<topology, cmd, todo, clean>> /\ pc # "idle" => DownInv'
  BY Zenon DEF DownInv
<1>2. CASE \E op \in {"up", "down", "cleanup"}, token \in BOOLEAN : Begin(op, token)
  <2>1. PICK op \in {"up", "down", "cleanup"}, token \in BOOLEAN : Begin(op, token)
    BY Zenon, <1>2
  <2>2. cmd' = [op |-> op, plan |-> authored, token |-> token] /\ topology' = topology
        /\ (op # "up" => todo' = DownOrder(authored))
    BY Zenon, <2>1 DEF Begin, docker, composeVars, dockerVars
  <2>3. cmd'.op # "up" => todo' = DownOrder(authored)
    BY <2>2
  <2>4. authored \in Plans /\ \A p \in Places : topology[p] # {} => p \in Homes(authored)
    BY Zenon DEF CommandInv, CommandTypeOK, HomeInv
  <2>5. Range(DownOrder(authored)) = Homes(authored)
    BY Zenon, <2>4, OrdersAgree
  <2> QED
    BY Zenon, <2>2, <2>3, <2>4, <2>5 DEF DownInv
<1>3. CASE UpStep \/ PublishStep \/ PublishFails
  <2>1. pc \in {"eligible", "drift", "token", "write", "compose", "lan", "publish", "published", "tail"}
    BY Zenon, <1>3 DEF UpStep, CheckEligible, CheckDrift, CheckToken, WritePlan, UpProject,
       UpProjectRefused, ProbeExternals, PublishStep, Lan, Publish, Published, AllPublished, Tailnet,
       PublishFails
  <2>2. cmd.op = "up" /\ cmd' = cmd
    BY Zenon, <2>1, TodoView DEF CommandInv, CommandTypeOK, Course, StopSteps, TodoStep, Begin
  <2> QED
    BY Zenon, <2>2 DEF DownInv
<1>4. CASE HostStep
  <2>1. UNCHANGED topology
    BY Zenon, <1>4, HostView DEF composeVars, dockerVars
  <2>2. pc \in UpSteps \cup StopSteps /\ pc # "compose"
    BY Zenon, <1>4 DEF HostStep, Host, Launch, Record, RecordFails, GatewayReady, GiveUp, Abandon,
       Unpublish, Quiet, Term, Termed, KillTermed, Unsocket, Unstate, Wipe, UpSteps, StopSteps
  <2>3. pc' = "idle" \/ UNCHANGED <<cmd, todo, clean>>
    BY Zenon, <2>2, TodoView DEF TodoStep, Begin, UpSteps, StopSteps
  <2> QED
    BY Zenon, <1>0, <1>1, <2>1, <2>2, <2>3 DEF UpSteps, StopSteps
<1>5. CASE DownProject
  <2>1. /\ pc = "teardown" /\ todo # <<>> /\ todo' = Tail(todo) /\ UNCHANGED <<cmd, clean>>
        /\ topology' = [topology EXCEPT ![Head(todo)] = {}]
    BY Zenon, <1>5 DEF DownProject, ComposeDown
  <2>2. todo \in Seq(Places) /\ topology \in [Places -> SUBSET Hashes] /\ Head(todo) \in Places
    BY Zenon, <2>1, CommandTail DEF CommandInv, CommandTypeOK, ComposeTypeOK
  <2>3. topology'[Head(todo)] = {} /\ \A p \in Places : p # Head(todo) => topology'[p] = topology[p]
    BY <2>1, <2>2
  <2>4. \A p \in Range(todo) : p = Head(todo) \/ p \in Range(Tail(todo))
    BY Zenon, <2>1, <2>2, RangeOfTail
  <2> QED
    BY Zenon, <2>1, <2>3, <2>4 DEF DownInv
<1>6. CASE DownProjectFails
  BY Zenon, <1>6 DEF DownProjectFails, DownInv
<1>7. CASE DownEnds \/ (FailStep /\ ~PublishFails)
  BY Zenon, <1>0, <1>7 DEF DownEnds, FailStep, WritePlanFails, UpProjectFails, LaunchFails, KillRefused,
     QuietFails, PreflightFails, Killed, Fail, End
<1>8. CASE Edit \/ Reinstall \/ GatewayMoves \/ Accident \/ Repair \/ UNCHANGED runtimeVars
  BY Zenon, <1>0, <1>1, <1>8, OutsideCompose DEF cliVars
<1> QED
  BY Zenon, <1>2, <1>3, <1>4, <1>5, <1>6, <1>7, <1>8 DEF RuntimeNext, CliStep, DownStep

-----------------------------------------------------------------------------
(* The gateway that up leaves, and what the commands report.                *)

LEMMA DoneFrame ==
  ASSUME DoneInv, UNCHANGED <<state, cmd>>, AfterGateway' => AfterGateway
  PROVE  DoneInv'
BY Zenon DEF DoneInv, GatewayDone, planned

LEMMA DoneHost ==
  ASSUME CommandInv, GatewayRuns, Host \/ GatewayReady \/ Wipe
  PROVE  DoneInv'
<1>1. CASE Host
  <2>1. CASE Goto("lan")
    <3>1. UNCHANGED <<state, cmd>>
      BY Zenon, <1>1, <2>1 DEF Host, Goto, files, gatewayVars
    <3>2. (~planned.host /\ GatewayStatus(planned) = "not configured")
          \/ (planned.host /\ GatewayStatus(planned) = "running")
      BY Zenon, <1>1, <2>1 DEF Host, Goto, Fail, End, StopThen, recover_for_restart
    <3>3. GatewayDone
      BY <3>2 DEF GatewayStatus, GatewayDone
    <3> QED
      BY Zenon, <3>1, <3>3 DEF DoneInv, GatewayDone, planned
  <2>2. CASE ~Goto("lan")
    <3>1. pc' \in {"idle", "launch", "unpublish", "unsocket"}
      BY Zenon, <1>1, <2>2 DEF Host, Goto, Fail, End, StopThen, recover_for_restart
    <3> QED
      BY Zenon, <3>1 DEF DoneInv, AfterGateway
  <2> QED
    BY Zenon, <2>1, <2>2
<1>2. CASE GatewayReady
  <2>1. pc = "waiting" /\ UNCHANGED <<state, cmd>>
    BY Zenon, <1>2 DEF GatewayReady, files, gatewayVars, Goto
  <2>2. planned.host /\ child \in Gateways
        /\ state = [proc |-> child, plan |-> planned, executable |-> router]
    BY Zenon, <2>1 DEF CommandInv, Course, GatewayRuns, GatewayInv
  <2>3. state \in [proc : Gateways, plan : Plans, executable : Binaries] /\ state.plan = planned
    <3>1. planned \in Plans /\ router \in Binaries
      BY DEF CommandInv, CommandTypeOK, planned, GatewayRuns, GatewayTypeOK
    <3> QED
      BY <2>2, <3>1
  <2>4. GatewayDone
    BY Zenon, <2>2, <2>3, RuntimeAssumption DEF GatewayDone
  <2> QED
    BY Zenon, <2>1, <2>4 DEF DoneInv, GatewayDone, planned
<1>3. CASE Wipe
  <2>1. pc = "wipe" /\ UNCHANGED <<state, cmd>>
    BY Zenon, <1>3 DEF Wipe, RemoveSocket, RemoveConfig, Goto
  <2>2. state = None /\ (cmd.op = "up" => ~planned.host)
    BY Zenon, <2>1 DEF CommandInv, Course, GatewayRuns, GatewayInv
  <2>3. pc' \in {"wipe", "teardown"} \/ cmd.op = "up"
    BY Zenon, <1>3 DEF Wipe, Goto
  <2>4. cmd.op = "up" => GatewayDone
    BY Zenon, <2>2 DEF GatewayDone
  <2>5. CASE cmd.op = "up"
    BY Zenon, <2>1, <2>4, <2>5 DEF DoneInv, GatewayDone, planned
  <2>6. CASE pc' \in {"wipe", "teardown"}
    BY Zenon, <2>6 DEF DoneInv, AfterGateway
  <2> QED
    BY Zenon, <2>3, <2>5, <2>6
<1> QED
  BY Zenon, <1>1, <1>2, <1>3

LEMMA DoneKept ==
  ASSUME DoneInv, CommandInv, GatewayRuns, [RuntimeNext]_runtimeVars
  PROVE  DoneInv'
<1>0. ~AfterGateway' => DoneInv'
  BY Zenon DEF DoneInv
<1>1. CASE \E op \in {"up", "down", "cleanup"}, token \in BOOLEAN : Begin(op, token)
  <2>1. pc' \in {"eligible", "unpublish"}
    BY Zenon, <1>1 DEF Begin
  <2> QED
    BY Zenon, <1>0, <2>1 DEF AfterGateway
<1>2. CASE UpStep \/ DownStep
  <2>1. pc' \in {"idle", "drift", "token", "write", "compose", "host", "teardown"}
    BY Zenon, <1>2 DEF UpStep, CheckEligible, CheckDrift, CheckToken, WritePlan, UpProject,
       UpProjectRefused, ProbeExternals, DownStep, DownProject, DownProjectFails, DownEnds, Goto, Fail, End
  <2> QED
    BY Zenon, <1>0, <2>1 DEF AfterGateway
<1>3. CASE Launch \/ Record \/ RecordFails \/ GiveUp \/ Abandon \/ Unpublish
  <2>1. pc' \in {"idle", "spawned", "waiting", "abandon"} \/ (pc' = "quiet" /\ onQuiet' = "term")
    BY Zenon, <1>3 DEF Launch, Record, RecordFails, GiveUp, Abandon, Unpublish, Goto, Fail, End, QuietThen
  <2> QED
    BY Zenon, <1>0, <2>1 DEF AfterGateway
<1>4. CASE Quiet
  <2>1. pc = "quiet" /\ UNCHANGED <<state, cmd>>
    BY Zenon, <1>4 DEF Quiet, gatewayVars, Goto, Fail, End
  <2>2. pc' = "idle" \/ (pc' = pc /\ onQuiet' = onQuiet) \/ pc' = onQuiet
    BY Zenon, <1>4 DEF Quiet, Goto, Fail, End
  <2>3. AfterGateway' => AfterGateway
    BY Zenon, <2>1, <2>2 DEF AfterGateway, CommandInv, CommandTypeOK
  <2> QED
    BY Zenon, <2>1, <2>3, DoneFrame
<1>5. CASE Term \/ Termed \/ KillTermed \/ Unsocket \/ Unstate
  <2>1. pc' \in {"termed", "unsocket", "unstate", "idle", "launch", "wipe", "teardown"}
    BY Zenon, <1>5 DEF Term, Termed, KillTermed, Unsocket, Unstate, Goto, CommandInv, CommandTypeOK
  <2> QED
    BY Zenon, <1>0, <2>1 DEF AfterGateway
<1>6. CASE PublishStep
  <2>1. AfterGateway
    BY Zenon, <1>6 DEF PublishStep, Lan, Publish, Published, AllPublished, Tailnet, AfterGateway
  <2>2. UNCHANGED <<state, cmd>>
    BY Zenon, <1>6, PublishView DEF gatewayVars, PublishStep, Lan, Publish, Published, AllPublished,
       Tailnet, Goto, Fail, End, QuietThen
  <2> QED
    BY Zenon, <2>1, <2>2, DoneFrame
<1>7. CASE FailStep
  <2>1. pc' = "idle" \/ (pc' = "quiet" /\ onQuiet' = "idle")
    BY Zenon, <1>7 DEF FailStep, WritePlanFails, UpProjectFails, LaunchFails, KillRefused, QuietFails,
       PreflightFails, PublishFails, Killed, Fail, End, QuietThen
  <2> QED
    BY Zenon, <1>0, <2>1 DEF AfterGateway
<1>8. CASE Edit \/ Reinstall \/ GatewayMoves \/ Accident \/ Repair \/ UNCHANGED runtimeVars
  <2>1. UNCHANGED cliVars
    BY Zenon, <1>8, OutsideCompose
  <2>2. UNCHANGED state
    BY Zenon, <1>8 DEF Edit, Reinstall, Reconfigure, GatewayMoves, Accident, Repair, runtimeVars, files,
       gatewayVars, GatewayServes, GatewayExits, PidReused, GatewayDies, KillGateway
  <2> QED
    BY Zenon, <2>1, <2>2, DoneFrame DEF cliVars, AfterGateway
<1> QED
  BY Zenon, <1>1, <1>2, <1>3, <1>4, <1>5, <1>6, <1>7, <1>8, DoneHost DEF RuntimeNext, CliStep, HostStep

LEMMA OutsideOutcome ==
  ASSUME OutcomeInv, GatewayRuns,
         Edit \/ Reinstall \/ GatewayMoves \/ Accident \/ Repair \/ UNCHANGED runtimeVars
  PROVE  OutcomeInv'
<1>1. UNCHANGED <<manifest, topology, foreign>> /\ UNCHANGED <<cmd, outcome>>
  BY Zenon, OutsideCompose DEF cliVars
<1>2. UNCHANGED <<state, strays, mdns, tailnet>> /\ publishers' \subseteq publishers
  BY Zenon DEF Edit, Reinstall, Reconfigure, GatewayMoves, Accident, Repair, runtimeVars, files,
     gatewayVars, GatewayServes, GatewayExits, PidReused, GatewayDies, KillGateway, publicationVars,
     PublisherDies
<1>3. Living' \subseteq Living
  <2>1. \/ UNCHANGED gate
        \/ \E g \in Gateways : GatewayServes(g) \/ GatewayExits(g) \/ PidReused(g) \/ GatewayDies(g)
    BY Zenon DEF Edit, Reinstall, Reconfigure, GatewayMoves, Accident, Repair, runtimeVars, files,
       gatewayVars
  <2>2. CASE UNCHANGED gate
    BY Zenon, <2>2 DEF Living
  <2>3. ASSUME NEW g \in Gateways,
               GatewayServes(g) \/ GatewayExits(g) \/ PidReused(g) \/ GatewayDies(g)
        PROVE  Living' \subseteq Living
    <3>1. \A h \in Gateways : h # g => gate'[h] = gate[h]
      BY <2>3 DEF GatewayServes, GatewayExits, PidReused, GatewayDies, KillGateway, GatewayRuns,
         GatewayTypeOK
    <3>2. gate[g] \in Alive \/ gate'[g] = "reused"
      BY <2>3 DEF GatewayServes, GatewayExits, PidReused, GatewayDies, Alive, GatewayRuns,
         GatewayTypeOK
    <3> QED
      BY Zenon, <3>1, <3>2 DEF Living, Alive
  <2> QED
    BY Zenon, <2>1, <2>2, <2>3
<1>4. Recorded' = Recorded
  BY Zenon, <1>2 DEF Recorded
<1>5. UpDone => UpDone'
  BY Zenon, <1>1, <1>2, <1>4 DEF UpDone, GatewayDone, RecordedNames, planned
<1>6. DownDone => DownDone'
  BY Zenon, <1>1, <1>2, <1>3 DEF DownDone
<1> QED
  BY Zenon, <1>1, <1>5, <1>6 DEF OutcomeInv

(* up reports success.                                                      *)
LEMMA UpReports ==
  ASSUME CommandInv, PublisherRuns, DoneInv, UpInv, Tailnet, outcome' = "up"
  PROVE  UpDone'
<1>1. pc = "tail" /\ End("up") /\ UNCHANGED <<composeVars, gatewayVars>>
  BY Zenon DEF Tailnet, docker, Fail, End
<1>2. UNCHANGED <<manifest, topology, foreign, state, cmd>>
  BY Zenon, <1>1 DEF composeVars, dockerVars, gatewayVars, End
<1>3. UNCHANGED mdns /\ tailnet' = IF planned.tail THEN planned ELSE None
  BY Zenon DEF Tailnet, configuration, RecordTailnet, ForgetTailnet, Fail, End
<1>4. cmd.op = "up"
  BY Zenon, <1>1 DEF CommandInv, CommandTypeOK, Course, StopSteps
<1>5. /\ manifest = planned.hash /\ Local \notin foreign
      /\ \A p \in Homes(planned) : topology[p] = {planned.hash} /\ p \notin foreign
  <2>1. Range(<<>>) = {}
    BY DEF Range
  <2>2. todo = <<>> /\ Local \notin foreign /\ manifest = planned.hash
    BY Zenon, <1>1, <1>4 DEF UpInv, Before
  <2>3. \A p \in Homes(planned) : (topology[p] = {planned.hash} /\ p \notin foreign) \/ p \in Range(todo)
    BY Zenon, <1>1, <1>4 DEF UpInv, Before
  <2> QED
    BY Zenon, <2>1, <2>2, <2>3
<1>6. GatewayDone /\ RecordedNames = planned.names
  BY Zenon, <1>1 DEF DoneInv, AfterGateway, PublisherRuns, PublisherInv
<1>7. planned' = planned /\ RecordedNames' = RecordedNames
  BY Zenon, <1>2, <1>3 DEF planned, RecordedNames, Recorded
<1>8. GatewayDone'
  BY Zenon, <1>2, <1>6, <1>7 DEF GatewayDone
<1> QED
  BY Zenon, <1>2, <1>3, <1>5, <1>6, <1>7, <1>8 DEF UpDone

(* down or cleanup reports success.                                         *)
LEMMA DownReports ==
  ASSUME CommandInv, GatewayRuns, PublisherRuns, DownInv, DownEnds, outcome' # "none"
  PROVE  DownDone'
<1>1. pc = "teardown" /\ todo = <<>> /\ clean /\ UNCHANGED <<topology, gate, strays, publishers, tailnet>>
  BY Zenon DEF DownEnds, End, docker, files, composeVars, dockerVars, gatewayVars, publicationVars
<1>2. cmd.op # "up"
  BY Zenon, <1>1 DEF CommandInv, Course
<1>3. \A p \in Places : topology[p] = {}
  <2>1. Range(<<>>) = {}
    BY DEF Range
  <2> QED
    BY Zenon, <1>1, <1>2, <2>1 DEF DownInv
<1>4. Living \subseteq strays
  BY Zenon, <1>1, LivingFacts DEF GatewayRuns, GatewayInv, Tracked
<1>5. publishers = {} /\ tailnet = None
  BY Zenon, <1>1, <1>2 DEF PublisherRuns, PublisherInv, Quieted
<1> QED
  BY Zenon, <1>1, <1>3, <1>4, <1>5 DEF DownDone, Living

LEMMA OutcomeKept ==
  ASSUME OutcomeInv, CommandInv, GatewayRuns, PublisherRuns, DoneInv, UpInv, DownInv,
         [RuntimeNext]_runtimeVars
  PROVE  OutcomeInv'
<1>0. outcome' = "none" => OutcomeInv'
  BY Zenon DEF OutcomeInv
<1>1. pc # "idle" => outcome = "none"
  BY Zenon DEF CommandInv, Course
<1>2. CASE \E op \in {"up", "down", "cleanup"}, token \in BOOLEAN : Begin(op, token)
  BY Zenon, <1>0, <1>2 DEF Begin
<1>3. CASE UpStep
  BY Zenon, <1>0, <1>1, <1>3 DEF UpStep, CheckEligible, CheckDrift, CheckToken, WritePlan, UpProject,
     UpProjectRefused, ProbeExternals, Goto, Fail, End
<1>4. CASE Host
  BY Zenon, <1>0, <1>1, <1>4 DEF Host, recover_for_restart, Goto, Fail, End, StopThen
<1>5. CASE Launch \/ Record \/ RecordFails \/ GatewayReady \/ GiveUp \/ Abandon \/ Unpublish
  BY Zenon, <1>0, <1>1, <1>5 DEF Launch, Record, RecordFails, GatewayReady, GiveUp, Abandon, Unpublish,
     Goto, Fail, End, QuietThen
<1>6. CASE Quiet
  BY Zenon, <1>0, <1>1, <1>6 DEF Quiet, Goto, Fail, End
<1>7. CASE Term \/ Termed \/ KillTermed \/ Unsocket \/ Unstate \/ Wipe
  BY Zenon, <1>0, <1>1, <1>7 DEF Term, Termed, KillTermed, Unsocket, Unstate, Wipe, Goto
<1>8. CASE Lan \/ Publish \/ Published \/ AllPublished
  BY Zenon, <1>0, <1>1, <1>8 DEF Lan, Publish, Published, AllPublished, Goto, Fail, End, QuietThen
<1>9. CASE Tailnet
  <2>1. outcome' \in {"none", "up"}
    BY Zenon, <1>9 DEF Tailnet, Fail, End
  <2> QED
    BY Zenon, <1>0, <1>9, <2>1, UpReports DEF OutcomeInv
<1>10. CASE DownProject \/ DownProjectFails
  BY Zenon, <1>0, <1>1, <1>10 DEF DownProject, DownProjectFails
<1>11. CASE DownEnds
  <2>1. outcome' = "none" \/ outcome' # "up"
    <3>1. pc = "teardown" /\ outcome' \in {"none", cmd.op}
      BY Zenon, <1>11 DEF DownEnds, End
    <3> QED
      BY Zenon, <3>1 DEF CommandInv, Course
  <2> QED
    BY Zenon, <1>0, <1>11, <2>1, DownReports DEF OutcomeInv
<1>12. CASE FailStep
  BY Zenon, <1>0, <1>1, <1>12 DEF FailStep, WritePlanFails, UpProjectFails, LaunchFails, KillRefused,
     QuietFails, PreflightFails, PublishFails, Killed, Fail, End, QuietThen
<1> QED
  BY Zenon, <1>2, <1>3, <1>4, <1>5, <1>6, <1>7, <1>8, <1>9, <1>10, <1>11, <1>12, OutsideOutcome
     DEF RuntimeNext, CliStep, HostStep, PublishStep, DownStep

RuntimeInv == ProcessInv /\ HomeInv /\ UpInv /\ DownInv /\ DoneInv /\ OutcomeInv

(* The inductive invariant of the runtime.  Plans are assumed to have the   *)
(* same places: down and cleanup visit those of the plan that they are      *)
(* given, and a device that an earlier plan had is none of them.            *)
THEOREM RuntimeInvariance ==
  ASSUME SamePlaces
  PROVE  RuntimeSpec => []RuntimeInv
<1>1. RuntimeInit => RuntimeInv
  <2> SUFFICES ASSUME RuntimeInit PROVE RuntimeInv
    OBVIOUS
  <2>1. \A p \in Places : topology[p] = {}
    BY DEF RuntimeInit, DockerInit
  <2>2. pc = "idle" /\ outcome = "none" /\ cmd = [op |-> "down", plan |-> authored, token |-> FALSE]
    BY Zenon DEF RuntimeInit
  <2>3. cmd.op = "down"
    BY <2>2
  <2>4. HomeInv
    BY Zenon, <2>1, <2>3 DEF HomeInv
  <2>5. UpInv /\ DownInv
    BY Zenon, <2>2, <2>3 DEF UpInv, DownInv, Before
  <2>6. DoneInv /\ OutcomeInv
    BY Zenon, <2>2 DEF DoneInv, AfterGateway, OutcomeInv
  <2> QED
    BY Zenon, <2>4, <2>5, <2>6, ProcessBegins DEF RuntimeInv
<1>2. RuntimeInv /\ [RuntimeNext]_runtimeVars => RuntimeInv'
  <2> SUFFICES ASSUME RuntimeInv, [RuntimeNext]_runtimeVars PROVE RuntimeInv'
    OBVIOUS
  <2>1. ComposeTypeOK /\ CommandInv /\ GatewayRuns /\ PublisherRuns /\ ComposeStep /\ TodoStep
    BY Zenon, PlaneSteps, TodoView DEF RuntimeInv, ProcessInv
  <2>2. ProcessInv'
    BY Zenon, ProcessKept DEF RuntimeInv
  <2>3. HomeInv'
    BY Zenon, <2>1, HomeKept DEF RuntimeInv
  <2>4. UpInv' /\ DownInv'
    BY Zenon, <2>1, UpKept, DownKept DEF RuntimeInv
  <2>5. DoneInv' /\ OutcomeInv'
    BY Zenon, <2>1, DoneKept, OutcomeKept DEF RuntimeInv
  <2> QED
    BY Zenon, <2>2, <2>3, <2>4, <2>5 DEF RuntimeInv
<1> QED
  BY <1>1, <1>2, PTL DEF RuntimeSpec

LEMMA HomesAndRemotes ==
  ASSUME NEW plan \in Plans
  PROVE  Homes(plan) \subseteq {Local} \cup Remotes(plan) /\ Remotes(plan) \subseteq Homes(plan)
<1> DEFINE here == IF plan.local THEN <<Local>> ELSE <<>>
<1>1. plan.remotes \in Seq(Places)
  BY RuntimeAssumption DEF Places
<1>2. <<Local>> \in Seq(Places) /\ <<>> \in Seq(Places) /\ Range(<<Local>>) = {Local} /\ Range(<<>>) = {}
  BY DEF Places, Range
<1>3. here \in Seq(Places) /\ Range(here) \subseteq {Local}
  BY Zenon, <1>2
<1>4. Homes(plan) = Range(plan.remotes \o here)
  BY Zenon DEF Homes, UpOrder
<1> HIDE DEF here
<1>5. Range(plan.remotes \o here) = Range(plan.remotes) \cup Range(here)
  BY ONLY Zenon, <1>1, <1>3, RangeOfBoth
<1> QED
  BY Zenon, <1>3, <1>4, <1>5 DEF Remotes

(* When everything carries the hash of the plan, its status is in sync.     *)
LEMMA WholeIsInSync ==
  ASSUME RuntimeInv, UpDone, unreachable = {}, UpOrder(planned) # <<>>
  PROVE  Drift(planned) = "in sync"
<1>1. planned \in Plans /\ planned.hash # None
  BY RuntimeAssumption DEF RuntimeInv, ProcessInv, CommandInv, CommandTypeOK, planned
<1>2. Observed(planned) = {Local} \cup Remotes(planned) /\ Remotes(planned) \cap unreachable = {}
  BY Zenon DEF Observed
<1>3. Homes(planned) \subseteq Observed(planned) /\ Remotes(planned) \subseteq Homes(planned)
  BY Zenon, <1>1, <1>2, HomesAndRemotes
<1>4. Observed(planned) \cap foreign = {}
  BY Zenon, <1>2, <1>3 DEF UpDone
<1>5. Observed(planned) \subseteq Places
  <2>1. planned.remotes \in Seq(Devices)
    BY Zenon, <1>1, RuntimeAssumption
  <2>2. Range(planned.remotes) \subseteq Devices
    BY <2>1 DEF Range
  <2> QED
    BY Zenon, <1>2, <2>2 DEF Remotes, Places
<1>6. \A p \in Observed(planned) : topology[p] = {} \/ topology[p] = {planned.hash}
  BY Zenon, <1>1, <1>5 DEF UpDone, RuntimeInv, HomeInv
<1>7. \E p \in Observed(planned) : topology[p] = {planned.hash}
  <2>1. UpOrder(planned) \in Seq(Places)
    BY Zenon, <1>1, OrdersArePlaces
  <2>2. Head(UpOrder(planned)) \in Homes(planned)
    BY Zenon, <2>1, RangeOfTail DEF Homes
  <2> QED
    BY Zenon, <1>3, <2>2 DEF UpDone
<1>8. ObservedHashes(planned) = {planned.hash}
  <2>1. ObservedHashes(planned) = UNION {topology[p] : p \in Observed(planned)}
    BY Zenon, <1>7 DEF ObservedHashes
  <2>2. UNION {topology[p] : p \in Observed(planned)} = {planned.hash}
    BY <1>6, <1>7
  <2> QED
    BY Zenon, <2>1, <2>2
<1>9. manifest = planned.hash /\ manifest # None
  BY Zenon, <1>1 DEF UpDone
<1> QED
  BY Zenon, <1>2, <1>4, <1>8, <1>9 DEF Drift

(* When up reports a healthy deployment, the manifest, every project, the   *)
(* gateway, the publishers and the tailnet record are those of one plan,    *)
(* and its status is in sync, whatever commands failed or were killed       *)
(* before.  A plan without any service would have nothing to be in sync.    *)
THEOREM HealthyIsOfOnePlan ==
  ASSUME SamePlaces, \A plan \in Plans : UpOrder(plan) # <<>>
  PROVE  RuntimeSpec => []HealthyIsWhole
<1>1. RuntimeInv => HealthyIsWhole
  <2> SUFFICES ASSUME RuntimeInv, outcome = "up"
               PROVE  /\ manifest = planned.hash
                      /\ \A p \in Range(UpOrder(planned)) : topology[p] = {planned.hash}
                      /\ IF planned.host THEN state # None /\ state.plan = planned ELSE state = None
                      /\ {pub[1] : pub \in Recorded} = planned.names
                      /\ tailnet = IF planned.tail THEN planned ELSE None
                      /\ unreachable = {} => Drift(planned) = "in sync"
    BY Zenon DEF HealthyIsWhole
  <2>1. UpDone
    BY Zenon DEF RuntimeInv, OutcomeInv
  <2>2. UpOrder(planned) # <<>>
    BY Zenon DEF RuntimeInv, ProcessInv, CommandInv, CommandTypeOK, planned
  <2>3. unreachable = {} => Drift(planned) = "in sync"
    BY Zenon, <2>1, <2>2, WholeIsInSync
  <2> QED
    BY Zenon, <2>1, <2>3 DEF UpDone, GatewayDone, RecordedNames, Homes
<1> QED
  BY <1>1, RuntimeInvariance, PTL

(* When down or cleanup reports that the deployment is stopped, no          *)
(* container of it runs anywhere, no gateway and no publisher lives and     *)
(* nothing is on the tailnet, and nothing comes back by itself.             *)
THEOREM StoppedIsStopped ==
  ASSUME SamePlaces
  PROVE  RuntimeSpec => []StoppedMeansStopped
<1>1. RuntimeInv => StoppedMeansStopped
  BY Zenon DEF RuntimeInv, OutcomeInv, DownDone, StoppedMeansStopped
<1> QED
  BY <1>1, RuntimeInvariance, PTL
=============================================================================

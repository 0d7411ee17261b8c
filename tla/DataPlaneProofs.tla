--------------------------- MODULE DataPlaneProofs ---------------------------
(***************************************************************************)
(* What a running router guarantees for any number of listeners,           *)
(* connections, requests, administration tasks and configurations.         *)
(*                                                                         *)
(* The four planes (the control socket, TCP bindings, redirected           *)
(* connections and HTTP requests) share the snapshot and nothing else, so  *)
(* each has an invariant of its own, shown from what a step of the process *)
(* can be for that plane (the Step operators below).                       *)
(***************************************************************************)
EXTENDS DataPlane, TLAPS

(* Sequences: what an append, a head and a tail are.                        *)
LEMMA Appended ==
  ASSUME NEW S, NEW s \in Seq(S), NEW e \in S
  PROVE  /\ Append(s, e) \in Seq(S) /\ Append(s, e) # <<>>
         /\ Len(Append(s, e)) = Len(s) + 1
         /\ \A i \in 1..Len(s) : Append(s, e)[i] = s[i]
         /\ Append(s, e)[Len(s) + 1] = e
OBVIOUS

LEMMA HeadAndTail ==
  ASSUME NEW S, NEW s \in Seq(S), s # <<>>
  PROVE  /\ Head(s) = s[1] /\ Head(s) \in S /\ Tail(s) \in Seq(S)
         /\ Len(Tail(s)) = Len(s) - 1
         /\ \A i \in 1..Len(Tail(s)) : Tail(s)[i] = s[i + 1]
OBVIOUS

Listeners == Range(Bindings)
Snapshot == [version : Nat, config : DOMAIN Documents]

-----------------------------------------------------------------------------
(* The administration tasks.                                                *)

Holding == {"probing", "reloading", "replying"}

Statuses == {"rejected", "rejected_stale", "rolled_back", "tcp_reload_failed", "activated"}

AdminTask ==
  [pc : {"none"}, left : {<<>>}]
    \cup [pc : {"waiting"} \cup Holding, update : Snapshot, left : Seq(Listeners)]
    \cup [pc : {"done"}, status : Statuses, left : {<<>>}]

TargetsAreOf(b) == route[b].target = Documents[engine.config].tcp[b]

(* The planes serve the active snapshot.                                    *)
PlanesAgree ==
  /\ \A b \in Listeners : TargetsAreOf(b)
  /\ members = Documents[engine.config].members

(* A task that keeps apply_lock has done so much of its apply.              *)
Progress(a) ==
  CASE admin[a].pc = "probing" ->
         /\ acked = engine.version /\ PlanesAgree
         /\ admin[a].update.version > engine.version
         /\ ValidCandidate(admin[a].update.config)
    [] admin[a].pc = "reloading" ->
         /\ acked < engine.version
         /\ \A b \in Listeners : b \in Range(admin[a].left) \/ TargetsAreOf(b)
    [] admin[a].pc = "replying" -> acked < engine.version /\ PlanesAgree
    [] OTHER -> TRUE

ControlTypeOK ==
  /\ engine \in Snapshot /\ acked \in Nat
  /\ admin \in [Admins -> AdminTask]
  /\ lock \in Admins \cup {NoAdmin}

(* The lock is kept by the one task that is past it; the active snapshot    *)
(* has a target for every listener, so that no reload fails half-way.       *)
ControlInv ==
  /\ ControlTypeOK
  /\ \A b \in Listeners : Documents[engine.config].tcp[b] # "none"
  /\ \A a \in Admins : admin[a].pc \in Holding <=> lock = a
  /\ \A a \in Admins : Progress(a)
  /\ lock = NoAdmin => acked = engine.version /\ PlanesAgree

-----------------------------------------------------------------------------
(* The TCP listeners.                                                       *)

Policies == {"close", "drain", "pin"}
TcpTargets == {Documents[config].tcp[b] : config \in DOMAIN Documents, b \in Listeners}

RouteState == [target : TcpTargets, waiting : SUBSET Conns, generation : Nat]
ConnTask == [pc : Live \cup {"none", "ended"}, target : TcpTargets \cup {"none"},
             since : Nat, notice : Policies \cup {"none"}]

TcpTypeOK ==
  /\ route \in [Listeners -> RouteState]
  /\ sends \in [Listeners -> [policy : Policies, left : SUBSET Conns]]
  /\ conn \in [Conns -> ConnTask]
  /\ told \in [Listeners -> Seq(Policies)]

(* Where a connection is registered: with the route if the target it took   *)
(* is the current one, and in the hands of the last reload if it has to be  *)
(* told of that one.                                                        *)
Standing(c, task, at, hand, policies) ==
  /\ task.since <= at.generation
  /\ task.since = at.generation =>
       task.target = at.target /\ task.notice = "none" /\ c \in at.waiting
  /\ task.since < at.generation =>
       c \notin at.waiting /\ (task.notice = policies[task.since + 1] \/ c \in hand.left)
  /\ c \in hand.left =>
       /\ task.since + 1 = at.generation
       /\ hand.policy = policies[task.since + 1]
       /\ task.notice \in {"none", hand.policy}
  /\ task.pc = "draining" => task.notice = "drain"
  /\ task.pc = "pinned" => task.notice = "pin"

Registered(c) ==
  Standing(c, conn[c], route[BindingOf[c]], sends[BindingOf[c]], told[BindingOf[c]])

TcpInv ==
  /\ TcpTypeOK
  /\ \A b \in Listeners :
       /\ Len(told[b]) = route[b].generation
       /\ \A c \in route[b].waiting \cup sends[b].left : BindingOf[c] = b /\ conn[c].pc # "none"
  /\ \A c \in Conns : Alive(c) => Registered(c)

-----------------------------------------------------------------------------
(* The transparent listener.                                                *)

Member == [host : Hosts, declared : {"yes", "no", "none"}]
FlowPcs == {"none", "observing", "trying", "own", "copying", "refused", "ended"}

FlowTask ==
  [pc : FlowPcs, from : {"loopback", "bridge", "registry"}, targets : Seq(Member),
   observed : Seq({"unknown", "yes", "no"}),
   left : SUBSET Nat, served : Hosts \cup {"none", Own}]

Sure(f) ==
  {i \in DOMAIN flow[f].targets :
     flow[f].targets[i].host \in steady[f] /\ flow[f].targets[i].declared # "no"}

(* A member that listens all the while is observed, stays among those to be *)
(* tried until one is reached, and is not passed over for a later one.      *)
FlowInv(f) ==
  /\ DOMAIN flow[f].observed = DOMAIN flow[f].targets
  /\ flow[f].left \subseteq DOMAIN flow[f].targets
  /\ steady[f] \subseteq listening \cap asked
  /\ flow[f].pc \in {"observing", "trying"} =>
       /\ flow[f].from = "loopback"
       /\ \A i \in Sure(f) : flow[f].observed[i] \in {"unknown", "yes"}
  /\ flow[f].pc = "trying" => \A i \in Sure(f) : i \in flow[f].left /\ flow[f].observed[i] = "yes"
  /\ flow[f].pc = "own" /\ flow[f].from = "loopback" => Sure(f) = {}

(* FirstListenerServes for one connection.                                  *)
Serves(f) ==
  /\ flow[f].pc = "copying" /\ flow[f].from = "loopback" =>
       \A i \in Sure(f) : \E j \in 1..i : flow[f].targets[j].host = flow[f].served
  /\ flow[f].pc = "copying" /\ flow[f].from = "bridge" => flow[f].served = Own
  /\ flow[f].pc = "refused" => Own \notin steady[f] /\ (flow[f].from = "loopback" => Sure(f) = {})

TransparentTypeOK ==
  /\ members \in Seq(Member)
  /\ flow \in [Flows -> FlowTask]
  /\ listening \subseteq Hosts
  /\ steady \in [Flows -> SUBSET Hosts]

TransparentInv ==
  /\ TransparentTypeOK
  /\ \A f \in Flows : FlowInv(f) /\ Serves(f)

-----------------------------------------------------------------------------
(* The requests.                                                            *)

Providers == {Target(config, kind) : config \in DOMAIN Documents, kind \in Kinds} \cup {"none"}
Allowed == {kind.origin : kind \in Kinds} \cup {"none", "upstream"}
RequestPcs == {"answering", "probing", "resolving", "proxying", "exchanging", "logging", "logged",
               "parsing", "connecting", "relaying", "cut"}

Request ==
  [pc : RequestPcs, kind : Kinds, snapshot : Snapshot, target : Providers, contacted : Providers,
   status : Nat, allow : Allowed, cors : Allowed, counted : BOOLEAN, failed : BOOLEAN, since : Nat]

(* Whatever a request has looked up is of its snapshot; nothing has been    *)
(* while it is parsed.                                                      *)
Pinned(q) ==
  /\ q.since <= q.snapshot.version /\ q.snapshot.version <= engine.version
  /\ q.target \in {"none", Target(q.snapshot.config, q.kind)}
  /\ q.contacted \in {"none", Target(q.snapshot.config, q.kind)}
  /\ q.cors \in {"none", CorsOrigin(q.snapshot.config, q.kind)}
  /\ q.allow \in {"none", q.cors} \/ (q.allow = "upstream" /\ ~q.kind.browser)
  /\ q.pc = "parsing" => q.contacted = "none" /\ q.allow = "none" /\ q.cors = "none"

RequestInv ==
  /\ DOMAIN req = Reqs
  /\ \A r \in Reqs : req[r] = NoRequest \/ (req[r] \in Request /\ Pinned(req[r]))

-----------------------------------------------------------------------------
(* What a step of the process is for each plane.                            *)

(* Connections end because their listener fails or is aborted.              *)
CutShort(cut) ==
  /\ conn' = [c \in Conns |-> IF c \in cut THEN [conn[c] EXCEPT !.pc = "ended"] ELSE conn[c]]
  /\ UNCHANGED <<route, sends, told>>

AllTold == \A x \in Listeners : Told(x)

TcpStep ==
  \/ UNCHANGED <<route, sends, conn, told>>
  \/ \E c \in Conns : ConnStep(c)
  \/ \E cut \in SUBSET Conns : CutShort(cut)
  \/ \E b \in Listeners : SendTransition(b)
  \/ /\ AllTold
     /\ \E b \in Listeners, config \in DOMAIN Documents :
          Reload(b, Documents[config].tcp[b], Documents[config].policy)

TransparentStep ==
  \/ UNCHANGED transparentVars
  \/ \E config \in DOMAIN Documents : ReloadMembers(Documents[config].members)
  \/ \E f \in Flows, from \in {"loopback", "bridge", "registry"} : AcceptFlow(f, from)
  \/ \E f \in Flows : FlowStep(f)
  \/ \E h \in Hosts : HostChanges(h)
  \/ AbortFlows

RequestStep ==
  \/ UNCHANGED req
  \/ \E r \in Reqs, kind \in Kinds : RejectEarly(r, kind) \/ Route(r, kind) \/ ParseProxied(r, kind)
  \/ \E r \in Reqs : Started(r) /\ (HttpStep(r) \/ ForwardStep(r))
  \/ \E family \in {"forward", "http"} : CutRequests(family)

(* A step that is not one of an apply leaves the snapshot, the lock and     *)
(* what the planes serve.                                                   *)
Elsewhere ==
  /\ UNCHANGED <<engine, acked, lock, admin, members>>
  /\ \A b \in Listeners : route'[b].target = route[b].target

ControlStep ==
  \/ Elsewhere
  \/ \E a \in Admins, update \in Updates : Arrive(a, update)
  \/ \E a \in Admins : ApplyStep(a)

(* A task that is past the lock has a snapshot and a list of listeners.     *)
LEMMA TaskFields ==
  ASSUME ControlTypeOK, NEW a \in Admins, admin[a].pc \in {"waiting"} \cup Holding
  PROVE  /\ admin[a] \in [pc : {"waiting"} \cup Holding, update : Snapshot, left : Seq(Listeners)]
         /\ admin[a].update.config \in DOMAIN Documents
         /\ admin[a].left # <<>> =>
              /\ Head(admin[a].left) \in Listeners
              /\ Tail(admin[a].left) \in Seq(Listeners)
<1>1. admin[a] \in AdminTask
  BY Zenon DEF ControlTypeOK
<1>2. admin[a] \in [pc : {"waiting"} \cup Holding, update : Snapshot, left : Seq(Listeners)]
  BY Zenon, <1>1 DEF AdminTask, Holding
<1>3. admin[a].left \in Seq(Listeners)
  BY Zenon, <1>2
<1>4. admin[a].left # <<>> => Head(admin[a].left) \in Listeners /\ Tail(admin[a].left) \in Seq(Listeners)
  BY ONLY Zenon, <1>3, HeadAndTail
<1> QED
  BY Zenon, <1>2, <1>4 DEF Snapshot

LEMMA TransparentView ==
  ASSUME ControlTypeOK, [DataNext]_dataVars
  PROVE  TransparentStep
<1>1. CASE UNCHANGED transparentVars
  BY Zenon, <1>1 DEF TransparentStep
<1>2. CASE \E a \in Admins : ReloadTransparent(a)
  BY Zenon, <1>2 DEF ReloadTransparent, TransparentStep, ControlTypeOK, Snapshot
<1>3. CASE TransparentTraffic
  BY Zenon, <1>3 DEF TransparentTraffic, TransparentStep
<1>4. CASE StopTransparent
  BY Zenon, <1>4 DEF StopTransparent, TransparentStep
<1>5. CASE \E a \in Admins : (\E update \in Updates : Arrive(a, update)) \/ LockAndValidate(a)
             \/ RolledBack(a) \/ Activate(a) \/ ReloadTcp(a) \/ Acknowledge(a)
  BY Zenon, <1>1, <1>5
     DEF Arrive, LockAndValidate, RolledBack, Activate, ReloadTcp, Acknowledge, Answer, Task
<1>6. CASE (\E b \in Listeners : TellConnection(b)) \/ RequestShutdown \/ ForwardStops
             \/ TcpTraffic \/ RequestTraffic \/ StopTcp \/ TcpTimeout
             \/ TcpJoined \/ StopForward \/ StopHttp \/ StopAdmin
  BY Zenon, <1>1, <1>6
     DEF TellConnection, RequestShutdown, ForwardStops, TcpTraffic, RequestTraffic, StopTcp,
         TcpTimeout, TcpJoined, StopForward, StopHttp, StopAdmin
<1>7. CASE UNCHANGED dataVars
  BY Zenon, <1>1, <1>7 DEF dataVars
<1> QED
  BY Zenon, <1>2, <1>3, <1>4, <1>5, <1>6, <1>7 DEF DataNext, Control, ApplyStep, WaitStep, Listeners

LEMMA RequestView ==
  ASSUME [DataNext]_dataVars
  PROVE  RequestStep
<1>1. CASE UNCHANGED req
  BY Zenon, <1>1 DEF RequestStep
<1>2. CASE RequestTraffic
  BY Zenon, <1>2 DEF RequestTraffic, RequestStep
<1>3. CASE ForwardStops \/ StopForward \/ StopHttp
  BY Zenon, <1>3 DEF ForwardStops, StopForward, StopHttp, RequestStep
<1>4. CASE \E a \in Admins : (\E update \in Updates : Arrive(a, update)) \/ ApplyStep(a)
  BY Zenon, <1>1, <1>4
     DEF Arrive, ApplyStep, LockAndValidate, RolledBack, Activate, ReloadTcp, ReloadTransparent,
         Acknowledge, Answer, Task, requestVars
<1>5. CASE (\E b \in Listeners : TellConnection(b)) \/ RequestShutdown \/ TcpTraffic
             \/ TransparentTraffic \/ StopTcp \/ TcpTimeout \/ TcpJoined \/ StopTransparent \/ StopAdmin
  BY Zenon, <1>1, <1>5
     DEF TellConnection, RequestShutdown, TcpTraffic, TransparentTraffic, StopTcp, TcpTimeout,
         TcpJoined, StopTransparent, StopAdmin, requestVars
<1>6. CASE UNCHANGED dataVars
  BY Zenon, <1>1, <1>6 DEF dataVars, requestVars
<1> QED
  BY Zenon, <1>2, <1>3, <1>4, <1>5, <1>6 DEF DataNext, Control, WaitStep, Listeners

-----------------------------------------------------------------------------
(* Redirected connections.                                                  *)

LEMMA TransparentInitInv ==
  ASSUME DataInit
  PROVE  TransparentInv
<1>1. TransparentTypeOK
  <2>1. Documents[FirstConfig].members \in Seq(Member)
    BY Zenon, DataAssumption DEF Member
  <2>2. [pc |-> "none", from |-> "loopback", targets |-> <<>>, observed |-> <<>>, left |-> {},
         served |-> "none"] \in FlowTask
    BY SMTT(30) DEF FlowTask, FlowPcs
  <2> QED
    BY Zenon, <2>1, <2>2 DEF DataInit, TransparentInit, TransparentTypeOK
<1>2. ASSUME NEW f \in Flows PROVE FlowInv(f) /\ Serves(f)
  <2>1. /\ flow[f].pc = "none" /\ flow[f].targets = <<>> /\ flow[f].observed = <<>>
        /\ flow[f].left = {} /\ steady[f] = {}
    BY Zenon DEF DataInit, TransparentInit
  <2> QED
    BY Zenon, <2>1 DEF FlowInv, Serves
<1> QED
  BY Zenon, <1>1, <1>2 DEF TransparentInv

LEMMA SeqElement ==
  ASSUME NEW S, NEW s \in Seq(S), NEW i \in DOMAIN s
  PROVE  s[i] \in S /\ i \in Nat \ {0}
OBVIOUS

(* A connection that a step leaves alone, while hosts only stop to be       *)
(* counted among the steady ones.                                           *)
LEMMA TasksEnd ==
  /\ \A c \in ConnTask : [c EXCEPT !.pc = "ended"] \in ConnTask
  /\ \A g \in FlowTask : [g EXCEPT !.pc = "ended"] \in FlowTask
  /\ \A g \in FlowTask, host \in Hosts : [g EXCEPT !.pc = "copying", !.served = host] \in FlowTask
<1>1. ASSUME NEW c \in ConnTask PROVE [c EXCEPT !.pc = "ended"] \in ConnTask
  BY DEF ConnTask
<1>2. ASSUME NEW g \in FlowTask PROVE [g EXCEPT !.pc = "ended"] \in FlowTask
  BY Zenon DEF FlowTask, FlowPcs
<1>3. ASSUME NEW g \in FlowTask, NEW host \in Hosts
      PROVE  [g EXCEPT !.pc = "copying", !.served = host] \in FlowTask
  BY Zenon DEF FlowTask, FlowPcs
<1> QED
  BY Zenon, <1>1, <1>2, <1>3

LEMMA FlowLeftAlone ==
  ASSUME NEW f \in Flows, FlowInv(f), Serves(f), flow'[f] = flow[f],
         steady'[f] \subseteq steady[f], steady'[f] \subseteq listening' \cap asked'
  PROVE  FlowInv(f)' /\ Serves(f)'
<1>1. Sure(f)' \subseteq Sure(f)
  BY Zenon DEF Sure
<1>2. FlowInv(f)'
  BY SMTT(30), <1>1 DEF FlowInv
<1>3. Serves(f)'
  BY Zenon, <1>1 DEF Serves
<1> QED
  BY Zenon, <1>2, <1>3

(* A step of one connection's task.                                         *)
LEMMA OneFlow ==
  ASSUME TransparentInv, NEW f \in Flows, NEW next \in FlowTask,
         flow' = [flow EXCEPT ![f] = next],
         UNCHANGED <<members, listening, asked, steady>>,
         FlowInv(f)', Serves(f)'
  PROVE  TransparentInv'
<1>1. \A x \in Flows \ {f} : FlowInv(x)' /\ Serves(x)'
  <2> SUFFICES ASSUME NEW x \in Flows \ {f} PROVE FlowInv(x)' /\ Serves(x)'
    BY Zenon
  <2>1. flow'[x] = flow[x] /\ FlowInv(x) /\ Serves(x) /\ steady'[x] = steady[x]
    BY Zenon DEF TransparentInv, TransparentTypeOK
  <2>2. steady'[x] \subseteq listening' \cap asked'
    BY Zenon, <2>1 DEF FlowInv
  <2> QED
    BY Zenon, <2>1, <2>2, FlowLeftAlone
<1>2. TransparentTypeOK'
  BY Zenon DEF TransparentInv, TransparentTypeOK
<1> QED
  BY Zenon, <1>1, <1>2 DEF TransparentInv

LEMMA TransparentNext ==
  ASSUME TransparentInv, TransparentStep
  PROVE  TransparentInv'
<1>t. TransparentTypeOK /\ \A f \in Flows : flow[f] \in FlowTask
  BY Zenon DEF TransparentInv, TransparentTypeOK
<1>i. \A f \in Flows : FlowInv(f) /\ Serves(f) /\ steady[f] \subseteq listening \cap asked
  BY Zenon DEF TransparentInv, FlowInv
<1>1. CASE UNCHANGED transparentVars
  BY Zenon, <1>1, <1>i, FlowLeftAlone DEF TransparentInv, TransparentTypeOK, transparentVars
<1>2. ASSUME NEW config \in DOMAIN Documents, ReloadMembers(Documents[config].members)
      PROVE  TransparentInv'
  <2>1. members' \in Seq(Member) /\ UNCHANGED <<flow, listening, asked, steady>>
    BY Zenon, <1>2, DataAssumption DEF ReloadMembers, Member
  <2> QED
    BY Zenon, <2>1, <1>i, FlowLeftAlone DEF TransparentInv, TransparentTypeOK
<1>3. ASSUME NEW f \in Flows, NEW from \in {"loopback", "bridge", "registry"}, AcceptFlow(f, from)
      PROVE  TransparentInv'
  <2> DEFINE pc == CASE from = "loopback" -> "observing"
                     [] from = "bridge" -> "own"
                     [] from = "registry" -> "ended"
             next == [pc |-> pc, from |-> from, targets |-> members,
                      observed |-> [i \in DOMAIN members |-> "unknown"], left |-> {}, served |-> "none"]
  <2>1. /\ flow' = [flow EXCEPT ![f] = next]
        /\ steady' = [steady EXCEPT ![f] = listening \cap asked]
        /\ UNCHANGED <<members, listening, asked>>
    BY Zenon, <1>3 DEF AcceptFlow
  <2>2. /\ pc \in FlowPcs /\ pc \notin {"trying", "copying", "refused"}
        /\ pc = "observing" => from = "loopback"
        /\ pc = "own" => from = "bridge"
    BY Zenon DEF FlowPcs
  <2> HIDE DEF pc
  <2>3. [i \in DOMAIN members |-> "unknown"] \in Seq({"unknown", "yes", "no"})
    <3>1. DOMAIN members = 1 .. Len(members) /\ Len(members) \in Nat
      BY <1>t DEF TransparentTypeOK
    <3> QED
      BY <3>1
  <2>4. next \in FlowTask
    BY Zenon, <2>2, <2>3, <1>t DEF FlowTask, TransparentTypeOK
  <2>5. flow'[f] = next /\ steady'[f] = listening \cap asked
    BY Zenon, <2>1, <1>t DEF TransparentTypeOK
  <2>6. /\ flow'[f].pc = pc /\ flow'[f].from = from /\ flow'[f].targets = members
        /\ flow'[f].observed = [i \in DOMAIN members |-> "unknown"] /\ flow'[f].left = {}
    BY SMTT(30), <2>5
  <2>7. FlowInv(f)' /\ Serves(f)'
    <3>1. Sure(f)' \subseteq DOMAIN members
      BY Zenon, <2>6 DEF Sure
    <3>2. \A i \in DOMAIN members : flow'[f].observed[i] = "unknown"
      BY Zenon, <2>6
    <3>3. FlowInv(f)'
      BY Zenon, <2>1, <2>2, <2>5, <2>6, <3>1, <3>2 DEF FlowInv
    <3> QED
      BY Zenon, <2>2, <2>6, <3>3 DEF Serves
  <2>8. \A x \in Flows \ {f} : FlowInv(x)' /\ Serves(x)'
    <3> SUFFICES ASSUME NEW x \in Flows \ {f} PROVE FlowInv(x)' /\ Serves(x)'
      BY Zenon
    <3>1. flow'[x] = flow[x] /\ steady'[x] = steady[x]
      BY Zenon, <2>1, <1>t DEF TransparentTypeOK
    <3>2. steady'[x] \subseteq listening' \cap asked'
      BY Zenon, <2>1, <3>1, <1>i
    <3> QED
      BY Zenon, <3>1, <3>2, <1>i, FlowLeftAlone
  <2> HIDE DEF next
  <2>9. TransparentTypeOK'
    BY Zenon, <2>1, <2>4, <1>t DEF TransparentTypeOK
  <2> QED
    BY Zenon, <2>7, <2>8, <2>9 DEF TransparentInv
<1>4. ASSUME NEW f \in Flows, NEW i \in DOMAIN flow[f].observed, ObserveOne(f, i)
      PROVE  TransparentInv'
  <2> DEFINE answer == IF Listens(flow[f].targets[i]) THEN "yes" ELSE "no"
             next == [flow[f] EXCEPT !.observed = [flow[f].observed EXCEPT ![i] = answer]]
  <2>1. /\ flow' = [flow EXCEPT ![f] = next] /\ flow[f].pc = "observing"
        /\ UNCHANGED <<members, listening, asked, steady>>
    BY Zenon, <1>4, <1>t DEF ObserveOne, FlowTask
  <2>2. i \in Sure(f) => answer = "yes"
    <3> SUFFICES ASSUME i \in Sure(f) PROVE Listens(flow[f].targets[i])
      BY Zenon
    <3> DEFINE t == flow[f].targets[i]
    <3>1. t.host \in listening \cap asked /\ t.declared # "no" /\ i \in DOMAIN flow[f].targets
      BY Zenon, <1>i DEF Sure
    <3>2. flow[f].targets \in Seq(Member)
      BY Zenon, <1>t DEF FlowTask
    <3>3. t.declared \in {"yes", "no", "none"}
      <4>1. t \in Member
        BY Zenon, <3>1, <3>2, SeqElement
      <4> QED
        BY Zenon, <4>1 DEF Member
    <3> HIDE DEF t
    <3>4. Listens(t)
      <4>1. CASE t.declared = "yes"
        BY Zenon, <4>1 DEF Listens
      <4>2. CASE t.declared = "none" /\ t.host = Own
        BY Zenon, <4>2, <3>1 DEF Listens, Local
      <4>3. CASE t.declared = "none" /\ t.host # Own
        BY Zenon, <4>3, <3>1 DEF Listens, Local
      <4> QED
        BY Zenon, <4>1, <4>2, <4>3, <3>1, <3>3
    <3> QED
      BY Zenon, <3>4 DEF t
  <2>3. answer \in {"yes", "no"}
    BY Zenon
  <2> HIDE DEF answer
  <2>4. [flow[f].observed EXCEPT ![i] = answer] \in Seq({"unknown", "yes", "no"})
    <3>1. flow[f].observed \in Seq({"unknown", "yes", "no"})
      BY Zenon, <1>t DEF FlowTask
    <3> QED
      BY <2>3, <3>1
  <2>5. next \in FlowTask
    BY Zenon, <2>4, <1>t DEF FlowTask
  <2>6. /\ flow'[f].pc = "observing" /\ flow'[f].from = flow[f].from /\ flow'[f].targets = flow[f].targets
        /\ flow'[f].left = flow[f].left /\ flow'[f].observed = [flow[f].observed EXCEPT ![i] = answer]
    BY Zenon, <2>1, <1>t DEF TransparentTypeOK, FlowTask
  <2>7. Sure(f)' = Sure(f)
    BY Zenon, <2>1, <2>6 DEF Sure
  <2>8. \A k \in Sure(f) : flow'[f].observed[k] \in {"unknown", "yes"}
    <3>1. \A k \in Sure(f) : k \in DOMAIN flow[f].observed /\ flow[f].observed[k] \in {"unknown", "yes"}
      BY Zenon, <1>i, <2>1 DEF FlowInv, Sure
    <3> QED
      BY Zenon, <3>1, <2>2, <2>6
  <2>9. FlowInv(f)'
    BY Zenon, <2>1, <2>6, <2>7, <2>8, <1>i DEF FlowInv
  <2>10. Serves(f)'
    BY Zenon, <2>6 DEF Serves
  <2> HIDE DEF next
  <2> QED
    BY Zenon, <2>1, <2>5, <2>9, <2>10, OneFlow
<1>5. ASSUME NEW f \in Flows, BeginTrying(f)
      PROVE  TransparentInv'
  <2> DEFINE next == [flow[f] EXCEPT !.pc = "trying", !.left = Candidates(f)]
  <2>1. /\ flow' = [flow EXCEPT ![f] = next] /\ flow[f].pc = "observing"
        /\ \A i \in DOMAIN flow[f].observed : flow[f].observed[i] # "unknown"
        /\ UNCHANGED <<members, listening, asked, steady>>
    BY Zenon, <1>5, <1>t DEF BeginTrying, FlowTask
  <2>2. Candidates(f) \subseteq DOMAIN flow[f].targets /\ DOMAIN flow[f].targets \subseteq Nat
    <3>1. flow[f].targets \in Seq(Member)
      BY Zenon, <1>t DEF FlowTask
    <3> QED
      BY <3>1 DEF Candidates
  <2>3. next \in FlowTask
    BY Zenon, <2>2, <1>t DEF FlowTask, FlowPcs
  <2>4. /\ flow'[f].pc = "trying" /\ flow'[f].from = flow[f].from /\ flow'[f].targets = flow[f].targets
        /\ flow'[f].left = Candidates(f) /\ flow'[f].observed = flow[f].observed
    BY Zenon, <2>1, <1>t DEF TransparentTypeOK, FlowTask
  <2>5. Sure(f)' = Sure(f)
    BY Zenon, <2>1, <2>4 DEF Sure
  <2>6. \A k \in Sure(f) : flow[f].observed[k] = "yes" /\ k \in Candidates(f)
    <3>1. \A k \in Sure(f) : k \in DOMAIN flow[f].targets /\ k \in DOMAIN flow[f].observed
                             /\ flow[f].observed[k] \in {"unknown", "yes"}
      BY Zenon, <1>i, <2>1 DEF FlowInv, Sure
    <3> QED
      BY Zenon, <3>1, <2>1 DEF Candidates
  <2>7. FlowInv(f)'
    BY <2>1, <2>2, <2>4, <2>5, <2>6, <1>i DEF FlowInv
  <2>8. Serves(f)'
    BY Zenon, <2>4 DEF Serves
  <2> HIDE DEF next
  <2> QED
    BY Zenon, <2>1, <2>3, <2>7, <2>8, OneFlow
<1>6. ASSUME NEW f \in Flows, TryMember(f)
      PROVE  TransparentInv'
  <2>1. PICK i \in flow[f].left :
          /\ \A j \in flow[f].left \ {i} : Before(f, i, j)
          /\ flow' = IF flow[f].targets[i].host \in listening
                     THEN [flow EXCEPT ![f].pc = "copying", ![f].served = flow[f].targets[i].host]
                     ELSE [flow EXCEPT ![f].left = flow[f].left \ {i}]
    BY Zenon, <1>6, <1>t DEF TryMember, TransparentTypeOK, FlowTask
  <2>2. /\ flow[f].pc = "trying" /\ flow[f].from = "loopback"
        /\ UNCHANGED <<members, listening, asked, steady>>
    BY Zenon, <1>6, <1>i DEF TryMember, FlowInv
  <2>3. /\ i \in DOMAIN flow[f].targets /\ flow[f].targets[i].host \in Hosts
        /\ DOMAIN flow[f].targets \subseteq Nat \ {0}
    <3>1. flow[f].targets \in Seq(Member) /\ i \in DOMAIN flow[f].targets
      BY Zenon, <1>t, <1>i DEF FlowTask, FlowInv
    <3>2. /\ flow[f].targets[i] \in Member
          /\ \A k \in DOMAIN flow[f].targets : k \in Nat \ {0}
      BY Zenon, <3>1, SeqElement
    <3> QED
      BY Zenon, <3>1, <3>2 DEF Member
  <2>4. \A k \in Sure(f) : k \in flow[f].left /\ flow[f].observed[k] = "yes" /\ k \in DOMAIN flow[f].targets
    BY Zenon, <2>2, <1>i DEF FlowInv, Sure
  <2>5. CASE flow[f].targets[i].host \in listening
    <3> DEFINE next == [flow[f] EXCEPT !.pc = "copying", !.served = flow[f].targets[i].host]
    <3>1. flow' = [flow EXCEPT ![f] = next]
      BY Zenon, <2>1, <2>5
    <3>2. next \in FlowTask
      BY Zenon, <2>3, <1>t, TasksEnd
    <3>3. /\ flow'[f].pc = "copying" /\ flow'[f].from = "loopback" /\ flow'[f].targets = flow[f].targets
          /\ flow'[f].left = flow[f].left /\ flow'[f].observed = flow[f].observed
          /\ flow'[f].served = flow[f].targets[i].host
      BY Zenon, <3>1, <2>2, <1>t DEF TransparentTypeOK, FlowTask
    <3>4. Sure(f)' = Sure(f)
      BY Zenon, <2>2, <3>3 DEF Sure
    <3>5. ASSUME NEW k \in Sure(f) PROVE i \in 1 .. k
      <4>1. k = i \/ (k # i /\ Before(f, i, k))
        BY Zenon, <2>1, <2>4
      <4>2. k \in Nat \ {0} /\ i \in Nat \ {0}
        BY Zenon, <2>3, <2>4
      <4>3. k = i \/ i < k
        BY Zenon, <4>1, <2>4 DEF Before
      <4> QED
        BY <4>2, <4>3
    <3>6. FlowInv(f)'
      BY Zenon, <2>2, <3>3, <1>i DEF FlowInv
    <3>7. Serves(f)'
      BY Zenon, <3>3, <3>4, <3>5 DEF Serves
    <3> HIDE DEF next
    <3> QED
      BY Zenon, <2>2, <3>1, <3>2, <3>6, <3>7, OneFlow
  <2>6. CASE flow[f].targets[i].host \notin listening
    <3> DEFINE next == [flow[f] EXCEPT !.left = flow[f].left \ {i}]
    <3>1. flow' = [flow EXCEPT ![f] = next]
      BY Zenon, <2>1, <2>6
    <3>2. next \in FlowTask
      BY Zenon, <1>t DEF FlowTask
    <3>3. /\ flow'[f].pc = "trying" /\ flow'[f].from = "loopback" /\ flow'[f].targets = flow[f].targets
          /\ flow'[f].left = flow[f].left \ {i} /\ flow'[f].observed = flow[f].observed
      BY Zenon, <3>1, <2>2, <1>t DEF TransparentTypeOK, FlowTask
    <3>4. Sure(f)' = Sure(f) /\ i \notin Sure(f)
      BY Zenon, <2>2, <2>6, <3>3, <1>i DEF Sure
    <3>5. FlowInv(f)'
      <4>1. /\ DOMAIN flow'[f].observed = DOMAIN flow'[f].targets
            /\ flow'[f].left \subseteq DOMAIN flow'[f].targets
            /\ steady'[f] \subseteq listening' \cap asked'
        BY Zenon, <2>2, <3>3, <1>i DEF FlowInv
      <4>2. \A k \in Sure(f)' : k \in flow'[f].left /\ flow'[f].observed[k] = "yes"
        BY Zenon, <2>4, <3>3, <3>4
      <4> QED
        BY Zenon, <3>3, <4>1, <4>2 DEF FlowInv
    <3>6. Serves(f)'
      BY Zenon, <3>3 DEF Serves
    <3> HIDE DEF next
    <3> QED
      BY Zenon, <2>2, <3>1, <3>2, <3>5, <3>6, OneFlow
  <2> QED
    BY Zenon, <2>5, <2>6
<1>7. ASSUME NEW f \in Flows, NEW pc \in FlowPcs, NEW served \in Hosts \cup {"none", Own},
             pc \notin {"observing", "trying"},
             flow' = [flow EXCEPT ![f] = [flow[f] EXCEPT !.pc = pc, !.served = served]],
             UNCHANGED <<members, listening, asked, steady>>,
             pc \in {"own", "copying", "refused"} /\ flow[f].from = "loopback" => Sure(f) = {},
             pc = "copying" /\ flow[f].from = "bridge" => served = Own,
             pc = "refused" => Own \notin listening
      PROVE  TransparentInv'
  <2> DEFINE next == [flow[f] EXCEPT !.pc = pc, !.served = served]
  <2>1. next \in FlowTask
    BY Zenon, <1>t DEF FlowTask
  <2>2. /\ flow'[f].pc = pc /\ flow'[f].from = flow[f].from /\ flow'[f].targets = flow[f].targets
        /\ flow'[f].left = flow[f].left /\ flow'[f].observed = flow[f].observed /\ flow'[f].served = served
    BY Zenon, <1>7, <1>t DEF TransparentTypeOK, FlowTask
  <2>3. Sure(f)' = Sure(f)
    BY Zenon, <1>7, <2>2 DEF Sure
  <2>4. FlowInv(f)'
    BY Zenon, <1>7, <2>2, <2>3, <1>i DEF FlowInv
  <2>5. Serves(f)'
    BY Zenon, <1>7, <2>2, <2>3, <1>i DEF Serves
  <2> HIDE DEF next
  <2> QED
    BY Zenon, <1>7, <2>1, <2>4, <2>5, OneFlow DEF next
<1>8. ASSUME NEW f \in Flows, GiveUpMembers(f) \/ TryOwn(f) \/ FlowEnds(f)
      PROVE  TransparentInv'
  <2>1. /\ flow[f].served \in Hosts \cup {"none", Own}
        /\ \A pc \in FlowPcs : [flow[f] EXCEPT !.pc = pc]
                                = [flow[f] EXCEPT !.pc = pc, !.served = flow[f].served]
    BY Zenon, <1>t DEF FlowTask
  <2>2. UNCHANGED <<members, listening, asked, steady>>
    BY Zenon, <1>8 DEF GiveUpMembers, TryOwn, FlowEnds
  <2>3. CASE GiveUpMembers(f)
    <3>1. flow[f].pc = "trying" /\ flow[f].left = {} /\ flow' = [flow EXCEPT ![f] = [flow[f] EXCEPT !.pc = "own"]]
      BY Zenon, <2>3 DEF GiveUpMembers
    <3>2. Sure(f) = {}
      BY Zenon, <3>1, <1>i DEF FlowInv
    <3> QED
      BY Zenon, <3>1, <3>2, <2>1, <2>2, <1>7 DEF FlowPcs
  <2>4. CASE TryOwn(f) /\ Own \in listening
    <3>1. /\ flow[f].pc = "own"
          /\ flow' = [flow EXCEPT ![f] = [flow[f] EXCEPT !.pc = "copying", !.served = Own]]
      BY Zenon, <2>4 DEF TryOwn
    <3>2. flow[f].from = "loopback" => Sure(f) = {}
      BY Zenon, <3>1, <1>i DEF FlowInv
    <3> QED
      BY Zenon, <3>1, <3>2, <2>2, <1>7 DEF FlowPcs
  <2>5. CASE TryOwn(f) /\ Own \notin listening
    <3>1. /\ flow[f].pc = "own"
          /\ flow' = [flow EXCEPT ![f] = [flow[f] EXCEPT !.pc = "refused"]]
      BY Zenon, <2>5 DEF TryOwn
    <3>2. flow[f].from = "loopback" => Sure(f) = {}
      BY Zenon, <3>1, <1>i DEF FlowInv
    <3> QED
      BY Zenon, <3>1, <3>2, <2>1, <2>2, <2>5, <1>7 DEF FlowPcs
  <2>6. CASE FlowEnds(f)
    <3>1. flow' = [flow EXCEPT ![f] = [flow[f] EXCEPT !.pc = "ended"]]
      BY Zenon, <2>6 DEF FlowEnds
    <3> QED
      BY Zenon, <3>1, <2>1, <2>2, <1>7 DEF FlowPcs
  <2> QED
    BY Zenon, <1>8, <2>3, <2>4, <2>5, <2>6
<1>9. ASSUME NEW h \in Hosts, HostChanges(h)
      PROVE  TransparentInv'
  <2>1. /\ steady' = [f \in Flows |-> steady[f] \cap listening' \cap asked']
        /\ listening' \subseteq Hosts /\ UNCHANGED <<members, flow>>
    BY Zenon, <1>9, <1>t DEF HostChanges, TransparentTypeOK
  <2>2. TransparentTypeOK'
    BY Zenon, <2>1, <1>t DEF TransparentTypeOK
  <2>3. ASSUME NEW f \in Flows PROVE FlowInv(f)' /\ Serves(f)'
    BY Zenon, <2>1, <1>i, FlowLeftAlone
  <2> QED
    BY Zenon, <2>2, <2>3 DEF TransparentInv
<1>10. CASE AbortFlows
  <2>1. /\ flow' = [f \in Flows |-> IF flow[f].pc = "none" THEN flow[f] ELSE [flow[f] EXCEPT !.pc = "ended"]]
        /\ UNCHANGED <<members, listening, asked, steady>>
    BY Zenon, <1>10 DEF AbortFlows
  <2>2. \A f \in Flows : flow'[f] \in FlowTask
    BY Zenon, <2>1, <1>t, TasksEnd
  <2>3. TransparentTypeOK'
    BY Zenon, <2>1, <2>2, <1>t DEF TransparentTypeOK
  <2>4. ASSUME NEW f \in Flows PROVE FlowInv(f)' /\ Serves(f)'
    <3>1. CASE flow[f].pc = "none"
      BY Zenon, <3>1, <2>1, <1>i, FlowLeftAlone
    <3>2. CASE flow[f].pc # "none"
      <4>1. /\ flow'[f].pc = "ended" /\ flow'[f].targets = flow[f].targets
            /\ flow'[f].left = flow[f].left /\ flow'[f].observed = flow[f].observed
        BY Zenon, <2>1, <3>2, <1>t DEF FlowTask
      <4> QED
        BY Zenon, <4>1, <2>1, <1>i DEF FlowInv, Serves
    <3> QED
      BY Zenon, <3>1, <3>2
  <2> QED
    BY Zenon, <2>3, <2>4 DEF TransparentInv
<1> QED
  BY Zenon, <1>1, <1>2, <1>3, <1>4, <1>5, <1>6, <1>8, <1>9, <1>10 DEF TransparentStep, FlowStep

-----------------------------------------------------------------------------
(* Requests.                                                                *)

LEMMA RequestInitInv ==
  ASSUME DataInit
  PROVE  RequestInv
  BY Zenon DEF DataInit, RequestInit, RequestInv

(* The active snapshot is never replaced by an older one.                   *)
LEMMA SnapshotsGrow ==
  ASSUME ControlInv, ControlStep
  PROVE  engine.version <= engine'.version /\ engine.version \in Nat
<1>1. engine.version \in Nat
  BY Zenon DEF ControlInv, ControlTypeOK, Snapshot
<1>2. CASE UNCHANGED engine
  BY <1>1, <1>2
<1>3. ASSUME NEW a \in Admins, Activate(a) PROVE engine.version <= engine'.version
  <2>1. engine' = admin[a].update /\ admin[a].pc = "probing"
    BY Zenon, <1>3 DEF Activate
  <2>2. admin[a].update.version > engine.version
    BY Zenon, <2>1 DEF ControlInv, Progress
  <2>3. admin[a].update.version \in Nat
    BY Zenon, <2>1, TaskFields DEF ControlInv, Holding, Snapshot
  <2> QED
    BY <1>1, <2>1, <2>2, <2>3
<1>4. CASE Elsewhere
  BY Zenon, <1>2, <1>4 DEF Elsewhere
<1>5. CASE \E a \in Admins, update \in Updates : Arrive(a, update)
  BY Zenon, <1>2, <1>5 DEF Arrive, Task, requestVars
<1>6. CASE \E a \in Admins : LockAndValidate(a) \/ RolledBack(a) \/ ReloadTcp(a)
                            \/ ReloadTransparent(a) \/ Acknowledge(a)
  BY Zenon, <1>2, <1>6
     DEF LockAndValidate, RolledBack, ReloadTcp, ReloadTransparent, Acknowledge, Answer, Task, requestVars
<1> QED
  BY Zenon, <1>1, <1>3, <1>4, <1>5, <1>6 DEF ControlStep, ApplyStep

(* One request goes on.                                                     *)
LEMMA OneRequest ==
  ASSUME RequestInv, NEW r \in Reqs, NEW next, next \in Request, Pinned(next),
         req' = [req EXCEPT ![r] = next], UNCHANGED engine
  PROVE  RequestInv'
<1>1. \A q : Pinned(q)' = Pinned(q)
  BY Zenon DEF Pinned, CorsOrigin, Target
<1>2. DOMAIN req' = Reqs /\ req'[r] = next /\ \A x \in Reqs \ {r} : req'[x] = req[x]
  BY Zenon DEF RequestInv
<1> QED
  BY Zenon, <1>1, <1>2 DEF RequestInv

(* What the lookups return.                                                 *)
LEMMA LookupTypes ==
  ASSUME NEW config \in DOMAIN Documents, NEW kind \in Kinds
  PROVE  /\ Target(config, kind) \in Providers
         /\ CorsOrigin(config, kind) \in Allowed \ {"upstream"}
         /\ CorsOrigin(config, kind) # "none" =>
              CorsOrigin(config, kind) \in Documents[config].origins[kind.slot]
<1>1. kind.browser \in BOOLEAN /\ kind.origin \notin {"none", "upstream"}
  BY Zenon, RequestAssumption
<1>2. kind.origin \in Allowed
  BY Zenon DEF Allowed
<1>3. Target(config, kind) \in Providers
  BY DEF Providers
<1> QED
  BY Zenon, <1>1, <1>2, <1>3 DEF CorsOrigin, Allowed

(* A request that comes: its context is that of the active snapshot.        *)
LEMMA FreshRequest ==
  ASSUME ControlInv, NEW kind \in Kinds, NEW pc \in RequestPcs, NEW status \in Nat,
         NEW allow, NEW cors, NEW target, NEW counted \in BOOLEAN,
         cors \in {"none", CorsOrigin(engine.config, kind)},
         target \in {"none", Target(engine.config, kind)},
         allow \in {"none", cors},
         pc = "parsing" => allow = "none" /\ cors = "none"
  PROVE  /\ Context(kind, pc, target, cors, status, allow, counted) \in Request
         /\ Pinned(Context(kind, pc, target, cors, status, allow, counted))
<1> DEFINE next == Context(kind, pc, target, cors, status, allow, counted)
<1>0. next = [pc |-> pc, kind |-> kind, snapshot |-> engine, target |-> target, contacted |-> "none",
              status |-> status, allow |-> allow, cors |-> cors, counted |-> counted,
              failed |-> FALSE, since |-> acked]
  BY Zenon DEF Context
<1> HIDE DEF next
<1>1. engine \in Snapshot /\ acked \in Nat /\ engine.config \in DOMAIN Documents /\ engine.version \in Nat
  BY Zenon DEF ControlInv, ControlTypeOK, Snapshot
<1>2. acked <= engine.version
  <2>1. CASE lock = NoAdmin
    BY SMTT(30), <1>1, <2>1 DEF ControlInv
  <2>2. CASE lock # NoAdmin
    <3>1. lock \in Admins /\ admin[lock].pc \in Holding /\ Progress(lock)
      BY Zenon, <2>2 DEF ControlInv, ControlTypeOK
    <3> QED
      BY <1>1, <3>1 DEF Progress, Holding
  <2> QED
    BY Zenon, <2>1, <2>2
<1>3. target \in Providers /\ cors \in Allowed /\ allow \in Allowed /\ "none" \in Providers
  BY SMTT(30), <1>1, LookupTypes DEF Providers, Allowed
<1>4. next \in Request
  BY Zenon, <1>0, <1>1, <1>3 DEF Request
<1>5. Pinned(next)
  BY <1>0, <1>1, <1>2 DEF Pinned
<1> QED
  BY Zenon, <1>4, <1>5 DEF next

(* A request that goes on keeps its snapshot and what it looked up in it.   *)
LEMMA MovedRequest ==
  ASSUME NEW q \in Request, Pinned(q), NEW next \in Request,
         next.kind = q.kind, next.snapshot = q.snapshot, next.since = q.since,
         next.target = q.target, next.cors = q.cors, next.pc # "parsing",
         next.contacted \in {q.contacted, q.target},
         next.allow \in {q.allow, q.cors} \/ (next.allow = "upstream" /\ ~q.kind.browser)
  PROVE  Pinned(next)
  BY Zenon DEF Pinned

LEMMA RequestNext ==
  ASSUME RequestInv, ControlInv, ControlStep, RequestStep
  PROVE  RequestInv'
<1>e. engine.config \in DOMAIN Documents /\ engine \in Snapshot
  BY Zenon DEF ControlInv, ControlTypeOK, Snapshot
<1>1. CASE UNCHANGED req
  <2>1. engine.version <= engine'.version /\ engine.version \in Nat
    BY Zenon, SnapshotsGrow
  <2>2. engine'.version \in Nat
    <3>1. CASE UNCHANGED engine
      BY Zenon, <2>1, <3>1
    <3>2. ASSUME NEW a \in Admins, Activate(a) PROVE engine'.version \in Nat
      <4>1. engine' = admin[a].update /\ admin[a].pc = "probing"
        BY Zenon, <3>2 DEF Activate
      <4> QED
        BY Zenon, <4>1, TaskFields DEF ControlInv, Holding, Snapshot
    <3>3. CASE Elsewhere
      BY Zenon, <3>1, <3>3 DEF Elsewhere
    <3>4. CASE \E a \in Admins, update \in Updates : Arrive(a, update)
      BY Zenon, <3>1, <3>4 DEF Arrive, Task, requestVars
    <3>5. CASE \E a \in Admins : LockAndValidate(a) \/ RolledBack(a) \/ ReloadTcp(a)
                                \/ ReloadTransparent(a) \/ Acknowledge(a)
      BY Zenon, <3>1, <3>5 DEF LockAndValidate, RolledBack, ReloadTcp, ReloadTransparent, Acknowledge,
                        Answer, Task, requestVars
    <3> QED
      BY Zenon, <3>2, <3>3, <3>4, <3>5 DEF ControlStep, ApplyStep
  <2>3. ASSUME NEW q \in Request, Pinned(q) PROVE Pinned(q)'
    <3>1. q.snapshot.version \in Nat
      BY Zenon DEF Request, Snapshot
    <3>2. q.snapshot.version <= engine'.version
      BY <2>1, <2>2, <2>3, <3>1 DEF Pinned
    <3> QED
      BY Zenon, <2>3, <3>2 DEF Pinned, CorsOrigin, Target
  <2> QED
    BY Zenon, <1>1, <2>3 DEF RequestInv
<1>2. ASSUME NEW r \in Reqs, NEW kind \in Kinds, RejectEarly(r, kind)
      PROVE  RequestInv'
  <2> DEFINE next == Context(kind, "answering", "none", "none", EarlyStatus(kind), "none", TRUE)
  <2>1. req' = [req EXCEPT ![r] = next] /\ UNCHANGED engine
    BY Zenon, <1>2 DEF RejectEarly
  <2>2. EarlyStatus(kind) \in Nat
    BY DEF EarlyStatus
  <2>3. next \in Request /\ Pinned(next)
    BY Zenon, <2>2, FreshRequest DEF RequestPcs
  <2> HIDE DEF next
  <2> QED
    BY Zenon, <2>1, <2>3, OneRequest
<1>3. ASSUME NEW r \in Reqs, NEW kind \in Kinds, Route(r, kind)
      PROVE  RequestInv'
  <2> DEFINE status == RouteStatus(kind)
             cors == CorsOrigin(engine.config, kind)
             counted == status >= 400
             pc == IF status = 200 THEN "probing" ELSE "answering"
             allow == IF status = 200 THEN "none" ELSE cors
             target == Target(engine.config, kind)
             next == Context(kind, pc, target, cors, status, allow, counted)
  <2>1. req' = [req EXCEPT ![r] = next] /\ UNCHANGED engine
    BY Zenon, <1>3 DEF Route
  <2>2. status \in Nat
    BY DEF RouteStatus
  <2>3. pc \in RequestPcs /\ pc # "parsing" /\ allow \in {"none", cors} /\ counted \in BOOLEAN
    BY <2>2 DEF RequestPcs
  <2> HIDE DEF status, cors, counted, pc, allow, target
  <2>4. next \in Request /\ Pinned(next)
    <3>1. /\ cors \in {"none", CorsOrigin(engine.config, kind)}
          /\ target \in {"none", Target(engine.config, kind)}
      BY Zenon DEF cors, target
    <3>2. pc = "parsing" => allow = "none" /\ cors = "none"
      BY Zenon, <2>3
    <3>3. ControlInv /\ pc \in RequestPcs /\ allow \in {"none", cors} /\ counted \in BOOLEAN
      BY Zenon, <2>3
    <3> QED
      BY ONLY Zenon, kind \in Kinds, <2>2, <3>1, <3>2, <3>3, FreshRequest
  <2> HIDE DEF next
  <2> QED
    BY Zenon, <2>1, <2>4, OneRequest
<1>4. ASSUME NEW r \in Reqs, NEW kind \in Kinds, ParseProxied(r, kind)
      PROVE  RequestInv'
  <2> DEFINE next == Context(kind, "parsing", "none", "none", 200, "none", FALSE)
  <2>1. req' = [req EXCEPT ![r] = next] /\ UNCHANGED engine
    BY Zenon, <1>4 DEF ParseProxied
  <2>2. next \in Request /\ Pinned(next)
    <3> DEFINE ok == 200
    <3>1. next = Context(kind, "parsing", "none", "none", ok, "none", FALSE) /\ ok \in Nat
      OBVIOUS
    <3> HIDE DEF next, ok
    <3> QED
      BY Zenon, <3>1, FreshRequest DEF RequestPcs
  <2> HIDE DEF next
  <2> QED
    BY Zenon, <2>1, <2>2, OneRequest
<1>5. ASSUME NEW r \in Reqs, NEW next \in Request, Started(r), req' = [req EXCEPT ![r] = next], UNCHANGED engine,
             next.kind = req[r].kind, next.snapshot = req[r].snapshot, next.since = req[r].since,
             next.target = req[r].target, next.cors = req[r].cors, next.pc # "parsing",
             next.contacted \in {req[r].contacted, req[r].target},
             next.allow \in {req[r].allow, req[r].cors} \/ (next.allow = "upstream" /\ ~req[r].kind.browser)
      PROVE  RequestInv'
  <2>1. req[r] \in Request /\ Pinned(req[r])
    BY SMTT(30), <1>5 DEF RequestInv, Started, NoRequest
  <2>2. Pinned(next)
    BY Zenon, <1>5, <2>1, MovedRequest
  <2> QED
    BY Zenon, <1>5, <2>2, OneRequest
<1>6. ASSUME NEW r \in Reqs, Started(r)
      PROVE  /\ req[r] \in Request
             /\ \A pc \in RequestPcs \ {"parsing"} : Advance(r, pc) => RequestInv'
             /\ \A status \in Nat : Reject(r, status) \/ Refuse(r, status) => RequestInv'
  <2>1. req[r] \in Request
    BY <1>6 DEF RequestInv, Started, NoRequest
  <2>2. ASSUME NEW pc \in RequestPcs \ {"parsing"}, Advance(r, pc) PROVE RequestInv'
    <3> DEFINE next == [req[r] EXCEPT !.pc = pc]
    <3>1. req' = [req EXCEPT ![r] = next] /\ UNCHANGED engine
      BY Zenon, <2>2 DEF Advance
    <3>2. /\ next \in Request
          /\ next.kind = req[r].kind /\ next.snapshot = req[r].snapshot /\ next.since = req[r].since
          /\ next.target = req[r].target /\ next.cors = req[r].cors /\ next.pc # "parsing"
          /\ next.contacted = req[r].contacted /\ next.allow = req[r].allow
      BY Zenon, <2>1, <2>2 DEF Request
    <3> HIDE DEF next
    <3> QED
      BY Zenon, <1>6, <3>1, <3>2, <1>5
  <2>3. ASSUME NEW status \in Nat, Reject(r, status) PROVE RequestInv'
    <3> DEFINE next == [req[r] EXCEPT !.pc = "answering", !.status = status, !.allow = req[r].cors, !.counted = TRUE]
    <3>1. req' = [req EXCEPT ![r] = next] /\ UNCHANGED engine
      BY Zenon, <2>3 DEF Reject
    <3>2. /\ next \in Request
          /\ next.kind = req[r].kind /\ next.snapshot = req[r].snapshot /\ next.since = req[r].since
          /\ next.target = req[r].target /\ next.cors = req[r].cors /\ next.pc # "parsing"
          /\ next.contacted = req[r].contacted /\ next.allow = req[r].cors
      BY Zenon, <2>1 DEF Request, RequestPcs
    <3> HIDE DEF next
    <3> QED
      BY Zenon, <1>6, <3>1, <3>2, <1>5
  <2>4. ASSUME NEW status \in Nat, Refuse(r, status) PROVE RequestInv'
    <3> DEFINE next == [req[r] EXCEPT !.pc = "logged", !.status = status]
    <3>1. req' = [req EXCEPT ![r] = next] /\ UNCHANGED engine
      BY Zenon, <2>4 DEF Refuse
    <3>2. /\ next \in Request
          /\ next.kind = req[r].kind /\ next.snapshot = req[r].snapshot /\ next.since = req[r].since
          /\ next.target = req[r].target /\ next.cors = req[r].cors /\ next.pc # "parsing"
          /\ next.contacted = req[r].contacted /\ next.allow = req[r].allow
      BY Zenon, <2>1 DEF Request, RequestPcs
    <3> HIDE DEF next
    <3> QED
      BY Zenon, <1>6, <3>1, <3>2, <1>5
  <2> QED
    BY Zenon, <2>1, <2>2, <2>3, <2>4
<1>7. ASSUME NEW r \in Reqs, Started(r), HttpStep(r)
      PROVE  RequestInv'
  <2>1. req[r] \in Request
    BY Zenon, <1>6, <1>7
  <2>2. CASE Probe(r) \/ Resolve(r)
    <3>1. Advance(r, "resolving") \/ Advance(r, "proxying") \/ Reject(r, 503)
      BY Zenon, <2>2 DEF Probe, Resolve
    <3> QED
      BY <3>1, <1>6, <1>7 DEF RequestPcs
  <2>3. CASE UpstreamPeer(r)
    <3> DEFINE next == [req[r] EXCEPT !.pc = "exchanging", !.contacted = req[r].target]
    <3>1. req' = [req EXCEPT ![r] = next] /\ UNCHANGED engine
      BY Zenon, <2>3 DEF UpstreamPeer, upstream_peer
    <3>2. /\ next \in Request
          /\ next.kind = req[r].kind /\ next.snapshot = req[r].snapshot /\ next.since = req[r].since
          /\ next.target = req[r].target /\ next.cors = req[r].cors /\ next.pc # "parsing"
          /\ next.contacted = req[r].target /\ next.allow = req[r].allow
      BY Zenon, <2>1 DEF Request, RequestPcs
    <3> HIDE DEF next
    <3> QED
      BY Zenon, <1>7, <3>1, <3>2, <1>5
  <2>4. CASE FailToProxy(r)
    <3>1. PICK status \in FailStatus(r) :
            req' = [req EXCEPT ![r] = [req[r] EXCEPT !.pc = "logging", !.status = status, !.allow = req[r].cors,
                                                     !.counted = TRUE, !.failed = TRUE]]
      BY Zenon, <2>4 DEF FailToProxy
    <3> DEFINE next == [req[r] EXCEPT !.pc = "logging", !.status = status, !.allow = req[r].cors,
                                      !.counted = TRUE, !.failed = TRUE]
    <3>2. status \in Nat
      BY DEF FailStatus
    <3>3. /\ next \in Request
          /\ next.kind = req[r].kind /\ next.snapshot = req[r].snapshot /\ next.since = req[r].since
          /\ next.target = req[r].target /\ next.cors = req[r].cors /\ next.pc # "parsing"
          /\ next.contacted = req[r].contacted /\ next.allow = req[r].cors
      BY Zenon, <2>1, <3>2 DEF Request, RequestPcs
    <3>4. UNCHANGED engine /\ req' = [req EXCEPT ![r] = next]
      BY Zenon, <2>4, <3>1 DEF FailToProxy
    <3> HIDE DEF next
    <3> QED
      BY Zenon, <1>7, <3>3, <3>4, <1>5
  <2>5. CASE Respond(r)
    <3> DEFINE allow == IF req[r].pc = "answering" THEN req[r].allow
                        ELSE IF req[r].kind.browser THEN req[r].cors
                        ELSE "upstream"
               next == [req[r] EXCEPT !.pc = "logging", !.allow = allow]
    <3>1. req' = [req EXCEPT ![r] = next] /\ UNCHANGED engine
      BY Zenon, <2>5 DEF Respond
    <3>2. allow \in {req[r].allow, req[r].cors} \/ (allow = "upstream" /\ ~req[r].kind.browser)
      BY Zenon
    <3>3. allow \in Allowed
      BY Zenon, <3>2, <2>1 DEF Request, Allowed
    <3> HIDE DEF allow
    <3>4. /\ next \in Request
          /\ next.kind = req[r].kind /\ next.snapshot = req[r].snapshot /\ next.since = req[r].since
          /\ next.target = req[r].target /\ next.cors = req[r].cors /\ next.pc # "parsing"
          /\ next.contacted = req[r].contacted /\ next.allow = allow
      BY Zenon, <2>1, <3>3 DEF Request, RequestPcs
    <3> HIDE DEF next
    <3> QED
      BY Zenon, <1>7, <3>1, <3>2, <3>4, <1>5
  <2>6. CASE Log(r)
    <3>1. Advance(r, "logged") \/ (req' = [req EXCEPT ![r] = [req[r] EXCEPT !.pc = "logged"]] /\ UNCHANGED engine)
      BY Zenon, <2>6 DEF Log
    <3> DEFINE next == [req[r] EXCEPT !.pc = "logged"]
    <3>2. /\ next \in Request
          /\ next.kind = req[r].kind /\ next.snapshot = req[r].snapshot /\ next.since = req[r].since
          /\ next.target = req[r].target /\ next.cors = req[r].cors /\ next.pc # "parsing"
          /\ next.contacted = req[r].contacted /\ next.allow = req[r].allow
      BY Zenon, <2>1 DEF Request, RequestPcs
    <3>3. req' = [req EXCEPT ![r] = next] /\ UNCHANGED engine
      BY Zenon, <3>1 DEF Advance
    <3> HIDE DEF next
    <3> QED
      BY Zenon, <1>7, <3>2, <3>3, <1>5
  <2> QED
    BY Zenon, <1>7, <2>2, <2>3, <2>4, <2>5, <2>6 DEF HttpStep
<1>8. ASSUME NEW r \in Reqs, Started(r), ForwardStep(r)
      PROVE  RequestInv'
  <2>1. req[r] \in Request /\ Pinned(req[r])
    BY <1>8 DEF RequestInv, Started, NoRequest
  <2>2. CASE ParseRefused(r)
    <3>1. PICK status \in ParsedStatus(req[r].kind) \cup {400, 408} : Refuse(r, status)
      BY Zenon, <2>2 DEF ParseRefused
    <3>2. status \in Nat
      BY DEF ParsedStatus
    <3> QED
      BY Zenon, <3>1, <3>2, <1>6, <1>8
  <2>3. CASE LookUpProxied(r)
    <3> DEFINE target == Target(engine.config, req[r].kind)
               next == [req[r] EXCEPT !.pc = "connecting", !.snapshot = engine, !.target = target]
    <3>1. \/ Refuse(r, 403) \/ Refuse(r, 502)
          \/ req' = [req EXCEPT ![r] = next] /\ UNCHANGED engine
      BY Zenon, <2>3 DEF LookUpProxied
    <3>2. CASE req' = [req EXCEPT ![r] = next] /\ UNCHANGED engine
      <4>1. req[r].kind \in Kinds /\ target \in Providers
        BY Zenon, <2>1, <1>e, LookupTypes DEF Request
      <4>2. /\ next \in Request /\ next.pc = "connecting" /\ next.snapshot = engine /\ next.target = target
            /\ next.kind = req[r].kind /\ next.since = req[r].since /\ next.cors = req[r].cors
            /\ next.contacted = req[r].contacted /\ next.allow = req[r].allow
        BY Zenon, <2>1, <4>1, <1>e DEF Request, RequestPcs
      <4>3. next.contacted = "none" /\ next.allow = "none" /\ next.cors = "none"
        BY Zenon, <2>1, <2>3, <4>2 DEF LookUpProxied, Pinned
      <4>4. req[r].since <= engine.version /\ engine.version <= engine.version
        <5>1. req[r].since \in Nat /\ req[r].snapshot.version \in Nat /\ engine.version \in Nat
          BY Zenon, <2>1, <1>e DEF Request, Snapshot
        <5> QED
          BY SMTT(30), <5>1, <2>1 DEF Pinned
      <4> HIDE DEF next
      <4>5. Pinned(next)
        BY Zenon, <4>2, <4>3, <4>4 DEF Pinned
      <4> QED
        BY Zenon, <3>2, <4>2, <4>5, OneRequest
    <3>3. 403 \in Nat /\ 502 \in Nat
      OBVIOUS
    <3> QED
      BY <3>1, <3>2, <3>3, <1>6, <1>8
  <2>4. CASE ConnectProxied(r)
    <3> DEFINE next == [req[r] EXCEPT !.pc = "relaying", !.contacted = req[r].target]
    <3>1. Refuse(r, 502) \/ (req' = [req EXCEPT ![r] = next] /\ UNCHANGED engine)
      BY Zenon, <2>4 DEF ConnectProxied
    <3>2. /\ next \in Request
          /\ next.kind = req[r].kind /\ next.snapshot = req[r].snapshot /\ next.since = req[r].since
          /\ next.target = req[r].target /\ next.cors = req[r].cors /\ next.pc # "parsing"
          /\ next.contacted = req[r].target /\ next.allow = req[r].allow
      BY Zenon, <2>1 DEF Request, RequestPcs
    <3> HIDE DEF next
    <3> QED
      BY SMTT(30), <1>8, <3>1, <3>2, <1>5, <1>6
  <2>5. CASE RelayEnds(r)
    BY Zenon, <2>5, <1>6, <1>8 DEF RelayEnds, RequestPcs
  <2> QED
    BY Zenon, <1>8, <2>2, <2>3, <2>4, <2>5 DEF ForwardStep
<1>9. ASSUME NEW family \in {"forward", "http"}, CutRequests(family)
      PROVE  RequestInv'
  <2>1. UNCHANGED engine /\ DOMAIN req' = Reqs
    BY Zenon, <1>9 DEF CutRequests
  <2>2. \A q : Pinned(q)' = Pinned(q)
    BY Zenon, <2>1 DEF Pinned, CorsOrigin, Target
  <2>3. ASSUME NEW r \in Reqs, Started(r), req'[r] = [req[r] EXCEPT !.pc = "cut"]
        PROVE  req'[r] \in Request /\ Pinned(req'[r])
    <3>1. req[r] \in Request /\ Pinned(req[r])
      BY <2>3 DEF RequestInv, Started, NoRequest
    <3> DEFINE next == [req[r] EXCEPT !.pc = "cut"]
    <3>2. /\ next \in Request
          /\ next.kind = req[r].kind /\ next.snapshot = req[r].snapshot /\ next.since = req[r].since
          /\ next.target = req[r].target /\ next.cors = req[r].cors /\ next.pc # "parsing"
          /\ next.contacted = req[r].contacted /\ next.allow = req[r].allow
      BY Zenon, <3>1 DEF Request, RequestPcs
    <3> HIDE DEF next
    <3>3. Pinned(next)
      BY Zenon, <3>1, <3>2, MovedRequest
    <3> QED
      BY Zenon, <2>3, <3>2, <3>3 DEF next
  <2>4. \A r \in Reqs : req'[r] = req[r] \/ (Started(r) /\ req'[r] = [req[r] EXCEPT !.pc = "cut"])
    BY Zenon, <1>9 DEF CutRequests
  <2> QED
    BY Zenon, <2>1, <2>2, <2>3, <2>4 DEF RequestInv
<1> QED
  BY Zenon, <1>1, <1>2, <1>3, <1>4, <1>7, <1>8, <1>9 DEF RequestStep

-----------------------------------------------------------------------------
(* TCP bindings and the control socket.                                     *)

LEMMA TcpView ==
  ASSUME ControlTypeOK, [DataNext]_dataVars
  PROVE  TcpStep
<1>1. CASE UNCHANGED tcpVars
  BY Zenon, <1>1 DEF TcpStep, tcpVars
<1>2. CASE \E a \in Admins : ReloadTcp(a)
  <2> PICK a \in Admins : ReloadTcp(a)
    BY Zenon, <1>2
  <2> DEFINE b == Head(admin[a].left)
  <2>1. b \in Listeners /\ engine.config \in DOMAIN Documents
    BY Zenon, TaskFields DEF ReloadTcp, Holding, ControlTypeOK, Snapshot
  <2>2. CASE Documents[engine.config].tcp[b] = "none"
    BY Zenon, <2>2, <1>1 DEF ReloadTcp, Answer, Task
  <2>3. CASE Documents[engine.config].tcp[b] # "none"
    <3>1. AllTold /\ Reload(b, Documents[engine.config].tcp[b], Documents[engine.config].policy)
      BY Zenon, <2>3 DEF ReloadTcp, AllTold, Listeners
    <3> HIDE DEF b
    <3> QED
      BY Zenon, <3>1, <2>1 DEF TcpStep
  <2> QED
    BY Zenon, <2>2, <2>3
<1>3. CASE \E b \in Listeners : TellConnection(b)
  BY Zenon, <1>3 DEF TellConnection, TcpStep
<1>4. CASE TcpTimeout
  <2> DEFINE b == Head(proc.left)[2]
  <2>1. AbortListener(b)
    BY Zenon, <1>4 DEF TcpTimeout
  <2> HIDE DEF b
  <2>2. CutShort({c \in ConnsOf(b) : Alive(c)})
    BY Zenon, <2>1 DEF AbortListener, AbortAll, CutShort
  <2> QED
    BY Zenon, <2>2 DEF TcpStep, ConnsOf
<1>5. CASE StopTcp
  BY Zenon, <1>5 DEF StopTcp, BeginStop, TcpStep
<1>6. CASE TcpTraffic
  <2>1. CASE \E c \in Conns : ConnStep(c)
    BY Zenon, <2>1 DEF TcpStep
  <2>2. CASE \E b \in Listeners : ListenerStep(b)
    <3> PICK b \in Listeners : ListenerStep(b)
      BY Zenon, <2>2
    <3>1. CASE AcceptFails(b)
      <4>1. CutShort({c \in ConnsOf(b) : Alive(c)})
        BY Zenon, <3>1 DEF AcceptFails, CutShort
      <4> QED
        BY Zenon, <4>1 DEF TcpStep, ConnsOf
    <3>2. CASE StopAccepting(b) \/ AllJoined(b)
      BY Zenon, <3>2 DEF StopAccepting, AllJoined, TcpStep
    <3> QED
      BY Zenon, <3>1, <3>2 DEF ListenerStep
  <2> QED
    BY Zenon, <1>6, <2>1, <2>2 DEF TcpTraffic, Listeners
<1>7. CASE \E a \in Admins : (\E update \in Updates : Arrive(a, update)) \/ LockAndValidate(a)
             \/ RolledBack(a) \/ Activate(a) \/ ReloadTransparent(a) \/ Acknowledge(a)
  BY Zenon, <1>1, <1>7
     DEF Arrive, LockAndValidate, RolledBack, Activate, ReloadTransparent, Acknowledge, Answer, Task
<1>8. CASE RequestShutdown \/ ForwardStops \/ TransparentTraffic \/ RequestTraffic
             \/ TcpJoined \/ StopTransparent \/ StopForward \/ StopHttp \/ StopAdmin
  BY Zenon, <1>1, <1>8
     DEF RequestShutdown, ForwardStops, TransparentTraffic, RequestTraffic, TcpJoined,
         StopTransparent, StopForward, StopHttp, StopAdmin
<1>9. CASE UNCHANGED dataVars
  BY Zenon, <1>1, <1>9 DEF dataVars
<1> QED
  BY Zenon, <1>2, <1>3, <1>4, <1>5, <1>6, <1>7, <1>8, <1>9
     DEF DataNext, Control, ApplyStep, WaitStep, Listeners

(* What a TCP step other than a reload does to the routes' targets.         *)
LEMMA TargetsStay ==
  ASSUME TcpTypeOK,
         \/ \E c \in Conns : ConnStep(c)
         \/ \E b \in Listeners : ListenerStep(b) \/ SendTransition(b)
  PROVE  \A b \in Listeners : route'[b].target = route[b].target
<1>1. CASE \E c \in Conns : Accept(c)
  <2> PICK c \in Conns : Accept(c)
    BY Zenon, <1>1
  <2>1. \E w : route' = [route EXCEPT ![BindingOf[c]].waiting = w]
    BY Zenon DEF Accept
  <2> QED
    BY <2>1, DataAssumption DEF TcpTypeOK, RouteState, ConnTask, Listeners
<1>2. CASE UNCHANGED route
  BY Zenon, <1>2
<1>3. CASE \E c \in Conns : Connect(c) \/ Finishes(c) \/ Transition(c) \/ DrainTimeout(c)
  <2>1. ASSUME NEW c \in Conns, NEW errors, Ends(c, errors) PROVE UNCHANGED route
    BY Zenon, <2>1 DEF Ends
  <2>2. ASSUME NEW c \in Conns, NEW pc, Goes(c, pc) PROVE UNCHANGED route
    BY Zenon, <2>2 DEF Goes
  <2>3. ASSUME NEW c \in Conns, Transition(c) PROVE UNCHANGED route
    <3>1. conn[c].notice \in Policies
      BY Zenon, <2>3 DEF Transition, TcpTypeOK, RouteState, ConnTask
    <3>2. Ends(c, 0) \/ Goes(c, "draining") \/ Goes(c, "pinned")
      BY Zenon, <2>3, <3>1 DEF Transition, Policies
    <3> QED
      BY Zenon, <3>2, <2>1, <2>2
  <2> QED
    BY Zenon, <1>2, <1>3, <2>1, <2>2, <2>3 DEF Connect, Finishes, DrainTimeout
<1>4. CASE \E b \in Listeners : ListenerStep(b) \/ SendTransition(b)
  BY Zenon, <1>2, <1>4 DEF ListenerStep, AcceptFails, StopAccepting, AllJoined, SendTransition
<1> QED
  BY Zenon, <1>1, <1>3, <1>4 DEF ConnStep

LEMMA ControlView ==
  ASSUME ControlTypeOK, TcpTypeOK, [DataNext]_dataVars
  PROVE  ControlStep
<1>1. CASE UNCHANGED <<engine, acked, controlVars, members, route>>
  BY Zenon, <1>1 DEF ControlStep, Elsewhere, controlVars
<1>2. CASE UNCHANGED <<engine, acked, lock, admin, members, route>>
  BY Zenon, <1>2 DEF ControlStep, Elsewhere
<1>3. CASE Control
  <2>1. CASE \E b \in Listeners : TellConnection(b)
    BY Zenon, <1>1, <2>1 DEF TellConnection, SendTransition, transparentVars, requestVars
  <2> QED
    BY Zenon, <1>3, <2>1 DEF Control, ControlStep, Listeners
<1>4. CASE TcpTraffic
  <2>1. \A b \in Listeners : route'[b].target = route[b].target
    BY Zenon, <1>4, TargetsStay DEF TcpTraffic, Listeners
  <2>2. UNCHANGED <<engine, acked, lock, admin, members>>
    BY Zenon, <1>4 DEF TcpTraffic, transparentVars, requestVars, controlVars
  <2> QED
    BY Zenon, <2>1, <2>2 DEF ControlStep, Elsewhere
<1>5. CASE TransparentTraffic
  <2>1. UNCHANGED members
    <3>1. ASSUME NEW f \in Flows, NEW from, AcceptFlow(f, from) PROVE UNCHANGED members
      BY Zenon, <3>1 DEF AcceptFlow
    <3>2. ASSUME NEW f \in Flows, FlowStep(f) PROVE UNCHANGED members
      BY Zenon, <3>2 DEF FlowStep, ObserveOne, BeginTrying, TryMember, GiveUpMembers, TryOwn, FlowEnds
    <3>3. ASSUME NEW h \in Hosts, HostChanges(h) PROVE UNCHANGED members
      BY Zenon, <3>3 DEF HostChanges
    <3> QED
      BY Zenon, <1>5, <3>1, <3>2, <3>3 DEF TransparentTraffic
  <2> QED
    BY Zenon, <1>1, <1>5, <2>1 DEF TransparentTraffic, tcpVars, requestVars
<1>6. CASE RequestTraffic
  <2>1. UNCHANGED <<engine, acked>>
    <3>1. ASSUME NEW r \in Reqs, NEW kind \in Kinds, RejectEarly(r, kind) \/ Route(r, kind) \/ ParseProxied(r, kind)
          PROVE  UNCHANGED <<engine, acked>>
      BY Zenon, <3>1 DEF RejectEarly, Route, ParseProxied
    <3>2. ASSUME NEW r \in Reqs, HttpStep(r)
          PROVE  UNCHANGED <<engine, acked>>
      BY Zenon, <3>2 DEF HttpStep, Probe, Resolve, UpstreamPeer, FailToProxy, Respond, Log, Advance, Reject
    <3>3. ASSUME NEW r \in Reqs, ForwardStep(r)
          PROVE  UNCHANGED <<engine, acked>>
      BY Zenon, <3>3 DEF ForwardStep, ParseRefused, LookUpProxied, ConnectProxied, RelayEnds, Refuse, Advance
    <3> QED
      BY Zenon, <1>6, <3>1, <3>2, <3>3 DEF RequestTraffic
  <2> QED
    BY Zenon, <1>1, <1>6, <2>1 DEF RequestTraffic, tcpVars, transparentVars
<1>7. CASE StopTransparent \/ StopForward \/ StopHttp
  BY Zenon, <1>2, <1>7 DEF StopTransparent, StopForward, StopHttp, AbortFlows, CutRequests,
                    tcpVars, transparentVars, requestVars
<1>8. CASE ForwardStops \/ StopTcp \/ TcpTimeout
  BY Zenon, <1>1, <1>8 DEF ForwardStops, StopTcp, TcpTimeout, CutRequests, BeginStop, AbortListener,
                    tcpVars, transparentVars, requestVars
<1>9. CASE RequestShutdown \/ TcpJoined \/ StopAdmin
  BY Zenon, <1>2, <1>9 DEF RequestShutdown, TcpJoined, StopAdmin, tcpVars, transparentVars, requestVars
<1>10. CASE UNCHANGED dataVars
  BY Zenon, <1>2, <1>10 DEF dataVars, tcpVars, transparentVars, requestVars, controlVars
<1> QED
  BY Zenon, <1>3, <1>4, <1>5, <1>6, <1>7, <1>8, <1>9, <1>10 DEF DataNext, WaitStep

-----------------------------------------------------------------------------
(* Applies.                                                                 *)

LEMMA ControlInitInv ==
  ASSUME DataInit
  PROVE  ControlInv
<1>1. ControlTypeOK
  BY Zenon, DataAssumption DEF DataInit, ControlTypeOK, Snapshot, AdminTask
<1>2. PlanesAgree /\ acked = engine.version
  BY Zenon DEF DataInit, TcpInit, TransparentInit, PlanesAgree, TargetsAreOf, Listeners
<1>3. \A a \in Admins : admin[a].pc = "none"
  BY Zenon DEF DataInit
<1>4. \A a \in Admins : Progress(a)
  BY Zenon, <1>3 DEF Progress
<1>5. lock = NoAdmin /\ \A b \in Listeners : Documents[engine.config].tcp[b] # "none"
  BY Zenon, DataAssumption DEF DataInit, Listeners
<1> QED
  BY Zenon, <1>1, <1>2, <1>3, <1>4, <1>5, DataAssumption DEF ControlInv, Holding

(* The tasks that a step of one of them leaves alone.                       *)
LEMMA OtherTasks ==
  ASSUME ControlInv, NEW a \in Admins, NEW next,
         admin' = [admin EXCEPT ![a] = next]
  PROVE  /\ admin'[a] = next
         /\ \A x \in Admins \ {a} : admin'[x] = admin[x]
         /\ next \in AdminTask => admin' \in [Admins -> AdminTask]
  BY Zenon DEF ControlInv, ControlTypeOK

(* A task that does not keep the lock changes: so do no promises.           *)
LEMMA OutsideTheLock ==
  ASSUME ControlInv, NEW a \in Admins, NEW next \in AdminTask,
         admin' = [admin EXCEPT ![a] = next],
         admin[a].pc \notin Holding, next.pc \notin Holding,
         UNCHANGED <<engine, acked, lock, members, route>>
  PROVE  ControlInv'
<1>1. /\ admin'[a] = next
      /\ \A x \in Admins \ {a} : admin'[x] = admin[x]
      /\ admin' \in [Admins -> AdminTask]
  BY Zenon, OtherTasks
<1>2. PlanesAgree' = PlanesAgree /\ \A b \in Listeners : TargetsAreOf(b)' = TargetsAreOf(b)
  BY Zenon DEF PlanesAgree, TargetsAreOf
<1>3. \A x \in Admins : Progress(x)'
  <2>1. Progress(a)'
    BY Zenon, <1>1 DEF Progress, Holding
  <2>2. \A x \in Admins \ {a} : Progress(x)'
    BY <1>1, <1>2 DEF Progress, ControlInv, ValidCandidate
  <2> QED
    BY Zenon, <2>1, <2>2
<1>4. \A x \in Admins : admin'[x].pc \in Holding <=> lock' = x
  BY Zenon, <1>1 DEF ControlInv
<1>5. ControlTypeOK'
  BY Zenon, <1>1 DEF ControlInv, ControlTypeOK
<1> QED
  BY Zenon, <1>2, <1>3, <1>4, <1>5 DEF ControlInv

(* The task that keeps the lock is the only one past it.                    *)
LEMMA OneHolder ==
  ASSUME ControlInv, NEW a \in Admins, admin[a].pc \in Holding
  PROVE  lock = a /\ a # NoAdmin /\ \A x \in Admins \ {a} : admin[x].pc \notin Holding
  BY Zenon, DataAssumption DEF ControlInv

(* The holder goes on or lets go, and what it owes is shown for itself.     *)
LEMMA InsideTheLock ==
  ASSUME ControlInv, NEW a \in Admins, NEW next \in AdminTask,
         admin' = [admin EXCEPT ![a] = next],
         admin[a].pc \in Holding,
         engine' \in Snapshot, acked' \in Nat,
         \A b \in Listeners : Documents[engine'.config].tcp[b] # "none",
         \/ next.pc \in Holding /\ lock' = a /\ Progress(a)'
         \/ next.pc \notin Holding /\ lock' = NoAdmin /\ acked' = engine'.version /\ PlanesAgree'
  PROVE  ControlInv'
<1>1. /\ admin'[a] = next
      /\ \A x \in Admins \ {a} : admin'[x] = admin[x]
      /\ admin' \in [Admins -> AdminTask]
  BY Zenon, OtherTasks
<1>2. a # NoAdmin /\ \A x \in Admins \ {a} : admin'[x].pc \notin Holding
  BY Zenon, <1>1, OneHolder
<1>3. \A x \in Admins : admin'[x].pc \in Holding <=> lock' = x
  BY Zenon, <1>1, <1>2, DataAssumption
<1>4. \A x \in Admins : Progress(x)'
  <2>1. ASSUME NEW x \in Admins, admin'[x].pc \notin Holding PROVE Progress(x)'
    BY Zenon, <2>1 DEF Progress, Holding
  <2> QED
    BY Zenon, <2>1, <1>1, <1>2
<1>5. ControlTypeOK'
  BY Zenon, <1>1 DEF ControlTypeOK
<1>6. lock' = NoAdmin => acked' = engine'.version /\ PlanesAgree'
  BY Zenon, <1>2
<1> QED
  BY Zenon, <1>3, <1>4, <1>5, <1>6 DEF ControlInv

LEMMA ControlNext ==
  ASSUME ControlInv, TcpTypeOK, ControlStep
  PROVE  ControlInv'
<1>t. ControlTypeOK
  BY Zenon DEF ControlInv
<1>1. CASE Elsewhere
  <2>1. PlanesAgree' = PlanesAgree /\ \A b \in Listeners : TargetsAreOf(b)' = TargetsAreOf(b)
    BY Zenon, <1>1 DEF PlanesAgree, TargetsAreOf, Elsewhere
  <2>2. \A x \in Admins : Progress(x)'
    BY Zenon, <1>1, <2>1 DEF Progress, ControlInv, ValidCandidate, Elsewhere
  <2> QED
    BY Zenon, <1>1, <2>1, <2>2 DEF ControlInv, ControlTypeOK, Elsewhere
<1>2. ASSUME NEW a \in Admins, NEW update \in Updates, Arrive(a, update)
      PROVE  ControlInv'
  <2> DEFINE next == [pc |-> "waiting", update |-> update, left |-> <<>>]
  <2>1. update \in Snapshot
    BY Zenon, DataAssumption DEF Snapshot
  <2>2. next \in AdminTask /\ next.pc \notin Holding
    BY <2>1 DEF AdminTask, Holding
  <2>3. /\ admin' = [admin EXCEPT ![a] = next] /\ admin[a].pc \notin Holding
        /\ UNCHANGED <<engine, acked, lock, members, route>>
    BY Zenon, <1>2 DEF Arrive, Task, Holding, tcpVars, transparentVars, requestVars
  <2> HIDE DEF next
  <2> QED
    BY Zenon, <2>2, <2>3, OutsideTheLock
<1>3. ASSUME NEW a \in Admins, LockAndValidate(a)
      PROVE  ControlInv'
  <2> DEFINE update == admin[a].update
  <2>1. admin[a].pc = "waiting" /\ lock = NoAdmin /\ UNCHANGED <<engine, acked, members, route>>
    BY Zenon, <1>3 DEF LockAndValidate, Answer, Task, tcpVars, transparentVars, requestVars
  <2>2. ASSUME NEW status \in Statuses, Answer(a, status), UNCHANGED lock
        PROVE  ControlInv'
    <3> DEFINE next == [pc |-> "done", status |-> status, left |-> <<>>]
    <3>1. next \in AdminTask /\ next.pc \notin Holding
      BY Zenon DEF AdminTask, Holding
    <3>2. admin' = [admin EXCEPT ![a] = next]
      BY Zenon, <2>2 DEF Answer, Task
    <3>3. admin[a].pc \notin Holding
      BY Zenon, <2>1 DEF Holding
    <3> HIDE DEF next
    <3> QED
      BY Zenon, <3>1, <3>2, <3>3, <2>1, <2>2, OutsideTheLock
  <2>3. CASE /\ ValidCandidate(update.config) /\ ~(update.version <= engine.version)
             /\ lock' = a /\ Task(a, [admin[a] EXCEPT !.pc = "probing"])
    <3> DEFINE next == [admin[a] EXCEPT !.pc = "probing"]
    <3>1. admin[a] \in [pc : {"waiting"} \cup Holding, update : Snapshot, left : Seq(Listeners)]
      BY Zenon, <1>t, <2>1, TaskFields
    <3>2. next \in AdminTask /\ next.pc = "probing" /\ next.update = update
      BY Zenon, <3>1 DEF AdminTask, Holding
    <3>3. admin' = [admin EXCEPT ![a] = next]
      BY Zenon, <2>3 DEF Task
    <3> HIDE DEF next
    <3>4. /\ admin'[a] = next
          /\ \A x \in Admins \ {a} : admin'[x] = admin[x]
          /\ admin' \in [Admins -> AdminTask]
      BY Zenon, <3>2, <3>3, OtherTasks
    <3>5. \A x \in Admins : admin[x].pc \notin Holding
      BY Zenon, <2>1, DataAssumption DEF ControlInv
    <3>6. acked = engine.version /\ PlanesAgree
      BY Zenon, <2>1 DEF ControlInv
    <3>7. PlanesAgree'
      BY Zenon, <3>6, <2>1 DEF PlanesAgree, TargetsAreOf
    <3>8. update.version > engine.version
      BY <2>3, <3>1, <1>t DEF Snapshot, ControlTypeOK
    <3>9. Progress(a)'
      BY Zenon, <3>2, <3>4, <3>6, <3>7, <3>8, <2>1, <2>3 DEF Progress, ValidCandidate
    <3>10. ASSUME NEW x \in Admins \ {a} PROVE Progress(x)'
      BY Zenon, <3>4, <3>5 DEF Progress, Holding
    <3>11. ControlTypeOK'
      BY Zenon, <3>4, <2>1, <2>3, <1>t DEF ControlTypeOK
    <3>12. \A x \in Admins : admin'[x].pc \in Holding <=> lock' = x
      BY Zenon, <3>2, <3>4, <3>5, <2>3 DEF Holding
    <3>13. lock' # NoAdmin
      BY Zenon, <2>3, DataAssumption
    <3>14. \A b \in Listeners : Documents[engine'.config].tcp[b] # "none"
      BY Zenon, <2>1 DEF ControlInv
    <3> QED
      BY Zenon, <3>9, <3>10, <3>11, <3>12, <3>13, <3>14 DEF ControlInv
  <2> QED
    <3>1. \/ Answer(a, "rejected") /\ UNCHANGED lock
          \/ Answer(a, "rejected_stale") /\ UNCHANGED lock
          \/ /\ ValidCandidate(update.config) /\ ~(update.version <= engine.version)
             /\ lock' = a /\ Task(a, [admin[a] EXCEPT !.pc = "probing"])
      BY Zenon, <1>3 DEF LockAndValidate
    <3>2. "rejected" \in Statuses /\ "rejected_stale" \in Statuses
      BY Zenon DEF Statuses
    <3> QED
      BY Zenon, <3>1, <3>2, <2>2, <2>3
<1>4. ASSUME NEW a \in Admins, RolledBack(a)
      PROVE  ControlInv'
  <2> DEFINE next == [pc |-> "done", status |-> "rolled_back", left |-> <<>>]
  <2>1. next \in AdminTask /\ next.pc \notin Holding
    BY Zenon DEF AdminTask, Holding, Statuses
  <2>2. /\ admin' = [admin EXCEPT ![a] = next] /\ admin[a].pc = "probing"
        /\ lock' = NoAdmin /\ UNCHANGED <<engine, acked, members, route>>
    BY Zenon, <1>4 DEF RolledBack, Answer, Task, tcpVars, transparentVars, requestVars
  <2> HIDE DEF next
  <2>3. acked = engine.version /\ PlanesAgree
    BY Zenon, <2>2 DEF ControlInv, Progress
  <2>4. acked' = engine'.version /\ PlanesAgree'
    BY Zenon, <2>2, <2>3 DEF PlanesAgree, TargetsAreOf
  <2>5. engine' \in Snapshot /\ acked' \in Nat /\ \A b \in Listeners : Documents[engine'.config].tcp[b] # "none"
    BY Zenon, <2>2 DEF ControlInv, ControlTypeOK
  <2>6. admin[a].pc \in Holding
    BY Zenon, <2>2 DEF Holding
  <2> QED
    BY Zenon, <2>1, <2>2, <2>4, <2>5, <2>6, InsideTheLock
<1>5. ASSUME NEW a \in Admins, Activate(a)
      PROVE  ControlInv'
  <2>1. admin[a] \in [pc : {"waiting"} \cup Holding, update : Snapshot, left : Seq(Listeners)]
    BY Zenon, <1>5, <1>t, TaskFields DEF Activate, Holding
  <2> DEFINE next == [admin[a] EXCEPT !.pc = "reloading", !.left = Bindings]
  <2>2. next \in AdminTask /\ next.pc = "reloading" /\ next.left = Bindings
    BY Zenon, <2>1, DataAssumption DEF AdminTask, Holding, Listeners
  <2>3. admin' = [admin EXCEPT ![a] = next]
    BY Zenon, <1>5, <2>1 DEF Activate
  <2> HIDE DEF next
  <2>4. /\ admin[a].pc = "probing" /\ engine' = admin[a].update
        /\ UNCHANGED <<acked, lock, members, route>>
    BY Zenon, <1>5 DEF Activate, tcpVars, transparentVars
  <2>5. /\ acked = engine.version /\ admin[a].update.version > engine.version
        /\ ValidCandidate(admin[a].update.config)
    BY Zenon, <2>4 DEF ControlInv, Progress
  <2>6. admin[a].pc \in Holding /\ lock' = a
    BY Zenon, <2>4, OneHolder DEF Holding
  <2>7. engine' \in Snapshot /\ acked' \in Nat /\ \A b \in Listeners : Documents[engine'.config].tcp[b] # "none"
    BY Zenon, <2>1, <2>4, <2>5, <1>t DEF ControlTypeOK, ValidCandidate, Listeners
  <2>8. admin'[a] = next
    BY Zenon, <2>2, <2>3, OtherTasks
  <2>9. acked' < engine'.version
    BY Zenon, <2>4, <2>5, <2>7, <1>t DEF Snapshot, ControlTypeOK
  <2>10. Progress(a)'
    BY Zenon, <2>2, <2>8, <2>9 DEF Progress, Listeners
  <2>11. next.pc \in Holding
    BY Zenon, <2>2 DEF Holding
  <2> QED
    BY Zenon, <2>2, <2>3, <2>6, <2>7, <2>10, <2>11, InsideTheLock
<1>6. ASSUME NEW a \in Admins, ReloadTcp(a)
      PROVE  ControlInv'
  <2>1. /\ admin[a] \in [pc : {"waiting"} \cup Holding, update : Snapshot, left : Seq(Listeners)]
        /\ Head(admin[a].left) \in Listeners /\ Tail(admin[a].left) \in Seq(Listeners)
    BY Zenon, <1>6, <1>t, TaskFields DEF ReloadTcp, Holding
  <2> DEFINE b == Head(admin[a].left)
             target == Documents[engine.config].tcp[b]
             next == [admin[a] EXCEPT !.left = Tail(admin[a].left)]
  <2>2. admin[a].pc = "reloading" /\ admin[a].left # <<>> /\ target # "none"
    BY Zenon, <1>6, <2>1 DEF ReloadTcp, ControlInv
  <2>3. /\ admin' = [admin EXCEPT ![a] = next]
        /\ Reload(b, target, Documents[engine.config].policy)
        /\ UNCHANGED <<engine, acked, lock, members>>
    BY Zenon, <1>6, <2>1, <2>2 DEF ReloadTcp, transparentVars, requestVars
  <2>4. next \in AdminTask /\ next.pc = "reloading" /\ next.left = Tail(admin[a].left)
    BY Zenon, <2>1, <2>2 DEF AdminTask, Holding
  <2>5. admin'[a] = next
    BY Zenon, <2>3, <2>4, OtherTasks
  <2>6. Range(admin[a].left) = {b} \cup Range(Tail(admin[a].left))
    <3> DEFINE s == admin[a].left
    <3>1. s \in Seq(Listeners) /\ s # <<>>
      BY Zenon, <2>1, <2>2
    <3> HIDE DEF s
    <3>2. /\ Len(Tail(s)) = Len(s) - 1 /\ Tail(s) \in Seq(Listeners)
          /\ \A i \in 1 .. Len(Tail(s)) : Tail(s)[i] = s[i + 1]
      BY ONLY Zenon, <3>1, HeadAndTail
    <3>3. Head(s) = s[1] /\ Len(s) \in Nat \ {0} /\ DOMAIN s = 1 .. Len(s) /\ DOMAIN Tail(s) = 1 .. Len(Tail(s))
      BY <3>1, <3>2
    <3>4. ASSUME NEW i \in DOMAIN s PROVE s[i] \in {Head(s)} \cup Range(Tail(s))
      <4>1. CASE i = 1
        BY Zenon, <4>1, <3>3
      <4>2. CASE i # 1
        <5>1. i - 1 \in DOMAIN Tail(s) /\ s[i] = Tail(s)[i - 1]
          BY <4>2, <3>2, <3>3
        <5> QED
          BY Zenon, <5>1 DEF Range
      <4> QED
        BY Zenon, <4>1, <4>2
    <3>5. ASSUME NEW i \in DOMAIN Tail(s) PROVE Tail(s)[i] \in Range(s)
      <4>1. i + 1 \in DOMAIN s /\ Tail(s)[i] = s[i + 1]
        BY <3>2, <3>3
      <4> QED
        BY Zenon, <4>1 DEF Range
    <3>6. Head(s) \in Range(s)
      BY <3>3 DEF Range
    <3>7. Range(s) = {Head(s)} \cup Range(Tail(s))
      BY Zenon, <3>4, <3>5, <3>6 DEF Range
    <3> QED
      BY Zenon, <3>7 DEF s
  <2>7. route'[b].target = target /\ \A x \in Listeners \ {b} : route'[x] = route[x]
    BY Zenon, <2>1, <2>3 DEF Reload, TcpTypeOK, RouteState, ConnTask
  <2>8. /\ acked < engine.version
        /\ \A x \in Listeners : x \in Range(admin[a].left) \/ TargetsAreOf(x)
    BY Zenon, <2>2 DEF ControlInv, Progress
  <2>9. \A x \in Listeners : x \in Range(next.left) \/ TargetsAreOf(x)'
    BY Zenon, <2>3, <2>4, <2>6, <2>7, <2>8 DEF TargetsAreOf
  <2> HIDE DEF next, target, b
  <2>10. Progress(a)'
    BY Zenon, <2>3, <2>4, <2>5, <2>8, <2>9 DEF Progress
  <2>11. admin[a].pc \in Holding /\ next.pc \in Holding /\ lock' = a
    BY Zenon, <2>2, <2>3, <2>4, OneHolder DEF Holding
  <2>12. engine' \in Snapshot /\ acked' \in Nat /\ \A x \in Listeners : Documents[engine'.config].tcp[x] # "none"
    BY Zenon, <2>3 DEF ControlInv, ControlTypeOK
  <2> QED
    BY Zenon, <2>3, <2>4, <2>10, <2>11, <2>12, InsideTheLock
<1>7. ASSUME NEW a \in Admins, ReloadTransparent(a)
      PROVE  ControlInv'
  <2>1. admin[a] \in [pc : {"waiting"} \cup Holding, update : Snapshot, left : Seq(Listeners)]
    BY Zenon, <1>7, <1>t, TaskFields DEF ReloadTransparent, Holding
  <2> DEFINE next == [admin[a] EXCEPT !.pc = "replying"]
  <2>2. /\ admin[a].pc = "reloading" /\ admin[a].left = <<>>
        /\ admin' = [admin EXCEPT ![a] = next]
        /\ members' = Documents[engine.config].members
        /\ UNCHANGED <<engine, acked, lock, route>>
    BY Zenon, <1>7, <2>1 DEF ReloadTransparent, ReloadMembers, tcpVars, requestVars
  <2>3. next \in AdminTask /\ next.pc = "replying"
    BY Zenon, <2>1 DEF AdminTask, Holding
  <2> HIDE DEF next
  <2>4. admin'[a] = next
    BY Zenon, <2>2, <2>3, OtherTasks
  <2>5. Range(admin[a].left) = {}
    BY <2>2 DEF Range
  <2>6. acked < engine.version /\ \A x \in Listeners : TargetsAreOf(x)
    BY Zenon, <2>2, <2>5 DEF ControlInv, Progress
  <2>7. PlanesAgree'
    BY Zenon, <2>2, <2>6 DEF PlanesAgree, TargetsAreOf
  <2>8. Progress(a)'
    BY Zenon, <2>2, <2>3, <2>4, <2>6, <2>7 DEF Progress
  <2>9. admin[a].pc \in Holding /\ next.pc \in Holding /\ lock' = a
    BY Zenon, <2>2, <2>3, OneHolder DEF Holding
  <2>10. engine' \in Snapshot /\ acked' \in Nat /\ \A x \in Listeners : Documents[engine'.config].tcp[x] # "none"
    BY Zenon, <2>2 DEF ControlInv, ControlTypeOK
  <2> QED
    BY Zenon, <2>2, <2>3, <2>8, <2>9, <2>10, InsideTheLock
<1>8. ASSUME NEW a \in Admins, Acknowledge(a)
      PROVE  ControlInv'
  <2> DEFINE next == [pc |-> "done", status |-> "activated", left |-> <<>>]
  <2>1. next \in AdminTask /\ next.pc \notin Holding
    BY Zenon DEF AdminTask, Holding, Statuses
  <2>2. /\ admin' = [admin EXCEPT ![a] = next] /\ admin[a].pc = "replying"
        /\ acked' = engine.version /\ lock' = NoAdmin /\ UNCHANGED <<engine, members, route>>
    BY Zenon, <1>8 DEF Acknowledge, tcpVars, transparentVars
  <2> HIDE DEF next
  <2>3. PlanesAgree
    BY Zenon, <2>2 DEF ControlInv, Progress
  <2>4. acked' = engine'.version /\ PlanesAgree'
    BY Zenon, <2>2, <2>3 DEF PlanesAgree, TargetsAreOf
  <2>5. engine' \in Snapshot /\ acked' \in Nat /\ \A b \in Listeners : Documents[engine'.config].tcp[b] # "none"
    BY Zenon, <2>2 DEF ControlInv, ControlTypeOK, Snapshot
  <2>6. admin[a].pc \in Holding
    BY Zenon, <2>2 DEF Holding
  <2> QED
    BY Zenon, <2>1, <2>2, <2>4, <2>5, <2>6, InsideTheLock
<1> QED
  BY Zenon, <1>1, <1>2, <1>3, <1>4, <1>5, <1>6, <1>7, <1>8 DEF ControlStep, ApplyStep

-----------------------------------------------------------------------------
(* TCP connections.                                                         *)

LEMMA TcpInitInv ==
  ASSUME DataInit
  PROVE  TcpInv
<1>1. TcpTypeOK
  <2>1. \A b \in Listeners : Documents[FirstConfig].tcp[b] \in TcpTargets
    BY DataAssumption DEF TcpTargets
  <2> QED
    BY SMTT(30), <2>1 DEF DataInit, TcpInit, TcpTypeOK, RouteState, ConnTask, Listeners, NoSends, Policies
<1>2. \A b \in Listeners : Len(told[b]) = route[b].generation /\ route[b].waiting = {} /\ sends[b].left = {}
  BY Zenon DEF DataInit, TcpInit, Listeners, NoSends
<1>3. \A c \in Conns : ~Alive(c)
  BY Zenon DEF DataInit, TcpInit, Alive, Live
<1> QED
  BY Zenon, <1>1, <1>2, <1>3 DEF TcpInv

(* How a connection stands after it was accepted, after it moved on by      *)
(* itself, after others were accepted or told, after it was told itself,    *)
(* and after a reload.                                                      *)
LEMMA StandingNew ==
  ASSUME NEW c, NEW task, NEW at, NEW hand, NEW policies, at.generation \in Nat, c \in at.waiting,
         c \notin hand.left, task.pc = "connecting", task.target = at.target,
         task.since = at.generation, task.notice = "none"
  PROVE  Standing(c, task, at, hand, policies)
BY DEF Standing

LEMMA StandingMoved ==
  ASSUME NEW c, NEW task, NEW at, NEW hand, NEW policies, Standing(c, task, at, hand, policies),
         NEW now, now.since = task.since, now.target = task.target, now.notice = task.notice,
         now.pc = "draining" => task.notice = "drain", now.pc = "pinned" => task.notice = "pin"
  PROVE  Standing(c, now, at, hand, policies)
BY Zenon DEF Standing

LEMMA StandingBeside ==
  ASSUME NEW c, NEW task, NEW at, NEW hand, NEW policies, Standing(c, task, at, hand, policies),
         NEW then, then.generation = at.generation, then.target = at.target,
         c \in then.waiting <=> c \in at.waiting,
         NEW next, next.policy = hand.policy, c \in next.left <=> c \in hand.left
  PROVE  Standing(c, task, then, next, policies)
BY Zenon DEF Standing

LEMMA StandingTold ==
  ASSUME NEW c, NEW task, NEW at, NEW hand, NEW policies, Standing(c, task, at, hand, policies),
         c \in hand.left, task.since \in Nat, at.generation \in Nat,
         NEW now, now.since = task.since, now.target = task.target, now.pc = task.pc,
         now.notice = hand.policy,
         NEW next, c \notin next.left
  PROVE  Standing(c, now, at, next, policies)
<1>1. /\ task.since + 1 = at.generation /\ hand.policy = policies[task.since + 1]
      /\ task.notice \in {"none", hand.policy}
  BY Zenon DEF Standing
<1>2. task.since < at.generation
  BY <1>1
<1>3. c \notin at.waiting
  BY Zenon, <1>2 DEF Standing
<1>4. /\ task.pc = "draining" => hand.policy = "drain"
      /\ task.pc = "pinned" => hand.policy = "pin"
  BY Zenon, <1>1 DEF Standing
<1> QED
  BY Zenon, <1>1, <1>2, <1>3, <1>4 DEF Standing

LEMMA StandingReloaded ==
  ASSUME NEW c, NEW task, NEW at, NEW hand, NEW policies, Standing(c, task, at, hand, policies),
         task.since \in Nat, NEW g \in Nat, at.generation = g, hand.left = {},
         NEW then, then.generation = g + 1, then.waiting = {},
         NEW next, next.left = at.waiting,
         NEW all, \A i \in 1..g : all[i] = policies[i], all[g + 1] = next.policy
  PROVE  Standing(c, task, then, next, all)
<1>1. /\ task.pc = "draining" => task.notice = "drain"
      /\ task.pc = "pinned" => task.notice = "pin"
      /\ task.since <= g
  BY Zenon DEF Standing
<1>2. CASE task.since = g
  <2>1. c \in next.left /\ task.notice = "none"
    BY Zenon, <1>2 DEF Standing
  <2>2. task.since < g + 1 /\ task.since # g + 1
    BY <1>2
  <2> QED
    BY SMTT(30), <1>1, <1>2, <2>1, <2>2 DEF Standing
<1>3. CASE task.since < g
  <2>1. c \notin next.left /\ task.notice = policies[task.since + 1]
    BY Zenon, <1>3 DEF Standing
  <2>2. task.since + 1 \in 1..g /\ task.since < g + 1 /\ task.since # g + 1
    BY <1>3
  <2>3. task.notice = all[task.since + 1]
    BY Zenon, <2>1, <2>2
  <2> QED
    BY SMTT(30), <1>1, <2>1, <2>2, <2>3 DEF Standing
<1> QED
  BY SMTT(30), <1>1, <1>2, <1>3

(* A connection moves on by itself: only its own state changes, and not     *)
(* what it was accepted with or told.                                       *)
LEMMA ConnMoves ==
  ASSUME TcpInv, NEW c \in Conns, NEW pc \in Live \cup {"none", "ended"}, conn[c].pc # "none", pc # "none",
         conn' = [conn EXCEPT ![c].pc = pc],
         pc \in Live => Alive(c),
         pc = "draining" => conn[c].notice = "drain",
         pc = "pinned" => conn[c].notice = "pin",
         UNCHANGED <<route, sends, told>>
  PROVE  TcpInv'
<1>1. TcpTypeOK'
  <2>1. conn[c] \in ConnTask
    BY Zenon DEF TcpInv, TcpTypeOK, RouteState, ConnTask
  <2>2. [conn[c] EXCEPT !.pc = pc] \in ConnTask
    BY Zenon, <2>1 DEF ConnTask
  <2> QED
    BY Zenon, <2>2 DEF TcpInv, TcpTypeOK
<1>2. /\ conn'[c].pc = pc
      /\ \A x \in Conns \ {c} : conn'[x] = conn[x]
      /\ \A x \in Conns : /\ conn'[x].since = conn[x].since /\ conn'[x].target = conn[x].target
                         /\ conn'[x].notice = conn[x].notice
  BY DEF TcpInv, TcpTypeOK, RouteState, ConnTask
<1>3. \A b \in Listeners : \A x \in route[b].waiting \cup sends[b].left : x \in Conns
  BY Zenon DEF TcpInv, TcpTypeOK, RouteState, ConnTask
<1>4. \A x \in Conns : conn[x].pc # "none" => conn'[x].pc # "none"
  BY Zenon, <1>2
<1>5. \A x \in Conns : Alive(x)' => Registered(x)'
  <2>1. Alive(c)' => Registered(c)'
    <3>1. SUFFICES ASSUME Registered(c) PROVE Registered(c)'
      BY Zenon, <1>2 DEF Alive, TcpInv
    <3>2. /\ conn'[c].since = conn[c].since /\ conn'[c].target = conn[c].target
          /\ conn'[c].notice = conn[c].notice
          /\ conn'[c].pc = "draining" => conn[c].notice = "drain"
          /\ conn'[c].pc = "pinned" => conn[c].notice = "pin"
      BY Zenon, <1>2
    <3>3. UNCHANGED <<route, sends, told>>
      BY Zenon
    <3> QED
      BY Zenon, <3>1, <3>2, <3>3, StandingMoved DEF Registered
  <2>2. \A x \in Conns \ {c} : Alive(x)' => Registered(x)'
    BY Zenon, <1>2 DEF Alive, Registered, TcpInv
  <2> QED
    BY Zenon, <2>1, <2>2
<1> QED
  BY Zenon, <1>1, <1>3, <1>4, <1>5 DEF TcpInv

LEMMA TcpNext ==
  ASSUME TcpInv, TcpStep
  PROVE  TcpInv'
<1>t. TcpTypeOK
  BY Zenon DEF TcpInv
<1>b. \A c \in Conns : BindingOf[c] \in Listeners
  BY Zenon, DataAssumption DEF Listeners
<1>1. CASE UNCHANGED <<route, sends, conn, told>>
  <2>1. TcpTypeOK'
    BY Zenon, <1>1, <1>t DEF TcpTypeOK
  <2>2. \A c \in Conns : Alive(c)' => Registered(c)'
    BY Zenon, <1>1 DEF TcpInv, Registered, Alive
  <2> QED
    BY <1>1, <2>1, <2>2 DEF TcpInv
<1>2. ASSUME NEW c \in Conns, Accept(c)
      PROVE  TcpInv'
  <2> DEFINE d == BindingOf[c]
  <2>1. /\ conn[c].pc = "none"
        /\ conn' = [conn EXCEPT ![c] = [pc |-> "connecting", target |-> route[d].target,
                                        since |-> route[d].generation, notice |-> "none"]]
        /\ route' = [route EXCEPT ![d].waiting = {x \in route[d].waiting : Alive(x)} \cup {c}]
        /\ UNCHANGED <<sends, told>>
    BY Zenon, <1>2, <1>t, <1>b DEF Accept, TcpTypeOK, RouteState, ConnTask
  <2>2. TcpTypeOK'
    <3>1. [pc |-> "connecting", target |-> route[d].target,
           since |-> route[d].generation, notice |-> "none"] \in ConnTask
      BY Zenon, <1>t, <1>b DEF TcpTypeOK, RouteState, ConnTask, Live
    <3>2. [route[d] EXCEPT !.waiting = {x \in route[d].waiting : Alive(x)} \cup {c}] \in RouteState
      BY Zenon, <1>t, <1>b DEF TcpTypeOK, RouteState
    <3>3. conn' \in [Conns -> ConnTask]
      BY Zenon, <2>1, <3>1, <1>t DEF TcpTypeOK
    <3>4. route' \in [Listeners -> RouteState]
      BY Zenon, <2>1, <3>2, <1>t, <1>b DEF TcpTypeOK
    <3> QED
      BY Zenon, <2>1, <3>3, <3>4, <1>t DEF TcpTypeOK
  <2>3. /\ conn'[c].pc = "connecting" /\ conn'[c].target = route[d].target
        /\ conn'[c].since = route[d].generation /\ conn'[c].notice = "none"
        /\ \A x \in Conns \ {c} : conn'[x] = conn[x]
    BY Zenon, <2>1, <1>t DEF TcpTypeOK, RouteState, ConnTask
  <2>4. /\ \A b \in Listeners : /\ route'[b].target = route[b].target
                               /\ route'[b].generation = route[b].generation
        /\ \A b \in Listeners \ {d} : route'[b].waiting = route[b].waiting
        /\ route'[d].waiting = {x \in route[d].waiting : Alive(x)} \cup {c}
    BY <2>1, <1>t, <1>b DEF TcpTypeOK, RouteState, ConnTask
  <2>5. \A b \in Listeners : c \notin route[b].waiting \cup sends[b].left
    BY Zenon, <2>1 DEF TcpInv
  <2>6. \A b \in Listeners : \A x \in route'[b].waiting \cup sends'[b].left : BindingOf[x] = b /\ conn'[x].pc # "none"
    <3>1. \A b \in Listeners : \A x \in route[b].waiting \cup sends[b].left : x \in Conns /\ BindingOf[x] = b /\ conn[x].pc # "none"
      BY Zenon DEF TcpInv, TcpTypeOK, RouteState, ConnTask
    <3> QED
      BY <3>1, <2>1, <2>3, <2>4
  <2>7. Registered(c)'
    <3>1. /\ route'[d].generation \in Nat /\ c \in route'[d].waiting /\ c \notin sends'[d].left
          /\ conn'[c].target = route'[d].target /\ conn'[c].since = route'[d].generation
      BY <2>1, <2>3, <2>4, <2>5, <1>b, <1>t DEF TcpTypeOK, RouteState
    <3> QED
      BY Zenon, <2>3, <3>1, StandingNew DEF Registered
  <2>8. ASSUME NEW x \in Conns \ {c}, Alive(x)' PROVE Registered(x)'
    <3>1. Alive(x) /\ Registered(x) /\ BindingOf[x] \in Listeners
      BY Zenon, <2>3, <2>8, <1>b DEF Alive, TcpInv
    <3> DEFINE y == BindingOf[x]
    <3>2. /\ x \in route'[y].waiting <=> x \in route[y].waiting
          /\ route'[y].generation = route[y].generation /\ route'[y].target = route[y].target
      BY Zenon, <3>1, <2>4
    <3>3. conn'[x] = conn[x] /\ sends'[y] = sends[y] /\ told'[y] = told[y]
      BY Zenon, <2>1, <2>3
    <3> QED
      BY Zenon, <3>1, <3>2, <3>3, StandingBeside DEF Registered
  <2>9. \A b \in Listeners : Len(told'[b]) = route'[b].generation
    BY Zenon, <2>1, <2>4 DEF TcpInv
  <2> QED
    BY Zenon, <2>2, <2>6, <2>7, <2>8, <2>9 DEF TcpInv
<1>3. ASSUME NEW c \in Conns, Connect(c) \/ Finishes(c) \/ Transition(c) \/ DrainTimeout(c)
      PROVE  TcpInv'
  <2>1. Alive(c)
    BY Zenon, <1>3 DEF Connect, Finishes, Transition, DrainTimeout, Alive, Live
  <2>2. ASSUME NEW errors, Ends(c, errors) PROVE TcpInv'
    <3>1. conn' = [conn EXCEPT ![c].pc = "ended"] /\ UNCHANGED <<route, sends, told>>
      BY Zenon, <2>2 DEF Ends
    <3>2. conn[c].pc # "none" /\ "ended" \notin Live
      BY Zenon, <2>1 DEF Alive, Live
    <3> QED
      BY Zenon, <3>1, <3>2, ConnMoves
  <2>3. ASSUME NEW pc \in Live, Goes(c, pc), pc = "draining" => conn[c].notice = "drain",
               pc = "pinned" => conn[c].notice = "pin"
        PROVE  TcpInv'
    <3>1. conn' = [conn EXCEPT ![c].pc = pc] /\ UNCHANGED <<route, sends, told>>
      BY Zenon, <2>3 DEF Goes
    <3>2. conn[c].pc # "none" /\ pc # "none"
      BY Zenon, <2>1, <2>3 DEF Alive, Live
    <3> QED
      BY Zenon, <2>1, <2>3, <3>1, <3>2, ConnMoves
  <2>4. CASE Connect(c)
    BY Zenon, <2>2, <2>3, <2>4 DEF Connect, Live
  <2>5. CASE Finishes(c) \/ DrainTimeout(c)
    BY Zenon, <2>2, <2>5 DEF Finishes, DrainTimeout
  <2>6. CASE Transition(c)
    <3>1. conn[c].notice \in Policies
      BY Zenon, <2>6, <1>t DEF Transition, TcpTypeOK, RouteState, ConnTask
    <3>2. \/ Ends(c, 0)
          \/ Goes(c, "draining") /\ conn[c].notice = "drain"
          \/ Goes(c, "pinned") /\ conn[c].notice = "pin"
      BY Zenon, <2>6, <3>1 DEF Transition, Policies
    <3> QED
      BY Zenon, <3>2, <2>2, <2>3 DEF Live
  <2> QED
    BY Zenon, <1>3, <2>4, <2>5, <2>6
<1>4. ASSUME NEW cut \in SUBSET Conns, CutShort(cut)
      PROVE  TcpInv'
  <2>1. TcpTypeOK'
    <3>1. \A x \in Conns : [conn[x] EXCEPT !.pc = "ended"] \in ConnTask
      BY Zenon, <1>t, TasksEnd DEF TcpTypeOK
    <3> QED
      BY Zenon, <1>4, <3>1, <1>t DEF CutShort, TcpTypeOK
  <2>2. /\ \A x \in cut : conn'[x].pc = "ended"
        /\ \A x \in Conns \ cut : conn'[x] = conn[x]
    BY <1>4, <1>t DEF CutShort, TcpTypeOK, RouteState, ConnTask
  <2>3. UNCHANGED <<route, sends, told>>
    BY Zenon, <1>4 DEF CutShort
  <2>4. \A b \in Listeners : \A x \in route[b].waiting \cup sends[b].left : x \in Conns
    BY Zenon, <1>t DEF TcpTypeOK, RouteState, ConnTask
  <2>5. \A x \in Conns : conn[x].pc # "none" => conn'[x].pc # "none"
    BY Zenon, <2>2
  <2>6. \A x \in cut : ~Alive(x)'
    BY Zenon, <2>2 DEF Alive, Live
  <2>7. \A x \in Conns \ cut : Alive(x)' => Registered(x)'
    BY Zenon, <2>2, <2>3 DEF Alive, Registered, TcpInv
  <2> QED
    BY Zenon, <2>1, <2>3, <2>4, <2>5, <2>6, <2>7 DEF TcpInv
<1>5. ASSUME NEW b \in Listeners, SendTransition(b)
      PROVE  TcpInv'
  <2>1. PICK c \in sends[b].left :
          /\ conn' = IF Alive(c) THEN [conn EXCEPT ![c].notice = sends[b].policy] ELSE conn
          /\ sends' = [sends EXCEPT ![b].left = sends[b].left \ {c}]
          /\ UNCHANGED <<route, told>>
    BY Zenon, <1>5, <1>t DEF SendTransition, TcpTypeOK
  <2>2. c \in Conns /\ BindingOf[c] = b /\ sends[b].policy \in Policies
    BY Zenon, <1>t DEF TcpTypeOK, TcpInv
  <2>3. /\ \A x \in Conns \ {c} : conn'[x] = conn[x]
        /\ conn'[c].pc = conn[c].pc /\ conn'[c].since = conn[c].since /\ conn'[c].target = conn[c].target
        /\ Alive(c) => conn'[c].notice = sends[b].policy
    BY Zenon, <2>1, <2>2, <1>t DEF TcpTypeOK, ConnTask
  <2>4. /\ \A d \in Listeners : sends'[d].policy = sends[d].policy
        /\ \A d \in Listeners \ {b} : sends'[d].left = sends[d].left
        /\ sends'[b].left = sends[b].left \ {c}
    BY Zenon, <2>1, <1>t DEF TcpTypeOK
  <2>5. TcpTypeOK'
    <3>1. [conn[c] EXCEPT !.notice = sends[b].policy] \in ConnTask
      BY Zenon, <2>2, <1>t DEF TcpTypeOK, ConnTask
    <3>2. conn' \in [Conns -> ConnTask]
      BY Zenon, <2>1, <2>2, <3>1, <1>t DEF TcpTypeOK
    <3>3. sends' \in [Listeners -> [policy : Policies, left : SUBSET Conns]]
      BY Zenon, <2>1, <1>t DEF TcpTypeOK
    <3> QED
      BY Zenon, <2>1, <3>2, <3>3, <1>t DEF TcpTypeOK
  <2>6. \A d \in Listeners : \A x \in route'[d].waiting \cup sends'[d].left : BindingOf[x] = d /\ conn'[x].pc # "none"
    <3>1. \A d \in Listeners : \A x \in route[d].waiting \cup sends[d].left : x \in Conns /\ BindingOf[x] = d /\ conn[x].pc # "none"
      BY Zenon DEF TcpInv, TcpTypeOK, RouteState
    <3> QED
      BY <3>1, <2>1, <2>3, <2>4
  <2>7. Alive(c)' => Registered(c)'
    <3>1. SUFFICES ASSUME Alive(c), Registered(c) PROVE Registered(c)'
      BY Zenon, <2>2, <2>3 DEF Alive, TcpInv
    <3>2. /\ c \in sends[b].left /\ c \notin sends'[b].left
          /\ conn[c].since \in Nat /\ route[b].generation \in Nat
          /\ conn'[c].notice = sends[b].policy /\ route'[b] = route[b] /\ told'[b] = told[b]
      BY Zenon, <3>1, <2>1, <2>2, <2>3, <2>4, <1>t DEF TcpTypeOK, RouteState, ConnTask
    <3>3. Standing(c, conn[c], route[b], sends[b], told[b])
      BY Zenon, <3>1, <2>2 DEF Registered
    <3>4. /\ conn'[c].since = conn[c].since /\ conn'[c].target = conn[c].target
          /\ conn'[c].pc = conn[c].pc
      BY Zenon, <2>3
    <3>5. Standing(c, conn'[c], route[b], sends'[b], told[b])
      BY ONLY Zenon, <3>2, <3>3, <3>4, StandingTold
    <3> QED
      BY Zenon, <3>2, <3>5, <2>2 DEF Registered
  <2>8. ASSUME NEW x \in Conns \ {c}, Alive(x)' PROVE Registered(x)'
    <3>1. Alive(x) /\ Registered(x) /\ BindingOf[x] \in Listeners
      BY Zenon, <2>3, <2>8, <1>b DEF Alive, TcpInv
    <3> DEFINE y == BindingOf[x]
    <3>2. (x \in sends'[y].left <=> x \in sends[y].left) /\ sends'[y].policy = sends[y].policy
      BY Zenon, <3>1, <2>4
    <3>3. conn'[x] = conn[x] /\ route'[y] = route[y] /\ told'[y] = told[y]
      BY Zenon, <2>1, <2>3
    <3> QED
      BY Zenon, <3>1, <3>2, <3>3, StandingBeside DEF Registered
  <2> QED
    BY Zenon, <2>1, <2>5, <2>6, <2>7, <2>8 DEF TcpInv
<1>6. ASSUME AllTold, NEW b \in Listeners, NEW config \in DOMAIN Documents,
             Reload(b, Documents[config].tcp[b], Documents[config].policy)
      PROVE  TcpInv'
  <2> DEFINE target == Documents[config].tcp[b]
             policy == Documents[config].policy
  <2>1. target \in TcpTargets /\ policy \in Policies
    BY DataAssumption DEF TcpTargets, Policies
  <2>2. /\ route' = [route EXCEPT ![b] = [target |-> target, waiting |-> {},
                                          generation |-> route[b].generation + 1]]
        /\ sends' = [sends EXCEPT ![b] = [policy |-> policy, left |-> route[b].waiting]]
        /\ told' = [told EXCEPT ![b] = Append(told[b], policy)]
    BY Zenon, <1>6, <1>t DEF Reload, TcpTypeOK
  <2>c. conn' = conn
    BY Zenon, <1>6 DEF Reload
  <2> HIDE DEF target, policy
  <2>3. /\ \A d \in Listeners \ {b} : route'[d] = route[d] /\ sends'[d] = sends[d] /\ told'[d] = told[d]
        /\ route'[b].target = target /\ route'[b].waiting = {} /\ route'[b].generation = route[b].generation + 1
        /\ sends'[b].policy = policy /\ sends'[b].left = route[b].waiting
    BY Zenon, <2>2, <1>t DEF TcpTypeOK
  <2>4. /\ told[b] \in Seq(Policies) /\ Len(told[b]) = route[b].generation
        /\ route[b].generation \in Nat /\ route[b].waiting \subseteq Conns
    BY Zenon, <1>t DEF TcpInv, TcpTypeOK, RouteState
  <2>5. /\ told'[b] \in Seq(Policies) /\ Len(told'[b]) = route[b].generation + 1
        /\ \A i \in 1 .. route[b].generation : told'[b][i] = told[b][i]
        /\ told'[b][route[b].generation + 1] = policy
    <3>1. told'[b] = Append(told[b], policy)
      BY Zenon, <2>2, <1>t DEF TcpTypeOK
    <3>2. /\ Append(told[b], policy) \in Seq(Policies)
          /\ Len(Append(told[b], policy)) = Len(told[b]) + 1
          /\ \A i \in 1..Len(told[b]) : Append(told[b], policy)[i] = told[b][i]
          /\ Append(told[b], policy)[Len(told[b]) + 1] = policy
      BY ONLY <2>1, <2>4, Appended
    <3> QED
      BY ONLY Zenon, <2>4, <3>1, <3>2
  <2>6. TcpTypeOK'
    <3> DEFINE g == route[b].generation + 1
               r == [target |-> target, waiting |-> {}, generation |-> g]
               s == [policy |-> policy, left |-> route[b].waiting]
    <3>0. g \in Nat
      BY <2>4
    <3>1. r \in RouteState /\ s \in [policy : Policies, left : SUBSET Conns]
      <4> HIDE DEF g
      <4> QED
        BY Zenon, <2>1, <2>4, <3>0 DEF RouteState
    <3>a. route' = [route EXCEPT ![b] = r] /\ sends' = [sends EXCEPT ![b] = s]
      BY Zenon, <2>2
    <3> HIDE DEF r, s
    <3>2. route' \in [Listeners -> RouteState]
      BY Zenon, <3>1, <3>a, <1>t DEF TcpTypeOK
    <3>3. sends' \in [Listeners -> [policy : Policies, left : SUBSET Conns]]
      BY Zenon, <3>1, <3>a, <1>t DEF TcpTypeOK
    <3>4. told' \in [Listeners -> Seq(Policies)]
      <4>1. told' = [x \in Listeners |-> told'[x]]
        BY Zenon, <2>2, <1>t DEF TcpTypeOK
      <4>2. \A x \in Listeners : told'[x] \in Seq(Policies)
        BY Zenon, <2>3, <2>5, <1>t DEF TcpTypeOK
      <4> QED
        BY Zenon, <4>1, <4>2
    <3> QED
      BY Zenon, <2>c, <3>2, <3>3, <3>4, <1>t DEF TcpTypeOK
  <2>7. \A d \in Listeners : \A x \in route'[d].waiting \cup sends'[d].left : BindingOf[x] = d /\ conn'[x].pc # "none"
    BY SMTT(30), <2>c, <2>3 DEF TcpInv
  <2>8. \A d \in Listeners : Len(told'[d]) = route'[d].generation
    <3>1. \A d \in Listeners \ {b} : told'[d] = told[d] /\ route'[d].generation = route[d].generation
      BY Zenon, <2>3
    <3>2. Len(told'[b]) = route'[b].generation
      BY Zenon, <2>3, <2>5
    <3> QED
      BY Zenon, <3>1, <3>2 DEF TcpInv
  <2>9. ASSUME NEW c \in Conns, Alive(c)' PROVE Registered(c)'
    <3>1. Alive(c) /\ Registered(c) /\ BindingOf[c] \in Listeners
      BY Zenon, <2>c, <2>9, <1>b DEF Alive, TcpInv
    <3>2. CASE BindingOf[c] # b
      <4> DEFINE d == BindingOf[c]
      <4>1. route'[d] = route[d] /\ sends'[d] = sends[d] /\ told'[d] = told[d] /\ conn'[c] = conn[c]
        BY Zenon, <3>1, <3>2, <2>c, <2>3
      <4> QED
        BY Zenon, <3>1, <4>1 DEF Registered
    <3>3. CASE BindingOf[c] = b
      <4> DEFINE g == route[b].generation
      <4>1. sends[b].left = {} /\ conn[c].since \in Nat /\ g \in Nat
        BY Zenon, <1>6, <1>t, <2>4 DEF AllTold, Told, TcpTypeOK, ConnTask
      <4>2. /\ route'[b].generation = g + 1 /\ route'[b].waiting = {}
            /\ sends'[b].left = route[b].waiting
            /\ \A i \in 1..g : told'[b][i] = told[b][i]
            /\ told'[b][g + 1] = sends'[b].policy
        BY Zenon, <2>3, <2>5
      <4> HIDE DEF g
      <4>3. route[b].generation = g
        BY Zenon DEF g
      <4> QED
        BY SMTT(30), <2>c, <3>1, <3>3, <4>1, <4>2, <4>3, StandingReloaded DEF Registered
    <3> QED
      BY Zenon, <3>2, <3>3
  <2> QED
    BY Zenon, <2>6, <2>7, <2>8, <2>9 DEF TcpInv
<1> QED
  BY Zenon, <1>1, <1>2, <1>3, <1>4, <1>5, <1>6 DEF TcpStep, ConnStep

-----------------------------------------------------------------------------
(* The process.                                                             *)

DataInv == ControlInv /\ TcpInv /\ TransparentInv /\ RequestInv

(* Whatever steps the process takes, every plane keeps its invariant: one   *)
(* task at most is past apply_lock (execute in apmpr-router/src/lib.rs),    *)
(* and connections, redirected connections and requests are where the       *)
(* listeners, the reloads and the snapshots think they are.                 *)
THEOREM DataInvariance == DataSpec => []DataInv
<1>1. DataInit => DataInv
  BY Zenon, ControlInitInv, TcpInitInv, TransparentInitInv, RequestInitInv DEF DataInv
<1>2. DataInv /\ [DataNext]_dataVars => DataInv'
  <2> SUFFICES ASSUME DataInv, [DataNext]_dataVars PROVE DataInv'
    BY Zenon
  <2>1. ControlTypeOK /\ TcpTypeOK /\ ControlInv /\ TcpInv /\ TransparentInv /\ RequestInv
    BY Zenon DEF DataInv, ControlInv, TcpInv
  <2>2. ControlStep /\ TcpStep /\ TransparentStep /\ RequestStep
    BY Zenon, <2>1, ControlView, TcpView, TransparentView, RequestView
  <2> QED
    BY Zenon, <2>1, <2>2, ControlNext, TcpNext, TransparentNext, RequestNext DEF DataInv
<1> QED
  BY <1>1, <1>2, PTL DEF DataSpec

(* An apply that was acknowledged is what every plane serves, however the   *)
(* applies race and whatever the traffic does meanwhile; in particular the  *)
(* reload loop never ends half-way with "tcp_reload_failed".                *)
THEOREM AcknowledgedServed == DataSpec => []AcknowledgedIsServed
<1>1. DataInv => AcknowledgedIsServed
  <2> SUFFICES ASSUME ControlInv PROVE AcknowledgedIsServed
    BY Zenon DEF DataInv
  <2>1. acked \in Nat /\ engine.version \in Nat
    BY Zenon DEF ControlInv, ControlTypeOK, Snapshot
  <2>2. CASE lock = NoAdmin
    BY SMTT(30), <2>1, <2>2 DEF ControlInv, PlanesAgree, TargetsAreOf, AcknowledgedIsServed, Listeners
  <2>3. CASE lock # NoAdmin
    <3>1. lock \in Admins /\ admin[lock].pc \in Holding /\ Progress(lock)
      BY Zenon, <2>3 DEF ControlInv, ControlTypeOK
    <3>2. (acked = engine.version /\ PlanesAgree) \/ acked < engine.version
      BY Zenon, <3>1 DEF Progress, Holding
    <3> QED
      BY <2>1, <2>3, <3>2 DEF PlanesAgree, TargetsAreOf, AcknowledgedIsServed, Listeners
  <2> QED
    BY Zenon, <2>2, <2>3
<1> QED
  BY <1>1, DataInvariance, PTL

(* A connection to a replaced target is told of the first reload after it   *)
(* was accepted, and of no other, for any number of listeners, connections  *)
(* and reloads (TcpProxy::reload against run_listener).                     *)
THEOREM OlderConnectionsTold == DataSpec => []OlderConnectionsAreTold
<1>1. DataInv => OlderConnectionsAreTold
  <2> SUFFICES ASSUME DataInv, NEW c \in Conns, Alive(c)
               PROVE  /\ conn[c].since = route[BindingOf[c]].generation =>
                           conn[c].target = route[BindingOf[c]].target /\ conn[c].notice = "none"
                      /\ conn[c].since < route[BindingOf[c]].generation =>
                           \/ conn[c].notice = told[BindingOf[c]][conn[c].since + 1]
                           \/ c \in sends[BindingOf[c]].left
                      /\ conn[c].pc = "draining" => conn[c].notice = "drain"
                      /\ conn[c].pc = "pinned" => conn[c].notice = "pin"
    BY Zenon DEF OlderConnectionsAreTold
  <2>1. Registered(c)
    BY Zenon DEF DataInv, TcpInv
  <2> QED
    BY Zenon, <2>1 DEF Registered, Standing
<1> QED
  BY <1>1, DataInvariance, PTL

(* A redirected connection reaches the first member that listened all the   *)
(* while, or one before it, for any group and any order of the checks that  *)
(* run concurrently (forward_transparent).                                  *)
THEOREM FirstListenerIsReached == DataSpec => []FirstListenerServes
<1>1. DataInv => FirstListenerServes
  BY Zenon DEF DataInv, TransparentInv, Serves, Sure, FirstListenerServes
<1> QED
  BY <1>1, DataInvariance, PTL

(* A request is served by one snapshot, not older than what was             *)
(* acknowledged before it came, for any configurations and any requests.    *)
THEOREM RequestsPinned == DataSpec => []RequestsPinTheirSnapshot
<1>1. DataInv => RequestsPinTheirSnapshot
  <2> SUFFICES ASSUME RequestInv, NEW r \in Reqs, Started(r)
               PROVE  /\ req[r].snapshot.version >= req[r].since
                      /\ req[r].contacted \in {"none", Target(req[r].snapshot.config, req[r].kind)}
                      /\ req[r].allow = "upstream" => ~req[r].kind.browser
                      /\ req[r].allow \notin {"none", "upstream"} =>
                           req[r].allow \in Documents[req[r].snapshot.config].origins[req[r].kind.slot]
    BY Zenon DEF DataInv, RequestsPinTheirSnapshot
  <2>1. req[r] \in Request /\ Pinned(req[r])
    BY SMTT(30) DEF RequestInv, Started, NoRequest
  <2>2. /\ req[r].snapshot.config \in DOMAIN Documents /\ req[r].kind \in Kinds
        /\ req[r].snapshot.version \in Nat /\ req[r].since \in Nat
    BY Zenon, <2>1 DEF Request, Snapshot
  <2>3. /\ CorsOrigin(req[r].snapshot.config, req[r].kind) # "upstream"
        /\ CorsOrigin(req[r].snapshot.config, req[r].kind) # "none" =>
             CorsOrigin(req[r].snapshot.config, req[r].kind)
               \in Documents[req[r].snapshot.config].origins[req[r].kind.slot]
    BY Zenon, <2>2, LookupTypes
  <2> QED
    BY Zenon, <2>1, <2>2, <2>3 DEF Pinned
<1> QED
  BY <1>1, DataInvariance, PTL
=============================================================================

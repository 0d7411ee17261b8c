------------------------------ MODULE DataPlane ------------------------------
(***************************************************************************)
(* A running router (RouterProcess in crates/apmpr-router/src/lib.rs): its *)
(* administration requests, and the data planes that they reload -- HTTP   *)
(* listeners and managed proxies that look a snapshot up for each request, *)
(* raw TCP listeners, and the transparent listener.                        *)
(*                                                                         *)
(* Administration requests are tasks of their own.  An apply keeps         *)
(* apply_lock over the readiness probes, which it awaits, and then swaps   *)
(* the snapshot and reloads one plane after the other, while connections   *)
(* and requests go on.  The two transparent listeners (IPv4 and IPv6) have *)
(* the same members; one is modelled.  An error of accept ends a raw TCP   *)
(* listener (AcceptFails); the one that ends a transparent listener or a   *)
(* managed proxy with its connections is left out, for after it there is   *)
(* only less traffic.                                                      *)
(***************************************************************************)
EXTENDS TcpTransitions, TransparentForward, GatewayRequests

CONSTANTS
  Admins,      \* tasks that serve an administration connection
  Updates,     \* the snapshots that are applied: [version, config]
  FirstConfig, \* the configuration the process was started with
  NoAdmin      \* apply_lock is free

(* A configuration that the process is started with or that is brought to   *)
(* it is one of the Documents; versions are numbers; the listeners are a    *)
(* list, and every connection comes to one of them.                         *)
ASSUME DataAssumption ==
  /\ NoAdmin \notin Admins
  /\ Bindings \in Seq(Range(Bindings))
  /\ BindingOf \in [Conns -> Range(Bindings)]
  /\ FirstConfig \in DOMAIN Documents
  /\ Updates \subseteq [version : Nat, config : DOMAIN Documents]
  /\ \A b \in Range(Bindings) : Documents[FirstConfig].tcp[b] # "none"
  /\ \A config \in DOMAIN Documents :
       /\ Documents[config].policy \in {"close", "drain", "pin"}
       /\ Documents[config].members \in Seq([host : Hosts, declared : {"yes", "no", "none"}])

VARIABLES
  admin,       \* each administration task: where it is, its candidate, its answer
  lock,        \* apply_lock
  proc,        \* where RouterProcess::wait is: the planes still to be stopped
  shutdown     \* the process's shutdown watch

controlVars == <<admin, lock, proc, shutdown>>
dataVars == <<tcpVars, transparentVars, requestVars, controlVars>>

(* The planes in the order in which wait stops them.                        *)
StopOrder ==
  [k \in DOMAIN Bindings |-> <<"tcp", Bindings[k]>>]
    \o <<<<"transparent", "">>, <<"forward", "">>, <<"http", "">>, <<"admin", "">>>>

DataInit ==
  /\ engine = [version |-> 1, config |-> FirstConfig] /\ acked = 1
  /\ TcpInit(Documents[FirstConfig].tcp)
  /\ TransparentInit(Documents[FirstConfig].members)
  /\ RequestInit
  /\ admin = [a \in Admins |-> [pc |-> "none", left |-> <<>>]]
  /\ lock = NoAdmin
  /\ proc = [stage |-> "serving", left |-> StopOrder]
  /\ shutdown = FALSE

Gone == proc.stage \in {"exited", "failed"}
Serving == ~Gone

-----------------------------------------------------------------------------
(* serve_connection and execute.                                            *)

Task(a, next) ==
  /\ admin' = [admin EXCEPT ![a] = next]
  /\ UNCHANGED <<tcpVars, transparentVars, requestVars>>

(* run_admin stops accepting when shutdown is requested.                    *)
Arrive(a, update) ==
  /\ Serving /\ ~shutdown /\ admin[a].pc = "none"
  /\ Task(a, [pc |-> "waiting", update |-> update, left |-> <<>>])
  /\ UNCHANGED <<lock, proc, shutdown>>

Answer(a, status) ==
  /\ Task(a, [pc |-> "done", status |-> status, left |-> <<>>])
  /\ UNCHANGED <<proc, shutdown>>

(* Mutant: the routes of the TCP listeners are not looked up beforehand.    *)
SameTopology(config) == Documents[config].topology = Documents[FirstConfig].topology

(* validate_candidate: the listeners, the identity policy and the           *)
(* transparent topology are those the process was started with, and every   *)
(* TCP listener has a target.                                               *)
ValidCandidate(config) ==
  /\ Documents[config].topology = Documents[FirstConfig].topology
  /\ \A b \in Range(Bindings) : Documents[config].tcp[b] # "none"

(* The lock is taken and the candidate validated; only a newer one is       *)
(* probed, and RouteEngine::apply refuses the others as stale.              *)
LockAndValidate(a) ==
  LET update == admin[a].update
  IN  /\ Serving /\ admin[a].pc = "waiting" /\ lock = NoAdmin
      /\ IF ~ValidCandidate(update.config) THEN Answer(a, "rejected") /\ UNCHANGED lock
         ELSE IF update.version <= engine.version THEN Answer(a, "rejected_stale") /\ UNCHANGED lock
         ELSE /\ lock' = a
              /\ Task(a, [admin[a] EXCEPT !.pc = "probing"])
              /\ UNCHANGED <<proc, shutdown>>

RolledBack(a) ==
  /\ Serving /\ admin[a].pc = "probing" /\ Documents[admin[a].update.config].health # "up"
  /\ lock' = NoAdmin
  /\ Answer(a, "rolled_back")

(* RouteEngine::apply: requests see the new snapshot from here on.          *)
Activate(a) ==
  /\ Serving /\ admin[a].pc = "probing" /\ Documents[admin[a].update.config].health # "down"
  /\ engine' = admin[a].update
  /\ admin' = [admin EXCEPT ![a].pc = "reloading", ![a].left = Bindings]
  /\ UNCHANGED <<acked, req, telemetry, tcpVars, transparentVars, lock, proc, shutdown>>

(* The loop over the TCP listeners, with the target and the transition      *)
(* policy of the new snapshot; without a target the apply is answered with  *)
(* an error, the snapshot being active already.                             *)
ReloadTcp(a) ==
  LET b == Head(admin[a].left)
      target == Documents[engine.config].tcp[b]
  IN  /\ Serving /\ admin[a].pc = "reloading" /\ admin[a].left # <<>>
      /\ \A x \in Range(Bindings) : Told(x)
      /\ IF target = "none"
         THEN lock' = NoAdmin /\ Answer(a, "tcp_reload_failed")
         ELSE /\ Reload(b, target, Documents[engine.config].policy)
              /\ admin' = [admin EXCEPT ![a].left = Tail(@)]
              /\ UNCHANGED <<transparentVars, requestVars, lock, proc, shutdown>>

TellConnection(b) ==
  /\ Serving /\ SendTransition(b)
  /\ UNCHANGED <<transparentVars, requestVars, controlVars>>

ReloadTransparent(a) ==
  /\ Serving /\ admin[a].pc = "reloading" /\ admin[a].left = <<>>
  /\ \A x \in Range(Bindings) : Told(x)
  /\ ReloadMembers(Documents[engine.config].members)
  /\ admin' = [admin EXCEPT ![a].pc = "replying"]
  /\ UNCHANGED <<tcpVars, requestVars, lock, proc, shutdown>>

Acknowledge(a) ==
  /\ Serving /\ admin[a].pc = "replying"
  /\ acked' = engine.version
  /\ lock' = NoAdmin
  /\ admin' = [admin EXCEPT ![a] = [pc |-> "done", status |-> "activated", left |-> <<>>]]
  /\ UNCHANGED <<engine, req, telemetry, tcpVars, transparentVars, proc, shutdown>>

ApplyStep(a) ==
  \/ LockAndValidate(a) \/ RolledBack(a) \/ Activate(a)
  \/ ReloadTcp(a) \/ ReloadTransparent(a) \/ Acknowledge(a)

-----------------------------------------------------------------------------
(* A signal, or the drain command after its reply.                          *)
RequestShutdown ==
  /\ Serving /\ ~shutdown
  /\ shutdown' = TRUE
  /\ UNCHANGED <<tcpVars, transparentVars, requestVars, admin, lock, proc>>

(* Managed proxies watch the process's own flag, whatever wait is at.       *)
ForwardStops ==
  /\ shutdown /\ Serving
  /\ \E r \in Reqs : Started(r) /\ ~Over(r) /\ req[r].kind.family = "forward"
  /\ CutRequests("forward")
  /\ UNCHANGED <<tcpVars, transparentVars, controlVars>>

Stage(kind) ==
  /\ shutdown /\ proc.stage = "serving" /\ proc.left # <<>> /\ Head(proc.left)[1] = kind
NextStage == proc' = [stage |-> IF Len(proc.left) = 1 THEN "exited" ELSE "serving",
                      left |-> Tail(proc.left)]

(* wait: shutdown of one TCP listener after the other.                      *)
StopTcp ==
  /\ Stage("tcp") /\ Head(proc.left)[2] \notin stopping
  /\ BeginStop(Head(proc.left)[2])
  /\ UNCHANGED <<transparentVars, requestVars, controlVars>>

TcpTimeout ==
  /\ Stage("tcp") /\ AbortListener(Head(proc.left)[2])
  /\ UNCHANGED <<transparentVars, requestVars, controlVars>>

(* A listener that failed earlier makes wait return its error: the other    *)
(* planes end with the process, and the administration socket stays.        *)
TcpJoined ==
  /\ Stage("tcp") /\ Head(proc.left)[2] \in stopping
  /\ CASE listener[Head(proc.left)[2]] = "ended" -> NextStage
       [] listener[Head(proc.left)[2]] = "failed" -> proc' = [proc EXCEPT !.stage = "failed"]
       [] OTHER -> FALSE
  /\ UNCHANGED <<tcpVars, transparentVars, requestVars, admin, lock, shutdown>>

StopTransparent ==
  /\ Stage("transparent")
  /\ AbortFlows /\ NextStage
  /\ UNCHANGED <<tcpVars, requestVars, admin, lock, shutdown>>

StopForward ==
  /\ Stage("forward") /\ CutRequests("forward") /\ NextStage
  /\ UNCHANGED <<tcpVars, transparentVars, admin, lock, shutdown>>

(* FastShutdown of Pingora.                                                 *)
StopHttp ==
  /\ Stage("http") /\ CutRequests("http") /\ NextStage
  /\ UNCHANGED <<tcpVars, transparentVars, admin, lock, shutdown>>

(* The accept loop of the socket has ended by itself; the file is removed.  *)
StopAdmin ==
  /\ Stage("admin") /\ NextStage
  /\ UNCHANGED <<tcpVars, transparentVars, requestVars, admin, lock, shutdown>>

WaitStep == StopTcp \/ TcpTimeout \/ TcpJoined \/ StopTransparent \/ StopForward
              \/ StopHttp \/ StopAdmin

-----------------------------------------------------------------------------
TcpTraffic ==
  /\ Serving
  /\ (\E c \in Conns : ConnStep(c)) \/ (\E b \in Range(Bindings) : ListenerStep(b))
  /\ UNCHANGED <<transparentVars, requestVars, controlVars>>

TransparentOpen == <<"transparent", "">> \in Range(proc.left)
HttpOpen == <<"http", "">> \in Range(proc.left)

TransparentTraffic ==
  /\ Serving
  /\ \/ /\ TransparentOpen
        /\ \E f \in Flows, from \in {"loopback", "bridge", "registry"} : AcceptFlow(f, from)
     \/ \E f \in Flows : FlowStep(f)
     \/ \E h \in Hosts : HostChanges(h)
  /\ UNCHANGED <<tcpVars, requestVars, controlVars>>

RequestTraffic ==
  /\ Serving
  /\ \/ HttpOpen /\ \E r \in Reqs, kind \in Kinds : RejectEarly(r, kind) \/ Route(r, kind)
     \/ ~shutdown /\ \E r \in Reqs, kind \in Kinds : ParseProxied(r, kind)
     \/ \E r \in {x \in Reqs : Started(x)} : HttpStep(r) \/ ForwardStep(r)
  /\ UNCHANGED <<tcpVars, transparentVars, controlVars>>

Control ==
  \/ \E a \in Admins : (\E update \in Updates : Arrive(a, update)) \/ ApplyStep(a)
  \/ \E b \in Range(Bindings) : TellConnection(b)

DataNext ==
  \/ Control \/ RequestShutdown \/ ForwardStops \/ WaitStep
  \/ TcpTraffic \/ TransparentTraffic \/ RequestTraffic

DataSpec == DataInit /\ [][DataNext]_dataVars

(* The runtime runs every task that can go on, and its timers fire.         *)
DataFairness ==
  /\ \A b \in Range(Bindings) : WF_dataVars(TellConnection(b))
  /\ WF_dataVars(WaitStep)
  /\ \A c \in Conns : WF_tcpVars(Serving /\ ConnProgress(c))
  /\ \A b \in Range(Bindings) : WF_tcpVars(Serving /\ ListenerProgress(b))

-----------------------------------------------------------------------------
(* An apply that was acknowledged is what every plane serves: whoever       *)
(* connects or asks after the acknowledgement gets its routes, or those of  *)
(* a newer snapshot; and when no apply is under way all planes agree.       *)
AcknowledgedIsServed ==
  /\ engine.version >= acked
  /\ acked = engine.version =>
       /\ \A b \in Range(Bindings) : route[b].target = Documents[engine.config].tcp[b]
       /\ members = Documents[engine.config].members
  /\ lock = NoAdmin => acked = engine.version

(* A shutdown ends, however long clients keep their connections open, and   *)
(* an orderly one leaves no connection and no request behind.               *)
ShutdownEnds ==
  shutdown ~>
    \/ proc.stage = "failed"
    \/ /\ proc.stage = "exited"
       /\ \A c \in Conns : ~Alive(c)
       /\ \A f \in Flows : flow[f].pc \in {"none", "refused", "ended"}
       /\ \A r \in Reqs : Started(r) => Over(r)
=============================================================================

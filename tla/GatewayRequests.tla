--------------------------- MODULE GatewayRequests ---------------------------
(***************************************************************************)
(* HTTP requests through a router: the phases of a Pingora request (Proxy- *)
(* Http for ApmprProxy in crates/router-pingora/src/lib.rs) and the        *)
(* requests of managed profiles (crates/apmpr-router/src/forward_proxy.rs). *)
(*                                                                         *)
(* A request is a record of what the code asks about it; the route it      *)
(* takes is looked up in the snapshot that is active at that moment, and   *)
(* every later phase has to go by that one.  Which identity leads to which *)
(* provider is the module RouterConfig; here a configuration says it.      *)
(***************************************************************************)
EXTENDS Naturals, FiniteSets

CONSTANTS
  Documents,   \* the configurations: name -> its routes, by slot, and so on
  Reqs,        \* requests
  Kinds        \* what requests may be like

(* "none" and "upstream" stand for the Origins that an answer may allow     *)
(* without the router's doing; they are no Origins.                         *)
ASSUME RequestAssumption ==
  \A kind \in Kinds : kind.browser \in BOOLEAN /\ kind.origin \notin {"none", "upstream"}

VARIABLES
  engine,      \* the active snapshot of RouteEngine: [version, config], config a name
  acked,       \* ghost: the last version an apply was acknowledged for
  req,         \* each request with its RequestContext
  telemetry    \* DataPlaneTelemetry: requests, active_requests and errors

requestVars == <<engine, acked, req, telemetry>>

NoRequest == [pc |-> "none"]
Started(r) == req[r].pc # "none"
Over(r) == req[r].pc \in {"logged", "cut"}

RequestInit ==
  /\ req = [r \in Reqs |-> NoRequest]
  /\ telemetry = [requests |-> 0, active |-> 0, errors |-> 0]

(* lookup_consumer or lookup_browser: the provider, or "none".              *)
Target(config, kind) == Documents[config].routes[kind.slot]
(* The Origin is reflected only if it is a route identity of the slot.      *)
CorsOrigin(config, kind) ==
  IF kind.browser /\ kind.origin \in Documents[config].origins[kind.slot] THEN kind.origin ELSE "none"

Context(kind, pc, target, cors, status, allow, counted) ==
  [pc |-> pc, kind |-> kind, snapshot |-> engine, target |-> target, contacted |-> "none",
   status |-> status, allow |-> allow, cors |-> cors, counted |-> counted,
   failed |-> FALSE, since |-> acked]

-----------------------------------------------------------------------------
(* request_filter up to its first await.  A rejection counts one error and  *)
(* writes the answer.                                                       *)

(* Refused before a snapshot is looked at.                                  *)
EarlyStatus(kind) ==
  CASE kind.headers = "large" -> 431
    [] kind.headers # "large" /\ kind.auth = "bad" -> 407
    [] OTHER -> 404
RefusedEarly(kind) == kind.headers = "large" \/ kind.auth = "bad" \/ kind.slot = "unlisted"

RejectEarly(r, kind) ==
  /\ ~Started(r) /\ kind.family = "http" /\ RefusedEarly(kind)
  /\ req' = [req EXCEPT ![r] = Context(kind, "answering", "none", "none", EarlyStatus(kind), "none", TRUE)]
  /\ telemetry' = [requests |-> telemetry.requests + 1, active |-> telemetry.active + 1,
                   errors |-> telemetry.errors + 1]
  /\ UNCHANGED <<engine, acked>>

(* No route: 404 for a consumer; for a browser 400 or 403.  A preflight is  *)
(* answered here, and refused without a configured Origin or when invalid.  *)
RouteStatus(kind) ==
  LET config == engine.config
  IN  CASE Target(config, kind) = "none" -> (IF kind.browser THEN 403 ELSE 404)
        [] Target(config, kind) # "none" /\ kind.browser /\ kind.preflight # "no"
             -> (IF CorsOrigin(config, kind) = "none" THEN 403
                 ELSE IF kind.preflight = "invalid" THEN 400 ELSE 204)
        [] OTHER -> 200

Route(r, kind) ==
  LET config == engine.config
      status == RouteStatus(kind)
      cors   == CorsOrigin(config, kind)
      counted == status >= 400
  IN  /\ ~Started(r) /\ kind.family = "http" /\ ~RefusedEarly(kind)
      /\ req' = [req EXCEPT ![r] =
           Context(kind, IF status = 200 THEN "probing" ELSE "answering", Target(config, kind),
                   cors, status, IF status = 200 THEN "none" ELSE cors, counted)]
      /\ telemetry' = [requests |-> telemetry.requests + 1, active |-> telemetry.active + 1,
                       errors |-> telemetry.errors + (IF counted THEN 1 ELSE 0)]
      /\ UNCHANGED <<engine, acked>>

(* The awaits of request_filter: the target's health check, if it has one,  *)
(* and the resolution of its endpoint; each may end in a 503.               *)
Reject(r, status) ==
  /\ req' = [req EXCEPT ![r].pc = "answering", ![r].status = status,
                        ![r].allow = req[r].cors, ![r].counted = TRUE]
  /\ telemetry' = [telemetry EXCEPT !.errors = @ + 1]
  /\ UNCHANGED <<engine, acked>>

Advance(r, pc) ==
  /\ req' = [req EXCEPT ![r].pc = pc]
  /\ UNCHANGED <<engine, acked, telemetry>>

Checked(r) == req[r].target \in Documents[req[r].snapshot.config].checked

Probe(r) ==
  /\ req[r].pc = "probing" /\ req[r].kind.family = "http"
  /\ Advance(r, "resolving") \/ (Checked(r) /\ Reject(r, 503))

Resolve(r) == req[r].pc = "resolving" /\ (Advance(r, "proxying") \/ Reject(r, 503))

(* Mutant: the peer is looked up again.                                     *)
PeerNow(r) == Target(engine.config, req[r].kind)

(* upstream_peer goes by the context.                                       *)
upstream_peer(r) == req[r].target

UpstreamPeer(r) ==
  /\ req[r].pc = "proxying"
  /\ req' = [req EXCEPT ![r].pc = "exchanging", ![r].contacted = upstream_peer(r)]
  /\ UNCHANGED <<engine, acked, telemetry>>

-----------------------------------------------------------------------------
CountOnce(r) == telemetry.errors + (IF req[r].counted THEN 0 ELSE 1)

(* fail_to_proxy: the upstream cannot be reached or breaks off, the body is *)
(* too large, or an answer could not be written.                            *)
FailStatus(r) ==
  CASE req[r].pc = "answering" -> {500}
    [] req[r].pc = "exchanging" /\ req[r].kind.body = "large" -> {413}
    [] OTHER -> {500, 502}

FailToProxy(r) ==
  /\ req[r].pc \in {"answering", "exchanging"}
  /\ \E status \in FailStatus(r) :
       req' = [req EXCEPT ![r] = [@ EXCEPT !.pc = "logging", !.status = status, !.allow = req[r].cors,
                                           !.counted = TRUE, !.failed = TRUE]]
  /\ telemetry' = [telemetry EXCEPT !.errors = CountOnce(r)]
  /\ UNCHANGED <<engine, acked>>

(* The answer is written; a proxied one has its CORS headers replaced when  *)
(* the request was browser-routed ("upstream" when they are left alone).    *)
Respond(r) ==
  /\ \/ req[r].pc = "answering"
     \/ req[r].pc = "exchanging" /\ req[r].kind.body = "fits"
  /\ req' = [req EXCEPT ![r] = [@ EXCEPT !.pc = "logging",
                                         !.allow = IF req[r].pc = "answering" THEN req[r].allow
                                                   ELSE IF req[r].kind.browser THEN req[r].cors
                                                   ELSE "upstream"]]
  /\ UNCHANGED <<engine, acked, telemetry>>

(* logging: the end of every request; an error that was not counted is.     *)
Log(r) ==
  /\ req[r].pc = "logging"
  /\ req' = [req EXCEPT ![r].pc = "logged"]
  /\ telemetry' = [telemetry EXCEPT !.active = @ - 1,
                                    !.errors = IF req[r].failed THEN CountOnce(r) ELSE @]
  /\ UNCHANGED <<engine, acked>>

-----------------------------------------------------------------------------
(* serve in forward_proxy.rs, which has no telemetry.  The request is read  *)
(* and checked, and refused with its own status, before the snapshot is     *)
(* taken.                                                                   *)
ParseProxied(r, kind) ==
  /\ ~Started(r) /\ kind.family = "forward"
  /\ req' = [req EXCEPT ![r] = Context(kind, "parsing", "none", "none", 200, "none", FALSE)]
  /\ UNCHANGED <<engine, acked, telemetry>>

ParsedStatus(kind) ==
  CASE kind.headers = "large" -> {431}
    [] kind.headers # "large" /\ kind.auth = "bad" -> {407}
    [] kind.headers # "large" /\ kind.auth # "bad" /\ kind.slot = "unlisted" -> {403}
    [] ~RefusedEarly(kind) /\ kind.body = "large" -> {413}
    [] OTHER -> {}

Refuse(r, status) ==
  /\ req' = [req EXCEPT ![r].pc = "logged", ![r].status = status]
  /\ UNCHANGED <<engine, acked, telemetry>>

(* parse_request fails, or the client is slower than HEADER_TIMEOUT.        *)
ParseRefused(r) ==
  /\ req[r].pc = "parsing"
  /\ \E status \in ParsedStatus(req[r].kind) \cup {400, 408} : Refuse(r, status)

LookUpProxied(r) ==
  LET target == Target(engine.config, req[r].kind)
  IN  /\ req[r].pc = "parsing" /\ ParsedStatus(req[r].kind) = {}
      /\ IF target = "none" THEN Refuse(r, 403)
         ELSE IF target \notin Documents[engine.config].localHttp THEN Refuse(r, 502)
         ELSE /\ req' = [req EXCEPT ![r].pc = "connecting", ![r].snapshot = engine,
                                    ![r].target = target]
              /\ UNCHANGED <<engine, acked, telemetry>>

ConnectProxied(r) ==
  /\ req[r].pc = "connecting"
  /\ \/ Refuse(r, 502)
     \/ /\ req' = [req EXCEPT ![r].pc = "relaying", ![r].contacted = req[r].target]
        /\ UNCHANGED <<engine, acked, telemetry>>

(* Both copies end, or TRANSFER_TIMEOUT does.                               *)
RelayEnds(r) == req[r].pc = "relaying" /\ Advance(r, "logged")

(* A stopped server drops the requests it has.                              *)
CutRequests(family) ==
  /\ req' = [r \in Reqs |-> IF Started(r) /\ ~Over(r) /\ req[r].kind.family = family
                            THEN [req[r] EXCEPT !.pc = "cut"] ELSE req[r]]
  /\ UNCHANGED <<engine, acked, telemetry>>

HttpStep(r) ==
  \/ Probe(r) \/ Resolve(r) \/ UpstreamPeer(r) \/ FailToProxy(r) \/ Respond(r) \/ Log(r)
ForwardStep(r) == ParseRefused(r) \/ LookUpProxied(r) \/ ConnectProxied(r) \/ RelayEnds(r)

-----------------------------------------------------------------------------
(* "HTTP requests pin the snapshot selected at request start" (docs/router  *)
(* .md): the provider that is contacted, and the Origin that an answer      *)
(* allows, are those of one snapshot, which is not older than what was      *)
(* acknowledged before the request came.                                    *)
RequestsPinTheirSnapshot ==
  \A r \in {x \in Reqs : Started(x)} :
    LET q == req[r]
    IN  /\ q.snapshot.version >= q.since
        /\ q.contacted \in {"none", Target(q.snapshot.config, q.kind)}
        /\ q.allow = "upstream" => ~q.kind.browser
        /\ q.allow \notin {"none", "upstream"} => q.allow \in Documents[q.snapshot.config].origins[q.kind.slot]

=============================================================================

----------------------------- MODULE MCDataPlane -----------------------------
(***************************************************************************)
(* Instances of the router's process for TLC.  One kind of traffic at a    *)
(* time runs against the applies and the shutdown, mostly against one or   *)
(* the other: the planes share only the snapshot and the order in which    *)
(* they are reloaded and stopped.  The packet rules of a sidecar, and the  *)
(* daemon's event log with an operation's child and one client that may    *)
(* lose its connection, have behaviours of their own.                      *)
(***************************************************************************)
EXTENDS DataPlane, RuleInterception, EventLog, TLC

CONSTANTS b1, b2, c1, c2, r1, r2, f1, a1, a2

VARIABLE focus   \* the traffic of this behaviour

MCBindings == <<b1, b2>>
MCConns == {c1, c2}
MCBindingOf == c1 :> b1 @@ c2 :> b1
MCHosts == {"h1", "h2", "own"}

Member(host, declared) == [host |-> host, declared |-> declared]

Config(tcp, policy, members1, provider, origins) ==
  [tcp |-> b1 :> tcp @@ b2 :> tcp, policy |-> policy, members |-> members1,
   routes |-> "api" :> provider @@ "quiet" :> "none" @@ "unlisted" :> "none",
   origins |-> "api" :> origins @@ "quiet" :> {} @@ "unlisted" :> {},
   checked |-> {"p2"}, localHttp |-> {"p1", "p2"}, health |-> "up", topology |-> "first"]

First ==
  Config("t1", "close", <<Member("h1", "none"), Member("own", "none"), Member("h2", "yes")>>,
         "p1", {"page1"})
Moved == Config("t2", "drain", <<>>, "p2", {})

MCDocuments ==
  [first  |-> First,
   close  |-> [First EXCEPT !.tcp = Moved.tcp],
   drain  |-> [First EXCEPT !.tcp = Moved.tcp, !.policy = "drain"],
   pin    |-> [First EXCEPT !.tcp = Moved.tcp, !.policy = "pin"],
   others |-> [First EXCEPT !.members =
                 <<Member("h2", "none"), Member("h1", "no"), Member("own", "none")>>],
   second |-> [First EXCEPT !.routes["api"] = "p2", !.origins["api"] = {"page2"}],
   far    |-> [First EXCEPT !.routes["api"] = "far", !.origins["api"] = {}],
   moved  |-> Moved,
   down   |-> [Moved EXCEPT !.health = "down"],
   flaky  |-> [Moved EXCEPT !.health = "flaky"],
   relaid |-> [Moved EXCEPT !.topology = "other"],
   halved |-> [Moved EXCEPT !.tcp[b2] = "none"]]

Snapshots(versions, names) == [version : versions, config : names]

(* The snapshots of each kind of traffic.                                   *)
UpdatesOf(f) ==
  CASE f = "tcp" -> Snapshots({2}, {"close", "drain", "pin"}) \cup Snapshots({3}, {"first"})
    [] f = "transparent" -> Snapshots({2}, {"others"})
    [] f = "requests" -> Snapshots({2}, {"second", "far"})
    [] f = "admin" -> Snapshots({1, 2, 3}, {"moved", "down", "flaky", "relaid", "halved"})
    [] OTHER -> {}

(* Where applies race each other, any task brings any snapshot; elsewhere    *)
(* the second task brings the third version, over one that lets older       *)
(* connections drain.                                                       *)
Brings(a, update) ==
  \/ focus = "admin"
  \/ a = a1 /\ update.version = 2
  \/ a = a2 /\ update.version = 3 /\ engine.config = "drain"

MayStop ==
  \/ focus = "admin"
  \/ focus = "tcp" /\ admin[a2].pc = "none"
  \/ \A a \in Admins : admin[a].pc = "none"

MCUpdates == UNION {UpdatesOf(f) : f \in {"tcp", "transparent", "requests", "admin"}}

(* A usual request of each family, and what may be different about it.      *)
Usual(family, browser) ==
  [family |-> family, headers |-> "fit", auth |-> "good", slot |-> "api", browser |-> browser,
   origin |-> "page1", preflight |-> "no", body |-> "fits"]
MCKinds ==
  LET web == Usual("http", TRUE)
      fwd == Usual("forward", FALSE)
  IN  {Usual("http", FALSE), web, [web EXCEPT !.headers = "large"], [web EXCEPT !.auth = "bad"],
       [web EXCEPT !.slot = "unlisted"], [web EXCEPT !.slot = "quiet"], [web EXCEPT !.origin = "page2"],
       [web EXCEPT !.body = "large"], [web EXCEPT !.preflight = "valid"],
       [web EXCEPT !.preflight = "invalid"], fwd, [fwd EXCEPT !.headers = "large"],
       [fwd EXCEPT !.auth = "bad"], [fwd EXCEPT !.slot = "unlisted"], [fwd EXCEPT !.slot = "quiet"],
       [fwd EXCEPT !.body = "large"]}

(* A second request comes beside a usual one, and is the same.              *)
Asks(r, kind) ==
  r = r1 \/ (Started(r1) /\ kind = Usual("http", TRUE) /\ req[r1].kind = kind)

(* A failed wait comes without a lost connection or a failed reader.        *)
OneMishap == unwaited => drops = 0 /\ \A w \in Outputs : output[w] # "failed"

restVars == <<ruleVars, eventVars, focus>>
MCVars == <<dataVars, restVars>>

MCInit ==
  /\ DataInit /\ RuleInit /\ EventInit
  /\ focus \in {"tcp", "transparent", "requests", "admin", "rules", "events"}
  /\ focus # "transparent" => listening = {}

MCNext ==
  \/ focus = "rules" /\ RuleStep /\ UNCHANGED <<dataVars, eventVars, focus>>
  \/ focus = "events" /\ EventNext /\ OneMishap' /\ UNCHANGED <<dataVars, ruleVars, focus>>
  \/ /\ focus \notin {"rules", "events"}
     /\ Control \/ (MayStop /\ RequestShutdown) \/ ForwardStops \/ WaitStep
     /\ \A a \in Admins : admin'[a].pc = "waiting" =>
          admin'[a].update \in UpdatesOf(focus) /\ Brings(a, admin'[a].update)
     /\ UNCHANGED restVars
  \/ focus = "tcp" /\ TcpTraffic /\ UNCHANGED restVars
  \/ focus = "transparent" /\ TransparentTraffic /\ UNCHANGED restVars
  \/ /\ focus = "requests" /\ RequestTraffic /\ UNCHANGED restVars
     /\ \A r \in Reqs : req'[r].pc # "none" => Asks(r, req'[r].kind)

MCSpec == MCInit /\ [][MCNext]_MCVars /\ DataFairness /\ EventFairness
=============================================================================

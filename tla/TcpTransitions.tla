--------------------------- MODULE TcpTransitions ---------------------------
(***************************************************************************)
(* The raw TCP listeners of a router (TcpProxy in crates/router-tcp/src/   *)
(* lib.rs): connections are accepted to the current target, a reload       *)
(* changes the target and tells the connections of the previous one what   *)
(* to do, and shutdown waits for connections up to a timeout.              *)
(*                                                                         *)
(* A connection registers itself and reads its target under the route      *)
(* lock; a reload takes the registered connections under the same lock and *)
(* tells them one by one after it has released it.  In which order it does *)
(* is left open: the list of registered connections is a set here.  The    *)
(* bytes that are copied are left out: a connection ends well, fails or    *)
(* goes on.                                                                *)
(***************************************************************************)
EXTENDS Naturals, Sequences, FiniteSets, Functions

CONSTANTS
  Bindings,     \* the TCP listeners, in the order of the configuration
  Conns,        \* client connections
  BindingOf     \* the listener that each connection comes to

VARIABLES
  route,      \* RouteState of each listener, and how often it was reloaded
  sends,      \* the policy and the connections a reload has still to tell
  conn,       \* the task of each connection
  listener,   \* the accept loop of each listener
  stopping,   \* the listeners whose shutdown watch is set
  counters,   \* TcpCounters
  told        \* ghost: the policy of each reload of a listener

tcpVars == <<route, sends, conn, listener, stopping, counters, told>>

Live == {"connecting", "forwarding", "draining", "pinned"}
Alive(c) == conn[c].pc \in Live
ConnsOf(b) == {c \in Conns : BindingOf[c] = b}

NoSends == [policy |-> "close", left |-> {}]

TcpInit(targets) ==
  /\ route = [b \in Range(Bindings) |->
                [target |-> targets[b], waiting |-> {}, generation |-> 0]]
  /\ sends = [b \in Range(Bindings) |-> NoSends]
  /\ conn = [c \in Conns |->
               [pc |-> "none", target |-> "none", since |-> 0, notice |-> "none"]]
  /\ listener = [b \in Range(Bindings) |-> "accepting"]
  /\ stopping = {}
  /\ counters = [b \in Range(Bindings) |-> [accepted |-> 0, active |-> 0, errors |-> 0]]
  /\ told = [b \in Range(Bindings) |-> <<>>]

-----------------------------------------------------------------------------
(* The accept loop.                                                         *)

(* Mutant: the target is read before the connection is registered, so that  *)
(* a reload in between is neither seen nor told.                            *)
AcceptRacing(c) ==
  LET b == BindingOf[c]
  IN  /\ listener[b] = "accepting" /\ b \notin stopping /\ conn[c].pc = "none"
      /\ conn' = [conn EXCEPT ![c] =
                    [pc |-> "connecting", target |-> route[b].target,
                     since |-> route[b].generation, notice |-> "none"]]
      /\ counters' = [counters EXCEPT ![b].accepted = @ + 1, ![b].active = @ + 1]
      /\ UNCHANGED <<route, sends, listener, stopping, told>>

(* A biased select looks at shutdown first.  The connection registers the   *)
(* sender of its transition watch and takes the target in one section; the  *)
(* senders of connections that have ended are dropped.                      *)
Accept(c) ==
  LET b == BindingOf[c]
  IN  /\ listener[b] = "accepting" /\ b \notin stopping /\ conn[c].pc = "none"
      /\ conn' = [conn EXCEPT ![c] =
                    [pc |-> "connecting", target |-> route[b].target,
                     since |-> route[b].generation, notice |-> "none"]]
      /\ route' = [route EXCEPT ![b].waiting = {x \in @ : Alive(x)} \cup {c}]
      /\ counters' = [counters EXCEPT ![b].accepted = @ + 1, ![b].active = @ + 1]
      /\ UNCHANGED <<sends, listener, stopping, told>>

(* The tasks of a dropped JoinSet are aborted; each drops its              *)
(* ActiveConnection.                                                        *)
AbortAll(b) ==
  LET alive == {c \in ConnsOf(b) : Alive(c)}
  IN  /\ conn' = [c \in Conns |-> IF c \in alive THEN [conn[c] EXCEPT !.pc = "ended"] ELSE conn[c]]
      /\ counters' = [counters EXCEPT ![b].active = @ - Cardinality(alive)]

(* An error of accept ends the listener, and its connections with it.       *)
AcceptFails(b) ==
  LET alive == {c \in ConnsOf(b) : Alive(c)}
  IN  /\ listener[b] = "accepting" /\ b \notin stopping
      /\ listener' = [listener EXCEPT ![b] = "failed"]
      /\ conn' = [c \in Conns |-> IF c \in alive THEN [conn[c] EXCEPT !.pc = "ended"] ELSE conn[c]]
      /\ counters' = [counters EXCEPT ![b].active = @ - Cardinality(alive), ![b].errors = @ + 1]
      /\ UNCHANGED <<route, sends, stopping, told>>

StopAccepting(b) ==
  /\ listener[b] = "accepting" /\ b \in stopping
  /\ listener' = [listener EXCEPT ![b] = "closing"]
  /\ UNCHANGED <<route, sends, conn, stopping, counters, told>>

AllJoined(b) ==
  /\ listener[b] = "closing" /\ \A c \in ConnsOf(b) : ~Alive(c)
  /\ listener' = [listener EXCEPT ![b] = "ended"]
  /\ UNCHANGED <<route, sends, conn, stopping, counters, told>>

-----------------------------------------------------------------------------
(* TcpProxy::reload: the locked section, and then a message for each        *)
(* connection whose task still holds its sender.                            *)
Reload(b, target, policy) ==
  /\ route' = [route EXCEPT ![b] = [target |-> target, waiting |-> {},
                                    generation |-> @.generation + 1]]
  /\ sends' = [sends EXCEPT ![b] = [policy |-> policy, left |-> route[b].waiting]]
  /\ told' = [told EXCEPT ![b] = Append(@, policy)]
  /\ UNCHANGED <<conn, listener, stopping, counters>>

Told(b) == sends[b].left = {}

SendTransition(b) ==
  /\ \E c \in sends[b].left :
       /\ conn' = IF Alive(c) THEN [conn EXCEPT ![c].notice = sends[b].policy] ELSE conn
       /\ sends' = [sends EXCEPT ![b].left = @ \ {c}]
  /\ UNCHANGED <<route, listener, stopping, counters, told>>

-----------------------------------------------------------------------------
(* proxy_connection.                                                        *)

Goes(c, pc) ==
  /\ conn' = [conn EXCEPT ![c].pc = pc]
  /\ UNCHANGED <<route, sends, listener, stopping, counters, told>>

Ends(c, errors) ==
  /\ conn' = [conn EXCEPT ![c].pc = "ended"]
  /\ counters' = [counters EXCEPT ![BindingOf[c]].active = @ - 1,
                                  ![BindingOf[c]].errors = @ + errors]
  /\ UNCHANGED <<route, sends, listener, stopping, told>>

(* Within connect_timeout the upstream answers, or the connection is given  *)
(* up; a transition that comes meanwhile waits in the watch.                *)
Connect(c) == conn[c].pc = "connecting" /\ (Goes(c, "forwarding") \/ Ends(c, 1))

(* forward_until_idle ends when both directions have, with an error, or     *)
(* after idle_timeout.  The error of a pinned connection is not counted.    *)
Finishes(c) ==
  /\ conn[c].pc \in {"forwarding", "draining", "pinned"}
  /\ \E errors \in (IF conn[c].pc = "pinned" THEN {0} ELSE {0, 1}) : Ends(c, errors)

(* Mutant: a connection that is told to close is pinned.                    *)
TransitionPins(c) ==
  /\ conn[c].pc = "forwarding" /\ conn[c].notice # "none"
  /\ Goes(c, IF conn[c].notice = "drain" THEN "draining" ELSE "pinned")

Transition(c) ==
  /\ conn[c].pc = "forwarding" /\ conn[c].notice # "none"
  /\ CASE conn[c].notice = "close" -> Ends(c, 0)
       [] conn[c].notice = "drain" -> Goes(c, "draining")
       [] conn[c].notice = "pin" -> Goes(c, "pinned")

DrainTimeout(c) == conn[c].pc = "draining" /\ Ends(c, 0)

-----------------------------------------------------------------------------
(* TcpProxy::shutdown: set the watch, then wait for the listener's task or  *)
(* abort it after shutdown_timeout.                                         *)
BeginStop(b) ==
  /\ stopping' = stopping \cup {b}
  /\ UNCHANGED <<route, sends, conn, listener, counters, told>>

(* Mutant: the connections are not tasks of the listener.                   *)
KeepConnections(b) ==
  /\ b \in stopping /\ listener[b] \in {"accepting", "closing"}
  /\ listener' = [listener EXCEPT ![b] = "ended"]
  /\ UNCHANGED <<route, sends, conn, stopping, counters, told>>

AbortListener(b) ==
  /\ b \in stopping /\ listener[b] \in {"accepting", "closing"}
  /\ listener' = [listener EXCEPT ![b] = "ended"]
  /\ AbortAll(b)
  /\ UNCHANGED <<route, sends, stopping, told>>

ConnStep(c) == Accept(c) \/ Connect(c) \/ Finishes(c) \/ Transition(c) \/ DrainTimeout(c)

ListenerStep(b) == AcceptFails(b) \/ StopAccepting(b) \/ AllJoined(b)

(* What the runtime and the timers see to; clients and upstreams may keep a *)
(* connection open as long as they like.                                    *)
ConnProgress(c) == Connect(c) \/ Transition(c) \/ DrainTimeout(c)
ListenerProgress(b) == StopAccepting(b) \/ AllJoined(b)

-----------------------------------------------------------------------------
(* A connection to a target that has been replaced is told so, exactly by   *)
(* the policy of the first reload after it was accepted; one that follows   *)
(* no policy yet is the target's, or is among those a reload has in hand.   *)
OlderConnectionsAreTold ==
  \A c \in Conns :
    LET b == BindingOf[c]
    IN  Alive(c) =>
          /\ conn[c].since = route[b].generation =>
               conn[c].target = route[b].target /\ conn[c].notice = "none"
          /\ conn[c].since < route[b].generation =>
               conn[c].notice = told[b][conn[c].since + 1] \/ c \in sends[b].left
          /\ conn[c].pc = "draining" => conn[c].notice = "drain"
          /\ conn[c].pc = "pinned" => conn[c].notice = "pin"

(* A connection that is told to close or to drain ends, whatever its peers  *)
(* do; only a pinned one may stay.                                          *)
ToldConnectionsEnd ==
  \A c \in Conns : Alive(c) /\ conn[c].notice \in {"close", "drain"} ~> ~Alive(c)
=============================================================================

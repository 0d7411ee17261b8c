-------------------------- MODULE TransparentForward --------------------------
(***************************************************************************)
(* Redirected localhost connections of a sidecar (TransparentTcpProxy in   *)
(* crates/router-tcp/src/lib.rs): the listener takes the group's members   *)
(* as they are when a connection comes, asks which of them listen on the   *)
(* connection's port, and connects to the first that does, in the authored *)
(* order.  Members start and stop listening, and become unreachable,       *)
(* meanwhile.                                                              *)
(*                                                                         *)
(* One port is modelled: "listening" is the set of hosts that accept       *)
(* connections to it.  A failed connect is a host that does not listen.    *)
(***************************************************************************)
EXTENDS Naturals, Sequences, FiniteSets

CONSTANTS
  Own,         \* the sidecar's own host
  Hosts,       \* the hosts of group members, Own included
  Flows,       \* redirected connections
  MaxChanges   \* bound on how often hosts change

(* A member is [host, declared]; the ports that a host member declares      *)
(* contain the port ("yes") or not ("no"), "none" when it declares none.    *)
Local(t) == t.host = Own

VARIABLES
  members,     \* TransparentState::targets
  flow,        \* the task of each connection
  listening,
  asked,       \* the hosts whose registry port answers
  steady,      \* ghost: the hosts that listened and answered since accept
  changes

transparentVars == <<members, flow, listening, asked, steady, changes>>

TransparentInit(targets) ==
  /\ members = targets
  /\ flow = [f \in Flows |-> [pc |-> "none", from |-> "loopback", targets |-> <<>>,
                              observed |-> <<>>, left |-> {}, served |-> "none"]]
  /\ listening \in SUBSET Hosts
  /\ asked = Hosts
  /\ steady = [f \in Flows |-> {}]
  /\ changes = 0

ReloadMembers(targets) ==
  /\ members' = targets
  /\ UNCHANGED <<flow, listening, asked, steady, changes>>

(* Mutant: every connection is offered to the group.                        *)
AcceptAnyone(f, from) ==
  /\ flow[f].pc = "none"
  /\ flow' = [flow EXCEPT ![f] =
                [pc |-> "observing", from |-> from, targets |-> members,
                 observed |-> [i \in DOMAIN members |-> "unknown"],
                 left |-> {}, served |-> "none"]]
  /\ steady' = [steady EXCEPT ![f] = listening \cap asked]
  /\ UNCHANGED <<members, listening, asked, changes>>

(* run_transparent_listener and the first lines of forward_transparent: a   *)
(* connection from the deployment's bridge is for this member only, and the *)
(* registry port is answered with the ports that are listened on.           *)
AcceptFlow(f, from) ==
  /\ flow[f].pc = "none"
  /\ flow' = [flow EXCEPT ![f] =
                [pc |-> CASE from = "loopback" -> "observing"
                          [] from = "bridge" -> "own"
                          [] from = "registry" -> "ended",
                 from |-> from, targets |-> members,
                 observed |-> [i \in DOMAIN members |-> "unknown"],
                 left |-> {}, served |-> "none"]]
  /\ steady' = [steady EXCEPT ![f] = listening \cap asked]
  /\ UNCHANGED <<members, listening, asked, changes>>

(* One of the concurrent checks of observe_targets.                         *)
Listens(t) ==
  CASE t.declared # "none" -> t.declared = "yes"
    [] t.declared = "none" /\ Local(t) -> Own \in listening
    [] OTHER -> t.host \in listening \cap asked

ObserveOne(f, i) ==
  /\ flow[f].pc = "observing" /\ flow[f].observed[i] = "unknown"
  /\ flow' = [flow EXCEPT ![f].observed[i] = IF Listens(flow[f].targets[i]) THEN "yes" ELSE "no"]
  /\ UNCHANGED <<members, listening, asked, steady, changes>>

(* The members that are tried: those that were observed, and the others     *)
(* unless they declare other ports; the observed ones first, and each part  *)
(* in the authored order.                                                   *)
Candidates(f) ==
  {i \in DOMAIN flow[f].targets : flow[f].observed[i] = "yes" \/ flow[f].targets[i].declared # "no"}

Before(f, i, j) ==
  \/ flow[f].observed[i] = "yes" /\ flow[f].observed[j] # "yes"
  \/ (flow[f].observed[i] = "yes") = (flow[f].observed[j] = "yes") /\ i < j

BeginTrying(f) ==
  /\ flow[f].pc = "observing" /\ \A i \in DOMAIN flow[f].observed : flow[f].observed[i] # "unknown"
  /\ flow' = [flow EXCEPT ![f].pc = "trying", ![f].left = Candidates(f)]
  /\ UNCHANGED <<members, listening, asked, steady, changes>>

(* connect_target: the connection is copied until it ends, or the next      *)
(* member is tried.                                                         *)
TryMember(f) ==
  /\ flow[f].pc = "trying"
  /\ \E i \in flow[f].left :
       /\ \A j \in flow[f].left \ {i} : Before(f, i, j)
       /\ LET host == flow[f].targets[i].host
          IN  flow' = IF host \in listening
                      THEN [flow EXCEPT ![f].pc = "copying", ![f].served = host]
                      ELSE [flow EXCEPT ![f].left = @ \ {i}]
  /\ UNCHANGED <<members, listening, asked, steady, changes>>

GiveUpMembers(f) ==
  /\ flow[f].pc = "trying" /\ flow[f].left = {}
  /\ flow' = [flow EXCEPT ![f].pc = "own"]
  /\ UNCHANGED <<members, listening, asked, steady, changes>>

(* The instance's own localhost, over either address family.                *)
TryOwn(f) ==
  /\ flow[f].pc = "own"
  /\ flow' = IF Own \in listening
             THEN [flow EXCEPT ![f].pc = "copying", ![f].served = Own]
             ELSE [flow EXCEPT ![f].pc = "refused"]
  /\ UNCHANGED <<members, listening, asked, steady, changes>>

FlowEnds(f) ==
  /\ flow[f].pc = "copying"
  /\ flow' = [flow EXCEPT ![f].pc = "ended"]
  /\ UNCHANGED <<members, listening, asked, steady, changes>>

(* shutdown: the tasks are aborted.                                         *)
AbortFlows ==
  /\ flow' = [f \in Flows |-> IF flow[f].pc = "none" THEN flow[f] ELSE [flow[f] EXCEPT !.pc = "ended"]]
  /\ UNCHANGED <<members, listening, asked, steady, changes>>

(* A host starts or stops listening, or its registry does.                  *)
HostChanges(h) ==
  /\ changes < MaxChanges
  /\ \/ /\ listening' = (listening \cup {h}) \ (listening \cap {h})
        /\ UNCHANGED asked
     \/ /\ asked' = (asked \cup {h}) \ (asked \cap {h})
        /\ UNCHANGED listening
  /\ steady' = [f \in Flows |-> steady[f] \cap listening' \cap asked']
  /\ changes' = changes + 1
  /\ UNCHANGED <<members, flow>>

FlowStep(f) ==
  \/ \E i \in DOMAIN flow[f].observed : ObserveOne(f, i)
  \/ BeginTrying(f) \/ TryMember(f) \/ GiveUpMembers(f) \/ TryOwn(f) \/ FlowEnds(f)

-----------------------------------------------------------------------------
(* "tries active group members in authored priority order": a connection    *)
(* from localhost is served by the first listed member that listened all    *)
(* the while, or by one before it; it is refused only when no member, and   *)
(* not the instance itself, listened all the while.  A connection from the  *)
(* bridge never goes on to another member.                                  *)
FirstListenerServes ==
  \A f \in Flows :
    LET targets == flow[f].targets
        sure == {i \in DOMAIN targets : targets[i].host \in steady[f] /\ targets[i].declared # "no"}
    IN  /\ flow[f].pc = "copying" /\ flow[f].from = "loopback" =>
             \A i \in sure : \E j \in 1..i : targets[j].host = flow[f].served
        /\ flow[f].pc = "copying" /\ flow[f].from = "bridge" => flow[f].served = Own
        /\ flow[f].pc = "refused" =>
             Own \notin steady[f] /\ (flow[f].from = "loopback" => sure = {})
=============================================================================

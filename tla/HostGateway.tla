----------------------------- MODULE HostGateway -----------------------------
(***************************************************************************)
(* The native host gateway of one deployment: its process (apmpr-router    *)
(* host, crates/apmpr-router/src/main.rs), and the files by which the CLI  *)
(* knows it (HostRuntime in crates/apmpr-cli/src/host_runtime.rs): the     *)
(* runtime configuration, the state file and the administration socket.    *)
(*                                                                         *)
(* A process is an element of Gateways, which stands for a pid together    *)
(* with its start time.  A process that is gone may be followed by an      *)
(* unrelated one with the same pid ("reused").                             *)
(***************************************************************************)
EXTENDS ComposeProjects

CONSTANTS
  Gateways,
  Binaries  \* the places where find_router_binary may find apmpr-router

VARIABLES
  router,   \* where it finds it now
  config,   \* host-router.json: [plan, ports] or None
  state,    \* host-gateway.json: [proc, plan, executable] or None
  socket,   \* whether host.socket exists
  gate,     \* of each process: "none", "booting", "serving", "stopping", "gone", "reused"
  serves,   \* the configuration that a serving process has read, or None
  victims,  \* ghost: the processes that were signalled under a reused pid
  strays    \* ghost: the processes that no record leads to any more: their command
            \* was cut short before write_state, or the record that was removed
            \* named another binary than the configured one

gatewayVars == <<router, config, state, socket, gate, serves, victims, strays>>

Alive == {"booting", "serving", "stopping"}
Living == {g \in Gateways : gate[g] \in Alive}

GatewayInit ==
  /\ router \in Binaries
  /\ config = None /\ state = None /\ socket = FALSE
  /\ gate = [g \in Gateways |-> "none"]
  /\ serves = [g \in Gateways |-> None]
  /\ victims = {} /\ strays = {}

-----------------------------------------------------------------------------
(* What the CLI finds out.                                                  *)

(* Mutant: any process with the recorded pid is taken for the gateway.      *)
OwnedByPid ==
  state # None /\ gate[state.proc] \in Alive \cup {"reused"} /\ state.executable = router

(* inspect_process: start time and command line match the record, and the   *)
(* executable is the one that is configured now.  A missing and a different *)
(* process are treated alike, a gateway that lives on with the binary of an *)
(* earlier configuration included.                                          *)
Owned == state # None /\ gate[state.proc] \in Alive /\ state.executable = router

(* status, for a plan.                                                      *)
GatewayStatus(plan) ==
  CASE state = None /\ ~plan.host ->
         IF config # None \/ socket THEN "drifted" ELSE "not configured"
    [] state = None /\ plan.host -> IF socket THEN "drifted" ELSE "stopped"
    [] OTHER -> IF state.plan = plan /\ plan.host /\ Owned THEN "running" ELSE "drifted"

(* resolve_published_upstreams asks the local Docker daemon.                *)
Resolves(plan) == plan.local => Local \notin unreachable /\ topology[Local] # {}

Desired(plan) == [plan |-> plan, ports |-> ports]

(* requires_token_for_start.                                                *)
NeedsToken(plan) ==
  /\ plan.host
  /\ GatewayStatus(plan) = "running" => ~Resolves(plan) \/ config # Desired(plan)

(* All listeners accept a connection and the socket exists.                 *)
Ready == socket /\ \E g \in Gateways : gate[g] = "serving"

-----------------------------------------------------------------------------
(* What the CLI does.                                                       *)

(* spawn: the configuration is on disk, the state file is not yet.          *)
SpawnGateway(plan) ==
  LET g == CHOOSE h \in Gateways : gate[h] \notin Alive
  IN /\ Living # Gateways
     /\ config' = Desired(plan)
     /\ gate' = [gate EXCEPT ![g] = "booting"]
     /\ strays' = strays \ {g}
     /\ UNCHANGED <<router, state, socket, serves, victims>>

(* It shows its start time and runs the router.                             *)
Identified(g) == gate[g] \in Alive

RecordGateway(g, plan) ==
  /\ state' = [proc |-> g, plan |-> plan, executable |-> router]
  /\ UNCHANGED <<router, config, socket, gate, serves, victims, strays>>

(* A dead process is remembered only while the state file names it.         *)
Dead(g) == IF state # None /\ state.proc = g THEN "gone" ELSE "none"

(* kill and wait: the process leaves its socket behind.                     *)
KillGateway(g) ==
  /\ gate' = [gate EXCEPT ![g] = IF @ \in Alive THEN Dead(g) ELSE @]
  /\ serves' = [serves EXCEPT ![g] = None]
  /\ UNCHANGED <<router, config, state, socket, victims, strays>>

(* signal_owned: the identity is checked again right before kill(1).        *)
Terminate ==
  /\ Owned
  /\ gate' = [gate EXCEPT ![state.proc] = IF @ = "reused" THEN @ ELSE "stopping"]
  /\ victims' = victims \cup {g \in {state.proc} : gate[g] = "reused"}
  /\ UNCHANGED <<router, config, state, socket, serves, strays>>

RemoveSocket ==
  socket' = FALSE /\ UNCHANGED <<router, config, state, gate, serves, victims, strays>>

(* The recorded gateway, when it was started from another binary.           *)
Disowned == {g \in Gateways : state # None /\ state.proc = g /\ state.executable # router}

RemoveState ==
  /\ state' = None
  /\ strays' = strays \cup Disowned
  /\ gate' = [g \in Gateways |-> IF gate[g] \in {"gone", "reused"} THEN "none" ELSE gate[g]]
  /\ UNCHANGED <<router, config, socket, serves, victims>>

RemoveConfig ==
  config' = None /\ UNCHANGED <<router, state, socket, gate, serves, victims, strays>>

(* The command is cut short while it alone knows the process.               *)
LoseGateway(g) ==
  /\ strays' = strays \cup {g}
  /\ UNCHANGED <<router, config, state, socket, gate, serves, victims>>

-----------------------------------------------------------------------------
(* What the process does.                                                   *)

(* It reads its configuration, finds the ports free (preflight), binds the  *)
(* listeners and then the socket (bind_admin replaces a dead one).          *)
GatewayServes(g) ==
  /\ gate[g] = "booting" /\ config # None
  /\ \A h \in Gateways : gate[h] \notin {"serving", "stopping"}
  /\ gate' = [gate EXCEPT ![g] = "serving"]
  /\ serves' = [serves EXCEPT ![g] = config]
  /\ socket' = TRUE
  /\ UNCHANGED <<router, config, state, victims, strays>>

(* A port is taken, or it crashes at any time; its socket file stays.       *)
GatewayDies(g) ==
  /\ gate[g] \in Alive
  /\ KillGateway(g)

(* After SIGTERM it drains, removes its socket and exits.                   *)
GatewayExits(g) ==
  /\ gate[g] = "stopping"
  /\ gate' = [gate EXCEPT ![g] = Dead(g)]
  /\ serves' = [serves EXCEPT ![g] = None]
  /\ socket' = FALSE
  /\ UNCHANGED <<router, config, state, victims, strays>>

(* The system gives the pid of a dead process to another program.           *)
PidReused(g) ==
  /\ gate[g] = "gone"
  /\ gate' = [gate EXCEPT ![g] = "reused"]
  /\ UNCHANGED <<router, config, state, socket, serves, victims, strays>>

(* Another apmpr-router is configured or installed (APMPR_ROUTER_BIN, the   *)
(* one beside the CLI, or the first on PATH).                               *)
Reconfigure ==
  /\ router' \in Binaries \ {router}
  /\ UNCHANGED <<config, state, socket, gate, serves, victims, strays>>

=============================================================================

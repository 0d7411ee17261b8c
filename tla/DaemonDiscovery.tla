--------------------------- MODULE DaemonDiscovery ---------------------------
(***************************************************************************)
(* How commands find the project's daemon.  A daemon looks for another one *)
(* behind .apmpr/daemon.json, prepares, binds a port and writes its own    *)
(* address and token there; it takes the file away when it stops.  A       *)
(* command line that finds an answering daemon hands its command over and  *)
(* follows it; one that finds none does the work itself.  Daemons are      *)
(* started by hand or by the service manager, and may be killed anywhere.  *)
(* A daemon number stands for one process, its port and its token.         *)
(***************************************************************************)
EXTENDS Nothing, Naturals

CONSTANTS
  MaxDaemons,  \* how many daemon processes are ever started
  Terminals,   \* command lines, one command each
  Recorders    \* those that change a source or a device record

ASSUME DiscoveryAssumption == MaxDaemons \in Nat \ {0} /\ Recorders \subseteq Terminals

VARIABLES
  proc,        \* the stage of each daemon process
  announced,   \* the daemon .apmpr/daemon.json names, or None
  routerToken, \* .apmpr/router-token: "absent", "empty" or "whole"
  unit,        \* the process the service manager runs: None, or a daemon
  service,     \* the installation of the service
  caller,      \* each command line: its stage and the daemon it found
  request,     \* the daemon a command was sent to and that has not read it, or None
  ran          \* who took each command: daemons, or 0 for the command line itself

dvars == <<proc, announced, routerToken, unit, service, caller, request, ran>>

Daemons == 1 .. MaxDaemons

DiscoveryInit ==
  /\ proc = [d \in Daemons |-> "unborn"] /\ announced = None /\ routerToken = "absent"
  /\ unit = None /\ service = "idle"
  /\ caller = [c \in Terminals |-> [pc |-> "idle", at |-> None]]
  /\ request = [c \in Terminals |-> None]
  /\ ran = [c \in Terminals |-> {}]

-----------------------------------------------------------------------------
(* A process that was stopped is gone; one that exits with an error has      *)
(* failed.                                                                   *)
Runs(d) == proc[d] \notin {"unborn", "gone", "failed", "killed"}

Step(d, stage) == proc' = [proc EXCEPT ![d] = stage]

(* A probe of a serving daemon may time out; nothing else answers the token. *)
discovery_daemon_status(d) ==
  IF d = None THEN {FALSE} ELSE IF proc[d] = "serving" THEN BOOLEAN ELSE {FALSE}

(* The first start creates the router token, and a token that was left       *)
(* empty is refused.                                                         *)
load_or_create_router_token(d) ==
  /\ Step(d, CASE routerToken = "absent" -> "secret"
               [] routerToken = "empty" -> "failed"
               [] OTHER -> "probing")
  /\ routerToken' = IF routerToken = "absent" THEN "empty" ELSE routerToken

Boot(d) ==
  /\ proc[d] = "unborn" /\ \A e \in Daemons : e < d => proc[e] # "unborn"
  /\ load_or_create_router_token(d)

DaemonRun(d) == Boot(d) /\ UNCHANGED <<announced, unit, service, caller, request, ran>>

(* The service manager restarts what failed or was killed, never what was    *)
(* told to stop.                                                             *)
ServiceRestarts(d) ==
  /\ unit # None /\ proc[unit] \in {"failed", "killed"}
  /\ Boot(d)
  /\ unit' = d
  /\ UNCHANGED <<announced, service, caller, request, ran>>

WriteToken(d) ==
  /\ proc[d] = "secret"
  /\ routerToken' = "whole" /\ Step(d, "probing")
  /\ UNCHANGED <<announced, unit, service, caller, request, ran>>

discovery_listener_is_active(d) ==
  /\ proc[d] = "probing"
  /\ \E found \in discovery_daemon_status(announced) : Step(d, IF found THEN "failed" ELSE "preparing")
  /\ UNCHANGED <<announced, routerToken, unit, service, caller, request, ran>>

write_discovery(d) == announced' = d

start_with_backend(d) ==
  /\ proc[d] = "preparing"
  /\ Step(d, "serving") /\ write_discovery(d)
  /\ UNCHANGED <<routerToken, unit, service, caller, request, ran>>

BindFails(d) ==
  /\ proc[d] = "preparing"
  /\ Step(d, "failed")
  /\ UNCHANGED <<announced, routerToken, unit, service, caller, request, ran>>

system_shutdown(d) == proc[d] = "serving" /\ Step(d, "closing")

daemon_stop(d) ==
  /\ d = announced /\ TRUE \in discovery_daemon_status(d)
  /\ system_shutdown(d)
  /\ UNCHANGED <<announced, routerToken, unit, service, caller, request, ran>>

(* A graceful shutdown ends once every open exchange did.                    *)
Connected(c, d) == request[c] = d \/ (caller[c].at = d /\ caller[c].pc \in {"sent", "following"})

cancel_and_wait(d) ==
  /\ proc[d] = "closing" /\ ~\E c \in Terminals : Connected(c, d)
  /\ Step(d, "leaving")
  /\ UNCHANGED <<announced, routerToken, unit, service, caller, request, ran>>

(* The file is read first and removed afterwards.                            *)
ReadOwnDiscovery(d) ==
  /\ proc[d] = "leaving"
  /\ Step(d, IF announced = d THEN "removing" ELSE "gone")
  /\ UNCHANGED <<announced, routerToken, unit, service, caller, request, ran>>

remove_discovery_if_owned(d) ==
  /\ proc[d] = "removing"
  /\ Step(d, "gone") /\ announced' = None
  /\ UNCHANGED <<routerToken, unit, service, caller, request, ran>>

ProcessKilled(d) ==
  /\ Runs(d)
  /\ Step(d, "killed")
  /\ UNCHANGED <<announced, routerToken, unit, service, caller, request, ran>>

-----------------------------------------------------------------------------
Reach(c, stage) == caller' = [caller EXCEPT ![c].pc = stage]

load_discovery(c) ==
  /\ caller[c].pc = "idle"
  /\ \E found \in discovery_daemon_status(announced) :
       caller' = [caller EXCEPT ![c] = IF found THEN [pc |-> "posting", at |-> announced]
                                       ELSE [pc |-> "alone", at |-> None]]
  /\ UNCHANGED <<proc, announced, routerToken, unit, service, request, ran>>

(* A record is changed in one exchange; every other command becomes an       *)
(* operation of the daemon, to be followed.                                  *)
RecordRequest(c) == c \in Recorders

daemon_request(c) == ~RecordRequest(c)

(* A connection that was refused, reset or not made in time means that no    *)
(* daemon runs; a change of a record is not tried twice.                     *)
NotRunning(c) == IF daemon_request(c) THEN "alone" ELSE "failed"

json_request(c) ==
  /\ caller[c].pc = "posting"
  /\ \/ /\ proc[caller[c].at] = "serving"
        /\ request' = [request EXCEPT ![c] = caller[c].at]
        /\ Reach(c, "sent")
     \/ Reach(c, NotRunning(c)) /\ UNCHANGED request
  /\ UNCHANGED <<proc, announced, routerToken, unit, service, ran>>

(* The daemon reads the request whole and creates the operation.             *)
start_command(c) ==
  /\ request[c] # None /\ proc[request[c]] \in {"serving", "closing"}
  /\ ran' = [ran EXCEPT ![c] = @ \cup {request[c]}]
  /\ request' = [request EXCEPT ![c] = None]
  /\ UNCHANGED <<proc, announced, routerToken, unit, service, caller>>

ApiRefuses(c) ==
  /\ request[c] # None /\ proc[request[c]] \in {"serving", "closing"}
  /\ request' = [request EXCEPT ![c] = None]
  /\ IF caller[c].pc = "sent" THEN Reach(c, "failed") ELSE UNCHANGED caller
  /\ UNCHANGED <<proc, announced, routerToken, unit, service, ran>>

Answered(c) ==
  /\ caller[c].pc = "sent" /\ request[c] = None /\ Runs(caller[c].at)
  /\ Reach(c, IF daemon_request(c) THEN "following" ELSE "done")
  /\ UNCHANGED <<proc, announced, routerToken, unit, service, request, ran>>

(* The kernel resets a connection whose request nobody read, and closes one  *)
(* whose request was read: the first looks like no daemon, the second like a *)
(* malformed answer.                                                         *)
ConnectionReset(c) ==
  /\ request[c] # None /\ proc[request[c]] # "serving"
  /\ request' = [request EXCEPT ![c] = None]
  /\ IF caller[c].pc = "sent" THEN Reach(c, NotRunning(c)) ELSE UNCHANGED caller
  /\ UNCHANGED <<proc, announced, routerToken, unit, service, ran>>

TruncatedAnswer(c) ==
  /\ caller[c].pc = "sent" /\ request[c] = None /\ ~Runs(caller[c].at)
  /\ Reach(c, "failed")
  /\ UNCHANGED <<proc, announced, routerToken, unit, service, request, ran>>

ReadTimesOut(c) ==
  /\ caller[c].pc = "sent"
  /\ Reach(c, "failed")
  /\ UNCHANGED <<proc, announced, routerToken, unit, service, request, ran>>

wait_for_terminal_event(c) ==
  /\ caller[c].pc = "following"
  /\ Reach(c, "polling")
  /\ UNCHANGED <<proc, announced, routerToken, unit, service, request, ran>>

(* Mutant: a daemon that no longer answers the poll counts as not running.   *)
PollFallsBack(c) == IF proc[caller[c].at] = "serving" THEN {"done", "failed"} ELSE {NotRunning(c)}

PollOutcome(c) == IF proc[caller[c].at] = "serving" THEN {"done", "failed"} ELSE {"failed"}

execute_if_running(c) ==
  /\ caller[c].pc = "polling"
  /\ \E outcome \in PollOutcome(c) : Reach(c, outcome)
  /\ UNCHANGED <<proc, announced, routerToken, unit, service, request, ran>>

RunAlone(c) ==
  /\ caller[c].pc = "alone"
  /\ Reach(c, "done") /\ ran' = [ran EXCEPT ![c] = @ \cup {0}]
  /\ UNCHANGED <<proc, announced, routerToken, unit, service, request>>

-----------------------------------------------------------------------------
(* apmpr daemon install: stop the daemon that answers, wait until none does, *)
(* write and enable the unit, wait until a daemon answers.                   *)
StopsDaemon ==
  /\ service = "idle" /\ announced # None
  /\ TRUE \in discovery_daemon_status(announced)
  /\ system_shutdown(announced) /\ service' = "stopping"
  /\ UNCHANGED <<announced, routerToken, unit, caller, request, ran>>

NoneAnswers ==
  /\ service \in {"idle", "stopping"}
  /\ \E found \in discovery_daemon_status(announced) :
       /\ ~found \/ service = "stopping"
       /\ service' = IF found THEN "failed" ELSE "writing"
  /\ UNCHANGED <<proc, announced, routerToken, unit, caller, request, ran>>

install ==
  /\ service = "writing"
  /\ service' \in {"enabling", "failed"}
  /\ UNCHANGED <<proc, announced, routerToken, unit, caller, request, ran>>

(* Enabling a unit whose process has not left yet starts nothing.            *)
install_systemd(d) ==
  /\ service = "enabling"
  /\ service' = "starting"
  /\ IF unit # None /\ Runs(unit) THEN UNCHANGED <<proc, routerToken, unit>> ELSE Boot(d) /\ unit' = d
  /\ UNCHANGED <<announced, caller, request, ran>>

BecomesReady ==
  /\ service = "starting"
  /\ \E found \in discovery_daemon_status(announced) : service' = IF found THEN "idle" ELSE "failed"
  /\ UNCHANGED <<proc, announced, routerToken, unit, caller, request, ran>>

InstallAgain ==
  /\ service = "failed" /\ service' = "idle"
  /\ UNCHANGED <<proc, announced, routerToken, unit, caller, request, ran>>

DaemonSteps ==
  \E d \in Daemons :
     \/ DaemonRun(d) \/ ServiceRestarts(d) \/ WriteToken(d) \/ discovery_listener_is_active(d)
     \/ start_with_backend(d) \/ BindFails(d) \/ daemon_stop(d) \/ cancel_and_wait(d)
     \/ ReadOwnDiscovery(d) \/ remove_discovery_if_owned(d) \/ ProcessKilled(d) \/ install_systemd(d)

CallerSteps ==
  \E c \in Terminals :
     \/ load_discovery(c) \/ json_request(c) \/ start_command(c) \/ ApiRefuses(c)
     \/ Answered(c) \/ ConnectionReset(c) \/ TruncatedAnswer(c) \/ ReadTimesOut(c)
     \/ wait_for_terminal_event(c) \/ execute_if_running(c) \/ RunAlone(c)

InstallSteps == StopsDaemon \/ NoneAnswers \/ install \/ BecomesReady \/ InstallAgain

DiscoveryNext == DaemonSteps \/ CallerSteps \/ InstallSteps

DiscoverySpec == DiscoveryInit /\ [][DiscoveryNext]_dvars

-----------------------------------------------------------------------------
(* A command is taken by at most one daemon or by the command line itself,   *)
(* and never by both: execute_if_running falls back to one-shot work only    *)
(* when no daemon can have read the request, whatever daemons stop, die, are *)
(* restarted or time out meanwhile.                                          *)
CommandsRunOnce == \A c \in Terminals : \A by, also \in ran[c] : by = also

=============================================================================

# A TLA+ verification project for APM ProjectRunner

This directory holds TLA+ models of APM ProjectRunner, the TLC instances that
check them and TLAPS proofs about them. It is kept beside the Rust workspace in
`src/crates`; every definition that models code is tied to its lines by the
`map` of `PROJECT.json`.

APM ProjectRunner runs several variants of a micro-service project at once. A
deployment places service instances into groups; every instance has a sidecar
router (or shares the host gateway), and a consumer is bound to the providers of
its group by the router's table. A daemon per project serves an HTTP API, runs
`apmpr` commands as cancellable operations, changes router tables while the
deployment runs, and keeps its records in SQLite. Commands, a terminal interface
and the daemon work on one project directory.

## 1. The system's parts

| Part | State | What makes it hard |
| --- | --- | --- |
| Mutation leases (`apmpr-state`) | `operation_locks` rows: owner token, expiry | clock readings taken before the lock, takeover after expiry, an old owner coming back |
| Daemon operations (`apmpr-daemon/server.rs`) | in-memory map, `operations` rows, cancellation channels, heavy-work permits, children | tasks interleave at every await and lock; crashes between memory and store; SQLite errors that are ignored |
| Event log (`EventLog` in `server.rs`) | deque, next id, terminal flag, waiters | four locks that are not taken together, eviction at capacity, lost wake-ups |
| Live moves (`apply_live_binding_with_admin`) | targets, attempts, plan files, `router_bindings` rows | lost replies, late requests, refused undo, crashes between routers, files and rows |
| Router process (`apmpr-router`, `router-core`, `router-tcp`, `router-pingora`) | snapshot, routes, open connections, requests | reloads racing accepts and requests, applies racing each other, shutdown with clients that stay |
| Packet rules (`transparent_interception.rs`) | chains of a network namespace | commands that fail or are cut short, and are repeated |
| Planner (`apmpr-planner`, `router-config`) | definition, device registry, plan on disk | routes derived from several sections; a plan read back in its resolved form |
| Command line runtime (`apmpr-cli`) | Compose projects here and on devices, manifest | one of several devices failing, kills between steps |
| Host gateway and publications (`host_runtime.rs`, `lan_preflight.rs`, `tailscale_publication.rs`) | processes, state files, socket, configuration | deaths between spawn and record, reused pids, moved ports |
| Sources (`apmpr-sources`) | rows, clone and worktree directories, host keys | several writers of one directory, and its user |
| Definitions, profiles and run actions | YAML files, rows, hashes | looks and writes of several authors |
| Discovery and service (`client.rs`, `daemon_service.rs`) | `daemon.json`, router token, unit | two daemons on one project, a daemon that stops under its caller |
| State database (`apmpr-state`) | devices, resources, schema version | devices out of reach, interrupted migrations |
| Managed identities (`host_gateway.rs`) | certificate, key, credential, markers | deaths between files, files of the user |
| Terminal interface (`apmpr-tui`) | jobs, operation gate, view | results that come back in any order |

`components` in `PROJECT.json` lists these and the parts that are left out.

## 2. Modules

| Module | Models | Extends |
| --- | --- | --- |
| `Nothing` | the constant that stands for "no value" | |
| `OperationLease` | the lease table; also the abstract specification that the daemon implements | |
| `DaemonOperations` | an operation's life in the daemon | `OperationLease` |
| `EventLog` | one operation's events and its streams | |
| `RouterSnapshots` | routers and their admin socket, as the daemon sees them | |
| `MembershipMove` | what a live move promises (abstract) | |
| `LiveBinding` | the live move | `RouterSnapshots`; refines `MembershipMove` |
| `TcpTransitions`, `TransparentForward`, `GatewayRequests` | raw TCP connections, redirected connections, HTTP requests | |
| `DataPlane` | the router process: applies, reload of every plane, shutdown | the three above |
| `RuleInterception` | the firewall rules of a sidecar | |
| `RouterConfig`, `HostRouting`, `DeploymentPlan` | configuration and lookups; the derived host router; definition, edits and plan | each extends the one before |
| `Overlays` | the layers of an instance's environment, parameters and files | |
| `ComposeProjects`, `HostGateway`, `Publications` | what outlives a command: Docker resources, the gateway, the publishers | |
| `DeploymentRuntime` | `apmpr up`, `down` and `cleanup` | the three above |
| `SourceLifecycle` | sources, clones, worktrees, host keys | |
| `StartupProfiles` | profiles, and definitions with several authors | |
| `TerminalShell`, `RunActions` | the interface's jobs; saved commands, previews and starts | |
| `DaemonDiscovery` | daemons, `daemon.json` and the commands that look for them | |
| `StateRecords` | devices, reconciliation, schema migrations | |
| `ManagedIdentities` | certificates, keys, credentials and their markers | |
| `DefinitionMigration` | the passes of `apmpr migrate` | |
| `MC...` | instances for TLC | |
| `...Proofs` | theorems (section 5) | |

An action is the code between two points where another task, process or message
can come in: an await, a lock, a SQLite transaction, a file write, a network
call. Names follow the source. Operators introduced by a comment "Mutant:" are
plausible errors; they are used by no specification, and each property is known
to fail when one of them takes the place of the definition that follows it.

`MCDaemonTimely`, `MCDataPlane` and `MCWorkspace` put components that do not
interact into one instance: a variable `focus`, chosen at the start, says which
of them a behaviour is about, and the others stay as they begin.

### Leases and operations

`holder`/`rowExpiry` are the row of a deployment (one caller's token or none),
`handle`/`expires` the `OperationLock` value a caller keeps. `Acquire(op, t)`,
`Extend(op, t)` and `LockLost(op, t)` take the clock reading the caller passes,
which may be any earlier time for `acquire_lock`. A token is the caller itself:
the code draws a fresh random token per acquisition and a caller acquires once.

In `DaemonOperations`, `phase[op]` is where the operation's handler or task is,
`status` the in-memory map, `durable` the `operations` row, `work` the child
process (or live move, or blocking clone), `disk`/`applied` whose plan is in the
artifact directory and in the store; `stray` is a history variable that marks
deployments in whose directory work without a lease wrote. `ReadClock`, `Admit`
and `Register` are `begin_operation`; `Start` to `PersistFails` are
`execute_operation` and `execute_clone_operation`; `FinishMemory`, `FinishStore`
and `FinishNotify` are `finish_operation`, one action per lock; `BeginDrain`,
`BeginJoin` and `Exit` are shutdown. The five kinds of operation differ as in
the code: a query has no lease, apply and clone need a permit, clone has no
heartbeat, apply and bind persist a snapshot. A crash leaves children running
and rows as they are. The instances have no query, which takes no part in what
their properties are about; the proofs cover every kind.

`Timely` says that the daemon's own tasks run within a tick of being due (TTL 15
s and heartbeat 5 s become 3 ticks and 1). `LeaseCoversWork` needs it: a daemon
suspended for longer than the TTL does lose its leases while its children run.

### Events

An event is its id. `Allocate`, `Push` and `Notify` are `emit`; `Subscribe`,
`Look`, `AskTerminal` and `Wake` are `next_after`. `woken` holds the streams whose
`Notified` future is complete (tokio completes the futures made before
`notify_waiters`). `late`, `last` and `sent` are history variables: ids pushed
behind a higher id, the terminal event's id, and what a client has processed.

### Live moves

A snapshot is a version and a table; `TableOf[r][g]` is the table that the planner
gives router `r` when the consumer is in group `g`, and `Health` says how a table
fares in validation and in the readiness probe ("flaky" may pass or fail each
time). A request that the daemon has given up on stays in the `inbox` and may be
handled later. `attempts` are the records handed to `record_router_apply`,
`file` the route files that choose the next move's targets and that a restarted
sidecar loads. `Faults` lists what may go wrong in an instance: cancellation,
unreachable routers, timeouts, disk and store errors, a crash of the daemon, and
sidecar restarts ("restart" at any time, "quiet restart" only between moves).

### The router process

`DataPlane` follows one process. Administration requests are tasks; an apply
takes `apply_lock`, awaits the readiness probes, swaps the snapshot
(`engine`), reloads the raw TCP listeners one by one and then the transparent
one, and answers. Connections register under the route lock and a reload takes
them under the same lock, then tells them of the transition one at a time; the
list of waiting connections is a set, so every order is covered. A redirected
connection looks at the group's members at once and tries them in order while
hosts come and go; `steady` is a history variable, the hosts that listened since
the accept. A request keeps the snapshot that it was routed by. Shutdown stops
the planes in the code's order, with its grace periods as steps that may happen
at any time. Bytes, headers and TLS are left out: a parser is one outcome.
`RuleInterception` runs the commands of `install` and `cleanup` one by one; the
process may be killed between two, a command of `install` may fail, and so may
the checks and removals whose results the code ignores (`ignored` records them).
An error of `accept` ends a raw listener, as in the code; the one that ends a
transparent listener or a managed proxy is left out, for after it there is only
less traffic.

### The planner

These modules are functions and edits of a definition, not processes. The
definition is a record of instances, groups, addresses, profiles and
dependencies; `plan` is what is written to disk. `DeploymentPlan` has the edits
that reach it, validation, generation, the move as the command line and as the
daemon plan it, and the classification of a change as live. Generated names are
tuples of their parts, so that no two collide. `Overlays` resolves one
environment key, one parameter and one file through the layers; key and
parameter may have the same name (`shared`), and then the parameter's values lie
under those of the environment.
`DefinitionMigration` runs each rewriting pass over a whole document.

### up, down and cleanup

`ComposeProjects`, `HostGateway` and `Publications` hold the state that outlives
a command and the elementary steps on it: the hashes on containers and volumes
of each place and the manifest; the gateway's process, configuration, state file
and socket; the publishers and their state files. `DeploymentRuntime` orders
these steps as `run` does in `main.rs`. `pc` is the next step of the command,
`todo` the projects it still has to bring up or tear down, and
`onStop`/`onQuiet` are where `stop` and `stop_publishers`, which are called from
several places, go on. One command runs at a time, as under the daemon's lease.
It may fail or be killed (`Killed`, what the daemon does to cancel it) between
any two steps, and the next command finds what it left. Processes die, pids are
reused, Docker moves published ports and daemons become unreachable at any time;
the definition is edited between commands. A pid with its start time is one
element of `Gateways`; the look at an identity and the `kill` that follows it
are one step, so the instant between the two is not covered. A plan is
abstracted to its resource hash, its places, its names and whether it has a
gateway and a tailnet record; sidecars, which only make the token mandatory, are
left out.

A process may get lost, and the models keep account of it. A command that is cut
short between `spawn` and `write_state`, or while a start that failed there is
cleaned up, leaves a gateway or a publisher that no record leads to. The router
binary may be another one for the next command (`Reinstall`); `inspect_process`
then takes the recorded gateway for a different process, and its state file is
removed without a signal to it. Such gateways are `strays`, and the names of such
publishers are in `loose`. The properties except exactly these. The status
text at `host_runtime.rs:371` says of a socket without a state file that "the
next up/down will recover it"; `up` does, but `stop` does nothing without a
state file.

### The project directory

`SourceLifecycle`: a directory is what Git says of it (kind, repository, commit,
uncommitted changes); requests of the daemon are one step under its store lock,
clones, worktree creation, removals and the preparation of sources by `up` are
several. `StartupProfiles`: authors create, replace, import and migrate one
definition file, each with the looks that its code takes before the write; a
history records which bodies were shown and imported. `TerminalShell` and
`RunActions`: background jobs report once and end; the file of actions is
rewritten in place and may be read truncated; a preview's hash is what it is a
hash of. `DaemonDiscovery`: a daemon number is a process, its port and its
token; a command line probes, hands over, follows and falls back; `ran` records
who took each command. `StateRecords`: reading the records and storing them are
two transactions, with answers of devices in between. `ManagedIdentities`: one
file per step, and a death between any two.

## 3. Runs

| Run | Instance | Checks |
| --- | --- | --- |
| `daemon_timely` | apply and live move of one deployment and an apply of another, 1 permit, TTL 3, clock 0..3, cancellation, no shutdown; and: 3 plans over the local daemon and a device, 2 gateway processes, 2 router binaries, 2 interchangeable ports, 2 names, 2 faults, any number of commands | `LeaseCoversWork`; `HealthyIsWhole`, `StoppedMeansStopped`, `NothingIsLost`, `ForeignUntouched` |
| `daemon_faults` | apply and live move of one deployment, TTL 2, clock 0..2; any SQLite call may fail, tasks are delayed at will, stop, crash, restart | `LeaseSpec` (refinement), `OldOwnerNeverDisturbs` |
| `daemon_liveness` | apply and clone for one permit, stop, crash, restart | `AnnouncedIsStable`, `ExitIsClean`, `CancelEnds`, `DrainEnds` |
| `daemon_queue_lease` | apply queued behind another, a `down` | violation of `MutationsSerialized` |
| `bind_reliable` | 3 routers, 4 groups, 4 moves, cancellation, a provider down, an invalid table | `AllOrNothing` (refinement) |
| `bind_faulty` | 2 routers, 3 groups, 2 moves, 2 faults of any kind but a restart during a move | `SettledInv`, `SucceededMoveStays`, `RowNotAhead`, `MoveEnds` |
| `bind_lost_reply` | 2 routers, 1 move, 1 timeout | violation of `NoPartialGroup` |
| `workspace` | five definitions with 2 edits, and overlays in every combination; 2 clients of 2 sources, 2 SSH hosts with 3 keys; 2 authors and 4 changes; 3 jobs; 2 daemons; 2 reconciliations and 3 changes; 2 commands on 4 files; old documents | `ComposeCanStart`, `AddressesReachTheirOwners`, `PageCallsStayInTheirGroup`, `ReuseIsSound`, `LastLayerWins`, `WorktreesAreKept`, `ApprovalsAreHonoured`, `ReviewedBeforeUse`, `EditsAreGuarded`, `GateIsNotStuck`, `ExecutedWasPreviewed`, `CommandsRunOnce`, `LostDevicesKeepTheirRecords`, `UserIdentitiesAreKept`, `MigrationKeepsConnections` |
| `shell_gate` | 3 jobs of the terminal interface | violation of `OneOperationAtATime` |
| `plan_move` | the planner's part of `workspace` | violation of `BrowserRoutesFollowMembership` |
| `plan_devices` | the same | violation of `ComposeReferencesResolve` |
| `data_plane` | 2 listeners, 2 connections, 3 hosts, 2 requests, 2 administration tasks, versions up to 3; 3 starts, 2 kills and 2 ignored failures of the rule commands; a log of capacity 3 with 2 readers and one lost connection (without it where the wait for the child fails) | `AcknowledgedIsServed`, `OlderConnectionsAreTold`, `FirstListenerServes`, `RequestsPinTheirSnapshot`, `RulesAreInOrder`, `StreamsAreComplete`, `ToldConnectionsEnd`, `ShutdownEnds`, `StreamEnds` |

What each property says is in the comment above it. Why the bounds are enough:
two mutations of one deployment are what a lease is about, and a third operation
lets one wait for the permit that another holds. A TTL of three ticks on a clock
that reaches three lets a lease be heartbeated, or expire and be taken over. One
crash and one restart reach every point of the finish sequence. A move over
three routers can fail at the first, a middle and the last target; the second
move meets the requests the first abandoned. A command that is killed and a
failure while the next one recovers are the two faults of the runtime, whose
commands and edits are not bounded. In the log, three retained events and more
emitted ones give eviction, reordering and resumption together. Two connections
of one listener, one told and one accepted after the reload, and a third version
are what a second reload can confuse. In `workspace` every race is between two
actors on one thing, and the bounds let each act and be overtaken. Where a
theorem states the property (section 5) the bound does not matter.

Symmetry is used for ports in `daemon_timely` only, whose properties are about
safety. Deadlock is not checked: in every instance the bounds on time, moves,
changes or jobs let behaviours come to an end, and the system itself may be idle.

### Where the code and its documents disagree

* `daemon_queue_lease`: the documentation says that mutations are heartbeated and
  that a second one gets HTTP 409. A mutation that waits for a permit does not
  heartbeat (`server.rs:4575`), so after 15 s a second one is admitted. A clone is
  never heartbeated (`server.rs:4361`).
* `bind_lost_reply`: the design forbids a partially applied group. A router whose
  reply is late is recorded as failed and not undone (`server.rs:678`), so it
  may serve the new group while the others serve the old one.
* `shell_gate`: only mutations are said to hold the operation gate. The end of a
  refresh releases it all the same (`shell.rs:748`), under a running operation.
* `plan_move`: browser routes are said to be derived from group membership. The
  daemon plans a move from the resolved file, where the derived router has become
  an explicit one (`server.rs:474`), and keeps the old routes.
* `plan_devices`: placements that cannot work are said to be reported. A service
  that depends on one of another device is accepted (`planner/lib.rs:3494`).

More behaviours follow from the models and bound what can be stated: the undo of
a move goes through the readiness probe and may be refused; targets are chosen by
comparing files, so a router left behind is skipped by the next move; a sidecar
restarted between its acknowledgement and the writing of its file comes back on
the old routes; an event stream may close between the terminal event's two looks
and get it only when its client reconnects; `down` after an edit that moves every
service to a device leaves the old local containers (`runtime.rs:328`); two
looks at a definition leave an instant before the rename; the undo of a cancelled
clone removes what was registered under its name meanwhile; `migrate` drops an
inherited member that is overridden in part with all it provides
(`migrate.rs:655`), where `PROGRESS.md:440` says that it refuses what would change
capabilities; the calls of a page at an address with capitals are refused; a
bundle edited after the hash check is what a queued action runs; the process that
a killed child has started may hold its output, and with it the operation, for
ever. The properties state these as their exceptions; the comments and the
`hazards` of `PROJECT.json` name them.

## 4. Fairness

`DaemonOperations` assumes weak fairness of every task step, of heartbeats and of
the drain: tokio polls what is ready. Nothing is assumed of a child process.
Cancelling kills the child only, and `run` awaits its output without a timeout, so
`CancelEnds` and `DrainEnds` carry the premise they need (`OutputEnds`): no
process that a killed child has left behind holds the output for ever. The live
move and the clone, which are not killed, end by themselves (every router call
has a timeout, and git ends). No fairness is assumed of requests, crashes or restarts.
`EventLog` assumes that a writer finishes an `emit` and that a stream whose
client reads is polled. `LiveBinding` assumes fairness of the daemon's own steps
and that an admin call ends: routers handle what was sent, or else the ten second
timeout fires, which is a fault of the instance. `DataPlane` assumes that a
reload goes on telling connections, that the steps of a shutdown follow each
other (its timers fire), that a connection's task connects, takes its notice and
meets its drain timeout, and that a listener stops accepting and joins. Nothing
is assumed of clients, so `ShutdownEnds` holds although they keep connections
open. The other instances state no liveness.

## 5. Proofs

The proofs hold for every value of the constants: any number of operations,
routers, connections, clients, files and steps, without the bounds of section 3.
What a theorem assumes beyond the named assumptions of its module is in its
`ASSUME`, and is what the model shows to be needed. The inductive invariants were
first checked by TLC.

| Module | Theorem | States | Assumes |
| --- | --- | --- | --- |
| `DaemonOperationsProofs` | `LeaseInvariance`, `LeaseSafety`, `RecoveredLeaseSafety` | `LeaseInv`, `LeaseExclusion`, `OldOwnerNeverDisturbs` of the lease table | |
| | `DaemonImplementsLease`, `DaemonLeaseSafety` | the daemon refines `LeaseSpec`; `LeaseExclusion` in it | |
| | `DaemonInvariance` | the daemon's inductive invariant `DaemonInv` | |
| | `AnnouncedStatusStable`, `GracefulExitClean` | `AnnouncedIsStable`, `ExitIsClean` | `~StoreFaults` |
| | `WorkIsCovered` | `LeaseCoversWork` | `Timely` |
| `LiveBindingProofs` | `SettledInvariance`, `SucceededMoveSafety`, `RowsStayBehind` | `SettledInv`, `SucceededMoveStays`, `RowNotAhead` | no "restart" among `Faults` |
| | `MoveImplementsPromise` | `LiveBinding` refines `MembershipMove` (`AllOrNothing`) | no faults but "cancel", no flaky health |
| `EventLogProofs` | `EventInvariance`, `NoEventSkipped` | `EventInv`, `StreamsAreComplete` | |
| `DataPlaneProofs` | `DataInvariance` | `DataInv` | |
| | `AcknowledgedServed`, `OlderConnectionsTold`, `FirstListenerIsReached`, `RequestsPinned` | `AcknowledgedIsServed`, `OlderConnectionsAreTold`, `FirstListenerServes`, `RequestsPinTheirSnapshot` | |
| `RuntimeProofs` | `ForeignStaysUntouched` | `ForeignUntouched` | |
| | `NothingGetsLost` | `NothingIsLost` | |
| | `RuntimeInvariance`, `StoppedIsStopped` | `RuntimeInv`, `StoppedMeansStopped` | plans with the same places |
| | `HealthyIsOfOnePlan` | `HealthyIsWhole` | the same, and plans with a service |
| `SourceProofs` | `SourcesInvariance`, `WorktreesKept`, `ApprovalsKept` | `SourcesInv`, `WorktreesAreKept`, `ApprovalsAreHonoured` | |
| `CommandProofs` | `ActionsInvariance`, `GateReleased`, `OnlyPreviewedRuns` | `ActionsInv`, `GateIsNotStuck`, `ExecutedWasPreviewed` | |
| | `DiscoveryInvariance`, `CommandTakenOnce` | `DiscoveryInv`, `CommandsRunOnce` | |
| `ProjectProofs` | `IdentitiesInvariance`, `UserIdentitiesKept` | `IdentitiesInv`, `UserIdentitiesAreKept` | |
| | `RecordsInvariance`, `LostDevicesRecorded` | `RecordsInv`, `LostDevicesKeepTheirRecords` | |
| | `ProfilesInvariance`, `ReviewPrecedesUse`, `EditsGuarded` | `ProfilesInv`, `ReviewedBeforeUse`, `EditsAreGuarded` | |

The arguments, and why the invariants are needed:

* Leases. `LeaseInv` says that a kept handle is its deployment's row, with the
  same expiry, or has expired. Exclusion alone is not inductive: a takeover is
  safe only if the old holder's copy of the expiry is not later than the row's.
  The daemon refines the protocol with one more invariant, `ClockInv`: a reading
  kept by a handler is not in the future.
* Operations. `LifeInv` ties the phase of an operation to its status, its
  channel and its handle. `AnnounceInv` adds that a status is in the store before
  it is announced, which makes eviction and recovery harmless; `RowsInv` that an
  operation has a lease row only until it has stored its outcome; `CoverInv` that
  a heartbeated operation beats before its row expires, which rests on
  `BeatEvery < Ttl` and on clones having keys of their own
  (`DaemonAssumption`). A SQLite call that fails in `finish_operation` is
  ignored by the code and does break the first two, hence `~StoreFaults`.
* Live moves. `SettledInv`: no request at a router is more than one version
  ahead of it, the only request that has a caller is the current target's, and
  a router that acknowledged the candidate has no newer one waiting. A restart
  takes acknowledged routes back and is excluded. For the refinement `WholeInv`
  adds that the one request waiting is the one the move has just sent, that files
  and routers follow the membership except where the candidate has been given,
  and that what is served has a provider that is up, so the undo is never refused.
  For the rows `KnownInv` says that every version the daemon has seen or written
  down is one that its router has reached.
* Events. `OrderInv`: an id that is not above its predecessors in the deque is in
  `late`. `CompleteInv`: what is kept, is not late and is not above a stream's
  position was processed by its client. `LastInv`: the terminal event has the
  highest id while neither a reader of the child's output nor the wait for the
  child failed: then the readers are not joined.
* Router process. `ControlInv`: one task is past `apply_lock`, and how far its
  reload is says which planes are ahead of the acknowledged snapshot. `TcpInv`:
  a connection with the listener's generation has its target and no notice, and
  an older one was told of the first reload after its accept or is still in that
  reload's hands. `FlowInv`: no member before the one being tried has listened
  all the while. `RequestInv`: a request's later phases agree with the snapshot
  it was routed by.
* Runtime. `RuntimeInv` says through which steps a command goes, where the record
  of a process may be behind the process, which places are done while `up` and
  teardown go through theirs, which processes are lost, and what is left after a
  reported success. Plans
  must have the same places: teardown visits those of the plan it is given, and
  the code does leave containers where only an earlier plan had services. A
  plan without any service has nothing whose status could be in sync.
* Project directory. The properties are action properties or relate a start to an
  earlier preview; each invariant carries what was read to the step that uses
  it: the files that a command past its check will replace are not the user's,
  a removal that saw changes was allowed to, what a reconciliation keeps is what
  it read, a request that is out has not been taken, a text on its way to the
  definition knows whether it was raced.

Named assumptions on constants: `LeaseAssumption`, `DaemonAssumption`,
`EventAssumption`, `RouterAssumption`, `LiveAssumption`, `RequestAssumption`,
`DataAssumption`, `RuntimeAssumption`, `SourceAssumption` and
`DiscoveryAssumption` are types of the constants, distinctness of marker values,
and facts of the code (a clone's key, heartbeat before TTL, every connection
comes to a configured listener). TLC evaluates each in a passing run.

Only model-checked:

* liveness (`MoveEnds`, `StreamEnds`, `ToldConnectionsEnd`, `ShutdownEnds`,
  `CancelEnds`, `DrainEnds`): fairness is out of the prover's reach;
* `ComposeCanStart`, `AddressesReachTheirOwners`, `PageCallsStayInTheirGroup`,
  `ReuseIsSound` and `MigrationKeepsConnections`, which are about recursive
  functions of a whole document, and would need induction over data;
* `LastLayerWins`, which compares a fold over the overlays with the last effect
  of their concatenation: induction over data again;
* `RulesAreInOrder`, whose state is finite but for the counters of kills, failures
  and starts, so that a proof would add little to TLC's enumeration.

## 6. Not modelled

Text and formats (Compose rendering, YAML, JSON, HTTP headers, log lines),
authentication and TLS, the byte-level parsers of the data planes, Docker, git
and SSH themselves (only their success or failure), adapters, diagnostics, and
the drawing of the terminal interface and the web console. `components` in
`PROJECT.json` gives the reason for each part.

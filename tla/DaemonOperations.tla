-------------------------- MODULE DaemonOperations --------------------------
(***************************************************************************)
(* The life of an operation in the daemon (crates/apmpr-daemon/src/        *)
(* server.rs): admission under a lease, the queue for a heavy-work permit, *)
(* the work itself with heartbeats and cancellation, persistence of the    *)
(* applied snapshot, the finish sequence, graceful shutdown, a crash of    *)
(* the process and the recovery of abandoned operations at the next start. *)
(*                                                                         *)
(* An action is the code between two points where another task can run or  *)
(* another lock is taken.  The lease table is module OperationLease; every *)
(* action below takes one of its steps or leaves it alone.                 *)
(***************************************************************************)
EXTENDS OperationLease, Sequences, FiniteSets

CONSTANTS
  KindOf,       \* what each operation was asked to do
  MaxHeavy,     \* max_heavy_operations
  Retention,    \* TERMINAL_OPERATION_RETENTION
  BeatEvery,    \* the heartbeat interval, in ticks
  Timely,       \* TRUE: the daemon's tasks run within a tick of being due
  StoreFaults,  \* TRUE: SQLite calls may fail
  MayStop,      \* TRUE: the daemon may be asked to shut down
  MaxCrashes,   \* bound on crashes
  MaxRestarts   \* bound on restarts

(* "apply" is Apply and a run action `up`; "bind" is Membership; "command"  *)
(* is Open, Down, Cleanup and a run action `down`; "query" is the rest.     *)
Kinds == {"apply", "bind", "command", "query", "clone"}

ASSUME DaemonAssumption ==
  /\ KindOf \in [Ops -> Kinds]
  /\ \A p, q \in Ops :   \* a clone's key is "source:<name>"
       DeploymentOf[p] = DeploymentOf[q] => (KindOf[p] = "clone") = (KindOf[q] = "clone")
  /\ MaxHeavy \in Nat \ {0}
  /\ Retention \in Nat \ {0}
  /\ BeatEvery \in Nat \ {0} /\ BeatEvery < Ttl
  /\ {Timely, StoreFaults, MayStop} \subseteq BOOLEAN
  /\ MaxCrashes \in Nat /\ MaxRestarts \in Nat

Mutating(op) == KindOf[op] # "query"
Heavy(op) == KindOf[op] \in {"apply", "clone"}
Persisting(op) == KindOf[op] \in {"apply", "bind"}
RunsChild(op) == KindOf[op] \in {"apply", "command", "query"}

VARIABLES
  daemon,     \* the process: serving, draining requests, joining tasks, or gone
  phase,      \* where the task (or the request handler) of an operation is
  clock,      \* started_at, read before the store is locked
  status,     \* the status in the in-memory map, "absent" when not there
  durable,    \* the status in the operations table
  cancelled,  \* the value of the cancellation watch channel
  lost,       \* lock_lost of execute_operation
  due,        \* when the next heartbeat ticks
  work,       \* the child process, or the blocking thread
  verdict,    \* the status the task is about to report
  plan,       \* what persist_applied_snapshot read from disk
  disk,       \* whose plan (or clone) is in the artifact directory
  applied,    \* whose plan the store records as applied
  stray,      \* history: work without an unexpired lease wrote its plan there
  terminal,   \* terminal_operations
  crashes,
  restarts

opVars == <<phase, clock, status, durable, cancelled, lost, due, work, verdict,
            plan, terminal>>
planVars == <<disk, applied, stray>>
lifeVars == <<daemon, crashes, restarts>>
vars == <<leaseVars, opVars, planVars, lifeVars>>

Active == {"pending", "running"}
Phases == {"new", "asking", "admitted", "rejected", "queued", "working",
           "joined", "recording", "closing", "ended", "stored", "done", "dead"}

Init ==
  /\ LeaseInit
  /\ daemon = "up"
  /\ phase = [op \in Ops |-> "new"]
  /\ clock = [op \in Ops |-> 0]
  /\ status = [op \in Ops |-> "absent"]
  /\ durable = [op \in Ops |-> "absent"]
  /\ cancelled = [op \in Ops |-> FALSE]
  /\ lost = [op \in Ops |-> FALSE]
  /\ due = [op \in Ops |-> 0]
  /\ work = [op \in Ops |-> "none"]
  /\ verdict = [op \in Ops |-> "none"]
  /\ plan = [op \in Ops |-> NoOp]
  /\ disk = [d \in Deployments |-> NoOp]
  /\ applied = [d \in Deployments |-> NoOp]
  /\ stray = [d \in Deployments |-> FALSE]
  /\ terminal = <<>>
  /\ crashes = 0
  /\ restarts = 0

-----------------------------------------------------------------------------
(* Admission: begin_operation and begin_clone_operation.                    *)

(* The handler reads the clock, then waits for the store.                   *)
ReadClock(op) ==
  /\ daemon = "up"
  /\ phase[op] = "new"
  /\ phase' = [phase EXCEPT ![op] = "asking"]
  /\ clock' = [clock EXCEPT ![op] = now]
  /\ UNCHANGED <<leaseVars, status, durable, cancelled, lost, due, work, verdict,
                 plan, terminal, planVars, lifeVars>>

(* acquire_lock for a mutation; a query goes on without a lease.            *)
Admit(op) ==
  /\ phase[op] = "asking"
  /\ IF Mutating(op) THEN Acquire(op, clock[op]) ELSE UNCHANGED leaseVars
  /\ phase' = [phase EXCEPT ![op] = "admitted"]
  /\ clock' = [clock EXCEPT ![op] = 0]
  /\ UNCHANGED <<status, durable, cancelled, lost, due, work, verdict, plan,
                 terminal, planVars, lifeVars>>

(* HTTP 409 operation_lock_contended, or an internal error.                 *)
Reject(op) ==
  /\ phase[op] = "asking"
  /\ Mutating(op)
  /\ Contended(op, clock[op]) \/ StoreFaults
  /\ Refuse(op)
  /\ phase' = [phase EXCEPT ![op] = "rejected"]
  /\ clock' = [clock EXCEPT ![op] = 0]
  /\ UNCHANGED <<status, durable, cancelled, lost, due, work, verdict, plan,
                 terminal, planVars, lifeVars>>

(* start_operation stores the pending row; then the map entry and the task. *)
Register(op) ==
  /\ phase[op] = "admitted"
  /\ phase' = [phase EXCEPT ![op] = "queued"]
  /\ status' = [status EXCEPT ![op] = "pending"]
  /\ durable' = [durable EXCEPT ![op] = "pending"]
  /\ UNCHANGED <<leaseVars, clock, cancelled, lost, due, work, verdict, plan,
                 terminal, planVars, lifeVars>>

(* Mutant: the row is deleted by deployment alone.                         *)
DeleteRow(op) ==
  IF ~Mutating(op) THEN UNCHANGED leaseVars
  ELSE /\ handle[op] = "held"
       /\ handle' = [handle EXCEPT ![op] = "gone"]
       /\ expires' = [expires EXCEPT ![op] = 0]
       /\ holder' = [holder EXCEPT ![DeploymentOf[op]] = NoOp]
       /\ rowExpiry' = [rowExpiry EXCEPT ![DeploymentOf[op]] = 0]
       /\ UNCHANGED now

(* release_lock for an operation that has a lease; its error is ignored.    *)
GiveBack(op) ==
  IF Mutating(op)
  THEN Release(op) \/ (StoreFaults /\ Drop({op}))
  ELSE UNCHANGED leaseVars

(* start_operation failed: give the lease back and refuse the request.      *)
RegisterFails(op) ==
  /\ StoreFaults
  /\ phase[op] = "admitted"
  /\ GiveBack(op)
  /\ phase' = [phase EXCEPT ![op] = "rejected"]
  /\ UNCHANGED <<clock, status, durable, cancelled, lost, due, work, verdict, plan,
                 terminal, planVars, lifeVars>>

-----------------------------------------------------------------------------
(* Execution: execute_operation and execute_clone_operation.                *)

(* A permit of the heavy semaphore is kept exactly while the work runs.     *)
PermitFree == Cardinality({op \in Ops : Heavy(op) /\ phase[op] = "working"}) < MaxHeavy

(* Past the select on permit and cancellation: set_running, then the first  *)
(* poll of the work and of the interval, whose first tick is immediate.     *)
Start(op) ==
  /\ phase[op] = "queued"
  /\ Heavy(op) => PermitFree
  /\ phase' = [phase EXCEPT ![op] = "working"]
  /\ status' = [status EXCEPT ![op] = "running"]
  /\ \/ durable' = [durable EXCEPT ![op] = "running"]
     \/ StoreFaults /\ UNCHANGED durable
  /\ work' = [work EXCEPT ![op] = "running"]
  /\ due' = [due EXCEPT ![op] = now]
  /\ UNCHANGED <<leaseVars, clock, cancelled, lost, verdict, plan, terminal,
                 planVars, lifeVars>>

(* Mutant: a queued operation does not listen to its cancellation.          *)
StaysQueued(op) == FALSE

(* cancellation_wait won the select: no permit was taken, nothing ran.      *)
CancelQueued(op) ==
  /\ phase[op] = "queued"
  /\ Heavy(op) /\ cancelled[op]
  /\ phase' = [phase EXCEPT ![op] = "closing"]
  /\ verdict' = [verdict EXCEPT ![op] = "cancelled"]
  /\ UNCHANGED <<leaseVars, clock, status, durable, cancelled, lost, due, work, plan,
                 terminal, planVars, lifeVars>>

(* Mutant: the lease of a cancelled operation is no longer extended.        *)
BeatsUnlessCancelled(op) ==
  /\ phase[op] = "working"
  /\ KindOf[op] # "clone" /\ handle[op] = "held" /\ ~lost[op] /\ ~cancelled[op]
  /\ due[op] <= now

(* A heartbeat tick; the interval makes up for missed ticks at once.  A     *)
(* clone has no heartbeat, nor has an operation that is joining lost work.  *)
Beating(op) ==
  /\ phase[op] = "working"
  /\ KindOf[op] # "clone" /\ handle[op] = "held" /\ ~lost[op]
  /\ due[op] <= now

Heartbeat(op) ==
  /\ Beating(op)
  /\ Extend(op, now)
  /\ due' = [due EXCEPT ![op] = @ + BeatEvery]
  /\ UNCHANGED <<phase, clock, status, durable, cancelled, lost, work, verdict, plan,
                 terminal, planVars, lifeVars>>

(* The heartbeat failed: cancel the work and wait for it.                   *)
HeartbeatFails(op) ==
  /\ Beating(op)
  /\ LockLost(op, now) \/ (StoreFaults /\ UNCHANGED leaseVars)
  /\ lost' = [lost EXCEPT ![op] = TRUE]
  /\ cancelled' = [cancelled EXCEPT ![op] = TRUE]
  /\ UNCHANGED <<phase, clock, status, durable, due, work, verdict, plan, terminal,
                 planVars, lifeVars>>

(* The `apmpr up` child or the live move writes its plan into the artifact  *)
(* directory.                                                               *)
WorkWrites(op) ==
  /\ Persisting(op)
  /\ work[op] = "running"
  /\ work' = [work EXCEPT ![op] = "wrote"]
  /\ disk' = [disk EXCEPT ![DeploymentOf[op]] = op]
  /\ stray' = [stray EXCEPT ![DeploymentOf[op]] = @ \/ ~Matches(op, now)]
  /\ UNCHANGED <<leaseVars, phase, clock, status, durable, cancelled, lost, due,
                 verdict, plan, terminal, applied, lifeVars>>

(* The child exits or the live move returns; a success has written.         *)
WorkEnds(op) ==
  /\ KindOf[op] # "clone"
  /\ work[op] \in {"running", "wrote"}
  /\ \E outcome \in {"failed"} \cup (IF Persisting(op) /\ work[op] = "running"
                                   THEN {} ELSE {"ok"}) :
       work' = [work EXCEPT ![op] = outcome]
  /\ UNCHANGED <<leaseVars, phase, clock, status, durable, cancelled, lost, due,
                 verdict, plan, terminal, planVars, lifeVars>>

(* The blocking section of a clone: git, then the registration under a name *)
(* that must be unused ...                                                  *)
CloneRegisters(op) ==
  /\ KindOf[op] = "clone"
  /\ work[op] = "running"
  /\ \/ /\ disk[DeploymentOf[op]] = NoOp
        /\ disk' = [disk EXCEPT ![DeploymentOf[op]] = op]
        /\ work' = [work EXCEPT ![op] = "wrote"]
     \/ UNCHANGED disk /\ work' = [work EXCEPT ![op] = "failed"]
  /\ UNCHANGED <<leaseVars, phase, clock, status, durable, cancelled, lost, due,
                 verdict, plan, terminal, applied, stray, lifeVars>>

(* ... then a look at the cancellation flag: remove what was made, or try   *)
(* to, for the errors are ignored.                                          *)
CloneEnds(op) ==
  /\ KindOf[op] = "clone"
  /\ work[op] = "wrote"
  /\ work' = [work EXCEPT ![op] = "ok"]
  /\ \/ cancelled[op] /\ disk' = [disk EXCEPT ![DeploymentOf[op]] = NoOp]
     \/ (cancelled[op] => StoreFaults) /\ UNCHANGED disk
  /\ UNCHANGED <<leaseVars, phase, clock, status, durable, cancelled, lost, due,
                 verdict, plan, terminal, applied, stray, lifeVars>>

(* The last process that holds the pipes of a killed child ends.            *)
PipesClose(op) ==
  /\ work[op] = "held"
  /\ work' = [work EXCEPT ![op] = "killed"]
  /\ UNCHANGED <<leaseVars, phase, clock, status, durable, cancelled, lost, due,
                 verdict, plan, terminal, planVars, lifeVars>>

WorkStep(op) ==
  \/ WorkWrites(op) \/ WorkEnds(op) \/ CloneRegisters(op) \/ CloneEnds(op) \/ PipesClose(op)

(* run and run_action see the cancellation and kill the child, and only     *)
(* that: a process that it has started, such as docker compose, writes to   *)
(* the same pipes and may live on ("held").                                 *)
KillWork(op) ==
  /\ phase[op] = "working"
  /\ RunsChild(op) /\ cancelled[op]
  /\ work[op] \in {"running", "wrote"}
  /\ \E end \in {"killed", "held"} : work' = [work EXCEPT ![op] = end]
  /\ UNCHANGED <<leaseVars, phase, clock, status, durable, cancelled, lost, due,
                 verdict, plan, terminal, planVars, lifeVars>>

(* How the backend may report work that is over.  When the child had        *)
(* already exited as the cancellation came, select picks either branch.     *)
Outcomes(op) ==
  {work[op]} \cup (IF RunsChild(op) /\ cancelled[op] THEN {"killed"} ELSE {})

(* execute_clone_operation looks at the cancellation flag once more after   *)
(* the blocking section, whatever that section did about it.                *)
CloneStatus(op, outcome) ==
  IF cancelled[op] THEN "cancelled"
  ELSE IF outcome = "ok" THEN "succeeded" ELSE "failed"

(* The final match of execute_operation: a lost lease is a failure whatever *)
(* the work did; a success may still have to persist.                       *)
CommandStatus(op, outcome) ==
  IF lost[op] \/ outcome = "failed" THEN "failed"
  ELSE IF outcome = "killed" THEN "cancelled" ELSE "succeeded"

StatusOf(op, outcome) ==
  IF KindOf[op] = "clone" THEN CloneStatus(op, outcome) ELSE CommandStatus(op, outcome)

(* The task takes the outcome, drops its permit and ends its heartbeats.    *)
(* The output of a child is read to its end before that (stdout_task).      *)
Join(op) ==
  /\ phase[op] = "working"
  /\ work[op] \in {"ok", "failed", "killed"}
  /\ \E outcome \in Outcomes(op) :
       LET s == StatusOf(op, outcome) IN
       /\ verdict' = [verdict EXCEPT ![op] = s]
       /\ phase' = [phase EXCEPT ![op] =
                      IF s = "succeeded" /\ Persisting(op) THEN "joined" ELSE "closing"]
  /\ work' = [work EXCEPT ![op] = "none"]
  /\ due' = [due EXCEPT ![op] = 0]
  /\ UNCHANGED <<leaseVars, clock, status, durable, cancelled, lost, plan, terminal,
                 planVars, lifeVars>>

(* persist_applied_snapshot loads the resolved deployment from disk ...     *)
PersistRead(op) ==
  /\ phase[op] = "joined"
  /\ phase' = [phase EXCEPT ![op] = "recording"]
  /\ plan' = [plan EXCEPT ![op] = disk[DeploymentOf[op]]]
  /\ UNCHANGED <<leaseVars, clock, status, durable, cancelled, lost, due, work, verdict,
                 terminal, planVars, lifeVars>>

(* ... and records it; the lease is not looked at again.                    *)
PersistRecord(op) ==
  /\ phase[op] = "recording"
  /\ phase' = [phase EXCEPT ![op] = "closing"]
  /\ applied' = [applied EXCEPT ![DeploymentOf[op]] = plan[op]]
  /\ plan' = [plan EXCEPT ![op] = NoOp]
  /\ UNCHANGED <<leaseVars, clock, status, durable, cancelled, lost, due, work, verdict,
                 terminal, disk, stray, lifeVars>>

(* The bundle does not load or plan, or the store refuses the snapshot.     *)
PersistFails(op) ==
  /\ phase[op] \in {"joined", "recording"}
  /\ phase' = [phase EXCEPT ![op] = "closing"]
  /\ verdict' = [verdict EXCEPT ![op] = "failed"]
  /\ plan' = [plan EXCEPT ![op] = NoOp]
  /\ UNCHANGED <<leaseVars, clock, status, durable, cancelled, lost, due, work,
                 terminal, planVars, lifeVars>>

-----------------------------------------------------------------------------
(* finish_operation, one action per lock it takes.                          *)

(* The in-memory status becomes terminal first.  The cancellation flag is   *)
(* never read again, and the local variables of the task are out of use.    *)
FinishMemory(op) ==
  /\ phase[op] = "closing"
  /\ phase' = [phase EXCEPT ![op] = "ended"]
  /\ status' = [status EXCEPT ![op] = verdict[op]]
  /\ cancelled' = [cancelled EXCEPT ![op] = FALSE]
  /\ lost' = [lost EXCEPT ![op] = FALSE]
  /\ UNCHANGED <<leaseVars, clock, durable, due, work, verdict, plan, terminal,
                 planVars, lifeVars>>

(* Under the store's mutex: update_operation, then release_lock; the errors *)
(* of both are ignored.                                                     *)
FinishStore(op) ==
  /\ phase[op] = "ended"
  /\ phase' = [phase EXCEPT ![op] = "stored"]
  /\ \/ durable' = [durable EXCEPT ![op] = verdict[op]]
     \/ StoreFaults /\ UNCHANGED durable
  /\ GiveBack(op)
  /\ UNCHANGED <<clock, status, cancelled, lost, due, work, verdict, plan, terminal,
                 planVars, lifeVars>>

(* The terminal event, the retention queue and notify_waiters.  The oldest  *)
(* terminal operation leaves the map when the queue is over its limit.      *)
FinishNotify(op) ==
  /\ phase[op] = "stored"
  /\ phase' = [phase EXCEPT ![op] = "done"]
  /\ LET queue == Append(terminal, op) IN
       IF Len(queue) > Retention
       THEN /\ terminal' = Tail(queue)
            /\ status' = [status EXCEPT ![Head(queue)] = "absent"]
       ELSE terminal' = queue /\ UNCHANGED status
  /\ UNCHANGED <<leaseVars, clock, durable, cancelled, lost, due, work, verdict, plan,
                 planVars, lifeVars>>

-----------------------------------------------------------------------------
(* Cancellation, shutdown, crash and restart.                               *)

(* cancel_operation: 404 when absent, 409 when terminal, else the flag.     *)
CancelRequest(op) ==
  /\ daemon = "up"
  /\ status[op] \in Active
  /\ ~cancelled[op]
  /\ cancelled' = [cancelled EXCEPT ![op] = TRUE]
  /\ UNCHANGED <<leaseVars, phase, clock, status, durable, lost, due, work, verdict,
                 plan, terminal, planVars, lifeVars>>

(* request_cancellation: every operation of the map that is not terminal.   *)
RequestCancellation ==
  cancelled' = [op \in Ops |-> cancelled[op] \/ status[op] \in Active]

(* The shutdown signal reaches the server: cancel, accept nothing new.      *)
BeginDrain ==
  /\ MayStop
  /\ daemon = "up"
  /\ daemon' = "draining"
  /\ RequestCancellation
  /\ UNCHANGED <<leaseVars, phase, clock, status, durable, lost, due, work, verdict,
                 plan, terminal, planVars, crashes, restarts>>

(* Mutant: the operations are cancelled once only.                          *)
JoinWithoutCancelling ==
  /\ daemon = "draining"
  /\ \A op \in Ops : phase[op] \notin {"asking", "admitted"}
  /\ daemon' = "joining"
  /\ UNCHANGED <<leaseVars, opVars, planVars, crashes, restarts>>

(* The requests in flight are answered; cancel_and_wait cancels once more,  *)
(* for an operation that one of them began.                                 *)
BeginJoin ==
  /\ daemon = "draining"
  /\ \A op \in Ops : phase[op] \notin {"asking", "admitted"}
  /\ daemon' = "joining"
  /\ RequestCancellation
  /\ UNCHANGED <<leaseVars, phase, clock, status, durable, lost, due, work, verdict,
                 plan, terminal, planVars, crashes, restarts>>

(* The process forgets its map; nothing of the tasks in P is left.          *)
ForgetMemory(P) ==
  /\ phase' = [op \in Ops |-> IF phase[op] \in P THEN "dead" ELSE phase[op]]
  /\ status' = [op \in Ops |-> "absent"]
  /\ cancelled' = [op \in Ops |-> FALSE]
  /\ lost' = [op \in Ops |-> FALSE]
  /\ clock' = [op \in Ops |-> 0]
  /\ due' = [op \in Ops |-> 0]
  /\ plan' = [op \in Ops |-> NoOp]
  /\ terminal' = <<>>

(* Mutant: the wait is for pending operations only.                         *)
NothingPending == \A op \in Ops : status[op] # "pending"

(* cancel_and_wait sees no active operation; dropping the runtime lets a    *)
(* finish_operation that is under way run to its end.                       *)
NothingActive ==
  \A op \in Ops : status[op] \notin Active /\ phase[op] \notin {"ended", "stored"}

Exit ==
  /\ daemon = "joining"
  /\ NothingActive
  /\ daemon' = "exited"
  /\ ForgetMemory({})
  /\ UNCHANGED <<leaseVars, durable, work, verdict, planVars, crashes, restarts>>

(* The process is killed.  Its threads and handles die with it; its child   *)
(* processes do not, and the rows it wrote stay.                            *)
Crash ==
  /\ daemon \in {"up", "draining", "joining"}
  /\ crashes < MaxCrashes
  /\ daemon' = "crashed"
  /\ crashes' = crashes + 1
  /\ Drop({op \in Ops : handle[op] = "held"})
  /\ ForgetMemory(Phases \ {"new", "rejected", "done"})
  /\ work' = [op \in Ops |->
                IF ~RunsChild(op) /\ work[op] \in {"running", "wrote"} THEN "killed"
                ELSE work[op]]
  /\ UNCHANGED <<durable, verdict, planVars, restarts>>

(* Mutant: every row of the table is marked as failed.                      *)
RecoverEvery(s) == IF s = "absent" THEN s ELSE "failed"

(* recover_abandoned_operations: daemon_restarted for what was not over.    *)
Recover(s) == IF s \in Active THEN "failed" ELSE s

(* prepare: recover_abandoned_operations, then an empty map.                *)
Restart ==
  /\ daemon \in {"exited", "crashed"}
  /\ restarts < MaxRestarts
  /\ daemon' = "up"
  /\ restarts' = restarts + 1
  /\ durable' = [op \in Ops |-> Recover(durable[op])]
  /\ UNCHANGED <<leaseVars, phase, clock, status, cancelled, lost, due, work, verdict,
                 plan, terminal, planVars, crashes>>

(* A step that the daemon's own scheduler owes to operation op.  Taking the *)
(* outcome of a child is not one: its output is read to the end first, and  *)
(* its descendants may keep the pipes open.                                 *)
Urgent(op) ==
  \/ phase[op] \in {"asking", "admitted", "joined", "recording", "closing", "ended", "stored"}
  \/ phase[op] = "queued" /\ (Heavy(op) => PermitFree \/ cancelled[op])
  \/ phase[op] = "working" /\ work[op] \in {"ok", "failed", "killed"} /\ ~RunsChild(op)
  \/ Beating(op)

PassTime ==
  /\ Timely => \A op \in Ops : ~Urgent(op)
  /\ Tick
  /\ UNCHANGED <<opVars, planVars, lifeVars>>

TaskStep(op) ==
  \/ Admit(op) \/ Reject(op) \/ Register(op) \/ RegisterFails(op)
  \/ Start(op) \/ CancelQueued(op) \/ KillWork(op) \/ Join(op)
  \/ PersistRead(op) \/ PersistRecord(op) \/ PersistFails(op)
  \/ FinishMemory(op) \/ FinishStore(op) \/ FinishNotify(op)

Beat(op) == Heartbeat(op) \/ HeartbeatFails(op)

Next ==
  \/ PassTime
  \/ \E op \in Ops : ReadClock(op) \/ TaskStep(op) \/ Beat(op) \/ CancelRequest(op)
                    \/ WorkStep(op)
  \/ BeginDrain \/ BeginJoin \/ Exit \/ Crash \/ Restart

Spec == Init /\ [][Next]_vars

(* The runtime polls every task and timer; the live move and the clone,     *)
(* which cannot be killed, end by themselves (every router call has a       *)
(* timeout, and git ends).  Nothing is assumed of a child process, nor of   *)
(* the processes it leaves behind: docker compose logs --follow may keep    *)
(* the pipes of a killed child open for ever.                               *)
Fairness ==
  /\ \A op \in Ops :
       /\ WF_vars(TaskStep(op)) /\ WF_vars(Beat(op))
       /\ WF_vars(~RunsChild(op) /\ WorkStep(op))
  /\ WF_vars(BeginJoin) /\ WF_vars(Exit)

FairSpec == Spec /\ Fairness

-----------------------------------------------------------------------------
(* While the daemon is scheduled in time, work that is past its last        *)
(* heartbeat tick runs under an unexpired lease row of its own.  So at most *)
(* one heartbeated mutation works on a deployment, although admission looks *)
(* at a stale clock reading and a heavy operation may have waited so long   *)
(* for its permit that its lease expired and was taken over.  And so a      *)
(* successful apply or bind records the plan it wrote itself, although      *)
(* persist_applied_snapshot re-reads the artifact directory after the work  *)
(* and does not look at the lease again; unless work wrote there that had   *)
(* begun after its lease expired in the queue, or outlived its daemon.      *)
LeaseCoversWork ==
  \A op \in Ops :
    /\ /\ phase[op] = "working" /\ Mutating(op) /\ KindOf[op] # "clone"
       /\ ~lost[op] /\ ~Beating(op)
       => holder[DeploymentOf[op]] = op /\ rowExpiry[DeploymentOf[op]] > now
    /\ phase[op] = "recording" => plan[op] = op \/ stray[DeploymentOf[op]]

(* The status that GET /operations/{id} answers: map first, then store.     *)
Reported(op) == IF status[op] # "absent" THEN status[op] ELSE durable[op]

(* Once the terminal event of an operation is out, get_operation answers    *)
(* the announced status for ever: across eviction from the map, shutdown,   *)
(* a crash at any point and recover_abandoned_operations.                   *)
AnnouncedIsStable ==
  \A op \in Ops : phase[op] = "done" => Reported(op) = verdict[op]

(* After a graceful exit nothing is left behind: no pending or running row, *)
(* no lease row of a finished operation, no work still going on, even for   *)
(* an operation whose request was being answered when the drain began.      *)
ExitIsClean ==
  daemon = "exited" =>
    /\ \A op \in Ops : phase[op] # "dead" =>
         durable[op] \notin Active /\ work[op] \notin {"running", "wrote"}
    /\ \A d \in Deployments : holder[d] # NoOp => phase[holder[d]] = "dead"

(* What is left of a killed child does not keep its output open for ever.   *)
OutputEnds(op) == []<>(work[op] # "held")

(* A cancelled operation ends: a queued one leaves the queue, a child is    *)
(* killed, and the task goes through the whole finish sequence; unless a    *)
(* process that the child has started (`docker compose logs --follow` of    *)
(* `apmpr logs`) holds its output for ever: only the child is killed, and   *)
(* run awaits the readers of its output without a timeout.                  *)
CancelEnds ==
  \A op \in Ops : OutputEnds(op) => (cancelled[op] ~> phase[op] \in {"done", "dead"})

(* A drain comes to an end, whatever the children do and although requests  *)
(* begin operations meanwhile (cancel_and_wait cancels once more); unless a *)
(* process that a killed child has left behind holds its output for ever.   *)
DrainEnds ==
  (\A op \in Ops : OutputEnds(op)) => (daemon = "draining" ~> daemon \in {"exited", "crashed"})

(* Mutations of one deployment are serialized: "A second mutation receives  *)
(* HTTP 409 and operation_lock_contended" (docs/control-plane-api.md:378).  *)
InProgress(op) == phase[op] \in {"queued", "working"} /\ Mutating(op) /\ ~lost[op]

MutationsSerialized ==
  \A p, q \in Ops :
    p # q /\ DeploymentOf[p] = DeploymentOf[q] => ~(InProgress(p) /\ InProgress(q))
=============================================================================

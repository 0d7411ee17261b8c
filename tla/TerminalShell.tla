---------------------------- MODULE TerminalShell ----------------------------
(***************************************************************************)
(* The terminal interface's jobs.  The window runs on one thread; work it  *)
(* starts runs on background tasks that report back to it: one result, and *)
(* the end of the task.  A project job (register, worktree, import, check) *)
(* and a child process (up, down, move, a run action) pass the operation   *)
(* gate; a refresh only reads and does not.  Every job that touches        *)
(* project state loads it anew before it reports, and the window shows     *)
(* what it was handed last.                                                *)
(***************************************************************************)
EXTENDS Nothing, Naturals

CONSTANT MaxJobs

VARIABLES
  project,  \* what ProjectState::load reads from the project directory
  view,     \* what the window shows
  gate,     \* OperationGate::running
  jobs,     \* the tasks that have not ended
  started,  \* how many tasks were started, bounded by MaxJobs
  running,  \* operation_log: the last entry has no outcome yet
  moving,   \* pending_membership_move: the task of the move, or None
  report    \* the result that was shown for the last move, or None

tvars == <<view, gate, jobs, started, running, moving, report>>

(* The window opens on the project as it is.                                *)
ShellInit ==
  /\ view = project /\ gate = FALSE /\ jobs = {} /\ started = 0
  /\ running = FALSE /\ moving = None /\ report = None

-----------------------------------------------------------------------------
Job(kind) == [id |-> started + 1, kind |-> kind, pc |-> "working", loaded |-> None, ok |-> FALSE]

Spawn(kind, others) ==
  /\ started < MaxJobs
  /\ started' = started + 1
  /\ jobs' = others \cup {Job(kind)}

try_start == ~gate /\ gate' = TRUE

(* F5 is never refused.                                                     *)
refresh_state ==
  /\ Spawn("refresh", jobs)
  /\ UNCHANGED <<project, view, gate, running, moving, report>>

start_state_job ==
  /\ try_start
  /\ Spawn("change", jobs)
  /\ UNCHANGED <<project, view, running, moving, report>>

(* The task announces the operation before it starts the child.             *)
start_operation ==
  /\ try_start
  /\ Spawn("operation", jobs)
  /\ running' = TRUE

run_instance_command == start_operation /\ UNCHANGED <<project, view, moving, report>>

switch_connection ==
  /\ start_operation
  /\ moving' = started + 1 /\ report' = None
  /\ UNCHANGED <<project, view>>

-----------------------------------------------------------------------------
At(j, pc) == [j EXCEPT !.pc = pc]

Becomes(j, k) == jobs' = (jobs \ {j}) \cup {k}

(* What a project job writes is the business of other modules; it always    *)
(* ends with a load.                                                        *)
execute_state_job(j) ==
  /\ j.pc = "working" /\ j.kind \in {"refresh", "change"}
  /\ Becomes(j, [At(j, "reported") EXCEPT !.loaded = project])
  /\ UNCHANGED <<project, view, gate, started, running, moving, report>>

(* The child exits with success or without.                                 *)
execute(j) ==
  /\ j.pc = "working" /\ j.kind = "operation"
  /\ \E ok \in BOOLEAN : Becomes(j, [At(j, "reported") EXCEPT !.ok = ok])
  /\ UNCHANGED <<project, view, gate, started, running, moving, report>>

(* A task can end without a report.                                         *)
JobDies(j) ==
  /\ j.pc = "working"
  /\ Becomes(j, At(j, "ended"))
  /\ UNCHANGED <<project, view, gate, started, running, moving, report>>

-----------------------------------------------------------------------------
on_update(j) ==
  /\ j.pc = "reported" /\ j.kind \in {"refresh", "change"}
  /\ view' = j.loaded
  /\ gate' = (gate /\ j.kind = "refresh")
  /\ Becomes(j, At(j, "ended"))
  /\ UNCHANGED <<project, started, running, moving, report>>

(* Whatever the task was.                                                   *)
on_finish(j) ==
  /\ j.pc = "ended" /\ j.kind \in {"refresh", "change"}
  /\ gate' = FALSE
  /\ jobs' = jobs \ {j}
  /\ UNCHANGED <<project, view, started, running, moving, report>>

finish_membership_move(ok) ==
  /\ moving' = None
  /\ report' = IF moving = None THEN report ELSE [move |-> moving, ok |-> ok]

(* The end of an operation, told by the window; a success, or a move,       *)
(* brings a refresh.                                                        *)
OperationOver(ok, others) ==
  /\ gate' = FALSE /\ running' = FALSE
  /\ finish_membership_move(ok)
  /\ IF (ok \/ moving # None) /\ started < MaxJobs
     THEN Spawn("refresh", others)
     ELSE jobs' = others /\ started' = started

apply_operation_update(j) ==
  /\ j.pc = "reported" /\ j.kind = "operation"
  /\ OperationOver(j.ok, (jobs \ {j}) \cup {At(j, "ended")})
  /\ UNCHANGED <<project, view>>

(* Released only with the entry of the log.                                 *)
ReleasesNothing(j) ==
  /\ j.pc = "ended" /\ j.kind = "operation"
  /\ jobs' = jobs \ {j}
  /\ UNCHANGED <<project, view, gate, started, running, moving, report>>

finish_operation_task(j) ==
  /\ j.pc = "ended" /\ j.kind = "operation"
  /\ IF running
     THEN OperationOver(FALSE, jobs \ {j})
     ELSE jobs' = jobs \ {j} /\ UNCHANGED <<gate, started, running, moving, report>>
  /\ UNCHANGED <<project, view>>

-----------------------------------------------------------------------------
(* What the tasks do, and what the window does.                             *)
TasksNext == \E j \in jobs : execute_state_job(j) \/ execute(j) \/ JobDies(j)

WindowNext ==
  \/ refresh_state \/ start_state_job \/ run_instance_command \/ switch_connection
  \/ \E j \in jobs : on_update(j) \/ on_finish(j) \/ apply_operation_update(j) \/ finish_operation_task(j)

-----------------------------------------------------------------------------
(* A gate that is held is held by work that will still end: no order of     *)
(* results, deaths and refreshes leaves the interface refusing everything   *)
(* with "Another project operation is already running.".                    *)
GateIsNotStuck == gate => \E j \in jobs : j.kind # "refresh"

(* The gate's promise (tasks.rs:52-59): while one project operation is      *)
(* running, another is refused.                                             *)
OneOperationAtATime ==
  \A i, j \in jobs :
    i.kind # "refresh" /\ j.kind # "refresh" /\ i.pc = "working" /\ j.pc = "working" => i = j
=============================================================================

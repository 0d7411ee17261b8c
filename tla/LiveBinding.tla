----------------------------- MODULE LiveBinding -----------------------------
(***************************************************************************)
(* A live membership move (apply_live_binding_with_admin and               *)
(* rollback_applied_targets in crates/apmpr-daemon/src/server.rs): the     *)
(* daemon takes one consumer to another group by giving every router whose *)
(* table changes a new snapshot, one router after the other, undoes the    *)
(* routers already changed when one fails, writes the new plan to disk and *)
(* records every attempt (record_router_apply of crates/apmpr-state).      *)
(*                                                                         *)
(* One consumer moves, one move at a time: the lease of the deployment     *)
(* (module OperationLease) serializes moves.  Versions start at 1 and grow *)
(* by one per snapshot, so the version_exhausted errors (u64 and i64       *)
(* overflow) are out of reach and left out.  A refusal before the first    *)
(* router is touched (planning, drift) changes nothing and is left out.    *)
(***************************************************************************)
EXTENDS RouterSnapshots, Sequences

CONSTANTS
  Host,      \* the host gateway, a router without a route instance
  Rank,      \* the order of the targets: sidecars by name, then the gateway
  Groups,
  TableOf,   \* the table the planner gives a router for the consumer's group
  Faults,    \* what may go wrong
  MaxMoves, MaxFaults

FaultKinds ==
  {"cancel", "unreachable", "timeout", "disk", "store", "crash",
   "restart", "quiet restart"}

ASSUME LiveAssumption ==
  /\ Rank \in [Routers -> Nat]
  /\ \A r, s \in Routers : Rank[r] = Rank[s] => r = s
  /\ TableOf \in [Routers -> [Groups -> Tables]]
  /\ Faults \subseteq FaultKinds
  /\ MaxMoves \in Nat /\ MaxFaults \in Nat

VARIABLES
  pc,        \* where the move is
  goal,      \* the group the consumer moves to
  todo,      \* targets not yet updated; route files not yet written
  done,      \* applied
  seen,      \* the snapshot last observed at a router
  attempts,  \* the router_attempt records of the move, oldest first
  membership, \* the group in resolved-deployment.yaml
  file,      \* routes/<instance>.json and the gateway's host-router.json
  row,       \* router_bindings, per router
  outcome,   \* how the last move ended
  moves, faults   \* counted for the bounds

moveVars == <<pc, goal, todo, done, seen, attempts>>
diskVars == <<membership, file>>
boundVars == <<moves, faults>>
vars == <<routerVars, moveVars, diskVars, row, outcome, boundVars>>

Phases == {"idle", "next", "await", "undo", "undo await",
           "write host", "write plan", "write routes", "record"}
NoSnapshot == [version |-> 0, table |-> "none"]
NoRow == [current |-> NoSnapshot, previous |-> NoSnapshot,
          observed |-> NoSnapshot, status |-> "none"]

(* Types, and that a move keeps track of its targets: while routers are     *)
(* being changed a target is either still to do or done.                    *)
MoveTypeOK ==
  /\ RouterTypeOK
  /\ pc \in Phases
  /\ goal \in Groups /\ membership \in Groups
  /\ todo \subseteq Routers /\ done \subseteq Routers
  /\ seen \in [Routers -> Snapshots] /\ file \in [Routers -> Snapshots]
  /\ outcome \in {"none", "succeeded", "failed", "crashed"}
  /\ pc \in {"next", "await"} => todo # {}
  /\ pc \in {"next", "await", "undo", "undo await"} => todo \cap done = {}
(* `up` has started the routers on files whose providers were ready.        *)
Init ==
  /\ membership \in Groups /\ goal = membership
  /\ \A r \in Routers : Health[TableOf[r][membership]] \in {"up", "flaky"}
  /\ active = [r \in Routers |-> Snapshot(1, TableOf[r][membership])]
  /\ file = active /\ seen = active
  /\ inbox = [r \in Routers |-> {}] /\ reply = "none"
  /\ pc = "idle" /\ todo = {} /\ done = {} /\ attempts = <<>>
  /\ row = [r \in Routers |-> NoRow]
  /\ outcome = "none" /\ moves = 0 /\ faults = 0

-----------------------------------------------------------------------------
(* The move, router by router.                                              *)

Candidate(r) == Snapshot(seen[r].version + 1, TableOf[r][goal])
Previous(r) == Snapshot(seen[r].version + 1, file[r].table)

Attempt(r, snapshot, status, observed, error) ==
  Append(attempts, [router |-> r, snapshot |-> snapshot, status |-> status,
                    observed |-> observed, error |-> error])

(* What an undo tried is recorded even where the record itself is refused.  *)
rollback_attempt(r, status, error) == Attempt(r, Previous(r), status, seen[r], error)

Fault(kind) ==
  /\ kind \in Faults /\ faults < MaxFaults
  /\ faults' = faults + 1

(* Routers whose candidate equals the file are not targets.                 *)
Targets(g) == {r \in Routers : TableOf[r][g] # file[r].table}

First(r, S) == r \in S /\ \A s \in S : Rank[r] <= Rank[s]
Last(r, S) == r \in S /\ \A s \in S : Rank[s] <= Rank[r]

BeginMove(g) ==
  /\ pc = "idle" /\ moves < MaxMoves
  /\ Targets(g) # {}
  /\ moves' = moves + 1
  /\ goal' = g /\ todo' = Targets(g) /\ done' = {} /\ attempts' = <<>>
  /\ pc' = "next" /\ outcome' = "none"
  /\ UNCHANGED <<routerVars, seen, diskVars, row, faults>>

(* router_missing                                                           *)
RefuseMove(g) ==
  /\ pc = "idle" /\ moves < MaxMoves
  /\ Targets(g) = {}
  /\ moves' = moves + 1
  /\ outcome' = "failed"
  /\ UNCHANGED <<routerVars, moveVars, diskVars, row, faults>>

(* The cancellation flag is looked at before every router.                  *)
SeeCancelled ==
  /\ pc = "next"
  /\ Fault("cancel")
  /\ pc' = "undo"
  /\ UNCHANGED <<routerVars, goal, todo, done, seen, attempts, diskVars, row,
                 outcome, moves>>

Unreachable(r) ==
  /\ pc = "next" /\ First(r, todo)
  /\ Fault("unreachable")
  /\ attempts' = Attempt(r, Snapshot(1, TableOf[r][goal]), "failed",
                         NoSnapshot, TRUE)
  /\ pc' = "undo"
  /\ UNCHANGED <<routerVars, goal, todo, done, seen, diskVars, row, outcome,
                 moves>>

(* current_snapshot, then apply_snapshot with the next version.             *)
Apply(r) ==
  /\ pc = "next" /\ First(r, todo)
  /\ seen' = [seen EXCEPT ![r] = active[r]]
  /\ Submit(r, active[r].version + 1, TableOf[r][goal])
  /\ pc' = "await"
  /\ UNCHANGED <<active, goal, todo, done, attempts, diskVars, row, outcome,
                 boundVars>>

(* Mutant: the status of the acknowledgement is not looked at.              *)
AcknowledgedStale(r) ==
  /\ pc = "await" /\ First(r, todo) 
  /\ reply \in {"activated", "rejected_stale"}
  /\ attempts' = Attempt(r, Candidate(r), "active", seen[r], FALSE)
  /\ done' = done \cup {r} /\ todo' = todo \ {r}
  /\ pc' = IF todo' = {} THEN "write host" ELSE "next"
  /\ reply' = "none"
  /\ UNCHANGED <<active, inbox, goal, seen, diskVars, row, outcome, boundVars>>

Acknowledged(r) ==
  /\ pc = "await" /\ First(r, todo) /\ reply = "activated"
  /\ attempts' = Attempt(r, Candidate(r), "active", seen[r], FALSE)
  /\ done' = done \cup {r} /\ todo' = todo \ {r}
  /\ pc' = IF todo' = {} THEN "write host" ELSE "next"
  /\ reply' = "none"
  /\ UNCHANGED <<active, inbox, goal, seen, diskVars, row, outcome, boundVars>>

(* Mutant: a stale acknowledgement is not a failure.                        *)
RefusedUnhealthy(r) ==
  /\ pc = "await" /\ First(r, todo) 
  /\ reply \in {"unhealthy", "rejected", "broken"}
  /\ attempts' = Attempt(r, Candidate(r),
                   IF reply = "unhealthy" THEN "rolled_back" ELSE "failed",
                   seen[r], TRUE)
  /\ pc' = "undo"
  /\ reply' = "none"
  /\ UNCHANGED <<active, inbox, goal, todo, done, seen, diskVars, row, outcome,
                 boundVars>>

Refused(r) ==
  /\ pc = "await" /\ First(r, todo) /\ reply \notin {"none", "activated"}
  /\ attempts' = Attempt(r, Candidate(r),
                   IF reply = "unhealthy" THEN "rolled_back" ELSE "failed",
                   seen[r], TRUE)
  /\ pc' = "undo"
  /\ reply' = "none"
  /\ UNCHANGED <<active, inbox, goal, todo, done, seen, diskVars, row, outcome,
                 boundVars>>

TimedOut(r) ==
  /\ pc = "await" /\ First(r, todo)
  /\ Fault("timeout")
  /\ Abandon
  /\ attempts' = Attempt(r, Candidate(r), "failed", seen[r], TRUE)
  /\ pc' = "undo"
  /\ UNCHANGED <<active, goal, todo, done, seen, diskVars, row, outcome, moves>>

-----------------------------------------------------------------------------
(* Undoing the routers already changed, in reverse.  A failure to undo one  *)
(* is recorded and the next is tried.                                       *)

UndoUnreachable(r) ==
  /\ pc = "undo" /\ Last(r, done)
  /\ Fault("unreachable")
  /\ attempts' = Attempt(r, Candidate(r), "failed", seen[r], TRUE)
  /\ done' = done \ {r}
  /\ UNCHANGED <<routerVars, pc, goal, todo, seen, diskVars, row, outcome,
                 moves>>

(* Mutant: the undo sends the candidate again.                              *)
UndoWithCandidate(r) ==
  /\ pc = "undo" /\ Last(r, done)
  /\ seen' = [seen EXCEPT ![r] = active[r]]
  /\ Submit(r, active[r].version + 1, TableOf[r][goal])
  /\ pc' = "undo await"
  /\ UNCHANGED <<active, goal, todo, done, attempts, diskVars, row, outcome,
                 boundVars>>

UndoApply(r) ==
  /\ pc = "undo" /\ Last(r, done)
  /\ seen' = [seen EXCEPT ![r] = active[r]]
  /\ Submit(r, active[r].version + 1, file[r].table)
  /\ pc' = "undo await"
  /\ UNCHANGED <<active, goal, todo, done, attempts, diskVars, row, outcome,
                 boundVars>>

UndoAnswered(r) ==
  /\ pc = "undo await" /\ Last(r, done) /\ reply # "none"
  /\ attempts' = rollback_attempt(r, IF reply = "activated" THEN "rolled_back" ELSE "failed",
                                  reply # "activated")
  /\ done' = done \ {r}
  /\ pc' = "undo"
  /\ reply' = "none"
  /\ UNCHANGED <<active, inbox, goal, todo, seen, diskVars, row, outcome,
                 boundVars>>

UndoTimedOut(r) ==
  /\ pc = "undo await" /\ Last(r, done)
  /\ Fault("timeout")
  /\ Abandon
  /\ attempts' = rollback_attempt(r, "failed", TRUE)
  /\ done' = done \ {r}
  /\ pc' = "undo"
  /\ UNCHANGED <<active, goal, todo, seen, diskVars, row, outcome, moves>>

UndoEnds ==
  /\ pc = "undo" /\ done = {}
  /\ todo' = {}
  /\ pc' = "record" /\ outcome' = "failed"
  /\ UNCHANGED <<routerVars, goal, done, seen, attempts, diskVars, row,
                 boundVars>>

-----------------------------------------------------------------------------
(* The files: the gateway's configuration, the resolved definition, then    *)
(* the route files (write_plan).                                            *)

WriteHost ==
  /\ pc = "write host"
  /\ file' = IF Host \in done THEN [file EXCEPT ![Host] = Candidate(Host)]
                             ELSE file
  /\ pc' = "write plan"
  /\ UNCHANGED <<routerVars, goal, todo, done, seen, attempts, membership, row,
                 outcome, boundVars>>

WritePlan ==
  /\ pc = "write plan"
  /\ membership' = goal
  /\ todo' = done \ {Host}
  /\ pc' = "write routes"
  /\ UNCHANGED <<routerVars, goal, done, seen, attempts, file, row, outcome,
                 boundVars>>

WriteRoute(r) ==
  /\ pc = "write routes" /\ First(r, todo)
  /\ file' = [file EXCEPT ![r] = Candidate(r)]
  /\ todo' = todo \ {r}
  /\ UNCHANGED <<routerVars, pc, goal, done, seen, attempts, membership, row,
                 outcome, boundVars>>

Written ==
  /\ pc = "write routes" /\ todo = {}
  /\ pc' = "record" /\ outcome' = "succeeded"
  /\ UNCHANGED <<routerVars, goal, todo, done, seen, attempts, diskVars, row,
                 boundVars>>

(* The locals of the move go out of scope; done is kept for the properties. *)
Forget ==
  /\ pc' = "idle" /\ todo' = {} /\ attempts' = <<>>
  /\ goal' = membership /\ seen' = file

(* An error here returns at once: no undo, and no record of the attempts.   *)
WriteFails ==
  /\ \/ pc = "write host" /\ Host \in done
     \/ pc = "write plan"
     \/ pc = "write routes" /\ todo # {}
  /\ Fault("disk")
  /\ Forget /\ done' = {}
  /\ outcome' = "failed"
  /\ UNCHANGED <<routerVars, diskVars, row, moves>>

-----------------------------------------------------------------------------
(* record_router_apply, one transaction per attempt.                        *)

Or(a, b) == IF a = NoSnapshot THEN b ELSE a

Activates(a) == \/ a.status = "active"
                \/ a.status = "rolled_back" /\ ~a.error

Recorded(old, a) ==
  LET current == IF Activates(a) THEN a.snapshot
                 ELSE Or(old.current, a.observed)
  IN  [current  |-> current,
       previous |-> IF Activates(a) THEN Or(old.current, a.observed)
                                    ELSE old.previous,
       observed |-> IF Activates(a) THEN current ELSE Or(a.observed, current),
       status   |-> a.status]

RecordAttempt ==
  /\ pc = "record" /\ attempts # <<>>
  /\ row' = [row EXCEPT ![Head(attempts).router] =
               Recorded(@, Head(attempts))]
  /\ attempts' = Tail(attempts)
  /\ UNCHANGED <<routerVars, pc, goal, todo, done, seen, diskVars, outcome,
                 boundVars>>

StoreFails ==
  /\ pc = "record" /\ attempts # <<>>
  /\ Fault("store")
  /\ attempts' = <<>> /\ outcome' = "failed"
  /\ UNCHANGED <<routerVars, pc, goal, todo, done, seen, diskVars, row, moves>>

FinishMove ==
  /\ pc = "record" /\ attempts = <<>>
  /\ Forget
  /\ UNCHANGED <<routerVars, done, diskVars, row, outcome, boundVars>>

-----------------------------------------------------------------------------
Crash ==
  /\ pc # "idle"
  /\ Fault("crash")
  /\ Abandon
  /\ Forget /\ done' = {}
  /\ outcome' = "crashed"
  /\ UNCHANGED <<active, diskVars, row, moves>>

SidecarRestart(r) ==
  /\ r # Host
  /\ \E kind \in {"restart", "quiet restart"} :
       Fault(kind) /\ (kind = "quiet restart" => pc = "idle")
  /\ RouterRestart(r, file[r])
  /\ UNCHANGED <<moveVars, diskVars, row, outcome, moves>>

RouterHandles ==
  /\ RouterStep
  /\ UNCHANGED <<moveVars, diskVars, row, outcome, boundVars>>

MoveStep ==
  \/ \E r \in Routers : \/ Apply(r) \/ Acknowledged(r) \/ Refused(r)
                        \/ UndoApply(r) \/ UndoAnswered(r) \/ WriteRoute(r)
  \/ UndoEnds \/ WriteHost \/ WritePlan \/ Written
  \/ RecordAttempt \/ FinishMove

FaultStep ==
  \/ \E r \in Routers : \/ Unreachable(r) \/ TimedOut(r) \/ UndoUnreachable(r)
                        \/ UndoTimedOut(r) \/ SidecarRestart(r)
  \/ SeeCancelled \/ WriteFails \/ StoreFails \/ Crash

Next ==
  \/ \E g \in Groups : BeginMove(g) \/ RefuseMove(g)
  \/ MoveStep \/ FaultStep \/ RouterHandles

Spec == Init /\ [][Next]_vars

(* Every admin call ends (10 s timeout, bounded readiness probes) and the   *)
(* blocking thread of a move keeps running; faults need not happen.         *)
FairSpec == Spec /\ WF_vars(MoveStep) /\ WF_vars(RouterHandles)

-----------------------------------------------------------------------------
(* When a move has succeeded, every router it changed goes on serving the   *)
(* new group's table until the next move: no request that an earlier move   *)
(* gave up on, and no restart between moves, takes it back.                 *)
SucceededMoveStays ==
  pc = "idle" /\ outcome = "succeeded" =>
    \A r \in done : active[r].table = TableOf[r][membership]

(* Whatever is lost or fails, the store comes to name a version that the   *)
(* router has not reached, or other routes under the same version, only by *)
(* a restart of the router, which takes the router back ("a target becomes *)
(* active in SQLite only when its acknowledgement matches").               *)
Ahead(r) == row[r].current.version >= active[r].version /\ row[r].current # active[r]

RowNotAhead ==
  [][\A r \in Routers : Ahead(r)' => Ahead(r) \/ active'[r].version < active[r].version]_vars

(* Why: a router that has activated the candidate of a move has no request  *)
(* left that it would still take (Settled), because an abandoned request is *)
(* never more than one version ahead of the router it waits at.             *)
Settled(r) ==
  /\ active[r] = Candidate(r)
  /\ \A q \in inbox[r] : q.version <= active[r].version

(* The move holds a live request only at the router it waits for.           *)
LiveRequest(r, q) ==
  /\ reply = "none"
  /\ q.version = seen[r].version + 1
  /\ \/ pc = "await" /\ First(r, todo) /\ q.table = TableOf[r][goal]
     \/ pc = "undo await" /\ Last(r, done) /\ q.table = file[r].table

Forward == {"next", "await", "write host", "write plan", "write routes"}
Success == pc = "record" /\ outcome = "succeeded"

(* The inductive invariant behind SucceededMoveStays: requests, the routers *)
(* changed so far, the files written so far, and the result.                *)
RequestsOK ==
  \A r \in Routers : \A q \in inbox[r] :
    /\ q.version <= active[r].version + 1
    /\ q.live => LiveRequest(r, q)
DoneOK ==
  /\ outcome = "succeeded" => pc \in {"record", "idle"}
  /\ pc = "await" /\ reply = "activated" =>
       \A r \in Routers : First(r, todo) => Settled(r)
  /\ pc \in Forward \/ Success => \A r \in done : Settled(r)
FilesOK ==
  /\ pc = "write routes" \/ Success => membership = goal
  /\ pc \in {"write plan", "write routes"} /\ Host \in done =>
       file[Host].table = TableOf[Host][goal]
  /\ pc = "write routes" =>
       \A r \in done \ (todo \cup {Host}) : file[r].table = TableOf[r][goal]
  /\ Success => \A r \in done : file[r].table = TableOf[r][goal]
StaysOK ==
  pc = "idle" /\ outcome = "succeeded" =>
    \A r \in done :
      /\ active[r].table = TableOf[r][membership]
      /\ file[r].table = TableOf[r][membership]
      /\ \A q \in inbox[r] : q.version <= active[r].version
SettledInv == MoveTypeOK /\ RequestsOK /\ DoneOK /\ FilesOK /\ StaysOK

(* Between moves the routers serve the tables of one and the same group.    *)
NoPartialGroup ==
  pc = "idle" =>
    \E g \in Groups : \A r \in Routers : active[r].table = TableOf[r][g]

(* The move implements MembershipMove: the group on disk, the group being   *)
(* moved to, and what the routers serve.                                    *)
Promise == INSTANCE MembershipMove
  WITH group <- membership,
       moving <- IF pc = "idle" THEN membership ELSE goal,
       serving <- [r \in Routers |-> active[r].table]
AllOrNothing == Promise!AbstractSpec

(* A move that has begun ends, with its attempts recorded or given up.      *)
MoveEnds == pc # "idle" ~> pc = "idle"
=============================================================================

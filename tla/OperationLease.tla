--------------------------- MODULE OperationLease ---------------------------
(***************************************************************************)
(* The expiring mutation leases of the state store: table operation_locks  *)
(* and StateStore::{acquire_lock, heartbeat_lock, release_lock} of         *)
(* crates/apmpr-state/src/lib.rs.                                          *)
(*                                                                         *)
(* Every element of Ops stands for one acquisition attempt.  The code      *)
(* gives each attempt a fresh random token (and each daemon process a      *)
(* fresh owner_instance), so the pair (owner, token) that guards heartbeat *)
(* and release is the attempt itself.                                      *)
(*                                                                         *)
(* The row of deployment d is the pair holder[d], rowExpiry[d]; the        *)
(* OperationLock value that a caller keeps in memory is the pair           *)
(* handle[op], expires[op].  Callers read the wall clock before they reach *)
(* the database, so every operation takes its own reading t <= now.        *)
(***************************************************************************)
EXTENDS Integers

CONSTANTS
  Ops,           \* acquisition attempts
  Deployments,   \* the keys of operation_locks
  DeploymentOf,  \* the key each attempt asks for
  NoOp,          \* marks the absence of a row
  Ttl,           \* LOCK_TTL_MILLIS, in ticks
  MaxTime        \* bound on the clock

ASSUME LeaseAssumption ==
  /\ DeploymentOf \in [Ops -> Deployments]
  /\ NoOp \notin Ops
  /\ Ttl \in Nat \ {0}
  /\ MaxTime \in Nat

VARIABLES
  now,        \* the wall clock
  holder,     \* the attempt whose token is in the row of a deployment, or NoOp
  rowExpiry,  \* expires_at of that row
  handle,     \* the caller's OperationLock: not yet asked, held, or consumed
  expires     \* expires_at as the caller remembers it

leaseVars == <<now, holder, rowExpiry, handle, expires>>

HandleState == {"none", "held", "gone"}

LeaseTypeOK ==
  /\ now \in 0..MaxTime
  /\ holder \in [Deployments -> Ops \cup {NoOp}]
  /\ rowExpiry \in [Deployments -> Nat]
  /\ handle \in [Ops -> HandleState]
  /\ expires \in [Ops -> Nat]

LeaseInit ==
  /\ now = 0
  /\ holder = [d \in Deployments |-> NoOp]
  /\ rowExpiry = [d \in Deployments |-> 0]
  /\ handle = [op \in Ops |-> "none"]
  /\ expires = [op \in Ops |-> 0]

-----------------------------------------------------------------------------
Tick ==
  /\ now < MaxTime
  /\ now' = now + 1
  /\ UNCHANGED <<holder, rowExpiry, handle, expires>>

(* acquire_lock finds a row that has not expired at the caller's reading.   *)
Contended(op, t) ==
  LET d == DeploymentOf[op] IN holder[d] # NoOp /\ rowExpiry[d] > t

(* acquire_lock, granted: insert the row or replace the expired one.        *)
Acquire(op, t) ==
  /\ handle[op] = "none"
  /\ t <= now
  /\ ~Contended(op, t)
  /\ holder' = [holder EXCEPT ![DeploymentOf[op]] = op]
  /\ rowExpiry' = [rowExpiry EXCEPT ![DeploymentOf[op]] = t + Ttl]
  /\ handle' = [handle EXCEPT ![op] = "held"]
  /\ expires' = [expires EXCEPT ![op] = t + Ttl]
  /\ UNCHANGED now

(* acquire_lock, LockContended or a database error: nothing is stored.      *)
Refuse(op) ==
  /\ handle[op] = "none"
  /\ handle' = [handle EXCEPT ![op] = "gone"]
  /\ UNCHANGED <<now, holder, rowExpiry, expires>>

(* The WHERE clause of heartbeat_lock.                                      *)
Matches(op, t) ==
  LET d == DeploymentOf[op] IN holder[d] = op /\ rowExpiry[d] > t

(* heartbeat_lock changed one row.  One task sends the heartbeats of a      *)
(* handle, so its clock readings do not go back.                            *)
Extend(op, t) ==
  /\ handle[op] = "held"
  /\ t <= now
  /\ expires[op] <= t + Ttl
  /\ Matches(op, t)
  /\ rowExpiry' = [rowExpiry EXCEPT ![DeploymentOf[op]] = t + Ttl]
  /\ expires' = [expires EXCEPT ![op] = t + Ttl]
  /\ UNCHANGED <<now, holder, handle>>

(* heartbeat_lock changed no row: LockLost, and the caller keeps its handle.*)
LockLost(op, t) ==
  /\ handle[op] = "held"
  /\ ~Matches(op, t)
  /\ UNCHANGED leaseVars

(* Mutant: the row is deleted whoever holds it.                             *)
ReleaseAnyToken(op) ==
  /\ handle[op] = "held"
  /\ handle' = [handle EXCEPT ![op] = "gone"]
  /\ expires' = [expires EXCEPT ![op] = 0]
  /\ holder' = [holder EXCEPT ![DeploymentOf[op]] = NoOp]
  /\ rowExpiry' = [rowExpiry EXCEPT ![DeploymentOf[op]] = 0]
  /\ UNCHANGED now

(* release_lock: consumes the handle, deletes the row only if it is ours.   *)
Release(op) ==
  LET d == DeploymentOf[op] IN
  /\ handle[op] = "held"
  /\ handle' = [handle EXCEPT ![op] = "gone"]
  /\ expires' = [expires EXCEPT ![op] = 0]
  /\ IF holder[d] = op
     THEN /\ holder' = [holder EXCEPT ![d] = NoOp]
          /\ rowExpiry' = [rowExpiry EXCEPT ![d] = 0]
     ELSE UNCHANGED <<holder, rowExpiry>>
  /\ UNCHANGED now

(* The process that keeps these handles dies, or release_lock fails in the  *)
(* database: the handles are lost and the rows stay until they expire.      *)
Drop(S) ==
  /\ \A op \in S : handle[op] = "held"
  /\ handle' = [op \in Ops |-> IF op \in S THEN "gone" ELSE handle[op]]
  /\ expires' = [op \in Ops |-> IF op \in S THEN 0 ELSE expires[op]]
  /\ UNCHANGED <<now, holder, rowExpiry>>

LeaseNext ==
  \/ Tick
  \/ \E op \in Ops, t \in 0..now : Acquire(op, t) \/ Extend(op, t) \/ LockLost(op, t)
  \/ \E op \in Ops : Refuse(op) \/ Release(op)
  \/ \E S \in SUBSET Ops : Drop(S)

LeaseSpec == LeaseInit /\ [][LeaseNext]_leaseVars

-----------------------------------------------------------------------------
(* Two callers never both hold an unexpired OperationLock for one           *)
(* deployment, whatever stale clock readings, crashes and failed releases   *)
(* came before: acquire_lock replaces only a row whose holder's own copy of *)
(* expires_at has passed.                                                   *)
LeaseExclusion ==
  \A p, q \in Ops :
    /\ p # q /\ DeploymentOf[p] = DeploymentOf[q]
    /\ handle[p] = "held" /\ handle[q] = "held"
    => expires[p] <= now \/ expires[q] <= now

(* A row belongs to an attempt that asked for this deployment.              *)
RowKeyed ==
  \A d \in Deployments :
    holder[d] # NoOp => DeploymentOf[holder[d]] = d /\ handle[holder[d]] # "none"

HandleIsRowOrExpired ==
  \A op \in Ops :
    handle[op] = "held" =>
      \/ holder[DeploymentOf[op]] = op /\ rowExpiry[DeploymentOf[op]] = expires[op]
      \/ expires[op] <= now

(* Why LeaseExclusion holds: a handle kept by a caller either is the row of *)
(* its deployment, expiry included, or has expired by the caller's own copy *)
(* of expires_at.  This is the inductive invariant of the lease table.      *)
LeaseInv == LeaseTypeOK /\ RowKeyed /\ HandleIsRowOrExpired

(* An old process never disturbs a recovered lease (the promise at          *)
(* apmpr-state/src/lib.rs:19-21): an unexpired row is deleted only by the   *)
(* caller that holds it, is extended only together with that caller's copy, *)
(* and is never replaced; and a caller whose row was taken over never gets  *)
(* it back.                                                                 *)
LeaseStep(d) ==
  /\ holder[d] # NoOp /\ rowExpiry[d] > now =>
       \/ holder'[d] = holder[d] /\ rowExpiry'[d] = rowExpiry[d]
       \/ /\ holder'[d] = NoOp
          /\ handle[holder[d]] = "held" /\ handle'[holder[d]] = "gone"
       \/ /\ holder'[d] = holder[d]
          /\ handle'[holder[d]] = "held" /\ expires'[holder[d]] = rowExpiry'[d]
  /\ \A op \in Ops :
       handle[op] = "held" /\ DeploymentOf[op] = d /\ holder[d] # op => holder'[d] # op

OldOwnerNeverDisturbs == [][\A d \in Deployments : LeaseStep(d)]_leaseVars
=============================================================================

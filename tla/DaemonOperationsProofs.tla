----------------------- MODULE DaemonOperationsProofs -----------------------
(*****************************************************************************)
(* Proofs about the mutation leases and about the daemon that takes them.    *)
(* The daemon uses the lease table only through its protocol, so what is     *)
(* shown of leases holds in the daemon, for every set of operations, kinds,  *)
(* deployments, TTLs, bounds and faults.                                     *)
(*****************************************************************************)
EXTENDS DaemonOperations, TLAPS

-----------------------------------------------------------------------------
(* The lease table.                                                         *)

(* An empty lease table satisfies the invariant.                            *)
LEMMA LeaseInitInv == LeaseInit => LeaseInv
  BY LeaseAssumption DEF LeaseInit, LeaseInv, LeaseTypeOK, HandleState, RowKeyed,
     HandleIsRowOrExpired

(* acquire_lock preserves the invariant: it replaces only a row that is     *)
(* expired at a reading no later than now, so the handle that mirrored the  *)
(* replaced row is expired too.                                             *)
LEMMA AcquireInv ==
  ASSUME LeaseInv, NEW op \in Ops, NEW t \in 0..now, Acquire(op, t)
  PROVE  LeaseInv'
<1> DEFINE d == DeploymentOf[op]
<1>0. d \in Deployments /\ t \in Nat /\ t + Ttl \in Nat /\ now \in Nat
  BY LeaseAssumption DEF LeaseInv, LeaseTypeOK
<1>1. LeaseTypeOK'
  BY Zenon, <1>0, LeaseAssumption DEF LeaseInv, LeaseTypeOK, Acquire, HandleState
<1>2. RowKeyed'
  BY <1>0, LeaseAssumption DEF LeaseInv, LeaseTypeOK, RowKeyed, Acquire, HandleState
<1>3. HandleIsRowOrExpired'
  <2> SUFFICES ASSUME NEW q \in Ops, handle'[q] = "held"
               PROVE  \/ /\ holder'[DeploymentOf[q]] = q
                         /\ rowExpiry'[DeploymentOf[q]] = expires'[q]
                      \/ expires'[q] <= now'
    BY Zenon DEF HandleIsRowOrExpired
  <2>1. CASE q = op
    BY Zenon, <2>1, <1>0 DEF Acquire, LeaseInv, LeaseTypeOK
  <2>2. CASE q # op
    <3>1. handle[q] = "held" /\ expires'[q] = expires[q] /\ now' = now
      BY Zenon, <2>2 DEF Acquire, LeaseInv, LeaseTypeOK
    <3>2. \/ holder[DeploymentOf[q]] = q /\ rowExpiry[DeploymentOf[q]] = expires[q]
          \/ expires[q] <= now
      BY Zenon, <3>1 DEF LeaseInv, HandleIsRowOrExpired
    <3>3. CASE DeploymentOf[q] = d
      <4>1. holder[d] = q => rowExpiry[d] <= now
        BY <1>0, LeaseAssumption DEF Acquire, Contended, LeaseInv, LeaseTypeOK
      <4> QED BY Zenon, <3>1, <3>2, <3>3, <4>1
    <3>4. CASE DeploymentOf[q] # d
      BY Zenon, <3>1, <3>2, <3>4, <1>0, LeaseAssumption DEF Acquire, LeaseInv, LeaseTypeOK
    <3> QED BY Zenon, <3>3, <3>4
  <2> QED BY Zenon, <2>1, <2>2
<1> QED BY Zenon, <1>1, <1>2, <1>3 DEF LeaseInv

(* heartbeat_lock preserves the invariant: the row and the caller's copy of *)
(* expires_at move together.                                                *)
LEMMA ExtendInv ==
  ASSUME LeaseInv, NEW op \in Ops, NEW t \in 0..now, Extend(op, t)
  PROVE  LeaseInv'
<1>0. DeploymentOf[op] \in Deployments /\ t + Ttl \in Nat /\ now \in Nat
  BY LeaseAssumption DEF LeaseInv, LeaseTypeOK
<1>1. LeaseTypeOK'
  BY Zenon, <1>0, LeaseAssumption DEF LeaseInv, LeaseTypeOK, Extend
<1>2. RowKeyed'
  BY Zenon DEF LeaseInv, RowKeyed, Extend
<1>3. HandleIsRowOrExpired'
  <2> SUFFICES ASSUME NEW q \in Ops, handle'[q] = "held"
               PROVE  \/ /\ holder'[DeploymentOf[q]] = q
                         /\ rowExpiry'[DeploymentOf[q]] = expires'[q]
                      \/ expires'[q] <= now'
    BY Zenon DEF HandleIsRowOrExpired
  <2>1. CASE q = op
    BY Zenon, <2>1, <1>0 DEF Extend, Matches, LeaseInv, LeaseTypeOK
  <2>2. CASE q # op
    <3>1. handle[q] = "held" /\ expires'[q] = expires[q] /\ now' = now /\ holder' = holder
      BY Zenon, <2>2 DEF Extend, LeaseInv, LeaseTypeOK
    <3>2. holder[DeploymentOf[q]] = q => DeploymentOf[q] # DeploymentOf[op]
      BY Zenon, <2>2 DEF Extend, Matches
    <3>3. DeploymentOf[q] # DeploymentOf[op]
            => rowExpiry'[DeploymentOf[q]] = rowExpiry[DeploymentOf[q]]
      BY Zenon, <1>0, LeaseAssumption DEF Extend, LeaseInv, LeaseTypeOK
    <3> QED BY Zenon, <3>1, <3>2, <3>3 DEF LeaseInv, HandleIsRowOrExpired
  <2> QED BY Zenon, <2>1, <2>2
<1> QED BY Zenon, <1>1, <1>2, <1>3 DEF LeaseInv

(* release_lock preserves the invariant: it deletes no row but its own.     *)
LEMMA ReleaseInv ==
  ASSUME LeaseInv, NEW op \in Ops, Release(op)
  PROVE  LeaseInv'
<1>0. DeploymentOf[op] \in Deployments
  BY Zenon, LeaseAssumption
<1>1. LeaseTypeOK'
  BY <1>0 DEF LeaseInv, LeaseTypeOK, Release, HandleState
<1>2. RowKeyed'
  BY <1>0, LeaseAssumption DEF LeaseInv, LeaseTypeOK, RowKeyed, Release, HandleState
<1>3. HandleIsRowOrExpired'
  BY Zenon, <1>0, LeaseAssumption DEF LeaseInv, LeaseTypeOK, HandleIsRowOrExpired, Release
<1> QED BY Zenon, <1>1, <1>2, <1>3 DEF LeaseInv

(* Losing handles (a crash, a failed release) preserves the invariant: it   *)
(* speaks only of handles that are kept.                                    *)
LEMMA DropInv ==
  ASSUME LeaseInv, NEW S \in SUBSET Ops, Drop(S)
  PROVE  LeaseInv'
  BY LeaseAssumption
     DEF LeaseInv, LeaseTypeOK, HandleState, RowKeyed, HandleIsRowOrExpired, Drop

(* Every step of the lease table preserves the invariant.                   *)
LEMMA LeaseNextInv == LeaseInv /\ [LeaseNext]_leaseVars => LeaseInv'
<1> SUFFICES ASSUME LeaseInv, [LeaseNext]_leaseVars
             PROVE  LeaseInv'
  BY Zenon
<1>1. CASE Tick
  BY <1>1, LeaseAssumption
     DEF LeaseInv, LeaseTypeOK, RowKeyed, HandleIsRowOrExpired, Tick
<1>2. ASSUME NEW op \in Ops, NEW t \in 0..now, Acquire(op, t)
      PROVE  LeaseInv'
  BY Zenon, <1>2, AcquireInv
<1>3. ASSUME NEW op \in Ops, NEW t \in 0..now, Extend(op, t)
      PROVE  LeaseInv'
  BY Zenon, <1>3, ExtendInv
<1>4. ASSUME NEW op \in Ops, NEW t \in 0..now, LockLost(op, t)
      PROVE  LeaseInv'
  BY Zenon, <1>4 DEF LockLost, leaseVars, LeaseInv, LeaseTypeOK, RowKeyed, HandleIsRowOrExpired
<1>5. ASSUME NEW op \in Ops, Refuse(op)
      PROVE  LeaseInv'
  BY Zenon, <1>5, LeaseAssumption
     DEF LeaseInv, LeaseTypeOK, HandleState, RowKeyed, HandleIsRowOrExpired, Refuse
<1>6. ASSUME NEW op \in Ops, Release(op)
      PROVE  LeaseInv'
  BY Zenon, <1>6, ReleaseInv
<1>7. ASSUME NEW S \in SUBSET Ops, Drop(S)
      PROVE  LeaseInv'
  BY Zenon, <1>7, DropInv
<1>8. CASE UNCHANGED leaseVars
  BY Zenon, <1>8 DEF leaseVars, LeaseInv, LeaseTypeOK, RowKeyed, HandleIsRowOrExpired
<1> QED BY Zenon, <1>1, <1>2, <1>3, <1>4, <1>5, <1>6, <1>7, <1>8 DEF LeaseNext

(* The lease table always satisfies its type and its inductive invariant.   *)
THEOREM LeaseInvariance == LeaseSpec => []LeaseInv
  BY LeaseInitInv, LeaseNextInv, PTL DEF LeaseSpec

(* Two unexpired handles for one deployment would both be its one row.      *)
LEMMA LeaseInvExclusion == LeaseInv => LeaseExclusion
  BY Zenon DEF LeaseInv, HandleIsRowOrExpired, LeaseExclusion

(* acquire_lock, heartbeat_lock and release_lock never let two callers both *)
(* hold an unexpired lease for one deployment.                              *)
THEOREM LeaseSafety == LeaseSpec => []LeaseExclusion
  BY LeaseInvariance, LeaseInvExclusion, PTL

(* Every step treats the row of every deployment as LeaseStep demands: an   *)
(* unexpired row is touched only on behalf of the caller that holds it.     *)
LEMMA LeaseStepHolds ==
  ASSUME LeaseInv, [LeaseNext]_leaseVars, NEW d \in Deployments
  PROVE  LeaseStep(d)
<1>1. CASE Tick \/ UNCHANGED leaseVars
  BY Zenon, <1>1 DEF Tick, leaseVars, LeaseStep
<1>2. ASSUME NEW op \in Ops, NEW t \in 0..now, Acquire(op, t)
      PROVE  LeaseStep(d)
  <2>1. CASE DeploymentOf[op] = d
    <3>1. ~(holder[d] # NoOp /\ rowExpiry[d] > now)
      BY <1>2, <2>1 DEF Acquire, Contended, LeaseInv, LeaseTypeOK
    <3>2. holder'[d] = op /\ handle[op] = "none"
      BY Zenon, <1>2, <2>1 DEF Acquire, LeaseInv, LeaseTypeOK
    <3> QED BY Zenon, <3>1, <3>2 DEF LeaseStep
  <2>2. CASE DeploymentOf[op] # d
    <3>1. holder'[d] = holder[d] /\ rowExpiry'[d] = rowExpiry[d]
      BY Zenon, <1>2, <2>2 DEF Acquire, LeaseInv, LeaseTypeOK
    <3> QED BY Zenon, <3>1 DEF LeaseStep
  <2> QED BY Zenon, <2>1, <2>2
<1>3. ASSUME NEW op \in Ops, NEW t \in 0..now, Extend(op, t)
      PROVE  LeaseStep(d)
  <2>1. CASE DeploymentOf[op] = d
    <3>1. /\ holder' = holder /\ holder[d] = op
          /\ handle'[op] = "held" /\ expires'[op] = rowExpiry'[d]
      BY Zenon, <1>3, <2>1 DEF Extend, Matches, LeaseInv, LeaseTypeOK
    <3> QED BY Zenon, <3>1 DEF LeaseStep
  <2>2. CASE DeploymentOf[op] # d
    <3>1. holder'[d] = holder[d] /\ rowExpiry'[d] = rowExpiry[d]
      BY Zenon, <1>3, <2>2 DEF Extend, LeaseInv, LeaseTypeOK
    <3> QED BY Zenon, <3>1 DEF LeaseStep
  <2> QED BY Zenon, <2>1, <2>2
<1>4. ASSUME NEW op \in Ops, NEW t \in 0..now, LockLost(op, t)
      PROVE  LeaseStep(d)
  BY Zenon, <1>4 DEF LockLost, leaseVars, LeaseStep
<1>5. ASSUME NEW op \in Ops, Refuse(op)
      PROVE  LeaseStep(d)
  BY Zenon, <1>5 DEF Refuse, LeaseStep
<1>6. ASSUME NEW op \in Ops, Release(op)
      PROVE  LeaseStep(d)
  <2>1. CASE holder[d] = op
    <3>1. DeploymentOf[op] = d
      BY Zenon, <2>1, LeaseAssumption DEF LeaseInv, RowKeyed
    <3>2. holder'[d] = NoOp /\ handle[op] = "held" /\ handle'[op] = "gone"
      BY Zenon, <1>6, <2>1, <3>1 DEF Release, LeaseInv, LeaseTypeOK
    <3> QED BY Zenon, <2>1, <3>2, LeaseAssumption DEF LeaseStep
  <2>2. CASE holder[d] # op
    <3>1. holder'[d] = holder[d] /\ rowExpiry'[d] = rowExpiry[d]
      BY Zenon, <1>6, <2>2 DEF Release, LeaseInv, LeaseTypeOK
    <3> QED BY Zenon, <3>1 DEF LeaseStep
  <2> QED BY Zenon, <2>1, <2>2
<1>7. ASSUME NEW S \in SUBSET Ops, Drop(S)
      PROVE  LeaseStep(d)
  BY Zenon, <1>7 DEF Drop, LeaseStep
<1> QED BY Zenon, <1>1, <1>2, <1>3, <1>4, <1>5, <1>6, <1>7 DEF LeaseNext

(* "preventing an old process from disturbing a recovered lease": only the  *)
(* caller whose token is in an unexpired row can delete or extend it, and a *)
(* caller that lost its row never regains it.                               *)
THEOREM RecoveredLeaseSafety == LeaseSpec => OldOwnerNeverDisturbs
<1>1. LeaseInv /\ [LeaseNext]_leaseVars => [\A d \in Deployments : LeaseStep(d)]_leaseVars
  BY Zenon, LeaseStepHolds
<1> QED BY <1>1, LeaseInvariance, PTL DEF LeaseSpec, OldOwnerNeverDisturbs

-----------------------------------------------------------------------------
(* The daemon.                                                              *)

(* Sequences: what an append, a head and a tail are.                        *)
LEMMA Appended ==
  ASSUME NEW S, NEW s \in Seq(S), NEW e \in S
  PROVE  /\ Append(s, e) \in Seq(S) /\ Append(s, e) # <<>>
         /\ Len(Append(s, e)) = Len(s) + 1
         /\ \A i \in 1..Len(s) : Append(s, e)[i] = s[i]
         /\ Append(s, e)[Len(s) + 1] = e
OBVIOUS

LEMMA HeadAndTail ==
  ASSUME NEW S, NEW s \in Seq(S), s # <<>>
  PROVE  /\ Head(s) = s[1] /\ Head(s) \in S /\ Tail(s) \in Seq(S)
         /\ Len(Tail(s)) = Len(s) - 1
         /\ \A i \in 1..Len(Tail(s)) : Tail(s)[i] = s[i + 1]
OBVIOUS

(* Every clock reading is taken from the clock: it is never in the future.  *)
ClockInv ==
  /\ now \in Nat
  /\ clock \in [Ops -> Nat]
  /\ \A op \in Ops : clock[op] <= now

(* A fresh daemon has taken no reading.                                     *)
LEMMA ClockInit == Init => ClockInv
  BY DEF Init, LeaseInit, ClockInv

(* Readings are copies of now, and now only grows.                          *)
LEMMA ClockNext == ClockInv /\ [Next]_vars => ClockInv'
<1> SUFFICES ASSUME ClockInv, [Next]_vars
             PROVE  ClockInv'
  BY Zenon
<1>1. CASE PassTime
  BY <1>1 DEF PassTime, Tick, opVars, ClockInv
<1>2. ASSUME NEW op \in Ops, ReadClock(op)
      PROVE  ClockInv'
  BY <1>2 DEF ReadClock, leaseVars, ClockInv
<1>3. ASSUME NEW op \in Ops, Admit(op)
      PROVE  ClockInv'
  BY <1>3 DEF Admit, Acquire, leaseVars, ClockInv
<1>4. ASSUME NEW op \in Ops, Reject(op)
      PROVE  ClockInv'
  BY <1>4 DEF Reject, Refuse, ClockInv
<1>5. ASSUME NEW op \in Ops, RegisterFails(op) \/ FinishStore(op)
      PROVE  ClockInv'
  <2>1. now' = now
    BY Zenon, <1>5 DEF RegisterFails, FinishStore, GiveBack, Release, Drop, leaseVars
  <2> QED BY Zenon, <1>5, <2>1 DEF RegisterFails, FinishStore, ClockInv
<1>6. ASSUME NEW op \in Ops, Heartbeat(op) \/ HeartbeatFails(op)
      PROVE  ClockInv'
  BY Zenon, <1>6 DEF Heartbeat, HeartbeatFails, Extend, LockLost, leaseVars, ClockInv
<1>7. ASSUME NEW op \in Ops,
             \/ Register(op) \/ Start(op) \/ CancelQueued(op) \/ KillWork(op) \/ Join(op)
             \/ PersistRead(op) \/ PersistRecord(op) \/ PersistFails(op)
             \/ FinishMemory(op) \/ FinishNotify(op) \/ CancelRequest(op)
             \/ WorkStep(op)
      PROVE  ClockInv'
  <2>1. UNCHANGED <<now, clock>>
    BY Zenon, <1>7 DEF Register, Start, CancelQueued, KillWork, Join, PersistRead, PersistRecord,
       PersistFails, FinishMemory, FinishNotify, CancelRequest, WorkStep,
       WorkWrites, WorkEnds, CloneRegisters, CloneEnds,
     PipesClose, leaseVars
  <2> QED BY Zenon, <2>1 DEF ClockInv
<1>8. CASE BeginDrain \/ BeginJoin \/ Restart \/ UNCHANGED vars
  BY Zenon, <1>8 DEF BeginDrain, BeginJoin, Restart, vars, opVars, leaseVars, ClockInv
<1>9. CASE Exit \/ Crash
  BY <1>9 DEF Exit, Crash, ForgetMemory, Drop, leaseVars, ClockInv
<1> QED BY Zenon, <1>1, <1>2, <1>3, <1>4, <1>5, <1>6, <1>7, <1>8, <1>9
        DEF Next, TaskStep, Beat

(* A lock handed to release_lock takes a step of the lease table.           *)
LEMMA GiveBackStep ==
  ASSUME NEW op \in Ops, GiveBack(op)
  PROVE  [LeaseNext]_leaseVars
<1>1. CASE Release(op)
  BY Zenon, <1>1 DEF LeaseNext
<1>2. CASE Drop({op})
  BY Zenon, <1>2 DEF LeaseNext
<1> QED BY Zenon, <1>1, <1>2 DEF GiveBack

(* Every action of the daemon is a step of the lease table or leaves it     *)
(* alone.                                                                   *)
LEMMA DaemonLeaseStep == ClockInv /\ [Next]_vars => [LeaseNext]_leaseVars
<1> SUFFICES ASSUME ClockInv, [Next]_vars
             PROVE  [LeaseNext]_leaseVars
  BY Zenon
<1>1. CASE PassTime
  BY Zenon, <1>1 DEF PassTime, LeaseNext
<1>2. ASSUME NEW op \in Ops, Admit(op)
      PROVE  [LeaseNext]_leaseVars
  <2>1. clock[op] \in 0..now
    BY DEF ClockInv
  <2> QED BY Zenon, <1>2, <2>1 DEF Admit, LeaseNext
<1>3. ASSUME NEW op \in Ops, Reject(op)
      PROVE  [LeaseNext]_leaseVars
  BY Zenon, <1>3 DEF Reject, LeaseNext
<1>4. ASSUME NEW op \in Ops, RegisterFails(op) \/ FinishStore(op)
      PROVE  [LeaseNext]_leaseVars
  BY Zenon, <1>4, GiveBackStep DEF RegisterFails, FinishStore
<1>5. ASSUME NEW op \in Ops, Heartbeat(op) \/ HeartbeatFails(op)
      PROVE  [LeaseNext]_leaseVars
  <2>1. now \in 0..now
    BY DEF ClockInv
  <2> QED BY Zenon, <1>5, <2>1 DEF Heartbeat, HeartbeatFails, LeaseNext
<1>6. ASSUME NEW op \in Ops,
             \/ ReadClock(op) \/ Register(op) \/ Start(op) \/ CancelQueued(op)
             \/ KillWork(op) \/ Join(op) \/ PersistRead(op) \/ PersistRecord(op)
             \/ PersistFails(op) \/ FinishMemory(op) \/ FinishNotify(op)
             \/ CancelRequest(op) \/ WorkStep(op)
      PROVE  [LeaseNext]_leaseVars
  BY Zenon, <1>6 DEF ReadClock, Register, Start, CancelQueued, KillWork, Join, PersistRead,
     PersistRecord, PersistFails, FinishMemory, FinishNotify, CancelRequest, WorkStep,
     WorkWrites, WorkEnds, CloneRegisters, CloneEnds, PipesClose
<1>7. CASE BeginDrain \/ BeginJoin \/ Restart \/ Exit \/ UNCHANGED vars
  BY Zenon, <1>7 DEF BeginDrain, BeginJoin, Restart, Exit, vars
<1>8. CASE Crash
  <2>1. {op \in Ops : handle[op] = "held"} \in SUBSET Ops
    BY Zenon
  <2> QED BY Zenon, <1>8, <2>1 DEF Crash, LeaseNext
<1> QED BY Zenon, <1>1, <1>2, <1>3, <1>4, <1>5, <1>6, <1>7, <1>8
        DEF Next, TaskStep, Beat

(* The daemon implements the lease protocol: begin_operation, the heartbeat *)
(* loop, finish_operation, a crash and a restart are steps of the protocol  *)
(* or do not touch the lease table.                                         *)
THEOREM DaemonImplementsLease == Spec => LeaseSpec
<1>1. Init => LeaseInit
  BY Zenon DEF Init
<1> QED BY <1>1, ClockInit, ClockNext, DaemonLeaseStep, PTL DEF Spec, LeaseSpec

(* In the daemon, two operations never both keep an unexpired lease for one *)
(* deployment.                                                              *)
THEOREM DaemonLeaseSafety == Spec => []LeaseExclusion
  BY DaemonImplementsLease, LeaseSafety, PTL

-----------------------------------------------------------------------------
(* The states of the daemon's variables.                                    *)
Final == {"succeeded", "failed", "cancelled"}

DaemonTypeOK ==
  /\ daemon \in {"up", "draining", "joining", "exited", "crashed"}
  /\ phase \in [Ops -> Phases]
  /\ status \in [Ops -> Active \cup Final \cup {"absent", "none"}]
  /\ durable \in [Ops -> Active \cup Final \cup {"absent", "none"}]
  /\ cancelled \in [Ops -> BOOLEAN]
  /\ lost \in [Ops -> BOOLEAN]
  /\ due \in [Ops -> Nat]
  /\ work \in [Ops -> {"none", "running", "wrote", "ok", "failed", "killed", "held"}]
  /\ verdict \in [Ops -> Final \cup {"none"}]
  /\ plan \in [Ops -> Ops \cup {NoOp}]
  /\ disk \in [Deployments -> Ops \cup {NoOp}]
  /\ applied \in [Deployments -> Ops \cup {NoOp}]
  /\ stray \in [Deployments -> BOOLEAN]
  /\ terminal \in Seq(Ops)

(* What the task of an operation owns at each point of its life, whatever   *)
(* fails: an operation that is not at its end is active in the map, keeps   *)
(* its lease, and is gone when the process is; the retention queue holds    *)
(* ended operations only.                                                   *)
Life(op) ==
  /\ phase[op] \in {"queued", "working", "joined", "recording", "closing"}
       => status[op] \in Active
  /\ phase[op] \notin {"working", "dead"} => work[op] = "none"
  /\ /\ phase[op] \in {"admitted", "queued", "working", "joined", "recording", "closing",
                       "ended"}
     /\ Mutating(op)
     => handle[op] = "held"
  /\ daemon = "joining" => phase[op] \notin {"asking", "admitted"}
  /\ daemon \in {"exited", "crashed"} => phase[op] \in {"new", "rejected", "done", "dead"}

Retained == \A i \in 1..Len(terminal) : phase[terminal[i]] = "done"

LifeInv == (\A op \in Ops : Life(op)) /\ Retained

(* Why AnnouncedIsStable holds when SQLite does not fail: from FinishStore  *)
(* on the row has the announced status, and the map has it or nothing.      *)
AnnounceInv ==
  \A op \in Ops :
    /\ phase[op] \in {"joined", "recording", "closing", "ended", "stored", "done"}
         => verdict[op] \in Final
    /\ phase[op] \in {"ended", "stored", "done"} => status[op] \in {verdict[op], "absent"}
    /\ phase[op] \in {"stored", "done"} => durable[op] = verdict[op]

(* Why ExitIsClean holds when SQLite does not fail: an operation has a      *)
(* durable row only from Register on, and a lease row only until            *)
(* FinishStore.                                                             *)
RowPhases ==
  {"admitted", "queued", "working", "joined", "recording", "closing", "ended", "dead"}

RowsInv ==
  /\ \A op \in Ops :
       phase[op] \in {"new", "asking", "admitted", "rejected"} => durable[op] = "absent"
  /\ \A d \in Deployments :
       holder[d] # NoOp => Mutating(holder[d]) /\ phase[holder[d]] \in RowPhases

(* Why LeaseCoversWork holds while the daemon is scheduled in time: from    *)
(* its first successful heartbeat on, the row outlives the next tick of the *)
(* heartbeat; and what an operation wrote stays on disk while its row is    *)
(* alive, or somebody strayed.                                              *)
Covered(op) ==
  \/ stray[DeploymentOf[op]]
  \/ Matches(op, now) /\ disk[DeploymentOf[op]] = op

CoverOf(op) ==
  /\ phase[op] = "working" /\ Mutating(op) /\ KindOf[op] # "clone" /\ ~lost[op] =>
       /\ due[op] >= now
       /\ due[op] > now => /\ holder[DeploymentOf[op]] = op
                           /\ rowExpiry[DeploymentOf[op]] > due[op]
  /\ phase[op] = "working" /\ Persisting(op) /\ ~lost[op] /\ work[op] \in {"wrote", "ok"}
       => Covered(op)
  /\ phase[op] = "joined" => Persisting(op) /\ Covered(op)
  /\ phase[op] = "recording" => plan[op] = op \/ stray[DeploymentOf[op]]

CoverInv == \A op \in Ops : CoverOf(op)

(* What lasts longer than something later lasts longer.                     *)
LEMMA LaterStill ==
  ASSUME NEW a \in Nat, NEW b \in Nat, NEW c \in Nat, a > b, b >= c
  PROVE  a > c
OBVIOUS

LEMMA NotEarlier ==
  ASSUME NEW a \in Nat, NEW b \in Nat
  PROVE  (~(a <= b) => a > b) /\ (a > b => a >= b /\ a >= b + 1)
OBVIOUS

(* The retention queue with one more operation, and without its oldest one: *)
(* nothing but what was there and the operation that came.                  *)
LEMMA QueueProperties ==
  ASSUME NEW seq \in Seq(Ops), NEW op \in Ops,
         NEW P, op \in P, \A i \in 1..Len(seq) : seq[i] \in P
  PROVE  LET queue == Append(seq, op) IN
         /\ queue \in Seq(Ops) /\ Tail(queue) \in Seq(Ops)
         /\ Head(queue) \in Ops \cap P
         /\ \A i \in 1..Len(queue) : queue[i] \in P
         /\ \A i \in 1..Len(Tail(queue)) : Tail(queue)[i] \in P
<1> DEFINE queue == Append(seq, op)
<1>1. /\ queue \in Seq(Ops) /\ queue # <<>> /\ Len(queue) = Len(seq) + 1
      /\ \A i \in 1..Len(seq) : queue[i] = seq[i]
      /\ queue[Len(seq) + 1] = op
  BY Appended
<1>2. Len(seq) \in Nat
  OBVIOUS
<1> HIDE DEF queue
<1>3. \A i \in 1..Len(queue) : queue[i] \in P
  BY <1>1, <1>2
<1>4. /\ Head(queue) = queue[1] /\ Head(queue) \in Ops /\ Tail(queue) \in Seq(Ops)
      /\ Len(Tail(queue)) = Len(queue) - 1
      /\ \A i \in 1..Len(Tail(queue)) : Tail(queue)[i] = queue[i + 1]
  BY Zenon, <1>1, HeadAndTail
<1>5. Head(queue) \in P
  BY <1>1, <1>2, <1>3, <1>4
<1>6. \A i \in 1..Len(Tail(queue)) : Tail(queue)[i] \in P
  BY <1>1, <1>2, <1>3, <1>4
<1> QED BY Zenon, <1>1, <1>3, <1>4, <1>5, <1>6 DEF queue

(* A fresh daemon.                                                          *)
LEMMA TypeInit == Init => DaemonTypeOK
  BY DEF Init, DaemonTypeOK, Phases, Active, Final

(* Every action keeps the variables in their sets.                          *)
LEMMA TypeNext ==
  ASSUME DaemonTypeOK, ClockInv, [Next]_vars
  PROVE  DaemonTypeOK'
<1> USE LeaseAssumption, DaemonAssumption DEF DaemonTypeOK
<1>1. CASE PassTime
  BY Zenon, <1>1 DEF PassTime, opVars, planVars, lifeVars
<1>2. ASSUME NEW op \in Ops,
             \/ ReadClock(op) \/ Admit(op) \/ Reject(op) \/ Register(op) \/ RegisterFails(op)
             \/ CancelQueued(op)
      PROVE  DaemonTypeOK'
  <2>1. CASE ReadClock(op) \/ Admit(op) \/ Reject(op) \/ RegisterFails(op)
    <3>1. /\ \E s \in {"asking", "admitted", "rejected"} : phase' = [phase EXCEPT ![op] = s]
          /\ UNCHANGED <<status, durable, cancelled, lost, due, work, verdict, plan, terminal,
                         disk, applied, stray, daemon>>
      BY Zenon, <2>1 DEF ReadClock, Admit, Reject, RegisterFails, planVars, lifeVars
    <3>2. phase' \in [Ops -> Phases]
      BY Zenon, <3>1 DEF Phases
    <3> QED BY Zenon, <3>1, <3>2
  <2>2. CASE Register(op)
    BY Zenon, <2>2 DEF Register, planVars, lifeVars, Phases, Active
  <2>3. CASE CancelQueued(op)
    BY Zenon, <2>3 DEF CancelQueued, planVars, lifeVars, Phases, Final
  <2> QED BY Zenon, <1>2, <2>1, <2>2, <2>3
<1>3. ASSUME NEW op \in Ops, Start(op)
      PROVE  DaemonTypeOK'
  BY Zenon, <1>3 DEF Start, planVars, lifeVars, Phases, Active, ClockInv
<1>4. ASSUME NEW op \in Ops, Heartbeat(op) \/ HeartbeatFails(op)
      PROVE  DaemonTypeOK'
  <2>1. CASE Heartbeat(op)
    BY <2>1 DEF Heartbeat, planVars, lifeVars
  <2>2. CASE HeartbeatFails(op)
    BY Zenon, <2>2 DEF HeartbeatFails, planVars, lifeVars
  <2> QED BY Zenon, <1>4, <2>1, <2>2
<1>5. ASSUME NEW op \in Ops, WorkStep(op) \/ KillWork(op)
      PROVE  DaemonTypeOK'
  <2>1. DeploymentOf[op] \in Deployments
    BY Zenon
  <2>2. CASE WorkWrites(op)
    <3>1. stray' \in [Deployments -> BOOLEAN]
      BY <2>1, <2>2, Zenon DEF WorkWrites
    <3> QED BY Zenon, <2>1, <2>2, <3>1 DEF WorkWrites, lifeVars
  <2>3. CASE WorkEnds(op) \/ KillWork(op) \/ PipesClose(op)
    <3>1. work' \in [Ops -> {"none", "running", "wrote", "ok", "failed", "killed", "held"}]
      BY Zenon, <2>3 DEF WorkEnds, KillWork, PipesClose
    <3> QED BY <2>3, <3>1 DEF WorkEnds, KillWork, PipesClose, planVars, lifeVars
  <2>4. CASE CloneRegisters(op) \/ CloneEnds(op)
    <3>1. disk' \in [Deployments -> Ops \cup {NoOp}]
      <4>1. \/ disk' = [disk EXCEPT ![DeploymentOf[op]] = op]
            \/ disk' = [disk EXCEPT ![DeploymentOf[op]] = NoOp]
            \/ disk' = disk
        BY Zenon, <2>4 DEF CloneRegisters, CloneEnds
      <4> QED BY Zenon, <2>1, <4>1
    <3>2. work' \in [Ops -> {"none", "running", "wrote", "ok", "failed", "killed", "held"}]
      <4>1. \E w \in {"wrote", "failed", "ok"} : work' = [work EXCEPT ![op] = w]
        BY Zenon, <2>4 DEF CloneRegisters, CloneEnds
      <4> QED BY Zenon, <4>1
    <3>3. UNCHANGED <<phase, status, durable, cancelled, lost, due, verdict, plan, terminal,
                      applied, stray, daemon>>
      BY Zenon, <2>4 DEF CloneRegisters, CloneEnds, lifeVars
    <3> QED BY Zenon, <3>1, <3>2, <3>3
  <2> QED BY Zenon, <1>5, <2>2, <2>3, <2>4 DEF WorkStep
<1>6. ASSUME NEW op \in Ops, Join(op)
      PROVE  DaemonTypeOK'
  <2>1. PICK outcome \in Outcomes(op) :
          LET s == StatusOf(op, outcome) IN
          /\ verdict' = [verdict EXCEPT ![op] = s]
          /\ phase' = [phase EXCEPT ![op] =
                         IF s = "succeeded" /\ Persisting(op) THEN "joined" ELSE "closing"]
    BY Zenon, <1>6 DEF Join
  <2>2. StatusOf(op, outcome) \in Final
    BY Zenon DEF StatusOf, CloneStatus, CommandStatus, Final
  <2> QED BY Zenon, <1>6, <2>1, <2>2 DEF Join, planVars, lifeVars, Phases
<1>7. ASSUME NEW op \in Ops, PersistRead(op) \/ PersistRecord(op) \/ PersistFails(op)
      PROVE  DaemonTypeOK'
  <2>1. DeploymentOf[op] \in Deployments
    BY Zenon
  <2>2. CASE PersistRead(op)
    BY Zenon, <2>1, <2>2 DEF PersistRead, planVars, lifeVars, Phases
  <2>3. CASE PersistRecord(op)
    BY Zenon, <2>1, <2>3 DEF PersistRecord, lifeVars, Phases
  <2>4. CASE PersistFails(op)
    BY Zenon, <2>4 DEF PersistFails, planVars, lifeVars, Phases, Final
  <2> QED BY Zenon, <1>7, <2>2, <2>3, <2>4
<1>8. ASSUME NEW op \in Ops, FinishMemory(op) \/ FinishStore(op) \/ CancelRequest(op)
      PROVE  DaemonTypeOK'
  <2>1. CASE FinishMemory(op)
    BY Zenon, <2>1 DEF FinishMemory, planVars, lifeVars, Phases
  <2>2. CASE FinishStore(op)
    <3>1. /\ phase' = [phase EXCEPT ![op] = "stored"]
          /\ durable' = [durable EXCEPT ![op] = verdict[op]] \/ durable' = durable
          /\ UNCHANGED <<status, cancelled, lost, due, work, verdict, plan, terminal, disk,
                         applied, stray, daemon>>
      BY Zenon, <2>2 DEF FinishStore, planVars, lifeVars
    <3>2. phase' \in [Ops -> Phases]
      BY Zenon, <3>1 DEF Phases
    <3>3. verdict[op] \in Active \cup Final \cup {"absent", "none"}
      BY Zenon
    <3>4. durable' \in [Ops -> Active \cup Final \cup {"absent", "none"}]
      BY Zenon, <3>1, <3>3
    <3> QED BY Zenon, <3>1, <3>2, <3>4
  <2>3. CASE CancelRequest(op)
    BY Zenon, <2>3 DEF CancelRequest, planVars, lifeVars
  <2> QED BY Zenon, <1>8, <2>1, <2>2, <2>3
<1>9. ASSUME NEW op \in Ops, FinishNotify(op)
      PROVE  DaemonTypeOK'
  <2> DEFINE queue == Append(terminal, op)
  <2>1. terminal \in Seq(Ops) /\ op \in Ops /\ (\A i \in 1..Len(terminal) : terminal[i] \in Ops)
    OBVIOUS
  <2>2. queue \in Seq(Ops) /\ Tail(queue) \in Seq(Ops) /\ Head(queue) \in Ops
    BY ONLY Zenon, <2>1, QueueProperties
  <2> HIDE DEF queue
  <2>3. terminal' \in Seq(Ops)
    BY Zenon, <1>9, <2>1, <2>2 DEF FinishNotify, queue
  <2>4. status' \in [Ops -> Active \cup Final \cup {"absent", "none"}]
    BY Zenon, <1>9, <2>2 DEF FinishNotify, queue
  <2> QED BY Zenon, <1>9, <2>3, <2>4 DEF FinishNotify, planVars, lifeVars, Phases
<1>10. CASE BeginDrain \/ BeginJoin
  <2>1. /\ daemon' \in {"draining", "joining"} /\ RequestCancellation
        /\ UNCHANGED <<phase, status, durable, lost, due, work, verdict, plan, terminal, disk,
                       applied, stray>>
    BY Zenon, <1>10 DEF BeginDrain, BeginJoin, planVars
  <2>2. cancelled' \in [Ops -> BOOLEAN]
    BY Zenon, <2>1 DEF RequestCancellation
  <2> QED BY Zenon, <2>1, <2>2
<1>11. CASE Exit \/ Crash
  <2>1. <<>> \in Seq(Ops)
    OBVIOUS
  <2>2. CASE Exit
    BY Zenon, <2>1, <2>2 DEF Exit, ForgetMemory, planVars
  <2>3. CASE Crash
    BY Zenon, <2>1, <2>3 DEF Crash, ForgetMemory, planVars, Phases
  <2> QED BY Zenon, <1>11, <2>2, <2>3
<1>12. CASE Restart
  BY Zenon, <1>12 DEF Restart, Recover, planVars, Final
<1>13. CASE UNCHANGED vars
  BY Zenon, <1>13 DEF vars, opVars, planVars, lifeVars
<1> QED BY Zenon, <1>1, <1>2, <1>3, <1>4, <1>5, <1>6, <1>7, <1>8, <1>9, <1>10, <1>11, <1>12, <1>13
        DEF Next, TaskStep, Beat

LEMMA NewInit ==
  ASSUME Init, NEW op \in Ops
  PROVE  phase[op] = "new"
<1>1. phase = [q \in Ops |-> "new"]
  BY Zenon DEF Init
<1> QED BY Zenon, <1>1

(* A fresh daemon has no operation.                                         *)
LEMMA LifeInit == Init => LifeInv
  BY DEF Init, LifeInv, Life, Retained

(* A step of one operation, which is not among the ended ones, concerns the *)
(* life of that operation alone.                                            *)
LEMMA LifeMoves ==
  ASSUME LifeInv, NEW op \in Ops, phase[op] # "done", Life(op)',
         \A q \in Ops : q # op => /\ phase'[q] = phase[q] /\ status'[q] = status[q]
                                 /\ work'[q] = work[q] /\ handle'[q] = handle[q],
         daemon' = daemon, terminal' = terminal,
         \A i \in 1..Len(terminal) : terminal[i] \in Ops
  PROVE  LifeInv'
<1>1. Retained'
  <2> SUFFICES ASSUME NEW i \in 1..Len(terminal)
               PROVE  phase'[terminal[i]] = "done"
    BY Zenon DEF Retained
  <2>1. terminal[i] \in Ops /\ phase[terminal[i]] = "done"
    BY Zenon DEF LifeInv, Retained
  <2> QED BY Zenon, <2>1
<1>2. ASSUME NEW q \in Ops, q # op
      PROVE  Life(q)'
  <2>1. Life(q)
    BY Zenon DEF LifeInv
  <2> QED BY Zenon, <1>2, <2>1 DEF Life
<1> QED BY Zenon, <1>1, <1>2 DEF LifeInv

(* Every action leads an operation from one point of its life to the next.  *)
LEMMA LifeNext ==
  ASSUME DaemonTypeOK, LeaseTypeOK, LifeInv, [Next]_vars
  PROVE  LifeInv'
<1>0. \A i \in 1..Len(terminal) : terminal[i] \in Ops
  BY DEF DaemonTypeOK
<1>1. CASE \/ PassTime \/ BeginDrain \/ UNCHANGED vars
           \/ \E op \in Ops : Heartbeat(op) \/ HeartbeatFails(op) \/ CancelRequest(op)
  <2>1. /\ UNCHANGED <<phase, status, work, handle, terminal>>
        /\ daemon' = daemon \/ daemon' = "draining"
    BY Zenon, <1>1 DEF PassTime, Tick, BeginDrain, Heartbeat, HeartbeatFails, Extend, LockLost,
       CancelRequest, vars, opVars, lifeVars, leaseVars
  <2> QED BY Zenon, <2>1 DEF LifeInv, Life, Retained
<1>2. ASSUME NEW op \in Ops, ReadClock(op)
      PROVE  LifeInv'
  <2>1. /\ daemon = "up" /\ phase[op] = "new" /\ phase' = [phase EXCEPT ![op] = "asking"]
        /\ UNCHANGED <<status, work, handle, daemon, terminal>>
    BY Zenon, <1>2 DEF ReadClock, leaseVars, lifeVars
  <2>2. ASSUME NEW q \in Ops, q # op
        PROVE  phase'[q] = phase[q]
    BY Zenon, <2>1, <2>2 DEF DaemonTypeOK
  <2>3. phase'[op] = "asking"
    BY Zenon, <2>1 DEF DaemonTypeOK
  <2>4. Life(op)
    BY Zenon DEF LifeInv
  <2>5. Life(op)'
    BY Zenon, <2>1, <2>3, <2>4 DEF Life
  <2>6. phase[op] # "done"
    BY Zenon, <2>1
  <2> QED BY Zenon, <1>0, <2>1, <2>2, <2>5, <2>6, LifeMoves
<1>3. ASSUME NEW op \in Ops, Admit(op)
      PROVE  LifeInv'
  <2>1. /\ phase[op] = "asking" /\ phase' = [phase EXCEPT ![op] = "admitted"]
        /\ IF Mutating(op) THEN handle' = [handle EXCEPT ![op] = "held"] ELSE handle' = handle
        /\ UNCHANGED <<status, work, daemon, terminal>>
    BY Zenon, <1>3 DEF Admit, Acquire, leaseVars, lifeVars
  <2>2. ASSUME NEW q \in Ops, q # op
        PROVE  phase'[q] = phase[q] /\ handle'[q] = handle[q]
    BY Zenon, <2>1, <2>2 DEF DaemonTypeOK, LeaseTypeOK
  <2>3. phase'[op] = "admitted" /\ (Mutating(op) => handle'[op] = "held")
    BY Zenon, <2>1 DEF DaemonTypeOK, LeaseTypeOK
  <2>4. Life(op)
    BY Zenon DEF LifeInv
  <2>5. Life(op)'
    BY Zenon, <2>1, <2>3, <2>4 DEF Life, Mutating
  <2>6. phase[op] # "done"
    BY Zenon, <2>1
  <2> QED BY Zenon, <1>0, <2>1, <2>2, <2>5, <2>6, LifeMoves
<1>4. ASSUME NEW op \in Ops, Reject(op)
      PROVE  LifeInv'
  <2>1. /\ phase[op] = "asking" /\ phase' = [phase EXCEPT ![op] = "rejected"]
        /\ handle' = [handle EXCEPT ![op] = "gone"]
        /\ UNCHANGED <<status, work, daemon, terminal>>
    BY Zenon, <1>4 DEF Reject, Refuse, leaseVars, lifeVars
  <2>2. ASSUME NEW q \in Ops, q # op
        PROVE  phase'[q] = phase[q] /\ handle'[q] = handle[q]
    BY Zenon, <2>1, <2>2 DEF DaemonTypeOK, LeaseTypeOK
  <2>3. phase'[op] = "rejected"
    BY Zenon, <2>1 DEF DaemonTypeOK, LeaseTypeOK
  <2>4. Life(op)
    BY Zenon DEF LifeInv
  <2>5. Life(op)'
    BY Zenon, <2>1, <2>3, <2>4 DEF Life
  <2>6. phase[op] # "done"
    BY Zenon, <2>1
  <2> QED BY Zenon, <1>0, <2>1, <2>2, <2>5, <2>6, LifeMoves
<1>5. ASSUME NEW op \in Ops, Register(op)
      PROVE  LifeInv'
  <2>1. /\ phase[op] = "admitted" /\ phase' = [phase EXCEPT ![op] = "queued"]
        /\ status' = [status EXCEPT ![op] = "pending"]
        /\ UNCHANGED <<work, handle, daemon, terminal>>
    BY Zenon, <1>5 DEF Register, leaseVars, lifeVars
  <2>2. ASSUME NEW q \in Ops, q # op
        PROVE  phase'[q] = phase[q] /\ status'[q] = status[q]
    BY Zenon, <2>1, <2>2 DEF DaemonTypeOK
  <2>3. phase'[op] = "queued" /\ status'[op] = "pending"
    BY Zenon, <2>1 DEF DaemonTypeOK
  <2>4. Life(op)
    BY Zenon DEF LifeInv
  <2>5. Life(op)'
    BY Zenon, <2>1, <2>3, <2>4 DEF Life, Active, Mutating
  <2>6. phase[op] # "done"
    BY Zenon, <2>1
  <2> QED BY Zenon, <1>0, <2>1, <2>2, <2>5, <2>6, LifeMoves
<1>6. ASSUME NEW op \in Ops, RegisterFails(op) \/ FinishStore(op)
      PROVE  LifeInv'
  <2>1. ASSUME NEW q \in Ops, q # op
        PROVE  handle'[q] = handle[q]
    <3>1. Release(op) \/ Drop({op}) \/ UNCHANGED leaseVars
      BY Zenon, <1>6 DEF RegisterFails, FinishStore, GiveBack
    <3>2. CASE Release(op)
      BY Zenon, <2>1, <3>2 DEF Release, LeaseTypeOK
    <3>3. CASE Drop({op}) \/ UNCHANGED leaseVars
      BY Zenon, <2>1, <3>3 DEF Drop, leaseVars, LeaseTypeOK
    <3> QED BY Zenon, <3>1, <3>2, <3>3
  <2>2. /\ \/ phase[op] = "admitted" /\ phase' = [phase EXCEPT ![op] = "rejected"]
           \/ phase[op] = "ended" /\ phase' = [phase EXCEPT ![op] = "stored"]
        /\ UNCHANGED <<status, work, daemon, terminal>>
    BY Zenon, <1>6 DEF RegisterFails, FinishStore, lifeVars
  <2>3. ASSUME NEW q \in Ops, q # op
        PROVE  phase'[q] = phase[q]
    BY Zenon, <2>2, <2>3 DEF DaemonTypeOK
  <2>4. phase[op] \in {"admitted", "ended"} /\ phase'[op] \in {"rejected", "stored"}
    BY Zenon, <2>2 DEF DaemonTypeOK
  <2>5. Life(op)
    BY Zenon DEF LifeInv
  <2>6. Life(op)'
    BY Zenon, <2>2, <2>4, <2>5 DEF Life
  <2>7. phase[op] # "done"
    BY Zenon, <2>4
  <2> QED BY Zenon, <1>0, <2>1, <2>2, <2>3, <2>6, <2>7, LifeMoves
<1>7. ASSUME NEW op \in Ops, Start(op)
      PROVE  LifeInv'
  <2>1. /\ phase[op] = "queued" /\ phase' = [phase EXCEPT ![op] = "working"]
        /\ status' = [status EXCEPT ![op] = "running"]
        /\ work' = [work EXCEPT ![op] = "running"]
        /\ UNCHANGED <<handle, daemon, terminal>>
    BY Zenon, <1>7 DEF Start, leaseVars, lifeVars
  <2>2. ASSUME NEW q \in Ops, q # op
        PROVE  phase'[q] = phase[q] /\ status'[q] = status[q] /\ work'[q] = work[q]
    BY Zenon, <2>1, <2>2 DEF DaemonTypeOK
  <2>3. phase'[op] = "working" /\ status'[op] = "running"
    BY Zenon, <2>1 DEF DaemonTypeOK
  <2>4. Life(op)
    BY Zenon DEF LifeInv
  <2>5. Life(op)'
    BY Zenon, <2>1, <2>3, <2>4 DEF Life, Active, Mutating
  <2>6. phase[op] # "done"
    BY Zenon, <2>1
  <2> QED BY Zenon, <1>0, <2>1, <2>2, <2>5, <2>6, LifeMoves
<1>8. ASSUME NEW op \in Ops, CancelQueued(op)
      PROVE  LifeInv'
  <2>1. /\ phase[op] = "queued" /\ phase' = [phase EXCEPT ![op] = "closing"]
        /\ UNCHANGED <<status, work, handle, daemon, terminal>>
    BY Zenon, <1>8 DEF CancelQueued, leaseVars, lifeVars
  <2>2. ASSUME NEW q \in Ops, q # op
        PROVE  phase'[q] = phase[q]
    BY Zenon, <2>1, <2>2 DEF DaemonTypeOK
  <2>3. phase'[op] = "closing"
    BY Zenon, <2>1 DEF DaemonTypeOK
  <2>4. Life(op)
    BY Zenon DEF LifeInv
  <2>5. Life(op)'
    BY Zenon, <2>1, <2>3, <2>4 DEF Life, Mutating
  <2>6. phase[op] # "done"
    BY Zenon, <2>1
  <2> QED BY Zenon, <1>0, <2>1, <2>2, <2>5, <2>6, LifeMoves
<1>9. ASSUME NEW op \in Ops, WorkStep(op) \/ KillWork(op)
      PROVE  LifeInv'
  <2>1. work[op] # "none" /\ UNCHANGED <<phase, status, handle, daemon, terminal>>
    BY Zenon, <1>9 DEF WorkStep, WorkWrites, WorkEnds, CloneRegisters, CloneEnds, PipesClose,
       KillWork, leaseVars, lifeVars
  <2>2. \E w \in {"wrote", "ok", "failed", "killed", "held"} : work' = [work EXCEPT ![op] = w]
    BY Zenon, <1>9 DEF WorkStep, WorkWrites, WorkEnds, CloneRegisters, CloneEnds, PipesClose, KillWork
  <2>3. \A q \in Ops : q # op => work'[q] = work[q]
    BY Zenon, <2>2 DEF DaemonTypeOK
  <2>4. Life(op)
    BY Zenon DEF LifeInv
  <2>5. Life(op)' /\ phase[op] # "done"
    BY Zenon, <2>1, <2>4 DEF Life
  <2> QED BY Zenon, <1>0, <2>1, <2>3, <2>5, LifeMoves
<1>10. ASSUME NEW op \in Ops, Join(op)
       PROVE  LifeInv'
  <2>1. PICK s \in {"joined", "closing"} : phase' = [phase EXCEPT ![op] = s]
    BY Zenon, <1>10 DEF Join
  <2>2. /\ phase[op] = "working" /\ work' = [work EXCEPT ![op] = "none"]
        /\ UNCHANGED <<status, handle, daemon, terminal>>
    BY Zenon, <1>10 DEF Join, leaseVars, lifeVars
  <2>3. ASSUME NEW q \in Ops, q # op
        PROVE  phase'[q] = phase[q] /\ work'[q] = work[q]
    BY Zenon, <2>1, <2>2, <2>3 DEF DaemonTypeOK
  <2>4. phase'[op] = s /\ work'[op] = "none"
    BY Zenon, <2>1, <2>2 DEF DaemonTypeOK
  <2>5. Life(op)
    BY Zenon DEF LifeInv
  <2>6. Life(op)'
    BY Zenon, <2>2, <2>4, <2>5 DEF Life, Mutating
  <2>7. phase[op] # "done"
    BY Zenon, <2>2
  <2> QED BY Zenon, <1>0, <2>2, <2>3, <2>6, <2>7, LifeMoves
<1>11. ASSUME NEW op \in Ops, PersistRead(op) \/ PersistRecord(op) \/ PersistFails(op)
       PROVE  LifeInv'
  <2>1. PICK s \in {"recording", "closing"} : phase' = [phase EXCEPT ![op] = s]
    BY Zenon, <1>11 DEF PersistRead, PersistRecord, PersistFails
  <2>2. /\ phase[op] \in {"joined", "recording"}
        /\ UNCHANGED <<status, work, handle, daemon, terminal>>
    BY Zenon, <1>11 DEF PersistRead, PersistRecord, PersistFails, leaseVars, lifeVars
  <2>3. ASSUME NEW q \in Ops, q # op
        PROVE  phase'[q] = phase[q]
    BY Zenon, <2>1, <2>3 DEF DaemonTypeOK
  <2>4. phase'[op] = s
    BY Zenon, <2>1 DEF DaemonTypeOK
  <2>5. Life(op)
    BY Zenon DEF LifeInv
  <2>6. Life(op)' /\ phase[op] # "done"
    BY Zenon, <2>2, <2>4, <2>5 DEF Life, Mutating
  <2> QED BY Zenon, <1>0, <2>2, <2>3, <2>6, LifeMoves
<1>12. ASSUME NEW op \in Ops, FinishMemory(op)
       PROVE  LifeInv'
  <2>1. /\ phase[op] = "closing" /\ phase' = [phase EXCEPT ![op] = "ended"]
        /\ status' = [status EXCEPT ![op] = verdict[op]]
        /\ UNCHANGED <<work, handle, daemon, terminal>>
    BY Zenon, <1>12 DEF FinishMemory, leaseVars, lifeVars
  <2>2. ASSUME NEW q \in Ops, q # op
        PROVE  phase'[q] = phase[q] /\ status'[q] = status[q]
    BY Zenon, <2>1, <2>2 DEF DaemonTypeOK
  <2>3. phase'[op] = "ended"
    BY Zenon, <2>1 DEF DaemonTypeOK
  <2>4. Life(op)
    BY Zenon DEF LifeInv
  <2>5. Life(op)'
    BY Zenon, <2>1, <2>3, <2>4 DEF Life, Mutating
  <2>6. phase[op] # "done"
    BY Zenon, <2>1
  <2> QED BY Zenon, <1>0, <2>1, <2>2, <2>5, <2>6, LifeMoves
<1>13. ASSUME NEW op \in Ops, FinishNotify(op)
       PROVE  LifeInv'
  <2> DEFINE queue == Append(terminal, op)
             P == {q \in Ops : phase'[q] = "done"}
  <2>1. /\ phase' = [phase EXCEPT ![op] = "done"] /\ phase[op] = "stored"
        /\ UNCHANGED <<work, handle, daemon>>
    BY Zenon, <1>13 DEF FinishNotify, leaseVars, lifeVars
  <2>2. \A q \in Ops : IF q = op THEN phase'[q] = "done" ELSE phase'[q] = phase[q]
    BY Zenon, <2>1 DEF DaemonTypeOK
  <2>3. op \in P /\ (\A i \in 1..Len(terminal) : terminal[i] \in P)
    BY Zenon, <1>0, <2>2 DEF LifeInv, Retained
  <2>4. terminal \in Seq(Ops)
    BY Zenon DEF DaemonTypeOK
  <2> HIDE DEF P
  <2>5. /\ Head(queue) \in Ops \cap P
        /\ \A i \in 1..Len(queue) : queue[i] \in P
        /\ \A i \in 1..Len(Tail(queue)) : Tail(queue)[i] \in P
    BY Zenon, <2>3, <2>4, QueueProperties
  <2> HIDE DEF queue
  <2>6. \/ terminal' = Tail(queue) /\ status' = [status EXCEPT ![Head(queue)] = "absent"]
        \/ terminal' = queue /\ status' = status
    BY Zenon, <1>13 DEF FinishNotify, queue
  <2>7. Retained'
    BY Zenon, <2>5, <2>6 DEF P, Retained
  <2>8. ASSUME NEW q \in Ops
        PROVE  Life(q)'
    <3>1. Life(q)
      BY Zenon DEF LifeInv
    <3>2. CASE q \in P
      <4>1. phase'[q] = "done"
        BY Zenon, <3>2 DEF P
      <4>2. work[q] = "none" /\ ~(daemon = "joining" /\ phase[q] \in {"asking", "admitted"})
        BY Zenon, <2>1, <2>2, <3>1, <4>1 DEF Life
      <4> QED BY Zenon, <2>1, <4>1, <4>2 DEF Life
    <3>3. CASE q \notin P
      <4>1. status'[q] = status[q]
        BY Zenon, <2>5, <2>6, <3>3 DEF DaemonTypeOK
      <4>2. phase'[q] = phase[q]
        BY Zenon, <2>2, <3>3 DEF P
      <4> QED BY Zenon, <2>1, <3>1, <4>1, <4>2 DEF Life
    <3> QED BY Zenon, <3>2, <3>3
  <2> QED BY Zenon, <2>7, <2>8 DEF LifeInv
<1>14. CASE BeginJoin
  <2>1. /\ UNCHANGED <<phase, status, work, handle, terminal>> /\ daemon' = "joining"
        /\ \A op \in Ops : phase[op] \notin {"asking", "admitted"}
    BY Zenon, <1>14 DEF BeginJoin, leaseVars
  <2> QED BY Zenon, <2>1 DEF LifeInv, Life, Retained
<1>15. CASE Exit
  <2>1. /\ daemon = "joining" /\ daemon' = "exited" /\ terminal' = <<>> /\ work' = work
        /\ \A op \in Ops : phase'[op] = phase[op]
    BY Zenon, <1>15 DEF Exit, ForgetMemory
  <2>2. ASSUME NEW op \in Ops
        PROVE  phase[op] \in {"new", "rejected", "done", "dead"}
    <3>1. phase[op] \in Phases /\ status[op] \notin Active /\ phase[op] \notin {"ended", "stored"}
      BY Zenon, <1>15 DEF Exit, NothingActive, DaemonTypeOK
    <3>2. Life(op)
      BY Zenon DEF LifeInv
    <3> QED BY Zenon, <2>1, <3>1, <3>2 DEF Phases, Life
  <2>3. Retained'
    BY <2>1 DEF Retained
  <2>4. \A op \in Ops : Life(op)'
    BY Zenon, <2>1, <2>2 DEF Life, LifeInv
  <2> QED BY Zenon, <2>3, <2>4 DEF LifeInv
<1>16. CASE Crash
  <2>1. daemon' = "crashed" /\ terminal' = <<>>
    BY Zenon, <1>16 DEF Crash, ForgetMemory
  <2>2. Retained'
    BY <2>1 DEF Retained
  <2>3. ASSUME NEW op \in Ops
        PROVE  Life(op)'
    <3>1. phase'[op] \in {"new", "rejected", "done", "dead"}
      BY Zenon, <1>16 DEF Crash, ForgetMemory, DaemonTypeOK
    <3>2. phase'[op] = "dead" \/ phase'[op] = phase[op]
      BY Zenon, <1>16 DEF Crash, ForgetMemory
    <3>3. work[op] = "none" => work'[op] = "none"
      BY Zenon, <1>16 DEF Crash
    <3>4. Life(op)
      BY Zenon DEF LifeInv
    <3> QED BY Zenon, <2>1, <3>1, <3>2, <3>3, <3>4 DEF Life
  <2> QED BY Zenon, <2>2, <2>3 DEF LifeInv
<1>17. CASE Restart
  <2>1. UNCHANGED <<phase, status, work, handle, terminal>> /\ daemon' = "up"
    BY Zenon, <1>17 DEF Restart, leaseVars
  <2> QED BY Zenon, <2>1 DEF LifeInv, Life, Retained
<1> QED BY Zenon, <1>1, <1>2, <1>3, <1>4, <1>5, <1>6, <1>7, <1>8, <1>9, <1>10, <1>11, <1>12, <1>13,
           <1>14, <1>15, <1>16, <1>17
        DEF Next, TaskStep, Beat

(* The leases, the clock readings and the life of every operation together. *)
DaemonInv == LeaseInv /\ ClockInv /\ DaemonTypeOK /\ LifeInv

(* The daemon's invariant whatever fails and whenever it is scheduled: an   *)
(* operation that has not ended is active in the map and keeps its lease, a *)
(* process that is gone has no task, and only ended operations wait for     *)
(* eviction.                                                                *)
THEOREM DaemonInvariance == Spec => []DaemonInv
<1>1. Init => DaemonInv
  BY Zenon, LeaseInitInv, ClockInit, TypeInit, LifeInit DEF Init, DaemonInv
<1>2. DaemonInv /\ [Next]_vars => DaemonInv'
  <2>1. DaemonInv /\ [Next]_vars => LeaseInv' /\ ClockInv'
    BY Zenon, DaemonLeaseStep, LeaseNextInv, ClockNext DEF DaemonInv
  <2>2. DaemonInv /\ [Next]_vars => DaemonTypeOK' /\ LifeInv'
    BY Zenon, TypeNext, LifeNext DEF DaemonInv, LeaseInv
  <2> QED BY Zenon, <2>1, <2>2 DEF DaemonInv
<1> QED BY <1>1, <1>2, PTL DEF Spec

-----------------------------------------------------------------------------
(* Every action keeps what AnnouncedIsStable rests on, when SQLite works.   *)
LEMMA AnnounceNext ==
  ASSUME ~StoreFaults, DaemonInv, AnnounceInv, [Next]_vars
  PROVE  AnnounceInv'
<1> USE DEF AnnounceInv
<1>0. DaemonTypeOK /\ LifeInv
  BY Zenon DEF DaemonInv
<1>1. ASSUME NEW op \in Ops,
             \/ ReadClock(op) \/ Admit(op) \/ Reject(op) \/ Register(op)
      PROVE  AnnounceInv'
  <2>1. /\ \E s \in {"asking", "admitted", "rejected", "queued"} :
             phase' = [phase EXCEPT ![op] = s]
        /\ UNCHANGED verdict
        /\ \A q \in Ops : q # op => status'[q] = status[q] /\ durable'[q] = durable[q]
    BY Zenon, <1>0, <1>1 DEF DaemonTypeOK, ReadClock, Admit, Reject, Register
  <2>2. ASSUME NEW q \in Ops
        PROVE  \/ phase'[q] \in {"asking", "admitted", "rejected", "queued"}
               \/ /\ phase'[q] = phase[q] /\ status'[q] = status[q] /\ durable'[q] = durable[q]
    BY Zenon, <1>0, <2>1 DEF DaemonTypeOK
  <2> QED BY Zenon, <2>1, <2>2
<1>2. ASSUME NEW op \in Ops, RegisterFails(op)
      PROVE  AnnounceInv'
  BY Zenon, <1>2 DEF RegisterFails
<1>3. ASSUME NEW op \in Ops, Start(op)
      PROVE  AnnounceInv'
  BY <1>0, <1>3 DEF DaemonTypeOK, Start
<1>4. ASSUME NEW op \in Ops, CancelQueued(op)
      PROVE  AnnounceInv'
  BY Zenon, <1>0, <1>4 DEF DaemonTypeOK, CancelQueued, Final
<1>5. ASSUME NEW op \in Ops, Heartbeat(op) \/ HeartbeatFails(op) \/ WorkStep(op) \/ KillWork(op)
      PROVE  AnnounceInv'
  <2>1. UNCHANGED <<phase, status, durable, verdict>>
    BY Zenon, <1>5 DEF Heartbeat, HeartbeatFails, WorkStep, WorkWrites, WorkEnds, CloneRegisters,
       CloneEnds, PipesClose, KillWork
  <2> QED BY Zenon, <2>1
<1>6. ASSUME NEW op \in Ops, Join(op)
      PROVE  AnnounceInv'
  <2>1. PICK outcome \in Outcomes(op) :
          /\ verdict' = [verdict EXCEPT ![op] = StatusOf(op, outcome)]
          /\ \E s \in {"joined", "closing"} : phase' = [phase EXCEPT ![op] = s]
    BY Zenon, <1>6 DEF Join
  <2>2. StatusOf(op, outcome) \in Final
    BY Zenon DEF StatusOf, CloneStatus, CommandStatus, Final
  <2>3. UNCHANGED <<status, durable>>
    BY Zenon, <1>6 DEF Join
  <2> QED BY Zenon, <1>0, <2>1, <2>2, <2>3 DEF DaemonTypeOK
<1>7. ASSUME NEW op \in Ops, PersistRead(op) \/ PersistRecord(op) \/ PersistFails(op)
      PROVE  AnnounceInv'
  <2>1. /\ phase[op] \in {"joined", "recording"}
        /\ \E s \in {"recording", "closing"} : phase' = [phase EXCEPT ![op] = s]
        /\ verdict' = verdict \/ verdict' = [verdict EXCEPT ![op] = "failed"]
        /\ UNCHANGED <<status, durable>>
    BY Zenon, <1>7 DEF PersistRead, PersistRecord, PersistFails
  <2> QED BY <1>0, <2>1 DEF DaemonTypeOK, Final
<1>8. ASSUME NEW op \in Ops, FinishMemory(op)
      PROVE  AnnounceInv'
  BY Zenon, <1>0, <1>8 DEF DaemonTypeOK, FinishMemory
<1>9. ASSUME NEW op \in Ops, FinishStore(op)
      PROVE  AnnounceInv'
  <2>1. /\ phase[op] = "ended" /\ phase' = [phase EXCEPT ![op] = "stored"]
        /\ durable' = [durable EXCEPT ![op] = verdict[op]]
        /\ UNCHANGED <<status, verdict>>
    BY Zenon, <1>9 DEF FinishStore
  <2> QED BY Zenon, <1>0, <2>1 DEF DaemonTypeOK
<1>10. ASSUME NEW op \in Ops, FinishNotify(op)
       PROVE  AnnounceInv'
  <2>1. /\ phase[op] = "stored" /\ phase' = [phase EXCEPT ![op] = "done"]
        /\ UNCHANGED <<durable, verdict>>
    BY Zenon, <1>10 DEF FinishNotify
  <2>2. \E p : status' = [status EXCEPT ![p] = "absent"] \/ status' = status
    BY Zenon, <1>10 DEF FinishNotify
  <2>3. \A q \in Ops : status'[q] \in {status[q], "absent"}
    BY Zenon, <1>0, <2>2 DEF DaemonTypeOK
  <2> QED BY Zenon, <1>0, <2>1, <2>3 DEF DaemonTypeOK
<1>11. CASE PassTime \/ BeginDrain \/ BeginJoin \/ UNCHANGED vars
  <2>1. UNCHANGED <<phase, status, durable, verdict>>
    BY Zenon, <1>11 DEF PassTime, BeginDrain, BeginJoin, vars, opVars
  <2> QED BY Zenon, <2>1
<1>12. ASSUME NEW op \in Ops, CancelRequest(op)
       PROVE  AnnounceInv'
  BY Zenon, <1>12 DEF CancelRequest
<1>13. CASE Exit \/ Crash
  <2>1. /\ UNCHANGED <<durable, verdict>>
        /\ \A q \in Ops : status'[q] = "absent" /\ phase'[q] \in {phase[q], "dead"}
    BY Zenon, <1>13 DEF Exit, Crash, ForgetMemory
  <2> QED BY Zenon, <2>1
<1>14. CASE Restart
  <2>1. /\ UNCHANGED <<phase, status, verdict>>
        /\ \A q \in Ops : durable'[q] = Recover(durable[q])
    BY Zenon, <1>14 DEF Restart
  <2>2. \A s \in Final : Recover(s) = s
    BY Zenon DEF Recover, Final, Active
  <2> QED BY Zenon, <2>1, <2>2
<1> QED BY Zenon, <1>1, <1>2, <1>3, <1>4, <1>5, <1>6, <1>7, <1>8, <1>9, <1>10, <1>11, <1>12, <1>13,
           <1>14
        DEF Next, TaskStep, Beat

(* Once the terminal event is out, get_operation answers the announced      *)
(* status for ever: across eviction, shutdown, a crash at any point and     *)
(* recover_abandoned_operations, as long as SQLite calls do not fail.       *)
THEOREM AnnouncedStatusStable ==
  ASSUME ~StoreFaults
  PROVE  Spec => []AnnouncedIsStable
<1>1. Init => AnnounceInv
  BY Zenon, NewInit DEF AnnounceInv
<1>2. DaemonInv /\ AnnounceInv /\ [Next]_vars => AnnounceInv'
  BY Zenon, AnnounceNext
<1>3. AnnounceInv => AnnouncedIsStable
  BY Zenon DEF AnnounceInv, AnnouncedIsStable, Reported
<1> QED BY <1>1, <1>2, <1>3, DaemonInvariance, PTL DEF Spec

-----------------------------------------------------------------------------
(* Every action keeps what ExitIsClean rests on, when SQLite works.         *)
LEMMA RowsNext ==
  ASSUME ~StoreFaults, DaemonInv, RowsInv, [Next]_vars
  PROVE  RowsInv'
<1> DEFINE Early == {"new", "asking", "admitted", "rejected"}
           Kept(q) == phase[q] \in RowPhases => phase'[q] \in RowPhases
           Rowless(q) == phase'[q] \in Early => phase[q] \in Early /\ durable'[q] = durable[q]
<1>0. DaemonTypeOK /\ LeaseTypeOK /\ LifeInv /\ RowKeyed
  BY Zenon DEF DaemonInv, LeaseInv
<1>1. ASSUME holder' = holder, \A q \in Ops : Kept(q) /\ Rowless(q)
      PROVE  RowsInv'
  BY <1>0, <1>1 DEF RowsInv, LeaseTypeOK, Mutating
<1>2. ASSUME NEW op \in Ops, Admit(op)
      PROVE  RowsInv'
  <2>1. /\ phase[op] = "asking" /\ phase' = [phase EXCEPT ![op] = "admitted"]
        /\ UNCHANGED durable
    BY Zenon, <1>2 DEF Admit
  <2>2. \A q \in Ops : Kept(q) /\ Rowless(q)
    BY Zenon, <1>0, <2>1 DEF DaemonTypeOK, RowPhases
  <2>3. CASE ~Mutating(op)
    BY Zenon, <1>1, <1>2, <2>2, <2>3 DEF Admit, leaseVars
  <2>4. CASE Mutating(op)
    <3>1. holder' = [holder EXCEPT ![DeploymentOf[op]] = op]
      BY Zenon, <1>2, <2>4 DEF Admit, Acquire
    <3>2. ASSUME NEW d \in Deployments, holder'[d] # NoOp
          PROVE  Mutating(holder'[d]) /\ phase'[holder'[d]] \in RowPhases
      <4>1. CASE holder'[d] = op
        BY Zenon, <1>0, <2>1, <2>4, <4>1 DEF DaemonTypeOK, RowPhases
      <4>2. CASE holder'[d] # op
        <5>1. holder'[d] = holder[d] /\ holder[d] \in Ops
          BY Zenon, <1>0, <3>1, <3>2, <4>2 DEF LeaseTypeOK
        <5> QED BY Zenon, <2>2, <3>2, <5>1 DEF RowsInv
      <4> QED BY Zenon, <4>1, <4>2
    <3>3. \A q \in Ops : phase'[q] \in Early => durable'[q] = "absent"
      BY Zenon, <2>2 DEF RowsInv
    <3> QED BY Zenon, <3>2, <3>3 DEF RowsInv, Mutating
  <2> QED BY Zenon, <2>3, <2>4
<1>3. ASSUME NEW op \in Ops, FinishStore(op)
      PROVE  RowsInv'
  <2>1. /\ phase[op] = "ended" /\ phase' = [phase EXCEPT ![op] = "stored"]
        /\ durable' = [durable EXCEPT ![op] = verdict[op]]
    BY Zenon, <1>3 DEF FinishStore
  <2>2. \A q \in Ops : Rowless(q) /\ (q # op => phase'[q] = phase[q])
    BY Zenon, <1>0, <2>1 DEF DaemonTypeOK
  <2>3. ASSUME NEW d \in Deployments, holder'[d] # NoOp
        PROVE  holder'[d] = holder[d] /\ holder[d] # op
    <3>1. CASE Mutating(op)
      <4>1. Release(op)
        BY Zenon, <1>3, <3>1 DEF FinishStore, GiveBack
      <4>2. holder[d] = op => d = DeploymentOf[op]
        BY Zenon, <1>0, LeaseAssumption DEF RowKeyed
      <4>3. CASE holder[d] = op
        <5>1. holder' = [holder EXCEPT ![d] = NoOp]
          BY Zenon, <4>1, <4>2, <4>3 DEF Release
        <5> QED BY Zenon, <1>0, <2>3, <5>1 DEF LeaseTypeOK
      <4>4. CASE holder[d] # op
        BY Zenon, <1>0, <2>3, <4>1, <4>4, LeaseAssumption DEF Release, LeaseTypeOK
      <4> QED BY Zenon, <4>3, <4>4
    <3>2. CASE ~Mutating(op)
      BY Zenon, <1>3, <2>3, <3>2 DEF FinishStore, GiveBack, leaseVars, RowsInv
    <3> QED BY Zenon, <3>1, <3>2
  <2>4. \A d \in Deployments : holder[d] \in Ops \cup {NoOp}
    BY Zenon, <1>0 DEF LeaseTypeOK
  <2> QED BY <2>2, <2>3, <2>4 DEF RowsInv, Mutating
<1>4. ASSUME NEW op \in Ops,
             \/ ReadClock(op) \/ Reject(op) \/ Register(op) \/ Start(op) \/ CancelQueued(op)
      PROVE  RowsInv'
  <2>1. \A q \in Ops : q # op => phase'[q] = phase[q] /\ durable'[q] = durable[q]
    BY Zenon, <1>0, <1>4 DEF DaemonTypeOK, ReadClock, Reject, Register, Start, CancelQueued
  <2>2. Kept(op) /\ Rowless(op)
    <3>1. CASE ReadClock(op) \/ Reject(op)
      BY Zenon, <1>0, <3>1 DEF DaemonTypeOK, ReadClock, Reject, RowPhases
    <3>2. CASE Register(op) \/ Start(op) \/ CancelQueued(op)
      <4>1. phase'[op] \in {"queued", "working", "closing"}
        BY Zenon, <1>0, <3>2 DEF DaemonTypeOK, Register, Start, CancelQueued
      <4> QED BY Zenon, <4>1 DEF RowPhases
    <3> QED BY Zenon, <1>4, <3>1, <3>2
  <2>3. holder' = holder
    BY Zenon, <1>4 DEF ReadClock, Reject, Refuse, Register, Start, CancelQueued, leaseVars
  <2> QED BY Zenon, <1>1, <2>1, <2>2, <2>3
<1>5. ASSUME NEW op \in Ops,
             \/ Heartbeat(op) \/ HeartbeatFails(op) \/ WorkStep(op) \/ KillWork(op)
             \/ CancelRequest(op)
      PROVE  RowsInv'
  <2>1. UNCHANGED <<phase, durable, holder>>
    BY Zenon, <1>5 DEF Heartbeat, Extend, HeartbeatFails, LockLost, WorkStep, WorkWrites, WorkEnds,
       CloneRegisters, CloneEnds, PipesClose, KillWork, CancelRequest, leaseVars
  <2> QED BY Zenon, <1>1, <2>1
<1>6. ASSUME NEW op \in Ops,
             \/ Join(op) \/ PersistRead(op) \/ PersistRecord(op) \/ PersistFails(op)
             \/ FinishMemory(op) \/ FinishNotify(op)
      PROVE  RowsInv'
  <2>1. /\ UNCHANGED <<durable, holder>>
        /\ \/ \E s \in {"joined", "recording", "closing", "ended"} :
                phase' = [phase EXCEPT ![op] = s]
           \/ phase[op] = "stored" /\ phase' = [phase EXCEPT ![op] = "done"]
    BY Zenon, <1>6 DEF Join, PersistRead, PersistRecord, PersistFails, FinishMemory, FinishNotify,
       leaseVars
  <2>2. \A q \in Ops : Kept(q) /\ Rowless(q)
    BY Zenon, <1>0, <2>1 DEF DaemonTypeOK, RowPhases
  <2> QED BY Zenon, <1>1, <2>1, <2>2
<1>7. ASSUME NEW op \in Ops, RegisterFails(op)
      PROVE  RowsInv'
  BY Zenon, <1>7 DEF RegisterFails
<1>8. CASE PassTime \/ BeginDrain \/ BeginJoin \/ UNCHANGED vars
  <2>1. UNCHANGED <<phase, durable, holder>>
    BY Zenon, <1>8 DEF PassTime, Tick, BeginDrain, BeginJoin, vars, opVars, leaseVars
  <2> QED BY Zenon, <1>1, <2>1
<1>9. CASE Exit \/ Crash
  <2>1. UNCHANGED <<durable, holder>>
    BY Zenon, <1>9 DEF Exit, Crash, Drop, leaseVars
  <2>2. \A q \in Ops : phase'[q] \in {phase[q], "dead"}
    <3>1. CASE Exit
      BY Zenon, <3>1 DEF Exit, ForgetMemory
    <3>2. CASE Crash
      BY Zenon, <3>2 DEF Crash, ForgetMemory
    <3> QED BY Zenon, <1>9, <3>1, <3>2
  <2> QED BY Zenon, <1>1, <2>1, <2>2 DEF RowPhases
<1>10. CASE Restart
  <2>1. UNCHANGED <<phase, holder>> /\ (\A q \in Ops : durable'[q] = Recover(durable[q]))
    BY Zenon, <1>10 DEF Restart, leaseVars
  <2>2. Recover("absent") = "absent"
    BY Zenon DEF Recover, Active
  <2> QED BY Zenon, <2>1, <2>2 DEF RowsInv, Mutating
<1> QED BY Zenon, <1>2, <1>3, <1>4, <1>5, <1>6, <1>7, <1>8, <1>9, <1>10 DEF Next, TaskStep, Beat

(* A graceful exit leaves nothing behind: every operation that the exiting  *)
(* daemon had is recorded with its outcome, its work is over and its lease  *)
(* row is gone, as long as SQLite calls do not fail.                        *)
THEOREM GracefulExitClean ==
  ASSUME ~StoreFaults
  PROVE  Spec => []ExitIsClean
<1>1. Init => AnnounceInv /\ RowsInv
  BY DEF Init, LeaseInit, AnnounceInv, RowsInv
<1>2. DaemonInv /\ AnnounceInv /\ RowsInv /\ [Next]_vars => AnnounceInv' /\ RowsInv'
  BY Zenon, AnnounceNext, RowsNext
<1>3. DaemonInv /\ AnnounceInv /\ RowsInv => ExitIsClean
  <2> SUFFICES ASSUME DaemonInv, AnnounceInv, RowsInv, daemon = "exited"
               PROVE  ExitIsClean
    BY Zenon DEF ExitIsClean
  <2>1. \A op \in Ops :
          /\ phase[op] \in {"new", "rejected", "done", "dead"}
          /\ phase[op] # "dead" => work[op] = "none"
    BY Zenon DEF DaemonInv, LifeInv, Life
  <2>2. \A op \in Ops : phase[op] # "dead" => durable[op] \notin Active
    BY Zenon, <2>1 DEF AnnounceInv, RowsInv, Final, Active
  <2>3. \A d \in Deployments : holder[d] # NoOp => holder[d] \in Ops
    BY Zenon DEF DaemonInv, LeaseInv, LeaseTypeOK
  <2> QED BY Zenon, <2>1, <2>2, <2>3 DEF ExitIsClean, RowsInv, RowPhases
<1> QED BY <1>1, <1>2, <1>3, DaemonInvariance, PTL DEF Spec

-----------------------------------------------------------------------------
(* A step of one operation's task, handler or work.                         *)
OpStep(op) ==
  ReadClock(op) \/ TaskStep(op) \/ Beat(op) \/ CancelRequest(op) \/ WorkStep(op)

(* The task of one operation does not touch the variables of another's.     *)
LEMMA OthersUntouched ==
  ASSUME DaemonTypeOK, NEW op \in Ops, NEW q \in Ops, q # op, OpStep(q)
  PROVE  /\ phase'[op] = phase[op] /\ lost'[op] = lost[op] /\ due'[op] = due[op]
         /\ work'[op] = work[op] /\ plan'[op] = plan[op]
         /\ now' = now
<1>1. CASE ReadClock(q) \/ Admit(q) \/ Reject(q) \/ Register(q) \/ RegisterFails(q)
  <2>1. now' = now
    BY Zenon, <1>1 DEF ReadClock, Admit, Acquire, Reject, Refuse, Register, RegisterFails, GiveBack,
       Release, Drop, leaseVars
  <2> QED BY Zenon, <1>1, <2>1 DEF DaemonTypeOK, ReadClock, Admit, Reject, Register, RegisterFails
<1>2. CASE Start(q) \/ CancelQueued(q) \/ KillWork(q)
  BY <1>2 DEF DaemonTypeOK, Start, CancelQueued, KillWork, leaseVars
<1>3. CASE Join(q)
  BY Zenon, <1>3 DEF DaemonTypeOK, Join, leaseVars
<1>4. CASE PersistRead(q) \/ PersistRecord(q) \/ PersistFails(q)
  <2>1. /\ UNCHANGED <<lost, due, work, now>>
        /\ \E s \in {"recording", "closing"} : phase' = [phase EXCEPT ![q] = s]
    BY Zenon, <1>4 DEF PersistRead, PersistRecord, PersistFails, leaseVars
  <2>2. \E p : plan' = [plan EXCEPT ![q] = p]
    BY Zenon, <1>4 DEF PersistRead, PersistRecord, PersistFails
  <2> QED BY Zenon, <2>1, <2>2 DEF DaemonTypeOK
<1>5. CASE FinishMemory(q) \/ FinishStore(q) \/ FinishNotify(q)
  <2>1. now' = now
    BY Zenon, <1>5 DEF FinishMemory, FinishStore, FinishNotify, GiveBack, Release, Drop, leaseVars
  <2> QED BY Zenon, <1>5, <2>1 DEF DaemonTypeOK, FinishMemory, FinishStore, FinishNotify
<1>6. CASE Beat(q) \/ CancelRequest(q)
  BY Zenon, <1>6 DEF DaemonTypeOK, Beat, Heartbeat, HeartbeatFails, CancelRequest, Extend, LockLost,
     leaseVars
<1>7. CASE WorkStep(q)
  BY Zenon, <1>7 DEF DaemonTypeOK, WorkStep, WorkWrites, WorkEnds, CloneRegisters, CloneEnds,
     PipesClose, leaseVars
<1> QED BY Zenon, <1>1, <1>2, <1>3, <1>4, <1>5, <1>6, <1>7 DEF OpStep, TaskStep

(* The row of an operation that is unexpired now is not changed by another  *)
(* operation: acquire_lock finds it contended, heartbeat_lock and           *)
(* release_lock find another token in it.                                   *)
LEMMA RowUntouched ==
  ASSUME DaemonInv, NEW op \in Ops, NEW q \in Ops, q # op, OpStep(q), Matches(op, now)
  PROVE  LET d == DeploymentOf[op] IN holder'[d] = op /\ rowExpiry'[d] = rowExpiry[d]
<1> DEFINE d == DeploymentOf[op]
<1>0. /\ DaemonTypeOK /\ LeaseTypeOK /\ RowKeyed /\ ClockInv
      /\ d \in Deployments /\ holder[d] = op /\ rowExpiry[d] > now /\ op # NoOp
  BY Zenon, LeaseAssumption DEF DaemonInv, LeaseInv, Matches
<1>1. CASE UNCHANGED <<holder, rowExpiry>>
  BY Zenon, <1>0, <1>1
<1>2. CASE Admit(q)
  <2>1. CASE Mutating(q)
    <3>1. Acquire(q, clock[q]) /\ clock[q] <= now /\ clock[q] \in Nat
      BY Zenon, <1>0, <1>2, <2>1 DEF Admit, ClockInv
    <3>2. DeploymentOf[q] # d
      <4>1. ~Contended(q, clock[q])
        BY Zenon, <3>1 DEF Acquire
      <4>2. rowExpiry[d] \in Nat /\ now \in Nat
        BY Zenon, <1>0 DEF LeaseTypeOK, ClockInv
      <4>3. now >= clock[q]
        BY Zenon, <3>1, <4>2
      <4>4. rowExpiry[d] > clock[q]
        BY Zenon, <1>0, <3>1, <4>2, <4>3, LaterStill
      <4> QED BY Zenon, <1>0, <4>1, <4>4 DEF Contended
    <3> QED BY Zenon, <1>0, <3>1, <3>2 DEF Acquire, LeaseTypeOK
  <2>2. CASE ~Mutating(q)
    BY Zenon, <1>1, <1>2, <2>2 DEF Admit, leaseVars
  <2> QED BY Zenon, <2>1, <2>2
<1>3. CASE RegisterFails(q) \/ FinishStore(q)
  <2>1. Release(q) \/ Drop({q}) \/ UNCHANGED leaseVars
    BY Zenon, <1>3 DEF RegisterFails, FinishStore, GiveBack
  <2>2. CASE Release(q)
    <3>1. holder[DeploymentOf[q]] = q => DeploymentOf[q] # d
      BY Zenon, <1>0
    <3> QED BY Zenon, <1>0, <2>2, <3>1 DEF Release, LeaseTypeOK
  <2>3. CASE Drop({q}) \/ UNCHANGED leaseVars
    BY Zenon, <1>1, <2>3 DEF Drop, leaseVars
  <2> QED BY Zenon, <2>1, <2>2, <2>3
<1>4. CASE Heartbeat(q)
  <2>1. holder' = holder /\ DeploymentOf[q] # d
    BY Zenon, <1>0, <1>4 DEF Heartbeat, Extend, Matches
  <2> QED BY Zenon, <1>0, <1>4, <2>1 DEF Heartbeat, Extend, LeaseTypeOK
<1>5. CASE \/ ReadClock(q) \/ Reject(q) \/ Register(q) \/ Start(q) \/ CancelQueued(q)
           \/ KillWork(q) \/ Join(q) \/ PersistRead(q) \/ PersistRecord(q) \/ PersistFails(q)
           \/ FinishMemory(q) \/ FinishNotify(q) \/ HeartbeatFails(q) \/ CancelRequest(q)
           \/ WorkStep(q)
  BY Zenon, <1>1, <1>5 DEF ReadClock, Reject, Refuse, Register, Start, CancelQueued, KillWork, Join,
     PersistRead, PersistRecord, PersistFails, FinishMemory, FinishNotify, HeartbeatFails,
     LockLost, CancelRequest, WorkStep, WorkWrites, WorkEnds, CloneRegisters, CloneEnds, PipesClose,
     leaseVars
<1> QED BY Zenon, <1>2, <1>3, <1>4, <1>5 DEF OpStep, TaskStep, Beat

(* A stray write is never forgotten.                                        *)
LEMMA StrayStays ==
  ASSUME DaemonInv, NEW q \in Ops, OpStep(q), NEW op \in Ops
  PROVE  stray[DeploymentOf[op]] => stray'[DeploymentOf[op]]
<1>0. DaemonTypeOK /\ DeploymentOf[op] \in Deployments
  BY Zenon, LeaseAssumption DEF DaemonInv
<1>1. CASE WorkWrites(q)
  <2>1. stray' = [stray EXCEPT ![DeploymentOf[q]] = @ \/ ~Matches(q, now)]
    BY Zenon, <1>1 DEF WorkWrites
  <2> QED BY Zenon, <1>0, <2>1 DEF DaemonTypeOK
<1>2. WorkWrites(q) \/ UNCHANGED stray
  BY Zenon
     DEF OpStep, TaskStep, Beat, ReadClock, Admit, Reject, Register, RegisterFails, Start,
         CancelQueued, KillWork, Join, PersistRead, PersistRecord, PersistFails,
         FinishMemory, FinishStore, FinishNotify, Heartbeat, HeartbeatFails, CancelRequest,
         WorkStep, WorkEnds, CloneRegisters, CloneEnds, PipesClose, planVars
<1> QED BY Zenon, <1>1, <1>2

(* What an operation wrote under its lease stays, or somebody strays: with  *)
(* an unexpired row no other operation writes there under a lease.          *)
LEMMA WrittenUntouched ==
  ASSUME DaemonInv, NEW op \in Ops, NEW q \in Ops, q # op, OpStep(q),
         KindOf[op] # "clone", Covered(op)
  PROVE  Covered(op)'
<1> DEFINE d == DeploymentOf[op]
<1>0. DaemonTypeOK /\ d \in Deployments
  BY Zenon, LeaseAssumption DEF DaemonInv
<1>1. stray[d] => stray'[d]
  BY Zenon, StrayStays
<1>2. CASE Matches(op, now) /\ disk[d] = op
  <2>1. holder[d] = op /\ Matches(op, now)'
    BY Zenon, <1>2, RowUntouched, OthersUntouched, <1>0 DEF Matches
  <2>2. stray'[d] \/ disk'[d] = op
    <3>1. CASE UNCHANGED disk
      BY Zenon, <1>2, <3>1
    <3>2. CASE WorkWrites(q)
      <4>1. CASE DeploymentOf[q] = d
        <5>1. ~Matches(q, now)
          BY Zenon, <2>1, <4>1 DEF Matches
        <5> QED BY <1>0, <3>2, <4>1, <5>1, Zenon DEF WorkWrites, DaemonTypeOK
      <4>2. CASE DeploymentOf[q] # d
        BY Zenon, <1>0, <1>2, <3>2, <4>2 DEF WorkWrites, DaemonTypeOK
      <4> QED BY Zenon, <4>1, <4>2
    <3>3. CASE CloneRegisters(q) \/ CloneEnds(q)
      <4>1. DeploymentOf[q] # d
        BY Zenon, <3>3, DaemonAssumption DEF CloneRegisters, CloneEnds
      <4>2. \/ disk' = [disk EXCEPT ![DeploymentOf[q]] = q]
            \/ disk' = [disk EXCEPT ![DeploymentOf[q]] = NoOp]
            \/ disk' = disk
        BY Zenon, <3>3 DEF CloneRegisters, CloneEnds
      <4> QED BY Zenon, <1>0, <1>2, <4>1, <4>2 DEF DaemonTypeOK
    <3> QED BY Zenon, <3>1, <3>2, <3>3
            DEF OpStep, TaskStep, Beat, ReadClock, Admit, Reject, Register, RegisterFails,
                Start, CancelQueued, KillWork, Join, PersistRead, PersistRecord, PersistFails,
                FinishMemory, FinishStore, FinishNotify, Heartbeat, HeartbeatFails,
                CancelRequest, WorkStep, WorkEnds, PipesClose, planVars
  <2> QED BY Zenon, <2>1, <2>2 DEF Covered
<1> QED BY Zenon, <1>1, <1>2 DEF Covered

(* A step of another operation keeps an operation covered.                  *)
LEMMA CoverOthers ==
  ASSUME DaemonInv, NEW op \in Ops, NEW q \in Ops, q # op, OpStep(q), CoverOf(op)
  PROVE  CoverOf(op)'
<1>0. /\ phase'[op] = phase[op] /\ lost'[op] = lost[op] /\ due'[op] = due[op]
      /\ work'[op] = work[op] /\ plan'[op] = plan[op]
      /\ now' = now
  <2>1. DaemonTypeOK
    BY Zenon DEF DaemonInv
  <2> QED BY Zenon, <2>1, OthersUntouched
<1>1. stray[DeploymentOf[op]] => stray'[DeploymentOf[op]]
  BY Zenon, StrayStays
<1>2. KindOf[op] # "clone" /\ Covered(op) => Covered(op)'
  BY Zenon, WrittenUntouched
<1>3. due[op] \in Nat /\ now \in Nat /\ rowExpiry[DeploymentOf[op]] \in Nat
  BY LeaseAssumption DEF DaemonInv, DaemonTypeOK, LeaseInv, LeaseTypeOK
<1>4. ASSUME holder[DeploymentOf[op]] = op, rowExpiry[DeploymentOf[op]] > due[op], due[op] > now
      PROVE  holder'[DeploymentOf[op]] = op /\ rowExpiry'[DeploymentOf[op]] > due'[op]
  <2>1. Matches(op, now)
    <3>1. due[op] >= now
      BY Zenon, <1>3, <1>4, NotEarlier
    <3>2. rowExpiry[DeploymentOf[op]] > now
      BY Zenon, <1>3, <1>4, <3>1, LaterStill
    <3> QED BY Zenon, <1>4, <3>2 DEF Matches
  <2> QED BY Zenon, <1>0, <1>4, <2>1, RowUntouched
<1> QED BY Zenon, <1>0, <1>1, <1>2, <1>4 DEF CoverOf, Persisting, Mutating

(* Each step of the operation itself keeps it covered: Start makes a        *)
(* heartbeat due at once, Heartbeat renews the row beyond the next tick,    *)
(* and only work that wrote under the row leads to persist_applied_snapshot.*)
LEMMA CoverOwn ==
  ASSUME DaemonInv, NEW op \in Ops, OpStep(op), CoverOf(op)
  PROVE  CoverOf(op)'
<1> DEFINE d == DeploymentOf[op]
<1>0. DaemonTypeOK /\ LeaseTypeOK /\ now \in Nat /\ d \in Deployments /\ Life(op)
  BY Zenon, LeaseAssumption DEF DaemonInv, LeaseInv, ClockInv, LifeInv
<1>1. CASE \/ ReadClock(op) \/ Admit(op) \/ Reject(op) \/ Register(op) \/ RegisterFails(op)
           \/ CancelQueued(op) \/ PersistRecord(op) \/ PersistFails(op) \/ FinishMemory(op)
           \/ FinishStore(op) \/ FinishNotify(op)
  <2>1. \E s \in {"asking", "admitted", "rejected", "queued", "closing", "ended", "stored",
                  "done"} : phase' = [phase EXCEPT ![op] = s]
    BY Zenon, <1>1 DEF ReadClock, Admit, Reject, Register, RegisterFails, CancelQueued,
       PersistRecord, PersistFails, FinishMemory, FinishStore, FinishNotify
  <2>2. phase'[op] \notin {"working", "joined", "recording"}
    BY Zenon, <1>0, <2>1 DEF DaemonTypeOK
  <2> QED BY Zenon, <2>2 DEF CoverOf
<1>2. CASE Start(op)
  <2>1. phase'[op] = "working" /\ due'[op] = now /\ work'[op] = "running" /\ now' = now
    BY Zenon, <1>0, <1>2 DEF Start, DaemonTypeOK, leaseVars
  <2>2. now >= now /\ ~(now > now)
    BY <1>0
  <2> QED BY Zenon, <2>1, <2>2 DEF CoverOf
<1>3. CASE Heartbeat(op)
  <2>1. /\ due[op] \in Nat /\ due[op] <= now /\ phase[op] = "working" /\ KindOf[op] # "clone"
        /\ ~lost[op] /\ Extend(op, now) /\ due'[op] = due[op] + BeatEvery
        /\ UNCHANGED <<phase, lost, work, plan, stray, disk>>
    BY Zenon, <1>0, <1>3 DEF Heartbeat, Beating, DaemonTypeOK, planVars
  <2>2. /\ holder' = holder /\ holder[d] = op /\ now' = now
        /\ rowExpiry'[d] = now + Ttl
    BY Zenon, <1>0, <2>1 DEF Extend, Matches, LeaseTypeOK
  <2>3. Mutating(op) => due'[op] >= now /\ rowExpiry'[d] > due'[op]
    <3>1. Mutating(op) => due[op] >= now
      BY Zenon, <2>1 DEF CoverOf
    <3>2. BeatEvery \in Nat /\ Ttl \in Nat /\ BeatEvery < Ttl
      BY Zenon, LeaseAssumption, DaemonAssumption
    <3>3. /\ now \in Nat /\ due[op] \in Nat /\ due[op] <= now
          /\ due'[op] = due[op] + BeatEvery /\ rowExpiry'[d] = now + Ttl
      BY Zenon, <1>0, <2>1, <2>2
    <3> QED BY ONLY <3>1, <3>2, <3>3
  <2>4. Matches(op, now)'
    <3>1. Ttl \in Nat \ {0}
      BY Zenon, LeaseAssumption
    <3>2. now + Ttl > now
      BY <1>0, <3>1
    <3> QED BY Zenon, <2>2, <3>2 DEF Matches
  <2>5. Covered(op) => Covered(op)'
    BY Zenon, <2>1, <2>4 DEF Covered
  <2> QED BY Zenon, <2>1, <2>2, <2>3, <2>5 DEF CoverOf
<1>4. CASE HeartbeatFails(op)
  <2>1. lost'[op] /\ phase'[op] = "working"
    BY <1>0, <1>4, Zenon DEF HeartbeatFails, Beating, DaemonTypeOK
  <2> QED BY Zenon, <2>1 DEF CoverOf
<1>5. CASE CancelRequest(op)
  <2>1. UNCHANGED <<phase, lost, due, work, plan, disk, stray, now, holder, rowExpiry>>
    BY Zenon, <1>5 DEF CancelRequest, planVars, leaseVars
  <2> QED BY Zenon, <2>1 DEF CoverOf, Covered, Matches
<1>6. CASE WorkWrites(op)
  <2>1. /\ phase'[op] = phase[op] /\ phase[op] \in {"working", "dead"}
        /\ lost' = lost /\ due' = due /\ UNCHANGED <<now, holder, rowExpiry>>
    BY Zenon, <1>0, <1>6 DEF WorkWrites, leaseVars, Life
  <2>2. Covered(op)'
    <3>1. disk'[d] = op
      BY Zenon, <1>0, <1>6 DEF WorkWrites, DaemonTypeOK
    <3>2. stray'[d] \/ Matches(op, now)
      BY <1>0, <1>6, Zenon DEF WorkWrites, DaemonTypeOK
    <3> QED BY Zenon, <2>1, <3>1, <3>2 DEF Covered, Matches
  <2> QED BY Zenon, <2>1, <2>2 DEF CoverOf
<1>7. CASE WorkEnds(op) \/ KillWork(op) \/ PipesClose(op)
  <2>1. /\ UNCHANGED <<phase, lost, due, plan, disk, stray, now, holder, rowExpiry>>
        /\ work'[op] \in {"failed", "killed", "held", "ok"}
        /\ Persisting(op) /\ work'[op] = "ok" => work[op] = "wrote"
    BY Zenon, <1>0, <1>7
       DEF WorkEnds, KillWork, PipesClose, planVars, leaseVars, DaemonTypeOK
  <2> QED BY Zenon, <2>1 DEF CoverOf, Covered, Matches
<1>8. CASE CloneRegisters(op) \/ CloneEnds(op)
  <2>1. /\ KindOf[op] = "clone" /\ phase' = phase /\ phase[op] \in {"working", "dead"}
    BY Zenon, <1>0, <1>8 DEF CloneRegisters, CloneEnds, Life
  <2> QED BY Zenon, <2>1 DEF CoverOf, Persisting
<1>9. CASE Join(op)
  <2>1. PICK outcome \in Outcomes(op) :
          phase' = [phase EXCEPT ![op] =
                      IF StatusOf(op, outcome) = "succeeded" /\ Persisting(op)
                      THEN "joined" ELSE "closing"]
    BY Zenon, <1>9 DEF Join
  <2>2. /\ UNCHANGED <<lost, disk, stray, now, holder, rowExpiry>>
        /\ phase[op] = "working" /\ work[op] \in {"ok", "failed", "killed"}
    BY Zenon, <1>9 DEF Join, planVars, leaseVars
  <2>3. CASE StatusOf(op, outcome) = "succeeded" /\ Persisting(op)
    <3>1. ~lost[op] /\ outcome = "ok"
      BY Zenon, <2>2, <2>3 DEF StatusOf, CommandStatus, Persisting, Outcomes
    <3>2. work[op] = "ok"
      BY Zenon, <3>1 DEF Outcomes
    <3>3. Covered(op)
      BY Zenon, <2>2, <2>3, <3>1, <3>2 DEF CoverOf
    <3>4. phase'[op] = "joined"
      BY Zenon, <1>0, <2>1, <2>3 DEF DaemonTypeOK
    <3> QED BY Zenon, <2>2, <2>3, <3>3, <3>4 DEF CoverOf, Covered, Matches
  <2>4. CASE ~(StatusOf(op, outcome) = "succeeded" /\ Persisting(op))
    <3>1. phase'[op] = "closing"
      BY Zenon, <1>0, <2>1, <2>4 DEF DaemonTypeOK
    <3> QED BY Zenon, <3>1 DEF CoverOf
  <2> QED BY Zenon, <2>3, <2>4
<1>10. CASE PersistRead(op)
  <2>1. /\ phase[op] = "joined" /\ phase'[op] = "recording" /\ plan'[op] = disk[d]
        /\ UNCHANGED stray
    BY Zenon, <1>0, <1>10 DEF PersistRead, DaemonTypeOK, planVars
  <2> QED BY Zenon, <2>1 DEF CoverOf, Covered
<1> QED BY Zenon, <1>1, <1>2, <1>3, <1>4, <1>5, <1>6, <1>7, <1>8, <1>9, <1>10
        DEF OpStep, TaskStep, Beat, WorkStep

(* Time passes only when no heartbeat is due and no task is between its     *)
(* work and its record: that is what scheduling in time means.              *)
LEMMA CoverTime ==
  ASSUME Timely, DaemonInv, NEW op \in Ops, PassTime, CoverOf(op)
  PROVE  CoverOf(op)'
<1> DEFINE d == DeploymentOf[op]
<1>0. /\ now \in Nat /\ due[op] \in Nat /\ rowExpiry[d] \in Nat /\ Life(op)
      /\ now' = now + 1
      /\ UNCHANGED <<phase, lost, due, work, plan, disk, stray, holder, rowExpiry>>
  BY Zenon, LeaseAssumption DEF PassTime, Tick, opVars, planVars, DaemonInv, LeaseInv, LeaseTypeOK,
     DaemonTypeOK, ClockInv, LifeInv
<1>1. phase[op] \notin {"joined", "recording"} /\ ~Beating(op)
  BY Zenon DEF PassTime, Urgent
<1>2. ASSUME phase[op] = "working", Mutating(op), KindOf[op] # "clone", ~lost[op]
      PROVE  due[op] > now /\ holder[d] = op /\ rowExpiry[d] > due[op]
  <2>1. handle[op] = "held"
    BY Zenon, <1>0, <1>2 DEF Life
  <2>2. due[op] > now
    <3>1. ~(due[op] <= now)
      BY Zenon, <1>1, <1>2, <2>1 DEF Beating
    <3>2. now \in Nat /\ due[op] \in Nat
      BY Zenon, <1>0
    <3> QED BY Zenon, <3>1, <3>2, NotEarlier
  <2> QED BY Zenon, <1>2, <2>2 DEF CoverOf
<1>3. ASSUME phase[op] = "working", Persisting(op), ~lost[op], Covered(op)
      PROVE  Covered(op)'
  <2>1. Mutating(op) /\ KindOf[op] # "clone"
    BY Zenon, <1>3 DEF Persisting, Mutating
  <2>2. Matches(op, now)'
    <3>1. due[op] > now /\ holder[d] = op /\ rowExpiry[d] > due[op]
      BY Zenon, <1>2, <1>3, <2>1
    <3>2. now \in Nat /\ due[op] \in Nat /\ rowExpiry[d] \in Nat
      BY Zenon, <1>0
    <3>3. rowExpiry[d] > now + 1
      <4>1. due[op] >= now + 1 /\ now + 1 \in Nat
        BY <3>1, <3>2, NotEarlier
      <4> QED BY Zenon, <3>1, <3>2, <4>1, LaterStill
    <3> QED BY Zenon, <1>0, <3>1, <3>3 DEF Matches
  <2> QED BY Zenon, <1>0, <1>3, <2>2 DEF Covered
<1>4. due[op] > now => due[op] >= now + 1
  <2>1. now \in Nat /\ due[op] \in Nat
    BY Zenon, <1>0
  <2> QED BY Zenon, <2>1, NotEarlier
<1> QED BY Zenon, <1>0, <1>1, <1>2, <1>3, <1>4 DEF CoverOf

(* Every action keeps what LeaseCoversWork rests on.                        *)
LEMMA CoverNext ==
  ASSUME Timely, DaemonInv, CoverInv, [Next]_vars
  PROVE  CoverInv'
<1> SUFFICES ASSUME NEW op \in Ops
             PROVE  CoverOf(op)'
  BY Zenon DEF CoverInv
<1>0. CoverOf(op)
  BY Zenon DEF CoverInv
<1>1. CASE PassTime
  BY Zenon, <1>0, <1>1, CoverTime
<1>2. ASSUME NEW q \in Ops, OpStep(q)
      PROVE  CoverOf(op)'
  BY Zenon, <1>0, <1>2, CoverOthers, CoverOwn
<1>3. CASE BeginDrain \/ BeginJoin \/ Restart \/ UNCHANGED vars
  <2>1. UNCHANGED <<phase, lost, due, work, plan, disk, stray, now, holder, rowExpiry>>
    BY Zenon, <1>3 DEF BeginDrain, BeginJoin, Restart, vars, opVars, planVars, leaseVars
  <2> QED BY Zenon, <1>0, <2>1 DEF CoverOf, Covered, Matches
<1>4. CASE Exit \/ Crash
  <2>1. DaemonTypeOK /\ Life(op)
    BY Zenon DEF DaemonInv, LifeInv
  <2>2. phase'[op] \in {"new", "rejected", "done", "dead"}
    <3>1. CASE Exit
      BY Zenon, <2>1, <3>1 DEF Exit, NothingActive, ForgetMemory, DaemonTypeOK, Phases, Life
    <3>2. CASE Crash
      BY Zenon, <2>1, <3>2 DEF Crash, ForgetMemory, DaemonTypeOK
    <3> QED BY Zenon, <1>4, <3>1, <3>2
  <2> QED BY Zenon, <2>2 DEF CoverOf
<1> QED BY Zenon, <1>1, <1>2, <1>3, <1>4 DEF Next, OpStep

(* While the daemon is scheduled in time, heartbeated work runs under an    *)
(* unexpired lease row of its own, and an apply or bind records the plan it *)
(* wrote itself unless work without a lease wrote there; for every number   *)
(* of operations, kinds, permits, crashes and restarts, and SQLite faults.  *)
THEOREM WorkIsCovered ==
  ASSUME Timely
  PROVE  Spec => []LeaseCoversWork
<1>1. Init => CoverInv
  BY Zenon, NewInit DEF CoverInv, CoverOf
<1>2. DaemonInv /\ CoverInv /\ [Next]_vars => CoverInv'
  BY Zenon, CoverNext
<1>3. DaemonInv /\ CoverInv => LeaseCoversWork
  <2> SUFFICES ASSUME DaemonInv, CoverInv, NEW op \in Ops
               PROVE  /\ /\ phase[op] = "working" /\ Mutating(op) /\ KindOf[op] # "clone"
                         /\ ~lost[op] /\ ~Beating(op)
                         => /\ holder[DeploymentOf[op]] = op
                            /\ rowExpiry[DeploymentOf[op]] > now
                      /\ phase[op] = "recording" => plan[op] = op \/ stray[DeploymentOf[op]]
    BY Zenon DEF LeaseCoversWork
  <2>1. CoverOf(op) /\ Life(op)
    BY Zenon DEF CoverInv, DaemonInv, LifeInv
  <2>2. now \in Nat /\ due[op] \in Nat /\ rowExpiry[DeploymentOf[op]] \in Nat
    BY Zenon, LeaseAssumption DEF DaemonInv, ClockInv, DaemonTypeOK, LeaseInv, LeaseTypeOK
  <2>3. ASSUME phase[op] = "working", Mutating(op), KindOf[op] # "clone", ~lost[op],
               ~Beating(op)
        PROVE  holder[DeploymentOf[op]] = op /\ rowExpiry[DeploymentOf[op]] > now
    <3>1. ~(due[op] <= now)
      BY Zenon, <2>1, <2>3 DEF Life, Beating
    <3>2. due[op] > now
      BY Zenon, <2>2, <3>1, NotEarlier
    <3>3. holder[DeploymentOf[op]] = op /\ rowExpiry[DeploymentOf[op]] > due[op]
      BY Zenon, <2>1, <2>3, <3>2 DEF CoverOf
    <3> QED BY Zenon, <2>2, <3>2, <3>3, NotEarlier, LaterStill
  <2> QED BY Zenon, <2>1, <2>3 DEF CoverOf
<1> QED BY <1>1, <1>2, <1>3, DaemonInvariance, PTL DEF Spec
=============================================================================

-------------------------- MODULE LiveBindingProofs --------------------------
(* Proofs about live moves, for any routers, groups, tables and health and   *)
(* any number of moves: a successful move is not taken back and the store    *)
(* stays behind the routers (SucceededMoveSafety, RowsStayBehind), whatever  *)
(* fails but a sidecar restart during a move; and where no answer is lost a  *)
(* move is all or nothing (MoveImplementsPromise).                           *)
EXTENDS LiveBinding, TLAPS

(* Two facts about versions: an order that a router's activation preserves. *)
LEMMA LeqSucc == \A x, y, z \in Nat : x <= y + 1 /\ y <= z => x <= z + 1
OBVIOUS

LEMMA LeqAbove == \A x, y, z \in Nat : x <= y + 1 /\ z > y => x <= z
OBVIOUS

LEMMA RankOrder ==
  ASSUME NEW r \in Routers, NEW s \in Routers,
         Rank[r] <= Rank[s], Rank[s] <= Rank[r]
  PROVE  r = s
<1>1. Rank[r] \in Nat /\ Rank[s] \in Nat
  BY Zenon, LiveAssumption
<1>2. \A i, j \in Nat : i <= j /\ j <= i => i = j
  OBVIOUS
<1>3. Rank[r] = Rank[s]
  BY Zenon, <1>1, <1>2
<1> QED BY Zenon, <1>3, LiveAssumption

LEMMA CandidateType ==
  ASSUME MoveTypeOK, NEW r \in Routers
  PROVE  Candidate(r) \in Snapshots
<1>1. seen[r] \in Snapshots /\ goal \in Groups
  BY Zenon DEF MoveTypeOK
<1>2. seen[r].version + 1 \in Nat /\ TableOf[r][goal] \in Tables
  BY <1>1, LiveAssumption DEF Snapshots
<1> QED BY Zenon, <1>2 DEF Candidate, Snapshot, Snapshots

LEMMA SubmitType ==
  ASSUME RouterTypeOK, NEW r \in Routers, NEW v \in Nat, NEW t \in Tables,
         Submit(r, v, t)
  PROVE  inbox' \in [Routers -> SUBSET Requests] /\ reply' \in Replies
<1>1. [version |-> v, table |-> t, live |-> TRUE] \in Requests
  BY Zenon DEF Requests
<1> QED BY Zenon, <1>1 DEF Submit, RouterTypeOK, Replies

LEMMA AbandonType ==
  ASSUME RouterTypeOK, Abandon
  PROVE  /\ inbox' \in [Routers -> SUBSET Requests] /\ reply' \in Replies
         /\ \A r \in Routers : \A p \in inbox'[r] :
              ~p.live /\ \E q \in inbox[r] : p.version = q.version
<1>1. ASSUME NEW r \in Routers, NEW q \in inbox[r]
      PROVE  /\ Abandoned(q) \in Requests
             /\ Abandoned(q).live = FALSE /\ Abandoned(q).version = q.version
  BY Zenon, <1>1 DEF RouterTypeOK, Requests, Abandoned
<1>2. ASSUME NEW r \in Routers, NEW p \in inbox'[r]
      PROVE  \E q \in inbox[r] : p = Abandoned(q)
  <2>1. inbox'[r] = {Abandoned(q) : q \in inbox[r]}
    BY Zenon DEF Abandon
  <2> QED BY Zenon, <1>2, <2>1
<1>3. ASSUME NEW r \in Routers, NEW p \in inbox'[r]
      PROVE  /\ p \in Requests /\ ~p.live
             /\ \E q \in inbox[r] : p.version = q.version
  <2>1. PICK q \in inbox[r] : p = Abandoned(q)
    BY Zenon, <1>2, <1>3
  <2> QED BY Zenon, <1>1, <2>1
<1>4. inbox' \in [Routers -> SUBSET Requests]
  <2>1. \A r \in Routers : inbox'[r] \subseteq Requests
    BY Zenon, <1>3
  <2>2. inbox' = [r \in Routers |-> inbox'[r]]
    BY Zenon DEF Abandon
  <2> QED BY Zenon, <2>1, <2>2
<1>5. reply' \in Replies
  BY Zenon DEF Abandon, Replies
<1> QED BY Zenon, <1>3, <1>4, <1>5

LEMMA BeginMoveSettled ==
  ASSUME SettledInv, NEW g \in Groups, BeginMove(g)
  PROVE  SettledInv'
<1>1. MoveTypeOK'
  BY Zenon DEF SettledInv, BeginMove, Targets, routerVars, moveVars, diskVars,
    MoveTypeOK, RouterTypeOK, Phases, Snapshots, Snapshot, Requests, Replies, Answers
<1>2. RequestsOK'
  BY Zenon DEF SettledInv, BeginMove, Targets, routerVars, moveVars, diskVars,
    RequestsOK, LiveRequest, First, Last, MoveTypeOK, RouterTypeOK, Snapshots, Requests
<1>3. DoneOK'
  BY Zenon DEF SettledInv, BeginMove, Targets, routerVars, moveVars, diskVars,
    DoneOK, Settled, Candidate, First, Forward, Success, Snapshot, RequestsOK, MoveTypeOK, RouterTypeOK
<1>4. FilesOK'
  BY Zenon DEF SettledInv, BeginMove, Targets, routerVars, moveVars, diskVars,
    FilesOK, Success, Candidate, Snapshot, Forward, MoveTypeOK, RouterTypeOK
<1>5. StaysOK'
  BY Zenon DEF SettledInv, BeginMove, Targets, routerVars, moveVars, diskVars,
    StaysOK, DoneOK, FilesOK, Settled, Candidate, Snapshot, Success, MoveTypeOK, RouterTypeOK
<1> QED BY Zenon, <1>1, <1>2, <1>3, <1>4, <1>5 DEF SettledInv

LEMMA RefuseMoveSettled ==
  ASSUME SettledInv, NEW g \in Groups, RefuseMove(g)
  PROVE  SettledInv'
<1>1. MoveTypeOK'
  BY Zenon DEF SettledInv, RefuseMove, routerVars, moveVars, diskVars,
    MoveTypeOK, RouterTypeOK, Phases, Snapshots, Snapshot, Requests, Replies, Answers
<1>2. RequestsOK'
  BY Zenon DEF SettledInv, RefuseMove, routerVars, moveVars, diskVars,
    RequestsOK, LiveRequest, First, Last, MoveTypeOK, RouterTypeOK, Snapshots, Requests
<1>3. DoneOK'
  BY Zenon DEF SettledInv, RefuseMove, routerVars, moveVars, diskVars,
    DoneOK, Settled, Candidate, First, Forward, Success, Snapshot, RequestsOK, MoveTypeOK, RouterTypeOK
<1>4. FilesOK'
  BY Zenon DEF SettledInv, RefuseMove, routerVars, moveVars, diskVars,
    FilesOK, Success, Candidate, Snapshot, Forward, MoveTypeOK, RouterTypeOK
<1>5. StaysOK'
  BY Zenon DEF SettledInv, RefuseMove, routerVars, moveVars, diskVars,
    StaysOK, DoneOK, FilesOK, Settled, Candidate, Snapshot, Success, MoveTypeOK, RouterTypeOK
<1> QED BY Zenon, <1>1, <1>2, <1>3, <1>4, <1>5 DEF SettledInv

LEMMA SeeCancelledSettled ==
  ASSUME SettledInv, SeeCancelled
  PROVE  SettledInv'
<1>1. MoveTypeOK'
  BY Zenon DEF SettledInv, SeeCancelled, routerVars, moveVars, diskVars,
    MoveTypeOK, RouterTypeOK, Phases, Snapshots, Snapshot, Requests, Replies, Answers
<1>2. RequestsOK'
  BY Zenon DEF SettledInv, SeeCancelled, routerVars, moveVars, diskVars,
    RequestsOK, LiveRequest, First, Last, MoveTypeOK, RouterTypeOK, Snapshots, Requests
<1>3. DoneOK'
  BY Zenon DEF SettledInv, SeeCancelled, routerVars, moveVars, diskVars,
    DoneOK, Settled, Candidate, First, Forward, Success, Snapshot, RequestsOK, MoveTypeOK, RouterTypeOK
<1>4. FilesOK'
  BY Zenon DEF SettledInv, SeeCancelled, routerVars, moveVars, diskVars,
    FilesOK, Success, Candidate, Snapshot, Forward, MoveTypeOK, RouterTypeOK
<1>5. StaysOK'
  BY Zenon DEF SettledInv, SeeCancelled, routerVars, moveVars, diskVars,
    StaysOK, DoneOK, FilesOK, Settled, Candidate, Snapshot, Success, MoveTypeOK, RouterTypeOK
<1> QED BY Zenon, <1>1, <1>2, <1>3, <1>4, <1>5 DEF SettledInv

LEMMA UnreachableSettled ==
  ASSUME SettledInv, NEW r \in Routers, Unreachable(r)
  PROVE  SettledInv'
<1>1. MoveTypeOK'
  BY Zenon DEF SettledInv, Unreachable, routerVars, moveVars, diskVars,
    MoveTypeOK, RouterTypeOK, Phases, Snapshots, Snapshot, Requests, Replies, Answers
<1>2. RequestsOK'
  BY Zenon DEF SettledInv, Unreachable, routerVars, moveVars, diskVars,
    RequestsOK, LiveRequest, First, Last, MoveTypeOK, RouterTypeOK, Snapshots, Requests
<1>3. DoneOK'
  BY Zenon DEF SettledInv, Unreachable, routerVars, moveVars, diskVars,
    DoneOK, Settled, Candidate, First, Forward, Success, Snapshot, RequestsOK, MoveTypeOK, RouterTypeOK
<1>4. FilesOK'
  BY Zenon DEF SettledInv, Unreachable, routerVars, moveVars, diskVars,
    FilesOK, Success, Candidate, Snapshot, Forward, MoveTypeOK, RouterTypeOK
<1>5. StaysOK'
  BY Zenon DEF SettledInv, Unreachable, routerVars, moveVars, diskVars,
    StaysOK, DoneOK, FilesOK, Settled, Candidate, Snapshot, Success, MoveTypeOK, RouterTypeOK
<1> QED BY Zenon, <1>1, <1>2, <1>3, <1>4, <1>5 DEF SettledInv

LEMMA ApplySettled ==
  ASSUME SettledInv, NEW r \in Routers, Apply(r)
  PROVE  SettledInv'
<1>1. MoveTypeOK'
  <2>1. active[r] \in Snapshots /\ active[r].version + 1 \in Nat
    <3>1. active[r] \in Snapshots
      BY Zenon DEF SettledInv, MoveTypeOK, RouterTypeOK
    <3> QED BY <3>1 DEF Snapshots
  <2>2. TableOf[r][goal] \in Tables
    <3>1. goal \in Groups
      BY Zenon DEF SettledInv, MoveTypeOK
    <3> QED BY Zenon, <3>1, LiveAssumption
  <2>3. inbox' \in [Routers -> SUBSET Requests] /\ reply' \in Replies
    BY Zenon, <2>1, <2>2, SubmitType DEF Apply, SettledInv, MoveTypeOK
  <2>4. active' = active /\ seen' \in [Routers -> Snapshots]
    BY Zenon, <2>1 DEF Apply, SettledInv, MoveTypeOK
  <2> QED
    BY Zenon, <2>3, <2>4 DEF Apply, SettledInv, MoveTypeOK, RouterTypeOK, Phases, diskVars, First, Last
<1>2. RequestsOK'
  BY DEF SettledInv, Apply, Submit, routerVars, moveVars, diskVars,
    RequestsOK, LiveRequest, First, Last, MoveTypeOK, RouterTypeOK, Snapshots, Requests
<1>3. DoneOK'
  BY Zenon DEF SettledInv, Apply, Submit, routerVars, moveVars, diskVars,
    DoneOK, Settled, Candidate, First, Forward, Success, Snapshot, RequestsOK, MoveTypeOK, RouterTypeOK
<1>4. FilesOK'
  BY Zenon DEF SettledInv, Apply, Submit, routerVars, moveVars, diskVars,
    FilesOK, Success, Candidate, Snapshot, Forward, MoveTypeOK, RouterTypeOK
<1>5. StaysOK'
  BY Zenon DEF SettledInv, Apply, Submit, routerVars, moveVars, diskVars,
    StaysOK, DoneOK, FilesOK, Settled, Candidate, Snapshot, Success, MoveTypeOK, RouterTypeOK
<1> QED BY Zenon, <1>1, <1>2, <1>3, <1>4, <1>5 DEF SettledInv

LEMMA AcknowledgedSettled ==
  ASSUME SettledInv, NEW r \in Routers, Acknowledged(r)
  PROVE  SettledInv'
<1>1. MoveTypeOK'
  BY Zenon DEF SettledInv, Acknowledged, routerVars, moveVars, diskVars,
    MoveTypeOK, RouterTypeOK, Phases, Snapshots, Snapshot, Requests, Replies, Answers
<1>2. RequestsOK'
  BY Zenon DEF SettledInv, Acknowledged, routerVars, moveVars, diskVars,
    RequestsOK, LiveRequest, First, Last, MoveTypeOK, RouterTypeOK, Snapshots, Requests
<1>3. DoneOK'
  BY Zenon DEF SettledInv, Acknowledged, routerVars, moveVars, diskVars,
    DoneOK, Settled, Candidate, First, Forward, Success, Snapshot, RequestsOK, MoveTypeOK, RouterTypeOK
<1>4. FilesOK'
  BY Zenon DEF SettledInv, Acknowledged, routerVars, moveVars, diskVars,
    FilesOK, Success, Candidate, Snapshot, Forward, MoveTypeOK, RouterTypeOK
<1>5. StaysOK'
  BY Zenon DEF SettledInv, Acknowledged, routerVars, moveVars, diskVars,
    StaysOK, DoneOK, FilesOK, Settled, Candidate, Snapshot, Success, MoveTypeOK, RouterTypeOK
<1> QED BY Zenon, <1>1, <1>2, <1>3, <1>4, <1>5 DEF SettledInv

LEMMA RefusedSettled ==
  ASSUME SettledInv, NEW r \in Routers, Refused(r)
  PROVE  SettledInv'
<1>1. MoveTypeOK'
  BY Zenon DEF SettledInv, Refused, routerVars, moveVars, diskVars,
    MoveTypeOK, RouterTypeOK, Phases, Snapshots, Snapshot, Requests, Replies, Answers
<1>2. RequestsOK'
  BY Zenon DEF SettledInv, Refused, routerVars, moveVars, diskVars,
    RequestsOK, LiveRequest, First, Last, MoveTypeOK, RouterTypeOK, Snapshots, Requests
<1>3. DoneOK'
  BY Zenon DEF SettledInv, Refused, routerVars, moveVars, diskVars,
    DoneOK, Settled, Candidate, First, Forward, Success, Snapshot, RequestsOK, MoveTypeOK, RouterTypeOK
<1>4. FilesOK'
  BY Zenon DEF SettledInv, Refused, routerVars, moveVars, diskVars,
    FilesOK, Success, Candidate, Snapshot, Forward, MoveTypeOK, RouterTypeOK
<1>5. StaysOK'
  BY Zenon DEF SettledInv, Refused, routerVars, moveVars, diskVars,
    StaysOK, DoneOK, FilesOK, Settled, Candidate, Snapshot, Success, MoveTypeOK, RouterTypeOK
<1> QED BY Zenon, <1>1, <1>2, <1>3, <1>4, <1>5 DEF SettledInv

LEMMA TimedOutSettled ==
  ASSUME SettledInv, NEW r \in Routers, TimedOut(r)
  PROVE  SettledInv'
<1>1. MoveTypeOK'
  <2>1. inbox' \in [Routers -> SUBSET Requests] /\ reply' \in Replies
    BY Zenon, AbandonType DEF TimedOut, SettledInv, MoveTypeOK
  <2> QED
    BY Zenon, <2>1 DEF TimedOut, SettledInv, MoveTypeOK, RouterTypeOK, Phases, diskVars
<1>2. RequestsOK'
  <2>1. active' = active
    BY Zenon DEF TimedOut
  <2>2. \A s \in Routers : \A p \in inbox'[s] :
          ~p.live /\ \E q \in inbox[s] : p.version = q.version
    BY Zenon, AbandonType DEF TimedOut, SettledInv, MoveTypeOK
  <2> QED BY Zenon, <2>1, <2>2 DEF SettledInv, RequestsOK
<1>3. DoneOK'
  BY Zenon DEF SettledInv, TimedOut, Abandon, Abandoned, routerVars, moveVars, diskVars,
    DoneOK, Settled, Candidate, First, Forward, Success, Snapshot, RequestsOK, MoveTypeOK, RouterTypeOK
<1>4. FilesOK'
  BY Zenon DEF SettledInv, TimedOut, Abandon, Abandoned, routerVars, moveVars, diskVars,
    FilesOK, Success, Candidate, Snapshot, Forward, MoveTypeOK, RouterTypeOK
<1>5. StaysOK'
  BY Zenon DEF SettledInv, TimedOut, Abandon, Abandoned, routerVars, moveVars, diskVars,
    StaysOK, DoneOK, FilesOK, Settled, Candidate, Snapshot, Success, MoveTypeOK, RouterTypeOK
<1> QED BY Zenon, <1>1, <1>2, <1>3, <1>4, <1>5 DEF SettledInv

LEMMA UndoUnreachableSettled ==
  ASSUME SettledInv, NEW r \in Routers, UndoUnreachable(r)
  PROVE  SettledInv'
<1>1. MoveTypeOK'
  BY Zenon DEF SettledInv, UndoUnreachable, routerVars, moveVars, diskVars,
    MoveTypeOK, RouterTypeOK, Phases, Snapshots, Snapshot, Requests, Replies, Answers
<1>2. RequestsOK'
  BY Zenon DEF SettledInv, UndoUnreachable, routerVars, moveVars, diskVars,
    RequestsOK, LiveRequest, First, Last, MoveTypeOK, RouterTypeOK, Snapshots, Requests
<1>3. DoneOK'
  BY Zenon DEF SettledInv, UndoUnreachable, routerVars, moveVars, diskVars,
    DoneOK, Settled, Candidate, First, Forward, Success, Snapshot, RequestsOK, MoveTypeOK, RouterTypeOK
<1>4. FilesOK'
  BY Zenon DEF SettledInv, UndoUnreachable, routerVars, moveVars, diskVars,
    FilesOK, Success, Candidate, Snapshot, Forward, MoveTypeOK, RouterTypeOK
<1>5. StaysOK'
  BY Zenon DEF SettledInv, UndoUnreachable, routerVars, moveVars, diskVars,
    StaysOK, DoneOK, FilesOK, Settled, Candidate, Snapshot, Success, MoveTypeOK, RouterTypeOK
<1> QED BY Zenon, <1>1, <1>2, <1>3, <1>4, <1>5 DEF SettledInv

LEMMA UndoApplySettled ==
  ASSUME SettledInv, NEW r \in Routers, UndoApply(r)
  PROVE  SettledInv'
<1>1. MoveTypeOK'
  <2>1. active[r] \in Snapshots /\ active[r].version + 1 \in Nat
    <3>1. active[r] \in Snapshots
      BY Zenon DEF SettledInv, MoveTypeOK, RouterTypeOK
    <3> QED BY <3>1 DEF Snapshots
  <2>2. file[r].table \in Tables
    <3>1. file[r] \in Snapshots
      BY Zenon DEF SettledInv, MoveTypeOK
    <3> QED BY Zenon, <3>1 DEF Snapshots
  <2>3. inbox' \in [Routers -> SUBSET Requests] /\ reply' \in Replies
    BY Zenon, <2>1, <2>2, SubmitType DEF UndoApply, SettledInv, MoveTypeOK
  <2>4. active' = active /\ seen' \in [Routers -> Snapshots]
    BY Zenon, <2>1 DEF UndoApply, SettledInv, MoveTypeOK
  <2> QED
    BY Zenon, <2>3, <2>4 DEF UndoApply, SettledInv, MoveTypeOK, RouterTypeOK, Phases, diskVars, First, Last
<1>2. RequestsOK'
  <2>1. \A s \in Routers : \A q \in inbox[s] : ~q.live
    BY Zenon DEF SettledInv, RequestsOK, LiveRequest, UndoApply
  <2>2. active[r].version \in Nat
    BY Zenon DEF SettledInv, MoveTypeOK, RouterTypeOK, Snapshots
  <2>3. ASSUME NEW s \in Routers, NEW q \in inbox'[s]
        PROVE  /\ q.version <= active'[s].version + 1
               /\ q.live => LiveRequest(s, q)'
    <3>1. CASE q \in inbox[s]
      BY Zenon, <2>1, <3>1 DEF UndoApply, SettledInv, RequestsOK
    <3>2. CASE q \notin inbox[s]
      <4>1. /\ s = r
            /\ q = [version |-> active[r].version + 1, table |-> file[r].table,
                    live |-> TRUE]
        BY Zenon, <2>3, <3>2 DEF UndoApply, Submit, SettledInv, MoveTypeOK, RouterTypeOK
      <4>2. /\ pc' = "undo await" /\ reply' = "none" /\ active' = active
            /\ seen'[r] = active[r] /\ file' = file /\ done' = done /\ Last(r, done)
        BY Zenon DEF UndoApply, Submit, diskVars, SettledInv, MoveTypeOK
      <4>3. Last(r, done)'
        BY Zenon, <4>2 DEF Last
      <4>4. q.version <= active'[s].version + 1
        <5>1. q.version = active[r].version + 1
          BY Zenon, <4>1
        <5>2. active'[s] = active[r]
          BY Zenon, <4>1, <4>2
        <5> QED BY <2>2, <5>1, <5>2
      <4>5. LiveRequest(s, q)'
        BY Zenon, <4>1, <4>2, <4>3 DEF LiveRequest
      <4> QED BY Zenon, <4>4, <4>5
    <3> QED BY Zenon, <3>1, <3>2
  <2> QED BY Zenon, <2>3 DEF RequestsOK
<1>3. DoneOK'
  BY Zenon DEF SettledInv, UndoApply, Submit, routerVars, moveVars, diskVars,
    DoneOK, Settled, Candidate, First, Forward, Success, Snapshot, RequestsOK, MoveTypeOK, RouterTypeOK
<1>4. FilesOK'
  BY Zenon DEF SettledInv, UndoApply, Submit, routerVars, moveVars, diskVars,
    FilesOK, Success, Candidate, Snapshot, Forward, MoveTypeOK, RouterTypeOK
<1>5. StaysOK'
  BY Zenon DEF SettledInv, UndoApply, Submit, routerVars, moveVars, diskVars,
    StaysOK, DoneOK, FilesOK, Settled, Candidate, Snapshot, Success, MoveTypeOK, RouterTypeOK
<1> QED BY Zenon, <1>1, <1>2, <1>3, <1>4, <1>5 DEF SettledInv

LEMMA UndoAnsweredSettled ==
  ASSUME SettledInv, NEW r \in Routers, UndoAnswered(r)
  PROVE  SettledInv'
<1>1. MoveTypeOK'
  BY Zenon DEF SettledInv, UndoAnswered, routerVars, moveVars, diskVars,
    MoveTypeOK, RouterTypeOK, Phases, Snapshots, Snapshot, Requests, Replies, Answers
<1>2. RequestsOK'
  BY Zenon DEF SettledInv, UndoAnswered, routerVars, moveVars, diskVars,
    RequestsOK, LiveRequest, First, Last, MoveTypeOK, RouterTypeOK, Snapshots, Requests
<1>3. DoneOK'
  BY Zenon DEF SettledInv, UndoAnswered, routerVars, moveVars, diskVars,
    DoneOK, Settled, Candidate, First, Forward, Success, Snapshot, RequestsOK, MoveTypeOK, RouterTypeOK
<1>4. FilesOK'
  BY Zenon DEF SettledInv, UndoAnswered, routerVars, moveVars, diskVars,
    FilesOK, Success, Candidate, Snapshot, Forward, MoveTypeOK, RouterTypeOK
<1>5. StaysOK'
  BY Zenon DEF SettledInv, UndoAnswered, routerVars, moveVars, diskVars,
    StaysOK, DoneOK, FilesOK, Settled, Candidate, Snapshot, Success, MoveTypeOK, RouterTypeOK
<1> QED BY Zenon, <1>1, <1>2, <1>3, <1>4, <1>5 DEF SettledInv

LEMMA UndoTimedOutSettled ==
  ASSUME SettledInv, NEW r \in Routers, UndoTimedOut(r)
  PROVE  SettledInv'
<1>1. MoveTypeOK'
  <2>1. inbox' \in [Routers -> SUBSET Requests] /\ reply' \in Replies
    BY Zenon, AbandonType DEF UndoTimedOut, SettledInv, MoveTypeOK
  <2> QED
    BY Zenon, <2>1 DEF UndoTimedOut, SettledInv, MoveTypeOK, RouterTypeOK, Phases, diskVars
<1>2. RequestsOK'
  <2>1. active' = active
    BY Zenon DEF UndoTimedOut
  <2>2. \A s \in Routers : \A p \in inbox'[s] :
          ~p.live /\ \E q \in inbox[s] : p.version = q.version
    BY Zenon, AbandonType DEF UndoTimedOut, SettledInv, MoveTypeOK
  <2> QED BY Zenon, <2>1, <2>2 DEF SettledInv, RequestsOK
<1>3. DoneOK'
  BY Zenon DEF SettledInv, UndoTimedOut, Abandon, Abandoned, routerVars, moveVars, diskVars,
    DoneOK, Settled, Candidate, First, Forward, Success, Snapshot, RequestsOK, MoveTypeOK, RouterTypeOK
<1>4. FilesOK'
  BY Zenon DEF SettledInv, UndoTimedOut, Abandon, Abandoned, routerVars, moveVars, diskVars,
    FilesOK, Success, Candidate, Snapshot, Forward, MoveTypeOK, RouterTypeOK
<1>5. StaysOK'
  BY Zenon DEF SettledInv, UndoTimedOut, Abandon, Abandoned, routerVars, moveVars, diskVars,
    StaysOK, DoneOK, FilesOK, Settled, Candidate, Snapshot, Success, MoveTypeOK, RouterTypeOK
<1> QED BY Zenon, <1>1, <1>2, <1>3, <1>4, <1>5 DEF SettledInv

LEMMA UndoEndsSettled ==
  ASSUME SettledInv, UndoEnds
  PROVE  SettledInv'
<1>1. MoveTypeOK'
  BY Zenon DEF SettledInv, UndoEnds, routerVars, moveVars, diskVars,
    MoveTypeOK, RouterTypeOK, Phases, Snapshots, Snapshot, Requests, Replies, Answers
<1>2. RequestsOK'
  BY Zenon DEF SettledInv, UndoEnds, routerVars, moveVars, diskVars,
    RequestsOK, LiveRequest, First, Last, MoveTypeOK, RouterTypeOK, Snapshots, Requests
<1>3. DoneOK'
  BY Zenon DEF SettledInv, UndoEnds, routerVars, moveVars, diskVars,
    DoneOK, Settled, Candidate, First, Forward, Success, Snapshot, RequestsOK, MoveTypeOK, RouterTypeOK
<1>4. FilesOK'
  BY Zenon DEF SettledInv, UndoEnds, routerVars, moveVars, diskVars,
    FilesOK, Success, Candidate, Snapshot, Forward, MoveTypeOK, RouterTypeOK
<1>5. StaysOK'
  BY Zenon DEF SettledInv, UndoEnds, routerVars, moveVars, diskVars,
    StaysOK, DoneOK, FilesOK, Settled, Candidate, Snapshot, Success, MoveTypeOK, RouterTypeOK
<1> QED BY Zenon, <1>1, <1>2, <1>3, <1>4, <1>5 DEF SettledInv

LEMMA WriteHostSettled ==
  ASSUME SettledInv, WriteHost
  PROVE  SettledInv'
<1>1. MoveTypeOK'
  <2>1. file' \in [Routers -> Snapshots]
    BY Zenon, CandidateType DEF WriteHost, SettledInv, MoveTypeOK
  <2> QED
    BY Zenon, <2>1 DEF WriteHost, SettledInv, MoveTypeOK, RouterTypeOK, Phases, routerVars
<1>2. RequestsOK'
  BY Zenon DEF SettledInv, WriteHost, routerVars, moveVars, diskVars,
    RequestsOK, LiveRequest, First, Last, MoveTypeOK, RouterTypeOK, Snapshots, Requests
<1>3. DoneOK'
  BY Zenon DEF SettledInv, WriteHost, routerVars, moveVars, diskVars,
    DoneOK, Settled, Candidate, First, Forward, Success, Snapshot, RequestsOK, MoveTypeOK, RouterTypeOK
<1>4. FilesOK'
  BY Zenon DEF SettledInv, WriteHost, routerVars, moveVars, diskVars,
    FilesOK, Success, Candidate, Snapshot, Forward, MoveTypeOK, RouterTypeOK
<1>5. StaysOK'
  BY Zenon DEF SettledInv, WriteHost, routerVars, moveVars, diskVars,
    StaysOK, DoneOK, FilesOK, Settled, Candidate, Snapshot, Success, MoveTypeOK, RouterTypeOK
<1> QED BY Zenon, <1>1, <1>2, <1>3, <1>4, <1>5 DEF SettledInv

LEMMA WritePlanSettled ==
  ASSUME SettledInv, WritePlan
  PROVE  SettledInv'
<1>1. MoveTypeOK'
  BY Zenon DEF SettledInv, WritePlan, routerVars, moveVars, diskVars,
    MoveTypeOK, RouterTypeOK, Phases, Snapshots, Snapshot, Requests, Replies, Answers
<1>2. RequestsOK'
  BY Zenon DEF SettledInv, WritePlan, routerVars, moveVars, diskVars,
    RequestsOK, LiveRequest, First, Last, MoveTypeOK, RouterTypeOK, Snapshots, Requests
<1>3. DoneOK'
  BY Zenon DEF SettledInv, WritePlan, routerVars, moveVars, diskVars,
    DoneOK, Settled, Candidate, First, Forward, Success, Snapshot, RequestsOK, MoveTypeOK, RouterTypeOK
<1>4. FilesOK'
  BY Zenon DEF SettledInv, WritePlan, routerVars, moveVars, diskVars,
    FilesOK, Success, Candidate, Snapshot, Forward, MoveTypeOK, RouterTypeOK
<1>5. StaysOK'
  BY Zenon DEF SettledInv, WritePlan, routerVars, moveVars, diskVars,
    StaysOK, DoneOK, FilesOK, Settled, Candidate, Snapshot, Success, MoveTypeOK, RouterTypeOK
<1> QED BY Zenon, <1>1, <1>2, <1>3, <1>4, <1>5 DEF SettledInv

LEMMA WriteRouteSettled ==
  ASSUME SettledInv, NEW r \in Routers, WriteRoute(r)
  PROVE  SettledInv'
<1>1. MoveTypeOK'
  <2>1. file' \in [Routers -> Snapshots]
    BY Zenon, CandidateType DEF WriteRoute, SettledInv, MoveTypeOK
  <2> QED
    BY Zenon, <2>1 DEF WriteRoute, SettledInv, MoveTypeOK, RouterTypeOK, Phases, routerVars
<1>2. RequestsOK'
  BY Zenon DEF SettledInv, WriteRoute, routerVars, moveVars, diskVars,
    RequestsOK, LiveRequest, First, Last, MoveTypeOK, RouterTypeOK, Snapshots, Requests
<1>3. DoneOK'
  BY Zenon DEF SettledInv, WriteRoute, routerVars, moveVars, diskVars,
    DoneOK, Settled, Candidate, First, Forward, Success, Snapshot, RequestsOK, MoveTypeOK, RouterTypeOK
<1>4. FilesOK'
  BY Zenon DEF SettledInv, WriteRoute, routerVars, moveVars, diskVars,
    FilesOK, Success, Candidate, Snapshot, Forward, MoveTypeOK, RouterTypeOK
<1>5. StaysOK'
  BY Zenon DEF SettledInv, WriteRoute, routerVars, moveVars, diskVars,
    StaysOK, DoneOK, FilesOK, Settled, Candidate, Snapshot, Success, MoveTypeOK, RouterTypeOK
<1> QED BY Zenon, <1>1, <1>2, <1>3, <1>4, <1>5 DEF SettledInv

LEMMA WrittenSettled ==
  ASSUME SettledInv, Written
  PROVE  SettledInv'
<1>1. MoveTypeOK'
  BY Zenon DEF SettledInv, Written, routerVars, moveVars, diskVars,
    MoveTypeOK, RouterTypeOK, Phases, Snapshots, Snapshot, Requests, Replies, Answers
<1>2. RequestsOK'
  BY Zenon DEF SettledInv, Written, routerVars, moveVars, diskVars,
    RequestsOK, LiveRequest, First, Last, MoveTypeOK, RouterTypeOK, Snapshots, Requests
<1>3. DoneOK'
  BY Zenon DEF SettledInv, Written, routerVars, moveVars, diskVars,
    DoneOK, Settled, Candidate, First, Forward, Success, Snapshot, RequestsOK, MoveTypeOK, RouterTypeOK
<1>4. FilesOK'
  BY Zenon DEF SettledInv, Written, routerVars, moveVars, diskVars,
    FilesOK, Success, Candidate, Snapshot, Forward, MoveTypeOK, RouterTypeOK
<1>5. StaysOK'
  BY Zenon DEF SettledInv, Written, routerVars, moveVars, diskVars,
    StaysOK, DoneOK, FilesOK, Settled, Candidate, Snapshot, Success, MoveTypeOK, RouterTypeOK
<1> QED BY Zenon, <1>1, <1>2, <1>3, <1>4, <1>5 DEF SettledInv

LEMMA WriteFailsSettled ==
  ASSUME SettledInv, WriteFails
  PROVE  SettledInv'
<1>1. MoveTypeOK'
  BY Zenon DEF SettledInv, WriteFails, Forget, routerVars, moveVars, diskVars,
    MoveTypeOK, RouterTypeOK, Phases, Snapshots, Snapshot, Requests, Replies, Answers
<1>2. RequestsOK'
  BY Zenon DEF SettledInv, WriteFails, Forget, routerVars, moveVars, diskVars,
    RequestsOK, LiveRequest, First, Last, MoveTypeOK, RouterTypeOK, Snapshots, Requests
<1>3. DoneOK'
  BY Zenon DEF SettledInv, WriteFails, Forget, routerVars, moveVars, diskVars,
    DoneOK, Settled, Candidate, First, Forward, Success, Snapshot, RequestsOK, MoveTypeOK, RouterTypeOK
<1>4. FilesOK'
  BY Zenon DEF SettledInv, WriteFails, Forget, routerVars, moveVars, diskVars,
    FilesOK, Success, Candidate, Snapshot, Forward, MoveTypeOK, RouterTypeOK
<1>5. StaysOK'
  BY ZenonT(30) DEF SettledInv, WriteFails, Forget, routerVars, moveVars, diskVars,
    StaysOK, DoneOK, FilesOK, Settled, Candidate, Snapshot, Success, MoveTypeOK, RouterTypeOK
<1> QED BY Zenon, <1>1, <1>2, <1>3, <1>4, <1>5 DEF SettledInv

LEMMA RecordAttemptSettled ==
  ASSUME SettledInv, RecordAttempt
  PROVE  SettledInv'
<1>1. MoveTypeOK'
  BY Zenon DEF SettledInv, RecordAttempt, routerVars, moveVars, diskVars,
    MoveTypeOK, RouterTypeOK, Phases, Snapshots, Snapshot, Requests, Replies, Answers
<1>2. RequestsOK'
  BY Zenon DEF SettledInv, RecordAttempt, routerVars, moveVars, diskVars,
    RequestsOK, LiveRequest, First, Last, MoveTypeOK, RouterTypeOK, Snapshots, Requests
<1>3. DoneOK'
  BY Zenon DEF SettledInv, RecordAttempt, routerVars, moveVars, diskVars,
    DoneOK, Settled, Candidate, First, Forward, Success, Snapshot, RequestsOK, MoveTypeOK, RouterTypeOK
<1>4. FilesOK'
  BY Zenon DEF SettledInv, RecordAttempt, routerVars, moveVars, diskVars,
    FilesOK, Success, Candidate, Snapshot, Forward, MoveTypeOK, RouterTypeOK
<1>5. StaysOK'
  BY Zenon DEF SettledInv, RecordAttempt, routerVars, moveVars, diskVars,
    StaysOK, DoneOK, FilesOK, Settled, Candidate, Snapshot, Success, MoveTypeOK, RouterTypeOK
<1> QED BY Zenon, <1>1, <1>2, <1>3, <1>4, <1>5 DEF SettledInv

LEMMA StoreFailsSettled ==
  ASSUME SettledInv, StoreFails
  PROVE  SettledInv'
<1>1. MoveTypeOK'
  BY Zenon DEF SettledInv, StoreFails, routerVars, moveVars, diskVars,
    MoveTypeOK, RouterTypeOK, Phases, Snapshots, Snapshot, Requests, Replies, Answers
<1>2. RequestsOK'
  BY Zenon DEF SettledInv, StoreFails, routerVars, moveVars, diskVars,
    RequestsOK, LiveRequest, First, Last, MoveTypeOK, RouterTypeOK, Snapshots, Requests
<1>3. DoneOK'
  BY Zenon DEF SettledInv, StoreFails, routerVars, moveVars, diskVars,
    DoneOK, Settled, Candidate, First, Forward, Success, Snapshot, RequestsOK, MoveTypeOK, RouterTypeOK
<1>4. FilesOK'
  BY Zenon DEF SettledInv, StoreFails, routerVars, moveVars, diskVars,
    FilesOK, Success, Candidate, Snapshot, Forward, MoveTypeOK, RouterTypeOK
<1>5. StaysOK'
  BY Zenon DEF SettledInv, StoreFails, routerVars, moveVars, diskVars,
    StaysOK, DoneOK, FilesOK, Settled, Candidate, Snapshot, Success, MoveTypeOK, RouterTypeOK
<1> QED BY Zenon, <1>1, <1>2, <1>3, <1>4, <1>5 DEF SettledInv

LEMMA FinishMoveSettled ==
  ASSUME SettledInv, FinishMove
  PROVE  SettledInv'
<1>1. MoveTypeOK'
  BY Zenon DEF SettledInv, FinishMove, Forget, routerVars, moveVars, diskVars,
    MoveTypeOK, RouterTypeOK, Phases, Snapshots, Snapshot, Requests, Replies, Answers
<1>2. RequestsOK'
  BY Zenon DEF SettledInv, FinishMove, Forget, routerVars, moveVars, diskVars,
    RequestsOK, LiveRequest, First, Last, MoveTypeOK, RouterTypeOK, Snapshots, Requests
<1>3. DoneOK'
  BY Zenon DEF SettledInv, FinishMove, Forget, routerVars, moveVars, diskVars,
    DoneOK, Settled, Candidate, First, Forward, Success, Snapshot, RequestsOK, MoveTypeOK, RouterTypeOK
<1>4. FilesOK'
  BY Zenon DEF SettledInv, FinishMove, Forget, routerVars, moveVars, diskVars,
    FilesOK, Success, Candidate, Snapshot, Forward, MoveTypeOK, RouterTypeOK
<1>5. StaysOK'
  <2> SUFFICES ASSUME outcome = "succeeded", NEW r \in done
               PROVE  /\ active[r].table = TableOf[r][membership]
                      /\ file[r].table = TableOf[r][membership]
                      /\ \A q \in inbox[r] : q.version <= active[r].version
    BY Zenon DEF FinishMove, StaysOK, routerVars, diskVars
  <2>1. Success
    BY Zenon DEF FinishMove, Success
  <2>2. Settled(r) /\ membership = goal /\ file[r].table = TableOf[r][goal]
    BY Zenon, <2>1 DEF SettledInv, DoneOK, FilesOK
  <2> QED BY <2>2 DEF Settled, Candidate, Snapshot
<1> QED BY Zenon, <1>1, <1>2, <1>3, <1>4, <1>5 DEF SettledInv

LEMMA CrashSettled ==
  ASSUME SettledInv, Crash
  PROVE  SettledInv'
<1>1. MoveTypeOK'
  <2>1. inbox' \in [Routers -> SUBSET Requests] /\ reply' \in Replies
    BY Zenon, AbandonType DEF Crash, SettledInv, MoveTypeOK
  <2> QED
    BY Zenon, <2>1 DEF Crash, Forget, SettledInv, MoveTypeOK, RouterTypeOK, Phases, diskVars
<1>2. RequestsOK'
  <2>1. active' = active
    BY Zenon DEF Crash
  <2>2. \A s \in Routers : \A p \in inbox'[s] :
          ~p.live /\ \E q \in inbox[s] : p.version = q.version
    BY Zenon, AbandonType DEF Crash, SettledInv, MoveTypeOK
  <2> QED BY Zenon, <2>1, <2>2 DEF SettledInv, RequestsOK
<1>3. DoneOK'
  BY Zenon DEF SettledInv, Crash, Abandon, Abandoned, Forget, routerVars, moveVars, diskVars,
    DoneOK, Settled, Candidate, First, Forward, Success, Snapshot, RequestsOK, MoveTypeOK, RouterTypeOK
<1>4. FilesOK'
  BY Zenon DEF SettledInv, Crash, Abandon, Abandoned, Forget, routerVars, moveVars, diskVars,
    FilesOK, Success, Candidate, Snapshot, Forward, MoveTypeOK, RouterTypeOK
<1>5. StaysOK'
  BY Zenon DEF SettledInv, Crash, Abandon, Abandoned, Forget, routerVars, moveVars, diskVars,
    StaysOK, DoneOK, FilesOK, Settled, Candidate, Snapshot, Success, MoveTypeOK, RouterTypeOK
<1> QED BY Zenon, <1>1, <1>2, <1>3, <1>4, <1>5 DEF SettledInv

LEMMA RestartSettled ==
  ASSUME SettledInv, "restart" \notin Faults, NEW r \in Routers,
         SidecarRestart(r)
  PROVE  SettledInv'
<1>1. /\ pc = "idle" /\ file[r] \in Snapshots
      /\ active' = [active EXCEPT ![r] = file[r]]
      /\ inbox' = [inbox EXCEPT ![r] = {}]
      /\ reply' \in {reply, "broken"}
  BY Zenon DEF SidecarRestart, Fault, RouterRestart, SettledInv, MoveTypeOK
<1>2. UNCHANGED <<moveVars, diskVars, outcome>>
  BY Zenon DEF SidecarRestart
<1>3. MoveTypeOK'
  BY Zenon, <1>1, <1>2 DEF SettledInv, MoveTypeOK, RouterTypeOK, Phases, Replies,
     moveVars, diskVars
<1>4. RequestsOK'
  <2>1. \A s \in Routers : \A q \in inbox[s] : ~q.live
    BY Zenon, <1>1 DEF SettledInv, RequestsOK, LiveRequest
  <2>2. \A s \in Routers : \A q \in inbox'[s] : s # r /\ q \in inbox[s]
    BY Zenon, <1>1 DEF SettledInv, MoveTypeOK, RouterTypeOK
  <2>3. \A s \in Routers : s # r => active'[s] = active[s]
    BY Zenon, <1>1 DEF SettledInv, MoveTypeOK, RouterTypeOK
  <2> QED BY Zenon, <2>1, <2>2, <2>3 DEF SettledInv, RequestsOK
<1>5. DoneOK' /\ FilesOK'
  BY Zenon, <1>1, <1>2 DEF SettledInv, DoneOK, FilesOK, Forward, Success, moveVars,
     diskVars
<1>6. StaysOK'
  BY Zenon, <1>1, <1>2 DEF SettledInv, StaysOK, MoveTypeOK, RouterTypeOK, moveVars,
     diskVars
<1> QED BY Zenon, <1>3, <1>4, <1>5, <1>6 DEF SettledInv

(* A router takes a request.  Only a request more recent than the router's   *)
(* snapshot is activated, and no router the move is done with has one.       *)
LEMMA HandleSettled ==
  ASSUME SettledInv, NEW r \in Routers, NEW q \in inbox[r],
         NEW a \in Verdicts(r, q), Handle(r, q, a),
         UNCHANGED <<moveVars, diskVars, row, outcome, boundVars>>
  PROVE  SettledInv'
<1>1. UNCHANGED <<moveVars, diskVars, outcome>>
  BY Zenon
<1>2. /\ q \in Requests /\ q.version \in Nat /\ q.table \in Tables
      /\ active \in [Routers -> Snapshots]
      /\ inbox \in [Routers -> SUBSET Requests]
  <2>1. /\ active \in [Routers -> Snapshots]
        /\ inbox \in [Routers -> SUBSET Requests]
    BY Zenon DEF SettledInv, MoveTypeOK, RouterTypeOK
  <2>2. q \in Requests
    BY Zenon, <2>1
  <2> QED BY Zenon, <2>1, <2>2 DEF Requests
<1>3. a \in Answers /\ (a = "activated" => Newer(r, q))
  BY Zenon DEF Verdicts, Answers
<1>4. /\ inbox' = [inbox EXCEPT ![r] = @ \ {q}]
      /\ reply' = IF q.live THEN a ELSE reply
      /\ a = "activated" =>
           active' = [active EXCEPT ![r] = Snapshot(q.version, q.table)]
      /\ a # "activated" => active' = active
  BY Zenon DEF Handle
<1>5. \A s \in Routers : active[s].version \in Nat
  BY Zenon, <1>2 DEF Snapshots
<1>6. /\ \A s \in Routers : inbox'[s] \subseteq inbox[s]
      /\ \A s \in Routers : s # r => active'[s] = active[s]
      /\ active'[r] # active[r] =>
           /\ a = "activated" /\ q.version > active[r].version
           /\ active'[r] = Snapshot(q.version, q.table)
  <2>1. \A s \in Routers : inbox'[s] \subseteq inbox[s]
    BY Zenon, <1>2, <1>4
  <2>2. \A s \in Routers : s # r => active'[s] = active[s]
    BY Zenon, <1>2, <1>4
  <2>3. CASE a = "activated"
    <3>1. active'[r] = Snapshot(q.version, q.table)
      BY Zenon, <1>2, <1>4, <2>3
    <3>2. q.version > active[r].version
      BY Zenon, <1>3, <2>3 DEF Newer
    <3> QED BY Zenon, <2>1, <2>2, <2>3, <3>1, <3>2
  <2>4. CASE a # "activated"
    <3>1. active'[r] = active[r]
      BY Zenon, <1>4, <2>4
    <3> QED BY Zenon, <2>1, <2>2, <3>1
  <2> QED BY Zenon, <2>3, <2>4
<1>7. \A s \in Routers : active'[s].version \in Nat
                         /\ active[s].version <= active'[s].version
  <2>1. active'[r].version \in Nat /\ active[r].version <= active'[r].version
    <3>1. CASE active'[r] = active[r]
      BY SMTT(30), <1>5, <3>1
    <3>2. CASE active'[r] # active[r]
      BY SMTT(30), <1>2, <1>5, <1>6, <3>2 DEF Snapshot
    <3> QED BY Zenon, <3>1, <3>2
  <2>2. \A s \in Routers : s # r => active'[s].version \in Nat
                                   /\ active[s].version <= active'[s].version
    BY <1>5, <1>6
  <2> QED BY Zenon, <2>1, <2>2
<1>8. MoveTypeOK'
  <2>1. Snapshot(q.version, q.table) \in Snapshots
    BY Zenon, <1>2 DEF Snapshot, Snapshots
  <2>2. active' \in [Routers -> Snapshots]
    BY Zenon, <1>2, <1>4, <2>1
  <2>3. inbox' \in [Routers -> SUBSET Requests]
    BY Zenon, <1>2, <1>4
  <2>4. reply' \in Replies
    BY Zenon, <1>3, <1>4 DEF SettledInv, MoveTypeOK, RouterTypeOK, Replies
  <2> QED
    BY ZenonT(30), <1>1, <2>2, <2>3, <2>4 DEF SettledInv, MoveTypeOK, RouterTypeOK,
       moveVars, diskVars
<1>9. \A s \in Routers : \A p \in inbox[s] :
         p \in Requests /\ p.version \in Nat /\ p.version <= active[s].version + 1
  BY <1>2 DEF SettledInv, RequestsOK, Requests
<1>10. ASSUME NEW s \in Routers, NEW p \in inbox[s], p.live, q.live
       PROVE  s = r /\ p = q
  <2>1. LiveRequest(s, p) /\ LiveRequest(r, q)
    BY Zenon, <1>10 DEF SettledInv, RequestsOK
  <2>2. s = r
    BY Zenon, <2>1, RankOrder DEF LiveRequest, First, Last
  <2>3. p.version = q.version /\ p.table = q.table /\ p.live = q.live
    BY ZenonT(30), <2>1, <2>2, <1>10, <1>2, <1>9 DEF LiveRequest, Requests
  <2>4. p \in Requests
    BY Zenon, <1>9
  <2> QED BY SMTT(30), <1>2, <2>2, <2>3, <2>4 DEF Requests
<1>11. RequestsOK'
  <2> SUFFICES ASSUME NEW s \in Routers, NEW p \in inbox'[s]
               PROVE  /\ p.version <= active'[s].version + 1
                      /\ p.live => LiveRequest(s, p)'
    BY Zenon DEF RequestsOK
  <2>1. p \in inbox[s] /\ (s = r => p # q)
    BY Zenon, <1>2, <1>4, <1>6
  <2>2. p.version <= active'[s].version + 1
    <3>1. p.version \in Nat /\ p.version <= active[s].version + 1
      BY Zenon, <1>9, <2>1
    <3>2. active'[s].version \in Nat /\ active[s].version <= active'[s].version
      BY Zenon, <1>7
    <3> QED BY Zenon, <1>5, <3>1, <3>2, LeqSucc
  <2>3. ASSUME p.live PROVE LiveRequest(s, p)'
    <3>1. ~q.live /\ reply' = reply
      BY Zenon, <1>4, <1>10, <2>1, <2>3
    <3>2. LiveRequest(s, p)
      BY Zenon, <2>1, <2>3 DEF SettledInv, RequestsOK
    <3> QED BY Zenon, <1>1, <3>1, <3>2 DEF LiveRequest, First, Last, moveVars, diskVars
  <2> QED BY Zenon, <2>2, <2>3
<1>12. ASSUME NEW s \in Routers,
              \A p \in inbox[s] : p.version <= active[s].version
       PROVE  /\ active'[s] = active[s]
              /\ \A p \in inbox'[s] : p.version <= active'[s].version
  BY <1>12, <1>2, <1>5, <1>6
<1>13. \A s \in Routers : Settled(s) => Settled(s)'
  BY Zenon, <1>1, <1>12 DEF Settled, Candidate, moveVars
<1>14. ASSUME q.live, a = "activated", pc = "await"
       PROVE  First(r, todo) /\ Settled(r)'
  <2>1. LiveRequest(r, q)
    BY Zenon, <1>14 DEF SettledInv, RequestsOK
  <2>2. /\ First(r, todo) /\ q.version = seen[r].version + 1
        /\ q.table = TableOf[r][goal]
    BY Zenon, <1>14, <2>1 DEF LiveRequest
  <2>3. /\ q.version > active[r].version
        /\ active' = [active EXCEPT ![r] = Snapshot(q.version, q.table)]
    BY Zenon, <1>3, <1>4, <1>14 DEF Newer
  <2>4. active'[r] = Snapshot(q.version, q.table) /\ active'[r].version = q.version
    BY Zenon, <1>2, <2>3 DEF Snapshot
  <2>5. active'[r] = Candidate(r)'
    BY Zenon, <1>1, <2>2, <2>4 DEF Candidate, moveVars
  <2>6. ASSUME NEW p \in inbox'[r] PROVE p.version <= q.version
    <3>1. p \in inbox[r]
      BY Zenon, <1>6
    <3>2. p.version \in Nat /\ p.version <= active[r].version + 1
      BY Zenon, <1>9, <3>1
    <3>3. q.version \in Nat /\ active[r].version \in Nat
      BY Zenon, <1>5, <1>9
    <3> QED BY Zenon, <2>3, <3>2, <3>3, LeqAbove
  <2> QED BY Zenon, <2>2, <2>4, <2>5, <2>6 DEF Settled
<1>15. DoneOK'
  <2>1. outcome' = "succeeded" => pc' \in {"record", "idle"}
    BY Zenon, <1>1 DEF SettledInv, DoneOK, moveVars
  <2>2. ASSUME pc' = "await", reply' = "activated", NEW s \in Routers,
               First(s, todo)'
        PROVE  Settled(s)'
    <3>1. First(s, todo)
      BY Zenon, <1>1, <2>2 DEF First, moveVars
    <3>2. CASE q.live
      <4>1. First(r, todo) /\ Settled(r)'
        BY Zenon, <1>1, <1>4, <1>14, <2>2, <3>2 DEF moveVars
      <4>2. s = r
        BY Zenon, <3>1, <4>1, RankOrder DEF First
      <4> QED BY Zenon, <4>1, <4>2
    <3>3. CASE ~q.live
      BY Zenon, <1>1, <1>4, <1>13, <2>2, <3>1, <3>3 DEF SettledInv, DoneOK, moveVars
    <3> QED BY Zenon, <3>2, <3>3
  <2>3. pc' \in Forward \/ Success' => \A s \in done' : Settled(s)'
    BY Zenon, <1>1, <1>13 DEF SettledInv, MoveTypeOK, DoneOK, Success, moveVars
  <2> QED BY Zenon, <2>1, <2>2, <2>3 DEF DoneOK
<1>16. FilesOK'
  BY Zenon, <1>1 DEF SettledInv, FilesOK, Success, moveVars, diskVars
<1>17. StaysOK'
  BY Zenon, <1>1, <1>12 DEF SettledInv, MoveTypeOK, StaysOK, moveVars, diskVars
<1> QED BY Zenon, <1>8, <1>11, <1>15, <1>16, <1>17 DEF SettledInv

LEMMA InitSettled ==
  ASSUME Init
  PROVE  SettledInv
<1>1. active \in [Routers -> Snapshots]
  <2>1. \A r \in Routers : Snapshot(1, TableOf[r][membership]) \in Snapshots
    <3>1. membership \in Groups
      BY Zenon DEF Init
    <3>2. \A r \in Routers : TableOf[r][membership] \in Tables
      BY ZenonT(30), <3>1, LiveAssumption
    <3> QED BY Zenon, <3>2 DEF Snapshot, Snapshots
  <2> QED BY Zenon, <2>1 DEF Init
<1>2. MoveTypeOK
  BY Zenon, <1>1 DEF Init, MoveTypeOK, RouterTypeOK, Phases, Replies
<1> QED
  BY ZenonT(30), <1>2 DEF Init, SettledInv, RequestsOK, DoneOK, FilesOK, StaysOK, Forward,
     Success

LEMMA StutterSettled ==
  ASSUME SettledInv, UNCHANGED vars
  PROVE  SettledInv'
<1>1. UNCHANGED <<routerVars, moveVars, diskVars, outcome>>
  BY Zenon DEF vars
<1>2. MoveTypeOK'
  BY Zenon, <1>1 DEF SettledInv, MoveTypeOK, RouterTypeOK, routerVars, moveVars, diskVars
<1>3. RequestsOK'
  BY Zenon, <1>1 DEF SettledInv, RequestsOK, LiveRequest, First, Last, routerVars,
     moveVars, diskVars
<1>4. DoneOK'
  BY Zenon, <1>1 DEF SettledInv, DoneOK, Settled, Candidate, First, Success, routerVars,
     moveVars
<1>5. FilesOK' /\ StaysOK'
  BY Zenon, <1>1 DEF SettledInv, FilesOK, StaysOK, Success, routerVars, moveVars, diskVars
<1> QED BY Zenon, <1>2, <1>3, <1>4, <1>5 DEF SettledInv

(* One step of a move, of a router or of a fault keeps SettledInv.           *)
LEMMA NextSettled ==
  ASSUME SettledInv, "restart" \notin Faults, Next
  PROVE  SettledInv'
<1>1. ASSUME NEW g \in Groups, BeginMove(g) \/ RefuseMove(g) PROVE SettledInv'
  BY Zenon, <1>1, BeginMoveSettled, RefuseMoveSettled
<1>2. CASE MoveStep
  <2>1. ASSUME NEW r \in Routers,
               \/ Apply(r) \/ Acknowledged(r) \/ Refused(r)
               \/ UndoApply(r) \/ UndoAnswered(r) \/ WriteRoute(r)
        PROVE  SettledInv'
    BY Zenon, <2>1, ApplySettled, AcknowledgedSettled, RefusedSettled,
       UndoApplySettled, UndoAnsweredSettled, WriteRouteSettled
  <2>2. CASE UndoEnds \/ WriteHost \/ WritePlan \/ Written
    BY Zenon, <2>2, UndoEndsSettled, WriteHostSettled, WritePlanSettled, WrittenSettled
  <2>3. CASE RecordAttempt \/ FinishMove
    BY Zenon, <2>3, RecordAttemptSettled, FinishMoveSettled
  <2> QED BY Zenon, <1>2, <2>1, <2>2, <2>3 DEF MoveStep
<1>3. CASE FaultStep
  <2>1. ASSUME NEW r \in Routers,
               \/ Unreachable(r) \/ TimedOut(r) \/ UndoUnreachable(r)
               \/ UndoTimedOut(r) \/ SidecarRestart(r)
        PROVE  SettledInv'
    BY Zenon, <2>1, UnreachableSettled, TimedOutSettled, UndoUnreachableSettled,
       UndoTimedOutSettled, RestartSettled
  <2>2. CASE SeeCancelled \/ WriteFails \/ StoreFails \/ Crash
    BY Zenon, <2>2, SeeCancelledSettled, WriteFailsSettled, StoreFailsSettled,
       CrashSettled
  <2> QED BY Zenon, <1>3, <2>1, <2>2 DEF FaultStep
<1>4. CASE RouterHandles
  BY Zenon, <1>4, HandleSettled DEF RouterHandles, RouterStep
<1> QED BY Zenon, <1>1, <1>2, <1>3, <1>4 DEF Next

(* A move's routers stay settled: the inductive invariant, for every         *)
(* deployment and any faults but a sidecar restart during a move.            *)
THEOREM SettledInvariance ==
  ASSUME "restart" \notin Faults
  PROVE  Spec => []SettledInv
<1>1. Init => SettledInv
  BY Zenon, InitSettled
<1>2. SettledInv /\ [Next]_vars => SettledInv'
  BY Zenon, NextSettled, StutterSettled
<1> QED BY <1>1, <1>2, PTL DEF Spec

(* What a successful move has set up stays until the next move, whatever     *)
(* requests earlier moves abandoned at the routers.                          *)
THEOREM SucceededMoveSafety ==
  ASSUME "restart" \notin Faults
  PROVE  Spec => []SucceededMoveStays
<1>1. SettledInv => SucceededMoveStays
  BY Zenon DEF SettledInv, StaysOK, SucceededMoveStays
<1> QED BY <1>1, SettledInvariance, PTL

-----------------------------------------------------------------------------
(* When no answer is lost, no file write fails and no provider changes its   *)
(* mind, a move is all or nothing.  The routers that serve the new group:    *)
Given(r) ==
  \/ r \in done /\ ~(pc = "undo await" /\ Last(r, done) /\ reply = "activated")
  \/ pc = "await" /\ First(r, todo) /\ reply = "activated"

(* The one router that has a request, and the request.                       *)
Asked(r) ==
  /\ reply = "none"
  /\ \/ pc = "await" /\ First(r, todo)
     \/ pc = "undo await" /\ Last(r, done)

Question(r) ==
  [version |-> seen[r].version + 1,
   table |-> TableOf[r][IF pc = "await" THEN goal ELSE membership], live |-> TRUE]

AskedOnce ==
  /\ pc = "undo await" => reply \in {"none", "activated"}
  /\ \A r \in Routers : /\ Asked(r) => inbox[r] = {Question(r)} /\ active[r] = seen[r]
                        /\ ~Asked(r) => inbox[r] = {}

(* The routers that are not targets serve the same table in both groups.     *)
TargetsKnown ==
  /\ pc \in {"idle", "write routes"} => goal = membership
  /\ pc = "record" => goal = membership \/ done = {}
  /\ pc \in {"write host", "write plan"} => todo = {}
  /\ pc \in {"next", "await", "write host", "write plan"} =>
       \A r \in Routers \ (todo \cup done) : TableOf[r][goal] = TableOf[r][membership]

FilesFollow ==
  \A r \in Routers :
    \/ pc = "write routes" /\ r \in todo
    \/ file[r].table = TableOf[r][IF pc = "write plan" /\ r = Host THEN goal ELSE membership]

ServesFollow ==
  \A r \in Routers : active[r].table = TableOf[r][IF Given(r) THEN goal ELSE membership]

ServedIsUp ==
  \A r \in Routers : Health[active[r].table] = "up" /\ Health[TableOf[r][membership]] = "up"

WholeInv == AskedOnce /\ TargetsKnown /\ FilesFollow /\ ServesFollow /\ ServedIsUp

LEMMA TableType ==
  ASSUME NEW r \in Routers, NEW g \in Groups
  PROVE  TableOf[r][g] \in Tables
<1>1. TableOf[r] \in [Groups -> Tables]
  BY Zenon, LiveAssumption
<1> QED BY Zenon, <1>1

LEMMA FirstUnique ==
  ASSUME NEW S \in SUBSET Routers, NEW r, NEW s, First(r, S), First(s, S)
  PROVE  r = s
<1>1. r \in Routers /\ s \in Routers /\ Rank[r] <= Rank[s] /\ Rank[s] <= Rank[r]
  BY Zenon DEF First
<1> QED BY Zenon, <1>1, RankOrder

LEMMA LastUnique ==
  ASSUME NEW S \in SUBSET Routers, NEW r, NEW s, Last(r, S), Last(s, S)
  PROVE  r = s
<1>1. r \in Routers /\ s \in Routers /\ Rank[r] <= Rank[s] /\ Rank[s] <= Rank[r]
  BY Zenon DEF Last
<1> QED BY Zenon, <1>1, RankOrder

(* A step that leaves the routers alone, awaits nothing before and after     *)
(* it, and treats the same routers as changed.                               *)
LEMMA QuietSteps ==
  ASSUME WholeInv, UNCHANGED <<active, inbox, membership>>,
         \A r \in Routers : ~Asked(r) /\ ~Asked(r)', pc' # "undo await",
         \A r \in Routers : TableOf[r][IF Given(r) THEN goal ELSE membership]
                          = TableOf[r][IF Given(r)' THEN goal' ELSE membership]
  PROVE  AskedOnce' /\ ServesFollow' /\ ServedIsUp'
<1>1. AskedOnce'
  BY Zenon DEF WholeInv, AskedOnce
<1>2. ServesFollow'
  BY Zenon DEF WholeInv, ServesFollow
<1>3. ServedIsUp'
  BY Zenon DEF WholeInv, ServedIsUp
<1> QED BY Zenon, <1>1, <1>2, <1>3

LEMMA BeginMoveWhole ==
  ASSUME SettledInv, WholeInv, NEW g \in Groups, BeginMove(g)
  PROVE  WholeInv'
<1>1. /\ pc = "idle" /\ pc' = "next" /\ goal' = g /\ todo' = Targets(g) /\ done' = {}
      /\ UNCHANGED <<active, inbox, reply, seen, membership, file>>
  BY Zenon DEF BeginMove, routerVars, diskVars
<1>2. goal = membership
  BY Zenon, <1>1 DEF WholeInv, TargetsKnown
<1>3. \A r \in Routers : file[r].table = TableOf[r][membership]
  BY Zenon, <1>1 DEF WholeInv, FilesFollow
<1>4. \A r \in Routers : ~Asked(r) /\ ~Asked(r)' /\ ~Given(r)'
  BY Zenon, <1>1 DEF Asked, Given
<1>5. AskedOnce' /\ ServesFollow' /\ ServedIsUp'
  BY Zenon, <1>1, <1>2, <1>4, QuietSteps
<1>6. TargetsKnown'
  BY Zenon, <1>1, <1>3 DEF TargetsKnown, Targets
<1>7. FilesFollow'
  BY Zenon, <1>1, <1>3 DEF FilesFollow
<1> QED BY Zenon, <1>5, <1>6, <1>7 DEF WholeInv

LEMMA SeeCancelledWhole ==
  ASSUME SettledInv, WholeInv, SeeCancelled
  PROVE  WholeInv'
<1>1. /\ pc = "next" /\ pc' = "undo"
      /\ UNCHANGED <<active, inbox, reply, seen, membership, file, goal, todo, done>>
  BY Zenon DEF SeeCancelled, routerVars, diskVars
<1>2. \A r \in Routers : ~Asked(r) /\ ~Asked(r)' /\ (Given(r)' <=> Given(r))
  BY Zenon, <1>1 DEF Asked, Given
<1>3. AskedOnce' /\ ServesFollow' /\ ServedIsUp'
  BY Zenon, <1>1, <1>2, QuietSteps
<1>4. TargetsKnown' /\ FilesFollow'
  BY Zenon, <1>1 DEF WholeInv, TargetsKnown, FilesFollow
<1> QED BY Zenon, <1>3, <1>4 DEF WholeInv

LEMMA ApplyWhole ==
  ASSUME SettledInv, WholeInv, NEW r \in Routers, Apply(r)
  PROVE  WholeInv'
<1>1. /\ pc = "next" /\ pc' = "await" /\ First(r, todo) /\ reply' = "none"
      /\ seen' = [seen EXCEPT ![r] = active[r]]
      /\ inbox' = [inbox EXCEPT ![r] = @ \cup
                     {[version |-> active[r].version + 1, table |-> TableOf[r][goal], live |-> TRUE]}]
      /\ UNCHANGED <<active, membership, file, goal, todo, done>>
  BY Zenon DEF Apply, Submit, diskVars
<1>2. seen \in [Routers -> Snapshots] /\ inbox \in [Routers -> SUBSET Requests] /\ todo \in SUBSET Routers
  BY Zenon DEF SettledInv, MoveTypeOK, RouterTypeOK
<1>3. \A s \in Routers : inbox[s] = {} /\ (Asked(s)' <=> s = r) /\ (Given(s)' <=> Given(s))
  <2>1. \A s \in Routers : inbox[s] = {}
    BY Zenon, <1>1 DEF WholeInv, AskedOnce, Asked
  <2>2. \A s \in Routers : Asked(s)' <=> s = r
    BY Zenon, <1>1, <1>2, FirstUnique DEF Asked
  <2>3. \A s \in Routers : Given(s)' <=> Given(s)
    BY Zenon, <1>1 DEF Given
  <2> QED BY Zenon, <2>1, <2>2, <2>3
<1>4. seen'[r] = active[r]
  BY Zenon, <1>1, <1>2
<1>5. inbox'[r] = {Question(r)'}
  <2>1. inbox'[r] = inbox[r] \cup
          {[version |-> active[r].version + 1, table |-> TableOf[r][goal], live |-> TRUE]}
    BY Zenon, <1>1, <1>2
  <2>2. Question(r)' = [version |-> active[r].version + 1, table |-> TableOf[r][goal], live |-> TRUE]
    BY Zenon, <1>1, <1>4 DEF Question
  <2> QED BY Zenon, <1>3, <2>1, <2>2
<1>6. \A s \in Routers : s # r => inbox'[s] = {}
  BY Zenon, <1>1, <1>2, <1>3
<1>7. AskedOnce'
  BY Zenon, <1>1, <1>3, <1>4, <1>5, <1>6 DEF AskedOnce
<1>8. ServesFollow' /\ ServedIsUp'
  BY Zenon, <1>1, <1>3 DEF WholeInv, ServesFollow, ServedIsUp
<1>9. TargetsKnown' /\ FilesFollow'
  BY Zenon, <1>1 DEF WholeInv, TargetsKnown, FilesFollow
<1> QED BY Zenon, <1>7, <1>8, <1>9 DEF WholeInv

LEMMA AcknowledgedWhole ==
  ASSUME SettledInv, WholeInv, NEW r \in Routers, Acknowledged(r)
  PROVE  WholeInv'
<1>1. /\ pc = "await" /\ pc' \in {"next", "write host"} /\ First(r, todo)
      /\ reply = "activated" /\ reply' = "none"
      /\ done' = done \cup {r} /\ todo' = todo \ {r} /\ (pc' = "write host" => todo' = {})
      /\ UNCHANGED <<active, inbox, seen, membership, file, goal>>
  BY Zenon DEF Acknowledged, diskVars
<1>2. todo \in SUBSET Routers
  BY Zenon DEF SettledInv, MoveTypeOK
<1>3. \A s \in Routers : ~Asked(s) /\ ~Asked(s)' /\ (Given(s)' <=> Given(s))
  <2>1. \A s \in Routers : First(s, todo) <=> s = r
    BY Zenon, <1>1, <1>2, FirstUnique
  <2> QED BY Zenon, <1>1, <2>1 DEF Asked, Given
<1>4. AskedOnce' /\ ServesFollow' /\ ServedIsUp'
  <2>1. pc' # "undo await"
    BY Zenon, <1>1
  <2> QED BY Zenon, <1>1, <1>3, <2>1, QuietSteps
<1>5. TargetsKnown'
  <2>1. todo' \cup done' = todo \cup done
    BY Zenon, <1>1 DEF First
  <2>2. \A s \in Routers \ (todo \cup done) : TableOf[s][goal] = TableOf[s][membership]
    BY Zenon, <1>1 DEF WholeInv, TargetsKnown
  <2> QED BY Zenon, <1>1, <2>1, <2>2 DEF TargetsKnown
<1>6. FilesFollow'
  <2>1. \A s \in Routers : file[s].table = TableOf[s][membership]
    BY Zenon, <1>1 DEF WholeInv, FilesFollow
  <2> QED BY Zenon, <1>1, <2>1 DEF FilesFollow
<1> QED BY Zenon, <1>4, <1>5, <1>6 DEF WholeInv

LEMMA RefusedWhole ==
  ASSUME SettledInv, WholeInv, NEW r \in Routers, Refused(r)
  PROVE  WholeInv'
<1>1. /\ pc = "await" /\ pc' = "undo" /\ reply \notin {"none", "activated"} /\ reply' = "none"
      /\ UNCHANGED <<active, inbox, seen, membership, file, goal, todo, done>>
  BY Zenon DEF Refused, diskVars
<1>2. \A s \in Routers : ~Asked(s) /\ ~Asked(s)' /\ (Given(s)' <=> Given(s))
  BY Zenon, <1>1 DEF Asked, Given
<1>3. AskedOnce' /\ ServesFollow' /\ ServedIsUp'
  BY Zenon, <1>1, <1>2, QuietSteps
<1>4. TargetsKnown' /\ FilesFollow'
  BY Zenon, <1>1 DEF WholeInv, TargetsKnown, FilesFollow
<1> QED BY Zenon, <1>3, <1>4 DEF WholeInv

LEMMA UndoApplyWhole ==
  ASSUME SettledInv, WholeInv, NEW r \in Routers, UndoApply(r)
  PROVE  WholeInv'
<1>1. /\ pc = "undo" /\ pc' = "undo await" /\ Last(r, done) /\ reply' = "none"
      /\ seen' = [seen EXCEPT ![r] = active[r]]
      /\ inbox' = [inbox EXCEPT ![r] = @ \cup
                     {[version |-> active[r].version + 1, table |-> file[r].table, live |-> TRUE]}]
      /\ UNCHANGED <<active, membership, file, goal, todo, done>>
  BY Zenon DEF UndoApply, Submit, diskVars
<1>2. seen \in [Routers -> Snapshots] /\ inbox \in [Routers -> SUBSET Requests] /\ done \in SUBSET Routers
  BY Zenon DEF SettledInv, MoveTypeOK, RouterTypeOK
<1>3. \A s \in Routers : inbox[s] = {} /\ (Asked(s)' <=> s = r) /\ (Given(s)' <=> Given(s))
  <2>1. \A s \in Routers : inbox[s] = {}
    BY Zenon, <1>1 DEF WholeInv, AskedOnce, Asked
  <2>2. \A s \in Routers : Asked(s)' <=> s = r
    BY Zenon, <1>1, <1>2, LastUnique DEF Asked
  <2>3. \A s \in Routers : Given(s)' <=> Given(s)
    BY Zenon, <1>1 DEF Given
  <2> QED BY Zenon, <2>1, <2>2, <2>3
<1>4. seen'[r] = active[r]
  BY Zenon, <1>1, <1>2
<1>5. inbox'[r] = {Question(r)'}
  <2>1. inbox'[r] = inbox[r] \cup
          {[version |-> active[r].version + 1, table |-> file[r].table, live |-> TRUE]}
    BY Zenon, <1>1, <1>2
  <2>2. file[r].table = TableOf[r][membership]
    BY Zenon, <1>1 DEF WholeInv, FilesFollow
  <2>3. Question(r)' = [version |-> active[r].version + 1, table |-> file[r].table, live |-> TRUE]
    BY Zenon, <1>1, <1>4, <2>2 DEF Question
  <2> QED BY Zenon, <1>3, <2>1, <2>3
<1>6. \A s \in Routers : s # r => inbox'[s] = {}
  BY Zenon, <1>1, <1>2, <1>3
<1>7. AskedOnce'
  BY Zenon, <1>1, <1>3, <1>4, <1>5, <1>6 DEF AskedOnce
<1>8. ServesFollow' /\ ServedIsUp'
  BY Zenon, <1>1, <1>3 DEF WholeInv, ServesFollow, ServedIsUp
<1>9. TargetsKnown' /\ FilesFollow'
  BY Zenon, <1>1 DEF WholeInv, TargetsKnown, FilesFollow
<1> QED BY Zenon, <1>7, <1>8, <1>9 DEF WholeInv

LEMMA UndoAnsweredWhole ==
  ASSUME SettledInv, WholeInv, NEW r \in Routers, UndoAnswered(r)
  PROVE  WholeInv'
<1>1. /\ pc = "undo await" /\ pc' = "undo" /\ Last(r, done) /\ reply # "none" /\ reply' = "none"
      /\ done' = done \ {r}
      /\ UNCHANGED <<active, inbox, seen, membership, file, goal, todo>>
  BY Zenon DEF UndoAnswered, diskVars
<1>2. reply = "activated"
  BY Zenon, <1>1 DEF WholeInv, AskedOnce
<1>3. done \in SUBSET Routers
  BY Zenon DEF SettledInv, MoveTypeOK
<1>4. \A s \in Routers : ~Asked(s) /\ ~Asked(s)' /\ (Given(s)' <=> Given(s))
  <2>1. \A s \in Routers : Last(s, done) <=> s = r
    BY Zenon, <1>1, <1>3, LastUnique
  <2> QED BY Zenon, <1>1, <1>2, <2>1 DEF Asked, Given
<1>5. AskedOnce' /\ ServesFollow' /\ ServedIsUp'
  BY Zenon, <1>1, <1>4, QuietSteps
<1>6. TargetsKnown' /\ FilesFollow'
  BY Zenon, <1>1 DEF WholeInv, TargetsKnown, FilesFollow
<1> QED BY Zenon, <1>5, <1>6 DEF WholeInv

LEMMA UndoEndsWhole ==
  ASSUME SettledInv, WholeInv, UndoEnds
  PROVE  WholeInv'
<1>1. /\ pc = "undo" /\ pc' = "record" /\ done = {} /\ todo' = {}
      /\ UNCHANGED <<active, inbox, reply, seen, membership, file, goal, done>>
  BY Zenon DEF UndoEnds, routerVars, diskVars
<1>2. \A s \in Routers : ~Asked(s) /\ ~Asked(s)' /\ (Given(s)' <=> Given(s))
  BY Zenon, <1>1 DEF Asked, Given
<1>3. AskedOnce' /\ ServesFollow' /\ ServedIsUp'
  BY Zenon, <1>1, <1>2, QuietSteps
<1>4. TargetsKnown' /\ FilesFollow'
  BY Zenon, <1>1 DEF WholeInv, TargetsKnown, FilesFollow
<1> QED BY Zenon, <1>3, <1>4 DEF WholeInv

LEMMA WriteHostWhole ==
  ASSUME SettledInv, WholeInv, WriteHost
  PROVE  WholeInv'
<1>1. /\ pc = "write host" /\ pc' = "write plan"
      /\ file' = IF Host \in done THEN [file EXCEPT ![Host] = Candidate(Host)] ELSE file
      /\ UNCHANGED <<active, inbox, reply, seen, membership, goal, todo, done>>
  BY Zenon DEF WriteHost, routerVars
<1>2. \A s \in Routers : ~Asked(s) /\ ~Asked(s)' /\ (Given(s)' <=> Given(s))
  BY Zenon, <1>1 DEF Asked, Given
<1>3. AskedOnce' /\ ServesFollow' /\ ServedIsUp'
  BY Zenon, <1>1, <1>2, QuietSteps
<1>4. TargetsKnown'
  BY Zenon, <1>1 DEF WholeInv, TargetsKnown
<1>5. FilesFollow'
  <2>1. \A s \in Routers : file[s].table = TableOf[s][membership]
    BY Zenon, <1>1 DEF WholeInv, FilesFollow
  <2>2. file \in [Routers -> Snapshots]
    BY Zenon DEF SettledInv, MoveTypeOK
  <2>3. \A s \in Routers : s # Host => file'[s] = file[s]
    BY Zenon, <1>1, <2>2
  <2>4. ASSUME Host \in Routers PROVE file'[Host].table = TableOf[Host][goal]
    <3>1. CASE Host \in done
      BY Zenon, <1>1, <2>2, <2>4, <3>1 DEF Candidate, Snapshot
    <3>2. CASE Host \notin done
      BY Zenon, <1>1, <2>1, <2>4, <3>2 DEF WholeInv, TargetsKnown
    <3> QED BY Zenon, <3>1, <3>2
  <2>5. ASSUME NEW s \in Routers
        PROVE  file'[s].table = TableOf[s][IF pc' = "write plan" /\ s = Host THEN goal' ELSE membership']
    <3> pc' = "write plan" /\ goal' = goal /\ membership' = membership
      BY Zenon, <1>1
    <3>1. CASE s = Host
      BY Zenon, <2>4, <3>1
    <3>2. CASE s # Host
      BY Zenon, <2>1, <2>3, <3>2
    <3> QED BY Zenon, <3>1, <3>2
  <2> QED BY Zenon, <2>5 DEF FilesFollow
<1> QED BY Zenon, <1>3, <1>4, <1>5 DEF WholeInv

LEMMA WritePlanWhole ==
  ASSUME SettledInv, WholeInv, WritePlan
  PROVE  WholeInv' /\ \A s \in Routers : active[s].table = TableOf[s][goal]
<1>1. /\ pc = "write plan" /\ pc' = "write routes" /\ membership' = goal
      /\ todo' = done \ {Host}
      /\ UNCHANGED <<active, inbox, reply, seen, file, goal, done>>
  BY Zenon DEF WritePlan, routerVars
<1>2. \A s \in Routers : ~Asked(s) /\ ~Asked(s)' /\ (Given(s) <=> s \in done)
  BY Zenon, <1>1 DEF Asked, Given
<1>3. \A s \in Routers : s \notin done => TableOf[s][goal] = TableOf[s][membership]
  <2>1. /\ todo = {}
        /\ \A s \in Routers \ (todo \cup done) : TableOf[s][goal] = TableOf[s][membership]
    BY Zenon, <1>1 DEF WholeInv, TargetsKnown
  <2> QED BY Zenon, <2>1
<1>4. \A s \in Routers : active[s].table = TableOf[s][goal]
  BY Zenon, <1>2, <1>3 DEF WholeInv, ServesFollow
<1>5. AskedOnce'
  BY Zenon, <1>1, <1>2 DEF WholeInv, AskedOnce
<1>6. ServesFollow'
  BY Zenon, <1>1, <1>4 DEF ServesFollow
<1>7. ServedIsUp'
  BY Zenon, <1>1, <1>4 DEF WholeInv, ServedIsUp
<1>8. TargetsKnown'
  BY Zenon, <1>1 DEF TargetsKnown
<1>9. FilesFollow'
  <2>1. \A s \in Routers : file[s].table = TableOf[s][IF s = Host THEN goal ELSE membership]
    BY Zenon, <1>1 DEF WholeInv, FilesFollow
  <2> QED BY Zenon, <1>1, <1>3, <2>1 DEF FilesFollow
<1> QED BY Zenon, <1>4, <1>5, <1>6, <1>7, <1>8, <1>9 DEF WholeInv

LEMMA WriteRouteWhole ==
  ASSUME SettledInv, WholeInv, NEW r \in Routers, WriteRoute(r)
  PROVE  WholeInv'
<1>1. /\ pc = "write routes" /\ pc' = pc /\ First(r, todo)
      /\ file' = [file EXCEPT ![r] = Candidate(r)] /\ todo' = todo \ {r}
      /\ UNCHANGED <<active, inbox, reply, seen, membership, goal, done>>
  BY Zenon DEF WriteRoute, routerVars
<1>2. \A s \in Routers : ~Asked(s) /\ ~Asked(s)' /\ (Given(s)' <=> Given(s))
  BY Zenon, <1>1 DEF Asked, Given
<1>3. AskedOnce' /\ ServesFollow' /\ ServedIsUp'
  BY Zenon, <1>1, <1>2, QuietSteps
<1>4. TargetsKnown'
  BY Zenon, <1>1 DEF WholeInv, TargetsKnown
<1>5. FilesFollow'
  <2>1. file \in [Routers -> Snapshots] /\ goal = membership
    BY Zenon, <1>1 DEF SettledInv, MoveTypeOK, WholeInv, TargetsKnown
  <2>2. file'[r].table = TableOf[r][membership]
    BY Zenon, <1>1, <2>1 DEF Candidate, Snapshot
  <2>3. \A s \in Routers : s # r => file'[s] = file[s] /\ (s \in todo' <=> s \in todo)
    BY Zenon, <1>1, <2>1
  <2> QED BY Zenon, <1>1, <2>2, <2>3 DEF WholeInv, FilesFollow
<1> QED BY Zenon, <1>3, <1>4, <1>5 DEF WholeInv

LEMMA WrittenWhole ==
  ASSUME SettledInv, WholeInv, Written
  PROVE  WholeInv'
<1>1. /\ pc = "write routes" /\ pc' = "record" /\ todo = {}
      /\ UNCHANGED <<active, inbox, reply, seen, membership, file, goal, todo, done>>
  BY Zenon DEF Written, routerVars, diskVars
<1>2. \A s \in Routers : ~Asked(s) /\ ~Asked(s)' /\ (Given(s)' <=> Given(s))
  BY Zenon, <1>1 DEF Asked, Given
<1>3. AskedOnce' /\ ServesFollow' /\ ServedIsUp'
  BY Zenon, <1>1, <1>2, QuietSteps
<1>4. TargetsKnown' /\ FilesFollow'
  BY Zenon, <1>1 DEF WholeInv, TargetsKnown, FilesFollow
<1> QED BY Zenon, <1>3, <1>4 DEF WholeInv

LEMMA FinishMoveWhole ==
  ASSUME SettledInv, WholeInv, FinishMove
  PROVE  WholeInv' /\ \A s \in Routers : active[s].table = TableOf[s][membership]
<1>1. /\ pc = "record" /\ pc' = "idle" /\ goal' = membership
      /\ UNCHANGED <<active, inbox, reply, membership, file, done>>
  BY Zenon DEF FinishMove, Forget, routerVars, diskVars
<1>2. \A s \in Routers : ~Asked(s) /\ ~Asked(s)' /\ (Given(s) <=> s \in done)
  BY Zenon, <1>1 DEF Asked, Given
<1>3. \A s \in Routers : active[s].table = TableOf[s][membership]
  BY Zenon, <1>1, <1>2 DEF WholeInv, ServesFollow, TargetsKnown
<1>4. AskedOnce' /\ ServedIsUp'
  BY Zenon, <1>1, <1>2 DEF WholeInv, AskedOnce, ServedIsUp
<1>5. ServesFollow'
  BY Zenon, <1>1, <1>3 DEF ServesFollow
<1>6. TargetsKnown' /\ FilesFollow'
  BY Zenon, <1>1 DEF WholeInv, TargetsKnown, FilesFollow
<1> QED BY Zenon, <1>3, <1>4, <1>5, <1>6 DEF WholeInv

(* Nothing that WholeInv is about changes.                                   *)
LEMMA SameWhole ==
  ASSUME WholeInv,
         UNCHANGED <<active, inbox, reply, seen, membership, file, pc, goal, todo, done>>
  PROVE  WholeInv'
<1>1. \A s \in Routers : /\ Asked(s)' <=> Asked(s)
                         /\ Given(s)' <=> Given(s)
                         /\ Question(s)' = Question(s)
  BY Zenon DEF Asked, Given, Question, First, Last
<1>2. AskedOnce'
  BY Zenon, <1>1 DEF WholeInv, AskedOnce
<1>3. ServesFollow' /\ ServedIsUp'
  BY Zenon, <1>1 DEF WholeInv, ServesFollow, ServedIsUp
<1>4. TargetsKnown' /\ FilesFollow'
  BY Zenon DEF WholeInv, TargetsKnown, FilesFollow
<1> QED BY Zenon, <1>2, <1>3, <1>4 DEF WholeInv

(* A router answers the one request there is.  The table of the old group is *)
(* always taken back.                                                        *)
LEMMA HandleWhole ==
  ASSUME SettledInv, WholeInv, \A t \in Tables : Health[t] # "flaky",
         NEW r \in Routers, NEW q \in inbox[r], NEW a \in Verdicts(r, q), Handle(r, q, a),
         UNCHANGED <<moveVars, diskVars>>
  PROVE  /\ WholeInv'
         /\ \/ active' = active
            \/ \E g \in {membership, goal} :
                 active' = [active EXCEPT ![r] = Snapshot(q.version, TableOf[r][g])]
<1>1. /\ inbox' = [inbox EXCEPT ![r] = @ \ {q}]
      /\ reply' = IF q.live THEN a ELSE reply
      /\ active' = IF a = "activated" THEN [active EXCEPT ![r] = Snapshot(q.version, q.table)]
                   ELSE active
      /\ UNCHANGED <<seen, membership, file, pc, goal, todo, done>>
  BY Zenon DEF Handle, moveVars, diskVars
<1>2. /\ active \in [Routers -> Snapshots] /\ inbox \in [Routers -> SUBSET Requests]
      /\ todo \in SUBSET Routers /\ done \in SUBSET Routers
      /\ goal \in Groups /\ membership \in Groups
      /\ pc = "await" => todo \cap done = {}
  BY Zenon DEF SettledInv, MoveTypeOK, RouterTypeOK
<1>3. Asked(r) /\ q = Question(r) /\ active[r] = seen[r] /\ inbox[r] = {q}
  BY Zenon DEF WholeInv, AskedOnce
<1>4. \A s \in Routers : s # r => ~Asked(s)
  BY Zenon, <1>2, <1>3, FirstUnique, LastUnique DEF Asked
<1>5. /\ q.live /\ q.version = active[r].version + 1
      /\ q.table = TableOf[r][IF pc = "await" THEN goal ELSE membership]
  BY Zenon, <1>3 DEF Question
<1>6. q.table \in Tables /\ Newer(r, q)
  <2>1. active[r].version \in Nat
    BY Zenon, <1>2 DEF Snapshots
  <2>2. q.table \in Tables
    BY Zenon, <1>2, <1>5, TableType
  <2> QED BY SMTT(30), <1>5, <2>1, <2>2 DEF Newer
<1>7. /\ a \in {"activated", "unhealthy", "rejected"}
      /\ a = "activated" => Health[q.table] = "up"
      /\ Health[q.table] = "up" => a = "activated"
  <2>1. Health[q.table] \in {"up", "down", "invalid"}
    BY Zenon, <1>6, RouterAssumption
  <2> QED BY Zenon, <1>6, <2>1 DEF Verdicts
<1>8. reply' = a
  BY Zenon, <1>1, <1>5
<1>9. \A s \in Routers : inbox'[s] = {} /\ ~Asked(s)'
  <2>1. inbox'[r] = {}
    BY Zenon, <1>1, <1>2, <1>3
  <2>2. \A s \in Routers : s # r => inbox'[s] = {}
    BY Zenon, <1>1, <1>2, <1>4 DEF WholeInv, AskedOnce
  <2>3. \A s \in Routers : ~Asked(s)'
    BY Zenon, <1>7, <1>8 DEF Asked
  <2> QED BY Zenon, <2>1, <2>2, <2>3
<1>10. pc = "undo await" => a = "activated"
  <2>1. Health[TableOf[r][membership]] = "up"
    BY Zenon DEF WholeInv, ServedIsUp
  <2> QED BY Zenon, <1>5, <1>7, <2>1
<1>11. AskedOnce'
  BY Zenon, <1>1, <1>8, <1>9, <1>10 DEF AskedOnce
<1>12. \A s \in Routers : s # r => active'[s] = active[s]
  BY Zenon, <1>1, <1>2
<1>13. /\ a = "activated" => active'[r].table = q.table
       /\ a # "activated" => active' = active
  BY Zenon, <1>1, <1>2 DEF Snapshot
<1>14. \A s \in Routers : s # r => (Given(s)' <=> Given(s))
  <2>1. reply = "none"
    BY Zenon, <1>3 DEF Asked
  <2>2. \A s \in Routers : s # r =>
          (pc = "await" => ~First(s, todo)) /\ (pc = "undo await" => ~Last(s, done))
    BY Zenon, <1>4, <2>1 DEF Asked
  <2> QED BY Zenon, <1>1, <2>2 DEF Given
<1>15. ServesFollow'
  <2>1. \A s \in Routers : s # r =>
          active'[s].table = TableOf[s][IF Given(s)' THEN goal' ELSE membership']
    BY Zenon, <1>1, <1>12, <1>14 DEF WholeInv, ServesFollow
  <2>2. active'[r].table = TableOf[r][IF Given(r)' THEN goal' ELSE membership']
    <3>1. CASE pc = "await" /\ a = "activated"
      <4>1. First(r, todo)
        BY Zenon, <1>3, <3>1 DEF Asked
      <4>2. Given(r)'
        BY Zenon, <1>1, <1>8, <3>1, <4>1 DEF Given
      <4> QED BY Zenon, <1>1, <1>5, <1>13, <3>1, <4>2
    <3>2. CASE pc = "await" /\ a # "activated"
      <4>1. Given(r)' <=> Given(r)
        BY Zenon, <1>1, <1>3, <1>8, <3>2 DEF Given, Asked
      <4> QED BY Zenon, <1>1, <1>13, <3>2, <4>1 DEF WholeInv, ServesFollow
    <3>3. CASE pc = "undo await"
      <4>1. Last(r, done) /\ a = "activated"
        BY Zenon, <1>3, <1>10, <3>3 DEF Asked
      <4>2. ~Given(r)'
        BY Zenon, <1>1, <1>8, <3>3, <4>1 DEF Given
      <4>3. q.table = TableOf[r][membership]
        BY Zenon, <1>5, <3>3
      <4> QED BY Zenon, <1>1, <1>13, <4>1, <4>2, <4>3
    <3> QED BY Zenon, <1>3, <3>1, <3>2, <3>3 DEF Asked
  <2> QED BY Zenon, <2>1, <2>2 DEF ServesFollow
<1>16. ServedIsUp'
  BY Zenon, <1>1, <1>7, <1>12, <1>13 DEF WholeInv, ServedIsUp
<1>17. TargetsKnown' /\ FilesFollow'
  BY Zenon, <1>1 DEF WholeInv, TargetsKnown, FilesFollow
<1>18. \/ active' = active
       \/ \E g \in {membership, goal} :
            active' = [active EXCEPT ![r] = Snapshot(q.version, TableOf[r][g])]
  BY Zenon, <1>1, <1>5
<1> QED BY Zenon, <1>11, <1>15, <1>16, <1>17, <1>18 DEF WholeInv

LEMMA InitWhole ==
  ASSUME Init, \A t \in Tables : Health[t] # "flaky"
  PROVE  WholeInv
<1>1. /\ membership \in Groups /\ goal = membership /\ pc = "idle" /\ done = {} /\ todo = {}
      /\ inbox = [r \in Routers |-> {}]
      /\ active = [r \in Routers |-> Snapshot(1, TableOf[r][membership])] /\ file = active
      /\ \A r \in Routers : Health[TableOf[r][membership]] \in {"up", "flaky"}
  BY Zenon DEF Init
<1>2. \A r \in Routers : active[r].table = TableOf[r][membership]
  BY Zenon, <1>1 DEF Snapshot
<1>3. \A r \in Routers : TableOf[r][membership] \in Tables
  BY Zenon, <1>1, TableType
<1>4. ServedIsUp
  BY Zenon, <1>1, <1>2, <1>3 DEF ServedIsUp
<1>5. AskedOnce
  BY Zenon, <1>1 DEF AskedOnce, Asked
<1>6. ServesFollow /\ TargetsKnown /\ FilesFollow
  BY Zenon, <1>1, <1>2 DEF ServesFollow, TargetsKnown, FilesFollow
<1> QED BY Zenon, <1>4, <1>5, <1>6 DEF WholeInv

(* One step keeps WholeInv and is a step of what a move promises.            *)
LEMMA NextWhole ==
  ASSUME SettledInv, WholeInv, Next,
         Faults \subseteq {"cancel"}, \A t \in Tables : Health[t] # "flaky"
  PROVE  WholeInv' /\ (Promise!AbstractNext \/ UNCHANGED Promise!abstractVars)
<1>1. \A kind : kind # "cancel" => ~Fault(kind)
  BY Zenon DEF Fault
<1>2. ASSUME UNCHANGED <<active, membership>>, pc # "idle", pc' # "idle", goal' = goal
      PROVE  UNCHANGED Promise!abstractVars
  BY Zenon, <1>2 DEF Promise!abstractVars
<1>3. ASSUME NEW g \in Groups, BeginMove(g)
      PROVE  WholeInv' /\ Promise!BeginAbstract(g)
  <2>1. WholeInv'
    BY Zenon, <1>3, BeginMoveWhole
  <2>2. pc = "idle" /\ pc' = "next" /\ goal' = g /\ UNCHANGED <<active, membership>>
    BY Zenon, <1>3 DEF BeginMove, routerVars, diskVars
  <2>3. \A r \in Routers : active[r].table = TableOf[r][membership]
    BY Zenon, <2>2 DEF WholeInv, ServesFollow, TargetsKnown
  <2> QED BY Zenon, <2>1, <2>2, <2>3 DEF Promise!BeginAbstract, Promise!ServesAll
<1>4. ASSUME NEW g \in Groups, RefuseMove(g)
      PROVE  WholeInv' /\ UNCHANGED Promise!abstractVars
  <2>1. UNCHANGED <<active, inbox, reply, seen, membership, file, pc, goal, todo, done>>
    BY Zenon, <1>4 DEF RefuseMove, routerVars, moveVars, diskVars
  <2> QED BY Zenon, <2>1, SameWhole DEF Promise!abstractVars
<1>5. ASSUME NEW r \in Routers,
             \/ Apply(r) \/ Acknowledged(r) \/ Refused(r)
             \/ UndoApply(r) \/ UndoAnswered(r) \/ WriteRoute(r)
      PROVE  WholeInv' /\ UNCHANGED Promise!abstractVars
  <2>1. WholeInv'
    BY Zenon, <1>5, ApplyWhole, AcknowledgedWhole, RefusedWhole, UndoApplyWhole, UndoAnsweredWhole,
       WriteRouteWhole
  <2>2. UNCHANGED <<active, membership>> /\ goal' = goal
    BY Zenon, <1>5 DEF Apply, Acknowledged, Refused, UndoApply, UndoAnswered, WriteRoute,
       routerVars, diskVars
  <2>3. pc # "idle" /\ pc' # "idle"
    BY Zenon, <1>5 DEF Apply, Acknowledged, Refused, UndoApply, UndoAnswered, WriteRoute
  <2> QED BY Zenon, <1>2, <2>1, <2>2, <2>3
<1>6. ASSUME UndoEnds \/ WriteHost \/ Written \/ SeeCancelled
      PROVE  WholeInv' /\ UNCHANGED Promise!abstractVars
  <2>1. WholeInv'
    BY Zenon, <1>6, UndoEndsWhole, WriteHostWhole, WrittenWhole, SeeCancelledWhole
  <2>2. UNCHANGED <<active, membership>> /\ goal' = goal
    BY Zenon, <1>6 DEF UndoEnds, WriteHost, Written, SeeCancelled, routerVars, diskVars
  <2>3. pc # "idle" /\ pc' # "idle"
    BY Zenon, <1>6 DEF UndoEnds, WriteHost, Written, SeeCancelled
  <2> QED BY Zenon, <1>2, <2>1, <2>2, <2>3
<1>7. ASSUME WritePlan
      PROVE  WholeInv' /\ Promise!Commit
  <2>1. WholeInv' /\ \A r \in Routers : active[r].table = TableOf[r][goal]
    BY Zenon, <1>7, WritePlanWhole
  <2>2. /\ pc = "write plan" /\ pc' = "write routes" /\ membership' = goal
        /\ UNCHANGED <<active, goal>>
    BY Zenon, <1>7 DEF WritePlan, routerVars
  <2> QED BY Zenon, <2>1, <2>2 DEF Promise!Commit, Promise!ServesAll
<1>8. ASSUME RecordAttempt
      PROVE  WholeInv' /\ UNCHANGED Promise!abstractVars
  <2>1. UNCHANGED <<active, inbox, reply, seen, membership, file, pc, goal, todo, done>>
    BY Zenon, <1>8 DEF RecordAttempt, routerVars, diskVars
  <2> QED BY Zenon, <2>1, SameWhole DEF Promise!abstractVars
<1>9. ASSUME FinishMove
      PROVE  WholeInv' /\ Promise!Abort
  <2>1. WholeInv' /\ \A r \in Routers : active[r].table = TableOf[r][membership]
    BY Zenon, <1>9, FinishMoveWhole
  <2>2. pc' = "idle" /\ UNCHANGED <<active, membership>>
    BY Zenon, <1>9 DEF FinishMove, Forget, routerVars, diskVars
  <2> QED BY Zenon, <2>1, <2>2 DEF Promise!Abort, Promise!ServesAll
<1>10. ASSUME NEW r \in Routers, NEW q \in inbox[r], NEW a \in Verdicts(r, q), Handle(r, q, a),
              UNCHANGED <<moveVars, diskVars, row, outcome, boundVars>>
       PROVE  WholeInv' /\ (Promise!AbstractNext \/ UNCHANGED Promise!abstractVars)
  <2>1. /\ WholeInv'
        /\ \/ active' = active
           \/ \E g \in {membership, goal} :
                active' = [active EXCEPT ![r] = Snapshot(q.version, TableOf[r][g])]
    BY Zenon, <1>10, HandleWhole
  <2>2. UNCHANGED <<membership, pc, goal>>
    BY Zenon, <1>10 DEF moveVars, diskVars
  <2>3. pc # "idle"
    BY Zenon DEF WholeInv, AskedOnce, Asked
  <2>4. CASE active' = active
    BY Zenon, <2>1, <2>2, <2>4 DEF Promise!abstractVars
  <2>5. ASSUME NEW g \in {membership, goal},
               active' = [active EXCEPT ![r] = Snapshot(q.version, TableOf[r][g])]
        PROVE  Promise!AbstractNext
    <3>1. g \in Groups /\ active \in [Routers -> Snapshots]
      BY Zenon DEF SettledInv, MoveTypeOK, RouterTypeOK
    <3>2. [s \in Routers |-> active'[s].table]
            = [[s \in Routers |-> active[s].table] EXCEPT ![r] = TableOf[r][g]]
      BY Zenon, <2>5, <3>1 DEF Snapshot
    <3>3. Promise!Switch(r, g)
      BY Zenon, <2>2, <2>3, <3>2 DEF Promise!Switch
    <3> QED BY Zenon, <3>1, <3>3 DEF Promise!AbstractNext
  <2> QED BY Zenon, <2>1, <2>4, <2>5
<1>11. ASSUME FaultStep, ~SeeCancelled PROVE FALSE
  BY Zenon, <1>1, <1>11 DEF FaultStep, Unreachable, TimedOut, UndoUnreachable, UndoTimedOut,
     SidecarRestart, WriteFails, StoreFails, Crash
<1>12. CASE \E g \in Groups : BeginMove(g) \/ RefuseMove(g)
  BY Zenon, <1>3, <1>4, <1>12 DEF Promise!AbstractNext
<1>13. CASE MoveStep
  BY Zenon, <1>5, <1>6, <1>7, <1>8, <1>9, <1>13 DEF MoveStep, Promise!AbstractNext
<1>14. CASE FaultStep
  BY Zenon, <1>6, <1>11, <1>14
<1>15. CASE RouterHandles
  BY Zenon, <1>10, <1>15 DEF RouterHandles, RouterStep
<1> QED BY Zenon, <1>12, <1>13, <1>14, <1>15 DEF Next

(* A live move is all or nothing ("a partially applied group is forbidden"): *)
(* apply_live_binding_with_admin implements MembershipMove as long as every  *)
(* answer of a router arrives, files can be written, nothing restarts and    *)
(* providers do not change between two readiness probes.  The move may be    *)
(* cancelled at any router, and providers may be down.                       *)
THEOREM MoveImplementsPromise ==
  ASSUME Faults \subseteq {"cancel"}, \A t \in Tables : Health[t] # "flaky"
  PROVE  Spec => AllOrNothing
<1>1. Spec => []SettledInv
  <2>1. "restart" \notin Faults
    BY Zenon
  <2> QED BY Zenon, <2>1, SettledInvariance
<1>2. Init => WholeInv /\ Promise!AbstractInit
  <2>1. ASSUME Init PROVE WholeInv
    BY Zenon, <2>1, InitWhole
  <2>2. ASSUME Init PROVE Promise!AbstractInit
    <3>1. /\ membership \in Groups /\ pc = "idle"
          /\ active = [r \in Routers |-> Snapshot(1, TableOf[r][membership])]
      BY Zenon, <2>2 DEF Init
    <3>2. [r \in Routers |-> active[r].table] = [r \in Routers |-> TableOf[r][membership]]
      BY Zenon, <3>1 DEF Snapshot
    <3> QED BY Zenon, <3>1, <3>2 DEF Promise!AbstractInit
  <2> QED BY Zenon, <2>1, <2>2
<1>3. SettledInv /\ WholeInv /\ [Next]_vars
        => WholeInv' /\ [Promise!AbstractNext]_(Promise!abstractVars)
  <2> SUFFICES ASSUME SettledInv, WholeInv, [Next]_vars
               PROVE  WholeInv' /\ (Promise!AbstractNext \/ UNCHANGED Promise!abstractVars)
    BY Zenon
  <2>1. CASE Next
    BY Zenon, <2>1, NextWhole
  <2>2. CASE UNCHANGED vars
    <3>1. UNCHANGED <<active, inbox, reply, seen, membership, file, pc, goal, todo, done>>
      BY Zenon, <2>2 DEF vars, routerVars, moveVars, diskVars
    <3> QED BY Zenon, <3>1, SameWhole DEF Promise!abstractVars
  <2> QED BY Zenon, <2>1, <2>2
<1> QED BY <1>1, <1>2, <1>3, PTL DEF Spec, AllOrNothing, Promise!AbstractSpec
-----------------------------------------------------------------------------
(* What the daemon knows of a router is never ahead of the router.           *)
Known == Snapshots \cup {NoSnapshot}

Behind(s, r) == s.version < active[r].version \/ s = active[r]

AttemptRecords ==
  [router : Routers, snapshot : Snapshots, status : {"active", "failed", "rolled_back"},
   observed : Known, error : BOOLEAN]

Rows == [current : Known, previous : Known, observed : Known,
         status : {"none", "active", "failed", "rolled_back"}]

(* The records that name no snapshot that the router has not reached.        *)
Truthful ==
  {a \in AttemptRecords : /\ Behind(a.observed, a.router)
                          /\ Activates(a) => Behind(a.snapshot, a.router)}

KnownInv ==
  /\ row \in [Routers -> Rows]
  /\ attempts \in Seq(Truthful)
  /\ \A r \in Routers : /\ active[r].version # 0 /\ file[r].version # 0
                         /\ Behind(seen[r], r) /\ Behind(file[r], r)
  /\ pc = "idle" => attempts = <<>> /\ seen = file
  /\ pc = "write routes" => todo \subseteq done
  /\ pc = "undo await" /\ reply = "activated" =>
       \A r \in Routers : Last(r, done) => Behind(Previous(r), r)

(* No step but a restart takes a router back.                                *)
Grows ==
  \A r \in Routers : active'[r] = active[r] \/ active'[r].version > active[r].version

LEMMA LessMore == \A x, y, z \in Nat : x < y /\ z > y => x < z
OBVIOUS

LEMMA MorePositive == \A x, y \in Nat : x > y => x # 0
OBVIOUS

LEMMA EmptySeq == \A S : <<>> \in Seq(S)
OBVIOUS

LEMMA SeqOfMore ==
  ASSUME NEW S, NEW T, S \subseteq T, NEW s \in Seq(S)
  PROVE  s \in Seq(T)
OBVIOUS

LEMMA SeqAppend ==
  ASSUME NEW S, NEW s \in Seq(S), NEW e \in S
  PROVE  Append(s, e) \in Seq(S)
OBVIOUS

LEMMA SeqHeadTail ==
  ASSUME NEW S, NEW s \in Seq(S), s # <<>>
  PROVE  Head(s) \in S /\ Tail(s) \in Seq(S)
OBVIOUS

LEMMA KnownVersion ==
  ASSUME NEW s \in Known
  PROVE  s.version \in Nat
BY DEF Known, Snapshots, NoSnapshot

LEMMA BehindStays ==
  ASSUME MoveTypeOK, MoveTypeOK', Grows, NEW r \in Routers, NEW s \in Known, Behind(s, r)
  PROVE  Behind(s, r)'
<1>1. active[r] \in Snapshots /\ active'[r] \in Snapshots
  BY Zenon DEF MoveTypeOK, RouterTypeOK
<1>2. active[r].version \in Nat /\ active'[r].version \in Nat /\ s.version \in Nat
  BY Zenon, <1>1, KnownVersion DEF Snapshots
<1>3. CASE active'[r] = active[r]
  BY Zenon, <1>3 DEF Behind
<1>4. CASE active'[r].version > active[r].version
  BY <1>2, <1>4 DEF Behind
<1> QED BY Zenon, <1>3, <1>4 DEF Grows

LEMMA TruthfulStays ==
  ASSUME MoveTypeOK, MoveTypeOK', Grows
  PROVE  Truthful \subseteq Truthful'
<1> SUFFICES ASSUME NEW a \in Truthful PROVE a \in Truthful'
  BY Zenon
<1>1. /\ a \in AttemptRecords /\ Behind(a.observed, a.router)
      /\ Activates(a) => Behind(a.snapshot, a.router)
  BY Zenon DEF Truthful
<1>2. a.router \in Routers /\ a.observed \in Known /\ a.snapshot \in Known
  BY Zenon, <1>1 DEF AttemptRecords, Known
<1>3. /\ Behind(a.observed, a.router)'
      /\ Activates(a) => Behind(a.snapshot, a.router)'
  BY Zenon, <1>1, <1>2, BehindStays
<1> QED BY Zenon, <1>1, <1>3 DEF Truthful, Activates

(* The parts of the invariant that a step may disturb, in the old state's    *)
(* terms.                                                                    *)
LEMMA KnownSteps ==
  ASSUME MoveTypeOK, MoveTypeOK', KnownInv, Grows,
         row' \in [Routers -> Rows], attempts' \in Seq(Truthful),
         \A r \in Routers : Behind(seen'[r], r) /\ Behind(file'[r], r) /\ file'[r].version # 0,
         pc' = "idle" => attempts' = <<>> /\ seen' = file',
         pc' = "undo await" /\ reply' = "activated" =>
           \A r \in Routers : Last(r, done)' => Behind(Previous(r), r)',
         pc' = "write routes" => todo' \subseteq done'
  PROVE  KnownInv'
<1>1. attempts' \in Seq(Truthful')
  BY Zenon, TruthfulStays, SeqOfMore
<1>2. ASSUME NEW r \in Routers
      PROVE  active'[r].version # 0 /\ Behind(seen[r], r)' /\ Behind(file[r], r)'
  <2>1. seen'[r] \in Known /\ file'[r] \in Known
    BY Zenon DEF MoveTypeOK, Known
  <2>2. Behind(seen[r], r)' /\ Behind(file[r], r)'
    <3>1. ASSUME NEW s \in Known, Behind(s, r)
          PROVE  s.version < active'[r].version \/ s = active'[r]
      BY Zenon, <3>1, BehindStays DEF Behind
    <3> QED BY Zenon, <2>1, <3>1 DEF Behind
  <2>3. active[r] \in Snapshots /\ active'[r] \in Snapshots /\ active[r].version # 0
    BY Zenon DEF MoveTypeOK, RouterTypeOK, KnownInv
  <2>4. active'[r].version # 0
    <3>1. active[r].version \in Nat /\ active'[r].version \in Nat
      BY Zenon, <2>3 DEF Snapshots
    <3>2. active'[r] = active[r] \/ active'[r].version > active[r].version
      BY Zenon DEF Grows
    <3> QED BY Zenon, <2>3, <3>1, <3>2, MorePositive
  <2> QED BY Zenon, <2>2, <2>4
<1> QED BY Zenon, <1>1, <1>2 DEF KnownInv

LEMMA KnownKeeps ==
  ASSUME MoveTypeOK, MoveTypeOK', KnownInv, UNCHANGED <<active, row, seen, file>>,
         attempts' \in Seq(Truthful), pc' # "idle", pc' # "undo await",
         pc' = "write routes" => todo' \subseteq done'
  PROVE  KnownInv' /\ Grows /\ row' = row
<1>1. Grows
  BY Zenon DEF Grows
<1>2. /\ row' \in [Routers -> Rows]
      /\ \A r \in Routers : Behind(seen'[r], r) /\ Behind(file'[r], r) /\ file'[r].version # 0
  BY Zenon DEF KnownInv
<1> QED BY Zenon, <1>1, <1>2, KnownSteps

LEMMA AttemptTruthful ==
  ASSUME KnownInv, NEW r \in Routers, NEW snapshot \in Snapshots,
         NEW status \in {"active", "failed", "rolled_back"},
         NEW observed \in Known, NEW error \in BOOLEAN,
         Behind(observed, r),
         status = "active" \/ (status = "rolled_back" /\ ~error) => Behind(snapshot, r)
  PROVE  Attempt(r, snapshot, status, observed, error) \in Seq(Truthful)
<1> DEFINE a == [router |-> r, snapshot |-> snapshot, status |-> status,
                 observed |-> observed, error |-> error]
<1>1. a \in AttemptRecords
  BY Zenon DEF AttemptRecords
<1>2. a \in Truthful
  BY Zenon, <1>1 DEF Truthful, Activates
<1> QED BY Zenon, <1>2, SeqAppend DEF KnownInv, Attempt

LEMMA ReachedTypes ==
  ASSUME MoveTypeOK, KnownInv, NEW r \in Routers
  PROVE  /\ Candidate(r) \in Snapshots /\ Previous(r) \in Snapshots
         /\ seen[r] \in Known /\ Behind(seen[r], r)
         /\ NoSnapshot \in Known /\ Behind(NoSnapshot, r)
         /\ Snapshot(1, TableOf[r][goal]) \in Snapshots
         /\ attempts \in Seq(Truthful) /\ <<>> \in Seq(Truthful)
<1>1. /\ seen[r] \in Snapshots /\ file[r] \in Snapshots /\ active[r] \in Snapshots
      /\ goal \in Groups
  BY Zenon DEF MoveTypeOK, RouterTypeOK
<1>2. /\ seen[r].version + 1 \in Nat /\ file[r].table \in Tables
      /\ active[r].version \in Nat /\ active[r].version # 0
  <2>1. active[r].version # 0
    BY Zenon DEF KnownInv
  <2> QED BY <1>1, <2>1 DEF Snapshots
<1>3. Candidate(r) \in Snapshots
  BY Zenon, CandidateType
<1>4. Previous(r) \in Snapshots
  BY Zenon, <1>2 DEF Previous, Snapshot, Snapshots
<1>5. Snapshot(1, TableOf[r][goal]) \in Snapshots
  <2>1. TableOf[r][goal] \in Tables
    BY Zenon, <1>1, TableType
  <2> QED BY Zenon, <2>1 DEF Snapshot, Snapshots
<1>6. Behind(NoSnapshot, r)
  BY <1>2 DEF Behind, NoSnapshot
<1>7. seen[r] \in Known /\ NoSnapshot \in Known /\ Behind(seen[r], r) /\ attempts \in Seq(Truthful)
  BY Zenon, <1>1 DEF Known, KnownInv
<1>8. <<>> \in Seq(Truthful)
  BY Zenon, EmptySeq
<1> QED BY Zenon, <1>3, <1>4, <1>5, <1>6, <1>7, <1>8

(* The steps that change neither the routers nor what is known of them, and  *)
(* at most record another attempt.                                           *)
LEMMA TrackKnown ==
  ASSUME MoveTypeOK, MoveTypeOK', KnownInv,
         \/ \E g \in Groups : BeginMove(g)
         \/ SeeCancelled \/ UndoEnds \/ WritePlan \/ Written \/ StoreFails
  PROVE  KnownInv' /\ Grows /\ row' = row
<1>1. UNCHANGED <<active, row, seen, file>> /\ attempts' \in {attempts, <<>>}
  BY Zenon DEF BeginMove, SeeCancelled, UndoEnds, WritePlan, Written, StoreFails,
     routerVars, diskVars
<1>2. pc' # "idle" /\ pc' # "undo await"
  BY Zenon DEF BeginMove, SeeCancelled, UndoEnds, WritePlan, Written, StoreFails
<1>3. attempts' \in Seq(Truthful)
  <2>1. attempts \in Seq(Truthful) /\ <<>> \in Seq(Truthful)
    BY Zenon, EmptySeq DEF KnownInv
  <2> QED BY Zenon, <1>1, <2>1
<1>4. pc' = "write routes" => todo' \subseteq done'
  BY Zenon DEF BeginMove, SeeCancelled, UndoEnds, WritePlan, Written, StoreFails
<1> QED BY Zenon, <1>1, <1>2, <1>3, <1>4, KnownKeeps

LEMMA UnreachableKnown ==
  ASSUME MoveTypeOK, MoveTypeOK', KnownInv, NEW r \in Routers, Unreachable(r)
  PROVE  KnownInv' /\ Grows /\ row' = row
<1>1. /\ UNCHANGED <<active, row, seen, file>> /\ pc' = "undo"
      /\ attempts' = Attempt(r, Snapshot(1, TableOf[r][goal]), "failed", NoSnapshot, TRUE)
  BY Zenon DEF Unreachable, routerVars, diskVars
<1>2. attempts' \in Seq(Truthful)
  BY Zenon, <1>1, ReachedTypes, AttemptTruthful
<1> QED BY Zenon, <1>1, <1>2, KnownKeeps

(* The acknowledged candidate is what the router serves.                     *)
LEMMA AcknowledgedKnown ==
  ASSUME SettledInv, MoveTypeOK, MoveTypeOK', KnownInv, NEW r \in Routers, Acknowledged(r)
  PROVE  KnownInv' /\ Grows /\ row' = row
<1>1. /\ UNCHANGED <<active, row, seen, file>> /\ pc' \in {"write host", "next"}
      /\ attempts' = Attempt(r, Candidate(r), "active", seen[r], FALSE)
  BY Zenon DEF Acknowledged, diskVars
<1>2. Behind(Candidate(r), r)
  BY Zenon DEF SettledInv, DoneOK, Settled, Acknowledged, Behind
<1>3. attempts' \in Seq(Truthful)
  BY Zenon, <1>1, <1>2, ReachedTypes, AttemptTruthful
<1> QED BY Zenon, <1>1, <1>3, KnownKeeps

LEMMA RefusedKnown ==
  ASSUME MoveTypeOK, MoveTypeOK', KnownInv, NEW r \in Routers,
         Refused(r) \/ TimedOut(r) \/ UndoUnreachable(r)
  PROVE  KnownInv' /\ Grows /\ row' = row
<1>1. /\ UNCHANGED <<active, row, seen, file>> /\ pc' = "undo"
      /\ \E status \in {"failed", "rolled_back"} :
           attempts' = Attempt(r, Candidate(r), status, seen[r], TRUE)
  BY Zenon DEF Refused, TimedOut, UndoUnreachable, routerVars, diskVars
<1>2. attempts' \in Seq(Truthful)
  <2>1. PICK status \in {"failed", "rolled_back"} :
          attempts' = Attempt(r, Candidate(r), status, seen[r], TRUE)
    BY Zenon, <1>1
  <2> QED BY Zenon, <2>1, ReachedTypes, AttemptTruthful
<1> QED BY Zenon, <1>1, <1>2, KnownKeeps

LEMMA UndoneKnown ==
  ASSUME MoveTypeOK, MoveTypeOK', KnownInv, NEW r \in Routers,
         UndoAnswered(r) \/ UndoTimedOut(r)
  PROVE  KnownInv' /\ Grows /\ row' = row
<1>1. UNCHANGED <<active, row, seen, file>> /\ pc' = "undo"
  BY Zenon DEF UndoAnswered, UndoTimedOut, diskVars
<1>2. \E status \in {"failed", "rolled_back"}, error \in BOOLEAN :
        /\ attempts' = Attempt(r, Previous(r), status, seen[r], error)
        /\ ~error => Behind(Previous(r), r)
  <2>1. CASE UndoAnswered(r) /\ reply = "activated"
    <3>1. Behind(Previous(r), r)
      BY Zenon, <2>1 DEF UndoAnswered, KnownInv
    <3>2. attempts' = Attempt(r, Previous(r), "rolled_back", seen[r], FALSE)
      BY Zenon, <2>1 DEF UndoAnswered, rollback_attempt
    <3> QED BY Zenon, <3>1, <3>2
  <2>2. CASE UndoAnswered(r) /\ reply # "activated"
    <3>1. attempts' = Attempt(r, Previous(r), "failed", seen[r], TRUE)
      BY Zenon, <2>2 DEF UndoAnswered, rollback_attempt
    <3> QED BY Zenon, <3>1
  <2>3. CASE UndoTimedOut(r)
    <3>1. attempts' = Attempt(r, Previous(r), "failed", seen[r], TRUE)
      BY Zenon, <2>3 DEF UndoTimedOut, rollback_attempt
    <3> QED BY Zenon, <3>1
  <2> QED BY Zenon, <2>1, <2>2, <2>3
<1>3. attempts' \in Seq(Truthful)
  <2>1. PICK status \in {"failed", "rolled_back"}, error \in BOOLEAN :
          /\ attempts' = Attempt(r, Previous(r), status, seen[r], error)
          /\ ~error => Behind(Previous(r), r)
    BY Zenon, <1>2
  <2> QED BY Zenon, <2>1, ReachedTypes, AttemptTruthful
<1> QED BY Zenon, <1>1, <1>3, KnownKeeps

LEMMA ApplyKnown ==
  ASSUME MoveTypeOK, MoveTypeOK', KnownInv, NEW r \in Routers, Apply(r) \/ UndoApply(r)
  PROVE  KnownInv' /\ Grows /\ row' = row
<1>1. /\ UNCHANGED <<active, row, file, attempts>> /\ pc' \in {"await", "undo await"} /\ reply' = "none"
      /\ seen' = [seen EXCEPT ![r] = active[r]]
  BY Zenon DEF Apply, UndoApply, Submit, diskVars
<1>2. Grows
  BY Zenon, <1>1 DEF Grows
<1>3. \A s \in Routers : Behind(seen'[s], s) /\ Behind(file'[s], s) /\ file'[s].version # 0
  <2>1. seen \in [Routers -> Snapshots]
    BY Zenon DEF MoveTypeOK
  <2>2. \A s \in Routers : seen'[s] \in {seen[s], active[s]}
    BY Zenon, <1>1, <2>1
  <2> QED BY Zenon, <1>1, <2>2 DEF KnownInv, Behind
<1>4. row' \in [Routers -> Rows] /\ attempts' \in Seq(Truthful)
  BY Zenon, <1>1 DEF KnownInv
<1>5. pc' # "idle" /\ pc' # "write routes" /\ reply' # "activated"
  BY Zenon, <1>1
<1> QED BY Zenon, <1>1, <1>2, <1>3, <1>4, <1>5, KnownSteps

(* A file is written with the candidate that its router serves.              *)
LEMMA WriteKnown ==
  ASSUME SettledInv, MoveTypeOK, MoveTypeOK', KnownInv,
         WriteHost \/ \E r \in Routers : WriteRoute(r)
  PROVE  KnownInv' /\ Grows /\ row' = row
<1>1. file \in [Routers -> Snapshots] /\ done \subseteq Routers
  BY Zenon DEF MoveTypeOK
<1>2. /\ UNCHANGED <<active, row, seen, attempts, done>> /\ pc \in Forward
      /\ pc' \in {"write plan", "write routes"} /\ (pc' = "write routes" => todo' \subseteq done')
      /\ \E r : /\ \A s \in Routers : s # r => file'[s] = file[s]
                /\ r \in Routers => file'[r] = file[r] \/ (file'[r] = Candidate(r) /\ r \in done)
  <2>1. CASE WriteHost
    <3>1. /\ UNCHANGED <<active, row, seen, attempts, done>> /\ pc = "write host" /\ pc' = "write plan"
          /\ file' = IF Host \in done THEN [file EXCEPT ![Host] = Candidate(Host)] ELSE file
      BY Zenon, <2>1 DEF WriteHost, routerVars
    <3>2. /\ \A s \in Routers : s # Host => file'[s] = file[s]
          /\ Host \in Routers => file'[Host] = file[Host] \/ (file'[Host] = Candidate(Host) /\ Host \in done)
      BY Zenon, <1>1, <3>1
    <3> QED BY Zenon, <3>1, <3>2 DEF Forward
  <2>2. ASSUME NEW r \in Routers, WriteRoute(r)
        PROVE  <1>2
    <3>1. /\ UNCHANGED <<active, row, seen, attempts, done>> /\ pc = "write routes" /\ pc' = pc
          /\ r \in todo /\ todo' = todo \ {r} /\ file' = [file EXCEPT ![r] = Candidate(r)]
      BY Zenon, <2>2 DEF WriteRoute, First, routerVars
    <3>2. todo \subseteq done
      BY Zenon, <3>1 DEF KnownInv
    <3>3. /\ \A s \in Routers : s # r => file'[s] = file[s]
          /\ file'[r] = Candidate(r) /\ r \in done
      BY Zenon, <1>1, <3>1, <3>2
    <3> QED BY Zenon, <3>1, <3>2, <3>3 DEF Forward
  <2> QED BY Zenon, <2>1, <2>2
<1>3. \A s \in Routers : Behind(file'[s], s) /\ file'[s].version # 0
  <2>1. \A s \in done : Candidate(s) = active[s]
    BY Zenon, <1>2 DEF SettledInv, DoneOK, Settled
  <2>2. \A s \in Routers : file'[s] = file[s] \/ file'[s] = active[s]
    BY Zenon, <1>2, <2>1
  <2> QED BY Zenon, <2>2 DEF KnownInv, Behind
<1>4. Grows /\ row' \in [Routers -> Rows] /\ attempts' \in Seq(Truthful)
      /\ \A s \in Routers : Behind(seen'[s], s)
  BY Zenon, <1>2 DEF Grows, KnownInv
<1>5. pc' # "idle" /\ pc' # "undo await"
  BY Zenon, <1>2
<1> QED BY Zenon, <1>2, <1>3, <1>4, <1>5, KnownSteps

(* The locals of the move are gone.                                          *)
LEMMA ForgetKnown ==
  ASSUME MoveTypeOK, MoveTypeOK', KnownInv, WriteFails \/ FinishMove \/ Crash
  PROVE  KnownInv' /\ Grows /\ row' = row
<1>1. /\ UNCHANGED <<active, row, file>> /\ pc' = "idle" /\ seen' = file
      /\ attempts' = <<>>
  BY Zenon DEF WriteFails, FinishMove, Crash, Forget, routerVars, diskVars
<1>2. Grows /\ row' \in [Routers -> Rows] /\ attempts' \in Seq(Truthful)
      /\ \A s \in Routers : Behind(seen'[s], s) /\ Behind(file'[s], s) /\ file'[s].version # 0
  BY Zenon, <1>1, EmptySeq DEF Grows, KnownInv
<1>3. seen' = file' /\ pc' # "undo await" /\ pc' # "write routes"
  BY Zenon, <1>1
<1> QED BY Zenon, <1>1, <1>2, <1>3, KnownSteps

LEMMA RefuseMoveKnown ==
  ASSUME MoveTypeOK, MoveTypeOK', KnownInv,
         (\E g \in Groups : RefuseMove(g)) \/ UNCHANGED vars
  PROVE  KnownInv' /\ Grows /\ row' = row
<1>1. UNCHANGED <<active, reply, row, file, seen, attempts, pc, done, todo>>
  BY Zenon DEF RefuseMove, vars, routerVars, moveVars, diskVars
<1>2. Truthful' = Truthful /\ Grows
  BY Zenon, <1>1 DEF Truthful, Behind, Grows
<1>3. \A r \in Routers : /\ Behind(seen[r], r)' <=> Behind(seen[r], r)
                         /\ Behind(file[r], r)' <=> Behind(file[r], r)
                         /\ Behind(Previous(r), r)' <=> Behind(Previous(r), r)
                         /\ Last(r, done)' <=> Last(r, done)
  BY Zenon, <1>1 DEF Behind, Previous, Last
<1> QED BY Zenon, <1>1, <1>2, <1>3 DEF KnownInv

(* record_router_apply stores a snapshot that the router has reached, or     *)
(* keeps what the row had.                                                   *)
LEMMA RecordKnown ==
  ASSUME MoveTypeOK, MoveTypeOK', KnownInv, RecordAttempt
  PROVE  /\ KnownInv' /\ Grows /\ active' = active
         /\ \A r \in Routers : row'[r].current = row[r].current \/ Behind(row'[r].current, r)
<1> DEFINE a == Head(attempts)
<1>1. /\ UNCHANGED <<active, reply, seen, file, pc, todo, done>>
      /\ row' = [row EXCEPT ![a.router] = Recorded(row[a.router], a)]
      /\ pc = "record" /\ attempts # <<>> /\ attempts' = Tail(attempts)
  BY Zenon DEF RecordAttempt, routerVars, diskVars
<1>2. a \in Truthful /\ attempts' \in Seq(Truthful)
  <2>1. attempts \in Seq(Truthful)
    BY Zenon DEF KnownInv
  <2> QED BY Zenon, <1>1, <2>1, SeqHeadTail
<1> HIDE DEF a
<1>3. /\ a \in AttemptRecords /\ Behind(a.observed, a.router)
      /\ Activates(a) => Behind(a.snapshot, a.router)
  BY Zenon, <1>2 DEF Truthful
<1>4. /\ a.router \in Routers /\ a.observed \in Known /\ a.snapshot \in Known
      /\ a.status \in {"none", "active", "failed", "rolled_back"}
  BY Zenon, <1>3 DEF AttemptRecords, Known
<1>5. /\ row \in [Routers -> Rows] /\ row[a.router] \in Rows
      /\ row[a.router].current \in Known /\ row[a.router].previous \in Known
  <2>1. row \in [Routers -> Rows] /\ row[a.router] \in Rows
    BY Zenon, <1>4 DEF KnownInv
  <2> QED BY Zenon, <2>1 DEF Rows
<1>6. PICK current, previous, observed \in Known :
        /\ Recorded(row[a.router], a) = [current |-> current, previous |-> previous,
                                         observed |-> observed, status |-> a.status]
        /\ current \in {row[a.router].current, a.observed} \/ (Activates(a) /\ current = a.snapshot)
  <2> DEFINE c == row[a.router].current
             p == row[a.router].previous
  <2> HIDE DEF c, p
  <2>1. Or(c, a.observed) \in Known /\ Or(c, a.observed) \in {c, a.observed}
    BY Zenon, <1>4, <1>5 DEF Or, c
  <2>2. CASE Activates(a)
    <3>1. Recorded(row[a.router], a) =
            [current |-> a.snapshot, previous |-> Or(c, a.observed), observed |-> a.snapshot,
             status |-> a.status]
      BY Zenon, <2>2 DEF Recorded, c
    <3> QED BY Zenon, <1>4, <2>1, <2>2, <3>1
  <2>3. CASE ~Activates(a)
    <3>1. Recorded(row[a.router], a) =
            [current |-> Or(c, a.observed), previous |-> p,
             observed |-> Or(a.observed, Or(c, a.observed)), status |-> a.status]
      BY Zenon, <2>3 DEF Recorded, c, p
    <3>2. Or(a.observed, Or(c, a.observed)) \in Known
      BY Zenon, <1>4, <2>1 DEF Or
    <3>3. p \in Known
      BY Zenon, <1>5 DEF p
    <3> QED BY Zenon, <2>1, <3>1, <3>2, <3>3 DEF c
  <2> QED BY Zenon, <2>2, <2>3
<1>7. row' \in [Routers -> Rows]
  <2>1. Recorded(row[a.router], a) \in Rows
    BY SMTT(30), <1>4, <1>6 DEF Rows
  <2> QED BY Zenon, <1>1, <1>5, <2>1
<1>8. ASSUME NEW r \in Routers
      PROVE  row'[r].current = row[r].current \/ Behind(row'[r].current, r)
  <2>1. CASE r # a.router
    BY Zenon, <1>1, <1>5, <2>1
  <2>2. CASE r = a.router
    <3>1. row'[r].current = current
      <4>1. row'[r] = Recorded(row[a.router], a)
        BY Zenon, <1>1, <1>4, <1>5, <2>2
      <4>2. Recorded(row[a.router], a).current = current
        BY SMTT(30), <1>6
      <4> QED BY Zenon, <4>1, <4>2
    <3> QED BY Zenon, <1>3, <1>6, <2>2, <3>1
  <2> QED BY Zenon, <2>1, <2>2
<1>9. Grows /\ \A r \in Routers : Behind(seen'[r], r) /\ Behind(file'[r], r) /\ file'[r].version # 0
  BY Zenon, <1>1 DEF Grows, KnownInv
<1>10. pc' # "idle" /\ pc' # "undo await" /\ pc' # "write routes"
  BY Zenon, <1>1
<1>11. KnownInv'
  BY Zenon, <1>2, <1>7, <1>9, <1>10, KnownSteps
<1> QED BY Zenon, <1>1, <1>8, <1>9, <1>11

(* A router that activates a request moves forward, in an undo to the table  *)
(* that the undo will record.                                                *)
LEMMA HandleKnown ==
  ASSUME SettledInv, MoveTypeOK, MoveTypeOK', KnownInv,
         NEW r \in Routers, NEW q \in inbox[r], NEW a \in Verdicts(r, q), Handle(r, q, a),
         UNCHANGED <<moveVars, diskVars, row, outcome, boundVars>>
  PROVE  KnownInv' /\ Grows /\ row' = row
<1>1. /\ reply' = IF q.live THEN a ELSE reply
      /\ active' = IF a = "activated" THEN [active EXCEPT ![r] = Snapshot(q.version, q.table)]
                   ELSE active
      /\ UNCHANGED <<row, seen, file, attempts, pc, goal, todo, done>>
  BY Zenon DEF Handle, moveVars, diskVars
<1>2. /\ active \in [Routers -> Snapshots] /\ inbox \in [Routers -> SUBSET Requests]
      /\ done \in SUBSET Routers
  BY Zenon DEF MoveTypeOK, RouterTypeOK
<1>3. a = "activated" => Newer(r, q)
  BY Zenon DEF Verdicts
<1>4. Grows
  <2>1. CASE a = "activated"
    <3>1. active'[r].version > active[r].version
      <4>1. active'[r] = Snapshot(q.version, q.table)
        BY Zenon, <1>1, <1>2, <2>1
      <4>2. active'[r].version = q.version
        BY <4>1 DEF Snapshot
      <4> QED BY Zenon, <1>3, <2>1, <4>2 DEF Newer
    <3>2. \A s \in Routers : s # r => active'[s] = active[s]
      BY Zenon, <1>1, <1>2
    <3> QED BY Zenon, <3>1, <3>2 DEF Grows
  <2>2. CASE a # "activated"
    BY Zenon, <1>1, <2>2 DEF Grows
  <2> QED BY Zenon, <2>1, <2>2
<1>5. ASSUME pc' = "undo await", reply' = "activated", NEW s \in Routers, Last(s, done)'
      PROVE  Behind(Previous(s), s)'
  <2>1. Last(s, done) /\ Previous(s)' = Previous(s) /\ pc = "undo await"
    BY Zenon, <1>1, <1>5 DEF Last, Previous
  <2>2. CASE q.live
    <3>1. LiveRequest(r, q)
      BY Zenon, <2>2 DEF SettledInv, RequestsOK
    <3>2. Last(r, done) /\ q.version = seen[r].version + 1 /\ q.table = file[r].table
      BY Zenon, <2>1, <3>1 DEF LiveRequest
    <3>3. s = r
      BY Zenon, <1>2, <2>1, <3>2, LastUnique
    <3>4. a = "activated"
      BY Zenon, <1>1, <1>5, <2>2
    <3>5. active'[r] = Snapshot(q.version, q.table)
      BY Zenon, <1>1, <1>2, <3>4
    <3>6. Previous(r) = Snapshot(q.version, q.table)
      BY Zenon, <3>2 DEF Previous
    <3> QED BY Zenon, <2>1, <3>3, <3>5, <3>6 DEF Behind
  <2>3. CASE ~q.live
    <3>1. Behind(Previous(s), s)
      BY Zenon, <1>1, <1>5, <2>1, <2>3 DEF KnownInv
    <3>2. Previous(s) \in Known
      BY Zenon, ReachedTypes DEF Known
    <3>3. ASSUME NEW k \in Known, Behind(k, s)
          PROVE  k.version < active'[s].version \/ k = active'[s]
      BY Zenon, <1>4, <3>3, BehindStays DEF Behind
    <3> QED BY Zenon, <2>1, <3>1, <3>2, <3>3 DEF Behind
  <2> QED BY Zenon, <2>2, <2>3
<1>6. /\ row' \in [Routers -> Rows] /\ attempts' \in Seq(Truthful)
      /\ \A s \in Routers : Behind(seen'[s], s) /\ Behind(file'[s], s) /\ file'[s].version # 0
      /\ pc' = "idle" => attempts' = <<>> /\ seen' = file'
      /\ pc' = "write routes" => todo' \subseteq done'
  BY Zenon, <1>1 DEF KnownInv
<1>7. KnownInv'
  BY Zenon, <1>4, <1>5, <1>6, KnownSteps
<1> QED BY Zenon, <1>1, <1>4, <1>7

(* Between two moves a sidecar starts again on its file, which is what it    *)
(* served or something older.                                                *)
LEMMA RestartKnown ==
  ASSUME MoveTypeOK, MoveTypeOK', KnownInv, "restart" \notin Faults, NEW r \in Routers,
         SidecarRestart(r)
  PROVE  /\ KnownInv' /\ row' = row
         /\ \A s \in Routers : active'[s] = active[s] \/ active'[s].version < active[s].version
<1>1. /\ pc = "idle" /\ active' = [active EXCEPT ![r] = file[r]]
      /\ UNCHANGED <<row, seen, file, attempts, pc, todo, done>>
  BY Zenon DEF SidecarRestart, RouterRestart, Fault, moveVars, diskVars
<1>2. /\ active \in [Routers -> Snapshots] /\ attempts = <<>> /\ seen = file
      /\ \A s \in Routers : file[s].version # 0 /\ Behind(file[s], s) /\ active[s].version # 0
      /\ row \in [Routers -> Rows]
  BY Zenon, <1>1 DEF MoveTypeOK, RouterTypeOK, KnownInv
<1>3. \A s \in Routers : active'[s] = IF s = r THEN file[r] ELSE active[s]
  BY Zenon, <1>1, <1>2
<1>4. \A s \in Routers : active'[s].version # 0 /\ Behind(file[s], s)'
  BY Zenon, <1>1, <1>2, <1>3 DEF Behind
<1>5. attempts' \in Seq(Truthful')
  BY Zenon, <1>1, <1>2, EmptySeq
<1>6. KnownInv'
  <2>1. \A s \in Routers : Behind(seen[s], s)' <=> Behind(file[s], s)'
    BY Zenon, <1>1, <1>2 DEF Behind
  <2>2. pc' # "undo await" /\ pc' # "write routes"
    BY Zenon, <1>1
  <2> QED BY Zenon, <1>1, <1>2, <1>4, <1>5, <2>1, <2>2 DEF KnownInv
<1>7. \A s \in Routers : active'[s] = active[s] \/ active'[s].version < active[s].version
  BY Zenon, <1>2, <1>3 DEF Behind
<1> QED BY Zenon, <1>1, <1>6, <1>7

LEMMA InitKnown ==
  ASSUME Init
  PROVE  KnownInv
<1>1. /\ active = [r \in Routers |-> Snapshot(1, TableOf[r][membership])]
      /\ file = active /\ seen = active /\ pc = "idle" /\ attempts = <<>>
      /\ row = [r \in Routers |-> NoRow]
  BY Zenon DEF Init
<1>2. \A r \in Routers : active[r].version = 1
  BY Zenon, <1>1 DEF Snapshot
<1>3. NoRow \in Rows
  BY Zenon DEF NoRow, Rows, Known
<1>4. row \in [Routers -> Rows]
  BY Zenon, <1>1, <1>3
<1>5. \A r \in Routers : active[r].version # 0
  <2>1. 1 # 0
    OBVIOUS
  <2> QED BY Zenon, <1>2, <2>1
<1> QED BY Zenon, <1>1, <1>4, <1>5, EmptySeq DEF KnownInv, Behind

(* A step that takes no router back, or only takes it back, or stores a      *)
(* snapshot that the router has reached, does not put a row ahead.           *)
LEMMA NotAhead ==
  ASSUME MoveTypeOK, MoveTypeOK', KnownInv, KnownInv', NEW r \in Routers,
         \/ row'[r].current = row[r].current \/ Behind(row'[r].current, r),
         \/ active'[r] = active[r]
         \/ row' = row /\ (active'[r].version > active[r].version \/ active'[r].version < active[r].version)
  PROVE  Ahead(r)' => Ahead(r) \/ active'[r].version < active[r].version
<1> DEFINE c == row[r].current
           d == row'[r].current
<1>1. /\ c \in Known /\ d \in Known /\ active[r] \in Snapshots /\ active'[r] \in Snapshots
  <2>1. row[r] \in Rows /\ row'[r] \in Rows
    BY Zenon DEF KnownInv
  <2>2. active[r] \in Snapshots /\ active'[r] \in Snapshots
    BY Zenon DEF MoveTypeOK, RouterTypeOK
  <2> QED BY Zenon, <2>1, <2>2 DEF Rows
<1>2. /\ c.version \in Nat /\ d.version \in Nat
      /\ active[r].version \in Nat /\ active'[r].version \in Nat
  <2>1. c.version \in Nat /\ d.version \in Nat
    BY Zenon, <1>1, KnownVersion
  <2>2. active[r].version \in Nat /\ active'[r].version \in Nat
    BY Zenon, <1>1 DEF Snapshots
  <2> QED BY Zenon, <2>1, <2>2
<1>3. (Ahead(r) <=> c.version >= active[r].version /\ c # active[r])
      /\ (Ahead(r)' <=> d.version >= active'[r].version /\ d # active'[r])
  BY Zenon DEF Ahead
<1>4. Behind(d, r) <=> d.version < active[r].version \/ d = active[r]
  BY Zenon DEF Behind
<1>5. \A x, y, z \in Nat : ~(x < y /\ x >= y) /\ (z > y /\ x >= z => x >= y /\ x # y)
  OBVIOUS
<1>6. CASE active'[r] = active[r]
  BY Zenon, <1>2, <1>3, <1>4, <1>5, <1>6
<1>7. CASE row' = row /\ active'[r].version > active[r].version
  <2>1. d = c
    BY Zenon, <1>7
  <2> QED BY Zenon, <1>2, <1>3, <1>5, <1>7, <2>1
<1>8. CASE active'[r].version < active[r].version
  BY Zenon, <1>8
<1> QED BY Zenon, <1>6, <1>7, <1>8

LEMMA NextKnown ==
  ASSUME SettledInv, SettledInv', KnownInv, "restart" \notin Faults, [Next]_vars
  PROVE  /\ KnownInv'
         /\ \A r \in Routers : Ahead(r)' => Ahead(r) \/ active'[r].version < active[r].version
<1>1. MoveTypeOK /\ MoveTypeOK'
  BY Zenon DEF SettledInv
<1>2. ASSUME KnownInv', Grows, row' = row
      PROVE  \A r \in Routers : Ahead(r)' => Ahead(r) \/ active'[r].version < active[r].version
  BY Zenon, <1>1, <1>2, NotAhead DEF Grows
<1>3. CASE \/ \E g \in Groups : BeginMove(g)
           \/ SeeCancelled \/ UndoEnds \/ WritePlan \/ Written \/ StoreFails
  BY Zenon, <1>1, <1>2, <1>3, TrackKnown
<1>4. CASE (\E g \in Groups : RefuseMove(g)) \/ UNCHANGED vars
  BY Zenon, <1>1, <1>2, <1>4, RefuseMoveKnown
<1>5. ASSUME NEW r \in Routers,
             \/ Unreachable(r) \/ Acknowledged(r) \/ Refused(r) \/ TimedOut(r) \/ UndoUnreachable(r)
             \/ UndoAnswered(r) \/ UndoTimedOut(r) \/ Apply(r) \/ UndoApply(r)
      PROVE  KnownInv' /\ Grows /\ row' = row
  BY Zenon, <1>1, <1>5, UnreachableKnown, AcknowledgedKnown, RefusedKnown, UndoneKnown, ApplyKnown
<1>6. CASE WriteHost \/ \E r \in Routers : WriteRoute(r)
  BY Zenon, <1>1, <1>2, <1>6, WriteKnown
<1>7. CASE WriteFails \/ FinishMove \/ Crash
  BY Zenon, <1>1, <1>2, <1>7, ForgetKnown
<1>8. CASE RecordAttempt
  <2>1. /\ KnownInv' /\ active' = active
        /\ \A r \in Routers : row'[r].current = row[r].current \/ Behind(row'[r].current, r)
    BY Zenon, <1>1, <1>8, RecordKnown
  <2> QED BY Zenon, <1>1, <2>1, NotAhead
<1>9. CASE \E r \in Routers : SidecarRestart(r)
  <2>1. /\ KnownInv' /\ row' = row
        /\ \A s \in Routers : active'[s] = active[s] \/ active'[s].version < active[s].version
    BY Zenon, <1>1, <1>9, RestartKnown
  <2> QED BY Zenon, <1>1, <2>1, NotAhead
<1>10. CASE RouterHandles
  <2>1. KnownInv' /\ Grows /\ row' = row
    BY Zenon, <1>1, <1>10, HandleKnown DEF RouterHandles, RouterStep
  <2> QED BY Zenon, <1>2, <2>1
<1>11. CASE MoveStep
  BY Zenon, <1>2, <1>3, <1>5, <1>6, <1>7, <1>8, <1>11 DEF MoveStep
<1>12. CASE FaultStep
  BY Zenon, <1>2, <1>3, <1>5, <1>7, <1>9, <1>12 DEF FaultStep
<1> QED BY Zenon, <1>3, <1>4, <1>10, <1>11, <1>12 DEF Next

(* The store never comes to name a version that the router has not reached,  *)
(* or other routes under the same version, except by a restart that takes    *)
(* the router back: record_router_apply after any lost answer, unreachable   *)
(* router, failed write, refused record or crash.                            *)
THEOREM RowsStayBehind ==
  ASSUME "restart" \notin Faults
  PROVE  Spec => RowNotAhead
<1>1. Spec => []SettledInv
  BY Zenon, SettledInvariance
<1>2. Init => KnownInv
  BY Zenon, InitKnown
<1>3. SettledInv /\ SettledInv' /\ KnownInv /\ [Next]_vars => KnownInv' /\
        [\A r \in Routers : Ahead(r)' => Ahead(r) \/ active'[r].version < active[r].version]_vars
  BY Zenon, NextKnown
<1> QED BY <1>1, <1>2, <1>3, PTL DEF Spec, RowNotAhead
=============================================================================

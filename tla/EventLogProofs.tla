--------------------------- MODULE EventLogProofs ---------------------------
(***************************************************************************)
(* No stream skips an event, for every number of streams, lines and lost   *)
(* connections and every capacity of the log.                              *)
(***************************************************************************)
EXTENDS EventLog, WellFoundedInduction, TLAPS

(* Sequences: what an append, a head and a tail are.                        *)
LEMMA Appended ==
  ASSUME NEW S, NEW s \in Seq(S), NEW e \in S
  PROVE  /\ Append(s, e) \in Seq(S) /\ Append(s, e) # <<>>
         /\ Len(Append(s, e)) = Len(s) + 1
         /\ \A i \in 1..Len(s) : Append(s, e)[i] = s[i]
         /\ Append(s, e)[Len(s) + 1] = e
OBVIOUS

LEMMA HeadAndTail ==
  ASSUME NEW S, NEW s \in Seq(S), s # <<>>
  PROVE  /\ Head(s) = s[1] /\ Head(s) \in S /\ Tail(s) \in Seq(S)
         /\ Len(Tail(s)) = Len(s) - 1
         /\ \A i \in 1..Len(Tail(s)) : Tail(s)[i] = s[i + 1]
OBVIOUS

Stages == {"queued", "working", "ending", "finishing", "over"}

EventTypeOK ==
  /\ events \in Seq(Nat) /\ nextId \in Nat /\ late \in SUBSET Nat /\ last \in Nat
  /\ stage \in Stages
  /\ output \in [Outputs -> {"none", "open", "eof", "failed"}]
  /\ hand \in [Writers -> Nat]
  /\ owes \in SUBSET Writers
  /\ at \in [Streams -> Open \cup {"off", "closed"}]
  /\ cursor \in [Streams -> Nat]
  /\ sent \in [Streams -> SUBSET Nat]

(* What writers hold are ids of their own that are not in the log; the log, *)
(* the late ids, the cursors and the clients have pushed ids only.          *)
IdsInv ==
  /\ \A w \in Writers : hand[w] < nextId
  /\ \A v, w \in Writers : hand[v] = hand[w] /\ hand[w] # 0 => v = w
  /\ \A i \in 1..Len(events) : events[i] \in Pushed
  /\ late \subseteq Pushed
  /\ \A s \in Streams : cursor[s] \in Pushed \cup {0} /\ sent[s] \subseteq Pushed

(* An event behind one with a higher id was pushed late.                    *)
OrderInv ==
  \A i, k \in 1..Len(events) : i < k => events[i] < events[k] \/ events[k] \in late

(* A stream is not past an event that its client has not processed.         *)
CompleteInv ==
  \A s \in Streams :
    /\ \A id \in sent[s] : id <= cursor[s]
    /\ \A i \in 1..Len(events) : events[i] <= cursor[s] => events[i] \in sent[s] \cup late

(* The readers of a child begin together, and emit only while they read;    *)
(* when none failed they are over before the operation's task ends, which   *)
(* takes one more id and no other after it.                                 *)
NoneFailed == ~unwaited /\ \A w \in Outputs : output[w] # "failed"

LastInv ==
  /\ \A w \in owes : hand[w] = 0
  /\ \A v, w \in Outputs : output[v] = "none" => output[w] = "none"
  /\ \A w \in Outputs : output[w] # "open" => hand[w] = 0
  /\ stage = "queued" => \A w \in Outputs : output[w] = "none"
  /\ stage \in {"ending", "finishing", "over"} /\ NoneFailed =>
       \A w \in Outputs : output[w] # "open"
  /\ stage \in {"finishing", "over"} => hand["task"] = 0
  /\ last # 0 => \/ stage \in {"finishing", "over"}
                 \/ stage = "ending" /\ "task" \in owes /\ hand["task"] = 0
  /\ stage = "ending" /\ NoneFailed /\ hand["task"] # 0 => hand["task"] = nextId - 1
  /\ last # 0 /\ NoneFailed => last = nextId - 1 /\ last \notin late

EventInv == EventTypeOK /\ IdsInv /\ OrderInv /\ CompleteInv /\ LastInv

-----------------------------------------------------------------------------
(* The log after a push: perhaps without its oldest event, then the new one.*)
LEMMA PushedEvents ==
  ASSUME EventTypeOK, NEW w \in Writers, Push(w)
  PROVE  \E c \in {0, 1} :
           /\ Len(events') = Len(events) + 1 - c
           /\ events'[Len(events')] = hand[w]
           /\ \A k \in 1..(Len(events') - 1) :
                k + c \in 1..Len(events) /\ events'[k] = events[k + c]
<1>1. events \in Seq(Nat) /\ hand[w] \in Nat /\ Len(events) \in Nat
  BY DEF EventTypeOK
<1>2. Capacity \in Nat \ {0}
  BY Zenon, EventAssumption
<1>3. CASE Len(events) = Capacity
  <2>1. events # <<>>
    BY Zenon, <1>1, <1>2, <1>3
  <2>2. /\ Tail(events) \in Seq(Nat) /\ Len(Tail(events)) = Len(events) - 1
        /\ \A i \in 1..Len(Tail(events)) : Tail(events)[i] = events[i + 1]
    BY ONLY Zenon, <1>1, <2>1, HeadAndTail
  <2>3. events' = Append(Tail(events), hand[w])
    BY Zenon, <1>3 DEF Push, MakeRoom
  <2>4. /\ Len(events') = Len(Tail(events)) + 1
        /\ \A i \in 1..Len(Tail(events)) : events'[i] = Tail(events)[i]
        /\ events'[Len(Tail(events)) + 1] = hand[w]
    BY ONLY <1>1, <2>2, <2>3, Appended
  <2>5. \A k \in 1..(Len(events') - 1) :
          k + 1 \in 1..Len(events) /\ events'[k] = events[k + 1]
    BY <1>1, <2>2, <2>4
  <2>6. Len(events') = Len(events) + 1 - 1 /\ events'[Len(events')] = hand[w]
    BY <1>1, <2>2, <2>4
  <2> QED BY Zenon, <2>5, <2>6
<1>4. CASE Len(events) # Capacity
  <2>1. events' = Append(events, hand[w])
    BY Zenon, <1>4 DEF Push, MakeRoom
  <2>2. /\ Len(events') = Len(events) + 1
        /\ \A i \in 1..Len(events) : events'[i] = events[i]
        /\ events'[Len(events) + 1] = hand[w]
    BY ONLY <1>1, <2>1, Appended
  <2> QED BY <1>1, <2>2
<1> QED BY Zenon, <1>3, <1>4

(* next_after finds the first event with a higher id, or there is none.     *)
LEMMA FirstAfterIsFirst ==
  ASSUME EventTypeOK, NEW id \in Nat
  PROVE  LET i == FirstAfter(id) IN
         \/ i = 0 /\ \A k \in 1..Len(events) : events[k] <= id
         \/ /\ i \in 1..Len(events) /\ events[i] > id
            /\ \A k \in 1..Len(events) : events[k] > id => i <= k
<1> DEFINE I == {i \in 1..Len(events) : events[i] > id}
           first == CHOOSE i \in I : \A j \in I : i <= j
<1>0. /\ Len(events) \in Nat /\ \A k \in 1..Len(events) : events[k] \in Nat
  BY DEF EventTypeOK
<1>1. FirstAfter(id) = IF I # {} THEN first ELSE 0
  BY DEF FirstAfter
<1>2. CASE I = {}
  BY <1>0, <1>1, <1>2
<1>3. CASE I # {}
  <2>1. I \subseteq Nat
    BY <1>0
  <2> HIDE DEF I
  <2>2. PICK x \in I : \A y \in I : ~(<<y, x>> \in OpToRel(<, Nat))
    BY ONLY Zenon, <1>3, <2>1, WFMin, NatLessThanWellFounded
  <2>3. \A y \in I : x <= y
    <3> SUFFICES ASSUME NEW y \in I, ~(x <= y)
                 PROVE  FALSE
      BY Zenon
    <3>1. <<y, x>> \in Nat \X Nat /\ y < x
      BY <2>1
    <3>2. <<y, x>> \in OpToRel(<, Nat)
      BY Zenon, <3>1 DEF OpToRel
    <3> QED BY Zenon, <2>2, <3>2
  <2>4. first \in I /\ \A y \in I : first <= y
    BY Zenon, <2>3
  <2> QED BY Zenon, <1>1, <1>3, <2>4 DEF I
<1> QED BY Zenon, <1>2, <1>3

(* A look at the log leaves the stream where it is, or takes it to the      *)
(* first event it has not had.                                              *)
LookedAt(s, i) ==
  /\ i \in 1..Len(events) /\ events[i] > cursor[s]
  /\ \A k \in 1..Len(events) : events[k] > cursor[s] => i <= k
  /\ cursor' = [cursor EXCEPT ![s] = events[i]]
  /\ sent' = [sent EXCEPT ![s] = @ \cup {events[i]}]

LEMMA LookCases ==
  ASSUME EventTypeOK, NEW s \in Streams, Look(s)
  PROVE  UNCHANGED <<cursor, sent>> \/ \E i : LookedAt(s, i)
<1> DEFINE i == FirstAfter(cursor[s])
<1>1. cursor[s] \in Nat
  BY Zenon DEF EventTypeOK
<1>2. \/ i = 0
      \/ /\ i \in 1..Len(events) /\ events[i] > cursor[s]
         /\ \A k \in 1..Len(events) : events[k] > cursor[s] => i <= k
  BY Zenon, <1>1, FirstAfterIsFirst
<1>3. i = 0 => UNCHANGED <<cursor, sent>>
  BY Zenon DEF Look
<1>4. i # 0 => /\ cursor' = [cursor EXCEPT ![s] = events[i]]
               /\ sent' = [sent EXCEPT ![s] = @ \cup {events[i]}]
  BY Zenon DEF Look
<1> HIDE DEF i
<1> QED BY Zenon, <1>2, <1>3, <1>4 DEF LookedAt

(* The log as the operation is created.                                     *)
LEMMA EventInitInv == EventInit => EventInv
<1> SUFFICES ASSUME EventInit
             PROVE  EventInv
  BY Zenon
<1>1. EventTypeOK
  BY DEF EventInit, EventTypeOK, Stages, Open
<1>2. Pushed = {1}
  BY DEF EventInit, Pushed
<1>3. IdsInv /\ OrderInv /\ CompleteInv
  BY <1>2 DEF EventInit, IdsInv, OrderInv, CompleteInv
<1>4. LastInv
  BY Zenon DEF EventInit, LastInv, Writers
<1> QED BY Zenon, <1>1, <1>3, <1>4 DEF EventInv

(* Every action keeps the variables in their sets.                          *)
LEMMA EventTypeNext ==
  ASSUME EventTypeOK, [EventNext]_eventVars
  PROVE  EventTypeOK'
<1> USE DEF EventTypeOK
<1>1. ASSUME NEW w \in Writers, Allocate(w)
      PROVE  EventTypeOK'
  BY <1>1 DEF Allocate, streamVars
<1>2. ASSUME NEW w \in Writers, Push(w)
      PROVE  EventTypeOK'
  <2>1. MakeRoom \in Seq(Nat) /\ hand[w] \in Nat
    <3>1. CASE Len(events) = Capacity
      <4>1. events # <<>>
        BY Zenon, <3>1, EventAssumption
      <4> QED BY <3>1, <4>1 DEF MakeRoom
    <3>2. CASE Len(events) # Capacity
      BY Zenon, <3>2 DEF MakeRoom
    <3> QED BY Zenon, <3>1, <3>2
  <2>2. events' \in Seq(Nat)
    BY <1>2, <2>1 DEF Push
  <2>3. late' \in SUBSET Nat /\ last' \in Nat
    BY Zenon, <1>2, <2>1 DEF Push
  <2> QED BY Zenon, <1>2, <2>2, <2>3 DEF Push, streamVars
<1>3. ASSUME NEW w \in Writers, Notify(w)
      PROVE  EventTypeOK'
  BY Zenon, <1>3 DEF Notify, Stages
<1>4. ASSUME NEW w \in Writers, OutputEnds(w)
      PROVE  EventTypeOK'
  BY Zenon, <1>4 DEF OutputEnds, streamVars
<1>5. CASE Spawn \/ WorkOver \/ WaitFails
  BY Zenon, <1>5 DEF Spawn, WorkOver, WaitFails, streamVars, Stages
<1>6. CASE Finish
  BY Zenon, <1>6 DEF Finish, streamVars, Stages, Writers
<1>7. ASSUME NEW s \in Streams, Follow(s) \/ Subscribe(s) \/ AskTerminal(s) \/ Wake(s)
      PROVE  EventTypeOK'
  BY Zenon, <1>7 DEF Follow, Subscribe, AskTerminal, Wake, writerVars, Open
<1>8. ASSUME NEW s \in Streams, Look(s)
      PROVE  EventTypeOK'
  <2>1. UNCHANGED writerVars
    BY Zenon, <1>8 DEF Look
  <2>2. at' \in [Streams -> Open \cup {"off", "closed"}]
    BY Zenon, <1>8 DEF Look, Open
  <2>3. cursor' \in [Streams -> Nat] /\ sent' \in [Streams -> SUBSET Nat]
    <3>1. CASE UNCHANGED <<cursor, sent>>
      BY Zenon, <3>1
    <3>2. ASSUME NEW i, LookedAt(s, i)
          PROVE  cursor' \in [Streams -> Nat] /\ sent' \in [Streams -> SUBSET Nat]
      <4>1. events[i] \in Nat
        BY <3>2 DEF LookedAt
      <4> QED BY Zenon, <3>2, <4>1 DEF LookedAt
    <3> QED BY Zenon, <1>8, <3>1, <3>2, LookCases
  <2> QED BY Zenon, <2>1, <2>2, <2>3 DEF writerVars
<1>9. ASSUME NEW s \in Streams, Disconnect(s)
      PROVE  EventTypeOK'
  <2>1. \A id \in sent[s] \cup {0} : id \in Nat
    OBVIOUS
  <2> QED BY Zenon, <1>9, <2>1 DEF Disconnect, writerVars, Open
<1>10. CASE UNCHANGED eventVars
  BY Zenon, <1>10 DEF eventVars, writerVars, streamVars
<1> QED BY Zenon, <1>1, <1>2, <1>3, <1>4, <1>5, <1>6, <1>7, <1>8, <1>9, <1>10
        DEF EventNext, WriterStep, StreamStep

(* An id that was pushed stays pushed, and Push adds the writer's id.       *)
LEMMA PushedGrows ==
  ASSUME EventTypeOK, IdsInv, [EventNext]_eventVars
  PROVE  /\ Pushed \subseteq Pushed'
         /\ \A w \in Writers : Push(w) => hand[w] \in Pushed'
<1>1. ASSUME NEW w \in Writers, Allocate(w)
      PROVE  Pushed \subseteq Pushed'
  BY <1>1 DEF Allocate, Pushed, EventTypeOK
<1>2. ASSUME NEW w \in Writers, Push(w)
      PROVE  Pushed \subseteq Pushed' /\ hand[w] \in Pushed'
  <2>1. /\ nextId' = nextId /\ hand' = [hand EXCEPT ![w] = 0]
        /\ hand[w] \in 1..(nextId - 1)
    BY <1>2 DEF Push, EventTypeOK, IdsInv
  <2>2. \A v \in Writers : hand'[v] \in {0, hand[v]} /\ hand'[v] # hand[w]
    BY <2>1 DEF EventTypeOK, IdsInv
  <2> QED BY <2>1, <2>2 DEF Pushed
<1>3. CASE UNCHANGED <<nextId, hand>>
  <2>1. Pushed' = Pushed
    BY <1>3, Zenon DEF Pushed
  <2>2. \A w \in Writers : ~Push(w)
    BY Zenon, <1>3 DEF Push, EventTypeOK
  <2> QED BY Zenon, <2>1, <2>2
<1> QED BY Zenon, <1>1, <1>2, <1>3
        DEF EventNext, WriterStep, StreamStep, Notify, OutputEnds, Spawn, WorkOver, WaitFails, Finish,
            Follow, Subscribe, Look, AskTerminal, Wake, Disconnect, eventVars, writerVars

(* Ids are taken once and pushed by the writer that took them.              *)
LEMMA IdsNext ==
  ASSUME EventTypeOK, IdsInv, CompleteInv, [EventNext]_eventVars
  PROVE  IdsInv'
<1>0. Pushed \subseteq Pushed' /\ \A w \in Writers : Push(w) => hand[w] \in Pushed'
  BY Zenon, PushedGrows
<1>1. ASSUME NEW w \in Writers, Allocate(w)
      PROVE  IdsInv'
  <2>1. /\ hand' = [hand EXCEPT ![w] = nextId] /\ nextId' = nextId + 1
        /\ UNCHANGED <<events, late, cursor, sent>>
    BY Zenon, <1>1 DEF Allocate, streamVars
  <2>2. \A v \in Writers : hand'[v] < nextId'
    BY <2>1 DEF EventTypeOK, IdsInv
  <2>3. \A u, v \in Writers : hand'[u] = hand'[v] /\ hand'[v] # 0 => u = v
    BY <2>1 DEF EventTypeOK, IdsInv
  <2> QED BY Zenon, <1>0, <2>1, <2>2, <2>3 DEF IdsInv
<1>2. ASSUME NEW w \in Writers, Push(w)
      PROVE  IdsInv'
  <2>1. /\ hand' = [hand EXCEPT ![w] = 0] /\ UNCHANGED <<nextId, cursor, sent>>
    BY Zenon, <1>2 DEF Push, streamVars
  <2>2. \A v \in Writers : hand'[v] < nextId'
    BY <1>2, <2>1 DEF EventTypeOK, IdsInv, Push
  <2>3. \A u, v \in Writers : hand'[u] = hand'[v] /\ hand'[v] # 0 => u = v
    BY Zenon, <2>1 DEF EventTypeOK, IdsInv
  <2>4. \A i \in 1..Len(events') : events'[i] \in Pushed'
    <3>1. PICK c \in {0, 1} :
            /\ Len(events') = Len(events) + 1 - c
            /\ events'[Len(events')] = hand[w]
            /\ \A k \in 1..(Len(events') - 1) :
                 k + c \in 1..Len(events) /\ events'[k] = events[k + c]
      BY Zenon, <1>2, PushedEvents
    <3>2. Len(events) \in Nat
      BY DEF EventTypeOK
    <3>3. hand[w] \in Pushed' /\ \A k \in 1..Len(events) : events[k] \in Pushed'
      BY Zenon, <1>0, <1>2 DEF IdsInv
    <3>4. ASSUME NEW i \in 1..Len(events')
          PROVE  i = Len(events') \/ i \in 1..(Len(events') - 1)
      BY <3>1, <3>2
    <3> QED BY Zenon, <3>1, <3>3, <3>4
  <2>5. late' \subseteq Pushed'
    BY Zenon, <1>0, <1>2 DEF Push, IdsInv
  <2> QED BY Zenon, <1>0, <2>1, <2>2, <2>3, <2>4, <2>5 DEF IdsInv
<1>3. ASSUME NEW s \in Streams, Look(s)
      PROVE  IdsInv'
  <2>1. UNCHANGED <<hand, nextId, events, late>>
    BY Zenon, <1>3 DEF Look, writerVars
  <2>2. \A t \in Streams : cursor'[t] \in Pushed \cup {0} /\ sent'[t] \subseteq Pushed
    <3>1. CASE UNCHANGED <<cursor, sent>>
      BY Zenon, <3>1 DEF IdsInv
    <3>2. ASSUME NEW i, LookedAt(s, i)
          PROVE  \A t \in Streams : cursor'[t] \in Pushed \cup {0} /\ sent'[t] \subseteq Pushed
      <4>1. events[i] \in Pushed
        BY Zenon, <3>2 DEF LookedAt, IdsInv
      <4> QED BY Zenon, <3>2, <4>1 DEF LookedAt, IdsInv, EventTypeOK
    <3> QED BY Zenon, <1>3, <3>1, <3>2, LookCases
  <2> QED BY Zenon, <1>0, <2>1, <2>2 DEF IdsInv
<1>4. ASSUME NEW s \in Streams, Disconnect(s)
      PROVE  IdsInv'
  <2>1. UNCHANGED <<hand, nextId, events, late>>
    BY Zenon, <1>4 DEF Disconnect, writerVars
  <2>2. \A t \in Streams : cursor'[t] \in Pushed \cup {0} /\ sent'[t] \subseteq Pushed
    BY <1>4 DEF Disconnect, IdsInv, EventTypeOK
  <2> QED BY Zenon, <1>0, <2>1, <2>2 DEF IdsInv
<1>5. CASE UNCHANGED <<hand, nextId, events, late, cursor, sent>>
  BY Zenon, <1>0, <1>5 DEF IdsInv
<1> QED BY Zenon, <1>1, <1>2, <1>3, <1>4, <1>5
        DEF EventNext, WriterStep, StreamStep, Notify, OutputEnds, Spawn, WorkOver, WaitFails, Finish,
            Follow, Subscribe, AskTerminal, Wake, eventVars, writerVars, streamVars

(* A push behind a higher id is the only way to disorder the log.           *)
LEMMA OrderNext ==
  ASSUME EventTypeOK, IdsInv, OrderInv, [EventNext]_eventVars
  PROVE  OrderInv'
<1>1. ASSUME NEW w \in Writers, Push(w)
      PROVE  OrderInv'
  <2>1. PICK c \in {0, 1} :
          /\ Len(events') = Len(events) + 1 - c
          /\ events'[Len(events')] = hand[w]
          /\ \A k \in 1..(Len(events') - 1) :
               k + c \in 1..Len(events) /\ events'[k] = events[k + c]
    BY Zenon, <1>1, PushedEvents
  <2>2. Len(events) \in Nat /\ hand[w] \in Nat /\ \A i \in 1..Len(events) : events[i] \in Nat
    BY DEF EventTypeOK
  <2>3. late \subseteq late' /\ ((\E id \in Pushed : id > hand[w]) => hand[w] \in late')
    BY Zenon, <1>1 DEF Push
  <2>4. hand[w] \notin Pushed
    BY Zenon DEF Pushed
  <2> SUFFICES ASSUME NEW i \in 1..Len(events'), NEW k \in 1..Len(events'), i < k
               PROVE  events'[i] < events'[k] \/ events'[k] \in late'
    BY Zenon DEF OrderInv
  <2>5. i + c \in 1..Len(events) /\ events'[i] = events[i + c]
    BY <2>1, <2>2
  <2>6. CASE k = Len(events')
    <3>1. events'[i] \in Pushed
      BY Zenon, <2>5 DEF IdsInv
    <3> QED BY <2>1, <2>2, <2>3, <2>4, <2>5, <2>6, <3>1
  <2>7. CASE k # Len(events')
    <3>1. k + c \in 1..Len(events) /\ events'[k] = events[k + c] /\ i + c < k + c
      BY <2>1, <2>2, <2>7
    <3> QED BY Zenon, <2>3, <2>5, <3>1 DEF OrderInv
  <2> QED BY Zenon, <2>6, <2>7
<1>2. CASE UNCHANGED <<events, late>>
  BY Zenon, <1>2 DEF OrderInv
<1> QED BY Zenon, <1>1, <1>2
        DEF EventNext, WriterStep, StreamStep, Allocate, Notify, OutputEnds, Spawn, WorkOver, WaitFails,
            Finish, Follow, Subscribe, Look, AskTerminal, Wake, Disconnect, eventVars,
            writerVars

(* A stream goes past an event only by sending it, unless it came late.     *)
LEMMA CompleteNext ==
  ASSUME EventTypeOK, IdsInv, OrderInv, CompleteInv, [EventNext]_eventVars
  PROVE  CompleteInv'
<1>0. /\ \A i \in 1..Len(events) : events[i] \in Nat
      /\ \A t \in Streams : cursor[t] \in Nat /\ sent[t] \in SUBSET Nat
      /\ Len(events) \in Nat
  BY DEF EventTypeOK
<1>1. ASSUME NEW w \in Writers, Push(w)
      PROVE  CompleteInv'
  <2>1. PICK c \in {0, 1} :
          /\ Len(events') = Len(events) + 1 - c
          /\ events'[Len(events')] = hand[w]
          /\ \A k \in 1..(Len(events') - 1) :
               k + c \in 1..Len(events) /\ events'[k] = events[k + c]
    BY Zenon, <1>1, PushedEvents
  <2>2. late \subseteq late' /\ ((\E id \in Pushed : id > hand[w]) => hand[w] \in late')
    BY Zenon, <1>1 DEF Push
  <2>3. hand[w] \in Nat /\ hand[w] # 0 /\ hand[w] \notin Pushed
    BY Zenon, <1>1 DEF Pushed, Push, EventTypeOK
  <2>4. UNCHANGED <<cursor, sent>>
    BY Zenon, <1>1 DEF Push, streamVars
  <2>5. ASSUME NEW s \in Streams, NEW i \in 1..Len(events'), events'[i] <= cursor[s]
        PROVE  events'[i] \in sent[s] \cup late'
    <3>1. CASE i = Len(events')
      <4>1. events'[i] = hand[w] /\ cursor[s] \in Pushed \cup {0}
        BY Zenon, <2>1, <3>1 DEF IdsInv
      <4>2. cursor[s] > hand[w] /\ cursor[s] \in Pushed
        BY <1>0, <2>3, <2>5, <4>1
      <4> QED BY Zenon, <2>2, <4>1, <4>2
    <3>2. CASE i # Len(events')
      <4>1. i + c \in 1..Len(events) /\ events'[i] = events[i + c]
        BY <1>0, <2>1, <3>2
      <4> QED BY Zenon, <2>2, <2>5, <4>1 DEF CompleteInv
    <3> QED BY Zenon, <3>1, <3>2
  <2> QED BY Zenon, <2>4, <2>5 DEF CompleteInv
<1>2. ASSUME NEW s \in Streams, Look(s)
      PROVE  CompleteInv'
  <2>1. UNCHANGED <<events, late>>
    BY Zenon, <1>2 DEF Look, writerVars
  <2>2. CASE UNCHANGED <<cursor, sent>>
    BY Zenon, <2>1, <2>2 DEF CompleteInv
  <2>3. ASSUME NEW i, LookedAt(s, i)
        PROVE  CompleteInv'
    <3>1. /\ \A t \in Streams : t # s => cursor'[t] = cursor[t] /\ sent'[t] = sent[t]
          /\ cursor'[s] = events[i] /\ sent'[s] = sent[s] \cup {events[i]}
      BY Zenon, <2>3 DEF LookedAt, EventTypeOK
    <3>2. \A id \in sent'[s] : id <= cursor'[s]
      BY <1>0, <2>3, <3>1 DEF LookedAt, CompleteInv
    <3>3. ASSUME NEW k \in 1..Len(events), events[k] <= events[i]
          PROVE  events[k] \in sent'[s] \cup late
      <4>1. CASE events[k] <= cursor[s]
        BY Zenon, <3>1, <4>1 DEF CompleteInv
      <4>2. CASE events[k] > cursor[s]
        <5>1. i <= k /\ i \in 1..Len(events)
          BY Zenon, <2>3, <4>2 DEF LookedAt
        <5>2. CASE i = k
          BY Zenon, <3>1, <5>2
        <5>3. CASE i < k
          BY <1>0, <3>3, <5>1, <5>3 DEF OrderInv
        <5> QED BY <1>0, <5>1, <5>2, <5>3
      <4> QED BY <1>0, <4>1, <4>2
    <3> QED BY Zenon, <2>1, <3>1, <3>2, <3>3 DEF CompleteInv
  <2> QED BY Zenon, <1>2, <2>2, <2>3, LookCases
<1>3. ASSUME NEW s \in Streams, Disconnect(s)
      PROVE  CompleteInv'
  <2>1. UNCHANGED <<events, late>>
    BY Zenon, <1>3 DEF Disconnect, writerVars
  <2>2. PICK id \in sent[s] \cup {0} :
          /\ cursor' = [cursor EXCEPT ![s] = id]
          /\ sent' = [sent EXCEPT ![s] = {e \in @ : e <= id}]
    BY Zenon, <1>3 DEF Disconnect
  <2>3. id \in Nat /\ id <= cursor[s]
    BY <1>0 DEF CompleteInv
  <2>4. /\ \A t \in Streams : t # s => cursor'[t] = cursor[t] /\ sent'[t] = sent[t]
        /\ cursor'[s] = id /\ sent'[s] = {e \in sent[s] : e <= id}
    BY Zenon, <2>2 DEF EventTypeOK
  <2>5. ASSUME NEW i \in 1..Len(events), events[i] <= id
        PROVE  events[i] \in sent'[s] \cup late
    BY <1>0, <2>3, <2>4, <2>5 DEF CompleteInv
  <2> QED BY Zenon, <2>1, <2>4, <2>5 DEF CompleteInv
<1>4. CASE UNCHANGED <<events, late, cursor, sent>>
  BY Zenon, <1>4 DEF CompleteInv
<1> QED BY Zenon, <1>1, <1>2, <1>3, <1>4
        DEF EventNext, WriterStep, StreamStep, Allocate, Notify, OutputEnds, Spawn, WorkOver, WaitFails,
            Finish, Follow, Subscribe, AskTerminal, Wake, eventVars, writerVars, streamVars

(* The terminal event is the last, for the readers are joined before it.    *)
LEMMA LastNext ==
  ASSUME EventTypeOK, IdsInv, LastInv, [EventNext]_eventVars
  PROVE  LastInv'
<1>0. /\ "task" \notin Outputs /\ "task" \in Writers /\ Outputs \subseteq Writers
      /\ \A w \in Writers : w # "task" => w \in Outputs
      /\ Outputs # {} => Outputs = {"stdout", "stderr"}
  BY Zenon, EventAssumption DEF Writers
<1> USE DEF LastInv, NoneFailed
<1>1. ASSUME NEW w \in Writers, Allocate(w)
      PROVE  LastInv'
  <2>1. /\ hand' = [hand EXCEPT ![w] = nextId] /\ nextId' = nextId + 1
        /\ hand[w] = 0 /\ w \notin owes /\ Emits(w)
        /\ UNCHANGED <<stage, output, owes, late, last, unwaited>>
    BY Zenon, <1>1 DEF Allocate, Idle
  <2>2. CASE w = "task"
    <3>1. stage \in {"queued", "ending", "working"} /\ last = 0
      BY Zenon, <1>0, <2>1, <2>2 DEF Emits
    <3> QED BY <1>0, <2>1, <2>2, <3>1 DEF EventTypeOK
  <2>3. CASE w # "task"
    <3>1. w \in Outputs /\ output[w] = "open"
      BY Zenon, <1>0, <2>1, <2>3 DEF Emits
    <3>2. ~(stage \in {"ending", "finishing", "over"} /\ NoneFailed)
      BY Zenon, <3>1
    <3>3. hand'["task"] = hand["task"] /\ \A v \in Outputs : output[v] # "open" => hand'[v] = hand[v]
      BY Zenon, <1>0, <2>1, <2>3, <3>1 DEF EventTypeOK
    <3> QED BY <1>0, <2>1, <3>2, <3>3
  <2> QED BY Zenon, <2>2, <2>3
<1>2. ASSUME NEW w \in Writers, Push(w)
      PROVE  LastInv'
  <2>1. /\ hand[w] # 0 /\ hand' = [hand EXCEPT ![w] = 0] /\ owes' = owes \cup {w}
        /\ late' = IF \E id \in Pushed : id > hand[w] THEN late \cup {hand[w]} ELSE late
        /\ last' = IF w = "task" /\ stage = "ending" THEN hand[w] ELSE last
        /\ UNCHANGED <<nextId, stage, output, unwaited>>
    BY Zenon, <1>2 DEF Push
  <2>2. \A v \in Writers : hand'[v] \in {0, hand[v]}
    BY Zenon, <2>1 DEF EventTypeOK
  <2>3. CASE w = "task" /\ stage = "ending"
    <3>1. last = 0 /\ last' = hand[w] /\ hand'["task"] = 0 /\ "task" \in owes'
      BY <1>0, <2>1, <2>3 DEF EventTypeOK
    <3>2. NoneFailed => hand[w] = nextId - 1 /\ hand[w] \notin late'
      <4>1. SUFFICES ASSUME NoneFailed
                     PROVE  hand[w] = nextId - 1 /\ hand[w] \notin late'
        BY Zenon
      <4>2. hand[w] = nextId - 1
        BY Zenon, <2>1, <2>3, <4>1
      <4>3. \A id \in Pushed : ~(id > hand[w])
        BY <4>2 DEF Pushed, EventTypeOK
      <4>4. hand[w] \notin late
        BY Zenon, <2>1 DEF IdsInv, Pushed
      <4> QED BY Zenon, <2>1, <4>2, <4>3, <4>4
    <3> QED BY <2>1, <2>2, <2>3, <3>1, <3>2, <1>0
  <2>4. CASE ~(w = "task" /\ stage = "ending")
    <3>1. last' = last
      BY Zenon, <2>1, <2>4
    <3>2. last # 0 /\ NoneFailed => FALSE
      BY Zenon, <1>0, <2>1, <2>4
    <3>3. \A v \in owes' : hand'[v] = 0
      BY Zenon, <2>1 DEF EventTypeOK
    <3>4. last # 0 => "task" \in owes' \/ stage \in {"finishing", "over"}
      BY Zenon, <2>1
    <3>5. NoneFailed' = NoneFailed
      BY Zenon, <2>1
    <3> QED BY <2>1, <2>2, <3>1, <3>2, <3>3, <3>4, <3>5, <1>0
  <2> QED BY Zenon, <2>3, <2>4
<1>3. ASSUME NEW w \in Writers, Notify(w)
      PROVE  LastInv'
  <2>1. /\ UNCHANGED <<nextId, output, hand, late, last, unwaited>> /\ owes' \subseteq owes
        /\ w # "task" => stage' = stage /\ ("task" \in owes => "task" \in owes')
        /\ w = "task" => \/ stage = "queued" /\ stage' = "working"
                         \/ stage = "ending" /\ stage' = "finishing"
                         \/ stage \notin {"queued", "ending"} /\ stage' = stage
    BY Zenon, <1>3 DEF Notify
  <2>2. w = "task" => hand["task"] = 0
    BY Zenon, <1>3 DEF Notify
  <2> QED BY Zenon, <2>1, <2>2
<1>4. ASSUME NEW w \in Writers, OutputEnds(w)
      PROVE  LastInv'
  <2>1. /\ w \in Outputs /\ hand[w] = 0 /\ output[w] = "open"
        /\ \E how \in {"eof", "failed"} : output' = [output EXCEPT ![w] = how]
        /\ UNCHANGED <<nextId, stage, hand, owes, late, last, unwaited>>
    BY Zenon, <1>4 DEF OutputEnds, Idle
  <2> QED BY Zenon, <2>1 DEF EventTypeOK
<1>5. CASE Spawn
  <2>1. /\ stage = "working" /\ \A w \in Outputs : output'[w] = "open"
        /\ UNCHANGED <<nextId, stage, hand, owes, late, last, unwaited>>
    BY Zenon, <1>5 DEF Spawn
  <2> QED BY Zenon, <2>1
<1>6. CASE WorkOver
  <2>1. /\ hand["task"] = 0 /\ "task" \notin owes /\ stage' = "ending"
        /\ stage = "queued" \/ (stage = "working" /\ OutputJoined)
        /\ UNCHANGED <<nextId, output, hand, owes, late, last, unwaited>>
    BY Zenon, <1>6 DEF WorkOver, Idle
  <2>2. NoneFailed => \A w \in Outputs : output[w] # "open"
    BY Zenon, <1>0, <2>1 DEF OutputJoined
  <2> QED BY Zenon, <2>1, <2>2
<1>7. CASE WaitFails
  <2>1. /\ hand["task"] = 0 /\ "task" \notin owes /\ stage = "working" /\ stage' = "ending"
        /\ UNCHANGED <<nextId, output, hand, owes, late, last>> /\ unwaited'
    BY Zenon, <1>7 DEF WaitFails, Idle
  <2> QED BY Zenon, <2>1
<1>8. CASE Finish
  BY Zenon, <1>8 DEF Finish
<1>9. CASE UNCHANGED <<nextId, stage, output, hand, owes, late, last, unwaited>>
  BY Zenon, <1>9
<1> QED BY Zenon, <1>1, <1>2, <1>3, <1>4, <1>5, <1>6, <1>7, <1>8, <1>9
        DEF EventNext, WriterStep, StreamStep, Follow, Subscribe, Look, AskTerminal, Wake,
            Disconnect, eventVars, writerVars

(* Every action of the operation's task, of the readers and of the streams  *)
(* keeps the invariant of the log.                                          *)
LEMMA EventNextInv == EventInv /\ [EventNext]_eventVars => EventInv'
<1> SUFFICES ASSUME EventInv, [EventNext]_eventVars
             PROVE  EventInv'
  BY Zenon
<1>1. EventTypeOK' /\ IdsInv' /\ OrderInv'
  BY Zenon, EventTypeNext, IdsNext, OrderNext DEF EventInv
<1>2. CompleteInv' /\ LastInv'
  BY Zenon, CompleteNext, LastNext DEF EventInv
<1> QED BY Zenon, <1>1, <1>2 DEF EventInv

(* The inductive invariant of the event log: ids are pushed once, disorder  *)
(* in the deque is recorded as late, and a stream is past nothing its       *)
(* client has not processed.                                                *)
THEOREM EventInvariance == EventSpec => []EventInv
  BY EventInitInv, EventNextInv, PTL DEF EventSpec

(* next_after skips no event that the log still keeps, over resumptions and *)
(* eviction, but those that emit pushed behind a higher id; and the event   *)
(* of the outcome is the last one and never among those, unless a reader of *)
(* the child's output failed.                                               *)
THEOREM NoEventSkipped == EventSpec => []StreamsAreComplete
<1>1. EventInv => StreamsAreComplete
  <2> SUFFICES ASSUME EventInv
               PROVE  StreamsAreComplete
    BY Zenon
  <2>1. DOMAIN events = 1..Len(events)
    BY DEF EventInv, EventTypeOK
  <2> QED BY Zenon, <2>1 DEF EventInv, CompleteInv, LastInv, NoneFailed, StreamsAreComplete
<1> QED BY <1>1, EventInvariance, PTL
=============================================================================

------------------------------ MODULE EventLog ------------------------------
(***************************************************************************)
(* The event log of one operation (EventLog in crates/apmpr-daemon/src/    *)
(* server.rs): the operation's task and the readers of its child's output  *)
(* emit events, and server-sent-event streams follow them, resuming after  *)
(* the last id their client processed.                                     *)
(*                                                                         *)
(* An event is its id.  The log has four locks of their own (next_id,      *)
(* events, terminal, the waiter list of Notify), so emit and next_after    *)
(* are several steps each.  The log begins with event 1, "pending", which  *)
(* is emitted before anyone else can see the log.                          *)
(***************************************************************************)
EXTENDS Naturals, Sequences

CONSTANTS
  Outputs,    \* the readers of the child's output: {"stdout", "stderr"}, or {}
  Streams,    \* the SSE streams
  Capacity,   \* EVENT_CAPACITY
  MaxLines,   \* bound on the lines of one writer
  MaxDrops    \* bound on lost connections

ASSUME EventAssumption ==
  /\ Outputs \in {{"stdout", "stderr"}, {}}
  /\ Capacity \in Nat \ {0} /\ MaxLines \in Nat /\ MaxDrops \in Nat

Writers == Outputs \cup {"task"}

VARIABLES
  events,    \* the deque, oldest first
  nextId,
  terminal,  \* set by finish
  stage,     \* where the operation's task is
  output,    \* of each reader: "none", "open", "eof" or "failed"
  emitted,   \* how many events each writer has emitted
  hand,      \* the id a writer has allocated and not yet pushed, or 0
  owes,      \* the writers that have pushed and not yet notified
  unwaited,  \* ghost: child.wait() failed
  late,      \* ghost: the ids pushed behind a higher id
  last,      \* ghost: the id of the terminal event, or 0
  at,        \* where each stream is in next_after
  cursor,    \* the last id it returned, or that its client sent
  woken,     \* the streams whose Notified future is complete
  sent,      \* ghost: the ids its client has processed
  drops

writerVars == <<events, nextId, terminal, stage, output, emitted, hand, owes,
                unwaited, late, last>>
streamVars == <<at, cursor, woken, sent, drops>>
eventVars == <<writerVars, streamVars>>

Open == {"between", "looking", "asking", "waiting"}

EventInit ==
  /\ events = <<1>> /\ nextId = 2 /\ terminal = FALSE
  /\ stage = "queued"
  /\ output = [w \in Outputs |-> "none"]
  /\ emitted = [w \in Writers |-> 0]
  /\ hand = [w \in Writers |-> 0]
  /\ owes = {} /\ unwaited = FALSE /\ late = {} /\ last = 0
  /\ at = [s \in Streams |-> "off"]
  /\ cursor = [s \in Streams |-> 0]
  /\ woken = {}
  /\ sent = [s \in Streams |-> {}]
  /\ drops = 0

-----------------------------------------------------------------------------
(* emit, in three steps.                                                    *)

Idle(w) == hand[w] = 0 /\ w \notin owes

(* Which writer has something to emit: set_running and finish_operation are *)
(* the task's, and so are the lines of an operation without a child.        *)
Emits(w) ==
  \/ w \in Outputs /\ output[w] = "open" /\ emitted[w] < MaxLines
  \/ w = "task" /\ stage \in {"queued", "ending"}
  \/ w = "task" /\ stage = "working" /\ Outputs = {} /\ emitted[w] <= MaxLines

(* The id is taken under the next_id lock alone ...                         *)
Allocate(w) ==
  /\ Idle(w) /\ Emits(w)
  /\ hand' = [hand EXCEPT ![w] = nextId]
  /\ nextId' = nextId + 1
  /\ emitted' = [emitted EXCEPT ![w] = @ + 1]
  /\ UNCHANGED <<events, terminal, stage, output, owes, late, last, unwaited, streamVars>>

MakeRoom == IF Len(events) = Capacity THEN Tail(events) ELSE events

Pushed == (1..(nextId - 1)) \ {hand[w] : w \in Writers}

(* ... and the event pushed under the events lock, perhaps behind an event  *)
(* with a higher id.                                                        *)
Push(w) ==
  /\ hand[w] # 0
  /\ events' = Append(MakeRoom, hand[w])
  /\ late' = IF \E id \in Pushed : id > hand[w] THEN late \cup {hand[w]} ELSE late
  /\ hand' = [hand EXCEPT ![w] = 0]
  /\ owes' = owes \cup {w}
  /\ last' = IF w = "task" /\ stage = "ending" THEN hand[w] ELSE last
  /\ UNCHANGED <<nextId, terminal, stage, output, emitted, unwaited, streamVars>>

(* notify_waiters completes the futures that were made before the call;     *)
(* the emitter goes on with what comes after the event.                     *)
Notify(w) ==
  /\ w \in owes
  /\ owes' = owes \ {w}
  /\ woken' = {s \in Streams : at[s] \in {"looking", "asking", "waiting"}}
  /\ stage' = IF w # "task" THEN stage
              ELSE CASE stage = "queued" -> "working"
                     [] stage = "ending" -> "finishing"
                     [] OTHER -> stage
  /\ UNCHANGED <<events, nextId, terminal, output, emitted, hand, late, last, unwaited, at,
                 cursor, sent, drops>>

(* The child is spawned, and a task for each of its pipes.                  *)
Spawn ==
  /\ stage = "working" /\ \A w \in Outputs : output[w] = "none"
  /\ output' = [w \in Outputs |-> "open"]
  /\ UNCHANGED <<events, nextId, terminal, stage, emitted, hand, owes, late, last,
                 unwaited, streamVars>>

(* read_output: the pipe ends, or a line cannot be read.                    *)
OutputEnds(w) ==
  /\ w \in Outputs
  /\ Idle(w) /\ output[w] = "open"
  /\ \E how \in {"eof", "failed"} : output' = [output EXCEPT ![w] = how]
  /\ UNCHANGED <<events, nextId, terminal, stage, emitted, hand, owes, late, last,
                 unwaited, streamVars>>

(* Mutant: only the reader of stdout is joined.                             *)
StdoutJoined == Outputs # {} => output["stdout"] # "open"

(* run could not spawn the child; or it joins the reader of stdout, then    *)
(* that of stderr, and returns at the first error: the other reader then    *)
(* goes on by itself.                                                       *)
OutputJoined ==
  Outputs # {} =>
    \/ output["stdout"] \in {"none", "failed"}
    \/ output["stdout"] = "eof" /\ output["stderr"] # "open"

(* The work is over; or the operation was cancelled in the queue.           *)
WorkOver ==
  /\ Idle("task")
  /\ stage = "queued" \/ (stage = "working" /\ OutputJoined)
  /\ stage' = "ending"
  /\ UNCHANGED <<events, nextId, terminal, output, emitted, hand, owes, late, last,
                 unwaited, streamVars>>

(* child.wait() fails, and run returns without joining its readers.         *)
WaitFails ==
  /\ Idle("task")
  /\ stage = "working" /\ \E w \in Outputs : output[w] # "none"
  /\ stage' = "ending" /\ unwaited' = TRUE
  /\ UNCHANGED <<events, nextId, terminal, output, emitted, hand, owes, late, last,
                 streamVars>>

(* Mutant: the flag is set and nobody is notified.                          *)
FinishQuietly ==
  /\ stage = "finishing"
  /\ stage' = "over"
  /\ terminal' = TRUE
  /\ UNCHANGED <<events, nextId, output, emitted, hand, owes, late, last, unwaited, streamVars>>

(* finish: the terminal flag, and notify_waiters to follow.                 *)
Finish ==
  /\ stage = "finishing"
  /\ stage' = "over"
  /\ terminal' = TRUE
  /\ owes' = owes \cup {"task"}
  /\ UNCHANGED <<events, nextId, output, emitted, hand, late, last, unwaited, streamVars>>

-----------------------------------------------------------------------------
(* operation_events and next_after.                                         *)

(* A client connects with the id it processed last; finish_operation may    *)
(* have removed an operation from the map by then, which is a 404.          *)
Follow(s) ==
  /\ at[s] = "off"
  /\ at' = [at EXCEPT ![s] = "between"]
  /\ UNCHANGED <<writerVars, cursor, woken, sent, drops>>

(* The Notified future is made before the log is looked at.                 *)
Subscribe(s) ==
  /\ at[s] = "between"
  /\ at' = [at EXCEPT ![s] = "looking"]
  /\ woken' = woken \ {s}
  /\ UNCHANGED <<writerVars, cursor, sent, drops>>

(* Where the first event with a higher id is in the deque, 0 if nowhere.    *)
FirstAfter(id) ==
  LET later == {i \in 1..Len(events) : events[i] > id}
  IN  IF later = {} THEN 0 ELSE CHOOSE i \in later : \A j \in later : i <= j

Look(s) ==
  /\ at[s] = "looking"
  /\ LET i == FirstAfter(cursor[s]) IN
       IF i = 0 THEN /\ at' = [at EXCEPT ![s] = "asking"]
                     /\ UNCHANGED <<cursor, sent>>
       ELSE /\ at' = [at EXCEPT ![s] = "between"]
            /\ cursor' = [cursor EXCEPT ![s] = events[i]]
            /\ sent' = [sent EXCEPT ![s] = @ \cup {events[i]}]
  /\ UNCHANGED <<writerVars, woken, drops>>

AskTerminal(s) ==
  /\ at[s] = "asking"
  /\ at' = [at EXCEPT ![s] = IF terminal THEN "closed" ELSE "waiting"]
  /\ UNCHANGED <<writerVars, cursor, woken, sent, drops>>

Wake(s) ==
  /\ at[s] = "waiting"
  /\ s \in woken
  /\ at' = [at EXCEPT ![s] = "between"]
  /\ UNCHANGED <<writerVars, cursor, woken, sent, drops>>

(* The connection is lost.  The client has processed some of the events     *)
(* that were sent on it, in order.                                          *)
Disconnect(s) ==
  /\ at[s] \in Open
  /\ drops < MaxDrops
  /\ drops' = drops + 1
  /\ at' = [at EXCEPT ![s] = "off"]
  /\ \E id \in sent[s] \cup {0} :
       /\ cursor' = [cursor EXCEPT ![s] = id]
       /\ sent' = [sent EXCEPT ![s] = {e \in @ : e <= id}]
  /\ UNCHANGED <<writerVars, woken>>

StreamStep(s) == Subscribe(s) \/ Look(s) \/ AskTerminal(s) \/ Wake(s)

WriterStep(w) == Allocate(w) \/ Push(w) \/ Notify(w) \/ OutputEnds(w)

EventNext ==
  \/ \E w \in Writers : WriterStep(w)
  \/ Spawn \/ WorkOver \/ WaitFails \/ Finish
  \/ \E s \in Streams : Follow(s) \/ StreamStep(s) \/ Disconnect(s)

EventSpec == EventInit /\ [][EventNext]_eventVars

(* A stream is polled as long as its client reads.                          *)
EventFairness ==
  /\ \A w \in Writers : WF_eventVars(Push(w) \/ Notify(w))
  /\ \A s \in Streams : WF_eventVars(StreamStep(s))

-----------------------------------------------------------------------------
(* No event is skipped: what the log still keeps and a stream is past, its  *)
(* client has processed, over lost connections and resumptions, eviction at *)
(* capacity and writers that interleave.  The exception is an event that    *)
(* was pushed behind a higher id, because emit takes the id and pushes the  *)
(* event under two locks.  The terminal event is the last of the log and    *)
(* never such an exception, for run joins both readers before it returns;   *)
(* unless one of them, or the wait for the child, failed.                   *)
StreamsAreComplete ==
  /\ \A s \in Streams : \A i \in DOMAIN events :
       events[i] <= cursor[s] => events[i] \in sent[s] \cup late
  /\ last # 0 /\ ~unwaited /\ (\A w \in Outputs : output[w] # "failed")
       => last = nextId - 1 /\ last \notin late

(* A stream closes once the operation is over: next_after makes its Notify  *)
(* future before it looks at the log and the flag, so no wake-up is lost.   *)
StreamEnds == \A s \in Streams : terminal /\ at[s] \in Open ~> at[s] \notin Open
=============================================================================

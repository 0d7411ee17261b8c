---------------------------- MODULE CommandProofs ----------------------------
(***************************************************************************)
(* Proofs about the ways a command is started: out of the terminal         *)
(* interface (TerminalShell), as a run action of an API client or of the   *)
(* interface (RunActions), and from a command line that may find a daemon  *)
(* (DaemonDiscovery).  They hold for any number of jobs, clients, actions, *)
(* command lines and daemons.                                              *)
(***************************************************************************)
EXTENDS RunActions, DaemonDiscovery, TLAPS

-----------------------------------------------------------------------------
(* The interface.                                                           *)

(* A job is a record of these fields, whatever it loaded.                   *)
IsJob(j) ==
  /\ j = [id |-> j.id, kind |-> j.kind, pc |-> j.pc, loaded |-> j.loaded, ok |-> j.ok]
  /\ j.kind \in {"refresh", "change", "operation"}

(* A gate is held by a project job, or by the operation whose entry of the  *)
(* log is open; an operation whose entry is closed holds it no more, though *)
(* its task has not ended.                                                  *)
HeldByChange == \E j \in jobs : j.kind = "change"

HeldByOperation == running /\ \E j \in jobs : j.kind = "operation"

GateInv ==
  /\ \A j \in jobs : IsJob(j)
  /\ gate => HeldByChange \/ HeldByOperation

LEMMA JobAt ==
  ASSUME NEW j, IsJob(j), NEW pc
  PROVE  IsJob(At(j, pc)) /\ At(j, pc).kind = j.kind
BY DEF IsJob, At

LEMMA NewJob ==
  ASSUME NEW kind \in {"refresh", "change", "operation"}
  PROVE  IsJob(Job(kind)) /\ Job(kind).kind = kind
BY Zenon DEF IsJob, Job

(* One job in another state: whoever holds the gate still does.             *)
LEMMA JobBecomes ==
  ASSUME GateInv, NEW j \in jobs, NEW k, IsJob(k), k.kind = j.kind, Becomes(j, k),
         gate' => gate, running' = running
  PROVE  GateInv'
<1>1. \A i \in jobs' : IsJob(i)
  BY Zenon DEF GateInv, Becomes
<1>2. \A kind : (\E i \in jobs : i.kind = kind) => \E i \in jobs' : i.kind = kind
  BY Zenon DEF Becomes
<1> QED
  BY Zenon, <1>1, <1>2 DEF GateInv, HeldByChange, HeldByOperation, IsJob

(* A job that passed the gate, or a refresh.                                *)
LEMMA JobStarts ==
  ASSUME GateInv, NEW kind \in {"refresh", "change", "operation"}, Spawn(kind, jobs),
         \/ kind = "refresh" /\ gate' = gate /\ running' = running
         \/ kind = "change" /\ running' = running
         \/ kind = "operation" /\ running'
  PROVE  GateInv'
<1>1. \A i \in jobs' : IsJob(i)
  BY Zenon, NewJob DEF GateInv, Spawn
<1>2. \A i \in jobs : i \in jobs'
  BY Zenon DEF Spawn
<1>3. Job(kind) \in jobs' /\ Job(kind).kind = kind
  BY Zenon, NewJob DEF Spawn
<1> QED
  BY <1>1, <1>2, <1>3 DEF GateInv, HeldByChange, HeldByOperation

(* Jobs that are let go with the gate.                                      *)
LEMMA GateOpens ==
  ASSUME GateInv, ~gate', \A i \in jobs' : i \in jobs \/ IsJob(i)
  PROVE  GateInv'
BY Zenon DEF GateInv, HeldByChange, HeldByOperation

LEMMA OverOpens ==
  ASSUME GateInv, NEW ok, NEW others, \A i \in others : IsJob(i), OperationOver(ok, others)
  PROVE  GateInv'
<1>1. \A i \in jobs' : IsJob(i)
  BY Zenon, NewJob DEF OperationOver, Spawn
<1>2. ~gate'
  BY Zenon DEF OperationOver
<1> QED
  BY Zenon, <1>1, <1>2, GateOpens

LEMMA ShellStep ==
  ASSUME GateInv, TasksNext \/ WindowNext
  PROVE  GateInv'
<1>1. ASSUME NEW j \in jobs, execute_state_job(j)
      PROVE  GateInv'
  <2> DEFINE k == [At(j, "reported") EXCEPT !.loaded = project]
  <2>1. IsJob(k) /\ k.kind = j.kind
    BY JobAt DEF GateInv, IsJob
  <2> QED
    BY Zenon, <1>1, <2>1, JobBecomes DEF execute_state_job
<1>2. ASSUME NEW j \in jobs, execute(j)
      PROVE  GateInv'
  <2>1. PICK ok \in BOOLEAN : Becomes(j, [At(j, "reported") EXCEPT !.ok = ok])
    BY Zenon, <1>2 DEF execute
  <2> DEFINE k == [At(j, "reported") EXCEPT !.ok = ok]
  <2>2. IsJob(k) /\ k.kind = j.kind
    BY JobAt DEF GateInv, IsJob
  <2> QED
    BY Zenon, <1>2, <2>1, <2>2, JobBecomes DEF execute
<1>3. ASSUME NEW j \in jobs, JobDies(j)
      PROVE  GateInv'
  BY Zenon, <1>3, JobAt, JobBecomes DEF JobDies, GateInv
<1>4. CASE refresh_state
  BY Zenon, <1>4, JobStarts DEF refresh_state
<1>5. CASE start_state_job
  BY Zenon, <1>5, JobStarts DEF start_state_job
<1>6. CASE run_instance_command
  BY Zenon, <1>6, JobStarts DEF run_instance_command, start_operation
<1>7. CASE switch_connection
  BY Zenon, <1>7, JobStarts DEF switch_connection, start_operation
<1>8. ASSUME NEW j \in jobs, on_update(j)
      PROVE  GateInv'
  <2>1. IsJob(At(j, "ended")) /\ At(j, "ended").kind = j.kind
    BY Zenon, JobAt DEF GateInv
  <2> QED
    BY Zenon, <1>8, <2>1, JobBecomes DEF on_update
<1>9. ASSUME NEW j \in jobs, on_finish(j)
      PROVE  GateInv'
  BY Zenon, <1>9, GateOpens DEF on_finish
<1>10. ASSUME NEW j \in jobs, apply_operation_update(j)
       PROVE  GateInv'
  <2>1. \A i \in (jobs \ {j}) \cup {At(j, "ended")} : IsJob(i)
    BY Zenon, JobAt DEF GateInv
  <2> QED
    BY Zenon, <1>10, <2>1, OverOpens DEF apply_operation_update
<1>11. ASSUME NEW j \in jobs, finish_operation_task(j)
       PROVE  GateInv'
  <2>1. \A i \in jobs \ {j} : IsJob(i)
    BY Zenon DEF GateInv
  <2>2. CASE running
    BY Zenon, <1>11, <2>1, <2>2, OverOpens DEF finish_operation_task
  <2>3. CASE ~running
    BY Zenon, <1>11, <2>1, <2>3 DEF finish_operation_task, GateInv, HeldByChange, HeldByOperation
  <2> QED
    BY Zenon, <2>2, <2>3
<1> QED
  BY Zenon, <1>1, <1>2, <1>3, <1>4, <1>5, <1>6, <1>7, <1>8, <1>9, <1>10, <1>11 DEF TasksNext, WindowNext

-----------------------------------------------------------------------------
(* Run actions.  A client that is about to start something holds the very   *)
(* preview it was shown last, because nobody else changes what it was shown *)
(* and it takes no other preview on the way; the warning is acknowledged by *)
(* then when the command is a shell command.  The bundle still names the    *)
(* deployment of that preview unless it was edited since the hash was       *)
(* checked.                                                                 *)
Confirmed == {"acknowledge", "begin", "queued"}

Named(preview) == preview.target = IF is_shell(preview.command) THEN None ELSE target

ClientOk(c) ==
  /\ client[c].pc = "save" => client[c] = [pc |-> "save", scripts |-> client[c].scripts]
  /\ client[c].pc = "preview" => client[c].hash \in {None, previewed[c]}
  /\ client[c].pc = "acknowledge" => client[c] = [pc |-> "acknowledge", preview |-> previewed[c]]
  /\ client[c].pc = "begin" => client[c] = [pc |-> "begin", preview |-> previewed[c]]
  /\ client[c].pc = "queued" => client[c] = [pc |-> "queued", preview |-> previewed[c]]
  /\ client[c].pc \in {"begin", "queued"} => (is_shell(previewed[c].command) => notice)
  /\ client[c].pc \in Confirmed /\ c \notin late => Named(previewed[c])

PreviewInv ==
  /\ client = [c \in Clients |-> client[c]]
  /\ previewed = [c \in Clients |-> previewed[c]]
  /\ \A c \in Clients : ClientOk(c)
  /\ ExecutedWasPreviewed

ActionsInv == GateInv /\ PreviewInv

(* A step of one client, or of none, that starts nothing.                   *)
LEMMA ClientSteps ==
  ASSUME PreviewInv, NEW c \in Clients, NEW r, Goes(c, r),
         previewed' = [previewed EXCEPT ![c] = previewed'[c]],
         target' = target, \A d \in Clients \ {c} : d \in late' <=> d \in late,
         notice => notice', ClientOk(c)', ExecutedWasPreviewed'
  PROVE  PreviewInv'
<1>1. /\ client' = [d \in Clients |-> client'[d]]
      /\ \A d \in Clients \ {c} : client'[d] = client[d]
  BY Zenon DEF PreviewInv, Goes
<1>2. /\ previewed' = [d \in Clients |-> previewed'[d]]
      /\ \A d \in Clients \ {c} : previewed'[d] = previewed[d]
  BY Zenon DEF PreviewInv
<1>3. \A d \in Clients \ {c} : ClientOk(d)'
  <2> SUFFICES ASSUME NEW d \in Clients \ {c} PROVE ClientOk(d)'
    BY Zenon
  <2>1. ClientOk(d) /\ client'[d] = client[d] /\ previewed'[d] = previewed[d] /\ (d \in late' <=> d \in late)
    BY Zenon, <1>1, <1>2 DEF PreviewInv
  <2> QED
    BY Zenon, <2>1 DEF ClientOk, is_shell, Named
<1> QED
  BY Zenon, <1>1, <1>2, <1>3 DEF PreviewInv

(* What a client's record becomes, and that nothing else of this moves.     *)
LEMMA ClientGoes ==
  ASSUME PreviewInv, NEW c \in Clients, NEW r, Goes(c, r),
         UNCHANGED <<previewed, notice, executed, late, target>>,
         r.pc \in {"rest", "change", "write"}
           \/ (r.pc = "save" /\ r = [pc |-> "save", scripts |-> r.scripts])
           \/ (r.pc = "preview" /\ r.hash \in {None, previewed[c]})
  PROVE  PreviewInv'
<1>1. client'[c] = r
  BY Zenon DEF PreviewInv, Goes
<1>2. previewed' = [previewed EXCEPT ![c] = previewed'[c]]
  BY Zenon DEF PreviewInv
<1>3. ClientOk(c)'
  BY Zenon, <1>1 DEF ClientOk, Confirmed
<1>4. ExecutedWasPreviewed'
  BY Zenon DEF PreviewInv, ExecutedWasPreviewed, is_shell
<1> QED
  BY Zenon, <1>2, <1>3, <1>4, ClientSteps

LEMMA PreviewSame ==
  ASSUME PreviewInv, UNCHANGED <<client, previewed, executed, notice, late, target>>
  PROVE  PreviewInv'
<1>1. \A c \in Clients : ClientOk(c)'
  BY Zenon DEF PreviewInv, ClientOk, is_shell, Named
<1>2. ExecutedWasPreviewed'
  BY Zenon DEF PreviewInv, ExecutedWasPreviewed, is_shell
<1> QED
  BY Zenon, <1>1, <1>2 DEF PreviewInv

(* What a client that has confirmed holds, and what it has to hold.         *)
LEMMA ConfirmedHolds ==
  ASSUME PreviewInv, NEW c \in Clients, client[c].pc \in Confirmed
  PROVE  /\ client[c] = [pc |-> client[c].pc, preview |-> previewed[c]]
         /\ client[c].preview = previewed[c]
         /\ client[c].pc # "acknowledge" => (is_shell(previewed[c].command) => notice)
         /\ c \notin late => Named(previewed[c])
<1>1. ClientOk(c)
  BY Zenon DEF PreviewInv
<1>2. client[c].pc = "acknowledge" \/ client[c].pc = "begin" \/ client[c].pc = "queued"
  BY Zenon DEF Confirmed
<1>3. client[c] = [pc |-> client[c].pc, preview |-> previewed[c]]
  BY Zenon, <1>1, <1>2 DEF ClientOk
<1>4. client[c].preview = previewed[c]
  BY <1>3
<1> QED
  BY Zenon, <1>1, <1>2, <1>3, <1>4 DEF ClientOk

LEMMA ConfirmedOk ==
  ASSUME NEW c \in Clients, NEW stage \in Confirmed, client'[c] = [pc |-> stage, preview |-> previewed'[c]],
         stage # "acknowledge" => (is_shell(previewed[c].command) => notice)',
         c \notin late' => Named(previewed[c])'
  PROVE  ClientOk(c)'
<1>1. client'[c].pc = stage
  OBVIOUS
<1>2. /\ stage # "save" /\ stage # "preview" /\ (stage = "begin" \/ stage = "queued" => stage # "acknowledge")
  BY DEF Confirmed
<1>3. stage \in {"begin", "queued"} => stage = "begin" \/ stage = "queued"
  BY Zenon
<1> QED
  BY <1>1, <1>2, <1>3 DEF ClientOk

LEMMA ExecuteStep ==
  ASSUME PreviewInv, NEW c \in Clients, execute_run_action(c)
  PROVE  PreviewInv'
<1> DEFINE preview == run_action_preview(c)
<1>1. /\ UNCHANGED <<notice, executed, target>> /\ late' = late \ {c}
      /\ client[c].hash \in {None, previewed[c]}
  BY Zenon DEF execute_run_action, PreviewInv, ClientOk
<1>2. ExecutedWasPreviewed'
  BY Zenon, <1>1 DEF PreviewInv, ExecutedWasPreviewed, is_shell
<1>3. preview.command = client[c].command /\ Named(preview)
  BY Zenon DEF run_action_preview, Named
<1>a. \A d \in Clients \ {c} : d \in late' <=> d \in late
  BY Zenon, <1>1
<1>4. CASE previewed' = [previewed EXCEPT ![c] = preview] /\ Goes(c, Waiting)
  <2>1. previewed' = [previewed EXCEPT ![c] = previewed'[c]]
    BY Zenon, <1>4 DEF PreviewInv
  <2>2. ClientOk(c)'
    BY Zenon, <1>4 DEF PreviewInv, ClientOk, Goes, Waiting, Confirmed
  <2> QED
    BY Zenon, <1>1, <1>2, <1>4, <1>a, <2>1, <2>2, ClientSteps
<1>5. CASE /\ HashMatches(client[c].hash, preview) /\ previewed' = previewed
           /\ Goes(c, [pc |-> "acknowledge", preview |-> preview])
  <2>1. preview = previewed[c] /\ previewed' = [previewed EXCEPT ![c] = previewed'[c]]
    BY Zenon, <1>1, <1>5 DEF HashMatches, PreviewInv
  <2>2. client'[c] = [pc |-> "acknowledge", preview |-> previewed'[c]]
    BY Zenon, <1>5, <2>1 DEF PreviewInv, Goes
  <2>3. Named(previewed[c])'
    BY Zenon, <1>1, <1>3, <1>5, <2>1 DEF Named, is_shell
  <2>4. ClientOk(c)'
    BY Zenon, <2>2, <2>3, ConfirmedOk DEF Confirmed
  <2> QED
    BY Zenon, <1>1, <1>2, <1>5, <1>a, <2>1, <2>4, ClientSteps
<1>6. CASE /\ HashMatches(client[c].hash, preview) /\ previewed' = previewed
           /\ ~is_shell(client[c].command) \/ notice
           /\ Goes(c, [pc |-> "begin", preview |-> preview])
  <2>1. preview = previewed[c] /\ previewed' = [previewed EXCEPT ![c] = previewed'[c]]
    BY Zenon, <1>1, <1>6 DEF HashMatches, PreviewInv
  <2>2. client'[c] = [pc |-> "begin", preview |-> previewed'[c]]
    BY Zenon, <1>6, <2>1 DEF PreviewInv, Goes
  <2>3. is_shell(previewed'[c].command) => notice'
    BY Zenon, <1>1, <1>3, <1>6, <2>1 DEF is_shell
  <2>4. Named(previewed[c])'
    BY Zenon, <1>1, <1>3, <1>6, <2>1 DEF Named, is_shell
  <2>5. ClientOk(c)'
    BY Zenon, <2>2, <2>3, <2>4, ConfirmedOk DEF Confirmed, is_shell
  <2> QED
    BY Zenon, <1>1, <1>2, <1>6, <1>a, <2>1, <2>5, ClientSteps
<1> QED
  BY Zenon, <1>4, <1>5, <1>6 DEF execute_run_action

LEMMA AcknowledgeStep ==
  ASSUME PreviewInv, NEW c \in Clients, acknowledge_shell_notice(c)
  PROVE  PreviewInv'
<1>1. client[c] = [pc |-> "acknowledge", preview |-> previewed[c]]
  BY Zenon DEF PreviewInv, ClientOk, acknowledge_shell_notice
<1>2. /\ client'[c] = [pc |-> "begin", preview |-> previewed[c]]
      /\ previewed' = previewed /\ notice' /\ executed' = executed
      /\ late' = late /\ target' = target
  BY <1>1 DEF acknowledge_shell_notice, Goes, PreviewInv
<1>3. previewed' = [previewed EXCEPT ![c] = previewed'[c]]
  BY Zenon, <1>2 DEF PreviewInv
<1>4. ClientOk(c)'
  <2>1. c \notin late => Named(previewed[c])
    BY Zenon, ConfirmedHolds DEF acknowledge_shell_notice, Confirmed
  <2>2. c \notin late' => Named(previewed[c])'
    BY Zenon, <1>2, <2>1 DEF Named, is_shell
  <2> QED
    BY Zenon, <1>2, <2>2, ConfirmedOk DEF Confirmed
<1>5. ExecutedWasPreviewed'
  BY Zenon, <1>2 DEF PreviewInv, ExecutedWasPreviewed, is_shell
<1> QED
  BY Zenon, <1>2, <1>3, <1>4, <1>5, ClientSteps DEF acknowledge_shell_notice

LEMMA BeginStep ==
  ASSUME PreviewInv, NEW c \in Clients, BeginAction(c)
  PROVE  PreviewInv'
<1>1. /\ client[c] = [pc |-> "begin", preview |-> previewed[c]]
      /\ is_shell(previewed[c].command) => notice
      /\ c \notin late => Named(previewed[c])
  BY Zenon, ConfirmedHolds DEF BeginAction, Confirmed
<1>2. UNCHANGED <<previewed, notice, executed, late, target>>
  BY Zenon DEF BeginAction
<1>3. CASE Goes(c, Waiting)
  BY Zenon, <1>2, <1>3, ClientGoes DEF Waiting
<1>4. CASE Goes(c, [client[c] EXCEPT !.pc = "queued"])
  <2>1. client'[c] = [pc |-> "queued", preview |-> previewed[c]]
    BY <1>1, <1>4 DEF PreviewInv, Goes
  <2>2. previewed' = [previewed EXCEPT ![c] = previewed'[c]]
    BY Zenon, <1>2 DEF PreviewInv
  <2>3. ClientOk(c)'
    <3>1. /\ (is_shell(previewed[c].command) => notice)'
          /\ c \notin late' => Named(previewed[c])'
      BY Zenon, <1>1, <1>2 DEF Named, is_shell
    <3> QED
      BY Zenon, <1>2, <2>1, <3>1, ConfirmedOk DEF Confirmed
  <2>4. ExecutedWasPreviewed'
    BY Zenon, <1>2 DEF PreviewInv, ExecutedWasPreviewed, is_shell
  <2> QED
    BY Zenon, <1>2, <1>4, <2>2, <2>3, <2>4, ClientSteps
<1> QED
  BY Zenon, <1>3, <1>4 DEF BeginAction

LEMMA RunChildStep ==
  ASSUME PreviewInv, NEW c \in Clients, RunChild(c)
  PROVE  PreviewInv'
<1> DEFINE reads == IF is_shell(previewed[c].command) THEN None ELSE target
<1>0. client[c].pc = "queued" /\ client[c].pc \in Confirmed /\ client[c].pc # "acknowledge"
  BY DEF RunChild, Confirmed
<1>1. /\ client[c].preview = previewed[c]
      /\ is_shell(previewed[c].command) => notice
      /\ c \notin late => previewed[c].target = reads
  BY Zenon, <1>0, ConfirmedHolds DEF Named
<1>2. Goes(c, Waiting) /\ UNCHANGED <<previewed, notice, late, target>>
  BY Zenon DEF RunChild
<1>3. previewed' = [previewed EXCEPT ![c] = previewed'[c]]
  BY Zenon, <1>2 DEF PreviewInv
<1>4. ClientOk(c)'
  BY Zenon, <1>2 DEF PreviewInv, ClientOk, Goes, Waiting, Confirmed
<1>5. ExecutedWasPreviewed'
  <2>1. CASE executed' = executed
    BY Zenon, <1>2, <2>1 DEF PreviewInv, ExecutedWasPreviewed, is_shell
  <2>2. CASE executed' = [what |-> previewed[c], shown |-> previewed[c], late |-> c \in late,
                          reads |-> reads]
    <3> HIDE DEF reads
    <3> QED
      BY <1>1, <1>2, <2>2 DEF ExecutedWasPreviewed, is_shell
  <2> QED
    BY Zenon, <1>1, <2>1, <2>2 DEF RunChild
<1> QED
  BY Zenon, <1>2, <1>3, <1>4, <1>5, ClientSteps

LEMMA RequestStep ==
  ASSUME PreviewInv, RequestsNext
  PROVE  PreviewInv'
<1>1. PICK c \in Clients :
        \/ create_run_action(c) \/ update_run_action(c) \/ delete_run_action(c)
        \/ update(c) \/ delete(c)
        \/ Truncate(c) \/ save_result(c)
        \/ LoadAction(c) \/ execute_run_action(c) \/ acknowledge_shell_notice(c) \/ BeginAction(c)
        \/ RunChild(c)
  BY Zenon DEF RequestsNext
<1>2. CASE create_run_action(c)
  <2>1. PICK n, command : Goes(c, [pc |-> "save", scripts |-> Put(project, n, command)])
    BY Zenon, <1>2 DEF create_run_action
  <2> QED
    BY Zenon, <1>2, <2>1, ClientGoes DEF create_run_action
<1>3. CASE update_run_action(c) \/ delete_run_action(c)
  <2>1. PICK n, command : CheckExisting(c, n, command)
    BY Zenon, <1>3 DEF update_run_action, delete_run_action
  <2> QED
    BY Zenon, <2>1, ClientGoes DEF CheckExisting
<1>4. CASE update(c)
  <2>1. \/ Goes(c, [pc |-> "save", scripts |-> Put(project, client[c].name, client[c].command)])
        \/ Goes(c, Waiting)
    BY Zenon, <1>4 DEF update
  <2> QED
    BY Zenon, <1>4, <2>1, ClientGoes DEF update, Waiting
<1>5. CASE delete(c)
  <2>1. \/ Goes(c, [pc |-> "save", scripts |-> Without(project, client[c].name)])
        \/ Goes(c, Waiting)
    BY Zenon, <1>5 DEF delete
  <2> QED
    BY Zenon, <1>5, <2>1, ClientGoes DEF delete, Waiting
<1>6. CASE Truncate(c)
  <2>1. client[c] = [pc |-> "save", scripts |-> client[c].scripts]
    BY Zenon, <1>6 DEF Truncate, PreviewInv, ClientOk
  <2>2. [client[c] EXCEPT !.pc = "write"].pc = "write"
    BY Zenon, <2>1
  <2> QED
    BY Zenon, <1>6, <2>2, ClientGoes DEF Truncate
<1>7. CASE save_result(c)
  BY Zenon, <1>7, ClientGoes DEF save_result, Waiting
<1>8. CASE LoadAction(c)
  <2>1. PICK n \in DOMAIN project, hash \in {None, previewed[c]} :
          Goes(c, [pc |-> "preview", name |-> n, command |-> project[n], hash |-> hash])
    BY Zenon, <1>8 DEF LoadAction
  <2> QED
    BY Zenon, <1>8, <2>1, ClientGoes DEF LoadAction
<1> QED
  BY Zenon, <1>1, <1>2, <1>3, <1>4, <1>5, <1>6, <1>7, <1>8, ExecuteStep, AcknowledgeStep, BeginStep,
     RunChildStep

LEMMA ActionsStart == ActionsInit => ActionsInv
<1> SUFFICES ASSUME ActionsInit PROVE ActionsInv
  BY Zenon
<1>1. GateInv
  BY Zenon DEF ActionsInit, ShellInit, GateInv
<1>2. PreviewInv
  BY Zenon DEF ActionsInit, PreviewInv, ClientOk, Waiting, ExecutedWasPreviewed, Confirmed
<1> QED
  BY Zenon, <1>1, <1>2 DEF ActionsInv

LEMMA ActionsStep ==
  ASSUME ActionsInv, [ActionsNext]_<<project, tvars, avars>>
  PROVE  ActionsInv'
<1> USE DEF ActionsInv
<1>1. CASE RequestsNext
  <2>1. UNCHANGED tvars
    BY Zenon, <1>1 DEF RequestsNext, create_run_action, update_run_action, delete_run_action, CheckExisting,
                update, delete, Truncate, save_result, LoadAction, execute_run_action,
                acknowledge_shell_notice, BeginAction, RunChild
  <2>2. GateInv'
    BY Zenon, <2>1 DEF tvars, GateInv, HeldByChange, HeldByOperation
  <2> QED
    BY Zenon, <1>1, <2>2, RequestStep
<1>2. CASE edit_script \/ remove_script
  <2>1. UNCHANGED <<tvars, client, previewed, executed, notice, late, target>>
    BY Zenon, <1>2 DEF edit_script, remove_script, SaveList
  <2>2. GateInv'
    BY Zenon, <2>1 DEF tvars, GateInv, HeldByChange, HeldByOperation
  <2> QED
    BY Zenon, <2>1, <2>2, PreviewSame
<1>3. CASE ListSaved
  <2>1. UNCHANGED <<gate, jobs, running, client, previewed, executed, notice, late, target>>
    BY Zenon, <1>3 DEF ListSaved
  <2>2. GateInv'
    BY Zenon, <2>1 DEF GateInv, HeldByChange, HeldByOperation
  <2> QED
    BY Zenon, <2>1, <2>2, PreviewSame
<1>4. CASE run_script
  <2>1. PICK n \in DOMAIN Loaded :
          /\ start_operation
          /\ notice' = (notice \/ is_shell(Loaded[n]))
          /\ executed' = LET what == [name |-> n, command |-> Loaded[n], target |-> target, noticed |-> notice]
                          IN  [what |-> what, shown |-> what, late |-> FALSE, reads |-> target]
    BY Zenon, <1>4 DEF run_script
  <2>2. UNCHANGED <<client, previewed, late, target>>
    BY Zenon, <1>4 DEF run_script
  <2>3. GateInv'
    BY Zenon, <2>1, JobStarts DEF start_operation
  <2>4. ExecutedWasPreviewed'
    BY Zenon, <2>1 DEF ExecutedWasPreviewed, is_shell
  <2>5. \A c \in Clients : ClientOk(c)'
    BY Zenon, <2>1, <2>2 DEF PreviewInv, ClientOk, is_shell, Named
  <2> QED
    BY Zenon, <2>2, <2>3, <2>4, <2>5 DEF PreviewInv
<1>5. CASE RenameDeployment
  <2>1. UNCHANGED <<tvars, client, previewed, executed, notice>>
    BY Zenon, <1>5 DEF RenameDeployment
  <2>2. GateInv'
    BY Zenon, <2>1 DEF tvars, GateInv, HeldByChange, HeldByOperation
  <2>3. \A c \in Clients : client[c].pc \in Confirmed => c \in late'
    BY Zenon, <1>5 DEF RenameDeployment, Confirmed
  <2>4. \A c \in Clients : ClientOk(c)'
    BY Zenon, <2>1, <2>3 DEF PreviewInv, ClientOk, is_shell
  <2>5. ExecutedWasPreviewed'
    BY Zenon, <2>1 DEF PreviewInv, ExecutedWasPreviewed, is_shell
  <2> QED
    BY Zenon, <2>1, <2>2, <2>4, <2>5 DEF PreviewInv
<1>6. CASE (TasksNext \/ WindowNext) /\ UNCHANGED avars
  <2>1. GateInv'
    BY Zenon, <1>6, ShellStep
  <2> QED
    BY Zenon, <1>6, <2>1, PreviewSame DEF avars
<1>7. CASE UNCHANGED <<project, tvars, avars>>
  <2>1. GateInv'
    BY Zenon, <1>7 DEF tvars, GateInv, HeldByChange, HeldByOperation
  <2> QED
    BY Zenon, <1>7, <2>1, PreviewSame DEF avars
<1> QED
  BY Zenon, <1>1, <1>2, <1>3, <1>4, <1>5, <1>6, <1>7 DEF ActionsNext

(* In every state of the interface beside the API's clients the invariant   *)
(* above holds: who may hold the operation gate, and what a client that is  *)
(* past its confirmation has been shown.                                    *)
THEOREM ActionsInvariance == ActionsSpec => []ActionsInv
BY ActionsStart, ActionsStep, PTL DEF ActionsSpec

(* The operation gate is never left held by nobody (tasks.rs, app.rs): for  *)
(* any number of jobs, and whatever reports, deaths and refreshes come in   *)
(* between, some job that is not a refresh is there when the gate is held.  *)
THEOREM GateReleased == ActionsSpec => []GateIsNotStuck
<1>1. ActionsInv => GateIsNotStuck
  BY Zenon DEF ActionsInv, GateInv, HeldByChange, HeldByOperation, GateIsNotStuck
<1> QED
  BY <1>1, ActionsInvariance, PTL

(* Whatever execute_run_action starts is what the preview showed that its   *)
(* client confirmed, no shell command runs before the warning was           *)
(* acknowledged, and the child finds a bundle of another name only if the   *)
(* bundle was edited after the hash was checked, for any number of clients  *)
(* and any edits of the actions and the bundle.                             *)
THEOREM OnlyPreviewedRuns == ActionsSpec => []ExecutedWasPreviewed
<1>1. ActionsInv => ExecutedWasPreviewed
  BY Zenon DEF ActionsInv, PreviewInv
<1> QED
  BY <1>1, ActionsInvariance, PTL

-----------------------------------------------------------------------------
(* Commands and daemons.  A command line that may still do the work itself  *)
(* has sent nothing, or nothing that anybody can still read; and a request  *)
(* that nobody has read was not taken by anybody.                           *)
CallerStates ==
  [pc : {"idle", "posting", "sent", "following", "polling", "alone", "done", "failed"},
   at : Daemons \cup {None}]

Takers == SUBSET (Daemons \cup {0})

TakenOnce(c) ==
  /\ caller[c].pc \in {"idle", "posting", "alone"} => request[c] = None /\ ran[c] = {}
  /\ request[c] # None => ran[c] = {}
  /\ ran[c] = {} \/ \E d \in Daemons \cup {0} : ran[c] = {d}

DiscoveryInv ==
  /\ announced \in Daemons \cup {None}
  /\ caller \in [Terminals -> CallerStates]
  /\ request \in [Terminals -> Daemons \cup {None}]
  /\ ran \in [Terminals -> Takers]
  /\ \A c \in Terminals : TakenOnce(c)

LEMMA DiscoverySame ==
  ASSUME DiscoveryInv, announced' \in Daemons \cup {None}, UNCHANGED <<caller, request, ran>>
  PROVE  DiscoveryInv'
<1>1. \A c \in Terminals : TakenOnce(c)'
  BY Zenon DEF DiscoveryInv, TakenOnce
<1> QED
  BY Zenon, <1>1 DEF DiscoveryInv

(* A step of one command line.                                              *)
LEMMA OneCallerSteps ==
  ASSUME DiscoveryInv, announced' = announced, NEW c \in Terminals,
         NEW r \in CallerStates, NEW d \in Daemons \cup {None}, NEW t \in Takers,
         caller' = [caller EXCEPT ![c] = r], request' = [request EXCEPT ![c] = d],
         ran' = [ran EXCEPT ![c] = t], TakenOnce(c)'
  PROVE  DiscoveryInv'
<1>1. /\ caller' \in [Terminals -> CallerStates]
      /\ request' \in [Terminals -> Daemons \cup {None}]
      /\ ran' \in [Terminals -> Takers]
  BY Zenon DEF DiscoveryInv
<1>2. \A e \in Terminals \ {c} : /\ caller'[e] = caller[e] /\ request'[e] = request[e]
                                 /\ ran'[e] = ran[e]
  BY Zenon DEF DiscoveryInv
<1>3. \A e \in Terminals \ {c} : TakenOnce(e)'
  BY Zenon, <1>2 DEF DiscoveryInv, TakenOnce
<1> QED
  BY Zenon, <1>1, <1>3 DEF DiscoveryInv

LEMMA Stage ==
  ASSUME DiscoveryInv, NEW c \in Terminals, NEW pc, [caller[c] EXCEPT !.pc = pc] \in CallerStates,
         Reach(c, pc)
  PROVE  caller' = [caller EXCEPT ![c] = [caller[c] EXCEPT !.pc = pc]]
BY Zenon DEF Reach, DiscoveryInv

(* Nothing but the stage of one command line moves.                         *)
LEMMA StageMoves ==
  ASSUME DiscoveryInv, NEW c \in Terminals,
         NEW pc \in {"idle", "posting", "sent", "following", "polling", "alone", "done", "failed"},
         Reach(c, pc), UNCHANGED <<announced, request, ran>>,
         pc \in {"idle", "posting", "alone"} => caller[c].pc \in {"idle", "posting", "alone"}
  PROVE  DiscoveryInv'
<1> DEFINE r == [caller[c] EXCEPT !.pc = pc]
<1>1. r \in CallerStates /\ r.pc = pc
  BY Zenon DEF DiscoveryInv, CallerStates
<1>2. caller' = [caller EXCEPT ![c] = r] /\ caller'[c].pc = pc
  <2>1. caller' = [caller EXCEPT ![c] = r]
    BY Zenon, <1>1, Stage
  <2>2. caller'[c] = r
    BY Zenon, <2>1 DEF DiscoveryInv
  <2> QED
    BY Zenon, <1>1, <2>1, <2>2
<1>3. request' = [request EXCEPT ![c] = request[c]] /\ ran' = [ran EXCEPT ![c] = ran[c]]
  BY Zenon DEF DiscoveryInv
<1>4. TakenOnce(c)'
  BY Zenon, <1>2 DEF DiscoveryInv, TakenOnce
<1>5. request[c] \in Daemons \cup {None} /\ ran[c] \in Takers
  BY Zenon DEF DiscoveryInv
<1> HIDE DEF r
<1> QED
  BY Zenon, <1>1, <1>2, <1>3, <1>4, <1>5, OneCallerSteps

(* A request that is read, refused or lost.                                 *)
LEMMA RequestEnds ==
  ASSUME DiscoveryInv, NEW c \in Terminals, request[c] # None,
         NEW r \in CallerStates, NEW t \in Takers,
         caller' = [caller EXCEPT ![c] = r], request' = [request EXCEPT ![c] = None],
         ran' = [ran EXCEPT ![c] = t], announced' = announced,
         t = {} \/ (r = caller[c] /\ t = {request[c]})
  PROVE  DiscoveryInv'
<1>1. caller'[c] = r /\ request'[c] = None /\ ran'[c] = t
  BY Zenon DEF DiscoveryInv
<1>2. ran[c] = {} /\ request[c] \in Daemons
  BY Zenon DEF DiscoveryInv, TakenOnce
<1>3. r = caller[c] => r.pc \notin {"idle", "posting", "alone"}
  BY Zenon DEF DiscoveryInv, TakenOnce
<1>4. TakenOnce(c)'
  BY Zenon, <1>1, <1>2, <1>3 DEF TakenOnce
<1> QED
  BY Zenon, <1>4, OneCallerSteps

LEMMA CallerStep ==
  ASSUME DiscoveryInv, CallerSteps
  PROVE  DiscoveryInv'
<1>0. PICK c \in Terminals :
     \/ load_discovery(c) \/ json_request(c) \/ start_command(c) \/ ApiRefuses(c)
     \/ Answered(c) \/ ConnectionReset(c) \/ TruncatedAnswer(c) \/ ReadTimesOut(c)
     \/ wait_for_terminal_event(c) \/ execute_if_running(c) \/ RunAlone(c)
  BY Zenon DEF CallerSteps
<1>a. /\ caller[c] \in CallerStates /\ request[c] \in Daemons \cup {None} /\ ran[c] \in Takers
      /\ caller = [caller EXCEPT ![c] = caller[c]]
      /\ request = [request EXCEPT ![c] = request[c]] /\ ran = [ran EXCEPT ![c] = ran[c]]
  BY Zenon DEF DiscoveryInv
<1>b. {} \in Takers /\ (request[c] # None => ran[c] = {} /\ {request[c]} \in Takers)
  BY Zenon, <1>a DEF DiscoveryInv, TakenOnce, Takers
<1>1. CASE load_discovery(c)
  <2>1. PICK r \in {[pc |-> "posting", at |-> announced], [pc |-> "alone", at |-> None]} :
          caller' = [caller EXCEPT ![c] = r]
    BY Zenon, <1>1 DEF load_discovery
  <2>2. r \in CallerStates /\ r.pc \in {"posting", "alone"}
    BY DEF DiscoveryInv, CallerStates
  <2>3. UNCHANGED <<announced, request, ran>> /\ request[c] = None /\ ran[c] = {}
    BY Zenon, <1>1 DEF load_discovery, DiscoveryInv, TakenOnce
  <2>4. TakenOnce(c)'
    BY Zenon, <2>3 DEF TakenOnce
  <2> QED
    BY Zenon, <1>a, <2>1, <2>2, <2>3, <2>4, OneCallerSteps
<1>2. CASE json_request(c)
  <2>1. CASE request' = [request EXCEPT ![c] = caller[c].at] /\ Reach(c, "sent")
    <3> DEFINE r == [caller[c] EXCEPT !.pc = "sent"]
    <3>1. r \in CallerStates /\ r.pc = "sent" /\ caller[c].at \in Daemons \cup {None}
      BY Zenon, <1>a DEF CallerStates
    <3>2. caller' = [caller EXCEPT ![c] = r] /\ caller'[c] = r
      BY <2>1, <3>1, Stage DEF DiscoveryInv
    <3>3. UNCHANGED <<announced, ran>> /\ ran[c] = {}
      BY Zenon, <1>2 DEF json_request, DiscoveryInv, TakenOnce
    <3>4. TakenOnce(c)'
      BY Zenon, <3>1, <3>2, <3>3 DEF TakenOnce
    <3> HIDE DEF r
    <3> QED
      BY Zenon, <1>a, <2>1, <3>1, <3>2, <3>3, <3>4, OneCallerSteps
  <2>2. CASE Reach(c, NotRunning(c)) /\ UNCHANGED request
    BY Zenon, <1>2, <2>2, StageMoves DEF json_request, NotRunning
  <2> QED
    BY Zenon, <1>2, <2>1, <2>2 DEF json_request
<1>3. CASE start_command(c)
  <2>1. ran' = [ran EXCEPT ![c] = {request[c]}]
    BY Zenon, <1>3, <1>b DEF start_command, DiscoveryInv
  <2> QED
    BY Zenon, <1>3, <1>a, <1>b, <2>1, RequestEnds DEF start_command
<1>4. CASE ApiRefuses(c) \/ ConnectionReset(c)
  <2>1. /\ request[c] # None /\ request' = [request EXCEPT ![c] = None]
        /\ UNCHANGED <<announced, ran>>
        /\ caller' = caller \/ \E pc \in {"failed", "alone"} : Reach(c, pc)
    BY Zenon, <1>4 DEF ApiRefuses, ConnectionReset, NotRunning
  <2>2. CASE caller' = caller
    BY Zenon, <1>a, <1>b, <2>1, <2>2, RequestEnds
  <2>3. ASSUME NEW pc \in {"failed", "alone"}, Reach(c, pc)
        PROVE  DiscoveryInv'
    <3> DEFINE r == [caller[c] EXCEPT !.pc = pc]
    <3>1. r \in CallerStates
      BY Zenon, <1>a DEF CallerStates
    <3>2. caller' = [caller EXCEPT ![c] = r]
      BY Zenon, <2>3, <3>1, Stage
    <3> HIDE DEF r
    <3> QED
      BY Zenon, <1>a, <1>b, <2>1, <3>1, <3>2, RequestEnds
  <2> QED
    BY Zenon, <2>1, <2>2, <2>3
<1>5. CASE Answered(c)
  BY Zenon, <1>5, StageMoves DEF Answered
<1>6. CASE TruncatedAnswer(c)
  BY Zenon, <1>6, StageMoves DEF TruncatedAnswer
<1>7. CASE ReadTimesOut(c)
  BY Zenon, <1>7, StageMoves DEF ReadTimesOut
<1>8. CASE wait_for_terminal_event(c)
  BY Zenon, <1>8, StageMoves DEF wait_for_terminal_event
<1>9. CASE execute_if_running(c)
  <2>1. PICK pc \in {"done", "failed"} : Reach(c, pc)
    BY Zenon, <1>9 DEF execute_if_running, PollOutcome
  <2> QED
    BY Zenon, <1>9, <2>1, StageMoves DEF execute_if_running
<1>10. CASE RunAlone(c)
  <2> DEFINE r == [caller[c] EXCEPT !.pc = "done"]
  <2>1. r \in CallerStates /\ r.pc = "done" /\ {0} \in Takers
    BY Zenon, <1>a DEF CallerStates, Takers
  <2>2. caller' = [caller EXCEPT ![c] = r] /\ caller'[c] = r
    BY <1>10, <2>1, Stage DEF RunAlone, DiscoveryInv
  <2>3. request[c] = None /\ ran[c] = {}
    BY Zenon, <1>10 DEF RunAlone, DiscoveryInv, TakenOnce
  <2>4. ran' = [ran EXCEPT ![c] = {0}] /\ ran'[c] = {0} /\ UNCHANGED <<announced, request>>
    BY Zenon, <1>10, <2>3 DEF RunAlone, DiscoveryInv
  <2>5. TakenOnce(c)'
    BY Zenon, <2>1, <2>2, <2>3, <2>4 DEF TakenOnce
  <2> HIDE DEF r
  <2> QED
    BY Zenon, <1>a, <2>1, <2>2, <2>4, <2>5, OneCallerSteps
<1> QED
  BY Zenon, <1>0, <1>1, <1>2, <1>3, <1>4, <1>5, <1>6, <1>7, <1>8, <1>9, <1>10

LEMMA DaemonStep ==
  ASSUME DiscoveryInv, DaemonSteps
  PROVE  DiscoveryInv'
<1>0. PICK d \in Daemons :
     \/ DaemonRun(d) \/ ServiceRestarts(d) \/ WriteToken(d) \/ discovery_listener_is_active(d)
     \/ start_with_backend(d) \/ BindFails(d) \/ daemon_stop(d) \/ cancel_and_wait(d)
     \/ ReadOwnDiscovery(d) \/ remove_discovery_if_owned(d) \/ ProcessKilled(d) \/ install_systemd(d)
  BY Zenon DEF DaemonSteps
<1>1. CASE DaemonRun(d) \/ ServiceRestarts(d) \/ install_systemd(d)
  BY Zenon, <1>1, DiscoverySame DEF DaemonRun, ServiceRestarts, install_systemd, DiscoveryInv
<1>2. CASE WriteToken(d) \/ discovery_listener_is_active(d) \/ BindFails(d)
  BY Zenon, <1>2, DiscoverySame DEF WriteToken, discovery_listener_is_active, BindFails, DiscoveryInv
<1>3. CASE start_with_backend(d)
  BY Zenon, <1>3, DiscoverySame DEF start_with_backend, write_discovery
<1>4. CASE daemon_stop(d) \/ cancel_and_wait(d) \/ ReadOwnDiscovery(d) \/ ProcessKilled(d)
  BY Zenon, <1>4, DiscoverySame DEF daemon_stop, cancel_and_wait, ReadOwnDiscovery, ProcessKilled, DiscoveryInv
<1>5. CASE remove_discovery_if_owned(d)
  BY Zenon, <1>5, DiscoverySame DEF remove_discovery_if_owned
<1> QED
  BY Zenon, <1>0, <1>1, <1>2, <1>3, <1>4, <1>5

LEMMA DiscoveryStep ==
  ASSUME DiscoveryInv, [DiscoveryNext]_dvars
  PROVE  DiscoveryInv'
<1>1. CASE InstallSteps
  <2>1. UNCHANGED <<announced, caller, request, ran>>
    BY Zenon, <1>1 DEF InstallSteps, StopsDaemon, NoneAnswers, install, BecomesReady, InstallAgain
  <2> QED
    BY Zenon, <2>1, DiscoverySame DEF DiscoveryInv
<1>2. CASE UNCHANGED dvars
  BY Zenon, <1>2, DiscoverySame DEF dvars, DiscoveryInv
<1> QED
  BY Zenon, <1>1, <1>2, DaemonStep, CallerStep DEF DiscoveryNext

(* In every state: a command line that may still fall back has no request   *)
(* out and nobody took its command, and a request that was not read was not *)
(* taken.                                                                   *)
THEOREM DiscoveryInvariance == DiscoverySpec => []DiscoveryInv
<1>1. DiscoveryInit => DiscoveryInv
  BY DEF DiscoveryInit, DiscoveryInv, CallerStates, Takers, TakenOnce
<1> QED
  BY <1>1, DiscoveryStep, PTL DEF DiscoverySpec

(* execute_if_running: however many daemons are started, stopped, restarted *)
(* and killed, and whichever probes, requests and answers are lost, every   *)
(* command is done by one of them or by the command line, never twice.      *)
THEOREM CommandTakenOnce == DiscoverySpec => []CommandsRunOnce
<1>1. DiscoveryInv => CommandsRunOnce
  BY Zenon DEF DiscoveryInv, TakenOnce, CommandsRunOnce
<1> QED
  BY <1>1, DiscoveryInvariance, PTL
=============================================================================

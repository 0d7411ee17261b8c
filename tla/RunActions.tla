----------------------------- MODULE RunActions ------------------------------
(***************************************************************************)
(* Run actions: named commands in .apmpr/run-scripts.yaml.  The API lists, *)
(* creates, replaces, deletes, previews and executes them; the terminal    *)
(* interface edits and runs them out of the list it loaded last.  The file *)
(* is rewritten in place by whoever saves, so a reader can find it empty,  *)
(* and it is read anew by every request.  An API client executes by        *)
(* sending back the hash of a preview; a hash is modelled by what it is a  *)
(* hash of.  Of the bundle that covers the path and the deployment's name; *)
(* the rest of it is not part of the model.  What is begun waits for its   *)
(* turn, and the process that runs it reads the bundle anew.  A collection *)
(* of actions is a function from names to commands.                        *)
(***************************************************************************)
EXTENDS TerminalShell, Functions

CONSTANTS ActionNames, Structured, Shell, Targets, Clients, Truncated, MaxSaves

VARIABLES
  notice,    \* the shell warning was acknowledged
  target,    \* the name of the deployment in the bundle
  client,    \* what each client's request, or the action it began, is in the middle of
  saving,    \* the list the interface is writing, or None
  saves,     \* how often the file was rewritten, bounded
  previewed, \* the preview each client was shown last, or None
  late,      \* clients whose bundle was edited after their confirmation was checked
  executed   \* what was started last, and the preview behind it, or None

avars == <<notice, target, client, saving, saves, previewed, late, executed>>

Commands == Structured \cup Shell
Waiting == [pc |-> "rest"]

(* The file and the window's list of it, empty or with an action.           *)
ActionsInit ==
  /\ project \in {<<>>} \cup [{CHOOSE n \in ActionNames : TRUE} -> Commands]
  /\ ShellInit
  /\ notice = FALSE /\ target \in Targets
  /\ client = [c \in Clients |-> Waiting]
  /\ saving = None /\ saves = 0 /\ previewed = [c \in Clients |-> None]
  /\ late = {} /\ executed = None

-----------------------------------------------------------------------------
(* A file cut short does not parse.                                         *)
load_result == project # Truncated

is_shell(command) == command \in Shell

Put(scripts, n, command) == [m \in DOMAIN scripts \cup {n} |-> IF m = n THEN command ELSE scripts[m]]
Without(scripts, n) == Restrict(scripts, DOMAIN scripts \ {n})

Goes(c, record) == client' = [client EXCEPT ![c] = record]

(* HTTP clients create and replace structured actions only.                 *)
create_run_action(c) ==
  /\ client[c] = Waiting /\ load_result /\ saves < MaxSaves
  /\ \E n \in ActionNames \ DOMAIN project, command \in Structured :
       Goes(c, [pc |-> "save", scripts |-> Put(project, n, command)])
  /\ UNCHANGED <<project, notice, target, saving, saves, previewed, late, executed, tvars>>

(* The kind of the existing action is looked at in one read of the file ... *)
CheckExisting(c, n, command) ==
  /\ client[c] = Waiting /\ load_result /\ saves < MaxSaves
  /\ n \in DOMAIN project /\ ~is_shell(project[n])
  /\ Goes(c, [pc |-> "change", name |-> n, command |-> command])
  /\ UNCHANGED <<project, notice, target, saving, saves, previewed, late, executed, tvars>>

update_run_action(c) == \E n \in ActionNames, command \in Structured : CheckExisting(c, n, command)
delete_run_action(c) == \E n \in ActionNames : CheckExisting(c, n, None)

(* ... and it is replaced, or removed, in another.                          *)
update(c) ==
  /\ client[c].pc = "change" /\ client[c].command # None
  /\ IF load_result /\ client[c].name \in DOMAIN project
     THEN Goes(c, [pc |-> "save", scripts |-> Put(project, client[c].name, client[c].command)])
     ELSE Goes(c, Waiting)
  /\ UNCHANGED <<project, notice, target, saving, saves, previewed, late, executed, tvars>>

delete(c) ==
  /\ client[c].pc = "change" /\ client[c].command = None
  /\ IF load_result /\ client[c].name \in DOMAIN project
     THEN Goes(c, [pc |-> "save", scripts |-> Without(project, client[c].name)])
     ELSE Goes(c, Waiting)
  /\ UNCHANGED <<project, notice, target, saving, saves, previewed, late, executed, tvars>>

(* fs::write: the file is cut to nothing, then filled.                      *)
Truncate(c) ==
  /\ client[c].pc = "save" /\ saves < MaxSaves
  /\ project' = Truncated /\ saves' = saves + 1
  /\ Goes(c, [client[c] EXCEPT !.pc = "write"])
  /\ UNCHANGED <<notice, target, saving, previewed, late, executed, tvars>>

save_result(c) ==
  /\ client[c].pc = "write"
  /\ project' = client[c].scripts
  /\ Goes(c, Waiting)
  /\ UNCHANGED <<notice, target, saving, saves, previewed, late, executed, tvars>>

-----------------------------------------------------------------------------
(* An execution loads the action, confirmed with a hash or not at all.      *)
LoadAction(c) ==
  /\ client[c] = Waiting /\ load_result
  /\ \E n \in DOMAIN project, hash \in {None, previewed[c]} :
       Goes(c, [pc |-> "preview", name |-> n, command |-> project[n], hash |-> hash])
  /\ UNCHANGED <<project, notice, target, saving, saves, previewed, late, executed, tvars>>

(* A shell action runs in the project, whatever the bundle is.              *)
run_action_preview(c) ==
  [name |-> client[c].name, command |-> client[c].command, noticed |-> notice,
   target |-> IF is_shell(client[c].command) THEN None ELSE target]

AnyHash(hash, preview) == hash # None
HashMatches(hash, preview) == hash # None /\ hash = preview

(* Every refusal carries the preview.                                       *)
execute_run_action(c) ==
  /\ client[c].pc = "preview"
  /\ LET preview == run_action_preview(c)
     IN  \/ /\ ~HashMatches(client[c].hash, preview)
            /\ previewed' = [previewed EXCEPT ![c] = preview] /\ Goes(c, Waiting)
         \/ /\ HashMatches(client[c].hash, preview)
            /\ is_shell(client[c].command) /\ ~notice
            /\ \/ previewed' = [previewed EXCEPT ![c] = preview] /\ Goes(c, Waiting)
               \/ previewed' = previewed /\ Goes(c, [pc |-> "acknowledge", preview |-> preview])
         \/ /\ HashMatches(client[c].hash, preview)
            /\ ~is_shell(client[c].command) \/ notice
            /\ previewed' = previewed /\ Goes(c, [pc |-> "begin", preview |-> preview])
  /\ late' = late \ {c}
  /\ UNCHANGED <<project, notice, target, saving, saves, executed, tvars>>

acknowledge_shell_notice(c) ==
  /\ client[c].pc = "acknowledge"
  /\ notice' = TRUE
  /\ Goes(c, [client[c] EXCEPT !.pc = "begin"])
  /\ UNCHANGED <<project, target, saving, saves, previewed, late, executed, tvars>>

(* begin_operation takes the command that was loaded, or refuses.           *)
BeginAction(c) ==
  /\ client[c].pc = "begin"
  /\ Goes(c, [client[c] EXCEPT !.pc = "queued"]) \/ Goes(c, Waiting)
  /\ UNCHANGED <<project, notice, target, saving, saves, previewed, late, executed, tvars>>

(* Cancelled in the queue, or a child process that is told the path of the  *)
(* bundle and reads it.                                                     *)
RunChild(c) ==
  /\ client[c].pc = "queued"
  /\ \/ executed' = [what |-> client[c].preview, shown |-> previewed[c], late |-> c \in late,
                     reads |-> IF is_shell(client[c].preview.command) THEN None ELSE target]
     \/ executed' = executed
  /\ Goes(c, Waiting)
  /\ UNCHANGED <<project, notice, target, saving, saves, previewed, late, tvars>>

-----------------------------------------------------------------------------
(* The interface saves the list it has, whatever the file holds by now; a   *)
(* file it could not read is an empty list.                                 *)
Loaded == IF view = Truncated THEN <<>> ELSE view

SaveList(scripts) ==
  /\ ~gate /\ saving = None /\ saves < MaxSaves
  /\ project' = Truncated /\ saving' = scripts /\ saves' = saves + 1
  /\ UNCHANGED <<notice, target, client, previewed, late, executed, tvars>>

edit_script == \E n \in ActionNames, command \in Commands : SaveList(Put(Loaded, n, command))

remove_script == \E n \in DOMAIN Loaded : SaveList(Without(Loaded, n))

ListSaved ==
  /\ saving # None
  /\ project' = saving /\ view' = saving /\ saving' = None
  /\ UNCHANGED <<notice, target, client, saves, previewed, late, executed, gate, jobs, started, running, moving, report>>

run_script ==
  /\ saving = None
  /\ \E n \in DOMAIN Loaded :
       /\ start_operation
       /\ notice' = (notice \/ is_shell(Loaded[n]))
       /\ executed' = LET what == [name |-> n, command |-> Loaded[n], target |-> target, noticed |-> notice]
                       IN  [what |-> what, shown |-> what, late |-> FALSE, reads |-> target]
  /\ UNCHANGED <<project, target, client, saving, saves, previewed, late, view, moving, report>>

(* The bundle is edited and names another deployment.                       *)
RenameDeployment ==
  /\ target' \in Targets \ {target}
  /\ late' = late \cup {c \in Clients : client[c].pc \in {"acknowledge", "begin", "queued"}}
  /\ UNCHANGED <<project, notice, client, saving, saves, previewed, executed, tvars>>

RequestsNext ==
  \E c \in Clients :
    \/ create_run_action(c) \/ update_run_action(c) \/ delete_run_action(c)
    \/ update(c) \/ delete(c)
    \/ Truncate(c) \/ save_result(c)
    \/ LoadAction(c) \/ execute_run_action(c) \/ acknowledge_shell_notice(c) \/ BeginAction(c)
    \/ RunChild(c)

ActionsNext ==
  \/ RequestsNext
  \/ edit_script \/ remove_script \/ ListSaved \/ run_script \/ RenameDeployment
  \/ TasksNext /\ UNCHANGED avars
  \/ saving = None /\ WindowNext /\ UNCHANGED avars

ActionsSpec == ActionsInit /\ [][ActionsNext]_<<project, tvars, avars>>

-----------------------------------------------------------------------------
(* Whatever the API starts, its client was shown: that action, with that    *)
(* command, for the deployment that the bundle named when the hash was      *)
(* checked, in that state of the shell warning; and no shell action is      *)
(* started before the warning was acknowledged.  Edits of the actions do    *)
(* not slip under a confirmation (execute_run_action).  An edit of the      *)
(* bundle does once the hash was checked, and only then: the child reads a  *)
(* bundle of another name than the preview's only if it was edited later.   *)
ExecutedWasPreviewed ==
  executed # None =>
    /\ executed.what = executed.shown
    /\ is_shell(executed.what.command) => notice
    /\ executed.reads # executed.shown.target => executed.late
=============================================================================

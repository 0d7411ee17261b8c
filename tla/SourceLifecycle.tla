--------------------------- MODULE SourceLifecycle ---------------------------
(***************************************************************************)
(* Registered sources, their clones and worktrees (apmpr-sources).  The    *)
(* daemon's handlers hold its store lock for the whole of a request; its   *)
(* clone operations, the terminal interface and `up` open the store for    *)
(* themselves, so their steps interleave with everyone else's and with the *)
(* user, who edits and commits in the directories meanwhile.  A directory  *)
(* is what Git says of it: its kind, its repository, its commit, whether   *)
(* it has uncommitted changes.                                             *)
(***************************************************************************)
EXTENDS Nothing, Naturals, FiniteSets

CONSTANTS SourceNames, HomeName, SourceClients, SshHosts, HostKeys, MaxCommits

VARIABLES
  registered,  \* rows of registered_sources, by name
  disk,        \* the directory at each place
  task,        \* what each client is in the middle of
  hostKeys,    \* the fingerprints that each SSH host offers
  approval     \* the fingerprint shown for approval, and the retry it is sent with

svars == <<registered, disk, task, hostKeys, approval>>

CloneAt(n) == <<"clones", n>>
WorktreeAt(n) == <<"worktrees", n>>
UserRepository == <<"outside", "repository">>
DeploymentSource == <<"project", "source">>

Places ==
  {CloneAt(n) : n \in SourceNames} \cup {WorktreeAt(n) : n \in SourceNames}
    \cup {UserRepository, DeploymentSource}

(* What is at a place, unless there is nothing.                              *)
Directories ==
  [kind : {"repository", "bare", "linked", "broken"}, of : Places, commit : Nat, dirty : BOOLEAN]

(* Nothing is no directory; the fingerprints of a host are ordered.          *)
ASSUME SourceAssumption ==
  /\ None \notin Directories
  /\ HostKeys \subseteq Nat /\ None \notin HostKeys
  /\ HostKeys # {}

Row(kind, p, repository) == [kind |-> kind, path |-> p, repository |-> repository]

Unoccupied == [op |-> "idle"]

(* An approval is of a host and a key; changed says whether that host has     *)
(* taken the key away since, asked and scan are the host of the retry and     *)
(* what its scan listed.                                                      *)
Unasked ==
  [host |-> None, key |-> None, changed |-> FALSE, asked |-> None, scan |-> {}, verdict |-> "none"]

(* The user's own repository is registered, as HomeName.                    *)
SourcesInit ==
  /\ registered = [n \in SourceNames |->
       IF n = HomeName THEN Row("unmanaged", UserRepository, UserRepository) ELSE None]
  /\ disk = [p \in Places |-> IF p = UserRepository
                              THEN [kind |-> "repository", of |-> p, commit |-> 0, dirty |-> FALSE]
                              ELSE None]
  /\ task = [c \in SourceClients |-> Unoccupied]
  /\ hostKeys = [h \in SshHosts |-> HostKeys]
  /\ approval = Unasked

-----------------------------------------------------------------------------
(* What Git says of a place.                                                *)
Exists(p) == disk[p] # None

(* A linked worktree is no repository any more once its repository is gone. *)
IsRepository(p) == Exists(p) /\ disk[p].kind # "broken"

(* A bare repository has no status, and neither has what is not one.        *)
Inspected(p) == IsRepository(p) /\ disk[p].kind # "bare"

IsLinked(p) == Inspected(p) /\ disk[p].kind = "linked"

parse_dirty(p) == disk[p].dirty

(* The repository that a checkout shares.                                   *)
canonical_git_common_dir(p) == disk[p].of

(* The directories after the one at p is deleted.                           *)
Deleted(p) ==
  [q \in Places |->
     IF q = p THEN None
     ELSE IF disk[q] # None /\ disk[q].kind = "linked" /\ disk[q].of = p
       THEN [disk[q] EXCEPT !.kind = "broken"]
       ELSE disk[q]]

worktree_add(p, repository) ==
  disk' = [disk EXCEPT ![p] = [kind |-> "linked", of |-> canonical_git_common_dir(repository),
                               commit |-> disk[repository].commit, dirty |-> FALSE]]

(* `git worktree remove` refuses a worktree with changes by itself.         *)
worktree_remove(p) ==
  disk' = IF IsLinked(p) /\ ~parse_dirty(p) THEN Deleted(p) ELSE disk

-----------------------------------------------------------------------------
(* The daemon's handlers exclude one another; the others only SQLite does.  *)
StoreFree == \A c \in SourceClients : ~("held" \in DOMAIN task[c] /\ task[c].held)

Registrable(n, p) ==
  registered[n] = None
    /\ \A m \in SourceNames : registered[m] # None => registered[m].path # p

RepositoryOf(n) == IF registered[n].repository # None THEN registered[n].repository ELSE registered[n].path

register_unmanaged(n, p) ==
  /\ Exists(p) /\ Registrable(n, p)
  /\ registered' = [registered EXCEPT ![n] = Row("unmanaged", p, IF Inspected(p) THEN p ELSE None)]
  /\ UNCHANGED <<disk, task, hostKeys, approval>>

Deregistrable(n) ==
  registered[n] # None /\ ~(registered[n].kind = "managed" /\ Exists(registered[n].path))

deregister(n) ==
  /\ Deregistrable(n)
  /\ registered' = [registered EXCEPT ![n] = None]
  /\ UNCHANGED <<disk, task, hostKeys, approval>>

(* Only a free place below the managed root is created.                     *)
MayCreate(p, root) == p[1] = root /\ ~Exists(p)

(* The interface first looks for a name that nothing is registered under.   *)
unique_source_name(n) == registered[n] = None

create_worktree_inner(c, n, source, p, held) ==
  /\ task[c] = Unoccupied
  /\ registered[source] # None
  /\ MayCreate(p, "worktrees")
  /\ IsRepository(RepositoryOf(source))
  /\ worktree_add(p, RepositoryOf(source))
  /\ task' = [task EXCEPT ![c] =
       [op |-> "worktree", held |-> held, name |-> n, place |-> p, repository |-> RepositoryOf(source)]]
  /\ UNCHANGED <<registered, hostKeys, approval>>

(* A checkout that cannot be registered is taken back, if it is still clean. *)
RecordWorktree(c) ==
  LET t == task[c] IN
  /\ t.op = "worktree"
  /\ IF Registrable(t.name, t.place)
       THEN /\ registered' = [registered EXCEPT ![t.name] = Row("managed", t.place, t.repository)]
            /\ UNCHANGED disk
       ELSE worktree_remove(t.place) /\ UNCHANGED registered
  /\ task' = [task EXCEPT ![c] = Unoccupied]
  /\ UNCHANGED <<hostKeys, approval>>

-----------------------------------------------------------------------------
(* Removal: guard_mutation, a second inspection, then the deletion.         *)
guard_removal(n, allowDirty) ==
  /\ registered[n] # None /\ registered[n].kind = "managed"
  /\ Inspected(registered[n].path)
  /\ parse_dirty(registered[n].path) => allowDirty

BeginRemove(c, n, allowDirty, held, forget) ==
  /\ task[c] = Unoccupied
  /\ guard_removal(n, allowDirty)
  /\ task' = [task EXCEPT ![c] =
       [op |-> "remove", held |-> held, forget |-> forget, name |-> n, allowed |-> allowDirty,
        place |-> registered[n].path, sawDirty |-> parse_dirty(registered[n].path)]]
  /\ UNCHANGED <<registered, disk, hostKeys, approval>>

(* Is it a linked worktree?  An inspection that fails says that it is not,  *)
(* like that of a worktree whose repository is gone by now.                 *)
InspectRemoved(c) ==
  /\ task[c].op = "remove"
  /\ \E linked \in {IsLinked(task[c].place), FALSE} :
       task' = [task EXCEPT ![c] =
         [op |-> "delete", held |-> task[c].held, forget |-> task[c].forget, name |-> task[c].name,
          allowed |-> task[c].allowed, place |-> task[c].place, sawDirty |-> task[c].sawDirty,
          linked |-> linked]]
  /\ UNCHANGED <<registered, disk, hostKeys, approval>>

(* The defect that clears a clean worktree like any other directory.        *)
DeleteDirectory(p, linked, sawDirty) == disk' = Deleted(p)

DeleteCheckout(p, linked, sawDirty) ==
  IF linked /\ ~sawDirty THEN worktree_remove(p) ELSE disk' = Deleted(p)

FinishRemove(c) ==
  LET t == task[c] IN
  /\ t.op = "delete"
  /\ DeleteCheckout(t.place, t.linked, t.sawDirty)
  /\ registered' = IF t.forget /\ disk'[t.place] = None
                     THEN [registered EXCEPT ![t.name] = None] ELSE registered
  /\ task' = [task EXCEPT ![c] = Unoccupied]
  /\ UNCHANGED <<hostKeys, approval>>

-----------------------------------------------------------------------------
(* Who asks: the daemon's handlers, the terminal interface, and a command   *)
(* line that finds no daemon.                                               *)
register_source(n, p) == StoreFree /\ register_unmanaged(n, p)
register_local_source(n, p) == unique_source_name(n) /\ register_unmanaged(n, p)
SourceRegister(n, p) == register_unmanaged(n, p)

deregister_source(n) == StoreFree /\ deregister(n)
SourceDeregister(n) == deregister(n)

create_worktree(c, n, source, p) == StoreFree /\ create_worktree_inner(c, n, source, p, TRUE)
create_worktree_branch(c, n, source, p) ==
  unique_source_name(n) /\ create_worktree_inner(c, n, source, p, FALSE)
WorktreeCreate(c, n, source, p) == create_worktree_inner(c, n, source, p, FALSE)

remove_worktree(c, n, allowDirty) == StoreFree /\ BeginRemove(c, n, allowDirty, TRUE, FALSE)
WorktreeRemove(c, n, allowDirty) == BeginRemove(c, n, allowDirty, FALSE, FALSE)

(* The interface also forgets what it removed.                              *)
remove_source(c, n) ==
  /\ registered[n] # None
  /\ IF registered[n].kind = "managed" THEN BeginRemove(c, n, FALSE, FALSE, TRUE) ELSE deregister(n)

-----------------------------------------------------------------------------
(* Clones.  The daemon's take a lease on the name; nothing renews it, so it *)
(* keeps another one of that name out for 15 seconds only, and Git may take *)
(* longer at any step.                                                      *)
BeginClone(c, via, n) ==
  /\ task[c] = Unoccupied
  /\ MayCreate(CloneAt(n), "clones")
  /\ task' = [task EXCEPT ![c] =
       [op |-> "clone", step |-> "git", via |-> via, name |-> n, cancelled |-> FALSE]]
  /\ UNCHANGED <<registered, disk, hostKeys, approval>>

begin_clone_operation(c, n) == BeginClone(c, "daemon", n)

clone_source(c, n) == begin_clone_operation(c, n)

execute_interactive_clone(c, n) == unique_source_name(n) /\ BeginClone(c, "tui", n)

CancelClone(c) ==
  /\ task[c].op = "clone" /\ task[c].via = "daemon"
  /\ task' = [task EXCEPT ![c].cancelled = TRUE]
  /\ UNCHANGED <<registered, disk, hostKeys, approval>>

CloneTarget(c) == CloneAt(task[c].name)

(* Git clones into a place that nothing is at: without a terminal for the   *)
(* daemon and `up`, in the user's terminal for the interface.               *)
run_git_clone(p) == ~Exists(p) /\ Exists(UserRepository)
run_git_clone_interactive(p) == run_git_clone(p)

GitClones(c) ==
  /\ task[c].op = "clone" /\ task[c].step = "git"
  /\ IF task[c].via = "tui" THEN run_git_clone_interactive(CloneTarget(c)) ELSE run_git_clone(CloneTarget(c))
  /\ disk' = [disk EXCEPT ![CloneTarget(c)] =
       [kind |-> IF task[c].via = "up" THEN "bare" ELSE "repository", of |-> CloneTarget(c),
        commit |-> disk[UserRepository].commit, dirty |-> FALSE]]
  /\ task' = [task EXCEPT ![c].step = IF task[c].via = "up" THEN "source" ELSE "register"]
  /\ UNCHANGED <<registered, hostKeys, approval>>

(* A failing clone, also one that finds the place taken meanwhile, clears   *)
(* the place.                                                               *)
remove_failed_clone_target(c) ==
  /\ task[c].op = "clone" /\ task[c].step = "git"
  /\ disk' = Deleted(CloneTarget(c))
  /\ task' = [task EXCEPT ![c] = Unoccupied]
  /\ UNCHANGED <<registered, hostKeys, approval>>

register_clone(c) ==
  LET t == task[c]
      p == CloneTarget(c)
      done == Exists(p) /\ Registrable(t.name, p) IN
  /\ t.op = "clone" /\ t.step = "register"
  /\ registered' = IF done THEN [registered EXCEPT ![t.name] = Row("managed", p, p)] ELSE registered
  /\ task' = [task EXCEPT ![c] = IF done /\ t.cancelled THEN [t EXCEPT !.step = "undo"] ELSE Unoccupied]
  /\ UNCHANGED <<disk, hostKeys, approval>>

(* A clone that was cancelled meanwhile is removed and forgotten.           *)
UndoClone(c) ==
  LET n == task[c].name IN
  /\ task[c].op = "clone" /\ task[c].step = "undo"
  /\ disk' = IF guard_removal(n, TRUE) THEN Deleted(registered[n].path) ELSE disk
  /\ registered' = IF registered[n] # None
                        /\ ~(registered[n].kind = "managed" /\ disk'[registered[n].path] # None)
                     THEN [registered EXCEPT ![n] = None] ELSE registered
  /\ task' = [task EXCEPT ![c] = Unoccupied]
  /\ UNCHANGED <<hostKeys, approval>>

-----------------------------------------------------------------------------
(* `up` prepares the repository and the worktree of a deployment's source.  *)
ensure_managed_clone(c, n) ==
  /\ task[c] = Unoccupied
  /\ Exists(CloneAt(n)) => canonical_git_common_dir(CloneAt(n)) = CloneAt(n)
  /\ task' = [task EXCEPT ![c] =
       [op |-> "clone", step |-> IF Exists(CloneAt(n)) THEN "source" ELSE "git", via |-> "up",
        name |-> n, cancelled |-> FALSE]]
  /\ UNCHANGED <<registered, disk, hostKeys, approval>>

(* An existing worktree must be the declared one; it is never moved.        *)
Declared(p, repository) ==
  /\ IsLinked(p) /\ canonical_git_common_dir(p) = repository
  /\ disk[p].commit = disk[repository].commit

PrepareSource(p, repository) ==
  IF Exists(p) \/ ~IsRepository(repository) THEN UNCHANGED disk ELSE worktree_add(p, repository)

ensure_deployment_worktree(c) ==
  /\ task[c].op = "clone" /\ task[c].step = "source"
  /\ PrepareSource(DeploymentSource, CloneTarget(c))
  /\ task' = [task EXCEPT ![c] =
       [op |-> "prepared",
        ready |-> IsRepository(CloneTarget(c))
                    /\ (Exists(DeploymentSource) => Declared(DeploymentSource, CloneTarget(c)))]]
  /\ UNCHANGED <<registered, hostKeys, approval>>

(* `up` goes on to plan, or reports which source it could not prepare.      *)
Prepared(c) ==
  /\ task[c].op = "prepared"
  /\ task' = [task EXCEPT ![c] = Unoccupied]
  /\ UNCHANGED <<registered, disk, hostKeys, approval>>

-----------------------------------------------------------------------------
(* The user works in a directory.                                           *)
EditFiles(p) ==
  /\ Exists(p) /\ disk[p].kind # "bare" /\ ~disk[p].dirty
  /\ disk' = [disk EXCEPT ![p].dirty = TRUE]
  /\ UNCHANGED <<registered, task, hostKeys, approval>>

CommitFiles(p) ==
  /\ Inspected(p) /\ disk[p].dirty /\ disk[p].commit < MaxCommits
  /\ disk' = [disk EXCEPT ![p] = [disk[p] EXCEPT !.dirty = FALSE, !.commit = disk[p].commit + 1]]
  /\ UNCHANGED <<registered, task, hostKeys, approval>>

-----------------------------------------------------------------------------
(* The keys of SSH hosts.  A clone of an unknown host fails and shows the   *)
(* first of the sorted fingerprints of a scan, which lists some of the keys; *)
(* an approved retry scans again and makes the keys of that scan the known   *)
(* hosts of the connection.                                                  *)
Scans(h) == (SUBSET hostKeys[h]) \ {{}}

primary_fingerprint(scan) == CHOOSE k \in scan : \A j \in scan : k <= j

ChallengeHost(h, scan) ==
  /\ approval.key = None
  /\ approval' = [Unasked EXCEPT !.host = h, !.key = primary_fingerprint(scan), !.verdict = "asked"]
  /\ UNCHANGED <<registered, disk, task, hostKeys>>

(* The defect that compares an approval with the fingerprint to show.       *)
MatchesPrimary(h, scan) == approval.host = h /\ primary_fingerprint(scan) = approval.key

matches(h, scan) == approval.host = h /\ approval.key \in scan

RetryApproved(h, scan) ==
  /\ approval.key # None /\ approval.verdict # "trusted"
  /\ approval' = [approval EXCEPT !.asked = h, !.scan = scan,
       !.verdict = IF matches(h, scan) THEN "trusted" ELSE "host_key_changed"]
  /\ UNCHANGED <<registered, disk, task, hostKeys>>

(* Git connects if the host still has one of the keys that were scanned     *)
(* (StrictHostKeyChecking); it may fail for any other reason.               *)
ConnectHost ==
  /\ approval.verdict = "trusted"
  /\ \/ /\ approval.scan \cap hostKeys[approval.asked] # {}
        /\ approval' = [approval EXCEPT !.verdict = "connected"]
     \/ approval' = [approval EXCEPT !.verdict = "clone_create_failed"]
  /\ UNCHANGED <<registered, disk, task, hostKeys>>

(* A host is given other keys.                                              *)
ChangeHostKeys(h, keys) ==
  /\ keys # hostKeys[h] /\ keys # {}
  /\ hostKeys' = [hostKeys EXCEPT ![h] = keys]
  /\ approval' = [approval EXCEPT !.changed = @ \/ (approval.host = h /\ approval.key \notin keys)]
  /\ UNCHANGED <<registered, disk, task>>

-----------------------------------------------------------------------------
SourcesNext ==
  \/ \E n \in SourceNames :
       \/ \E p \in Places : register_source(n, p) \/ register_local_source(n, p) \/ SourceRegister(n, p)
       \/ deregister_source(n) \/ SourceDeregister(n)
  \/ \E c \in SourceClients :
       \/ \E n \in SourceNames :
            \/ \E source \in SourceNames, p \in Places :
                 \/ create_worktree(c, n, source, p)
                 \/ create_worktree_branch(c, n, source, p)
                 \/ WorktreeCreate(c, n, source, p)
            \/ \E allowDirty \in BOOLEAN : remove_worktree(c, n, allowDirty) \/ WorktreeRemove(c, n, allowDirty)
            \/ remove_source(c, n)
            \/ clone_source(c, n) \/ execute_interactive_clone(c, n) \/ ensure_managed_clone(c, n)
       \/ RecordWorktree(c) \/ InspectRemoved(c) \/ FinishRemove(c) \/ CancelClone(c) \/ GitClones(c)
       \/ remove_failed_clone_target(c) \/ register_clone(c) \/ UndoClone(c)
       \/ ensure_deployment_worktree(c) \/ Prepared(c)
  \/ \E p \in Places : EditFiles(p) \/ CommitFiles(p)

HostKeysNext ==
  \/ \E h \in SshHosts :
       \/ \E scan \in Scans(h) : ChallengeHost(h, scan) \/ RetryApproved(h, scan)
       \/ \E keys \in SUBSET HostKeys : ChangeHostKeys(h, keys)
  \/ ConnectHost

SourcesSpec == SourcesInit /\ [][SourcesNext \/ HostKeysNext]_svars

-----------------------------------------------------------------------------
(* Who may throw away what stands at a place: a removal that was allowed to, *)
(* a removal that saw no changes and then found no linked worktree there (it *)
(* is a clone, its repository is gone or the inspection failed, and the      *)
(* directory is deleted without another look), a failing clone of that name, *)
(* and the undoing of a cancelled clone, which removes whatever is           *)
(* registered under its name by then.                                        *)
MayDiscard(c, p) ==
  \/ /\ task[c].op = "delete" /\ task[c].place = p
     /\ task[c].allowed \/ ~task[c].linked
  \/ /\ task[c].op = "clone" /\ task[c].step = "git" /\ CloneTarget(c) = p
  \/ /\ task[c].op = "clone" /\ task[c].step = "undo" /\ registered[task[c].name].path = p

(* What the user has in a worktree or a clone is not lost (remove,          *)
(* guard_mutation, ensure_deployment_worktree): uncommitted changes go with *)
(* the user's own commit or where MayDiscard says so and nowhere else, in   *)
(* particular not by a removal that found a linked worktree without changes *)
(* when they are made under its hands; and nothing but the user moves a     *)
(* checkout to another commit.                                              *)
WorktreesAreKept ==
  [][\A p \in Places : Exists(p) =>
       /\ disk[p].dirty /\ disk'[p] = None => \E c \in SourceClients : MayDiscard(c, p)
       /\ disk'[p] # None => \/ disk'[p].commit = disk[p].commit /\ disk'[p].dirty = disk[p].dirty
                             \/ EditFiles(p) \/ CommitFiles(p)]_svars

(* A connection made under an approval is to the host that was approved,    *)
(* with a key from a scan that listed the approved one and that the host    *)
(* still has (RetryApproved, known_hosts).  An approval is refused only if  *)
(* it is sent for another host, if its host took the key away at some time, *)
(* or if the scan had not all keys of the host (ScannedHostKey::matches     *)
(* looks at every fingerprint of a scan, not only at the one shown).        *)
ApprovalsAreHonoured ==
  [][approval'.verdict # approval.verdict =>
       /\ approval'.verdict = "connected" =>
            /\ approval'.asked = approval.host /\ approval.key \in approval.scan
            /\ approval.scan \cap hostKeys[approval.host] # {}
       /\ approval'.verdict = "host_key_changed" =>
            \/ approval'.asked # approval.host \/ approval.changed
            \/ approval'.scan # hostKeys[approval'.asked]]_svars
=============================================================================

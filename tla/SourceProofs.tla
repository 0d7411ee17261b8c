----------------------------- MODULE SourceProofs -----------------------------
(***************************************************************************)
(* Proofs about sources (SourceLifecycle): what the user has in a checkout *)
(* is kept, and an approved host key is honoured, for any number of        *)
(* clients, sources, hosts and keys.                                       *)
(***************************************************************************)
EXTENDS SourceLifecycle, NaturalsInduction, WellFoundedInduction, TLAPS

-----------------------------------------------------------------------------
(* Sources.  A removal that saw uncommitted changes was allowed to.         *)
Rows == [kind : {"managed", "unmanaged"}, path : Places, repository : Places \cup {None}]

TaskOk(t) ==
  \/ t.op \in {"idle", "prepared"}
  \/ t.op = "worktree" /\ t.name \in SourceNames /\ t.place \in Places /\ t.repository \in Places
  \/ /\ t.op \in {"remove", "delete"} /\ t.name \in SourceNames /\ t.place \in Places
     /\ t.allowed \in BOOLEAN /\ t.sawDirty \in BOOLEAN /\ (t.sawDirty => t.allowed)
  \/ /\ t.op = "clone" /\ t.name \in SourceNames
     /\ t = [op |-> "clone", step |-> t.step, via |-> t.via, name |-> t.name, cancelled |-> t.cancelled]

DiskInv == disk \in [Places -> Directories \cup {None}]

SourcesInv ==
  /\ registered \in [SourceNames -> Rows \cup {None}]
  /\ task = [c \in SourceClients |-> task[c]]
  /\ \A c \in SourceClients : TaskOk(task[c])
  /\ DiskInv

(* What WorktreesAreKept says of one place.                                 *)
PlaceKept(p) ==
  Exists(p) =>
       /\ disk[p].dirty /\ disk'[p] = None => \E c \in SourceClients : MayDiscard(c, p)
       /\ disk'[p] # None => \/ disk'[p].commit = disk[p].commit /\ disk'[p].dirty = disk[p].dirty
                             \/ EditFiles(p) \/ CommitFiles(p)

(* A place that held nothing, or still holds what it did.                   *)
LEMMA PlaceSame ==
  ASSUME NEW p \in Places, disk[p] = None \/ disk'[p] = disk[p]
  PROVE  PlaceKept(p)
BY Zenon DEF PlaceKept, Exists

LEMMA SamePlaces ==
  ASSUME DiskInv, disk' = disk
  PROVE  DiskInv' /\ \A p \in Places : PlaceKept(p)
BY Zenon, PlaceSame DEF DiskInv

(* A deletion takes one place away and breaks its worktrees, which keep     *)
(* their files and their commit.                                            *)
LEMMA DeletedPlaces ==
  ASSUME DiskInv, NEW q \in Places, disk' = Deleted(q)
  PROVE  /\ DiskInv'
         /\ disk'[q] = None
         /\ \A p \in Places \ {q} : PlaceKept(p)
<1>1. disk'[q] = None
  BY Zenon DEF Deleted
<1>2. ASSUME NEW p \in Places \ {q}
      PROVE  \/ disk'[p] = disk[p]
             \/ /\ disk[p] \in Directories /\ disk'[p] = [disk[p] EXCEPT !.kind = "broken"]
  BY Zenon DEF Deleted, DiskInv
<1>3. ASSUME NEW p \in Places
      PROVE  disk'[p] \in Directories \cup {None}
  <2>1. ASSUME disk[p] \in Directories PROVE [disk[p] EXCEPT !.kind = "broken"] \in Directories
    BY <2>1 DEF Directories
  <2>2. disk[p] \in Directories \cup {None}
    BY Zenon DEF DiskInv
  <2> QED
    BY Zenon, <1>1, <1>2, <2>1, <2>2
<1>4. disk' \in [Places -> Directories \cup {None}]
  <2>1. disk' = [p \in Places |-> disk'[p]]
    BY Zenon DEF Deleted
  <2> QED
    BY Zenon, <1>3, <2>1
<1>5. ASSUME NEW p \in Places \ {q}
      PROVE  PlaceKept(p)
  <2>1. CASE disk'[p] = disk[p]
    BY Zenon, <2>1, PlaceSame
  <2>2. CASE disk[p] \in Directories /\ disk'[p] = [disk[p] EXCEPT !.kind = "broken"]
    <3>1. disk'[p].commit = disk[p].commit /\ disk'[p].dirty = disk[p].dirty
      BY Zenon, <2>2 DEF Directories
    <3>2. disk'[p] # None
      BY Zenon, <2>2, SourceAssumption DEF Directories
    <3> QED
      BY Zenon, <3>1, <3>2 DEF PlaceKept
  <2> QED
    BY Zenon, <1>2, <2>1, <2>2
<1> QED
  BY Zenon, <1>1, <1>4, <1>5 DEF DiskInv

LEMMA WorktreeRemoved ==
  ASSUME DiskInv, NEW q \in Places, worktree_remove(q)
  PROVE  DiskInv' /\ \A p \in Places : PlaceKept(p)
<1>1. CASE disk' = disk
  BY Zenon, <1>1, SamePlaces
<1>2. CASE ~disk[q].dirty /\ disk' = Deleted(q)
  <2>1. DiskInv' /\ disk'[q] = None /\ \A p \in Places \ {q} : PlaceKept(p)
    BY Zenon, <1>2, DeletedPlaces
  <2>2. PlaceKept(q)
    BY Zenon, <1>2, <2>1 DEF PlaceKept
  <2> QED
    BY Zenon, <2>1, <2>2
<1> QED
  BY Zenon, <1>1, <1>2 DEF worktree_remove, parse_dirty

(* A new directory where there was none.                                    *)
LEMMA DirectoryAppears ==
  ASSUME DiskInv, NEW q \in Places, disk[q] = None, NEW d \in Directories,
         disk' = [disk EXCEPT ![q] = d]
  PROVE  DiskInv' /\ \A p \in Places : PlaceKept(p)
<1>1. /\ disk' \in [Places -> Directories \cup {None}]
      /\ disk'[q] = d /\ \A p \in Places \ {q} : disk'[p] = disk[p]
  BY Zenon DEF DiskInv
<1>2. \A p \in Places : PlaceKept(p)
  BY Zenon, <1>1, PlaceSame
<1> QED
  BY Zenon, <1>1, <1>2 DEF DiskInv

LEMMA WorktreeAdded ==
  ASSUME DiskInv, NEW q \in Places, disk[q] = None, NEW repository \in Places, disk[repository] # None,
         worktree_add(q, repository)
  PROVE  DiskInv' /\ \A p \in Places : PlaceKept(p)
<1> DEFINE d == [kind |-> "linked", of |-> disk[repository].of, commit |-> disk[repository].commit,
                 dirty |-> FALSE]
<1>1. d \in Directories
  BY DEF DiskInv, Directories
<1>2. disk' = [disk EXCEPT ![q] = d]
  BY Zenon DEF worktree_add, canonical_git_common_dir
<1> HIDE DEF d
<1> QED
  BY Zenon, <1>1, <1>2, DirectoryAppears

(* The user edits or commits in one place.                                  *)
LEMMA UserWorks ==
  ASSUME DiskInv, NEW q \in Places, EditFiles(q) \/ CommitFiles(q)
  PROVE  DiskInv' /\ \A p \in Places : PlaceKept(p)
<1>0. disk[q] \in Directories
  BY Zenon DEF EditFiles, CommitFiles, Inspected, IsRepository, Exists, DiskInv
<1>1. \E d \in Directories : disk' = [disk EXCEPT ![q] = d]
  <2>1. CASE EditFiles(q)
    <3> DEFINE d == [disk[q] EXCEPT !.dirty = TRUE]
    <3>1. d \in Directories
      BY Zenon, <1>0 DEF Directories
    <3>2. disk' = [disk EXCEPT ![q] = d]
      BY Zenon, <2>1 DEF EditFiles, DiskInv
    <3> QED
      BY Zenon, <3>1, <3>2
  <2>2. CASE CommitFiles(q)
    <3> DEFINE next == disk[q].commit + 1
               d == [disk[q] EXCEPT !.dirty = FALSE, !.commit = next]
    <3>0. next \in Nat
      BY <1>0 DEF Directories
    <3> HIDE DEF next
    <3>1. d \in Directories
      BY Zenon, <1>0, <3>0 DEF Directories
    <3>2. disk' = [disk EXCEPT ![q] = d]
      BY Zenon, <2>2 DEF CommitFiles, next
    <3> QED
      BY Zenon, <3>1, <3>2
  <2> QED
    BY Zenon, <2>1, <2>2
<1>2. PICK d \in Directories : disk' = [disk EXCEPT ![q] = d]
  BY Zenon, <1>1
<1>3. /\ disk' \in [Places -> Directories \cup {None}]
      /\ disk'[q] = d /\ \A p \in Places \ {q} : disk'[p] = disk[p]
  BY Zenon, <1>2 DEF DiskInv
<1>4. PlaceKept(q)
  BY Zenon, <1>3, SourceAssumption DEF PlaceKept
<1>5. \A p \in Places \ {q} : PlaceKept(p)
  BY Zenon, <1>3, PlaceSame
<1> QED
  BY Zenon, <1>3, <1>4, <1>5 DEF DiskInv

(* One client of the sources moves on.                                      *)
LEMMA OneTask ==
  ASSUME SourcesInv, NEW c \in SourceClients, NEW t, TaskOk(t), task' = [task EXCEPT ![c] = t]
  PROVE  /\ task' = [e \in SourceClients |-> task'[e]]
         /\ \A e \in SourceClients : TaskOk(task[e])'
<1>1. /\ task' = [e \in SourceClients |-> task'[e]]
      /\ task'[c] = t /\ \A e \in SourceClients \ {c} : task'[e] = task[e]
  BY Zenon DEF SourcesInv
<1>2. \A e \in SourceClients : TaskOk(task'[e])
  BY Zenon, <1>1 DEF SourcesInv
<1> QED
  BY Zenon, <1>1, <1>2 DEF TaskOk

LEMMA RegisteredRow ==
  ASSUME SourcesInv, NEW n \in SourceNames, NEW row \in Rows \cup {None},
         registered' = [registered EXCEPT ![n] = row]
  PROVE  registered' \in [SourceNames -> Rows \cup {None}]
BY Zenon DEF SourcesInv

LEMMA ManagedRow ==
  ASSUME NEW p \in Places, NEW repository \in Places \cup {None}, NEW kind \in {"managed", "unmanaged"}
  PROVE  Row(kind, p, repository) \in Rows
BY Zenon DEF Row, Rows

LEMMA RegisterStep ==
  ASSUME SourcesInv, NEW n \in SourceNames,
         (\E p \in Places : register_unmanaged(n, p)) \/ deregister(n)
  PROVE  SourcesInv' /\ \A p \in Places : PlaceKept(p)
<1>1. UNCHANGED <<disk, task>>
  BY Zenon DEF register_unmanaged, deregister
<1>2. registered' \in [SourceNames -> Rows \cup {None}]
  BY Zenon, ManagedRow, RegisteredRow DEF register_unmanaged, deregister
<1>3. DiskInv' /\ \A p \in Places : PlaceKept(p)
  BY Zenon, <1>1, SamePlaces DEF SourcesInv
<1>4. \A c \in SourceClients : TaskOk(task[c])'
  BY Zenon, <1>1 DEF SourcesInv, TaskOk
<1> QED
  BY Zenon, <1>1, <1>2, <1>3, <1>4 DEF SourcesInv

LEMMA RepositoryPlace ==
  ASSUME SourcesInv, NEW n \in SourceNames, registered[n] # None
  PROVE  RepositoryOf(n) \in Places
BY Zenon DEF RepositoryOf, SourcesInv, Rows

LEMMA CreateWorktreeStep ==
  ASSUME SourcesInv, NEW c \in SourceClients, NEW n \in SourceNames, NEW source \in SourceNames,
         NEW p \in Places, NEW held, create_worktree_inner(c, n, source, p, held)
  PROVE  SourcesInv' /\ \A q \in Places : PlaceKept(q)
<1> DEFINE repository == RepositoryOf(source)
           t == [op |-> "worktree", held |-> held, name |-> n, place |-> p, repository |-> repository]
<1>1. repository \in Places
  BY Zenon, RepositoryPlace DEF create_worktree_inner
<1>2. TaskOk(t)
  BY Zenon, <1>1 DEF TaskOk
<1>3. task' = [task EXCEPT ![c] = t] /\ registered' = registered
  BY Zenon DEF create_worktree_inner
<1>4. disk[p] = None /\ disk[repository] # None
  BY Zenon DEF create_worktree_inner, MayCreate, Exists, IsRepository
<1>5. worktree_add(p, repository)
  BY Zenon DEF create_worktree_inner
<1> HIDE DEF t, repository
<1>6. DiskInv' /\ \A q \in Places : PlaceKept(q)
  BY Zenon, <1>1, <1>4, <1>5, WorktreeAdded DEF SourcesInv
<1> QED
  BY Zenon, <1>2, <1>3, <1>6, OneTask DEF SourcesInv

LEMMA RecordWorktreeStep ==
  ASSUME SourcesInv, NEW c \in SourceClients, RecordWorktree(c)
  PROVE  SourcesInv' /\ \A p \in Places : PlaceKept(p)
<1>1. /\ task[c].name \in SourceNames /\ task[c].place \in Places /\ task[c].repository \in Places
  BY Zenon DEF RecordWorktree, SourcesInv, TaskOk
<1>2. TaskOk(Unoccupied) /\ task' = [task EXCEPT ![c] = Unoccupied]
  BY Zenon DEF RecordWorktree, TaskOk, Unoccupied
<1>3. CASE /\ registered' = [registered EXCEPT ![task[c].name] = Row("managed", task[c].place, task[c].repository)]
           /\ UNCHANGED disk
  <2>1. registered' \in [SourceNames -> Rows \cup {None}]
    BY Zenon, <1>1, <1>3, ManagedRow, RegisteredRow
  <2> QED
    BY Zenon, <1>2, <1>3, <2>1, OneTask, SamePlaces DEF SourcesInv
<1>4. CASE worktree_remove(task[c].place) /\ UNCHANGED registered
  BY Zenon, <1>1, <1>2, <1>4, OneTask, WorktreeRemoved DEF SourcesInv
<1> QED
  BY Zenon, <1>3, <1>4 DEF RecordWorktree

(* A client begins, goes on with or ends something without a directory or a *)
(* row being touched.                                                       *)
LEMMA TaskMoves ==
  ASSUME SourcesInv, NEW c \in SourceClients, NEW t, TaskOk(t), task' = [task EXCEPT ![c] = t],
         UNCHANGED <<registered, disk>>
  PROVE  SourcesInv' /\ \A p \in Places : PlaceKept(p)
BY Zenon, OneTask, SamePlaces DEF SourcesInv

LEMMA BeginRemoveStep ==
  ASSUME SourcesInv, NEW c \in SourceClients, NEW n \in SourceNames, NEW allowDirty \in BOOLEAN,
         NEW held, NEW forget, BeginRemove(c, n, allowDirty, held, forget)
  PROVE  SourcesInv' /\ \A p \in Places : PlaceKept(p)
<1> DEFINE q == registered[n].path
           t == [op |-> "remove", held |-> held, forget |-> forget, name |-> n, allowed |-> allowDirty,
                 place |-> q, sawDirty |-> parse_dirty(q)]
<1>1. q \in Places /\ disk[q] # None /\ (parse_dirty(q) => allowDirty)
  BY Zenon DEF BeginRemove, guard_removal, Inspected, IsRepository, Exists, SourcesInv, Rows
<1>2. parse_dirty(q) \in BOOLEAN
  BY Zenon, <1>1 DEF parse_dirty, SourcesInv, DiskInv, Directories
<1>3. task' = [task EXCEPT ![c] = t] /\ UNCHANGED <<registered, disk>>
  BY Zenon DEF BeginRemove
<1> HIDE DEF q
<1>4. TaskOk(t)
  BY Zenon, <1>1, <1>2 DEF TaskOk
<1> HIDE DEF t
<1> QED
  BY Zenon, <1>3, <1>4, TaskMoves

LEMMA InspectRemovedStep ==
  ASSUME SourcesInv, NEW c \in SourceClients, InspectRemoved(c)
  PROVE  SourcesInv' /\ \A p \in Places : PlaceKept(p)
<1>1. /\ task[c].name \in SourceNames /\ task[c].place \in Places
      /\ task[c].allowed \in BOOLEAN /\ task[c].sawDirty \in BOOLEAN
      /\ task[c].sawDirty => task[c].allowed
  BY Zenon DEF InspectRemoved, SourcesInv, TaskOk
<1>2. PICK linked : task' = [task EXCEPT ![c] =
        [op |-> "delete", held |-> task[c].held, forget |-> task[c].forget, name |-> task[c].name,
         allowed |-> task[c].allowed, place |-> task[c].place, sawDirty |-> task[c].sawDirty,
         linked |-> linked]]
  BY Zenon DEF InspectRemoved
<1> DEFINE t == [op |-> "delete", held |-> task[c].held, forget |-> task[c].forget,
                 name |-> task[c].name, allowed |-> task[c].allowed, place |-> task[c].place,
                 sawDirty |-> task[c].sawDirty, linked |-> linked]
<1>3. TaskOk(t)
  BY Zenon, <1>1 DEF TaskOk
<1>4. UNCHANGED <<registered, disk>>
  BY Zenon DEF InspectRemoved
<1> HIDE DEF t
<1> QED
  BY Zenon, <1>2, <1>3, <1>4, TaskMoves DEF t

LEMMA FinishRemoveStep ==
  ASSUME SourcesInv, NEW c \in SourceClients, FinishRemove(c)
  PROVE  SourcesInv' /\ \A p \in Places : PlaceKept(p)
<1> DEFINE q == task[c].place
<1>1. /\ task[c].op = "delete" /\ q \in Places /\ task[c].name \in SourceNames
      /\ task[c].sawDirty => task[c].allowed
  BY Zenon DEF FinishRemove, SourcesInv, TaskOk
<1>2. TaskOk(Unoccupied) /\ task' = [task EXCEPT ![c] = Unoccupied]
  BY Zenon DEF FinishRemove, TaskOk, Unoccupied
<1>3. registered' \in [SourceNames -> Rows \cup {None}]
  BY Zenon, <1>1, RegisteredRow DEF FinishRemove, SourcesInv
<1>4. CASE worktree_remove(q)
  <2>1. DiskInv' /\ \A p \in Places : PlaceKept(p)
    BY Zenon, <1>1, <1>4, WorktreeRemoved DEF SourcesInv
  <2> QED
    BY Zenon, <1>2, <1>3, <2>1, OneTask DEF SourcesInv
<1>5. CASE disk' = Deleted(q) /\ (task[c].linked => task[c].sawDirty)
  <2>1. DiskInv' /\ disk'[q] = None /\ \A p \in Places \ {q} : PlaceKept(p)
    BY Zenon, <1>1, <1>5, DeletedPlaces DEF SourcesInv
  <2>2. MayDiscard(c, q)
    BY Zenon, <1>1, <1>5 DEF MayDiscard
  <2>3. PlaceKept(q)
    BY Zenon, <2>1, <2>2 DEF PlaceKept
  <2> QED
    BY Zenon, <1>2, <1>3, <2>1, <2>3, OneTask DEF SourcesInv
<1> QED
  BY Zenon, <1>4, <1>5 DEF FinishRemove, DeleteCheckout

(* What a clone's record is.                                                *)
LEMMA CloneTask ==
  ASSUME SourcesInv, NEW c \in SourceClients, task[c].op = "clone"
  PROVE  /\ task[c].name \in SourceNames /\ CloneTarget(c) \in Places
         /\ \A cancelled : TaskOk([task[c] EXCEPT !.cancelled = cancelled])
         /\ \A step : TaskOk([task[c] EXCEPT !.step = step])
<1>1. /\ task[c].name \in SourceNames
      /\ task[c] = [op |-> "clone", step |-> task[c].step, via |-> task[c].via, name |-> task[c].name,
                    cancelled |-> task[c].cancelled]
  BY Zenon DEF SourcesInv, TaskOk
<1>2. CloneTarget(c) \in Places
  BY Zenon, <1>1 DEF CloneTarget, Places
<1>3. ASSUME NEW cancelled PROVE TaskOk([task[c] EXCEPT !.cancelled = cancelled])
  <2>1. [task[c] EXCEPT !.cancelled = cancelled] =
          [op |-> "clone", step |-> task[c].step, via |-> task[c].via, name |-> task[c].name,
           cancelled |-> cancelled]
    BY <1>1
  <2> QED
    BY Zenon, <1>1, <2>1 DEF TaskOk
<1>4. ASSUME NEW step PROVE TaskOk([task[c] EXCEPT !.step = step])
  <2>1. [task[c] EXCEPT !.step = step] =
          [op |-> "clone", step |-> step, via |-> task[c].via, name |-> task[c].name,
           cancelled |-> task[c].cancelled]
    BY <1>1
  <2> QED
    BY Zenon, <1>1, <2>1 DEF TaskOk
<1> QED
  BY Zenon, <1>1, <1>2, <1>3, <1>4

LEMMA BeginCloneStep ==
  ASSUME SourcesInv, NEW c \in SourceClients, NEW n \in SourceNames,
         clone_source(c, n) \/ execute_interactive_clone(c, n) \/ ensure_managed_clone(c, n)
  PROVE  SourcesInv' /\ \A p \in Places : PlaceKept(p)
<1>1. PICK step, via :
        task' = [task EXCEPT ![c] = [op |-> "clone", step |-> step, via |-> via, name |-> n, cancelled |-> FALSE]]
  <2>1. CASE clone_source(c, n)
    BY Zenon, <2>1 DEF clone_source, begin_clone_operation, BeginClone
  <2>2. CASE execute_interactive_clone(c, n)
    BY Zenon, <2>2 DEF execute_interactive_clone, BeginClone
  <2>3. CASE ensure_managed_clone(c, n)
    BY Zenon, <2>3 DEF ensure_managed_clone
  <2> QED
    BY Zenon, <2>1, <2>2, <2>3
<1>2. UNCHANGED <<registered, disk>>
  BY Zenon DEF clone_source, begin_clone_operation, execute_interactive_clone, ensure_managed_clone, BeginClone
<1> DEFINE t == [op |-> "clone", step |-> step, via |-> via, name |-> n, cancelled |-> FALSE]
<1>3. TaskOk(t)
  BY Zenon DEF TaskOk
<1> HIDE DEF t
<1> QED
  BY Zenon, <1>1, <1>2, <1>3, TaskMoves DEF t

LEMMA GitStep ==
  ASSUME SourcesInv, NEW c \in SourceClients,
         CancelClone(c) \/ GitClones(c) \/ remove_failed_clone_target(c)
  PROVE  SourcesInv' /\ \A p \in Places : PlaceKept(p)
<1>0. task[c].op = "clone"
  BY Zenon DEF CancelClone, GitClones, remove_failed_clone_target
<1>a. /\ task[c].name \in SourceNames /\ CloneTarget(c) \in Places
      /\ \A cancelled : TaskOk([task[c] EXCEPT !.cancelled = cancelled])
      /\ \A step : TaskOk([task[c] EXCEPT !.step = step])
  BY Zenon, <1>0, CloneTask
<1>b. DiskInv /\ task = [e \in SourceClients |-> task[e]]
  BY Zenon DEF SourcesInv
<1>1. CASE CancelClone(c)
  <2>1. task' = [task EXCEPT ![c] = [task[c] EXCEPT !.cancelled = TRUE]] /\ UNCHANGED <<registered, disk>>
    BY Zenon, <1>1, <1>b DEF CancelClone
  <2> QED
    BY Zenon, <1>a, <2>1, TaskMoves
<1>2. CASE GitClones(c)
  <2> DEFINE q == CloneTarget(c)
             step == IF task[c].via = "up" THEN "source" ELSE "register"
             d == [kind |-> IF task[c].via = "up" THEN "bare" ELSE "repository", of |-> q,
                   commit |-> disk[UserRepository].commit, dirty |-> FALSE]
  <2>1. disk[q] = None /\ disk[UserRepository] # None
    BY Zenon, <1>2 DEF GitClones, run_git_clone_interactive, run_git_clone, Exists
  <2>2. disk[UserRepository] \in Directories
    BY Zenon, <1>b, <2>1 DEF DiskInv, Places
  <2>3. d \in Directories
    BY Zenon, <1>a, <2>2 DEF Directories
  <2>4. disk' = [disk EXCEPT ![q] = d] /\ registered' = registered
    BY Zenon, <1>2 DEF GitClones
  <2>5. task' = [task EXCEPT ![c] = [task[c] EXCEPT !.step = step]]
    BY Zenon, <1>2, <1>b DEF GitClones
  <2>6. TaskOk([task[c] EXCEPT !.step = step])
    BY Zenon, <1>a
  <2> HIDE DEF d, q, step
  <2>7. DiskInv' /\ \A p \in Places : PlaceKept(p)
    BY Zenon, <1>a, <1>b, <2>1, <2>3, <2>4, DirectoryAppears DEF q
  <2> QED
    BY Zenon, <2>4, <2>5, <2>6, <2>7, OneTask DEF SourcesInv
<1>3. CASE remove_failed_clone_target(c)
  <2>1. TaskOk(Unoccupied) /\ task' = [task EXCEPT ![c] = Unoccupied] /\ registered' = registered
    BY Zenon, <1>3 DEF remove_failed_clone_target, TaskOk, Unoccupied
  <2>2. MayDiscard(c, CloneTarget(c))
    BY Zenon, <1>3 DEF remove_failed_clone_target, MayDiscard
  <2>3. /\ DiskInv' /\ disk'[CloneTarget(c)] = None
        /\ \A p \in Places \ {CloneTarget(c)} : PlaceKept(p)
    BY Zenon, <1>a, <1>b, <1>3, DeletedPlaces DEF remove_failed_clone_target
  <2>4. PlaceKept(CloneTarget(c))
    BY Zenon, <2>2, <2>3 DEF PlaceKept
  <2> QED
    BY Zenon, <2>1, <2>3, <2>4, OneTask DEF SourcesInv
<1> QED
  BY Zenon, <1>1, <1>2, <1>3

LEMMA RegisterCloneStep ==
  ASSUME SourcesInv, NEW c \in SourceClients, register_clone(c)
  PROVE  SourcesInv' /\ \A p \in Places : PlaceKept(p)
<1>0. task[c].op = "clone"
  BY Zenon DEF register_clone
<1>1. /\ task[c].name \in SourceNames /\ CloneTarget(c) \in Places
      /\ TaskOk([task[c] EXCEPT !.step = "undo"]) /\ TaskOk(Unoccupied)
  BY Zenon, <1>0, CloneTask DEF TaskOk, Unoccupied
<1>2. \E t \in {[task[c] EXCEPT !.step = "undo"], Unoccupied} : task' = [task EXCEPT ![c] = t]
  BY Zenon DEF register_clone
<1>3. PICK t : task' = [task EXCEPT ![c] = t] /\ TaskOk(t)
  BY Zenon, <1>1, <1>2
<1>4. \/ registered' = registered
      \/ registered' = [registered EXCEPT ![task[c].name] = Row("managed", CloneTarget(c), CloneTarget(c))]
  BY Zenon DEF register_clone
<1>5. registered' \in [SourceNames -> Rows \cup {None}]
  BY Zenon, <1>1, <1>4, ManagedRow, RegisteredRow DEF SourcesInv
<1>6. disk' = disk
  BY Zenon DEF register_clone
<1> QED
  BY Zenon, <1>3, <1>5, <1>6, OneTask, SamePlaces DEF SourcesInv

LEMMA UndoCloneStep ==
  ASSUME SourcesInv, NEW c \in SourceClients, UndoClone(c)
  PROVE  SourcesInv' /\ \A p \in Places : PlaceKept(p)
<1> DEFINE n == task[c].name
<1>0. task[c].op = "clone" /\ task[c].step = "undo"
  BY Zenon DEF UndoClone
<1>1. n \in SourceNames
  BY Zenon, <1>0, CloneTask
<1>2. TaskOk(Unoccupied) /\ task' = [task EXCEPT ![c] = Unoccupied]
  BY Zenon DEF UndoClone, TaskOk, Unoccupied
<1>3. registered' \in [SourceNames -> Rows \cup {None}]
  <2>1. registered' = registered \/ registered' = [registered EXCEPT ![n] = None]
    BY Zenon DEF UndoClone
  <2> QED
    BY Zenon, <1>1, <2>1, RegisteredRow DEF SourcesInv
<1>4. CASE disk' = disk
  BY Zenon, <1>2, <1>3, <1>4, OneTask, SamePlaces DEF SourcesInv
<1>5. CASE guard_removal(n, TRUE) /\ disk' = Deleted(registered[n].path)
  <2> DEFINE q == registered[n].path
  <2>1. q \in Places
    BY Zenon, <1>1, <1>5 DEF guard_removal, SourcesInv, Rows
  <2>2. DiskInv' /\ disk'[q] = None /\ \A p \in Places \ {q} : PlaceKept(p)
    BY Zenon, <1>5, <2>1, DeletedPlaces DEF SourcesInv
  <2>3. PlaceKept(q)
    BY Zenon, <1>0, <2>2 DEF PlaceKept, MayDiscard
  <2>4. \A p \in Places : PlaceKept(p)
    BY Zenon, <2>2, <2>3
  <2> QED
    BY Zenon, <1>2, <1>3, <2>2, <2>4, OneTask DEF SourcesInv
<1> QED
  BY Zenon, <1>4, <1>5 DEF UndoClone

LEMMA PrepareStep ==
  ASSUME SourcesInv, NEW c \in SourceClients, ensure_deployment_worktree(c) \/ Prepared(c)
  PROVE  SourcesInv' /\ \A p \in Places : PlaceKept(p)
<1>1. CASE Prepared(c)
  <2>1. TaskOk(Unoccupied) /\ task' = [task EXCEPT ![c] = Unoccupied] /\ UNCHANGED <<registered, disk>>
    BY Zenon, <1>1 DEF Prepared, TaskOk, Unoccupied
  <2> QED
    BY Zenon, <2>1, TaskMoves
<1>2. CASE ensure_deployment_worktree(c)
  <2>1. CloneTarget(c) \in Places /\ DeploymentSource \in Places
    <3>1. CloneTarget(c) \in Places
      BY Zenon, <1>2, CloneTask DEF ensure_deployment_worktree
    <3>2. DeploymentSource \in Places
      BY Zenon DEF Places
    <3> QED
      BY Zenon, <3>1, <3>2
  <2>2. PICK ready : task' = [task EXCEPT ![c] = [op |-> "prepared", ready |-> ready]]
    BY Zenon, <1>2 DEF ensure_deployment_worktree
  <2> DEFINE t == [op |-> "prepared", ready |-> ready]
  <2>3. TaskOk(t)
    BY Zenon DEF TaskOk
  <2>4. registered' = registered /\ PrepareSource(DeploymentSource, CloneTarget(c))
    BY Zenon, <1>2 DEF ensure_deployment_worktree
  <2>5. DiskInv' /\ \A p \in Places : PlaceKept(p)
    <3>1. CASE disk' = disk
      BY Zenon, <3>1, SamePlaces DEF SourcesInv
    <3>2. CASE /\ disk[DeploymentSource] = None /\ disk[CloneTarget(c)] # None
               /\ worktree_add(DeploymentSource, CloneTarget(c))
      BY Zenon, <2>1, <3>2, WorktreeAdded DEF SourcesInv
    <3> QED
      BY Zenon, <2>4, <3>1, <3>2 DEF PrepareSource, Exists, IsRepository
  <2> HIDE DEF t
  <2> QED
    BY Zenon, <2>2, <2>3, <2>4, <2>5, OneTask DEF SourcesInv, t
<1> QED
  BY Zenon, <1>1, <1>2

(* A step of a user or a client keeps the invariant and every worktree; the *)
(* steps about host keys touch neither.                                     *)
LEMMA SourcesStep ==
  ASSUME SourcesInv, [SourcesNext \/ HostKeysNext]_svars
  PROVE  SourcesInv' /\ \A p \in Places : PlaceKept(p)
<1>0. ASSUME UNCHANGED <<registered, disk, task>>
      PROVE  SourcesInv' /\ \A p \in Places : PlaceKept(p)
  <2>1. DiskInv' /\ \A p \in Places : PlaceKept(p)
    BY Zenon, <1>0, SamePlaces DEF SourcesInv
  <2>2. \A c \in SourceClients : TaskOk(task[c])'
    BY Zenon, <1>0 DEF SourcesInv, TaskOk
  <2> QED
    BY Zenon, <1>0, <2>1, <2>2 DEF SourcesInv
<1>1. CASE UNCHANGED svars
  BY Zenon, <1>0, <1>1 DEF svars
<1>2. CASE HostKeysNext
  <2>1. UNCHANGED <<registered, disk, task>>
    BY Zenon, <1>2 DEF HostKeysNext, ChallengeHost, RetryApproved, ConnectHost, ChangeHostKeys
  <2> QED
    BY Zenon, <1>0, <2>1
<1>3. ASSUME NEW n \in SourceNames,
             \/ \E p \in Places : register_source(n, p) \/ register_local_source(n, p) \/ SourceRegister(n, p)
             \/ deregister_source(n) \/ SourceDeregister(n)
      PROVE  SourcesInv' /\ \A p \in Places : PlaceKept(p)
  <2>1. (\E p \in Places : register_unmanaged(n, p)) \/ deregister(n)
    BY Zenon, <1>3 DEF register_source, register_local_source, SourceRegister, deregister_source, SourceDeregister
  <2> QED
    BY Zenon, <2>1, RegisterStep
<1>4. ASSUME NEW c \in SourceClients, NEW n \in SourceNames, NEW source \in SourceNames, NEW p \in Places,
             \/ create_worktree(c, n, source, p)
             \/ create_worktree_branch(c, n, source, p)
             \/ WorktreeCreate(c, n, source, p)
      PROVE  SourcesInv' /\ \A q \in Places : PlaceKept(q)
  <2>1. PICK held : create_worktree_inner(c, n, source, p, held)
    BY Zenon, <1>4 DEF create_worktree, create_worktree_branch, WorktreeCreate
  <2> QED
    BY Zenon, <2>1, CreateWorktreeStep
<1>5. ASSUME NEW c \in SourceClients, NEW n \in SourceNames, NEW allowDirty \in BOOLEAN,
             remove_worktree(c, n, allowDirty) \/ WorktreeRemove(c, n, allowDirty)
      PROVE  SourcesInv' /\ \A p \in Places : PlaceKept(p)
  <2>1. PICK held, forget : BeginRemove(c, n, allowDirty, held, forget)
    BY Zenon, <1>5 DEF remove_worktree, WorktreeRemove
  <2> QED
    BY Zenon, <2>1, BeginRemoveStep
<1>6. ASSUME NEW c \in SourceClients, NEW n \in SourceNames, remove_source(c, n)
      PROVE  SourcesInv' /\ \A p \in Places : PlaceKept(p)
  <2>1. BeginRemove(c, n, FALSE, FALSE, TRUE) \/ deregister(n)
    BY Zenon, <1>6 DEF remove_source
  <2> QED
    BY Zenon, <2>1, BeginRemoveStep, RegisterStep
<1>7. ASSUME NEW c \in SourceClients, NEW n \in SourceNames,
             clone_source(c, n) \/ execute_interactive_clone(c, n) \/ ensure_managed_clone(c, n)
      PROVE  SourcesInv' /\ \A p \in Places : PlaceKept(p)
  BY Zenon, <1>7, BeginCloneStep
<1>8. ASSUME NEW c \in SourceClients,
             \/ RecordWorktree(c) \/ InspectRemoved(c) \/ FinishRemove(c) \/ CancelClone(c) \/ GitClones(c)
             \/ remove_failed_clone_target(c) \/ register_clone(c) \/ UndoClone(c)
             \/ ensure_deployment_worktree(c) \/ Prepared(c)
      PROVE  SourcesInv' /\ \A p \in Places : PlaceKept(p)
  BY Zenon, <1>8, RecordWorktreeStep, InspectRemovedStep, FinishRemoveStep, GitStep, RegisterCloneStep,
     UndoCloneStep, PrepareStep
<1>9. ASSUME NEW q \in Places, EditFiles(q) \/ CommitFiles(q)
      PROVE  SourcesInv' /\ \A p \in Places : PlaceKept(p)
  <2>1. UNCHANGED <<registered, task>>
    BY Zenon, <1>9 DEF EditFiles, CommitFiles
  <2>2. DiskInv' /\ \A p \in Places : PlaceKept(p)
    BY Zenon, <1>9, UserWorks DEF SourcesInv
  <2>3. \A c \in SourceClients : TaskOk(task[c])'
    BY Zenon, <2>1 DEF SourcesInv, TaskOk
  <2> QED
    BY Zenon, <2>1, <2>2, <2>3 DEF SourcesInv
<1> QED
  BY Zenon, <1>1, <1>2, <1>3, <1>4, <1>5, <1>6, <1>7, <1>8, <1>9 DEF SourcesNext

(* The invariant of sources holds in every state: rows, tasks and           *)
(* directories are well formed, and a removal that saw changes has been     *)
(* allowed to throw them away (guard_mutation).                             *)
THEOREM SourcesInvariance == SourcesSpec => []SourcesInv
<1>1. SourcesInit => SourcesInv
  <2> SUFFICES ASSUME SourcesInit PROVE SourcesInv
    BY Zenon
  <2>1. registered \in [SourceNames -> Rows \cup {None}]
    BY Zenon DEF SourcesInit, Rows, Row, Places
  <2>2. task = [c \in SourceClients |-> task[c]] /\ \A c \in SourceClients : TaskOk(task[c])
    BY Zenon DEF SourcesInit, Unoccupied, TaskOk
  <2>3. disk \in [Places -> Directories \cup {None}]
    BY Zenon DEF SourcesInit, Directories
  <2> QED
    BY Zenon, <2>1, <2>2, <2>3 DEF SourcesInv, DiskInv
<1>2. SourcesInv /\ [SourcesNext \/ HostKeysNext]_svars => SourcesInv'
  BY Zenon, SourcesStep
<1> QED
  BY <1>1, <1>2, PTL DEF SourcesSpec

(* Uncommitted changes, in a worktree or a clone, disappear only by the     *)
(* user's commit or where MayDiscard says: in a removal that was allowed to *)
(* or found no linked worktree, in a failing clone or the undoing of a      *)
(* cancelled one; and only the user moves a checkout to another commit      *)
(* (SourceManager::remove, guard_mutation, ensure_deployment_worktree), for *)
(* any number of clients and sources.                                       *)
THEOREM WorktreesKept == SourcesSpec => WorktreesAreKept
<1> DEFINE Kept == \A p \in Places : PlaceKept(p)
<1>1. SourcesInv /\ [SourcesNext \/ HostKeysNext]_svars => [Kept]_svars
  BY Zenon, SourcesStep
<1> QED
  BY <1>1, SourcesInvariance, PTL DEF SourcesSpec, WorktreesAreKept, PlaceKept

-----------------------------------------------------------------------------
(* Host keys.  A key was offered by its host when it was shown, and is      *)
(* until the host is given other keys; a retry goes on to connect only with *)
(* a scan of that host which lists the key.                                 *)
Approvals ==
  [host : SshHosts \cup {None}, key : HostKeys \cup {None}, changed : BOOLEAN,
   asked : SshHosts \cup {None}, scan : SUBSET HostKeys,
   verdict : {"none", "asked", "trusted", "connected", "host_key_changed", "clone_create_failed"}]

ApprovalInv ==
  /\ hostKeys \in [SshHosts -> SUBSET HostKeys]
  /\ approval \in Approvals
  /\ approval.key # None =>
       /\ approval.host \in SshHosts
       /\ approval.key \in hostKeys[approval.host] \/ approval.changed
  /\ approval.verdict = "trusted" =>
       approval.key # None /\ approval.asked = approval.host /\ approval.key \in approval.scan

(* The fingerprint that is shown is one of the scan.                        *)
LEMMA PrimaryIsScanned ==
  ASSUME NEW scan \in SUBSET HostKeys, scan # {}
  PROVE  primary_fingerprint(scan) \in scan
<1> DEFINE less == {pair \in Nat \X Nat : pair[1] < pair[2]}
<1>1. scan \subseteq Nat
  BY Zenon, SourceAssumption
<1>2. IsWellFoundedOn(less, Nat)
  BY Zenon, NatLessThanWellFounded DEF OpToRel
<1>3. \A x, y \in Nat : <<y, x>> \in less <=> y < x
  BY Zenon
<1> HIDE DEF less
<1>4. PICK m \in scan : \A y \in scan : ~(<<y, m>> \in less)
  BY Zenon, <1>1, <1>2, WFMin
<1>5. \A k \in scan : m <= k
  <2> SUFFICES ASSUME NEW k \in scan PROVE m <= k
    BY Zenon
  <2>1. m \in Nat /\ k \in Nat /\ ~(k < m)
    BY Zenon, <1>1, <1>3, <1>4
  <2> QED
    BY <2>1
<1> QED
  BY Zenon, <1>4, <1>5 DEF primary_fingerprint

(* What ApprovalsAreHonoured says of a step.                                *)
Honoured ==
  approval'.verdict # approval.verdict =>
       /\ approval'.verdict = "connected" =>
            /\ approval'.asked = approval.host /\ approval.key \in approval.scan
            /\ approval.scan \cap hostKeys[approval.host] # {}
       /\ approval'.verdict = "host_key_changed" =>
            \/ approval'.asked # approval.host \/ approval.changed
            \/ approval'.scan # hostKeys[approval'.asked]

LEMMA ApprovalStep ==
  ASSUME ApprovalInv, [SourcesNext \/ HostKeysNext]_svars
  PROVE  ApprovalInv' /\ [Honoured]_svars
<1>0. ASSUME UNCHANGED <<hostKeys, approval>>
      PROVE  ApprovalInv' /\ [Honoured]_svars
  BY Zenon, <1>0 DEF ApprovalInv, Honoured
<1>1. CASE UNCHANGED svars
  BY Zenon, <1>0, <1>1 DEF svars
<1>2. CASE SourcesNext
  <2>a. ASSUME NEW n, \/ \E p \in Places : \/ register_source(n, p) \/ register_local_source(n, p)
                                           \/ SourceRegister(n, p)
                      \/ deregister_source(n) \/ SourceDeregister(n)
        PROVE  UNCHANGED <<hostKeys, approval>>
    BY Zenon, <2>a DEF register_source, register_local_source, SourceRegister, register_unmanaged,
                deregister_source, SourceDeregister, deregister
  <2>b. ASSUME NEW c, NEW n, NEW source, NEW p,
               \/ create_worktree(c, n, source, p) \/ create_worktree_branch(c, n, source, p)
               \/ WorktreeCreate(c, n, source, p)
        PROVE  UNCHANGED <<hostKeys, approval>>
    BY Zenon, <2>b DEF create_worktree, create_worktree_branch, WorktreeCreate, create_worktree_inner
  <2>c. ASSUME NEW c, NEW n,
               \/ \E allowDirty \in BOOLEAN : remove_worktree(c, n, allowDirty) \/ WorktreeRemove(c, n, allowDirty)
               \/ remove_source(c, n)
        PROVE  UNCHANGED <<hostKeys, approval>>
    BY Zenon, <2>c DEF remove_worktree, WorktreeRemove, remove_source, BeginRemove, deregister
  <2>d. ASSUME NEW c, NEW n,
               clone_source(c, n) \/ execute_interactive_clone(c, n) \/ ensure_managed_clone(c, n)
        PROVE  UNCHANGED <<hostKeys, approval>>
    BY Zenon, <2>d DEF clone_source, begin_clone_operation, BeginClone, execute_interactive_clone, ensure_managed_clone
  <2>e. ASSUME NEW c, \/ RecordWorktree(c) \/ InspectRemoved(c) \/ FinishRemove(c) \/ CancelClone(c) \/ GitClones(c)
                      \/ remove_failed_clone_target(c) \/ register_clone(c) \/ UndoClone(c)
                      \/ ensure_deployment_worktree(c) \/ Prepared(c)
        PROVE  UNCHANGED <<hostKeys, approval>>
    BY Zenon, <2>e DEF RecordWorktree, InspectRemoved, FinishRemove, CancelClone, GitClones, remove_failed_clone_target,
                register_clone, UndoClone, ensure_deployment_worktree, Prepared
  <2>1. UNCHANGED <<hostKeys, approval>>
    BY Zenon, <1>2, <2>a, <2>b, <2>c, <2>d, <2>e DEF SourcesNext, EditFiles, CommitFiles
  <2> QED
    BY Zenon, <1>0, <2>1
<1>3. ASSUME NEW h \in SshHosts, NEW scan \in Scans(h), ChallengeHost(h, scan)
      PROVE  ApprovalInv' /\ [Honoured]_svars
  <2> DEFINE k == primary_fingerprint(scan)
  <2>1. scan \in SUBSET HostKeys /\ scan # {} /\ scan \subseteq hostKeys[h]
    BY Zenon DEF Scans, ApprovalInv
  <2>2. k \in scan
    BY Zenon, <2>1, PrimaryIsScanned
  <2>3. approval' = [host |-> h, key |-> k, changed |-> FALSE, asked |-> None, scan |-> {},
                     verdict |-> "asked"]
        /\ hostKeys' = hostKeys
    BY <1>3 DEF ChallengeHost, Unasked
  <2> HIDE DEF k
  <2> QED
    BY <2>1, <2>2, <2>3 DEF ApprovalInv, Approvals, Honoured
<1>4. ASSUME NEW h \in SshHosts, NEW scan \in Scans(h), RetryApproved(h, scan)
      PROVE  ApprovalInv' /\ [Honoured]_svars
  <2> DEFINE verdict == IF matches(h, scan) THEN "trusted" ELSE "host_key_changed"
  <2>1. /\ approval.key # None /\ hostKeys' = hostKeys /\ approval \in Approvals
        /\ approval' = [approval EXCEPT !.asked = h, !.scan = scan, !.verdict = verdict]
    BY Zenon, <1>4 DEF RetryApproved, ApprovalInv
  <2>2. scan \in SUBSET HostKeys
    BY Zenon DEF Scans, ApprovalInv
  <2>3. /\ verdict \in {"trusted", "host_key_changed"}
        /\ verdict = "trusted" => h = approval.host /\ approval.key \in scan
        /\ verdict = "host_key_changed" => h # approval.host \/ approval.key \notin scan
    BY Zenon DEF matches
  <2> HIDE DEF verdict
  <2>4. /\ approval' \in Approvals /\ approval'.host = approval.host /\ approval'.key = approval.key
        /\ approval'.changed = approval.changed /\ approval'.asked = h /\ approval'.scan = scan
        /\ approval'.verdict = verdict
    BY Zenon, <2>1, <2>2, <2>3 DEF Approvals
  <2>5. ApprovalInv'
    BY Zenon, <2>1, <2>3, <2>4 DEF ApprovalInv
  <2>6. Honoured
    BY Zenon, <2>1, <2>3, <2>4 DEF ApprovalInv, Honoured
  <2> QED
    BY Zenon, <2>5, <2>6
<1>5. ASSUME ConnectHost
      PROVE  ApprovalInv' /\ [Honoured]_svars
  <2>1. PICK verdict \in {"connected", "clone_create_failed"} :
          /\ approval' = [approval EXCEPT !.verdict = verdict]
          /\ verdict = "connected" => approval.scan \cap hostKeys[approval.asked] # {}
    BY Zenon, <1>5 DEF ConnectHost
  <2>2. /\ approval' \in Approvals /\ approval'.host = approval.host /\ approval'.key = approval.key
        /\ approval'.changed = approval.changed /\ approval'.asked = approval.asked
        /\ approval'.scan = approval.scan /\ approval'.verdict = verdict
    BY Zenon, <2>1 DEF ApprovalInv, Approvals
  <2>3. approval.verdict = "trusted" /\ hostKeys' = hostKeys
    BY Zenon, <1>5 DEF ConnectHost
  <2>4. ApprovalInv'
    BY Zenon, <2>2, <2>3 DEF ApprovalInv
  <2>5. Honoured
    BY Zenon, <2>1, <2>2, <2>3 DEF ApprovalInv, Honoured
  <2> QED
    BY Zenon, <2>4, <2>5
<1>6. ASSUME NEW h \in SshHosts, NEW keys \in SUBSET HostKeys, ChangeHostKeys(h, keys)
      PROVE  ApprovalInv' /\ [Honoured]_svars
  <2> DEFINE gone == approval.changed \/ (approval.host = h /\ approval.key \notin keys)
  <2>1. /\ hostKeys' = [hostKeys EXCEPT ![h] = keys]
        /\ approval' = [approval EXCEPT !.changed = gone]
    BY Zenon, <1>6 DEF ChangeHostKeys
  <2>2. gone \in BOOLEAN
    BY Zenon
  <2>3. /\ hostKeys' \in [SshHosts -> SUBSET HostKeys]
        /\ hostKeys'[h] = keys /\ \A g \in SshHosts \ {h} : hostKeys'[g] = hostKeys[g]
    BY Zenon, <2>1 DEF ApprovalInv
  <2>4. (approval.changed => gone) /\ (approval.host = h => gone \/ approval.key \in keys)
    BY Zenon
  <2> HIDE DEF gone
  <2>5. /\ approval' \in Approvals /\ approval'.host = approval.host /\ approval'.key = approval.key
        /\ approval'.changed = gone /\ approval'.asked = approval.asked
        /\ approval'.scan = approval.scan /\ approval'.verdict = approval.verdict
    BY Zenon, <2>1, <2>2 DEF ApprovalInv, Approvals
  <2>6. ApprovalInv'
    BY Zenon, <2>3, <2>4, <2>5 DEF ApprovalInv
  <2>7. Honoured
    BY Zenon, <2>5 DEF Honoured
  <2> QED
    BY Zenon, <2>6, <2>7
<1> QED
  BY Zenon, <1>1, <1>2, <1>3, <1>4, <1>5, <1>6 DEF HostKeysNext

(* A connection under an approval is to the approved host, with a key of a  *)
(* scan that listed the approved one, and an approval for its own host is   *)
(* refused by a whole scan only if the host took the key away since         *)
(* (ScannedHostKey::matches, primary_fingerprint, known_hosts), for any     *)
(* hosts and keys.                                                          *)
THEOREM ApprovalsKept == SourcesSpec => ApprovalsAreHonoured
<1>1. SourcesInit => ApprovalInv
  BY SourceAssumption DEF SourcesInit, ApprovalInv, Approvals, Unasked
<1>2. ApprovalInv /\ [SourcesNext \/ HostKeysNext]_svars => ApprovalInv' /\ [Honoured]_svars
  BY Zenon, ApprovalStep
<1> QED
  BY <1>1, <1>2, PTL DEF SourcesSpec, ApprovalsAreHonoured, Honoured
=============================================================================

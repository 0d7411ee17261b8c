------------------------- MODULE DefinitionMigration -------------------------
(***************************************************************************)
(* apmpr migrate: how a definition of an earlier version becomes one of    *)
(* the current version (crates/apmpr-cli/src/migrate.rs).  The passes run  *)
(* one after another over the document; any of them may refuse it, and     *)
(* nothing is written before the planner has accepted the result.  (What   *)
(* others write meanwhile is in StartupProfiles.)                          *)
(*                                                                         *)
(* A member of a group is <<instance, service>>, the service None when the *)
(* whole instance is meant.  The name of a repository is <<base, number>>: *)
(* app is <<"app", 1>> and app-2 is <<"app", 2>>.                          *)
(***************************************************************************)
EXTENDS Nothing, Naturals, Sequences, SequencesExt

CONSTANT LegacyDocuments   \* the documents that are migrated

VARIABLES
  legacy,     \* the definition on disk
  migration   \* the running migration: its next pass and the document so far

mvars == <<legacy, migration>>

MigrationInit ==
  /\ legacy \in LegacyDocuments
  /\ migration = [pass |-> "version", doc |-> legacy]

(* The next pass, unless this one refuses the document (None).              *)
Passes(pass, next, doc) ==
  /\ migration.pass = pass
  /\ migration' = IF doc = None THEN [migration EXCEPT !.pass = "refused"]
                  ELSE [pass |-> next, doc |-> doc]
  /\ UNCHANGED legacy

-----------------------------------------------------------------------------
(* The name of the API group and the schema are independent: only the       *)
(* documents of the earlier schema may have groups of providers.            *)
CurrentSchema(doc) == doc.version \in {"current", "renamed current"}

ensure_no_legacy_group_providers(doc) ==
  \A g \in DOMAIN doc.groups : doc.groups[g].providers = None

Versioned(doc) ==
  IF CurrentSchema(doc) /\ ~ensure_no_legacy_group_providers(doc) THEN None ELSE doc

set_api_version(doc) == [doc EXCEPT !.version = "current"]

-----------------------------------------------------------------------------
(* A mapping from capabilities to providers, a sequence of the pairs        *)
(* <<capability, member>>, becomes the list of the providers in the order   *)
(* of the mapping, each of them once.                                       *)
PushOnce(list, m) == IF Contains(list, m) THEN list ELSE Append(list, m)

UniqueProviders(providers) ==
  FoldLeft(PushOnce, <<>>, [k \in DOMAIN providers |-> providers[k][2]])

migrate_group_instances(doc) ==
  LET Group(g) == IF g.providers = None THEN g
                  ELSE [g EXCEPT !.providers = None, !.instances = UniqueProviders(g.providers)]
  IN  IF \E g \in DOMAIN doc.groups :
           doc.groups[g].providers # None /\ doc.groups[g].instances # None
      THEN None
      ELSE [doc EXCEPT !.groups = [g \in DOMAIN doc.groups |-> Group(doc.groups[g])]]

-----------------------------------------------------------------------------
(* What a member provides: the slots of its service, or of all of them.     *)
member_capabilities(doc, m) ==
  IF m[1] \notin DOMAIN doc.services THEN {}
  ELSE UNION {{p.slot : p \in doc.services[m[1]][s].provides} :
                s \in {t \in DOMAIN doc.services[m[1]] : m[2] \in {None, t}}}

(* A member takes the place of those that provide one of its capabilities.  *)
Overridden(doc, list, m) ==
  SelectSeq(list, LAMBDA other : member_capabilities(doc, other) \cap member_capabilities(doc, m) = {})

Listing(group) == IF group.instances = None THEN <<>> ELSE group.instances

(* The members of a group after those of the groups it extends; None when   *)
(* they go round in a circle or one does not exist.                         *)
RECURSIVE resolve(_, _, _)
resolve(doc, g, visiting) ==
  IF g \in visiting \/ g \notin DOMAIN doc.groups THEN None
  ELSE LET group == doc.groups[g]
           inherited == IF group.extends = None THEN <<>>
                        ELSE resolve(doc, group.extends, visiting \cup {g})
           Add(list, m) == PushOnce(Overridden(doc, list, m), m)
       IN  IF inherited = None THEN None ELSE FoldLeft(Add, inherited, Listing(group))

materialize_group_instances(doc) ==
  IF \E g \in DOMAIN doc.groups : resolve(doc, g, {}) = None THEN None
  ELSE [doc EXCEPT !.groups = [g \in DOMAIN doc.groups |->
          IF doc.groups[g].extends = None THEN doc.groups[g]
          ELSE [doc.groups[g] EXCEPT !.extends = None, !.instances = resolve(doc, g, {})]]]

-----------------------------------------------------------------------------
AllServices(doc) ==
  UNION {{doc.services[i][s] : s \in DOMAIN doc.services[i]} : i \in DOMAIN doc.services}

ProviderPorts(doc, slot) ==
  {p.port : p \in {q \in UNION {s.provides : s \in AllServices(doc)} : q.slot = slot}}

(* A consumer that reaches its provider on loopback, on the provider's only *)
(* port, needs no declaration.                                              *)
IdentityRouted(doc, use) == use.loopback /\ ProviderPorts(doc, use.slot) = {use.port}

remove_identity_routing_metadata(doc) ==
  IF \E s \in AllServices(doc) : \E use \in s.consumes : ~IdentityRouted(doc, use) THEN None
  ELSE [doc EXCEPT !.services = [i \in DOMAIN doc.services |->
          [s \in DOMAIN doc.services[i] |-> [provides |-> {}, consumes |-> {}]]]]

-----------------------------------------------------------------------------
(* A group has one address, so that only one page can have been routed to   *)
(* it.  An origin is <<domain, port>>, or None when it is malformed.        *)
parse_ui_routes(routes) ==
  /\ \A k \in DOMAIN routes : routes[k].origin # None
  /\ \A j, k \in DOMAIN routes : routes[j].group = routes[k].group => j = k

OriginHost(r) == r.origin[1]

(* A route gives the group the address, the backend and the page, and the   *)
(* page an address below the group's.                                       *)
GroupRoute(doc, r) ==
  IF doc = None THEN None
  ELSE IF \/ r.group \notin DOMAIN doc.groups
          \/ doc.groups[r.group].address \notin {None, OriginHost(r)} THEN None
  ELSE [doc EXCEPT !.groups[r.group].address = OriginHost(r),
          !.groups[r.group].instances =
             PushOnce(PushOnce(Listing(doc.groups[r.group]), <<r.backend, None>>), <<r.ui, None>>)]

InstanceRoute(doc, r) ==
  IF doc = None THEN None
  ELSE IF r.ui \notin DOMAIN doc.addresses \/ doc.addresses[r.ui] \notin {None, <<r.ui, OriginHost(r)>>}
       THEN None
  ELSE [doc EXCEPT !.addresses[r.ui] = <<r.ui, OriginHost(r)>>]

AddRoute(doc, r) == InstanceRoute(GroupRoute(doc, r), r)

(* The destinations and browser routes that were written for the page, and  *)
(* will be derived from its addresses.                                      *)
GeneratedDestination(doc, d, r) ==
  /\ d.domain = OriginHost(r)
  /\ \E t \in doc.router.targets :
       t.consumer = d.consumer /\ t.slot = d.slot /\ <<t.provider, r.ui>> \in doc.router.upstreams

GeneratedBrowserRoute(doc, b, r) ==
  /\ b.source = "origin" /\ b.value = r.origin
  /\ [b EXCEPT !.source = "explicit_header", !.value = r.ui] \in doc.router.browser

WithoutGenerated(doc, routes) ==
  IF doc = None THEN None
  ELSE [doc EXCEPT !.uiRoutes = None,
          !.router.destinations = {d \in @ : ~\E k \in DOMAIN routes : GeneratedDestination(doc, d, routes[k])},
          !.router.browser = {b \in @ : ~\E k \in DOMAIN routes : GeneratedBrowserRoute(doc, b, routes[k])}]

migrate_ui_routes(doc) ==
  IF doc.uiRoutes = None THEN doc
  ELSE IF ~parse_ui_routes(doc.uiRoutes) THEN None
  ELSE WithoutGenerated(FoldLeft(AddRoute, doc, doc.uiRoutes), doc.uiRoutes)

-----------------------------------------------------------------------------
Occurrences(doc, i) ==
  {<<g, k>> \in UNION {{g} \X DOMAIN Listing(doc.groups[g]) : g \in DOMAIN doc.groups} :
     Listing(doc.groups[g])[k][1] = i}

GroupedInstances(doc) == {m[1] : m \in UNION {ToSet(Listing(doc.groups[g])) : g \in DOMAIN doc.groups}}

(* An instance is in one group, which any binding of it agrees with, and    *)
(* direct routes cannot be kept.                                            *)
migrate_connections(doc) ==
  IF \/ \E i \in GroupedInstances(doc) : \E x, y \in Occurrences(doc, i) : x # y
     \/ doc.bindings # None /\ \E i \in DOMAIN doc.bindings :
          ~\E x \in Occurrences(doc, i) : x[1] = doc.bindings[i]
     \/ doc.routes = "some"
  THEN None
  ELSE [doc EXCEPT !.bindings = None, !.routes = "absent"]

-----------------------------------------------------------------------------
(* What Git says of a checkout: the clone it is a worktree of, or None when *)
(* it is none or overlaps the clone, and its branch or commit.              *)
discover_separate_repository(source) == source.git.clone

discover_ref(source) == source.git.ref

AlreadyCurrent(source) == source.repository # None /\ source.ref # None /\ ~source.typed

ClonePath(source) ==
  IF source.repository # None THEN source.repository ELSE discover_separate_repository(source)

Reference(source) == IF source.ref # None THEN source.ref ELSE discover_ref(source)

(* Mutant: a name that is taken is taken over.                              *)
BaseName(repositories, path) == <<path[2], 1>>

(* The last part of the path, with a number if another clone has the name.  *)
migration_repository_name(repositories, path) ==
  <<path[2], CHOOSE n \in 1 .. 10 : /\ <<path[2], n>> \notin DOMAIN repositories
                                    /\ \A k \in 1 .. (n - 1) : <<path[2], k>> \in DOMAIN repositories>>

(* The repository that a clone is declared as already, or a new one.        *)
Adopt(repositories, path) ==
  IF \E n \in DOMAIN repositories : repositories[n] = path
  THEN CHOOSE n \in DOMAIN repositories : repositories[n] = path
  ELSE migration_repository_name(repositories, path)

MigrateSource(doc, s) ==
  IF doc = None THEN None
  ELSE LET source == doc.sources[s]
           path == ClonePath(source)
           name == Adopt(doc.repositories, path)
       IN  IF AlreadyCurrent(source) THEN doc
           ELSE IF path = None \/ Reference(source) = None THEN None
           ELSE [doc EXCEPT !.repositories = [n \in DOMAIN @ \cup {name} |-> IF n = name THEN path ELSE @[n]],
                   !.sources[s].repository = name, !.sources[s].ref = Reference(source),
                   !.sources[s].typed = FALSE]

migrate_sources(doc) == FoldLeft(MigrateSource, doc, [s \in DOMAIN doc.sources |-> s])

-----------------------------------------------------------------------------
(* The planner refuses what is left of an old document, and whatever else.  *)
Loads(doc) == \A s \in DOMAIN doc.sources : doc.sources[s].repository \in DOMAIN doc.repositories

PlanMigrated ==
  /\ migration.pass = "plan"
  /\ LET doc == set_api_version(migration.doc)
     IN  IF doc = legacy THEN migration' = [migration EXCEPT !.pass = "unchanged"]
         ELSE \/ Loads(doc) /\ migration' = [pass |-> "written", doc |-> doc]
              \/ migration' = [migration EXCEPT !.pass = "refused"]
  /\ UNCHANGED legacy

MigrationNext ==
  \/ Passes("version", "groups", Versioned(migration.doc))
  \/ Passes("groups", "inheritance", migrate_group_instances(migration.doc))
  \/ Passes("inheritance", "metadata", materialize_group_instances(migration.doc))
  \/ Passes("metadata", "pages", remove_identity_routing_metadata(migration.doc))
  \/ Passes("pages", "connections", migrate_ui_routes(migration.doc))
  \/ Passes("connections", "sources", migrate_connections(migration.doc))
  \/ Passes("sources", "plan", migrate_sources(migration.doc))
  \/ PlanMigrated

-----------------------------------------------------------------------------
MembersOf(doc, g) == ToSet(Listing(doc.groups[g]))

(* What an old group declares of its own: which capability is provided by   *)
(* which member, for a list of members all that they provide.               *)
DeclaredProviders(doc, group) ==
  IF group.providers # None THEN group.providers
  ELSE FlattenSeq([k \in DOMAIN Listing(group) |->
         LET m == Listing(group)[k]
         IN  [c \in DOMAIN SetToSeq(member_capabilities(doc, m)) |->
                <<SetToSeq(member_capabilities(doc, m))[c], m>>]])

(* The pairs that were declared for a group, from the outermost group it    *)
(* extends; the last of them decides who provides a capability.             *)
RECURSIVE ProvidersDeclared(_, _)
ProvidersDeclared(doc, g) ==
  LET group == doc.groups[g]
  IN  (IF group.extends = None THEN <<>> ELSE ProvidersDeclared(doc, group.extends)) \o DeclaredProviders(doc, group)

Decides(list, k) == \A j \in (k + 1) .. Len(list) : list[j][1] # list[k][1]

(* A member declared later also provides some of what this one provides.    *)
Displaced(doc, list, k) ==
  \E j \in (k + 1) .. Len(list) :
    /\ list[j][2] # list[k][2]
    /\ member_capabilities(doc, list[j][2]) \cap member_capabilities(doc, list[k][2]) # {}

(* Whoever provided a capability in a group before is a member of it        *)
(* afterwards, except for what the code drops: in a group that extends      *)
(* another, a member of whose capabilities a later one provides some.  And  *)
(* a member all of whose capabilities have another provider there is not    *)
(* inherited.                                                               *)
ProvidersKept(old, new) ==
  \A g \in DOMAIN old.groups :
    LET list == ProvidersDeclared(old, g)
    IN  \A k \in DOMAIN list :
          /\ Decides(list, k) =>
               \/ list[k][2] \in MembersOf(new, g)
               \/ old.groups[g].extends # None /\ Displaced(old, list, k)
          /\ list[k][2] \in MembersOf(new, g) =>
               \/ old.groups[g].extends = None
               \/ \E j \in DOMAIN list : list[j][2] = list[k][2] /\ Decides(list, j)

(* Every page and every domain that was served still is.                    *)
PagesKept(old, new) ==
  /\ old.uiRoutes # None => \A k \in DOMAIN old.uiRoutes :
       LET r == old.uiRoutes[k]
       IN  {<<r.ui, None>>, <<r.backend, None>>} \subseteq MembersOf(new, r.group)
  /\ \A d \in old.router.destinations \ new.router.destinations :
       \E g \in DOMAIN new.groups : new.groups[g].address = d.domain

(* Every source that had a repository is still a worktree of its clone.     *)
SourcesKept(old, new) ==
  \A s \in DOMAIN old.sources :
    LET source == old.sources[s]
        clone == new.repositories[new.sources[s].repository]
    IN  IF AlreadyCurrent(source)
        THEN source.repository \in DOMAIN old.repositories => clone = old.repositories[source.repository]
        ELSE clone = ClonePath(source)

(* A definition that migrate writes means what the old one meant: whoever   *)
(* was bound to a group is its member, who provided a capability in a group *)
(* is a member of it and who was overridden there is not, pages and domains *)
(* are served, sources stay with their clones; and a second migration       *)
(* changes nothing.  One loss is excepted (Displaced): an inherited member  *)
(* that a later one overrides in part is dropped with all it provides       *)
(* (migrate.rs:655-660), where PROGRESS.md:440-442 says the transform       *)
(* refuses what would change capabilities.                                  *)
MigrationKeepsConnections ==
  legacy # None /\ migration.pass = "written" =>
    LET new == migration.doc
    IN  /\ legacy.bindings # None => \A i \in DOMAIN legacy.bindings :
             i \in {m[1] : m \in MembersOf(new, legacy.bindings[i])}
        /\ ProvidersKept(legacy, new) /\ PagesKept(legacy, new) /\ SourcesKept(legacy, new)
        /\ new = Versioned(new) /\ new = migrate_group_instances(new)
        /\ new = materialize_group_instances(new) /\ new = remove_identity_routing_metadata(new)
        /\ new = migrate_ui_routes(new) /\ new = migrate_connections(new) /\ new = migrate_sources(new)
=============================================================================

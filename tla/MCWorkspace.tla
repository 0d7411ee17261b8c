----------------------------- MODULE MCWorkspace -----------------------------
(* The parts of the tool that work on one project directory besides the      *)
(* daemon's operations: the planner and the overlays of MCDeploymentPlan, the *)
(* sources, the startup profiles and definitions, the run actions and the    *)
(* terminal interface, the announcement of the daemon, the state database    *)
(* the identities of the host gateway and the migration of old definitions.  *)
(* A behaviour is about one of them (focus) and leaves the others as they    *)
(* begin.                                                                    *)
EXTENDS MCDeploymentPlan, SourceLifecycle, StartupProfiles, RunActions,
        DaemonDiscovery, StateRecords, ManagedIdentities, DefinitionMigration

CONSTANTS
  MaxRequests,  \* how many changes of sources begin in a behaviour
  MaxTasks,     \* how often authors begin a change of profiles or definitions
  MaxChanges    \* how often devices, placements and deployments change in a behaviour

VARIABLES
  focus,  \* the part that the behaviour is about
  begun   \* how many of these there were

Foci == {"plan", "sources", "host keys", "profiles", "window", "actions",
         "discovery", "records", "identities", "migration"}

rest == <<svars, pvars, project, tvars, avars, dvars, rvars, ivars, mvars>>

-----------------------------------------------------------------------------
(* Old definitions: two groups, one of which may extend the other or itself, *)
(* with up to two members each, where x and y provide http and y and z db;   *)
(* pages u and v; two clones of one name.                                    *)
Provides(slots) == [provides |-> {[slot |-> s, port |-> 1] : s \in slots}, consumes |-> {}]

Uses(slot, port) == [provides |-> {}, consumes |-> {[slot |-> slot, port |-> port, loopback |-> TRUE]}]

OldServices ==
  [x |-> [a |-> Provides({"http"})], y |-> [a |-> Provides({"http"}), b |-> Provides({"db"})],
   z |-> [a |-> Provides({"db"})], u |-> [a |-> Uses("http", 1)], v |-> [a |-> Provides({})]]

NoRouter == [destinations |-> {}, targets |-> {}, upstreams |-> {}, browser |-> {}]

EmptyGroup == [providers |-> None, instances |-> None, extends |-> None, address |-> None]

OldDocument ==
  [version |-> "previous", groups |-> [base |-> EmptyGroup, feature |-> EmptyGroup],
   services |-> OldServices, bindings |-> None, routes |-> "absent", uiRoutes |-> None,
   addresses |-> [i \in {"u", "v"} |-> None], router |-> NoRouter,
   repositories |-> [n \in {} |-> None], sources |-> <<>>]

MemberLists ==
  LET members == {<<"x", None>>, <<"y", None>>, <<"y", "b">>, <<"z", None>>, <<"v", None>>}
  IN  {<<>>} \cup {<<m>> : m \in members} \cup {l \in members \X members : l[1] # l[2]}

(* A provider of http, one of db, or both of them in either order.           *)
ProviderMaps ==
  LET http == {"http"} \X {<<"x", None>>, <<"y", None>>}
      db == {"db"} \X {<<"y", None>>, <<"y", "b">>, <<"z", None>>}
  IN  {<<>>} \cup {<<p>> : p \in http \cup db} \cup (http \X db) \cup (db \X http)

OldGroups ==
  {[OldDocument EXCEPT !.bindings = b,
      !.groups = [base |-> [EmptyGroup EXCEPT !.providers = l],
                  feature |-> [f EXCEPT !.extends = e]]] :
     l \in ProviderMaps, e \in {None, "base"},
     f \in {[EmptyGroup EXCEPT !.instances = k] : k \in MemberLists}
           \cup {[EmptyGroup EXCEPT !.providers = k] : k \in ProviderMaps},
     b \in {None} \cup [{"x"} -> {"feature"}]}

(* The versions and the sections that are refused or simply removed.         *)
OldSections ==
  {[OldDocument EXCEPT !.version = v, !.routes = r, !.services.u.a = Uses("http", port),
      !.groups.base.providers = p, !.groups.base.instances = i, !.groups.feature.extends = e] :
     v \in {"current", "renamed current", "previous", "renamed previous"},
     r \in {"absent", "empty", "some"}, port \in {1, 2},
     p \in {None, <<<<"http", <<"x", None>>>>>>}, i \in {None, <<<<"x", None>>>>},
     e \in {None, "feature", "other"}}

OldPages ==
  LET Page(u, g, o) == [ui |-> u, backend |-> IF u = "u" THEN "x" ELSE "y", group |-> g, origin |-> o]
      pages == {Page(u, g, o) : u \in {"u", "v"}, g \in {"base", "feature"},
                                o \in {None, <<"d", 1>>, <<"d", 2>>, <<"e", 1>>}}
      router == [destinations |-> {[domain |-> n, consumer |-> "h", slot |-> t] : n \in {"d", "e"}, t \in {"p", "q"}},
                 targets |-> {[consumer |-> "h", slot |-> "p", provider |-> "up"]},
                 upstreams |-> {<<"up", "u">>},
                 browser |-> {[source |-> "origin", value |-> <<"d", 1>>, destination |-> "api", provider |-> "up"],
                              [source |-> "explicit_header", value |-> "u", destination |-> "api", provider |-> "up"]}]
  IN  {[OldDocument EXCEPT !.uiRoutes = r, !.router = w, !.groups.base.address = a] :
         r \in {<<p>> : p \in pages} \cup (pages \X pages), w \in {NoRouter, router}, a \in {None, "d"}}

OldSources ==
  LET clones == {<<"/one", "app">>, <<"/two", "app">>}
      Source(repository, ref, typed, clone) ==
        [repository |-> repository, ref |-> ref, typed |-> typed, git |-> [clone |-> clone, ref |-> "head"]]
      sources == {Source(c, f, TRUE, None) : c \in clones, f \in {None, "main"}}
                   \cup {Source(None, None, t, c) : t \in BOOLEAN, c \in clones \cup {None}}
                   \cup {Source(<<"app", 1>>, "main", FALSE, None)}
  IN  {[OldDocument EXCEPT !.sources = s, !.repositories = r] :
         s \in {<<p>> : p \in sources} \cup (sources \X sources),
         r \in {[n \in {} |-> None]} \cup [{<<"app", 1>>} -> clones]}

MCLegacyDocuments == OldGroups \cup OldSections \cup OldPages \cup OldSources

-----------------------------------------------------------------------------

WorkspaceInit ==
  /\ focus \in Foci /\ begun = 0
  /\ SourcesInit /\ DiscoveryInit
  /\ RecordsInit /\ (focus # "records" => schema = Latest)
  /\ IdentitiesInit /\ (focus # "identities" => names = CHOOSE s \in Domains : TRUE)
  /\ ProfilesInit /\ (focus # "profiles" => defined = None)
  \* the bodies of profiles are interchangeable
  /\ manifest = [s \in ProfileSources |-> CHOOSE b \in ProfileBodies : TRUE]
  /\ ActionsInit /\ (focus # "actions" => project = <<>> /\ target = CHOOSE t \in Targets : TRUE)
  /\ IF focus = "plan" THEN PlannerInit
     ELSE /\ OverlayInit /\ input = Idle
          /\ definition = None /\ devices = None /\ plan = None /\ edits = 0
  /\ IF focus = "migration" THEN MigrationInit ELSE legacy = None /\ migration = None

Busy == {c \in SourceClients : task[c] # Unoccupied}

SourcesBounded ==
  /\ SourcesNext
  /\ begun' = IF Busy' \ Busy # {} \/ (task' = task /\ registered' # registered) THEN begun + 1 ELSE begun
  /\ begun' <= MaxRequests

ProfilesBounded ==
  /\ ProfilesNext
  /\ begun' = IF \E a \in Authors : author[a] = AtRest /\ author'[a] # AtRest THEN begun + 1 ELSE begun
  /\ begun' <= MaxTasks

RecordsBounded ==
  /\ RecordsNext
  /\ begun' = IF <<registry, placed, generated, resources>>' # <<registry, placed, generated, resources>>
              THEN begun + 1 ELSE begun
  /\ begun' <= MaxChanges

(* One command line at a time, of either kind.                               *)
OneCaller == \A c, e \in Terminals : caller'[c].pc # "idle" /\ caller'[e].pc # "idle" => c = e

WorkspaceNext ==
  /\ UNCHANGED focus
  /\ \/ focus = "plan" /\ PlannerNext /\ UNCHANGED <<rest, begun>>
     \/ /\ UNCHANGED <<vars, ovars>>
        /\ \/ /\ focus = "sources" /\ SourcesBounded
              /\ UNCHANGED <<pvars, project, tvars, avars, dvars, rvars, ivars, mvars>>
           \/ /\ focus = "host keys" /\ HostKeysNext
              /\ UNCHANGED <<begun, pvars, project, tvars, avars, dvars, rvars, ivars, mvars>>
           \/ /\ focus = "profiles" /\ ProfilesBounded
              /\ UNCHANGED <<svars, project, tvars, avars, dvars, rvars, ivars, mvars>>
           \/ /\ focus = "window" /\ (TasksNext \/ WindowNext)
              /\ UNCHANGED <<begun, svars, pvars, avars, dvars, rvars, ivars, mvars>>
           \/ /\ focus = "actions" /\ ActionsNext /\ started' <= 1
              /\ UNCHANGED <<begun, svars, pvars, dvars, rvars, ivars, mvars>>
           \/ /\ focus = "discovery" /\ DiscoveryNext /\ OneCaller
              /\ UNCHANGED <<begun, svars, pvars, project, tvars, avars, rvars, ivars, mvars>>
           \/ /\ focus = "records" /\ RecordsBounded
              /\ UNCHANGED <<svars, pvars, project, tvars, avars, dvars, ivars, mvars>>
           \/ /\ focus = "identities" /\ IdentitiesNext
              /\ UNCHANGED <<begun, svars, pvars, project, tvars, avars, dvars, rvars, mvars>>
           \/ /\ focus = "migration" /\ MigrationNext
              /\ UNCHANGED <<begun, svars, pvars, project, tvars, avars, dvars, rvars, ivars>>

WorkspaceSpec == WorkspaceInit /\ [][WorkspaceNext]_<<focus, begun, vars, ovars, rest>>
=============================================================================

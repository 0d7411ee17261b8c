--------------------------- MODULE DeploymentPlan ---------------------------
(* A deployment definition, the edits that change it, and the plan generated  *)
(* from it: crates/apmpr-planner/src/lib.rs (validate, generate, the move of  *)
(* an instance between groups), src/overlay.rs (classify_changes) and         *)
(* crates/apmpr-ops/src/instances.rs (create_instance).                       *)
(*                                                                            *)
(* The definition record of HostRouting has one more field here:              *)
(*   needs    <<block, service>> -> set of [inst, svc], its dependsOn; inst   *)
(*            is None for a service of the same instance                      *)
(* devices is the registry: a device's host, or None when not registered.     *)
EXTENDS HostRouting

CONSTANTS
    Definitions,    \* the definitions a project may start from
    Hosts,          \* device -> the hosts it may be registered with
    Addresses,      \* instance or group -> the addresses it may be given
    Creatable,      \* name -> the instance record create_instance appends
    Dependencies,   \* the pairs <<node, ref>> an author may add or remove
    MaxEdits        \* bound on the edits and moves

VARIABLES
    definition,     \* the authored document
    devices,        \* the device registry
    plan,           \* the plan on disk, None before the first
    edits           \* the edits and moves so far

vars == <<definition, devices, plan, edits>>

Local(d, i) == d.inst[i].device = "local"

Owned(d) == SelectSeq(d.order, LAMBDA i : ~d.inst[i].external)

-----------------------------------------------------------------------------
(* validate                                                                   *)

\* resolve_groups: every entry names an instance, and a service of it if any;
\* no instance is listed twice, in one group or in two.
MemberResolves(d, m) ==
    /\ m.inst \in Elements(d.order)
    /\ m.svc # None => /\ ~d.inst[m.inst].external
                       /\ \E s \in Elements(Services(d, m.inst)) : s.name = m.svc

GroupsResolve(d) ==
    LET listed == Concat(Groups, LAMBDA g : d.groups[g].members)
    IN  /\ \A m \in Elements(listed) : MemberResolves(d, m)
        /\ DistinctBy(listed, LAMBDA m : m.inst)
        /\ \A g \in DOMAIN d.groups :
              d.groups[g].disabled \subseteq {m.inst : m \in Elements(d.groups[g].members)}

Nodes(d) == UNION {{<<i, s.name>> : s \in Elements(Services(d, i))} : i \in Elements(Owned(d))}

TargetOf(i, ref) == IF ref.inst = None THEN <<i, ref.svc>> ELSE <<ref.inst, ref.svc>>

Needs(d, node) ==
    {TargetOf(node[1], ref) : ref \in d.needs[<<d.inst[node[1]].block, node[2]>>]}

\* The search of validate_expanded_dependencies: depth first, the nodes done
\* shared by all the roots and the active path fresh for each. It returns
\* [found, done].
RECURSIVE Cyclic(_, _, _, _)
Cyclic(d, node, active, done) ==
    CASE node \in active -> [found |-> TRUE, done |-> done]
      [] node \in done   -> [found |-> FALSE, done |-> done]
      [] OTHER ->
           FoldSet(LAMBDA next, acc : IF acc.found THEN acc
                                      ELSE Cyclic(d, next, active \cup {node}, acc.done),
                   [found |-> FALSE, done |-> done \cup {node}],
                   Needs(d, node) \cap Nodes(d))

CycleFound(d) ==
    FoldSet(LAMBDA root, acc : IF acc.found THEN acc ELSE Cyclic(d, root, {}, acc.done),
            [found |-> FALSE, done |-> {}], Nodes(d)).found

DependenciesResolve(d) ==
    /\ \A node \in Nodes(d) : Needs(d, node) \subseteq Nodes(d)
    /\ ~CycleFound(d)

\* validate_address_claims: no two addresses are the same hostname.
ClaimsDistinct(d) ==
    LET claimed == [k \in DOMAIN d.order |-> d.inst[d.order[k]].address]
                     \o [k \in DOMAIN Groups |-> d.groups[Groups[k]].address]
    IN  DistinctBy(SelectSeq(claimed, LAMBDA a : a # None), Lowered)

\* validate_host_upstreams, on the authored router: its providers are local,
\* those without a port are mapped, and a mapping names a declared provider
\* and a published port of one of our services.
UpstreamsResolve(d, ups, router) ==
    /\ \A p \in Elements(router.providers) :
          /\ p.loopback
          /\ p.port = 0 => \E u \in Elements(ups) : u.id = p.id
    /\ \A u \in Elements(ups) :
          /\ \E p \in Elements(router.providers) : p.id = u.id
          /\ u.inst \in Elements(Owned(d))
          /\ \E s \in Elements(Services(d, u.inst)) :
                s.name = u.svc /\ s.published /\ s.port = u.port

InstancesResolve(d, registry) ==
    \A i \in Elements(d.order) :
        /\ d.inst[i].external => Local(d, i) /\ ~Addressed(d, i)
        /\ ~Local(d, i) => registry[d.inst[i].device] # None

AddressesResolve(d, applied) ==
    /\ applied.ok
    /\ Valid(applied.config)
    /\ \A i \in Elements(Profiled(d)) : ProfileResolves(applied.config, d.profiles[i])

HostRoutingResolves(d, ups, router) ==
    IF router = None THEN Profiled(d) = <<>> /\ ups = <<>>
    ELSE /\ d.authored = None => router.listeners[1].port # None
         /\ UpstreamsResolve(d, ups, router)
         /\ AddressesResolve(d, apply_addresses(d, ups, router))

Accepted(d, registry, ups, router) ==
    /\ InstancesResolve(d, registry)
    /\ GroupsResolve(d)
    /\ DependenciesResolve(d)
    /\ ClaimsDistinct(d)
    /\ HostRoutingResolves(d, ups, router)

-----------------------------------------------------------------------------
(* generate                                                                   *)

\* A local instance of some group runs behind a namespace and a sidecar.
Routed(d, i) == ~d.inst[i].external /\ Local(d, i) /\ Grouped(d, i)

ServiceName(d, i, s) == IF Routed(d, i) THEN <<i, s, "app">> ELSE <<i, s>>

PublishedPorts(d, i) == {s.port : s \in {t \in Elements(Services(d, i)) : t.published}}

\* Mutant: the suffix of routed applications is forgotten.
PlainDependencies(d, i, s) == Needs(d, <<i, s.name>>)

add_compose_dependencies(d, i, s) ==
    {ServiceName(d, t[1], t[2]) : t \in Needs(d, <<i, s.name>>)}

compose_application(d, i, s) ==
    [name    |-> ServiceName(d, i, s.name),
     joins   |-> IF Routed(d, i) THEN <<i, "namespace">> ELSE None,
     ports   |-> IF Routed(d, i) \/ ~s.published THEN {} ELSE {s.port},
     needs   |-> add_compose_dependencies(d, i, s)
                   \cup (IF Routed(d, i) THEN {<<i, "router">>} ELSE {})]

compose_namespace_service(d, i) ==
    [name |-> <<i, "namespace">>, joins |-> None, ports |-> PublishedPorts(d, i), needs |-> {}]

compose_sidecar(i) ==
    [name |-> <<i, "router">>, joins |-> <<i, "namespace">>, ports |-> {}, needs |-> {<<i, "namespace">>}]

InstanceServices(d, i) ==
    {compose_application(d, i, s) : s \in Elements(Services(d, i))}
      \cup (IF Routed(d, i) THEN {compose_namespace_service(d, i), compose_sidecar(i)} ELSE {})

\* One Compose document for the host and one per device.
Compose(d) ==
    [device \in {"local"} \cup DOMAIN Hosts |->
       UNION {InstanceServices(d, i) : i \in {j \in Elements(Owned(d)) : d.inst[j].device = device}}]

\* What the resource hash digests: the definition without addresses, external
\* instances, host routing and group structure - of the groups only the set of
\* grouped instances is kept - and the devices it refers to.
ResourceKey(d, registry) ==
    [inst    |-> [i \in Elements(Owned(d)) |-> [d.inst[i] EXCEPT !.address = None]],
     order   |-> Owned(d),
     needs   |-> d.needs,
     routed  |-> {i \in Elements(Owned(d)) : Grouped(d, i)},
     devices |-> {<<d.inst[i].device, registry[d.inst[i].device]>> :
                     i \in {j \in Elements(Owned(d)) : ~Local(d, j)}}]

\* selected_group_for_instance and transparent_members: the sidecar of a routed
\* instance forwards to the active members of its group, in authored order; an
\* instance disabled in its group gets an empty list.
SelectedGroup(d, i) ==
    {g \in DOMAIN d.groups : \E m \in Elements(Active(d.groups[g])) : m.inst = i}

MemberHosts(d, registry, m) ==
    IF d.inst[m.inst].external THEN <<<<m.inst, "external">>>>
    ELSE LET offered == SelectSeq(Services(d, m.inst), LAMBDA s : m.svc \in {None, s.name})
         IN  [k \in DOMAIN offered |->
                IF Local(d, m.inst) THEN <<m.inst, offered[k].name>>
                ELSE <<m.inst, offered[k].name, registry[d.inst[m.inst].device]>>]

transparent_members(d, registry, i) ==
    Concat(SelectSeq(Groups, LAMBDA g : SelectedGroup(d, i) = {g}),
           LAMBDA g : Concat(Active(d.groups[g]), LAMBDA m : MemberHosts(d, registry, m)))

\* host_upstreams: where the gateway finds the published port of an upstream.
HostUpstreamPlan(d, registry, ups) ==
    {[id |-> u.id, port |-> u.port, device |-> d.inst[u.inst].device,
      service |-> IF Routed(d, u.inst) THEN <<u.inst, "namespace">> ELSE <<u.inst, u.svc>>,
      host |-> IF Local(d, u.inst) THEN None ELSE registry[d.inst[u.inst].device]] :
     u \in Elements(ups)}

\* The document that is written as resolved-deployment.yaml: derived routing
\* has become an explicit hostRouter section of it.
Resolved(d, ups, router) ==
    IF router = None THEN d
    ELSE [d EXCEPT !.authored = router, !.upstreams = ups]

generate(d, registry, ups, router) ==
    [definition |-> Resolved(d, ups, router),
     resource   |-> ResourceKey(d, registry),
     compose    |-> Compose(d),
     sidecars   |-> [i \in {j \in Elements(d.order) : Routed(d, j)} |-> transparent_members(d, registry, i)],
     upstreams  |-> HostUpstreamPlan(d, registry, ups),
     host       |-> IF router = None THEN None ELSE generate_host_router_config(d, ups, router)]

\* plan_with_devices: the plan, or none when there are diagnostics. generate
\* validates the final router configuration once more.
PlanOf(d, registry, ups, router) ==
    IF Accepted(d, registry, ups, router)
    THEN {p \in {generate(d, registry, ups, router)} : p.host # None => Valid(p.host)}
    ELSE {}

WithRouter(d, registry, ups) == PlanOf(d, registry, ups, HostRouter(d, ups))

Planned(d, registry) == WithRouter(d, registry, HostUpstreams(d))

\* Mutant: a service that is already there counts as live.
ClassifyByName(old, new) ==
    {[service |-> s.name,
      impact  |-> IF old # None /\ s.name \in {t.name : t \in old.compose["local"]}
                  THEN "live" ELSE "rebuild"] : s \in new.compose["local"]}

\* classify_changes: what taking the new plan over means for each service of
\* the local document. Images and builds belong to the block, so a service
\* that changed in place is restarted.
classify_changes(old, new) ==
    IF old # None /\ old.definition = new.definition THEN {}
    ELSE {[service |-> s.name,
           impact  |-> CASE old = None -> "rebuild"
                         [] old # None /\ ~\E t \in old.compose["local"] : t.name = s.name -> "rebuild"
                         [] old # None /\ old.resource = new.resource -> "live"
                         [] s \in old.compose["local"] -> "live"
                         [] OTHER -> "restart"] : s \in new.compose["local"]}

-----------------------------------------------------------------------------
(* The author's edits: the document on disk is replaced, whatever it says.     *)

Init ==
    /\ definition \in Definitions
    /\ devices \in [DOMAIN Hosts -> {None}]
    /\ plan = None
    /\ edits = 0

Edit(d) ==
    /\ edits < MaxEdits
    /\ d # definition
    /\ definition' = d
    /\ edits' = edits + 1
    /\ UNCHANGED <<devices, plan>>

SetInstanceAddress(i, address) == Edit([definition EXCEPT !.inst[i].address = address])

SetGroupAddress(g, address) == Edit([definition EXCEPT !.groups[g].address = address])

SetDisabled(g, disabled) == Edit([definition EXCEPT !.groups[g].disabled = disabled])

Join(g, m) == Edit([definition EXCEPT !.groups[g].members = Append(@, m)])

Place(i, device) == Edit([definition EXCEPT !.inst[i].device = device])

ToggleDependency(node, ref) ==
    Edit([definition EXCEPT !.needs[node] = IF ref \in @ THEN @ \ {ref} ELSE @ \cup {ref}])

\* create_instance appends the instance only when the result can be planned.
create_instance(i) ==
    LET draft == [definition EXCEPT !.order = Append(@, i),
                                    !.inst = [j \in DOMAIN @ \cup {i} |->
                                                IF j = i THEN Creatable[i] ELSE @[j]],
                                    !.profiles = [j \in DOMAIN @ \cup {i} |->
                                                    IF j = i THEN None ELSE @[j]]]
    IN  /\ i \notin Elements(definition.order)
        /\ Planned(draft, devices) # {}
        /\ Edit(draft)

RegisterDevice(device, host) ==
    /\ edits < MaxEdits
    /\ devices[device] # host
    /\ devices' = [devices EXCEPT ![device] = host]
    /\ edits' = edits + 1
    /\ UNCHANGED <<definition, plan>>

-----------------------------------------------------------------------------
(* Plans                                                                      *)

\* plan or up: the authored document is planned and the artifacts written.
PlanAuthored ==
    /\ \E p \in Planned(definition, devices) : plan' = p
    /\ UNCHANGED <<definition, devices, edits>>

\* The member keeps its service; an instance of no group joins as a whole.
move_instance_to_group(d, i, g) ==
    LET listed == SelectSeq(Concat(Groups, LAMBDA h : d.groups[h].members), LAMBDA m : m.inst = i)
        member == IF listed = <<>> THEN [inst |-> i, svc |-> None] ELSE Head(listed)
        without(h) == [d.groups[h] EXCEPT !.members = SelectSeq(@, LAMBDA m : m.inst # i),
                                          !.disabled = @ \ {i}]
    IN  [d EXCEPT !.groups = [h \in DOMAIN @ |->
            IF h = g THEN [without(h) EXCEPT !.members = Append(@, member)] ELSE without(h)]]

\* The running gateway takes new routes but no new listeners.
AcceptedLive(old, new) == old # None /\ new # None => old.listeners = new.listeners

\* A move starts from the applied document, which must still have the
\* resources of the authored one, and the plan after the move must have them
\* too (plan_with_membership_and_devices).
Move(base, i, g) ==
    /\ edits < MaxEdits
    /\ edits' = edits + 1
    /\ \E p \in Planned(move_instance_to_group(base, i, g), devices) :
          /\ p.resource = plan.resource
          /\ AcceptedLive(plan.host, p.host)
          /\ plan' = p
    /\ UNCHANGED <<definition, devices>>

NotDrifted == \E authored \in Planned(definition, devices) : plan.resource = authored.resource

\* The CLI takes the groups of the applied document into the authored one.
CliBase == [definition EXCEPT !.groups = plan.definition.groups]

cli_move ==
    /\ plan # None
    /\ NotDrifted
    /\ Planned(CliBase, devices) # {}
    /\ \E i \in Elements(definition.order), g \in DOMAIN definition.groups : Move(CliBase, i, g)

\* The daemon takes the applied document as a whole.
daemon_move ==
    /\ plan # None
    /\ NotDrifted
    /\ \E i \in Elements(plan.definition.order), g \in DOMAIN plan.definition.groups :
          Move(plan.definition, i, g)

\* The previews of a move and of an instance plan the same and write nothing.
Next ==
    \/ \E i \in DOMAIN definition.inst :
          \/ \E a \in Addresses[i] \cup {None} : SetInstanceAddress(i, a)
          \/ \E device \in {"local"} \cup DOMAIN Hosts : Place(i, device)
    \/ \E g \in DOMAIN definition.groups :
          \/ \E a \in Addresses[g] \cup {None} : SetGroupAddress(g, a)
          \/ \E m \in Elements(definition.groups[g].members) : SetDisabled(g, {m.inst})
          \/ SetDisabled(g, {})
          \/ \E i \in DOMAIN definition.inst : Join(g, [inst |-> i, svc |-> None])
    \/ \E pair \in Dependencies : ToggleDependency(pair[1], pair[2])
    \/ \E i \in DOMAIN Creatable : create_instance(i)
    \/ \E device \in DOMAIN Hosts : \E host \in Hosts[device] \cup {None} : RegisterDevice(device, host)
    \/ PlanAuthored
    \/ cli_move
    \/ daemon_move

Spec == Init /\ [][Next]_vars

-----------------------------------------------------------------------------
(* Properties                                                                 *)

Names(doc) == {s.name : s \in doc}

\* The services a Compose document must start before this one: dependsOn, and
\* the namespace whose network it joins.
Before(s) == s.needs \cup (IF s.joins = None THEN {} ELSE {s.joins})

\* A document whose dependencies stay on their device can be started: what a
\* service waits for is in the same document, and the documents' services can
\* be put in an order, namespaces, sidecars and applications together.
ComposeCanStart ==
    LET stays(d) == \A n \in Nodes(d) : \A t \in Needs(d, n) : d.inst[t[1]].device = d.inst[n[1]].device
        started(doc) ==
            LET up[k \in 0..Cardinality(doc)] ==
                    IF k = 0 THEN {}
                    ELSE LET running == up[k - 1]
                         IN  {s.name : s \in {t \in doc : Before(t) \subseteq running}}
            IN  up[Cardinality(doc)]
    IN  plan # None /\ stays(plan.definition) =>
          \A device \in DOMAIN plan.compose :
              started(plan.compose[device]) = Names(plan.compose[device])

\* Every service an accepted plan waits for is in the document that waits for
\* it: planning reports a boundary it cannot place rather than placing a part.
ComposeReferencesResolve ==
    plan # None =>
        \A device \in DOMAIN plan.compose : \A s \in plan.compose[device] :
            Before(s) \subseteq Names(plan.compose[device])

\* Two plans with the same resource hash are the same containers, networks and
\* dependencies, so that reusing the running ones is sound; and a service that
\* classify_changes calls live, or does not report, is in the new local document
\* exactly as it was.  A move between groups never needs new containers: the
\* hash does not depend on which group an instance is in.
ReuseIsSound ==
    [][plan # None =>
         /\ plan'.resource = plan.resource => plan'.compose = plan.compose
         /\ \A i \in {j \in Elements(definition.order) : Grouped(definition, j)}, g \in DOMAIN definition.groups :
              ResourceKey(move_instance_to_group(definition, i, g), devices) = ResourceKey(definition, devices)
         /\ LET changes == classify_changes(plan, plan')
                touched == {c.service : c \in {x \in changes : x.impact # "live"}}
            IN  \A s \in plan'.compose["local"] :
                  s.name \notin touched => s \in plan.compose["local"]]_plan

-----------------------------------------------------------------------------
(* Requests through the generated gateway: the plan's configuration, compiled *)
(* and looked up by the router.                                               *)

\* What the listeners that serve a hostname answer.
Answers(config, request) ==
    {RouteRequest(config, l, request) :
        l \in {k \in Elements(config.listeners) :
                  k.proxy = None /\ destination_slot(k, request.host) # None}}

Request(host, headers, origin) == [host |-> host, headers |-> headers, origin |-> origin]

\* The instance an answer leads to.
InstanceOf(answer) ==
    {u.service[1] : u \in {v \in plan.upstreams : v.id = answer.provider}}

LeadsTo(request, i) ==
    LET answers == Answers(plan.host, request)
    IN  answers # {} /\ \A a \in answers : a.status = 200 /\ InstanceOf(a) = {i}

ProfileReachesItsPage(profile) ==
    \E l \in Elements(plan.host.listeners) :
      /\ l.proxy = profile.route
      /\ \E x \in Elements(l.dests) : x.host = Lowered(profile.host) /\ x.port = profile.port
      /\ LET answer == RouteRequest(plan.host, l, Request(profile.host, <<>>, None))
         IN  answer.status = 200 /\
             \E r \in Elements(ProfileRoutes(plan.host, profile.route)) : r.provider = answer.provider

\* A browser that types an address, in lower case as browsers do, reaches the
\* instance that owns it; the address of a group reaches the member with an
\* address of its own, and the other members by their subdomain or by the
\* routing header.  The managed proxy of a profile carries exactly the profile's
\* identity, and leads its start page where the authored browser route says.
AddressesReachTheirOwners ==
    plan # None /\ plan.host # None =>
        LET d == plan.definition
            bare(host) == Request(Lowered(host), <<>>, None)
        IN  /\ \A i \in Elements(d.order) : Addressed(d, i) => LeadsTo(bare(d.inst[i].address), i)
            /\ \A g \in {h \in DOMAIN d.groups : d.groups[h].address # None} :
                  LET address == d.groups[g].address
                      active  == Active(d.groups[g])
                  IN  /\ \E m \in Elements(active) : Addressed(d, m.inst) /\ LeadsTo(bare(address), m.inst)
                      /\ \A m \in Elements(active) :
                            addressed_member_provider(HostUpstreams(d), m) # None =>
                              /\ LeadsTo(bare(<<m.inst>> \o address), m.inst)
                              /\ LeadsTo(Request(Lowered(address), <<m.inst>>, None), m.inst)
            /\ \A i \in Elements(Profiled(d)) : ProfileReachesItsPage(d.profiles[i])

ConfigWith(d, ups) == generate_host_router_config(d, ups, HostRouter(d, ups))
DerivedConfig(d) == ConfigWith(d, HostUpstreams(d))

\* The gateway's browser routes are those of the groups the plan was made for:
\* browser listeners are derived from group membership.
BrowserRoutesFollowMembership ==
    plan # None /\ definition.authored = None =>
        plan.host = (IF HasAddresses(plan.definition)
                     THEN DerivedConfig([plan.definition EXCEPT !.authored = None,
                                                           !.upstreams = definition.upstreams])
                     ELSE None)

\* A page served at an address calls a localhost port and gets the first active
\* member of its own group that offers the port, never a member of another
\* group; a page whose instance is in no group, or disabled, is refused.  A
\* browser writes the host of its Origin in lower case.  The planner accepts
\* addresses with capitals and derives the route from the address as authored,
\* and the router compares origins exactly, so the calls of a page at such an
\* address are all refused although its domain itself is matched whatever its
\* case (docs/router.md:59): the property says so instead of leaving it out.
PageCallsStayInTheirGroup ==
    plan # None /\ plan.host # None /\ definition.authored = None /\ BrowserRoutesFollowMembership =>
        LET d       == plan.definition
            gateway == plan.host.listeners[1]
            home(i) == SelectedGroup(d, i)
            pages   == {i \in Elements(d.order) : Addressed(d, i)}
            plain(i) == Lowered(d.inst[i].address) = d.inst[i].address
        IN  \A i \in pages, k \in 2..Len(plan.host.listeners) :
              LET port   == plan.host.listeners[k].port
                  answer == RouteRequest(plan.host, plan.host.listeners[k],
                                Request(<<"localhost">>, <<>>,
                                        address_origin(gateway, Lowered(d.inst[i].address))))
                  offers == {m \in DOMAIN d.inst : \E u \in plan.upstreams :
                                u.service[1] = m /\ u.port = port}
                  able(g) == SelectSeq(Active(d.groups[g]), LAMBDA m : m.inst \in offers)
              IN  IF plain(i) /\ \E g \in home(i) : able(g) # <<>>
                  THEN \A g \in home(i) : answer.status = 200 /\ InstanceOf(answer) = {able(g)[1].inst}
                  ELSE answer.status = 403

=============================================================================

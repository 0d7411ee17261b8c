---------------------------- MODULE HostRouting ----------------------------
(* The host gateway's configuration, as the planner derives it from a         *)
(* deployment (crates/apmpr-planner/src/lib.rs): the published upstreams, the *)
(* derived router, the addresses of instances and groups, and the managed     *)
(* browser profiles.                                                          *)
(*                                                                            *)
(* A deployment is a record                                                   *)
(*   order     the instances in authored order                                *)
(*   inst      name -> [block, external, device, address]                     *)
(*   groups    name -> [members, disabled, address]; a member is [inst, svc], *)
(*             svc = None when the entry names no service                     *)
(*   authored  a configuration or None, the advanced hostRouter section       *)
(*   upstreams the entries of the hostUpstreams section, which may be there   *)
(*             without a router                                               *)
(*   profiles  name -> [route, host, port] or None, the managed profiles      *)
(* A hostname is a sequence of labels. Generated names are tuples of their    *)
(* parts, so that no two of them collide: the numeric suffix and the digest   *)
(* that keep long or clashing names apart are left out.                       *)
EXTENDS RouterConfig

CONSTANTS
    Blocks,           \* block -> sequence of [name, port, published, probe, needs]
    Groups,           \* the group names, in map order
    GatewayPorts,     \* the reserved gateway range, in probing order
    ProxyPort         \* instance -> the port of its managed proxy listener

Services(d, i) == IF d.inst[i].external THEN <<>> ELSE Blocks[d.inst[i].block]

Active(group) ==
    SelectSeq(group.members, LAMBDA m : m.inst \notin group.disabled)

Grouped(d, i) ==
    \E g \in DOMAIN d.groups : \E m \in Elements(d.groups[g].members) : m.inst = i

Addressed(d, i) == d.inst[i].address # None

HasAddresses(d) ==
    \/ \E i \in Elements(d.order) : Addressed(d, i)
    \/ \E g \in DOMAIN d.groups : d.groups[g].address # None

Concat(s, f(_)) == FlattenSeq([k \in DOMAIN s |-> f(s[k])])

-----------------------------------------------------------------------------
(* with_derived_host_routing: an upstream for every published service with an *)
(* HTTP probe, of every addressed instance and active group member.           *)

BrowserMembers(d) ==
    {i \in Elements(d.order) : Addressed(d, i)}
      \cup UNION {{m.inst : m \in Elements(Active(d.groups[g]))} : g \in DOMAIN d.groups}

HttpProbed(service) == service.probe \in {"http", "https"}

ProviderName(d, i, service) ==
    IF Cardinality({s \in Elements(Services(d, i)) : HttpProbed(s)}) = 1
    THEN <<i>> ELSE <<i, service.name>>

Mapped(d, i, service) == \E u \in Elements(d.upstreams) : u.inst = i /\ u.svc = service.name

\* The services that no authored entry maps already.
DerivedUpstreams(d) ==
    Concat(SelectSeq(d.order, LAMBDA i : ~d.inst[i].external /\ i \in BrowserMembers(d)),
           LAMBDA i :
             LET found == SelectSeq(Services(d, i), LAMBDA s : /\ HttpProbed(s) /\ s.published
                                                               /\ ~Mapped(d, i, s))
             IN  [k \in DOMAIN found |->
                    [id |-> ProviderName(d, i, found[k]), inst |-> i, svc |-> found[k].name,
                     port |-> found[k].port, protocol |-> found[k].probe]])

HostUpstreams(d) ==
    IF d.authored # None \/ ~HasAddresses(d) THEN d.upstreams
    ELSE d.upstreams \o DerivedUpstreams(d)

-----------------------------------------------------------------------------
(* derived_host_router                                                        *)

\* Mutant: any member with the port will do.
AnyWinner(ups, active, port) ==
    LET able == {u \in Elements(ups) : u.port = port}
    IN  IF able = {} THEN None ELSE (CHOOSE u \in able : TRUE).id

\* The first active member of the group, in authored order, that has an
\* upstream on the port; a member that names a service offers only that one.
Winner(ups, active, port) ==
    LET offer(m) == {u \in Elements(ups) : u.inst = m.inst /\ u.port = port /\ m.svc \in {None, u.svc}}
        able == {k \in DOMAIN active : offer(active[k]) # {}}
    IN  IF able = {} THEN None
        ELSE (CHOOSE u \in offer(active[CHOOSE k \in able : \A j \in able : k <= j]) : TRUE).id

PortsOf(ups) == SetToSortSeq({u.port : u \in Elements(ups)}, <)

GroupBrowserRoutes(d, ups) ==
    LET one(g, port) ==
            LET active == Active(d.groups[g])
                winner == Winner(ups, active, port)
            IN  IF winner = None THEN <<>>
                ELSE [k \in DOMAIN active |->
                        [kind |-> "header", value |-> active[k].inst,
                         slot |-> <<"browser", port>>, provider |-> winner]]
        listed == Concat(Groups, LAMBDA g : Concat(PortsOf(ups), LAMBDA p : one(g, p)))
        first(k) == ~\E j \in 1..(k - 1) : listed[j].value = listed[k].value
                                             /\ listed[j].slot = listed[k].slot
    IN  FoldLeft(LAMBDA acc, k : IF first(k) THEN Append(acc, listed[k]) ELSE acc,
                 <<>>, [k \in DOMAIN listed |-> k])

Listener(consumer, port, dests) ==
    [consumer |-> consumer, lan |-> FALSE, port |-> port, protocol |-> "http",
     dests |-> dests, proxy |-> None, auth |-> FALSE]

LocalhostListener(port) ==
    Listener(None, port, <<[kind |-> "localhost", slot |-> <<"browser", port>>,
                            host |-> <<"localhost">>, port |-> 0]>>)

\* The ports some group's browsers reach through localhost.
BrowserPorts(browser) == {r.slot[2] : r \in Elements(browser)}

\* The first port of the reserved range that no browser listener claims.
GatewayPort(browser) ==
    LET free == SelectSeq(GatewayPorts, LAMBDA p : p \notin BrowserPorts(browser))
    IN  IF free = <<>> THEN None ELSE Head(free)

RouterOf(d, ups, browser) ==
    LET addressed == SelectSeq(ups, LAMBDA u : Addressed(d, u.inst))
        ports     == SetToSortSeq(BrowserPorts(browser), <)
    IN  [listeners |-> <<Listener("gateway", GatewayPort(browser), <<>>)>>
                         \o [k \in DOMAIN ports |-> LocalhostListener(ports[k])],
         providers |-> [k \in DOMAIN ups |->
                          [id |-> ups[k].id, protocol |-> ups[k].protocol, loopback |-> TRUE, port |-> 0]],
         routes    |-> [k \in DOMAIN addressed |->
                          [consumer |-> "gateway", slot |-> <<"host", addressed[k].id>>,
                           provider |-> addressed[k].id]],
         browser   |-> browser,
         exposure  |-> [lan |-> FALSE, acknowledged |-> FALSE, tailscale |-> FALSE]]

derived_host_router(d, ups) == RouterOf(d, ups, GroupBrowserRoutes(d, ups))

\* None when the deployment needs no gateway.
HostRouter(d, ups) ==
    IF d.authored # None THEN d.authored
    ELSE IF HasAddresses(d) THEN derived_host_router(d, ups) ELSE None

-----------------------------------------------------------------------------
(* apply_addresses: one accumulator [config, ok, base] threads the router     *)
(* configuration through the addresses; ok turns false when any of them       *)
(* raises a diagnostic, and base is the route the last address was given.     *)

Fail(st) == [st EXCEPT !.ok = FALSE, !.base = None]

Check(st, holds) == [st EXCEPT !.ok = @ /\ holds]

ProvidersOf(ups, i, svc) == {u.id : u \in {v \in Elements(ups) : v.inst = i /\ v.svc = svc}}

\* An instance can carry an address when it has one browser-reachable service,
\* mapped to one provider.
addressed_instance_provider(ups, i) ==
    LET services == {u.svc : u \in {v \in Elements(ups) : v.inst = i}}
        ids      == UNION {ProvidersOf(ups, i, s) : s \in services}
    IN  IF Cardinality(services) = 1 /\ Cardinality(ids) = 1
        THEN CHOOSE p \in ids : TRUE ELSE None

addressed_member_provider(ups, m) ==
    LET ids == ProvidersOf(ups, m.inst, m.svc)
    IN  IF m.svc = None THEN addressed_instance_provider(ups, m.inst)
        ELSE IF Cardinality(ids) = 1 THEN CHOOSE p \in ids : TRUE ELSE None

\* A listener's Origin for an address, the address as it was authored.
address_origin(l, address) == <<l.protocol, address, l.port>>

\* The calls of the page at the Origin go where the instance's explicit header
\* would send them.
OriginRoute(ups, st, t, origin, entry) ==
    [st EXCEPT !.ok = /\ @ /\ entry \in {None, t.provider}
                      /\ \E u \in Elements(ups) : u.id = t.provider,
               !.config.browser =
                  IF entry # None THEN @
                  ELSE Append(@, [kind |-> "origin", value |-> origin, slot |-> t.slot,
                                  provider |-> t.provider])]

add_browser_origin_routes(ups, st, origin, identity) ==
    FoldLeft(LAMBDA acc, t : OriginRoute(ups, acc, t, origin,
                                         BrowserEntry(acc.config, t.slot, "origin", origin)),
             st, SelectSeq(st.config.browser, LAMBDA r : r.kind = "header" /\ r.value = identity))

\* The <<listener, slot>> pairs that already serve a domain, in document order.
Serving(config, address) ==
    Concat([k \in DOMAIN config.listeners |-> k],
           LAMBDA k :
             LET named == SelectSeq(config.listeners[k].dests,
                                    LAMBDA x : x.kind = "domain" /\ Lowered(x.host) = Lowered(address))
             IN  [n \in DOMAIN named |-> <<k, named[n].slot>>])

\* The <<listener, slot>> pairs through which a provider is routed directly;
\* the slots of group members are not among them.
DirectSlots(config, provider) ==
    UNION {{<<k, r.slot>> : k \in {n \in DOMAIN config.listeners :
                                    /\ config.listeners[n].proxy = None
                                    /\ config.listeners[n].consumer = r.consumer
                                    /\ config.listeners[n].protocol \in {"http", "https"}}} :
           r \in {q \in Elements(config.routes) : q.provider = provider /\ q.slot[1] # "group"}}

Domain(slot, address) == [kind |-> "domain", slot |-> slot, host |-> address, port |-> 0]

WithDomain(config, base, address) ==
    [config EXCEPT !.listeners[base[1]].dests = Append(@, Domain(base[2], address))]

RouteThrough(ups, st, address, instance, base, config) ==
    [add_browser_origin_routes(ups, [st EXCEPT !.config = config],
                               address_origin(config.listeners[base[1]], address), instance)
       EXCEPT !.base = base]

\* A slot that serves the address already, else the provider's only direct one.
UsableSlot(ups, st, address, instance, existing, candidates) ==
    LET usable == IF existing = {} THEN candidates ELSE existing
    IN  IF Cardinality(usable) # 1 \/ ~(usable \subseteq candidates) THEN Fail(st)
        ELSE RouteThrough(ups, st, address, instance, CHOOSE x \in usable : TRUE,
                          IF existing # {} THEN st.config
                          ELSE WithDomain(st.config, CHOOSE x \in usable : TRUE, address))

add_address_route(ups, st, address, instance, provider) ==
    UsableSlot(ups, st, address, instance, Elements(Serving(st.config, address)),
               DirectSlots(st.config, provider))

\* A member of an addressed group: its own subdomain, and the header that picks
\* it at the group's bare address.
PickedBy(config, entry, target) ==
    IF entry = None THEN [config EXCEPT !.browser = Append(@, target)] ELSE config

\* With the subdomain served: the header, unless it leads elsewhere already.
MemberPicked(st, i, provider, config, entry) ==
    Check([st EXCEPT !.config = PickedBy(config, entry,
                                   [kind |-> "header", value |-> i, slot |-> st.base[2],
                                    provider |-> provider])],
          entry \in {None, provider})

MemberServed(ups, st, i, subdomain, provider, listener, config) ==
    add_browser_origin_routes(
        ups, MemberPicked(st, i, provider, config, BrowserEntry(config, st.base[2], "header", i)),
        address_origin(listener, subdomain), i)

MemberTarget(ups, st, slot, i, subdomain, provider, listener, existing, declared) ==
    LET reusable == existing = <<>> \/
                      /\ existing[1][1] = st.base[1]
                      /\ \E r \in Elements(st.config.routes) :
                            /\ r.consumer = listener.consumer
                            /\ r.slot = existing[1][2]
                            /\ r.provider = provider
        route    == [consumer |-> listener.consumer, slot |-> slot, provider |-> provider]
    IN  CASE declared = {} -> Check(st, FALSE)
          [] \A p \in declared : ~protocols_compatible(listener.protocol, p.protocol) -> st
          [] ~reusable \/ listener.consumer = None -> Check(st, FALSE)
          [] OTHER -> MemberServed(ups, st, i, subdomain, provider, listener,
                        IF existing # <<>> THEN st.config
                        ELSE [WithDomain(st.config, <<st.base[1], slot>>, subdomain) EXCEPT
                                !.routes = Append(@, route)])

add_group_member_target(ups, st, group, address, m, provider) ==
    MemberTarget(ups, st, <<"group", group, m.inst>>, m.inst, <<m.inst>> \o address, provider,
                 st.config.listeners[st.base[1]], Serving(st.config, <<m.inst>> \o address),
                 {p \in Elements(st.config.providers) : p.id = provider})

InstanceAddress(d, ups, st, i) ==
    LET provider == addressed_instance_provider(ups, i)
    IN  IF provider = None THEN Fail(st)
        ELSE add_address_route(ups, st, d.inst[i].address, i, provider)

\* A group's address leads to its only active member with an address of its own.
GroupMember(ups, st, g, address, m, p) ==
    IF p = None THEN st ELSE add_group_member_target(ups, st, g, address, m, p)

GroupMembers(ups, st, g, address, active) ==
    IF st.base = None THEN st
    ELSE FoldLeft(LAMBDA acc, m : GroupMember(ups, acc, g, address, m,
                                              addressed_member_provider(ups, m)), st, active)

GroupDefault(ups, st, g, address, active, default, provider) ==
    IF provider = None THEN Fail(st)
    ELSE GroupMembers(ups, add_address_route(ups, st, address, default.inst, provider),
                      g, address, active)

GroupAddress(d, ups, st, g) ==
    LET active   == Active(d.groups[g])
        defaults == SelectSeq(active, LAMBDA m : Addressed(d, m.inst))
    IN  IF Len(defaults) # 1 THEN Fail(st)
        ELSE GroupDefault(ups, st, g, d.groups[g].address, active, defaults[1],
                          addressed_member_provider(ups, defaults[1]))

apply_addresses(d, ups, config) ==
    LET start  == [config |-> config, ok |-> TRUE, base |-> None]
        own    == FoldLeft(LAMBDA st, i : InstanceAddress(d, ups, st, i), start,
                           SelectSeq(d.order, LAMBDA i : Addressed(d, i)))
    IN  FoldLeft(LAMBDA st, g : GroupAddress(d, ups, st, g), own,
                 SelectSeq(Groups, LAMBDA g : d.groups[g].address # None))

-----------------------------------------------------------------------------
(* The managed browser profiles of an authored router: a proxy listener per   *)
(* profile, whose targets are the destinations of its browser routes.         *)

\* The cleartext destinations of a slot, with the port of their listener.
SourceDestinations(config, slot) ==
    Concat(SelectSeq(config.listeners, LAMBDA l : l.proxy = None /\ l.protocol = "http"),
           LAMBDA l :
             LET named == SelectSeq(l.dests, LAMBDA x : x.slot = slot)
             IN  [k \in DOMAIN named |-> [host |-> named[k].host, port |-> l.port]])

ProfileRoutes(config, identity) ==
    SelectSeq(config.browser, LAMBDA r : r.kind = "proxy" /\ r.value = identity)

\* Each route of the profile names one local destination, and the page the
\* profile starts on is exactly one of them.
ProfileResolves(config, profile) ==
    LET routes  == ProfileRoutes(config, profile.route)
        targets == Concat(routes, LAMBDA r : SourceDestinations(config, r.slot))
    IN  /\ routes # <<>>
        /\ \A r \in Elements(routes) :
              /\ Len(SourceDestinations(config, r.slot)) = 1
              /\ is_local_host(SourceDestinations(config, r.slot)[1].host)
        /\ Len(SelectSeq(targets, LAMBDA x : /\ Lowered(x.host) = Lowered(profile.host)
                                             /\ x.port = profile.port)) = 1

ProxyTargets(config, profile) ==
    LET routes == ProfileRoutes(config, profile.route)
        source(r) == SourceDestinations(config, r.slot)[1]
    IN  [k \in DOMAIN routes |->
           [kind |-> "proxy", slot |-> routes[k].slot,
            host |-> Lowered(source(routes[k]).host), port |-> source(routes[k]).port]]

ProxyListener(config, i, profile) ==
    [Listener(None, ProxyPort[i], ProxyTargets(config, profile)) EXCEPT
        !.proxy = profile.route, !.auth = TRUE]

Profiled(d) == SelectSeq(d.order, LAMBDA i : d.profiles[i] # None)

\* generate_host_router_config: the providers of remote instances get the
\* device's address, then come the addresses and the managed proxies.
WithProxies(d, routed) ==
    FoldLeft(LAMBDA c, i : [c EXCEPT !.listeners =
                              Append(@, ProxyListener(routed, i, d.profiles[i]))],
             routed, Profiled(d))

generate_host_router_config(d, ups, router) ==
    LET remote(id) == {u \in Elements(ups) : u.id = id /\ d.inst[u.inst].device # "local"}
        place(p) == IF remote(p.id) = {} THEN p
                    ELSE [p EXCEPT !.loopback = FALSE, !.port = (CHOOSE u \in remote(p.id) : TRUE).port]
        placed == [router EXCEPT !.providers = [k \in DOMAIN @ |-> place(@[k])]]
    IN  WithProxies(d, apply_addresses(d, ups, placed).config)
=============================================================================

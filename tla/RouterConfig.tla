---------------------------- MODULE RouterConfig ----------------------------
(* A router configuration: what the router accepts, how it compiles the      *)
(* accepted one, and how the HTTP data plane routes one request with it.     *)
(*   crates/router-config/src/v1alpha1.rs   validate                          *)
(*   crates/router-core/src/lib.rs          compile and the two lookups       *)
(*   crates/router-pingora/src/lib.rs       a listener's choice of a route    *)
(*                                                                            *)
(* A configuration is a record of sequences, in the order of the document:    *)
(*   listeners  [consumer, lan, port, protocol, dests, proxy, auth]           *)
(*   dests      [kind, slot, host, port]  kind: domain, localhost, proxy      *)
(*   providers  [id, protocol, loopback, port]                                *)
(*   routes     [consumer, slot, provider]                                    *)
(*   browser    [kind, value, slot, provider]  kind: header, origin, proxy    *)
(*   exposure   [lan, acknowledged, tailscale]                                *)
(* A listener has TLS exactly when its protocol is https. The groups and      *)
(* bindings of the schema are never generated, and are left out.              *)
EXTENDS Nothing, Naturals, Sequences, FiniteSets, SequencesExt

CONSTANT
    Lower   \* a hostname label -> the label in lower case

\* A hostname is a sequence of labels.
Lowered(host) == [k \in DOMAIN host |-> Lower[host[k]]]

Elements(s) == ToSet(s)

\* Two positions of a list never carry the same key.
DistinctBy(s, Key(_)) ==
    \A i, j \in DOMAIN s : i # j => Key(s[i]) # Key(s[j])

Destinations(c) == UNION {Elements(l.dests) : l \in Elements(c.listeners)}

\* The protocols of the listeners that declare a slot.
SlotProtocols(c, slot) ==
    {l.protocol : l \in {k \in Elements(c.listeners) :
                            \E d \in Elements(k.dests) : d.slot = slot}}

protocols_compatible(listener, provider) ==
    \/ listener = provider
    \/ {listener, provider} \subseteq {"http", "https"}

ValidExposure(c) ==
    /\ c.exposure.lan => c.exposure.acknowledged
    /\ c.exposure.tailscale => c.exposure.lan /\ c.exposure.acknowledged

\* The last label says whether a host is local.
is_local_host(host) == Lower[host[Len(host)]] = "localhost"

ValidListener(c, l) ==
    /\ l.lan => c.exposure.lan /\ c.exposure.acknowledged
    /\ l.port # 0
    /\ l.dests # <<>>
    /\ l.auth => l.protocol = "http"
    /\ l.proxy # None => l.auth
    /\ \A d \in Elements(l.dests) :
          /\ (d.kind = "proxy") = (l.proxy # None)
          /\ d.kind = "proxy" => d.port # 0 /\ is_local_host(d.host)

ValidListeners(c) ==
    /\ \A l \in Elements(c.listeners) : ValidListener(c, l)
    /\ DistinctBy(c.listeners, LAMBDA l : <<l.consumer, l.lan, l.port>>)
    /\ \A d \in Destinations(c) : Cardinality(SlotProtocols(c, d.slot)) = 1

ValidProviders(c) ==
    /\ \A p \in Elements(c.providers) : c.exposure.lan => p.loopback
    /\ DistinctBy(c.providers, LAMBDA p : p.id)

\* validate_provider_reference: the slot is some listener's, the provider is
\* declared, and the two speak compatible protocols.
ValidReference(c, slot, provider) ==
    \E p \in Elements(c.providers), protocol \in SlotProtocols(c, slot) :
        p.id = provider /\ protocols_compatible(protocol, p.protocol)

ValidRoutes(c) ==
    /\ DistinctBy(c.routes, LAMBDA r : <<r.consumer, r.slot>>)
    /\ DistinctBy(c.browser, LAMBDA r : <<r.slot, r.kind, r.value>>)
    /\ \A r \in Elements(c.routes) \cup Elements(c.browser) :
          ValidReference(c, r.slot, r.provider)

Valid(c) ==
    ValidExposure(c) /\ ValidListeners(c) /\ ValidProviders(c) /\ ValidRoutes(c)

-----------------------------------------------------------------------------
(* router-core: a configuration compiled to two tables, later entries of the  *)
(* document overwriting earlier ones with the same key.                       *)

ProviderAt(s, hits) ==
    IF hits = {} THEN None ELSE s[CHOOSE i \in hits : \A j \in hits : j <= i].provider

LastOf(s, Matches(_)) == ProviderAt(s, {i \in DOMAIN s : Matches(s[i])})

lookup_consumer(c, consumer, slot) ==
    LastOf(c.routes, LAMBDA r : r.consumer = consumer /\ r.slot = slot)

BrowserEntry(c, slot, kind, value) ==
    LastOf(c.browser, LAMBDA r : r.slot = slot /\ r.kind = kind /\ r.value = value)

browser_candidates(c, slot) == {r \in Elements(c.browser) : r.slot = slot}

Found(provider) == [status |-> 200, provider |-> provider]

Refused(status) == [status |-> status, provider |-> None]

\* The header decides before the Origin, the Origin before the proxy
\* listener; an unknown identity of the highest precedence present fails.
Precedence(header, origin, proxy, by_header, by_origin, by_proxy) ==
    CASE header # None /\ by_header = None -> Refused(403)
      [] header # None /\ origin # None /\ by_origin \notin {None, by_header} -> Refused(400)
      [] header # None -> Found(by_header)
      [] origin # None -> IF by_origin = None THEN Refused(403) ELSE Found(by_origin)
      [] proxy # None  -> IF by_proxy = None THEN Refused(403) ELSE Found(by_proxy)
      [] OTHER -> Refused(400)

lookup_browser(c, slot, header, origin, proxy) ==
    Precedence(header, origin, proxy, BrowserEntry(c, slot, "header", header),
               BrowserEntry(c, slot, "origin", origin), BrowserEntry(c, slot, "proxy", proxy))

-----------------------------------------------------------------------------
(* router-pingora: a request is [host, headers, origin] - the routing header  *)
(* may occur any number of times. Hosts are compared without regard to case.  *)

\* Mutant: hosts are compared as they are written.
exact_slot(l, host) ==
    LET hits == {i \in DOMAIN l.dests : l.dests[i].host = host}
    IN  IF hits = {} THEN None
        ELSE l.dests[CHOOSE i \in hits : \A j \in hits : i <= j].slot

destination_slot(l, host) ==
    LET hits == {i \in DOMAIN l.dests : Lowered(l.dests[i].host) = Lowered(host)}
    IN  IF hits = {} THEN None
        ELSE l.dests[CHOOSE i \in hits : \A j \in hits : i <= j].slot

\* A listener with a consumer: the routing header overrides the consumer's own
\* route wherever the destination has browser routes at all.
ConsumerRoute(c, l, slot, r) ==
    IF r.headers # <<>> /\ browser_candidates(c, slot) # {}
    THEN CASE Len(r.headers) > 1 -> Refused(400)
           [] l.lan -> Refused(403)
           [] OTHER -> lookup_browser(c, slot, r.headers[1], None, None)
    ELSE LET provider == lookup_consumer(c, l.consumer, slot)
         IN  IF provider = None THEN Refused(404) ELSE Found(provider)

BrowserRoute(c, l, slot, r) ==
    LET header == IF r.headers = <<>> THEN None ELSE r.headers[1]
    IN  CASE Len(r.headers) > 1 -> Refused(400)
          [] header # None /\ l.lan -> Refused(403)
          [] OTHER -> lookup_browser(c, slot, header, r.origin, l.proxy)

\* request_filter, up to the choice of the provider.
RouteAt(c, l, slot, r) ==
    CASE slot = None -> Refused(404)
      [] slot # None /\ l.consumer # None -> ConsumerRoute(c, l, slot, r)
      [] OTHER -> BrowserRoute(c, l, slot, r)

RouteRequest(c, l, r) == RouteAt(c, l, destination_slot(l, r.host), r)
=============================================================================

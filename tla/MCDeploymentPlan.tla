-------------------------- MODULE MCDeploymentPlan --------------------------
(* A page (u1), two interchangeable backends (a1, a2) and a service outside   *)
(* the project (e1), in two groups. The overlays of an instance are resolved  *)
(* in behaviours of their own, beside an untouched definition.                *)
EXTENDS DeploymentPlan, Overlays

MCLower == [l \in {"app", "APP", "page", "g", "h", "u1", "u2", "a1", "a2", "localhost"} |->
              IF l = "APP" THEN "app" ELSE l]

Svc(name, port, published, probe) ==
    [name |-> name, port |-> port, published |-> published, probe |-> probe]

MCBlocks == [ui  |-> <<Svc("web", 3, TRUE, "http")>>,
             api |-> <<Svc("http", 8, TRUE, "http"), Svc("db", 5, FALSE, "tcp")>>]

MCGroups == <<"g1", "g2">>

\* The first port of the range is also the port of the backends.
MCGatewayPorts == <<8, 9>>

MCProxyPort == [i \in {"u1", "u2", "a1", "a2", "e1"} |-> 20]

Instance(block) == [block |-> block, external |-> FALSE, device |-> "local", address |-> None]

External == [block |-> None, external |-> TRUE, device |-> "local", address |-> None]

Member(i) == [inst |-> i, svc |-> None]

NoNeeds == [n \in {<<"ui", "web">>, <<"api", "http">>, <<"api", "db">>} |-> {}]

Plain ==
    [order    |-> <<"u1", "a1", "a2", "e1">>,
     inst     |-> [u1 |-> Instance("ui"), a1 |-> Instance("api"), a2 |-> Instance("api"), e1 |-> External],
     groups   |-> [g1 |-> [members |-> <<Member("u1"), Member("a1")>>, disabled |-> {}, address |-> None],
                   g2 |-> [members |-> <<Member("a2"), Member("e1")>>, disabled |-> {}, address |-> None]],
     authored |-> None, upstreams |-> <<>>,
     profiles |-> [i \in {"u1", "a1", "a2", "e1"} |-> None],
     needs    |-> [NoNeeds EXCEPT ![<<"api", "http">>] = {[inst |-> None, svc |-> "db"]}]]

\* The same, with an address for the page and for its group.
Addressed2 ==
    [Plain EXCEPT !.inst["u1"].address = <<"app", "localhost">>,
                  !.groups["g1"].address = <<"g", "localhost">>]

\* A second page in the other group, which has an address too, and its backend
\* on the device.
TwoPages ==
    [Addressed2 EXCEPT !.order = Append(@, "u2"),
        !.inst = [i \in {"u2"} \cup DOMAIN @ |->
                    CASE i = "u2" -> [Instance("ui") EXCEPT !.address = <<"page", "localhost">>]
                      [] i = "a2" -> [@[i] EXCEPT !.device = "far"]
                      [] OTHER -> @[i]],
        !.profiles = [i \in {"u2"} \cup DOMAIN @ |-> None],
        !.groups["g2"] = [members |-> <<Member("u2"), Member("a2")>>, disabled |-> {},
                          address |-> <<"h", "localhost">>]]

\* An authored router: one listener for the page, and a managed profile whose
\* proxy leads to it.
Managed ==
    [Plain EXCEPT
       !.profiles["u1"] = [route |-> "profile-u1", host |-> <<"page", "localhost">>, port |-> 7],
       !.authored =
         [listeners |-> <<[consumer |-> None, lan |-> FALSE, port |-> 7, protocol |-> "http",
                           dests |-> <<[kind |-> "domain", slot |-> <<"slot", "page">>,
                                        host |-> <<"page", "localhost">>, port |-> 0],
                                       [kind |-> "domain", slot |-> <<"slot", "api">>,
                                        host |-> <<"APP", "localhost">>, port |-> 0]>>,
                           proxy |-> None, auth |-> FALSE]>>,
          providers |-> <<[id |-> <<"u1">>, protocol |-> "http", loopback |-> TRUE, port |-> 0],
                          [id |-> <<"a1">>, protocol |-> "http", loopback |-> TRUE, port |-> 0]>>,
          routes |-> <<>>,
          browser |-> <<[kind |-> "proxy", value |-> "profile-u1", slot |-> <<"slot", "page">>,
                         provider |-> <<"u1">>],
                        [kind |-> "proxy", value |-> "profile-u1", slot |-> <<"slot", "api">>,
                         provider |-> <<"a1">>]>>,
          exposure |-> [lan |-> FALSE, acknowledged |-> FALSE, tailscale |-> FALSE]],
       !.upstreams = <<[id |-> <<"u1">>, inst |-> "u1", svc |-> "web", port |-> 3, protocol |-> "http"],
                       [id |-> <<"a1">>, inst |-> "a1", svc |-> "http", port |-> 8, protocol |-> "http"]>>]

\* An entry of one's own for the page, and the rest derived.
OwnEntry ==
    [Addressed2 EXCEPT !.upstreams =
       <<[id |-> <<"front">>, inst |-> "u1", svc |-> "web", port |-> 3, protocol |-> "http"]>>]

MCDefinitions == {Plain, Addressed2, TwoPages, Managed, OwnEntry}

MCHosts == [far |-> {"host1", "host2"}]

MCAddresses == [u1 |-> {<<"app", "localhost">>}, a1 |-> {<<"APP", "localhost">>},
                a2 |-> {<<"page", "localhost">>}, u2 |-> {}, e1 |-> {},
                g1 |-> {<<"g", "localhost">>}, g2 |-> {<<"h", "localhost">>}]

MCCreatable == [u2 |-> Instance("ui")]

MCDependencies ==
    {<<<<"ui", "web">>, [inst |-> "a1", svc |-> "http"]>>,
     <<<<"api", "db">>, [inst |-> "u1", svc |-> "web"]>>,
     <<<<"api", "db">>, [inst |-> None, svc |-> "http"]>>}

-----------------------------------------------------------------------------
Overlay(envFile, unsets, set) ==
    [selects |-> TRUE, optional |-> FALSE, envFile |-> envFile, unset |-> unsets, set |-> set,
     param |-> Absent, file |-> Absent]

EnvOverlays ==
    {Overlay(f, u, s) : f \in {Absent, "f"}, u \in BOOLEAN,
        s \in {Absent, [kind |-> "literal", value |-> "l"], [kind |-> "secret", value |-> "s"]}}

FileOverlays ==
    {[Overlay(Absent, FALSE, Absent) EXCEPT !.selects = sel, !.optional = opt, !.param = p, !.file = f] :
        sel \in BOOLEAN, opt \in BOOLEAN, p \in {Absent, "p"},
        f \in {Absent} \cup [template : BOOLEAN, replace : BOOLEAN, controlled : {TRUE}]
                       \cup {[template |-> FALSE, replace |-> TRUE, controlled |-> FALSE]}}

Layers(overlays, default, own, cli, paramOwn) ==
    [overlays |-> overlays, default |-> default, own |-> own, cli |-> cli,
     paramDefault |-> Absent, paramOwn |-> paramOwn, shared |-> FALSE]

Idle == Layers(<<>>, Absent, Absent, Absent, Absent)

MCOverlayInputs ==
    {Idle}
      \cup {Layers(<<a, b>>, d, o, c, Absent) : a \in EnvOverlays, b \in EnvOverlays,
               d \in {Absent, "d"}, o \in {Absent, "o"}, c \in {Absent, "c"}}
      \cup {Layers(<<a, b>>, Absent, Absent, Absent, p) : a \in FileOverlays, b \in FileOverlays,
               p \in {Absent, "q"}}
      \cup {[Layers(<<[a EXCEPT !.param = p]>>, d, o, Absent, q) EXCEPT !.paramDefault = r, !.shared = TRUE] :
               a \in EnvOverlays, p \in {Absent, "p"}, d \in {Absent, "d"}, o \in {Absent, "o"},
               q \in {Absent, "q"}, r \in {Absent, "r"}}

PlannerInit == Init /\ OverlayInit /\ (input = Idle \/ definition = Plain)

PlannerNext ==
    \/ input = Idle /\ Next /\ UNCHANGED ovars
    \/ input # Idle /\ OverlayNext /\ UNCHANGED vars

PlannerSpec == PlannerInit /\ [][PlannerNext]_<<vars, ovars>>
=============================================================================

---------------------------- MODULE Publications ----------------------------
(***************************************************************************)
(* What a deployment publishes beside its gateway: one mDNS publisher      *)
(* process per .local name (LanRuntime in crates/apmpr-cli/src/            *)
(* lan_preflight.rs) and the tailnet record (TailscaleRuntime in           *)
(* crates/apmpr-cli/src/tailscale_publication.rs), each with a state file. *)
(*                                                                         *)
(* A publisher is <<name, i>>: the process i that publishes name.          *)
(***************************************************************************)
EXTENDS ComposeProjects

CONSTANT Names   \* the .local names that plans publish

Publishers == Names \X (1..2)

VARIABLES
  publishers,   \* the publisher processes that live, but for the lost ones
  mdns,         \* mdns-publication.json: [plan, pubs] or None
  tailnet,      \* tailscale-publication.json: the plan it was written for, or None
  loose         \* ghost: the names with a publisher that no record leads to any more,
                \* because the command that started it was cut short

publicationVars == <<publishers, mdns, tailnet, loose>>

PublicationInit == publishers = {} /\ mdns = None /\ tailnet = None /\ loose = {}

(* The .local names of the plan's listeners that the LAN is to see.         *)
desired_publications(plan) == plan.names

(* Whether the plan asks for a publication on the tailnet.                  *)
configuration(plan) == plan.tail

Recorded == IF mdns = None THEN {} ELSE mdns.pubs

(* Mutant: the names are not compared.                                      *)
PublishesSome(plan) ==
  /\ mdns # None
  /\ mdns.plan = plan
  /\ mdns.pubs \subseteq publishers

(* start_with keeps what is there: the same definition, every publisher     *)
(* with its identity, and exactly the names that are wanted.                *)
Publishes(plan) ==
  /\ mdns # None
  /\ mdns.plan = plan
  /\ mdns.pubs \subseteq publishers
  /\ {pub[1] : pub \in mdns.pubs} = desired_publications(plan)

(* spawn_publisher, for a name that the state does not list yet.            *)
SpawnPublisher(pub) ==
  /\ pub \notin publishers
  /\ publishers' = publishers \cup {pub}
  /\ UNCHANGED <<mdns, tailnet, loose>>

RecordPublisher(plan, pub) ==
  /\ mdns' = [plan |-> plan, pubs |-> Recorded \cup {pub}]
  /\ UNCHANGED <<publishers, tailnet, loose>>

(* stop_publishers, one of them: TERM, then KILL, if it still is the        *)
(* recorded process.                                                        *)
StopPublisher(pub) ==
  /\ publishers' = publishers \ {pub}
  /\ UNCHANGED <<mdns, tailnet, loose>>

ForgetPublishers == mdns' = None /\ UNCHANGED <<publishers, tailnet, loose>>

RecordTailnet(plan) == tailnet' = plan /\ UNCHANGED <<publishers, mdns, loose>>

ForgetTailnet == tailnet' = None /\ UNCHANGED <<publishers, mdns, loose>>

(* The command is cut short while it alone knows these.                     *)
LosePublishers(pubs) ==
  /\ publishers' = publishers \ pubs
  /\ loose' = loose \cup {pub[1] : pub \in pubs \cap publishers}
  /\ UNCHANGED <<mdns, tailnet>>

(* avahi-publish-address exits by itself.                                   *)
PublisherDies(pub) ==
  /\ pub \in publishers
  /\ publishers' = publishers \ {pub}
  /\ UNCHANGED <<mdns, tailnet, loose>>

=============================================================================

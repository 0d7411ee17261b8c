--------------------------- MODULE RouterSnapshots ---------------------------
(***************************************************************************)
(* The administration side of the routers of one deployment: requests that *)
(* wait at a router, and the snapshot each router serves (crates/          *)
(* apmpr-router/src/lib.rs, crates/router-core/src/lib.rs, and the client  *)
(* crates/apmpr-router-admin/src/lib.rs).                                  *)
(*                                                                         *)
(* A snapshot is its version and its route table; the checksum is a digest *)
(* of both.  An apply holds apply_lock from validation to the reply, and   *)
(* nothing else writes the engine, so it is one step.  A client that gives *)
(* up (the 10 s timeout, the death of the daemon) does not take its request *)
(* back: the router may still serve it.                                    *)
(*                                                                         *)
(* tcp_reload_failed is left out: validate_candidate resolves every TCP    *)
(* target of the same configuration before, so it cannot be answered.      *)
(***************************************************************************)
EXTENDS Naturals

CONSTANTS
  Routers,   \* the sidecars and the host gateway
  Tables,    \* route tables
  Health     \* what the readiness probes find out about a table's providers

ASSUME RouterAssumption ==
  Health \in [Tables -> {"up", "down", "flaky", "invalid"}]

VARIABLES
  active,    \* the engine's current snapshot
  inbox,     \* apply requests at the router's socket
  reply      \* the answer to the request its client still waits for

routerVars == <<active, inbox, reply>>

Snapshot(v, t) == [version |-> v, table |-> t]
Snapshots == [version : Nat, table : Tables]
Requests == [version : Nat, table : Tables, live : BOOLEAN]

(* "rejected" is invalid_configuration; "broken" is a connection that ends  *)
(* without an answer.                                                       *)
Answers == {"activated", "rejected_stale", "unhealthy", "rejected"}
Replies == Answers \cup {"none", "broken"}

RouterTypeOK ==
  /\ active \in [Routers -> Snapshots]
  /\ inbox \in [Routers -> SUBSET Requests]
  /\ reply \in Replies

(* The client connects and writes its request.                              *)
Submit(r, v, t) ==
  /\ inbox' = [inbox EXCEPT ![r] =
                 @ \cup {[version |-> v, table |-> t, live |-> TRUE]}]
  /\ reply' = "none"

(* The client stops waiting.                                                *)
Abandoned(q) ==
  [version |-> q.version, table |-> q.table, live |-> FALSE]
Abandon ==
  /\ inbox' = [r \in Routers |-> {Abandoned(q) : q \in inbox[r]}]
  /\ reply' = "none"

(* Mutant: a snapshot of the active version replaces it.                    *)
NewerOrSame(r, q) == q.version >= active[r].version

(* RouteEngine::apply takes strictly newer snapshots only.                  *)
Newer(r, q) == q.version > active[r].version

(* What execute may answer; only a newer snapshot is probed.                *)
Verdicts(r, q) ==
  CASE Health[q.table] = "invalid" -> {"rejected"}
    [] Health[q.table] # "invalid" /\ ~Newer(r, q) -> {"rejected_stale"}
    [] OTHER -> (IF Health[q.table] # "down" THEN {"activated"} ELSE {})
                  \cup (IF Health[q.table] # "up" THEN {"unhealthy"} ELSE {})

Handle(r, q, a) ==
  /\ q \in inbox[r]
  /\ a \in Verdicts(r, q)
  /\ inbox' = [inbox EXCEPT ![r] = @ \ {q}]
  /\ active' = IF a = "activated"
               THEN [active EXCEPT ![r] = Snapshot(q.version, q.table)]
               ELSE active
  /\ reply' = IF q.live THEN a ELSE reply

RouterStep == \E r \in Routers : \E q \in inbox[r] :
                \E a \in Verdicts(r, q) : Handle(r, q, a)

(* A sidecar exits and Docker starts it again on its configuration file;    *)
(* the requests at its socket are gone.                                     *)
RouterRestart(r, config) ==
  /\ active' = [active EXCEPT ![r] = config]
  /\ inbox' = [inbox EXCEPT ![r] = {}]
  /\ reply' = IF \E q \in inbox[r] : q.live THEN "broken" ELSE reply
=============================================================================

---------------------------- MODULE MCLiveBinding ----------------------------
(* Two sidecars, with or without the gateway, of one deployment, and three   *)
(* or four groups.  The second sidecar is a peer in group 2: its table       *)
(* differs there only, so a move between the others does not target it.      *)
EXTENDS LiveBinding, TLC

CONSTANTS own, peer, gate

ThreeRouters == {own, peer, gate}
TwoRouters == {own, peer}
ByName == (own :> 1) @@ (peer :> 2) @@ (gate :> 3)
ThreeGroups == 1..3
FourGroups == 1..4
AllTables == {"own1", "own2", "own3", "own4", "alone", "shared",
              "gate1", "gate2"}

PlannedTables ==
  (own :> <<"own1", "own2", "own3", "own4">>) @@
  (peer :> <<"alone", "shared", "alone", "alone">>) @@
  (gate :> <<"gate1", "gate1", "gate2", "gate1">>)
TwoTables ==
  (own :> <<"own1", "own2", "own3">>) @@
  (peer :> <<"alone", "shared", "alone">>)
TwoRanks == (own :> 1) @@ (peer :> 2)

AllUp == [t \in AllTables |-> "up"]
(* A provider of group 3 is down for good and group 4's routes are invalid.  *)
SomeDown == [AllUp EXCEPT !["gate2"] = "down", !["own4"] = "invalid"]
(* Any provider may fail a readiness probe and pass the next.                *)
AllFlaky == [t \in AllTables |-> "flaky"]
=============================================================================

------------------------- MODULE MCDeploymentRuntime -------------------------
(* Instances of DeploymentRuntime.                                          *)
EXTENDS DeploymentRuntime

CONSTANTS dev, n1, n2

PlanOf(h, remotes, local, host, names, tail) ==
  [hash |-> h, remotes |-> remotes, local |-> local, host |-> host, names |-> names,
   tail |-> tail]

(* A gateway published on the LAN and the tailnet, with services here and   *)
(* on a device; the same resources with other routes and one name; and      *)
(* other resources without a gateway.                                       *)
Lan3 == {PlanOf("A", <<dev>>, TRUE, TRUE, {n1, n2}, TRUE),
         PlanOf("A", <<dev>>, TRUE, TRUE, {n1}, FALSE),
         PlanOf("B", <<dev>>, TRUE, FALSE, {}, FALSE)}

=============================================================================

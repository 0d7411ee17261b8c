------------------------- MODULE MCDaemonOperations -------------------------
(* Small daemons: a lease lives three ticks and is heartbeated every tick,   *)
(* the 15 s and 5 s of the code.                                             *)
EXTENDS DaemonOperations, TLC

CONSTANTS a, b, c, d1, d2

TwoOps == {a, b}
ThreeOps == {a, b, c}
OneKey == {d1}
TwoKeys == {d1, d2}

(* Which lease key the operations ask for.                                   *)
BothOnOne == [op \in TwoOps |-> d1]
Apart == (a :> d1) @@ (b :> d2)
ThirdApart == (a :> d1) @@ (b :> d1) @@ (c :> d2)

(* What they do; a clone has a key of its own kind, "source:<name>".         *)
ApplyBind == (a :> "apply") @@ (b :> "bind")
ApplyDown == (a :> "apply") @@ (b :> "command")
ApplyClone == (a :> "apply") @@ (b :> "clone")
ApplyBindApply == ApplyBind @@ (c :> "apply")
ApplyDownApply == ApplyDown @@ (c :> "apply")
=============================================================================

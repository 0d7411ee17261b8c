--------------------------- MODULE MCDaemonTimely ---------------------------
(* The daemon whose clock and store keep up: its operations, and the commands *)
(* on a deployment that they carry out.  A behaviour is about one of them     *)
(* (focus) and leaves the other as it begins.                                 *)
EXTENDS MCDaemonOperations, MCDeploymentRuntime

VARIABLE focus   \* what the behaviour is about

TimelyInit ==
  /\ focus \in {"operations", "runtime"}
  /\ Init
  /\ RuntimeInit
  /\ focus # "runtime" =>
       authored = (CHOOSE p \in Plans : TRUE) /\ foreign = {}

TimelyNext ==
  /\ UNCHANGED focus
  /\ \/ focus = "operations" /\ Next /\ UNCHANGED runtimeVars
     \/ focus = "runtime" /\ RuntimeNext /\ UNCHANGED vars

(* Ports and binaries are only compared with each other, and the properties  *)
(* are about safety only.                                                    *)
Alike == Permutations(Ports) \cup Permutations(Binaries)

TimelySpec == TimelyInit /\ [][TimelyNext]_<<focus, vars, runtimeVars>>
=============================================================================

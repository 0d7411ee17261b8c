--------------------------- MODULE RuleInterception ---------------------------
(***************************************************************************)
(* The packet rules that redirect a container's localhost to its sidecar   *)
(* (InterceptionGuard in crates/apmpr-router/src/transparent_interception  *)
(* .rs): installed one command at a time before the router starts, removed *)
(* when it ends, in a network namespace that outlives the process.         *)
(*                                                                         *)
(* Every command may fail, for instance because another one holds the lock *)
(* of the tables, and the process may be killed between two commands and   *)
(* started again.  A failing command ends the install, but the code        *)
(* ignores the failures of cleanup_family, that of -N, and takes a failing *)
(* check (-C) for the answer that the rule is not there.                   *)
(***************************************************************************)
EXTENDS Naturals, Sequences, SequencesExt, FiniteSets

CONSTANTS
  MaxKills,    \* bound on kills and failing installs
  MaxIgnored,  \* bound on failures that go unnoticed
  MaxStarts    \* bound on starts of the process

Families == {"iptables", "ip6tables"}
HasExclusion(fam) == fam = "iptables"   \* Docker's resolver, 127.0.0.11

NoChain == <<"none">>

VARIABLES
  chain,       \* the rules of APMPR_OUT of each family, or NoChain
  outgoing,      \* the rules of ours in OUTPUT, in order
  inbound,     \* how often PREROUTING jumps to the chain
  guard,       \* the commands the process has still to run, and what follows
  ignored,     \* the commands whose failure went unnoticed
  kills,
  starts

ruleVars == <<chain, outgoing, inbound, guard, ignored, kills, starts>>

(* Mutant: the jump is added before the exclusion.                          *)
JumpFirst(fam) ==
  [k \in 1..7 |-> <<fam, <<"-N", "-F", "bypass", "redirect", "jump", "exclude", "inbound">>[k]>>]

(* The commands of install_family and of cleanup_family.                    *)
InstallFamily(fam) ==
  [k \in 1..7 |-> <<fam, <<"-N", "-F", "bypass", "redirect", "exclude", "jump", "inbound">>[k]>>]

CleanupFamily(fam) ==
  [k \in 1..5 |-> <<fam, <<"-D inbound", "-D jump", "-D exclude", "flush", "-X">>[k]>>]

Removed == [to |-> "gone", left |-> CleanupFamily("ip6tables") \o CleanupFamily("iptables")]

RuleInit ==
  /\ chain = [f \in Families |-> NoChain]
  /\ outgoing = [f \in Families |-> <<>>]
  /\ inbound = [f \in Families |-> 0]
  /\ guard = [to |-> "gone", left |-> <<>>]
  /\ ignored = {} /\ kills = 0 /\ starts = 0

AddOnce(rules, rule) == IF rule \in Range(rules) THEN rules ELSE Append(rules, rule)
DropFirst(rules, rule) ==
  IF rule \in Range(rules) THEN RemoveAt(rules, SelectInSeq(rules, LAMBDA x : x = rule)) ELSE rules

(* What a command does when it succeeds.                                    *)
Runs(fam, command) ==
  /\ chain' = [chain EXCEPT ![fam] =
                 CASE command = "-N" /\ @ = NoChain -> <<>>
                   [] command \in {"-F", "flush"} /\ @ # NoChain -> <<>>
                   [] command \in {"bypass", "redirect"} /\ @ # NoChain -> Append(@, command)
                   [] command = "-X" /\ @ # NoChain /\ "jump" \notin Range(outgoing[fam]) /\ inbound[fam] = 0 -> NoChain
                   [] OTHER -> @]
  /\ outgoing' = [outgoing EXCEPT ![fam] =
                  CASE command = "exclude" -> IF HasExclusion(fam) THEN AddOnce(@, "exclude") ELSE @
                    [] command = "jump" -> AddOnce(@, "jump")
                    [] command = "-D jump" -> DropFirst(@, "jump")
                    [] command = "-D exclude" -> IF HasExclusion(fam) THEN DropFirst(@, "exclude") ELSE @
                    [] OTHER -> @]
  /\ inbound' = [inbound EXCEPT ![fam] =
                   CASE command = "inbound" /\ @ = 0 -> 1
                     [] command = "-D inbound" /\ @ > 0 -> @ - 1
                     [] OTHER -> @]

(* InterceptionGuard::install: IPv4 first.                                  *)
StartGuard ==
  /\ guard = [to |-> "gone", left |-> <<>>] /\ starts < MaxStarts
  /\ guard' = [to |-> "serving", left |-> InstallFamily("iptables") \o InstallFamily("ip6tables")]
  /\ starts' = starts + 1
  /\ UNCHANGED <<chain, outgoing, inbound, ignored, kills>>

Installing == guard.to = "serving" /\ guard.left # <<>>

(* install_family cannot go on when it could not create the chain.          *)
Impossible ==
  Installing /\ Head(guard.left)[2] # "-N" /\ chain[Head(guard.left)[1]] = NoChain

RunCommand ==
  /\ guard.left # <<>> /\ ~Impossible
  /\ Runs(Head(guard.left)[1], Head(guard.left)[2])
  /\ guard' = [guard EXCEPT !.left = Tail(@)]
  /\ UNCHANGED <<ignored, kills, starts>>

(* A command of cleanup_family, or -N, fails and the next one is run.       *)
FailureIgnored ==
  /\ guard.left # <<>> /\ Cardinality(ignored) < MaxIgnored
  /\ Installing => Head(guard.left)[2] = "-N"
  /\ ignored' = ignored \cup {Head(guard.left)}
  /\ guard' = [guard EXCEPT !.left = Tail(@)]
  /\ UNCHANGED <<chain, outgoing, inbound, kills, starts>>

(* A check fails although its rule is there, which is added once more.      *)
AddedAgain ==
  /\ Installing /\ ~Impossible /\ Cardinality(ignored) < MaxIgnored
  /\ LET fam == Head(guard.left)[1]
         command == Head(guard.left)[2]
     IN  \/ /\ command \in Range(outgoing[fam])
            /\ outgoing' = [outgoing EXCEPT ![fam] = Append(@, command)]
            /\ UNCHANGED inbound
         \/ /\ command = "inbound" /\ inbound[fam] > 0
            /\ inbound' = [inbound EXCEPT ![fam] = @ + 1]
            /\ UNCHANGED outgoing
  /\ ignored' = ignored \cup {Head(guard.left)}
  /\ guard' = [guard EXCEPT !.left = Tail(@)]
  /\ UNCHANGED <<chain, kills, starts>>

(* A checked command of install that fails: the process ends.  IPv4 rules   *)
(* are cleaned up when IPv6 fails, those of the failing family are not.     *)
InstallFails ==
  /\ Installing /\ Head(guard.left)[2] # "-N" /\ (Impossible \/ kills < MaxKills)
  /\ guard' = [to |-> "gone", left |-> IF Head(guard.left)[1] = "ip6tables"
                                       THEN CleanupFamily("iptables") ELSE <<>>]
  /\ kills' = kills + 1
  /\ UNCHANGED <<chain, outgoing, inbound, ignored, starts>>

(* The router ends by itself, or could not be started: the guard's drop.    *)
Leave ==
  /\ guard = [to |-> "serving", left |-> <<>>]
  /\ guard' = Removed
  /\ UNCHANGED <<chain, outgoing, inbound, ignored, kills, starts>>

Killed ==
  /\ guard # [to |-> "gone", left |-> <<>>] /\ kills < MaxKills
  /\ guard' = [to |-> "gone", left |-> <<>>]
  /\ kills' = kills + 1
  /\ UNCHANGED <<chain, outgoing, inbound, ignored, starts>>

RuleStep ==
  StartGuard \/ RunCommand \/ FailureIgnored \/ AddedAgain \/ InstallFails \/ Leave \/ Killed

-----------------------------------------------------------------------------
Ignored(fam, commands) == \E c \in commands : <<fam, c>> \in ignored

(* Whatever was killed or failed before: a router that serves has its       *)
(* complete chain, and one that was not interrupted leaves no chain that    *)
(* redirects unless the flush failed.  A rule is there twice only if a      *)
(* check failed, and rules are left behind only if a removal or a check     *)
(* did.  The container's TCP queries to Docker's resolver are redirected    *)
(* only after the removal of the jump, or the check for it, has failed: the *)
(* exclusion is then removed (transparent_interception.rs:131) and added    *)
(* again behind the jump that stayed, where it has no effect.               *)
RulesAreInOrder ==
  \A f \in Families :
    /\ guard = [to |-> "serving", left |-> <<>>] =>
         /\ chain[f] = <<"bypass", "redirect">>
         /\ "jump" \in Range(outgoing[f]) /\ inbound[f] > 0
    /\ guard = [to |-> "gone", left |-> <<>>] /\ kills = 0 =>
         /\ ~Ignored(f, {"flush"}) => chain[f] \in {NoChain, <<>>}
         /\ {i \in ignored : i[1] = f} = {} =>
              chain[f] = NoChain /\ outgoing[f] = <<>> /\ inbound[f] = 0
    /\ ~Ignored(f, {"exclude", "jump"}) => IsInjective(outgoing[f])
    /\ ~Ignored(f, {"inbound"}) => inbound[f] <= 1
    /\ ~Ignored(f, {"jump", "-D jump"}) =>
         \A k \in DOMAIN outgoing[f] : outgoing[f][k] = "jump" /\ HasExclusion(f) =>
           \E j \in 1..(k - 1) : outgoing[f][j] = "exclude"
=============================================================================

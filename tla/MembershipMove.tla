--------------------------- MODULE MembershipMove ---------------------------
(***************************************************************************)
(* What a live move promises (DESIGN.md, "a partially applied group is     *)
(* forbidden"): routers change one at a time while a move is under way,    *)
(* and when it ends all of them serve the table of one group, the one the  *)
(* deployment's resolved definition names.                                 *)
(***************************************************************************)
CONSTANTS Routers, Groups, TableOf

VARIABLES
  group,     \* the group in resolved-deployment.yaml
  moving,    \* the group being moved to, or the current one between moves
  serving    \* the table every router serves

abstractVars == <<group, moving, serving>>

ServesAll(g) == \A r \in Routers : serving[r] = TableOf[r][g]

AbstractInit ==
  /\ group \in Groups
  /\ moving = group
  /\ serving = [r \in Routers |-> TableOf[r][group]]

BeginAbstract(g) ==
  /\ ServesAll(group)
  /\ moving' = g
  /\ UNCHANGED <<group, serving>>

Switch(r, g) ==
  /\ g \in {group, moving}
  /\ serving' = [serving EXCEPT ![r] = TableOf[r][g]]
  /\ UNCHANGED <<group, moving>>

Commit ==
  /\ ServesAll(moving)
  /\ group' = moving
  /\ UNCHANGED <<moving, serving>>

Abort ==
  /\ ServesAll(group)
  /\ moving' = group
  /\ UNCHANGED <<group, serving>>

AbstractNext ==
  \/ \E g \in Groups : BeginAbstract(g)
  \/ \E r \in Routers, g \in Groups : Switch(r, g)
  \/ Commit
  \/ Abort

AbstractSpec == AbstractInit /\ [][AbstractNext]_abstractVars
=============================================================================

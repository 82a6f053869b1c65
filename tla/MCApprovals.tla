--------------------------- MODULE MCApprovals ---------------------------
(* An instance of Approvals: an administrator, an operator and its agent.   *)
EXTENDS Approvals, TLC

CONSTANTS a1, ann, bob, bot

RoleOf == [u \in {ann, bob, bot} |-> IF u = ann THEN "ADMIN" ELSE "OPERATOR"]
OwnerOf == [u \in {ann, bob, bot} |-> IF u = bot THEN bob ELSE "none"]

\* One gate with roles and a threshold, one left to the defaults, one for
\* agents, one switched off.
Off == [enabled |-> FALSE, applies |-> "", min |-> 0, roles |-> {}]
Gates ==
  [op \in AllOperations |->
     CASE op = "TASK_START" -> [Off EXCEPT !.enabled = TRUE, !.min = 2, !.roles = {"ADMIN", "OPERATOR"}]
       [] op = "TASK_CANCEL" -> [Off EXCEPT !.enabled = TRUE]
       [] op = "STEP_RESOLVE" -> [Off EXCEPT !.enabled = TRUE, !.applies = "AGENT"]
       [] OTHER -> Off]
=============================================================================

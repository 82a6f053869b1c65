------------------------- MODULE P2PStateRefinement -------------------------
(* The replicated state machine implements the board of steps.             *)
EXTENDS P2PState

(* The board a machine shows: its steps, those under review, those done.   *)
Posted(m) == {s \in StepId : StepExists(m, s)}
InReview(m) == {s \in StepId : m.status[s] = "IN_REVIEW"}
Resolved(m) == {s \in StepId : m.status[s] = "RESOLVED"}

(* A dependency that names no step of the session can never be met: the    *)
(* step is shown as needing itself.                                        *)
NeedsOf(m, s) ==
  UNION {IF DepStep(m, s, d) = {} THEN {s} ELSE DepStep(m, s, d) : d \in m.steps[s].deps}
Needs(m) == [s \in StepId |-> NeedsOf(m, s)]

HeldBy(m, s) == {c \in ClaimId : m.claims[c].status = "ACTIVE" /\ m.claims[c].step = s}
HolderOf(m, s) ==
  IF HeldBy(m, s) = {} THEN None ELSE m.claims[CHOOSE c \in HeldBy(m, s) : TRUE].holder
Holders(m) == [s \in StepId |-> HolderOf(m, s)]

Board == INSTANCE StepBoard WITH
  Step <- StepId,
  Actor <- ParticipantId,
  Nobody <- None,
  posted <- Posted(machine),
  needs <- Needs(machine),
  holder <- Holders(machine),
  delivered <- InReview(machine),
  done <- Resolved(machine)

(* Every transaction, with the expirations it causes, is one step of the   *)
(* board or leaves it as it was.                                           *)
ImplementsStepBoard == Board!Spec
=============================================================================

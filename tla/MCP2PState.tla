----------------------------- MODULE MCP2PState -----------------------------
(* Small instances of P2PState for TLC.                                    *)
EXTENDS P2PStateRefinement, TLC

CONSTANTS x1, x2, s1, s2, s3

(* An identifier set of its own for each dimension; ids are model values.  *)
MCFold == [x \in SessionId |-> x]

(* s2 asks for every capability there is. *)
Step(id, key, deps, ttl) ==
  [id |-> id, key |-> key, deps |-> deps, ttl |-> ttl,
   caps |-> IF id = s2 THEN Capability ELSE {}]

(* One session with two steps, the second depending on the first by key.   *)
ChainPlan == {[session |-> x1, steps |-> <<Step(s1, "k1", {}, -1), Step(s2, "k2", {"k1"}, 1)>>]}
(* One session with a single step.                                         *)
SinglePlan == {[session |-> x1, steps |-> <<Step(s1, "k1", {}, -1)>>]}

(* Two sessions whose payloads both name s1: the one created second fails  *)
(* on it, after its session and the steps in front of s1 were written.     *)
CollidingPlans ==
  {[session |-> x1, steps |-> <<Step(s1, "k1", {}, 1), Step(s2, "k2", {s1}, 1)>>],
   [session |-> x2, steps |-> <<Step(s3, "k1", {}, 1), Step(s1, "k2", {}, 1)>>]}

OneApproval == {[min |-> 1, quorum |-> 0, reject |-> 0]}
(* Both votes are needed to pass, one is enough to reject; the raw policy  *)
(* leaves min_approvals out.                                               *)
QuorumPolicy == {[min |-> 0, quorum |-> 2, reject |-> 1]}

Symmetry ==
  Permutations(ParticipantId) \cup Permutations(Ref) \cup Permutations(ClaimId)
ReviewSymmetry ==
  Symmetry \cup Permutations(VoteId) \cup Permutations(DecisionId)
=============================================================================

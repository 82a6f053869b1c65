-------------------------- MODULE MCCollabService --------------------------
(* Small instances of CollabService for TLC.                               *)
EXTENDS CollabService

CONSTANTS a, b, p1, p2

(* a alone; or b after a. *)
NoNeeds == [s \in Step |-> {}]
Chain == [s \in Step |-> IF s = b THEN {a} ELSE {}]

NoSkill == [s \in Step |-> {}]

(* Everyone joined, able to do anything; or p1 has yet to join.            *)
Everyone == [p \in Participant |-> Capability]
NotYetP1 == [p \in Participant |-> IF p = p1 THEN None ELSE {}]

NoLimit == {None}

NoVotes == {}
(* Both thresholds of the policy, with the minimum left out.               *)
QuorumPolicy == {[min |-> 0, quorum |-> 2, reject |-> 1]}
=============================================================================

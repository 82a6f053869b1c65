-------------------------- MODULE MCP2PReplication --------------------------
(* Small instances of P2PReplication for TLC.                              *)
EXTENDS P2PReplication, TLC

CONSTANTS x1, s1, p1, r1

MCFold == [x \in SessionId |-> x]

SoloStep(id, key) == [id |-> id, key |-> key, deps |-> {}, caps |-> {}, ttl |-> -1]
Send(id, at, op, args) == [id |-> id, at |-> at, op |-> op, args |-> args]

(* A session, and a participant that joins it: rejected before the session *)
(* exists, accepted after it; either transaction may be sent again.        *)
CreateTx == Send("create", 0, "SESSION_CREATE",
                 [plan |-> [session |-> x1, steps |-> <<SoloStep(s1, "k1")>>]])
JoinTx == Send("join", 1, "PARTICIPANT_JOIN",
               [session |-> x1, ref |-> r1, participant |-> p1, caps |-> {}])
FaultTxs == {CreateTx, JoinTx}
=============================================================================

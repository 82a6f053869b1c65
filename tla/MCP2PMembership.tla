-------------------------- MODULE MCP2PMembership --------------------------
(* An instance of P2PMembership: nodes, calls and the addresses that are   *)
(* not the founder's are interchangeable.                                  *)
EXTENDS P2PMembership, TLC

Alike == Permutations(Node) \cup Permutations(Call) \cup Permutations(Address \ {BootAddress})
=============================================================================

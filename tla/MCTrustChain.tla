--------------------------- MODULE MCTrustChain ---------------------------
(* An instance of TrustChain: events and requests are interchangeable.     *)
EXTENDS TrustChain, TLC

CONSTANTS d1, d2, d3, v1, v2

\* An evaluation for each event.
OneEach == {{e} : e \in Event}

\* d1 and d2 are one event spelled in two ways, d3 says something else.
Spelled == [d \in Content |-> IF d = d3 THEN v2 ELSE v1]

Alike == Permutations(Request) \cup Permutations(Event) \cup Permutations({d1, d2})
=============================================================================

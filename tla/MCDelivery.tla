---------------------------- MODULE MCDelivery ----------------------------
(* An instance of Delivery: two connections of one client, two actions with *)
(* the same dedupe key, one of them with a time to live.                    *)
EXTENDS Delivery

CONSTANTS x, y, z, c1, c2

Clients == [c \in Connection |-> "tab"]
Targets == [c \in Connection |-> {"all", "ops"}]
Channels == [a \in {x, y, z} |-> CASE a = x -> "WEBHOOK" [] a = y -> "SSE" [] a = z -> "EMAIL"]
TargetsOfActions == [a \in {x, y, z} |-> "ops"]
Keys == [a \in {x, y, z} |-> IF a = z THEN "none" ELSE "key"]
=============================================================================

----------------------------- MODULE StepBoard ------------------------------
(***************************************************************************)
(* What the collaboration kernel promises about steps, without claims,     *)
(* leases, sessions or clocks: a board of steps, each held by at most one  *)
(* actor, taken only when the steps it needs are done, and finished only   *)
(* by way of being held or delivered.  Holders may drop out (their lease   *)
(* lapsed) in the same step in which someone else acts.                    *)
(***************************************************************************)
CONSTANTS Step, Actor, Nobody

VARIABLES
  posted,     \* the steps on the board
  needs,      \* needs[s]: the steps that must be done before s is taken
  holder,     \* holder[s]: who works on s
  delivered,  \* the steps whose work was handed in for review
  done        \* the finished steps

vars == <<posted, needs, holder, delivered, done>>

Init ==
  /\ posted = {} /\ delivered = {} /\ done = {}
  /\ needs \in [Step -> SUBSET Step]
  /\ holder = [s \in Step |-> Nobody]

Post ==
  /\ posted \subseteq posted' /\ posted' \subseteq Step
  /\ needs' \in [Step -> SUBSET Step]
  /\ \A s \in posted : needs'[s] = needs[s]
  /\ UNCHANGED <<delivered, done>>

(* h is who holds what once some holders have dropped out. *)
Take(h, s, a) ==
  /\ s \in posted \ done /\ h[s] = Nobody
  /\ s \notin delivered
  /\ needs[s] \subseteq done
  /\ holder' = [h EXCEPT ![s] = a]
  /\ UNCHANGED <<posted, needs, delivered, done>>

GiveBack(h, s) ==
  /\ h[s] # Nobody
  /\ holder' = [h EXCEPT ![s] = Nobody]
  /\ delivered' = delivered \ {s}
  /\ UNCHANGED <<posted, needs, done>>

Pass(h, s, a) ==
  /\ h[s] # Nobody
  /\ holder' = [h EXCEPT ![s] = a]
  /\ delivered' = delivered \ {s}
  /\ UNCHANGED <<posted, needs, done>>

Deliver(h, s) ==
  /\ h[s] # Nobody
  /\ holder' = h
  /\ delivered' = delivered \cup {s}
  /\ UNCHANGED <<posted, needs, done>>

Finish(h, s) ==
  /\ h[s] # Nobody \/ s \in delivered
  /\ holder' = [h EXCEPT ![s] = Nobody]
  /\ delivered' = delivered \ {s}
  /\ done' = done \cup {s}
  /\ UNCHANGED <<posted, needs>>

Next ==
  \E gone \in SUBSET Step :
    LET h == [s \in Step |-> IF s \in gone THEN Nobody ELSE holder[s]]
    IN \/ Post /\ holder' = h
       \/ \E s \in Step :
            \/ GiveBack(h, s)
            \/ Deliver(h, s)
            \/ Finish(h, s)
            \/ \E a \in Actor : Take(h, s, a) \/ Pass(h, s, a)

Spec == Init /\ [][Next]_vars
=============================================================================

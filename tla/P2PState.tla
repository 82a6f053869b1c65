------------------------------ MODULE P2PState ------------------------------
(***************************************************************************)
(* One replicated state machine (Machine.ApplyTx in                        *)
(* internal/p2p/state/state.go) under every sequence of signed             *)
(* transactions its clients can send.  Transactions carry the timestamp of *)
(* the client that signed them, so `at` is any time, not a growing clock.  *)
(* Each action is one transaction applied for the first time: Expire, then *)
(* the handler.  A transaction id that was applied before changes nothing  *)
(* (a stuttering step here; P2PReplication gives transactions their        *)
(* identity and keeps AppliedTx).                                          *)
(***************************************************************************)
EXTENDS P2PMachine

CONSTANTS
  Plans,      \* SESSION_CREATE payloads: [session, steps: Seq of drafts]
  Policies,   \* raw decision policies
  Deadlines,  \* decision deadlines, None among them if a payload may omit it
  Leases,     \* lease_seconds of STEP_CLAIM and STEP_HANDOFF payloads
  Time        \* timestamps of transactions

ASSUME PlansAssumption == Plans \subseteq Plan
ASSUME PoliciesAssumption == Policies \subseteq Policy
ASSUME DeadlinesAssumption == Deadlines \subseteq Nat \cup {None}
ASSUME TimeAssumption == Time \subseteq Nat
ASSUME LeasesAssumption == Leases \subseteq Int

VARIABLE machine

Init == machine = EmptyMachine

(* In the actions, m is the machine after expireClaimsLocked ran with the  *)
(* transaction's timestamp at: the state every handler starts from.        *)

(* A transaction whose handler fails: what its timestamp expired stays     *)
(* expired.  Some transaction of every timestamp fails (one that names an  *)
(* unknown step, say).                                                     *)
Rejected(m) == machine' = m

SessionCreate(m) ==
  \E plan \in Plans :
    /\ CanCreateSession(m, plan)
    /\ machine' = DoCreateSession(m, plan)

ParticipantJoin(m) ==
  \E x \in SessionId, r \in Ref, p \in ParticipantId, caps \in SUBSET Capability :
    /\ CanJoin(m, x, r, p)
    /\ machine' = DoJoin(m, x, r, p, caps)

StepClaim(m, at) ==
  \E s \in StepId, p \in ParticipantId, c \in ClaimId, secs \in Leases :
    /\ CanClaim(m, at, s, p, c)
    /\ machine' = DoClaim(m, at, s, p, c, secs)

StepRelease(m, at) ==
  \E s \in StepId, p \in ParticipantId :
    /\ CanRelease(m, at, s, p)
    /\ machine' = DoRelease(m, at, s, p)

StepHandoff(m, at) ==
  \E s \in StepId, p, q \in ParticipantId, c \in ClaimId, secs \in Leases :
    /\ CanHandoff(m, at, s, p, q, c)
    /\ machine' = DoHandoff(m, at, s, p, q, c, secs)

ArtifactAdd(m, at) ==
  \E s \in StepId, p \in ParticipantId, a \in ArtifactId :
    /\ CanAddArtifact(m, at, s, p, a)
    /\ machine' = DoAddArtifact(m, s, p, a)

DecisionOpen(m) ==
  \E s \in StepId, d \in DecisionId, policy \in Policies, deadline \in Deadlines :
    /\ CanOpenDecision(m, s, d)
    /\ machine' = DoOpenDecision(m, s, d, policy, deadline)

VoteCast(m, at) ==
  \E d \in DecisionId, p \in ParticipantId, v \in VoteId, choice \in Choice :
    /\ CanVote(m, at, d, p, v)
    /\ machine' = DoVote(m, d, p, v, choice)

StepResolve(m, at) ==
  \E s \in StepId, p \in ParticipantId \cup {None} :
    /\ CanResolve(m, at, s, p)
    /\ machine' = DoResolve(m, at, s)

(* ApplyTx: a transaction of timestamp at, on the machine m it expired.    *)
Apply(m, at) ==
  \/ Rejected(m)
  \/ SessionCreate(m)
  \/ ParticipantJoin(m)
  \/ StepClaim(m, at)
  \/ StepRelease(m, at)
  \/ StepHandoff(m, at)
  \/ ArtifactAdd(m, at)
  \/ DecisionOpen(m)
  \/ VoteCast(m, at)
  \/ StepResolve(m, at)

Next == \E at \in Time : Apply(Expire(machine, at), at)

Spec == Init /\ [][Next]_machine

-----------------------------------------------------------------------------
(* The shape of a snapshot.                                                *)
TypeOK == machine \in Machine

Active(c) == machine.claims[c].status = "ACTIVE"
ClaimsOf(s) == {c \in ClaimId : Active(c) /\ machine.claims[c].step = s}
Begun == {"CLAIMED", "IN_REVIEW", "RESOLVED"}

(* At most one claim of a step is ACTIVE, whatever timestamps the clients  *)
(* sign: the claim check uses the new transaction's clock, the lease was   *)
(* written with another client's.                                          *)
OneActiveClaim ==
  \A c, e \in ClaimId :
    Active(c) /\ Active(e) /\ machine.claims[c].step = machine.claims[e].step => c = e

(* The status a step shows agrees with the claim table: a CLAIMED step has *)
(* a holder, an OPEN or RESOLVED one has none.  (An IN_REVIEW step may     *)
(* have lost its holder to expiry.)                                        *)
StatusMatchesClaims ==
  \A s \in StepId :
    /\ machine.status[s] = "CLAIMED" => ClaimsOf(s) # {}
    /\ machine.status[s] \in {"NONE", "OPEN", "RESOLVED"} => ClaimsOf(s) = {}

(* No step is under way or done before the steps it depends on: the check  *)
(* is made once, when the step is claimed, and must stay true after.       *)
DependenciesFirst ==
  \A s \in StepId : machine.status[s] \in Begun => DepsResolved(machine, s)

(* Whoever holds a claim, voted on or produced something for a step belongs *)
(* to the session of the step.                                             *)
ActorsInSession ==
  /\ \A c \in ClaimId : machine.claims[c].status # "NONE" =>
       SameSession(machine, machine.claims[c].holder, machine.claims[c].step)
  /\ \A d \in DecisionId, p \in ParticipantId : machine.votes[d][p] # NoVote =>
       SameSession(machine, p, machine.decisions[d].step)
  /\ \A s \in StepId : \A i \in DOMAIN machine.artifacts[s] :
       SameSession(machine, machine.artifacts[s][i].producer, s)

(* A step has at most one PENDING decision, and it is the one the step     *)
(* points at; the finalized flag of a step says that its latest decision   *)
(* is decided.                                                             *)
LatestDecision ==
  /\ \A d \in DecisionId : machine.decisions[d].status = "PENDING" =>
       machine.latest[machine.decisions[d].step] = d
  /\ \A s \in StepId : machine.finalized[s] <=>
       /\ machine.latest[s] # None
       /\ machine.decisions[machine.latest[s]].status # "PENDING"

(* A decision's status is what its policy says of the votes stored for it, *)
(* after any order of votes: none is counted after the verdict.            *)
VerdictMatchesVotes ==
  \A d \in DecisionId : machine.decisions[d].status # "NONE" =>
    machine.decisions[d].status = Evaluate(machine.decisions[d].policy, machine.votes[d])

(* A RESOLVED step was not resolved past an open or a lost vote, and none  *)
(* was opened on it afterwards.                                            *)
ResolvedIsApproved ==
  \A s \in StepId : machine.status[s] = "RESOLVED" /\ machine.latest[s] # None =>
    machine.decisions[machine.latest[s]].status = "PASSED"

(* A COMPLETED session has no unresolved step in its step order, and it    *)
(* was announced in the event log.                                         *)
CompletedIsDone ==
  \A x \in SessionId : machine.sessions[x] = "COMPLETED" =>
    /\ \A s \in machine.order[x] : machine.status[s] = "RESOLVED"
    /\ Event("SESSION_COMPLETED", x) \in machine.events

(* Every claim's fate can be read from the event log: how it began, and    *)
(* how it ended.                                                           *)
ClaimsAreLogged ==
  \A c \in ClaimId :
    LET claim == machine.claims[c]
    IN /\ claim.status # "NONE" =>
            \/ Event("STEP_CLAIM", c) \in machine.events
            \/ Event("STEP_HANDOFF", c) \in machine.events
       /\ claim.status = "EXPIRED" <=> Event("CLAIM_EXPIRED", c) \in machine.events
       /\ claim.status = "RELEASED" =>
            \/ Event("STEP_RELEASE", claim.step) \in machine.events
            \/ Event("STEP_RESOLVE", claim.step) \in machine.events
            \/ \E e \in ClaimId : /\ machine.claims[e].step = claim.step
                                  /\ Event("STEP_HANDOFF", e) \in machine.events

(* Claims and steps agree: both of the above.                              *)
ClaimsAgree == OneActiveClaim /\ StatusMatchesClaims

(* The rest of the books: dependencies, membership, the pointers to the    *)
(* latest decision, completed sessions and the log of claims stay          *)
(* consistent under every order of transactions and clocks.                *)
Bookkeeping ==
  /\ DependenciesFirst /\ ActorsInSession /\ LatestDecision
  /\ CompletedIsDone /\ ClaimsAreLogged

(* The list of open steps a participant reads, without expiring anything,  *)
(* is exactly what it could claim with a transaction of the same time and  *)
(* an unused claim id.                                                     *)
ListedIsClaimable ==
  \A at \in Time, x \in SessionId, p \in ParticipantId, c \in ClaimId :
    (machine.participants[p].session = x /\ machine.claims[c].status = "NONE") =>
      OpenSteps(machine, at, x, p) =
        {s \in machine.order[x] : CanClaim(Expire(machine, at), at, s, p, c)}

(* What is over stays over: a RESOLVED step, a claim that ended, a decided *)
(* decision and its votes, a COMPLETED session and an event never change.  *)
Irrevocable ==
  [][/\ \A s \in StepId : machine.status[s] = "RESOLVED" => machine'.status[s] = "RESOLVED"
     /\ \A c \in ClaimId : machine.claims[c].status \in {"RELEASED", "EXPIRED"} =>
          machine'.claims[c] = machine.claims[c]
     /\ \A d \in DecisionId : machine.decisions[d].status \in {"PASSED", "REJECTED"} =>
          /\ machine'.decisions[d] = machine.decisions[d]
          /\ machine'.votes[d] = machine.votes[d]
     /\ \A x \in SessionId : machine.sessions[x] = "COMPLETED" =>
          machine'.sessions[x] = "COMPLETED"
     /\ machine.events \subseteq machine'.events]_machine

=============================================================================

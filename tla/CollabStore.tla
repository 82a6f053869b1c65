----------------------------- MODULE CollabStore ----------------------------
(***************************************************************************)
(* The tables of one collaboration session (migrations/                    *)
(* 007_collab_runtime.sql) and the statements that                         *)
(* infrastructure/postgres/collab_repository.go runs on them.  A statement *)
(* is atomic, a request is not: see CollabService.  The unique indexes are *)
(* guards of the inserts; a refused insert is an error of the request.     *)
(* Columns that are never rewritten (capabilities, dependencies) are       *)
(* constants.                                                              *)
(***************************************************************************)
EXTENDS Integers, Sequences, FiniteSets

CONSTANTS
  Step,         \* the steps of the session
  Needs,        \* Needs[s]: the steps s depends on
  Capability,
  Required,     \* Required[s]: the capabilities s asks for
  Participant,  \* who may join; a participant's id and ref are one
  ClaimId, DecisionId,
  Policy,       \* decision policies [min, quorum, reject]
  None          \* no row, no deadline, no participant

ClaimRow ==
  [step: Step, by: Participant, status: {"ACTIVE", "RELEASED", "EXPIRED"}, lease: Nat]
DecisionRow ==
  [step: Step, policy: Policy, deadline: Nat \cup {None},
   status: {"PENDING", "PASSED", "REJECTED"}, created: Nat]
Choice == {"APPROVE", "REJECT"}

(* CreateSession refuses a workflow without steps. *)
ASSUME StepAssumption == Step # {}
ASSUME NeedsAssumption == Needs \in [Step -> SUBSET Step]
ASSUME RequiredAssumption == Required \in [Step -> SUBSET Capability]
ASSUME ParticipantAssumption == IsFiniteSet(Participant)
ASSUME PolicyAssumption == Policy \subseteq [min: Int, quorum: Int, reject: Int]
ASSUME NoneAssumption ==
  /\ None \notin Participant /\ None \notin Nat /\ None \notin Choice
  /\ None \notin ClaimRow /\ None \notin DecisionRow

VARIABLES
  members,    \* collab_participants: the capabilities p joined with, or None
  status,     \* collab_steps.status
  claims,     \* collab_claims
  artifacts,  \* collab_artifacts: the producers of a step's versions
  decisions,  \* collab_decisions
  votes,      \* collab_votes: the choice of p on d, or None
  session,    \* collab_sessions.status
  task,       \* tasks.status
  resolved,   \* history: the steps that were RESOLVED at some time
  cast        \* history: every vote ever stored, overwritten ones included

StoreTypeOK ==
  /\ members \in [Participant -> SUBSET Capability \cup {None}]
  /\ status \in [Step -> {"OPEN", "CLAIMED", "IN_REVIEW", "RESOLVED"}]
  /\ claims \in [ClaimId -> ClaimRow \cup {None}]
  /\ artifacts \in [Step -> Seq(Participant)]
  /\ decisions \in [DecisionId -> DecisionRow \cup {None}]
  /\ votes \in [DecisionId -> [Participant -> Choice \cup {None}]]
  /\ session \in {"ACTIVE", "COMPLETED"} /\ task \in {"RUNNING", "COMPLETED"}
  /\ resolved \subseteq Step
  /\ cast \subseteq DecisionId \X Participant \X Choice

-----------------------------------------------------------------------------
(* Queries *)

IsActive(c) == claims[c] # None /\ claims[c].status = "ACTIVE"
ActiveClaims(s) == {c \in ClaimId : IsActive(c) /\ claims[c].step = s}

(* GetActiveClaimByStep, GetActiveClaimByStepAndParticipant *)
RunningClaims(s, now) == {c \in ActiveClaims(s) : claims[c].lease > now}
RunningClaimsOf(s, p, now) == {c \in RunningClaims(s, now) : claims[c].by = p}

(* ListExpiredActiveClaims; its LIMIT is above the number of claims here.  *)
(* Mutant: the listing forgets to compare the lease. *)
EveryActiveClaim(now) == {c \in ClaimId : IsActive(c)}
LapsedClaims(now) == {c \in ClaimId : IsActive(c) /\ claims[c].lease <= now}

IsPending(d) == decisions[d] # None /\ decisions[d].status = "PENDING"
DecisionsOn(s) == {d \in DecisionId : decisions[d] # None /\ decisions[d].step = s}
PendingOn(s) == {d \in DecisionsOn(s) : IsPending(d)}

(* GetLatestDecisionByStep: ORDER BY created_at DESC LIMIT 1 *)
Latest(s) ==
  {d \in DecisionsOn(s) : \A e \in DecisionsOn(s) : decisions[e].created <= decisions[d].created}

Voters(d, choice) == {p \in Participant : votes[d][p] = choice}

AllResolved == \A s \in Step : status[s] = "RESOLVED"

-----------------------------------------------------------------------------
(* Statements: each changes one table. *)

UpdateStep(s, st) ==
  /\ status' = [status EXCEPT ![s] = st]
  /\ resolved' = IF st = "RESOLVED" THEN resolved \cup {s} ELSE resolved

(* idx_collab_claims_step_active: one ACTIVE claim per step, lapsed or not. *)
ClaimFits(s) == ActiveClaims(s) = {}
(* Mutant: the row of the step's earlier claim is used again. *)
ReviveClaim(s, p, until) ==
  /\ \E c \in ClaimId : claims[c] = None
  /\ LET c == CHOOSE c \in ClaimId :
                 claims[c] = None \/ (claims[c].step = s /\ ~IsActive(c))
     IN claims' = [claims EXCEPT ![c] =
          [step |-> s, by |-> p, status |-> "ACTIVE", lease |-> until]]
CreateClaim(s, p, until) ==
  /\ \E c \in ClaimId : claims[c] = None
  /\ LET c == CHOOSE c \in ClaimId : claims[c] = None
     IN claims' = [claims EXCEPT ![c] =
          [step |-> s, by |-> p, status |-> "ACTIVE", lease |-> until]]

UpdateClaimStatus(c, st) == claims' = [claims EXCEPT ![c].status = st]

(* idx_collab_decisions_pending_per_step; the index also covers an update  *)
(* that sets a decision back to PENDING.                                   *)
DecisionFits(s) == PendingOn(s) = {}
CreateDecision(s, policy, deadline, created) ==
  /\ \E d \in DecisionId : decisions[d] = None
  /\ LET d == CHOOSE d \in DecisionId : decisions[d] = None
     IN decisions' = [decisions EXCEPT ![d] =
          [step |-> s, policy |-> policy, deadline |-> deadline,
           status |-> "PENDING", created |-> created]]
VerdictFits(d, st) == st = "PENDING" => PendingOn(decisions[d].step) \subseteq {d}
UpdateDecision(d, st) == decisions' = [decisions EXCEPT ![d].status = st]

(* ON CONFLICT (decision_id, participant_id) DO UPDATE *)
CreateVote(d, p, choice) ==
  /\ votes' = [votes EXCEPT ![d][p] = choice]
  /\ cast' = cast \cup {<<d, p, choice>>}
=============================================================================

----------------------------- MODULE P2PMachine -----------------------------
(***************************************************************************)
(* The deterministic state machine of internal/p2p/state/state.go: the     *)
(* snapshot a Machine holds and what one signed transaction does to it.    *)
(* Everything here is a constant-level operator on a machine state m, so   *)
(* that one machine (P2PState) and the replicas of a raft group            *)
(* (P2PReplication) run the same definitions.                              *)
(*                                                                         *)
(* For an operation Op, CanOp(m, ...) is the conjunction of the handler's  *)
(* checks and DoOp(m, ...) the state it leaves when they all hold.  Both   *)
(* are applied to a state on which Expire has run, as ApplyTx does.  The   *)
(* names, contexts, payloads, hashes, comments and the created/updated     *)
(* stamps of the records are data no check reads and are left out.         *)
(***************************************************************************)
EXTENDS Integers, FiniteSets, Sequences

CONSTANTS
  SessionId, StepId, StepKey, ParticipantId, Ref, Capability,
  ClaimId, ArtifactId, DecisionId, VoteId,
  None,        \* the absent id (nil pointer, empty string, missing map key)
  Fold,        \* Fold[x]: the session id x in lower case (sessionRef)
  DefaultTTL   \* the 900 seconds of a step that declares no lease time

ASSUME NoneAssumption ==
  None \notin SessionId \cup StepId \cup StepKey \cup ParticipantId \cup Ref
           \cup ClaimId \cup ArtifactId \cup DecisionId \cup VoteId
              \cup {"APPROVE", "REJECT"}
ASSUME FoldAssumption == Fold \in [SessionId -> SessionId]
ASSUME TTLAssumption == DefaultTTL \in Nat \ {0}
ASSUME FiniteAssumption == IsFiniteSet(ParticipantId)

SessionStatus == {"NONE", "ACTIVE", "COMPLETED"}
StepStatus == {"NONE", "OPEN", "CLAIMED", "IN_REVIEW", "RESOLVED"}
ClaimStatus == {"NONE", "ACTIVE", "RELEASED", "EXPIRED"}
DecisionStatus == {"NONE", "PENDING", "PASSED", "REJECTED"}
Choice == {"APPROVE", "REJECT"}

StepInfo == [session: SessionId \cup {None}, key: StepKey \cup {None},
             deps: SUBSET (StepId \cup StepKey), caps: SUBSET Capability,
             ttl: Nat]
Participant == [session: SessionId \cup {None}, caps: SUBSET Capability]
Claim == [status: ClaimStatus, step: StepId \cup {None},
          holder: ParticipantId \cup {None}, lease: Nat]
Artifact == [id: ArtifactId, producer: ParticipantId]
Policy == [min: Int, quorum: Int, reject: Int]
Decision == [status: DecisionStatus, step: StepId \cup {None},
             policy: Policy, deadline: Nat \cup {None}]
Vote == [id: VoteId \cup {None}, choice: Choice \cup {None}]

(* The event log of the sessions, abstracted to the set of (type, subject) *)
(* pairs it holds: its order, payloads and repetitions are left out.       *)
EventType == {"SESSION_CREATE", "PARTICIPANT_JOIN", "PARTICIPANT_TOUCH",
              "STEP_CLAIM", "STEP_RELEASE", "STEP_HANDOFF", "ARTIFACT_ADD",
              "DECISION_OPEN", "VOTE_CAST", "STEP_RESOLVE", "CLAIM_EXPIRED",
              "SESSION_COMPLETED"}
Subject == SessionId \cup StepId \cup ParticipantId \cup ClaimId
             \cup ArtifactId \cup DecisionId \cup VoteId
EventLog == SUBSET (EventType \X Subject)
Event(type, subject) == <<type, subject>>

NoStep == [session |-> None, key |-> None, deps |-> {}, caps |-> {}, ttl |-> 0]
NoParticipant == [session |-> None, caps |-> {}]
NoClaim == [status |-> "NONE", step |-> None, holder |-> None, lease |-> 0]
NoDecision == [status |-> "NONE", step |-> None, deadline |-> None,
               policy |-> [min |-> 1, quorum |-> 0, reject |-> 0]]
NoVote == [id |-> None, choice |-> None]

Machine ==
  [sessions: [SessionId -> SessionStatus],
   order: [SessionId -> SUBSET StepId],
   status: [StepId -> StepStatus],
   steps: [StepId -> StepInfo],
   participants: [ParticipantId -> Participant],
   byRef: [SessionId -> [Ref -> ParticipantId \cup {None}]],
   claims: [ClaimId -> Claim],
   artifacts: [StepId -> Seq(Artifact)],
   decisions: [DecisionId -> Decision],
   latest: [StepId -> DecisionId \cup {None}],
   finalized: [StepId -> BOOLEAN],
   votes: [DecisionId -> [ParticipantId -> Vote]],
   events: EventLog]

EmptyMachine ==
  [sessions |-> [x \in SessionId |-> "NONE"],
   order |-> [x \in SessionId |-> {}],
   status |-> [s \in StepId |-> "NONE"],
   steps |-> [s \in StepId |-> NoStep],
   participants |-> [p \in ParticipantId |-> NoParticipant],
   byRef |-> [x \in SessionId |-> [r \in Ref |-> None]],
   claims |-> [c \in ClaimId |-> NoClaim],
   artifacts |-> [s \in StepId |-> <<>>],
   decisions |-> [d \in DecisionId |-> NoDecision],
   latest |-> [s \in StepId |-> None],
   finalized |-> [s \in StepId |-> FALSE],
   votes |-> [d \in DecisionId |-> [p \in ParticipantId |-> NoVote]],
   events |-> {}]

-----------------------------------------------------------------------------
(* Lookups.                                                                *)

StepExists(m, s) == m.status[s] # "NONE"
ParticipantExists(m, p) == m.participants[p].session # None
SameSession(m, p, s) ==
  /\ ParticipantExists(m, p)
  /\ m.participants[p].session = m.steps[s].session
HasCapabilities(m, p, s) == m.steps[s].caps \subseteq m.participants[p].caps

(* The claims findActiveClaimByStepLocked accepts.  The code returns the   *)
(* one with the least id; OneActiveClaim says there is never a second.     *)
LiveOn(m, at, s) ==
  {c \in ClaimId : /\ m.claims[c].step = s
                   /\ m.claims[c].status = "ACTIVE"
                   /\ m.claims[c].lease > at}
LiveFor(m, at, s, p) == {c \in LiveOn(m, at, s) : m.claims[c].holder = p}

(* A dependency names a step of the session by id or, failing that, by key. *)
InSession(m, t, s) == StepExists(m, t) /\ m.steps[t].session = m.steps[s].session
DepStep(m, s, d) ==
  IF d \in StepId /\ InSession(m, d, s)
    THEN {d}
    ELSE {t \in StepId : InSession(m, t, s) /\ m.steps[t].key = d}
DepsResolved(m, s) ==
  \A d \in m.steps[s].deps :
    \E t \in DepStep(m, s, d) : m.status[t] = "RESOLVED"

-----------------------------------------------------------------------------
(* expireClaimsLocked, run by every transaction before its handler: claims *)
(* whose lease is not after the transaction's own timestamp lapse.         *)

Lapsed(m, at) ==
  {c \in ClaimId : m.claims[c].status = "ACTIVE" /\ m.claims[c].lease <= at}

Expire(m, at) ==
  [m EXCEPT
     !.claims = [c \in ClaimId |->
        IF c \in Lapsed(m, at) THEN [m.claims[c] EXCEPT !.status = "EXPIRED"]
                               ELSE m.claims[c]],
     !.status = [s \in StepId |->
        IF /\ m.status[s] = "CLAIMED"
           /\ \E c \in Lapsed(m, at) : m.claims[c].step = s
           /\ LiveOn(m, at, s) = {}
          THEN "OPEN" ELSE m.status[s]],
     !.events = @ \cup {Event("CLAIM_EXPIRED", c) : c \in Lapsed(m, at)}]

-----------------------------------------------------------------------------
(* SESSION_CREATE.  A plan is a session id and a sequence of step drafts;  *)
(* an id or key of None is an empty string.  The session and the steps in  *)
(* front of the first bad draft are written before the handler fails on    *)
(* it, and stay written.                                                   *)

Draft == [id: StepId \cup {None}, key: StepKey \cup {None},
          deps: SUBSET (StepId \cup StepKey), caps: SUBSET Capability, ttl: Int]
Plan == [session: SessionId, steps: Seq(Draft)]

DraftOK(m, drafts, i) ==
  /\ drafts[i].id # None /\ drafts[i].key # None
  /\ ~ StepExists(m, drafts[i].id)
  /\ \A j \in 1..(i-1) : drafts[j].id # drafts[i].id /\ drafts[j].key # drafts[i].key

Written(m, drafts) ==
  {i \in DOMAIN drafts : \A j \in 1..i : DraftOK(m, drafts, j)}

StepFrom(x, draft) ==
  [session |-> x, key |-> draft.key, deps |-> draft.deps, caps |-> draft.caps,
   ttl |-> IF draft.ttl <= 0 THEN DefaultTTL ELSE draft.ttl]

CanCreateSession(m, plan) ==
  m.sessions[plan.session] = "NONE" /\ plan.steps # <<>>
CreatesAll(m, plan) == Written(m, plan.steps) = DOMAIN plan.steps

DoCreateSession(m, plan) ==
  LET written == Written(m, plan.steps)
      ids == {plan.steps[i].id : i \in written}
      draft(s) == plan.steps[CHOOSE i \in written : plan.steps[i].id = s]
      all == CreatesAll(m, plan)
  IN [m EXCEPT
        !.sessions[plan.session] = "ACTIVE",
        !.status = [s \in StepId |-> IF s \in ids THEN "OPEN" ELSE m.status[s]],
        !.steps = [s \in StepId |-> IF s \in ids THEN StepFrom(plan.session, draft(s))
                                                 ELSE m.steps[s]],
        !.order[plan.session] = IF all THEN ids ELSE @,
        !.events = IF all THEN @ \cup {Event("SESSION_CREATE", plan.session)} ELSE @]

-----------------------------------------------------------------------------
(* PARTICIPANT_JOIN: a (session, ref) that already joined is refreshed.    *)
(* The index key is the lower-cased "session::ref".                        *)

CanJoin(m, x, r, p) ==
  /\ m.sessions[x] # "NONE"
  /\ m.byRef[Fold[x]][r] = None => ~ ParticipantExists(m, p)

DoJoin(m, x, r, p, caps) ==
  LET known == m.byRef[Fold[x]][r]
  IN IF known # None
       THEN [m EXCEPT !.participants[known].caps = caps,
                      !.events = @ \cup {Event("PARTICIPANT_TOUCH", known)}]
       ELSE [m EXCEPT !.participants[p] = [session |-> x, caps |-> caps],
                      !.byRef[Fold[x]][r] = p,
                      !.events = @ \cup {Event("PARTICIPANT_JOIN", p)}]

-----------------------------------------------------------------------------
(* STEP_CLAIM, STEP_RELEASE, STEP_HANDOFF.  lease_seconds of the payload,  *)
(* else the step's lease time (never zero once stored), else 900.          *)

NewClaim(m, at, s, p, secs) ==
  LET ttl == m.steps[s].ttl
      span == IF secs > 0 THEN secs ELSE IF ttl > 0 THEN ttl ELSE DefaultTTL
  IN [status |-> "ACTIVE", step |-> s, holder |-> p, lease |-> at + span]

(* Mutant: the dependency check is dropped. *)
CanClaimEarly(m, at, s, p, c) ==
  /\ StepExists(m, s) /\ SameSession(m, p, s)
  /\ HasCapabilities(m, p, s)
  /\ m.status[s] = "OPEN"
  /\ LiveOn(m, at, s) = {}
  /\ m.claims[c].status = "NONE"
CanClaim(m, at, s, p, c) ==
  /\ StepExists(m, s) /\ SameSession(m, p, s)
  /\ DepsResolved(m, s)
  /\ HasCapabilities(m, p, s)
  /\ m.status[s] = "OPEN"
  /\ LiveOn(m, at, s) = {}
  /\ m.claims[c].status = "NONE"

DoClaim(m, at, s, p, c, secs) ==
  [m EXCEPT !.claims[c] = NewClaim(m, at, s, p, secs),
            !.status[s] = "CLAIMED",
            !.events = @ \cup {Event("STEP_CLAIM", c)}]

CanRelease(m, at, s, p) ==
  StepExists(m, s) /\ ParticipantExists(m, p) /\ LiveFor(m, at, s, p) # {}

DoRelease(m, at, s, p) ==
  LET c == CHOOSE c \in LiveFor(m, at, s, p) : TRUE
  IN [m EXCEPT !.claims[c].status = "RELEASED",
               !.status[s] = "OPEN",
               !.events = @ \cup {Event("STEP_RELEASE", s)}]

(* Mutant: the target is not required to be in the step's session. *)
CanHandoffAnywhere(m, at, s, p, q, c) ==
  /\ StepExists(m, s) /\ SameSession(m, p, s) /\ ParticipantExists(m, q)
  /\ HasCapabilities(m, q, s)
  /\ LiveFor(m, at, s, p) # {}
  /\ m.claims[c].status = "NONE"
CanHandoff(m, at, s, p, q, c) ==
  /\ StepExists(m, s) /\ SameSession(m, p, s) /\ SameSession(m, q, s)
  /\ HasCapabilities(m, q, s)
  /\ LiveFor(m, at, s, p) # {}
  /\ m.claims[c].status = "NONE"

(* Mutant: the source claim is not released. *)
DoHandoffKeepingOld(m, at, s, p, q, c, secs) ==
  [m EXCEPT !.claims[c] = NewClaim(m, at, s, q, secs),
            !.status[s] = "CLAIMED",
            !.events = @ \cup {Event("STEP_HANDOFF", c)}]
DoHandoff(m, at, s, p, q, c, secs) ==
  LET old == CHOOSE o \in LiveFor(m, at, s, p) : TRUE
  IN [m EXCEPT !.claims = [@ EXCEPT ![old].status = "RELEASED",
                                    ![c] = NewClaim(m, at, s, q, secs)],
               !.status[s] = "CLAIMED",
               !.events = @ \cup {Event("STEP_HANDOFF", c)}]

-----------------------------------------------------------------------------
(* ARTIFACT_ADD: the version is the position in the step's sequence.       *)

ArtifactExists(m, a) ==
  \E s \in StepId : \E i \in DOMAIN m.artifacts[s] : m.artifacts[s][i].id = a

CanAddArtifact(m, at, s, p, a) ==
  /\ ~ ArtifactExists(m, a)
  /\ StepExists(m, s) /\ SameSession(m, p, s)
  /\ LiveFor(m, at, s, p) # {}

DoAddArtifact(m, s, p, a) ==
  [m EXCEPT !.artifacts[s] = Append(@, [id |-> a, producer |-> p]),
            !.status[s] = "IN_REVIEW",
            !.events = @ \cup {Event("ARTIFACT_ADD", a)}]

-----------------------------------------------------------------------------
(* DECISION_OPEN and VOTE_CAST.                                            *)

Normalized(policy) ==
  [min |-> IF policy.min <= 0 THEN 1 ELSE policy.min,
   quorum |-> IF policy.quorum < 0 THEN 0 ELSE policy.quorum,
   reject |-> IF policy.reject < 0 THEN 0 ELSE policy.reject]

Voters(ballots) == {p \in ParticipantId : ballots[p] # NoVote}
Count(ballots, choice) == Cardinality({p \in Voters(ballots) : ballots[p].choice = choice})

Evaluate(policy, ballots) ==
  IF policy.reject > 0 /\ Count(ballots, "REJECT") >= policy.reject THEN "REJECTED"
  ELSE IF /\ Count(ballots, "APPROVE") >= policy.min
          /\ policy.quorum <= 0 \/ Cardinality(Voters(ballots)) >= policy.quorum
         THEN "PASSED"
         ELSE "PENDING"

CanOpenDecision(m, s, d) ==
  /\ m.decisions[d].status = "NONE"
  /\ m.status[s] \in {"CLAIMED", "IN_REVIEW"}
  /\ m.latest[s] # None => m.decisions[m.latest[s]].status # "PENDING"

DoOpenDecision(m, s, d, policy, deadline) ==
  [m EXCEPT !.decisions[d] = [status |-> "PENDING", step |-> s,
                              policy |-> Normalized(policy), deadline |-> deadline],
            !.latest[s] = d,
            !.finalized[s] = FALSE,
            !.events = @ \cup {Event("DECISION_OPEN", d)}]

VoteExists(m, v) ==
  \E d \in DecisionId, p \in ParticipantId : m.votes[d][p].id = v

(* Mutant: a decided decision takes further votes. *)
CanVoteAfterVerdict(m, at, d, p, v) ==
  /\ ~ VoteExists(m, v)
  /\ m.decisions[d].status # "NONE"
  /\ m.decisions[d].deadline # None => at <= m.decisions[d].deadline
  /\ SameSession(m, p, m.decisions[d].step)
  /\ m.votes[d][p] = NoVote
CanVote(m, at, d, p, v) ==
  /\ ~ VoteExists(m, v)
  /\ m.decisions[d].status = "PENDING"
  /\ m.decisions[d].deadline # None => at <= m.decisions[d].deadline
  /\ SameSession(m, p, m.decisions[d].step)
  /\ m.votes[d][p] = NoVote

(* Mutant: the policy is evaluated before the vote is stored. *)
DoVoteEvaluatingFirst(m, d, p, v, choice) ==
  LET verdict == Evaluate(Normalized(m.decisions[d].policy), m.votes[d])
  IN [m EXCEPT !.votes[d][p] = [id |-> v, choice |-> choice],
               !.decisions[d].status = verdict,
               !.finalized[m.decisions[d].step] = @ \/ verdict # "PENDING",
               !.events = @ \cup {Event("VOTE_CAST", v)}]
DoVote(m, d, p, v, choice) ==
  LET ballots == [m.votes[d] EXCEPT ![p] = [id |-> v, choice |-> choice]]
      verdict == Evaluate(Normalized(m.decisions[d].policy), ballots)
  IN [m EXCEPT !.votes[d] = ballots,
               !.decisions[d].status = verdict,
               !.finalized[m.decisions[d].step] = @ \/ verdict # "PENDING",
               !.events = @ \cup {Event("VOTE_CAST", v)}]

-----------------------------------------------------------------------------
(* STEP_RESOLVE.  p is None when the payload names no participant.  The    *)
(* last step of the session's step order completes an ACTIVE session.      *)

(* Mutant: a rejected decision does not block. *)
CanResolveRejected(m, at, s, p) ==
  /\ m.status[s] \in {"CLAIMED", "IN_REVIEW"}
  /\ m.latest[s] # None => m.decisions[m.latest[s]].status # "PENDING"
  /\ p # None => ParticipantExists(m, p) /\ LiveFor(m, at, s, p) # {}
CanResolve(m, at, s, p) ==
  /\ m.status[s] \in {"CLAIMED", "IN_REVIEW"}
  /\ m.latest[s] # None =>
       m.decisions[m.latest[s]].status \notin {"PENDING", "REJECTED"}
  /\ p # None => ParticipantExists(m, p) /\ LiveFor(m, at, s, p) # {}

DoResolve(m, at, s) ==
  LET live == LiveOn(m, at, s)
      x == m.steps[s].session
      status == [m.status EXCEPT ![s] = "RESOLVED"]
      completes == /\ \A t \in m.order[x] : StepExists(m, t) => status[t] = "RESOLVED"
                   /\ m.sessions[x] = "ACTIVE"
  IN [m EXCEPT
        !.claims = IF live = {} THEN @
                   ELSE [@ EXCEPT ![CHOOSE c \in live : TRUE].status = "RELEASED"],
        !.status = status,
        !.sessions[x] = IF completes THEN "COMPLETED" ELSE @,
        !.events = @ \cup {Event("STEP_RESOLVE", s)} \cup
                   (IF completes THEN {Event("SESSION_COMPLETED", x)} ELSE {})]

-----------------------------------------------------------------------------
(* ListOpenSteps at the reader's time `at`: a query, which expires nothing  *)
(* and shows a claimed step whose lease is over as open.  p is None when   *)
(* the reader names no participant.                                        *)

ShownOpen(m, at, s) ==
  \/ m.status[s] = "OPEN"
  \/ m.status[s] = "CLAIMED" /\ LiveOn(m, at, s) = {}

(* Mutant: steps whose dependencies are open are listed too. *)
OpenStepsWithoutDeps(m, at, x, p) ==
  {s \in m.order[x] : /\ ShownOpen(m, at, s) /\ LiveOn(m, at, s) = {}
                      /\ p # None => HasCapabilities(m, p, s)}
OpenSteps(m, at, x, p) ==
  {s \in m.order[x] : /\ ShownOpen(m, at, s) /\ LiveOn(m, at, s) = {}
                      /\ DepsResolved(m, s)
                      /\ p # None => HasCapabilities(m, p, s)}

=============================================================================

--------------------------- MODULE P2PState_proofs ---------------------------
(***************************************************************************)
(* Theorems about P2PState, for every set of ids, plans, policies, leases  *)
(* and timestamps: the safety invariants the runs check, Irrevocable, and  *)
(* that the machine implements the board of steps.                         *)
(*                                                                         *)
(* First what one transaction does to a machine state m: what Expire and   *)
(* every handler preserve.  LeaseInv (claims and steps agree) comes first, *)
(* then what each handler writes (ExpireWrites .. ResolveWrites), and from *)
(* that alone what it never takes back (Keeps), reviews (ReviewInv), plans *)
(* (PlanInv), actors (ActorInv) and the event log (FateInv).  These lemmas *)
(* are about the constant-level operators of P2PMachine: the replicas      *)
(* (P2PReplication_proofs) rest on the same ones.  Then the machine as a   *)
(* variable, its inductive invariant MachineInv and the theorems.          *)
(***************************************************************************)
EXTENDS P2PStateRefinement, FiniteSetTheorems, TLAPS

-----------------------------------------------------------------------------
(* Type correctness: one lemma for Expire and one for each handler.        *)

(* An event of a known type about a known thing keeps the log a log.       *)
LEMMA LogTyped ==
  ASSUME NEW log \in EventLog, NEW type \in EventType, NEW subject \in Subject
  PROVE  log \cup {Event(type, subject)} \in EventLog
BY DEF EventLog, Event

LEMMA ClaimStatusTyped ==
  ASSUME NEW claim \in Claim, NEW status \in ClaimStatus
  PROVE  [claim EXCEPT !.status = status] \in Claim
BY DEF Claim

LEMMA ExpireTyped ==
  ASSUME NEW m \in Machine, NEW at \in Nat
  PROVE  Expire(m, at) \in Machine
<1> DEFINE claims == [c \in ClaimId |->
                        IF c \in Lapsed(m, at)
                          THEN [m.claims[c] EXCEPT !.status = "EXPIRED"]
                          ELSE m.claims[c]]
           status == [s \in StepId |->
                        IF /\ m.status[s] = "CLAIMED"
                           /\ \E c \in Lapsed(m, at) : m.claims[c].step = s
                           /\ LiveOn(m, at, s) = {}
                          THEN "OPEN" ELSE m.status[s]]
           events == m.events \cup {Event("CLAIM_EXPIRED", c) : c \in Lapsed(m, at)}
<1>1. claims \in [ClaimId -> Claim]
  <2>1. \A c \in ClaimId : m.claims[c] \in Claim
    BY DEF Machine
  <2>2. QED
    BY <2>1, ClaimStatusTyped DEF ClaimStatus
<1>2. status \in [StepId -> StepStatus]
  BY DEF Machine, StepStatus
<1>3. events \in EventLog
  BY DEF Machine, EventLog, Event, EventType, Subject, Lapsed
<1>4. Expire(m, at) = [m EXCEPT !.claims = claims, !.status = status, !.events = events]
  BY DEF Expire
<1> HIDE DEF claims, status, events
<1>5. QED
  BY <1>1, <1>2, <1>3, <1>4 DEF Machine

LEMMA CreateSessionTyped ==
  ASSUME NEW m \in Machine, NEW plan \in Plan
  PROVE  DoCreateSession(m, plan) \in Machine
<1> DEFINE written == Written(m, plan.steps)
           ids == {plan.steps[i].id : i \in written}
           draft(s) == plan.steps[CHOOSE i \in written : plan.steps[i].id = s]
           sessions == [m.sessions EXCEPT ![plan.session] = "ACTIVE"]
           status == [s \in StepId |-> IF s \in ids THEN "OPEN" ELSE m.status[s]]
           steps == [s \in StepId |-> IF s \in ids THEN StepFrom(plan.session, draft(s))
                                                   ELSE m.steps[s]]
           order == [m.order EXCEPT ![plan.session] = IF CreatesAll(m, plan) THEN ids ELSE @]
           events == IF CreatesAll(m, plan)
                       THEN m.events \cup {Event("SESSION_CREATE", plan.session)}
                       ELSE m.events
<1>1. plan.session \in SessionId /\ plan.steps \in Seq(Draft)
  BY DEF Plan
<1>2. \A i \in written : plan.steps[i] \in Draft /\ plan.steps[i].id # None
  BY <1>1 DEF Written, DraftOK
<1>3. ids \in SUBSET StepId
  BY <1>2 DEF Draft
<1>4. sessions \in [SessionId -> SessionStatus]
  BY <1>1 DEF Machine, SessionStatus
<1>5. status \in [StepId -> StepStatus]
  BY DEF Machine, StepStatus
<1>6. ASSUME NEW s \in StepId, s \in ids
      PROVE  StepFrom(plan.session, draft(s)) \in StepInfo
  <2>1. PICK i \in written : plan.steps[i].id = s
    BY <1>6
  <2>2. draft(s) \in Draft
    BY <1>2, <2>1
  <2>3. QED
    BY <1>1, <2>2, TTLAssumption DEF StepFrom, StepInfo, Draft
<1>7. steps \in [StepId -> StepInfo]
  BY <1>6 DEF Machine
<1>8. order \in [SessionId -> SUBSET StepId]
  BY <1>3 DEF Machine
<1>9. events \in EventLog
  BY <1>1, LogTyped DEF Machine, EventType, Subject
<1>10. DoCreateSession(m, plan) =
         [m EXCEPT !.sessions = sessions, !.status = status, !.steps = steps,
                   !.order = order, !.events = events]
  BY DEF DoCreateSession
<1> HIDE DEF sessions, status, steps, order, events
<1>11. QED
  BY <1>4, <1>5, <1>7, <1>8, <1>9, <1>10 DEF Machine

LEMMA JoinTyped ==
  ASSUME NEW m \in Machine, NEW x \in SessionId, NEW r \in Ref,
         NEW p \in ParticipantId, NEW caps \in SUBSET Capability
  PROVE  DoJoin(m, x, r, p, caps) \in Machine
<1> DEFINE known == m.byRef[Fold[x]][r]
<1>1. Fold[x] \in SessionId /\ known \in ParticipantId \cup {None}
  BY FoldAssumption DEF Machine
<1>2. CASE known # None
  <2>1. [m.participants EXCEPT ![known].caps = caps] \in [ParticipantId -> Participant]
    <3>1. m.participants \in [ParticipantId -> Participant]
      BY DEF Machine
    <3>2. [m.participants[known] EXCEPT !.caps = caps] \in Participant
      BY <1>1, <1>2, <3>1 DEF Participant
    <3>3. QED
      BY <3>1, <3>2
  <2>2. m.events \cup {Event("PARTICIPANT_TOUCH", known)} \in EventLog
    BY <1>1, <1>2, LogTyped DEF Machine, EventType, Subject
  <2>3. QED
    BY <1>2, <2>1, <2>2 DEF DoJoin, Machine
<1>3. CASE known = None
  <2>1. [m.participants EXCEPT ![p] = [session |-> x, caps |-> caps]]
          \in [ParticipantId -> Participant]
    BY DEF Machine, Participant
  <2>2. [m.byRef EXCEPT ![Fold[x]][r] = p]
          \in [SessionId -> [Ref -> ParticipantId \cup {None}]]
    BY <1>1 DEF Machine
  <2>3. m.events \cup {Event("PARTICIPANT_JOIN", p)} \in EventLog
    BY LogTyped DEF Machine, EventType, Subject
  <2>4. QED
    BY <1>3, <2>1, <2>2, <2>3 DEF DoJoin, Machine
<1>4. QED
  BY <1>2, <1>3

LEMMA NewClaimTyped ==
  ASSUME NEW m \in Machine, NEW at \in Nat, NEW s \in StepId,
         NEW p \in ParticipantId, NEW secs \in Int
  PROVE  NewClaim(m, at, s, p, secs) \in Claim
BY TTLAssumption DEF NewClaim, Machine, Claim, ClaimStatus, StepInfo

LEMMA ClaimTyped ==
  ASSUME NEW m \in Machine, NEW at \in Nat, NEW s \in StepId,
         NEW p \in ParticipantId, NEW c \in ClaimId, NEW secs \in Int
  PROVE  DoClaim(m, at, s, p, c, secs) \in Machine
<1>1. [m.claims EXCEPT ![c] = NewClaim(m, at, s, p, secs)] \in [ClaimId -> Claim]
  BY NewClaimTyped DEF Machine
<1>2. [m.status EXCEPT ![s] = "CLAIMED"] \in [StepId -> StepStatus]
  BY DEF Machine, StepStatus
<1>3. m.events \cup {Event("STEP_CLAIM", c)} \in EventLog
  BY LogTyped DEF Machine, EventType, Subject
<1>4. QED
  BY <1>1, <1>2, <1>3 DEF DoClaim, Machine

(* Changing the status of one claim, which Release, Handoff and Resolve do. *)
LEMMA EndClaimTyped ==
  ASSUME NEW claims \in [ClaimId -> Claim], NEW c \in ClaimId, NEW status \in ClaimStatus
  PROVE  [claims EXCEPT ![c].status = status] \in [ClaimId -> Claim]
BY ClaimStatusTyped

LEMMA LiveForTyped ==
  ASSUME NEW m \in Machine, NEW at \in Nat, NEW s \in StepId,
         NEW p \in ParticipantId, LiveFor(m, at, s, p) # {}
  PROVE  (CHOOSE c \in LiveFor(m, at, s, p) : TRUE) \in ClaimId
BY DEF LiveFor, LiveOn

LEMMA ReleaseTyped ==
  ASSUME NEW m \in Machine, NEW at \in Nat, NEW s \in StepId,
         NEW p \in ParticipantId, CanRelease(m, at, s, p)
  PROVE  DoRelease(m, at, s, p) \in Machine
<1> DEFINE c == CHOOSE c \in LiveFor(m, at, s, p) : TRUE
<1>1. c \in ClaimId
  BY LiveForTyped DEF CanRelease
<1>2. [m.claims EXCEPT ![c].status = "RELEASED"] \in [ClaimId -> Claim]
  BY <1>1, EndClaimTyped DEF Machine, ClaimStatus
<1>3. [m.status EXCEPT ![s] = "OPEN"] \in [StepId -> StepStatus]
  BY DEF Machine, StepStatus
<1>4. m.events \cup {Event("STEP_RELEASE", s)} \in EventLog
  BY LogTyped DEF Machine, EventType, Subject
<1>5. DoRelease(m, at, s, p) =
        [m EXCEPT !.claims[c].status = "RELEASED", !.status[s] = "OPEN",
                  !.events = @ \cup {Event("STEP_RELEASE", s)}]
  BY DEF DoRelease
<1> HIDE DEF c
<1>6. QED
  BY <1>2, <1>3, <1>4, <1>5 DEF Machine

LEMMA HandoffTyped ==
  ASSUME NEW m \in Machine, NEW at \in Nat, NEW s \in StepId,
         NEW p \in ParticipantId, NEW q \in ParticipantId,
         NEW c \in ClaimId, NEW secs \in Int, CanHandoff(m, at, s, p, q, c)
  PROVE  DoHandoff(m, at, s, p, q, c, secs) \in Machine
<1> DEFINE old == CHOOSE o \in LiveFor(m, at, s, p) : TRUE
           released == [m.claims EXCEPT ![old].status = "RELEASED"]
           new == NewClaim(m, at, s, q, secs)
<1>1. old \in ClaimId
  BY LiveForTyped DEF CanHandoff
<1>2. released \in [ClaimId -> Claim]
  BY <1>1, EndClaimTyped DEF Machine, ClaimStatus
<1>3. new \in Claim
  BY NewClaimTyped
<1>4. [m.status EXCEPT ![s] = "CLAIMED"] \in [StepId -> StepStatus]
  BY DEF Machine, StepStatus
<1>5. m.events \cup {Event("STEP_HANDOFF", c)} \in EventLog
  BY LogTyped DEF Machine, EventType, Subject
<1>6. DoHandoff(m, at, s, p, q, c, secs) =
        [m EXCEPT !.claims = [released EXCEPT ![c] = new], !.status[s] = "CLAIMED",
                  !.events = @ \cup {Event("STEP_HANDOFF", c)}]
  BY DEF DoHandoff
<1> HIDE DEF released, new
<1>7. [released EXCEPT ![c] = new] \in [ClaimId -> Claim]
  BY <1>2, <1>3
<1>8. QED
  BY <1>4, <1>5, <1>6, <1>7 DEF Machine

LEMMA AddArtifactTyped ==
  ASSUME NEW m \in Machine, NEW s \in StepId, NEW p \in ParticipantId,
         NEW a \in ArtifactId
  PROVE  DoAddArtifact(m, s, p, a) \in Machine
<1>1. [id |-> a, producer |-> p] \in Artifact
  BY DEF Artifact
<1>2. m.artifacts \in [StepId -> Seq(Artifact)]
  BY DEF Machine
<1>3. [m.artifacts EXCEPT ![s] = Append(@, [id |-> a, producer |-> p])]
        \in [StepId -> Seq(Artifact)]
  BY <1>1, <1>2
<1>4. [m.status EXCEPT ![s] = "IN_REVIEW"] \in [StepId -> StepStatus]
  BY DEF Machine, StepStatus
<1>5. m.events \cup {Event("ARTIFACT_ADD", a)} \in EventLog
  BY LogTyped DEF Machine, EventType, Subject
<1>6. QED
  BY <1>3, <1>4, <1>5 DEF DoAddArtifact, Machine

LEMMA OpenDecisionTyped ==
  ASSUME NEW m \in Machine, NEW s \in StepId, NEW d \in DecisionId,
         NEW policy \in Policy, NEW deadline \in Nat \cup {None}
  PROVE  DoOpenDecision(m, s, d, policy, deadline) \in Machine
<1> DEFINE decision == [status |-> "PENDING", step |-> s,
                        policy |-> Normalized(policy), deadline |-> deadline]
<1>1. Normalized(policy) \in Policy
  BY DEF Normalized, Policy
<1>2. decision \in Decision
  BY <1>1 DEF Decision, DecisionStatus
<1>3. [m.decisions EXCEPT ![d] = decision] \in [DecisionId -> Decision]
  BY <1>2 DEF Machine
<1>4. m.events \cup {Event("DECISION_OPEN", d)} \in EventLog
  BY LogTyped DEF Machine, EventType, Subject
<1>. /\ [m.latest EXCEPT ![s] = d] \in [StepId -> DecisionId \cup {None}]
     /\ [m.finalized EXCEPT ![s] = FALSE] \in [StepId -> BOOLEAN]
  BY DEF Machine
<1>5. DoOpenDecision(m, s, d, policy, deadline) =
        [m EXCEPT !.decisions[d] = decision, !.latest[s] = d, !.finalized[s] = FALSE,
                  !.events = @ \cup {Event("DECISION_OPEN", d)}]
  BY DEF DoOpenDecision
<1> HIDE DEF decision
<1>6. QED
  BY <1>3, <1>4, <1>5 DEF Machine

(* The verdict is a status; that the decision names a step is not known    *)
(* here, so the flag it sets is typed wherever it lands.                   *)
LEMMA VerdictTyped ==
  ASSUME NEW policy, NEW ballots
  PROVE  Evaluate(policy, ballots) \in {"PENDING", "PASSED", "REJECTED"}
BY DEF Evaluate

LEMMA VoteTyped ==
  ASSUME NEW m \in Machine, NEW d \in DecisionId, NEW p \in ParticipantId,
         NEW v \in VoteId, NEW choice \in Choice
  PROVE  DoVote(m, d, p, v, choice) \in Machine
<1> DEFINE ballots == [m.votes[d] EXCEPT ![p] = [id |-> v, choice |-> choice]]
           verdict == Evaluate(Normalized(m.decisions[d].policy), ballots)
           step == m.decisions[d].step
<1>1. [id |-> v, choice |-> choice] \in Vote
  BY DEF Vote
<1>2. ballots \in [ParticipantId -> Vote]
  BY <1>1 DEF Machine
<1>3. verdict \in DecisionStatus
  BY VerdictTyped DEF DecisionStatus
<1>4. [m.decisions[d] EXCEPT !.status = verdict] \in Decision
  <2>1. m.decisions[d] \in Decision
    BY DEF Machine
  <2> HIDE DEF verdict
  <2>2. QED
    BY <1>3, <2>1 DEF Decision
<1>5. [m.finalized EXCEPT ![step] = @ \/ verdict # "PENDING"] \in [StepId -> BOOLEAN]
  <2> HIDE DEF verdict, step
  <2>1. m.finalized \in [StepId -> BOOLEAN]
    BY DEF Machine
  <2>2. QED
    BY <2>1
<1>. /\ [m.votes EXCEPT ![d] = ballots] \in [DecisionId -> [ParticipantId -> Vote]]
     /\ [m.decisions EXCEPT ![d].status = verdict] \in [DecisionId -> Decision]
  <2> HIDE DEF ballots, verdict
  <2>1. QED
    BY <1>2, <1>4 DEF Machine
<1>6. m.events \cup {Event("VOTE_CAST", v)} \in EventLog
  BY LogTyped DEF Machine, EventType, Subject
<1>7. DoVote(m, d, p, v, choice) =
        [m EXCEPT !.votes[d] = ballots, !.decisions[d].status = verdict,
                  !.finalized[step] = @ \/ verdict # "PENDING",
                  !.events = @ \cup {Event("VOTE_CAST", v)}]
  BY DEF DoVote
<1> HIDE DEF ballots, verdict, step
<1>8. QED
  BY <1>2, <1>4, <1>5, <1>6, <1>7 DEF Machine

LEMMA ResolveTyped ==
  ASSUME NEW m \in Machine, NEW at \in Nat, NEW s \in StepId,
         m.steps[s].session \in SessionId
  PROVE  DoResolve(m, at, s) \in Machine
<1> DEFINE live == LiveOn(m, at, s)
           x == m.steps[s].session
           status == [m.status EXCEPT ![s] = "RESOLVED"]
           completes == /\ \A t \in m.order[x] : StepExists(m, t) => status[t] = "RESOLVED"
                        /\ m.sessions[x] = "ACTIVE"
           claims == IF live = {} THEN m.claims
                     ELSE [m.claims EXCEPT ![CHOOSE c \in live : TRUE].status = "RELEASED"]
           sessions == [m.sessions EXCEPT ![x] = IF completes THEN "COMPLETED" ELSE @]
           events == m.events \cup {Event("STEP_RESOLVE", s)} \cup
                     (IF completes THEN {Event("SESSION_COMPLETED", x)} ELSE {})
<1>1. claims \in [ClaimId -> Claim]
  <2>1. CASE live = {}
    BY <2>1 DEF Machine
  <2>2. CASE live # {}
    <3>1. (CHOOSE c \in live : TRUE) \in ClaimId
      BY <2>2 DEF LiveOn
    <3>2. QED
      BY <2>2, <3>1, EndClaimTyped DEF Machine, ClaimStatus
  <2>3. QED
    BY <2>1, <2>2
<1>2. status \in [StepId -> StepStatus]
  BY DEF Machine, StepStatus
<1>3. sessions \in [SessionId -> SessionStatus]
  BY DEF Machine, SessionStatus
<1>4. events \in EventLog
  <2>1. m.events \cup {Event("STEP_RESOLVE", s)} \in EventLog
    BY LogTyped DEF Machine, EventType, Subject
  <2>2. {Event("SESSION_COMPLETED", x)} \in EventLog
    BY DEF EventLog, Event, EventType, Subject
  <2>3. QED
    BY <2>1, <2>2 DEF EventLog
<1>5. DoResolve(m, at, s) =
        [m EXCEPT !.claims = claims, !.status = status, !.sessions = sessions,
                  !.events = events]
  BY DEF DoResolve
<1> HIDE DEF claims, status, sessions, events
<1>6. QED
  BY <1>1, <1>2, <1>3, <1>4, <1>5 DEF Machine

-----------------------------------------------------------------------------
(* The claim table and the step table agree.  LeaseInv is the inductive    *)
(* strengthening of OneActiveClaim and StatusMatchesClaims; it is stated   *)
(* of a machine state m, because it must be carried over Expire before it  *)
(* is carried over the handler.                                            *)

ActiveOn(m, s) == {c \in ClaimId : m.claims[c].status = "ACTIVE" /\ m.claims[c].step = s}

StepsKnowSession(m) ==
  \A s \in StepId : StepExists(m, s) => m.steps[s].session \in SessionId
OneActive(m) ==
  \A s \in StepId : \A c, e \in ActiveOn(m, s) : c = e
ActiveNamesStep(m) ==
  \A c \in ClaimId : m.claims[c].status = "ACTIVE" => m.claims[c].step \in StepId
ClaimedIsHeld(m) ==
  \A s \in StepId : m.status[s] = "CLAIMED" => ActiveOn(m, s) # {}
IdleIsFree(m) ==
  \A s \in StepId : m.status[s] \in {"NONE", "OPEN", "RESOLVED"} => ActiveOn(m, s) = {}

LeaseInv(m) ==
  /\ m \in Machine
  /\ StepsKnowSession(m)
  /\ OneActive(m)
  /\ ActiveNamesStep(m)
  /\ ClaimedIsHeld(m)
  /\ IdleIsFree(m)

(* What Expire adds for the handler that follows it.                       *)
NoneLapsed(m, at) ==
  \A c \in ClaimId : m.claims[c].status = "ACTIVE" => m.claims[c].lease > at

LEMMA ExpireFields ==
  ASSUME NEW m \in Machine, NEW at \in Nat
  PROVE  /\ \A c \in ClaimId :
              /\ Expire(m, at).claims[c].status =
                   IF c \in Lapsed(m, at) THEN "EXPIRED" ELSE m.claims[c].status
              /\ Expire(m, at).claims[c].step = m.claims[c].step
              /\ Expire(m, at).claims[c].lease = m.claims[c].lease
              /\ Expire(m, at).claims[c].holder = m.claims[c].holder
         /\ \A s \in StepId : Expire(m, at).status[s] =
              IF /\ m.status[s] = "CLAIMED"
                 /\ \E c \in Lapsed(m, at) : m.claims[c].step = s
                 /\ LiveOn(m, at, s) = {}
                THEN "OPEN" ELSE m.status[s]
         /\ Expire(m, at).steps = m.steps
<1> DEFINE claims == [c \in ClaimId |->
                        IF c \in Lapsed(m, at)
                          THEN [m.claims[c] EXCEPT !.status = "EXPIRED"]
                          ELSE m.claims[c]]
           status == [s \in StepId |->
                        IF /\ m.status[s] = "CLAIMED"
                           /\ \E c \in Lapsed(m, at) : m.claims[c].step = s
                           /\ LiveOn(m, at, s) = {}
                          THEN "OPEN" ELSE m.status[s]]
           events == m.events \cup {Event("CLAIM_EXPIRED", c) : c \in Lapsed(m, at)}
<1>1. Expire(m, at) = [m EXCEPT !.claims = claims, !.status = status, !.events = events]
  BY DEF Expire
<1>2. \A c \in ClaimId :
        /\ claims[c].status = IF c \in Lapsed(m, at) THEN "EXPIRED" ELSE m.claims[c].status
        /\ claims[c].step = m.claims[c].step
        /\ claims[c].lease = m.claims[c].lease
        /\ claims[c].holder = m.claims[c].holder
  <2>1. \A c \in ClaimId : m.claims[c] \in Claim
    BY DEF Machine
  <2>2. QED
    BY <2>1 DEF Claim
<1> HIDE DEF claims, events
<1>3. /\ Expire(m, at).claims = claims
      /\ Expire(m, at).status = status
      /\ Expire(m, at).steps = m.steps
  <2> HIDE DEF status
  <2>1. QED
    BY <1>1 DEF Machine
<1>4. QED
  BY <1>2, <1>3

LEMMA ExpireLease ==
  ASSUME NEW m, NEW at \in Nat, LeaseInv(m)
  PROVE  LeaseInv(Expire(m, at)) /\ NoneLapsed(Expire(m, at), at)
<1> DEFINE n == Expire(m, at)
<1>1. m \in Machine /\ n \in Machine
  BY ExpireTyped DEF LeaseInv
<1>2. \A c \in ClaimId : m.claims[c].lease \in Nat /\ at \in Nat
  BY <1>1 DEF Machine, Claim
<1>f. /\ \A c \in ClaimId :
             /\ n.claims[c].status =
                  IF c \in Lapsed(m, at) THEN "EXPIRED" ELSE m.claims[c].status
             /\ n.claims[c].step = m.claims[c].step
             /\ n.claims[c].lease = m.claims[c].lease
      /\ \A s \in StepId : n.status[s] =
             IF /\ m.status[s] = "CLAIMED"
                /\ \E c \in Lapsed(m, at) : m.claims[c].step = s
                /\ LiveOn(m, at, s) = {}
               THEN "OPEN" ELSE m.status[s]
      /\ n.steps = m.steps
  BY <1>1, ExpireFields
<1> HIDE DEF n
<1>3. \A s \in StepId : ActiveOn(n, s) = LiveOn(m, at, s)
  BY <1>2, <1>f DEF ActiveOn, LiveOn, Lapsed
<1>4. \A s \in StepId : LiveOn(m, at, s) \subseteq ActiveOn(m, s)
  BY DEF ActiveOn, LiveOn
<1>5. StepsKnowSession(n)
  BY <1>f DEF LeaseInv, StepsKnowSession, StepExists
<1>6. OneActive(n)
  BY <1>3, <1>4 DEF LeaseInv, OneActive
<1>7. ActiveNamesStep(n)
  BY <1>f DEF LeaseInv, ActiveNamesStep
<1>8. ClaimedIsHeld(n)
  <2> SUFFICES ASSUME NEW s \in StepId, n.status[s] = "CLAIMED"
               PROVE  LiveOn(m, at, s) # {}
    BY <1>3 DEF ClaimedIsHeld
  <2>1. m.status[s] = "CLAIMED"
    BY <1>f
  <2>2. PICK c \in ActiveOn(m, s) : TRUE
    BY <2>1 DEF LeaseInv, ClaimedIsHeld
  <2>3. CASE c \in Lapsed(m, at)
    BY <1>f, <2>1, <2>2, <2>3 DEF ActiveOn
  <2>4. CASE c \notin Lapsed(m, at)
    BY <1>2, <2>2, <2>4 DEF ActiveOn, Lapsed, LiveOn
  <2>5. QED
    BY <2>3, <2>4
<1>9. IdleIsFree(n)
  BY <1>3, <1>4, <1>f DEF LeaseInv, IdleIsFree
<1>10. NoneLapsed(n, at)
  BY <1>2, <1>f DEF NoneLapsed, Lapsed
<1>11. QED
  BY <1>1, <1>5, <1>6, <1>7, <1>8, <1>9, <1>10 DEF LeaseInv, n

(* A handler that leaves claims and steps alone.                           *)
LEMMA SameLease ==
  ASSUME NEW m, NEW n \in Machine, LeaseInv(m),
         n.claims = m.claims, n.status = m.status, n.steps = m.steps
  PROVE  LeaseInv(n)
BY DEF LeaseInv, StepsKnowSession, StepExists, OneActive, ActiveNamesStep,
       ClaimedIsHeld, IdleIsFree, ActiveOn

(* A handler that changes one existing step and its claims.                *)
LEMMA OneStepLease ==
  ASSUME NEW m, NEW n \in Machine, NEW s \in StepId, LeaseInv(m),
         StepExists(m, s), n.steps = m.steps,
         \A t \in StepId \ {s} : /\ n.status[t] = m.status[t]
                                 /\ ActiveOn(n, t) = ActiveOn(m, t),
         \A c, e \in ActiveOn(n, s) : c = e,
         n.status[s] = "CLAIMED" => ActiveOn(n, s) # {},
         n.status[s] \in {"NONE", "OPEN", "RESOLVED"} => ActiveOn(n, s) = {},
         ActiveNamesStep(n)
  PROVE  LeaseInv(n)
<1>1. StepsKnowSession(n)
  BY DEF LeaseInv, StepsKnowSession, StepExists
<1>2. OneActive(n) /\ ClaimedIsHeld(n) /\ IdleIsFree(n)
  BY DEF LeaseInv, OneActive, ClaimedIsHeld, IdleIsFree
<1>3. QED
  BY <1>1, <1>2 DEF LeaseInv

LEMMA JoinLease ==
  ASSUME NEW m, LeaseInv(m), NEW x \in SessionId, NEW r \in Ref,
         NEW p \in ParticipantId, NEW caps \in SUBSET Capability
  PROVE  LeaseInv(DoJoin(m, x, r, p, caps))
<1> DEFINE n == DoJoin(m, x, r, p, caps)
<1>1. m \in Machine
  BY DEF LeaseInv
<1>2. n.claims = m.claims /\ n.status = m.status /\ n.steps = m.steps
  BY <1>1 DEF DoJoin, Machine
<1>3. QED
  BY <1>1, <1>2, JoinTyped, SameLease

LEMMA OpenDecisionLease ==
  ASSUME NEW m, LeaseInv(m), NEW s \in StepId, NEW d \in DecisionId,
         NEW policy \in Policy, NEW deadline \in Nat \cup {None}
  PROVE  LeaseInv(DoOpenDecision(m, s, d, policy, deadline))
<1> DEFINE n == DoOpenDecision(m, s, d, policy, deadline)
<1>1. m \in Machine
  BY DEF LeaseInv
<1>2. n.claims = m.claims /\ n.status = m.status /\ n.steps = m.steps
  BY <1>1 DEF DoOpenDecision, Machine
<1>3. QED
  BY <1>1, <1>2, OpenDecisionTyped, SameLease

LEMMA VoteLease ==
  ASSUME NEW m, LeaseInv(m), NEW d \in DecisionId, NEW p \in ParticipantId,
         NEW v \in VoteId, NEW choice \in Choice
  PROVE  LeaseInv(DoVote(m, d, p, v, choice))
<1> DEFINE n == DoVote(m, d, p, v, choice)
<1>1. m \in Machine
  BY DEF LeaseInv
<1>2. n.claims = m.claims /\ n.status = m.status /\ n.steps = m.steps
  BY <1>1 DEF DoVote, Machine
<1>3. QED
  BY <1>1, <1>2, VoteTyped, SameLease

LEMMA CreateSessionLease ==
  ASSUME NEW m, LeaseInv(m), NEW plan \in Plan
  PROVE  LeaseInv(DoCreateSession(m, plan))
<1> DEFINE n == DoCreateSession(m, plan)
           ids == {plan.steps[i].id : i \in Written(m, plan.steps)}
<1>1. m \in Machine /\ n \in Machine
  BY CreateSessionTyped DEF LeaseInv
<1>2. /\ n.claims = m.claims
      /\ \A s \in StepId : n.status[s] = IF s \in ids THEN "OPEN" ELSE m.status[s]
      /\ \A s \in StepId : n.steps[s].session =
           IF s \in ids THEN plan.session ELSE m.steps[s].session
  BY <1>1 DEF DoCreateSession, Machine, StepFrom
<1>3. \A s \in ids : m.status[s] = "NONE"
  <2> SUFFICES ASSUME NEW i \in Written(m, plan.steps)
               PROVE  m.status[plan.steps[i].id] = "NONE"
    OBVIOUS
  <2>1. i \in 1..i
    BY DEF Plan, Written
  <2>2. QED
    BY <2>1 DEF Written, DraftOK, StepExists
<1> HIDE DEF n, ids
<1>4. \A s \in StepId : ActiveOn(n, s) = ActiveOn(m, s)
  BY <1>2 DEF ActiveOn
<1>5. StepsKnowSession(n)
  BY <1>2 DEF Plan, LeaseInv, StepsKnowSession, StepExists
<1>6. OneActive(n) /\ ActiveNamesStep(n)
  BY <1>2, <1>4 DEF LeaseInv, OneActive, ActiveNamesStep
<1>7. ClaimedIsHeld(n) /\ IdleIsFree(n)
  BY <1>2, <1>3, <1>4 DEF LeaseInv, ClaimedIsHeld, IdleIsFree
<1>8. QED
  BY <1>1, <1>5, <1>6, <1>7 DEF LeaseInv, n

LEMMA ClaimLease ==
  ASSUME NEW m, LeaseInv(m), NEW at \in Nat, NEW s \in StepId,
         NEW p \in ParticipantId, NEW c \in ClaimId, NEW secs \in Int,
         CanClaim(m, at, s, p, c)
  PROVE  LeaseInv(DoClaim(m, at, s, p, c, secs))
<1> DEFINE n == DoClaim(m, at, s, p, c, secs)
<1>1. m \in Machine /\ n \in Machine
  BY ClaimTyped DEF LeaseInv
<1>2. /\ n.claims = [m.claims EXCEPT ![c] = NewClaim(m, at, s, p, secs)]
      /\ n.status = [m.status EXCEPT ![s] = "CLAIMED"]
      /\ n.steps = m.steps
  BY <1>1 DEF DoClaim, Machine
<1>3. /\ NewClaim(m, at, s, p, secs).status = "ACTIVE"
      /\ NewClaim(m, at, s, p, secs).step = s
  BY DEF NewClaim
<1>4. m.claims[c].status = "NONE" /\ StepExists(m, s) /\ ActiveOn(m, s) = {}
  BY DEF CanClaim, LeaseInv, IdleIsFree
<1> HIDE DEF n
<1>5. m.claims \in [ClaimId -> Claim] /\ m.status \in [StepId -> StepStatus]
  BY <1>1 DEF Machine
<1>6. ActiveOn(n, s) = {c}
  BY <1>2, <1>3, <1>4, <1>5 DEF ActiveOn
<1>7. \A t \in StepId \ {s} : n.status[t] = m.status[t] /\ ActiveOn(n, t) = ActiveOn(m, t)
  BY <1>2, <1>3, <1>4, <1>5 DEF ActiveOn
<1>8. ActiveNamesStep(n)
  BY <1>2, <1>3, <1>5 DEF LeaseInv, ActiveNamesStep
<1>9. n.status[s] = "CLAIMED"
  BY <1>2, <1>5
<1>10. QED
  BY <1>1, <1>2, <1>4, <1>6, <1>7, <1>8, <1>9, OneStepLease DEF n

LEMMA LiveIsActive ==
  ASSUME NEW m, NEW at, NEW s, NEW p
  PROVE  LiveFor(m, at, s, p) \subseteq ActiveOn(m, s)
BY DEF LiveFor, LiveOn, ActiveOn

LEMMA ReleaseLease ==
  ASSUME NEW m, LeaseInv(m), NEW at \in Nat, NEW s \in StepId,
         NEW p \in ParticipantId, CanRelease(m, at, s, p)
  PROVE  LeaseInv(DoRelease(m, at, s, p))
<1> DEFINE n == DoRelease(m, at, s, p)
           c == CHOOSE c \in LiveFor(m, at, s, p) : TRUE
<1>1. m \in Machine /\ n \in Machine
  BY ReleaseTyped DEF LeaseInv
<1>2. /\ n.claims = [m.claims EXCEPT ![c].status = "RELEASED"]
      /\ n.status = [m.status EXCEPT ![s] = "OPEN"]
      /\ n.steps = m.steps
  BY <1>1 DEF DoRelease, Machine
<1>3. c \in ActiveOn(m, s) /\ StepExists(m, s)
  BY LiveIsActive DEF CanRelease
<1> HIDE DEF n, c
<1>4. m.claims \in [ClaimId -> Claim] /\ m.status \in [StepId -> StepStatus]
  BY <1>1 DEF Machine
<1>5. /\ n.claims[c].status = "RELEASED"
      /\ \A e \in ClaimId \ {c} : n.claims[e] = m.claims[e]
  BY <1>2, <1>3, <1>4 DEF ActiveOn, Claim
<1>6. ActiveOn(n, s) = {}
  BY <1>3, <1>5 DEF ActiveOn, LeaseInv, OneActive
<1>7. \A t \in StepId \ {s} : n.status[t] = m.status[t] /\ ActiveOn(n, t) = ActiveOn(m, t)
  BY <1>2, <1>3, <1>4, <1>5 DEF ActiveOn
<1>8. ActiveNamesStep(n)
  BY <1>5 DEF LeaseInv, ActiveNamesStep
<1>9. n.status[s] = "OPEN"
  BY <1>2, <1>4
<1>10. QED
  BY <1>1, <1>2, <1>3, <1>6, <1>7, <1>8, <1>9, OneStepLease DEF n

LEMMA HandoffLease ==
  ASSUME NEW m, LeaseInv(m), NEW at \in Nat, NEW s \in StepId,
         NEW p \in ParticipantId, NEW q \in ParticipantId,
         NEW c \in ClaimId, NEW secs \in Int, CanHandoff(m, at, s, p, q, c)
  PROVE  LeaseInv(DoHandoff(m, at, s, p, q, c, secs))
<1> DEFINE n == DoHandoff(m, at, s, p, q, c, secs)
           old == CHOOSE o \in LiveFor(m, at, s, p) : TRUE
           new == NewClaim(m, at, s, q, secs)
<1>1. m \in Machine /\ n \in Machine
  BY HandoffTyped DEF LeaseInv
<1>2. /\ n.claims = [m.claims EXCEPT ![old].status = "RELEASED", ![c] = new]
      /\ n.status = [m.status EXCEPT ![s] = "CLAIMED"]
      /\ n.steps = m.steps
  BY <1>1 DEF DoHandoff, Machine
<1>3. new.status = "ACTIVE" /\ new.step = s
  BY DEF NewClaim
<1>4. old \in ActiveOn(m, s) /\ StepExists(m, s) /\ m.claims[c].status = "NONE"
  BY LiveIsActive DEF CanHandoff
<1> HIDE DEF n, old, new
<1>5. m.claims \in [ClaimId -> Claim] /\ m.status \in [StepId -> StepStatus]
  BY <1>1 DEF Machine
<1>6. /\ old # c /\ n.claims[c] = new /\ n.claims[old].status = "RELEASED"
      /\ \A e \in ClaimId \ {old, c} : n.claims[e] = m.claims[e]
  BY <1>2, <1>4, <1>5 DEF ActiveOn, Claim
<1>7. ActiveOn(n, s) = {c}
  BY <1>3, <1>4, <1>6 DEF ActiveOn, LeaseInv, OneActive
<1>8. \A t \in StepId \ {s} : n.status[t] = m.status[t] /\ ActiveOn(n, t) = ActiveOn(m, t)
  BY <1>2, <1>3, <1>4, <1>5, <1>6 DEF ActiveOn
<1>9. ActiveNamesStep(n)
  BY <1>3, <1>6 DEF LeaseInv, ActiveNamesStep
<1>10. n.status[s] = "CLAIMED"
  BY <1>2, <1>5
<1>11. QED
  BY <1>1, <1>2, <1>4, <1>7, <1>8, <1>9, <1>10, OneStepLease DEF n

LEMMA AddArtifactLease ==
  ASSUME NEW m, LeaseInv(m), NEW at \in Nat, NEW s \in StepId,
         NEW p \in ParticipantId, NEW a \in ArtifactId, CanAddArtifact(m, at, s, p, a)
  PROVE  LeaseInv(DoAddArtifact(m, s, p, a))
<1> DEFINE n == DoAddArtifact(m, s, p, a)
<1>1. m \in Machine /\ n \in Machine
  BY AddArtifactTyped DEF LeaseInv
<1>2. /\ n.claims = m.claims
      /\ n.status = [m.status EXCEPT ![s] = "IN_REVIEW"]
      /\ n.steps = m.steps
  BY <1>1 DEF DoAddArtifact, Machine
<1>3. StepExists(m, s)
  BY DEF CanAddArtifact
<1> HIDE DEF n
<1>4. \A t \in StepId : ActiveOn(n, t) = ActiveOn(m, t)
  BY <1>2 DEF ActiveOn
<1>5. m.status \in [StepId -> StepStatus]
  BY <1>1 DEF Machine
<1>6. ActiveNamesStep(n) /\ \A c, e \in ActiveOn(n, s) : c = e
  BY <1>2, <1>4 DEF LeaseInv, ActiveNamesStep, OneActive
<1>7. QED
  BY <1>1, <1>2, <1>3, <1>4, <1>5, <1>6, OneStepLease DEF n

LEMMA ResolveLease ==
  ASSUME NEW m, LeaseInv(m), NEW at \in Nat, NoneLapsed(m, at), NEW s \in StepId,
         m.status[s] \in {"CLAIMED", "IN_REVIEW"}
  PROVE  LeaseInv(DoResolve(m, at, s))
<1> DEFINE n == DoResolve(m, at, s)
           live == LiveOn(m, at, s)
<1>1. StepExists(m, s) /\ m.steps[s].session \in SessionId
  BY DEF LeaseInv, StepsKnowSession, StepExists
<1>2. m \in Machine /\ n \in Machine
  BY <1>1, ResolveTyped DEF LeaseInv
<1>3. /\ n.claims = IF live = {} THEN m.claims
                    ELSE [m.claims EXCEPT ![CHOOSE c \in live : TRUE].status = "RELEASED"]
      /\ n.status = [m.status EXCEPT ![s] = "RESOLVED"]
      /\ n.steps = m.steps
  BY <1>2 DEF DoResolve, Machine
<1>4. live = ActiveOn(m, s)
  BY DEF LiveOn, ActiveOn, NoneLapsed
<1> HIDE DEF n, live
<1>5. m.claims \in [ClaimId -> Claim] /\ m.status \in [StepId -> StepStatus]
  BY <1>2 DEF Machine
<1>6. \A e \in ClaimId : /\ n.claims[e].step = m.claims[e].step
                         /\ n.claims[e].status = IF e \in ActiveOn(m, s) THEN "RELEASED"
                                                 ELSE m.claims[e].status
  <2>1. CASE live = {}
    BY <1>3, <1>4, <2>1
  <2>2. CASE live # {}
    <3>1. PICK c \in live : c = CHOOSE e \in live : TRUE
      BY <2>2
    <3>2. ActiveOn(m, s) = {c}
      BY <1>4, <3>1 DEF LeaseInv, OneActive
    <3>. c \in ClaimId
      BY <3>2 DEF ActiveOn
    <3>3. QED
      BY <1>3, <1>5, <2>2, <3>1, <3>2 DEF Claim
  <2>3. QED
    BY <2>1, <2>2
<1>7. ActiveOn(n, s) = {}
  BY <1>6 DEF ActiveOn
<1>8. \A t \in StepId \ {s} : n.status[t] = m.status[t] /\ ActiveOn(n, t) = ActiveOn(m, t)
  BY <1>3, <1>5, <1>6 DEF ActiveOn
<1>9. ActiveNamesStep(n)
  BY <1>6 DEF LeaseInv, ActiveNamesStep
<1>10. n.status[s] = "RESOLVED"
  BY <1>3, <1>5
<1>11. QED
  BY <1>1, <1>2, <1>3, <1>7, <1>8, <1>9, <1>10, OneStepLease DEF n

-----------------------------------------------------------------------------
(* A node starts from the empty machine.                                   *)
LEMMA EmptyLease == LeaseInv(EmptyMachine)
<1>1. EmptyMachine \in Machine
  <2>1. NoStep \in StepInfo /\ NoParticipant \in Participant /\ NoClaim \in Claim
        /\ NoDecision \in Decision /\ NoVote \in Vote
    BY DEF NoStep, StepInfo, NoParticipant, Participant, NoClaim, Claim, ClaimStatus,
           NoDecision, Decision, DecisionStatus, Policy, NoVote, Vote
  <2>2. {} \in EventLog
    BY DEF EventLog
  <2>3. /\ [x \in SessionId |-> "NONE"] \in [SessionId -> SessionStatus]
        /\ [s \in StepId |-> "NONE"] \in [StepId -> StepStatus]
        /\ [s \in StepId |-> <<>>] \in [StepId -> Seq(Artifact)]
    BY DEF SessionStatus, StepStatus
  <2>4. QED
    BY <2>1, <2>2, <2>3 DEF EmptyMachine, Machine
<1>2. /\ \A c \in ClaimId : EmptyMachine.claims[c].status = "NONE"
      /\ \A s \in StepId : EmptyMachine.status[s] = "NONE"
  BY DEF EmptyMachine, NoClaim
<1>3. \A s \in StepId : ActiveOn(EmptyMachine, s) = {}
  BY <1>2 DEF ActiveOn
<1>4. QED
  BY <1>1, <1>2, <1>3 DEF LeaseInv, StepsKnowSession, StepExists, OneActive,
       ActiveNamesStep, ClaimedIsHeld, IdleIsFree

-----------------------------------------------------------------------------
(* Field by field, what each handler writes and what it leaves.            *)

SameReviews(m, n) ==
  /\ n.decisions = m.decisions /\ n.latest = m.latest
  /\ n.finalized = m.finalized /\ n.votes = m.votes
SameMembers(m, n) ==
  /\ n.sessions = m.sessions /\ n.order = m.order /\ n.steps = m.steps
  /\ n.participants = m.participants /\ n.byRef = m.byRef

ExpireWrites(m, n, at) ==
  /\ SameReviews(m, n) /\ SameMembers(m, n) /\ n.artifacts = m.artifacts
  /\ n.events = m.events \cup {Event("CLAIM_EXPIRED", c) : c \in Lapsed(m, at)}
  /\ \A c \in ClaimId : c \notin Lapsed(m, at) => n.claims[c] = m.claims[c]

CreateSessionWrites(m, n, plan) ==
  LET ids == {plan.steps[i].id : i \in Written(m, plan.steps)}
      draft(s) == plan.steps[CHOOSE i \in Written(m, plan.steps) : plan.steps[i].id = s]
  IN /\ SameReviews(m, n) /\ n.claims = m.claims /\ n.artifacts = m.artifacts
     /\ n.participants = m.participants
     /\ n.sessions = [m.sessions EXCEPT ![plan.session] = "ACTIVE"]
     /\ \A s \in StepId :
          /\ n.status[s] = IF s \in ids THEN "OPEN" ELSE m.status[s]
          /\ n.steps[s] = IF s \in ids THEN StepFrom(plan.session, draft(s)) ELSE m.steps[s]
     /\ n.order = [m.order EXCEPT ![plan.session] = IF CreatesAll(m, plan) THEN ids ELSE @]
     /\ n.events = IF CreatesAll(m, plan)
                     THEN m.events \cup {Event("SESSION_CREATE", plan.session)} ELSE m.events

JoinWrites(m, n, x, r, p, caps) ==
  LET known == m.byRef[Fold[x]][r]
  IN /\ SameReviews(m, n) /\ n.claims = m.claims /\ n.artifacts = m.artifacts
     /\ n.sessions = m.sessions /\ n.order = m.order
     /\ n.status = m.status /\ n.steps = m.steps
     /\ n.participants =
          IF known # None THEN [m.participants EXCEPT ![known].caps = caps]
          ELSE [m.participants EXCEPT ![p] = [session |-> x, caps |-> caps]]
     /\ \E e \in {Event("PARTICIPANT_TOUCH", known), Event("PARTICIPANT_JOIN", p)} :
          n.events = m.events \cup {e}

ClaimWrites(m, n, at, s, p, c, secs) ==
  /\ SameReviews(m, n) /\ SameMembers(m, n) /\ n.artifacts = m.artifacts
  /\ n.claims = [m.claims EXCEPT ![c] = NewClaim(m, at, s, p, secs)]
  /\ n.status = [m.status EXCEPT ![s] = "CLAIMED"]
  /\ n.events = m.events \cup {Event("STEP_CLAIM", c)}

ReleaseWrites(m, n, s, c) ==
  /\ SameReviews(m, n) /\ SameMembers(m, n) /\ n.artifacts = m.artifacts
  /\ n.claims = [m.claims EXCEPT ![c].status = "RELEASED"]
  /\ n.status = [m.status EXCEPT ![s] = "OPEN"]
  /\ n.events = m.events \cup {Event("STEP_RELEASE", s)}

HandoffWrites(m, n, at, s, old, q, c, secs) ==
  /\ SameReviews(m, n) /\ SameMembers(m, n) /\ n.artifacts = m.artifacts
  /\ n.claims = [m.claims EXCEPT ![old].status = "RELEASED",
                                 ![c] = NewClaim(m, at, s, q, secs)]
  /\ n.status = [m.status EXCEPT ![s] = "CLAIMED"]
  /\ n.events = m.events \cup {Event("STEP_HANDOFF", c)}

AddArtifactWrites(m, n, s, p, a) ==
  /\ SameReviews(m, n) /\ SameMembers(m, n) /\ n.claims = m.claims
  /\ n.artifacts = [m.artifacts EXCEPT ![s] = Append(@, [id |-> a, producer |-> p])]
  /\ n.status = [m.status EXCEPT ![s] = "IN_REVIEW"]
  /\ n.events = m.events \cup {Event("ARTIFACT_ADD", a)}

OpenDecisionWrites(m, n, s, d, policy, deadline) ==
  /\ SameMembers(m, n) /\ n.claims = m.claims /\ n.artifacts = m.artifacts
  /\ n.status = m.status /\ n.votes = m.votes
  /\ n.decisions = [m.decisions EXCEPT ![d] =
       [status |-> "PENDING", step |-> s, policy |-> Normalized(policy),
        deadline |-> deadline]]
  /\ n.latest = [m.latest EXCEPT ![s] = d]
  /\ n.finalized = [m.finalized EXCEPT ![s] = FALSE]
  /\ n.events = m.events \cup {Event("DECISION_OPEN", d)}

VoteWrites(m, n, d, v, ballots, verdict) ==
  /\ SameMembers(m, n) /\ n.claims = m.claims /\ n.artifacts = m.artifacts
  /\ n.status = m.status /\ n.latest = m.latest
  /\ n.votes = [m.votes EXCEPT ![d] = ballots]
  /\ n.decisions = [m.decisions EXCEPT ![d].status = verdict]
  /\ n.finalized = [m.finalized EXCEPT ![m.decisions[d].step] = @ \/ verdict # "PENDING"]
  /\ n.events = m.events \cup {Event("VOTE_CAST", v)}

Completes(m, s) ==
  /\ \A t \in m.order[m.steps[s].session] :
       StepExists(m, t) => [m.status EXCEPT ![s] = "RESOLVED"][t] = "RESOLVED"
  /\ m.sessions[m.steps[s].session] = "ACTIVE"

ResolveWrites(m, n, at, s) ==
  LET live == LiveOn(m, at, s)
      x == m.steps[s].session
  IN /\ SameReviews(m, n) /\ n.order = m.order /\ n.steps = m.steps
     /\ n.participants = m.participants /\ n.artifacts = m.artifacts
     /\ n.claims = IF live = {} THEN m.claims
                   ELSE [m.claims EXCEPT ![CHOOSE c \in live : TRUE].status = "RELEASED"]
     /\ n.status = [m.status EXCEPT ![s] = "RESOLVED"]
     /\ n.sessions = [m.sessions EXCEPT ![x] = IF Completes(m, s) THEN "COMPLETED" ELSE @]
     /\ n.events = m.events \cup {Event("STEP_RESOLVE", s)} \cup
                     (IF Completes(m, s) THEN {Event("SESSION_COMPLETED", x)} ELSE {})

LEMMA ExpireOthers ==
  ASSUME NEW m \in Machine, NEW at \in Nat
  PROVE  ExpireWrites(m, Expire(m, at), at)
BY DEF Expire, Machine, ExpireWrites, SameReviews, SameMembers

LEMMA CreateSessionFields ==
  ASSUME NEW m \in Machine, NEW plan \in Plan
  PROVE  CreateSessionWrites(m, DoCreateSession(m, plan), plan)
BY DEF DoCreateSession, Machine, CreateSessionWrites, SameReviews

LEMMA JoinFields ==
  ASSUME NEW m \in Machine, NEW x \in SessionId, NEW r \in Ref,
         NEW p \in ParticipantId, NEW caps \in SUBSET Capability
  PROVE  JoinWrites(m, DoJoin(m, x, r, p, caps), x, r, p, caps)
BY DEF DoJoin, Machine, JoinWrites, SameReviews

LEMMA ClaimFields ==
  ASSUME NEW m \in Machine, NEW at, NEW s \in StepId, NEW p, NEW c \in ClaimId, NEW secs
  PROVE  ClaimWrites(m, DoClaim(m, at, s, p, c, secs), at, s, p, c, secs)
BY DEF DoClaim, Machine, ClaimWrites, SameReviews, SameMembers

(* The claim of p that a release or a handoff ends.                        *)
LEMMA ReleaseFields ==
  ASSUME NEW m \in Machine, NEW at, NEW s \in StepId, NEW p, CanRelease(m, at, s, p)
  PROVE  \E c \in LiveFor(m, at, s, p) : ReleaseWrites(m, DoRelease(m, at, s, p), s, c)
<1> DEFINE c == CHOOSE c \in LiveFor(m, at, s, p) : TRUE
<1>1. c \in LiveFor(m, at, s, p)
  BY DEF CanRelease
<1>2. ReleaseWrites(m, DoRelease(m, at, s, p), s, c)
  BY DEF DoRelease, Machine, ReleaseWrites, SameReviews, SameMembers
<1>3. QED
  BY <1>1, <1>2

LEMMA HandoffFields ==
  ASSUME NEW m \in Machine, NEW at, NEW s \in StepId, NEW p, NEW q,
         NEW c \in ClaimId, NEW secs, CanHandoff(m, at, s, p, q, c)
  PROVE  \E old \in LiveFor(m, at, s, p) :
           HandoffWrites(m, DoHandoff(m, at, s, p, q, c, secs), at, s, old, q, c, secs)
<1> DEFINE old == CHOOSE o \in LiveFor(m, at, s, p) : TRUE
<1>1. old \in LiveFor(m, at, s, p)
  BY DEF CanHandoff
<1>2. HandoffWrites(m, DoHandoff(m, at, s, p, q, c, secs), at, s, old, q, c, secs)
  BY DEF DoHandoff, Machine, HandoffWrites, SameReviews, SameMembers
<1>3. QED
  BY <1>1, <1>2

LEMMA AddArtifactFields ==
  ASSUME NEW m \in Machine, NEW s \in StepId, NEW p, NEW a
  PROVE  AddArtifactWrites(m, DoAddArtifact(m, s, p, a), s, p, a)
BY DEF DoAddArtifact, Machine, AddArtifactWrites, SameReviews, SameMembers

LEMMA OpenDecisionFields ==
  ASSUME NEW m \in Machine, NEW s \in StepId, NEW d \in DecisionId, NEW policy, NEW deadline
  PROVE  OpenDecisionWrites(m, DoOpenDecision(m, s, d, policy, deadline),
                            s, d, policy, deadline)
BY DEF DoOpenDecision, Machine, OpenDecisionWrites, SameMembers

LEMMA VoteFields ==
  ASSUME NEW m \in Machine, NEW d \in DecisionId, NEW p, NEW v, NEW choice
  PROVE  LET ballots == [m.votes[d] EXCEPT ![p] = [id |-> v, choice |-> choice]]
         IN VoteWrites(m, DoVote(m, d, p, v, choice), d, v, ballots,
                       Evaluate(Normalized(m.decisions[d].policy), ballots))
BY DEF DoVote, Machine, VoteWrites, SameMembers

LEMMA ResolveFields ==
  ASSUME NEW m \in Machine, NEW at, NEW s \in StepId
  PROVE  ResolveWrites(m, DoResolve(m, at, s), at, s)
BY DEF DoResolve, Machine, ResolveWrites, Completes, SameReviews


-----------------------------------------------------------------------------
(* What is over stays over: the five parts of P2PState's Irrevocable.      *)

Keeps(m, n) ==
  /\ \A s \in StepId : m.status[s] = "RESOLVED" => n.status[s] = "RESOLVED"
  /\ \A c \in ClaimId : m.claims[c].status \in {"RELEASED", "EXPIRED"} =>
       n.claims[c] = m.claims[c]
  /\ \A d \in DecisionId : m.decisions[d].status \in {"PASSED", "REJECTED"} =>
       n.decisions[d] = m.decisions[d] /\ n.votes[d] = m.votes[d]
  /\ \A x \in SessionId : m.sessions[x] = "COMPLETED" => n.sessions[x] = "COMPLETED"
  /\ m.events \subseteq n.events

LEMMA KeepsTransitive ==
  ASSUME NEW m, NEW n, NEW o, Keeps(m, n), Keeps(n, o)
  PROVE  Keeps(m, o)
BY DEF Keeps

LEMMA KeepsReflexive ==
  ASSUME NEW m
  PROVE  Keeps(m, m)
BY DEF Keeps

(* A live claim's step is CLAIMED or IN_REVIEW.                            *)
LEMMA HeldIsBegun ==
  ASSUME NEW m, LeaseInv(m), NEW s \in StepId, NEW c \in ActiveOn(m, s)
  PROVE  m.status[s] \in {"CLAIMED", "IN_REVIEW"} /\ m.claims[c].status = "ACTIVE"
BY DEF LeaseInv, IdleIsFree, Machine, StepStatus, ActiveOn

LEMMA ExpireKeeps ==
  ASSUME NEW m \in Machine, NEW at \in Nat
  PROVE  Keeps(m, Expire(m, at))
<1> DEFINE n == Expire(m, at)
<1>1. ExpireWrites(m, n, at)
  BY ExpireOthers
<1>2. \A s \in StepId : m.status[s] = "RESOLVED" => n.status[s] = "RESOLVED"
  BY ExpireFields
<1> HIDE DEF n
<1>3. Keeps(m, n)
  BY <1>1, <1>2 DEF Keeps, ExpireWrites, SameReviews, SameMembers, Lapsed
<1>4. QED
  BY <1>3 DEF n

(* The drafts written are of steps that did not exist, one for each step   *)
(* and each key.                                                           *)
LEMMA WrittenIsNew ==
  ASSUME NEW m, NEW plan \in Plan, NEW i \in Written(m, plan.steps)
  PROVE  /\ i \in DOMAIN plan.steps /\ plan.steps[i] \in Draft
         /\ plan.steps[i].id \in StepId /\ plan.steps[i].key \in StepKey
         /\ m.status[plan.steps[i].id] = "NONE"
         /\ \A j \in Written(m, plan.steps) : j # i =>
              /\ plan.steps[j].id # plan.steps[i].id
              /\ plan.steps[j].key # plan.steps[i].key
<1>1. plan.steps \in Seq(Draft) /\ i \in DOMAIN plan.steps /\ i \in 1..i
  BY DEF Plan, Written
<1>2. DraftOK(m, plan.steps, i) /\ plan.steps[i] \in Draft
  BY <1>1 DEF Written
<1>3. ASSUME NEW j \in Written(m, plan.steps), j # i
      PROVE  plan.steps[j].id # plan.steps[i].id /\ plan.steps[j].key # plan.steps[i].key
  <2>1. j \in DOMAIN plan.steps /\ j \in 1..j
    BY <1>1 DEF Written
  <2>2. DraftOK(m, plan.steps, j)
    BY <2>1 DEF Written
  <2>3. j \in 1..(i-1) \/ i \in 1..(j-1)
    BY <1>1, <1>3, <2>1
  <2>4. QED
    BY <1>2, <2>2, <2>3 DEF DraftOK
<1>4. QED
  BY <1>1, <1>2, <1>3 DEF DraftOK, Draft, StepExists

LEMMA WrittenKeysDiffer ==
  ASSUME NEW m, NEW plan \in Plan, NEW i \in Written(m, plan.steps),
         NEW j \in Written(m, plan.steps), plan.steps[i].key = plan.steps[j].key
  PROVE  i = j
BY WrittenIsNew

LEMMA CreateSessionKeeps ==
  ASSUME NEW m \in Machine, NEW n, NEW plan \in Plan,
         CanCreateSession(m, plan), CreateSessionWrites(m, n, plan)
  PROVE  Keeps(m, n)
<1>1. \A i \in Written(m, plan.steps) : m.status[plan.steps[i].id] = "NONE"
  BY WrittenIsNew
<1>2. \A s \in StepId : m.status[s] = "RESOLVED" => n.status[s] = "RESOLVED"
  BY <1>1 DEF CreateSessionWrites
<1>3. \A x \in SessionId : m.sessions[x] = "COMPLETED" => n.sessions[x] = "COMPLETED"
  BY DEF Machine, CreateSessionWrites, CanCreateSession
<1>4. n.claims = m.claims /\ n.decisions = m.decisions /\ n.votes = m.votes
  BY DEF CreateSessionWrites, SameReviews
<1>5. m.events \subseteq n.events
  BY DEF CreateSessionWrites
<1>6. QED
  BY <1>2, <1>3, <1>4, <1>5 DEF Keeps

LEMMA JoinKeeps ==
  ASSUME NEW m \in Machine, NEW n, NEW x, NEW r, NEW p, NEW caps,
         JoinWrites(m, n, x, r, p, caps)
  PROVE  Keeps(m, n)
BY DEF Keeps, JoinWrites, SameReviews

LEMMA ClaimKeeps ==
  ASSUME NEW m \in Machine, NEW n, NEW at, NEW s \in StepId, NEW p, NEW c \in ClaimId,
         NEW secs, CanClaim(m, at, s, p, c), ClaimWrites(m, n, at, s, p, c, secs)
  PROVE  Keeps(m, n)
<1>1. m.status \in [StepId -> StepStatus] /\ m.claims \in [ClaimId -> Claim]
  BY DEF Machine
<1>2. QED
  BY <1>1 DEF Keeps, ClaimWrites, SameReviews, SameMembers, CanClaim

LEMMA ReleaseKeeps ==
  ASSUME NEW m, LeaseInv(m), NEW n, NEW s \in StepId, NEW c \in ActiveOn(m, s),
         ReleaseWrites(m, n, s, c)
  PROVE  Keeps(m, n)
<1>1. m.status \in [StepId -> StepStatus] /\ m.claims \in [ClaimId -> Claim]
  BY DEF LeaseInv, Machine
<1>2. m.status[s] # "RESOLVED" /\ m.claims[c].status = "ACTIVE"
  BY HeldIsBegun
<1>3. QED
  BY <1>1, <1>2 DEF Keeps, ReleaseWrites, SameReviews, SameMembers

LEMMA HandoffKeeps ==
  ASSUME NEW m, LeaseInv(m), NEW n, NEW at, NEW s \in StepId, NEW old \in ActiveOn(m, s),
         NEW q, NEW c \in ClaimId, NEW secs, m.claims[c].status = "NONE",
         HandoffWrites(m, n, at, s, old, q, c, secs)
  PROVE  Keeps(m, n)
<1>1. m.status \in [StepId -> StepStatus] /\ m.claims \in [ClaimId -> Claim]
  BY DEF LeaseInv, Machine
<1>2. m.status[s] # "RESOLVED" /\ m.claims[old].status = "ACTIVE"
  BY HeldIsBegun
<1>3. QED
  BY <1>1, <1>2 DEF Keeps, HandoffWrites, SameReviews, SameMembers

LEMMA AddArtifactKeeps ==
  ASSUME NEW m, LeaseInv(m), NEW n, NEW s \in StepId, NEW c \in ActiveOn(m, s),
         NEW p, NEW a, AddArtifactWrites(m, n, s, p, a)
  PROVE  Keeps(m, n)
<1>1. m.status \in [StepId -> StepStatus] /\ m.status[s] # "RESOLVED"
  BY HeldIsBegun DEF LeaseInv, Machine
<1>2. QED
  BY <1>1 DEF Keeps, AddArtifactWrites, SameReviews, SameMembers

LEMMA OpenDecisionKeeps ==
  ASSUME NEW m \in Machine, NEW n, NEW s, NEW d \in DecisionId, NEW policy, NEW deadline,
         CanOpenDecision(m, s, d), OpenDecisionWrites(m, n, s, d, policy, deadline)
  PROVE  Keeps(m, n)
<1>1. m.decisions \in [DecisionId -> Decision]
  BY DEF Machine
<1>2. QED
  BY <1>1 DEF Keeps, OpenDecisionWrites, SameMembers, CanOpenDecision

LEMMA VoteKeeps ==
  ASSUME NEW m \in Machine, NEW n, NEW d \in DecisionId, NEW v, NEW ballots, NEW verdict,
         m.decisions[d].status = "PENDING", VoteWrites(m, n, d, v, ballots, verdict)
  PROVE  Keeps(m, n)
<1>1. /\ m.decisions \in [DecisionId -> Decision]
      /\ m.votes \in [DecisionId -> [ParticipantId -> Vote]]
  BY DEF Machine
<1>2. QED
  BY <1>1 DEF Keeps, VoteWrites, SameMembers

LEMMA ResolveKeeps ==
  ASSUME NEW m, LeaseInv(m), NEW n, NEW at, NEW s \in StepId,
         m.status[s] \in {"CLAIMED", "IN_REVIEW"}, ResolveWrites(m, n, at, s)
  PROVE  Keeps(m, n)
<1> DEFINE live == LiveOn(m, at, s)
<1>1. /\ m.status \in [StepId -> StepStatus]
      /\ m.claims \in [ClaimId -> Claim] /\ m.sessions \in [SessionId -> SessionStatus]
      /\ m.steps[s].session \in SessionId
  BY DEF LeaseInv, Machine, StepsKnowSession, StepExists
<1>2. live # {} => m.claims[CHOOSE c \in live : TRUE].status = "ACTIVE"
  BY DEF LiveOn
<1>3. /\ n.claims = IF live = {} THEN m.claims
                    ELSE [m.claims EXCEPT ![CHOOSE c \in live : TRUE].status = "RELEASED"]
      /\ n.status = [m.status EXCEPT ![s] = "RESOLVED"]
      /\ \E over \in {"COMPLETED", m.sessions[m.steps[s].session]} :
           n.sessions = [m.sessions EXCEPT ![m.steps[s].session] = over]
      /\ n.decisions = m.decisions /\ n.votes = m.votes
      /\ m.events \subseteq n.events
  BY DEF ResolveWrites, SameReviews
<1> HIDE DEF live
<1>4. QED
  BY <1>1, <1>2, <1>3 DEF Keeps


-----------------------------------------------------------------------------
(* Reviews: a PENDING decision is the one its step points at, a verdict is *)
(* what the votes say, and a RESOLVED step was not resolved past either.   *)
(* ReviewInv strengthens VerdictMatchesVotes, ResolvedIsApproved and       *)
(* LatestDecision: a decision that was never opened has no votes, and the  *)
(* policy that was stored is a normalized one.                             *)

DecisionsKnown(m) ==
  \A d \in DecisionId : m.decisions[d].status # "NONE" =>
    /\ m.decisions[d].step \in StepId
    /\ StepExists(m, m.decisions[d].step)
    /\ m.decisions[d].policy.min >= 1
    /\ m.decisions[d].policy.quorum >= 0
    /\ m.decisions[d].policy.reject >= 0
NoVoteUnopened(m) ==
  \A d \in DecisionId, p \in ParticipantId :
    m.decisions[d].status = "NONE" => m.votes[d][p] = NoVote
LatestKnown(m) ==
  \A s \in StepId : m.latest[s] # None =>
    /\ m.decisions[m.latest[s]].status # "NONE"
    /\ m.decisions[m.latest[s]].step = s
PendingIsLatest(m) ==
  \A d \in DecisionId : m.decisions[d].status = "PENDING" =>
    m.latest[m.decisions[d].step] = d
FlagSaysDecided(m) ==
  \A s \in StepId : m.finalized[s] <=>
    /\ m.latest[s] # None
    /\ m.decisions[m.latest[s]].status # "PENDING"
VerdictsCounted(m) ==
  \A d \in DecisionId : m.decisions[d].status # "NONE" =>
    m.decisions[d].status = Evaluate(m.decisions[d].policy, m.votes[d])
ResolvedPassed(m) ==
  \A s \in StepId : m.status[s] = "RESOLVED" /\ m.latest[s] # None =>
    m.decisions[m.latest[s]].status = "PASSED"

ReviewInv(m) ==
  /\ DecisionsKnown(m) /\ NoVoteUnopened(m) /\ LatestKnown(m) /\ PendingIsLatest(m)
  /\ FlagSaysDecided(m) /\ VerdictsCounted(m) /\ ResolvedPassed(m)

(* A handler that touches no decision and resolves nothing.                *)
LEMMA SameReview ==
  ASSUME NEW m, NEW n, ReviewInv(m), SameReviews(m, n),
         \A s \in StepId : StepExists(m, s) => StepExists(n, s),
         \A s \in StepId : n.status[s] = "RESOLVED" => m.status[s] = "RESOLVED"
  PROVE  ReviewInv(n)
<1>1. DecisionsKnown(n)
  BY DEF ReviewInv, DecisionsKnown, SameReviews
<1>2. NoVoteUnopened(n) /\ LatestKnown(n) /\ PendingIsLatest(n) /\ FlagSaysDecided(n)
  BY DEF ReviewInv, NoVoteUnopened, LatestKnown, PendingIsLatest, FlagSaysDecided, SameReviews
<1>3. VerdictsCounted(n) /\ ResolvedPassed(n)
  BY DEF ReviewInv, VerdictsCounted, ResolvedPassed, SameReviews
<1>4. QED
  BY <1>1, <1>2, <1>3 DEF ReviewInv

LEMMA NormalizedIsNormal ==
  ASSUME NEW policy \in Policy
  PROVE  /\ Normalized(policy) \in Policy
         /\ Normalized(policy).min >= 1 /\ Normalized(policy).quorum >= 0
         /\ Normalized(policy).reject >= 0
         /\ policy.min >= 1 /\ policy.quorum >= 0 /\ policy.reject >= 0 =>
              Normalized(policy) = policy
BY DEF Normalized, Policy

(* Nobody has voted: no policy has been met.                               *)
LEMMA NoVotesNoVerdict ==
  ASSUME NEW policy \in Policy, policy.min >= 1, policy.reject >= 0, NEW ballots,
         \A p \in ParticipantId : ballots[p] = NoVote
  PROVE  Evaluate(policy, ballots) = "PENDING"
<1>1. Voters(ballots) = {}
  BY DEF Voters
<1>2. Count(ballots, "REJECT") = 0 /\ Count(ballots, "APPROVE") = 0
  BY <1>1, FS_EmptySet DEF Count
<1>3. policy.min \in Int /\ policy.reject \in Int
  BY DEF Policy
<1>4. QED
  BY <1>2, <1>3 DEF Evaluate

LEMMA OpenDecisionReview ==
  ASSUME NEW m \in Machine, NEW n, ReviewInv(m), NEW s \in StepId, NEW d \in DecisionId,
         NEW policy \in Policy, NEW deadline,
         CanOpenDecision(m, s, d), OpenDecisionWrites(m, n, s, d, policy, deadline)
  PROVE  ReviewInv(n)
<1> DEFINE new == [status |-> "PENDING", step |-> s, policy |-> Normalized(policy),
                   deadline |-> deadline]
<1>1. /\ m.decisions \in [DecisionId -> Decision]
      /\ m.latest \in [StepId -> DecisionId \cup {None}]
      /\ m.finalized \in [StepId -> BOOLEAN]
  BY DEF Machine
<1>2. /\ n.decisions[d] = new
      /\ \A e \in DecisionId \ {d} : n.decisions[e] = m.decisions[e]
      /\ n.latest[s] = d /\ ~ n.finalized[s]
      /\ \A t \in StepId \ {s} : n.latest[t] = m.latest[t] /\ n.finalized[t] = m.finalized[t]
      /\ n.votes = m.votes /\ n.status = m.status
  BY <1>1 DEF OpenDecisionWrites
<1>3. /\ new.status = "PENDING" /\ new.step = s /\ new.policy = Normalized(policy)
  OBVIOUS
<1> HIDE DEF new
<1>4. /\ m.decisions[d].status = "NONE"
      /\ m.status[s] \in {"CLAIMED", "IN_REVIEW"}
      /\ m.latest[s] # None => m.decisions[m.latest[s]].status # "PENDING"
  BY DEF CanOpenDecision
<1>5. d # None /\ \A t \in StepId : m.latest[t] # d
  BY <1>4, NoneAssumption DEF ReviewInv, LatestKnown
<1>6. \A t \in StepId : StepExists(n, t) <=> StepExists(m, t)
  BY <1>2 DEF StepExists
<1>7. DecisionsKnown(n)
  BY <1>2, <1>3, <1>4, <1>6, NormalizedIsNormal DEF ReviewInv, DecisionsKnown, StepExists
<1>8. NoVoteUnopened(n)
  BY <1>2, <1>3, <1>4 DEF ReviewInv, NoVoteUnopened
<1>9. LatestKnown(n)
  BY <1>1, <1>2, <1>3, <1>5 DEF ReviewInv, LatestKnown
<1>10. PendingIsLatest(n)
  <2> SUFFICES ASSUME NEW e \in DecisionId \ {d}, m.decisions[e].status = "PENDING"
               PROVE  n.latest[m.decisions[e].step] = e
    BY <1>2, <1>3 DEF PendingIsLatest
  <2>1. m.decisions[e].step \in StepId /\ m.latest[m.decisions[e].step] = e
    BY DEF ReviewInv, DecisionsKnown, PendingIsLatest
  <2>2. e # None
    BY NoneAssumption
  <2>3. m.decisions[e].step # s
    BY <1>4, <2>1, <2>2
  <2>4. QED
    BY <1>2, <2>1, <2>3
<1>11. FlagSaysDecided(n)
  BY <1>1, <1>2, <1>3, <1>5 DEF ReviewInv, FlagSaysDecided
<1>12. VerdictsCounted(n)
  <2>1. Evaluate(new.policy, m.votes[d]) = "PENDING"
    <3>1. \A p \in ParticipantId : m.votes[d][p] = NoVote
      BY <1>4 DEF ReviewInv, NoVoteUnopened
    <3>2. QED
      BY <1>3, <3>1, NormalizedIsNormal, NoVotesNoVerdict
  <2>2. QED
    BY <1>2, <1>3, <2>1 DEF ReviewInv, VerdictsCounted
<1>13. ResolvedPassed(n)
  BY <1>1, <1>2, <1>4, <1>5 DEF ReviewInv, ResolvedPassed
<1>14. QED
  BY <1>7, <1>8, <1>9, <1>10, <1>11, <1>12, <1>13 DEF ReviewInv

LEMMA VoteReview ==
  ASSUME NEW m \in Machine, NEW n, ReviewInv(m), NEW d \in DecisionId, NEW v, NEW ballots,
         m.decisions[d].status = "PENDING",
         VoteWrites(m, n, d, v, ballots, Evaluate(Normalized(m.decisions[d].policy), ballots))
  PROVE  ReviewInv(n)
<1> DEFINE verdict == Evaluate(Normalized(m.decisions[d].policy), ballots)
           s == m.decisions[d].step
<1>1. /\ m.decisions \in [DecisionId -> Decision]
      /\ m.votes \in [DecisionId -> [ParticipantId -> Vote]]
      /\ m.finalized \in [StepId -> BOOLEAN]
      /\ m.latest \in [StepId -> DecisionId \cup {None}]
  BY DEF Machine
<1>2. verdict \in {"PENDING", "PASSED", "REJECTED"}
  BY VerdictTyped
<1>3. s \in StepId /\ m.latest[s] = d /\ ~ m.finalized[s] /\ m.status[s] # "RESOLVED"
  BY <1>1, NoneAssumption DEF ReviewInv, DecisionsKnown, PendingIsLatest, FlagSaysDecided,
       ResolvedPassed
<1>4. \A t \in StepId \ {s} : m.latest[t] # d
  BY NoneAssumption DEF ReviewInv, LatestKnown
<1>5. Normalized(m.decisions[d].policy) = m.decisions[d].policy
  BY <1>1, NormalizedIsNormal DEF ReviewInv, DecisionsKnown, Decision
<1>6. verdict = Evaluate(m.decisions[d].policy, ballots)
  BY <1>5
<1> HIDE DEF verdict
<1>7. VoteWrites(m, n, d, v, ballots, verdict)
  BY DEF verdict
<1>8. /\ n.decisions = [m.decisions EXCEPT ![d].status = verdict]
      /\ n.votes = [m.votes EXCEPT ![d] = ballots]
      /\ n.finalized = [m.finalized EXCEPT ![s] = @ \/ verdict # "PENDING"]
      /\ n.latest = m.latest /\ n.status = m.status
  BY <1>7 DEF VoteWrites
<1>9. /\ n.decisions[d].status = verdict /\ n.decisions[d].step = s
      /\ n.decisions[d].policy = m.decisions[d].policy
      /\ \A e \in DecisionId \ {d} : n.decisions[e] = m.decisions[e]
  BY <1>1, <1>8 DEF Decision
<1>10. n.votes[d] = ballots /\ \A e \in DecisionId \ {d} : n.votes[e] = m.votes[e]
  BY <1>1, <1>8
<1>11. /\ n.finalized[s] <=> verdict # "PENDING"
       /\ \A t \in StepId \ {s} : n.finalized[t] = m.finalized[t]
  BY <1>1, <1>3, <1>8
<1> HIDE DEF s
<1>12. \A t \in StepId : StepExists(n, t) <=> StepExists(m, t)
  BY <1>8 DEF StepExists
<1>13. DecisionsKnown(n)
  BY <1>9, <1>12 DEF ReviewInv, DecisionsKnown, s
<1>14. NoVoteUnopened(n)
  BY <1>2, <1>9, <1>10 DEF ReviewInv, NoVoteUnopened
<1>15. LatestKnown(n)
  BY <1>1, <1>2, <1>3, <1>4, <1>8, <1>9 DEF ReviewInv, LatestKnown
<1>16. PendingIsLatest(n)
  BY <1>3, <1>8, <1>9 DEF ReviewInv, PendingIsLatest
<1>17. FlagSaysDecided(n)
  BY <1>1, <1>3, <1>4, <1>8, <1>9, <1>11, NoneAssumption DEF ReviewInv, FlagSaysDecided
<1>18. VerdictsCounted(n)
  BY <1>6, <1>9, <1>10 DEF ReviewInv, VerdictsCounted
<1>19. ResolvedPassed(n)
  BY <1>1, <1>3, <1>4, <1>8, <1>9 DEF ReviewInv, ResolvedPassed
<1>20. QED
  BY <1>13, <1>14, <1>15, <1>16, <1>17, <1>18, <1>19 DEF ReviewInv

LEMMA ResolveReview ==
  ASSUME NEW m \in Machine, NEW n, ReviewInv(m), NEW at, NEW s \in StepId, NEW p,
         CanResolve(m, at, s, p), ResolveWrites(m, n, at, s)
  PROVE  ReviewInv(n)
<1>1. /\ m.status \in [StepId -> StepStatus]
      /\ m.decisions \in [DecisionId -> Decision]
      /\ m.latest \in [StepId -> DecisionId \cup {None}]
  BY DEF Machine
<1>2. SameReviews(m, n) /\ n.status = [m.status EXCEPT ![s] = "RESOLVED"]
  BY DEF ResolveWrites
<1>3. m.latest[s] # None => m.decisions[m.latest[s]].status = "PASSED"
  BY <1>1 DEF CanResolve, ReviewInv, LatestKnown, Decision, DecisionStatus
<1>4. DecisionsKnown(n)
  BY <1>1, <1>2 DEF ReviewInv, DecisionsKnown, SameReviews, StepExists
<1>5. NoVoteUnopened(n) /\ LatestKnown(n) /\ PendingIsLatest(n) /\ FlagSaysDecided(n)
  BY <1>2 DEF ReviewInv, NoVoteUnopened, LatestKnown, PendingIsLatest, FlagSaysDecided,
       SameReviews
<1>6. VerdictsCounted(n)
  BY <1>2 DEF ReviewInv, VerdictsCounted, SameReviews
<1>7. ResolvedPassed(n)
  BY <1>1, <1>2, <1>3 DEF ReviewInv, ResolvedPassed, SameReviews
<1>8. QED
  BY <1>4, <1>5, <1>6, <1>7 DEF ReviewInv

LEMMA EmptyReview == ReviewInv(EmptyMachine)
<1>1. /\ \A d \in DecisionId : EmptyMachine.decisions[d].status = "NONE"
      /\ \A d \in DecisionId, p \in ParticipantId : EmptyMachine.votes[d][p] = NoVote
      /\ \A s \in StepId : EmptyMachine.latest[s] = None /\ EmptyMachine.finalized[s] = FALSE
  BY DEF EmptyMachine, NoDecision
<1>2. QED
  BY <1>1 DEF ReviewInv, DecisionsKnown, NoVoteUnopened, LatestKnown, PendingIsLatest,
       FlagSaysDecided, VerdictsCounted, ResolvedPassed


-----------------------------------------------------------------------------
(* Plans: the steps of a session were all there when it began, with a key  *)
(* each, and are begun in the order of their dependencies.                 *)

Begins == {"CLAIMED", "IN_REVIEW", "RESOLVED"}

SessionsBegin(m) ==
  \A s \in StepId : StepExists(m, s) => m.sessions[m.steps[s].session] # "NONE"
OrderKnown(m) ==
  \A x \in SessionId : \A s \in m.order[x] : StepExists(m, s) /\ m.steps[s].session = x
KeysDiffer(m) ==
  \A s, t \in StepId :
    StepExists(m, s) /\ InSession(m, t, s) /\ m.steps[s].key = m.steps[t].key => s = t
BegunInOrder(m) ==
  \A s \in StepId : m.status[s] \in Begins => DepsResolved(m, s)
IsDone(m, x) ==
  /\ \A s \in m.order[x] : m.status[s] = "RESOLVED"
  /\ Event("SESSION_COMPLETED", x) \in m.events
CompletedDone(m) == \A x \in SessionId : m.sessions[x] = "COMPLETED" => IsDone(m, x)

PlanInv(m) ==
  /\ SessionsBegin(m) /\ OrderKnown(m) /\ KeysDiffer(m) /\ BegunInOrder(m) /\ CompletedDone(m)

(* Every handler but SESSION_CREATE: the plan stays, steps move on.        *)
LEMMA SamePlan ==
  ASSUME NEW m \in Machine, NEW n, PlanInv(m), Keeps(m, n),
         n.steps = m.steps, n.order = m.order,
         \A s \in StepId : StepExists(n, s) <=> StepExists(m, s),
         \A s \in StepId : n.status[s] \in Begins =>
           m.status[s] \in Begins \/ DepsResolved(m, s),
         \A x \in SessionId :
           n.sessions[x] = m.sessions[x] \/ (n.sessions[x] = "COMPLETED" /\ IsDone(n, x)),
         StepsKnowSession(m)
  PROVE  PlanInv(n)
<1>1. \A s, t \in StepId : InSession(n, t, s) <=> InSession(m, t, s)
  BY DEF InSession
<1>2. SessionsBegin(n)
  <2> SUFFICES ASSUME NEW s \in StepId, StepExists(n, s)
               PROVE  n.sessions[m.steps[s].session] # "NONE"
    BY DEF SessionsBegin
  <2>1. StepExists(m, s) /\ m.steps[s].session \in SessionId
    BY DEF StepsKnowSession
  <2>2. QED
    BY <2>1 DEF PlanInv, SessionsBegin
<1>3. m.order \in [SessionId -> SUBSET StepId]
  BY DEF Machine
<1>4. OrderKnown(n)
  BY <1>3 DEF PlanInv, OrderKnown
<1>5. KeysDiffer(n)
  BY <1>1 DEF PlanInv, KeysDiffer
<1>6. \A s \in StepId : DepsResolved(m, s) => DepsResolved(n, s)
  <2> SUFFICES ASSUME NEW s \in StepId, NEW dep \in m.steps[s].deps, DepsResolved(m, s)
               PROVE  \E t \in DepStep(n, s, dep) : n.status[t] = "RESOLVED"
    BY DEF DepsResolved
  <2>1. PICK t \in DepStep(m, s, dep) : m.status[t] = "RESOLVED"
    BY DEF DepsResolved
  <2>2. t \in StepId
    BY <2>1 DEF DepStep
  <2>3. t \in DepStep(n, s, dep)
    BY <1>1, <2>1 DEF DepStep
  <2>4. QED
    BY <2>1, <2>2, <2>3 DEF Keeps
<1>7. BegunInOrder(n)
  BY <1>6 DEF PlanInv, BegunInOrder
<1>8. CompletedDone(n)
  <2> SUFFICES ASSUME NEW x \in SessionId, n.sessions[x] = "COMPLETED",
                      n.sessions[x] = m.sessions[x]
               PROVE  IsDone(n, x)
    BY DEF CompletedDone
  <2>1. IsDone(m, x)
    BY DEF PlanInv, CompletedDone
  <2>2. QED
    BY <1>3, <2>1 DEF IsDone, Keeps
<1>9. QED
  BY <1>2, <1>4, <1>5, <1>7, <1>8 DEF PlanInv

LEMMA ExpirePlan ==
  ASSUME NEW m, NEW at \in Nat, LeaseInv(m), PlanInv(m)
  PROVE  PlanInv(Expire(m, at))
<1> DEFINE n == Expire(m, at)
<1>1. m \in Machine /\ StepsKnowSession(m)
  BY DEF LeaseInv
<1>2. \A s \in StepId : n.status[s] = m.status[s] \/ (m.status[s] = "CLAIMED" /\ n.status[s] = "OPEN")
  BY <1>1, ExpireFields
<1>3. Keeps(m, n)
  BY <1>1, ExpireKeeps
<1>4. n.steps = m.steps /\ n.order = m.order /\ n.sessions = m.sessions
  BY <1>1, ExpireOthers DEF ExpireWrites, SameMembers
<1> HIDE DEF n
<1>5. PlanInv(n)
  BY <1>1, <1>2, <1>3, <1>4, SamePlan DEF StepExists, Begins
<1>6. QED
  BY <1>5 DEF n

(* A session is new when it is created: no step belongs to it yet.         *)
LEMMA CreateSessionPlan ==
  ASSUME NEW m, NEW n, LeaseInv(m), PlanInv(m), NEW plan \in Plan,
         CanCreateSession(m, plan), CreateSessionWrites(m, n, plan), Keeps(m, n)
  PROVE  PlanInv(n)
<1> DEFINE x == plan.session
           written == Written(m, plan.steps)
           ids == {plan.steps[i].id : i \in written}
           draft(s) == plan.steps[CHOOSE i \in written : plan.steps[i].id = s]
<1>1. /\ m.sessions \in [SessionId -> SessionStatus] /\ x \in SessionId
      /\ m.order \in [SessionId -> SUBSET StepId]
      /\ m.sessions[x] = "NONE"
  BY DEF LeaseInv, Machine, Plan, CanCreateSession
<1>0. \A i \in written : plan.steps[i].id \in StepId /\ m.status[plan.steps[i].id] = "NONE"
  BY WrittenIsNew
<1>2. /\ \A s \in StepId \ ids : n.status[s] = m.status[s] /\ n.steps[s] = m.steps[s]
      /\ \A s \in ids : /\ s \in StepId /\ m.status[s] = "NONE" /\ n.status[s] = "OPEN"
                        /\ n.steps[s].session = x
  <2>1. \A s \in ids : s \in StepId /\ m.status[s] = "NONE"
    BY <1>0
  <2>2. \A s \in StepId :
          /\ n.status[s] = IF s \in ids THEN "OPEN" ELSE m.status[s]
          /\ n.steps[s] = IF s \in ids THEN StepFrom(x, draft(s)) ELSE m.steps[s]
    BY DEF CreateSessionWrites
  <2>3. \A s \in ids : StepFrom(x, draft(s)).session = x
    BY DEF StepFrom
  <2> HIDE DEF x, ids, draft
  <2>4. QED
    BY <2>1, <2>2, <2>3
<1>3. \A s \in ids : \E i \in written : plan.steps[i].id = s /\ n.steps[s].key = plan.steps[i].key
  <2> SUFFICES ASSUME NEW s \in ids
               PROVE  \E i \in written : plan.steps[i].id = s /\ n.steps[s].key = plan.steps[i].key
    OBVIOUS
  <2>1. n.steps[s] = StepFrom(x, draft(s))
    BY <1>2 DEF CreateSessionWrites
  <2> DEFINE i == CHOOSE i \in written : plan.steps[i].id = s
  <2>2. i \in written /\ plan.steps[i].id = s
    OBVIOUS
  <2> HIDE DEF i
  <2>3. n.steps[s] = StepFrom(x, plan.steps[i])
    BY <2>1 DEF i
  <2>4. n.steps[s].key = plan.steps[i].key
    BY <2>3 DEF StepFrom
  <2>5. QED
    BY <2>2, <2>4
<1>4. n.sessions = [m.sessions EXCEPT ![x] = "ACTIVE"]
  BY DEF CreateSessionWrites
<1>5. \E order \in {ids, m.order[x]} : n.order = [m.order EXCEPT ![x] = order]
  BY DEF CreateSessionWrites
<1>6. \A s \in StepId : StepExists(m, s) =>
        /\ s \notin ids /\ m.steps[s].session \in SessionId \ {x}
        /\ m.sessions[m.steps[s].session] # "NONE"
  BY <1>1, <1>2 DEF LeaseInv, StepsKnowSession, PlanInv, SessionsBegin, StepExists
<1> HIDE DEF x, ids, written, draft
<1>7. \A s, t \in StepId : StepExists(m, s) => (InSession(n, t, s) <=> InSession(m, t, s))
  BY <1>2, <1>6 DEF InSession, StepExists
<1>8. SessionsBegin(n)
  BY <1>1, <1>2, <1>4, <1>6 DEF SessionsBegin, StepExists
<1>9. m.order[x] = {}
  BY <1>1, <1>6 DEF PlanInv, OrderKnown
<1>10. OrderKnown(n)
  <2> SUFFICES ASSUME NEW y \in SessionId, NEW s \in n.order[y]
               PROVE  StepExists(n, s) /\ n.steps[s].session = y
    BY DEF OrderKnown
  <2>1. CASE y = x
    BY <1>1, <1>2, <1>5, <1>9, <2>1 DEF StepExists
  <2>2. CASE y # x
    <3>1. s \in m.order[y] /\ s \in StepId
      BY <1>1, <1>5, <2>2
    <3>2. StepExists(m, s) /\ m.steps[s].session = y
      BY <3>1 DEF PlanInv, OrderKnown
    <3>3. QED
      BY <1>2, <1>6, <3>1, <3>2 DEF StepExists
  <2>3. QED
    BY <2>1, <2>2
<1>11. KeysDiffer(n)
  <2> SUFFICES ASSUME NEW s \in StepId, NEW t \in StepId, StepExists(n, s), InSession(n, t, s),
                      n.steps[s].key = n.steps[t].key
               PROVE  s = t
    BY DEF KeysDiffer
  <2>1. CASE s \in ids /\ t \in ids
    <3>1. PICK i \in written : plan.steps[i].id = s /\ n.steps[s].key = plan.steps[i].key
      BY <1>3, <2>1
    <3>2. PICK j \in written : plan.steps[j].id = t /\ n.steps[t].key = plan.steps[j].key
      BY <1>3, <2>1
    <3>3. plan.steps[i].key = plan.steps[j].key
      BY <3>1, <3>2
    <3>4. i = j
      BY <3>3, WrittenKeysDiffer DEF written
    <3>5. QED
      BY <3>1, <3>2, <3>4
  <2>2. CASE s \notin ids /\ t \notin ids
    BY <1>2, <1>7, <2>2 DEF PlanInv, KeysDiffer, StepExists
  <2>3. CASE s \in ids /\ t \notin ids
    BY <1>2, <1>6, <2>3 DEF InSession, StepExists
  <2>4. CASE s \notin ids /\ t \in ids
    BY <1>2, <1>6, <2>4 DEF InSession, StepExists
  <2>5. QED
    BY <2>1, <2>2, <2>3, <2>4
<1>12. BegunInOrder(n)
  <2> SUFFICES ASSUME NEW s \in StepId, n.status[s] \in Begins, NEW dep \in n.steps[s].deps
               PROVE  \E t \in DepStep(n, s, dep) : n.status[t] = "RESOLVED"
    BY DEF BegunInOrder, DepsResolved
  <2>1. StepExists(m, s) /\ n.steps[s] = m.steps[s] /\ m.status[s] \in Begins
    BY <1>2 DEF StepExists, Begins
  <2>2. PICK t \in DepStep(m, s, dep) : m.status[t] = "RESOLVED"
    BY <2>1 DEF PlanInv, BegunInOrder, DepsResolved
  <2>3. t \in StepId
    BY <2>2 DEF DepStep
  <2>4. \A u \in StepId : InSession(m, u, s) => n.steps[u] = m.steps[u]
    BY <1>2, <1>6 DEF InSession
  <2>5. t \in DepStep(n, s, dep)
    BY <1>7, <2>1, <2>2, <2>4 DEF DepStep
  <2>6. QED
    BY <2>2, <2>3, <2>5 DEF Keeps
<1>13. CompletedDone(n)
  <2> SUFFICES ASSUME NEW y \in SessionId, n.sessions[y] = "COMPLETED"
               PROVE  IsDone(n, y)
    BY DEF CompletedDone
  <2>1. y # x /\ m.sessions[y] = "COMPLETED"
    BY <1>1, <1>4
  <2>2. n.order[y] = m.order[y] /\ m.order[y] \subseteq StepId
    BY <1>1, <1>5, <2>1
  <2>3. QED
    BY <2>1, <2>2 DEF PlanInv, CompletedDone, IsDone, Keeps
<1>14. QED
  BY <1>8, <1>10, <1>11, <1>12, <1>13 DEF PlanInv

(* The handlers that move a step from one status to another.               *)
LEMMA StepMovesPlan ==
  ASSUME NEW m, NEW n, LeaseInv(m), PlanInv(m), Keeps(m, n), SameMembers(m, n),
         NEW s \in StepId, NEW to, to # "NONE", StepExists(m, s),
         n.status = [m.status EXCEPT ![s] = to],
         to \in Begins => m.status[s] \in Begins \/ DepsResolved(m, s)
  PROVE  PlanInv(n)
<1>1. m \in Machine /\ StepsKnowSession(m) /\ m.status \in [StepId -> StepStatus]
  BY DEF LeaseInv, Machine
<1>2. \A t \in StepId : StepExists(n, t) <=> StepExists(m, t)
  BY <1>1 DEF StepExists
<1>3. \A t \in StepId : n.status[t] \in Begins => m.status[t] \in Begins \/ DepsResolved(m, t)
  BY <1>1
<1>4. n.steps = m.steps /\ n.order = m.order /\ n.sessions = m.sessions
  BY DEF SameMembers
<1>5. QED
  BY <1>1, <1>2, <1>3, <1>4, SamePlan

LEMMA ResolvePlan ==
  ASSUME NEW m, NEW n, LeaseInv(m), PlanInv(m), Keeps(m, n), NEW at, NEW s \in StepId,
         m.status[s] \in {"CLAIMED", "IN_REVIEW"}, ResolveWrites(m, n, at, s)
  PROVE  PlanInv(n)
<1> DEFINE x == m.steps[s].session
<1>1. /\ m \in Machine /\ StepsKnowSession(m) /\ m.status \in [StepId -> StepStatus]
      /\ m.sessions \in [SessionId -> SessionStatus]
      /\ m.order \in [SessionId -> SUBSET StepId]
  BY DEF LeaseInv, Machine
<1>2. /\ n.status = [m.status EXCEPT ![s] = "RESOLVED"]
      /\ n.steps = m.steps /\ n.order = m.order
      /\ n.sessions = [m.sessions EXCEPT ![x] = IF Completes(m, s) THEN "COMPLETED" ELSE @]
      /\ Completes(m, s) => Event("SESSION_COMPLETED", x) \in n.events
  BY DEF ResolveWrites
<1>3. \A t \in StepId : StepExists(n, t) <=> StepExists(m, t)
  BY <1>1, <1>2 DEF StepExists
<1>4. \A t \in StepId : n.status[t] \in Begins => m.status[t] \in Begins
  BY <1>1, <1>2 DEF Begins
<1>5. Completes(m, s) => IsDone(n, x)
  <2> SUFFICES ASSUME Completes(m, s), NEW t \in m.order[x]
               PROVE  n.status[t] = "RESOLVED"
    BY <1>2 DEF IsDone
  <2>1. StepExists(m, t)
    BY <1>1 DEF StepsKnowSession, PlanInv, OrderKnown, StepExists
  <2>2. QED
    BY <1>2, <2>1 DEF Completes
<1> HIDE DEF x
<1>6. \A y \in SessionId :
        n.sessions[y] = m.sessions[y] \/ (n.sessions[y] = "COMPLETED" /\ IsDone(n, y))
  BY <1>1, <1>2, <1>5
<1>7. QED
  BY <1>1, <1>2, <1>3, <1>4, <1>6, SamePlan

LEMMA EmptyPlan == PlanInv(EmptyMachine)
<1>1. /\ \A s \in StepId : EmptyMachine.status[s] = "NONE"
      /\ \A x \in SessionId : EmptyMachine.order[x] = {} /\ EmptyMachine.sessions[x] = "NONE"
  BY DEF EmptyMachine
<1>2. QED
  BY <1>1 DEF PlanInv, SessionsBegin, OrderKnown, KeysDiffer, BegunInOrder, CompletedDone,
       StepExists, Begins


-----------------------------------------------------------------------------
(* Actors: who holds a claim, voted or produced something belongs to the   *)
(* session of the step.  A claim that was never made names no step.        *)

ClaimantsKnown(m) ==
  \A c \in ClaimId :
    /\ m.claims[c].status = "NONE" => m.claims[c].step = None
    /\ m.claims[c].status # "NONE" =>
         /\ m.claims[c].step \in StepId /\ StepExists(m, m.claims[c].step)
         /\ m.claims[c].holder \in ParticipantId
         /\ SameSession(m, m.claims[c].holder, m.claims[c].step)
VotersKnown(m) ==
  \A d \in DecisionId, p \in ParticipantId : m.votes[d][p] # NoVote =>
    SameSession(m, p, m.decisions[d].step)
ProducersKnown(m) ==
  \A s \in StepId : \A i \in DOMAIN m.artifacts[s] :
    StepExists(m, s) /\ SameSession(m, m.artifacts[s][i].producer, s)

ActorInv(m) == ClaimantsKnown(m) /\ VotersKnown(m) /\ ProducersKnown(m)

(* Nobody leaves a session, no step does.                                  *)
Stays(m, n) ==
  /\ \A p \in ParticipantId : ParticipantExists(m, p) =>
       n.participants[p].session = m.participants[p].session
  /\ \A s \in StepId : StepExists(m, s) =>
       StepExists(n, s) /\ n.steps[s].session = m.steps[s].session

LEMMA StaysTogether ==
  ASSUME NEW m, NEW n, Stays(m, n), NEW p \in ParticipantId, NEW s \in StepId,
         StepExists(m, s), SameSession(m, p, s)
  PROVE  SameSession(n, p, s)
BY DEF Stays, SameSession, ParticipantExists

LEMMA SameClaimants ==
  ASSUME NEW m, NEW n, ClaimantsKnown(m), Stays(m, n),
         \A c \in ClaimId :
           \/ /\ n.claims[c].status = "NONE" <=> m.claims[c].status = "NONE"
              /\ n.claims[c].step = m.claims[c].step
              /\ n.claims[c].holder = m.claims[c].holder
           \/ /\ n.claims[c].status # "NONE"
              /\ n.claims[c].step \in StepId /\ StepExists(m, n.claims[c].step)
              /\ n.claims[c].holder \in ParticipantId
              /\ SameSession(m, n.claims[c].holder, n.claims[c].step)
  PROVE  ClaimantsKnown(n)
<1> SUFFICES ASSUME NEW c \in ClaimId
             PROVE  /\ n.claims[c].status = "NONE" => n.claims[c].step = None
                    /\ n.claims[c].status # "NONE" =>
                         /\ n.claims[c].step \in StepId /\ StepExists(n, n.claims[c].step)
                         /\ n.claims[c].holder \in ParticipantId
                         /\ SameSession(n, n.claims[c].holder, n.claims[c].step)
  BY DEF ClaimantsKnown
<1>1. n.claims[c].status = "NONE" => n.claims[c].step = None
  BY DEF ClaimantsKnown
<1>2. ASSUME n.claims[c].status # "NONE"
      PROVE  /\ n.claims[c].step \in StepId /\ StepExists(m, n.claims[c].step)
             /\ n.claims[c].holder \in ParticipantId
             /\ SameSession(m, n.claims[c].holder, n.claims[c].step)
  BY <1>2 DEF ClaimantsKnown
<1>3. QED
  BY <1>1, <1>2, StaysTogether DEF Stays

LEMMA SameVoters ==
  ASSUME NEW m, NEW n, VotersKnown(m), ReviewInv(m), Stays(m, n),
         \A d \in DecisionId : m.decisions[d].status # "NONE" =>
           n.decisions[d].step = m.decisions[d].step,
         \A d \in DecisionId, p \in ParticipantId : n.votes[d][p] # NoVote =>
           \/ m.votes[d][p] # NoVote
           \/ /\ m.decisions[d].status # "NONE"
              /\ SameSession(m, p, m.decisions[d].step)
  PROVE  VotersKnown(n)
<1> SUFFICES ASSUME NEW d \in DecisionId, NEW p \in ParticipantId, n.votes[d][p] # NoVote
             PROVE  SameSession(n, p, n.decisions[d].step)
  BY DEF VotersKnown
<1>1. m.decisions[d].status # "NONE" /\ SameSession(m, p, m.decisions[d].step)
  BY DEF VotersKnown, ReviewInv, NoVoteUnopened
<1>2. m.decisions[d].step \in StepId /\ StepExists(m, m.decisions[d].step)
  BY <1>1 DEF ReviewInv, DecisionsKnown
<1>3. QED
  BY <1>1, <1>2, StaysTogether

LEMMA SameProducers ==
  ASSUME NEW m \in Machine, NEW n, ProducersKnown(m), Stays(m, n), n.artifacts = m.artifacts
  PROVE  ProducersKnown(n)
<1> SUFFICES ASSUME NEW s \in StepId, NEW i \in DOMAIN m.artifacts[s]
             PROVE  StepExists(n, s) /\ SameSession(n, m.artifacts[s][i].producer, s)
  BY DEF ProducersKnown
<1>1. m.artifacts[s][i] \in Artifact
  <2>1. m.artifacts[s] \in Seq(Artifact)
    BY DEF Machine
  <2>2. QED
    BY <2>1
<1>2. m.artifacts[s][i].producer \in ParticipantId
  BY <1>1 DEF Artifact
<1>3. StepExists(m, s) /\ SameSession(m, m.artifacts[s][i].producer, s)
  BY DEF ProducersKnown
<1>4. QED
  BY <1>2, <1>3, StaysTogether DEF Stays

(* A handler that makes no claim, counts no vote and stores no artifact.   *)
LEMMA SameActors ==
  ASSUME NEW m \in Machine, NEW n, ActorInv(m), ReviewInv(m), Stays(m, n),
         \A c \in ClaimId :
           /\ n.claims[c].status = "NONE" <=> m.claims[c].status = "NONE"
           /\ n.claims[c].step = m.claims[c].step
           /\ n.claims[c].holder = m.claims[c].holder,
         n.decisions = m.decisions, n.votes = m.votes, n.artifacts = m.artifacts
  PROVE  ActorInv(n)
<1>1. ClaimantsKnown(n)
  BY SameClaimants DEF ActorInv
<1>2. VotersKnown(n)
  BY SameVoters DEF ActorInv
<1>3. ProducersKnown(n)
  BY SameProducers DEF ActorInv
<1>4. QED
  BY <1>1, <1>2, <1>3 DEF ActorInv

LEMMA SameMembersStay ==
  ASSUME NEW m, NEW n, SameMembers(m, n),
         \A s \in StepId : StepExists(m, s) => StepExists(n, s)
  PROVE  Stays(m, n)
BY DEF SameMembers, Stays

LEMMA ExpireActors ==
  ASSUME NEW m \in Machine, NEW at \in Nat, ActorInv(m), ReviewInv(m)
  PROVE  ActorInv(Expire(m, at))
<1> DEFINE n == Expire(m, at)
<1>1. /\ \A c \in ClaimId :
           /\ n.claims[c].status = "NONE" <=> m.claims[c].status = "NONE"
           /\ n.claims[c].step = m.claims[c].step
           /\ n.claims[c].holder = m.claims[c].holder
      /\ \A s \in StepId : StepExists(m, s) => StepExists(n, s)
  BY ExpireFields DEF Lapsed, StepExists
<1>2. ExpireWrites(m, n, at)
  BY ExpireOthers
<1> HIDE DEF n
<1>3. n.decisions = m.decisions /\ n.votes = m.votes /\ n.artifacts = m.artifacts
  BY <1>2 DEF ExpireWrites, SameReviews
<1>4. Stays(m, n)
  BY <1>1, <1>2, SameMembersStay DEF ExpireWrites
<1>5. ActorInv(n)
  BY <1>1, <1>3, <1>4, SameActors
<1>6. QED
  BY <1>5 DEF n

LEMMA CreateSessionActors ==
  ASSUME NEW m \in Machine, NEW n, ActorInv(m), ReviewInv(m), NEW plan \in Plan,
         CreateSessionWrites(m, n, plan)
  PROVE  ActorInv(n)
<1>1. \A i \in Written(m, plan.steps) : m.status[plan.steps[i].id] = "NONE"
  BY WrittenIsNew
<1>2. \A s \in StepId : StepExists(m, s) =>
        n.status[s] = m.status[s] /\ n.steps[s] = m.steps[s]
  BY <1>1 DEF CreateSessionWrites, StepExists
<1>3. /\ n.participants = m.participants /\ n.claims = m.claims
      /\ n.decisions = m.decisions /\ n.votes = m.votes /\ n.artifacts = m.artifacts
  BY DEF CreateSessionWrites, SameReviews
<1>4. Stays(m, n)
  BY <1>2, <1>3 DEF Stays, StepExists
<1>5. QED
  BY <1>3, <1>4, SameActors

(* A participant that joins again keeps its session.                       *)
LEMMA JoinActors ==
  ASSUME NEW m \in Machine, NEW n, ActorInv(m), ReviewInv(m), NEW x \in SessionId,
         NEW r \in Ref, NEW p \in ParticipantId, NEW caps,
         CanJoin(m, x, r, p), JoinWrites(m, n, x, r, p, caps)
  PROVE  ActorInv(n)
<1> DEFINE known == m.byRef[Fold[x]][r]
<1>1. m.participants \in [ParticipantId -> Participant]
  BY DEF Machine
<1>2. /\ n.status = m.status /\ n.steps = m.steps /\ n.claims = m.claims
      /\ n.decisions = m.decisions /\ n.votes = m.votes /\ n.artifacts = m.artifacts
      /\ n.participants =
           IF known # None THEN [m.participants EXCEPT ![known].caps = caps]
           ELSE [m.participants EXCEPT ![p] = [session |-> x, caps |-> caps]]
      /\ known = None => ~ ParticipantExists(m, p)
  BY DEF JoinWrites, SameReviews, CanJoin
<1> HIDE DEF known
<1>3. \A q \in ParticipantId : ParticipantExists(m, q) =>
        n.participants[q].session = m.participants[q].session
  BY <1>1, <1>2 DEF ParticipantExists, Participant
<1>4. Stays(m, n)
  BY <1>2, <1>3 DEF Stays, StepExists
<1>5. QED
  BY <1>2, <1>4, SameActors

LEMMA ClaimActors ==
  ASSUME NEW m \in Machine, NEW n, ActorInv(m), ReviewInv(m), NEW at, NEW s \in StepId,
         NEW p \in ParticipantId, NEW c \in ClaimId, NEW secs,
         CanClaim(m, at, s, p, c), ClaimWrites(m, n, at, s, p, c, secs)
  PROVE  ActorInv(n)
<1>1. m.claims \in [ClaimId -> Claim] /\ m.status \in [StepId -> StepStatus]
  BY DEF Machine
<1>2. /\ n.claims = [m.claims EXCEPT ![c] = NewClaim(m, at, s, p, secs)]
      /\ n.status = [m.status EXCEPT ![s] = "CLAIMED"]
      /\ SameMembers(m, n) /\ n.artifacts = m.artifacts
      /\ n.decisions = m.decisions /\ n.votes = m.votes
  BY DEF ClaimWrites, SameReviews
<1>3. /\ NewClaim(m, at, s, p, secs).status = "ACTIVE"
      /\ NewClaim(m, at, s, p, secs).step = s
      /\ NewClaim(m, at, s, p, secs).holder = p
  BY DEF NewClaim
<1>4. Stays(m, n)
  BY <1>1, <1>2, SameMembersStay DEF StepExists
<1>5. ClaimantsKnown(n)
  BY <1>1, <1>2, <1>3, <1>4, SameClaimants DEF ActorInv, CanClaim
<1>6. VotersKnown(n)
  BY <1>2, <1>4, SameVoters DEF ActorInv
<1>7. ProducersKnown(n)
  BY <1>2, <1>4, SameProducers DEF ActorInv
<1>8. QED
  BY <1>5, <1>6, <1>7 DEF ActorInv

LEMMA ReleaseActors ==
  ASSUME NEW m \in Machine, NEW n, ActorInv(m), ReviewInv(m), NEW s \in StepId,
         NEW c \in ActiveOn(m, s), ReleaseWrites(m, n, s, c)
  PROVE  ActorInv(n)
<1>1. m.claims \in [ClaimId -> Claim] /\ m.status \in [StepId -> StepStatus]
  BY DEF Machine
<1>2. /\ n.claims = [m.claims EXCEPT ![c].status = "RELEASED"]
      /\ n.status = [m.status EXCEPT ![s] = "OPEN"]
      /\ SameMembers(m, n) /\ n.artifacts = m.artifacts
      /\ n.decisions = m.decisions /\ n.votes = m.votes
  BY DEF ReleaseWrites, SameReviews
<1>3. c \in ClaimId /\ m.claims[c].status = "ACTIVE"
  BY DEF ActiveOn
<1>4. Stays(m, n)
  BY <1>1, <1>2, SameMembersStay DEF StepExists
<1>5. \A e \in ClaimId :
        /\ n.claims[e].status = "NONE" <=> m.claims[e].status = "NONE"
        /\ n.claims[e].step = m.claims[e].step
        /\ n.claims[e].holder = m.claims[e].holder
  BY <1>1, <1>2, <1>3 DEF Claim
<1>6. QED
  BY <1>2, <1>4, <1>5, SameActors

LEMMA HandoffActors ==
  ASSUME NEW m \in Machine, NEW n, ActorInv(m), ReviewInv(m), NEW at, NEW s \in StepId,
         NEW p, NEW q \in ParticipantId, NEW old \in ActiveOn(m, s), NEW c \in ClaimId,
         NEW secs, CanHandoff(m, at, s, p, q, c),
         HandoffWrites(m, n, at, s, old, q, c, secs)
  PROVE  ActorInv(n)
<1> DEFINE new == NewClaim(m, at, s, q, secs)
<1>1. m.claims \in [ClaimId -> Claim] /\ m.status \in [StepId -> StepStatus]
  BY DEF Machine
<1>2. /\ n.claims = [m.claims EXCEPT ![old].status = "RELEASED", ![c] = new]
      /\ n.status = [m.status EXCEPT ![s] = "CLAIMED"]
      /\ SameMembers(m, n) /\ n.artifacts = m.artifacts
      /\ n.decisions = m.decisions /\ n.votes = m.votes
  BY DEF HandoffWrites, SameReviews
<1>3. new.status = "ACTIVE" /\ new.step = s /\ new.holder = q
  BY DEF NewClaim
<1>4. old \in ClaimId /\ m.claims[old].status = "ACTIVE"
  BY DEF ActiveOn
<1>5. Stays(m, n)
  BY <1>1, <1>2, SameMembersStay DEF StepExists
<1> HIDE DEF new
<1>6. /\ n.claims[c] = new
      /\ \A e \in ClaimId \ {c} :
           /\ n.claims[e].status = "NONE" <=> m.claims[e].status = "NONE"
           /\ n.claims[e].step = m.claims[e].step
           /\ n.claims[e].holder = m.claims[e].holder
  BY <1>1, <1>2, <1>4 DEF Claim
<1>7. ClaimantsKnown(n)
  BY <1>3, <1>5, <1>6, SameClaimants DEF ActorInv, CanHandoff
<1>8. VotersKnown(n)
  BY <1>2, <1>5, SameVoters DEF ActorInv
<1>9. ProducersKnown(n)
  BY <1>2, <1>5, SameProducers DEF ActorInv
<1>10. QED
  BY <1>7, <1>8, <1>9 DEF ActorInv

LEMMA AddArtifactActors ==
  ASSUME NEW m \in Machine, NEW n, ActorInv(m), ReviewInv(m), NEW at, NEW s \in StepId,
         NEW p \in ParticipantId, NEW a \in ArtifactId,
         CanAddArtifact(m, at, s, p, a), AddArtifactWrites(m, n, s, p, a)
  PROVE  ActorInv(n)
<1>1. /\ m.status \in [StepId -> StepStatus] /\ m.artifacts \in [StepId -> Seq(Artifact)]
  BY DEF Machine
<1>2. /\ n.artifacts = [m.artifacts EXCEPT ![s] = Append(@, [id |-> a, producer |-> p])]
      /\ n.status = [m.status EXCEPT ![s] = "IN_REVIEW"]
      /\ SameMembers(m, n) /\ n.claims = m.claims
      /\ n.decisions = m.decisions /\ n.votes = m.votes
  BY DEF AddArtifactWrites, SameReviews
<1>3. Stays(m, n)
  <2>1. \A t \in StepId : StepExists(m, t) => StepExists(n, t)
    BY <1>1, <1>2 DEF StepExists
  <2>2. QED
    BY <1>2, <2>1, SameMembersStay
<1>4. ClaimantsKnown(n)
  BY <1>2, <1>3, SameClaimants DEF ActorInv
<1>5. VotersKnown(n)
  BY <1>2, <1>3, SameVoters DEF ActorInv
<1>6. ProducersKnown(n)
  <2> SUFFICES ASSUME NEW t \in StepId, NEW i \in DOMAIN n.artifacts[t]
               PROVE  StepExists(n, t) /\ SameSession(n, n.artifacts[t][i].producer, t)
    BY DEF ProducersKnown
  <2>1. m.artifacts[t] \in Seq(Artifact)
    BY <1>1
  <2>2. ASSUME i \in DOMAIN m.artifacts[t], n.artifacts[t][i] = m.artifacts[t][i]
        PROVE  StepExists(n, t) /\ SameSession(n, n.artifacts[t][i].producer, t)
    <3>1. m.artifacts[t][i].producer \in ParticipantId
      <4>1. m.artifacts[t][i] \in Artifact
        BY <2>1, <2>2
      <4>2. QED
        BY <4>1 DEF Artifact
    <3>2. StepExists(m, t) /\ SameSession(m, m.artifacts[t][i].producer, t)
      BY <2>2 DEF ActorInv, ProducersKnown
    <3>3. QED
      BY <1>3, <2>2, <3>1, <3>2, StaysTogether DEF Stays
  <2>3. ASSUME t = s, n.artifacts[t][i].producer = p
        PROVE  StepExists(n, t) /\ SameSession(n, n.artifacts[t][i].producer, t)
    BY <1>3, <2>3, StaysTogether DEF CanAddArtifact, Stays
  <2>4. CASE t # s
    BY <1>1, <1>2, <2>2, <2>4
  <2>5. CASE t = s
    <3> DEFINE art == [id |-> a, producer |-> p]
    <3>1. art \in Artifact /\ art.producer = p
      BY DEF Artifact
    <3> HIDE DEF art
    <3>2. n.artifacts[t] = Append(m.artifacts[t], art)
      BY <1>1, <1>2, <2>5 DEF art
    <3>3. \/ i \in DOMAIN m.artifacts[t] /\ n.artifacts[t][i] = m.artifacts[t][i]
          \/ n.artifacts[t][i] = art
      BY <2>1, <3>1, <3>2
    <3>4. QED
      BY <2>2, <2>3, <2>5, <3>1, <3>3
  <2>6. QED
    BY <2>4, <2>5
<1>7. QED
  BY <1>4, <1>5, <1>6 DEF ActorInv

LEMMA OpenDecisionActors ==
  ASSUME NEW m \in Machine, NEW n, ActorInv(m), ReviewInv(m), NEW s \in StepId,
         NEW d \in DecisionId, NEW policy, NEW deadline,
         CanOpenDecision(m, s, d), OpenDecisionWrites(m, n, s, d, policy, deadline)
  PROVE  ActorInv(n)
<1>1. m.decisions \in [DecisionId -> Decision]
  BY DEF Machine
<1>2. /\ SameMembers(m, n) /\ n.claims = m.claims /\ n.artifacts = m.artifacts
      /\ n.status = m.status /\ n.votes = m.votes
      /\ \A e \in DecisionId \ {d} : n.decisions[e] = m.decisions[e]
  BY <1>1 DEF OpenDecisionWrites
<1>3. Stays(m, n)
  BY <1>2, SameMembersStay DEF StepExists
<1>4. ClaimantsKnown(n)
  BY <1>2, <1>3, SameClaimants DEF ActorInv
<1>5. VotersKnown(n)
  BY <1>2, <1>3, SameVoters DEF ActorInv, CanOpenDecision
<1>6. ProducersKnown(n)
  BY <1>2, <1>3, SameProducers DEF ActorInv
<1>7. QED
  BY <1>4, <1>5, <1>6 DEF ActorInv

LEMMA VoteActors ==
  ASSUME NEW m \in Machine, NEW n, ActorInv(m), ReviewInv(m), NEW at, NEW d \in DecisionId,
         NEW p \in ParticipantId, NEW v, NEW vote, NEW verdict, CanVote(m, at, d, p, v),
         VoteWrites(m, n, d, v, [m.votes[d] EXCEPT ![p] = vote], verdict)
  PROVE  ActorInv(n)
<1>1. /\ m.decisions \in [DecisionId -> Decision]
      /\ m.votes \in [DecisionId -> [ParticipantId -> Vote]]
  BY DEF Machine
<1>2. /\ SameMembers(m, n) /\ n.claims = m.claims /\ n.artifacts = m.artifacts
      /\ n.status = m.status
      /\ n.votes = [m.votes EXCEPT ![d] = [m.votes[d] EXCEPT ![p] = vote]]
      /\ n.decisions = [m.decisions EXCEPT ![d].status = verdict]
  BY DEF VoteWrites
<1>3. \A e \in DecisionId : n.decisions[e].step = m.decisions[e].step
  BY <1>1, <1>2 DEF Decision
<1>4. Stays(m, n)
  BY <1>2, SameMembersStay DEF StepExists
<1>5. ClaimantsKnown(n)
  BY <1>2, <1>4, SameClaimants DEF ActorInv
<1>6. VotersKnown(n)
  <2>1. \A e \in DecisionId, q \in ParticipantId : n.votes[e][q] # NoVote =>
          \/ m.votes[e][q] # NoVote
          \/ /\ m.decisions[e].status # "NONE"
             /\ SameSession(m, q, m.decisions[e].step)
    BY <1>1, <1>2 DEF CanVote
  <2>2. QED
    BY <1>3, <1>4, <2>1, SameVoters DEF ActorInv
<1>7. ProducersKnown(n)
  BY <1>2, <1>4, SameProducers DEF ActorInv
<1>8. QED
  BY <1>5, <1>6, <1>7 DEF ActorInv

LEMMA ResolveActors ==
  ASSUME NEW m \in Machine, NEW n, ActorInv(m), ReviewInv(m), NEW at, NEW s \in StepId,
         ResolveWrites(m, n, at, s)
  PROVE  ActorInv(n)
<1> DEFINE live == LiveOn(m, at, s)
           c == CHOOSE c \in live : TRUE
<1>1. m.claims \in [ClaimId -> Claim] /\ m.status \in [StepId -> StepStatus]
  BY DEF Machine
<1>2. /\ n.claims = IF live = {} THEN m.claims ELSE [m.claims EXCEPT ![c].status = "RELEASED"]
      /\ n.status = [m.status EXCEPT ![s] = "RESOLVED"]
      /\ n.steps = m.steps /\ n.participants = m.participants
      /\ n.artifacts = m.artifacts /\ n.decisions = m.decisions /\ n.votes = m.votes
  BY DEF ResolveWrites, SameReviews
<1>3. live # {} => c \in ClaimId /\ m.claims[c].status = "ACTIVE"
  BY DEF LiveOn
<1> HIDE DEF live, c
<1>4. Stays(m, n)
  BY <1>1, <1>2 DEF Stays, StepExists
<1>5. \A e \in ClaimId :
        /\ n.claims[e].status = "NONE" <=> m.claims[e].status = "NONE"
        /\ n.claims[e].step = m.claims[e].step
        /\ n.claims[e].holder = m.claims[e].holder
  BY <1>1, <1>2, <1>3 DEF Claim
<1>6. QED
  BY <1>2, <1>4, <1>5, SameActors

LEMMA EmptyActors == ActorInv(EmptyMachine)
<1>1. /\ \A c \in ClaimId : EmptyMachine.claims[c] = NoClaim
      /\ \A d \in DecisionId, p \in ParticipantId : EmptyMachine.votes[d][p] = NoVote
      /\ \A s \in StepId : EmptyMachine.artifacts[s] = <<>>
  BY DEF EmptyMachine
<1>2. NoClaim.status = "NONE" /\ NoClaim.step = None
  BY DEF NoClaim
<1>3. QED
  BY <1>1, <1>2 DEF ActorInv, ClaimantsKnown, VotersKnown, ProducersKnown


-----------------------------------------------------------------------------
(* The event log tells the fate of every claim.                            *)

BeginningsLogged(m) ==
  \A c \in ClaimId : m.claims[c].status # "NONE" =>
    Event("STEP_CLAIM", c) \in m.events \/ Event("STEP_HANDOFF", c) \in m.events
ExpiriesLogged(m) ==
  \A c \in ClaimId : m.claims[c].status = "EXPIRED" <=> Event("CLAIM_EXPIRED", c) \in m.events
ReleaseLogged(m, s) ==
  \/ Event("STEP_RELEASE", s) \in m.events
  \/ Event("STEP_RESOLVE", s) \in m.events
  \/ \E e \in ClaimId : m.claims[e].step = s /\ Event("STEP_HANDOFF", e) \in m.events
ReleasesLogged(m) ==
  \A c \in ClaimId : m.claims[c].status = "RELEASED" => ReleaseLogged(m, m.claims[c].step)

FateInv(m) == BeginningsLogged(m) /\ ExpiriesLogged(m) /\ ReleasesLogged(m)

(* The log and the claims' steps only grow: what was logged stays logged.  *)
ClaimsKeepSteps(m, n) ==
  \A c \in ClaimId : n.claims[c].step = m.claims[c].step \/ m.claims[c].step = None

LEMMA StillLogged ==
  ASSUME NEW m, NEW n, m.events \subseteq n.events, ClaimsKeepSteps(m, n),
         NEW s \in StepId, ReleaseLogged(m, s)
  PROVE  ReleaseLogged(n, s)
<1>1. s # None
  BY NoneAssumption
<1>2. QED
  BY <1>1 DEF ReleaseLogged, ClaimsKeepSteps

(* A handler's entry: its claims begin with it, end with it or stay.       *)
LEMMA LogStep ==
  ASSUME NEW m, NEW n, FateInv(m), ActorInv(m), ClaimsKeepSteps(m, n),
         m.events \subseteq n.events,
         \A c \in ClaimId :
           (Event("CLAIM_EXPIRED", c) \in n.events) <=>
             (Event("CLAIM_EXPIRED", c) \in m.events \/
              (m.claims[c].status # "EXPIRED" /\ n.claims[c].status = "EXPIRED")),
         \A c \in ClaimId : m.claims[c].status = "EXPIRED" => n.claims[c].status = "EXPIRED",
         \A c \in ClaimId : n.claims[c].status # "NONE" =>
           \/ m.claims[c].status # "NONE"
           \/ Event("STEP_CLAIM", c) \in n.events \/ Event("STEP_HANDOFF", c) \in n.events,
         \A c \in ClaimId : n.claims[c].status = "RELEASED" =>
           \/ m.claims[c].status = "RELEASED" /\ n.claims[c].step = m.claims[c].step
           \/ ReleaseLogged(n, n.claims[c].step)
  PROVE  FateInv(n)
<1>1. BeginningsLogged(n)
  BY DEF FateInv, BeginningsLogged
<1>2. ExpiriesLogged(n)
  BY DEF FateInv, ExpiriesLogged
<1>3. ReleasesLogged(n)
  <2> SUFFICES ASSUME NEW c \in ClaimId, m.claims[c].status = "RELEASED"
               PROVE  ReleaseLogged(n, m.claims[c].step)
    BY DEF ReleasesLogged
  <2>1. m.claims[c].step \in StepId
    BY DEF ActorInv, ClaimantsKnown
  <2>2. ReleaseLogged(m, m.claims[c].step)
    BY DEF FateInv, ReleasesLogged
  <2>3. QED
    BY <2>1, <2>2, StillLogged
<1>4. QED
  BY <1>1, <1>2, <1>3 DEF FateInv

(* A handler that logs something else and changes no claim.                *)
LEMMA SameLog ==
  ASSUME NEW m, NEW n, FateInv(m), ActorInv(m), n.claims = m.claims, NEW log,
         n.events = m.events \cup log, \A c \in ClaimId : Event("CLAIM_EXPIRED", c) \notin log
  PROVE  FateInv(n)
<1>1. ClaimsKeepSteps(m, n)
  BY DEF ClaimsKeepSteps
<1>2. QED
  BY <1>1, LogStep

LEMMA ExpireLog ==
  ASSUME NEW m \in Machine, NEW at \in Nat, FateInv(m), ActorInv(m)
  PROVE  FateInv(Expire(m, at))
<1> DEFINE n == Expire(m, at)
           log == {Event("CLAIM_EXPIRED", c) : c \in Lapsed(m, at)}
<1>1. \A c \in ClaimId :
        /\ n.claims[c].status = IF c \in Lapsed(m, at) THEN "EXPIRED" ELSE m.claims[c].status
        /\ n.claims[c].step = m.claims[c].step
  BY ExpireFields
<1>2. n.events = m.events \cup log
  BY ExpireOthers DEF ExpireWrites
<1>3. \A c \in ClaimId : Event("CLAIM_EXPIRED", c) \in log <=> c \in Lapsed(m, at)
  BY DEF Event
<1>4. \A c \in ClaimId : c \in Lapsed(m, at) <=>
        (m.claims[c].status # "EXPIRED" /\ n.claims[c].status = "EXPIRED")
  BY <1>1 DEF Lapsed
<1> HIDE DEF n, log
<1>5. ClaimsKeepSteps(m, n)
  BY <1>1 DEF ClaimsKeepSteps
<1>6. m.events \subseteq n.events
  BY <1>2
<1>7. \A c \in ClaimId :
        (Event("CLAIM_EXPIRED", c) \in n.events) <=>
          (Event("CLAIM_EXPIRED", c) \in m.events \/
           (m.claims[c].status # "EXPIRED" /\ n.claims[c].status = "EXPIRED"))
  BY <1>2, <1>3, <1>4
<1>8. \A c \in ClaimId :
        /\ m.claims[c].status = "EXPIRED" => n.claims[c].status = "EXPIRED"
        /\ n.claims[c].status # "NONE" => m.claims[c].status # "NONE"
        /\ n.claims[c].status = "RELEASED" => m.claims[c].status = "RELEASED"
  BY <1>1 DEF Lapsed
<1>9. FateInv(n)
  BY <1>1, <1>5, <1>6, <1>7, <1>8, LogStep
<1>10. QED
  BY <1>9 DEF n

LEMMA CreateSessionLog ==
  ASSUME NEW m, NEW n, FateInv(m), ActorInv(m), NEW plan, CreateSessionWrites(m, n, plan)
  PROVE  FateInv(n)
<1> DEFINE log == IF CreatesAll(m, plan) THEN {Event("SESSION_CREATE", plan.session)} ELSE {}
<1>1. n.claims = m.claims /\ n.events = m.events \cup log
  BY DEF CreateSessionWrites
<1>2. \A c \in ClaimId : Event("CLAIM_EXPIRED", c) \notin log
  BY DEF Event
<1> HIDE DEF log
<1>3. QED
  BY <1>1, <1>2, SameLog

LEMMA JoinLog ==
  ASSUME NEW m, NEW n, FateInv(m), ActorInv(m), NEW x, NEW r, NEW p, NEW caps,
         JoinWrites(m, n, x, r, p, caps)
  PROVE  FateInv(n)
<1>1. PICK e \in {Event("PARTICIPANT_TOUCH", m.byRef[Fold[x]][r]), Event("PARTICIPANT_JOIN", p)} :
        n.events = m.events \cup {e}
  BY DEF JoinWrites
<1>2. n.claims = m.claims
  BY DEF JoinWrites
<1>3. \A c \in ClaimId : Event("CLAIM_EXPIRED", c) \notin {e}
  BY DEF Event
<1>4. QED
  BY <1>1, <1>2, <1>3, SameLog

LEMMA ClaimLog ==
  ASSUME NEW m \in Machine, NEW n, FateInv(m), ActorInv(m), NEW at, NEW s \in StepId, NEW p,
         NEW c \in ClaimId, NEW secs,
         CanClaim(m, at, s, p, c), ClaimWrites(m, n, at, s, p, c, secs)
  PROVE  FateInv(n)
<1>1. m.claims \in [ClaimId -> Claim]
  BY DEF Machine
<1>2. /\ n.claims = [m.claims EXCEPT ![c] = NewClaim(m, at, s, p, secs)]
      /\ n.events = m.events \cup {Event("STEP_CLAIM", c)}
      /\ m.claims[c].status = "NONE"
  BY DEF ClaimWrites, CanClaim
<1>3. NewClaim(m, at, s, p, secs).status = "ACTIVE"
  BY DEF NewClaim
<1>4. m.claims[c].step = None
  BY <1>2 DEF ActorInv, ClaimantsKnown
<1>5. ClaimsKeepSteps(m, n)
  BY <1>1, <1>2, <1>4 DEF ClaimsKeepSteps
<1>6. \A e \in ClaimId : Event("CLAIM_EXPIRED", e) # Event("STEP_CLAIM", c)
  BY DEF Event
<1>7. n.claims[c].status = "ACTIVE" /\ \A e \in ClaimId \ {c} : n.claims[e] = m.claims[e]
  BY <1>1, <1>2, <1>3
<1>8. QED
  BY <1>2, <1>5, <1>6, <1>7, LogStep

LEMMA ReleaseLog ==
  ASSUME NEW m \in Machine, NEW n, FateInv(m), ActorInv(m), NEW s \in StepId,
         NEW c \in ActiveOn(m, s), ReleaseWrites(m, n, s, c)
  PROVE  FateInv(n)
<1>1. m.claims \in [ClaimId -> Claim]
  BY DEF Machine
<1>2. /\ n.claims = [m.claims EXCEPT ![c].status = "RELEASED"]
      /\ n.events = m.events \cup {Event("STEP_RELEASE", s)}
      /\ c \in ClaimId /\ m.claims[c].status = "ACTIVE" /\ m.claims[c].step = s
  BY DEF ReleaseWrites, ActiveOn
<1>3. /\ n.claims[c].status = "RELEASED" /\ n.claims[c].step = s
      /\ \A e \in ClaimId \ {c} : n.claims[e] = m.claims[e]
  BY <1>1, <1>2 DEF Claim
<1>4. ClaimsKeepSteps(m, n)
  BY <1>2, <1>3 DEF ClaimsKeepSteps
<1>5. \A e \in ClaimId : Event("CLAIM_EXPIRED", e) # Event("STEP_RELEASE", s)
  BY DEF Event
<1>6. ReleaseLogged(n, s)
  BY <1>2 DEF ReleaseLogged
<1>7. QED
  BY <1>2, <1>3, <1>4, <1>5, <1>6, LogStep

LEMMA HandoffLog ==
  ASSUME NEW m \in Machine, NEW n, FateInv(m), ActorInv(m), NEW at, NEW s \in StepId, NEW p,
         NEW q, NEW old \in ActiveOn(m, s), NEW c \in ClaimId, NEW secs,
         CanHandoff(m, at, s, p, q, c), HandoffWrites(m, n, at, s, old, q, c, secs)
  PROVE  FateInv(n)
<1> DEFINE new == NewClaim(m, at, s, q, secs)
<1>1. m.claims \in [ClaimId -> Claim]
  BY DEF Machine
<1>2. /\ n.claims = [m.claims EXCEPT ![old].status = "RELEASED", ![c] = new]
      /\ n.events = m.events \cup {Event("STEP_HANDOFF", c)}
      /\ old \in ClaimId /\ m.claims[old].status = "ACTIVE" /\ m.claims[old].step = s
      /\ m.claims[c].status = "NONE"
  BY DEF HandoffWrites, ActiveOn, CanHandoff
<1>3. new.status = "ACTIVE" /\ new.step = s
  BY DEF NewClaim
<1> HIDE DEF new
<1>4. /\ n.claims[old].status = "RELEASED" /\ n.claims[old].step = s
      /\ n.claims[c].status = "ACTIVE" /\ n.claims[c].step = s
      /\ \A e \in ClaimId \ {old, c} : n.claims[e] = m.claims[e]
  BY <1>1, <1>2, <1>3 DEF Claim
<1>5. m.claims[c].step = None
  BY <1>2 DEF ActorInv, ClaimantsKnown
<1>6. ClaimsKeepSteps(m, n)
  BY <1>2, <1>4, <1>5 DEF ClaimsKeepSteps
<1>7. \A e \in ClaimId : Event("CLAIM_EXPIRED", e) # Event("STEP_HANDOFF", c)
  BY DEF Event
<1>8. ReleaseLogged(n, s)
  BY <1>2, <1>4 DEF ReleaseLogged
<1>9. QED
  BY <1>2, <1>4, <1>6, <1>7, <1>8, LogStep

LEMMA AddArtifactLog ==
  ASSUME NEW m, NEW n, FateInv(m), ActorInv(m), NEW s, NEW p, NEW a,
         AddArtifactWrites(m, n, s, p, a)
  PROVE  FateInv(n)
<1>1. n.claims = m.claims /\ n.events = m.events \cup {Event("ARTIFACT_ADD", a)}
  BY DEF AddArtifactWrites
<1>2. \A c \in ClaimId : Event("CLAIM_EXPIRED", c) \notin {Event("ARTIFACT_ADD", a)}
  BY DEF Event
<1>3. QED
  BY <1>1, <1>2, SameLog

LEMMA OpenDecisionLog ==
  ASSUME NEW m, NEW n, FateInv(m), ActorInv(m), NEW s, NEW d, NEW policy, NEW deadline,
         OpenDecisionWrites(m, n, s, d, policy, deadline)
  PROVE  FateInv(n)
<1>1. n.claims = m.claims /\ n.events = m.events \cup {Event("DECISION_OPEN", d)}
  BY DEF OpenDecisionWrites
<1>2. \A c \in ClaimId : Event("CLAIM_EXPIRED", c) \notin {Event("DECISION_OPEN", d)}
  BY DEF Event
<1>3. QED
  BY <1>1, <1>2, SameLog

LEMMA VoteLog ==
  ASSUME NEW m, NEW n, FateInv(m), ActorInv(m), NEW d, NEW v, NEW ballots, NEW verdict,
         VoteWrites(m, n, d, v, ballots, verdict)
  PROVE  FateInv(n)
<1>1. n.claims = m.claims /\ n.events = m.events \cup {Event("VOTE_CAST", v)}
  BY DEF VoteWrites
<1>2. \A c \in ClaimId : Event("CLAIM_EXPIRED", c) \notin {Event("VOTE_CAST", v)}
  BY DEF Event
<1>3. QED
  BY <1>1, <1>2, SameLog

LEMMA ResolveLog ==
  ASSUME NEW m \in Machine, NEW n, FateInv(m), ActorInv(m), NEW at, NEW s \in StepId,
         ResolveWrites(m, n, at, s)
  PROVE  FateInv(n)
<1> DEFINE live == LiveOn(m, at, s)
           c == CHOOSE c \in live : TRUE
           log == {Event("STEP_RESOLVE", s)} \cup
                    (IF Completes(m, s) THEN {Event("SESSION_COMPLETED", m.steps[s].session)}
                     ELSE {})
<1>1. m.claims \in [ClaimId -> Claim]
  BY DEF Machine
<1>2. /\ n.claims = IF live = {} THEN m.claims ELSE [m.claims EXCEPT ![c].status = "RELEASED"]
      /\ n.events = m.events \cup log
  BY DEF ResolveWrites
<1>3. live # {} => c \in ClaimId /\ m.claims[c].status = "ACTIVE" /\ m.claims[c].step = s
  BY DEF LiveOn
<1>4. \A e \in ClaimId : Event("CLAIM_EXPIRED", e) \notin log
  BY DEF Event
<1>5. Event("STEP_RESOLVE", s) \in log
  OBVIOUS
<1> HIDE DEF live, c, log
<1>6. \A e \in ClaimId :
        /\ n.claims[e].step = m.claims[e].step
        /\ \/ n.claims[e].status = m.claims[e].status
           \/ /\ n.claims[e].status = "RELEASED" /\ n.claims[e].step = s
              /\ m.claims[e].status = "ACTIVE"
  BY <1>1, <1>2, <1>3 DEF Claim
<1>7. ClaimsKeepSteps(m, n)
  BY <1>6 DEF ClaimsKeepSteps
<1>8. ReleaseLogged(n, s)
  BY <1>2, <1>5 DEF ReleaseLogged
<1>9. QED
  BY <1>2, <1>4, <1>6, <1>7, <1>8, LogStep

LEMMA EmptyLog == FateInv(EmptyMachine)
<1>1. /\ \A c \in ClaimId : EmptyMachine.claims[c].status = "NONE"
      /\ EmptyMachine.events = {}
  BY DEF EmptyMachine, NoClaim
<1>2. QED
  BY <1>1 DEF FateInv, BeginningsLogged, ExpiriesLogged, ReleasesLogged

-----------------------------------------------------------------------------
(* All of it, handler by handler: the books of a machine stay in order and *)
(* what is over stays over.                                                *)

BooksInv(m) == ReviewInv(m) /\ PlanInv(m) /\ ActorInv(m) /\ FateInv(m)

LEMMA ExpireBooks ==
  ASSUME NEW m, NEW at \in Nat, LeaseInv(m), BooksInv(m)
  PROVE  BooksInv(Expire(m, at)) /\ Keeps(m, Expire(m, at))
<1> DEFINE n == Expire(m, at)
<1>1. m \in Machine
  BY DEF LeaseInv
<1>2. ReviewInv(n)
  <2>1. \A s \in StepId :
          /\ StepExists(m, s) => StepExists(n, s)
          /\ n.status[s] = "RESOLVED" => m.status[s] = "RESOLVED"
    BY <1>1, ExpireFields DEF StepExists
  <2>2. SameReviews(m, n)
    BY <1>1, ExpireOthers DEF ExpireWrites
  <2> HIDE DEF n
  <2>3. QED
    BY <2>1, <2>2, SameReview DEF BooksInv
<1>3. PlanInv(n)
  BY ExpirePlan DEF BooksInv
<1>4. ActorInv(n)
  BY <1>1, ExpireActors DEF BooksInv
<1>5. FateInv(n)
  BY <1>1, ExpireLog DEF BooksInv
<1>6. Keeps(m, n)
  BY <1>1, ExpireKeeps
<1>7. QED
  BY <1>2, <1>3, <1>4, <1>5, <1>6 DEF BooksInv

LEMMA CreateSessionBooks ==
  ASSUME NEW m, LeaseInv(m), BooksInv(m), NEW plan \in Plan, CanCreateSession(m, plan)
  PROVE  /\ BooksInv(DoCreateSession(m, plan))
         /\ Keeps(m, DoCreateSession(m, plan))
<1> DEFINE n == DoCreateSession(m, plan)
<1>1. m \in Machine
  BY DEF LeaseInv
<1>2. CreateSessionWrites(m, n, plan)
  BY <1>1, CreateSessionFields
<1> HIDE DEF n
<1>3. Keeps(m, n)
  BY <1>1, <1>2, CreateSessionKeeps
<1>4. ReviewInv(n)
  <2>1. \A s \in StepId :
          /\ StepExists(m, s) => StepExists(n, s)
          /\ n.status[s] = "RESOLVED" => m.status[s] = "RESOLVED"
    BY <1>2 DEF CreateSessionWrites, StepExists
  <2>2. SameReviews(m, n)
    BY <1>2 DEF CreateSessionWrites
  <2>3. QED
    BY <2>1, <2>2, SameReview DEF BooksInv
<1>5. PlanInv(n)
  BY <1>2, <1>3, CreateSessionPlan DEF BooksInv
<1>6. ActorInv(n)
  BY <1>1, <1>2, CreateSessionActors DEF BooksInv
<1>7. FateInv(n)
  BY <1>2, CreateSessionLog DEF BooksInv
<1>8. QED
  BY <1>3, <1>4, <1>5, <1>6, <1>7 DEF BooksInv, n

(* The handlers that leave every step's status alone.                      *)
LEMMA SameStatusPlan ==
  ASSUME NEW m, NEW n, LeaseInv(m), PlanInv(m), Keeps(m, n), n.status = m.status,
         n.steps = m.steps, n.order = m.order, n.sessions = m.sessions
  PROVE  PlanInv(n)
<1>1. m \in Machine /\ StepsKnowSession(m)
  BY DEF LeaseInv
<1>2. \A s \in StepId : StepExists(n, s) <=> StepExists(m, s)
  BY DEF StepExists
<1>3. QED
  BY <1>1, <1>2, SamePlan

LEMMA JoinBooks ==
  ASSUME NEW m, LeaseInv(m), BooksInv(m), NEW x \in SessionId, NEW r \in Ref,
         NEW p \in ParticipantId, NEW caps \in SUBSET Capability, CanJoin(m, x, r, p)
  PROVE  /\ BooksInv(DoJoin(m, x, r, p, caps))
         /\ Keeps(m, DoJoin(m, x, r, p, caps))
<1> DEFINE n == DoJoin(m, x, r, p, caps)
<1>1. m \in Machine
  BY DEF LeaseInv
<1>2. JoinWrites(m, n, x, r, p, caps)
  BY <1>1, JoinFields
<1> HIDE DEF n
<1>3. Keeps(m, n)
  BY <1>1, <1>2, JoinKeeps
<1>4. /\ SameReviews(m, n) /\ n.status = m.status
      /\ n.steps = m.steps /\ n.order = m.order /\ n.sessions = m.sessions
  BY <1>2 DEF JoinWrites
<1>5. ReviewInv(n)
  BY <1>4, SameReview DEF StepExists, BooksInv
<1>6. PlanInv(n)
  BY <1>3, <1>4, SameStatusPlan DEF BooksInv
<1>7. ActorInv(n)
  BY <1>1, <1>2, JoinActors DEF BooksInv
<1>8. FateInv(n)
  BY <1>2, JoinLog DEF BooksInv
<1>9. QED
  BY <1>3, <1>5, <1>6, <1>7, <1>8 DEF BooksInv, n

(* The handlers that move one step to a status and touch no decision.      *)
LEMMA StepMovesReview ==
  ASSUME NEW m \in Machine, NEW n, ReviewInv(m), SameReviews(m, n), NEW s \in StepId,
         NEW to, to \notin {"NONE", "RESOLVED"}, n.status = [m.status EXCEPT ![s] = to]
  PROVE  ReviewInv(n)
<1>1. m.status \in [StepId -> StepStatus]
  BY DEF Machine
<1>2. \A t \in StepId : /\ StepExists(m, t) => StepExists(n, t)
                        /\ n.status[t] = "RESOLVED" => m.status[t] = "RESOLVED"
  BY <1>1 DEF StepExists
<1>3. QED
  BY <1>2, SameReview

LEMMA ClaimBooks ==
  ASSUME NEW m, LeaseInv(m), BooksInv(m), NEW at, NEW s \in StepId,
         NEW p \in ParticipantId, NEW c \in ClaimId, NEW secs, CanClaim(m, at, s, p, c)
  PROVE  /\ BooksInv(DoClaim(m, at, s, p, c, secs))
         /\ Keeps(m, DoClaim(m, at, s, p, c, secs))
<1> DEFINE n == DoClaim(m, at, s, p, c, secs)
<1>1. m \in Machine
  BY DEF LeaseInv
<1>2. ClaimWrites(m, n, at, s, p, c, secs)
  BY <1>1, ClaimFields
<1> HIDE DEF n
<1>3. Keeps(m, n)
  BY <1>1, <1>2, ClaimKeeps
<1>4. /\ SameReviews(m, n) /\ SameMembers(m, n)
      /\ n.status = [m.status EXCEPT ![s] = "CLAIMED"]
  BY <1>2 DEF ClaimWrites
<1>5. ReviewInv(n)
  BY <1>1, <1>4, StepMovesReview DEF BooksInv
<1>6. StepExists(m, s) /\ DepsResolved(m, s)
  BY DEF CanClaim
<1>7. PlanInv(n)
  BY <1>3, <1>4, <1>6, StepMovesPlan DEF BooksInv
<1>8. ActorInv(n)
  BY <1>1, <1>2, ClaimActors DEF BooksInv
<1>9. FateInv(n)
  BY <1>1, <1>2, ClaimLog DEF BooksInv
<1>10. QED
  BY <1>3, <1>5, <1>7, <1>8, <1>9 DEF BooksInv, n

LEMMA ReleaseBooks ==
  ASSUME NEW m, LeaseInv(m), BooksInv(m), NEW at, NEW s \in StepId,
         NEW p \in ParticipantId, CanRelease(m, at, s, p)
  PROVE  /\ BooksInv(DoRelease(m, at, s, p))
         /\ Keeps(m, DoRelease(m, at, s, p))
<1> DEFINE n == DoRelease(m, at, s, p)
<1>1. m \in Machine
  BY DEF LeaseInv
<1>2. PICK c \in LiveFor(m, at, s, p) : ReleaseWrites(m, n, s, c)
  BY <1>1, ReleaseFields
<1>c. c \in ActiveOn(m, s)
  BY LiveIsActive
<1> HIDE DEF n
<1>3. Keeps(m, n)
  BY <1>2, <1>c, ReleaseKeeps
<1>4. /\ SameReviews(m, n) /\ SameMembers(m, n)
      /\ n.status = [m.status EXCEPT ![s] = "OPEN"]
  BY <1>2 DEF ReleaseWrites
<1>5. ReviewInv(n)
  BY <1>1, <1>4, StepMovesReview DEF BooksInv
<1>6. PlanInv(n)
  BY <1>3, <1>4, StepMovesPlan DEF BooksInv, CanRelease, Begins
<1>7. ActorInv(n)
  BY <1>1, <1>2, <1>c, ReleaseActors DEF BooksInv
<1>8. FateInv(n)
  BY <1>1, <1>2, <1>c, ReleaseLog DEF BooksInv
<1>9. QED
  BY <1>3, <1>5, <1>6, <1>7, <1>8 DEF BooksInv, n

LEMMA HandoffBooks ==
  ASSUME NEW m, LeaseInv(m), BooksInv(m), NEW at, NEW s \in StepId,
         NEW p \in ParticipantId, NEW q \in ParticipantId, NEW c \in ClaimId, NEW secs,
         CanHandoff(m, at, s, p, q, c)
  PROVE  /\ BooksInv(DoHandoff(m, at, s, p, q, c, secs))
         /\ Keeps(m, DoHandoff(m, at, s, p, q, c, secs))
<1> DEFINE n == DoHandoff(m, at, s, p, q, c, secs)
<1>1. m \in Machine
  BY DEF LeaseInv
<1>2. PICK old \in LiveFor(m, at, s, p) : HandoffWrites(m, n, at, s, old, q, c, secs)
  BY <1>1, HandoffFields
<1>c. old \in ActiveOn(m, s) /\ m.claims[c].status = "NONE" /\ StepExists(m, s)
  BY LiveIsActive DEF CanHandoff
<1> HIDE DEF n
<1>3. Keeps(m, n)
  BY <1>2, <1>c, HandoffKeeps
<1>4. /\ SameReviews(m, n) /\ SameMembers(m, n)
      /\ n.status = [m.status EXCEPT ![s] = "CLAIMED"]
  BY <1>2 DEF HandoffWrites
<1>5. ReviewInv(n)
  BY <1>1, <1>4, StepMovesReview DEF BooksInv
<1>6. m.status[s] \in Begins
  BY <1>c, HeldIsBegun DEF Begins
<1>7. PlanInv(n)
  BY <1>3, <1>4, <1>6, <1>c, StepMovesPlan DEF BooksInv
<1>8. ActorInv(n)
  BY <1>1, <1>2, <1>c, HandoffActors DEF BooksInv
<1>9. FateInv(n)
  BY <1>1, <1>2, <1>c, HandoffLog DEF BooksInv
<1>10. QED
  BY <1>3, <1>5, <1>7, <1>8, <1>9 DEF BooksInv, n

LEMMA AddArtifactBooks ==
  ASSUME NEW m, LeaseInv(m), BooksInv(m), NEW at, NEW s \in StepId,
         NEW p \in ParticipantId, NEW a \in ArtifactId, CanAddArtifact(m, at, s, p, a)
  PROVE  /\ BooksInv(DoAddArtifact(m, s, p, a))
         /\ Keeps(m, DoAddArtifact(m, s, p, a))
<1> DEFINE n == DoAddArtifact(m, s, p, a)
<1>1. m \in Machine
  BY DEF LeaseInv
<1>2. AddArtifactWrites(m, n, s, p, a)
  BY <1>1, AddArtifactFields
<1>c. PICK c \in ActiveOn(m, s) : TRUE
  BY LiveIsActive DEF CanAddArtifact
<1> HIDE DEF n
<1>3. Keeps(m, n)
  BY <1>2, <1>c, AddArtifactKeeps
<1>4. /\ SameReviews(m, n) /\ SameMembers(m, n)
      /\ n.status = [m.status EXCEPT ![s] = "IN_REVIEW"]
  BY <1>2 DEF AddArtifactWrites
<1>5. ReviewInv(n)
  BY <1>1, <1>4, StepMovesReview DEF BooksInv
<1>6. m.status[s] \in Begins /\ StepExists(m, s)
  BY <1>c, HeldIsBegun DEF Begins, CanAddArtifact
<1>7. PlanInv(n)
  BY <1>3, <1>4, <1>6, StepMovesPlan DEF BooksInv
<1>8. ActorInv(n)
  BY <1>1, <1>2, AddArtifactActors DEF BooksInv
<1>9. FateInv(n)
  BY <1>2, AddArtifactLog DEF BooksInv
<1>10. QED
  BY <1>3, <1>5, <1>7, <1>8, <1>9 DEF BooksInv, n

LEMMA OpenDecisionBooks ==
  ASSUME NEW m, LeaseInv(m), BooksInv(m), NEW s \in StepId, NEW d \in DecisionId,
         NEW policy \in Policy, NEW deadline, CanOpenDecision(m, s, d)
  PROVE  /\ BooksInv(DoOpenDecision(m, s, d, policy, deadline))
         /\ Keeps(m, DoOpenDecision(m, s, d, policy, deadline))
<1> DEFINE n == DoOpenDecision(m, s, d, policy, deadline)
<1>1. m \in Machine
  BY DEF LeaseInv
<1>2. OpenDecisionWrites(m, n, s, d, policy, deadline)
  BY <1>1, OpenDecisionFields
<1> HIDE DEF n
<1>3. Keeps(m, n)
  BY <1>1, <1>2, OpenDecisionKeeps
<1>4. ReviewInv(n)
  BY <1>1, <1>2, OpenDecisionReview DEF BooksInv
<1>5. PlanInv(n)
  BY <1>2, <1>3, SameStatusPlan DEF BooksInv, OpenDecisionWrites, SameMembers
<1>6. ActorInv(n)
  BY <1>1, <1>2, OpenDecisionActors DEF BooksInv
<1>7. FateInv(n)
  BY <1>2, OpenDecisionLog DEF BooksInv
<1>8. QED
  BY <1>3, <1>4, <1>5, <1>6, <1>7 DEF BooksInv, n

LEMMA VoteBooks ==
  ASSUME NEW m, LeaseInv(m), BooksInv(m), NEW at, NEW d \in DecisionId,
         NEW p \in ParticipantId, NEW v, NEW choice, CanVote(m, at, d, p, v)
  PROVE  /\ BooksInv(DoVote(m, d, p, v, choice))
         /\ Keeps(m, DoVote(m, d, p, v, choice))
<1> DEFINE n == DoVote(m, d, p, v, choice)
           vote == [id |-> v, choice |-> choice]
           ballots == [m.votes[d] EXCEPT ![p] = vote]
           verdict == Evaluate(Normalized(m.decisions[d].policy), ballots)
<1>1. m \in Machine /\ m.decisions[d].status = "PENDING"
  BY DEF LeaseInv, CanVote
<1>2. VoteWrites(m, n, d, v, ballots, verdict)
  BY <1>1, VoteFields
<1> HIDE DEF n, vote
<1>4. ReviewInv(n)
  BY <1>1, <1>2, VoteReview DEF BooksInv
<1> HIDE DEF verdict
<1>6. ActorInv(n)
  BY <1>1, <1>2, VoteActors DEF BooksInv
<1> HIDE DEF ballots
<1>3. Keeps(m, n)
  BY <1>1, <1>2, VoteKeeps
<1>5. PlanInv(n)
  BY <1>2, <1>3, SameStatusPlan DEF BooksInv, VoteWrites, SameMembers
<1>7. FateInv(n)
  BY <1>2, VoteLog DEF BooksInv
<1>8. QED
  BY <1>3, <1>4, <1>5, <1>6, <1>7 DEF BooksInv, n

LEMMA ResolveBooks ==
  ASSUME NEW m, LeaseInv(m), BooksInv(m), NEW at, NEW s \in StepId, NEW p,
         CanResolve(m, at, s, p)
  PROVE  /\ BooksInv(DoResolve(m, at, s))
         /\ Keeps(m, DoResolve(m, at, s))
<1> DEFINE n == DoResolve(m, at, s)
<1>1. m \in Machine /\ m.status[s] \in {"CLAIMED", "IN_REVIEW"}
  BY DEF LeaseInv, CanResolve
<1>2. ResolveWrites(m, n, at, s)
  BY <1>1, ResolveFields
<1> HIDE DEF n
<1>3. Keeps(m, n)
  BY <1>1, <1>2, ResolveKeeps
<1>4. ReviewInv(n)
  BY <1>1, <1>2, ResolveReview DEF BooksInv
<1>5. PlanInv(n)
  BY <1>1, <1>2, <1>3, ResolvePlan DEF BooksInv
<1>6. ActorInv(n)
  BY <1>1, <1>2, ResolveActors DEF BooksInv
<1>7. FateInv(n)
  BY <1>1, <1>2, ResolveLog DEF BooksInv
<1>8. QED
  BY <1>3, <1>4, <1>5, <1>6, <1>7 DEF BooksInv, n

LEMMA EmptyBooks == BooksInv(EmptyMachine)
BY EmptyReview, EmptyPlan, EmptyActors, EmptyLog DEF BooksInv

-----------------------------------------------------------------------------
(* The machine: what every transaction does to it.                         *)

(* Every handler, on the machine its transaction expired.                  *)
LEMMA ApplyLease ==
  ASSUME NEW m, LeaseInv(m), NEW at \in Time, NoneLapsed(m, at), Apply(m, at)
  PROVE  LeaseInv(machine')
<1>0. m \in Machine
  BY DEF LeaseInv
<1>1. CASE Rejected(m)
  BY <1>1 DEF Rejected
<1>2. CASE SessionCreate(m)
  BY <1>2, CreateSessionLease, PlansAssumption DEF SessionCreate
<1>3. CASE ParticipantJoin(m)
  BY <1>3, JoinLease DEF ParticipantJoin
<1>4. CASE StepClaim(m, at)
  BY <1>4, ClaimLease, TimeAssumption, LeasesAssumption DEF StepClaim
<1>5. CASE StepRelease(m, at)
  BY <1>5, ReleaseLease, TimeAssumption DEF StepRelease
<1>6. CASE StepHandoff(m, at)
  BY <1>6, HandoffLease, TimeAssumption, LeasesAssumption DEF StepHandoff
<1>7. CASE ArtifactAdd(m, at)
  BY <1>7, AddArtifactLease, TimeAssumption DEF ArtifactAdd
<1>8. CASE DecisionOpen(m)
  BY <1>8, OpenDecisionLease, PoliciesAssumption, DeadlinesAssumption DEF DecisionOpen
<1>9. CASE VoteCast(m, at)
  BY <1>9, VoteLease DEF VoteCast
<1>10. CASE StepResolve(m, at)
  <2>1. PICK s \in StepId, p \in ParticipantId \cup {None} :
          CanResolve(m, at, s, p) /\ machine' = DoResolve(m, at, s)
    BY <1>10 DEF StepResolve
  <2>2. QED
    BY <2>1, ResolveLease, TimeAssumption DEF CanResolve
<1>11. QED
  BY <1>1, <1>2, <1>3, <1>4, <1>5, <1>6, <1>7, <1>8, <1>9, <1>10 DEF Apply

(* A transaction of any timestamp: Expire, then its handler.               *)
LEMMA NextLease == LeaseInv(machine) /\ [Next]_machine => LeaseInv(machine)'
<1> SUFFICES ASSUME LeaseInv(machine), [Next]_machine PROVE LeaseInv(machine')
  BY DEF LeaseInv, StepsKnowSession, OneActive, ActiveNamesStep, ClaimedIsHeld,
         IdleIsFree, ActiveOn, StepExists
<1>1. CASE Next
  <2>1. PICK at \in Time : Apply(Expire(machine, at), at)
    BY <1>1 DEF Next
  <2>2. LeaseInv(Expire(machine, at)) /\ NoneLapsed(Expire(machine, at), at)
    BY ExpireLease, TimeAssumption
  <2>3. QED
    BY <2>1, <2>2, ApplyLease
<1>2. CASE UNCHANGED machine
  BY <1>2
<1>3. QED
  BY <1>1, <1>2

(* The claim table and the step table agree in every reachable machine.    *)
THEOREM LeaseSafety == Spec => []LeaseInv(machine)
<1>1. Init => LeaseInv(machine)
  BY EmptyLease DEF Init
<1>2. QED
  BY <1>1, NextLease, PTL DEF Spec

(* Snapshots stay well-formed under every sequence of transactions.        *)
THEOREM TypeCorrect == Spec => []TypeOK
<1>1. LeaseInv(machine) => TypeOK
  BY DEF LeaseInv, TypeOK
<1>2. QED
  BY <1>1, LeaseSafety, PTL

(* No two ACTIVE claims of one step, whatever clocks the clients have.     *)
THEOREM ClaimsExclusive == Spec => []OneActiveClaim
<1>1. LeaseInv(machine) => OneActiveClaim
  BY DEF LeaseInv, OneActive, ActiveNamesStep, ActiveOn, OneActiveClaim, Active
<1>2. QED
  BY <1>1, LeaseSafety, PTL

(* The status of every step agrees with the claim table.                   *)
THEOREM StatusAgreesWithClaims == Spec => []StatusMatchesClaims
<1>1. LeaseInv(machine) => StatusMatchesClaims
  BY DEF LeaseInv, ClaimedIsHeld, IdleIsFree, ActiveOn, StatusMatchesClaims,
         ClaimsOf, Active
<1>2. QED
  BY <1>1, LeaseSafety, PTL

(* Claims and steps agree in every reachable machine.                      *)
THEOREM ClaimsAgreeWithSteps == Spec => []ClaimsAgree
<1>1. OneActiveClaim /\ StatusMatchesClaims => ClaimsAgree
  BY DEF ClaimsAgree
<1>2. QED
  BY <1>1, ClaimsExclusive, StatusAgreesWithClaims, PTL

-----------------------------------------------------------------------------
(* The books: BooksInv is inductive beside LeaseInv.                       *)

LEMMA ApplyBooks ==
  ASSUME NEW m, LeaseInv(m), BooksInv(m), NEW at \in Time, Apply(m, at)
  PROVE  BooksInv(machine') /\ Keeps(m, machine')
<1>1. CASE Rejected(m)
  BY <1>1, KeepsReflexive DEF Rejected
<1>2. CASE SessionCreate(m)
  BY <1>2, CreateSessionBooks, PlansAssumption DEF SessionCreate
<1>3. CASE ParticipantJoin(m)
  BY <1>3, JoinBooks DEF ParticipantJoin
<1>4. CASE StepClaim(m, at)
  BY <1>4, ClaimBooks DEF StepClaim
<1>5. CASE StepRelease(m, at)
  BY <1>5, ReleaseBooks DEF StepRelease
<1>6. CASE StepHandoff(m, at)
  BY <1>6, HandoffBooks DEF StepHandoff
<1>7. CASE ArtifactAdd(m, at)
  BY <1>7, AddArtifactBooks DEF ArtifactAdd
<1>8. CASE DecisionOpen(m)
  BY <1>8, OpenDecisionBooks, PoliciesAssumption DEF DecisionOpen
<1>9. CASE VoteCast(m, at)
  BY <1>9, VoteBooks DEF VoteCast
<1>10. CASE StepResolve(m, at)
  BY <1>10, ResolveBooks DEF StepResolve
<1>11. QED
  BY <1>1, <1>2, <1>3, <1>4, <1>5, <1>6, <1>7, <1>8, <1>9, <1>10 DEF Apply

MachineInv == LeaseInv(machine) /\ BooksInv(machine)

(* A transaction of any timestamp, from a machine in order.                *)
LEMMA NextBooks ==
  ASSUME MachineInv, Next
  PROVE  LeaseInv(machine') /\ BooksInv(machine') /\ Keeps(machine, machine')
<1>1. PICK at \in Time : Apply(Expire(machine, at), at)
  BY DEF Next
<1> DEFINE m == Expire(machine, at)
<1>2. at \in Nat /\ LeaseInv(machine) /\ BooksInv(machine)
  BY TimeAssumption DEF MachineInv
<1>3. LeaseInv(m) /\ NoneLapsed(m, at) /\ BooksInv(m) /\ Keeps(machine, m)
  BY <1>2, ExpireLease, ExpireBooks
<1>4. Apply(m, at)
  BY <1>1
<1> HIDE DEF m
<1>5. LeaseInv(machine') /\ BooksInv(machine') /\ Keeps(m, machine')
  BY <1>3, <1>4, ApplyLease, ApplyBooks
<1>6. QED
  BY <1>3, <1>5, KeepsTransitive

(* BooksInv of the next machine is BooksInv, one state later.              *)
LEMMA PrimedInv == LeaseInv(machine') /\ BooksInv(machine') => MachineInv'
<1>1. LeaseInv(machine') => LeaseInv(machine)'
  BY DEF LeaseInv, StepsKnowSession, OneActive, ActiveNamesStep, ClaimedIsHeld,
         IdleIsFree, ActiveOn, StepExists
<1>2. BooksInv(machine') => BooksInv(machine)'
  OBVIOUS
<1>3. QED
  BY <1>1, <1>2 DEF MachineInv

(* MachineInv is inductive, and it is what every theorem below rests on.   *)
THEOREM MachineSafety == Spec => []MachineInv
<1>1. Init => MachineInv
  BY EmptyLease, EmptyBooks DEF Init, MachineInv
<1>2. MachineInv /\ [Next]_machine => MachineInv'
  <2>1. CASE MachineInv /\ Next
    BY <2>1, NextBooks, PrimedInv
  <2>2. CASE MachineInv /\ UNCHANGED machine
    BY <2>2, PrimedInv DEF MachineInv
  <2>3. QED
    BY <2>1, <2>2
<1>3. QED
  BY <1>1, <1>2, PTL DEF Spec

(* A decision's status is what its normalized policy says of the votes     *)
(* stored for it, in whatever order they came.                             *)
THEOREM VerdictsAreCounted == Spec => []VerdictMatchesVotes
<1>1. MachineInv => VerdictMatchesVotes
  BY DEF MachineInv, BooksInv, ReviewInv, VerdictsCounted, VerdictMatchesVotes
<1>2. QED
  BY <1>1, MachineSafety, PTL

(* No step is resolved past an open or a lost vote.                        *)
THEOREM NoResolvePastVotes == Spec => []ResolvedIsApproved
<1>1. MachineInv => ResolvedIsApproved
  BY DEF MachineInv, BooksInv, ReviewInv, ResolvedPassed, ResolvedIsApproved
<1>2. QED
  BY <1>1, MachineSafety, PTL

(* Dependencies, membership, latest decisions, completed sessions and the  *)
(* log of claims are consistent after every transaction.                   *)
THEOREM BooksBalance == Spec => []Bookkeeping
<1>1. MachineInv => DependenciesFirst
  BY DEF MachineInv, BooksInv, PlanInv, BegunInOrder, Begins, DependenciesFirst, Begun
<1>2. MachineInv => ActorsInSession
  BY DEF MachineInv, BooksInv, ActorInv, ClaimantsKnown, VotersKnown, ProducersKnown,
         ActorsInSession
<1>3. MachineInv => LatestDecision
  BY DEF MachineInv, BooksInv, ReviewInv, PendingIsLatest, FlagSaysDecided, LatestDecision
<1>4. MachineInv => CompletedIsDone
  BY DEF MachineInv, BooksInv, PlanInv, CompletedDone, IsDone, CompletedIsDone
<1>5. MachineInv => ClaimsAreLogged
  BY DEF MachineInv, BooksInv, FateInv, BeginningsLogged, ExpiriesLogged, ReleasesLogged,
         ReleaseLogged, ClaimsAreLogged
<1>6. MachineInv => Bookkeeping
  BY <1>1, <1>2, <1>3, <1>4, <1>5 DEF Bookkeeping
<1>7. QED
  BY <1>6, MachineSafety, PTL

(* What is over stays over: no transaction of any clock takes it back.     *)
THEOREM NothingIsRevoked == Spec => Irrevocable
<1> DEFINE Kept ==
  /\ \A s \in StepId : machine.status[s] = "RESOLVED" => machine'.status[s] = "RESOLVED"
  /\ \A c \in ClaimId : machine.claims[c].status \in {"RELEASED", "EXPIRED"} =>
       machine'.claims[c] = machine.claims[c]
  /\ \A d \in DecisionId : machine.decisions[d].status \in {"PASSED", "REJECTED"} =>
       /\ machine'.decisions[d] = machine.decisions[d]
       /\ machine'.votes[d] = machine.votes[d]
  /\ \A x \in SessionId : machine.sessions[x] = "COMPLETED" =>
       machine'.sessions[x] = "COMPLETED"
  /\ machine.events \subseteq machine'.events
<1>1. MachineInv /\ [Next]_machine => [Kept]_machine
  <2>1. CASE MachineInv /\ Next
    BY <2>1, NextBooks DEF Keeps
  <2>2. QED
    BY <2>1
<1> HIDE DEF Kept
<1>2. Spec => [][Kept]_machine
  BY <1>1, MachineSafety, PTL DEF Spec
<1>3. QED
  BY <1>2 DEF Irrevocable, Kept

-----------------------------------------------------------------------------
(* What a reader lists, and what the same reader could claim.              *)

(* Expiry leaves every step as the reader saw it: what lapsed is not live, *)
(* and a CLAIMED step without a live claim becomes OPEN.                   *)
LEMMA ExpireAsShown ==
  ASSUME NEW m, LeaseInv(m), NEW at \in Nat, NEW s \in StepId
  PROVE  /\ LiveOn(Expire(m, at), at, s) = LiveOn(m, at, s)
         /\ DepsResolved(Expire(m, at), s) <=> DepsResolved(m, s)
         /\ LiveOn(m, at, s) = {} =>
              (Expire(m, at).status[s] = "OPEN" <=> ShownOpen(m, at, s))
<1> DEFINE n == Expire(m, at)
<1>1. m \in Machine /\ m.claims \in [ClaimId -> Claim] /\ m.status \in [StepId -> StepStatus]
  BY DEF LeaseInv, Machine
<1>2. \A c \in ClaimId :
        /\ n.claims[c].status = IF c \in Lapsed(m, at) THEN "EXPIRED" ELSE m.claims[c].status
        /\ n.claims[c].step = m.claims[c].step
        /\ n.claims[c].lease = m.claims[c].lease
  BY <1>1, ExpireFields
<1>3. /\ \A t \in StepId : n.status[t] =
           IF /\ m.status[t] = "CLAIMED"
              /\ \E c \in Lapsed(m, at) : m.claims[c].step = t
              /\ LiveOn(m, at, t) = {}
             THEN "OPEN" ELSE m.status[t]
      /\ n.steps = m.steps
  BY <1>1, ExpireFields
<1> HIDE DEF n
<1>4. LiveOn(n, at, s) = LiveOn(m, at, s)
  <2>1. \A c \in ClaimId : m.claims[c].lease \in Int
    BY <1>1 DEF Claim
  <2>2. QED
    BY <1>2, <2>1 DEF LiveOn, Lapsed
<1>5. DepsResolved(n, s) <=> DepsResolved(m, s)
  <2>1. \A t \in StepId : /\ n.status[t] = "RESOLVED" <=> m.status[t] = "RESOLVED"
                          /\ StepExists(n, t) <=> StepExists(m, t)
    BY <1>3 DEF StepExists
  <2>2. \A t \in StepId : InSession(n, t, s) <=> InSession(m, t, s)
    BY <1>3, <2>1 DEF InSession
  <2>3. \A dep : DepStep(n, s, dep) = DepStep(m, s, dep) /\ DepStep(m, s, dep) \subseteq StepId
    BY <1>3, <2>2 DEF DepStep
  <2>4. QED
    BY <1>3, <2>1, <2>3 DEF DepsResolved
<1>6. ASSUME LiveOn(m, at, s) = {}
      PROVE  n.status[s] = "OPEN" <=> ShownOpen(m, at, s)
  <2>1. CASE m.status[s] = "CLAIMED"
    <3>1. PICK c \in ClaimId : m.claims[c].status = "ACTIVE" /\ m.claims[c].step = s
      BY <2>1 DEF LeaseInv, ClaimedIsHeld, ActiveOn
    <3>2. m.claims[c].lease \in Int /\ ~ (m.claims[c].lease > at)
      BY <1>1, <1>6, <3>1 DEF Claim, LiveOn
    <3>3. c \in Lapsed(m, at)
      BY <3>1, <3>2 DEF Lapsed
    <3>4. QED
      BY <1>3, <1>6, <2>1, <3>1, <3>3 DEF ShownOpen
  <2>2. CASE m.status[s] # "CLAIMED"
    BY <1>3, <2>2 DEF ShownOpen
  <2>3. QED
    BY <2>1, <2>2
<1>7. QED
  BY <1>4, <1>5, <1>6 DEF n

(* The list of open steps is exactly what its reader could claim.          *)
THEOREM ListedSteps == Spec => []ListedIsClaimable
<1>1. ASSUME MachineInv, NEW at \in Time, NEW x \in SessionId, NEW p \in ParticipantId,
             NEW c \in ClaimId, machine.participants[p].session = x,
             machine.claims[c].status = "NONE"
      PROVE  OpenSteps(machine, at, x, p) =
               {s \in machine.order[x] : CanClaim(Expire(machine, at), at, s, p, c)}
  <2> DEFINE n == Expire(machine, at)
  <2>1. /\ LeaseInv(machine) /\ machine \in Machine /\ at \in Nat
        /\ machine.order[x] \subseteq StepId
        /\ p # None /\ x # None
    BY <1>1, TimeAssumption, NoneAssumption DEF MachineInv, LeaseInv, Machine
  <2>2. /\ n.participants = machine.participants /\ n.steps = machine.steps
        /\ n.claims[c].status = "NONE"
    <3>1. ExpireWrites(machine, n, at)
      BY <2>1, ExpireOthers
    <3>2. c \notin Lapsed(machine, at)
      BY <1>1 DEF Lapsed
    <3> HIDE DEF n
    <3>3. QED
      BY <1>1, <3>1, <3>2 DEF ExpireWrites, SameMembers
  <2>3. \A s \in StepId : StepExists(machine, s) => StepExists(n, s)
    BY <2>1, ExpireFields DEF StepExists
  <2>4. \A s \in StepId :
          /\ LiveOn(n, at, s) = LiveOn(machine, at, s)
          /\ DepsResolved(n, s) <=> DepsResolved(machine, s)
          /\ LiveOn(machine, at, s) = {} =>
               (n.status[s] = "OPEN" <=> ShownOpen(machine, at, s))
    BY <2>1, ExpireAsShown
  <2> HIDE DEF n
  <2>5. ASSUME NEW s \in machine.order[x]
        PROVE  /\ s \in StepId /\ StepExists(n, s) /\ SameSession(n, p, s)
               /\ HasCapabilities(n, p, s) <=> HasCapabilities(machine, p, s)
    <3>1. s \in StepId /\ StepExists(machine, s) /\ machine.steps[s].session = x
      BY <1>1, <2>1 DEF MachineInv, BooksInv, PlanInv, OrderKnown
    <3>2. QED
      BY <1>1, <2>1, <2>2, <2>3, <3>1 DEF SameSession, ParticipantExists, HasCapabilities
  <2>6. \A s \in machine.order[x] :
          CanClaim(n, at, s, p, c) <=>
            /\ ShownOpen(machine, at, s) /\ LiveOn(machine, at, s) = {}
            /\ DepsResolved(machine, s)
            /\ p # None => HasCapabilities(machine, p, s)
    BY <2>1, <2>2, <2>4, <2>5 DEF CanClaim
  <2>7. QED
    BY <2>6 DEF OpenSteps, n
<1>2. MachineInv => ListedIsClaimable
  BY <1>1 DEF ListedIsClaimable
<1>3. QED
  BY <1>2, MachineSafety, PTL

-----------------------------------------------------------------------------
(* The machine implements the board of steps.                              *)

(* The claim a step shows its holder by.                                   *)
LEMMA HolderShown ==
  ASSUME NEW m, OneActive(m), NEW s \in StepId
  PROVE  /\ ActiveOn(m, s) = {} => HolderOf(m, s) = None
         /\ \A c \in ActiveOn(m, s) : HolderOf(m, s) = m.claims[c].holder
<1>1. HeldBy(m, s) = ActiveOn(m, s)
  BY DEF HeldBy, ActiveOn
<1>2. \A c \in ActiveOn(m, s) : (CHOOSE e \in ActiveOn(m, s) : TRUE) = c
  BY DEF OneActive
<1>3. QED
  BY <1>1, <1>2 DEF HolderOf

(* A held step has a holder.                                               *)
LEMMA HeldHasHolder ==
  ASSUME NEW m, OneActive(m), ActorInv(m), NEW s \in StepId, NEW c \in ActiveOn(m, s)
  PROVE  HolderOf(m, s) # None
<1>1. HolderOf(m, s) = m.claims[c].holder
  BY HolderShown
<1>2. m.claims[c].holder \in ParticipantId
  BY DEF ActiveOn, ActorInv, ClaimantsKnown
<1>3. QED
  BY <1>1, <1>2, NoneAssumption

(* A step whose claims a handler leaves alone keeps its holder.            *)
LEMMA SameHolder ==
  ASSUME NEW m, NEW n, OneActive(m), OneActive(n), NEW s \in StepId,
         ActiveOn(n, s) = ActiveOn(m, s),
         \A c \in ActiveOn(m, s) : n.claims[c].holder = m.claims[c].holder
  PROVE  HolderOf(n, s) = HolderOf(m, s)
BY HolderShown

(* The holders that dropped out because their leases are over.             *)
LEMMA ExpireHolders ==
  ASSUME NEW m, LeaseInv(m), BooksInv(m), NEW at \in Nat
  PROVE  \E gone \in SUBSET StepId :
           Holders(Expire(m, at)) =
             [s \in StepId |-> IF s \in gone THEN None ELSE Holders(m)[s]]
<1> DEFINE n == Expire(m, at)
           gone == {s \in StepId : ActiveOn(n, s) = {}}
<1>1. m \in Machine /\ OneActive(m) /\ OneActive(n)
  BY ExpireLease DEF LeaseInv
<1>2. \A c \in ClaimId :
        /\ n.claims[c].status = IF c \in Lapsed(m, at) THEN "EXPIRED" ELSE m.claims[c].status
        /\ n.claims[c].step = m.claims[c].step /\ n.claims[c].holder = m.claims[c].holder
  BY <1>1, ExpireFields
<1> HIDE DEF n
<1>3. ASSUME NEW s \in StepId, NEW c \in ActiveOn(n, s)
      PROVE  HolderOf(n, s) = HolderOf(m, s)
  <2>1. c \in ActiveOn(m, s)
    BY <1>2 DEF ActiveOn
  <2>2. HolderOf(n, s) = n.claims[c].holder /\ HolderOf(m, s) = m.claims[c].holder
    BY <1>1, <2>1, HolderShown
  <2>3. QED
    BY <1>2, <2>2 DEF ActiveOn
<1>4. \A s \in StepId : HolderOf(n, s) = IF s \in gone THEN None ELSE HolderOf(m, s)
  BY <1>1, <1>3, HolderShown
<1>5. Holders(n) = [s \in StepId |-> IF s \in gone THEN None ELSE Holders(m)[s]]
  BY <1>4 DEF Holders
<1>6. gone \in SUBSET StepId
  OBVIOUS
<1>7. QED
  BY <1>5, <1>6 DEF n

(* What a step needs changes only with the plan.                           *)
LEMMA SameNeeds ==
  ASSUME NEW m, NEW n, n.steps = m.steps,
         \A s \in StepId : StepExists(n, s) <=> StepExists(m, s)
  PROVE  Needs(n) = Needs(m) /\ Posted(n) = Posted(m)
<1>1. \A s \in StepId, t \in StepId : InSession(n, t, s) <=> InSession(m, t, s)
  BY DEF InSession
<1>2. \A s \in StepId : \A d : DepStep(n, s, d) = DepStep(m, s, d)
  BY <1>1 DEF DepStep
<1>3. \A s \in StepId : NeedsOf(n, s) = NeedsOf(m, s)
  BY <1>2 DEF NeedsOf
<1>4. QED
  BY <1>3 DEF Needs, Posted

LEMMA NeedsTyped ==
  ASSUME NEW m
  PROVE  Needs(m) \in [StepId -> SUBSET StepId] /\ Posted(m) \subseteq StepId
<1>1. ASSUME NEW s \in StepId PROVE NeedsOf(m, s) \subseteq StepId
  <2>1. \A d : DepStep(m, s, d) \subseteq StepId
    BY DEF DepStep
  <2>2. QED
    BY <2>1 DEF NeedsOf
<1>2. QED
  BY <1>1 DEF Needs, Posted

(* Dependencies that are resolved are all a step needs: no two steps of a  *)
(* session have one key.                                                   *)
LEMMA ResolvedIsNeeded ==
  ASSUME NEW m, KeysDiffer(m), NEW s \in StepId, DepsResolved(m, s)
  PROVE  NeedsOf(m, s) \subseteq Resolved(m)
<1> SUFFICES ASSUME NEW d \in m.steps[s].deps
             PROVE  DepStep(m, s, d) # {} /\ DepStep(m, s, d) \subseteq Resolved(m)
  BY DEF NeedsOf
<1>1. PICK t \in DepStep(m, s, d) : m.status[t] = "RESOLVED"
  BY DEF DepsResolved
<1>2. t \in StepId /\ \A u \in DepStep(m, s, d) : u = t
  BY DEF DepStep, KeysDiffer, InSession
<1>3. QED
  BY <1>1, <1>2 DEF Resolved

(* Post: the board grows, nobody takes or hands in anything.               *)
Posts(m, n) ==
  /\ Posted(m) \subseteq Posted(n) /\ Posted(n) \subseteq StepId
  /\ Needs(n) \in [StepId -> SUBSET StepId]
  /\ \A s \in Posted(m) : Needs(n)[s] = Needs(m)[s]
  /\ InReview(n) = InReview(m) /\ Resolved(n) = Resolved(m) /\ Holders(n) = Holders(m)

(* Any other move is on one step s, which `holder` holds afterwards.       *)
SameBoard(m, n) == Posted(n) = Posted(m) /\ Needs(n) = Needs(m)
Moves(m, n, s, holder, review, resolved) ==
  /\ SameBoard(m, n)
  /\ Holders(n) = [Holders(m) EXCEPT ![s] = holder]
  /\ InReview(n) = review /\ Resolved(n) = resolved

Takes(m, n, s, p) ==
  /\ s \in Posted(m) \ Resolved(m) /\ Holders(m)[s] = None
  /\ s \notin InReview(m) /\ Needs(m)[s] \subseteq Resolved(m)
  /\ Moves(m, n, s, p, InReview(m), Resolved(m))
GivesBack(m, n, s) ==
  Holders(m)[s] # None /\ Moves(m, n, s, None, InReview(m) \ {s}, Resolved(m))
Passes(m, n, s, q) ==
  Holders(m)[s] # None /\ Moves(m, n, s, q, InReview(m) \ {s}, Resolved(m))
Delivers(m, n, s) ==
  /\ Holders(m)[s] # None
  /\ SameBoard(m, n) /\ Holders(n) = Holders(m)
  /\ InReview(n) = InReview(m) \cup {s} /\ Resolved(n) = Resolved(m)
Finishes(m, n, s) ==
  /\ Holders(m)[s] # None \/ s \in InReview(m)
  /\ Moves(m, n, s, None, InReview(m) \ {s}, Resolved(m) \cup {s})

BoardMoves(m, n) ==
  \/ Posts(m, n)
  \/ \E s \in StepId :
       \/ GivesBack(m, n, s) \/ Delivers(m, n, s) \/ Finishes(m, n, s)
       \/ \E p \in ParticipantId : Takes(m, n, s, p) \/ Passes(m, n, s, p)

(* A handler that moves s and leaves the claims of the other steps alone.  *)
OthersKeep(m, n, s) ==
  \A t \in StepId \ {s} :
    /\ ActiveOn(n, t) = ActiveOn(m, t)
    /\ \A c \in ActiveOn(m, t) : n.claims[c].holder = m.claims[c].holder
MovesTo(m, n, s, to) ==
  /\ SameBoard(m, n)
  /\ Holders(n) = [Holders(m) EXCEPT ![s] = HolderOf(n, s)]
  /\ InReview(n) = IF to = "IN_REVIEW" THEN InReview(m) \cup {s} ELSE InReview(m) \ {s}
  /\ Resolved(n) = IF to = "RESOLVED" THEN Resolved(m) \cup {s} ELSE Resolved(m) \ {s}

LEMMA StepMovesBoard ==
  ASSUME NEW m, NEW n, LeaseInv(m), LeaseInv(n), NEW s \in StepId, NEW to,
         StepExists(m, s), to # "NONE", n.steps = m.steps,
         n.status = [m.status EXCEPT ![s] = to], OthersKeep(m, n, s)
  PROVE  MovesTo(m, n, s, to)
<1>1. m.status \in [StepId -> StepStatus] /\ OneActive(m) /\ OneActive(n)
  BY DEF LeaseInv, Machine
<1>2. \A t \in StepId : n.status[t] = IF t = s THEN to ELSE m.status[t]
  BY <1>1
<1>3. SameBoard(m, n)
  BY <1>2, SameNeeds DEF StepExists, SameBoard
<1>4. \A t \in StepId \ {s} : HolderOf(n, t) = HolderOf(m, t)
  BY <1>1, SameHolder DEF OthersKeep
<1>5. Holders(n) = [Holders(m) EXCEPT ![s] = HolderOf(n, s)]
  BY <1>4 DEF Holders
<1>6. /\ InReview(n) = IF to = "IN_REVIEW" THEN InReview(m) \cup {s} ELSE InReview(m) \ {s}
      /\ Resolved(n) = IF to = "RESOLVED" THEN Resolved(m) \cup {s} ELSE Resolved(m) \ {s}
  BY <1>2 DEF InReview, Resolved
<1>7. QED
  BY <1>3, <1>5, <1>6 DEF MovesTo

(* A handler that changes no claim.                                        *)
LEMMA SameClaimsHolders ==
  ASSUME NEW m, NEW n, OneActive(m), OneActive(n), n.claims = m.claims
  PROVE  Holders(n) = Holders(m)
<1>1. \A s \in StepId : HolderOf(n, s) = HolderOf(m, s)
  BY SameHolder DEF ActiveOn
<1>2. QED
  BY <1>1 DEF Holders

(* A handler that changes no step and no claim.                            *)
LEMMA SamePosts ==
  ASSUME NEW m, NEW n, LeaseInv(m), LeaseInv(n), n.claims = m.claims,
         n.steps = m.steps, n.status = m.status
  PROVE  Posts(m, n)
<1>1. Holders(n) = Holders(m)
  BY SameClaimsHolders DEF LeaseInv
<1>2. Needs(n) = Needs(m) /\ Posted(n) = Posted(m)
  BY SameNeeds DEF StepExists
<1>3. QED
  BY <1>1, <1>2, NeedsTyped DEF Posts, InReview, Resolved

LEMMA CreateSessionMoves ==
  ASSUME NEW m, NEW n, LeaseInv(m), LeaseInv(n), NEW plan \in Plan,
         CanCreateSession(m, plan), PlanInv(m), CreateSessionWrites(m, n, plan)
  PROVE  Posts(m, n)
<1> DEFINE ids == {plan.steps[i].id : i \in Written(m, plan.steps)}
           draft(s) == plan.steps[CHOOSE i \in Written(m, plan.steps) : plan.steps[i].id = s]
<1>1. \A s \in ids : m.status[s] = "NONE"
  <2>1. \A i \in Written(m, plan.steps) : m.status[plan.steps[i].id] = "NONE"
    BY WrittenIsNew
  <2>2. QED
    BY <2>1
<1>2. /\ \A s \in StepId : n.status[s] = IF s \in ids THEN "OPEN" ELSE m.status[s]
      /\ \A s \in StepId : s \notin ids => n.steps[s] = m.steps[s]
      /\ \A s \in StepId : s \in ids => n.steps[s].session = plan.session
      /\ n.claims = m.claims
  <2>1. /\ \A s \in StepId :
             /\ n.status[s] = IF s \in ids THEN "OPEN" ELSE m.status[s]
             /\ n.steps[s] = IF s \in ids THEN StepFrom(plan.session, draft(s)) ELSE m.steps[s]
        /\ n.claims = m.claims
    BY DEF CreateSessionWrites
  <2>2. \A s \in StepId : StepFrom(plan.session, draft(s)).session = plan.session
    BY DEF StepFrom
  <2> HIDE DEF ids, draft
  <2>3. QED
    BY <2>1, <2>2
<1> HIDE DEF ids
<1>3. Holders(n) = Holders(m)
  BY <1>2, SameClaimsHolders DEF LeaseInv
<1>4. ASSUME NEW s \in Posted(m) PROVE Needs(n)[s] = Needs(m)[s]
  <2>1. /\ s \in StepId /\ StepExists(m, s) /\ s \notin ids
        /\ m.steps[s].session # plan.session
    BY <1>1 DEF Posted, StepExists, PlanInv, SessionsBegin, CanCreateSession
  <2>2. \A t \in StepId : InSession(n, t, s) <=> InSession(m, t, s)
    BY <1>1, <1>2, <2>1 DEF InSession, StepExists
  <2>3. \A t \in StepId : InSession(m, t, s) => n.steps[t] = m.steps[t]
    BY <1>1, <1>2 DEF InSession, StepExists
  <2>4. \A d : DepStep(n, s, d) = DepStep(m, s, d)
    BY <2>2, <2>3 DEF DepStep
  <2>5. NeedsOf(n, s) = NeedsOf(m, s)
    BY <1>2, <2>1, <2>4 DEF NeedsOf
  <2>6. QED
    BY <2>1, <2>5 DEF Needs
<1>5. /\ Posted(m) \subseteq Posted(n)
      /\ InReview(n) = InReview(m) /\ Resolved(n) = Resolved(m)
  BY <1>1, <1>2 DEF Posted, StepExists, InReview, Resolved
<1>6. QED
  BY <1>3, <1>4, <1>5, NeedsTyped DEF Posts

LEMMA ClaimMoves ==
  ASSUME NEW m, NEW n, LeaseInv(m), LeaseInv(n), BooksInv(m), NEW at, NEW s \in StepId,
         NEW p \in ParticipantId, NEW c \in ClaimId, NEW secs,
         CanClaim(m, at, s, p, c), ClaimWrites(m, n, at, s, p, c, secs)
  PROVE  Takes(m, n, s, p)
<1> DEFINE new == NewClaim(m, at, s, p, secs)
<1>1. /\ m.claims \in [ClaimId -> Claim] /\ OneActive(m) /\ OneActive(n)
      /\ KeysDiffer(m)
  BY DEF LeaseInv, Machine, BooksInv, PlanInv
<1>2. /\ StepExists(m, s) /\ DepsResolved(m, s) /\ m.status[s] = "OPEN"
      /\ m.claims[c].status = "NONE"
  BY DEF CanClaim
<1>3. new.status = "ACTIVE" /\ new.step = s /\ new.holder = p
  BY DEF NewClaim
<1> HIDE DEF new
<1>4. /\ n.claims[c] = new /\ \A e \in ClaimId \ {c} : n.claims[e] = m.claims[e]
      /\ n.status = [m.status EXCEPT ![s] = "CLAIMED"] /\ n.steps = m.steps
  BY <1>1 DEF ClaimWrites, SameMembers, new
<1>5. OthersKeep(m, n, s)
  BY <1>2, <1>3, <1>4 DEF ActiveOn, OthersKeep
<1>6. MovesTo(m, n, s, "CLAIMED")
  BY <1>2, <1>4, <1>5, StepMovesBoard
<1>7. s \notin InReview(m) /\ s \notin Resolved(m) /\ s \in Posted(m)
  BY <1>2 DEF InReview, Resolved, Posted
<1>8. HolderOf(n, s) = p
  <2>1. c \in ActiveOn(n, s)
    BY <1>3, <1>4 DEF ActiveOn
  <2>2. QED
    BY <1>1, <1>3, <1>4, <2>1, HolderShown
<1>9. Holders(m)[s] = None
  BY <1>1, <1>2, HolderShown DEF LeaseInv, IdleIsFree, Holders
<1>10. Needs(m)[s] \subseteq Resolved(m)
  BY <1>1, <1>2, ResolvedIsNeeded DEF Needs
<1>11. QED
  BY <1>6, <1>7, <1>8, <1>9, <1>10 DEF Takes, Moves, MovesTo

(* Ending the claim of s leaves s without a holder.                        *)
LEMMA EndedClaim ==
  ASSUME NEW m, NEW n, LeaseInv(m), NEW s \in StepId, NEW c \in ActiveOn(m, s),
         n.claims = [m.claims EXCEPT ![c].status = "RELEASED"]
  PROVE  ActiveOn(n, s) = {} /\ OthersKeep(m, n, s)
<1>1. m.claims \in [ClaimId -> Claim] /\ OneActive(m)
  BY DEF LeaseInv, Machine
<1>2. c \in ClaimId /\ m.claims[c].step = s
  BY DEF ActiveOn
<1>3. n.claims[c].status = "RELEASED" /\ \A e \in ClaimId \ {c} : n.claims[e] = m.claims[e]
  BY <1>1, <1>2
<1>4. \A e \in ActiveOn(m, s) : e = c
  BY <1>1 DEF OneActive
<1>5. QED
  BY <1>2, <1>3, <1>4 DEF ActiveOn, OthersKeep

LEMMA ReleaseMoves ==
  ASSUME NEW m, NEW n, LeaseInv(m), LeaseInv(n), BooksInv(m), NEW s \in StepId,
         NEW c \in ActiveOn(m, s), StepExists(m, s), ReleaseWrites(m, n, s, c)
  PROVE  GivesBack(m, n, s)
<1>1. OneActive(m) /\ OneActive(n)
  BY DEF LeaseInv
<1>2. /\ n.claims = [m.claims EXCEPT ![c].status = "RELEASED"]
      /\ n.status = [m.status EXCEPT ![s] = "OPEN"] /\ n.steps = m.steps
  BY DEF ReleaseWrites, SameMembers
<1>3. ActiveOn(n, s) = {} /\ OthersKeep(m, n, s)
  BY <1>2, EndedClaim
<1>4. MovesTo(m, n, s, "OPEN")
  BY <1>2, <1>3, StepMovesBoard
<1>5. HolderOf(n, s) = None
  BY <1>1, <1>3, HolderShown
<1>6. s \notin Resolved(m)
  BY HeldIsBegun DEF Resolved
<1>7. Holders(m)[s] # None
  BY <1>1, HeldHasHolder DEF Holders, BooksInv
<1>8. QED
  BY <1>4, <1>5, <1>6, <1>7 DEF GivesBack, Moves, MovesTo

LEMMA HandoffMoves ==
  ASSUME NEW m, NEW n, LeaseInv(m), LeaseInv(n), BooksInv(m), NEW at, NEW s \in StepId,
         NEW old \in ActiveOn(m, s), NEW q \in ParticipantId, NEW c \in ClaimId, NEW secs,
         StepExists(m, s), m.claims[c].status = "NONE",
         HandoffWrites(m, n, at, s, old, q, c, secs)
  PROVE  Passes(m, n, s, q)
<1> DEFINE new == NewClaim(m, at, s, q, secs)
<1>1. m.claims \in [ClaimId -> Claim] /\ OneActive(m) /\ OneActive(n)
  BY DEF LeaseInv, Machine
<1>2. old \in ClaimId /\ m.claims[old].step = s /\ m.claims[old].status = "ACTIVE"
  BY DEF ActiveOn
<1>3. new.status = "ACTIVE" /\ new.step = s /\ new.holder = q
  BY DEF NewClaim
<1> HIDE DEF new
<1>4. /\ n.claims = [m.claims EXCEPT ![old].status = "RELEASED", ![c] = new]
      /\ n.status = [m.status EXCEPT ![s] = "CLAIMED"] /\ n.steps = m.steps
  BY DEF HandoffWrites, SameMembers, new
<1>5. /\ n.claims[c] = new /\ n.claims[old].status = "RELEASED"
      /\ \A e \in ClaimId \ {c, old} : n.claims[e] = m.claims[e]
  BY <1>1, <1>2, <1>4 DEF Claim
<1>6. OthersKeep(m, n, s)
  BY <1>2, <1>3, <1>5 DEF ActiveOn, OthersKeep
<1>7. MovesTo(m, n, s, "CLAIMED")
  BY <1>4, <1>6, StepMovesBoard
<1>8. HolderOf(n, s) = q
  <2>1. c \in ActiveOn(n, s)
    BY <1>3, <1>5 DEF ActiveOn
  <2>2. QED
    BY <1>1, <1>3, <1>5, <2>1, HolderShown
<1>9. s \notin Resolved(m)
  BY HeldIsBegun DEF Resolved
<1>10. Holders(m)[s] # None
  BY <1>1, HeldHasHolder DEF Holders, BooksInv
<1>11. QED
  BY <1>7, <1>8, <1>9, <1>10 DEF Passes, Moves, MovesTo

LEMMA AddArtifactMoves ==
  ASSUME NEW m, NEW n, LeaseInv(m), LeaseInv(n), BooksInv(m), NEW s \in StepId,
         NEW c \in ActiveOn(m, s), StepExists(m, s), NEW p, NEW a,
         AddArtifactWrites(m, n, s, p, a)
  PROVE  Delivers(m, n, s)
<1>1. OneActive(m) /\ OneActive(n)
  BY DEF LeaseInv
<1>2. /\ n.claims = m.claims
      /\ n.status = [m.status EXCEPT ![s] = "IN_REVIEW"] /\ n.steps = m.steps
  BY DEF AddArtifactWrites, SameMembers
<1>k. OthersKeep(m, n, s)
  BY <1>2 DEF ActiveOn, OthersKeep
<1>3. MovesTo(m, n, s, "IN_REVIEW")
  BY <1>2, <1>k, StepMovesBoard
<1>4. Holders(n) = Holders(m)
  BY <1>1, <1>2, SameClaimsHolders
<1>5. s \notin Resolved(m)
  BY HeldIsBegun DEF Resolved
<1>6. Holders(m)[s] # None
  BY <1>1, HeldHasHolder DEF Holders, BooksInv
<1>7. QED
  BY <1>3, <1>4, <1>5, <1>6 DEF Delivers, MovesTo

(* The live claim, if there is one, is the holder's: none has lapsed.      *)
LEMMA ResolveMoves ==
  ASSUME NEW m, NEW n, LeaseInv(m), LeaseInv(n), BooksInv(m), NEW at, NoneLapsed(m, at),
         NEW s \in StepId, m.status[s] \in {"CLAIMED", "IN_REVIEW"},
         ResolveWrites(m, n, at, s)
  PROVE  Finishes(m, n, s)
<1> DEFINE live == LiveOn(m, at, s)
           c == CHOOSE c \in live : TRUE
<1>1. OneActive(m) /\ OneActive(n)
  BY DEF LeaseInv
<1>2. live = ActiveOn(m, s)
  BY DEF LiveOn, ActiveOn, NoneLapsed
<1>3. /\ n.claims = IF live = {} THEN m.claims ELSE [m.claims EXCEPT ![c].status = "RELEASED"]
      /\ n.status = [m.status EXCEPT ![s] = "RESOLVED"] /\ n.steps = m.steps
  BY DEF ResolveWrites
<1>4. live # {} => c \in live
  OBVIOUS
<1> HIDE DEF live, c
<1>5. OthersKeep(m, n, s)
  <2>1. CASE live = {}
    BY <1>3, <2>1 DEF ActiveOn, OthersKeep
  <2>2. CASE live # {}
    BY <1>2, <1>3, <1>4, <2>2, EndedClaim
  <2>3. QED
    BY <2>1, <2>2
<1>6. MovesTo(m, n, s, "RESOLVED")
  BY <1>3, <1>5, StepMovesBoard DEF StepExists
<1>7. HolderOf(n, s) = None
  <2>1. n.status[s] = "RESOLVED"
    BY <1>3 DEF LeaseInv, Machine
  <2>2. ActiveOn(n, s) = {}
    BY <2>1 DEF LeaseInv, IdleIsFree
  <2>3. QED
    BY <1>1, <2>2, HolderShown
<1>8. Holders(m)[s] # None \/ s \in InReview(m)
  <2>1. CASE m.status[s] = "CLAIMED"
    <3>1. PICK e \in ActiveOn(m, s) : TRUE
      BY <2>1 DEF LeaseInv, ClaimedIsHeld
    <3>2. QED
      BY <1>1, HeldHasHolder DEF Holders, BooksInv
  <2>2. CASE m.status[s] = "IN_REVIEW"
    BY <2>2 DEF InReview
  <2>3. QED
    BY <2>1, <2>2
<1>9. QED
  BY <1>6, <1>7, <1>8 DEF Finishes, Moves, MovesTo

(* Every handler is a move of the board.                                   *)
LEMMA ApplyMoves ==
  ASSUME NEW m, LeaseInv(m), BooksInv(m), NEW at \in Time, NoneLapsed(m, at),
         Apply(m, at), NEW n, n = machine', LeaseInv(n)
  PROVE  BoardMoves(m, n)
<1>0. m \in Machine /\ PlanInv(m)
  BY DEF LeaseInv, BooksInv
<1>1. CASE Rejected(m)
  BY <1>1, SamePosts DEF Rejected, BoardMoves
<1>2. CASE SessionCreate(m)
  <2>1. PICK plan \in Plans : CanCreateSession(m, plan) /\ n = DoCreateSession(m, plan)
    BY <1>2 DEF SessionCreate
  <2>2. plan \in Plan
    BY PlansAssumption
  <2>3. CreateSessionWrites(m, n, plan)
    BY <1>0, <2>1, <2>2, CreateSessionFields
  <2>4. QED
    BY <1>0, <2>1, <2>2, <2>3, CreateSessionMoves DEF BoardMoves
<1>3. CASE ParticipantJoin(m)
  <2>1. PICK x \in SessionId, r \in Ref, p \in ParticipantId, caps \in SUBSET Capability :
          n = DoJoin(m, x, r, p, caps)
    BY <1>3 DEF ParticipantJoin
  <2>2. JoinWrites(m, n, x, r, p, caps)
    BY <1>0, <2>1, JoinFields
  <2>3. QED
    BY <2>2, SamePosts DEF JoinWrites, BoardMoves
<1>4. CASE StepClaim(m, at)
  <2>1. PICK s \in StepId, p \in ParticipantId, c \in ClaimId, secs \in Leases :
          CanClaim(m, at, s, p, c) /\ n = DoClaim(m, at, s, p, c, secs)
    BY <1>4 DEF StepClaim
  <2>2. ClaimWrites(m, n, at, s, p, c, secs)
    BY <1>0, <2>1, ClaimFields
  <2>3. QED
    BY <2>1, <2>2, ClaimMoves DEF BoardMoves
<1>5. CASE StepRelease(m, at)
  <2>1. PICK s \in StepId, p \in ParticipantId :
          CanRelease(m, at, s, p) /\ n = DoRelease(m, at, s, p)
    BY <1>5 DEF StepRelease
  <2>2. PICK c \in LiveFor(m, at, s, p) : ReleaseWrites(m, n, s, c)
    BY <1>0, <2>1, ReleaseFields
  <2>3. c \in ActiveOn(m, s) /\ StepExists(m, s)
    BY <2>1, LiveIsActive DEF CanRelease
  <2>4. QED
    BY <2>2, <2>3, ReleaseMoves DEF BoardMoves
<1>6. CASE StepHandoff(m, at)
  <2>1. PICK s \in StepId, p \in ParticipantId, q \in ParticipantId, c \in ClaimId,
             secs \in Leases :
          CanHandoff(m, at, s, p, q, c) /\ n = DoHandoff(m, at, s, p, q, c, secs)
    BY <1>6 DEF StepHandoff
  <2>2. PICK old \in LiveFor(m, at, s, p) : HandoffWrites(m, n, at, s, old, q, c, secs)
    BY <1>0, <2>1, HandoffFields
  <2>3. old \in ActiveOn(m, s) /\ StepExists(m, s) /\ m.claims[c].status = "NONE"
    BY <2>1, LiveIsActive DEF CanHandoff
  <2>4. QED
    BY <2>2, <2>3, HandoffMoves DEF BoardMoves
<1>7. CASE ArtifactAdd(m, at)
  <2>1. PICK s \in StepId, p \in ParticipantId, a \in ArtifactId :
          CanAddArtifact(m, at, s, p, a) /\ n = DoAddArtifact(m, s, p, a)
    BY <1>7 DEF ArtifactAdd
  <2>2. AddArtifactWrites(m, n, s, p, a)
    BY <1>0, <2>1, AddArtifactFields
  <2>3. PICK c \in ActiveOn(m, s) : StepExists(m, s)
    BY <2>1, LiveIsActive DEF CanAddArtifact
  <2>4. QED
    BY <2>2, <2>3, AddArtifactMoves DEF BoardMoves
<1>8. CASE DecisionOpen(m)
  <2>1. PICK s \in StepId, d \in DecisionId, policy \in Policies, deadline \in Deadlines :
          n = DoOpenDecision(m, s, d, policy, deadline)
    BY <1>8 DEF DecisionOpen
  <2>2. OpenDecisionWrites(m, n, s, d, policy, deadline)
    BY <1>0, <2>1, OpenDecisionFields
  <2>3. QED
    BY <2>2, SamePosts DEF OpenDecisionWrites, SameMembers, BoardMoves
<1>9. CASE VoteCast(m, at)
  <2>1. PICK d \in DecisionId, p \in ParticipantId, v \in VoteId, choice \in Choice :
          n = DoVote(m, d, p, v, choice)
    BY <1>9 DEF VoteCast
  <2>2. n.claims = m.claims /\ n.steps = m.steps /\ n.status = m.status
    BY <1>0, <2>1 DEF DoVote, Machine
  <2>3. QED
    BY <2>2, SamePosts DEF BoardMoves
<1>10. CASE StepResolve(m, at)
  <2>1. PICK s \in StepId, p \in ParticipantId \cup {None} :
          CanResolve(m, at, s, p) /\ n = DoResolve(m, at, s)
    BY <1>10 DEF StepResolve
  <2>2. ResolveWrites(m, n, at, s) /\ m.status[s] \in {"CLAIMED", "IN_REVIEW"}
    BY <1>0, <2>1, ResolveFields DEF CanResolve
  <2>3. QED
    BY <2>2, ResolveMoves DEF BoardMoves
<1>11. QED
  BY <1>1, <1>2, <1>3, <1>4, <1>5, <1>6, <1>7, <1>8, <1>9, <1>10 DEF Apply

(* A transaction: the holders whose lease is over drop out, then one move. *)
LEMMA NextIsBoardStep ==
  ASSUME MachineInv, Next
  PROVE  Board!Next
<1>1. PICK at \in Time : Apply(Expire(machine, at), at)
  BY DEF Next
<1> DEFINE m == Expire(machine, at)
<1>2. at \in Nat /\ LeaseInv(machine) /\ BooksInv(machine)
  BY TimeAssumption DEF MachineInv
<1>3. LeaseInv(m) /\ NoneLapsed(m, at) /\ BooksInv(m)
  BY <1>2, ExpireLease, ExpireBooks
<1>4. PICK gone \in SUBSET StepId :
        Holders(m) = [s \in StepId |-> IF s \in gone THEN None ELSE Holders(machine)[s]]
  BY <1>2, ExpireHolders
<1>5. /\ Posted(m) = Posted(machine) /\ Needs(m) = Needs(machine)
      /\ InReview(m) = InReview(machine) /\ Resolved(m) = Resolved(machine)
  <2>1. /\ \A s \in StepId :
             /\ StepExists(m, s) <=> StepExists(machine, s)
             /\ m.status[s] = "IN_REVIEW" <=> machine.status[s] = "IN_REVIEW"
             /\ m.status[s] = "RESOLVED" <=> machine.status[s] = "RESOLVED"
        /\ m.steps = machine.steps
    BY <1>2, ExpireFields DEF StepExists, LeaseInv
  <2> HIDE DEF m
  <2>2. QED
    BY <2>1, SameNeeds DEF InReview, Resolved
<1>6. Apply(m, at)
  BY <1>1
<1> HIDE DEF m
<1>7. LeaseInv(machine')
  BY <1>3, <1>6, ApplyLease
<1>8. BoardMoves(m, machine')
  BY <1>3, <1>6, <1>7, ApplyMoves
<1> DEFINE h == [s \in StepId |-> IF s \in gone THEN None ELSE Holders(machine)[s]]
<1>9. Holders(m) = h
  BY <1>4
<1> HIDE DEF h
<1>10. ASSUME Posts(m, machine') PROVE Board!Post /\ Holders(machine') = h
  BY <1>5, <1>9, <1>10 DEF Posts, Board!Post
<1>11. ASSUME NEW s \in StepId, NEW p \in ParticipantId, Takes(m, machine', s, p)
       PROVE  Board!Take(h, s, p)
  BY <1>5, <1>9, <1>11 DEF Takes, Moves, SameBoard, Board!Take
<1>12. ASSUME NEW s \in StepId, GivesBack(m, machine', s) PROVE Board!GiveBack(h, s)
  BY <1>5, <1>9, <1>12 DEF GivesBack, Moves, SameBoard, Board!GiveBack
<1>13. ASSUME NEW s \in StepId, NEW p \in ParticipantId, Passes(m, machine', s, p)
       PROVE  Board!Pass(h, s, p)
  BY <1>5, <1>9, <1>13 DEF Passes, Moves, SameBoard, Board!Pass
<1>14. ASSUME NEW s \in StepId, Delivers(m, machine', s) PROVE Board!Deliver(h, s)
  BY <1>5, <1>9, <1>14 DEF Delivers, SameBoard, Board!Deliver
<1>15. ASSUME NEW s \in StepId, Finishes(m, machine', s) PROVE Board!Finish(h, s)
  BY <1>5, <1>9, <1>15 DEF Finishes, Moves, SameBoard, Board!Finish
<1>16. \/ Board!Post /\ Holders(machine') = h
       \/ \E s \in StepId :
            \/ Board!GiveBack(h, s) \/ Board!Deliver(h, s) \/ Board!Finish(h, s)
            \/ \E p \in ParticipantId : Board!Take(h, s, p) \/ Board!Pass(h, s, p)
  BY <1>8, <1>10, <1>11, <1>12, <1>13, <1>14, <1>15 DEF BoardMoves
<1>17. QED
  BY <1>16 DEF h, Board!Next

(* Every transaction sequence is a behaviour of the board of steps.        *)
THEOREM MachineIsBoard == Spec => ImplementsStepBoard
<1>1. Init => Board!Init
  <2> SUFFICES ASSUME Init PROVE Board!Init
    OBVIOUS
  <2>1. \A s \in StepId : machine.status[s] = "NONE"
    BY DEF Init, EmptyMachine
  <2>2. OneActive(machine) /\ \A s \in StepId : ActiveOn(machine, s) = {}
    BY <2>1, EmptyLease DEF Init, LeaseInv, IdleIsFree
  <2>3. \A s \in StepId : HolderOf(machine, s) = None
    BY <2>2, HolderShown
  <2>4. Holders(machine) = [s \in StepId |-> None]
    BY <2>3 DEF Holders
  <2>5. Posted(machine) = {} /\ InReview(machine) = {} /\ Resolved(machine) = {}
    BY <2>1 DEF Posted, StepExists, InReview, Resolved
  <2>6. QED
    BY <2>4, <2>5, NeedsTyped DEF Board!Init
<1>2. MachineInv /\ [Next]_machine => [Board!Next]_Board!vars
  <2>1. CASE MachineInv /\ Next
    BY <2>1, NextIsBoardStep
  <2>2. CASE UNCHANGED machine
    BY <2>2 DEF Board!vars
  <2>3. QED
    BY <2>1, <2>2
<1>3. QED
  BY <1>1, <1>2, MachineSafety, PTL DEF Spec, ImplementsStepBoard, Board!Spec
=============================================================================

------------------------ MODULE CollabService_proofs ------------------------
(***************************************************************************)
(* Theorems about CollabService, for any number of concurrent requests,    *)
(* scans, steps, participants, failures and time.                          *)
(***************************************************************************)
EXTENDS CollabService, FiniteSetTheorems, TLAPS

-----------------------------------------------------------------------------
(* What a request remembers has the type its place in the handler says.    *)

LEMMA LocalFields ==
  ASSUME NEW l \in Local
  PROVE  /\ l.pc = "join" => l.by \in Participant /\ l.caps \in SUBSET Capability
         /\ l.pc \in {"claim.deps", "claim.look", "submit.version"}
              => l.step \in Step /\ l.by \in Participant
         /\ l.pc \in {"claim.insert", "handoff.insert"}
              => l.step \in Step /\ l.by \in Participant /\ l.until \in Nat
         /\ l.pc \in {"claim.store", "release.store", "handoff.store", "submit.store", "resolve.store"}
              => l.step \in Step
         /\ l.pc = "release" => l.claim \in ClaimId
         /\ l.pc = "handoff" => l.claim \in ClaimId /\ l.to \in Participant /\ l.until \in Nat
         /\ l.pc = "submit.insert" => l.step \in Step /\ l.by \in Participant /\ l.version \in Nat
         /\ l.pc = "open.look" => l.step \in Step
         /\ l.pc = "open.insert" => l.step \in Step /\ l.created \in Nat
         /\ l.pc = "vote.insert"
              => l.decision \in DecisionId /\ l.by \in Participant /\ l.choice \in Choice
         /\ l.pc = "vote.count" => l.decision \in DecisionId
         /\ l.pc = "vote.store"
              => l.decision \in DecisionId /\ l.verdict \in {"PENDING", "PASSED", "REJECTED"}
         /\ l.pc \in {"resolve.gate", "resolve.find"}
              => l.step \in Step /\ l.by \in Participant \cup {None}
         /\ l.pc = "resolve.release" => l.step \in Step /\ l.claim \in ClaimId
         /\ l.pc = "scan" => l.todo \in SUBSET ClaimId
         /\ l.pc = "scan.store" => l.step \in Step /\ l.todo \in SUBSET ClaimId
BY DEF Local

-----------------------------------------------------------------------------
(* The inductive invariant: what holds of the tables, and what a request   *)
(* may still rely on of what it read.                                      *)

ActiveExclusive ==
  \A c, d \in ClaimId : IsActive(c) /\ IsActive(d) /\ claims[c].step = claims[d].step => c = d
PendingExclusive ==
  \A d, e \in DecisionId :
    IsPending(d) /\ IsPending(e) /\ decisions[d].step = decisions[e].step => d = e
ResolvedRemembered == \A s \in Step : status[s] = "RESOLVED" => s \in resolved
VotesRemembered ==
  \A d \in DecisionId, p \in Participant : votes[d][p] # None => <<d, p, votes[d][p]>> \in cast

Approvers(d) == {p \in Participant : <<d, p, "APPROVE">> \in cast}
Electorate(d) == {p \in Participant : \E choice \in Choice : <<d, p, choice>> \in cast}
Earned(d) ==
  /\ Cardinality(Approvers(d)) >= MinApprovals(decisions[d].policy)
  /\ Cardinality(Electorate(d)) >= decisions[d].policy.quorum

StoreInv ==
  /\ StoreTypeOK
  /\ ActiveExclusive /\ PendingExclusive
  /\ ResolvedRemembered /\ VotesRemembered
  /\ DependenciesFirst /\ ProducersHeldClaims /\ CompletionIsEarned
  /\ \A d \in DecisionId : decisions[d] # None /\ decisions[d].status = "PASSED" => Earned(d)

(* l: what a request remembers. *)
LocalOK(l) ==
  /\ l.pc \in {"release", "handoff", "resolve.release"} => claims[l.claim] # None
  /\ l.pc \in {"scan", "scan.store"} =>
       \A c \in l.todo : claims[c] # None /\ claims[c].lease <= clock
  /\ l.pc \in {"claim.look", "claim.insert", "handoff.insert"} => Needs[l.step] \subseteq resolved
  /\ l.pc \in {"submit.version", "submit.insert"} => l.by \in Holders(l.step)
  /\ l.pc \in {"vote.insert", "vote.count", "vote.store"} => decisions[l.decision] # None
  /\ l.pc = "vote.store" /\ l.verdict = "PASSED" => Earned(l.decision)
  /\ l.pc \in {"resolve.session", "resolve.task"} => resolved = Step

EnvOK == clock \in 0..MaxTime /\ failures \in 0..MaxFailures

IInv ==
  /\ StoreInv /\ EnvOK
  /\ req \in [Proc -> Local]
  /\ \A r \in Proc : LocalOK(req[r])

(* What no step takes back. *)
Grows ==
  /\ \A c \in ClaimId : claims[c] # None =>
       /\ claims'[c] # None
       /\ claims'[c] = [claims[c] EXCEPT !.status = claims'[c].status]
       /\ claims'[c].status = "ACTIVE" => claims[c].status = "ACTIVE"
       /\ claims[c].status = "ACTIVE" /\ claims'[c].status = "EXPIRED" => claims[c].lease <= clock
  /\ \A d \in DecisionId : decisions[d] # None =>
       decisions'[d] # None /\ decisions'[d].policy = decisions[d].policy
  /\ resolved \subseteq resolved' /\ cast \subseteq cast'

-----------------------------------------------------------------------------
(* What a request may rely on stays so while others act. *)

LEMMA EarnedGrows ==
  ASSUME NEW d \in DecisionId, Earned(d),
         decisions'[d].policy = decisions[d].policy, cast \subseteq cast',
         decisions[d].policy.quorum \in Int, decisions[d].policy.min \in Int
  PROVE  Earned(d)'
<1>1. Approvers(d) \subseteq Approvers(d)' /\ Electorate(d) \subseteq Electorate(d)'
  BY DEF Approvers, Electorate
<1>2. IsFiniteSet(Approvers(d)') /\ IsFiniteSet(Electorate(d)')
  BY ParticipantAssumption, FS_Subset DEF Approvers, Electorate
<1>3. /\ IsFiniteSet(Approvers(d)) /\ Cardinality(Approvers(d)) <= Cardinality(Approvers(d)')
      /\ IsFiniteSet(Electorate(d)) /\ Cardinality(Electorate(d)) <= Cardinality(Electorate(d)')
  BY <1>1, <1>2, FS_Subset
<1>4. /\ Cardinality(Approvers(d)) \in Nat /\ Cardinality(Electorate(d)) \in Nat
      /\ Cardinality(Approvers(d)') \in Nat /\ Cardinality(Electorate(d)') \in Nat
  BY <1>2, <1>3, FS_CardinalityType
<1>5. MinApprovals(decisions[d].policy) \in Int
  BY DEF MinApprovals
<1>6. MinApprovals(decisions[d].policy)' = MinApprovals(decisions[d].policy)
  BY DEF MinApprovals
<1>7. QED
  BY <1>3, <1>4, <1>5, <1>6 DEF Earned

LEMMA PolicyFields ==
  ASSUME StoreTypeOK, NEW d \in DecisionId, decisions[d] # None
  PROVE  /\ decisions[d] \in DecisionRow
         /\ decisions[d].policy.min \in Int /\ decisions[d].policy.quorum \in Int
BY PolicyAssumption DEF StoreTypeOK, DecisionRow

LEMMA HoldersGrow ==
  ASSUME StoreTypeOK, Grows, NEW s \in Step
  PROVE  Holders(s) \subseteq Holders(s)'
<1>1. SUFFICES ASSUME NEW p \in Participant, NEW c \in ClaimId,
                      claims[c] # None, claims[c].step = s, claims[c].by = p
               PROVE  claims'[c] # None /\ claims'[c].step = s /\ claims'[c].by = p
  BY DEF Holders
<1>2. claims[c] \in ClaimRow
  BY <1>1 DEF StoreTypeOK
<1>3. QED
  BY <1>1, <1>2 DEF Grows, ClaimRow

LEMMA LocalStays ==
  ASSUME StoreTypeOK, Grows, clock \in Nat, clock' \in Nat, clock <= clock', resolved' \subseteq Step,
         NEW l \in Local, LocalOK(l)
  PROVE  LocalOK(l)'
<1>1. ASSUME l.pc \in {"release", "handoff", "resolve.release"}
      PROVE  claims'[l.claim] # None
  BY <1>1, LocalFields DEF LocalOK, Grows
<1>2. ASSUME l.pc \in {"scan", "scan.store"}, NEW c \in l.todo
      PROVE  claims'[c] # None /\ claims'[c].lease <= clock'
  <2>1. c \in ClaimId /\ claims[c] # None /\ claims[c].lease <= clock
    BY <1>2, LocalFields DEF LocalOK
  <2>2. claims[c] \in ClaimRow
    BY <2>1 DEF StoreTypeOK
  <2>3. claims'[c] # None /\ claims'[c].lease = claims[c].lease
    BY <2>1, <2>2 DEF Grows, ClaimRow
  <2>4. QED
    BY <2>1, <2>2, <2>3 DEF ClaimRow
<1>3. ASSUME l.pc \in {"claim.look", "claim.insert", "handoff.insert"}
      PROVE  Needs[l.step] \subseteq resolved'
  BY <1>3 DEF LocalOK, Grows
<1>4. ASSUME l.pc \in {"submit.version", "submit.insert"}
      PROVE  l.by \in Holders(l.step)'
  BY <1>4, LocalFields, HoldersGrow DEF LocalOK
<1>5. ASSUME l.pc \in {"vote.insert", "vote.count", "vote.store"}
      PROVE  decisions'[l.decision] # None
  BY <1>5, LocalFields DEF LocalOK, Grows
<1>6. ASSUME l.pc = "vote.store", l.verdict = "PASSED"
      PROVE  Earned(l.decision)'
  <2>1. l.decision \in DecisionId /\ decisions[l.decision] # None /\ Earned(l.decision)
    BY <1>6, LocalFields DEF LocalOK
  <2>2. QED
    BY <2>1, EarnedGrows, PolicyFields DEF Grows
<1>7. ASSUME l.pc \in {"resolve.session", "resolve.task"}
      PROVE  resolved' = Step
  BY <1>7 DEF LocalOK, Grows
<1>8. QED
  BY <1>1, <1>2, <1>3, <1>4, <1>5, <1>6, <1>7 DEF LocalOK

-----------------------------------------------------------------------------
(* The statements keep what holds of the tables.                           *)

LEMMA NothingGrows ==
  ASSUME StoreTypeOK, UNCHANGED <<claims, decisions, resolved, cast>>
  PROVE  Grows
<1>1. \A c \in ClaimId : claims[c] # None => claims[c] \in ClaimRow
  BY DEF StoreTypeOK
<1>2. QED
  BY <1>1 DEF Grows, ClaimRow

LEMMA ReadsKeep ==
  ASSUME StoreInv, UNCHANGED store
  PROVE  StoreInv' /\ Grows
<1>1. UNCHANGED <<members, status, resolved, claims, artifacts, decisions, votes, cast, session, task>>
  BY DEF store, steps, ballots, outcome
<1>2. Grows
  BY <1>1, NothingGrows DEF StoreInv
<1>3. StoreTypeOK' /\ ResolvedRemembered' /\ VotesRemembered' /\ CompletionIsEarned'
  BY <1>1 DEF StoreInv, StoreTypeOK, ResolvedRemembered, VotesRemembered, CompletionIsEarned
<1>4. ActiveExclusive' /\ PendingExclusive'
  BY <1>1 DEF StoreInv, ActiveExclusive, PendingExclusive, IsActive, IsPending
<1>5. DependenciesFirst' /\ ProducersHeldClaims'
  BY <1>1 DEF StoreInv, DependenciesFirst, ProducersHeldClaims, Holders
<1>6. \A d \in DecisionId : (decisions[d] # None /\ decisions[d].status = "PASSED" => Earned(d))'
  BY <1>1 DEF StoreInv, Earned, Approvers, Electorate
<1>7. QED
  BY <1>2, <1>3, <1>4, <1>5, <1>6 DEF StoreInv

LEMMA UpdateStepKeeps ==
  ASSUME StoreInv, NEW s \in Step, NEW st \in {"OPEN", "CLAIMED", "IN_REVIEW", "RESOLVED"},
         UpdateStep(s, st),
         UNCHANGED <<members, claims, artifacts, decisions, votes, cast, session, task>>
  PROVE  StoreInv' /\ Grows
<1>1. /\ resolved \subseteq resolved' /\ resolved' \subseteq Step
      /\ status' \in [Step -> {"OPEN", "CLAIMED", "IN_REVIEW", "RESOLVED"}]
  BY DEF UpdateStep, StoreInv, StoreTypeOK
<1>2. StoreTypeOK'
  BY <1>1 DEF StoreInv, StoreTypeOK
<1>3. ResolvedRemembered'
  BY DEF ResolvedRemembered, UpdateStep, StoreInv, StoreTypeOK
<1>4. ActiveExclusive' /\ PendingExclusive' /\ VotesRemembered' /\ ProducersHeldClaims'
  BY DEF StoreInv, ActiveExclusive, PendingExclusive, VotesRemembered, ProducersHeldClaims,
         Holders, IsActive, IsPending
<1>5. DependenciesFirst' /\ CompletionIsEarned'
  BY <1>1 DEF StoreInv, DependenciesFirst, CompletionIsEarned
<1>6. \A d \in DecisionId : (decisions[d] # None /\ decisions[d].status = "PASSED" => Earned(d))'
  BY DEF StoreInv, Earned, Approvers, Electorate
<1>7. Grows
  <2>1. \A c \in ClaimId : claims[c] # None => claims[c] \in ClaimRow
    BY DEF StoreInv, StoreTypeOK
  <2>2. QED
    BY <1>1, <2>1 DEF Grows, ClaimRow
<1>8. QED
  BY <1>2, <1>3, <1>4, <1>5, <1>6, <1>7 DEF StoreInv

LEMMA UpdateClaimKeeps ==
  ASSUME StoreInv, NEW c \in ClaimId, claims[c] # None, NEW st \in {"RELEASED", "EXPIRED"},
         st = "EXPIRED" => claims[c].lease <= clock,
         UpdateClaimStatus(c, st),
         UNCHANGED <<members, status, resolved, artifacts, decisions, votes, cast, session, task>>
  PROVE  StoreInv' /\ Grows
<1>1. \A e \in ClaimId : claims[e] # None => claims[e] \in ClaimRow
  BY DEF StoreInv, StoreTypeOK
<1>2. claims \in [ClaimId -> ClaimRow \cup {None}]
  BY DEF StoreInv, StoreTypeOK
<1>3. /\ claims' = [claims EXCEPT ![c] = [claims[c] EXCEPT !.status = st]]
      /\ [claims[c] EXCEPT !.status = st] \in ClaimRow
  BY <1>1 DEF UpdateClaimStatus, ClaimRow
<1>4. claims' \in [ClaimId -> ClaimRow \cup {None}]
  BY <1>2, <1>3
<1>5. StoreTypeOK'
  BY <1>4 DEF StoreInv, StoreTypeOK
<1>6. \A e \in ClaimId : claims[e] # None =>
        /\ claims'[e] # None
        /\ claims'[e].step = claims[e].step /\ claims'[e].by = claims[e].by
        /\ claims'[e] = [claims[e] EXCEPT !.status = claims'[e].status]
        /\ claims'[e].status = "ACTIVE" => claims[e].status = "ACTIVE"
        /\ claims[e].status = "ACTIVE" /\ claims'[e].status = "EXPIRED" => claims[e].lease <= clock
  BY <1>1, <1>2, <1>3, NoneAssumption DEF ClaimRow
<1>7. \A e \in ClaimId : claims'[e] # None => claims[e] # None
  BY <1>2, <1>3
<1>8. Grows
  BY <1>6 DEF Grows, StoreInv, StoreTypeOK
<1>9. ActiveExclusive'
  <2>1. \A e \in ClaimId : IsActive(e)' => IsActive(e) /\ claims'[e].step = claims[e].step
    BY <1>6, <1>7 DEF IsActive
  <2>2. QED
    BY <2>1 DEF StoreInv, ActiveExclusive
<1>10. DependenciesFirst' /\ ProducersHeldClaims'
  <2>1. DependenciesFirst'
    <3>1. SUFFICES ASSUME NEW e \in ClaimId, claims'[e] # None
                   PROVE  Needs[claims'[e].step] \subseteq resolved
      BY DEF DependenciesFirst
    <3>2. claims[e] # None /\ claims'[e].step = claims[e].step
      BY <1>6, <1>7, <3>1
    <3>3. QED
      BY <3>2 DEF StoreInv, DependenciesFirst
  <2>2. \A s \in Step : Holders(s) \subseteq Holders(s)'
    BY <1>8, HoldersGrow DEF StoreInv
  <2>3. ProducersHeldClaims'
    BY <2>2 DEF StoreInv, ProducersHeldClaims
  <2>4. QED
    BY <2>1, <2>3
<1>11. PendingExclusive' /\ ResolvedRemembered' /\ VotesRemembered' /\ CompletionIsEarned'
  BY DEF StoreInv, PendingExclusive, ResolvedRemembered, VotesRemembered, CompletionIsEarned, IsPending
<1>12. \A d \in DecisionId : (decisions[d] # None /\ decisions[d].status = "PASSED" => Earned(d))'
  BY DEF StoreInv, Earned, Approvers, Electorate
<1>13. QED
  BY <1>5, <1>8, <1>9, <1>10, <1>11, <1>12 DEF StoreInv

LEMMA CreateClaimKeeps ==
  ASSUME StoreInv, NEW s \in Step, NEW p \in Participant, NEW until \in Nat,
         ClaimFits(s), Needs[s] \subseteq resolved, CreateClaim(s, p, until),
         UNCHANGED <<members, status, resolved, artifacts, decisions, votes, cast, session, task>>
  PROVE  StoreInv' /\ Grows
<1> DEFINE row == [step |-> s, by |-> p, status |-> "ACTIVE", lease |-> until]
<1>1. \A e \in ClaimId : claims[e] # None => claims[e] \in ClaimRow
  BY DEF StoreInv, StoreTypeOK
<1>2. claims \in [ClaimId -> ClaimRow \cup {None}] /\ row \in ClaimRow
  BY DEF StoreInv, StoreTypeOK, ClaimRow
<1>3. PICK c \in ClaimId : claims[c] = None /\ claims' = [claims EXCEPT ![c] = row]
  BY DEF CreateClaim
<1>4. row # None /\ row.step = s
  BY <1>2, NoneAssumption
<1> HIDE DEF row
<1>5. /\ claims' \in [ClaimId -> ClaimRow \cup {None}]
      /\ claims'[c] = row
      /\ \A e \in ClaimId : e # c => claims'[e] = claims[e]
  BY <1>2, <1>3
<1>6. StoreTypeOK'
  BY <1>5 DEF StoreInv, StoreTypeOK
<1>7. \A e \in ClaimId : claims[e] # None => e # c /\ claims'[e] = claims[e]
  BY <1>3, <1>5
<1>8. Grows
  BY <1>1, <1>7 DEF Grows, ClaimRow
<1>9. ActiveExclusive'
  <2>1. \A e \in ClaimId : IsActive(e) => claims[e].step # s
    BY DEF ClaimFits, ActiveClaims
  <2>2. QED
    BY <1>4, <1>5, <2>1 DEF StoreInv, ActiveExclusive, IsActive
<1>10. DependenciesFirst'
  BY <1>4, <1>5 DEF StoreInv, DependenciesFirst
<1>11. ProducersHeldClaims'
  BY <1>7 DEF StoreInv, ProducersHeldClaims, Holders
<1>12. PendingExclusive' /\ ResolvedRemembered' /\ VotesRemembered' /\ CompletionIsEarned'
  BY DEF StoreInv, PendingExclusive, ResolvedRemembered, VotesRemembered, CompletionIsEarned, IsPending
<1>13. \A d \in DecisionId : (decisions[d] # None /\ decisions[d].status = "PASSED" => Earned(d))'
  BY DEF StoreInv, Earned, Approvers, Electorate
<1>14. QED
  BY <1>6, <1>8, <1>9, <1>10, <1>11, <1>12, <1>13 DEF StoreInv

(* What a statement on decisions, or on votes, leaves of the rest.         *)
LEMMA ClaimsUntouched ==
  ASSUME StoreInv, UNCHANGED <<status, resolved, claims, artifacts>>,
         session' = "COMPLETED" \/ task' = "COMPLETED" => resolved = Step
  PROVE  /\ ActiveExclusive' /\ ResolvedRemembered'
         /\ DependenciesFirst' /\ ProducersHeldClaims' /\ CompletionIsEarned'
<1>1. ActiveExclusive' /\ ResolvedRemembered'
  BY DEF StoreInv, ActiveExclusive, ResolvedRemembered, IsActive
<1>2. DependenciesFirst' /\ ProducersHeldClaims' /\ CompletionIsEarned'
  BY DEF StoreInv, DependenciesFirst, ProducersHeldClaims, CompletionIsEarned, Holders
<1>3. QED
  BY <1>1, <1>2

LEMMA BallotsUntouched ==
  ASSUME StoreInv, UNCHANGED <<decisions, votes, cast>>
  PROVE  /\ PendingExclusive' /\ VotesRemembered'
         /\ \A d \in DecisionId : (decisions[d] # None /\ decisions[d].status = "PASSED" => Earned(d))'
<1>1. PendingExclusive' /\ VotesRemembered'
  BY DEF StoreInv, PendingExclusive, VotesRemembered, IsPending
<1>2. QED
  BY <1>1 DEF StoreInv, Earned, Approvers, Electorate

LEMMA JoinKeeps ==
  ASSUME StoreInv, members' \in [Participant -> SUBSET Capability \cup {None}],
         UNCHANGED <<status, resolved, claims, artifacts, decisions, votes, cast, session, task>>
  PROVE  StoreInv' /\ Grows
<1>1. StoreTypeOK'
  BY DEF StoreInv, StoreTypeOK
<1>2. QED
  BY <1>1, ClaimsUntouched, BallotsUntouched, NothingGrows DEF StoreInv, CompletionIsEarned

LEMMA CompleteKeeps ==
  ASSUME StoreInv, resolved = Step, session' \in {session, "COMPLETED"}, task' \in {task, "COMPLETED"},
         UNCHANGED <<members, status, resolved, claims, artifacts, decisions, votes, cast>>
  PROVE  StoreInv' /\ Grows
<1>1. StoreTypeOK'
  BY DEF StoreInv, StoreTypeOK
<1>2. QED
  BY <1>1, ClaimsUntouched, BallotsUntouched, NothingGrows DEF StoreInv

LEMMA AppendArtifactKeeps ==
  ASSUME StoreInv, NEW s \in Step, NEW p \in Participant, p \in Holders(s),
         artifacts' = [artifacts EXCEPT ![s] = Append(@, p)],
         UNCHANGED <<members, status, resolved, claims, decisions, votes, cast, session, task>>
  PROVE  StoreInv' /\ Grows
<1>1. artifacts \in [Step -> Seq(Participant)]
  BY DEF StoreInv, StoreTypeOK
<1>2. /\ artifacts' \in [Step -> Seq(Participant)]
      /\ artifacts'[s] = Append(artifacts[s], p)
      /\ \A t \in Step : t # s => artifacts'[t] = artifacts[t]
  BY <1>1
<1>3. StoreTypeOK'
  BY <1>2 DEF StoreInv, StoreTypeOK
<1>4. ProducersHeldClaims'
  <2>1. SUFFICES ASSUME NEW t \in Step, NEW i \in DOMAIN artifacts'[t]
                 PROVE  artifacts'[t][i] \in Holders(t)
    BY DEF ProducersHeldClaims, Holders
  <2>2. CASE t # s
    BY <1>2, <2>1, <2>2 DEF StoreInv, ProducersHeldClaims
  <2>3. CASE t = s
    <3>1. artifacts[s] \in Seq(Participant) /\ i \in 1..Len(artifacts[s]) + 1
      BY <1>1, <1>2, <2>1, <2>3
    <3>2. i \in DOMAIN artifacts[s] => artifacts'[t][i] = artifacts[s][i]
      BY <1>2, <2>3, <3>1
    <3>3. i = Len(artifacts[s]) + 1 => artifacts'[t][i] = p
      BY <1>2, <2>3, <3>1
    <3>4. i \in DOMAIN artifacts[s] \/ i = Len(artifacts[s]) + 1
      BY <3>1
    <3>5. QED
      BY <2>3, <3>2, <3>3, <3>4 DEF StoreInv, ProducersHeldClaims
  <2>4. QED
    BY <2>2, <2>3
<1>5. ActiveExclusive' /\ ResolvedRemembered' /\ DependenciesFirst' /\ CompletionIsEarned'
  BY DEF StoreInv, ActiveExclusive, ResolvedRemembered, DependenciesFirst, CompletionIsEarned, IsActive
<1>6. QED
  BY <1>3, <1>4, <1>5, BallotsUntouched, NothingGrows DEF StoreInv

LEMMA CreateDecisionKeeps ==
  ASSUME StoreInv, NEW s \in Step, NEW policy \in Policy, NEW deadline \in Nat \cup {None},
         NEW created \in Nat, DecisionFits(s), CreateDecision(s, policy, deadline, created),
         UNCHANGED <<members, status, resolved, claims, artifacts, votes, cast, session, task>>
  PROVE  StoreInv' /\ Grows
<1> DEFINE row == [step |-> s, policy |-> policy, deadline |-> deadline,
                   status |-> "PENDING", created |-> created]
<1>1. decisions \in [DecisionId -> DecisionRow \cup {None}] /\ row \in DecisionRow
  BY DEF StoreInv, StoreTypeOK, DecisionRow
<1>2. PICK d \in DecisionId : decisions[d] = None /\ decisions' = [decisions EXCEPT ![d] = row]
  BY DEF CreateDecision
<1>3. row # None /\ row.step = s /\ row.status = "PENDING"
  BY <1>1, NoneAssumption
<1> HIDE DEF row
<1>4. /\ decisions' \in [DecisionId -> DecisionRow \cup {None}]
      /\ decisions'[d] = row
      /\ \A e \in DecisionId : e # d => decisions'[e] = decisions[e]
  BY <1>1, <1>2
<1>5. StoreTypeOK'
  BY <1>4 DEF StoreInv, StoreTypeOK
<1>6. Grows
  <2>1. \A c \in ClaimId : claims[c] # None => claims[c] \in ClaimRow
    BY DEF StoreInv, StoreTypeOK
  <2>2. QED
    BY <1>2, <1>4, <2>1 DEF Grows, ClaimRow
<1>7. PendingExclusive'
  <2>1. \A e \in DecisionId : IsPending(e) => decisions[e].step # s
    BY DEF DecisionFits, PendingOn, DecisionsOn, IsPending
  <2>2. QED
    BY <1>3, <1>4, <2>1 DEF StoreInv, PendingExclusive, IsPending
<1>8. VotesRemembered'
  BY DEF StoreInv, VotesRemembered
<1>9. \A e \in DecisionId : (decisions[e] # None /\ decisions[e].status = "PASSED" => Earned(e))'
  BY <1>3, <1>4 DEF StoreInv, Earned, Approvers, Electorate
<1>10. QED
  BY <1>5, <1>6, <1>7, <1>8, <1>9, ClaimsUntouched DEF StoreInv, CompletionIsEarned

LEMMA UpdateDecisionKeeps ==
  ASSUME StoreInv, NEW d \in DecisionId, decisions[d] # None,
         NEW st \in {"PENDING", "PASSED", "REJECTED"}, VerdictFits(d, st),
         st = "PASSED" => Earned(d), UpdateDecision(d, st),
         UNCHANGED <<members, status, resolved, claims, artifacts, votes, cast, session, task>>
  PROVE  StoreInv' /\ Grows
<1>1. /\ decisions \in [DecisionId -> DecisionRow \cup {None}]
      /\ decisions[d] \in DecisionRow
  BY DEF StoreInv, StoreTypeOK
<1>2. /\ decisions' = [decisions EXCEPT ![d] = [decisions[d] EXCEPT !.status = st]]
      /\ [decisions[d] EXCEPT !.status = st] \in DecisionRow
  BY <1>1 DEF UpdateDecision, DecisionRow
<1>3. /\ decisions' \in [DecisionId -> DecisionRow \cup {None}]
      /\ decisions'[d] # None /\ decisions'[d].status = st
      /\ decisions'[d].policy = decisions[d].policy /\ decisions'[d].step = decisions[d].step
      /\ \A e \in DecisionId : e # d => decisions'[e] = decisions[e]
  BY <1>1, <1>2, NoneAssumption DEF DecisionRow
<1>4. StoreTypeOK'
  BY <1>3 DEF StoreInv, StoreTypeOK
<1>5. Grows
  <2>1. \A c \in ClaimId : claims[c] # None => claims[c] \in ClaimRow
    BY DEF StoreInv, StoreTypeOK
  <2>2. \A e \in DecisionId : decisions[e] # None =>
          decisions'[e] # None /\ decisions'[e].policy = decisions[e].policy
    BY <1>3
  <2>3. QED
    BY <2>1, <2>2 DEF Grows, ClaimRow
<1>6. PendingExclusive'
  <2>1. ASSUME st = "PENDING", NEW e \in DecisionId, IsPending(e), decisions[e].step = decisions[d].step
        PROVE  e = d
    BY <2>1 DEF VerdictFits, PendingOn, DecisionsOn, IsPending
  <2>2. \A e \in DecisionId : IsPending(e)' => /\ decisions'[e].step = decisions[e].step
                                               /\ e = d \/ IsPending(e)
                                               /\ e = d => st = "PENDING"
    BY <1>3 DEF IsPending
  <2>3. QED
    BY <2>1, <2>2 DEF StoreInv, PendingExclusive
<1>7. VotesRemembered'
  BY DEF StoreInv, VotesRemembered
<1>8. \A e \in DecisionId : (decisions[e] # None /\ decisions[e].status = "PASSED" => Earned(e))'
  <2>1. \A e \in DecisionId : decisions'[e].policy = decisions[e].policy /\ Earned(e) => Earned(e)'
    BY DEF Earned, Approvers, Electorate
  <2>2. QED
    BY <1>3, <2>1 DEF StoreInv
<1>9. QED
  BY <1>4, <1>5, <1>6, <1>7, <1>8, ClaimsUntouched DEF StoreInv, CompletionIsEarned

LEMMA CreateVoteKeeps ==
  ASSUME StoreInv, NEW d \in DecisionId, NEW p \in Participant, NEW choice \in Choice,
         CreateVote(d, p, choice),
         UNCHANGED <<members, status, resolved, claims, artifacts, decisions, session, task>>
  PROVE  StoreInv' /\ Grows
<1>1. votes \in [DecisionId -> [Participant -> Choice \cup {None}]]
  BY DEF StoreInv, StoreTypeOK
<1>2. votes' \in [DecisionId -> [Participant -> Choice \cup {None}]]
  BY <1>1 DEF CreateVote
<1>3. cast \subseteq cast' /\ cast' \subseteq DecisionId \X Participant \X Choice
  BY DEF CreateVote, StoreInv, StoreTypeOK
<1>4. StoreTypeOK'
  BY <1>2, <1>3 DEF StoreInv, StoreTypeOK
<1>5. \A c \in ClaimId : claims[c] # None => claims[c] \in ClaimRow
  BY DEF StoreInv, StoreTypeOK
<1>6. Grows
  BY <1>3, <1>5 DEF Grows, ClaimRow
<1>7. PendingExclusive'
  BY DEF StoreInv, PendingExclusive, IsPending
<1>8. VotesRemembered'
  <2>1. SUFFICES ASSUME NEW e \in DecisionId, NEW q \in Participant, votes'[e][q] # None
                 PROVE  <<e, q, votes'[e][q]>> \in cast'
    BY DEF VotesRemembered
  <2>2. CASE e = d /\ q = p
    BY <1>1, <2>2 DEF CreateVote
  <2>3. CASE ~(e = d /\ q = p)
    <3>1. votes'[e][q] = votes[e][q]
      BY <1>1, <2>3 DEF CreateVote
    <3>2. QED
      BY <1>3, <2>1, <3>1 DEF StoreInv, VotesRemembered
  <2>4. QED
    BY <2>2, <2>3
<1>9. \A e \in DecisionId : (decisions[e] # None /\ decisions[e].status = "PASSED" => Earned(e))'
  BY <1>3, EarnedGrows, PolicyFields DEF StoreInv
<1>10. QED
  BY <1>4, <1>6, <1>7, <1>8, <1>9, ClaimsUntouched DEF StoreInv, CompletionIsEarned

-----------------------------------------------------------------------------
(* A verdict is earned when it is counted: the stored votes are among the  *)
(* votes ever cast, and nobody both approves and rejects.                  *)
LEMMA VerdictEarned ==
  ASSUME StoreInv, NEW d \in DecisionId, decisions[d] # None
  PROVE  /\ Verdict(d) \in {"PENDING", "PASSED", "REJECTED"}
         /\ Verdict(d) = "PASSED" => Earned(d)
<1> DEFINE A == Voters(d, "APPROVE")
           R == Voters(d, "REJECT")
           policy == decisions[d].policy
<1>1. policy.min \in Int /\ policy.quorum \in Int
  BY PolicyFields DEF StoreInv
<1>2. A \subseteq Approvers(d) /\ A \cup R \subseteq Electorate(d)
  <2>1. \A p \in Participant, choice \in Choice : votes[d][p] = choice => <<d, p, choice>> \in cast
    BY NoneAssumption DEF StoreInv, VotesRemembered
  <2>2. QED
    BY <2>1 DEF Voters, Approvers, Electorate, Choice
<1>3. A \cap R = {}
  BY DEF Voters
<1>4. IsFiniteSet(Approvers(d)) /\ IsFiniteSet(Electorate(d))
  BY ParticipantAssumption, FS_Subset DEF Approvers, Electorate
<1>5. IsFiniteSet(A) /\ IsFiniteSet(R) /\ IsFiniteSet(A \cup R)
  BY ParticipantAssumption, <1>2, <1>4, FS_Subset DEF Voters
<1>6. Cardinality(A) <= Cardinality(Approvers(d)) /\ Cardinality(A \cup R) <= Cardinality(Electorate(d))
  BY <1>2, <1>4, FS_Subset
<1>7. Cardinality(A \cup R) = Cardinality(A) + Cardinality(R)
  <2>1. Cardinality(A \cap R) = 0
    BY <1>3, FS_EmptySet
  <2>2. Cardinality(A \cup R) = Cardinality(A) + Cardinality(R) - Cardinality(A \cap R)
    BY <1>5, FS_Union
  <2>3. Cardinality(A) \in Nat /\ Cardinality(R) \in Nat
    BY <1>5, FS_CardinalityType
  <2>4. QED
    BY <2>1, <2>2, <2>3
<1>8. /\ Cardinality(A) \in Nat /\ Cardinality(R) \in Nat
      /\ Cardinality(Approvers(d)) \in Nat /\ Cardinality(Electorate(d)) \in Nat
  BY <1>4, <1>5, FS_CardinalityType
<1>9. MinApprovals(policy) \in Int
  BY <1>1 DEF MinApprovals
<1>10. Verdict(d) = EvaluateDecision(policy, Cardinality(A), Cardinality(R))
  BY DEF Verdict
<1>11. Verdict(d) \in {"PENDING", "PASSED", "REJECTED"}
  BY <1>10 DEF EvaluateDecision
<1>12. ASSUME Verdict(d) = "PASSED"
       PROVE  Cardinality(A) >= MinApprovals(policy) /\
              (policy.quorum <= 0 \/ Cardinality(A) + Cardinality(R) >= policy.quorum)
  BY <1>10, <1>12 DEF EvaluateDecision
<1> HIDE DEF A, R
<1>13. Verdict(d) = "PASSED" => Earned(d)
  BY <1>1, <1>6, <1>7, <1>8, <1>9, <1>12 DEF Earned
<1>14. QED
  BY <1>11, <1>13

-----------------------------------------------------------------------------
(* One step of a request: the tables stay sound, nothing is taken back,    *)
(* and the request arrives somewhere with what it may rely on there.       *)

Lands(r) == \E l \in Local : Goto(r, l) /\ LocalOK(l)'
Sound(r) == StoreInv' /\ EnvOK' /\ Grows /\ clock' >= clock /\ Lands(r)

LEMMA IdleIsLocal == Idle \in Local /\ LocalOK(Idle) /\ LocalOK(Idle)'
<1>1. Idle \in Local
  BY DEF Idle, Local
<1>2. LocalOK(Idle) /\ LocalOK(Idle)'
  BY DEF Idle, LocalOK
<1>3. QED
  BY <1>1, <1>2

LEMMA Writes ==
  ASSUME EnvOK, StoreInv', Grows, UNCHANGED env, NEW r, NEW l \in Local, Goto(r, l), LocalOK(l)'
  PROVE  Sound(r)
<1>1. clock' = clock /\ failures' = failures
  BY DEF env
<1>2. EnvOK' /\ clock' >= clock
  BY <1>1, BoundsAssumption DEF EnvOK
<1>3. QED
  BY <1>2 DEF Sound, Lands

LEMMA Reads ==
  ASSUME EnvOK, StoreInv, UNCHANGED <<store, env>>, NEW r, NEW l \in Local, Goto(r, l), LocalOK(l)
  PROVE  Sound(r)
<1>1. StoreInv' /\ Grows
  BY ReadsKeep
<1>2. clock \in Nat /\ clock' = clock
  BY BoundsAssumption DEF EnvOK, env
<1>3. LocalOK(l)'
  BY <1>1, <1>2, LocalStays DEF StoreInv, StoreTypeOK
<1>4. QED
  BY <1>1, <1>3, Writes

LEMMA Stores ==
  ASSUME IInv, NEW r \in Proc, NEW pc \in {"claim.store", "release.store", "handoff.store", "submit.store"},
         NEW st \in {"OPEN", "CLAIMED", "IN_REVIEW"}, Store(r, pc, st)
  PROVE  Sound(r)
<1>1. req[r] \in Local /\ req[r].pc = pc /\ StoreInv /\ EnvOK
  BY DEF IInv, Store, At
<1>2. req[r].step \in Step
  BY <1>1, LocalFields
<1>3. /\ UpdateStep(req[r].step, st) /\ Goto(r, Idle) /\ UNCHANGED env
      /\ UNCHANGED <<members, claims, artifacts, decisions, votes, cast, session, task>>
  BY DEF Store, Return, ballots, outcome
<1>4. StoreInv' /\ Grows
  BY <1>1, <1>2, <1>3, UpdateStepKeeps
<1>5. QED
  BY <1>1, <1>3, <1>4, IdleIsLocal, Writes

LEMMA JoinSteps ==
  ASSUME IInv, NEW r \in Proc, JoinLook(r) \/ JoinInsert(r)
  PROVE  Sound(r)
<1>1. req[r] \in Local /\ LocalOK(req[r]) /\ StoreInv /\ EnvOK
  BY DEF IInv
<1>2. CASE JoinLook(r)
  <2>1. PICK p \in Participant, caps \in SUBSET Capability :
          Goto(r, [pc |-> "join", by |-> p, caps |-> caps]) /\ UNCHANGED <<store, env>>
    BY <1>2 DEF JoinLook
  <2>2. [pc |-> "join", by |-> p, caps |-> caps] \in Local
    BY DEF Local
  <2>3. LocalOK([pc |-> "join", by |-> p, caps |-> caps])
    BY DEF LocalOK
  <2>4. QED
    BY <1>1, <2>1, <2>2, <2>3, Reads
<1>3. CASE JoinInsert(r)
  <2>1. /\ req[r].pc = "join" /\ Goto(r, Idle) /\ UNCHANGED env
        /\ UNCHANGED <<status, resolved, claims, artifacts, decisions, votes, cast, session, task>>
        /\ members' = IF Joined(req[r].by) THEN members
                      ELSE [members EXCEPT ![req[r].by] = req[r].caps]
    BY <1>3 DEF JoinInsert, At, Return, steps, ballots, outcome
  <2>2. req[r].by \in Participant /\ req[r].caps \in SUBSET Capability
    BY <1>1, <2>1, LocalFields
  <2>3. members' \in [Participant -> SUBSET Capability \cup {None}]
    BY <1>1, <2>1, <2>2 DEF StoreInv, StoreTypeOK
  <2>4. StoreInv' /\ Grows
    BY <1>1, <2>1, <2>3, JoinKeeps
  <2>5. QED
    BY <1>1, <2>1, <2>4, IdleIsLocal, Writes
<1>4. QED
  BY <1>2, <1>3

(* Claims are looked up in the claim table. *)
LEMMA Lookups ==
  ASSUME StoreTypeOK, NEW s, NEW p, NEW now, NEW c
  PROVE  /\ c \in RunningClaims(s, now) => c \in ClaimId /\ claims[c] # None /\ claims[c].step = s
         /\ c \in RunningClaimsOf(s, p, now) =>
              c \in ClaimId /\ claims[c] # None /\ claims[c].step = s /\ claims[c].by = p
         /\ c \in LapsedClaims(now) => c \in ClaimId /\ claims[c] # None /\ claims[c].lease <= now
BY DEF RunningClaims, RunningClaimsOf, LapsedClaims, ActiveClaims, IsActive

LEMMA ClaimSteps ==
  ASSUME IInv, NEW r \in Proc,
         ClaimLoad(r) \/ ClaimDeps(r) \/ ClaimLook(r) \/ ClaimInsert(r) \/ ClaimStore(r)
  PROVE  Sound(r)
<1> DEFINE s == req[r].step
           p == req[r].by
<1>1. req[r] \in Local /\ LocalOK(req[r]) /\ StoreInv /\ EnvOK
  BY DEF IInv
<1>2. CASE ClaimLoad(r)
  <2>1. PICK t \in Step, q \in Participant :
          Goto(r, [pc |-> "claim.deps", step |-> t, by |-> q]) /\ UNCHANGED <<store, env>>
    BY <1>2 DEF ClaimLoad
  <2>2. [pc |-> "claim.deps", step |-> t, by |-> q] \in Local
    BY DEF Local
  <2>3. LocalOK([pc |-> "claim.deps", step |-> t, by |-> q])
    BY DEF LocalOK
  <2>4. QED
    BY <1>1, <2>1, <2>2, <2>3, Reads
<1>3. CASE ClaimDeps(r)
  <2>1. req[r].pc = "claim.deps" /\ UNCHANGED <<store, env>>
    BY <1>3 DEF ClaimDeps, At
  <2>2. s \in Step /\ p \in Participant /\ req[r] = [pc |-> "claim.deps", step |-> s, by |-> p]
    BY <1>1, <2>1 DEF Local
  <2>3. CASE Goto(r, [req[r] EXCEPT !.pc = "claim.look"]) /\ DepsResolved(s)
    <3> DEFINE l == [pc |-> "claim.look", step |-> s, by |-> p]
    <3>1. [req[r] EXCEPT !.pc = "claim.look"] = l
      BY <2>2
    <3>2. l \in Local
      BY <2>2 DEF Local
    <3>3. Needs[s] \subseteq resolved
      BY <1>1, <2>2, <2>3, NeedsAssumption DEF DepsResolved, StoreInv, ResolvedRemembered
    <3>4. LocalOK(l)
      BY <3>3 DEF LocalOK
    <3>5. QED
      BY <1>1, <2>1, <2>3, <3>1, <3>2, <3>4, Reads
  <2>4. CASE Goto(r, Idle)
    BY <1>1, <2>1, <2>4, IdleIsLocal, Reads
  <2>5. QED
    BY <1>3, <2>3, <2>4 DEF ClaimDeps, Return
<1>4. CASE ClaimLook(r)
  <2>1. req[r].pc = "claim.look" /\ UNCHANGED <<store, env>>
    BY <1>4 DEF ClaimLook, At
  <2>2. s \in Step /\ p \in Participant /\ Needs[s] \subseteq resolved
    BY <1>1, <2>1, LocalFields DEF LocalOK
  <2>3. ASSUME NEW secs \in Leases,
               Goto(r, [pc |-> "claim.insert", step |-> s, by |-> p, until |-> clock + secs])
        PROVE  Sound(r)
    <3> DEFINE l == [pc |-> "claim.insert", step |-> s, by |-> p, until |-> clock + secs]
    <3>1. clock + secs \in Nat
      BY <1>1, LeasesAssumption, BoundsAssumption DEF EnvOK
    <3>2. l \in Local
      BY <2>2, <3>1 DEF Local
    <3>3. LocalOK(l)
      BY <2>2 DEF LocalOK
    <3>4. QED
      BY <1>1, <2>1, <2>3, <3>2, <3>3, Reads
  <2>4. CASE Goto(r, Idle)
    BY <1>1, <2>1, <2>4, IdleIsLocal, Reads
  <2>5. QED
    BY <1>4, <2>3, <2>4 DEF ClaimLook, Return
<1>5. CASE ClaimInsert(r)
  <2>1. req[r].pc = "claim.insert" /\ UNCHANGED env
    BY <1>5 DEF ClaimInsert, At
  <2>2. s \in Step /\ p \in Participant /\ req[r].until \in Nat /\ Needs[s] \subseteq resolved
    BY <1>1, <2>1, LocalFields DEF LocalOK
  <2>3. UNCHANGED <<members, status, resolved, artifacts, decisions, votes, cast, session, task>>
    BY <1>5 DEF ClaimInsert, steps, ballots, outcome
  <2>4. CASE ClaimFits(s)
    <3>1. CreateClaim(s, p, req[r].until) /\ Goto(r, [pc |-> "claim.store", step |-> s])
      BY <1>5, <2>4 DEF ClaimInsert
    <3>2. StoreInv' /\ Grows
      BY <1>1, <2>2, <2>3, <2>4, <3>1, CreateClaimKeeps
    <3>3. [pc |-> "claim.store", step |-> s] \in Local
      BY <2>2 DEF Local
    <3>4. ASSUME NEW t
          PROVE  LocalOK([pc |-> "claim.store", step |-> t])'
      BY DEF LocalOK
    <3>5. QED
      BY <1>1, <2>1, <3>1, <3>2, <3>3, <3>4, Writes
  <2>5. CASE ~ClaimFits(s)
    <3>1. Goto(r, Idle) /\ UNCHANGED store
      BY <1>5, <2>3, <2>5 DEF ClaimInsert, Return, store, steps, ballots, outcome
    <3>2. QED
      BY <1>1, <2>1, <3>1, IdleIsLocal, Reads
  <2>6. QED
    BY <2>4, <2>5
<1>6. CASE ClaimStore(r)
  BY <1>6, Stores DEF ClaimStore
<1>7. QED
  BY <1>2, <1>3, <1>4, <1>5, <1>6

LEMMA ReleaseSteps ==
  ASSUME IInv, NEW r \in Proc, ReleaseLook(r) \/ ReleaseClaim(r) \/ ReleaseStore(r)
  PROVE  Sound(r)
<1> DEFINE c == req[r].claim
<1>1. req[r] \in Local /\ LocalOK(req[r]) /\ StoreInv /\ StoreTypeOK /\ EnvOK
  BY DEF IInv, StoreInv
<1>2. CASE ReleaseLook(r)
  <2>1. PICK s \in Step, p \in Participant :
          \E d \in RunningClaimsOf(s, p, clock) :
            Goto(r, [pc |-> "release", claim |-> d]) /\ UNCHANGED <<store, env>>
    BY <1>2 DEF ReleaseLook
  <2>2. PICK d \in RunningClaimsOf(s, p, clock) :
          Goto(r, [pc |-> "release", claim |-> d]) /\ UNCHANGED <<store, env>>
    BY <2>1
  <2>3. d \in ClaimId /\ claims[d] # None
    BY <1>1, Lookups
  <2>4. [pc |-> "release", claim |-> d] \in Local
    BY <2>3 DEF Local
  <2>5. LocalOK([pc |-> "release", claim |-> d])
    BY <2>3 DEF LocalOK
  <2>6. QED
    BY <1>1, <2>2, <2>4, <2>5, Reads
<1>3. CASE ReleaseClaim(r)
  <2>1. /\ req[r].pc = "release" /\ UNCHANGED env
        /\ UpdateClaimStatus(c, "RELEASED")
        /\ Goto(r, [pc |-> "release.store", step |-> claims[c].step])
        /\ UNCHANGED <<members, status, resolved, artifacts, decisions, votes, cast, session, task>>
    BY <1>3 DEF ReleaseClaim, At, steps, ballots, outcome
  <2>2. c \in ClaimId /\ claims[c] # None
    BY <1>1, <2>1, LocalFields DEF LocalOK
  <2>3. claims[c] \in ClaimRow /\ claims[c].step \in Step
    BY <1>1, <2>2 DEF StoreTypeOK, ClaimRow
  <2>4. StoreInv' /\ Grows
    BY <1>1, <2>1, <2>2, UpdateClaimKeeps
  <2>5. [pc |-> "release.store", step |-> claims[c].step] \in Local
    BY <2>3 DEF Local
  <2>6. ASSUME NEW t
        PROVE  LocalOK([pc |-> "release.store", step |-> t])'
    BY DEF LocalOK
  <2>7. QED
    BY <1>1, <2>1, <2>4, <2>5, <2>6, Writes
<1>4. CASE ReleaseStore(r)
  BY <1>4, Stores DEF ReleaseStore
<1>5. QED
  BY <1>2, <1>3, <1>4

LEMMA HandoffSteps ==
  ASSUME IInv, NEW r \in Proc,
         HandoffLook(r) \/ HandoffRelease(r) \/ HandoffInsert(r) \/ HandoffStore(r)
  PROVE  Sound(r)
<1> DEFINE c == req[r].claim
           s == req[r].step
           to == req[r].to
           until == req[r].until
<1>1. req[r] \in Local /\ LocalOK(req[r]) /\ StoreInv /\ StoreTypeOK /\ EnvOK
  BY DEF IInv, StoreInv
<1>2. CASE HandoffLook(r)
  <2>1. PICK t \in Step, p, q \in Participant, secs \in Leases :
          \E d \in RunningClaimsOf(t, p, clock) :
            /\ Goto(r, [pc |-> "handoff", claim |-> d, to |-> q, until |-> clock + secs])
            /\ UNCHANGED <<store, env>>
    BY <1>2 DEF HandoffLook
  <2>2. PICK d \in RunningClaimsOf(t, p, clock) :
          /\ Goto(r, [pc |-> "handoff", claim |-> d, to |-> q, until |-> clock + secs])
          /\ UNCHANGED <<store, env>>
    BY <2>1
  <2> DEFINE l == [pc |-> "handoff", claim |-> d, to |-> q, until |-> clock + secs]
  <2>3. d \in ClaimId /\ claims[d] # None
    BY <1>1, Lookups
  <2>4. clock + secs \in Nat
    BY <1>1, LeasesAssumption, BoundsAssumption DEF EnvOK
  <2>5. l \in Local
    BY <2>3, <2>4 DEF Local
  <2>6. LocalOK(l)
    BY <2>3 DEF LocalOK
  <2>7. QED
    BY <1>1, <2>2, <2>5, <2>6, Reads
<1>3. CASE HandoffRelease(r)
  <2>1. /\ req[r].pc = "handoff" /\ UNCHANGED env
        /\ UpdateClaimStatus(c, "RELEASED")
        /\ Goto(r, [pc |-> "handoff.insert", step |-> claims[c].step, by |-> to, until |-> until])
        /\ UNCHANGED <<members, status, resolved, artifacts, decisions, votes, cast, session, task>>
    BY <1>3 DEF HandoffRelease, At, steps, ballots, outcome
  <2>2. c \in ClaimId /\ claims[c] # None /\ to \in Participant /\ until \in Nat
    BY <1>1, <2>1, LocalFields DEF LocalOK
  <2>3. claims[c] \in ClaimRow /\ claims[c].step \in Step
    BY <1>1, <2>2 DEF StoreTypeOK, ClaimRow
  <2>4. StoreInv' /\ Grows
    BY <1>1, <2>1, <2>2, UpdateClaimKeeps
  <2>5. [pc |-> "handoff.insert", step |-> claims[c].step, by |-> to, until |-> until] \in Local
    BY <2>2, <2>3 DEF Local
  <2>6. Needs[claims[c].step] \subseteq resolved'
    BY <1>1, <2>1, <2>2 DEF StoreInv, DependenciesFirst
  <2>7. ASSUME NEW t, NEW q, NEW u, Needs[t] \subseteq resolved'
        PROVE  LocalOK([pc |-> "handoff.insert", step |-> t, by |-> q, until |-> u])'
    BY <2>7 DEF LocalOK
  <2>8. QED
    BY <1>1, <2>1, <2>4, <2>5, <2>6, <2>7, Writes
<1>4. CASE HandoffInsert(r)
  <2>1. req[r].pc = "handoff.insert" /\ UNCHANGED env
    BY <1>4 DEF HandoffInsert, At
  <2>2. s \in Step /\ req[r].by \in Participant /\ until \in Nat /\ Needs[s] \subseteq resolved
    BY <1>1, <2>1, LocalFields DEF LocalOK
  <2>3. UNCHANGED <<members, status, resolved, artifacts, decisions, votes, cast, session, task>>
    BY <1>4 DEF HandoffInsert, steps, ballots, outcome
  <2>4. CASE ClaimFits(s)
    <3>1. CreateClaim(s, req[r].by, until) /\ Goto(r, [pc |-> "handoff.store", step |-> s])
      BY <1>4, <2>4 DEF HandoffInsert
    <3>2. StoreInv' /\ Grows
      BY <1>1, <2>2, <2>3, <2>4, <3>1, CreateClaimKeeps
    <3>3. [pc |-> "handoff.store", step |-> s] \in Local
      BY <2>2 DEF Local
    <3>4. ASSUME NEW t
          PROVE  LocalOK([pc |-> "handoff.store", step |-> t])'
      BY DEF LocalOK
    <3>5. QED
      BY <1>1, <2>1, <3>1, <3>2, <3>3, <3>4, Writes
  <2>5. CASE ~ClaimFits(s)
    <3>1. Goto(r, Idle) /\ UNCHANGED store
      BY <1>4, <2>3, <2>5 DEF HandoffInsert, Return, store, steps, ballots, outcome
    <3>2. QED
      BY <1>1, <2>1, <3>1, IdleIsLocal, Reads
  <2>6. QED
    BY <2>4, <2>5
<1>5. CASE HandoffStore(r)
  BY <1>5, Stores DEF HandoffStore
<1>6. QED
  BY <1>2, <1>3, <1>4, <1>5

LEMMA SubmitSteps ==
  ASSUME IInv, NEW r \in Proc,
         SubmitLook(r) \/ SubmitVersion(r) \/ SubmitInsert(r) \/ SubmitStore(r)
  PROVE  Sound(r)
<1> DEFINE s == req[r].step
           p == req[r].by
<1>1. req[r] \in Local /\ LocalOK(req[r]) /\ StoreInv /\ StoreTypeOK /\ EnvOK
  BY DEF IInv, StoreInv
<1>2. CASE SubmitLook(r)
  <2>1. PICK t \in Step, q \in Participant :
          /\ RunningClaimsOf(t, q, clock) # {}
          /\ Goto(r, [pc |-> "submit.version", step |-> t, by |-> q]) /\ UNCHANGED <<store, env>>
    BY <1>2 DEF SubmitLook
  <2>2. PICK d \in RunningClaimsOf(t, q, clock) : TRUE
    BY <2>1
  <2>3. q \in Holders(t)
    BY <1>1, <2>2, Lookups DEF Holders
  <2>4. [pc |-> "submit.version", step |-> t, by |-> q] \in Local
    BY DEF Local
  <2>5. LocalOK([pc |-> "submit.version", step |-> t, by |-> q])
    BY <2>3 DEF LocalOK
  <2>6. QED
    BY <1>1, <2>1, <2>4, <2>5, Reads
<1>3. CASE SubmitVersion(r)
  <2> DEFINE version == Len(artifacts[s]) + 1
             l == [pc |-> "submit.insert", step |-> s, by |-> p, version |-> version]
  <2>1. req[r].pc = "submit.version" /\ Goto(r, l) /\ UNCHANGED <<store, env>>
    BY <1>3 DEF SubmitVersion, At
  <2>2. s \in Step /\ p \in Participant /\ p \in Holders(s)
    BY <1>1, <2>1, LocalFields DEF LocalOK
  <2>3. version \in Nat
    BY <1>1, <2>2 DEF StoreTypeOK
  <2> HIDE DEF version
  <2>4. l \in Local
    BY <2>2, <2>3 DEF Local
  <2>5. LocalOK(l)
    BY <2>2 DEF LocalOK
  <2>6. QED
    BY <1>1, <2>1, <2>4, <2>5, Reads
<1>4. CASE SubmitInsert(r)
  <2>1. req[r].pc = "submit.insert" /\ UNCHANGED env
    BY <1>4 DEF SubmitInsert, At
  <2>2. s \in Step /\ p \in Participant /\ p \in Holders(s)
    BY <1>1, <2>1, LocalFields DEF LocalOK
  <2>3. UNCHANGED <<members, status, resolved, claims, decisions, votes, cast, session, task>>
    BY <1>4 DEF SubmitInsert, steps, ballots, outcome
  <2>4. CASE req[r].version = Len(artifacts[s]) + 1
    <3>1. /\ artifacts' = [artifacts EXCEPT ![s] = Append(@, p)]
          /\ Goto(r, [pc |-> "submit.store", step |-> s])
      BY <1>4, <2>4 DEF SubmitInsert
    <3>2. StoreInv' /\ Grows
      BY <1>1, <2>2, <2>3, <3>1, AppendArtifactKeeps
    <3>3. [pc |-> "submit.store", step |-> s] \in Local
      BY <2>2 DEF Local
    <3>4. ASSUME NEW t
          PROVE  LocalOK([pc |-> "submit.store", step |-> t])'
      BY DEF LocalOK
    <3>5. QED
      BY <1>1, <2>1, <3>1, <3>2, <3>3, <3>4, Writes
  <2>5. CASE req[r].version # Len(artifacts[s]) + 1
    <3>1. Goto(r, Idle) /\ UNCHANGED store
      BY <1>4, <2>3, <2>5 DEF SubmitInsert, Return, store, steps, ballots, outcome
    <3>2. QED
      BY <1>1, <2>1, <3>1, IdleIsLocal, Reads
  <2>6. QED
    BY <2>4, <2>5
<1>5. CASE SubmitStore(r)
  BY <1>5, Stores DEF SubmitStore
<1>6. QED
  BY <1>2, <1>3, <1>4, <1>5

LEMMA DecisionSteps ==
  ASSUME IInv, NEW r \in Proc, OpenLoad(r) \/ OpenLook(r) \/ OpenInsert(r)
  PROVE  Sound(r)
<1> DEFINE s == req[r].step
<1>1. req[r] \in Local /\ LocalOK(req[r]) /\ StoreInv /\ EnvOK
  BY DEF IInv
<1>2. CASE OpenLoad(r)
  <2>1. PICK t \in Step : Goto(r, [pc |-> "open.look", step |-> t]) /\ UNCHANGED <<store, env>>
    BY <1>2 DEF OpenLoad
  <2>2. [pc |-> "open.look", step |-> t] \in Local
    BY DEF Local
  <2>3. LocalOK([pc |-> "open.look", step |-> t])
    BY DEF LocalOK
  <2>4. QED
    BY <1>1, <2>1, <2>2, <2>3, Reads
<1>3. CASE OpenLook(r)
  <2>1. req[r].pc = "open.look" /\ UNCHANGED <<store, env>>
    BY <1>3 DEF OpenLook, At
  <2>2. s \in Step
    BY <1>1, <2>1, LocalFields
  <2>3. ASSUME NEW now \in 1..MaxStamp, Goto(r, [pc |-> "open.insert", step |-> s, created |-> now])
        PROVE  Sound(r)
    <3>1. now \in Nat
      BY BoundsAssumption
    <3>2. [pc |-> "open.insert", step |-> s, created |-> now] \in Local
      BY <2>2, <3>1 DEF Local
    <3>3. LocalOK([pc |-> "open.insert", step |-> s, created |-> now])
      BY DEF LocalOK
    <3>4. QED
      BY <1>1, <2>1, <2>3, <3>2, <3>3, Reads
  <2>4. CASE Goto(r, Idle)
    BY <1>1, <2>1, <2>4, IdleIsLocal, Reads
  <2>5. QED
    BY <1>3, <2>3, <2>4 DEF OpenLook, Return
<1>4. CASE OpenInsert(r)
  <2>1. /\ req[r].pc = "open.insert" /\ UNCHANGED env /\ Goto(r, Idle)
        /\ UNCHANGED <<members, status, resolved, claims, artifacts, votes, cast, session, task>>
    BY <1>4 DEF OpenInsert, At, Return, steps, outcome
  <2>2. s \in Step /\ req[r].created \in Nat
    BY <1>1, <2>1, LocalFields
  <2>3. CASE DecisionFits(s)
    <3>1. PICK policy \in Policy, deadline \in Deadlines :
            CreateDecision(s, policy, deadline, req[r].created)
      BY <1>4, <2>3 DEF OpenInsert
    <3>2. StoreInv' /\ Grows
      BY <1>1, <2>1, <2>2, <2>3, <3>1, DeadlinesAssumption, CreateDecisionKeeps
    <3>3. QED
      BY <1>1, <2>1, <3>2, IdleIsLocal, Writes
  <2>4. CASE ~DecisionFits(s)
    <3>1. UNCHANGED store
      BY <1>4, <2>1, <2>4 DEF OpenInsert, store, steps, ballots, outcome
    <3>2. QED
      BY <1>1, <2>1, <3>1, IdleIsLocal, Reads
  <2>5. QED
    BY <2>3, <2>4
<1>5. QED
  BY <1>2, <1>3, <1>4

LEMMA VoteSteps ==
  ASSUME IInv, NEW r \in Proc, VoteLoad(r) \/ VoteInsert(r) \/ VoteCount(r) \/ VoteStore(r)
  PROVE  Sound(r)
<1> DEFINE d == req[r].decision
<1>1. req[r] \in Local /\ LocalOK(req[r]) /\ StoreInv /\ StoreTypeOK /\ EnvOK
  BY DEF IInv, StoreInv
<1>2. CASE VoteLoad(r)
  <2>1. PICK e \in DecisionId, p \in Participant, choice \in Choice :
          /\ IsPending(e)
          /\ Goto(r, [pc |-> "vote.insert", decision |-> e, by |-> p, choice |-> choice])
          /\ UNCHANGED <<store, env>>
    BY <1>2 DEF VoteLoad
  <2>2. [pc |-> "vote.insert", decision |-> e, by |-> p, choice |-> choice] \in Local
    BY DEF Local
  <2>3. LocalOK([pc |-> "vote.insert", decision |-> e, by |-> p, choice |-> choice])
    BY <2>1 DEF LocalOK, IsPending
  <2>4. QED
    BY <1>1, <2>1, <2>2, <2>3, Reads
<1>3. CASE VoteInsert(r)
  <2>1. /\ req[r].pc = "vote.insert" /\ UNCHANGED env
        /\ CreateVote(d, req[r].by, req[r].choice)
        /\ Goto(r, [pc |-> "vote.count", decision |-> d])
        /\ UNCHANGED <<members, status, resolved, claims, artifacts, decisions, session, task>>
    BY <1>3 DEF VoteInsert, At, steps, outcome
  <2>2. /\ d \in DecisionId /\ decisions[d] # None
        /\ req[r].by \in Participant /\ req[r].choice \in Choice
    BY <1>1, <2>1, LocalFields DEF LocalOK
  <2>3. StoreInv' /\ Grows
    BY <1>1, <2>1, <2>2, CreateVoteKeeps
  <2>4. [pc |-> "vote.count", decision |-> d] \in Local
    BY <2>2 DEF Local
  <2>5. decisions'[d] # None
    BY <2>1, <2>2
  <2>6. ASSUME NEW e, decisions'[e] # None
        PROVE  LocalOK([pc |-> "vote.count", decision |-> e])'
    BY <2>6 DEF LocalOK
  <2>7. QED
    BY <1>1, <2>1, <2>3, <2>4, <2>5, <2>6, Writes
<1>4. CASE VoteCount(r)
  <2> DEFINE verdict == Verdict(d)
             l == [pc |-> "vote.store", decision |-> d, verdict |-> verdict]
  <2>1. req[r].pc = "vote.count" /\ Goto(r, l) /\ UNCHANGED <<store, env>>
    BY <1>4 DEF VoteCount, At
  <2>2. d \in DecisionId /\ decisions[d] # None
    BY <1>1, <2>1, LocalFields DEF LocalOK
  <2>3. verdict \in {"PENDING", "PASSED", "REJECTED"} /\ (verdict = "PASSED" => Earned(d))
    BY <1>1, <2>2, VerdictEarned
  <2> HIDE DEF verdict
  <2>4. l \in Local
    BY <2>2, <2>3 DEF Local
  <2>5. LocalOK(l)
    BY <2>2, <2>3 DEF LocalOK
  <2>6. QED
    BY <1>1, <2>1, <2>4, <2>5, Reads
<1>5. CASE VoteStore(r)
  <2> DEFINE verdict == req[r].verdict
  <2>1. /\ req[r].pc = "vote.store" /\ UNCHANGED env /\ Goto(r, Idle)
        /\ UNCHANGED <<members, status, resolved, claims, artifacts, votes, cast, session, task>>
    BY <1>5 DEF VoteStore, At, Return, steps, outcome
  <2>2. /\ d \in DecisionId /\ decisions[d] # None
        /\ verdict \in {"PENDING", "PASSED", "REJECTED"} /\ (verdict = "PASSED" => Earned(d))
    BY <1>1, <2>1, LocalFields DEF LocalOK
  <2>3. CASE VerdictFits(d, verdict)
    <3>1. UpdateDecision(d, verdict)
      BY <1>5, <2>3 DEF VoteStore
    <3>2. StoreInv' /\ Grows
      BY <1>1, <2>1, <2>2, <2>3, <3>1, UpdateDecisionKeeps
    <3>3. QED
      BY <1>1, <2>1, <3>2, IdleIsLocal, Writes
  <2>4. CASE ~VerdictFits(d, verdict)
    <3>1. UNCHANGED store
      BY <1>5, <2>1, <2>4 DEF VoteStore, store, steps, ballots, outcome
    <3>2. QED
      BY <1>1, <2>1, <3>1, IdleIsLocal, Reads
  <2>5. QED
    BY <2>3, <2>4
<1>6. QED
  BY <1>2, <1>3, <1>4, <1>5

(* A request that has nothing but a step, or nothing, in mind.             *)
LEMMA PlainPlaces ==
  ASSUME NEW s \in Step
  PROVE  /\ [pc |-> "resolve.store", step |-> s] \in Local
         /\ LocalOK([pc |-> "resolve.store", step |-> s])
         /\ [pc |-> "resolve.count"] \in Local
         /\ \A t : LocalOK([pc |-> "resolve.store", step |-> t])'
         /\ LocalOK([pc |-> "resolve.count"])'
<1>1. [pc |-> "resolve.store", step |-> s] \in Local /\ [pc |-> "resolve.count"] \in Local
  BY DEF Local
<1>2. LocalOK([pc |-> "resolve.store", step |-> s])
  BY DEF LocalOK
<1>3. \A t : LocalOK([pc |-> "resolve.store", step |-> t])'
  BY DEF LocalOK
<1>4. LocalOK([pc |-> "resolve.count"])'
  BY DEF LocalOK
<1>5. QED
  BY <1>1, <1>2, <1>3, <1>4

LEMMA ResolveClaimSteps ==
  ASSUME IInv, NEW r \in Proc,
         ResolveLoad(r) \/ ResolveGate(r) \/ ResolveFind(r) \/ ResolveRelease(r)
  PROVE  Sound(r)
<1> DEFINE s == req[r].step
           p == req[r].by
           c == req[r].claim
<1>1. req[r] \in Local /\ LocalOK(req[r]) /\ StoreInv /\ StoreTypeOK /\ EnvOK
  BY DEF IInv, StoreInv
<1>2. CASE ResolveLoad(r)
  <2>1. PICK t \in Step, q \in Participant \cup {None} :
          Goto(r, [pc |-> "resolve.gate", step |-> t, by |-> q]) /\ UNCHANGED <<store, env>>
    BY <1>2 DEF ResolveLoad
  <2>2. [pc |-> "resolve.gate", step |-> t, by |-> q] \in Local
    BY DEF Local
  <2>3. LocalOK([pc |-> "resolve.gate", step |-> t, by |-> q])
    BY DEF LocalOK
  <2>4. QED
    BY <1>1, <2>1, <2>2, <2>3, Reads
<1>3. CASE ResolveGate(r)
  <2>1. req[r].pc = "resolve.gate" /\ UNCHANGED <<store, env>>
    BY <1>3 DEF ResolveGate, At
  <2>2. CASE Goto(r, [req[r] EXCEPT !.pc = "resolve.find"])
    <3> DEFINE l == [pc |-> "resolve.find", step |-> s, by |-> p]
    <3>1. /\ s \in Step /\ p \in Participant \cup {None}
          /\ req[r] = [pc |-> "resolve.gate", step |-> s, by |-> p]
      BY <1>1, <2>1 DEF Local
    <3>2. [req[r] EXCEPT !.pc = "resolve.find"] = l
      BY <3>1
    <3>3. l \in Local
      BY <3>1 DEF Local
    <3>4. LocalOK(l)
      BY DEF LocalOK
    <3>5. QED
      BY <1>1, <2>1, <2>2, <3>2, <3>3, <3>4, Reads
  <2>3. CASE Goto(r, Idle)
    BY <1>1, <2>1, <2>3, IdleIsLocal, Reads
  <2>4. QED
    BY <1>3, <2>2, <2>3 DEF ResolveGate, Return
<1>4. CASE ResolveFind(r)
  <2>1. req[r].pc = "resolve.find" /\ UNCHANGED <<store, env>>
    BY <1>4 DEF ResolveFind, At
  <2>2. s \in Step
    BY <1>1, <2>1, LocalFields
  <2>3. CASE Goto(r, Idle)
    BY <1>1, <2>1, <2>3, IdleIsLocal, Reads
  <2>4. CASE Goto(r, [pc |-> "resolve.store", step |-> s])
    BY <1>1, <2>1, <2>2, <2>4, PlainPlaces, Reads
  <2>5. ASSUME NEW e \in RunningClaims(s, clock),
               Goto(r, [pc |-> "resolve.release", step |-> s, claim |-> e])
        PROVE  Sound(r)
    <3>1. e \in ClaimId /\ claims[e] # None
      BY <1>1, <2>5, Lookups
    <3>2. [pc |-> "resolve.release", step |-> s, claim |-> e] \in Local
      BY <2>2, <3>1 DEF Local
    <3>3. LocalOK([pc |-> "resolve.release", step |-> s, claim |-> e])
      BY <3>1 DEF LocalOK
    <3>4. QED
      BY <1>1, <2>1, <2>5, <3>2, <3>3, Reads
  <2>6. QED
    BY <1>4, <2>3, <2>4, <2>5 DEF ResolveFind, Return
<1>5. CASE ResolveRelease(r)
  <2>1. /\ req[r].pc = "resolve.release" /\ UNCHANGED env
        /\ UpdateClaimStatus(c, "RELEASED")
        /\ Goto(r, [pc |-> "resolve.store", step |-> s])
        /\ UNCHANGED <<members, status, resolved, artifacts, decisions, votes, cast, session, task>>
    BY <1>5 DEF ResolveRelease, At, steps, ballots, outcome
  <2>2. s \in Step /\ c \in ClaimId /\ claims[c] # None
    BY <1>1, <2>1, LocalFields DEF LocalOK
  <2>3. StoreInv' /\ Grows
    BY <1>1, <2>1, <2>2, UpdateClaimKeeps
  <2>4. QED
    BY <1>1, <2>1, <2>2, <2>3, PlainPlaces, Writes
<1>6. QED
  BY <1>2, <1>3, <1>4, <1>5

LEMMA ResolveEndSteps ==
  ASSUME IInv, NEW r \in Proc,
         ResolveStore(r) \/ ResolveCount(r) \/ ResolveSession(r) \/ ResolveTask(r)
  PROVE  Sound(r)
<1> DEFINE s == req[r].step
<1>1. req[r] \in Local /\ LocalOK(req[r]) /\ StoreInv /\ StoreTypeOK /\ EnvOK
  BY DEF IInv, StoreInv
<1>2. CASE ResolveStore(r)
  <2>1. /\ req[r].pc = "resolve.store" /\ UNCHANGED env
        /\ UpdateStep(s, "RESOLVED") /\ Goto(r, [pc |-> "resolve.count"])
        /\ UNCHANGED <<members, claims, artifacts, decisions, votes, cast, session, task>>
    BY <1>2 DEF ResolveStore, At, ballots, outcome
  <2>2. s \in Step
    BY <1>1, <2>1, LocalFields
  <2>3. StoreInv' /\ Grows
    BY <1>1, <2>1, <2>2, UpdateStepKeeps
  <2>4. QED
    BY <1>1, <2>1, <2>2, <2>3, PlainPlaces, Writes
<1>3. CASE ResolveCount(r)
  <2>1. UNCHANGED <<store, env>>
    BY <1>3 DEF ResolveCount
  <2>2. CASE AllResolved /\ Goto(r, [pc |-> "resolve.session"])
    <3>1. resolved = Step
      BY <1>1, <2>2 DEF AllResolved, StoreInv, ResolvedRemembered, StoreTypeOK
    <3>2. [pc |-> "resolve.session"] \in Local
      BY DEF Local
    <3>3. LocalOK([pc |-> "resolve.session"])
      BY <3>1 DEF LocalOK
    <3>4. QED
      BY <1>1, <2>1, <2>2, <3>2, <3>3, Reads
  <2>3. CASE Goto(r, Idle)
    BY <1>1, <2>1, <2>3, IdleIsLocal, Reads
  <2>4. QED
    BY <1>3, <2>2, <2>3 DEF ResolveCount, Return
<1>4. CASE ResolveSession(r)
  <2>1. /\ req[r].pc = "resolve.session" /\ UNCHANGED env
        /\ session' = "COMPLETED" /\ Goto(r, [pc |-> "resolve.task"])
        /\ UNCHANGED <<members, status, resolved, claims, artifacts, decisions, votes, cast, task>>
    BY <1>4 DEF ResolveSession, At, steps, ballots
  <2>2. resolved = Step
    BY <1>1, <2>1 DEF LocalOK
  <2>3. StoreInv' /\ Grows
    BY <1>1, <2>1, <2>2, CompleteKeeps
  <2>4. [pc |-> "resolve.task"] \in Local
    BY DEF Local
  <2>5. LocalOK([pc |-> "resolve.task"])'
    BY <2>1, <2>2 DEF LocalOK
  <2>6. QED
    BY <1>1, <2>1, <2>3, <2>4, <2>5, Writes
<1>5. CASE ResolveTask(r)
  <2>1. /\ req[r].pc = "resolve.task" /\ UNCHANGED env
        /\ task' = "COMPLETED" /\ Goto(r, Idle)
        /\ UNCHANGED <<members, status, resolved, claims, artifacts, decisions, votes, cast, session>>
    BY <1>5 DEF ResolveTask, At, Return, steps, ballots
  <2>2. resolved = Step
    BY <1>1, <2>1 DEF LocalOK
  <2>3. StoreInv' /\ Grows
    BY <1>1, <2>1, <2>2, CompleteKeeps
  <2>4. QED
    BY <1>1, <2>1, <2>3, IdleIsLocal, Writes
<1>6. QED
  BY <1>2, <1>3, <1>4, <1>5

(* The rest of a scan's list. *)
LEMMA ScanRestPlace ==
  ASSUME NEW todo \in SUBSET ClaimId
  PROVE  /\ ScanRest(todo) \in Local
         /\ (\A c \in todo : claims[c] # None /\ claims[c].lease <= clock) => LocalOK(ScanRest(todo))
<1>1. CASE todo = {}
  BY <1>1, IdleIsLocal DEF ScanRest
<1>2. CASE todo # {}
  <2>1. ScanRest(todo) = [pc |-> "scan", todo |-> todo]
    BY <1>2 DEF ScanRest
  <2>2. [pc |-> "scan", todo |-> todo] \in Local
    BY DEF Local
  <2>3. (\A c \in todo : claims[c] # None /\ claims[c].lease <= clock)
          => LocalOK([pc |-> "scan", todo |-> todo])
    BY DEF LocalOK
  <2>4. QED
    BY <2>1, <2>2, <2>3
<1>3. QED
  BY <1>1, <1>2

LEMMA ScanSteps ==
  ASSUME IInv, NEW r \in Proc, Scan(r)
  PROVE  Sound(r)
<1> DEFINE todo == req[r].todo
           s == req[r].step
<1>1. /\ req[r] \in Local /\ LocalOK(req[r]) /\ StoreInv /\ StoreTypeOK /\ EnvOK
      /\ clock \in Nat
  BY BoundsAssumption DEF IInv, StoreInv, EnvOK
<1>2. CASE ScanList(r)
  <2> DEFINE lapsed == LapsedClaims(clock)
             l == [pc |-> "scan", todo |-> lapsed]
  <2>1. Goto(r, l) /\ UNCHANGED <<store, env>>
    BY <1>2 DEF ScanList
  <2>2. lapsed \in SUBSET ClaimId /\ \A c \in lapsed : claims[c] # None /\ claims[c].lease <= clock
    BY <1>1, Lookups
  <2> HIDE DEF lapsed
  <2>3. l \in Local
    BY <2>2 DEF Local
  <2>4. LocalOK(l)
    BY <2>2 DEF LocalOK
  <2>5. QED
    BY <1>1, <2>1, <2>3, <2>4, Reads
<1>3. CASE ScanExpire(r)
  <2>1. PICK c \in EarliestOf(todo) :
          /\ UpdateClaimStatus(c, "EXPIRED")
          /\ Goto(r, [pc |-> "scan.store", step |-> claims[c].step, todo |-> todo \ {c}])
    BY <1>3 DEF ScanExpire
  <2>2. /\ req[r].pc = "scan" /\ UNCHANGED env
        /\ UNCHANGED <<members, status, resolved, artifacts, decisions, votes, cast, session, task>>
    BY <1>3 DEF ScanExpire, At, steps, ballots, outcome
  <2>3. /\ todo \in SUBSET ClaimId
        /\ \A e \in todo : claims[e] # None /\ claims[e].lease <= clock
    BY <1>1, <2>2, LocalFields DEF LocalOK
  <2>4. c \in todo /\ c \in ClaimId /\ claims[c] # None /\ claims[c].lease <= clock
    BY <2>3 DEF EarliestOf
  <2>5. StoreInv' /\ Grows
    BY <1>1, <2>1, <2>2, <2>4, UpdateClaimKeeps
  <2>6. claims[c].step \in Step /\ todo \ {c} \in SUBSET ClaimId
    BY <1>1, <2>3, <2>4 DEF StoreTypeOK, ClaimRow
  <2> DEFINE place == [pc |-> "scan.store", step |-> claims[c].step, todo |-> todo \ {c}]
  <2>7. place \in Local
    BY <2>6 DEF Local
  <2>8. LocalOK(place)
    BY <2>3 DEF LocalOK
  <2>9. clock' \in Nat /\ clock <= clock' /\ resolved' \subseteq Step
    BY <1>1, <2>2 DEF env, StoreTypeOK
  <2>10. PICK l \in Local : l = place
    BY <2>7
  <2>11. LocalOK(l)
    BY <2>8, <2>10
  <2>12. LocalOK(l)'
    BY <1>1, <2>5, <2>9, <2>11, LocalStays
  <2>13. QED
    BY <1>1, <2>1, <2>2, <2>5, <2>10, <2>12, Writes
<1>4. CASE ScanStore(r)
  <2>1. /\ req[r].pc = "scan.store" /\ UNCHANGED env
        /\ UpdateStep(s, "OPEN") /\ Goto(r, ScanRest(todo))
        /\ UNCHANGED <<members, claims, artifacts, decisions, votes, cast, session, task>>
    BY <1>4 DEF ScanStore, At, ballots, outcome
  <2>2. /\ s \in Step /\ todo \in SUBSET ClaimId
        /\ \A e \in todo : claims[e] # None /\ claims[e].lease <= clock
    BY <1>1, <2>1, LocalFields DEF LocalOK
  <2>3. StoreInv' /\ Grows
    BY <1>1, <2>1, <2>2, UpdateStepKeeps
  <2>4. PICK l \in Local : l = ScanRest(todo)
    BY <2>2, ScanRestPlace
  <2>5. LocalOK(l)
    BY <2>2, <2>4, ScanRestPlace
  <2>6. clock' \in Nat /\ clock <= clock' /\ resolved' \subseteq Step
    BY <1>1, <2>1, <2>3 DEF env, StoreInv, StoreTypeOK
  <2>7. LocalOK(l)'
    BY <1>1, <2>3, <2>5, <2>6, LocalStays
  <2>8. QED
    BY <1>1, <2>1, <2>3, <2>4, <2>7, Writes
<1>5. QED
  BY <1>2, <1>3, <1>4 DEF Scan, ScanOn

LEMMA FailureSteps ==
  ASSUME IInv, NEW r \in Proc,
         Abort(r) \/ ReleaseIgnored(r) \/ SessionIgnored(r) \/ ScanSkips(r)
  PROVE  Sound(r)
<1>1. /\ req[r] \in Local /\ LocalOK(req[r]) /\ StoreInv /\ StoreTypeOK /\ EnvOK
      /\ clock \in Nat
  BY BoundsAssumption DEF IInv, StoreInv, EnvOK
<1>2. ASSUME NEW l \in Local, LocalOK(l), Fails(r, l)
      PROVE  Sound(r)
  <2>1. UNCHANGED store /\ clock' = clock /\ failures < MaxFailures /\ failures' = failures + 1 /\ Goto(r, l)
    BY <1>2 DEF Fails
  <2>2. StoreInv' /\ Grows
    BY <1>1, <2>1, ReadsKeep
  <2>3. EnvOK' /\ clock' >= clock
    BY <1>1, <2>1, BoundsAssumption DEF EnvOK
  <2>4. LocalOK(l)'
    BY <1>1, <1>2, <2>1, <2>2, LocalStays DEF StoreInv, StoreTypeOK
  <2>5. QED
    BY <2>1, <2>2, <2>3, <2>4 DEF Sound, Lands
<1>3. CASE Abort(r)
  BY <1>2, <1>3, IdleIsLocal DEF Abort
<1>4. CASE ReleaseIgnored(r)
  <2>1. req[r].step \in Step
    BY <1>1, <1>4, LocalFields DEF ReleaseIgnored, At
  <2>2. QED
    BY <1>2, <1>4, <2>1, PlainPlaces DEF ReleaseIgnored
<1>5. CASE SessionIgnored(r)
  <2>1. resolved = Step
    BY <1>1, <1>5 DEF SessionIgnored, At, LocalOK
  <2>2. [pc |-> "resolve.task"] \in Local
    BY DEF Local
  <2>3. LocalOK([pc |-> "resolve.task"])
    BY <2>1 DEF LocalOK
  <2>4. QED
    BY <1>2, <1>5, <2>2, <2>3 DEF SessionIgnored
<1>6. CASE ScanSkips(r)
  <2>1. /\ req[r].todo \in SUBSET ClaimId
        /\ \A e \in req[r].todo : claims[e] # None /\ claims[e].lease <= clock
    BY <1>1, <1>6, LocalFields DEF ScanSkips, At, LocalOK
  <2>2. \A some \in SUBSET req[r].todo : ScanRest(some) \in Local /\ LocalOK(ScanRest(some))
    BY <2>1, ScanRestPlace
  <2>3. PICK some \in SUBSET req[r].todo : Fails(r, ScanRest(some))
    BY <1>6 DEF ScanSkips
  <2>4. QED
    BY <1>2, <2>2, <2>3
<1>7. QED
  BY <1>3, <1>4, <1>5, <1>6

-----------------------------------------------------------------------------
(* The invariant *)

LEMMA SoundKeeps ==
  ASSUME IInv, NEW r \in Proc, Sound(r)
  PROVE  IInv' /\ Grows
<1>1. PICK l \in Local : Goto(r, l) /\ LocalOK(l)'
  BY DEF Sound, Lands
<1>2. StoreInv' /\ EnvOK' /\ Grows /\ clock' >= clock
  BY DEF Sound
<1>3. req \in [Proc -> Local] /\ req' = [req EXCEPT ![r] = l]
  BY <1>1 DEF IInv, Goto
<1>4. req' \in [Proc -> Local] /\ req'[r] = l /\ \A q \in Proc : q # r => req'[q] = req[q]
  BY <1>3
<1>5. clock \in Nat /\ clock' \in Nat /\ clock <= clock' /\ resolved' \subseteq Step
  BY <1>2, BoundsAssumption DEF IInv, EnvOK, StoreInv, StoreTypeOK
<1>6. ASSUME NEW q \in Proc
      PROVE  LocalOK(req[q])'
  <2>1. CASE q = r
    BY <1>1, <1>4, <2>1
  <2>2. CASE q # r
    <3>1. PICK k \in Local : k = req[q]
      BY <1>3
    <3>2. LocalOK(k)'
      BY <1>2, <1>5, <3>1, LocalStays DEF IInv, StoreInv
    <3>3. req'[q] = k
      BY <1>4, <2>2, <3>1
    <3>4. QED
      BY <3>2, <3>3
  <2>3. QED
    BY <2>1, <2>2
<1>7. QED
  BY <1>2, <1>4, <1>6 DEF IInv

LEMMA TimeKeeps ==
  ASSUME IInv, UNCHANGED <<store, req>>, EnvOK', clock' >= clock
  PROVE  IInv' /\ Grows
<1>1. StoreInv' /\ Grows
  BY ReadsKeep DEF IInv
<1>2. clock \in Nat /\ clock' \in Nat /\ clock <= clock' /\ resolved' \subseteq Step
  BY <1>1, BoundsAssumption DEF IInv, EnvOK, StoreInv, StoreTypeOK
<1>3. ASSUME NEW q \in Proc
      PROVE  LocalOK(req[q])'
  <2>1. PICK k \in Local : k = req[q] /\ LocalOK(k)
    BY DEF IInv
  <2>2. LocalOK(k)'
    BY <1>1, <1>2, <2>1, LocalStays DEF IInv, StoreInv
  <2>3. req'[q] = k
    BY <2>1
  <2>4. QED
    BY <2>2, <2>3
<1>4. QED
  BY <1>1, <1>3 DEF IInv

LEMMA StepKeeps ==
  ASSUME IInv, [Next]_vars
  PROVE  IInv' /\ Grows
<1>1. ASSUME NEW r \in Request, Arrive(r) \/ Continue(r)
      PROVE  IInv' /\ Grows
  <2>1. r \in Proc
    BY DEF Proc
  <2>2. Sound(r)
    BY <1>1, <2>1, JoinSteps, ClaimSteps, ReleaseSteps, HandoffSteps, SubmitSteps, DecisionSteps,
       VoteSteps, ResolveClaimSteps, ResolveEndSteps DEF Arrive, Continue
  <2>3. QED
    BY <2>1, <2>2, SoundKeeps
<1>2. ASSUME NEW w \in Scanner, Scan(w)
      PROVE  IInv' /\ Grows
  BY <1>2, ScanSteps, SoundKeeps DEF Proc
<1>3. ASSUME NEW r \in Proc, Abort(r) \/ ReleaseIgnored(r) \/ SessionIgnored(r) \/ ScanSkips(r)
      PROVE  IInv' /\ Grows
  BY <1>3, FailureSteps, SoundKeeps
<1>4. CASE Tick
  <2>1. EnvOK' /\ clock' >= clock
    BY <1>4, BoundsAssumption DEF Tick, IInv, EnvOK
  <2>2. QED
    BY <1>4, <2>1, TimeKeeps DEF Tick
<1>5. CASE UNCHANGED vars
  <2>1. UNCHANGED <<store, req, clock, failures>>
    BY <1>5 DEF vars, env
  <2>2. EnvOK' /\ clock' >= clock
    BY <2>1, BoundsAssumption DEF IInv, EnvOK
  <2>3. QED
    BY <2>1, <2>2, TimeKeeps
<1>6. QED
  BY <1>1, <1>2, <1>3, <1>4, <1>5 DEF Next

LEMMA InitKeeps == Init => IInv
<1>1. SUFFICES ASSUME Init PROVE IInv
  OBVIOUS
<1>2. StoreTypeOK /\ EnvOK
  BY <1>1, RosterAssumption, BoundsAssumption DEF Init, StoreTypeOK, EnvOK
<1>3. ActiveExclusive /\ PendingExclusive /\ ResolvedRemembered /\ VotesRemembered
  BY <1>1 DEF Init, ActiveExclusive, PendingExclusive, ResolvedRemembered, VotesRemembered, IsActive, IsPending
<1>4. DependenciesFirst /\ ProducersHeldClaims /\ CompletionIsEarned
  BY <1>1 DEF Init, DependenciesFirst, ProducersHeldClaims, CompletionIsEarned
<1>5. \A d \in DecisionId : decisions[d] # None /\ decisions[d].status = "PASSED" => Earned(d)
  BY <1>1 DEF Init
<1>6. req \in [Proc -> Local] /\ \A r \in Proc : LocalOK(req[r])
  BY <1>1, IdleIsLocal DEF Init
<1>7. QED
  BY <1>2, <1>3, <1>4, <1>5, <1>6 DEF IInv, StoreInv

(* The tables stay sound, and every request may rely on what it remembers, *)
(* in every interleaving of requests, scans, failures and time.            *)
THEOREM RequestSafety == Spec => []IInv
<1>1. Init => IInv
  BY InitKeeps
<1>2. IInv /\ [Next]_vars => IInv'
  BY StepKeeps
<1>3. QED
  BY <1>1, <1>2, PTL DEF Spec

(* Tables, clock and requests keep their types. *)
THEOREM TypeCorrect == Spec => []TypeOK
<1>1. IInv => TypeOK
  BY DEF IInv, StoreInv, EnvOK, TypeOK
<1>2. QED
  BY <1>1, RequestSafety, PTL

(* A step never has two ACTIVE claims. *)
THEOREM ClaimsExclusive == Spec => []OneActiveClaim
<1>1. IInv => OneActiveClaim
  <2>1. SUFFICES ASSUME IInv, NEW s \in Step
                 PROVE  Cardinality(ActiveClaims(s)) <= 1
    BY DEF OneActiveClaim
  <2>2. \A c, d \in ActiveClaims(s) : c = d
    BY <2>1 DEF IInv, StoreInv, ActiveExclusive, ActiveClaims
  <2>3. CASE ActiveClaims(s) = {}
    BY <2>3, FS_EmptySet
  <2>4. CASE ActiveClaims(s) # {}
    <3>1. PICK c : ActiveClaims(s) = {c}
      BY <2>2, <2>4
    <3>2. QED
      BY <3>1, FS_Singleton
  <2>5. QED
    BY <2>3, <2>4
<1>2. QED
  BY <1>1, RequestSafety, PTL

(* A step has at most one PENDING decision. *)
THEOREM PendingDecisionsExclusive == Spec => []OnePendingDecision
<1>1. IInv => OnePendingDecision
  <2>1. SUFFICES ASSUME IInv, NEW s \in Step
                 PROVE  Cardinality(PendingOn(s)) <= 1
    BY DEF OnePendingDecision
  <2>2. \A d, e \in PendingOn(s) : d = e
    BY <2>1 DEF IInv, StoreInv, PendingExclusive, PendingOn, DecisionsOn
  <2>3. CASE PendingOn(s) = {}
    BY <2>3, FS_EmptySet
  <2>4. CASE PendingOn(s) # {}
    <3>1. PICK d : PendingOn(s) = {d}
      BY <2>2, <2>4
    <3>2. QED
      BY <3>1, FS_Singleton
  <2>5. QED
    BY <2>3, <2>4
<1>2. QED
  BY <1>1, RequestSafety, PTL

(* Work is begun, handed in and completed in order, whoever interferes.    *)
THEOREM ClaimsRespectDependencies == Spec => []DependenciesFirst
<1>1. IInv => DependenciesFirst
  BY DEF IInv, StoreInv
<1>2. QED
  BY <1>1, RequestSafety, PTL

(* Only participants that held a claim handed in an artifact. *)
THEOREM ProducersWereHolders == Spec => []ProducersHeldClaims
<1>1. IInv => ProducersHeldClaims
  BY DEF IInv, StoreInv
<1>2. QED
  BY <1>1, RequestSafety, PTL

(* Session and task complete only after every step was resolved. *)
THEOREM CompletionNeedsEveryStep == Spec => []CompletionIsEarned
<1>1. IInv => CompletionIsEarned
  BY DEF IInv, StoreInv
<1>2. QED
  BY <1>1, RequestSafety, PTL

(* All three at once: what the run of the completions checks. *)
THEOREM WorkIsOrdered == Spec => []WorkInOrder
<1>1. OneActiveClaim /\ DependenciesFirst /\ CompletionIsEarned => WorkInOrder
  BY DEF WorkInOrder
<1>2. QED
  BY <1>1, ClaimsExclusive, ClaimsRespectDependencies, CompletionNeedsEveryStep, PTL

(* No lost update makes a decision pass that was not earned. *)
THEOREM VerdictsAreEarned == Spec => []PassedIsEarned
<1>1. IInv => PassedIsEarned
  BY DEF IInv, StoreInv, PassedIsEarned, Earned, Approvers, Electorate
<1>2. QED
  BY <1>1, RequestSafety, PTL

(* An ended claim stays ended, and the scan ends none whose lease runs.    *)
THEOREM ClaimsAreNotRevived == Spec => ClaimsEndOnce
<1>1. IInv /\ [Next]_vars =>
        [\A c \in ClaimId : claims[c] # None =>
           /\ claims'[c] # None
           /\ claims'[c] = [claims[c] EXCEPT !.status = claims'[c].status]
           /\ claims'[c].status = "ACTIVE" => claims[c].status = "ACTIVE"]_vars
  BY StepKeeps DEF Grows
<1>2. QED
  BY <1>1, RequestSafety, PTL DEF Spec, ClaimsEndOnce

(* The scan takes no claim away whose lease still runs. *)
THEOREM LeasesAreHonoured == Spec => NoEviction
<1>1. IInv /\ [Next]_vars =>
        [\A c \in ClaimId :
           IsActive(c) /\ claims'[c].status = "EXPIRED" => claims[c].lease <= clock]_vars
  BY StepKeeps DEF Grows, IsActive
<1>2. QED
  BY <1>1, RequestSafety, PTL DEF Spec, NoEviction

-----------------------------------------------------------------------------
(* No completion is lost.  The steps become all RESOLVED by a request that *)
(* then goes on to count them, and until the session and the task are      *)
(* COMPLETED some request is on its way to complete them.                  *)

CompletingPlaces == {"resolve.count", "resolve.session", "resolve.task"}
Completing(l) ==
  \/ l.pc \in {"resolve.count", "resolve.session"}
  \/ l.pc = "resolve.task" /\ session = "COMPLETED"
Completes ==
  failures = 0 /\ AllResolved =>
    \/ \E r \in Proc : Completing(req[r])
    \/ session = "COMPLETED" /\ task = "COMPLETED"

(* A step of r that has nothing to do with the completion. *)
Aside(r) ==
  /\ req[r].pc \notin CompletingPlaces
  /\ \E l : Goto(r, l)
  /\ UNCHANGED <<outcome, failures>>
  /\ AllResolved' => AllResolved

LEMMA StoresAside ==
  ASSUME IInv, NEW r \in Proc, NEW st \in {"OPEN", "CLAIMED", "IN_REVIEW"},
         NEW pc \in {"claim.store", "release.store", "handoff.store", "submit.store"},
         Store(r, pc, st)
  PROVE  Aside(r)
<1>1. req[r].pc = pc /\ req[r] \in Local
  BY DEF Store, At, IInv
<1>2. req[r].step \in Step
  BY <1>1, LocalFields
<1>3. status \in [Step -> {"OPEN", "CLAIMED", "IN_REVIEW", "RESOLVED"}]
  BY DEF IInv, StoreInv, StoreTypeOK
<1>4. status'[req[r].step] = st
  BY <1>2, <1>3 DEF Store, UpdateStep
<1>5. ~AllResolved'
  BY <1>2, <1>4 DEF AllResolved
<1>6. QED
  BY <1>1, <1>5 DEF Store, Aside, CompletingPlaces, Return, env

LEMMA ReadsAside ==
  ASSUME NEW r \in Proc,
         Arrive(r) \/ ScanList(r) \/ ClaimDeps(r) \/ ClaimLook(r) \/ SubmitVersion(r)
           \/ OpenLook(r) \/ VoteCount(r) \/ ResolveGate(r) \/ ResolveFind(r)
  PROVE  Aside(r)
<1>1. req[r].pc \notin CompletingPlaces
  BY DEF CompletingPlaces, At, Arrives, Arrive, JoinLook, ClaimLoad, ReleaseLook, HandoffLook, SubmitLook,
         OpenLoad, VoteLoad, ResolveLoad, ScanList, ClaimDeps, ClaimLook, SubmitVersion, OpenLook,
         VoteCount, ResolveGate, ResolveFind
<1>2. UNCHANGED <<store, env>>
  BY DEF Arrive, JoinLook, ClaimLoad, ReleaseLook, HandoffLook, SubmitLook,
         OpenLoad, VoteLoad, ResolveLoad, ScanList, ClaimDeps, ClaimLook, SubmitVersion, OpenLook,
         VoteCount, ResolveGate, ResolveFind
<1>3. \E l : Goto(r, l)
  <2>1. CASE Arrive(r)
    BY <2>1, Zenon DEF Arrive, JoinLook, ClaimLoad, ReleaseLook, HandoffLook, SubmitLook,
         OpenLoad, VoteLoad, ResolveLoad
  <2>2. CASE ScanList(r) \/ ClaimDeps(r) \/ ClaimLook(r) \/ SubmitVersion(r)
    BY <2>2, Zenon DEF ScanList, ClaimDeps, ClaimLook, SubmitVersion, Return
  <2>3. CASE OpenLook(r) \/ VoteCount(r) \/ ResolveGate(r) \/ ResolveFind(r)
    BY <2>3, Zenon DEF OpenLook, VoteCount, ResolveGate, ResolveFind, Return
  <2>4. QED
    BY <2>1, <2>2, <2>3
<1>4. QED
  BY <1>1, <1>2, <1>3 DEF Aside, store, env, steps, AllResolved

LEMMA WritesAside ==
  ASSUME NEW r \in Proc,
         JoinInsert(r) \/ ClaimInsert(r) \/ ReleaseClaim(r) \/ HandoffRelease(r) \/ HandoffInsert(r)
           \/ SubmitInsert(r) \/ OpenInsert(r) \/ VoteInsert(r) \/ VoteStore(r)
           \/ ResolveRelease(r) \/ ScanExpire(r)
  PROVE  Aside(r)
<1>1. req[r].pc \notin CompletingPlaces
  BY DEF CompletingPlaces, At, JoinInsert, ClaimInsert, ReleaseClaim, HandoffRelease, HandoffInsert,
         SubmitInsert, OpenInsert, VoteInsert, VoteStore, ResolveRelease, ScanExpire
<1>2. UNCHANGED <<status, outcome, failures>>
  BY DEF JoinInsert, ClaimInsert, ReleaseClaim, HandoffRelease, HandoffInsert, SubmitInsert, OpenInsert,
         VoteInsert, VoteStore, ResolveRelease, ScanExpire, steps, env
<1>3. \E l : Goto(r, l)
  <2>1. CASE JoinInsert(r) \/ ClaimInsert(r) \/ ReleaseClaim(r) \/ HandoffRelease(r)
    BY <2>1, Zenon DEF JoinInsert, ClaimInsert, ReleaseClaim, HandoffRelease, Return
  <2>2. CASE HandoffInsert(r) \/ SubmitInsert(r) \/ OpenInsert(r) \/ VoteInsert(r)
    BY <2>2, Zenon DEF HandoffInsert, SubmitInsert, OpenInsert, VoteInsert, Return
  <2>3. CASE VoteStore(r) \/ ResolveRelease(r) \/ ScanExpire(r)
    BY <2>3, Zenon DEF VoteStore, ResolveRelease, ScanExpire, Return
  <2>4. QED
    BY <2>1, <2>2, <2>3
<1>4. QED
  BY <1>1, <1>2, <1>3 DEF Aside, AllResolved

LEMMA ScanStoreAside ==
  ASSUME IInv, NEW r \in Proc, ScanStore(r)
  PROVE  Aside(r)
<1>1. req[r].pc = "scan.store" /\ req[r] \in Local
  BY DEF ScanStore, At, IInv
<1>2. req[r].step \in Step
  BY <1>1, LocalFields
<1>3. status \in [Step -> {"OPEN", "CLAIMED", "IN_REVIEW", "RESOLVED"}]
  BY DEF IInv, StoreInv, StoreTypeOK
<1>4. status'[req[r].step] = "OPEN"
  BY <1>2, <1>3 DEF ScanStore, UpdateStep
<1>5. ~AllResolved'
  BY <1>2, <1>4 DEF AllResolved
<1>6. \E l : Goto(r, l)
  BY DEF ScanStore
<1>7. QED
  BY <1>1, <1>5, <1>6 DEF ScanStore, Aside, CompletingPlaces, env

LEMMA AsideCompletes ==
  ASSUME IInv, Completes, NEW r \in Proc, Aside(r)
  PROVE  Completes'
<1>1. SUFFICES ASSUME failures = 0, AllResolved
               PROVE  \/ \E q \in Proc : Completing(req[q])'
                      \/ (session = "COMPLETED" /\ task = "COMPLETED")'
  BY DEF Completes, Aside
<1>2. PICK l : req' = [req EXCEPT ![r] = l]
  BY DEF Aside, Goto
<1>3. CASE session = "COMPLETED" /\ task = "COMPLETED"
  BY <1>3 DEF Aside, outcome
<1>4. ASSUME NEW q \in Proc, Completing(req[q])
      PROVE  Completing(req[q])'
  <2>1. q # r
    BY <1>4 DEF Aside, Completing, CompletingPlaces
  <2>2. req'[q] = req[q]
    BY <1>2, <2>1 DEF IInv
  <2>3. QED
    BY <1>4, <2>2 DEF Completing, Aside, outcome
<1>5. QED
  BY <1>1, <1>3, <1>4 DEF Completes

LEMMA ResolveCompletes ==
  ASSUME IInv, Completes, NEW r \in Proc,
         ResolveStore(r) \/ ResolveCount(r) \/ ResolveSession(r) \/ ResolveTask(r)
  PROVE  Completes'
<1>1. req \in [Proc -> Local]
  BY DEF IInv
<1>2. CASE ResolveStore(r)
  <2>1. req'[r] = [pc |-> "resolve.count"]
    BY <1>1, <1>2 DEF ResolveStore, Goto
  <2>2. QED
    BY <2>1 DEF Completes, Completing
<1>3. ASSUME NEW q \in Proc, q # r, Completing(req[q]), NEW l, Goto(r, l),
             session = "COMPLETED" => session' = "COMPLETED"
      PROVE  Completing(req[q])'
  <2>1. req'[q] = req[q]
    BY <1>1, <1>3 DEF Goto
  <2>2. QED
    BY <1>3, <2>1 DEF Completing
<1>4. CASE ResolveCount(r)
  <2>1. UNCHANGED <<status, session, task, failures>>
    BY <1>4 DEF ResolveCount, store, steps, outcome, env
  <2>2. CASE AllResolved
    <3>1. req'[r] = [pc |-> "resolve.session"]
      BY <1>1, <1>4, <2>2 DEF ResolveCount, Goto
    <3>2. QED
      BY <3>1 DEF Completes, Completing
  <2>3. CASE ~AllResolved
    BY <2>1, <2>3 DEF Completes, AllResolved
  <2>4. QED
    BY <2>2, <2>3
<1>5. CASE ResolveSession(r)
  <2>1. req'[r] = [pc |-> "resolve.task"] /\ session' = "COMPLETED"
    BY <1>1, <1>5 DEF ResolveSession, Goto
  <2>2. QED
    BY <2>1 DEF Completes, Completing
<1>6. CASE ResolveTask(r)
  <2>1. /\ UNCHANGED <<status, session, failures>> /\ task' = "COMPLETED"
        /\ req[r].pc = "resolve.task" /\ Goto(r, Idle)
    BY <1>6 DEF ResolveTask, At, Return, steps, env
  <2>2. CASE session = "COMPLETED"
    BY <2>1, <2>2 DEF Completes
  <2>3. CASE session # "COMPLETED"
    <3>1. SUFFICES ASSUME failures = 0, AllResolved
                   PROVE  \E q \in Proc : Completing(req[q])'
      BY <2>1 DEF Completes, AllResolved
    <3>2. PICK q \in Proc : Completing(req[q])
      BY <2>3, <3>1 DEF Completes
    <3>3. q # r
      BY <2>1, <2>3, <3>2 DEF Completing
    <3>4. QED
      BY <1>3, <2>1, <3>2, <3>3
  <2>4. QED
    BY <2>2, <2>3
<1>7. QED
  BY <1>2, <1>4, <1>5, <1>6

LEMMA CompletesStays ==
  ASSUME IInv, Completes, [Next]_vars
  PROVE  Completes'
<1>1. ASSUME NEW r \in Request, Arrive(r) \/ Continue(r)
      PROVE  Completes'
  <2>1. r \in Proc
    BY DEF Proc
  <2>2. CASE ClaimStore(r) \/ ReleaseStore(r) \/ HandoffStore(r) \/ SubmitStore(r)
    <3>1. /\ ClaimStore(r) => Aside(r)
          /\ ReleaseStore(r) => Aside(r)
          /\ HandoffStore(r) => Aside(r)
          /\ SubmitStore(r) => Aside(r)
      BY <2>1, StoresAside DEF ClaimStore, ReleaseStore, HandoffStore, SubmitStore
    <3>2. QED
      BY <2>1, <2>2, <3>1, AsideCompletes
  <2>3. CASE Arrive(r) \/ ClaimDeps(r) \/ ClaimLook(r) \/ SubmitVersion(r) \/ OpenLook(r)
               \/ VoteCount(r) \/ ResolveGate(r) \/ ResolveFind(r)
    <3>1. Aside(r)
      BY <2>1, <2>3, ReadsAside
    <3>2. QED
      BY <2>1, <3>1, AsideCompletes
  <2>4. CASE JoinInsert(r) \/ ClaimInsert(r) \/ ReleaseClaim(r) \/ HandoffRelease(r)
               \/ HandoffInsert(r) \/ SubmitInsert(r) \/ OpenInsert(r) \/ VoteInsert(r)
               \/ VoteStore(r) \/ ResolveRelease(r)
    <3>1. Aside(r)
      BY <2>1, <2>4, WritesAside
    <3>2. QED
      BY <2>1, <3>1, AsideCompletes
  <2>5. CASE ResolveStore(r) \/ ResolveCount(r) \/ ResolveSession(r) \/ ResolveTask(r)
    BY <2>1, <2>5, ResolveCompletes
  <2>6. QED
    BY <1>1, <2>2, <2>3, <2>4, <2>5 DEF Continue
<1>2. ASSUME NEW w \in Scanner, Scan(w)
      PROVE  Completes'
  <2>1. w \in Proc
    BY DEF Proc
  <2>2. Aside(w)
    BY <1>2, <2>1, ReadsAside, WritesAside, ScanStoreAside DEF Scan, ScanOn
  <2>3. QED
    BY <2>1, <2>2, AsideCompletes
<1>3. ASSUME NEW r \in Proc, Abort(r) \/ ReleaseIgnored(r) \/ SessionIgnored(r) \/ ScanSkips(r)
      PROVE  Completes'
  <2>1. failures' = failures + 1
    BY <1>3 DEF Abort, ReleaseIgnored, SessionIgnored, ScanSkips, Fails
  <2>2. failures \in Nat
    BY BoundsAssumption DEF IInv, EnvOK
  <2>3. failures' # 0
    BY <2>1, <2>2
  <2>4. QED
    BY <2>3 DEF Completes
<1>4. CASE Tick \/ UNCHANGED vars
  <2>1. UNCHANGED <<store, req, failures>>
    BY <1>4 DEF Tick, vars, env
  <2>2. QED
    BY <2>1 DEF Completes, Completing, AllResolved, store, steps, outcome
<1>5. QED
  BY <1>1, <1>2, <1>3, <1>4 DEF Next

(* However requests and scans interleave: once the last step is resolved   *)
(* and all is quiet, session and task are COMPLETED, unless a statement    *)
(* failed.                                                                 *)
THEOREM CompletionIsNotLost == Spec => []NoLostCompletion
<1>1. Init => Completes
  BY StepAssumption DEF Init, Completes, AllResolved
<1>2. IInv /\ Completes /\ [Next]_vars => Completes'
  BY CompletesStays
<1>3. Completes => NoLostCompletion
  BY DEF Completes, Completing, NoLostCompletion, Quiet, At
<1>4. QED
  BY <1>1, <1>2, <1>3, RequestSafety, PTL DEF Spec

-----------------------------------------------------------------------------
(* One request at a time, and none failing.  Between requests the tables   *)
(* agree; in the middle of one they agree but for the step, or the         *)
(* decision, it has in hand.                                               *)

OneAtATime == MaxFailures = 0 /\ \E r : Request = {r} /\ Scanner = {r}

Settled(s) ==
  IF status[s] = "RESOLVED"
  THEN RunningClaims(s, clock) = {}
  ELSE status[s] \in {"CLAIMED", "IN_REVIEW"} <=> ActiveClaims(s) # {}

ClaimedPlaces ==
  {"claim.store", "handoff.store", "submit.version", "submit.insert", "submit.store"}
FreedPlaces == {"release.store", "handoff.insert", "scan.store"}
UnsettledPlaces ==
  {"claim.store", "release.store", "handoff.insert", "handoff.store", "resolve.store", "scan.store"}

(* What the request at place l has done to the claims, and relies on. *)
ClaimsInHand(l) ==
  /\ l.pc \in ClaimedPlaces => ActiveClaims(l.step) # {}
  /\ l.pc \in FreedPlaces => ActiveClaims(l.step) = {}
  /\ l.pc \in {"release", "handoff"} => IsActive(l.claim)
  /\ l.pc = "resolve.release" => IsActive(l.claim) /\ claims[l.claim].step = l.step
  /\ l.pc = "resolve.store" => RunningClaims(l.step, clock) = {}
  /\ l.pc \in {"scan", "scan.store"} => \A c \in l.todo : IsActive(c)
StepsSettled(l) ==
  \A s \in Step : Settled(s) \/ (l.pc \in UnsettledPlaces /\ l.step = s)

Board(r) == ClaimsInHand(req[r]) /\ StepsSettled(req[r])

Judged(d) == decisions[d] # None => decisions[d].status = Verdict(d)
Approved(s) == status[s] = "RESOLVED" => \A d \in Latest(s) : decisions[d].status = "PASSED"
VotesHaveRows == \A d \in DecisionId : decisions[d] = None => \A p \in Participant : votes[d][p] = None

(* Likewise of the decisions and votes. *)
ReviewInHand(l) ==
  /\ l.pc \in {"open.look", "open.insert"} => status[l.step] # "RESOLVED"
  /\ l.pc \in {"vote.insert", "vote.count", "vote.store"} => decisions[l.decision].status = "PENDING"
  /\ l.pc = "vote.store" => l.verdict = Verdict(l.decision)
  /\ l.pc \in {"resolve.find", "resolve.release", "resolve.store"} =>
       \A d \in Latest(l.step) : decisions[d].status = "PASSED"
DecisionsJudged(l) ==
  \A d \in DecisionId : Judged(d) \/ (l.pc \in {"vote.count", "vote.store"} /\ l.decision = d)

Reviews(r) ==
  /\ ReviewInHand(req[r]) /\ DecisionsJudged(req[r])
  /\ \A s \in Step : Approved(s)
  /\ VotesHaveRows

-----------------------------------------------------------------------------
(* What the statements leave of a settled step.                            *)

LEMMA SettledReads ==
  ASSUME IInv, UNCHANGED <<status, claims>>, clock' \in Nat, clock <= clock'
  PROVE  /\ \A s \in Step : Settled(s) => Settled(s)'
         /\ \A s \in Step : ActiveClaims(s)' = ActiveClaims(s)
         /\ \A s \in Step : RunningClaims(s, clock)' \subseteq RunningClaims(s, clock)
         /\ \A c \in ClaimId : IsActive(c)' = IsActive(c)
<1>1. \A c \in ClaimId : claims[c] # None => claims[c].lease \in Nat
  BY DEF IInv, StoreInv, StoreTypeOK, ClaimRow
<1>2. \A c \in ClaimId : IsActive(c)' = IsActive(c)
  BY DEF IsActive
<1>3. \A s \in Step : ActiveClaims(s)' = ActiveClaims(s)
  BY <1>2 DEF ActiveClaims
<1>4. clock \in Nat
  BY BoundsAssumption DEF IInv, EnvOK
<1>5. ASSUME NEW s \in Step
      PROVE  RunningClaims(s, clock)' \subseteq RunningClaims(s, clock)
  <2>1. SUFFICES ASSUME NEW c \in ActiveClaims(s), claims[c].lease > clock'
                 PROVE  claims[c].lease > clock
    BY <1>3 DEF RunningClaims
  <2>2. c \in ClaimId /\ claims[c] # None
    BY DEF ActiveClaims, IsActive
  <2>3. QED
    BY <1>1, <1>4, <2>1, <2>2
<1>6. \A s \in Step : Settled(s) => Settled(s)'
  BY <1>3, <1>5 DEF Settled
<1>7. QED
  BY <1>2, <1>3, <1>5, <1>6

LEMMA SettledUpdateStep ==
  ASSUME IInv, NEW s \in Step, NEW st \in {"OPEN", "CLAIMED", "IN_REVIEW", "RESOLVED"},
         UpdateStep(s, st), UNCHANGED <<claims, clock>>,
         st = "OPEN" => ActiveClaims(s) = {},
         st \in {"CLAIMED", "IN_REVIEW"} => ActiveClaims(s) # {},
         st = "RESOLVED" => RunningClaims(s, clock) = {}
  PROVE  /\ Settled(s)'
         /\ \A q \in Step : q # s /\ Settled(q) => Settled(q)'
         /\ \A c \in ClaimId : IsActive(c)' = IsActive(c)
<1>1. \A c \in ClaimId : IsActive(c)' = IsActive(c)
  BY DEF IsActive
<1>2. \A q \in Step : /\ ActiveClaims(q)' = ActiveClaims(q)
                      /\ RunningClaims(q, clock)' = RunningClaims(q, clock)
  BY <1>1 DEF ActiveClaims, RunningClaims
<1>3. status'[s] = st /\ \A q \in Step : q # s => status'[q] = status[q]
  BY DEF UpdateStep, IInv, StoreInv, StoreTypeOK
<1>4. QED
  BY <1>1, <1>2, <1>3 DEF Settled

LEMMA SettledUpdateClaim ==
  ASSUME IInv, NEW c \in ClaimId, IsActive(c), NEW st \in {"RELEASED", "EXPIRED"},
         UpdateClaimStatus(c, st), UNCHANGED <<status, clock>>
  PROVE  /\ claims[c].step \in Step
         /\ ActiveClaims(claims[c].step)' = {}
         /\ claims'[c].step = claims[c].step
         /\ \A q \in Step : q # claims[c].step /\ Settled(q) => Settled(q)'
         /\ \A e \in ClaimId : e # c => IsActive(e)' = IsActive(e)
<1>1. claims \in [ClaimId -> ClaimRow \cup {None}] /\ claims[c] \in ClaimRow
  BY DEF IInv, StoreInv, StoreTypeOK, IsActive
<1>2. PICK row \in ClaimRow : row = [claims[c] EXCEPT !.status = st]
  BY <1>1 DEF ClaimRow
<1>3. row.step = claims[c].step /\ row.status = st
  BY <1>1, <1>2 DEF ClaimRow
<1>4. claims'[c] = row /\ \A e \in ClaimId : e # c => claims'[e] = claims[e]
  BY <1>1, <1>2 DEF UpdateClaimStatus
<1>5. ~IsActive(c)'
  BY <1>3, <1>4 DEF IsActive
<1>6. \A e \in ClaimId : e # c => IsActive(e)' = IsActive(e)
  BY <1>4 DEF IsActive
<1>7. \A e \in ClaimId : e # c /\ IsActive(e) => claims[e].step # claims[c].step
  BY DEF IInv, StoreInv, ActiveExclusive
<1>8. PICK t \in Step : t = claims[c].step
  BY <1>1 DEF ClaimRow
<1>9. ActiveClaims(t)' = {}
  BY <1>4, <1>5, <1>6, <1>7, <1>8 DEF ActiveClaims
<1>10. ASSUME NEW q \in Step, q # t, Settled(q)
       PROVE  Settled(q)'
  <2>1. ActiveClaims(q)' = ActiveClaims(q)
    BY <1>4, <1>5, <1>6, <1>8, <1>10 DEF ActiveClaims
  <2>2. c \notin ActiveClaims(q)
    BY <1>8, <1>10 DEF ActiveClaims
  <2>3. RunningClaims(q, clock)' = RunningClaims(q, clock)
    BY <1>4, <2>1, <2>2 DEF RunningClaims, ActiveClaims
  <2>4. QED
    BY <1>10, <2>1, <2>3 DEF Settled
<1>11. ActiveClaims(claims[c].step)' = {}
  <2>1. claims'[c].step = t
    BY <1>3, <1>4, <1>8
  <2>2. QED
    BY <1>9, <2>1
<1>12. QED
  BY <1>3, <1>4, <1>6, <1>8, <1>10, <1>11

LEMMA SettledCreateClaim ==
  ASSUME IInv, NEW s \in Step, NEW p \in Participant, NEW until \in Nat,
         CreateClaim(s, p, until), UNCHANGED <<status, clock>>
  PROVE  /\ ActiveClaims(s)' # {}
         /\ \A q \in Step : q # s /\ Settled(q) => Settled(q)'
<1> DEFINE row == [step |-> s, by |-> p, status |-> "ACTIVE", lease |-> until]
<1>1. claims \in [ClaimId -> ClaimRow \cup {None}] /\ row \in ClaimRow
  BY DEF IInv, StoreInv, StoreTypeOK, ClaimRow
<1>2. row # None /\ row.step = s /\ row.status = "ACTIVE"
  BY <1>1, NoneAssumption
<1>3. PICK c \in ClaimId : claims[c] = None /\ claims' = [claims EXCEPT ![c] = row]
  BY DEF CreateClaim
<1> HIDE DEF row
<1>4. claims'[c] = row /\ \A e \in ClaimId : e # c => claims'[e] = claims[e]
  BY <1>1, <1>3
<1>5. c \in ActiveClaims(s)'
  BY <1>2, <1>4 DEF ActiveClaims, IsActive
<1>6. ASSUME NEW q \in Step, q # s, Settled(q)
      PROVE  Settled(q)'
  <2>1. ActiveClaims(q)' = ActiveClaims(q) /\ c \notin ActiveClaims(q)
    BY <1>2, <1>3, <1>4, <1>6 DEF ActiveClaims, IsActive
  <2>2. RunningClaims(q, clock)' = RunningClaims(q, clock)
    BY <1>4, <2>1 DEF RunningClaims, ActiveClaims
  <2>3. QED
    BY <1>6, <2>1, <2>2 DEF Settled
<1>7. QED
  BY <1>5, <1>6

-----------------------------------------------------------------------------
(* A request that only reads keeps the board.                              *)

(* At these places nothing is relied on. *)
Plain(l) ==
  l.pc \notin ClaimedPlaces \cup FreedPlaces
              \cup {"release", "handoff", "resolve.release", "resolve.store", "scan", "scan.store"}

LEMMA BoardPasses ==
  ASSUME IInv, NEW r \in Proc, Board(r), UNCHANGED <<status, claims, clock>>,
         req[r].pc \notin UnsettledPlaces, NEW l, Goto(r, l), ClaimsInHand(l)
  PROVE  Board(r)'
<1>1. req'[r] = l
  BY DEF IInv, Goto
<1>2. clock' \in Nat /\ clock <= clock'
  BY BoundsAssumption DEF IInv, EnvOK
<1>3. \A s \in Step : Settled(s)'
  BY <1>2, SettledReads DEF Board, StepsSettled
<1>4. ClaimsInHand(l)'
  BY DEF ClaimsInHand, ActiveClaims, RunningClaims, IsActive
<1>5. ClaimsInHand(req[r])'
  BY <1>1, <1>4 DEF ClaimsInHand, ActiveClaims, RunningClaims, IsActive
<1>6. QED
  BY <1>3, <1>5 DEF Board, StepsSettled

LEMMA PlainBoard ==
  ASSUME NEW l, Plain(l)
  PROVE  ClaimsInHand(l)
BY DEF Plain, ClaimsInHand

LEMMA PlainSteps ==
  ASSUME IInv, NEW r \in Proc, Board(r),
         \/ JoinLook(r) \/ ClaimLoad(r) \/ OpenLoad(r) \/ VoteLoad(r) \/ ResolveLoad(r)
         \/ JoinInsert(r) \/ ClaimDeps(r) \/ ClaimLook(r) \/ OpenLook(r) \/ OpenInsert(r)
         \/ VoteInsert(r) \/ VoteCount(r) \/ VoteStore(r)
         \/ ResolveGate(r) \/ ResolveCount(r) \/ ResolveSession(r) \/ ResolveTask(r)
  PROVE  Board(r)'
<1>1. UNCHANGED <<status, claims, clock>>
  BY DEF JoinLook, ClaimLoad, OpenLoad, VoteLoad, ResolveLoad, JoinInsert, ClaimDeps, ClaimLook,
         OpenLook, OpenInsert, VoteInsert, VoteCount, VoteStore, ResolveGate, ResolveCount,
         ResolveSession, ResolveTask, store, steps, env
<1>2. req[r].pc \notin UnsettledPlaces
  BY DEF UnsettledPlaces, At, Arrives, JoinLook, ClaimLoad, OpenLoad, VoteLoad, ResolveLoad, JoinInsert,
         ClaimDeps, ClaimLook, OpenLook, OpenInsert, VoteInsert, VoteCount, VoteStore, ResolveGate,
         ResolveCount, ResolveSession, ResolveTask
<1>3. \E l : Goto(r, l) /\ Plain(l)
  <2>1. /\ Plain(Idle)
        /\ \A p, caps : Plain([pc |-> "join", by |-> p, caps |-> caps])
        /\ \A s, p : Plain([pc |-> "claim.deps", step |-> s, by |-> p])
        /\ \A s, p, until : Plain([pc |-> "claim.insert", step |-> s, by |-> p, until |-> until])
        /\ \A s : Plain([pc |-> "open.look", step |-> s])
        /\ \A s, created : Plain([pc |-> "open.insert", step |-> s, created |-> created])
    BY DEF Plain, Idle, ClaimedPlaces, FreedPlaces
  <2>2. /\ \A d, p, choice :
             Plain([pc |-> "vote.insert", decision |-> d, by |-> p, choice |-> choice])
        /\ \A d : Plain([pc |-> "vote.count", decision |-> d])
        /\ \A d, v : Plain([pc |-> "vote.store", decision |-> d, verdict |-> v])
        /\ \A s, p : Plain([pc |-> "resolve.gate", step |-> s, by |-> p])
        /\ Plain([pc |-> "resolve.session"]) /\ Plain([pc |-> "resolve.task"])
    BY DEF Plain, ClaimedPlaces, FreedPlaces
  <2>3. Plain([req[r] EXCEPT !.pc = "claim.look"]) /\ Plain([req[r] EXCEPT !.pc = "resolve.find"])
    <3>1. req[r] \in Local
      BY DEF IInv
    <3>2. /\ [req[r] EXCEPT !.pc = "claim.look"].pc = "claim.look"
          /\ [req[r] EXCEPT !.pc = "resolve.find"].pc = "resolve.find"
      BY <3>1 DEF Local
    <3>3. QED
      BY <3>2 DEF Plain, ClaimedPlaces, FreedPlaces
  <2>4. CASE JoinLook(r) \/ ClaimLoad(r) \/ OpenLoad(r) \/ VoteLoad(r) \/ ResolveLoad(r)
    BY <2>1, <2>2, <2>4, Zenon DEF JoinLook, ClaimLoad, OpenLoad, VoteLoad, ResolveLoad
  <2>5. CASE JoinInsert(r) \/ ClaimDeps(r) \/ ClaimLook(r) \/ OpenLook(r) \/ OpenInsert(r)
    BY <2>1, <2>3, <2>5, Zenon DEF JoinInsert, ClaimDeps, ClaimLook, OpenLook, OpenInsert, Return
  <2>6. CASE VoteInsert(r) \/ VoteCount(r) \/ VoteStore(r) \/ ResolveGate(r)
    BY <2>1, <2>2, <2>3, <2>6, Zenon DEF VoteInsert, VoteCount, VoteStore, ResolveGate, Return
  <2>7. CASE ResolveCount(r) \/ ResolveSession(r) \/ ResolveTask(r)
    BY <2>1, <2>2, <2>7, Zenon DEF ResolveCount, ResolveSession, ResolveTask, Return
  <2>8. QED
    BY <2>4, <2>5, <2>6, <2>7
<1>4. QED
  BY <1>1, <1>2, <1>3, PlainBoard, BoardPasses

LEMMA LookSteps ==
  ASSUME IInv, NEW r \in Proc, Board(r),
         \/ ReleaseLook(r) \/ HandoffLook(r) \/ SubmitLook(r) \/ SubmitVersion(r) \/ SubmitInsert(r)
         \/ ResolveFind(r) \/ ScanList(r)
  PROVE  Board(r)'
<1>1. UNCHANGED <<status, claims, clock>>
  BY DEF ReleaseLook, HandoffLook, SubmitLook, SubmitVersion, SubmitInsert, ResolveFind, ScanList,
         store, steps, env
<1>2. req[r].pc \notin UnsettledPlaces
  BY DEF UnsettledPlaces, At, Arrives, ReleaseLook, HandoffLook, SubmitLook, SubmitVersion,
         SubmitInsert, ResolveFind, ScanList
<1>3. SUFFICES ASSUME TRUE
               PROVE  \E l : Goto(r, l) /\ ClaimsInHand(l)
  BY <1>1, <1>2, BoardPasses
<1>4. ClaimsInHand(Idle)
  BY DEF Idle, ClaimsInHand, ClaimedPlaces, FreedPlaces
<1>5. CASE ReleaseLook(r)
  <2>1. PICK s \in Step, p \in Participant :
          \E c \in RunningClaimsOf(s, p, clock) : Goto(r, [pc |-> "release", claim |-> c])
    BY <1>5 DEF ReleaseLook
  <2>2. PICK c \in RunningClaimsOf(s, p, clock) : Goto(r, [pc |-> "release", claim |-> c])
    BY <2>1
  <2>3. IsActive(c)
    BY DEF RunningClaimsOf, RunningClaims, ActiveClaims
  <2>4. ClaimsInHand([pc |-> "release", claim |-> c])
    BY <2>3 DEF ClaimsInHand, ClaimedPlaces, FreedPlaces
  <2>5. QED
    BY <2>2, <2>4
<1>6. CASE HandoffLook(r)
  <2>1. PICK s \in Step, p \in Participant, to \in Participant, secs \in Leases :
          \E c \in RunningClaimsOf(s, p, clock) :
            Goto(r, [pc |-> "handoff", claim |-> c, to |-> to, until |-> clock + secs])
    BY <1>6 DEF HandoffLook
  <2>2. PICK c \in RunningClaimsOf(s, p, clock) :
          Goto(r, [pc |-> "handoff", claim |-> c, to |-> to, until |-> clock + secs])
    BY <2>1
  <2>3. IsActive(c)
    BY DEF RunningClaimsOf, RunningClaims, ActiveClaims
  <2>4. ClaimsInHand([pc |-> "handoff", claim |-> c, to |-> to, until |-> clock + secs])
    BY <2>3 DEF ClaimsInHand, ClaimedPlaces, FreedPlaces
  <2>5. QED
    BY <2>2, <2>4
<1>7. CASE SubmitLook(r)
  <2>1. PICK s \in Step, p \in Participant :
          /\ RunningClaimsOf(s, p, clock) # {}
          /\ Goto(r, [pc |-> "submit.version", step |-> s, by |-> p])
    BY <1>7 DEF SubmitLook
  <2>2. ActiveClaims(s) # {}
    BY <2>1 DEF RunningClaimsOf, RunningClaims
  <2>3. ClaimsInHand([pc |-> "submit.version", step |-> s, by |-> p])
    BY <2>2 DEF ClaimsInHand, ClaimedPlaces, FreedPlaces
  <2>4. QED
    BY <2>1, <2>3
<1>8. CASE SubmitVersion(r)
  <2> DEFINE l == [pc |-> "submit.insert", step |-> req[r].step, by |-> req[r].by,
                   version |-> Len(artifacts[req[r].step]) + 1]
  <2>1. ActiveClaims(req[r].step) # {} /\ Goto(r, l)
    BY <1>8 DEF SubmitVersion, At, Board, ClaimsInHand, ClaimedPlaces
  <2>2. l.pc = "submit.insert" /\ l.step = req[r].step
    OBVIOUS
  <2> HIDE DEF l
  <2>3. ClaimsInHand(l)
    BY <2>1, <2>2 DEF ClaimsInHand, ClaimedPlaces, FreedPlaces
  <2>4. QED
    BY <2>1, <2>3
<1>9. CASE SubmitInsert(r)
  <2>1. ActiveClaims(req[r].step) # {}
    BY <1>9 DEF SubmitInsert, At, Board, ClaimsInHand, ClaimedPlaces
  <2>2. ClaimsInHand([pc |-> "submit.store", step |-> req[r].step])
    BY <2>1 DEF ClaimsInHand, ClaimedPlaces, FreedPlaces
  <2>3. QED
    BY <1>4, <1>9, <2>2, Zenon DEF SubmitInsert, Return
<1>10. CASE ResolveFind(r)
  <2> DEFINE s == req[r].step
  <2>1. \/ Goto(r, Idle)
        \/ RunningClaims(s, clock) = {} /\ Goto(r, [pc |-> "resolve.store", step |-> s])
        \/ \E c \in RunningClaims(s, clock) :
             Goto(r, [pc |-> "resolve.release", step |-> s, claim |-> c])
    BY <1>10 DEF ResolveFind, Return
  <2>2. CASE RunningClaims(s, clock) = {} /\ Goto(r, [pc |-> "resolve.store", step |-> s])
    <3>1. ClaimsInHand([pc |-> "resolve.store", step |-> s])
      BY <2>2 DEF ClaimsInHand, ClaimedPlaces, FreedPlaces
    <3>2. QED
      BY <2>2, <3>1
  <2>3. ASSUME NEW c \in RunningClaims(s, clock),
               Goto(r, [pc |-> "resolve.release", step |-> s, claim |-> c])
        PROVE  \E l : Goto(r, l) /\ ClaimsInHand(l)
    <3>1. IsActive(c) /\ claims[c].step = s
      BY DEF RunningClaims, ActiveClaims
    <3>2. ClaimsInHand([pc |-> "resolve.release", step |-> s, claim |-> c])
      BY <3>1 DEF ClaimsInHand, ClaimedPlaces, FreedPlaces
    <3>3. QED
      BY <2>3, <3>2
  <2>4. QED
    BY <1>4, <2>1, <2>2, <2>3
<1>11. CASE ScanList(r)
  <2>1. ClaimsInHand([pc |-> "scan", todo |-> LapsedClaims(clock)])
    BY DEF ClaimsInHand, ClaimedPlaces, FreedPlaces, LapsedClaims
  <2>2. QED
    BY <1>11, <2>1 DEF ScanList
<1>12. QED
  BY <1>5, <1>6, <1>7, <1>8, <1>9, <1>10, <1>11

-----------------------------------------------------------------------------
(* The requests that write claims and steps. *)

LEMMA EndClaimSteps ==
  ASSUME IInv, NEW r \in Proc, Board(r),
         ReleaseClaim(r) \/ HandoffRelease(r) \/ ResolveRelease(r) \/ ScanExpire(r)
  PROVE  Board(r)'
<1>1. req[r] \in Local /\ req \in [Proc -> Local]
  BY DEF IInv
<1>2. \A s \in Step : Settled(s)
  BY DEF Board, StepsSettled, UnsettledPlaces, At, ReleaseClaim, HandoffRelease, ResolveRelease, ScanExpire
<1>3. UNCHANGED <<status, clock>>
  BY DEF ReleaseClaim, HandoffRelease, ResolveRelease, ScanExpire, steps, env
<1>4. ASSUME NEW c \in ClaimId, IsActive(c), NEW st \in {"RELEASED", "EXPIRED"},
             UpdateClaimStatus(c, st), NEW l, Goto(r, l), l.step = claims[c].step,
             \/ l.pc \in {"release.store", "handoff.insert", "resolve.store"}
             \/ l.pc = "scan.store" /\ \A e \in l.todo : e \in ClaimId /\ e # c /\ IsActive(e)
      PROVE  Board(r)'
  <2>1. /\ claims[c].step \in Step /\ ActiveClaims(claims[c].step)' = {}
        /\ claims'[c].step = claims[c].step
        /\ \A q \in Step : q # claims[c].step /\ Settled(q) => Settled(q)'
        /\ \A e \in ClaimId : e # c => IsActive(e)' = IsActive(e)
    BY <1>3, <1>4, SettledUpdateClaim
  <2>2. req'[r] = l
    BY <1>1, <1>4 DEF Goto
  <2>3. PICK t \in Step : t = l.step
    BY <1>4, <2>1
  <2>4. ActiveClaims(t)' = {}
    BY <1>4, <2>1, <2>3
  <2>5. RunningClaims(t, clock)' = {}
    BY <2>4 DEF RunningClaims
  <2>6. \A q \in Step : q # t => Settled(q)'
    BY <1>2, <1>4, <2>1, <2>3
  <2>7. req'[r].step = t
    BY <2>2, <2>3
  <2>8. ClaimsInHand(req[r])'
    BY <1>4, <2>1, <2>2, <2>4, <2>5, <2>7 DEF ClaimsInHand, ClaimedPlaces, FreedPlaces
  <2>9. StepsSettled(req[r])'
    BY <1>4, <2>2, <2>6, <2>7 DEF StepsSettled, UnsettledPlaces
  <2>10. QED
    BY <2>8, <2>9 DEF Board
<1>5. CASE ReleaseClaim(r)
  <2>1. req[r].claim \in ClaimId /\ IsActive(req[r].claim)
    BY <1>1, <1>5, LocalFields DEF ReleaseClaim, At, Board, ClaimsInHand
  <2>2. /\ UpdateClaimStatus(req[r].claim, "RELEASED")
        /\ Goto(r, [pc |-> "release.store", step |-> claims[req[r].claim].step])
    BY <1>5 DEF ReleaseClaim
  <2>3. QED
    BY <1>4, <2>1, <2>2
<1>6. CASE HandoffRelease(r)
  <2>1. req[r].claim \in ClaimId /\ IsActive(req[r].claim)
    BY <1>1, <1>6, LocalFields DEF HandoffRelease, At, Board, ClaimsInHand
  <2>2. /\ UpdateClaimStatus(req[r].claim, "RELEASED")
        /\ Goto(r, [pc |-> "handoff.insert", step |-> claims[req[r].claim].step,
                    by |-> req[r].to, until |-> req[r].until])
    BY <1>6 DEF HandoffRelease
  <2>3. QED
    BY <1>4, <2>1, <2>2
<1>7. CASE ResolveRelease(r)
  <2>1. /\ req[r].claim \in ClaimId /\ IsActive(req[r].claim)
        /\ claims[req[r].claim].step = req[r].step
    BY <1>1, <1>7, LocalFields DEF ResolveRelease, At, Board, ClaimsInHand
  <2>2. /\ UpdateClaimStatus(req[r].claim, "RELEASED")
        /\ Goto(r, [pc |-> "resolve.store", step |-> req[r].step])
    BY <1>7 DEF ResolveRelease
  <2>3. QED
    BY <1>4, <2>1, <2>2
<1>8. CASE ScanExpire(r)
  <2>1. req[r].todo \in SUBSET ClaimId /\ \A e \in req[r].todo : IsActive(e)
    BY <1>1, <1>8, LocalFields DEF ScanExpire, At, Board, ClaimsInHand
  <2>2. PICK c \in EarliestOf(req[r].todo) :
          /\ UpdateClaimStatus(c, "EXPIRED")
          /\ Goto(r, [pc |-> "scan.store", step |-> claims[c].step, todo |-> req[r].todo \ {c}])
    BY <1>8 DEF ScanExpire
  <2>3. c \in req[r].todo
    BY DEF EarliestOf
  <2>4. QED
    BY <1>4, <2>1, <2>2, <2>3
<1>9. QED
  BY <1>5, <1>6, <1>7, <1>8

LEMMA InsertClaimSteps ==
  ASSUME IInv, NEW r \in Proc, Board(r), ClaimInsert(r) \/ HandoffInsert(r)
  PROVE  Board(r)'
<1> DEFINE s == req[r].step
<1>1. /\ req[r] \in Local /\ req \in [Proc -> Local]
      /\ req[r].pc \in {"claim.insert", "handoff.insert"}
  BY DEF IInv, ClaimInsert, HandoffInsert, At
<1>2. s \in Step /\ req[r].by \in Participant /\ req[r].until \in Nat
  BY <1>1, LocalFields
<1>3. UNCHANGED <<status, clock>>
  BY DEF ClaimInsert, HandoffInsert, steps, env
<1>4. \A q \in Step : q # s => Settled(q)
  BY DEF Board, StepsSettled
<1>5. ASSUME ClaimFits(s)
      PROVE  Board(r)'
  <2>1. PICK l : Goto(r, l) /\ l.pc \in {"claim.store", "handoff.store"} /\ l.step = s
    <3>1. Goto(r, [pc |-> "claim.store", step |-> s]) \/ Goto(r, [pc |-> "handoff.store", step |-> s])
      BY <1>5 DEF ClaimInsert, HandoffInsert
    <3>2. QED
      BY <3>1
  <2>2. CreateClaim(s, req[r].by, req[r].until)
    BY <1>5 DEF ClaimInsert, HandoffInsert
  <2>3. PICK t \in Step, p \in Participant, until \in Nat :
          t = s /\ p = req[r].by /\ until = req[r].until
    BY <1>2
  <2>4. CreateClaim(t, p, until)
    BY <2>2, <2>3
  <2>5. ActiveClaims(t)' # {} /\ \A q \in Step : q # t => Settled(q)'
    BY <1>3, <1>4, <2>3, <2>4, SettledCreateClaim
  <2>6. req'[r] = l /\ l.step = t
    BY <1>1, <2>1, <2>3 DEF Goto
  <2>7. ClaimsInHand(req[r])'
    BY <2>1, <2>5, <2>6 DEF ClaimsInHand, ClaimedPlaces, FreedPlaces
  <2>8. StepsSettled(req[r])'
    BY <2>1, <2>5, <2>6 DEF StepsSettled, UnsettledPlaces
  <2>9. QED
    BY <2>7, <2>8 DEF Board
<1>6. ASSUME ~ClaimFits(s)
      PROVE  Board(r)'
  <2>1. req[r].pc # "handoff.insert"
    BY <1>6 DEF ClaimFits, Board, ClaimsInHand, FreedPlaces
  <2>2. Goto(r, Idle) /\ UNCHANGED claims
    BY <1>6 DEF ClaimInsert, HandoffInsert, Return
  <2>3. ClaimsInHand(Idle)
    BY DEF Idle, ClaimsInHand, ClaimedPlaces, FreedPlaces
  <2>4. req[r].pc \notin UnsettledPlaces
    BY <1>1, <2>1 DEF UnsettledPlaces
  <2>5. QED
    BY <1>3, <2>2, <2>3, <2>4, BoardPasses
<1>7. QED
  BY <1>5, <1>6

LEMMA UpdateStepSteps ==
  ASSUME IInv, NEW r \in Proc, Board(r),
         \/ ClaimStore(r) \/ ReleaseStore(r) \/ HandoffStore(r) \/ SubmitStore(r)
         \/ ResolveStore(r) \/ ScanStore(r)
  PROVE  Board(r)'
<1> DEFINE s == req[r].step
<1>1. /\ req[r] \in Local /\ req \in [Proc -> Local]
      /\ req[r].pc \in {"claim.store", "release.store", "handoff.store", "submit.store",
                        "resolve.store", "scan.store"}
  BY DEF IInv, ClaimStore, ReleaseStore, HandoffStore, SubmitStore, ResolveStore, ScanStore, Store, At
<1>2. s \in Step
  BY <1>1, LocalFields
<1>3. UNCHANGED <<claims, clock>>
  BY DEF ClaimStore, ReleaseStore, HandoffStore, SubmitStore, ResolveStore, ScanStore, Store, env
<1>4. \A q \in Step : q # s => Settled(q)
  BY DEF Board, StepsSettled
<1>5. ASSUME NEW st \in {"OPEN", "CLAIMED", "IN_REVIEW", "RESOLVED"}, UpdateStep(s, st),
             st = "OPEN" => ActiveClaims(s) = {},
             st \in {"CLAIMED", "IN_REVIEW"} => ActiveClaims(s) # {},
             st = "RESOLVED" => RunningClaims(s, clock) = {},
             NEW l, Goto(r, l),
             Plain(l) \/ (l.pc = "scan" /\ \A c \in l.todo : c \in ClaimId /\ IsActive(c))
      PROVE  Board(r)'
  <2>1. PICK t \in Step : t = s
    BY <1>2
  <2>2. /\ Settled(t)'
        /\ \A q \in Step : q # t /\ Settled(q) => Settled(q)'
        /\ \A c \in ClaimId : IsActive(c)' = IsActive(c)
    BY <1>3, <1>5, <2>1, SettledUpdateStep
  <2>3. \A q \in Step : Settled(q)'
    BY <1>4, <2>1, <2>2
  <2>4. req'[r] = l
    BY <1>1, <1>5 DEF Goto
  <2>5. ClaimsInHand(req[r])'
    BY <1>5, <2>2, <2>4 DEF Plain, ClaimsInHand, ClaimedPlaces, FreedPlaces
  <2>6. QED
    BY <2>3, <2>5 DEF Board, StepsSettled
<1>6. Plain(Idle) /\ Plain([pc |-> "resolve.count"])
  BY DEF Plain, Idle, ClaimedPlaces, FreedPlaces
<1>7. CASE ClaimStore(r)
  <2>1. UpdateStep(s, "CLAIMED") /\ Goto(r, Idle) /\ ActiveClaims(s) # {}
    BY <1>7 DEF ClaimStore, Store, At, Return, Board, ClaimsInHand, ClaimedPlaces
  <2>2. QED
    BY <1>5, <1>6, <2>1
<1>8. CASE HandoffStore(r)
  <2>1. UpdateStep(s, "CLAIMED") /\ Goto(r, Idle) /\ ActiveClaims(s) # {}
    BY <1>8 DEF HandoffStore, Store, At, Return, Board, ClaimsInHand, ClaimedPlaces
  <2>2. QED
    BY <1>5, <1>6, <2>1
<1>9. CASE SubmitStore(r)
  <2>1. UpdateStep(s, "IN_REVIEW") /\ Goto(r, Idle) /\ ActiveClaims(s) # {}
    BY <1>9 DEF SubmitStore, Store, At, Return, Board, ClaimsInHand, ClaimedPlaces
  <2>2. QED
    BY <1>5, <1>6, <2>1
<1>10. CASE ReleaseStore(r)
  <2>1. UpdateStep(s, "OPEN") /\ Goto(r, Idle) /\ ActiveClaims(s) = {}
    BY <1>10 DEF ReleaseStore, Store, At, Return, Board, ClaimsInHand, FreedPlaces
  <2>2. QED
    BY <1>5, <1>6, <2>1
<1>11. CASE ResolveStore(r)
  <2>1. /\ UpdateStep(s, "RESOLVED") /\ Goto(r, [pc |-> "resolve.count"])
        /\ RunningClaims(s, clock) = {}
    BY <1>11 DEF ResolveStore, At, Board, ClaimsInHand
  <2>2. QED
    BY <1>5, <1>6, <2>1
<1>12. CASE ScanStore(r)
  <2> DEFINE todo == req[r].todo
  <2>1. /\ UpdateStep(s, "OPEN") /\ Goto(r, ScanRest(todo))
        /\ ActiveClaims(s) = {} /\ todo \in SUBSET ClaimId /\ \A c \in todo : IsActive(c)
    BY <1>1, <1>12, LocalFields DEF ScanStore, At, Board, ClaimsInHand, FreedPlaces
  <2>2. PICK l : l = ScanRest(todo)
    OBVIOUS
  <2>3. Plain(l) \/ (l.pc = "scan" /\ \A c \in l.todo : c \in ClaimId /\ IsActive(c))
    BY <1>6, <2>1, <2>2 DEF ScanRest
  <2>4. QED
    BY <1>5, <2>1, <2>2, <2>3
<1>13. QED
  BY <1>7, <1>8, <1>9, <1>10, <1>11, <1>12

-----------------------------------------------------------------------------
LEMMA BoardTicks ==
  ASSUME IInv, NEW r \in Proc, Board(r), UNCHANGED <<status, claims, req>>,
         clock' \in Nat, clock <= clock'
  PROVE  Board(r)'
<1>1. /\ \A s \in Step : Settled(s) => Settled(s)'
      /\ \A s \in Step : ActiveClaims(s)' = ActiveClaims(s)
      /\ \A s \in Step : RunningClaims(s, clock)' \subseteq RunningClaims(s, clock)
      /\ \A c \in ClaimId : IsActive(c)' = IsActive(c)
  BY SettledReads
<1>2. PICK l \in Local : l = req[r]
  BY DEF IInv
<1>3. req'[r] = l
  BY <1>2
<1>4. ClaimsInHand(l) /\ StepsSettled(l)
  BY <1>2 DEF Board
<1>5. ClaimsInHand(l)'
  <2>1. l.pc \in ClaimedPlaces \cup FreedPlaces \cup {"resolve.store"} => l.step \in Step
    BY LocalFields DEF ClaimedPlaces, FreedPlaces
  <2>2. l.pc \in {"release", "handoff", "resolve.release"} => l.claim \in ClaimId
    BY LocalFields
  <2>3. l.pc \in {"scan", "scan.store"} => l.todo \in SUBSET ClaimId
    BY LocalFields
  <2>4. QED
    BY <1>1, <1>4, <2>1, <2>2, <2>3 DEF ClaimsInHand
<1>6. StepsSettled(l)'
  BY <1>1, <1>4 DEF StepsSettled
<1>7. ClaimsInHand(req[r])'
  BY <1>3, <1>5 DEF ClaimsInHand, ActiveClaims, RunningClaims, IsActive
<1>8. StepsSettled(req[r])'
  BY <1>3, <1>6 DEF StepsSettled
<1>9. QED
  BY <1>7, <1>8 DEF Board

LEMMA BoardKeeps ==
  ASSUME IInv, OneAtATime, NEW r \in Proc, Board(r), [Next]_vars
  PROVE  Board(r)'
<1>1. \A q \in Proc : q = r
  BY DEF OneAtATime, Proc
<1>2. CASE Arrive(r) \/ Continue(r) \/ Scan(r)
  BY <1>2, PlainSteps, LookSteps, EndClaimSteps, InsertClaimSteps, UpdateStepSteps
     DEF Arrive, Continue, Scan, ScanOn
<1>3. ASSUME NEW q \in Proc, Abort(q) \/ ReleaseIgnored(q) \/ SessionIgnored(q) \/ ScanSkips(q)
      PROVE  FALSE
  <2>1. failures < MaxFailures
    BY <1>3 DEF Abort, ReleaseIgnored, SessionIgnored, ScanSkips, Fails
  <2>2. QED
    BY <2>1 DEF OneAtATime, IInv, EnvOK
<1>4. CASE Tick \/ UNCHANGED vars
  <2>1. UNCHANGED <<status, claims, req>> /\ clock' \in Nat /\ clock <= clock'
    BY <1>4, BoundsAssumption DEF Tick, vars, store, steps, env, IInv, EnvOK
  <2>2. QED
    BY <2>1, BoardTicks
<1>5. QED
  BY <1>1, <1>2, <1>3, <1>4 DEF Next, Proc

(* One request or scan at a time, none failing: what is said of a step is  *)
(* borne out by the claims, and what is listed as open can be claimed.     *)
THEOREM StepsAgreeAlone == OneAtATime => (Spec => []StepsAgree)
<1> SUFFICES ASSUME OneAtATime
             PROVE  Spec => []StepsAgree
  OBVIOUS
<1> DEFINE AllBoard == \A r \in Proc : Board(r)
<1>1. Init => AllBoard
  <2>1. SUFFICES ASSUME Init, NEW r \in Proc
                 PROVE  Board(r)
    OBVIOUS
  <2>2. req[r] = Idle
    BY <2>1 DEF Init
  <2>3. ClaimsInHand(Idle)
    BY DEF Idle, ClaimsInHand, ClaimedPlaces, FreedPlaces
  <2>4. \A s \in Step : Settled(s)
    BY <2>1 DEF Init, Settled, ActiveClaims, IsActive
  <2>5. QED
    BY <2>2, <2>3, <2>4 DEF Board, StepsSettled
<1>2. IInv /\ AllBoard /\ [Next]_vars => AllBoard'
  BY BoardKeeps
<1>3. AllBoard => StepsAgree
  <2>1. SUFFICES ASSUME AllBoard, Quiet
                 PROVE  StepsAgree
    BY DEF StepsAgree, StatusMatchesClaims, ListedIsClaimable
  <2>2. PICK r \in Proc : req[r].pc = "idle"
    BY <2>1 DEF OneAtATime, Proc, Quiet, At
  <2>3. \A s \in Step : Settled(s)
    BY <2>1, <2>2 DEF Board, StepsSettled, UnsettledPlaces
  <2>4. StatusMatchesClaims
    BY <2>3 DEF StatusMatchesClaims, Settled
  <2>5. ListedIsClaimable
    BY <2>3 DEF ListedIsClaimable, OpenSteps, Settled, ClaimFits
  <2>6. QED
    BY <2>4, <2>5 DEF StepsAgree
<1>4. QED
  BY <1>1, <1>2, <1>3, RequestSafety, PTL DEF Spec

-----------------------------------------------------------------------------
(* The reviews, in the same way. *)

ReviewPlaces ==
  {"open.look", "open.insert", "vote.insert", "vote.count", "vote.store",
   "resolve.find", "resolve.release", "resolve.store"}

LEMMA SameReviews ==
  ASSUME UNCHANGED <<decisions, votes>>
  PROVE  /\ \A d \in DecisionId : Verdict(d)' = Verdict(d)
         /\ \A s : Latest(s)' = Latest(s)
         /\ \A d \in DecisionId : Judged(d)' <=> Judged(d)
         /\ VotesHaveRows' <=> VotesHaveRows
<1>1. \A d \in DecisionId : Verdict(d)' = Verdict(d)
  BY DEF Verdict, Voters
<1>2. \A s : Latest(s)' = Latest(s)
  BY DEF Latest, DecisionsOn
<1>3. \A d \in DecisionId : Judged(d)' <=> Judged(d)
  BY <1>1 DEF Judged
<1>4. QED
  BY <1>1, <1>2, <1>3 DEF VotesHaveRows

LEMMA ReviewsPass ==
  ASSUME IInv, NEW r \in Proc, Reviews(r), UNCHANGED <<status, decisions, votes>>,
         NEW l \in Local, Goto(r, l), ReviewInHand(l), DecisionsJudged(l)
  PROVE  Reviews(r)'
<1>1. req'[r] = l
  BY DEF IInv, Goto
<1>2. l.pc = "vote.store" => l.decision \in DecisionId
  BY LocalFields
<1>3. ReviewInHand(req[r])'
  BY <1>1, <1>2, SameReviews DEF ReviewInHand
<1>4. DecisionsJudged(req[r])'
  BY <1>1, SameReviews DEF DecisionsJudged
<1>5. \A s \in Step : Approved(s)'
  BY SameReviews DEF Reviews, Approved
<1>6. VotesHaveRows'
  BY SameReviews DEF Reviews
<1>7. QED
  BY <1>3, <1>4, <1>5, <1>6 DEF Reviews

(* Where the next place of the request has no part in a review.            *)
LEMMA ReviewsLeave ==
  ASSUME IInv, NEW r \in Proc, Reviews(r), UNCHANGED <<status, decisions, votes>>,
         req[r].pc \notin {"vote.count", "vote.store"},
         NEW l, Goto(r, l), l.pc \notin ReviewPlaces
  PROVE  Reviews(r)'
<1>1. req'[r] = l
  BY DEF IInv, Goto
<1>2. ReviewInHand(req[r])'
  BY <1>1 DEF ReviewInHand, ReviewPlaces
<1>3. \A d \in DecisionId : Judged(d)
  BY DEF Reviews, DecisionsJudged
<1>4. DecisionsJudged(req[r])'
  BY <1>3, SameReviews DEF DecisionsJudged
<1>5. \A s \in Step : Approved(s)'
  BY SameReviews DEF Reviews, Approved
<1>6. VotesHaveRows'
  BY SameReviews DEF Reviews
<1>7. QED
  BY <1>2, <1>4, <1>5, <1>6 DEF Reviews

LEMMA OtherSteps ==
  ASSUME IInv, NEW r \in Proc, Reviews(r),
         \/ JoinLook(r) \/ ClaimLoad(r) \/ ReleaseLook(r) \/ HandoffLook(r) \/ SubmitLook(r)
         \/ ResolveLoad(r) \/ ScanList(r)
         \/ JoinInsert(r) \/ ClaimDeps(r) \/ ClaimLook(r) \/ ClaimInsert(r)
         \/ ReleaseClaim(r) \/ HandoffRelease(r) \/ HandoffInsert(r) \/ SubmitVersion(r) \/ SubmitInsert(r)
         \/ ResolveCount(r) \/ ResolveSession(r) \/ ResolveTask(r) \/ ScanExpire(r)
  PROVE  Reviews(r)'
<1>1. UNCHANGED <<status, decisions, votes>>
  BY DEF JoinLook, ClaimLoad, ReleaseLook, HandoffLook, SubmitLook, ResolveLoad, ScanList, JoinInsert,
         ClaimDeps, ClaimLook, ClaimInsert, ReleaseClaim, HandoffRelease, HandoffInsert, SubmitVersion,
         SubmitInsert, ResolveCount, ResolveSession, ResolveTask, ScanExpire, store, steps, ballots
<1>2. req[r].pc \notin {"vote.count", "vote.store"}
  BY DEF At, Arrives, JoinLook, ClaimLoad, ReleaseLook, HandoffLook, SubmitLook, ResolveLoad, ScanList,
         JoinInsert, ClaimDeps, ClaimLook, ClaimInsert, ReleaseClaim, HandoffRelease, HandoffInsert,
         SubmitVersion, SubmitInsert, ResolveCount, ResolveSession, ResolveTask, ScanExpire
<1> DEFINE Out(l) == l.pc \notin ReviewPlaces
<1>3. \E l : Goto(r, l) /\ Out(l)
  <2>1. /\ Out(Idle)
        /\ \A p, caps : Out([pc |-> "join", by |-> p, caps |-> caps])
        /\ \A s, p : Out([pc |-> "claim.deps", step |-> s, by |-> p])
        /\ \A s, p, until : Out([pc |-> "claim.insert", step |-> s, by |-> p, until |-> until])
        /\ \A s : Out([pc |-> "claim.store", step |-> s])
        /\ \A c : Out([pc |-> "release", claim |-> c])
        /\ \A s : Out([pc |-> "release.store", step |-> s])
        /\ \A c, p, until : Out([pc |-> "handoff", claim |-> c, to |-> p, until |-> until])
    BY DEF Idle, ReviewPlaces
  <2>2. /\ \A s, p, until : Out([pc |-> "handoff.insert", step |-> s, by |-> p, until |-> until])
        /\ \A s : Out([pc |-> "handoff.store", step |-> s])
        /\ \A s, p : Out([pc |-> "submit.version", step |-> s, by |-> p])
        /\ \A s, p, n : Out([pc |-> "submit.insert", step |-> s, by |-> p, version |-> n])
        /\ \A s : Out([pc |-> "submit.store", step |-> s])
    BY DEF ReviewPlaces
  <2>3. /\ \A s, p : Out([pc |-> "resolve.gate", step |-> s, by |-> p])
        /\ Out([pc |-> "resolve.session"]) /\ Out([pc |-> "resolve.task"])
        /\ \A todo : Out([pc |-> "scan", todo |-> todo])
        /\ \A s, todo : Out([pc |-> "scan.store", step |-> s, todo |-> todo])
    BY DEF ReviewPlaces
  <2>4. Out([req[r] EXCEPT !.pc = "claim.look"])
    <3>1. req[r] \in Local
      BY DEF IInv
    <3>2. [req[r] EXCEPT !.pc = "claim.look"].pc = "claim.look"
      BY <3>1 DEF Local
    <3>3. QED
      BY <3>2 DEF ReviewPlaces
  <2> HIDE DEF Out
  <2>5. CASE JoinLook(r) \/ ClaimLoad(r) \/ ReleaseLook(r) \/ HandoffLook(r)
    BY <2>1, <2>5, Zenon DEF JoinLook, ClaimLoad, ReleaseLook, HandoffLook
  <2>6. CASE SubmitLook(r) \/ ResolveLoad(r) \/ ScanList(r) \/ JoinInsert(r) \/ ClaimDeps(r)
    BY <2>1, <2>2, <2>3, <2>4, <2>6, Zenon DEF SubmitLook, ResolveLoad, ScanList, JoinInsert, ClaimDeps, Return
  <2>7. CASE ClaimLook(r) \/ ClaimInsert(r) \/ ReleaseClaim(r)
    BY <2>1, <2>7, Zenon DEF ClaimLook, ClaimInsert, ReleaseClaim, Return
  <2>8. CASE HandoffRelease(r) \/ HandoffInsert(r) \/ SubmitVersion(r) \/ SubmitInsert(r)
    BY <2>1, <2>2, <2>8, Zenon DEF HandoffRelease, HandoffInsert, SubmitVersion, SubmitInsert, Return
  <2>9. CASE ResolveCount(r) \/ ResolveSession(r) \/ ResolveTask(r) \/ ScanExpire(r)
    BY <2>1, <2>3, <2>9, Zenon DEF ResolveCount, ResolveSession, ResolveTask, ScanExpire, Return
  <2>10. QED
    BY <2>5, <2>6, <2>7, <2>8, <2>9
<1>4. QED
  BY <1>1, <1>2, <1>3, ReviewsLeave

LEMMA PassingSteps ==
  ASSUME IInv, NEW r \in Proc, Reviews(r),
         \/ OpenLoad(r) \/ OpenLook(r) \/ VoteLoad(r) \/ VoteCount(r)
         \/ ResolveGate(r) \/ ResolveFind(r) \/ ResolveRelease(r)
  PROVE  Reviews(r)'
<1>1. UNCHANGED <<status, decisions, votes>>
  BY DEF OpenLoad, OpenLook, VoteLoad, VoteCount, ResolveGate, ResolveFind, ResolveRelease,
         store, steps, ballots
<1>2. req[r] \in Local /\ req \in [Proc -> Local]
  BY DEF IInv
<1>3. ASSUME req[r].pc # "vote.count", Goto(r, Idle),
             req[r].pc # "vote.store"
      PROVE  Reviews(r)'
  BY <1>1, <1>3, ReviewsLeave DEF Idle, ReviewPlaces
<1>4. ASSUME NEW l, Goto(r, l), ReviewInHand(l), DecisionsJudged(l), IInv'
      PROVE  Reviews(r)'
  <2>1. l \in Local
    BY <1>2, <1>4 DEF IInv, Goto
  <2>2. QED
    BY <1>1, <1>4, <2>1, ReviewsPass
<1>5. IInv'
  BY StepKeeps, ResolveClaimSteps, DecisionSteps, VoteSteps, SoundKeeps
<1>6. ASSUME req[r].pc \notin {"vote.count", "vote.store"}
      PROVE  \A d \in DecisionId : Judged(d)
  BY <1>6 DEF Reviews, DecisionsJudged
<1>7. CASE OpenLoad(r)
  <2>1. PICK s \in Step : status[s] # "RESOLVED" /\ Goto(r, [pc |-> "open.look", step |-> s])
    BY <1>7 DEF OpenLoad
  <2>2. ReviewInHand([pc |-> "open.look", step |-> s])
    BY <2>1 DEF ReviewInHand
  <2>3. DecisionsJudged([pc |-> "open.look", step |-> s])
    BY <1>6, <1>7 DEF DecisionsJudged, OpenLoad, Arrives, At
  <2>4. QED
    BY <1>4, <1>5, <2>1, <2>2, <2>3
<1>8. CASE OpenLook(r)
  <2>1. req[r].pc = "open.look" /\ status[req[r].step] # "RESOLVED"
    BY <1>8 DEF OpenLook, At, Reviews, ReviewInHand
  <2>2. Goto(r, Idle) \/ \E now : Goto(r, [pc |-> "open.insert", step |-> req[r].step, created |-> now])
    BY <1>8, Zenon DEF OpenLook, Return
  <2>3. ASSUME NEW now, Goto(r, [pc |-> "open.insert", step |-> req[r].step, created |-> now])
        PROVE  Reviews(r)'
    <3>1. ReviewInHand([pc |-> "open.insert", step |-> req[r].step, created |-> now])
      BY <2>1 DEF ReviewInHand
    <3>2. DecisionsJudged([pc |-> "open.insert", step |-> req[r].step, created |-> now])
      BY <1>6, <2>1 DEF DecisionsJudged
    <3>3. QED
      BY <1>4, <1>5, <2>3, <3>1, <3>2
  <2>4. QED
    BY <1>3, <2>1, <2>2, <2>3
<1>9. CASE VoteLoad(r)
  <2>1. PICK d \in DecisionId, p \in Participant, choice \in Choice :
          /\ IsPending(d)
          /\ Goto(r, [pc |-> "vote.insert", decision |-> d, by |-> p, choice |-> choice])
    BY <1>9 DEF VoteLoad
  <2>2. ReviewInHand([pc |-> "vote.insert", decision |-> d, by |-> p, choice |-> choice])
    BY <2>1 DEF ReviewInHand, IsPending
  <2>3. DecisionsJudged([pc |-> "vote.insert", decision |-> d, by |-> p, choice |-> choice])
    BY <1>6, <1>9 DEF DecisionsJudged, VoteLoad, Arrives, At
  <2>4. QED
    BY <1>4, <1>5, <2>1, <2>2, <2>3
<1>10. CASE VoteCount(r)
  <2> DEFINE l == [pc |-> "vote.store", decision |-> req[r].decision,
                   verdict |-> Verdict(req[r].decision)]
  <2>1. req[r].pc = "vote.count" /\ Goto(r, l)
    BY <1>10 DEF VoteCount, At
  <2>2. l.pc = "vote.store" /\ l.decision = req[r].decision /\ l.verdict = Verdict(req[r].decision)
    OBVIOUS
  <2> HIDE DEF l
  <2>3. ReviewInHand(l)
    BY <2>1, <2>2 DEF Reviews, ReviewInHand
  <2>4. DecisionsJudged(l)
    BY <2>1, <2>2 DEF Reviews, DecisionsJudged
  <2>5. QED
    BY <1>4, <1>5, <2>1, <2>3, <2>4
<1>11. CASE ResolveGate(r)
  <2>1. req[r].pc = "resolve.gate"
    BY <1>11 DEF ResolveGate, At
  <2>2. CASE \E d \in Latest(req[r].step) : decisions[d].status \in {"PENDING", "REJECTED"}
    BY <1>3, <1>11, <2>1, <2>2 DEF ResolveGate, Return
  <2>3. CASE ~\E d \in Latest(req[r].step) : decisions[d].status \in {"PENDING", "REJECTED"}
    <3> DEFINE l == [req[r] EXCEPT !.pc = "resolve.find"]
    <3>1. Goto(r, l)
      BY <1>11, <2>3 DEF ResolveGate
    <3>2. l.pc = "resolve.find" /\ l.step = req[r].step
      BY <1>2, <2>1 DEF Local
    <3> HIDE DEF l
    <3>3. \A d \in Latest(req[r].step) : decisions[d].status = "PASSED"
      <4>1. \A d \in Latest(req[r].step) : decisions[d] \in DecisionRow
        BY DEF Latest, DecisionsOn, IInv, StoreInv, StoreTypeOK
      <4>2. QED
        BY <2>3, <4>1 DEF DecisionRow
    <3>4. ReviewInHand(l)
      BY <3>2, <3>3 DEF ReviewInHand
    <3>5. DecisionsJudged(l)
      BY <1>6, <2>1 DEF DecisionsJudged
    <3>6. QED
      BY <1>4, <1>5, <3>1, <3>4, <3>5
  <2>4. QED
    BY <2>2, <2>3
<1>12. ASSUME req[r].pc \in {"resolve.find", "resolve.release"},
              NEW l, Goto(r, l), l.pc \in {"resolve.store", "resolve.release"}, l.step = req[r].step
       PROVE  Reviews(r)'
  <2>1. ReviewInHand(l)
    BY <1>12 DEF Reviews, ReviewInHand
  <2>2. DecisionsJudged(l)
    BY <1>6, <1>12 DEF DecisionsJudged
  <2>3. QED
    BY <1>4, <1>5, <1>12, <2>1, <2>2
<1>13. CASE ResolveFind(r)
  <2> DEFINE s == req[r].step
  <2>1. req[r].pc = "resolve.find"
    BY <1>13 DEF ResolveFind, At
  <2>2. \/ Goto(r, Idle)
        \/ Goto(r, [pc |-> "resolve.store", step |-> s])
        \/ \E c \in RunningClaims(s, clock) :
             Goto(r, [pc |-> "resolve.release", step |-> s, claim |-> c])
    BY <1>13 DEF ResolveFind, Return
  <2>3. CASE Goto(r, [pc |-> "resolve.store", step |-> s])
    BY <1>12, <2>1, <2>3
  <2>4. ASSUME NEW c, Goto(r, [pc |-> "resolve.release", step |-> s, claim |-> c])
        PROVE  Reviews(r)'
    BY <1>12, <2>1, <2>4
  <2>5. QED
    BY <1>3, <2>1, <2>2, <2>3, <2>4
<1>14. CASE ResolveRelease(r)
  <2>1. /\ req[r].pc = "resolve.release"
        /\ Goto(r, [pc |-> "resolve.store", step |-> req[r].step])
    BY <1>14 DEF ResolveRelease, At
  <2>2. QED
    BY <1>12, <2>1
<1>15. QED
  BY <1>7, <1>8, <1>9, <1>10, <1>11, <1>13, <1>14

LEMMA StepsReviewed ==
  ASSUME IInv, NEW r \in Proc, Reviews(r),
         \/ ClaimStore(r) \/ ReleaseStore(r) \/ HandoffStore(r) \/ SubmitStore(r)
         \/ ResolveStore(r) \/ ScanStore(r)
  PROVE  Reviews(r)'
<1> DEFINE s == req[r].step
<1>1. /\ req[r] \in Local /\ req \in [Proc -> Local]
      /\ req[r].pc \in {"claim.store", "release.store", "handoff.store", "submit.store",
                        "resolve.store", "scan.store"}
  BY DEF IInv, ClaimStore, ReleaseStore, HandoffStore, SubmitStore, ResolveStore, ScanStore, Store, At
<1>2. s \in Step /\ UNCHANGED <<decisions, votes>>
  BY <1>1, LocalFields
     DEF ClaimStore, ReleaseStore, HandoffStore, SubmitStore, ResolveStore, ScanStore, Store, ballots
<1>3. status \in [Step -> {"OPEN", "CLAIMED", "IN_REVIEW", "RESOLVED"}]
  BY DEF IInv, StoreInv, StoreTypeOK
<1>4. \A d \in DecisionId : Judged(d)
  BY <1>1 DEF Reviews, DecisionsJudged
<1>5. ASSUME NEW st, UpdateStep(s, st),
             st = "RESOLVED" => \A d \in Latest(s) : decisions[d].status = "PASSED",
             NEW l, Goto(r, l), l.pc \notin ReviewPlaces
      PROVE  Reviews(r)'
  <2>1. req'[r] = l
    BY <1>1, <1>5 DEF Goto
  <2>2. PICK t \in Step : t = s
    BY <1>2
  <2>3. status'[t] = st /\ \A q \in Step : q # t => status'[q] = status[q]
    BY <1>3, <1>5, <2>2 DEF UpdateStep
  <2>4. \A q \in Step : q # t => Approved(q)'
    BY <1>2, <2>3, SameReviews DEF Reviews, Approved
  <2>5. Approved(t)'
    BY <1>2, <1>5, <2>2, <2>3, SameReviews DEF Approved
  <2>6. ReviewInHand(req[r])'
    BY <1>5, <2>1 DEF ReviewInHand, ReviewPlaces
  <2>7. DecisionsJudged(req[r])'
    BY <1>2, <1>4, SameReviews DEF DecisionsJudged
  <2>8. VotesHaveRows'
    BY <1>2, SameReviews DEF Reviews
  <2>9. QED
    BY <2>4, <2>5, <2>6, <2>7, <2>8 DEF Reviews
<1>6. Idle.pc \notin ReviewPlaces /\ [pc |-> "resolve.count"].pc \notin ReviewPlaces
  BY DEF Idle, ReviewPlaces
<1>7. CASE ClaimStore(r) \/ HandoffStore(r)
  <2>1. UpdateStep(s, "CLAIMED") /\ Goto(r, Idle)
    BY <1>7 DEF ClaimStore, HandoffStore, Store, Return
  <2>2. QED
    BY <1>5, <1>6, <2>1
<1>8. CASE SubmitStore(r)
  <2>1. UpdateStep(s, "IN_REVIEW") /\ Goto(r, Idle)
    BY <1>8 DEF SubmitStore, Store, Return
  <2>2. QED
    BY <1>5, <1>6, <2>1
<1>9. CASE ReleaseStore(r)
  <2>1. UpdateStep(s, "OPEN") /\ Goto(r, Idle)
    BY <1>9 DEF ReleaseStore, Store, Return
  <2>2. QED
    BY <1>5, <1>6, <2>1
<1>10. CASE ResolveStore(r)
  <2>1. /\ UpdateStep(s, "RESOLVED") /\ Goto(r, [pc |-> "resolve.count"])
        /\ \A d \in Latest(s) : decisions[d].status = "PASSED"
    BY <1>10 DEF ResolveStore, At, Reviews, ReviewInHand
  <2>2. QED
    BY <1>5, <1>6, <2>1
<1>11. CASE ScanStore(r)
  <2>1. UpdateStep(s, "OPEN") /\ Goto(r, ScanRest(req[r].todo))
    BY <1>11 DEF ScanStore
  <2>2. ScanRest(req[r].todo).pc \notin ReviewPlaces
    BY <1>6 DEF ScanRest, ReviewPlaces
  <2>3. QED
    BY <1>5, <2>1, <2>2
<1>12. QED
  BY <1>7, <1>8, <1>9, <1>10, <1>11

(* Nobody has voted on a decision that was just opened.                    *)
LEMMA OpenReviewed ==
  ASSUME IInv, NEW r \in Proc, Reviews(r), OpenInsert(r)
  PROVE  Reviews(r)'
<1> DEFINE s == req[r].step
<1>1. /\ req[r] \in Local /\ req \in [Proc -> Local] /\ req[r].pc = "open.insert"
      /\ Goto(r, Idle) /\ UNCHANGED <<status, votes>>
  BY DEF IInv, OpenInsert, At, Return, steps
<1>2. /\ s \in Step /\ status[s] # "RESOLVED" /\ \A e \in DecisionId : Judged(e)
      /\ VotesHaveRows /\ \A q \in Step : Approved(q)
  BY <1>1, LocalFields DEF Reviews, ReviewInHand, DecisionsJudged
<1>3. CASE ~DecisionFits(s)
  <2>1. UNCHANGED decisions
    BY <1>3 DEF OpenInsert
  <2>2. QED
    BY <1>1, <2>1, ReviewsLeave DEF Idle, ReviewPlaces
<1>4. CASE DecisionFits(s)
  <2>1. PICK policy \in Policy, deadline \in Deadlines :
          CreateDecision(s, policy, deadline, req[r].created)
    BY <1>4 DEF OpenInsert
  <2> DEFINE row == [step |-> s, policy |-> policy, deadline |-> deadline,
                     status |-> "PENDING", created |-> req[r].created]
  <2>2. row \in DecisionRow
    BY <1>1, <1>2, LocalFields, DeadlinesAssumption DEF DecisionRow
  <2>3. row # None /\ row.step = s /\ row.status = "PENDING" /\ row.policy = policy
    BY <2>2, NoneAssumption
  <2>4. PICK d \in DecisionId : decisions[d] = None /\ decisions' = [decisions EXCEPT ![d] = row]
    BY <2>1 DEF CreateDecision
  <2>5. PICK fresh : fresh = row
    OBVIOUS
  <2>6. /\ fresh # None /\ fresh.step = s /\ fresh.status = "PENDING" /\ fresh.policy = policy
        /\ decisions' = [decisions EXCEPT ![d] = fresh]
    BY <2>3, <2>4, <2>5
  <2> HIDE DEF row
  <2>7. decisions'[d] = fresh /\ \A e \in DecisionId : e # d => decisions'[e] = decisions[e]
    BY <2>6 DEF IInv, StoreInv, StoreTypeOK
  <2>8. \A e \in DecisionId : e # d => Judged(e)'
    <3>1. \A e \in DecisionId : e # d => Verdict(e)' = Verdict(e)
      BY <1>1, <2>7 DEF Verdict, Voters
    <3>2. QED
      BY <1>2, <2>7, <3>1 DEF Judged
  <2>9. Judged(d)'
    <3>1. \A choice \in Choice : Voters(d, choice)' = {}
      BY <1>1, <1>2, <2>4, NoneAssumption DEF Voters, VotesHaveRows
    <3>2. Voters(d, "APPROVE")' = {} /\ Voters(d, "REJECT")' = {}
      BY <3>1 DEF Choice
    <3>3. Verdict(d)' = EvaluateDecision(policy, Cardinality({}), Cardinality({}))
      BY <2>6, <2>7, <3>2 DEF Verdict
    <3>4. Cardinality({}) = 0
      BY FS_EmptySet
    <3>5. policy.min \in Int /\ policy.reject \in Int
      BY PolicyAssumption
    <3>6. EvaluateDecision(policy, 0, 0) = "PENDING"
      BY <3>5 DEF EvaluateDecision, MinApprovals
    <3>7. Verdict(d)' = "PENDING"
      BY <3>3, <3>4, <3>6
    <3>8. QED
      BY <2>6, <2>7, <3>7 DEF Judged
  <2>10. DecisionsJudged(req[r])'
    BY <2>8, <2>9 DEF DecisionsJudged
  <2>11. \A q \in Step : Approved(q)'
    <3>1. SUFFICES ASSUME NEW q \in Step, status[q] = "RESOLVED", NEW e \in Latest(q)'
                   PROVE  decisions'[e].status = "PASSED"
      BY <1>1 DEF Approved
    <3>2. q # s /\ \A f \in Latest(q) : decisions[f].status = "PASSED"
      BY <1>2, <3>1 DEF Approved
    <3>3. \A f : f \in DecisionsOn(q)' <=> f \in DecisionsOn(q)
      BY <2>4, <2>6, <2>7, <3>2 DEF DecisionsOn
    <3>4. \A f \in DecisionsOn(q) : decisions'[f] = decisions[f]
      BY <2>4, <2>7 DEF DecisionsOn
    <3>5. e \in Latest(q)
      BY <3>1, <3>3, <3>4 DEF Latest
    <3>6. e \in DecisionsOn(q)
      BY <3>5 DEF Latest
    <3>7. QED
      BY <3>2, <3>4, <3>5, <3>6
  <2>12. VotesHaveRows'
    BY <1>1, <1>2, <2>6, <2>7 DEF VotesHaveRows
  <2>13. ReviewInHand(req[r])'
    <3>1. req'[r] = Idle
      BY <1>1 DEF Goto
    <3>2. QED
      BY <3>1 DEF ReviewInHand, Idle
  <2>14. QED
    BY <2>10, <2>11, <2>12, <2>13 DEF Reviews
<1>5. QED
  BY <1>3, <1>4

(* A vote unsettles the one decision it is cast on.                        *)
LEMMA VoteReviewed ==
  ASSUME IInv, NEW r \in Proc, Reviews(r), VoteInsert(r)
  PROVE  Reviews(r)'
<1>1. /\ req[r] \in Local /\ LocalOK(req[r]) /\ req \in [Proc -> Local] /\ req[r].pc = "vote.insert"
      /\ Goto(r, [pc |-> "vote.count", decision |-> req[r].decision])
      /\ CreateVote(req[r].decision, req[r].by, req[r].choice) /\ UNCHANGED <<status, decisions>>
  BY DEF IInv, VoteInsert, At, steps
<1>2. PICK d \in DecisionId : d = req[r].decision
  BY <1>1, LocalFields
<1>3. /\ decisions[d] # None /\ decisions[d].status = "PENDING"
      /\ VotesHaveRows /\ \A e \in DecisionId : Judged(e)
  BY <1>1, <1>2 DEF LocalOK, Reviews, ReviewInHand, DecisionsJudged
<1>4. \A e \in DecisionId : e # d => votes'[e] = votes[e]
  BY <1>1, <1>2 DEF CreateVote, IInv, StoreInv, StoreTypeOK
<1>5. req'[r].pc = "vote.count" /\ req'[r].decision = d
  BY <1>1, <1>2 DEF Goto
<1>6. \A e \in DecisionId : e # d => Judged(e)'
  <2>1. \A e \in DecisionId : e # d => Verdict(e)' = Verdict(e)
    BY <1>1, <1>4 DEF Verdict, Voters
  <2>2. QED
    BY <1>1, <1>3, <2>1 DEF Judged
<1>7. DecisionsJudged(req[r])'
  BY <1>5, <1>6 DEF DecisionsJudged
<1>8. ReviewInHand(req[r])'
  BY <1>1, <1>3, <1>5 DEF ReviewInHand
<1>9. \A s \in Step : Approved(s)'
  <2>1. \A s : Latest(s)' = Latest(s)
    BY <1>1 DEF Latest, DecisionsOn
  <2>2. QED
    BY <1>1, <2>1 DEF Reviews, Approved
<1>10. VotesHaveRows'
  BY <1>1, <1>3, <1>4 DEF VotesHaveRows
<1>11. QED
  BY <1>7, <1>8, <1>9, <1>10 DEF Reviews

(* The verdict stored is the one of the votes; the latest decision of a    *)
(* RESOLVED step is not touched, for it is not PENDING.                    *)
LEMMA VerdictReviewed ==
  ASSUME IInv, NEW r \in Proc, Reviews(r), VoteStore(r)
  PROVE  Reviews(r)'
<1> DEFINE verdict == req[r].verdict
<1>1. /\ req[r] \in Local /\ LocalOK(req[r]) /\ req \in [Proc -> Local] /\ req[r].pc = "vote.store"
      /\ Goto(r, Idle) /\ UNCHANGED <<status, votes>>
      /\ IF VerdictFits(req[r].decision, verdict) THEN UpdateDecision(req[r].decision, verdict)
         ELSE UNCHANGED decisions
  BY DEF IInv, VoteStore, At, Return, steps
<1>2. PICK d \in DecisionId : d = req[r].decision
  BY <1>1, LocalFields
<1>3. /\ decisions[d] # None /\ decisions[d].status = "PENDING" /\ verdict = Verdict(d)
      /\ \A e \in DecisionId : e # d => Judged(e)
  BY <1>1, <1>2 DEF LocalOK, Reviews, ReviewInHand, DecisionsJudged
<1>4. decisions[d] \in DecisionRow /\ decisions \in [DecisionId -> DecisionRow \cup {None}]
  BY <1>3 DEF IInv, StoreInv, StoreTypeOK
<1>5. req'[r] = Idle
  BY <1>1 DEF Goto
<1>6. ReviewInHand(req[r])'
  BY <1>5 DEF ReviewInHand, Idle
<1>7. CASE ~VerdictFits(d, verdict)
  <2>1. verdict = "PENDING" /\ UNCHANGED decisions
    BY <1>1, <1>2, <1>7 DEF VerdictFits
  <2>2. \A e \in DecisionId : Judged(e)
    BY <1>3, <2>1 DEF Judged
  <2>3. DecisionsJudged(req[r])'
    BY <1>1, <2>1, <2>2, SameReviews DEF DecisionsJudged
  <2>4. \A s \in Step : Approved(s)'
    BY <1>1, <2>1, SameReviews DEF Reviews, Approved
  <2>5. VotesHaveRows'
    BY <1>1, <2>1, SameReviews DEF Reviews
  <2>6. QED
    BY <1>6, <2>3, <2>4, <2>5 DEF Reviews
<1>8. CASE VerdictFits(d, verdict)
  <2>1. PICK st : st = verdict
    OBVIOUS
  <2>2. decisions' = [decisions EXCEPT ![d].status = st]
    BY <1>1, <1>2, <1>8, <2>1 DEF UpdateDecision
  <2>3. PICK row : row = [decisions[d] EXCEPT !.status = st]
    OBVIOUS
  <2>4. /\ row.status = st /\ row.step = decisions[d].step
        /\ row.created = decisions[d].created /\ row.policy = decisions[d].policy
    BY <1>4, <2>3 DEF DecisionRow
  <2>5. decisions'[d] = row /\ \A e \in DecisionId : e # d => decisions'[e] = decisions[e]
    BY <1>4, <2>2, <2>3
  <2>6. decisions'[d] # None
    <3>1. st \in {"PENDING", "PASSED", "REJECTED"}
      BY <1>1, <2>1, LocalFields
    <3>2. row \in DecisionRow
      BY <1>4, <2>3, <3>1 DEF DecisionRow
    <3>3. QED
      BY <2>5, <3>2, NoneAssumption
  <2>7. \A e \in DecisionId : decisions'[e].policy = decisions[e].policy
    BY <2>4, <2>5
  <2>8. \A e \in DecisionId : Verdict(e)' = Verdict(e)
    BY <1>1, <2>7 DEF Verdict, Voters
  <2>9. \A e \in DecisionId : Judged(e)'
    <3>1. \A e \in DecisionId : e # d => Judged(e)'
      BY <1>3, <2>5, <2>8 DEF Judged
    <3>2. Judged(d)'
      BY <1>3, <2>1, <2>4, <2>5, <2>8 DEF Judged
    <3>3. QED
      BY <3>1, <3>2
  <2>10. DecisionsJudged(req[r])'
    BY <2>9 DEF DecisionsJudged
  <2>11. /\ \A s : DecisionsOn(s)' = DecisionsOn(s)
         /\ \A e \in DecisionId : decisions'[e].created = decisions[e].created
    BY <1>3, <2>4, <2>5, <2>6 DEF DecisionsOn
  <2>12. \A s : Latest(s)' = Latest(s)
    <3>1. \A s : DecisionsOn(s) \subseteq DecisionId
      BY DEF DecisionsOn
    <3>2. QED
      BY <2>11, <3>1 DEF Latest
  <2>13. \A s \in Step : Approved(s)'
    <3>1. SUFFICES ASSUME NEW s \in Step, status[s] = "RESOLVED", NEW e \in Latest(s)
                   PROVE  decisions'[e].status = "PASSED"
      BY <1>1, <2>12 DEF Approved
    <3>2. e \in DecisionId /\ decisions[e].status = "PASSED"
      BY <3>1 DEF Reviews, Approved, Latest, DecisionsOn
    <3>3. QED
      BY <1>3, <2>5, <3>2
  <2>14. VotesHaveRows'
    BY <1>1, <1>3, <2>5, <2>6 DEF Reviews, VotesHaveRows
  <2>15. QED
    BY <1>6, <2>10, <2>13, <2>14 DEF Reviews
<1>9. QED
  BY <1>7, <1>8

LEMMA ReviewsKeep ==
  ASSUME IInv, OneAtATime, NEW r \in Proc, Reviews(r), [Next]_vars
  PROVE  Reviews(r)'
<1>1. \A q \in Proc : q = r
  BY DEF OneAtATime, Proc
<1>2. CASE Arrive(r) \/ Continue(r) \/ Scan(r)
  BY <1>2, OtherSteps, PassingSteps, StepsReviewed, OpenReviewed, VoteReviewed, VerdictReviewed
     DEF Arrive, Continue, Scan, ScanOn
<1>3. ASSUME NEW q \in Proc, Abort(q) \/ ReleaseIgnored(q) \/ SessionIgnored(q) \/ ScanSkips(q)
      PROVE  FALSE
  <2>1. failures < MaxFailures
    BY <1>3 DEF Abort, ReleaseIgnored, SessionIgnored, ScanSkips, Fails
  <2>2. QED
    BY <2>1 DEF OneAtATime, IInv, EnvOK
<1>4. CASE Tick \/ UNCHANGED vars
  <2>1. UNCHANGED <<status, decisions, votes, req>>
    BY <1>4 DEF Tick, vars, store, steps, ballots
  <2>2. PICK l \in Local : l = req[r]
    BY DEF IInv
  <2>3. Goto(r, l)
    BY <2>1, <2>2 DEF Goto, IInv
  <2>4. ReviewInHand(l) /\ DecisionsJudged(l)
    BY <2>2 DEF Reviews
  <2>5. QED
    BY <2>1, <2>3, <2>4, ReviewsPass
<1>5. QED
  BY <1>1, <1>2, <1>3, <1>4 DEF Next, Proc

(* One request or scan at a time, none failing: every decision says what   *)
(* its votes say, and the latest decision on a RESOLVED step has PASSED.   *)
THEOREM ReviewsAgreeAlone == OneAtATime => (Spec => []ReviewsAgree)
<1> SUFFICES ASSUME OneAtATime
             PROVE  Spec => []ReviewsAgree
  OBVIOUS
<1> DEFINE AllReviews == \A r \in Proc : Reviews(r)
<1>1. Init => AllReviews
  <2>1. SUFFICES ASSUME Init, NEW r \in Proc
                 PROVE  Reviews(r)
    OBVIOUS
  <2>2. req[r] = Idle
    BY <2>1 DEF Init
  <2>3. ReviewInHand(req[r])
    BY <2>2 DEF Idle, ReviewInHand
  <2>4. DecisionsJudged(req[r]) /\ VotesHaveRows
    BY <2>1 DEF Init, DecisionsJudged, Judged, VotesHaveRows
  <2>5. \A s \in Step : Approved(s)
    BY <2>1 DEF Init, Approved
  <2>6. QED
    BY <2>3, <2>4, <2>5 DEF Reviews
<1>2. IInv /\ AllReviews /\ [Next]_vars => AllReviews'
  BY ReviewsKeep
<1>3. AllReviews => ReviewsAgree
  <2>1. SUFFICES ASSUME AllReviews, Quiet
                 PROVE  ReviewsAgree
    BY DEF ReviewsAgree, ResolvedIsApproved, VerdictMatchesVotes
  <2>2. PICK r \in Proc : req[r].pc = "idle"
    BY <2>1 DEF OneAtATime, Proc, Quiet, At
  <2>3. \A d \in DecisionId : Judged(d)
    BY <2>1, <2>2 DEF Reviews, DecisionsJudged
  <2>4. \A s \in Step : Approved(s)
    BY <2>1, <2>2 DEF Reviews
  <2>5. QED
    BY <2>3, <2>4 DEF ReviewsAgree, ResolvedIsApproved, VerdictMatchesVotes, Judged, Approved
<1>4. QED
  BY <1>1, <1>2, <1>3, RequestSafety, PTL DEF Spec

=============================================================================

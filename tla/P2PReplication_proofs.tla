------------------------ MODULE P2PReplication_proofs ------------------------
(***************************************************************************)
(* Theorems about P2PReplication, for every number of nodes, every set of  *)
(* transactions and any number of attempts and crashes.  What a            *)
(* transaction does to a replica comes first, then what each step of the   *)
(* group does to all of them.                                              *)
(***************************************************************************)
EXTENDS P2PReplication, P2PState_proofs, SequenceTheorems

-----------------------------------------------------------------------------
(* A replica: its claim and step tables agree, a step that was not created *)
(* belongs to no session, and the key cache is the one its steps give.     *)

Blank(m) == \A s \in StepId : m.status[s] = "NONE" => m.steps[s].session = None

ReplicaInv(f) ==
  /\ f \in Replica
  /\ LeaseInv(f.machine)
  /\ Blank(f.machine)
  /\ f.keys = KeysOf(f.machine)

(* A handler that creates no step and forgets none keeps the keys.         *)
LEMMA SameKeys ==
  ASSUME NEW m, NEW n, Blank(m), n.steps = m.steps,
         \A s \in StepId : n.status[s] = "NONE" => m.status[s] = "NONE"
  PROVE  Blank(n) /\ KeysOf(n) = KeysOf(m)
BY DEF Blank, KeysOf

LEMMA KeysTyped ==
  ASSUME NEW m \in Machine
  PROVE  KeysOf(m) \in [SessionId -> SUBSET (StepKey \cup {None})]
<1>1. \A s \in StepId : m.steps[s].key \in StepKey \cup {None}
  BY DEF Machine, StepInfo
<1>2. QED
  BY <1>1 DEF KeysOf

(* What Expire leaves alone besides the claims.                            *)
LEMMA ExpireKeys ==
  ASSUME NEW m, LeaseInv(m), Blank(m), NEW at \in Nat
  PROVE  Blank(Expire(m, at)) /\ KeysOf(Expire(m, at)) = KeysOf(m)
<1>1. m \in Machine
  BY DEF LeaseInv
<1>2. /\ Expire(m, at).steps = m.steps
      /\ \A s \in StepId : Expire(m, at).status[s] = "NONE" => m.status[s] = "NONE"
  BY <1>1, ExpireFields
<1>3. QED
  BY <1>2, SameKeys

(* SESSION_CREATE adds the keys of the steps it wrote to its session, and  *)
(* these steps belonged to no session before.                              *)
LEMMA CreateSessionKeys ==
  ASSUME NEW m, LeaseInv(m), Blank(m), NEW plan \in Plan
  PROVE  /\ Blank(DoCreateSession(m, plan))
         /\ KeysOf(DoCreateSession(m, plan)) =
              [KeysOf(m) EXCEPT ![plan.session] =
                 @ \cup {plan.steps[i].key : i \in Written(m, plan.steps)}]
<1> DEFINE n == DoCreateSession(m, plan)
           written == Written(m, plan.steps)
           ids == {plan.steps[i].id : i \in written}
           draft(s) == plan.steps[CHOOSE i \in written : plan.steps[i].id = s]
           x == plan.session
<1>1. m \in Machine /\ x \in SessionId /\ plan.steps \in Seq(Draft)
  BY DEF LeaseInv, Plan
<1>2. /\ \A s \in StepId : n.status[s] = IF s \in ids THEN "OPEN" ELSE m.status[s]
      /\ \A s \in StepId : n.steps[s] = IF s \in ids THEN StepFrom(x, draft(s))
                                                     ELSE m.steps[s]
  BY <1>1 DEF DoCreateSession, Machine
<1>3. \A i \in written : /\ plan.steps[i].id \in StepId
                         /\ m.status[plan.steps[i].id] = "NONE"
  <2> SUFFICES ASSUME NEW i \in written
               PROVE  plan.steps[i].id \in StepId /\ m.status[plan.steps[i].id] = "NONE"
    OBVIOUS
  <2>1. i \in DOMAIN plan.steps /\ i \in 1..i
    BY <1>1 DEF Written
  <2>2. DraftOK(m, plan.steps, i) /\ plan.steps[i] \in Draft
    BY <1>1, <2>1 DEF Written
  <2>3. QED
    BY <2>2 DEF DraftOK, Draft, StepExists
<1>4. \A i, j \in written : plan.steps[i].id = plan.steps[j].id => i = j
  <2> SUFFICES ASSUME NEW i \in written, NEW j \in written, i < j
               PROVE  plan.steps[i].id # plan.steps[j].id
    BY <1>1 DEF Written
  <2>1. DraftOK(m, plan.steps, j) /\ i \in 1..(j-1)
    BY <1>1 DEF Written
  <2>2. QED
    BY <2>1 DEF DraftOK
<1>5. \A i \in written : draft(plan.steps[i].id) = plan.steps[i]
  <2> SUFFICES ASSUME NEW i \in written
               PROVE  draft(plan.steps[i].id) = plan.steps[i]
    OBVIOUS
  <2> DEFINE k == CHOOSE j \in written : plan.steps[j].id = plan.steps[i].id
  <2>1. k \in written /\ plan.steps[k].id = plan.steps[i].id
    OBVIOUS
  <2>2. k = i
    BY <1>4, <2>1
  <2>3. QED
    BY <2>2
<1>6. \A s \in ids : n.steps[s].session = x /\ n.steps[s].key = draft(s).key
  <2>1. \A s \in ids : s \in StepId
    BY <1>3
  <2>2. \A d : StepFrom(x, d).session = x /\ StepFrom(x, d).key = d.key
    BY DEF StepFrom
  <2> HIDE DEF n, ids, draft, x
  <2>3. QED
    BY <1>2, <2>1, <2>2
<1>7. \A s \in ids : s \in StepId /\ m.steps[s].session = None
  BY <1>3 DEF Blank
<1>8. Blank(n)
  BY <1>2 DEF Blank
<1> HIDE DEF n, x, draft
<1>9. \A y \in SessionId \ {x} : KeysOf(n)[y] = KeysOf(m)[y]
  BY <1>2, <1>6, <1>7, NoneAssumption DEF KeysOf
<1>10. KeysOf(n)[x] = KeysOf(m)[x] \cup {plan.steps[i].key : i \in written}
  <2> DEFINE old == {t \in StepId : m.steps[t].session = x}
  <2>1. {t \in StepId : n.steps[t].session = x} = old \cup ids
    BY <1>2, <1>6, <1>7
  <2>2. old \cap ids = {}
    BY <1>1, <1>7, NoneAssumption
  <2>3. {n.steps[s].key : s \in old} = {m.steps[s].key : s \in old}
    BY <1>2, <2>2
  <2>4. {n.steps[s].key : s \in ids} = {plan.steps[i].key : i \in written}
    BY <1>5, <1>6
  <2>5. KeysOf(n)[x] = {n.steps[s].key : s \in old \cup ids}
    BY <1>1, <2>1 DEF KeysOf
  <2>6. KeysOf(m)[x] = {m.steps[s].key : s \in old}
    BY <1>1 DEF KeysOf
  <2> HIDE DEF old, ids
  <2>7. QED
    BY <2>3, <2>4, <2>5, <2>6
<1>11. QED
  BY <1>1, <1>8, <1>9, <1>10 DEF KeysOf, n, x

(* The handlers that create no step keep the keys, each by what it does to *)
(* the step table.                                                         *)
LEMMA OtherKeys ==
  ASSUME NEW m, LeaseInv(m), Blank(m), NEW n \in Machine, n.steps = m.steps,
         \/ n.status = m.status
         \/ \E s \in StepId, to \in StepStatus \ {"NONE"} :
              n.status = [m.status EXCEPT ![s] = to]
  PROVE  Blank(n) /\ KeysOf(n) = KeysOf(m)
<1>1. m.status \in [StepId -> StepStatus]
  BY DEF LeaseInv, Machine
<1>2. \A s \in StepId : n.status[s] = "NONE" => m.status[s] = "NONE"
  BY <1>1
<1>3. QED
  BY <1>2, SameKeys

(* A transaction that changes the machine by a handler other than          *)
(* SESSION_CREATE: the machine keeps its tables in agreement and its keys. *)
LEMMA EffectInv ==
  ASSUME NEW m, LeaseInv(m), Blank(m), NEW tx, IsTx(tx), NoneLapsed(m, tx.at),
         Accepts(m, tx), tx.op # "SESSION_CREATE"
  PROVE  /\ LeaseInv(Effect(m, tx))
         /\ Blank(Effect(m, tx))
         /\ KeysOf(Effect(m, tx)) = KeysOf(m)
<1> DEFINE a == tx.args
           n == Effect(m, tx)
           keeps == LeaseInv(n) /\ Blank(n) /\ KeysOf(n) = KeysOf(m)
<1>0. m \in Machine /\ m.status \in [StepId -> StepStatus]
  BY DEF LeaseInv, Machine
<1>1. CASE tx \in TxOf("PARTICIPANT_JOIN", [session: SessionId, ref: Ref,
                    participant: ParticipantId, caps: SUBSET Capability])
  <2>1. tx.op = "PARTICIPANT_JOIN" /\ a.session \in SessionId /\ a.ref \in Ref
        /\ a.participant \in ParticipantId /\ a.caps \in SUBSET Capability
    BY <1>1 DEF TxOf
  <2>2. n = DoJoin(m, a.session, a.ref, a.participant, a.caps)
    BY <2>1 DEF Effect
  <2>3. LeaseInv(n)
    BY <2>1, <2>2, JoinLease
  <2>4. n.steps = m.steps /\ n.status = m.status
    BY <1>0, <2>2 DEF DoJoin, Machine
  <2>5. QED
    BY <2>3, <2>4, OtherKeys DEF LeaseInv
<1>2. CASE tx \in TxOf("STEP_CLAIM", [step: StepId, participant: ParticipantId,
                    claim: ClaimId, secs: Int])
  <2>1. tx.op = "STEP_CLAIM" /\ tx.at \in Nat /\ a.step \in StepId
        /\ a.participant \in ParticipantId /\ a.claim \in ClaimId /\ a.secs \in Int
    BY <1>2 DEF TxOf
  <2>2. n = DoClaim(m, tx.at, a.step, a.participant, a.claim, a.secs)
        /\ CanClaim(m, tx.at, a.step, a.participant, a.claim)
    BY <2>1 DEF Effect, Accepts
  <2>3. LeaseInv(n)
    BY <2>1, <2>2, ClaimLease
  <2>4. n.steps = m.steps /\ n.status = [m.status EXCEPT ![a.step] = "CLAIMED"]
    BY <1>0, <2>2 DEF DoClaim, Machine
  <2>5. QED
    BY <2>1, <2>3, <2>4, OtherKeys DEF LeaseInv, StepStatus
<1>3. CASE tx \in TxOf("STEP_RELEASE", [step: StepId, participant: ParticipantId])
  <2>1. tx.op = "STEP_RELEASE" /\ tx.at \in Nat /\ a.step \in StepId
        /\ a.participant \in ParticipantId
    BY <1>3 DEF TxOf
  <2>2. n = DoRelease(m, tx.at, a.step, a.participant)
        /\ CanRelease(m, tx.at, a.step, a.participant)
    BY <2>1 DEF Effect, Accepts
  <2>3. LeaseInv(n)
    BY <2>1, <2>2, ReleaseLease
  <2>4. n.steps = m.steps /\ n.status = [m.status EXCEPT ![a.step] = "OPEN"]
    BY <1>0, <2>2 DEF DoRelease, Machine
  <2>5. QED
    BY <2>1, <2>3, <2>4, OtherKeys DEF LeaseInv, StepStatus
<1>4. CASE tx \in TxOf("STEP_HANDOFF", [step: StepId, from: ParticipantId,
                    to: ParticipantId, claim: ClaimId, secs: Int])
  <2>1. tx.op = "STEP_HANDOFF" /\ tx.at \in Nat /\ a.step \in StepId
        /\ a.from \in ParticipantId /\ a.to \in ParticipantId
        /\ a.claim \in ClaimId /\ a.secs \in Int
    BY <1>4 DEF TxOf
  <2>2. n = DoHandoff(m, tx.at, a.step, a.from, a.to, a.claim, a.secs)
        /\ CanHandoff(m, tx.at, a.step, a.from, a.to, a.claim)
    BY <2>1 DEF Effect, Accepts
  <2>3. LeaseInv(n)
    BY <2>1, <2>2, HandoffLease
  <2>4. n.steps = m.steps /\ n.status = [m.status EXCEPT ![a.step] = "CLAIMED"]
    BY <1>0, <2>2 DEF DoHandoff, Machine
  <2>5. QED
    BY <2>1, <2>3, <2>4, OtherKeys DEF LeaseInv, StepStatus
<1>5. CASE tx \in TxOf("ARTIFACT_ADD", [step: StepId, participant: ParticipantId,
                    artifact: ArtifactId])
  <2>1. tx.op = "ARTIFACT_ADD" /\ tx.at \in Nat /\ a.step \in StepId
        /\ a.participant \in ParticipantId /\ a.artifact \in ArtifactId
    BY <1>5 DEF TxOf
  <2>2. n = DoAddArtifact(m, a.step, a.participant, a.artifact)
        /\ CanAddArtifact(m, tx.at, a.step, a.participant, a.artifact)
    BY <2>1 DEF Effect, Accepts
  <2>3. LeaseInv(n)
    BY <2>1, <2>2, AddArtifactLease
  <2>4. n.steps = m.steps /\ n.status = [m.status EXCEPT ![a.step] = "IN_REVIEW"]
    BY <1>0, <2>2 DEF DoAddArtifact, Machine
  <2>5. QED
    BY <2>1, <2>3, <2>4, OtherKeys DEF LeaseInv, StepStatus
<1>6. CASE tx \in TxOf("DECISION_OPEN", [step: StepId, decision: DecisionId,
                    policy: Policy, deadline: Nat \cup {None}])
  <2>1. tx.op = "DECISION_OPEN" /\ a.step \in StepId /\ a.decision \in DecisionId
        /\ a.policy \in Policy /\ a.deadline \in Nat \cup {None}
    BY <1>6 DEF TxOf
  <2>2. n = DoOpenDecision(m, a.step, a.decision, a.policy, a.deadline)
    BY <2>1 DEF Effect
  <2>3. LeaseInv(n)
    BY <2>1, <2>2, OpenDecisionLease
  <2>4. n.steps = m.steps /\ n.status = m.status
    BY <1>0, <2>2 DEF DoOpenDecision, Machine
  <2>5. QED
    BY <2>3, <2>4, OtherKeys DEF LeaseInv
<1>7. CASE tx \in TxOf("VOTE_CAST", [decision: DecisionId, participant: ParticipantId,
                    vote: VoteId, choice: Choice])
  <2>1. tx.op = "VOTE_CAST" /\ a.decision \in DecisionId
        /\ a.participant \in ParticipantId /\ a.vote \in VoteId /\ a.choice \in Choice
    BY <1>7 DEF TxOf
  <2>2. n = DoVote(m, a.decision, a.participant, a.vote, a.choice)
    BY <2>1 DEF Effect
  <2>3. LeaseInv(n)
    BY <2>1, <2>2, VoteLease
  <2>4. n.steps = m.steps /\ n.status = m.status
    BY <1>0, <2>2 DEF DoVote, Machine
  <2>5. QED
    BY <2>3, <2>4, OtherKeys DEF LeaseInv
<1>8. CASE tx \in TxOf("STEP_RESOLVE", [step: StepId, participant: ParticipantId \cup {None}])
  <2>1. tx.op = "STEP_RESOLVE" /\ tx.at \in Nat /\ a.step \in StepId
    BY <1>8 DEF TxOf
  <2>2. n = DoResolve(m, tx.at, a.step)
        /\ m.status[a.step] \in {"CLAIMED", "IN_REVIEW"}
    BY <2>1 DEF Effect, Accepts, CanResolve
  <2>3. LeaseInv(n)
    BY <2>1, <2>2, ResolveLease
  <2>4. n.steps = m.steps /\ n.status = [m.status EXCEPT ![a.step] = "RESOLVED"]
    BY <1>0, <2>2 DEF DoResolve, Machine
  <2>5. QED
    BY <2>1, <2>3, <2>4, OtherKeys DEF LeaseInv, StepStatus
<1>9. tx \notin TxOf("SESSION_CREATE", [plan: Plan])
  BY DEF TxOf
<1>10. QED
  BY <1>1, <1>2, <1>3, <1>4, <1>5, <1>6, <1>7, <1>8, <1>9 DEF IsTx

(* SESSION_CREATE, whether all its steps are good or not.                  *)
LEMMA StartInv ==
  ASSUME NEW m, LeaseInv(m), Blank(m), NEW tx, IsTx(tx), StartsSession(m, tx)
  PROVE  /\ LeaseInv(Effect(m, tx))
         /\ Blank(Effect(m, tx))
         /\ KeysOf(Effect(m, tx)) = KeysAfter(KeysOf(m), m, tx)
<1>1. tx.op = "SESSION_CREATE"
  BY DEF StartsSession
<1>2. tx.args.plan \in Plan
  BY <1>1 DEF IsTx, TxOf
<1>3. Effect(m, tx) = DoCreateSession(m, tx.args.plan)
  BY <1>1 DEF Effect
<1>4. LeaseInv(Effect(m, tx)) /\ Blank(Effect(m, tx))
  BY <1>2, <1>3, CreateSessionLease, CreateSessionKeys
<1>5. KeysOf(Effect(m, tx)) = KeysAfter(KeysOf(m), m, tx)
  BY <1>2, <1>3, CreateSessionKeys DEF KeysAfter
<1>6. QED
  BY <1>4, <1>5

LEMMA TxTyped ==
  ASSUME NEW tx, IsTx(tx)
  PROVE  tx.id \in TxId /\ tx.at \in Nat
BY DEF IsTx, TxOf

(* One entry of the log, on any well-formed replica.                       *)
LEMMA ApplyTxInv ==
  ASSUME NEW f, ReplicaInv(f), NEW tx, IsTx(tx)
  PROVE  ReplicaInv(ApplyTx(f, tx))
<1> DEFINE m == Expire(f.machine, tx.at)
           g == Handled(f, m, tx)
<1>1. tx.id \in TxId /\ tx.at \in Nat
  BY TxTyped
<1>2. /\ LeaseInv(m) /\ NoneLapsed(m, tx.at)
      /\ Blank(m) /\ KeysOf(m) = KeysOf(f.machine)
  BY <1>1, ExpireLease, ExpireKeys DEF ReplicaInv
<1>3. CASE tx.id \in f.applied
  BY <1>3 DEF ApplyTx
<1>4. CASE tx.id \notin f.applied
  <2>1. ApplyTx(f, tx) = g
    BY <1>4 DEF ApplyTx
  <2>2. /\ g.machine = IF Accepts(m, tx) \/ StartsSession(m, tx) THEN Effect(m, tx) ELSE m
        /\ g.keys = KeysAfter(f.keys, m, tx)
        /\ g.applied = IF Accepts(m, tx) THEN f.applied \cup {tx.id} ELSE f.applied
        /\ g = [machine |-> g.machine, applied |-> g.applied, keys |-> g.keys]
    BY DEF Handled
  <2> HIDE DEF m, g
  <2>3. f.keys = KeysOf(m)
    BY <1>2 DEF ReplicaInv
  <2>4. LeaseInv(g.machine) /\ Blank(g.machine) /\ g.keys = KeysOf(g.machine)
    <3>1. CASE StartsSession(m, tx)
      BY <1>2, <2>2, <2>3, <3>1, StartInv
    <3>2. CASE ~ StartsSession(m, tx) /\ Accepts(m, tx)
      <4>1. tx.op # "SESSION_CREATE"
        BY <3>2 DEF StartsSession, Accepts
      <4>2. g.keys = KeysOf(m)
        BY <2>2, <2>3, <3>2 DEF KeysAfter
      <4>3. QED
        BY <1>2, <2>2, <3>2, <4>1, <4>2, EffectInv
    <3>3. CASE ~ StartsSession(m, tx) /\ ~ Accepts(m, tx)
      BY <1>2, <2>2, <2>3, <3>3 DEF KeysAfter
    <3>4. QED
      BY <3>1, <3>2, <3>3
  <2>5. g.applied \in SUBSET TxId
    BY <1>1, <2>2 DEF ReplicaInv, Replica
  <2>6. g \in Replica
    BY <2>2, <2>4, <2>5, KeysTyped DEF LeaseInv, Replica
  <2>7. QED
    BY <2>1, <2>4, <2>6 DEF ReplicaInv
<1>5. QED
  BY <1>3, <1>4

(* The accepted ids only grow, an applied id makes a copy void, and the    *)
(* answer tells whether the id is there.                                   *)
LEMMA ApplyTxFacts ==
  ASSUME NEW f, NEW tx
  PROVE  /\ f.applied \subseteq ApplyTx(f, tx).applied
         /\ tx.id \in f.applied => ApplyTx(f, tx) = f
         /\ Answer(f, tx) \in {"APPLIED", "TX_REJECTED"}
         /\ Answer(f, tx) = "APPLIED" => tx.id \in ApplyTx(f, tx).applied
         /\ Answer(f, tx) = "TX_REJECTED" => tx.id \notin f.applied
BY DEF ApplyTx, Handled, Answer

(* A snapshot loses nothing: the key cache it leaves out is rebuilt.       *)
LEMMA SnapshotLosesNothing ==
  ASSUME NEW f, ReplicaInv(f)
  PROVE  Marshal(f) \in Image /\ Unmarshal(Marshal(f)) = f
BY DEF Marshal, Unmarshal, ReplicaInv, Replica, Image

LEMMA NewReplicaInv == ReplicaInv(NewReplica)
<1>1. NewReplica.machine = EmptyMachine /\ LeaseInv(EmptyMachine)
  BY EmptyLease DEF NewReplica
<1>2. \A s \in StepId : EmptyMachine.steps[s].session = None
  BY DEF EmptyMachine, NoStep
<1>3. Blank(EmptyMachine)
  BY <1>2 DEF Blank
<1>4. KeysOf(EmptyMachine) = [x \in SessionId |-> {}]
  BY <1>2, NoneAssumption DEF KeysOf
<1>5. NewReplica \in Replica
  BY <1>1 DEF NewReplica, Replica, LeaseInv
<1>6. QED
  BY <1>1, <1>3, <1>4, <1>5 DEF ReplicaInv, NewReplica

-----------------------------------------------------------------------------
(* The group.  LogInv: replay is the log run from an empty machine, and    *)
(* all of it is well-formed.  NodesInv: every node, dead ones included,    *)
(* and every snapshot is somewhere on it.                                  *)

LogInv ==
  /\ attempts \in Seq(Attempt)
  /\ log \in Seq(1..Len(attempts))
  /\ replay \in Seq(Replica) /\ Len(replay) = Len(log) + 1
  /\ \A i \in 1..Len(replay) : ReplicaInv(replay[i])
  /\ replay[1] = NewReplica
  /\ \A i \in 1..Len(log) : replay[i + 1] = ApplyTx(replay[i], TxAt(i))

NodesInv ==
  /\ leaders \subseteq up /\ up \subseteq Node
  /\ fsm \in [Node -> Replica]
  /\ index \in [Node -> 0..Len(log)]
  /\ snap \in [Node -> Snapshot]
  /\ crashes \in 0..MaxCrashes
  /\ \A n \in Node : fsm[n] = replay[index[n] + 1]
  /\ \A n \in Node : /\ snap[n].index \in 0..Len(log)
                     /\ snap[n].image = Marshal(replay[snap[n].index + 1])

LEMMA AttemptIsTx ==
  ASSUME LogInv, NEW a \in 1..Len(attempts)
  PROVE  attempts[a] \in Attempt /\ attempts[a].tx \in Txs /\ IsTx(attempts[a].tx)
<1>1. attempts[a] \in Attempt
  BY ElementOfSeq DEF LogInv
<1>2. attempts[a].tx \in Txs
  BY <1>1 DEF Attempt
<1>3. QED
  BY <1>1, <1>2, TxsAssumption

(* The place of a node on the log is a well-formed replica.                *)
LEMMA OnTheLog ==
  ASSUME LogInv, NEW i \in 0..Len(log)
  PROVE  /\ i + 1 \in 1..Len(replay)
         /\ replay[i + 1] \in Replica
         /\ ReplicaInv(replay[i + 1])
BY DEF LogInv, ReplicaInv

LEMMA FunctionIsSeq ==
  ASSUME NEW S, NEW n \in Nat, NEW t \in [1..n -> S]
  PROVE  t \in Seq(S) /\ Len(t) = n
<1>1. t = [i \in 1..n |-> t[i]]
  OBVIOUS
<1>2. \A i \in 1..n : t[i] \in S
  OBVIOUS
<1>3. [i \in 1..n |-> t[i]] \in Seq(S)
  BY <1>2, IsASeq
<1>4. DOMAIN t = 1..Len(t) /\ Len(t) \in Nat
  BY <1>1, <1>3, LenProperties
<1>5. QED
  BY <1>1, <1>3, <1>4

(* Answers change nothing but replies.                                     *)
LEMMA ToldTyped ==
  ASSUME attempts \in Seq(Attempt), NEW told, NEW reply \in Reply
  PROVE  /\ Told(told, reply) \in Seq(Attempt)
         /\ Len(Told(told, reply)) = Len(attempts)
         /\ \A a \in 1..Len(attempts) :
              /\ Told(told, reply)[a].tx = attempts[a].tx
              /\ Told(told, reply)[a].node = attempts[a].node
              /\ Told(told, reply)[a].reply =
                   IF a \in told THEN reply ELSE attempts[a].reply
<1> DEFINE t == Told(told, reply)
<1>1. \A a \in 1..Len(attempts) : attempts[a] \in Attempt
  OBVIOUS
<1>2. t = [a \in 1..Len(attempts) |->
             IF a \in told THEN [attempts[a] EXCEPT !.reply = reply] ELSE attempts[a]]
  BY DEF Told
<1> HIDE DEF t
<1>3. \A a \in 1..Len(attempts) :
        /\ t[a] \in Attempt
        /\ t[a].tx = attempts[a].tx
        /\ t[a].node = attempts[a].node
        /\ t[a].reply = IF a \in told THEN reply ELSE attempts[a].reply
  BY <1>1, <1>2 DEF Attempt
<1>4. t \in [1..Len(attempts) -> Attempt]
  BY <1>2, <1>3
<1>5. Len(attempts) \in Nat
  BY LenProperties
<1>6. t \in Seq(Attempt) /\ Len(t) = Len(attempts)
  BY <1>4, <1>5, FunctionIsSeq
<1>7. QED
  BY <1>3, <1>6 DEF t

(* A step that neither commits an entry nor forgets an attempt.            *)
LEMMA LogStays ==
  ASSUME LogInv, log' = log, replay' = replay, attempts' \in Seq(Attempt),
         Len(attempts') >= Len(attempts),
         \A a \in 1..Len(attempts) : attempts'[a].tx = attempts[a].tx
  PROVE  LogInv'
<1>1. log \in Seq(1..Len(attempts'))
  BY DEF LogInv
<1>2. \A i \in 1..Len(log) : log[i] \in 1..Len(attempts)
  BY ElementOfSeq DEF LogInv
<1>3. \A i \in 1..Len(log) : attempts'[log'[i]].tx = attempts[log[i]].tx
  BY <1>2
<1>4. QED
  BY <1>1, <1>3 DEF LogInv, TxAt

LEMMA CommitLog ==
  ASSUME LogInv, NEW a \in DOMAIN attempts, Commit(a)
  PROVE  /\ LogInv'
         /\ Len(log') = Len(log) + 1 /\ log'[Len(log) + 1] = a
         /\ \A i \in 1..Len(log) : log'[i] = log[i]
         /\ \A i \in 1..Len(replay) : replay'[i] = replay[i]
         /\ replay'[Len(log) + 2] = ApplyTx(replay[Len(log) + 1], attempts[a].tx)
<1> DEFINE g == ApplyTx(replay[Len(log) + 1], attempts[a].tx)
<1>1. /\ attempts \in Seq(Attempt) /\ log \in Seq(1..Len(attempts))
      /\ replay \in Seq(Replica) /\ Len(replay) = Len(log) + 1 /\ Len(log) \in Nat
      /\ a \in 1..Len(attempts)
  BY DEF LogInv
<1>2. /\ attempts' = attempts /\ log' = Append(log, a)
      /\ replay' = Append(replay, g)
  BY <1>1 DEF Commit, Last
<1>3. ReplicaInv(g) /\ g \in Replica
  <2>1. ReplicaInv(replay[Len(log) + 1])
    BY <1>1, OnTheLog
  <2>2. QED
    BY <1>1, <2>1, AttemptIsTx, ApplyTxInv DEF ReplicaInv
<1> HIDE DEF g
<1>4. /\ log' \in Seq(1..Len(attempts)) /\ Len(log') = Len(log) + 1
      /\ log'[Len(log) + 1] = a
      /\ \A i \in 1..Len(log) : log'[i] = log[i]
  BY <1>1, <1>2
<1>5. /\ replay' \in Seq(Replica) /\ Len(replay') = Len(replay) + 1
      /\ replay'[Len(log) + 2] = g
      /\ \A i \in 1..Len(replay) : replay'[i] = replay[i]
  BY <1>1, <1>2, <1>3
<1>6. /\ \A i \in 1..Len(log) : attempts'[log'[i]].tx = attempts[log[i]].tx
      /\ attempts'[log'[Len(log) + 1]].tx = attempts[a].tx
  BY <1>2, <1>4
<1>7. \A i \in 1..Len(replay') : ReplicaInv(replay'[i])
  <2> SUFFICES ASSUME NEW i \in 1..Len(replay') PROVE ReplicaInv(replay'[i])
    OBVIOUS
  <2>1. i \in 1..Len(replay) \/ i = Len(log) + 2
    BY <1>1, <1>5
  <2>2. QED
    BY <1>3, <1>5, <2>1 DEF LogInv
<1>8. replay'[1] = NewReplica
  BY <1>1, <1>5 DEF LogInv
<1>9. \A i \in 1..Len(log') : replay'[i + 1] = ApplyTx(replay'[i], attempts'[log'[i]].tx)
  <2> SUFFICES ASSUME NEW i \in 1..Len(log')
               PROVE  replay'[i + 1] = ApplyTx(replay'[i], attempts'[log'[i]].tx)
    OBVIOUS
  <2>1. CASE i \in 1..Len(log)
    <3>1. i \in 1..Len(replay) /\ i + 1 \in 1..Len(replay)
      BY <1>1, <2>1
    <3>2. replay[i + 1] = ApplyTx(replay[i], attempts[log[i]].tx)
      BY <2>1 DEF LogInv, TxAt
    <3>3. QED
      BY <1>5, <1>6, <2>1, <3>1, <3>2
  <2>2. CASE i = Len(log) + 1
    <3>1. Len(log) + 1 \in 1..Len(replay) /\ i + 1 = Len(log) + 2
      BY <1>1, <2>2
    <3>2. QED
      BY <1>5, <1>6, <2>2, <3>1 DEF g
  <2>3. QED
    BY <1>1, <1>4, <2>1, <2>2
<1>10. LogInv'
  BY <1>1, <1>2, <1>4, <1>5, <1>7, <1>8, <1>9 DEF LogInv, TxAt
<1>11. QED
  BY <1>4, <1>5, <1>6, <1>10 DEF g

GroupInv == LogInv /\ NodesInv

(* Raft decides which nodes run and lead; the machines stand still.        *)
LEMMA NodesStay ==
  ASSUME LogInv, NodesInv, UNCHANGED <<log, replay, fsm, index, snap>>,
         leaders' \subseteq up', up' \subseteq Node, crashes' \in 0..MaxCrashes
  PROVE  NodesInv'
BY DEF NodesInv

LEMMA CommitNodes ==
  ASSUME LogInv, NodesInv, NEW a \in DOMAIN attempts, Commit(a)
  PROVE  NodesInv'
<1>1. /\ UNCHANGED <<leaders, up, fsm, index, snap, crashes>>
      /\ Len(log) \in Nat /\ Len(log') = Len(log) + 1
      /\ Len(replay) = Len(log) + 1
      /\ \A i \in 1..Len(replay) : replay'[i] = replay[i]
  BY CommitLog DEF Commit, LogInv
<1>2. \A n \in Node : index[n] \in 0..Len(log) /\ snap[n].index \in 0..Len(log)
  BY DEF NodesInv
<1>3. \A n \in Node : /\ replay'[index[n] + 1] = replay[index[n] + 1]
                      /\ replay'[snap[n].index + 1] = replay[snap[n].index + 1]
  BY <1>1, <1>2
<1>4. index \in [Node -> 0..Len(log')]
  BY <1>1 DEF NodesInv
<1>5. \A n \in Node : snap[n].index \in 0..Len(log')
  BY <1>1, <1>2
<1>6. QED
  BY <1>1, <1>3, <1>4, <1>5 DEF NodesInv

LEMMA ApplyEntryNodes ==
  ASSUME LogInv, NodesInv, NEW n \in Node, ApplyEntry(n)
  PROVE  NodesInv'
<1>1. /\ UNCHANGED <<log, replay, leaders, up, snap, crashes>>
      /\ index[n] < Len(log) /\ index[n] \in 0..Len(log) /\ Len(log) \in Nat
      /\ fsm' = [fsm EXCEPT ![n] = ApplyTx(fsm[n], TxAt(index[n] + 1))]
      /\ index' = [index EXCEPT ![n] = index[n] + 1]
  BY DEF ApplyEntry, LogInv, NodesInv
<1>2. index[n] + 1 \in 1..Len(log) /\ index[n] + 1 \in 0..Len(log)
  BY <1>1
<1>3. ApplyTx(fsm[n], TxAt(index[n] + 1)) = replay[index[n] + 1 + 1]
  BY <1>2 DEF LogInv, NodesInv
<1>4. replay[index[n] + 1 + 1] \in Replica
  BY <1>2, OnTheLog
<1>5. index' \in [Node -> 0..Len(log)] /\ fsm' \in [Node -> Replica]
  BY <1>1, <1>2, <1>3, <1>4 DEF NodesInv
<1>6. \A k \in Node : fsm'[k] = replay[index'[k] + 1]
  BY <1>1, <1>3 DEF NodesInv
<1>7. QED
  BY <1>1, <1>5, <1>6 DEF NodesInv

LEMMA TakeSnapshotNodes ==
  ASSUME LogInv, NodesInv, NEW n \in Node, TakeSnapshot(n)
  PROVE  NodesInv'
<1> DEFINE shot == [index |-> index[n], image |-> Marshal(fsm[n])]
<1>1. /\ UNCHANGED <<log, replay, leaders, up, fsm, index, crashes>>
      /\ snap' = [snap EXCEPT ![n] = shot]
      /\ index[n] \in 0..Len(log) /\ fsm[n] = replay[index[n] + 1]
  BY DEF TakeSnapshot, NodesInv
<1>2. Marshal(fsm[n]) \in Image
  BY <1>1, OnTheLog, SnapshotLosesNothing
<1>3. /\ shot.index = index[n] /\ shot.image = Marshal(replay[index[n] + 1])
      /\ shot \in Snapshot
  BY <1>1, <1>2 DEF Snapshot, LogInv
<1> HIDE DEF shot
<1>4. snap' \in [Node -> Snapshot]
  BY <1>1, <1>3 DEF NodesInv
<1>5. \A k \in Node : /\ snap'[k].index \in 0..Len(log)
                      /\ snap'[k].image = Marshal(replay[snap'[k].index + 1])
  BY <1>1, <1>3 DEF NodesInv
<1>6. QED
  BY <1>1, <1>4, <1>5 DEF NodesInv

(* A node that loads a snapshot stands where the snapshot was taken.       *)
LEMMA Restored ==
  ASSUME LogInv, NodesInv, NEW n \in Node
  PROVE  /\ Unmarshal(snap[n].image) = replay[snap[n].index + 1]
         /\ Unmarshal(snap[n].image) \in Replica
         /\ snap[n].index \in 0..Len(log)
<1>1. snap[n].index \in 0..Len(log) /\ snap[n].image = Marshal(replay[snap[n].index + 1])
  BY DEF NodesInv
<1>2. QED
  BY <1>1, OnTheLog, SnapshotLosesNothing

LEMMA InstallSnapshotNodes ==
  ASSUME LogInv, NodesInv, NEW n \in Node, NEW from \in Node, InstallSnapshot(n, from)
  PROVE  NodesInv'
<1>1. /\ UNCHANGED <<log, replay, leaders, up, crashes>>
      /\ fsm' = [fsm EXCEPT ![n] = Unmarshal(snap[from].image)]
      /\ index' = [index EXCEPT ![n] = snap[from].index]
      /\ snap' = [snap EXCEPT ![n] = snap[from]]
  BY DEF InstallSnapshot
<1>2. /\ Unmarshal(snap[from].image) = replay[snap[from].index + 1]
      /\ Unmarshal(snap[from].image) \in Replica
      /\ snap[from].index \in 0..Len(log)
  BY Restored
<1>3. /\ fsm' \in [Node -> Replica] /\ index' \in [Node -> 0..Len(log)]
      /\ snap' \in [Node -> Snapshot]
  BY <1>1, <1>2 DEF NodesInv
<1>4. \A k \in Node : fsm'[k] = replay[index'[k] + 1]
  BY <1>1, <1>2 DEF NodesInv
<1>5. \A k \in Node : /\ snap'[k].index \in 0..Len(log)
                      /\ snap'[k].image = Marshal(replay[snap'[k].index + 1])
  BY <1>1 DEF NodesInv
<1>6. QED
  BY <1>1, <1>3, <1>4, <1>5 DEF NodesInv

LEMMA RestartNodes ==
  ASSUME LogInv, NodesInv, NEW n \in Node, Restart(n)
  PROVE  NodesInv'
<1> DEFINE f == IF snap[n].index = 0 THEN NewReplica ELSE Unmarshal(snap[n].image)
<1>1. /\ UNCHANGED <<log, replay, leaders, snap, crashes>>
      /\ up' = up \cup {n}
      /\ fsm' = [fsm EXCEPT ![n] = f]
      /\ index' = [index EXCEPT ![n] = snap[n].index]
  BY DEF Restart
<1>2. f = replay[snap[n].index + 1] /\ f \in Replica /\ snap[n].index \in 0..Len(log)
  <2>1. CASE snap[n].index = 0
    BY <2>1, Restored, NewReplicaInv DEF LogInv, ReplicaInv
  <2>2. CASE snap[n].index # 0
    BY <2>2, Restored
  <2>3. QED
    BY <2>1, <2>2
<1> HIDE DEF f
<1>3. fsm' \in [Node -> Replica] /\ index' \in [Node -> 0..Len(log)]
  BY <1>1, <1>2 DEF NodesInv
<1>4. \A k \in Node : fsm'[k] = replay[index'[k] + 1]
  BY <1>1, <1>2 DEF NodesInv
<1>5. QED
  BY <1>1, <1>3, <1>4 DEF NodesInv

(* What every step but a commit does to the attempts: it keeps the         *)
(* transactions of those there are, and may add one.                       *)
LEMMA SubmitAttempts ==
  ASSUME LogInv, NEW n \in Node, Submit(n)
  PROVE  /\ UNCHANGED <<log, replay, leaders, up, fsm, index, snap, crashes>>
         /\ attempts' \in Seq(Attempt) /\ Len(attempts') = Len(attempts) + 1
         /\ Len(attempts) \in Nat
         /\ \A a \in 1..Len(attempts) : attempts'[a] = attempts[a]
         /\ attempts'[Len(attempts) + 1].reply = "WAITING"
<1>1. PICK tx \in Txs :
        attempts' = Append(attempts, [node |-> n, tx |-> tx, reply |-> "WAITING"])
  BY DEF Submit
<1> DEFINE e == [node |-> n, tx |-> tx, reply |-> "WAITING"]
<1>2. e \in Attempt /\ e.reply = "WAITING"
  BY DEF Attempt, Reply
<1>3. attempts \in Seq(Attempt) /\ attempts' = Append(attempts, e)
  BY <1>1 DEF LogInv
<1> HIDE DEF e
<1>4. QED
  BY <1>2, <1>3 DEF Submit

LEMMA ApplyEntryAttempts ==
  ASSUME LogInv, NodesInv, NEW n \in Node, ApplyEntry(n)
  PROVE  LET tx == TxAt(index[n] + 1)
             told == Waiting(n) \cap {log[index[n] + 1]}
         IN  /\ UNCHANGED <<log, replay>>
             /\ index[n] + 1 \in 1..Len(log)
             /\ Answer(fsm[n], tx) \in {"APPLIED", "TX_REJECTED"}
             /\ attempts' = Told(told, Answer(fsm[n], tx))
<1>1. index[n] + 1 \in 1..Len(log)
  BY DEF ApplyEntry, LogInv, NodesInv
<1>2. QED
  BY <1>1, ApplyTxFacts DEF ApplyEntry

LEMMA GroupInvKept ==
  ASSUME GroupInv, [GroupNext]_vars
  PROVE  GroupInv'
<1> USE DEF GroupInv
<1>1. ASSUME NEW a \in DOMAIN attempts, Commit(a) PROVE GroupInv'
  BY <1>1, CommitLog, CommitNodes
<1>2. ASSUME NEW n \in Node, Submit(n) PROVE GroupInv'
  <2>1. /\ UNCHANGED <<log, replay, leaders, up, fsm, index, snap, crashes>>
        /\ attempts' \in Seq(Attempt) /\ Len(attempts') >= Len(attempts)
        /\ \A a \in 1..Len(attempts) : attempts'[a].tx = attempts[a].tx
    BY <1>2, SubmitAttempts
  <2>2. QED
    BY <2>1, LogStays, NodesStay DEF NodesInv
<1>3. ASSUME NEW told, NEW reply \in Reply,
             attempts' = Told(told, reply), UNCHANGED <<log, replay>>
      PROVE  LogInv'
  <2>1. attempts \in Seq(Attempt) /\ Len(attempts) \in Nat
    BY LenProperties DEF LogInv
  <2>2. /\ Told(told, reply) \in Seq(Attempt) /\ Len(Told(told, reply)) = Len(attempts)
        /\ \A a \in 1..Len(attempts) : Told(told, reply)[a].tx = attempts[a].tx
    BY <2>1, ToldTyped
  <2>3. /\ attempts' \in Seq(Attempt) /\ Len(attempts') >= Len(attempts)
        /\ \A a \in 1..Len(attempts) : attempts'[a].tx = attempts[a].tx
    BY <1>3, <2>1, <2>2
  <2>4. QED
    BY <1>3, <2>3, LogStays
<1>4. ASSUME NEW n \in Node, ApplyEntry(n) PROVE GroupInv'
  <2>1. LogInv'
    BY <1>3, <1>4, ApplyEntryAttempts DEF Reply
  <2>2. QED
    BY <1>4, <2>1, ApplyEntryNodes
<1>5. ASSUME NEW n \in Node, StepDown(n) PROVE GroupInv'
  <2>1. LogInv'
    BY <1>3, <1>5 DEF StepDown, Reply
  <2>2. NodesInv'
    BY <1>5, NodesStay DEF StepDown, NodesInv
  <2>3. QED
    BY <2>1, <2>2
<1>6. ASSUME NEW n \in Node, Crash(n) PROVE GroupInv'
  <2>1. LogInv'
    BY <1>3, <1>6 DEF Crash, Reply
  <2>2. crashes' \in 0..MaxCrashes
    BY <1>6, BoundsAssumption DEF Crash, NodesInv
  <2>3. NodesInv'
    BY <1>6, <2>2, NodesStay DEF Crash, NodesInv
  <2>4. QED
    BY <2>1, <2>3
<1>7. ASSUME UNCHANGED <<attempts, log, replay>> PROVE LogInv'
  BY <1>7, LogStays, LenProperties DEF LogInv
<1>8. ASSUME NEW n \in Node, Lead(n) PROVE GroupInv'
  <2>1. NodesInv'
    BY <1>8, NodesStay DEF Lead, NodesInv
  <2>2. QED
    BY <1>7, <1>8, <2>1 DEF Lead
<1>9. ASSUME NEW n \in Node, TakeSnapshot(n) PROVE GroupInv'
  BY <1>7, <1>9, TakeSnapshotNodes DEF TakeSnapshot
<1>10. ASSUME NEW n \in Node, NEW from \in Node, InstallSnapshot(n, from) PROVE GroupInv'
  BY <1>7, <1>10, InstallSnapshotNodes DEF InstallSnapshot
<1>11. ASSUME NEW n \in Node, Restart(n) PROVE GroupInv'
  BY <1>7, <1>11, RestartNodes DEF Restart
<1>12. CASE UNCHANGED vars
  BY <1>7, <1>12, NodesStay DEF vars, NodesInv
<1>13. QED
  BY <1>1, <1>2, <1>4, <1>5, <1>6, <1>8, <1>9, <1>10, <1>11, <1>12 DEF GroupNext

LEMMA GroupInvInit == GroupInit => GroupInv
<1> SUFFICES ASSUME GroupInit PROVE GroupInv
  OBVIOUS
<1>1. NewReplica \in Replica /\ ReplicaInv(NewReplica)
  BY NewReplicaInv DEF ReplicaInv
<1>2. Marshal(NewReplica) \in Image
  BY <1>1, SnapshotLosesNothing
<1>3. LogInv
  BY <1>1 DEF GroupInit, LogInv
<1>4. [index |-> 0, image |-> Marshal(NewReplica)] \in Snapshot
  BY <1>2 DEF Snapshot
<1>5. NodesInv
  BY <1>1, <1>4, BoundsAssumption DEF GroupInit, NodesInv
<1>6. QED
  BY <1>3, <1>5 DEF GroupInv

LEMMA GroupInvAlways == GroupSpec => []GroupInv
<1>1. GroupInv /\ [GroupNext]_vars => GroupInv'
  BY GroupInvKept
<1>2. QED
  BY <1>1, GroupInvInit, PTL DEF GroupSpec

(* The variables of the group are of their types in every reachable state. *)
THEOREM GroupTypeCorrect == GroupSpec => []GroupTypeOK
<1>1. GroupInv => GroupTypeOK
  BY DEF GroupInv, LogInv, NodesInv, GroupTypeOK
<1>2. QED
  BY <1>1, GroupInvAlways, PTL

(* Whatever crashes, restarts, elections and snapshots a node went         *)
(* through, its machine, accepted ids and key cache are those of an empty  *)
(* machine that applied the node's part of the log.                        *)
THEOREM ReplicasReplayTheLog == GroupSpec => []ReplicaIsReplay
<1>1. GroupInv => ReplicaIsReplay
  BY DEF GroupInv, NodesInv, ReplicaIsReplay
<1>2. QED
  BY <1>1, GroupInvAlways, PTL

(* On every node, at any time, a step is actively claimed at most once and *)
(* the step and claim tables agree: LeaseInv of P2PState_proofs, for the   *)
(* machines of the group.                                                  *)
THEOREM ReplicasKeepLeases == GroupSpec => [](\A n \in Node : LeaseInv(fsm[n].machine))
<1>1. GroupInv => \A n \in Node : LeaseInv(fsm[n].machine)
  BY OnTheLog DEF GroupInv, NodesInv, ReplicaInv
<1>2. QED
  BY <1>1, GroupInvAlways, PTL

-----------------------------------------------------------------------------
(* The answers.  What was accepted stays accepted along the log, an        *)
(* attempt is in the log at most once, and an answer speaks of the place   *)
(* the attempt has there.                                                  *)

Final == {"APPLIED", "TX_REJECTED"}

AnswersInv ==
  /\ \A i, j \in 1..Len(replay) : i <= j => replay[i].applied \subseteq replay[j].applied
  /\ \A i, j \in 1..Len(log) : log[i] = log[j] => i = j
  /\ \A a \in 1..Len(attempts) :
       attempts[a].reply \in Final => \E i \in 1..Len(log) : log[i] = a
  /\ \A i \in 1..Len(log) :
       /\ attempts[log[i]].reply = "APPLIED" => attempts[log[i]].tx.id \in replay[i + 1].applied
       /\ attempts[log[i]].reply = "TX_REJECTED" => attempts[log[i]].tx.id \notin replay[i].applied

(* A step that gives no final answer and commits nothing.                  *)
LEMMA AnswersStay ==
  ASSUME LogInv, AnswersInv, log' = log, replay' = replay,
         Len(attempts) \in Nat, Len(attempts') \in Nat, Len(attempts) <= Len(attempts'),
         \A a \in 1..Len(attempts') :
           \/ attempts'[a].reply \notin Final
           \/ a \in 1..Len(attempts) /\ attempts'[a] = attempts[a]
  PROVE  AnswersInv'
<1>1. \A a \in 1..Len(attempts') :
        attempts'[a].reply \in Final => \E i \in 1..Len(log) : log[i] = a
  BY DEF AnswersInv
<1>2. \A i \in 1..Len(log) : log[i] \in 1..Len(attempts) /\ log[i] \in 1..Len(attempts')
  <2>1. \A i \in 1..Len(log) : log[i] \in 1..Len(attempts)
    BY ElementOfSeq DEF LogInv
  <2>2. QED
    BY <2>1
<1>3. \A i \in 1..Len(log) :
        /\ attempts'[log[i]].reply = "APPLIED" =>
             attempts'[log[i]].tx.id \in replay[i + 1].applied
        /\ attempts'[log[i]].reply = "TX_REJECTED" =>
             attempts'[log[i]].tx.id \notin replay[i].applied
  BY <1>2 DEF AnswersInv, Final
<1>4. QED
  BY <1>1, <1>2, <1>3 DEF AnswersInv

LEMMA CommitAnswers ==
  ASSUME LogInv, AnswersInv, NEW a \in DOMAIN attempts, Commit(a)
  PROVE  AnswersInv'
<1>1. /\ Len(log) \in Nat /\ Len(replay) = Len(log) + 1
      /\ Len(log') = Len(log) + 1 /\ log'[Len(log) + 1] = a
      /\ \A i \in 1..Len(log) : log'[i] = log[i]
      /\ \A i \in 1..Len(replay) : replay'[i] = replay[i]
      /\ replay'[Len(log) + 2] = ApplyTx(replay[Len(log) + 1], attempts[a].tx)
      /\ LogInv' /\ attempts' = attempts /\ a \in 1..Len(attempts)
  BY CommitLog DEF LogInv, Commit
<1>2. Len(replay') = Len(log) + 2
  BY <1>1 DEF LogInv
<1>3. \A i \in 1..Len(log) : log[i] # a
  <2> SUFFICES ASSUME NEW i \in 1..Len(log), log[i] = a PROVE FALSE
    OBVIOUS
  <2>1. a \in Committed /\ a \in Nat
    <3>1. DOMAIN log = 1..Len(log)
      BY LenProperties DEF LogInv
    <3>2. a \in Committed
      BY <3>1 DEF Committed
    <3>3. QED
      BY <1>1, <3>2
  <2>2. a < a
    BY <2>1 DEF Commit
  <2>3. QED
    BY <2>1, <2>2
<1>4. \A i, j \in 1..Len(replay') : i <= j => replay'[i].applied \subseteq replay'[j].applied
  <2> SUFFICES ASSUME NEW i \in 1..Len(replay'), NEW j \in 1..Len(replay'), i <= j
               PROVE  replay'[i].applied \subseteq replay'[j].applied
    OBVIOUS
  <2>1. CASE j \in 1..Len(replay)
    BY <1>1, <2>1 DEF AnswersInv
  <2>2. CASE i \in 1..Len(replay) /\ j = Len(log) + 2
    <3>1. replay[i].applied \subseteq replay[Len(log) + 1].applied
      BY <1>1, <2>2 DEF AnswersInv
    <3>2. QED
      BY <1>1, <2>2, <3>1, ApplyTxFacts
  <2>3. CASE i = j
    BY <2>3
  <2>4. QED
    BY <1>1, <1>2, <2>1, <2>2, <2>3
<1>5. \A i, j \in 1..Len(log') : log'[i] = log'[j] => i = j
  <2>1. \A i \in 1..Len(log') : i \in 1..Len(log) \/ i = Len(log) + 1
    BY <1>1
  <2>2. QED
    BY <1>1, <1>3, <2>1 DEF AnswersInv
<1>6. \A b \in 1..Len(attempts) :
        attempts[b].reply \in Final => \E i \in 1..Len(log') : log'[i] = b
  <2> SUFFICES ASSUME NEW b \in 1..Len(attempts), attempts[b].reply \in Final
               PROVE  \E i \in 1..Len(log') : log'[i] = b
    OBVIOUS
  <2>1. PICK i \in 1..Len(log) : log[i] = b
    BY DEF AnswersInv
  <2>2. i \in 1..Len(log') /\ log'[i] = b
    BY <1>1, <2>1
  <2>3. QED
    BY <2>2
<1>7. attempts[a].reply \notin Final
  BY <1>1, <1>3 DEF AnswersInv
<1>8. \A i \in 1..Len(log') :
        /\ attempts[log'[i]].reply = "APPLIED" =>
             attempts[log'[i]].tx.id \in replay'[i + 1].applied
        /\ attempts[log'[i]].reply = "TX_REJECTED" =>
             attempts[log'[i]].tx.id \notin replay'[i].applied
  <2> SUFFICES ASSUME NEW i \in 1..Len(log')
               PROVE  /\ attempts[log'[i]].reply = "APPLIED" =>
                           attempts[log'[i]].tx.id \in replay'[i + 1].applied
                      /\ attempts[log'[i]].reply = "TX_REJECTED" =>
                           attempts[log'[i]].tx.id \notin replay'[i].applied
    OBVIOUS
  <2>1. CASE i \in 1..Len(log)
    <3>1. i \in 1..Len(replay) /\ i + 1 \in 1..Len(replay)
      BY <1>1, <2>1
    <3>2. QED
      BY <1>1, <2>1, <3>1 DEF AnswersInv
  <2>2. CASE i = Len(log) + 1
    BY <1>1, <1>7, <2>2 DEF Final
  <2>3. QED
    BY <1>1, <2>1, <2>2
<1>9. QED
  BY <1>1, <1>4, <1>5, <1>6, <1>8 DEF AnswersInv

LEMMA ApplyEntryAnswers ==
  ASSUME LogInv, NodesInv, AnswersInv, NEW n \in Node, ApplyEntry(n)
  PROVE  AnswersInv'
<1> DEFINE k == index[n] + 1
           tx == TxAt(k)
           reply == Answer(fsm[n], tx)
           told == Waiting(n) \cap {log[k]}
<1>1. /\ log' = log /\ replay' = replay /\ k \in 1..Len(log)
      /\ reply \in Final /\ reply \in Reply /\ attempts' = Told(told, reply)
  BY ApplyEntryAttempts DEF Final, Reply
<1>2. /\ attempts \in Seq(Attempt) /\ log \in Seq(1..Len(attempts))
      /\ Len(attempts) \in Nat /\ Len(log) \in Nat
  BY DEF LogInv
<1>3. /\ Len(attempts') = Len(attempts)
      /\ \A a \in 1..Len(attempts) :
           /\ attempts'[a].tx = attempts[a].tx
           /\ attempts'[a].reply = IF a \in told THEN reply ELSE attempts[a].reply
  BY <1>1, <1>2, ToldTyped
<1>4. fsm[n] = replay[k] /\ replay[k + 1] = ApplyTx(replay[k], tx) /\ tx = attempts[log[k]].tx
  BY <1>1 DEF NodesInv, LogInv, TxAt
<1>5. /\ reply = "APPLIED" => tx.id \in replay[k + 1].applied
      /\ reply = "TX_REJECTED" => tx.id \notin replay[k].applied
  BY <1>4, ApplyTxFacts
<1> HIDE DEF k, reply, tx
<1>6. \A i \in 1..Len(log) : log[i] \in told => i = k
  BY <1>1 DEF AnswersInv
<1>7. \A a \in 1..Len(attempts') :
        attempts'[a].reply \in Final => \E i \in 1..Len(log) : log[i] = a
  BY <1>1, <1>3 DEF AnswersInv
<1>8. \A i \in 1..Len(log) : log[i] \in 1..Len(attempts)
  BY <1>2, ElementOfSeq
<1>9. \A i \in 1..Len(log) :
        /\ attempts'[log[i]].reply = "APPLIED" =>
             attempts'[log[i]].tx.id \in replay[i + 1].applied
        /\ attempts'[log[i]].reply = "TX_REJECTED" =>
             attempts'[log[i]].tx.id \notin replay[i].applied
  <2> SUFFICES ASSUME NEW i \in 1..Len(log)
               PROVE  /\ attempts'[log[i]].reply = "APPLIED" =>
                           attempts'[log[i]].tx.id \in replay[i + 1].applied
                      /\ attempts'[log[i]].reply = "TX_REJECTED" =>
                           attempts'[log[i]].tx.id \notin replay[i].applied
    OBVIOUS
  <2>1. CASE log[i] \in told
    BY <1>3, <1>4, <1>5, <1>6, <1>8, <2>1
  <2>2. CASE log[i] \notin told
    BY <1>3, <1>8, <2>2 DEF AnswersInv
  <2>3. QED
    BY <2>1, <2>2
<1>10. QED
  BY <1>1, <1>7, <1>9 DEF AnswersInv

LEMMA AnswersKept ==
  ASSUME GroupInv, AnswersInv, [GroupNext]_vars
  PROVE  AnswersInv'
<1>1. LogInv /\ NodesInv /\ attempts \in Seq(Attempt) /\ Len(attempts) \in Nat
  BY DEF GroupInv, LogInv
<1>2. ASSUME NEW a \in DOMAIN attempts, Commit(a) PROVE AnswersInv'
  BY <1>1, <1>2, CommitAnswers
<1>3. ASSUME NEW n \in Node, ApplyEntry(n) PROVE AnswersInv'
  BY <1>1, <1>3, ApplyEntryAnswers
<1>4. ASSUME NEW n \in Node, Submit(n) PROVE AnswersInv'
  <2>1. /\ log' = log /\ replay' = replay
        /\ Len(attempts') = Len(attempts) + 1
        /\ \A a \in 1..Len(attempts) : attempts'[a] = attempts[a]
        /\ attempts'[Len(attempts) + 1].reply = "WAITING"
    BY <1>1, <1>4, SubmitAttempts
  <2>2. \A a \in 1..Len(attempts') :
          \/ attempts'[a].reply \notin Final
          \/ a \in 1..Len(attempts) /\ attempts'[a] = attempts[a]
    <3> SUFFICES ASSUME NEW a \in 1..Len(attempts'), a \notin 1..Len(attempts)
                 PROVE  attempts'[a].reply \notin Final
      BY <2>1
    <3>1. a = Len(attempts) + 1
      BY <1>1, <2>1
    <3>2. QED
      BY <2>1, <3>1 DEF Final
  <2>3. QED
    BY <1>1, <2>1, <2>2, AnswersStay
<1>5. ASSUME NEW told, attempts' = Told(told, "UNKNOWN"), UNCHANGED <<log, replay>>
      PROVE  AnswersInv'
  <2>1. Len(attempts') = Len(attempts)
    BY <1>1, <1>5, ToldTyped DEF Reply
  <2>2. \A a \in 1..Len(attempts) :
          attempts'[a].reply = "UNKNOWN" \/ attempts'[a] = attempts[a]
    <3> SUFFICES ASSUME NEW a \in 1..Len(attempts)
                 PROVE  attempts'[a].reply = "UNKNOWN" \/ attempts'[a] = attempts[a]
      OBVIOUS
    <3>1. CASE a \in told
      BY <1>1, <1>5, <3>1, ToldTyped DEF Reply
    <3>2. CASE a \notin told
      BY <1>1, <1>5, <3>2, LenProperties DEF Told
    <3>3. QED
      BY <3>1, <3>2
  <2>3. QED
    BY <1>1, <1>5, <2>1, <2>2, AnswersStay DEF Final
<1>6. ASSUME NEW n \in Node, StepDown(n) \/ Crash(n) PROVE AnswersInv'
  BY <1>5, <1>6 DEF StepDown, Crash
<1>7. ASSUME UNCHANGED <<attempts, log, replay>> PROVE AnswersInv'
  BY <1>1, <1>7, AnswersStay
<1>8. ASSUME NEW n \in Node,
             \/ Lead(n) \/ TakeSnapshot(n) \/ Restart(n)
             \/ \E from \in Node : InstallSnapshot(n, from)
      PROVE  AnswersInv'
  BY <1>7, <1>8 DEF Lead, TakeSnapshot, Restart, InstallSnapshot
<1>9. CASE UNCHANGED vars
  BY <1>7, <1>9 DEF vars
<1>10. QED
  BY <1>2, <1>3, <1>4, <1>6, <1>8, <1>9 DEF GroupNext

LEMMA AnswersAlways == GroupSpec => [](GroupInv /\ AnswersInv)
<1>1. GroupInit => GroupInv /\ AnswersInv
  <2>1. GroupInit => AnswersInv
    BY DEF GroupInit, AnswersInv
  <2>2. QED
    BY <2>1, GroupInvInit
<1>2. (GroupInv /\ AnswersInv) /\ [GroupNext]_vars => (GroupInv /\ AnswersInv)'
  BY GroupInvKept, AnswersKept
<1>3. QED
  BY <1>1, <1>2, PTL DEF GroupSpec

(* A client that was told APPLIED finds its transaction among the accepted *)
(* ones of the whole log, whatever failed after the answer.                *)
THEOREM AppliedIsDurable == GroupSpec => []AppliedSurvives
<1>1. GroupInv /\ AnswersInv => AppliedSurvives
  <2> SUFFICES ASSUME GroupInv, AnswersInv, NEW a \in DOMAIN attempts,
                      attempts[a].reply = "APPLIED"
               PROVE  a \in Committed /\ attempts[a].tx.id \in Last(replay).applied
    BY DEF AppliedSurvives
  <2>1. /\ DOMAIN attempts = 1..Len(attempts) /\ DOMAIN log = 1..Len(log)
        /\ Len(log) \in Nat /\ Len(replay) = Len(log) + 1
    BY LenProperties DEF GroupInv, LogInv
  <2>2. PICK i \in 1..Len(log) : log[i] = a
    BY <2>1 DEF AnswersInv, Final
  <2>3. a \in Committed
    BY <2>1, <2>2 DEF Committed
  <2>4. attempts[a].tx.id \in replay[i + 1].applied
    BY <2>2 DEF AnswersInv
  <2>5. i + 1 \in 1..Len(replay) /\ Len(replay) \in 1..Len(replay) /\ i + 1 <= Len(replay)
    BY <2>1
  <2>6. replay[i + 1].applied \subseteq replay[Len(replay)].applied
    BY <2>5 DEF AnswersInv
  <2>7. QED
    BY <2>3, <2>4, <2>6 DEF Last
<1>2. QED
  BY <1>1, AnswersAlways, PTL

(* A transaction sent again after a lost answer: once one copy of it was   *)
(* accepted, later copies change no replica and are not told TX_REJECTED.  *)
THEOREM RetriesAreHarmless == GroupSpec => []RetryIsHarmless
<1>1. GroupInv /\ AnswersInv => RetryIsHarmless
  <2> SUFFICES ASSUME GroupInv, AnswersInv, NEW i \in DOMAIN log, NEW j \in DOMAIN log,
                      i < j, TxAt(i) = TxAt(j), TxAt(i).id \in replay[i + 1].applied
               PROVE  replay[j + 1] = replay[j] /\ attempts[log[j]].reply # "TX_REJECTED"
    BY DEF RetryIsHarmless
  <2>1. DOMAIN log = 1..Len(log) /\ Len(log) \in Nat /\ Len(replay) = Len(log) + 1
    BY LenProperties DEF GroupInv, LogInv
  <2>2. i + 1 \in 1..Len(replay) /\ j \in 1..Len(replay) /\ i + 1 <= j /\ j \in 1..Len(log)
    BY <2>1
  <2>3. TxAt(j).id \in replay[j].applied
    BY <2>2 DEF AnswersInv
  <2>4. replay[j + 1] = ApplyTx(replay[j], TxAt(j))
    BY <2>2 DEF GroupInv, LogInv
  <2>5. replay[j + 1] = replay[j]
    BY <2>3, <2>4, ApplyTxFacts
  <2>6. attempts[log[j]].reply # "TX_REJECTED"
    BY <2>2, <2>3 DEF AnswersInv, TxAt
  <2>7. QED
    BY <2>5, <2>6
<1>2. QED
  BY <1>1, AnswersAlways, PTL

-----------------------------------------------------------------------------
(* The group as one machine.  ActsAsOneMachine instantiates P2PState, which *)
(* brings its own copies of P2PMachine's operators: they are the same.      *)

(* Expire.                                                                *)
LEMMA GroupExpire ==
  ASSUME NEW m, NEW at
  PROVE  Group!Expire(m, at) = Expire(m, at)
BY DEF Group!Expire, Group!Lapsed, Group!LiveOn, Group!Event, Expire, Lapsed, LiveOn,
       Event

(* SESSION_CREATE.                                                        *)
LEMMA GroupCreateSession ==
  ASSUME NEW m, NEW plan
  PROVE  /\ Group!CanCreateSession(m, plan) <=> CanCreateSession(m, plan)
         /\ Group!DoCreateSession(m, plan) = DoCreateSession(m, plan)
<1>1. Group!CanCreateSession(m, plan) <=> CanCreateSession(m, plan)
  BY DEF Group!CanCreateSession, CanCreateSession
<1>2. Group!DoCreateSession(m, plan) = DoCreateSession(m, plan)
  BY DEF Group!DoCreateSession, Group!CreatesAll, Group!StepFrom, Group!Event,
       Group!Written, Group!DraftOK, Group!StepExists, DoCreateSession, CreatesAll,
       StepFrom, Event, Written, DraftOK, StepExists
<1>3. QED
  BY <1>1, <1>2

(* PARTICIPANT_JOIN.                                                      *)
LEMMA GroupJoin ==
  ASSUME NEW m, NEW x, NEW r, NEW p, NEW caps
  PROVE  /\ Group!CanJoin(m, x, r, p) <=> CanJoin(m, x, r, p)
         /\ Group!DoJoin(m, x, r, p, caps) = DoJoin(m, x, r, p, caps)
<1>1. Group!CanJoin(m, x, r, p) <=> CanJoin(m, x, r, p)
  BY DEF Group!CanJoin, Group!ParticipantExists, CanJoin, ParticipantExists
<1>2. Group!DoJoin(m, x, r, p, caps) = DoJoin(m, x, r, p, caps)
  BY DEF Group!DoJoin, Group!Event, DoJoin, Event
<1>3. QED
  BY <1>1, <1>2

(* STEP_CLAIM.                                                            *)
LEMMA GroupClaim ==
  ASSUME NEW m, NEW at, NEW s, NEW p, NEW c, NEW secs
  PROVE  /\ Group!CanClaim(m, at, s, p, c) <=> CanClaim(m, at, s, p, c)
         /\ Group!DoClaim(m, at, s, p, c, secs) = DoClaim(m, at, s, p, c, secs)
<1>1. Group!CanClaim(m, at, s, p, c) <=> CanClaim(m, at, s, p, c)
  BY DEF Group!CanClaim, Group!HasCapabilities, Group!DepsResolved, Group!DepStep,
       Group!InSession, Group!LiveOn, Group!StepExists, Group!SameSession,
       Group!ParticipantExists, CanClaim, HasCapabilities, DepsResolved, DepStep,
       InSession, LiveOn, StepExists, SameSession, ParticipantExists
<1>2. Group!DoClaim(m, at, s, p, c, secs) = DoClaim(m, at, s, p, c, secs)
  BY DEF Group!DoClaim, Group!NewClaim, Group!Event, DoClaim, NewClaim, Event
<1>3. QED
  BY <1>1, <1>2

(* STEP_RELEASE.                                                          *)
LEMMA GroupRelease ==
  ASSUME NEW m, NEW at, NEW s, NEW p
  PROVE  /\ Group!CanRelease(m, at, s, p) <=> CanRelease(m, at, s, p)
         /\ Group!DoRelease(m, at, s, p) = DoRelease(m, at, s, p)
<1>1. Group!CanRelease(m, at, s, p) <=> CanRelease(m, at, s, p)
  BY DEF Group!CanRelease, Group!StepExists, Group!ParticipantExists, Group!LiveFor,
       Group!LiveOn, CanRelease, StepExists, ParticipantExists, LiveFor, LiveOn
<1>2. Group!DoRelease(m, at, s, p) = DoRelease(m, at, s, p)
  BY DEF Group!DoRelease, Group!LiveFor, Group!LiveOn, Group!Event, DoRelease, LiveFor,
       LiveOn, Event
<1>3. QED
  BY <1>1, <1>2

(* STEP_HANDOFF.                                                          *)
LEMMA GroupHandoff ==
  ASSUME NEW m, NEW at, NEW s, NEW p, NEW q, NEW c, NEW secs
  PROVE  /\ Group!CanHandoff(m, at, s, p, q, c) <=> CanHandoff(m, at, s, p, q, c)
         /\ Group!DoHandoff(m, at, s, p, q, c, secs) = DoHandoff(m, at, s, p, q, c, secs)
<1>1. Group!CanHandoff(m, at, s, p, q, c) <=> CanHandoff(m, at, s, p, q, c)
  BY DEF Group!CanHandoff, Group!HasCapabilities, Group!LiveFor, Group!LiveOn,
       Group!StepExists, Group!SameSession, Group!ParticipantExists, CanHandoff,
       HasCapabilities, LiveFor, LiveOn, StepExists, SameSession, ParticipantExists
<1>2. Group!DoHandoff(m, at, s, p, q, c, secs) = DoHandoff(m, at, s, p, q, c, secs)
  BY DEF Group!DoHandoff, Group!NewClaim, Group!LiveFor, Group!LiveOn, Group!Event,
       DoHandoff, NewClaim, LiveFor, LiveOn, Event
<1>3. QED
  BY <1>1, <1>2

(* ARTIFACT_ADD.                                                          *)
LEMMA GroupAddArtifact ==
  ASSUME NEW m, NEW at, NEW s, NEW p, NEW a
  PROVE  /\ Group!CanAddArtifact(m, at, s, p, a) <=> CanAddArtifact(m, at, s, p, a)
         /\ Group!DoAddArtifact(m, s, p, a) = DoAddArtifact(m, s, p, a)
<1>1. Group!CanAddArtifact(m, at, s, p, a) <=> CanAddArtifact(m, at, s, p, a)
  BY DEF Group!CanAddArtifact, Group!ArtifactExists, Group!LiveFor, Group!LiveOn,
       Group!StepExists, Group!SameSession, Group!ParticipantExists, CanAddArtifact,
       ArtifactExists, LiveFor, LiveOn, StepExists, SameSession, ParticipantExists
<1>2. Group!DoAddArtifact(m, s, p, a) = DoAddArtifact(m, s, p, a)
  BY DEF Group!DoAddArtifact, Group!Event, DoAddArtifact, Event
<1>3. QED
  BY <1>1, <1>2

(* DECISION_OPEN.                                                         *)
LEMMA GroupOpenDecision ==
  ASSUME NEW m, NEW s, NEW d, NEW policy, NEW deadline
  PROVE  /\ Group!CanOpenDecision(m, s, d) <=> CanOpenDecision(m, s, d)
         /\ Group!DoOpenDecision(m, s, d, policy, deadline) =
              DoOpenDecision(m, s, d, policy, deadline)
<1>1. Group!CanOpenDecision(m, s, d) <=> CanOpenDecision(m, s, d)
  BY DEF Group!CanOpenDecision, CanOpenDecision
<1>2. Group!DoOpenDecision(m, s, d, policy, deadline) =
              DoOpenDecision(m, s, d, policy, deadline)
  BY DEF Group!DoOpenDecision, Group!Normalized, Group!Event, DoOpenDecision,
       Normalized, Event
<1>3. QED
  BY <1>1, <1>2

(* Counting.                                                              *)
LEMMA GroupCardinality ==
  ASSUME NEW S PROVE Group!Cardinality(S) = Cardinality(S)
BY DEF Group!Cardinality, Cardinality

(* A verdict.                                                              *)
LEMMA GroupEvaluate ==
  ASSUME NEW policy, NEW ballots
  PROVE  Group!Evaluate(policy, ballots) = Evaluate(policy, ballots)
BY GroupCardinality DEF Group!Evaluate, Group!Count, Group!Voters, Group!NoVote, Evaluate, Count, Voters, NoVote

(* VOTE_CAST.                                                             *)
LEMMA GroupVote ==
  ASSUME NEW m, NEW at, NEW d, NEW p, NEW v, NEW choice
  PROVE  /\ Group!CanVote(m, at, d, p, v) <=> CanVote(m, at, d, p, v)
         /\ Group!DoVote(m, d, p, v, choice) = DoVote(m, d, p, v, choice)
<1>1. Group!CanVote(m, at, d, p, v) <=> CanVote(m, at, d, p, v)
  BY DEF Group!CanVote, Group!VoteExists, Group!SameSession, Group!ParticipantExists,
       Group!NoVote, CanVote, VoteExists, SameSession, ParticipantExists, NoVote
<1>2. Group!DoVote(m, d, p, v, choice) = DoVote(m, d, p, v, choice)
  BY GroupEvaluate DEF Group!DoVote, Group!Normalized, Group!Event, DoVote, Normalized, Event
<1>3. QED
  BY <1>1, <1>2

(* STEP_RESOLVE.                                                          *)
LEMMA GroupResolve ==
  ASSUME NEW m, NEW at, NEW s, NEW p
  PROVE  /\ Group!CanResolve(m, at, s, p) <=> CanResolve(m, at, s, p)
         /\ Group!DoResolve(m, at, s) = DoResolve(m, at, s)
<1>1. Group!CanResolve(m, at, s, p) <=> CanResolve(m, at, s, p)
  BY DEF Group!CanResolve, Group!ParticipantExists, Group!LiveFor, Group!LiveOn,
       CanResolve, ParticipantExists, LiveFor, LiveOn
<1>2. Group!DoResolve(m, at, s) = DoResolve(m, at, s)
  BY DEF Group!DoResolve, Group!LiveOn, Group!StepExists, Group!Event, DoResolve,
       LiveOn, StepExists, Event
<1>3. QED
  BY <1>1, <1>2

(* The empty machine.                                                      *)
LEMMA GroupEmpty == Group!EmptyMachine = EmptyMachine
BY DEF Group!EmptyMachine, Group!NoStep, Group!NoParticipant, Group!NoClaim, Group!NoDecision,
       Group!NoVote, EmptyMachine, NoStep, NoParticipant, NoClaim, NoDecision, NoVote

(* The machine of the whole log, after a transaction of Txs on machine m:  *)
(* one step of the machine of P2PState.                                    *)
ResultOf(m, tx) == IF Accepts(m, tx) \/ StartsSession(m, tx) THEN Effect(m, tx) ELSE m

LEMMA TxIsStep ==
  ASSUME NEW m, NEW tx \in Txs, IsTx(tx), Last(replay').machine = ResultOf(m, tx)
  PROVE  Group!Apply(m, tx.at)
<1> DEFINE a == tx.args
           n == Last(replay').machine
<1>1. n = m \/ ((Accepts(m, tx) \/ StartsSession(m, tx)) /\ n = Effect(m, tx))
  BY DEF ResultOf
<1>2. CASE n = m
  BY <1>2 DEF Group!Apply, Group!Rejected
<1>3. ASSUME Accepts(m, tx) \/ StartsSession(m, tx), n = Effect(m, tx)
      PROVE  Group!Apply(m, tx.at)
  <2>1. CASE tx \in TxOf("SESSION_CREATE", [plan: Plan])
    <3>1. tx.op = "SESSION_CREATE"
      BY <2>1 DEF TxOf
    <3>3. CanCreateSession(m, a.plan)
      BY <1>3, <3>1 DEF Accepts, StartsSession
    <3>4. n = DoCreateSession(m, a.plan)
      BY <1>3, <3>1 DEF Effect
    <3>5. a.plan \in {t.args.plan : t \in {u \in Txs : u.op = "SESSION_CREATE"}}
      BY <3>1
    <3> HIDE DEF n, a
    <3>6. /\ Group!CanCreateSession(m, a.plan)
          /\ n = Group!DoCreateSession(m, a.plan)
      BY <3>3, <3>4, GroupCreateSession
    <3>7. Group!SessionCreate(m)
      BY <3>5, <3>6 DEF Group!SessionCreate, n
    <3>8. QED
      BY <3>7 DEF Group!Apply
  <2>2. CASE tx \in TxOf("PARTICIPANT_JOIN", [session: SessionId, ref: Ref,
                   participant: ParticipantId, caps: SUBSET Capability])
    <3>1. tx.op = "PARTICIPANT_JOIN"
      BY <2>2 DEF TxOf
    <3>2. /\ a.session \in SessionId
          /\ a.ref \in Ref
          /\ a.participant \in ParticipantId
          /\ a.caps \in SUBSET Capability
      BY <2>2 DEF TxOf
    <3>3. CanJoin(m, a.session, a.ref, a.participant)
      BY <1>3, <3>1 DEF Accepts, StartsSession
    <3>4. n = DoJoin(m, a.session, a.ref, a.participant, a.caps)
      BY <1>3, <3>1 DEF Effect
    <3> HIDE DEF n, a
    <3>6. /\ Group!CanJoin(m, a.session, a.ref, a.participant)
          /\ n = Group!DoJoin(m, a.session, a.ref, a.participant, a.caps)
      BY <3>3, <3>4, GroupJoin
    <3>7. Group!ParticipantJoin(m)
      BY <3>2, <3>6 DEF Group!ParticipantJoin, n
    <3>8. QED
      BY <3>7 DEF Group!Apply
  <2>3. CASE tx \in TxOf("STEP_CLAIM", [step: StepId, participant: ParticipantId,
                   claim: ClaimId, secs: Int])
    <3>1. tx.op = "STEP_CLAIM"
      BY <2>3 DEF TxOf
    <3>2. /\ a.step \in StepId
          /\ a.participant \in ParticipantId
          /\ a.claim \in ClaimId
      BY <2>3 DEF TxOf
    <3>3. CanClaim(m, tx.at, a.step, a.participant, a.claim)
      BY <1>3, <3>1 DEF Accepts, StartsSession
    <3>4. n = DoClaim(m, tx.at, a.step, a.participant, a.claim, a.secs)
      BY <1>3, <3>1 DEF Effect
    <3>5. a.secs \in {t.args.secs : t \in {u \in Txs : u.op \in {"STEP_CLAIM", "STEP_HANDOFF"}}}
      BY <3>1
    <3> HIDE DEF n, a
    <3>6. /\ Group!CanClaim(m, tx.at, a.step, a.participant, a.claim)
          /\ n = Group!DoClaim(m, tx.at, a.step, a.participant, a.claim, a.secs)
      BY <3>3, <3>4, GroupClaim
    <3>7. Group!StepClaim(m, tx.at)
      BY <3>2, <3>5, <3>6 DEF Group!StepClaim, n
    <3>8. QED
      BY <3>7 DEF Group!Apply
  <2>4. CASE tx \in TxOf("STEP_RELEASE", [step: StepId, participant: ParticipantId])
    <3>1. tx.op = "STEP_RELEASE"
      BY <2>4 DEF TxOf
    <3>2. /\ a.step \in StepId
          /\ a.participant \in ParticipantId
      BY <2>4 DEF TxOf
    <3>3. CanRelease(m, tx.at, a.step, a.participant)
      BY <1>3, <3>1 DEF Accepts, StartsSession
    <3>4. n = DoRelease(m, tx.at, a.step, a.participant)
      BY <1>3, <3>1 DEF Effect
    <3> HIDE DEF n, a
    <3>6. /\ Group!CanRelease(m, tx.at, a.step, a.participant)
          /\ n = Group!DoRelease(m, tx.at, a.step, a.participant)
      BY <3>3, <3>4, GroupRelease
    <3>7. Group!StepRelease(m, tx.at)
      BY <3>2, <3>6 DEF Group!StepRelease, n
    <3>8. QED
      BY <3>7 DEF Group!Apply
  <2>5. CASE tx \in TxOf("STEP_HANDOFF", [step: StepId, from: ParticipantId, to: ParticipantId,
                   claim: ClaimId, secs: Int])
    <3>1. tx.op = "STEP_HANDOFF"
      BY <2>5 DEF TxOf
    <3>2. /\ a.step \in StepId
          /\ a.from \in ParticipantId
          /\ a.to \in ParticipantId
          /\ a.claim \in ClaimId
      BY <2>5 DEF TxOf
    <3>3. CanHandoff(m, tx.at, a.step, a.from, a.to, a.claim)
      BY <1>3, <3>1 DEF Accepts, StartsSession
    <3>4. n = DoHandoff(m, tx.at, a.step, a.from, a.to, a.claim, a.secs)
      BY <1>3, <3>1 DEF Effect
    <3>5. a.secs \in {t.args.secs : t \in {u \in Txs : u.op \in {"STEP_CLAIM", "STEP_HANDOFF"}}}
      BY <3>1
    <3> HIDE DEF n, a
    <3>6. /\ Group!CanHandoff(m, tx.at, a.step, a.from, a.to, a.claim)
          /\ n = Group!DoHandoff(m, tx.at, a.step, a.from, a.to, a.claim, a.secs)
      BY <3>3, <3>4, GroupHandoff
    <3>7. Group!StepHandoff(m, tx.at)
      BY <3>2, <3>5, <3>6 DEF Group!StepHandoff, n
    <3>8. QED
      BY <3>7 DEF Group!Apply
  <2>6. CASE tx \in TxOf("ARTIFACT_ADD", [step: StepId, participant: ParticipantId,
                   artifact: ArtifactId])
    <3>1. tx.op = "ARTIFACT_ADD"
      BY <2>6 DEF TxOf
    <3>2. /\ a.step \in StepId
          /\ a.participant \in ParticipantId
          /\ a.artifact \in ArtifactId
      BY <2>6 DEF TxOf
    <3>3. CanAddArtifact(m, tx.at, a.step, a.participant, a.artifact)
      BY <1>3, <3>1 DEF Accepts, StartsSession
    <3>4. n = DoAddArtifact(m, a.step, a.participant, a.artifact)
      BY <1>3, <3>1 DEF Effect
    <3> HIDE DEF n, a
    <3>6. /\ Group!CanAddArtifact(m, tx.at, a.step, a.participant, a.artifact)
          /\ n = Group!DoAddArtifact(m, a.step, a.participant, a.artifact)
      BY <3>3, <3>4, GroupAddArtifact
    <3>7. Group!ArtifactAdd(m, tx.at)
      BY <3>2, <3>6 DEF Group!ArtifactAdd, n
    <3>8. QED
      BY <3>7 DEF Group!Apply
  <2>7. CASE tx \in TxOf("DECISION_OPEN", [step: StepId, decision: DecisionId, policy: Policy,
                   deadline: Nat \cup {None}])
    <3>1. tx.op = "DECISION_OPEN"
      BY <2>7 DEF TxOf
    <3>2. /\ a.step \in StepId
          /\ a.decision \in DecisionId
      BY <2>7 DEF TxOf
    <3>3. CanOpenDecision(m, a.step, a.decision)
      BY <1>3, <3>1 DEF Accepts, StartsSession
    <3>4. n = DoOpenDecision(m, a.step, a.decision, a.policy, a.deadline)
      BY <1>3, <3>1 DEF Effect
    <3>5. /\ a.policy \in {t.args.policy : t \in {u \in Txs : u.op = "DECISION_OPEN"}}
          /\ a.deadline \in {t.args.deadline : t \in {u \in Txs : u.op = "DECISION_OPEN"}}
      BY <3>1
    <3> HIDE DEF n, a
    <3>6. /\ Group!CanOpenDecision(m, a.step, a.decision)
          /\ n = Group!DoOpenDecision(m, a.step, a.decision, a.policy, a.deadline)
      BY <3>3, <3>4, GroupOpenDecision
    <3>7. Group!DecisionOpen(m)
      BY <3>2, <3>5, <3>6 DEF Group!DecisionOpen, n
    <3>8. QED
      BY <3>7 DEF Group!Apply
  <2>8. CASE tx \in TxOf("VOTE_CAST", [decision: DecisionId, participant: ParticipantId,
                   vote: VoteId, choice: Choice])
    <3>1. tx.op = "VOTE_CAST"
      BY <2>8 DEF TxOf
    <3>2. /\ a.decision \in DecisionId
          /\ a.participant \in ParticipantId
          /\ a.vote \in VoteId
          /\ a.choice \in Choice
      BY <2>8 DEF TxOf
    <3>3. CanVote(m, tx.at, a.decision, a.participant, a.vote)
      BY <1>3, <3>1 DEF Accepts, StartsSession
    <3>4. n = DoVote(m, a.decision, a.participant, a.vote, a.choice)
      BY <1>3, <3>1 DEF Effect
    <3> HIDE DEF n, a
    <3>6. /\ Group!CanVote(m, tx.at, a.decision, a.participant, a.vote)
          /\ n = Group!DoVote(m, a.decision, a.participant, a.vote, a.choice)
      BY <3>3, <3>4, GroupVote
    <3>7. Group!VoteCast(m, tx.at)
      BY <3>2, <3>6 DEF Group!VoteCast, n, Group!Choice, Choice
    <3>8. QED
      BY <3>7 DEF Group!Apply
  <2>9. CASE tx \in TxOf("STEP_RESOLVE", [step: StepId, participant: ParticipantId \cup {None}])
    <3>1. tx.op = "STEP_RESOLVE"
      BY <2>9 DEF TxOf
    <3>2. /\ a.step \in StepId
          /\ a.participant \in ParticipantId \cup {None}
      BY <2>9 DEF TxOf
    <3>3. CanResolve(m, tx.at, a.step, a.participant)
      BY <1>3, <3>1 DEF Accepts, StartsSession
    <3>4. n = DoResolve(m, tx.at, a.step)
      BY <1>3, <3>1 DEF Effect
    <3> HIDE DEF n, a
    <3>6. /\ Group!CanResolve(m, tx.at, a.step, a.participant)
          /\ n = Group!DoResolve(m, tx.at, a.step)
      BY <3>3, <3>4, GroupResolve
    <3>7. Group!StepResolve(m, tx.at)
      BY <3>2, <3>6 DEF Group!StepResolve, n
    <3>8. QED
      BY <3>7 DEF Group!Apply
  <2>10. QED
    BY <2>1, <2>2, <2>3, <2>4, <2>5, <2>6, <2>7, <2>8, <2>9 DEF IsTx
<1>4. QED
  BY <1>1, <1>2, <1>3


(* An entry of the log is a step of that machine or, when its id was       *)
(* applied before, no step at all.                                         *)
LEMMA CommitIsStep ==
  ASSUME LogInv, NEW a \in DOMAIN attempts, Commit(a)
  PROVE  Group!Next \/ Last(replay').machine = Last(replay).machine
<1> DEFINE tx == attempts[a].tx
           f == Last(replay)
           m == Expire(f.machine, tx.at)
<1>1. tx \in Txs /\ IsTx(tx)
  BY AttemptIsTx DEF LogInv
<1>2. f = replay[Len(log) + 1]
  BY DEF Last, LogInv
<1>3. Last(replay') = ApplyTx(f, tx)
  <2>1. LogInv' /\ Len(log') = Len(log) + 1 /\ replay'[Len(log) + 2] = ApplyTx(f, tx)
    BY <1>2, CommitLog
  <2>2. Len(replay') = Len(log) + 2
    BY <2>1 DEF LogInv
  <2>3. QED
    BY <2>1, <2>2 DEF Last
<1>4. CASE tx.id \in f.applied
  BY <1>3, <1>4 DEF ApplyTx
<1>5. CASE tx.id \notin f.applied
  <2>1. Last(replay') = Handled(f, m, tx)
    BY <1>3, <1>5 DEF ApplyTx
  <2>2. Last(replay').machine = ResultOf(m, tx)
    BY <2>1 DEF Handled, ResultOf
  <2> HIDE DEF m
  <2>3. Group!Apply(m, tx.at)
    BY <1>1, <2>2, TxIsStep
  <2>4. m = Group!Expire(f.machine, tx.at)
    BY GroupExpire DEF m
  <2>5. tx.at \in {t.at : t \in Txs}
    BY <1>1
  <2>6. Group!Next
    BY <2>3, <2>4, <2>5 DEF Group!Next
  <2>7. QED
    BY <2>6
<1>6. QED
  BY <1>4, <1>5

LEMMA NextIsStep ==
  ASSUME GroupInv, [GroupNext]_vars
  PROVE  Group!Next \/ Last(replay').machine = Last(replay).machine
<1>1. ASSUME NEW a \in DOMAIN attempts, Commit(a)
      PROVE  Group!Next \/ Last(replay').machine = Last(replay).machine
  BY <1>1, CommitIsStep DEF GroupInv
<1>2. (\A a \in DOMAIN attempts : ~ Commit(a)) => replay' = replay
  BY DEF GroupNext, vars, Submit, ApplyEntry, Lead, StepDown, TakeSnapshot, InstallSnapshot,
         Crash, Restart
<1>3. QED
  BY <1>1, <1>2

(* A client that sees the group sees one state machine: whatever the       *)
(* elections, crashes, snapshots, lost answers and repeated submissions,   *)
(* the machine that applied the whole log moves only as P2PState does.     *)
THEOREM OneMachine == GroupSpec => ActsAsOneMachine
<1>1. GroupInit => Group!Init
  <2>1. GroupInit => Last(replay).machine = EmptyMachine
    BY DEF GroupInit, Last, NewReplica
  <2>2. QED
    BY <2>1, GroupEmpty DEF Group!Init
<1>2. GroupInv /\ [GroupNext]_vars => [Group!Next]_(Last(replay).machine)
  <2>1. Last(replay').machine = Last(replay).machine => (Last(replay).machine)' = Last(replay).machine
    BY DEF Last
  <2>2. QED
    BY <2>1, NextIsStep
<1>3. QED
  BY <1>1, <1>2, GroupInvAlways, PTL DEF GroupSpec, ActsAsOneMachine, Group!Spec

(* On every node, at any time, the books are in order as well: BooksInv of *)
(* P2PState_proofs.  The handler of a transaction, on the machine that     *)
(* its timestamp has already expired the claims of.                        *)
LEMMA ResultBooks ==
  ASSUME NEW m, LeaseInv(m), NEW tx, IsTx(tx), BooksInv(m)
  PROVE  BooksInv(ResultOf(m, tx))
<1> DEFINE a == tx.args
           n == ResultOf(m, tx)
<1>1. n = m \/ ((Accepts(m, tx) \/ StartsSession(m, tx)) /\ n = Effect(m, tx))
  BY DEF ResultOf
<1>2. CASE n = m
  BY <1>2
<1>3. ASSUME Accepts(m, tx) \/ StartsSession(m, tx), n = Effect(m, tx)
      PROVE  BooksInv(n)
  <2>1. CASE tx \in TxOf("SESSION_CREATE", [plan: Plan])
    <3>1. tx.op = "SESSION_CREATE"
      BY <2>1 DEF TxOf
    <3>2. /\ a.plan \in Plan
      BY <2>1 DEF TxOf
    <3>3. CanCreateSession(m, a.plan)
      BY <1>3, <3>1 DEF Accepts, StartsSession
    <3>4. n = DoCreateSession(m, a.plan)
      BY <1>3, <3>1 DEF Effect
    <3> HIDE DEF n, a
    <3>5. QED
      BY <3>2, <3>3, <3>4, CreateSessionBooks
  <2>2. CASE tx \in TxOf("PARTICIPANT_JOIN", [session: SessionId, ref: Ref,
                   participant: ParticipantId, caps: SUBSET Capability])
    <3>1. tx.op = "PARTICIPANT_JOIN"
      BY <2>2 DEF TxOf
    <3>2. /\ a.session \in SessionId
          /\ a.ref \in Ref
          /\ a.participant \in ParticipantId
          /\ a.caps \in SUBSET Capability
      BY <2>2 DEF TxOf
    <3>3. CanJoin(m, a.session, a.ref, a.participant)
      BY <1>3, <3>1 DEF Accepts, StartsSession
    <3>4. n = DoJoin(m, a.session, a.ref, a.participant, a.caps)
      BY <1>3, <3>1 DEF Effect
    <3> HIDE DEF n, a
    <3>5. QED
      BY <3>2, <3>3, <3>4, JoinBooks
  <2>3. CASE tx \in TxOf("STEP_CLAIM", [step: StepId, participant: ParticipantId,
                   claim: ClaimId, secs: Int])
    <3>1. tx.op = "STEP_CLAIM"
      BY <2>3 DEF TxOf
    <3>2. /\ a.step \in StepId
          /\ a.participant \in ParticipantId
          /\ a.claim \in ClaimId
          /\ a.secs \in Int
      BY <2>3 DEF TxOf
    <3>3. CanClaim(m, tx.at, a.step, a.participant, a.claim)
      BY <1>3, <3>1 DEF Accepts, StartsSession
    <3>4. n = DoClaim(m, tx.at, a.step, a.participant, a.claim, a.secs)
      BY <1>3, <3>1 DEF Effect
    <3> HIDE DEF n, a
    <3>5. QED
      BY <3>2, <3>3, <3>4, ClaimBooks
  <2>4. CASE tx \in TxOf("STEP_RELEASE", [step: StepId, participant: ParticipantId])
    <3>1. tx.op = "STEP_RELEASE"
      BY <2>4 DEF TxOf
    <3>2. /\ a.step \in StepId
          /\ a.participant \in ParticipantId
      BY <2>4 DEF TxOf
    <3>3. CanRelease(m, tx.at, a.step, a.participant)
      BY <1>3, <3>1 DEF Accepts, StartsSession
    <3>4. n = DoRelease(m, tx.at, a.step, a.participant)
      BY <1>3, <3>1 DEF Effect
    <3> HIDE DEF n, a
    <3>5. QED
      BY <3>2, <3>3, <3>4, ReleaseBooks
  <2>5. CASE tx \in TxOf("STEP_HANDOFF", [step: StepId, from: ParticipantId, to: ParticipantId,
                   claim: ClaimId, secs: Int])
    <3>1. tx.op = "STEP_HANDOFF"
      BY <2>5 DEF TxOf
    <3>2. /\ a.step \in StepId
          /\ a.from \in ParticipantId
          /\ a.to \in ParticipantId
          /\ a.claim \in ClaimId
          /\ a.secs \in Int
      BY <2>5 DEF TxOf
    <3>3. CanHandoff(m, tx.at, a.step, a.from, a.to, a.claim)
      BY <1>3, <3>1 DEF Accepts, StartsSession
    <3>4. n = DoHandoff(m, tx.at, a.step, a.from, a.to, a.claim, a.secs)
      BY <1>3, <3>1 DEF Effect
    <3> HIDE DEF n, a
    <3>5. QED
      BY <3>2, <3>3, <3>4, HandoffBooks
  <2>6. CASE tx \in TxOf("ARTIFACT_ADD", [step: StepId, participant: ParticipantId,
                   artifact: ArtifactId])
    <3>1. tx.op = "ARTIFACT_ADD"
      BY <2>6 DEF TxOf
    <3>2. /\ a.step \in StepId
          /\ a.participant \in ParticipantId
          /\ a.artifact \in ArtifactId
      BY <2>6 DEF TxOf
    <3>3. CanAddArtifact(m, tx.at, a.step, a.participant, a.artifact)
      BY <1>3, <3>1 DEF Accepts, StartsSession
    <3>4. n = DoAddArtifact(m, a.step, a.participant, a.artifact)
      BY <1>3, <3>1 DEF Effect
    <3> HIDE DEF n, a
    <3>5. QED
      BY <3>2, <3>3, <3>4, AddArtifactBooks
  <2>7. CASE tx \in TxOf("DECISION_OPEN", [step: StepId, decision: DecisionId, policy: Policy,
                   deadline: Nat \cup {None}])
    <3>1. tx.op = "DECISION_OPEN"
      BY <2>7 DEF TxOf
    <3>2. /\ a.step \in StepId
          /\ a.decision \in DecisionId
          /\ a.policy \in Policy
      BY <2>7 DEF TxOf
    <3>3. CanOpenDecision(m, a.step, a.decision)
      BY <1>3, <3>1 DEF Accepts, StartsSession
    <3>4. n = DoOpenDecision(m, a.step, a.decision, a.policy, a.deadline)
      BY <1>3, <3>1 DEF Effect
    <3> HIDE DEF n, a
    <3>5. QED
      BY <3>2, <3>3, <3>4, OpenDecisionBooks
  <2>8. CASE tx \in TxOf("VOTE_CAST", [decision: DecisionId, participant: ParticipantId,
                   vote: VoteId, choice: Choice])
    <3>1. tx.op = "VOTE_CAST"
      BY <2>8 DEF TxOf
    <3>2. /\ a.decision \in DecisionId
          /\ a.participant \in ParticipantId
          /\ a.vote \in VoteId
          /\ a.choice \in Choice
      BY <2>8 DEF TxOf
    <3>3. CanVote(m, tx.at, a.decision, a.participant, a.vote)
      BY <1>3, <3>1 DEF Accepts, StartsSession
    <3>4. n = DoVote(m, a.decision, a.participant, a.vote, a.choice)
      BY <1>3, <3>1 DEF Effect
    <3> HIDE DEF n, a
    <3>5. QED
      BY <3>2, <3>3, <3>4, VoteBooks
  <2>9. CASE tx \in TxOf("STEP_RESOLVE", [step: StepId, participant: ParticipantId \cup {None}])
    <3>1. tx.op = "STEP_RESOLVE"
      BY <2>9 DEF TxOf
    <3>2. /\ a.step \in StepId
          /\ a.participant \in ParticipantId \cup {None}
      BY <2>9 DEF TxOf
    <3>3. CanResolve(m, tx.at, a.step, a.participant)
      BY <1>3, <3>1 DEF Accepts, StartsSession
    <3>4. n = DoResolve(m, tx.at, a.step)
      BY <1>3, <3>1 DEF Effect
    <3> HIDE DEF n, a
    <3>5. QED
      BY <3>2, <3>3, <3>4, ResolveBooks
  <2>10. QED
    BY <2>1, <2>2, <2>3, <2>4, <2>5, <2>6, <2>7, <2>8, <2>9 DEF IsTx
<1>4. QED
  BY <1>1, <1>2, <1>3

LEMMA ApplyTxBooks ==
  ASSUME NEW f, LeaseInv(f.machine), BooksInv(f.machine), NEW tx, IsTx(tx)
  PROVE  BooksInv(ApplyTx(f, tx).machine)
<1> DEFINE m == Expire(f.machine, tx.at)
<1>1. tx.at \in Nat
  BY TxTyped
<1>2. LeaseInv(m) /\ BooksInv(m)
  BY <1>1, ExpireLease, ExpireBooks
<1>3. ApplyTx(f, tx).machine = f.machine \/ ApplyTx(f, tx).machine = ResultOf(m, tx)
  BY DEF ApplyTx, Handled, ResultOf
<1> HIDE DEF m
<1>4. BooksInv(ResultOf(m, tx))
  BY <1>2, ResultBooks
<1>5. QED
  BY <1>3, <1>4

LogBooks == \A i \in 1..Len(replay) : BooksInv(replay[i].machine)

LEMMA LogBooksKept ==
  ASSUME GroupInv, LogBooks, [GroupNext]_vars
  PROVE  LogBooks'
<1>1. ASSUME NEW a \in DOMAIN attempts, Commit(a)
      PROVE  LogBooks'
  <2>1. /\ Len(log) \in Nat /\ Len(replay) = Len(log) + 1 /\ a \in 1..Len(attempts)
        /\ LogInv
    BY DEF GroupInv, LogInv
  <2>2. /\ LogInv' /\ Len(log') = Len(log) + 1
        /\ \A i \in 1..Len(replay) : replay'[i] = replay[i]
        /\ replay'[Len(log) + 2] = ApplyTx(replay[Len(log) + 1], attempts[a].tx)
    BY <1>1, <2>1, CommitLog
  <2>3. Len(replay') = Len(log) + 2
    BY <2>1, <2>2 DEF LogInv
  <2>4. LeaseInv(replay[Len(log) + 1].machine) /\ BooksInv(replay[Len(log) + 1].machine)
    BY <2>1, OnTheLog DEF LogBooks, ReplicaInv
  <2>5. IsTx(attempts[a].tx)
    BY <2>1, AttemptIsTx
  <2>6. BooksInv(replay'[Len(log) + 2].machine)
    BY <2>2, <2>4, <2>5, ApplyTxBooks
  <2>7. \A i \in 1..Len(replay) : BooksInv(replay'[i].machine)
    BY <2>2 DEF LogBooks
  <2>8. \A i \in 1..Len(replay') : i \in 1..Len(replay) \/ i = Len(log) + 2
    BY <2>1, <2>3
  <2>9. \A i \in 1..Len(replay') : BooksInv(replay'[i].machine)
    BY <2>6, <2>7, <2>8
  <2>10. QED
    BY <2>9 DEF LogBooks
<1>2. (\A a \in DOMAIN attempts : ~ Commit(a)) => replay' = replay
  BY DEF GroupNext, vars, Submit, ApplyEntry, Lead, StepDown, TakeSnapshot, InstallSnapshot,
         Crash, Restart
<1>3. replay' = replay => LogBooks'
  BY DEF LogBooks
<1>4. QED
  BY <1>1, <1>2, <1>3

(* MachineInv of P2PState_proofs, of any machine.                          *)
InOrder(m) == LeaseInv(m) /\ BooksInv(m)

(* On every node and in every snapshot, at any time: a step is actively    *)
(* claimed at most once, votes are counted right, nothing is resolved past *)
(* a vote, no step begins before those it depends on, only members of its  *)
(* session act on it, and what the log says of a claim matches its state.  *)
THEOREM ReplicasKeepBooks ==
  GroupSpec => [](\A n \in Node : InOrder(fsm[n].machine) /\ InOrder(snap[n].image.machine))
<1>1. GroupInit => LogBooks
  BY EmptyBooks DEF GroupInit, LogBooks, NewReplica
<1>2. ASSUME GroupInv, LogBooks
      PROVE  \A n \in Node : InOrder(fsm[n].machine) /\ InOrder(snap[n].image.machine)
  <2>1. \A i \in 0..Len(log) : InOrder(replay[i + 1].machine)
    BY <1>2, OnTheLog DEF GroupInv, LogBooks, ReplicaInv, InOrder
  <2>2. ASSUME NEW n \in Node
        PROVE  InOrder(fsm[n].machine)
    <3>1. index[n] \in 0..Len(log) /\ fsm[n] = replay[index[n] + 1]
      BY <1>2 DEF GroupInv, NodesInv
    <3>2. QED
      BY <2>1, <3>1
  <2>3. ASSUME NEW n \in Node
        PROVE  InOrder(snap[n].image.machine)
    <3>1. snap[n].index \in 0..Len(log) /\ snap[n].image = Marshal(replay[snap[n].index + 1])
      BY <1>2 DEF GroupInv, NodesInv
    <3>2. snap[n].image.machine = replay[snap[n].index + 1].machine
      BY <3>1 DEF Marshal
    <3>3. QED
      BY <2>1, <3>1, <3>2
  <2>4. QED
    BY <2>2, <2>3
<1>3. GroupInv /\ LogBooks /\ [GroupNext]_vars => LogBooks'
  BY LogBooksKept
<1>4. QED
  BY <1>1, <1>2, <1>3, GroupInvAlways, PTL DEF GroupSpec

=============================================================================

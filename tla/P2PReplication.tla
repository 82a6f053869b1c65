--------------------------- MODULE P2PReplication ---------------------------
(***************************************************************************)
(* The raft group of internal/p2p/consensus/node.go: every node applies    *)
(* the committed transactions to a state machine of its own, snapshots it, *)
(* loses it in a crash and rebuilds it.  The client side is POST           *)
(* /v1/p2p/tx of internal/p2p/api/server.go.                               *)
(*                                                                         *)
(* Raft itself is a library and is modelled by what node.go relies on: one *)
(* log of committed entries that only grows, each entry an attempt some    *)
(* leader accepted; a node may believe it leads when it no longer does; an *)
(* attempt its submitter was told was lost may still be committed later.   *)
(***************************************************************************)
EXTENDS P2PMachine

CONSTANTS
  Node, TxId,
  Txs,           \* the signed transactions clients send, and send again
  MaxAttempts,   \* bound: submissions accepted by a leader
  MaxCrashes     \* bound: crashes

(* A transaction: its id (chosen by the client), the client's timestamp,   *)
(* the operation, and the fields of its payload.                           *)
TxOf(op, args) == [id: TxId, at: Nat, op: {op}, args: args]
IsTx(tx) ==
  \/ tx \in TxOf("SESSION_CREATE", [plan: Plan])
  \/ tx \in TxOf("PARTICIPANT_JOIN", [session: SessionId, ref: Ref,
                   participant: ParticipantId, caps: SUBSET Capability])
  \/ tx \in TxOf("STEP_CLAIM", [step: StepId, participant: ParticipantId,
                   claim: ClaimId, secs: Int])
  \/ tx \in TxOf("STEP_RELEASE", [step: StepId, participant: ParticipantId])
  \/ tx \in TxOf("STEP_HANDOFF", [step: StepId, from: ParticipantId, to: ParticipantId,
                   claim: ClaimId, secs: Int])
  \/ tx \in TxOf("ARTIFACT_ADD", [step: StepId, participant: ParticipantId,
                   artifact: ArtifactId])
  \/ tx \in TxOf("DECISION_OPEN", [step: StepId, decision: DecisionId, policy: Policy,
                   deadline: Nat \cup {None}])
  \/ tx \in TxOf("VOTE_CAST", [decision: DecisionId, participant: ParticipantId,
                   vote: VoteId, choice: Choice])
  \/ tx \in TxOf("STEP_RESOLVE", [step: StepId, participant: ParticipantId \cup {None}])

ASSUME TxsAssumption == \A tx \in Txs : IsTx(tx)
ASSUME BoundsAssumption == MaxAttempts \in Nat /\ MaxCrashes \in Nat

(* What a state.Machine holds: the snapshot, the ids of the transactions   *)
(* it accepted, and the cache of the step keys each session uses.          *)
Replica == [machine: Machine, applied: SUBSET TxId, keys: [SessionId -> SUBSET (StepKey \cup {None})]]
NewReplica == [machine |-> EmptyMachine, applied |-> {}, keys |-> [x \in SessionId |-> {}]]

-----------------------------------------------------------------------------
(* ApplyTx on a replica f: a function of the replica and the transaction   *)
(* alone, so that replicas that apply the same log agree.                  *)

(* Whether the handler of tx succeeds on machine m.                        *)
Accepts(m, tx) ==
  LET a == tx.args IN
  \/ tx.op = "SESSION_CREATE" /\ CanCreateSession(m, a.plan) /\ CreatesAll(m, a.plan)
  \/ tx.op = "PARTICIPANT_JOIN" /\ CanJoin(m, a.session, a.ref, a.participant)
  \/ tx.op = "STEP_CLAIM" /\ CanClaim(m, tx.at, a.step, a.participant, a.claim)
  \/ tx.op = "STEP_RELEASE" /\ CanRelease(m, tx.at, a.step, a.participant)
  \/ tx.op = "STEP_HANDOFF" /\ CanHandoff(m, tx.at, a.step, a.from, a.to, a.claim)
  \/ tx.op = "ARTIFACT_ADD" /\ CanAddArtifact(m, tx.at, a.step, a.participant, a.artifact)
  \/ tx.op = "DECISION_OPEN" /\ CanOpenDecision(m, a.step, a.decision)
  \/ tx.op = "VOTE_CAST" /\ CanVote(m, tx.at, a.decision, a.participant, a.vote)
  \/ tx.op = "STEP_RESOLVE" /\ CanResolve(m, tx.at, a.step, a.participant)

(* The machine the handler leaves when it succeeds.                        *)
Effect(m, tx) ==
  LET a == tx.args IN
  CASE tx.op = "SESSION_CREATE" -> DoCreateSession(m, a.plan)
    [] tx.op = "PARTICIPANT_JOIN" -> DoJoin(m, a.session, a.ref, a.participant, a.caps)
    [] tx.op = "STEP_CLAIM" -> DoClaim(m, tx.at, a.step, a.participant, a.claim, a.secs)
    [] tx.op = "STEP_RELEASE" -> DoRelease(m, tx.at, a.step, a.participant)
    [] tx.op = "STEP_HANDOFF" -> DoHandoff(m, tx.at, a.step, a.from, a.to, a.claim, a.secs)
    [] tx.op = "ARTIFACT_ADD" -> DoAddArtifact(m, a.step, a.participant, a.artifact)
    [] tx.op = "DECISION_OPEN" -> DoOpenDecision(m, a.step, a.decision, a.policy, a.deadline)
    [] tx.op = "VOTE_CAST" -> DoVote(m, a.decision, a.participant, a.vote, a.choice)
    [] tx.op = "STEP_RESOLVE" -> DoResolve(m, tx.at, a.step)

(* A SESSION_CREATE that starts to write; it keeps what it wrote even if   *)
(* it fails on a later step.                                               *)
StartsSession(m, tx) ==
  tx.op = "SESSION_CREATE" /\ CanCreateSession(m, tx.args.plan)

(* The key cache gains the keys of the steps SESSION_CREATE stored.        *)
KeysAfter(keys, m, tx) ==
  IF StartsSession(m, tx)
    THEN [keys EXCEPT ![tx.args.plan.session] =
            @ \cup {tx.args.plan.steps[i].key : i \in Written(m, tx.args.plan.steps)}]
    ELSE keys

(* Mutant: the machine of a failed handler is kept as if it had succeeded. *)
HandledRegardless(f, m, tx) ==
  [machine |-> Effect(m, tx),
   applied |-> IF Accepts(m, tx) THEN f.applied \cup {tx.id} ELSE f.applied,
   keys |-> KeysAfter(f.keys, m, tx)]
Handled(f, m, tx) ==
  [machine |-> IF Accepts(m, tx) \/ StartsSession(m, tx) THEN Effect(m, tx) ELSE m,
   applied |-> IF Accepts(m, tx) THEN f.applied \cup {tx.id} ELSE f.applied,
   keys |-> KeysAfter(f.keys, m, tx)]

ApplyTx(f, tx) ==
  IF tx.id \in f.applied THEN f ELSE Handled(f, Expire(f.machine, tx.at), tx)

(* The error ApplyTx returns becomes TX_REJECTED. *)

(* Mutant: the response of the state machine is not looked at. *)
AnswerAlways(f, tx) == "APPLIED"
(* Mutant: a transaction that was applied before gets no answer. *)
AnswerOnce(f, tx) ==
  IF tx.id \in f.applied THEN "WAITING"
  ELSE IF Accepts(Expire(f.machine, tx.at), tx) THEN "APPLIED" ELSE "TX_REJECTED"
(* Mutant: a transaction that was applied before is answered as a new one. *)
AnswerAsNew(f, tx) ==
  IF Accepts(Expire(f.machine, tx.at), tx) THEN "APPLIED" ELSE "TX_REJECTED"
Answer(f, tx) ==
  IF tx.id \in f.applied \/ Accepts(Expire(f.machine, tx.at), tx)
    THEN "APPLIED" ELSE "TX_REJECTED"

-----------------------------------------------------------------------------
(* Snapshots.  The key cache is not serialised; it is rebuilt from the     *)
(* steps.                                                                  *)

Image == [machine: Machine, applied: SUBSET TxId]

(* Mutant: the accepted ids are not serialised. *)
MarshalForgetting(f) == [machine |-> f.machine, applied |-> {}]
Marshal(f) == [machine |-> f.machine, applied |-> f.applied]

KeysOf(m) ==
  [x \in SessionId |-> {m.steps[s].key : s \in {t \in StepId : m.steps[t].session = x}}]

(* Mutant: the key cache is not rebuilt. *)
UnmarshalWithoutKeys(image) ==
  [machine |-> image.machine, applied |-> image.applied, keys |-> [x \in SessionId |-> {}]]
Unmarshal(image) ==
  [machine |-> image.machine, applied |-> image.applied, keys |-> KeysOf(image.machine)]

-----------------------------------------------------------------------------
VARIABLES
  attempts,  \* the submissions leaders accepted: [node, tx, reply]
  log,       \* the committed log: log[i] is the number of an attempt
  replay,    \* replay[i + 1]: a new replica after i entries of the log
  leaders,   \* the nodes whose raft.State() is Leader
  up,        \* the nodes that run
  fsm,       \* fsm[n]: node n's machine
  index,     \* index[n]: the entries node n has applied
  snap,      \* snap[n]: node n's latest snapshot
  crashes

vars == <<attempts, log, replay, leaders, up, fsm, index, snap, crashes>>

(* UNKNOWN: NOT_LEADER, or no answer at all; the transaction may or may    *)
(* not be committed.                                                       *)
Reply == {"WAITING", "APPLIED", "TX_REJECTED", "UNKNOWN"}
Attempt == [node: Node, tx: Txs, reply: Reply]
Snapshot == [index: Nat, image: Image]

Committed == {log[i] : i \in DOMAIN log}
Waiting(n) == {a \in DOMAIN attempts : attempts[a].node = n /\ attempts[a].reply = "WAITING"}
TxAt(i) == attempts[log[i]].tx
Last(s) == s[Len(s)]

(* The attempts after those of `told` got the same answer.                 *)
Told(told, reply) ==
  [a \in DOMAIN attempts |->
     IF a \in told THEN [attempts[a] EXCEPT !.reply = reply] ELSE attempts[a]]

GroupInit ==
  /\ attempts = <<>> /\ log = <<>> /\ replay = <<NewReplica>>
  /\ leaders = {} /\ up = Node
  /\ fsm = [n \in Node |-> NewReplica]
  /\ index = [n \in Node |-> 0]
  /\ snap = [n \in Node |-> [index |-> 0, image |-> Marshal(NewReplica)]]
  /\ crashes = 0

(* A client posts a transaction, for the first time or again.  A node that *)
(* does not lead answers NOT_LEADER and nothing else happens.              *)
Submit(n) ==
  /\ n \in leaders /\ Len(attempts) < MaxAttempts
  /\ \E tx \in Txs :
       attempts' = Append(attempts, [node |-> n, tx |-> tx, reply |-> "WAITING"])
  /\ UNCHANGED <<log, replay, leaders, up, fsm, index, snap, crashes>>

(* Raft commits an attempt that is not in the log yet, whatever its        *)
(* submitter was told meanwhile; the attempts of one node in their order.  *)
Commit(a) ==
  /\ \A b \in Committed : attempts[b].node = attempts[a].node => b < a
  /\ log' = Append(log, a)
  /\ replay' = Append(replay, ApplyTx(Last(replay), attempts[a].tx))
  /\ UNCHANGED <<attempts, leaders, up, fsm, index, snap, crashes>>

(* fsm.Apply on the next entry of the log.  The submitter waits on the     *)
(* node it posted to and gets that node's result.                          *)
ApplyEntry(n) ==
  /\ n \in up /\ index[n] < Len(log)
  /\ LET tx == TxAt(index[n] + 1)
     IN /\ fsm' = [fsm EXCEPT ![n] = ApplyTx(@, tx)]
        /\ attempts' = Told(Waiting(n) \cap {log[index[n] + 1]}, Answer(fsm[n], tx))
  /\ index' = [index EXCEPT ![n] = @ + 1]
  /\ UNCHANGED <<log, replay, leaders, up, snap, crashes>>

Lead(n) ==
  /\ n \in up \ leaders
  /\ leaders' = leaders \cup {n}
  /\ UNCHANGED <<attempts, log, replay, up, fsm, index, snap, crashes>>

(* The leader steps down.  Whoever waits for an attempt that was not       *)
(* committed, or that another leader committed, is told NOT_LEADER; the    *)
(* others still get the result of fsm.Apply.                               *)
StepDown(n) ==
  /\ n \in leaders
  /\ leaders' = leaders \ {n}
  /\ \E told \in SUBSET Waiting(n) :
       /\ Waiting(n) \ Committed \subseteq told
       /\ attempts' = Told(told, "UNKNOWN")
  /\ UNCHANGED <<log, replay, up, fsm, index, snap, crashes>>

TakeSnapshot(n) ==
  /\ n \in up /\ snap[n].index < index[n]
  /\ snap' = [snap EXCEPT ![n] = [index |-> index[n], image |-> Marshal(fsm[n])]]
  /\ UNCHANGED <<attempts, log, replay, leaders, up, fsm, index, crashes>>

(* A leader that compacted its log brings a follower up with its snapshot. *)
(* The follower's fsm goroutine first runs, and answers, what the node     *)
(* itself committed when it led.                                           *)
InstallSnapshot(n, from) ==
  /\ n \in up \ leaders /\ from \in leaders
  /\ Waiting(n) = {}
  /\ index[n] < snap[from].index
  /\ fsm' = [fsm EXCEPT ![n] = Unmarshal(snap[from].image)]
  /\ index' = [index EXCEPT ![n] = snap[from].index]
  /\ snap' = [snap EXCEPT ![n] = snap[from]]
  /\ UNCHANGED <<attempts, log, replay, leaders, up, crashes>>

(* The process ends.  Memory and the connections of its clients are lost.  *)
Crash(n) ==
  /\ n \in up /\ crashes < MaxCrashes
  /\ up' = up \ {n} /\ leaders' = leaders \ {n}
  /\ crashes' = crashes + 1
  /\ attempts' = Told(Waiting(n), "UNKNOWN")
  /\ UNCHANGED <<log, replay, fsm, index, snap>>

(* NewNode: an empty machine, restored from the latest snapshot if there   *)
(* is one; raft then applies the log behind it again.                      *)
Restart(n) ==
  /\ n \notin up
  /\ up' = up \cup {n}
  /\ fsm' = [fsm EXCEPT ![n] = IF snap[n].index = 0 THEN NewReplica
                                                    ELSE Unmarshal(snap[n].image)]
  /\ index' = [index EXCEPT ![n] = snap[n].index]
  /\ UNCHANGED <<attempts, log, replay, leaders, snap, crashes>>

GroupNext ==
  \/ \E a \in DOMAIN attempts : Commit(a)
  \/ \E n \in Node :
       \/ Submit(n) \/ ApplyEntry(n)
       \/ Lead(n) \/ StepDown(n)
       \/ TakeSnapshot(n) \/ \E from \in Node : InstallSnapshot(n, from)
       \/ Crash(n) \/ Restart(n)

GroupSpec == GroupInit /\ [][GroupNext]_vars

(* A node applies what is committed, a dead node is started again, and a   *)
(* leader that cannot commit what it accepted steps down.                  *)
Fairness ==
  \A n \in Node :
    /\ WF_vars(ApplyEntry(n))
    /\ WF_vars(Restart(n))
    /\ WF_vars(StepDown(n) \/ \E a \in Waiting(n) : Commit(a))

FairSpec == GroupSpec /\ Fairness

-----------------------------------------------------------------------------
GroupTypeOK ==
  /\ attempts \in Seq(Attempt)
  /\ log \in Seq(1..Len(attempts))
  /\ replay \in Seq(Replica) /\ Len(replay) = Len(log) + 1
  /\ leaders \subseteq up /\ up \subseteq Node
  /\ fsm \in [Node -> Replica]
  /\ index \in [Node -> 0..Len(log)]
  /\ snap \in [Node -> Snapshot]
  /\ crashes \in 0..MaxCrashes

(* Whatever crashes, restarts, snapshots and elections a node went         *)
(* through, its machine is what the committed entries it applied make of   *)
(* an empty one: accepted ids and key cache included.                      *)
ReplicaIsReplay ==
  \A n \in up : fsm[n] = replay[index[n] + 1]

(* What a client was told is applied is applied on every node that caught  *)
(* up with the log, and stays so.                                          *)
AppliedSurvives ==
  \A a \in DOMAIN attempts : attempts[a].reply = "APPLIED" =>
    /\ a \in Committed
    /\ attempts[a].tx.id \in Last(replay).applied

(* The client that retries a transaction after a lost answer does no harm: *)
(* once one copy was accepted, a later copy changes no replica and is not  *)
(* reported as rejected.                                                   *)
RetryIsHarmless ==
  \A i, j \in DOMAIN log :
    (i < j /\ TxAt(i) = TxAt(j) /\ TxAt(i).id \in replay[i + 1].applied) =>
      /\ replay[j + 1] = replay[j]
      /\ attempts[log[j]].reply # "TX_REJECTED"

(* The machine that has applied the whole log behaves as the machine of    *)
(* P2PState: a client that sees the group sees one state machine.          *)
Group == INSTANCE P2PState WITH
  machine <- Last(replay).machine,
  Plans <- {tx.args.plan : tx \in {t \in Txs : t.op = "SESSION_CREATE"}},
  Policies <- {tx.args.policy : tx \in {t \in Txs : t.op = "DECISION_OPEN"}},
  Deadlines <- {tx.args.deadline : tx \in {t \in Txs : t.op = "DECISION_OPEN"}},
  Leases <- {tx.args.secs : tx \in {t \in Txs : t.op \in {"STEP_CLAIM", "STEP_HANDOFF"}}},
  Time <- {tx.at : tx \in Txs}

ActsAsOneMachine == Group!Spec

(* No client waits for ever: each is answered or loses its connection.     *)
Unanswered == UNION {Waiting(n) : n \in Node}
EveryAttemptEnds ==
  \A a \in 1..MaxAttempts : (a \in Unanswered) ~> (a \notin Unanswered)

(* When submissions and crashes are over, all nodes end up with one and    *)
(* the same machine.                                                       *)
ReplicasConverge ==
  <>[](up = Node /\ \A n \in Node : fsm[n] = Last(replay))

=============================================================================

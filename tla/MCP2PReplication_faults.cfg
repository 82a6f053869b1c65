SPECIFICATION FairSpec
CONSTANTS
  None = None
  x1 = x1
  s1 = s1
  p1 = p1
  r1 = r1
  SessionId = {x1}
  StepId = {s1}
  StepKey = {"k1"}
  ParticipantId = {p1}
  Ref = {r1}
  Capability = {}
  ClaimId = {}
  ArtifactId = {}
  DecisionId = {}
  VoteId = {}
  Fold <- MCFold
  DefaultTTL = 1
  Node = {n1, n2}
  TxId = {"create", "join"}
  Txs <- FaultTxs
  MaxAttempts = 2
  MaxCrashes = 1
INVARIANTS
  ReplicaIsReplay
  AppliedSurvives
  RetryIsHarmless
PROPERTY
  EveryAttemptEnds
  ReplicasConverge
  ActsAsOneMachine

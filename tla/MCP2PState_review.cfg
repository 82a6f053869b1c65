SPECIFICATION Spec
CONSTANTS
  None = None
  x1 = x1
  x2 = x2
  s1 = s1
  s2 = s2
  s3 = s3
  SessionId = {x1}
  StepId = {s1}
  StepKey = {"k1"}
  ParticipantId = {p1, p2}
  Ref = {r1, r2}
  Capability = {}
  ClaimId = {c1, c2}
  ArtifactId = {a1}
  DecisionId = {d1, d2}
  VoteId = {v1, v2, v3}
  Fold <- MCFold
  DefaultTTL = 1
  Plans <- SinglePlan
  Policies <- QuorumPolicy
  Deadlines = {0, None}
  Leases = {0}
  Time = {0, 1}
SYMMETRY ReviewSymmetry
INVARIANTS
  VerdictMatchesVotes
  ResolvedIsApproved
PROPERTIES
  Irrevocable

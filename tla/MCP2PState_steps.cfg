SPECIFICATION Spec
CONSTANTS
  None = None
  x1 = x1
  x2 = x2
  s1 = s1
  s2 = s2
  s3 = s3
  SessionId = {x1, x2}
  StepId = {s1, s2, s3}
  StepKey = {"k1", "k2"}
  ParticipantId = {p1, p2}
  Ref = {r1}
  Capability = {"go"}
  ClaimId = {c1, c2}
  ArtifactId = {a1}
  DecisionId = {d1}
  VoteId = {v1}
  Fold <- MCFold
  DefaultTTL = 1
  Plans <- CollidingPlans
  Policies <- OneApproval
  Deadlines = {None}
  Leases = {0, 2}
  Time = {0, 1}
SYMMETRY Symmetry
INVARIANTS
  ClaimsAgree
  ListedIsClaimable
  Bookkeeping
PROPERTIES
  ImplementsStepBoard

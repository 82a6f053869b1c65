SPECIFICATION Spec
CONSTANTS
  a = a
  b = b
  p1 = p1
  p2 = p2
  None = None
  Step = {a}
  Needs <- NoNeeds
  Capability = {}
  Required <- NoSkill
  Participant = {p1, p2}
  ClaimId = {1, 2}
  DecisionId = {1, 2}
  Policy <- QuorumPolicy
  Request = {r1}
  Scanner = {r1}
  Roster <- NotYetP1
  Leases = {1}
  Deadlines = {1, None}
  Operation = {"join", "claim", "release", "handoff", "submit", "open", "vote", "resolve"}
  MaxArtifacts = 1
  MaxStamp = 3
  MaxTime = 2
  MaxFailures = 0
INVARIANTS
  StepsAgree
  ReviewsAgree
  PassedIsEarned
CHECK_DEADLOCK FALSE

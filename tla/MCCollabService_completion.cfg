SPECIFICATION FairSpec
CONSTANTS
  a = a
  b = b
  p1 = p1
  p2 = p2
  None = None
  Step = {a, b}
  Needs <- Chain
  Capability = {}
  Required <- NoSkill
  Participant = {p1}
  ClaimId = {1, 2}
  DecisionId = {}
  Policy <- NoVotes
  Request = {r1, r2}
  Scanner = {w1}
  Roster <- Everyone
  Leases = {1}
  Deadlines <- NoLimit
  Operation = {"claim", "resolve"}
  MaxArtifacts = 1
  MaxStamp = 3
  MaxTime = 2
  MaxFailures = 1
INVARIANTS
  WorkInOrder
  NoLostCompletion
PROPERTIES
  NoEviction
  ClaimsEndOnce
  
CHECK_DEADLOCK FALSE

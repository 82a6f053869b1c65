SPECIFICATION Spec
CONSTANTS
  r1 = r1
  r2 = r2
  s1 = s1
  s2 = s2
  s3 = s3
  Request = {r1, r2}
  Step = {s1, s2}
  Position <- Position2
  DependsOn <- DependsOn2
  Edge <- Edge2
  Agent = {s2}
  Timed = {s1}
  Escalated = {}
  MaxRetries <- Retries2
  Operation = {"start", "cancel", "dispatch", "ack", "resolve", "fail", "action", "sweep"}
  Serial = FALSE
  MaxCalls = 4
  MaxFailures = 1
INVARIANTS DependenciesFirst StepsAreEarned
SYMMETRY Symmetry
CHECK_DEADLOCK FALSE

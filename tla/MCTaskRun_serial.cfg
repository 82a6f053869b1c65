SPECIFICATION FairSpec
CONSTANTS
  r1 = r1
  r2 = r2
  s1 = s1
  s2 = s2
  s3 = s3
  Request = {r1}
  Step = {s1, s2, s3}
  Position <- Position3
  DependsOn <- DependsOn3
  Edge <- Edge3
  Agent = {s1, s3}
  Timed = {s1, s2}
  Escalated = {s2}
  MaxRetries <- Retries3
  Operation = {"start", "cancel", "dispatch", "ack", "resolve", "fail", "action", "sweep"}
  Serial = TRUE
  MaxCalls = 9
  MaxFailures = 0
INVARIANTS CompletedIsDone StepFollowsAction NothingForgotten
PROPERTIES TerminalIsFinal EveryCallEnds
CHECK_DEADLOCK FALSE

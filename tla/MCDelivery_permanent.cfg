SPECIFICATION Spec
CONSTANTS
  x = x
  y = y
  z = z
  c1 = c1
  c2 = c2
  Connection = {c1, c2}
  ClientOf <- Clients
  TargetsOf <- Targets
  Capacity = 1
  Worker = {w1}
  Notification = {n1}
  Action = {x, y, z}
  ChannelOf <- Channels
  TargetOf <- TargetsOfActions
  DedupeKey <- Keys
  Expiring = {x}
  MaxRetries = 2
  MaxCalls = 4
  MaxFailures = 0
INVARIANT PermanentIsNotRetried
CHECK_DEADLOCK FALSE

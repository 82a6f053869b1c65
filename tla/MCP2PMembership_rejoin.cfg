SPECIFICATION Spec
CONSTANTS
  None = None
  Node = {n1, n2}
  Boot = n0
  Address = {x0, x1, x2}
  BootAddress = x0
  Call = {c1, c2}
  JoinRetries = 2
  MaxStarts = 3
  MaxFailures = 1
  MaxRemovals = 1
SYMMETRY Alike
INVARIANTS RetryKeepsSeat MoveTakesSeat
CHECK_DEADLOCK FALSE

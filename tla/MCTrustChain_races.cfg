SPECIFICATION Spec
CONSTANTS
  d1 = d1
  d2 = d2
  d3 = d3
  v1 = v1
  v2 = v2
  None = None
  Request = {r1, r2}
  Event = {e1, e2}
  Source = {s1}
  Content = {d1, d2, d3}
  Value = {v1, v2}
  ValueOf <- Spelled
  Batch = {b1}
  Evaluations <- OneEach
  MaxCalls = 4
  MaxFailures = 1
SYMMETRY Alike
INVARIANTS ChainIsLinear ChainMatchesEvents SignedIsVerified
CHECK_DEADLOCK FALSE

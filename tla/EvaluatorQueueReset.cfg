SPECIFICATION Spec
CONSTANTS
  p1 = p1
  p2 = p2
  v1 = v1
  h1 = h1
  Portfolio = {p1}
  Version = {v1}
  Harness = {h1}
  VersionOf <- MCVersionOf
  HarnessOf <- MCHarnessOf
  ShortManaged = {p1}
  Run = {r1}
  Decision = {d1, d2}
  Session <- MCSession
  EnqueueAt <- MCEnqueueAt
  BoundaryAt <- MCBoundaryAt
  Due <- MCDue
  MaxAttempts = 2
  MaxConcurrency = 1
  LeaseLen = 1
  MaxTime = 1
  MaxCalls = 1
  None = None
SYMMETRY Slots
PROPERTY ResetEndsLiquidation
CHECK_DEADLOCK FALSE

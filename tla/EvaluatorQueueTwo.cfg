SPECIFICATION Spec
CONSTANTS
  p1 = p1
  p2 = p2
  v1 = v1
  h1 = h1
  Portfolio = {p1, p2}
  Version = {v1}
  Harness = {h1}
  VersionOf <- MCVersionOf
  HarnessOf <- MCHarnessOf
  ShortManaged = {}
  Run = {r1, r2}
  Decision = {}
  Session <- MCSession
  EnqueueAt <- MCEnqueueAt
  BoundaryAt <- MCBoundaryAt
  Due <- MCDue
  MaxAttempts = 1
  MaxConcurrency = 2
  LeaseLen = 1
  MaxTime = 1
  MaxCalls = 1
  None = None
SYMMETRY Slots
PROPERTIES
  NeverAboveLimit
CHECK_DEADLOCK FALSE

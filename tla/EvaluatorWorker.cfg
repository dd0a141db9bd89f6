SPECIFICATION WSpec
CONSTANTS
  h1 = h1
  Portfolio = {p1, p2}
  Version = {v1}
  Harness = {h1}
  VersionOf <- MCVersionOf
  HarnessOf <- MCHarnessOf
  ShortManaged = {}
  Run = {r1, r2}
  Decision = {d1}
  Session <- MCSession
  EnqueueAt <- MCEnqueueAt
  BoundaryAt <- MCBoundaryAt
  Due <- MCDue
  MaxAttempts = 2
  MaxConcurrency = 1
  TimeoutLen = 1
  Delay = 1
  LeaseLen = 3
  MaxTime = 3
  MaxCalls = 1
  None = None
SYMMETRY Slots
INVARIANTS
  ProcessHoldsLease
  ProcessesWithinLimit

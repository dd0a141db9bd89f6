SPECIFICATION LiveSpec
CONSTANTS
  p1 = p1
  p2 = p2
  v1 = v1
  h1 = h1
  Portfolio = {p1}
  Version = {v1}
  Harness = {h1}
  VersionOf <- MCVersionOf
  HarnessOf <- MCHarnessOf
  ShortManaged = {}
  Run = {r1}
  Decision = {d1}
  Session <- MCSession
  EnqueueAt <- MCEnqueueAt
  BoundaryAt <- MCBoundaryAt
  Due <- MCDue
  MaxAttempts = 2
  MaxConcurrency = 1
  LeaseLen = 1
  MaxTime = 1
  MaxCalls = 1
  None = None
PROPERTIES
  ExpiredAttemptEnds
  QueueDrains
CHECK_DEADLOCK FALSE

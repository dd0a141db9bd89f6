SPECIFICATION Spec
CONSTANTS
  p1 = p1
  p2 = p2
  v1 = v1
  h1 = h1
  Portfolio = {p1}
  Version = {v1}
  Harness = {h1}
  VersionOf <- MCVersionOf
  HarnessOf <- MCHarnessOf
  ShortManaged = {}
  Run = {r1, r2}
  Decision = {d1}
  Session <- MCSession
  EnqueueAt <- MCEnqueueAt
  BoundaryAt <- MCBoundaryAt
  Due <- MCDue
  MaxAttempts = 2
  MaxConcurrency = 1
  LeaseLen = 1
  MaxTime = 1
  MaxCalls = 1
  None = None
SYMMETRY Slots
INVARIANTS
  OneActiveRunPerPortfolio
  ResultsAreOwned
  ScheduledOnce
  PausedVersionHasNoQueue
PROPERTIES
  NoAttemptForCompletedSession
  OnlyHolderRecords
CHECK_DEADLOCK FALSE

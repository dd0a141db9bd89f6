SPECIFICATION Spec
CONSTANTS
  managed = managed
  rebuilt = rebuilt
  short = short
  Agent = {a1}
  Prompt = {q1, q2}
  Portfolio = {p1}
  Effort = {e1}
  Track = {managed, rebuilt}
  Managed = {managed}
  Shorts = {}
  Support <- EveryTrack
  Boundary = {open, close}
  MaxVersion = 2
  Weekdays = {TRUE}
  MaxDecision = 1
  MaxCalls = 1
  None = None
INVARIANTS
  AgentsAreConfigured
CHECK_DEADLOCK FALSE

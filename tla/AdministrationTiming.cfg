SPECIFICATION Spec
CONSTANTS
  managed = managed
  rebuilt = rebuilt
  short = short
  Agent = {a1}
  Prompt = {q1}
  Portfolio = {p1}
  Effort = {}
  Track = {managed}
  Managed = {managed}
  Shorts = {}
  Support <- EveryTrack
  Boundary = {open, close}
  MaxVersion = 1
  Weekdays = {TRUE}
  MaxDecision = 1
  MaxCalls = 2
  None = None
INVARIANTS
  TimingBelongsToPortfolio
CHECK_DEADLOCK FALSE

SPECIFICATION Spec
CONSTANTS
  managed = managed
  rebuilt = rebuilt
  short = short
  Agent = {a1}
  Prompt = {q1, q2}
  Portfolio = {p1}
  Effort = {}
  Track = {short}
  Managed = {short}
  Shorts = {short}
  Support <- EveryTrack
  Boundary = {open}
  MaxVersion = 2
  Weekdays = {TRUE}
  MaxDecision = 1
  MaxCalls = 2
  None = None
INVARIANTS
  NoEditUnderRunningWork
CHECK_DEADLOCK FALSE

SPECIFICATION MCLiveSpec
CONSTANTS
  a = a
  b = b
  Kinds = {"allocation", "signal"}
  Client = {c1, c2, c3}
  Session <- MCSession
  BoundaryAt <- MCBoundaryAt
  Symbol = {a, b}
  Proposal <- MCProposal
  MaxTime = 1
  None = None
  Url = {u, v}
  Absent = Absent
  MaxQueries = 2
  MaxVersion = 2
  Parts = {"server", "browser"}
INVARIANTS
  OneDecisionPerSession
  SignalsAreWhole
  SavesAreShown
PROPERTIES
  EveryCallEnds
CHECK_DEADLOCK FALSE

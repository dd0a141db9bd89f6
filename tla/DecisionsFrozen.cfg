SPECIFICATION MCSpec
CONSTANTS
  a = a
  b = b
  Kinds = {"allocation"}
  Client = {c1, c2, c3}
  Session <- MCSession
  BoundaryAt <- MCBoundaryAt
  Symbol = {a, b}
  Proposal <- MCProposal
  MaxTime = 1
  None = None
  Url = {u, v}
  Absent = Absent
  MaxQueries = 2
  MaxVersion = 2
  Parts = {"server"}
SYMMETRY Clients
PROPERTY PositionsAreFrozen
CHECK_DEADLOCK FALSE

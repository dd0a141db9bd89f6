SPECIFICATION Spec
CONSTANTS
  aa = aa
  spy = spy
  Stock = {aa}
  Spy = spy
  None = None
  PricesOf <- MCPricesOf
  Weights <- MCWeights
  Steps = {2, 3}
  End = 4
  MaxDecisions = 2
  MaxMoves = 1
  MaxGaps = 1
INVARIANTS
  NoForesight
  NavIsCompounded
  PolicyEarnsEvidence
  PauseOnlyTruncates
PROPERTIES
  HistoryStands
CHECK_DEADLOCK FALSE

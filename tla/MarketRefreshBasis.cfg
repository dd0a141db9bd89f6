SPECIFICATION Spec
CONSTANTS
  spy = spy
  aa = aa
  bb = bb
  Process = {w1}
  Order <- SpyAndOne
  Start <- OneLater
  Sessions = 2
  Split = {}
  Dividend = {2}
  Batch = 1
  Silent = {}
  Lag = {1}
  CatchUp = 5
  MaxFault = 1
  None = None
INVARIANTS
  OneBasis

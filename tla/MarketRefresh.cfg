SPECIFICATION FairSpec
CONSTANTS
  spy = spy
  aa = aa
  bb = bb
  Process = {w1, w2}
  Order <- SpyAndOne
  Start <- OneLater
  Sessions = 2
  Split = {2}
  Dividend = {2}
  Batch = 1
  Silent = {}
  Lag = {1}
  CatchUp = 5
  MaxFault = 1
  None = None
INVARIANTS
  PricesAreFinal
PROPERTIES
  NothingIsLost
  StaysOnBasis
  CatchesUp

SPECIFICATION FairSpec
CONSTANTS
  spy = spy
  aa = aa
  bb = bb
  Process = {w1}
  Order <- SpyAndTwo
  Start <- OneLater
  Sessions = 2
  Split = {}
  Dividend = {2}
  Batch = 1
  Silent = {aa}
  Lag = {}
  CatchUp = 5
  MaxFault = 1
  None = None
PROPERTIES
  CatchesUp

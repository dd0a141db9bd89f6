SPECIFICATION MCSpec
CONSTANTS
  Thread = {t1, t2, t3}
  Key = {k1, k2}
  Flight = {f1, f2, f3}
  MaxEntries = 1
  None = None
  Nothing = Nothing
  NoRow = NoRow
  MaxTries = 2
  Policies <- MCPolicies
  MaxRevisions = 3
  MaxHistory = 3
  Details <- Tickers
  Total = 5
  Client = {c1, c2}
  Texts = {a, b}
  BadTexts = {}
  Tab = {b1, b2}
  Token = {s1, s2}
  Missing = Missing
  IdleSeconds = 1
  AbsoluteSeconds = 2
  MaxTime = 2
  Text = {x, y}
  MaxEvents = 4
  MaxParts = 2
  Void = Void
  Url = {u, v}
  Absent = Absent
  MaxQueries = 2
  MaxVersion = 1
  Epoch = 2024
  Horizon = 1815
  Closures <- MCClosures
  Halves <- MCHalves
INVARIANTS
  SingleFlight
  CalendarIsTheExchanges
  OnlyLiveSessionsAdmit
  NothingOutlivesSupervisor
  OnlyTheFinalAnswer
  LastSaveStands
  WrappersStayUsable
PROPERTIES
  EveryCallReturns
  StopEnds
  NoPageStaysBlank
CHECK_DEADLOCK FALSE

SPECIFICATION GroupSpec
CONSTANTS
  Procs = {p1, p2}
  Keys = {k1, k2, k3}
  Bodies = {b1, b2}
  NoRequest = NoRequest
  MaxEvents = 3
  StartAt = 0
  CloseAt = 5
  MaximumGap = 2
  StaleAfter = 1
  GraceFrom = 1
  GraceTo = 3
  FundingTimes = {3, 7}
  FundingRates = {1, 2}
  LotTarget = 1
  MaxCommands = 6
  Roots = {r1}
  Entrants = {e1, e2}
  SealNotice = 1
  ScreenTicks = 1
  MaxTime = 2
  MaxCode = 2
  Clients = {m1, m2}
  Archives <- SomeArchives
  IngestRequests <- SomeRequests
  Versions = {v1, v2}
  ExportRequests <- SomeExports
  WarmupStart = 2
  SealedFrom = 4
  MaxRuns = 2
  Acquirers = {q1, q2}
  Scorers = {z1, z2}
  SettledAt = 1
  LastTick = 1
  MaxDisturbances = 2
  NoFile = NoFile
  Fetchers = {f1, f2}
  Payloads = {x1, x2}
  MaxAttempts = 2
  MaxRequests = 3
  MaxDeaths = 1
  MaxRepublished = 1
  PageLimit = 2
  CoarseStep = 2
  DayTicks = 2
  MonthTicks = 4
  MarketWindows <- SomeWindows
  TradedBars <- SomeBars
  FundingHistory <- SomeFunding
  Unread = Unread
  Refused = Refused
SYMMETRY Symmetry
CHECK_DEADLOCK TRUE
INVARIANTS ChainIntact AcknowledgedIsDurable FundingIsSettled
PROPERTIES   StopHolds CollectionIsTheSealedOne MarketDataAccountsForItself ForwardIsSealed

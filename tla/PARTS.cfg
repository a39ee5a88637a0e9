SPECIFICATION PartsSpec
CONSTANTS
  MaxTime = 10
  ShortTime = 3
  LimitedSites = {"a", "b"}
  Checkers = {"c1", "c2"}
  Limit = 1
  Burst = 1
  Interval = 2
  MaxSites = 1
  MaxChecks = 4
  SeenVisitors = {"v1", "v2", "v3"}
  Touchers = {"t1", "t2"}
  WindowTTL = 1
  MaxWindow = 2
  MaxTouches = 4
  Keys = {"k1", "k2"}
  Callers = {"p1", "p2"}
  CacheTTL = 1
  MaxSize = 1
  MaxSets = 2
  MaxGets = 2
  StorageIDs = {101, 102, 103}
  DailyHashes = {201}
  MaxVisitors = 2
  MaxResolves = 4
  MaxEntries = 2
  IdentityTTL = 1
  RegistrySites = {"s1", "s2"}
  Readers = {"r1"}
  Ticker = "ticker"
  MaxEdits = 2
  MaxLoadFailures = 1
  AlertIDs = {"alert"}
  Channels = {"email", "slack"}
  CheckerInstances = {"i1", "i2"}
  AlertPeriod = 2
  MaxFirings = 2
  MaxFailures = 1
  DailyReports = {"daily"}
  WeeklyReports = {}
  MonthlyReports = {"monthly"}
  AnchorDay = 3
  DeliveryTime = 1
  DayLength = 2
  WeekLength = 2
  MonthStart <- Calendar
  ShortestMonth = 2
  MaxReportFailures = 1
  MaxStops = 3
  MaxChunkEvents = 2
  MaxPendingChunks = 1
  MaxMutationChanges = 2
  MaxPages = 2
  MaxInputs = 2
  Erasers = {"d1"}
  ReplayWriters = {"w1"}
  MaxRows = 3
  MaxQueryErrors = 2
  FunnelSteps = 3
  FunnelWindow = 2
  FunnelMatches = {{1}, {2}, {3}, {1, 3}, {2, 3}}
  MaxTrail = 4
INVARIANTS
  RateBounded
  CountIsExact
  NeverServesStale
  StableIdentity
  FoundWhenActive
  OncePerPeriod
  OncePerDay
  EachPeriodAttempted
  RecordedIsApplied
  DataKept
  MutationsHaveBase
  ChunksAccounted
  IndexesContinue
  Erased
  FunnelIsBest
PROPERTIES
  EventuallyFresh
  EventuallyMigrated
  EventuallyChunked
CHECK_DEADLOCK FALSE

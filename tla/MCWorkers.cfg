SPECIFICATION MCSpec
CONSTANTS
  WorkerParts = {"indexer", "watcher", "audit", "dashboard", "runner"}
  Polls = {p1, p2}
  EnvPollMs = 1
  Unset = Unset
  NaN = NaN
  Idle = Idle
  Limit = 1
  AnswerTicks = 2
  MaxEvents = 2
  MaxRunning = 2
  MaxRestarts = 1
  Messages = {m1}
  WatcherPolls = {w1, w2}
  TornFile = TornFile
  StallTicks = 1
  MaxWatcherCrashes = 1
  Clients = {c1}
  Stores = {"disk", "memory"}
  Torn = Torn
  MaxRows = 3
  MaxTears = 1
  MaxCrashes = 1
  Pages = {"dashboard"}
  MaxAuditRows = 1
  NoData = NoData
  r1 = r1
  r2 = r2
  e1 = e1
  Runs = {r1, r2}
  ExecutionIds = {e1}
  ExecutionOf <- TwoOfOne
  Nil = Nil
  MAX_RETRIES = 1
  CONFIRMATION_DEPTH = 1
  MinAttempts = 2
  MaxAttempts = 100
  MaxEmptyBlocks = 0
INVARIANTS
  IndexerSafe
  AuditSafe
PROPERTIES
  EventsAreHandled
  WatcherProgresses
  ListedIsStreamed
  OverviewCatchesUp
  RunsEnd
CHECK_DEADLOCK FALSE

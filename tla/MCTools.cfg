SPECIFICATION MCSpec
CONSTANTS
  ToolParts = {"access", "watcher", "dashboard", "deployment", "stack", "calls", "off-ramp", "preflight", "vaa"}
  Clients = {a1, a2}
  ReadLimit = 2
  WriteLimit = 1
  Window = 2
  Quiet = Quiet
  Messages = {m1, m2}
  WatcherPolls = {w1}
  TornFile = TornFile
  StallTicks = 0
  MaxWatcherCrashes = 1
  Pages = {"audit", "operations"}
  MaxAuditRows = 2
  NoData = NoData
  PublishKeys <- MCPublishKeys
  Mints = {"mint 1", "mint 2"}
  EditSets <- MCEditSets
  MaxEdits = 3
  ApiPorts = {3750, 4000}
  ApiKeySet = {"key 1", "key 2"}
  Bases = {"https 5173", "http 5000"}
  MaxTries = 2
  People = {deployer, producer}
  Deployer = deployer
  Producer = producer
  Nobody = nobody
  Conversions = {c1}
  MaxAttempts = 2
  Amounts = {0, 1, 19, 20, 9999, 1000000}
  Fees = {0, 1, 500, 501, 10001}
  RootFiles <- MCRootFiles
  LayerFiles <- MCLayerFiles
  Shells <- MCShells
  ApiKeys = {"placeholder", "new"}
  MaxSequence = 2
  Timelock = 2
  MaxTime = 3
  Fetches = {f1, f2}
SYMMETRY ToolSymmetry
INVARIANTS
  AccessSafe
  WatcherSafe
  DashboardSafe
  DeploymentSafe
  DevStackSafe
  CallsSafe
  OffRampSafe
  PreflightSafe
  VaaSafe

SPECIFICATION MCSpec
CONSTANTS
  a = a
  c1 = c1
  c2 = c2
  snap = snap
  grid = grid
  lands = lands
  k1 = k1
  k2 = k2
  Contracts = {c1, c2}
  Accounts = {a}
  ObligationLists <- MCObligationLists
  Snapshots = {snap}
  Proofs <- MCProofs
  Partitions = {grid}
  NoPartition = NoPartition
  Countries = {lands}
  Nil = Nil
  Deadlines = {0}
  DisputeBuffer = 1
  Depth = 1
  MaxTime = 1
  MaxOpenings = 2
  payer = payer
  other = other
  kwh = kwh
  Holders = {payer, other}
  Engine = Engine
  TokenPartitions = {kwh}
  Erc20 = Erc20
  NoToken = NoToken
  Batches <- MCBatches
  Amounts = {1}
  MaxMinted = 3
  MaxBatches = 1
SYMMETRY EngineSymmetry
INVARIANTS
  EngineSafe
  FundsSafe
PROPERTIES
  BatchesPayDebts
CHECK_DEADLOCK FALSE

SPECIFICATION MCSpec
CONSTANTS
  relayer = relayer
  safe1 = safe1
  c1 = c1
  c2 = c2
  s1 = s1
  k1 = k1
  k2 = k2
  u = u
  v = v
  Contracts = {c1, c2}
  Accounts = {relayer, safe1}
  ObligationLists <- MCObligationLists
  Snapshots = {s1}
  Proofs <- MCProofs
  Partitions = {}
  NoPartition = NoPartition
  Countries = {Nil}
  Nil = Nil
  Deadlines = {1}
  DisputeBuffer = 1
  Depth = 1
  MaxTime = 2
  MaxOpenings = 2
  Relayer = relayer
  Safe = safe1
  Modes = {"safe", "live", "simulation"}
  Signers = {u, v}
  SignatureLists <- MCSignatureLists
  SafeConfigs <- MCSafeConfigs
  NoProof = NoProof
  BasicThreshold = 2
  DisputeWindow = 1
  Expiry = 1
  MaxAttempts = 2
SYMMETRY HandoffSymmetry
INVARIANTS
  HandoffSafe
  PaidOnceHoweverSent
  QuorumUnlessChanged
CHECK_DEADLOCK FALSE

SPECIFICATION MCSpec
CONSTANTS
  i1 = i1
  i2 = i2
  i1Cut = i1Cut
  i2Cut = i2Cut
  Calls = {c1, c2, c3}
  Ids <- MCIds
  Keys <- MCKeys
  KeyOf <- MCKeyOf
  Live = TRUE
  Pinning = TRUE
  ErpAddressed = TRUE
  MaxDeliveries = 1
  MaxCrashes = 1
  Nobody = Nobody
  h1 = h1
  h2 = h2
  h3 = h3
  x1 = x1
  x2 = x2
  x3 = x3
  Runs = {h1, h2, h3}
  Executions = {x1, x2}
  ExecutionOf <- MCExecutionOf
  Kwh = {0, 1, 2}
  Scale = 3
  k1 = k1
  k2 = k2
  Settlers = {s1, s2}
  SettledIds = {x1, x2, x3}
  Contracts = {k1, k2}
  ContractOf <- MCContractOf
  MaxTime = 2
  MaxRestarts = 1
  None = None
  Zero = Zero
SYMMETRY CallSymmetry
INVARIANTS
  SettlementSafe
  HookSafe
  EvidenceSafe
CHECK_DEADLOCK FALSE

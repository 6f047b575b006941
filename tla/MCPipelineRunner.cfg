SPECIFICATION MCSpec
CONSTANTS
  r1 = r1
  r2 = r2
  r3 = r3
  e1 = e1
  e2 = e2
  Runs = {r1, r2, r3}
  ExecutionIds = {e1, e2}
  ExecutionOf <- TwoAndOne
  Nil = Nil
  MAX_RETRIES = 2
  CONFIRMATION_DEPTH = 1
  MinAttempts = 2
  MaxAttempts = 2
  MaxEmptyBlocks = 0
  placeholder = placeholder
  pay = pay
  Executions = {e1}
  RequestOf <- MCDefaultRequest
  LegacySnapshot = placeholder
  Estimates = {4, 12, 16}
  BaseFees = {0, 1, 5}
  PriorityFees = {0, 2, 9}
  Multiplier = 125
  MAX_GAS_LIMIT = 15
  PriorityFee = 1
  FeeCap = 8
  FINAL_DEPTH = 2
  StuckAfter = 3
  MaxHeight = 6
  MaxPolls = 2
  Parts = {"orchestrator", "runner"}
SYMMETRY RunSymmetry
INVARIANTS
  RunnerSafe
  OverlapSettlesTwice
  OrchestratorSafe
PROPERTIES
  BreakerLatches
CHECK_DEADLOCK FALSE

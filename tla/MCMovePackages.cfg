\* Two keepers race over two epochs of two ticks with a stale limit of two;
\* two of three nodes attest two readings at two times.
SPECIFICATION MCSpec
CONSTANTS
  p = p
  c = c
  m1 = m1
  x = x
  y = y
  d = d
  Addrs = {p, c}
  Meters = {m1}
  Readings <- MCReadings
  KycRecords <- MCKycRecords
  NoKyc = NoKyc
  NoAddr = NoAddr
  EpochTimes = {3, 6}
  Sources = {0}
  Scale = 2
  Tol = 1
  EpochGap = 3
  MaxU64 = 5
  MaxBorrowed = 1
  RedemptionIds = {x, y}
  BillingOperators = {p, c}
  BorderPairs <- MCBorderPairs
  PeriodEnds = {1, 6}
  PeriodTol = 2
  DirectRecords <- MCDirectRecords
  Keepers = {k1, k2}
  Seller = Seller
  Buyer = Buyer
  None = None
  Caller = Caller
  CallerPrices <- MCCallerPrices
  Quotes <- PlainQuotes
  EnergyAmounts <- Micros
  UsdcAmounts = {201, 299}
  Purse <- RichPurse
  SlippageBps = {0, 200}
  PriceStaleMs = 2
  EpochLength = 2
  Start = 2
  MaxTime = 5
  Statuses = {"cleared", "suspended"}
  Expiries = {4}
  Devices = {d}
  Nodes = {n1, n2, n3}
  Kwh = {1, 5}
  Stamps = {2, 4}
  Nonces = {1, 2}
  MessageStatus <- ClearedThenSuspended
  DriftMs = 1
  FutureToleranceMs = 1
  WindowMs = 2
  ZkMaxAgeMs = 2
  MaxPlausibleKwh = 5
  OracleEpochLength = 2
  OracleStart = 3
  MaxClock = 5
  MaxProofs = 2
  NoClearance = NoClearance
  NoProof = NoProof
  MaxCopies = 2
  CallerKeys <- OneKey
  CallerHashes <- OneHash
  CallerReadings <- OneReading
SYMMETRY MCSymmetry
INVARIANTS
  BillingSafe
  RedemptionAddsUp
  TradesSafe
  OracleSafe
PROPERTIES
  RedemptionSteps
  RegressNeedsOvertaking
CHECK_DEADLOCK FALSE

SPECIFICATION Spec
CONSTANTS
  p = p
  c = c
  m1 = m1
  m2 = m2
  Addrs = {p, c}
  Meters = {m1, m2}
  Readings <- MCReadings
  KycRecords <- MCKycRecords
  NoKyc = NoKyc
  NoAddr = NoAddr
  EpochTimes = {3, 6}
  Sources = {3, 4}
  Scale = 2
  Tol = 1
  EpochGap = 3
  MaxU64 = 5
  MaxBorrowed = 1
SYMMETRY WalletSymmetry
INVARIANTS
  LedgerSafe
  EnergyAddsUp
PROPERTIES
  LedgerSteps
CHECK_DEADLOCK FALSE

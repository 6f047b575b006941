SPECIFICATION CarbonSpec
CONSTANTS
  p = p
  m1 = m1
  m2 = m2
  e1 = e1
  e2 = e2
  w = w
  Addrs = {p}
  Meters = {m1, m2}
  Readings <- MCReadings
  KycRecords <- MCKycRecords
  NoKyc = NoKyc
  NoAddr = NoAddr
  EpochTimes = {3, 6}
  Sources = {2, 3}
  Scale = 1
  Tol = 1
  EpochGap = 3
  MaxU64 = 3
  MaxBorrowed = 1
  Chains = {23}
  Emitters = {e1, e2}
  Wormholes = {w}
  MaxSequence = 3
SYMMETRY EmitterSymmetry
INVARIANTS
  ExportsSafe
PROPERTIES
  CarbonRefinesToken
CHECK_DEADLOCK FALSE

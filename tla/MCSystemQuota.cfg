CONSTANTS
  User = {u1}
  Host = {h1, h2}
  Boot = {b1, b2}
  Device = {d1}
  Process = {p1}
  None = None
  FENCE = 2
  QuotaInput = {2}
  ExpiryInput = {0}
  DeviceLimitInput = {1}
  RequestInput = {}
  SkewInput = {}
  SAFE_INTEGER = 5
  GRANT_CHUNK = 1
  LEASE_SECONDS = 2
  RUNTIME_FRESH_SECONDS = 99
  MaxUsers = 1
  MaxEpoch = 2
  SECOND = 1
  MaxMono = 2
  MaxSeq = 1
  MaxUsed = 0
  MaxOps = 2
  ColdOps = 0
  MaxBudgets = 4
SPECIFICATION AccountingSpec
PROPERTY QuotaKept
SYMMETRY Symmetry
CHECK_DEADLOCK FALSE

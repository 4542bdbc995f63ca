CONSTANTS
  User = {u1}
  Host = {h1}
  Boot = {b1}
  Device = {d1}
  Process = {p1}
  None = None
  FENCE = 4
  QuotaInput = {2}
  ExpiryInput = {0, 3, 5}
  DeviceLimitInput = {1}
  RequestInput = {}
  SkewInput = {}
  SAFE_INTEGER = 5
  GRANT_CHUNK = 1
  LEASE_SECONDS = 2
  RUNTIME_FRESH_SECONDS = 99
  MaxUsers = 1
  MaxEpoch = 1
  SECOND = 2
  MaxMono = 6
  MaxSeq = 2
  MaxUsed = 0
  MaxOps = 2
  ColdOps = 0
  MaxBudgets = 4
SPECIFICATION DeviceSpec
CHECK_DEADLOCK FALSE
INVARIANT EndedIsCut

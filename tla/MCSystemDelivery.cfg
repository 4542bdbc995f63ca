CONSTANTS
  User = {u1}
  Host = {h1}
  Boot = {b1, b2}
  Device = {d1}
  Process = {p1}
  None = None
  FENCE = 2
  QuotaInput = {2}
  ExpiryInput = {0}
  DeviceLimitInput = {1}
  RequestInput = {}
  SkewInput = {}
  SAFE_INTEGER = 5
  GRANT_CHUNK = 2
  LEASE_SECONDS = 2
  RUNTIME_FRESH_SECONDS = 99
  MaxUsers = 1
  MaxEpoch = 1
  SECOND = 1
  MaxMono = 1
  MaxSeq = 2
  MaxUsed = 0
  MaxOps = 3
  ColdOps = 0
  MaxBudgets = 4
SPECIFICATION DeliverySpec
CHECK_DEADLOCK FALSE
PROPERTY ExchangesComplete

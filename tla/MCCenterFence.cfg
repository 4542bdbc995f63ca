CONSTANTS
  User = {u1}
  Host = {h1}
  Boot = {b1}
  Device = {d1}
  Process = {p1, p2}
  None = None
  FENCE = 2
  QuotaInput = {2}
  ExpiryInput = {0}
  DeviceLimitInput = {1}
  RequestInput <- MCRequests
  SkewInput = {1, 3}
  SAFE_INTEGER = 5
  GRANT_CHUNK = 1
  LEASE_SECONDS = 2
  RUNTIME_FRESH_SECONDS = 9
  MaxUsers = 1
  MaxEpoch = 2
  SECOND = 1
  MaxMono = 4
  MaxSeq = 2
  MaxUsed = 0
  MaxOps = 5
  ColdOps = 0
SPECIFICATION FenceSpec
PROPERTIES EpochsKeptApart
SYMMETRY Symmetry

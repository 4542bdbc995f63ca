CONSTANTS
  User = {u1}
  Host = {h1, h2}
  Boot = {b1}
  Device = {d1, d2}
  Process = {p1}
  None = None
  FENCE = 1
  QuotaInput = {0, 3}
  ExpiryInput = {2}
  DeviceLimitInput = {1, 2}
  RequestInput <- MCRequests
  SkewInput = {}
  SAFE_INTEGER = 5
  GRANT_CHUNK = 2
  LEASE_SECONDS = 1
  RUNTIME_FRESH_SECONDS = 3
  MaxUsers = 1
  MaxEpoch = 2
  SECOND = 1
  MaxMono = 1
  MaxSeq = 2
  MaxUsed = 1
  MaxOps = 2
  ColdOps = 5
SPECIFICATION BooksSpec
SYMMETRY Symmetry
INVARIANT QuotaRespected

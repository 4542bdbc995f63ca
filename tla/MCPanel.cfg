SPECIFICATION PanelSpec
CONSTANTS
  PrefDevices = {d1}
  Contents = {1, 2}
  SlotLimit = 2
  ByteLimit = 3
  MaxRevision = 3
  Octets = {2, 3}
  FleetThreads = {1, 2}
  FleetRequests = 3
  Batches <- HubBatches
  HubThreads = {1, 2}
  FreshKeys = {"f", "g"}
  HubEdits = 1
  MaxImports = 2
  Sources = {"s"}
  Endpoints = {1, 2}
  Names = {"A", "B"}
  MaxNodes = 2
  Operations = 5
  Payloads <- ProviderPayloads
  People = {"a", "b"}
  Groups = {"g"}
  Devices = {"h"}
  SessionIds = {1, 2}
  LastStep = 1
  Enrolments = 2
  WrongCodes = 1
  LockSteps = 1
  PendingSteps = 1
  Issuers = {"i", "j"}
  Owners = {"u"}
  FlowIds = {1}
  Finishers = {1, 2}
  MaxChanges = 3
  Releases <- ReleasesTried
  Starts = 3
CHECK_DEADLOCK FALSE
INVARIANTS OnlyReviewedReplaced  RefreshFits RightsSound SessionsProved AppliedOnce
PROPERTIES RollbackRestores LoginUnderOneConfig

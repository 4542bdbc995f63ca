SPECIFICATION BackgroundSpec
CONSTANTS
  OfflineAge = 1
  DriftAge = 1
  ProbeAge = 1
  RetentionAge = 1
  MaxTraffic = 2
  ClockSteps = 1
  Feeds = {"s"}
  Urls = {1, 2}
  RefreshWait = 1
  FailureLimit = 2
  MaxDelay = 1
  FeedEdits = 2
  FeedRequests = 1
  Installs = 2
  Crashes = 1
  PipeWorkers = {1, 2}
  Callers = 3
  Profiles = {"default", "p"}
  Outlets = {1}
  DeliveryEdits = 2
  MaxPackets = 3
  FileRecords = 2
  FileLimit = 2
  ServerLimit = 2
  CaptureFaults = 2
CHECK_DEADLOCK FALSE
INVARIANTS HistoryIsReal VerdictTrue 
PROPERTIES AlertsSettle OnlyCurrentSource StopIsReached 

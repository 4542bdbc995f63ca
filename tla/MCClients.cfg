SPECIFICATION ClientsSpec
CONSTANTS
  Policies = {1, 2}
  CommandNames <- Ordered
  ReceiptLimit = 1
  Situations <- SituationsMet
  Versions = {1, 2}
  LinuxJobs = 3
  ProxyFaults = 3
  GuardFaults = 3
  Configs = {"a", "b", "bad"}
  GoodConfigs = {"a", "b"}
  CoreCalls = 3
  CoreFaults = 2
  Clients = {1, 2}
  Entry = {"h"}
  Gadgets = {1, 2}
  MaxUsers = 1
  MaxPerUser = 1
  Instants = 3
  Rotations = 3
  ClaimEdits = 4
  Flows = {1, 2}
  FlowRoutes = {"a", "b"}
  StatLimits = {1, 2}
  MaxSent = 1
  SampleCount = 3
  Cookies = {"x", "y"}
  SessionAge = 2
  ConsoleSteps = 5
  AuthAge = 1
  PingAge = 2
  StreamFrames = 3
  NodeLists <- ListsMet
  Scripts = {"none", "a", "direct"}
  MaxBody = 1
CHECK_DEADLOCK FALSE
INVARIANTS CommandOnce  RunsWhatIsSaved SettingsGivenBack NoLockout RunsChecked  CountedOnce RelayedWhole  
PROPERTY ActsForSession

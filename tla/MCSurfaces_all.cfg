SPECIFICATION MCSpec
CONSTANTS
  Surfaces = {"pause", "order", "rows", "threshold", "rotation", "resources", "login", "release"}
  Keys = {"k1"}
  Watchers = {"still", "slow", "eager"}
  KeyOf <- MCKeyOf
  PollMs <- MCPollMs
  PauseWhenHidden <- MCPauseWhenHidden
  StaleAware = {"slow"}
  MaxVersion = 2
  MaxEpoch <- MCMaxEpoch
  MaxTimers = 1
  Accounts = {"main", "a"}
  Main = "main"
  MaxThreshold = 2
  DefaultThreshold = 2
  Strategies = {"quota", "fill-first"}
  Limits = {1, 2}
  DefaultStrategy = "quota"
  DefaultLimit = 1
  MaxChanges = 3
  MaxLoads = 2
  MaxWrites = 2
  MaxSaves = 1
  MaxMounts = 2
  Releases = {1}
  MaxSha = 3
  MaxRuns = 2
  Maintainers = {"m"}
  MaxOutages = 0
  MaxByHand = 0
  LoginIds = {"a"}
  Identities = {"x"}
  Absent = "absent"
  MaxLogins = 2
  MaxSessions = 2
  MaxGrants = 2
  MaxFaults = 0
  MaxRestarts = 0
CHECK_DEADLOCK FALSE
INVARIANTS CaughtUpShowsServer AcceptedRotationStays OneLiveAttempt OnlyAuditedGetsOut CancelledNeverDone NewestTokensStay
PROPERTIES ThresholdNeverOlder PaintsForward MountedKeepsData AbandonedOnlyHidden WatchEndsForCause

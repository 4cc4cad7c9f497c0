SPECIFICATION MCLiveSpec
CONSTANTS
  Surfaces = {"resources", "threshold", "login", "release"}
  Keys = {"k1", "k2"}
  Watchers = {"still", "slow", "other"}
  KeyOf <- MCKeyOf
  PollMs <- MCPollMs
  PauseWhenHidden <- MCPauseWhenHidden
  StaleAware = {"slow"}
  MaxVersion = 1
  MaxEpoch <- MCMaxEpoch
  MaxTimers = 1
  Accounts = {"main"}
  Main = "main"
  MaxThreshold = 1
  DefaultThreshold = 1
  Strategies = {"quota"}
  Limits = {1}
  DefaultStrategy = "quota"
  DefaultLimit = 1
  MaxChanges = 2
  MaxLoads = 2
  MaxWrites = 0
  MaxSaves = 1
  MaxMounts = 1
  Releases = {1}
  MaxSha = 2
  MaxRuns = 1
  Maintainers = {"m"}
  MaxOutages = 1
  MaxByHand = 1
  LoginIds = {"a"}
  Identities = {"x", "y"}
  Absent = "absent"
  MaxLogins = 1
  MaxSessions = 1
  MaxGrants = 1
  MaxFaults = 1
  MaxRestarts = 1
CHECK_DEADLOCK FALSE
INVARIANTS CadenceFollowsWatchers AddedIsStored
PROPERTIES ImplementsLedger RefreshingEnds ThresholdSaveEnds DoneGetsReported RefreshingMarkEnds ApprovedGetsFinalized

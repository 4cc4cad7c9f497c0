SPECIFICATION MCSpec
CONSTANTS
  Surfaces = {"pause"}
  Keys = {"k1"}
  Watchers = {"still"}
  KeyOf <- MCKeyOf
  PollMs <- MCPollMs
  PauseWhenHidden <- MCPauseWhenHidden
  StaleAware = {}
  MaxVersion = 2
  MaxEpoch <- MCMaxEpoch
  MaxTimers = 1
  Accounts = {"main", "a"}
  Main = "main"
  MaxThreshold = 2
  DefaultThreshold = 2
  Strategies = {"quota", "fill-first"}
  Limits = {1, 2}
  DefaultStrategy = "quota"
  DefaultLimit = 1
  MaxChanges = 3
  MaxLoads = 2
  MaxWrites = 2
  MaxSaves = 1
  MaxMounts = 1
  Releases = {}
  MaxSha = 1
  MaxRuns = 0
  Maintainers = {}
  MaxOutages = 0
  MaxByHand = 0
  LoginIds = {"a"}
  Identities = {"x"}
  Absent = "absent"
  MaxLogins = 0
  MaxSessions = 0
  MaxGrants = 0
  MaxFaults = 0
  MaxRestarts = 0
CHECK_DEADLOCK FALSE
INVARIANTS DisagreeingReadIsStale

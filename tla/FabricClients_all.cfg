SPECIFICATION Spec
CONSTANTS
  PrimaryOwners = {"op"}
  MaxOrdinary = 5
  Reserve = 8
  Callers = {"api", "cancel", "boot"}
  MaxRuns = 2
  MaxHandoffs = 1
  MaxFaults = 1
  Ops = {"mark", "session", "close", "fail_run", "remove", "lifecycle", "progress","input", "begin", "end", "to_child", "to_parent", "reconcile", "cancel"}
INVARIANT ClaimEndsOwnRun
PROPERTY RunsAreSequential

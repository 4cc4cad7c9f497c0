SPECIFICATION Spec
CONSTANTS
  PrimaryOwners = {"op"}
  MaxOrdinary = 8
  Reserve = 8
  Callers = {"api", "cancel", "boot"}
  MaxRuns = 1
  MaxHandoffs = 2
  MaxFaults = 2
  Ops = {"begin", "end", "to_child", "to_parent", "reconcile", "cancel"}
INVARIANT HalfCommitsRecoverable

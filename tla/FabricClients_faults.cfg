SPECIFICATION LiveSpec
CONSTANTS
  PrimaryOwners = {"op"}
  MaxOrdinary = 8
  Reserve = 8
  Callers = {"api", "cancel", "boot"}
  MaxRuns = 2
  MaxHandoffs = 3
  MaxFaults = 1
  Ops = {"begin", "end", "to_child", "to_parent", "reconcile", "cancel"}
INVARIANTS HalfCommitsRecoverable LogStaysReadable LogBehindLease OneAuthority
PROPERTIES ImplementsAuthority RecoveryConverges
